--------------------------- MODULE WaitContract ---------------------------
(***************************************************************************)
(* What a long poll promises its caller, with no hub, no channels and no   *)
(* statements: a wait on an inbox ends with a message that is in that      *)
(* inbox at that moment and whose id sorts after the one the caller named, *)
(* or it ends empty-handed.  LongPoll (the hub, the polling loop and the   *)
(* reader's separate queries) implements this.                             *)
(***************************************************************************)
EXTENDS Naturals

CONSTANTS
  Inbox,      \* inbox addresses
  Waiter      \* waiting requests: HTTP /wait calls and wait_for_message calls

VARIABLES
  msgs,       \* the visible messages: records [id, inbox, recv]
  call        \* per waiter: [state, inbox, after, got]

cvars == <<msgs, call>>

Message == [id : Nat \ {0}, inbox : Inbox, recv : Nat]

NoCall(i, a) == [state |-> "idle", inbox |-> i, after |-> a, got |-> {}]

Init ==
  /\ msgs = {}
  /\ call \in [Waiter -> {NoCall(i, 0) : i \in Inbox}]

(* Messages become visible. *)
Arrive ==
  /\ msgs \subseteq msgs'
  /\ \A m \in msgs' \ msgs : m \in Message
  /\ UNCHANGED call

(* Messages are deleted: one by id, or all those of an inbox. *)
Remove ==
  /\ msgs' \subseteq msgs
  /\ UNCHANGED call

(* A caller starts to wait in some inbox for something newer than `after`. *)
Begin(w) ==
  /\ call[w].state = "idle"
  /\ call'[w].inbox \in Inbox
  /\ call'[w].after \in Nat
  /\ call' = [call EXCEPT ![w] = [NoCall(call'[w].inbox, call'[w].after)
                                   EXCEPT !.state = "waiting"]]
  /\ UNCHANGED msgs

(* The call ends with a message that is there and that the caller has not seen. *)
Answer(w, m) ==
  /\ call[w].state = "waiting"
  /\ m \in msgs
  /\ m.inbox = call[w].inbox
  /\ m.id > call[w].after
  /\ call' = [call EXCEPT ![w] = [state |-> "answered", inbox |-> @.inbox,
                                  after |-> @.after, got |-> {m}]]
  /\ UNCHANGED msgs

(* The call ends with nothing: the deadline passed or the caller hung up. *)
GiveUp(w) ==
  /\ call[w].state = "waiting"
  /\ call' = [call EXCEPT ![w].state = "empty"]
  /\ UNCHANGED msgs

(* The caller is free to call again. *)
Finish(w) ==
  /\ call[w].state \in {"answered", "empty"}
  /\ \E i \in Inbox : call' = [call EXCEPT ![w] = NoCall(i, 0)]
  /\ UNCHANGED msgs

Next ==
  \/ Arrive
  \/ Remove
  \/ \E w \in Waiter :
       \/ Begin(w)
       \/ \E m \in msgs : Answer(w, m)
       \/ GiveUp(w)
       \/ Finish(w)

Spec == Init /\ [][Next]_cvars
===========================================================================

----------------------------- MODULE LongPoll -----------------------------
(***************************************************************************)
(* The long-poll path of the server: ingest goroutines commit messages and *)
(* publish on the notification hub (internal/ingest, internal/notify);     *)
(* the HTTP handler /wait and the MCP tool wait_for_message subscribe,     *)
(* query the store, and sleep until a signal, a poll tick, the deadline or *)
(* the caller's departure (internal/api, internal/mcp).  The two waiters   *)
(* run the same loop; a Waiter stands for either.                          *)
(*                                                                         *)
(* One action per statement that another goroutine can observe: each       *)
(* database statement, each critical section of the hub's mutex, each      *)
(* channel operation.  Wall-clock time is a bounded counter `clock` of     *)
(* id-clock ticks (milliseconds); received_at keeps only whole seconds.    *)
(***************************************************************************)
EXTENDS Naturals, Sequences, FiniteSets

CONSTANTS
  Inbox,          \* inbox addresses
  Waiter,         \* long-poll requests
  Accepter,       \* ingest goroutines: SMTP sessions and HTTP ingest requests
  RcptLists,      \* the recipient lists a sender may use: sequences over Inbox
  TicksPerSecond, \* ticks of the id clock in one second of received_at
  IdsPerTick,     \* distinct ids that share one tick (their order is random)
  MaxClock,       \* bound on the clock
  MaxAccepts,     \* bound on ingest calls
  MaxDeletes,     \* bound on delete requests
  MaxReadErrors   \* bound on failed reads

ASSUME InboxAssumption == Inbox # {}
ASSUME RcptAssumption == RcptLists \subseteq Seq(Inbox)
ASSUME BoundAssumption ==
  /\ TicksPerSecond \in Nat \ {0}
  /\ IdsPerTick \in Nat \ {0}
  /\ MaxClock \in Nat /\ MaxAccepts \in Nat
  /\ MaxDeletes \in Nat /\ MaxReadErrors \in Nat

VARIABLES
  msgs,     \* committed rows of table messages: [id, inbox, recv]
  usedIds,  \* every id drawn so far (80 random bits: never drawn twice)
  clock,    \* the wall clock, in ticks
  acc,      \* per accepter: [pc, recv, todo, msg, snap]
  subs,     \* the hub: the waiters whose channel is registered
  signal,   \* per waiter: its one-slot channel is full
  req,      \* per waiter: [pc, inbox, after, cand]
  faults,   \* deletes, failed reads and ingest calls so far (bounds)
  clean     \* history: since w subscribed nothing was deleted from its
            \* inbox and none of its reads failed

vars == <<msgs, usedIds, clock, acc, subs, signal, req, faults, clean>>

Message == [id : Nat \ {0}, inbox : Inbox, recv : Nat]

---------------------------------------------------------------------------
(* The store's read of "the newest message after". *)

Of(i) == {m \in msgs : m.inbox = i}

(* ORDER BY received_at DESC, id DESC *)
NotAfter(m, n) == m.recv < n.recv \/ (m.recv = n.recv /\ m.id <= n.id)

(* LIMIT 1: the at most one message of inbox i no other comes before. *)
Newest(i) == {m \in Of(i) : \A n \in Of(i) : NotAfter(n, m)}

(* LatestMessageID: the newest message, if its id sorts after `after`
   (0 stands for the empty string, which every id sorts after). *)
LatestMessageID(i, after) == {m \in Newest(i) : m.id > after}

(* Mutant of FreshIds: a range from 0, the id that stands for "none". *)
FreshIdsFromZero ==
  {n \in (clock * IdsPerTick) .. ((clock + 1) * IdsPerTick) : n \notin usedIds}

(* id.New: the tick the clock shows, then random bits. *)
FreshIds ==
  {n \in (clock * IdsPerTick + 1) .. ((clock + 1) * IdsPerTick) : n \notin usedIds}

---------------------------------------------------------------------------
(* Ingest goroutines *)

IdleAcc == [pc |-> "idle", recv |-> 0, todo |-> <<>>, msg |-> {}, snap |-> {}]

(* Accept begins: the message is parsed and received_at is read, once for
   all recipients; in-scope recipients remain in the list. *)
AcceptStart(p, rcpts) ==
  /\ acc[p].pc = "idle"
  /\ faults.accepts < MaxAccepts
  /\ acc' = [acc EXCEPT ![p] = [IdleAcc EXCEPT !.pc = "rcpt",
                                               !.recv = clock \div TicksPerSecond,
                                               !.todo = rcpts]]
  /\ faults' = [faults EXCEPT !.accepts = @ + 1]
  /\ UNCHANGED <<msgs, usedIds, clock, subs, signal, req, clean>>

(* The loop head: the next recipient's copy gets an id of its own. *)
DrawId(p) ==
  /\ acc[p].pc = "rcpt"
  /\ acc[p].todo # <<>>
  /\ \E n \in FreshIds :
       /\ usedIds' = usedIds \cup {n}
       /\ acc' = [acc EXCEPT ![p].pc = "save",
                             ![p].todo = Tail(@),
                             ![p].msg = {[id |-> n, inbox |-> Head(acc[p].todo),
                                          recv |-> acc[p].recv]}]
  /\ UNCHANGED <<msgs, clock, subs, signal, req, faults, clean>>

(* The loop ends: Accept returns. *)
AcceptReturn(p) ==
  /\ acc[p].pc = "rcpt"
  /\ acc[p].todo = <<>>
  /\ acc' = [acc EXCEPT ![p] = IdleAcc]
  /\ UNCHANGED <<msgs, usedIds, clock, subs, signal, req, faults, clean>>

(* SaveMessage commits: the copy is visible to every reader. *)
SaveMessage(p) ==
  /\ acc[p].pc = "save"
  /\ msgs' = msgs \cup acc[p].msg
  /\ acc' = [acc EXCEPT ![p].pc = "publish"]
  /\ UNCHANGED <<usedIds, clock, subs, signal, req, faults, clean>>

(* SaveMessage fails: Accept returns the error, the rest is not tried. *)
SaveFails(p) ==
  /\ acc[p].pc = "save"
  /\ acc' = [acc EXCEPT ![p] = IdleAcc]
  /\ UNCHANGED <<msgs, usedIds, clock, subs, signal, req, faults, clean>>

(* Publish, first half: the inbox's channels are copied under the mutex. *)
PublishSnapshot(p) ==
  /\ acc[p].pc = "publish"
  /\ acc' = [acc EXCEPT ![p].pc = "send",
               ![p].snap = {w \in subs : \E m \in acc[p].msg : req[w].inbox = m.inbox}]
  /\ UNCHANGED <<msgs, usedIds, clock, subs, signal, req, faults, clean>>

(* Mutant of PublishSend: a send that waits for room in the channel. *)
PublishSendBlocking(p, w) ==
  /\ acc[p].pc = "send"
  /\ w \in acc[p].snap
  /\ ~signal[w]
  /\ signal' = [signal EXCEPT ![w] = TRUE]
  /\ acc' = [acc EXCEPT ![p].snap = @ \ {w}]
  /\ UNCHANGED <<msgs, usedIds, clock, subs, req, faults, clean>>

(* Publish, second half: one non-blocking send; a full channel keeps the
   signal it has. *)
PublishSend(p, w) ==
  /\ acc[p].pc = "send"
  /\ w \in acc[p].snap
  /\ signal' = [signal EXCEPT ![w] = TRUE]
  /\ acc' = [acc EXCEPT ![p].snap = @ \ {w}]
  /\ UNCHANGED <<msgs, usedIds, clock, subs, req, faults, clean>>

(* Publish returns and the loop goes on with the next recipient (what
   maybeForward does to the job queue is module Ingest's subject). *)
PublishDone(p) ==
  /\ acc[p].pc = "send"
  /\ acc[p].snap = {}
  /\ acc' = [acc EXCEPT ![p].pc = "rcpt", ![p].msg = {}]
  /\ UNCHANGED <<msgs, usedIds, clock, subs, signal, req, faults, clean>>

---------------------------------------------------------------------------
(* Long-poll requests *)

NoReq == [pc |-> "idle", inbox |-> CHOOSE i \in Inbox : TRUE, after |-> 0, cand |-> {}]

(* A request arrives; `after` is "" or an id the caller has seen. *)
WaitCall(w, i, after) ==
  /\ req[w].pc = "idle"
  /\ req' = [req EXCEPT ![w] = [NoReq EXCEPT !.pc = "subscribe", !.inbox = i, !.after = after]]
  /\ UNCHANGED <<msgs, usedIds, clock, acc, subs, signal, faults, clean>>

(* Mutant of Subscribe: no query between the subscription and the select. *)
SubscribeAndSleep(w) ==
  /\ req[w].pc = "subscribe"
  /\ subs' = subs \cup {w}
  /\ signal' = [signal EXCEPT ![w] = FALSE]
  /\ clean' = [clean EXCEPT ![w] = TRUE]
  /\ req' = [req EXCEPT ![w].pc = "select"]
  /\ UNCHANGED <<msgs, usedIds, clock, acc, faults>>

(* Subscribe: an empty one-slot channel is registered under the mutex,
   before the first query. *)
Subscribe(w) ==
  /\ req[w].pc = "subscribe"
  /\ subs' = subs \cup {w}
  /\ signal' = [signal EXCEPT ![w] = FALSE]
  /\ clean' = [clean EXCEPT ![w] = TRUE]
  /\ req' = [req EXCEPT ![w].pc = "latest"]
  /\ UNCHANGED <<msgs, usedIds, clock, acc, faults>>

(* newestAfter, first query: the id of the newest message, or back to the
   select when there is nothing newer. *)
ReadLatest(w) ==
  /\ req[w].pc = "latest"
  /\ LET found == LatestMessageID(req[w].inbox, req[w].after) IN
       req' = [req EXCEPT ![w].pc = IF found = {} THEN "select" ELSE "fetch",
                          ![w].cand = found]
  /\ UNCHANGED <<msgs, usedIds, clock, acc, subs, signal, faults, clean>>

(* Mutant of Fetch: the row is taken for granted. *)
FetchUnchecked(w) ==
  /\ req[w].pc = "fetch"
  /\ req' = [req EXCEPT ![w].pc = "respond"]
  /\ UNCHANGED <<msgs, usedIds, clock, acc, subs, signal, faults, clean>>

(* newestAfter, second query: the full message, unless it was deleted in
   between. *)
Fetch(w) ==
  /\ req[w].pc = "fetch"
  /\ req' = IF req[w].cand \subseteq msgs
            THEN [req EXCEPT ![w].pc = "respond"]
            ELSE [req EXCEPT ![w].pc = "select", ![w].cand = {}]
  /\ UNCHANGED <<msgs, usedIds, clock, acc, subs, signal, faults, clean>>

(* Either query fails: newestAfter answers nil, as if nothing was there. *)
ReadFails(w) ==
  /\ req[w].pc \in {"latest", "fetch"}
  /\ faults.reads < MaxReadErrors
  /\ faults' = [faults EXCEPT !.reads = @ + 1]
  /\ req' = [req EXCEPT ![w].pc = "select", ![w].cand = {}]
  /\ clean' = [clean EXCEPT ![w] = FALSE]
  /\ UNCHANGED <<msgs, usedIds, clock, acc, subs, signal>>

(* select, case <-ch *)
ReceiveSignal(w) ==
  /\ req[w].pc = "select"
  /\ signal[w]
  /\ signal' = [signal EXCEPT ![w] = FALSE]
  /\ req' = [req EXCEPT ![w].pc = "latest"]
  /\ UNCHANGED <<msgs, usedIds, clock, acc, subs, faults, clean>>

(* Mutant of PollTick: a poll that only looks when there is a signal. *)
PollTickOnSignal(w) ==
  /\ req[w].pc = "select"
  /\ signal[w]
  /\ req' = [req EXCEPT ![w].pc = "latest"]
  /\ UNCHANGED <<msgs, usedIds, clock, acc, subs, signal, faults, clean>>

(* select, case <-poll.C: the two-second ticker. *)
PollTick(w) ==
  /\ req[w].pc = "select"
  /\ req' = [req EXCEPT ![w].pc = "latest"]
  /\ UNCHANGED <<msgs, usedIds, clock, acc, subs, signal, faults, clean>>

(* select, case <-deadline.C or the request's context is done. *)
Deadline(w) ==
  /\ req[w].pc = "select"
  /\ req' = [req EXCEPT ![w].pc = "timeout"]
  /\ UNCHANGED <<msgs, usedIds, clock, acc, subs, signal, faults, clean>>

(* Mutant of Return: an exit that does not run the cancel. *)
ReturnWithoutCancel(w) ==
  /\ req[w].pc \in {"respond", "timeout"}
  /\ req' = [req EXCEPT ![w] = NoReq]
  /\ UNCHANGED <<msgs, usedIds, clock, acc, subs, signal, faults, clean>>

(* The deferred cancel: the channel leaves the hub.  A publisher that still
   holds the channel in its snapshot may send to it, but nobody will ever
   receive from it again, so it is dropped from the snapshots as well: the
   next call's channel is a different one. *)
Return(w) ==
  /\ req[w].pc \in {"respond", "timeout"}
  /\ subs' = subs \ {w}
  /\ signal' = [signal EXCEPT ![w] = FALSE]
  /\ acc' = [p \in Accepter |-> [acc[p] EXCEPT !.snap = @ \ {w}]]
  /\ req' = [req EXCEPT ![w] = NoReq]
  /\ UNCHANGED <<msgs, usedIds, clock, faults, clean>>

---------------------------------------------------------------------------
(* Environment *)

(* DELETE FROM messages WHERE id = ? / WHERE inbox = ?, one statement. *)
DeleteRows(S) ==
  /\ S # {}
  /\ faults.deletes < MaxDeletes
  /\ faults' = [faults EXCEPT !.deletes = @ + 1]
  /\ msgs' = msgs \ S
  /\ clean' = [w \in Waiter |-> clean[w] /\ \A m \in S : m.inbox # req[w].inbox]
  /\ UNCHANGED <<usedIds, clock, acc, subs, signal, req>>

DeleteMessage(m) == DeleteRows({m})
DeleteInbox(i) == DeleteRows(Of(i))

Tick ==
  /\ clock < MaxClock
  /\ clock' = clock + 1
  /\ UNCHANGED <<msgs, usedIds, acc, subs, signal, req, faults, clean>>

---------------------------------------------------------------------------
Init ==
  /\ msgs = {}
  /\ usedIds = {}
  /\ clock = 0
  /\ acc = [p \in Accepter |-> IdleAcc]
  /\ subs = {}
  /\ signal = [w \in Waiter |-> FALSE]
  /\ req = [w \in Waiter |-> NoReq]
  /\ faults = [accepts |-> 0, deletes |-> 0, reads |-> 0]
  /\ clean = [w \in Waiter |-> TRUE]

AcceptStep(p) ==
  \/ DrawId(p) \/ AcceptReturn(p)
  \/ SaveMessage(p) \/ SaveFails(p)
  \/ PublishSnapshot(p) \/ PublishDone(p)
  \/ \E w \in Waiter : PublishSend(p, w)

WaitStep(w) ==
  \/ Subscribe(w) \/ ReadLatest(w) \/ Fetch(w) \/ Return(w)

Next ==
  \/ \E p \in Accepter :
       \/ \E rcpts \in RcptLists : AcceptStart(p, rcpts)
       \/ AcceptStep(p)
  \/ \E w \in Waiter :
       \/ \E i \in Inbox, a \in usedIds \cup {0} : WaitCall(w, i, a)
       \/ WaitStep(w)
       \/ ReadFails(w) \/ ReceiveSignal(w) \/ PollTick(w) \/ Deadline(w)
  \/ \E m \in msgs : DeleteMessage(m)
  \/ \E i \in Inbox : DeleteInbox(i)
  \/ Tick

Spec == Init /\ [][Next]_vars

(* Scheduling: every goroutine that can run does.  An accepter runs to the
   end of its call; a waiter's queries finish and its ticker fires.  Nothing
   is assumed of senders, of callers, of deletes, or of the deadline. *)
AcceptFairness == \A p \in Accepter : WF_vars(AcceptStep(p))
WaitFairness == \A w \in Waiter : WF_vars(WaitStep(w)) /\ WF_vars(PollTick(w))

(* The waiters may be as slow as they like; what needs them to run says so. *)
SlowWaitersSpec == Spec /\ AcceptFairness

---------------------------------------------------------------------------
(* Properties *)

AccState == [pc : {"idle", "rcpt", "save", "publish", "send"}, recv : Nat,
             todo : Seq(Inbox), msg : SUBSET Message, snap : SUBSET Waiter]

ReqState == [pc : {"idle", "subscribe", "latest", "fetch", "select", "respond", "timeout"},
             inbox : Inbox, after : Nat, cand : SUBSET Message]

(* The types of the variables. *)
TypeOK ==
  /\ msgs \subseteq Message
  /\ usedIds \subseteq Nat
  /\ clock \in Nat
  /\ acc \in [Accepter -> AccState]
  /\ subs \subseteq Waiter
  /\ signal \in [Waiter -> BOOLEAN]
  /\ req \in [Waiter -> ReqState]
  /\ faults \in [accepts : Nat, deletes : Nat, reads : Nat]
  /\ clean \in [Waiter -> BOOLEAN]

Waiting(w) == req[w].pc \in {"subscribe", "latest", "fetch", "select"}

(* Accepter p has committed a message for w's inbox and has still to signal w. *)
Announcing(p, w) ==
  /\ \E m \in acc[p].msg : m.inbox = req[w].inbox
  /\ \/ acc[p].pc = "publish"
     \/ acc[p].pc = "send" /\ w \in acc[p].snap

(* No lost wakeup.  A waiter that sleeps in its select with an empty channel
   while the store holds a message its query would return is about to be
   signalled: some ingest call has committed and has not sent yet.  Only a
   delete from its inbox or a failed read since it subscribed (history
   variable clean) leaves the two-second poll as its only rescue.  It rests
   on the order subscribe, query, sleep in handleWait ("Subscribe before the
   first DB check so we never miss an arrival") and on Accept publishing
   after the commit. *)
NoLostWakeup ==
  \A w \in Waiter :
    (/\ req[w].pc = "select"
     /\ ~signal[w]
     /\ clean[w]
     /\ LatestMessageID(req[w].inbox, req[w].after) # {})
    => \E p \in Accepter : Announcing(p, w)

(* The hub holds the channels of the calls in progress and no others: every
   exit of the handler runs the deferred cancel. *)
HubHoldsLiveCalls ==
  subs = {w \in Waiter : req[w].pc \notin {"idle", "subscribe"}}

(* The row the query found is in the caller's inbox and newer. *)
CandIsNewer ==
  \A w \in Waiter : req[w].pc \in {"fetch", "respond"} =>
    \E m \in req[w].cand : /\ req[w].cand = {m}
                           /\ m.inbox = req[w].inbox
                           /\ m.id > req[w].after

(* Between the two queries the row can only vanish through a delete. *)
CandIsStored ==
  \A w \in Waiter : (req[w].pc = "fetch" /\ clean[w]) => req[w].cand \subseteq msgs

(* The inductive invariant behind NoLostWakeup and KeepsContract. *)
IInv == TypeOK /\ HubHoldsLiveCalls /\ CandIsNewer /\ CandIsStored /\ NoLostWakeup

(* What the caller of a request sees of it. *)
View(r) ==
  [state |-> CASE r.pc \in {"subscribe", "latest", "fetch", "select"} -> "waiting"
               [] r.pc = "respond" -> "answered"
               [] r.pc = "timeout" -> "empty"
               [] OTHER -> "idle",
   inbox |-> r.inbox,
   after |-> r.after,
   got |-> IF r.pc = "respond" THEN r.cand ELSE {}]

CallView == [w \in Waiter |-> View(req[w])]

Contract == INSTANCE WaitContract WITH call <- CallView

(* The long poll as a whole keeps the contract its callers see.  Every step
   of the loop, the hub and the store is a step of the contract or none:
   a request is answered with a message that is in the inbox when the answer
   is fetched and newer than the caller's `after`, or not at all. *)
KeepsContract == Contract!Spec

(* "A dropped notification only costs latency, never correctness"
   (notify.go): whatever signals are lost, overtaken or spent on a read that
   came back empty, a waiter that runs, and whose query would find a message,
   gets to answer it, without any help from the deadline. *)
WaitersAreAnswered ==
  WaitFairness =>
  \A w \in Waiter :
    (Waiting(w) /\ LatestMessageID(req[w].inbox, req[w].after) # {})
      ~> (~Waiting(w) \/ LatestMessageID(req[w].inbox, req[w].after) = {})

(* "The channel is buffered so Publish never blocks on a slow reader"
   (notify.go): an ingest call ends however slow the waiters are, even if
   none of them ever takes another step. *)
PublishNeverBlocks == \A p \in Accepter : acc[p].pc # "idle" ~> acc[p].pc = "idle"

(* What callers read in the documentation of LatestMessageID and /wait: as
   long as a message with an id after the one the caller saw is in the inbox,
   the query finds one. *)
LatestFindsNewer ==
  \A w \in Waiter :
    (/\ req[w].pc = "latest"
     /\ \E m \in Of(req[w].inbox) : m.id = req[w].after
     /\ \E m \in Of(req[w].inbox) : m.id > req[w].after)
    => LatestMessageID(req[w].inbox, req[w].after) # {}
===========================================================================

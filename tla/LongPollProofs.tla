-------------------------- MODULE LongPollProofs --------------------------
(***************************************************************************)
(* TLAPS proofs about LongPoll, for every set of inboxes, waiters and      *)
(* accepters and every bound: the type invariant, the absence of lost      *)
(* wakeups, and the step simulation behind KeepsContract.                  *)
(***************************************************************************)
EXTENDS LongPoll, TLAPS

(* Ids drawn in any tick are positive naturals (id.New). *)
LEMMA FreshIdsPositive == clock \in Nat => FreshIds \subseteq Nat \ {0}
<1> SUFFICES ASSUME clock \in Nat, NEW n \in FreshIds
             PROVE  n \in Nat \ {0}
  OBVIOUS
<1> DEFINE lo == clock * IdsPerTick
           hi == (clock + 1) * IdsPerTick
<1>1. lo \in Nat /\ hi \in Nat
  BY BoundAssumption
<1>2. n \in (lo + 1) .. hi
  BY DEF FreshIds
<1> HIDE DEF lo, hi
<1> QED BY <1>1, <1>2

(* received_at is a natural number of seconds. *)
LEMMA SecondsAreNatural == clock \in Nat => clock \div TicksPerSecond \in Nat
<1> SUFFICES ASSUME clock \in Nat PROVE clock \div TicksPerSecond \in Nat
  OBVIOUS
<1> QED BY BoundAssumption, SMTT(30)

(* The request record every waiter starts from is well typed. *)
LEMMA NoReqType == NoReq \in ReqState
BY InboxAssumption DEF NoReq, ReqState

LEMMA IdleAccType == IdleAcc \in AccState
<1>1. <<>> \in Seq(Inbox)
  OBVIOUS
<1> QED BY <1>1 DEF IdleAcc, AccState

(* Every step of an ingest goroutine keeps the types. *)
LEMMA AcceptTypes ==
  ASSUME TypeOK, NEW p \in Accepter,
         (\E rcpts \in RcptLists : AcceptStart(p, rcpts)) \/ AcceptStep(p)
  PROVE  TypeOK'
<1> USE DEF TypeOK
<1>0. acc[p] \in AccState
  OBVIOUS
<1>1. ASSUME NEW rcpts \in RcptLists, AcceptStart(p, rcpts) PROVE TypeOK'
  <2>1. rcpts \in Seq(Inbox)
    BY RcptAssumption
  <2>2. [IdleAcc EXCEPT !.pc = "rcpt", !.recv = clock \div TicksPerSecond,
                        !.todo = rcpts] \in AccState
    BY <2>1, SecondsAreNatural DEF IdleAcc, AccState
  <2>3. acc' \in [Accepter -> AccState]
    BY <1>1, <2>2 DEF AcceptStart
  <2>4. faults.accepts + 1 \in Nat
    OBVIOUS
  <2>5. faults' \in [accepts : Nat, deletes : Nat, reads : Nat]
    BY <1>1, <2>4 DEF AcceptStart
  <2> QED BY <1>1, <2>3, <2>5 DEF AcceptStart
<1>2. CASE DrawId(p)
  <2>1. PICK n \in FreshIds :
          /\ usedIds' = usedIds \cup {n}
          /\ acc' = [acc EXCEPT ![p].pc = "save",
                                ![p].todo = Tail(@),
                                ![p].msg = {[id |-> n, inbox |-> Head(acc[p].todo),
                                             recv |-> acc[p].recv]}]
    BY <1>2 DEF DrawId
  <2>2. n \in Nat \ {0}
    BY FreshIdsPositive
  <2>3. acc[p].todo \in Seq(Inbox) /\ acc[p].todo # <<>>
    BY <1>0, <1>2 DEF DrawId, AccState
  <2>4. Head(acc[p].todo) \in Inbox /\ Tail(acc[p].todo) \in Seq(Inbox)
    BY <2>3
  <2>5. acc' \in [Accepter -> AccState]
    BY <1>0, <2>1, <2>2, <2>4 DEF AccState, Message
  <2>6. usedIds' \subseteq Nat
    BY <2>1, <2>2
  <2> QED BY <1>2, <2>5, <2>6 DEF DrawId
<1>3. CASE AcceptReturn(p)
  BY <1>3, IdleAccType DEF AcceptReturn
<1>4. CASE SaveMessage(p)
  BY <1>0, <1>4 DEF SaveMessage, AccState
<1>5. CASE SaveFails(p)
  BY <1>5, IdleAccType DEF SaveFails
<1>6. CASE PublishSnapshot(p)
  <2>1. acc' \in [Accepter -> AccState]
    BY <1>0, <1>6 DEF PublishSnapshot, AccState
  <2> QED BY <1>6, <2>1 DEF PublishSnapshot
<1>7. CASE PublishDone(p)
  BY <1>0, <1>7 DEF PublishDone, AccState
<1>8. ASSUME NEW w \in Waiter, PublishSend(p, w) PROVE TypeOK'
  BY <1>0, <1>8 DEF PublishSend, AccState
<1> QED BY <1>1, <1>2, <1>3, <1>4, <1>5, <1>6, <1>7, <1>8 DEF AcceptStep

(* The query returns at most one row, and that row is in the inbox and newer. *)
LEMMA LatestIsOneNewerRow ==
  ASSUME msgs \subseteq Message, NEW i, NEW after,
         LatestMessageID(i, after) # {}
  PROVE  \E m \in msgs : /\ LatestMessageID(i, after) = {m}
                         /\ m.inbox = i
                         /\ m.id > after
<1>1. PICK m : m \in LatestMessageID(i, after)
  OBVIOUS
<1>2. m \in Newest(i) /\ m.id > after
  BY <1>1 DEF LatestMessageID
<1>3. m \in msgs /\ m.inbox = i
  BY <1>2 DEF Newest, Of
<1>4. ASSUME NEW n \in LatestMessageID(i, after) PROVE n = m
  <2>1. n \in Newest(i)
    BY DEF LatestMessageID
  <2>2. n \in Message /\ m \in Message /\ n.inbox = i
    BY <1>3, <2>1 DEF Newest, Of
  <2>3. NotAfter(n, m) /\ NotAfter(m, n)
    BY <1>2, <2>1 DEF Newest
  <2>4. n.recv = m.recv /\ n.id = m.id
    BY <2>2, <2>3 DEF NotAfter, Message
  <2> QED BY <1>3, <2>2, <2>4 DEF Message
<1> QED BY <1>1, <1>2, <1>3, <1>4

LEMMA LatestIsStored ==
  ASSUME NEW i, NEW after
  PROVE  LatestMessageID(i, after) \subseteq msgs
BY DEF LatestMessageID, Newest, Of

(* Every step of a long-poll request keeps the types. *)
LEMMA WaitTypes ==
  ASSUME TypeOK, NEW w \in Waiter,
         \/ \E i \in Inbox, a \in usedIds \cup {0} : WaitCall(w, i, a)
         \/ WaitStep(w)
         \/ ReadFails(w) \/ ReceiveSignal(w) \/ PollTick(w) \/ Deadline(w)
  PROVE  TypeOK'
<1> USE DEF TypeOK
<1>0. req[w] \in ReqState
  OBVIOUS
<1>1. ASSUME NEW i \in Inbox, NEW a \in usedIds \cup {0}, WaitCall(w, i, a) PROVE TypeOK'
  <2>1. a \in Nat
    OBVIOUS
  <2>2. [NoReq EXCEPT !.pc = "subscribe", !.inbox = i, !.after = a] \in ReqState
    BY <2>1, NoReqType DEF ReqState
  <2> QED BY <1>1, <2>2 DEF WaitCall
<1>2. CASE Subscribe(w)
  BY <1>0, <1>2 DEF Subscribe, ReqState
<1>3. CASE ReadLatest(w)
  <2>1. LatestMessageID(req[w].inbox, req[w].after) \subseteq Message
    BY LatestIsStored
  <2>2. req' \in [Waiter -> ReqState]
    BY <1>0, <1>3, <2>1 DEF ReadLatest, ReqState
  <2> QED BY <1>3, <2>2 DEF ReadLatest
<1>4. CASE Fetch(w)
  <2>1. req' \in [Waiter -> ReqState]
    BY <1>0, <1>4 DEF Fetch, ReqState
  <2> QED BY <1>4, <2>1 DEF Fetch
<1>5. CASE Return(w)
  <2>1. ASSUME NEW p \in Accepter PROVE [acc[p] EXCEPT !.snap = @ \ {w}] \in AccState
    BY DEF AccState
  <2>2. acc' \in [Accepter -> AccState]
    BY <1>5, <2>1 DEF Return
  <2>3. req' \in [Waiter -> ReqState]
    BY <1>5, NoReqType DEF Return
  <2> QED BY <1>5, <2>2, <2>3 DEF Return
<1>6. CASE ReadFails(w)
  <2>1. req' \in [Waiter -> ReqState]
    BY <1>0, <1>6 DEF ReadFails, ReqState
  <2>2. faults.reads + 1 \in Nat
    OBVIOUS
  <2>3. faults' \in [accepts : Nat, deletes : Nat, reads : Nat]
    BY <1>6, <2>2 DEF ReadFails
  <2> QED BY <1>6, <2>1, <2>3 DEF ReadFails
<1>7. CASE ReceiveSignal(w)
  BY <1>0, <1>7 DEF ReceiveSignal, ReqState
<1>8. CASE PollTick(w)
  BY <1>0, <1>8 DEF PollTick, ReqState
<1>9. CASE Deadline(w)
  BY <1>0, <1>9 DEF Deadline, ReqState
<1> QED BY <1>1, <1>2, <1>3, <1>4, <1>5, <1>6, <1>7, <1>8, <1>9 DEF WaitStep

(* So does the environment. *)
LEMMA EnvironmentTypes ==
  ASSUME TypeOK, (\E S \in SUBSET msgs : DeleteRows(S)) \/ Tick
  PROVE  TypeOK'
<1> USE DEF TypeOK
<1>1. ASSUME NEW S \in SUBSET msgs, DeleteRows(S) PROVE TypeOK'
  <2>1. clean' \in [Waiter -> BOOLEAN]
    BY <1>1 DEF DeleteRows
  <2>2. faults.deletes + 1 \in Nat
    OBVIOUS
  <2>3. faults' \in [accepts : Nat, deletes : Nat, reads : Nat]
    BY <1>1, <2>2 DEF DeleteRows
  <2> QED BY <1>1, <2>1, <2>3 DEF DeleteRows
<1>2. CASE Tick
  BY <1>2 DEF Tick
<1> QED BY <1>1, <1>2

(* Next, cut into the three kinds of step the proofs treat. *)
LEMMA NextKinds ==
  ASSUME Next
  PROVE  \/ \E p \in Accepter :
              (\E rcpts \in RcptLists : AcceptStart(p, rcpts)) \/ AcceptStep(p)
         \/ \E w \in Waiter :
              \/ \E i \in Inbox, a \in usedIds \cup {0} : WaitCall(w, i, a)
              \/ WaitStep(w)
              \/ ReadFails(w) \/ ReceiveSignal(w) \/ PollTick(w) \/ Deadline(w)
         \/ \E S \in SUBSET msgs : DeleteRows(S)
         \/ Tick
<1>1. \A i \in Inbox : Of(i) \in SUBSET msgs
  BY DEF Of
<1>2. \A m \in msgs : {m} \in SUBSET msgs
  OBVIOUS
<1> QED BY <1>1, <1>2 DEF Next, DeleteMessage, DeleteInbox

(* The type invariant holds in every state of the long-poll path. *)
THEOREM TypeCorrect == Spec => []TypeOK
<1>1. Init => TypeOK
  BY IdleAccType, NoReqType DEF Init, TypeOK
<1>2. TypeOK /\ [Next]_vars => TypeOK'
  <2>1. ASSUME TypeOK, Next PROVE TypeOK'
    BY <2>1, NextKinds, AcceptTypes, WaitTypes, EnvironmentTypes
  <2>2. ASSUME TypeOK, UNCHANGED vars PROVE TypeOK'
    BY <2>2 DEF TypeOK, vars
  <2> QED BY <2>1, <2>2
<1> QED BY <1>1, <1>2, PTL DEF Spec

(* A query depends on the rows of its own inbox only. *)
LEMMA LatestDependsOnInbox ==
  ASSUME NEW i, NEW after, Of(i)' = Of(i)
  PROVE  LatestMessageID(i, after)' = LatestMessageID(i, after)
BY DEF LatestMessageID, Newest

(* Ingest steps keep the inductive invariant. *)
LEMMA AcceptInv ==
  ASSUME IInv, TypeOK', NEW p \in Accepter,
         (\E rcpts \in RcptLists : AcceptStart(p, rcpts)) \/ AcceptStep(p)
  PROVE  IInv'
<1>1. UNCHANGED <<req, subs, clean>> /\ msgs \subseteq msgs'
  BY DEF AcceptStep, AcceptStart, DrawId, AcceptReturn, SaveMessage, SaveFails,
         PublishSnapshot, PublishSend, PublishDone
<1>2. HubHoldsLiveCalls' /\ CandIsNewer' /\ CandIsStored'
  BY <1>1 DEF IInv, HubHoldsLiveCalls, CandIsNewer, CandIsStored
<1>3. ASSUME NEW w \in Waiter, req[w].pc = "select", ~signal'[w], clean[w],
             LatestMessageID(req[w].inbox, req[w].after)' # {}
      PROVE  \E q \in Accepter : Announcing(q, w)'
  <2> DEFINE i == req[w].inbox
             a == req[w].after
  <2>a. i' = i /\ a' = a /\ acc \in [Accepter -> AccState] /\ signal \in [Waiter -> BOOLEAN]
    BY <1>1 DEF IInv, TypeOK
  <2>0. w \in subs
    BY <1>3 DEF IInv, HubHoldsLiveCalls
  \* A step that neither commits nor sends leaves the waiter as it was.
  <2>1. ASSUME UNCHANGED msgs, ~signal[w],
               \A q \in Accepter : Announcing(q, w) => Announcing(q, w)'
        PROVE  \E q \in Accepter : Announcing(q, w)'
    <3>1. LatestMessageID(i, a)' = LatestMessageID(i, a)
      BY <2>1, <2>a, LatestDependsOnInbox DEF Of
    <3>2. LatestMessageID(i, a) # {}
      BY <1>3, <3>1, <2>a
    <3>3. PICK q \in Accepter : Announcing(q, w)
      BY <1>3, <2>1, <3>2 DEF IInv, NoLostWakeup
    <3> QED BY <2>1, <3>3
  <2>2. ASSUME NEW rcpts \in RcptLists, AcceptStart(p, rcpts)
        PROVE  \E q \in Accepter : Announcing(q, w)'
    BY <1>1, <1>3, <2>1, <2>2, <2>a DEF AcceptStart, Announcing, IdleAcc
  <2>3. CASE DrawId(p) \/ AcceptReturn(p) \/ SaveFails(p)
    BY <1>1, <1>3, <2>1, <2>3, <2>a DEF DrawId, AcceptReturn, SaveFails, Announcing, IdleAcc
  <2>4. CASE SaveMessage(p)
    <3>1. CASE \E m \in acc[p].msg : m.inbox = i
      <4>1. acc'[p].pc = "publish" /\ acc'[p].msg = acc[p].msg
        BY <2>4, <2>a DEF SaveMessage, AccState
      <4>2. Announcing(p, w)'
        BY <1>1, <3>1, <4>1 DEF Announcing
      <4> QED BY <4>2
    <3>2. CASE \A m \in acc[p].msg : m.inbox # i
      <4>1. Of(i)' = Of(i)
        BY <1>1, <2>4, <3>2 DEF SaveMessage, Of
      <4>2. LatestMessageID(i, a) # {}
        BY <1>3, <4>1, <2>a, LatestDependsOnInbox
      <4>3. PICK q \in Accepter : Announcing(q, w)
        BY <1>3, <2>4, <4>2 DEF IInv, NoLostWakeup, SaveMessage
      <4>4. Announcing(q, w)'
        BY <1>1, <2>4, <2>a, <4>3 DEF SaveMessage, Announcing
      <4> QED BY <4>4
    <3> QED BY <3>1, <3>2
  <2>5. CASE PublishSnapshot(p)
    <3>1. \A q \in Accepter : Announcing(q, w) => Announcing(q, w)'
      BY <1>1, <2>0, <2>5, <2>a DEF PublishSnapshot, Announcing, AccState
    <3> QED BY <1>3, <2>1, <2>5, <3>1 DEF PublishSnapshot
  <2>6. ASSUME NEW v \in Waiter, PublishSend(p, v)
        PROVE  \E q \in Accepter : Announcing(q, w)'
    <3>1. v # w /\ ~signal[w]
      BY <1>3, <2>6, <2>a DEF PublishSend
    <3>2. \A q \in Accepter : Announcing(q, w) => Announcing(q, w)'
      BY <1>1, <2>6, <2>a, <3>1 DEF PublishSend, Announcing, AccState
    <3> QED BY <2>1, <2>6, <3>1, <3>2 DEF PublishSend
  <2>7. CASE PublishDone(p)
    <3>1. \A q \in Accepter : Announcing(q, w) => Announcing(q, w)'
      BY <1>1, <2>7, <2>a DEF PublishDone, Announcing
    <3> QED BY <1>3, <2>1, <2>7, <3>1 DEF PublishDone
  <2> QED BY <2>2, <2>3, <2>4, <2>5, <2>6, <2>7 DEF AcceptStep
<1>4. NoLostWakeup'
  BY <1>1, <1>3 DEF NoLostWakeup
<1> QED BY <1>2, <1>4 DEF IInv

(* Request steps keep the inductive invariant. *)
LEMMA WaitInv ==
  ASSUME IInv, TypeOK', NEW v \in Waiter,
         \/ \E i \in Inbox, a \in usedIds \cup {0} : WaitCall(v, i, a)
         \/ WaitStep(v)
         \/ ReadFails(v) \/ ReceiveSignal(v) \/ PollTick(v) \/ Deadline(v)
  PROVE  IInv'
<1> USE DEF IInv
<1>t. /\ req[v] \in ReqState /\ req'[v] \in ReqState
      /\ acc \in [Accepter -> AccState] /\ subs \subseteq Waiter /\ subs' \subseteq Waiter
      /\ signal \in [Waiter -> BOOLEAN] /\ clean \in [Waiter -> BOOLEAN]
      /\ signal' \in [Waiter -> BOOLEAN] /\ clean' \in [Waiter -> BOOLEAN]
      /\ req \in [Waiter -> ReqState] /\ req' \in [Waiter -> ReqState]
  BY DEF TypeOK
<1>m. UNCHANGED msgs
  BY DEF WaitStep, WaitCall, Subscribe, ReadLatest, Fetch, Return, ReadFails,
         ReceiveSignal, PollTick, Deadline
<1>o. ASSUME NEW w \in Waiter, w # v
      PROVE  /\ req'[w] = req[w] /\ clean'[w] = clean[w] /\ signal'[w] = signal[w]
             /\ w \in subs' <=> w \in subs
  <2>1. req'[w] = req[w]
    BY <1>t, <1>o DEF WaitStep, WaitCall, Subscribe, ReadLatest, Fetch, Return, ReadFails,
         ReceiveSignal, PollTick, Deadline
  <2>2. clean'[w] = clean[w]
    BY <1>t, <1>o DEF WaitStep, WaitCall, Subscribe, ReadLatest, Fetch, Return, ReadFails,
         ReceiveSignal, PollTick, Deadline
  <2>3. signal'[w] = signal[w]
    BY <1>t, <1>o DEF WaitStep, WaitCall, Subscribe, ReadLatest, Fetch, Return, ReadFails,
         ReceiveSignal, PollTick, Deadline
  <2>4. w \in subs' <=> w \in subs
    BY <1>t, <1>o DEF WaitStep, WaitCall, Subscribe, ReadLatest, Fetch, Return, ReadFails,
         ReceiveSignal, PollTick, Deadline
  <2> QED BY <2>1, <2>2, <2>3, <2>4
<1>0. /\ UNCHANGED msgs
      /\ req[v] \in ReqState /\ req'[v] \in ReqState
      /\ \A w \in Waiter \ {v} : /\ req'[w] = req[w]
                                 /\ clean'[w] = clean[w]
                                 /\ signal'[w] = signal[w]
                                 /\ (w \in subs') <=> (w \in subs)
      /\ acc \in [Accepter -> AccState] /\ subs \subseteq Waiter /\ subs' \subseteq Waiter
      /\ signal \in [Waiter -> BOOLEAN] /\ clean \in [Waiter -> BOOLEAN]
      /\ req \in [Waiter -> ReqState]
  BY <1>t, <1>m, <1>o
\* What each step does to the request itself.
<1> DEFINE found == LatestMessageID(req[v].inbox, req[v].after)
           Call == req[v].pc = "idle" /\ req'[v].pc = "subscribe" /\ subs' = subs
           Enter == req[v].pc = "subscribe" /\ req'[v].pc = "latest" /\ subs' = subs \cup {v}
           Query == /\ req[v].pc = "latest" /\ subs' = subs
                    /\ req'[v].inbox = req[v].inbox /\ req'[v].after = req[v].after
                    /\ req'[v].cand = found
                    /\ req'[v].pc = IF found = {} THEN "select" ELSE "fetch"
           Load == /\ req[v].pc = "fetch" /\ subs' = subs /\ clean' = clean
                   /\ req'[v].inbox = req[v].inbox /\ req'[v].after = req[v].after
                   /\ \/ req'[v].pc = "respond" /\ req'[v].cand = req[v].cand
                      \/ req'[v].pc = "select" /\ ~(req[v].cand \subseteq msgs)
           Leave == req[v].pc \in {"respond", "timeout"} /\ req'[v].pc = "idle" /\ subs' = subs \ {v}
           Fail == /\ req[v].pc \in {"latest", "fetch"} /\ req'[v].pc = "select"
                   /\ ~clean'[v] /\ subs' = subs
           Wake == req[v].pc = "select" /\ req'[v].pc \in {"latest", "timeout"} /\ subs' = subs
<1>a. ASSUME NEW i \in Inbox, NEW a \in usedIds \cup {0}, WaitCall(v, i, a) PROVE Call
  BY <1>0, <1>a DEF WaitCall, NoReq
<1>k. Call \/ Enter \/ Query \/ Load \/ Leave \/ Fail \/ Wake
  <2>2. Subscribe(v) => Enter
    BY <1>0 DEF Subscribe, ReqState
  <2>3. ASSUME ReadLatest(v) PROVE Query
    <3>1. /\ req[v].pc = "latest" /\ subs' = subs
          /\ req' = [req EXCEPT ![v].pc = IF found = {} THEN "select" ELSE "fetch",
                                ![v].cand = found]
      BY <2>3 DEF ReadLatest
    <3> HIDE DEF found
    <3> QED BY <1>0, <3>1 DEF ReqState
  <2>4. Fetch(v) => Load
    BY <1>0 DEF Fetch, ReqState
  <2>5. Return(v) => Leave
    BY <1>0 DEF Return, NoReq
  <2>6. ReadFails(v) => Fail
    BY <1>0 DEF ReadFails, ReqState
  <2>7. ReceiveSignal(v) \/ PollTick(v) \/ Deadline(v) => Wake
    BY <1>0 DEF ReceiveSignal, PollTick, Deadline, ReqState
  <2> HIDE DEF Call, Enter, Query, Load, Leave, Fail, Wake
  <2> QED BY <1>a, <2>2, <2>3, <2>4, <2>5, <2>6, <2>7 DEF WaitStep
<1>1. HubHoldsLiveCalls'
  <2>1. v \in subs' <=> req'[v].pc \notin {"idle", "subscribe"}
    BY <1>0, <1>k DEF HubHoldsLiveCalls
  <2> QED BY <1>0, <2>1 DEF HubHoldsLiveCalls
<1>2. CandIsNewer'
  <2> SUFFICES ASSUME req'[v].pc \in {"fetch", "respond"}
               PROVE  \E m \in req'[v].cand : /\ req'[v].cand = {m}
                                              /\ m.inbox = req'[v].inbox
                                              /\ m.id > req'[v].after
    BY <1>0 DEF CandIsNewer
  <2>1. CASE Query /\ found # {}
    <3>1. PICK m \in msgs : found = {m} /\ m.inbox = req[v].inbox /\ m.id > req[v].after
      BY <2>1, LatestIsOneNewerRow DEF TypeOK
    <3> QED BY <2>1, <3>1
  <2>2. CASE Load
    <3>1. \E m \in req[v].cand : req[v].cand = {m} /\ m.inbox = req[v].inbox /\ m.id > req[v].after
      BY <2>2 DEF CandIsNewer
    <3>2. req'[v].cand = req[v].cand
      BY <2>2
    <3> QED BY <2>2, <3>1, <3>2
  <2>3. CASE Call \/ Enter \/ (Query /\ found = {}) \/ Leave \/ Fail \/ Wake
    BY <2>3
  <2> HIDE DEF found, Call, Enter, Query, Load, Leave, Fail, Wake
  <2> QED BY <1>k, <2>1, <2>2, <2>3
<1>3. CandIsStored'
  <2>1. found \subseteq msgs
    BY LatestIsStored
  <2>2. req'[v].pc = "fetch" => req'[v].cand \subseteq msgs
    BY <1>k, <2>1
  <2> QED BY <1>0, <2>2 DEF CandIsStored
<1>4. NoLostWakeup'
  <2>1. ASSUME NEW w \in Waiter, w # v, req[w].pc = "select", ~signal[w], clean[w],
               LatestMessageID(req[w].inbox, req[w].after)' # {}
        PROVE  \E q \in Accepter : Announcing(q, w)'
    <3>0. req'[w] = req[w]
      BY <1>0, <2>1
    <3>1. LatestMessageID(req[w].inbox, req[w].after) # {}
      BY <1>0, <2>1, <3>0, LatestDependsOnInbox DEF Of
    <3>2. PICK q \in Accepter : Announcing(q, w)
      BY <2>1, <3>1 DEF NoLostWakeup
    <3>3. acc' = acc \/ acc' = [p \in Accepter |-> [acc[p] EXCEPT !.snap = @ \ {v}]]
      BY DEF WaitStep, WaitCall, Subscribe, ReadLatest, Fetch, Return, ReadFails,
             ReceiveSignal, PollTick, Deadline
    <3>4. /\ acc'[q].msg = acc[q].msg /\ acc'[q].pc = acc[q].pc
          /\ w \in acc[q].snap => w \in acc'[q].snap
      BY <1>0, <2>1, <3>3 DEF AccState
    <3>5. Announcing(q, w)'
      BY <1>0, <2>1, <3>2, <3>4 DEF Announcing
    <3> QED BY <3>5
  <2>2. ASSUME req'[v].pc = "select", ~signal'[v], clean'[v]
        PROVE  /\ req'[v].inbox = req[v].inbox /\ req'[v].after = req[v].after
               /\ found = {}
    <3>1. CASE Load
      <4>1. ~(req[v].cand \subseteq msgs) /\ clean[v] /\ req[v].pc = "fetch"
        BY <2>2, <3>1
      <4> QED BY <4>1 DEF CandIsStored
    <3>2. CASE ~Load
      BY <1>k, <2>2, <3>2
    <3> QED BY <3>1, <3>2
  <2>3. ASSUME req'[v].pc = "select", ~signal'[v], clean'[v]
        PROVE  LatestMessageID(req[v].inbox, req[v].after)' = {}
    <3>1. found = {} /\ req'[v].inbox = req[v].inbox /\ req'[v].after = req[v].after
      BY <2>2, <2>3
    <3> QED BY <1>0, <3>1, LatestDependsOnInbox DEF Of
  <2>4. ASSUME NEW w \in Waiter, req'[w].pc = "select", ~signal'[w], clean'[w],
               LatestMessageID(req[w].inbox, req[w].after)' # {}
        PROVE  \E q \in Accepter : Announcing(q, w)'
    BY <1>0, <2>1, <2>3, <2>4
  <2> QED BY <2>4 DEF NoLostWakeup
<1> QED BY <1>1, <1>2, <1>3, <1>4

(* So do deletes and the clock. *)
LEMMA EnvironmentInv ==
  ASSUME IInv, TypeOK', (\E S \in SUBSET msgs : DeleteRows(S)) \/ Tick
  PROVE  IInv'
<1> USE DEF IInv
<1>1. ASSUME NEW S \in SUBSET msgs, DeleteRows(S) PROVE IInv'
  <2>1. UNCHANGED <<acc, subs, signal, req>> /\ msgs' = msgs \ S
    BY <1>1 DEF DeleteRows
  <2>2. ASSUME NEW w \in Waiter, clean'[w]
        PROVE  clean[w] /\ \A m \in S : m.inbox # req[w].inbox
    BY <1>1, <2>2 DEF DeleteRows
  <2>3. HubHoldsLiveCalls' /\ CandIsNewer'
    BY <2>1 DEF HubHoldsLiveCalls, CandIsNewer
  <2>4. CandIsStored'
    <3>1. SUFFICES ASSUME NEW w \in Waiter, req[w].pc = "fetch", clean'[w]
                   PROVE  req[w].cand \subseteq msgs'
      BY <2>1 DEF CandIsStored
    <3>2. req[w].cand \subseteq msgs /\ \A m \in req[w].cand : m.inbox = req[w].inbox
      BY <2>2, <3>1 DEF CandIsStored, CandIsNewer
    <3> QED BY <2>1, <2>2, <3>1, <3>2
  <2>5. NoLostWakeup'
    <3>1. SUFFICES ASSUME NEW w \in Waiter, req[w].pc = "select", ~signal[w], clean'[w],
                          LatestMessageID(req[w].inbox, req[w].after)' # {}
                   PROVE  \E q \in Accepter : Announcing(q, w)'
      BY <2>1 DEF NoLostWakeup
    <3>2. Of(req[w].inbox)' = Of(req[w].inbox)
      BY <2>1, <2>2, <3>1 DEF Of
    <3>3. LatestMessageID(req[w].inbox, req[w].after) # {}
      BY <2>1, <3>1, <3>2, LatestDependsOnInbox
    <3>4. PICK q \in Accepter : Announcing(q, w)
      BY <2>2, <3>1, <3>3 DEF NoLostWakeup
    <3>5. Announcing(q, w)'
      BY <2>1, <3>4 DEF Announcing
    <3> QED BY <3>5
  <2> QED BY <2>3, <2>4, <2>5
<1>2. CASE Tick
  <2>1. UNCHANGED <<msgs, acc, subs, signal, req, clean>>
    BY <1>2 DEF Tick
  <2> QED BY <2>1 DEF HubHoldsLiveCalls, CandIsNewer, CandIsStored, NoLostWakeup,
             Announcing, LatestMessageID, Newest, Of
<1> QED BY <1>1, <1>2

(* The inductive invariant holds. *)
THEOREM Inductive == Spec => []IInv
<1>1. Init => IInv
  <2> SUFFICES ASSUME Init PROVE IInv
    OBVIOUS
  <2>1. TypeOK
    BY IdleAccType, NoReqType DEF Init, TypeOK
  <2>2. \A w \in Waiter : req[w].pc = "idle"
    BY DEF Init, NoReq
  <2> QED BY <2>1, <2>2 DEF IInv, HubHoldsLiveCalls, CandIsNewer, CandIsStored,
             NoLostWakeup, Init
<1>2. IInv /\ [Next]_vars => IInv'
  <2>1. ASSUME IInv, Next PROVE IInv'
    <3>1. TypeOK'
      BY <2>1, NextKinds, AcceptTypes, WaitTypes, EnvironmentTypes DEF IInv
    <3> QED BY <2>1, <3>1, NextKinds, AcceptInv, WaitInv, EnvironmentInv
  <2>2. ASSUME IInv, UNCHANGED vars PROVE IInv'
    BY <2>2 DEF vars, IInv, TypeOK, HubHoldsLiveCalls, CandIsNewer, CandIsStored,
         NoLostWakeup, Announcing, LatestMessageID, Newest, Of
  <2> QED BY <2>1, <2>2
<1> QED BY <1>1, <1>2, PTL DEF Spec

(* No waiter sleeps through an arrival: handleWait and waitForMessage
   subscribe before they query, and Accept publishes after it commits. *)
THEOREM NoWakeupIsLost == Spec => []NoLostWakeup
<1>1. IInv => NoLostWakeup
  BY DEF IInv
<1> QED BY <1>1, Inductive, PTL

(* Whichever way a call ends, answered, timed out or given up, the hub forgets
   its channel, and never that of a call that still waits. *)
THEOREM HubStaysInStep == Spec => []HubHoldsLiveCalls
<1>1. IInv => HubHoldsLiveCalls
  BY DEF IInv
<1> QED BY <1>1, Inductive, PTL

---------------------------------------------------------------------------
(* The step simulation behind KeepsContract *)

(* Only request v's record changes: so does the caller's view of it. *)
LEMMA ViewOfOneRequest ==
  ASSUME NEW v \in Waiter, NEW r, req \in [Waiter -> ReqState],
         req' = [req EXCEPT ![v] = r]
  PROVE  CallView' = [CallView EXCEPT ![v] = View(r)]
BY DEF CallView

(* What the caller sees, by the place the request has reached. *)
LEMMA ViewCases ==
  ASSUME NEW r
  PROVE  /\ r.pc \in {"subscribe", "latest", "fetch", "select"} =>
              View(r) = [state |-> "waiting", inbox |-> r.inbox, after |-> r.after, got |-> {}]
         /\ r.pc = "respond" =>
              View(r) = [state |-> "answered", inbox |-> r.inbox, after |-> r.after, got |-> r.cand]
         /\ r.pc = "timeout" =>
              View(r) = [state |-> "empty", inbox |-> r.inbox, after |-> r.after, got |-> {}]
<1>1. ASSUME r.pc \in {"subscribe", "latest", "fetch", "select"}
      PROVE  View(r) = [state |-> "waiting", inbox |-> r.inbox, after |-> r.after, got |-> {}]
  BY <1>1 DEF View
<1>2. ASSUME r.pc = "respond"
      PROVE  View(r) = [state |-> "answered", inbox |-> r.inbox, after |-> r.after, got |-> r.cand]
  <2>1. r.pc \notin {"subscribe", "latest", "fetch", "select"}
    BY <1>2
  <2>2. (CASE r.pc \in {"subscribe", "latest", "fetch", "select"} -> "waiting"
           [] r.pc = "respond" -> "answered"
           [] r.pc = "timeout" -> "empty"
           [] OTHER -> "idle") = "answered"
    BY <1>2, <2>1
  <2> QED BY <1>2, <2>2 DEF View
<1>3. ASSUME r.pc = "timeout"
      PROVE  View(r) = [state |-> "empty", inbox |-> r.inbox, after |-> r.after, got |-> {}]
  BY <1>3 DEF View
<1> QED BY <1>1, <1>2, <1>3

LEMMA ViewUnchanged ==
  ASSUME UNCHANGED req PROVE UNCHANGED CallView
BY DEF CallView

(* Ingest steps only make messages appear. *)
LEMMA AcceptSimulates ==
  ASSUME IInv, TypeOK', NEW p \in Accepter,
         (\E rcpts \in RcptLists : AcceptStart(p, rcpts)) \/ AcceptStep(p)
  PROVE  Contract!Arrive
<1>1. UNCHANGED req /\ msgs \subseteq msgs'
  BY DEF AcceptStep, AcceptStart, DrawId, AcceptReturn, SaveMessage, SaveFails,
         PublishSnapshot, PublishSend, PublishDone
<1>2. \A m \in msgs' \ msgs : m \in Contract!Message
  BY DEF TypeOK, Message, Contract!Message
<1> QED BY <1>1, <1>2, ViewUnchanged DEF Contract!Arrive

(* A request step begins, answers, gives up or finishes a call, or is not
   seen by the caller at all. *)
LEMMA WaitSimulates ==
  ASSUME IInv, TypeOK', NEW v \in Waiter,
         \/ \E i \in Inbox, a \in usedIds \cup {0} : WaitCall(v, i, a)
         \/ WaitStep(v)
         \/ ReadFails(v) \/ ReceiveSignal(v) \/ PollTick(v) \/ Deadline(v)
  PROVE  Contract!Next \/ UNCHANGED Contract!cvars
<1> USE DEF IInv, Contract!cvars
<1>0. req \in [Waiter -> ReqState] /\ req[v] \in ReqState /\ CallView[v] = View(req[v])
  BY DEF TypeOK, CallView
<1>1. ASSUME NEW i \in Inbox, NEW a \in usedIds \cup {0}, WaitCall(v, i, a)
      PROVE  Contract!Begin(v)
  <2> DEFINE r == [NoReq EXCEPT !.pc = "subscribe", !.inbox = i, !.after = a]
  <2>1. req' = [req EXCEPT ![v] = r] /\ UNCHANGED msgs /\ req[v].pc = "idle"
    BY <1>1 DEF WaitCall
  <2>2. View(r) = [Contract!NoCall(i, a) EXCEPT !.state = "waiting"]
    BY DEF View, NoReq, Contract!NoCall
  <2>3. a \in Nat
    BY DEF TypeOK
  <2>4. CallView' = [CallView EXCEPT ![v] = View(r)] /\ CallView'[v] = View(r)
    BY <1>0, <2>1, ViewOfOneRequest DEF CallView
  <2>5. CallView'[v].inbox = i /\ CallView'[v].after = a /\ CallView[v].state = "idle"
    BY <1>0, <2>1, <2>2, <2>4 DEF View, Contract!NoCall
  <2> QED BY <2>1, <2>2, <2>3, <2>4, <2>5 DEF Contract!Begin
<1>2. ASSUME NEW r, req' = [req EXCEPT ![v] = r], View(r) = View(req[v]), UNCHANGED msgs
      PROVE  UNCHANGED Contract!cvars
  <2>1. CallView' = [CallView EXCEPT ![v] = View(req[v])]
    BY <1>0, <1>2, ViewOfOneRequest
  <2> QED BY <1>2, <2>1 DEF CallView
<1>3. CASE Subscribe(v) \/ ReceiveSignal(v) \/ PollTick(v)
  <2> DEFINE r == [req[v] EXCEPT !.pc = "latest"]
  <2>1. req' = [req EXCEPT ![v] = r] /\ UNCHANGED msgs
    BY <1>3 DEF Subscribe, ReceiveSignal, PollTick
  <2>2. View(r) = View(req[v])
    BY <1>0, <1>3 DEF View, ReqState, Subscribe, ReceiveSignal, PollTick
  <2> QED BY <1>2, <2>1, <2>2
<1>4. CASE ReadLatest(v) \/ ReadFails(v)
  <2>0. PICK pc \in {"select", "fetch"} :
          \E c : req' = [req EXCEPT ![v] = [req[v] EXCEPT !.pc = pc, !.cand = c]] /\ UNCHANGED msgs
    BY <1>4 DEF ReadLatest, ReadFails
  <2>1. PICK c :
          req' = [req EXCEPT ![v] = [req[v] EXCEPT !.pc = pc, !.cand = c]] /\ UNCHANGED msgs
    BY <2>0
  <2>2. View([req[v] EXCEPT !.pc = pc, !.cand = c]) = View(req[v])
    BY <1>0, <1>4 DEF View, ReqState, ReadLatest, ReadFails
  <2> QED BY <1>2, <2>1, <2>2
<1>5. CASE Fetch(v) /\ ~(req[v].cand \subseteq msgs)
  <2> DEFINE r == [req[v] EXCEPT !.pc = "select", !.cand = {}]
  <2>1. req' = [req EXCEPT ![v] = r] /\ UNCHANGED msgs
    BY <1>5 DEF Fetch
  <2>2. View(r) = View(req[v])
    BY <1>0, <1>5 DEF View, ReqState, Fetch
  <2> QED BY <1>2, <2>1, <2>2
<1>6. CASE Fetch(v) /\ req[v].cand \subseteq msgs
  <2> DEFINE r == [req[v] EXCEPT !.pc = "respond"]
  <2>1. req' = [req EXCEPT ![v] = r] /\ UNCHANGED msgs /\ req[v].pc = "fetch"
    BY <1>6 DEF Fetch
  <2>2. PICK m \in req[v].cand : req[v].cand = {m} /\ m.inbox = req[v].inbox /\ m.id > req[v].after
    BY <2>1 DEF CandIsNewer
  <2>3. m \in msgs
    BY <1>6, <2>2
  <2>4. View(r) = [state |-> "answered", inbox |-> req[v].inbox, after |-> req[v].after,
                   got |-> {m}]
    <3>1. r.pc = "respond" /\ r.inbox = req[v].inbox /\ r.after = req[v].after /\ r.cand = {m}
      BY <1>0, <2>2 DEF ReqState
    <3> HIDE DEF r
    <3> QED BY <3>1, ViewCases
  <2>5. CallView' = [CallView EXCEPT ![v] = View(r)]
    BY <1>0, <2>1, ViewOfOneRequest
  <2>6. View(req[v]).state = "waiting" /\ View(req[v]).inbox = req[v].inbox
        /\ View(req[v]).after = req[v].after
    BY <2>1 DEF View
  <2>7. Contract!Answer(v, m)
    BY <1>0, <2>1, <2>2, <2>3, <2>4, <2>5, <2>6 DEF Contract!Answer
  <2> QED BY <2>3, <2>7 DEF Contract!Next
<1>7. CASE Deadline(v)
  <2> DEFINE r == [req[v] EXCEPT !.pc = "timeout"]
  <2>1. req' = [req EXCEPT ![v] = r] /\ UNCHANGED msgs /\ req[v].pc = "select"
    BY <1>7 DEF Deadline
  <2>2. View(r) = [View(req[v]) EXCEPT !.state = "empty"] /\ View(req[v]).state = "waiting"
    <3>1. r.pc = "timeout" /\ r.inbox = req[v].inbox /\ r.after = req[v].after
      BY <1>0 DEF ReqState
    <3> HIDE DEF r
    <3>2. View(r) = [state |-> "empty", inbox |-> r.inbox, after |-> r.after, got |-> {}]
      BY <3>1, ViewCases
    <3>3. View(req[v]) = [state |-> "waiting", inbox |-> req[v].inbox, after |-> req[v].after,
                          got |-> {}]
      BY <2>1 DEF View
    <3> QED BY <3>1, <3>2, <3>3
  <2>3. CallView' = [CallView EXCEPT ![v] = View(r)]
    BY <1>0, <2>1, ViewOfOneRequest
  <2>4. Contract!GiveUp(v)
    BY <1>0, <2>1, <2>2, <2>3 DEF Contract!GiveUp
  <2> QED BY <2>4 DEF Contract!Next
<1>8. CASE Return(v)
  <2>1. req' = [req EXCEPT ![v] = NoReq] /\ UNCHANGED msgs
        /\ req[v].pc \in {"respond", "timeout"}
    BY <1>8 DEF Return
  <2>2. View(NoReq) = Contract!NoCall(NoReq.inbox, 0) /\ NoReq.inbox \in Inbox
    BY NoReqType DEF View, NoReq, Contract!NoCall, ReqState
  <2>3. CallView' = [CallView EXCEPT ![v] = View(NoReq)]
    BY <1>0, <2>1, ViewOfOneRequest
  <2>4. View(req[v]).state \in {"answered", "empty"}
    BY <2>1 DEF View
  <2>5. Contract!Finish(v)
    BY <1>0, <2>1, <2>2, <2>3, <2>4 DEF Contract!Finish
  <2> QED BY <2>5 DEF Contract!Next
<1> QED BY <1>1, <1>3, <1>4, <1>5, <1>6, <1>7, <1>8 DEF WaitStep, Contract!Next

(* The long poll, with its hub, its two queries and its races, implements the
   contract: a caller is only ever answered with a message that was in its
   inbox at that moment and newer than the one it named. *)
THEOREM ContractIsKept == Spec => KeepsContract
<1>1. Init => Contract!Init
  <2> SUFFICES ASSUME Init PROVE Contract!Init
    OBVIOUS
  <2>1. View(NoReq) \in {Contract!NoCall(i, 0) : i \in Inbox}
    BY NoReqType DEF View, NoReq, Contract!NoCall, ReqState
  <2>2. CallView = [w \in Waiter |-> View(NoReq)]
    BY DEF Init, CallView
  <2> QED BY <2>1, <2>2 DEF Init, Contract!Init
<1>2. IInv /\ IInv' /\ [Next]_vars => [Contract!Next]_(Contract!cvars)
  <2> SUFFICES ASSUME IInv, IInv', [Next]_vars
               PROVE  Contract!Next \/ UNCHANGED Contract!cvars
    OBVIOUS
  <2>1. TypeOK'
    BY DEF IInv
  <2>2. ASSUME (\E S \in SUBSET msgs : DeleteRows(S)) \/ Tick PROVE Contract!Remove
    BY <2>2, ViewUnchanged DEF DeleteRows, Tick, Contract!Remove
  <2>3. ASSUME UNCHANGED vars PROVE UNCHANGED Contract!cvars
    BY <2>3, ViewUnchanged DEF vars, Contract!cvars
  <2> QED BY <2>1, <2>2, <2>3, NextKinds, AcceptSimulates, WaitSimulates DEF Contract!Next
<1> QED BY <1>1, <1>2, Inductive, PTL DEF Spec, KeepsContract, Contract!Spec
===========================================================================

------------------------ MODULE ForwardQueueProofs ------------------------
(***************************************************************************)
(* TLAPS proofs about ForwardQueue, for every set of jobs, batch size,     *)
(* attempt limit and bound on the env.  Type correctness holds for any  *)
(* number of workers; the rest is about a server with one worker, which is *)
(* what serve() starts.                                                    *)
(***************************************************************************)
EXTENDS ForwardQueue, TLAPS

(* What backoff returns is a positive number of minutes. *)
LEMMA BackoffType == ASSUME NEW n \in Nat PROVE Backoff(n) \in Int
<1>1. n * n \in Nat
  OBVIOUS
<1> HIDE DEF Backoff
<1>2. \A k \in Nat : (IF k < 1 THEN 1 ELSE IF k > 60 THEN 60 ELSE k) \in Int
  OBVIOUS
<1> QED BY <1>1, <1>2 DEF Backoff

LEMMA IdleWorkerType == IdleWorker \in WorkerState
BY DEF IdleWorker, WorkerState

(* A worker's steps keep the types. *)
LEMMA WorkerTypes ==
  ASSUME TypeOK, NEW w \in Worker, WorkerStep(w) \/ WorkerFault(w) \/ RelayStep(w)
  PROVE  TypeOK'
<1> USE DEF TypeOK
<1>0. wk[w] \in WorkerState
  OBVIOUS
<1>f. ASSUME NEW k \in {"crashes", "store", "acks"}, env' = [env EXCEPT ![k] = @ + 1]
      PROVE  env' \in [relay : BOOLEAN, crashes : Nat, store : Nat, acks : Nat]
  <2>1. env.crashes + 1 \in Nat /\ env.store + 1 \in Nat /\ env.acks + 1 \in Nat
    OBVIOUS
  <2> QED BY <1>f, <2>1
<1>n. ASSUME NextJob(w) PROVE wk' \in [Worker -> WorkerState]
  BY <1>0, <1>n DEF NextJob, WorkerState
<1>h. \A j \in Job : /\ hist[j].sends + 1 \in Nat /\ hist[j].full + 1 \in Nat
                     /\ hist[j].empty + 1 \in Nat /\ hist[j].lost + 1 \in Nat
                     /\ hist[j].full + 0 \in Nat /\ hist[j].empty + 0 \in Nat
                     /\ hist[j].lost + 0 \in Nat
  OBVIOUS
<1>1. CASE ClaimForwardJobs(w)
  <2>1. PICK S \in SUBSET Due :
          /\ rows' = [j \in Job |-> IF j \in S
                                    THEN Leased(j)
                                    ELSE rows[j]]
          /\ wk' = [wk EXCEPT ![w].batch =
                      {[job |-> j, attempts |-> rows[j].attempts + 1, due |-> rows[j].due] : j \in S}]
          /\ hist' = [j \in Job |-> [hist[j] EXCEPT !.rested = @ /\ j \notin S]]
    BY <1>1 DEF ClaimForwardJobs
  <2>2. rows' \in [Job -> RowState]
    <3>1. \A j \in Job : rows[j].attempts + 1 \in Nat
      BY DEF RowState
    <3>2. \A j \in Job : Leased(j) \in RowState
      BY <3>1 DEF RowState, Leased, LeaseMinutes
    <3> QED BY <2>1, <3>2
  <2>3. {[job |-> j, attempts |-> rows[j].attempts + 1, due |-> rows[j].due] : j \in S}
          \in SUBSET Claimed
    BY DEF Due, Claimed, RowState
  <2>4. wk' \in [Worker -> WorkerState]
    BY <1>0, <2>1, <2>3 DEF WorkerState
  <2>5. hist' \in [Job -> [sends : Nat, full : Nat, empty : Nat, lost : Nat, rested : BOOLEAN]]
    BY <2>1
  <2> QED BY <1>1, <2>2, <2>4, <2>5 DEF ClaimForwardJobs
<1>2. CASE LoadRaw(w)
  <2>1. wk' \in [Worker -> WorkerState]
    BY <1>0, <1>2 DEF LoadRaw, WorkerState
  <2> QED BY <1>2, <2>1 DEF LoadRaw
<1>3. CASE LoadRawFails(w)
  <2>1. wk' \in [Worker -> WorkerState]
    BY <1>0, <1>3 DEF LoadRawFails, WorkerState
  <2> QED BY <1>3, <1>f, <2>1 DEF LoadRawFails
<1>4. CASE Dial(w) \/ DialFails(w)
  <2>1. wk' \in [Worker -> WorkerState]
    <3>1. [wk[w] EXCEPT !.pc = "talk"] \in WorkerState /\ [wk[w] EXCEPT !.pc = "nack"] \in WorkerState
      BY <1>0 DEF WorkerState
    <3> QED BY <1>4, <3>1 DEF Dial, DialFails
  <2>2. hist' \in [Job -> [sends : Nat, full : Nat, empty : Nat, lost : Nat, rested : BOOLEAN]]
    BY <1>4, <1>h DEF Dial, DialFails
  <2> QED BY <1>4, <2>1, <2>2 DEF Dial, DialFails
<1>5. CASE NilRelayPanics(w)
  <2>1. wk' \in [Worker -> WorkerState]
    BY <1>5, IdleWorkerType DEF NilRelayPanics, Forget
  <2> QED BY <1>5, <1>f, <2>1 DEF NilRelayPanics
<1>6. CASE RelayRefuses(w)
  <2>1. wk' \in [Worker -> WorkerState]
    BY <1>0, <1>6 DEF RelayRefuses, WorkerState
  <2> QED BY <1>6, <2>1 DEF RelayRefuses
<1>7. ASSUME NEW u \in {0, 1}
      PROVE  Accepted(w, u) \in [Job -> [sends : Nat, full : Nat, empty : Nat, lost : Nat,
                                         rested : BOOLEAN]]
  BY <1>h DEF Accepted
<1>8. CASE RelayAccepts(w)
  <2>1. wk' \in [Worker -> WorkerState]
    BY <1>0, <1>8 DEF RelayAccepts, WorkerState
  <2> QED BY <1>8, <1>7, <2>1 DEF RelayAccepts
<1>9. CASE RelayAcceptsUnheard(w)
  <2>1. wk' \in [Worker -> WorkerState]
    BY <1>0, <1>9 DEF RelayAcceptsUnheard, WorkerState
  <2> QED BY <1>9, <1>7, <1>f, <2>1 DEF RelayAcceptsUnheard
<1>10. CASE MarkForwardSent(w)
  <2>1. rows' \in [Job -> RowState]
    BY <1>10 DEF MarkForwardSent, RowState
  <2> QED BY <1>10, <1>n, <2>1 DEF MarkForwardSent
<1>11. CASE MarkForwardSentFails(w)
  <2>1. hist' \in [Job -> [sends : Nat, full : Nat, empty : Nat, lost : Nat, rested : BOOLEAN]]
    BY <1>11, <1>h DEF MarkForwardSentFails
  <2> QED BY <1>11, <1>n, <1>f, <2>1 DEF MarkForwardSentFails
<1>12. CASE MarkForwardFailed(w)
  <2>1. rows' \in [Job -> RowState]
    <3>1. PICK e \in wk[w].cur : rows' = [rows EXCEPT ![e.job].status = "failed"]
      BY <1>12 DEF MarkForwardFailed
    <3>2. \A j \in Job : [rows[j] EXCEPT !.status = "failed"] \in RowState
      BY DEF RowState
    <3> QED BY <3>1, <3>2
  <2> QED BY <1>12, <1>n, <2>1 DEF MarkForwardFailed
<1>13. CASE MarkForwardRetry(w)
  <2>1. PICK e \in wk[w].cur :
          rows' = [rows EXCEPT ![e.job] = [status |-> "pending", attempts |-> e.attempts,
                                           due |-> Backoff(e.attempts)]]
    BY <1>13 DEF MarkForwardRetry
  <2>2. e.attempts \in Nat
    BY <1>0 DEF WorkerState, Claimed
  <2>3. rows' \in [Job -> RowState]
    BY <2>1, <2>2, BackoffType DEF RowState
  <2> QED BY <1>13, <1>n, <2>3 DEF MarkForwardRetry
<1>14. CASE MarkFails(w)
  BY <1>14, <1>n, <1>f DEF MarkFails
<1> QED BY <1>1, <1>2, <1>3, <1>4, <1>5, <1>6, <1>8, <1>9, <1>10, <1>11, <1>12, <1>13, <1>14
        DEF WorkerStep, WorkerFault, RelayStep

(* So do senders, deletes, crashes, restarts and time. *)
LEMMA EnvironmentTypes ==
  ASSUME TypeOK,
         \/ \E j \in Job : EnqueueForward(j)
         \/ \E m \in Msg : DeleteMessage(m)
         \/ Crash \/ Restart \/ Tick
  PROVE  TypeOK'
<1> USE DEF TypeOK
<1>1. ASSUME NEW j \in Job, EnqueueForward(j) PROVE TypeOK'
  <2>1. rows' \in [Job -> RowState]
    BY <1>1 DEF EnqueueForward, RowState
  <2> QED BY <1>1, <2>1 DEF EnqueueForward
<1>2. ASSUME NEW m \in Msg, DeleteMessage(m) PROVE TypeOK'
  BY <1>2 DEF DeleteMessage
<1>3. CASE Crash
  <2>1. \A j \in Job : hist[j].lost + 1 \in Nat
    OBVIOUS
  <2>2. hist' \in [Job -> [sends : Nat, full : Nat, empty : Nat, lost : Nat, rested : BOOLEAN]]
    BY <1>3, <2>1 DEF Crash
  <2>3. wk' \in [Worker -> WorkerState]
    BY <1>3, IdleWorkerType DEF Crash, Forget
  <2>4. env.crashes + 1 \in Nat
    OBVIOUS
  <2>5. env' \in [relay : BOOLEAN, crashes : Nat, store : Nat, acks : Nat]
    BY <1>3, <2>4 DEF Crash
  <2> QED BY <1>3, <2>2, <2>3, <2>5 DEF Crash
<1>4. CASE Restart
  BY <1>4 DEF Restart
<1>5. CASE Tick
  <2>1. rows' \in [Job -> RowState]
    <3>1. \A j \in Job : rows[j].due - 1 \in Int
      BY DEF RowState
    <3>2. \A j \in Job : [rows[j] EXCEPT !.due = @ - 1] \in RowState
      BY <3>1 DEF RowState
    <3> QED BY <1>5, <3>2 DEF Tick
  <2>2. hist' \in [Job -> [sends : Nat, full : Nat, empty : Nat, lost : Nat, rested : BOOLEAN]]
    BY <1>5 DEF Tick
  <2> QED BY <1>5, <2>1, <2>2 DEF Tick
<1> QED BY <1>1, <1>2, <1>3, <1>4, <1>5

(* The queue starts well typed. *)
LEMMA InitTypes == ASSUME Init PROVE TypeOK
<1>1. env \in [relay : BOOLEAN, crashes : Nat, store : Nat, acks : Nat]
  <2>1. env \in [relay : Relays, crashes : {0}, store : {0}, acks : {0}]
    BY DEF Init
  <2>2. PICK r \in Relays : env = [relay |-> r, crashes |-> 0, store |-> 0, acks |-> 0]
    BY <2>1
  <2>3. r \in BOOLEAN
    BY RelayAssumption
  <2> QED BY <2>2, <2>3
<1>2. rows \in [Job -> RowState]
  BY DEF Init, RowState
<1>3. wk \in [Worker -> WorkerState]
  BY IdleWorkerType DEF Init, Forget
<1>4. hist \in [Job -> [sends : Nat, full : Nat, empty : Nat, lost : Nat, rested : BOOLEAN]]
  BY DEF Init
<1>5. stored \subseteq Msg /\ up \in BOOLEAN
  BY DEF Init
<1> QED BY <1>1, <1>2, <1>3, <1>4, <1>5 DEF TypeOK

(* The type invariant holds, whatever the number of workers. *)
THEOREM TypeCorrect == Spec => []TypeOK
<1>1. Init => TypeOK
  BY InitTypes
<1>2. TypeOK /\ [Next]_vars => TypeOK'
  <2>1. ASSUME TypeOK, Next PROVE TypeOK'
    BY <2>1, WorkerTypes, EnvironmentTypes DEF Next
  <2>2. ASSUME TypeOK, UNCHANGED vars PROVE TypeOK'
    BY <2>2 DEF TypeOK, vars
  <2> QED BY <2>1, <2>2
<1> QED BY <1>1, <1>2, PTL DEF Spec

---------------------------------------------------------------------------
(* The inductive invariant, for a server with one worker *)

(* A step that touches no row and only takes jobs out of the worker's hands,
   or moves one from the batch to the front. *)
LEMMA MemoryOfFewerJobs ==
  ASSUME MemoryIsCurrent, NEW w, Worker = {w}, UNCHANGED rows,
         wk'[w].batch \subseteq wk[w].batch,
         wk'[w].cur \subseteq wk[w].batch \cup wk[w].cur,
         wk'[w].batch \cap wk'[w].cur = {},
         IF wk'[w].pc = "next" THEN wk'[w].cur = {}
                               ELSE \E e \in wk'[w].cur : wk'[w].cur = {e}
  PROVE  MemoryIsCurrent'
BY DEF MemoryIsCurrent

(* A step after which every job has the copies, lost acknowledgements and
   verdict it had. *)
LEMMA SameAccount ==
  ASSUME DuplicatesAreFaults,
         \A j \in Job : /\ hist'[j].full = hist[j].full
                        /\ hist'[j].empty = hist[j].empty
                        /\ hist'[j].lost = hist[j].lost
                        /\ (rows'[j].status = "sent") <=> (rows[j].status = "sent")
                        /\ Unrecorded(j)' <=> Unrecorded(j)
  PROVE  DuplicatesAreFaults'
BY DEF DuplicatesAreFaults, Copies

LEMMA SameVerdicts ==
  ASSUME GivesUpLate, UNCHANGED rows PROVE GivesUpLate'
BY DEF GivesUpLate

(* The worker's job, when it has one. *)
LEMMA CurrentJob ==
  ASSUME IInv, NEW w \in Worker, wk[w].pc # "next"
  PROVE  \E e \in Claimed : /\ wk[w].cur = {e} /\ Current(w) = {e.job} /\ e.job \in Job
                            /\ rows[e.job].status = "pending"
                            /\ rows[e.job].attempts = e.attempts
<1>1. PICK e \in wk[w].cur : wk[w].cur = {e}
  BY DEF IInv, MemoryIsCurrent
<1>2. e \in Claimed
  BY DEF IInv, TypeOK, WorkerState
<1> QED BY <1>1, <1>2 DEF IInv, MemoryIsCurrent, Current, Claimed

(* Claiming: the leased rows and the worker's memory agree. *)
LEMMA ClaimInv ==
  ASSUME IInv, TypeOK', NEW w, Worker = {w}, ClaimForwardJobs(w)
  PROVE  IInv'
<1>0. w \in Worker /\ wk \in [Worker -> WorkerState] /\ wk[w] \in WorkerState
  BY DEF IInv, TypeOK
<1>1. PICK S \in SUBSET Due :
        /\ rows' = [j \in Job |-> IF j \in S THEN Leased(j) ELSE rows[j]]
        /\ wk' = [wk EXCEPT ![w].batch =
                    {[job |-> j, attempts |-> rows[j].attempts + 1, due |-> rows[j].due] : j \in S}]
        /\ hist' = [j \in Job |-> [hist[j] EXCEPT !.rested = @ /\ j \notin S]]
  BY DEF ClaimForwardJobs
<1>2. wk[w].pc = "next" /\ wk[w].batch = {} /\ wk[w].cur = {}
  BY <1>0 DEF ClaimForwardJobs, IInv, MemoryIsCurrent
<1>3. \A j \in S : j \in Job /\ rows[j].status = "pending"
  BY DEF Due
<1>4. /\ wk'[w].pc = "next" /\ wk'[w].cur = {}
      /\ wk'[w].batch = {[job |-> j, attempts |-> rows[j].attempts + 1, due |-> rows[j].due] : j \in S}
  BY <1>0, <1>1, <1>2 DEF WorkerState
<1>5. MemoryIsCurrent'
  <2>1. \A e \in wk'[w].batch :
          /\ e.job \in S /\ e.attempts = rows[e.job].attempts + 1 /\ e.due = rows[e.job].due
          /\ e = [job |-> e.job, attempts |-> e.attempts, due |-> e.due]
    BY <1>4
  <2>2. \A e \in wk'[w].batch : rows'[e.job].status = "pending" /\ rows'[e.job].attempts = e.attempts
    BY <1>1, <1>3, <2>1 DEF Leased
  <2>3. \A e, f \in wk'[w].batch : e.job = f.job => e = f
    BY <2>1
  <2> QED BY <1>4, <2>2, <2>3 DEF MemoryIsCurrent
<1>6. DuplicatesAreFaults'
  <2>1. \A j \in Job : ~Unrecorded(j) /\ ~Unrecorded(j)'
    BY <1>2, <1>4 DEF Unrecorded
  <2>2. \A j \in Job : (rows'[j].status = "sent") <=> (rows[j].status = "sent")
    BY <1>1, <1>3 DEF Leased
  <2>3. \A j \in Job : /\ hist'[j].full = hist[j].full /\ hist'[j].empty = hist[j].empty
                       /\ hist'[j].lost = hist[j].lost
    BY <1>1 DEF IInv, TypeOK
  <2> QED BY <2>1, <2>2, <2>3, SameAccount DEF IInv
<1>7. GivesUpLate'
  BY <1>1 DEF IInv, GivesUpLate, Leased
<1> QED BY <1>5, <1>6, <1>7 DEF IInv

(* Taking the next job, dialling, refusal and the panic of a nil relay change
   no account. *)
LEMMA QuietInv ==
  ASSUME IInv, TypeOK', NEW w, Worker = {w},
         \/ LoadRaw(w) \/ LoadRawFails(w) \/ Dial(w) \/ DialFails(w)
         \/ NilRelayPanics(w) \/ RelayRefuses(w)
  PROVE  IInv'
<1>0. w \in Worker /\ wk \in [Worker -> WorkerState] /\ wk[w] \in WorkerState
  BY DEF IInv, TypeOK
<1>1. UNCHANGED rows
  BY DEF LoadRaw, LoadRawFails, Dial, DialFails, NilRelayPanics, RelayRefuses
<1>2. /\ wk[w].pc \in {"next", "dial", "talk"}
      /\ wk'[w].pc \in {"next", "dial", "talk", "nack"}
  BY <1>0 DEF LoadRaw, LoadRawFails, Dial, DialFails, NilRelayPanics, RelayRefuses,
              Forget, IdleWorker, WorkerState
<1>3. \A j \in Job : /\ hist'[j].full = hist[j].full /\ hist'[j].empty = hist[j].empty
                     /\ hist'[j].lost = hist[j].lost
  BY DEF IInv, TypeOK, LoadRaw, LoadRawFails, Dial, DialFails, NilRelayPanics, RelayRefuses
<1>4. DuplicatesAreFaults'
  <2>1. \A j \in Job : ~Unrecorded(j) /\ ~Unrecorded(j)'
    BY <1>2 DEF Unrecorded
  <2> QED BY <1>1, <1>3, <2>1, SameAccount DEF IInv
<1>5. MemoryIsCurrent'
  <2>1. CASE LoadRaw(w) \/ LoadRawFails(w)
    <3>1. PICK e \in wk[w].batch, b \in {"full", "empty"} :
            wk' = [wk EXCEPT ![w] = [pc |-> "dial", batch |-> wk[w].batch \ {e},
                                     cur |-> {e}, body |-> b]]
      BY <2>1 DEF LoadRaw, LoadRawFails
    <3>2. wk'[w].pc = "dial" /\ wk'[w].batch = wk[w].batch \ {e} /\ wk'[w].cur = {e}
      BY <1>0, <3>1
    <3> QED BY <1>1, <3>2, MemoryOfFewerJobs DEF IInv
  <2>2. CASE Dial(w) \/ DialFails(w) \/ RelayRefuses(w)
    <3>1. /\ wk[w].pc # "next" /\ wk'[w].pc # "next"
          /\ wk'[w].batch = wk[w].batch /\ wk'[w].cur = wk[w].cur
      BY <1>0, <2>2 DEF Dial, DialFails, RelayRefuses, WorkerState
    <3> QED BY <1>0, <1>1, <3>1, MemoryOfFewerJobs DEF IInv, MemoryIsCurrent
  <2>3. CASE NilRelayPanics(w)
    <3>1. wk'[w].pc = "next" /\ wk'[w].batch = {} /\ wk'[w].cur = {}
      BY <1>0, <2>3 DEF NilRelayPanics, Forget, IdleWorker
    <3> QED BY <1>1, <3>1, MemoryOfFewerJobs DEF IInv
  <2> QED BY <2>1, <2>2, <2>3
<1> QED BY <1>1, <1>4, <1>5, SameVerdicts DEF IInv

(* The relay takes a copy: heard, it is on its way to the row; unheard, it is
   counted as lost. *)
LEMMA AcceptedInv ==
  ASSUME IInv, TypeOK', NEW w, Worker = {w}, RelayAccepts(w) \/ RelayAcceptsUnheard(w)
  PROVE  IInv'
<1>0. w \in Worker /\ wk \in [Worker -> WorkerState] /\ wk[w] \in WorkerState
  BY DEF IInv, TypeOK
<1>1. UNCHANGED rows /\ wk[w].pc = "talk"
  BY DEF RelayAccepts, RelayAcceptsUnheard
<1>2. /\ wk'[w].pc = IF RelayAccepts(w) THEN "ack" ELSE "nack"
      /\ wk'[w].batch = wk[w].batch /\ wk'[w].cur = wk[w].cur
  BY <1>0 DEF RelayAccepts, RelayAcceptsUnheard, WorkerState
<1>3. PICK e \in Claimed : /\ wk[w].cur = {e} /\ Current(w) = {e.job} /\ e.job \in Job
                           /\ rows[e.job].status = "pending"
  BY <1>0, <1>1, CurrentJob
<1>4. MemoryIsCurrent'
  BY <1>0, <1>1, <1>2, <1>3, MemoryOfFewerJobs DEF IInv, MemoryIsCurrent
<1>5. \A j \in Job : /\ ~Unrecorded(j)
                     /\ Unrecorded(j)' <=> (RelayAccepts(w) /\ j = e.job)
  <2>1. Current(w)' = {e.job}
    BY <1>2, <1>3 DEF Current
  <2> QED BY <1>0, <1>1, <1>2, <2>1 DEF Unrecorded
<1>6. ASSUME NEW u \in {0, 1}, hist' = Accepted(w, u), u = IF RelayAccepts(w) THEN 0 ELSE 1
      PROVE  DuplicatesAreFaults'
  <2>1. \A j \in Job : j # e.job => hist'[j] = hist[j]
    BY <1>3, <1>6 DEF Accepted
  <2>2. hist'[e.job].lost = hist[e.job].lost + u
    BY <1>3, <1>6 DEF Accepted, IInv, TypeOK
  <2>3. hist'[e.job].full + hist'[e.job].empty = hist[e.job].full + hist[e.job].empty + 1
    <3>1. CASE wk[w].body = "full"
      <4>1. hist'[e.job].full = hist[e.job].full + 1 /\ hist'[e.job].empty = hist[e.job].empty + 0
        BY <1>3, <1>6, <3>1 DEF Accepted, IInv, TypeOK
      <4> QED BY <1>3, <4>1 DEF IInv, TypeOK
    <3>2. CASE wk[w].body # "full"
      <4>1. hist'[e.job].full = hist[e.job].full + 0 /\ hist'[e.job].empty = hist[e.job].empty + 1
        BY <1>3, <1>6, <3>2 DEF Accepted, IInv, TypeOK
      <4> QED BY <1>3, <4>1 DEF IInv, TypeOK
    <3> QED BY <3>1, <3>2
  <2>4. ASSUME NEW j \in Job
        PROVE  Copies(j)' = hist'[j].lost + (IF rows'[j].status = "sent" THEN 1 ELSE 0)
                            + (IF Unrecorded(j)' THEN 1 ELSE 0)
    <3>0. Copies(j) = hist[j].lost + (IF rows[j].status = "sent" THEN 1 ELSE 0) + 0
      BY <1>5 DEF IInv, DuplicatesAreFaults
    <3>1. CASE j # e.job
      BY <1>1, <1>5, <2>1, <3>0, <3>1 DEF Copies
    <3>2. CASE j = e.job
      <4>1. hist[j].full + hist[j].empty = hist[j].lost + 0 + 0
        BY <1>3, <3>0, <3>2 DEF Copies
      <4>2. hist[j].lost \in Nat
        BY DEF IInv, TypeOK
      <4>3. rows'[j].status # "sent" /\ (Unrecorded(j)' <=> u = 0)
        BY <1>1, <1>3, <1>5, <1>6, <3>2
      <4>4. hist'[j].full + hist'[j].empty = hist[j].lost + 1 /\ hist'[j].lost = hist[j].lost + u
        BY <2>2, <2>3, <3>2, <4>1, <4>2
      <4> QED BY <4>2, <4>3, <4>4 DEF Copies
    <3> QED BY <3>1, <3>2
  <2> QED BY <2>4 DEF DuplicatesAreFaults
<1>7. DuplicatesAreFaults'
  <2>1. CASE RelayAccepts(w)
    BY <1>6, <2>1 DEF RelayAccepts
  <2>2. CASE ~RelayAccepts(w)
    BY <1>6, <2>2 DEF RelayAcceptsUnheard
  <2> QED BY <2>1, <2>2
<1> QED BY <1>1, <1>4, <1>7, SameVerdicts DEF IInv

(* Recording an outcome, or failing to. *)
LEMMA MarkInv ==
  ASSUME IInv, TypeOK', NEW w, Worker = {w},
         \/ MarkForwardSent(w) \/ MarkForwardSentFails(w)
         \/ MarkForwardFailed(w) \/ MarkForwardRetry(w) \/ MarkFails(w)
  PROVE  IInv'
<1>0. w \in Worker /\ wk \in [Worker -> WorkerState] /\ wk[w] \in WorkerState
  BY DEF IInv, TypeOK
<1>1. /\ wk'[w].pc = "next" /\ wk'[w].cur = {} /\ wk'[w].batch = wk[w].batch
      /\ wk[w].pc \in {"ack", "nack"}
  BY <1>0 DEF MarkForwardSent, MarkForwardSentFails, MarkForwardFailed, MarkForwardRetry,
              MarkFails, NextJob, WorkerState
<1>2. PICK e \in Claimed : /\ wk[w].cur = {e} /\ Current(w) = {e.job} /\ e.job \in Job
                           /\ rows[e.job].status = "pending"
                           /\ rows[e.job].attempts = e.attempts
  BY <1>0, <1>1, CurrentJob
<1>3. \A j \in Job : j # e.job => rows'[j] = rows[j] /\ hist'[j] = hist[j]
  <2>1. rows \in [Job -> RowState]
    BY DEF IInv, TypeOK
  <2>2. CASE MarkForwardSent(w)
    BY <1>2, <2>2 DEF MarkForwardSent
  <2>3. CASE MarkForwardSentFails(w)
    BY <1>2, <2>3 DEF MarkForwardSentFails
  <2>4. CASE MarkForwardFailed(w)
    BY <1>2, <2>1, <2>4 DEF MarkForwardFailed
  <2>5. CASE MarkForwardRetry(w)
    BY <1>2, <2>1, <2>5 DEF MarkForwardRetry
  <2>6. CASE MarkFails(w)
    BY <2>6 DEF MarkFails
  <2> QED BY <2>2, <2>3, <2>4, <2>5, <2>6
<1>4. \A f \in wk[w].batch : f.job # e.job
  BY <1>0, <1>2 DEF IInv, MemoryIsCurrent
<1>5. MemoryIsCurrent'
  <2>1. \A f \in wk[w].batch : f.job \in Job
    BY <1>0 DEF WorkerState, Claimed
  <2>2. \A f \in wk'[w].batch : rows'[f.job].status = "pending" /\ rows'[f.job].attempts = f.attempts
    BY <1>0, <1>1, <1>3, <1>4, <2>1 DEF IInv, MemoryIsCurrent
  <2>3. \A f, g \in wk'[w].batch : f.job = g.job => f = g
    BY <1>0, <1>1 DEF IInv, MemoryIsCurrent
  <2> QED BY <1>1, <2>2, <2>3 DEF MemoryIsCurrent
<1>6. \A j \in Job : ~Unrecorded(j)'
  BY <1>1 DEF Unrecorded
<1>7. \A j \in Job : Unrecorded(j) <=> (wk[w].pc = "ack" /\ j = e.job)
  BY <1>0, <1>2 DEF Unrecorded
<1>8. DuplicatesAreFaults'
  <2>1. ASSUME NEW j \in Job
        PROVE  Copies(j)' = hist'[j].lost + (IF rows'[j].status = "sent" THEN 1 ELSE 0)
                            + (IF Unrecorded(j)' THEN 1 ELSE 0)
    <3>0. /\ Copies(j) = hist[j].lost + (IF rows[j].status = "sent" THEN 1 ELSE 0)
                                    + (IF Unrecorded(j) THEN 1 ELSE 0)
          /\ hist[j].lost \in Nat /\ rows[j] \in RowState
      BY DEF IInv, DuplicatesAreFaults, TypeOK
    <3>1. CASE j # e.job
      BY <1>3, <1>6, <1>7, <3>0, <3>1 DEF Copies
    <3>2. CASE j = e.job /\ wk[w].pc = "ack"
      <4>1. Copies(j) = hist[j].lost + 1
        BY <1>2, <1>7, <3>0, <3>2
      <4>2. CASE MarkForwardSent(w)
        <5>1. rows'[j].status = "sent" /\ hist' = hist
          BY <1>2, <3>0, <3>2, <4>2 DEF MarkForwardSent, IInv, TypeOK
        <5> QED BY <1>6, <3>0, <4>1, <5>1 DEF Copies
      <4>3. CASE MarkForwardSentFails(w)
        <5>1. rows'[j].status # "sent" /\ hist'[j].lost = hist[j].lost + 1
              /\ hist'[j].full = hist[j].full /\ hist'[j].empty = hist[j].empty
          BY <1>2, <3>2, <4>3 DEF MarkForwardSentFails, IInv, TypeOK
        <5> QED BY <1>6, <3>0, <4>1, <5>1 DEF Copies
      <4> QED BY <3>2, <4>2, <4>3 DEF MarkForwardFailed, MarkForwardRetry, MarkFails
    <3>3. CASE j = e.job /\ wk[w].pc = "nack"
      <4>1. Copies(j) = hist[j].lost
        BY <1>2, <1>7, <3>0, <3>3
      <4>2. hist' = hist
        BY <3>3 DEF MarkForwardSent, MarkForwardSentFails, MarkForwardFailed,
                    MarkForwardRetry, MarkFails
      <4>3. rows'[j].status # "sent"
        <5>1. CASE MarkForwardFailed(w)
          BY <1>2, <3>0, <3>3, <5>1 DEF MarkForwardFailed, IInv, TypeOK
        <5>2. CASE MarkForwardRetry(w)
          BY <1>2, <3>0, <3>3, <5>2 DEF MarkForwardRetry, IInv, TypeOK
        <5>3. CASE MarkFails(w)
          BY <1>2, <3>3, <5>3 DEF MarkFails
        <5> QED BY <3>3, <5>1, <5>2, <5>3 DEF MarkForwardSent, MarkForwardSentFails
      <4> QED BY <1>6, <3>0, <4>1, <4>2, <4>3 DEF Copies
    <3> QED BY <1>1, <3>1, <3>2, <3>3
  <2> QED BY <2>1 DEF DuplicatesAreFaults
<1>9. GivesUpLate'
  <2>1. rows'[e.job].status = "failed" => rows'[e.job].attempts >= MaxTries
    <3>0. rows \in [Job -> RowState]
      BY DEF IInv, TypeOK
    <3>1. CASE MarkForwardFailed(w)
      BY <1>2, <3>0, <3>1 DEF MarkForwardFailed, RowState
    <3>2. CASE MarkForwardRetry(w)
      BY <1>2, <3>0, <3>2 DEF MarkForwardRetry
    <3>3. CASE MarkForwardSent(w)
      BY <1>2, <3>0, <3>3 DEF MarkForwardSent, RowState
    <3>4. CASE MarkForwardSentFails(w) \/ MarkFails(w)
      BY <1>2, <3>4 DEF MarkForwardSentFails, MarkFails
    <3> QED BY <3>1, <3>2, <3>3, <3>4
  <2> QED BY <1>3, <2>1 DEF IInv, GivesUpLate
<1> QED BY <1>5, <1>8, <1>9 DEF IInv

(* Senders, deletes, crashes, restarts and time. *)
LEMMA EnvironmentInv ==
  ASSUME IInv, TypeOK', NEW w, Worker = {w},
         \/ \E j \in Job : EnqueueForward(j)
         \/ \E m \in Msg : DeleteMessage(m)
         \/ Crash \/ Restart \/ Tick
  PROVE  IInv'
<1>0. /\ w \in Worker /\ wk \in [Worker -> WorkerState] /\ wk[w] \in WorkerState
      /\ rows \in [Job -> RowState]
  BY DEF IInv, TypeOK
<1>1. ASSUME NEW j \in Job, EnqueueForward(j) PROVE IInv'
  <2>1. UNCHANGED <<wk, hist>> /\ rows[j].status = "none"
        /\ rows' = [rows EXCEPT ![j] = [status |-> "pending", attempts |-> 0, due |-> 0]]
    BY <1>1 DEF EnqueueForward
  <2>2. MemoryIsCurrent'
    BY <1>0, <2>1 DEF IInv, MemoryIsCurrent
  <2>3. \A k \in Job : /\ (rows'[k].status = "sent") <=> (rows[k].status = "sent")
                       /\ Unrecorded(k)' <=> Unrecorded(k)
    BY <1>0, <2>1 DEF Unrecorded, Current
  <2>4. DuplicatesAreFaults'
    BY <2>1, <2>3, SameAccount DEF IInv
  <2>5. GivesUpLate'
    BY <1>0, <2>1 DEF IInv, GivesUpLate
  <2> QED BY <2>2, <2>4, <2>5 DEF IInv
<1>2. CASE (\E m \in Msg : DeleteMessage(m)) \/ Restart
  <2>1. UNCHANGED <<rows, wk, hist>>
    BY <1>2 DEF DeleteMessage, Restart
  <2> QED BY <2>1 DEF IInv, MemoryIsCurrent, DuplicatesAreFaults, GivesUpLate, Copies,
                      Unrecorded, Current
<1>3. CASE Crash
  <2>1. UNCHANGED rows /\ wk'[w].pc = "next" /\ wk'[w].batch = {} /\ wk'[w].cur = {}
    BY <1>0, <1>3 DEF Crash, Forget, IdleWorker
  <2>2. MemoryIsCurrent'
    BY <2>1, MemoryOfFewerJobs DEF IInv
  <2>3. ASSUME NEW j \in Job
        PROVE  Copies(j)' = hist'[j].lost + (IF rows'[j].status = "sent" THEN 1 ELSE 0)
                            + (IF Unrecorded(j)' THEN 1 ELSE 0)
    <3>1. ~Unrecorded(j)'
      BY <2>1 DEF Unrecorded
    <3>2. /\ Copies(j) = hist[j].lost + (IF rows[j].status = "sent" THEN 1 ELSE 0)
                                    + (IF Unrecorded(j) THEN 1 ELSE 0)
          /\ hist[j].lost \in Nat
      BY DEF IInv, DuplicatesAreFaults, TypeOK
    <3>3. /\ hist'[j].full = hist[j].full /\ hist'[j].empty = hist[j].empty
          /\ hist'[j].lost = hist[j].lost + (IF Unrecorded(j) THEN 1 ELSE 0)
      BY <1>3, <3>2 DEF Crash, IInv, TypeOK
    <3> QED BY <2>1, <3>1, <3>2, <3>3 DEF Copies
  <2>4. DuplicatesAreFaults'
    BY <2>3 DEF DuplicatesAreFaults
  <2> QED BY <2>1, <2>2, <2>4, SameVerdicts DEF IInv
<1>4. CASE Tick
  <2>1. /\ UNCHANGED wk
        /\ \A j \in Job : /\ rows'[j].status = rows[j].status
                          /\ rows'[j].attempts = rows[j].attempts
                          /\ hist'[j].full = hist[j].full /\ hist'[j].empty = hist[j].empty
                          /\ hist'[j].lost = hist[j].lost
    BY <1>0, <1>4 DEF Tick, IInv, TypeOK, RowState
  <2>2. MemoryIsCurrent'
    <3>1. \A e \in wk[w].batch \cup wk[w].cur : e.job \in Job
      BY <1>0 DEF WorkerState, Claimed
    <3> QED BY <2>1, <3>1 DEF IInv, MemoryIsCurrent
  <2>3. DuplicatesAreFaults'
    <3>1. \A j \in Job : Unrecorded(j)' <=> Unrecorded(j)
      BY <2>1 DEF Unrecorded, Current
    <3> QED BY <2>1, <3>1, SameAccount DEF IInv
  <2>4. GivesUpLate'
    BY <2>1 DEF IInv, GivesUpLate
  <2> QED BY <2>2, <2>3, <2>4 DEF IInv
<1> QED BY <1>1, <1>2, <1>3, <1>4

(* With one worker, the invariant is inductive: the worker's memory and the
   table agree although leases run out, because nobody else reads the table. *)
THEOREM Inductive == OneWorker /\ Spec => []IInv
<1>1. Init => IInv
  <2> SUFFICES ASSUME Init PROVE IInv
    OBVIOUS
  <2>1. TypeOK
    BY InitTypes
  <2>2. \A w \in Worker : wk[w].pc = "next" /\ wk[w].batch = {} /\ wk[w].cur = {}
    BY DEF Init, Forget, IdleWorker
  <2>3. MemoryIsCurrent
    BY <2>2 DEF MemoryIsCurrent
  <2>4. DuplicatesAreFaults
    BY <2>2 DEF Init, DuplicatesAreFaults, Copies, Unrecorded
  <2>5. GivesUpLate
    BY DEF Init, GivesUpLate
  <2> QED BY <2>1, <2>3, <2>4, <2>5 DEF IInv
<1>2. OneWorker /\ IInv /\ [Next]_vars => IInv'
  <2>1. ASSUME OneWorker, IInv, Next PROVE IInv'
    <3>1. PICK w : Worker = {w}
      BY <2>1 DEF OneWorker
    <3>2. TypeOK'
      BY <2>1, WorkerTypes, EnvironmentTypes DEF IInv, Next
    <3>3. \/ WorkerStep(w) \/ WorkerFault(w) \/ RelayStep(w)
          \/ \E j \in Job : EnqueueForward(j)
          \/ \E m \in Msg : DeleteMessage(m)
          \/ Crash \/ Restart \/ Tick
      BY <2>1, <3>1 DEF Next
    <3> QED BY <2>1, <3>1, <3>2, <3>3, ClaimInv, QuietInv, AcceptedInv, MarkInv, EnvironmentInv
            DEF WorkerStep, WorkerFault, RelayStep
  <2>2. ASSUME IInv, UNCHANGED vars PROVE IInv'
    BY <2>2 DEF vars, IInv, TypeOK, MemoryIsCurrent, DuplicatesAreFaults, GivesUpLate,
                Copies, Unrecorded, Current
  <2> QED BY <2>1, <2>2
<1>3. OneWorker => []OneWorker
  <2>1. OneWorker => OneWorker'
    BY DEF OneWorker
  <2> QED BY <2>1, PTL
<1> QED BY <1>1, <1>2, <1>3, PTL DEF Spec

(* Every copy beyond the first is the price of a fault. *)
THEOREM EveryCopyIsAccountedFor == OneWorker /\ Spec => []DuplicatesAreFaults
<1>1. IInv => DuplicatesAreFaults
  BY DEF IInv
<1> QED BY <1>1, Inductive, PTL

(* A worker that is alone never acts on what is no longer so. *)
THEOREM MemoryStaysCurrent == OneWorker /\ Spec => []MemoryIsCurrent
<1>1. IInv => MemoryIsCurrent
  BY DEF IInv
<1> QED BY <1>1, Inductive, PTL

(* No job is given up before its last permitted attempt was charged. *)
THEOREM NobodyGivesUpEarly == OneWorker /\ Spec => []GivesUpLate
<1>1. IInv => GivesUpLate
  BY DEF IInv
<1> QED BY <1>1, Inductive, PTL

---------------------------------------------------------------------------
(* Attempts: charged, made, ahead, or lost to a crash *)

(* A row that was never enqueued was never charged. *)
TriesInv ==
  /\ AttemptsAreTries
  /\ \A j \in Job : rows[j].status = "none" => rows[j].attempts = 0

(* What a step has to keep for each job; the numbers are the attempts charged,
   made and ahead, before and after. *)
LEMMA TriesOfOneJob ==
  ASSUME TypeOK, TypeOK', TriesInv,
         \A j \in Job :
           LET a0 == IF Untried(j) THEN 1 ELSE 0
               a1 == IF Untried(j)' THEN 1 ELSE 0
               charged == rows'[j].attempts - rows[j].attempts
               used == (hist'[j].sends + a1) - (hist[j].sends + a0)
           IN  /\ used <= charged
               /\ charged <= used + (env'.crashes - env.crashes),
         \A j \in Job : rows'[j].status = "none" => /\ rows[j].status = "none"
                                                    /\ rows'[j].attempts = rows[j].attempts
  PROVE  TriesInv'
<1>1. \A j \in Job : /\ rows[j].attempts \in Nat /\ rows'[j].attempts \in Nat
                     /\ hist[j].sends \in Nat /\ hist'[j].sends \in Nat
  BY DEF TypeOK, RowState
<1>2. env.crashes \in Nat /\ env'.crashes \in Nat
  BY DEF TypeOK
<1>3. AttemptsAreTries'
  BY <1>1, <1>2 DEF TriesInv, AttemptsAreTries
<1>4. \A j \in Job : rows'[j].status = "none" => rows'[j].attempts = 0
  BY DEF TriesInv
<1> QED BY <1>3, <1>4 DEF TriesInv

(* What the relay's acceptance leaves alone. *)
LEMMA AcceptedLeaves ==
  ASSUME TypeOK, NEW w \in Worker, NEW n \in Nat, hist' = Accepted(w, n), NEW j \in Job
  PROVE  /\ hist'[j].sends = hist[j].sends
         /\ j \notin Current(w) \/ wk[w].body = "full" => hist'[j].empty = hist[j].empty
<1>1. CASE j \notin Current(w)
  BY <1>1 DEF Accepted
<1>2. CASE j \in Current(w)
  <2>1. hist'[j].sends = hist[j].sends
    BY <1>2 DEF Accepted, TypeOK
  <2>2. ASSUME wk[w].body = "full" PROVE hist'[j].empty = hist[j].empty
    <3>1. hist'[j].empty = hist[j].empty + 0
      BY <1>2, <2>2 DEF Accepted, TypeOK
    <3>2. hist[j].empty \in Nat
      BY DEF TypeOK
    <3> QED BY <3>1, <3>2
  <2> QED BY <1>2, <2>1, <2>2
<1> QED BY <1>1, <1>2

(* What the only worker has ahead. *)
LEMMA AheadOfOne ==
  ASSUME NEW w, Worker = {w}, NEW j
  PROVE  /\ Untried(j) <=> \/ \E e \in wk[w].batch : e.job = j
                           \/ wk[w].pc = "dial" /\ \E e \in wk[w].cur : e.job = j
         /\ Untried(j)' <=> \/ \E e \in wk'[w].batch : e.job = j
                            \/ wk'[w].pc = "dial" /\ \E e \in wk'[w].cur : e.job = j
BY DEF Untried, Current

(* A claim charges what it puts ahead. *)
LEMMA ClaimTries ==
  ASSUME IInv, TypeOK', TriesInv, NEW w, Worker = {w}, ClaimForwardJobs(w)
  PROVE  TriesInv'
<1>0. TypeOK /\ w \in Worker /\ wk[w] \in WorkerState
  BY DEF IInv, TypeOK
<1>1. PICK S \in SUBSET Due :
        /\ rows' = [j \in Job |-> IF j \in S THEN Leased(j) ELSE rows[j]]
        /\ wk' = [wk EXCEPT ![w].batch =
                    {[job |-> j, attempts |-> rows[j].attempts + 1, due |-> rows[j].due] : j \in S}]
        /\ hist' = [j \in Job |-> [hist[j] EXCEPT !.rested = @ /\ j \notin S]]
  BY DEF ClaimForwardJobs
<1>2. wk[w].pc = "next" /\ wk[w].batch = {} /\ UNCHANGED env
  BY DEF ClaimForwardJobs
<1>3. /\ wk'[w].pc = "next"
      /\ wk'[w].batch = {[job |-> j, attempts |-> rows[j].attempts + 1, due |-> rows[j].due] : j \in S}
  BY <1>0, <1>1, <1>2 DEF TypeOK, WorkerState
<1>4. \A j \in Job : ~Untried(j)
  BY <1>2, AheadOfOne
<1>5. \A j \in Job : Untried(j)' <=> j \in S
  <2>1. \A j \in Job : (\E e \in wk'[w].batch : e.job = j) => j \in S
    BY <1>3
  <2>2. ASSUME NEW j \in S PROVE \E e \in wk'[w].batch : e.job = j
    <3> DEFINE e == [job |-> j, attempts |-> rows[j].attempts + 1, due |-> rows[j].due]
    <3>1. e \in wk'[w].batch /\ e.job = j
      BY <1>3
    <3> QED BY <3>1
  <2> QED BY <1>3, <2>1, <2>2, AheadOfOne
<1>6. \A j \in Job : hist'[j].sends = hist[j].sends
  BY <1>0, <1>1 DEF TypeOK
<1>7. \A j \in Job : /\ j \in S => /\ rows'[j].attempts = rows[j].attempts + 1
                                   /\ rows'[j].status = "pending"
                     /\ j \notin S => rows'[j] = rows[j]
  BY <1>1 DEF Leased
<1>8. \A j \in Job : rows[j].attempts \in Nat /\ hist[j].sends \in Nat
  BY <1>0 DEF TypeOK, RowState
<1>9. env.crashes \in Nat
  BY <1>0 DEF TypeOK
<1> QED BY <1>0, <1>2, <1>4, <1>5, <1>6, <1>7, <1>8, <1>9, TriesOfOneJob

(* Taking a job moves what is ahead; dialling spends it; a panic loses it. *)
LEMMA QuietTries ==
  ASSUME IInv, TypeOK', TriesInv, NEW w, Worker = {w},
         \/ LoadRaw(w) \/ LoadRawFails(w) \/ Dial(w) \/ DialFails(w)
         \/ NilRelayPanics(w) \/ RelayStep(w)
  PROVE  TriesInv'
<1>0. TypeOK /\ w \in Worker /\ wk \in [Worker -> WorkerState] /\ wk[w] \in WorkerState
  BY DEF IInv, TypeOK
<1>1. UNCHANGED rows
  BY DEF LoadRaw, LoadRawFails, Dial, DialFails, NilRelayPanics,
         RelayStep, RelayAccepts, RelayAcceptsUnheard, RelayRefuses
<1>2. /\ \A j \in Job : rows[j].attempts \in Nat /\ hist[j].sends \in Nat /\ hist'[j].sends \in Nat
      /\ env.crashes \in Nat
  BY <1>0 DEF TypeOK, RowState
<1>3. CASE LoadRaw(w) \/ LoadRawFails(w)
  <2>1. PICK e \in wk[w].batch, b \in {"full", "empty"} :
          wk' = [wk EXCEPT ![w] = [pc |-> "dial", batch |-> wk[w].batch \ {e},
                                   cur |-> {e}, body |-> b]]
    BY <1>3 DEF LoadRaw, LoadRawFails
  <2>2. wk'[w].pc = "dial" /\ wk'[w].batch = wk[w].batch \ {e} /\ wk'[w].cur = {e}
    BY <1>0, <2>1
  <2>3. wk[w].pc = "next" /\ UNCHANGED hist /\ env'.crashes = env.crashes
    BY <1>0, <1>3 DEF LoadRaw, LoadRawFails, TypeOK
  <2>4. \A j \in Job : Untried(j)' <=> Untried(j)
    BY <2>2, <2>3, AheadOfOne
  <2> QED BY <1>0, <1>1, <1>2, <2>3, <2>4, TriesOfOneJob
<1>4. CASE Dial(w) \/ DialFails(w)
  <2>1. /\ wk[w].pc = "dial" /\ wk'[w].pc \in {"talk", "nack"}
        /\ wk'[w].batch = wk[w].batch /\ wk'[w].cur = wk[w].cur /\ UNCHANGED env
    BY <1>0, <1>4 DEF Dial, DialFails, WorkerState
  <2>2. PICK e \in Claimed : wk[w].cur = {e} /\ Current(w) = {e.job} /\ e.job \in Job
    BY <1>0, <2>1, CurrentJob
  <2>3. \A f \in wk[w].batch : f.job # e.job
    BY <1>0, <2>2 DEF IInv, MemoryIsCurrent
  <2>4. \A j \in Job : hist'[j].sends = IF j = e.job THEN hist[j].sends + 1 ELSE hist[j].sends
    BY <1>0, <1>4, <2>2 DEF Dial, DialFails, TypeOK
  <2>5. Untried(e.job) /\ ~Untried(e.job)'
    BY <2>1, <2>2, <2>3, AheadOfOne
  <2>6. \A j \in Job : j # e.job => (Untried(j)' <=> Untried(j))
    BY <2>1, <2>2, AheadOfOne
  <2> QED BY <1>0, <1>1, <1>2, <2>1, <2>4, <2>5, <2>6, TriesOfOneJob
<1>5. CASE NilRelayPanics(w)
  <2>1. wk'[w].pc = "next" /\ wk'[w].batch = {} /\ UNCHANGED hist
    BY <1>0, <1>5 DEF NilRelayPanics, Forget, IdleWorker
  <2>2. env'.crashes = env.crashes + 1
    BY <1>0, <1>5 DEF NilRelayPanics, TypeOK
  <2>3. \A j \in Job : ~Untried(j)'
    BY <2>1, AheadOfOne
  <2> QED BY <1>0, <1>1, <1>2, <2>1, <2>2, <2>3, TriesOfOneJob
<1>6. CASE RelayStep(w)
  <2>1. /\ wk[w].pc = "talk" /\ wk'[w].pc \in {"ack", "nack"}
        /\ wk'[w].batch = wk[w].batch
    BY <1>0, <1>6 DEF RelayStep, RelayAccepts, RelayAcceptsUnheard, RelayRefuses, WorkerState
  <2>2. \A j \in Job : hist'[j].sends = hist[j].sends
    BY <1>0, <1>6, AcceptedLeaves DEF RelayStep, RelayAccepts, RelayAcceptsUnheard, RelayRefuses
  <2>3. env'.crashes = env.crashes
    BY <1>0, <1>6 DEF RelayStep, RelayAccepts, RelayAcceptsUnheard, RelayRefuses, TypeOK
  <2>4. \A j \in Job : Untried(j)' <=> Untried(j)
    BY <2>1, AheadOfOne
  <2> QED BY <1>0, <1>1, <1>2, <2>2, <2>3, <2>4, TriesOfOneJob
<1> QED BY <1>3, <1>4, <1>5, <1>6

(* A mark writes back the attempts the row has. *)
LEMMA MarkTries ==
  ASSUME IInv, TypeOK', TriesInv, NEW w, Worker = {w},
         \/ MarkForwardSent(w) \/ MarkForwardFailed(w) \/ MarkForwardRetry(w)
         \/ MarkForwardSentFails(w) \/ MarkFails(w)
  PROVE  TriesInv'
<1>0. TypeOK /\ w \in Worker /\ wk \in [Worker -> WorkerState] /\ wk[w] \in WorkerState
  BY DEF IInv, TypeOK
<1>1. wk[w].pc \in {"ack", "nack"} /\ wk'[w].pc = "next" /\ wk'[w].batch = wk[w].batch
  BY <1>0 DEF MarkForwardSent, MarkForwardFailed, MarkForwardRetry, MarkForwardSentFails,
              MarkFails, NextJob, WorkerState
<1>2. PICK e \in Claimed : /\ wk[w].cur = {e} /\ Current(w) = {e.job} /\ e.job \in Job
                           /\ rows[e.job].status = "pending"
                           /\ rows[e.job].attempts = e.attempts
  BY <1>0, <1>1, CurrentJob
<1>3. \A j \in Job : /\ rows'[j].attempts = rows[j].attempts
                     /\ rows'[j].status = "none" => rows[j].status = "none"
  BY <1>0, <1>2 DEF MarkForwardSent, MarkForwardFailed, MarkForwardRetry, MarkForwardSentFails,
                    MarkFails, TypeOK, RowState
<1>4. \A j \in Job : hist'[j].sends = hist[j].sends
  BY <1>0 DEF MarkForwardSent, MarkForwardFailed, MarkForwardRetry, MarkForwardSentFails,
              MarkFails, TypeOK
<1>5. env'.crashes = env.crashes
  BY <1>0 DEF MarkForwardSent, MarkForwardFailed, MarkForwardRetry, MarkForwardSentFails,
              MarkFails, TypeOK
<1>6. \A j \in Job : Untried(j)' <=> Untried(j)
  BY <1>1, AheadOfOne
<1>7. /\ \A j \in Job : rows[j].attempts \in Nat /\ hist[j].sends \in Nat
      /\ env.crashes \in Nat
  BY <1>0 DEF TypeOK, RowState
<1> QED BY <1>0, <1>3, <1>4, <1>5, <1>6, <1>7, TriesOfOneJob

(* A crash takes what is ahead of each job, at most one attempt. *)
LEMMA EnvironmentTries ==
  ASSUME IInv, TypeOK', TriesInv, NEW w, Worker = {w},
         \/ \E j \in Job : EnqueueForward(j)
         \/ \E m \in Msg : DeleteMessage(m)
         \/ Crash \/ Restart \/ Tick
  PROVE  TriesInv'
<1>0. TypeOK /\ w \in Worker /\ wk \in [Worker -> WorkerState]
  BY DEF IInv, TypeOK
<1>1. /\ \A j \in Job : /\ rows[j].attempts \in Nat /\ hist[j].sends \in Nat
      /\ env.crashes \in Nat
  BY <1>0 DEF TypeOK, RowState
<1>2. CASE Crash
  <2>1. wk'[w].pc = "next" /\ wk'[w].batch = {} /\ UNCHANGED rows
    BY <1>0, <1>2 DEF Crash, Forget, IdleWorker
  <2>2. env'.crashes = env.crashes + 1
    BY <1>0, <1>2 DEF Crash, TypeOK
  <2>3. \A j \in Job : hist'[j].sends = hist[j].sends
    BY <1>0, <1>2 DEF Crash, TypeOK
  <2>4. \A j \in Job : ~Untried(j)'
    BY <2>1, AheadOfOne
  <2> QED BY <1>0, <1>1, <2>1, <2>2, <2>3, <2>4, TriesOfOneJob
<1>3. CASE \/ \E j \in Job : EnqueueForward(j)
           \/ \E m \in Msg : DeleteMessage(m)
           \/ Restart \/ Tick
  <2>1. UNCHANGED <<wk, env>>
    BY <1>3 DEF EnqueueForward, DeleteMessage, Restart, Tick
  <2>2. \A j \in Job : hist'[j].sends = hist[j].sends
    BY <1>0, <1>3 DEF EnqueueForward, DeleteMessage, Restart, Tick, TypeOK
  <2>3. \A j \in Job : Untried(j)' <=> Untried(j)
    BY <2>1, AheadOfOne
  <2>4. \A j \in Job : rows[j].status = "none" => rows[j].attempts = 0
    BY DEF TriesInv
  <2>5. \A j \in Job : /\ rows'[j].attempts = rows[j].attempts
                       /\ rows'[j].status = "none" => rows[j].status = "none"
    BY <1>0, <1>3, <2>4 DEF EnqueueForward, DeleteMessage, Restart, Tick, TypeOK, RowState
  <2> QED BY <1>0, <1>1, <2>1, <2>2, <2>3, <2>5, TriesOfOneJob
<1> QED BY <1>2, <1>3

(* A charged attempt is made, ahead, or lost to a crash, and none is made
   that was not charged. *)
THEOREM AttemptsAreAccountedFor == OneWorker /\ Spec => []AttemptsAreTries
<1>1. Init => TriesInv
  <2> SUFFICES ASSUME Init PROVE TriesInv
    OBVIOUS
  <2>1. \A w \in Worker : wk[w].pc = "next" /\ wk[w].batch = {}
    BY DEF Init, Forget, IdleWorker
  <2>2. \A j \in Job : ~Untried(j)
    BY <2>1 DEF Untried
  <2> QED BY <2>2 DEF Init, TriesInv, AttemptsAreTries
<1>2. OneWorker /\ IInv /\ IInv' /\ TriesInv /\ [Next]_vars => TriesInv'
  <2>1. ASSUME OneWorker, IInv, IInv', TriesInv, Next PROVE TriesInv'
    <3>1. PICK w : Worker = {w}
      BY <2>1 DEF OneWorker
    <3>2. TypeOK'
      BY <2>1 DEF IInv
    <3>3. \/ WorkerStep(w) \/ WorkerFault(w) \/ RelayStep(w)
          \/ \E j \in Job : EnqueueForward(j)
          \/ \E m \in Msg : DeleteMessage(m)
          \/ Crash \/ Restart \/ Tick
      BY <2>1, <3>1 DEF Next
    <3> QED BY <2>1, <3>1, <3>2, <3>3, ClaimTries, QuietTries, MarkTries, EnvironmentTries
            DEF WorkerStep, WorkerFault
  <2>2. ASSUME TriesInv, UNCHANGED vars PROVE TriesInv'
    BY <2>2 DEF vars, TriesInv, AttemptsAreTries, Untried, Current
  <2> QED BY <2>1, <2>2
<1>3. OneWorker => []OneWorker
  <2>1. OneWorker => OneWorker'
    BY DEF OneWorker
  <2> QED BY <2>1, PTL
<1>4. TriesInv => AttemptsAreTries
  BY DEF TriesInv
<1> QED BY <1>1, <1>2, <1>3, <1>4, Inductive, PTL DEF Spec

---------------------------------------------------------------------------
(* Copies without a body *)

(* A job in hand that has lost its source has a cause for it, too. *)
EmptyInv ==
  /\ EmptyCopiesAreExcused
  /\ \A w \in Worker : \A e \in wk[w].cur :
       wk[w].body = "full" \/ MessageOf[e.job] \notin stored \/ env.store > 0

(* A copy without its source means that the message was deleted or that a
   statement failed, with any number of workers. *)
THEOREM EmptyCopiesHaveCauses == Spec => []EmptyCopiesAreExcused
<1>1. Init => EmptyInv
  BY DEF Init, EmptyInv, EmptyCopiesAreExcused, Forget, IdleWorker
<1>2. TypeOK /\ TypeOK' /\ EmptyInv /\ [Next]_vars => EmptyInv'
  <2> SUFFICES ASSUME TypeOK, TypeOK', EmptyInv, [Next]_vars PROVE EmptyInv'
    OBVIOUS
  <2>0. /\ wk \in [Worker -> WorkerState]
        /\ \A j \in Job : hist[j].empty \in Nat
        /\ env.store \in Nat /\ env'.store \in Nat
    BY DEF TypeOK
  (* Causes do not go away. *)
  <2>1. stored' \subseteq stored /\ env'.store >= env.store
    BY <2>0 DEF Next, vars, WorkerStep, WorkerFault, RelayStep, ClaimForwardJobs, LoadRaw, LoadRawFails,
           Dial, DialFails, NilRelayPanics, RelayRefuses, RelayAccepts, RelayAcceptsUnheard,
           MarkForwardSent, MarkForwardSentFails, MarkForwardFailed, MarkForwardRetry, MarkFails,
           EnqueueForward, DeleteMessage, Crash, Restart, Tick, TypeOK
  <2> DEFINE Excused(j) == MessageOf[j] \notin stored' \/ env'.store > 0
  <2>2. \A j \in Job : (MessageOf[j] \notin stored \/ env.store > 0) => Excused(j)
    BY <2>0, <2>1
  <2> HIDE DEF Excused
  <2> DEFINE Clear(v) == \A e \in wk'[v].cur : wk'[v].body = "full" \/ Excused(e.job)
  <2>3. \A v \in Worker : (wk'[v] = wk[v] \/ wk'[v].cur = {}) => Clear(v)
    <3> SUFFICES ASSUME NEW v \in Worker, wk'[v] = wk[v], NEW e \in wk[v].cur
                 PROVE  wk[v].body = "full" \/ Excused(e.job)
      OBVIOUS
    <3>1. e.job \in Job
      BY <2>0 DEF WorkerState, Claimed
    <3> QED BY <2>2, <3>1 DEF EmptyInv
  <2>4. (\A j \in Job : hist'[j].empty = hist[j].empty) =>
           \A j \in Job : hist'[j].empty > 0 => Excused(j)
    BY <2>2 DEF EmptyInv, EmptyCopiesAreExcused
  <2> DEFINE Goal == /\ \A j \in Job : hist'[j].empty > 0 => Excused(j)
                     /\ \A v \in Worker : Clear(v)
  <2>5. Goal => EmptyInv'
    BY DEF EmptyInv, EmptyCopiesAreExcused, Excused
  <2>6. ASSUME NEW w \in Worker,
               LoadRaw(w) \/ LoadRawFails(w)
        PROVE  Goal
    <3>1. \A v \in Worker : v # w => wk'[v] = wk[v]
      BY <2>0, <2>6 DEF LoadRaw, LoadRawFails
    <3>2. UNCHANGED hist
      BY <2>6 DEF LoadRaw, LoadRawFails
    <3>3. CASE LoadRaw(w)
      <4>1. PICK e \in wk[w].batch :
              wk' = [wk EXCEPT ![w] = [pc |-> "dial", batch |-> wk[w].batch \ {e}, cur |-> {e},
                                       body |-> IF MessageOf[e.job] \in stored
                                                THEN "full" ELSE "empty"]]
        BY <3>3 DEF LoadRaw
      <4>2. /\ wk'[w].cur = {e}
            /\ wk'[w].body = IF MessageOf[e.job] \in stored THEN "full" ELSE "empty"
        BY <2>0, <4>1
      <4>3. e.job \in Job
        BY <2>0 DEF WorkerState, Claimed
      <4>4. Clear(w)
        BY <2>2, <4>2, <4>3
      <4> QED BY <2>3, <2>4, <3>1, <3>2, <4>4
    <3>4. CASE LoadRawFails(w)
      <4>1. env'.store > 0
        BY <2>0, <3>4 DEF LoadRawFails, TypeOK
      <4>2. \A j : Excused(j)
        BY <4>1 DEF Excused
      <4> QED BY <4>2
    <3> QED BY <2>6, <3>3, <3>4
  <2>7. ASSUME NEW w \in Worker, RelayAccepts(w) \/ RelayAcceptsUnheard(w)
        PROVE  Goal
    <3>1. \A v \in Worker : wk'[v].cur = wk[v].cur /\ wk'[v].body = wk[v].body
      BY <2>0, <2>7 DEF RelayAccepts, RelayAcceptsUnheard, WorkerState
    <3>2. \A v \in Worker : Clear(v)
      <4> SUFFICES ASSUME NEW v \in Worker, NEW e \in wk[v].cur
                   PROVE  wk[v].body = "full" \/ Excused(e.job)
        BY <3>1
      <4>1. e.job \in Job
        BY <2>0 DEF WorkerState, Claimed
      <4> QED BY <2>2, <4>1 DEF EmptyInv
    <3>3. ASSUME NEW j \in Job PROVE hist'[j].empty > 0 => Excused(j)
      <4>1. CASE hist'[j].empty = hist[j].empty
        BY <2>2, <4>1 DEF EmptyInv, EmptyCopiesAreExcused
      <4>2. CASE hist'[j].empty # hist[j].empty
        <5>1. wk[w].body # "full" /\ j \in Current(w)
          BY <2>7, <4>2, AcceptedLeaves DEF RelayAccepts, RelayAcceptsUnheard
        <5> QED BY <3>1, <3>2, <5>1 DEF Current
      <4> QED BY <4>1, <4>2
    <3> QED BY <3>2, <3>3
  <2>8. ASSUME NEW w \in Worker,
               \/ ClaimForwardJobs(w) \/ Dial(w) \/ DialFails(w) \/ RelayRefuses(w)
        PROVE  Goal
    <3>1. \A v \in Worker : wk'[v].cur = wk[v].cur /\ wk'[v].body = wk[v].body
      BY <2>0, <2>8 DEF ClaimForwardJobs, Dial, DialFails, RelayRefuses, WorkerState
    <3>2. \A v \in Worker : Clear(v)
      <4> SUFFICES ASSUME NEW v \in Worker, NEW e \in wk[v].cur
                   PROVE  wk[v].body = "full" \/ Excused(e.job)
        BY <3>1
      <4>1. e.job \in Job
        BY <2>0 DEF WorkerState, Claimed
      <4> QED BY <2>2, <4>1 DEF EmptyInv
    <3>3. \A j \in Job : hist'[j].empty = hist[j].empty
      BY <2>8 DEF ClaimForwardJobs, Dial, DialFails, RelayRefuses, TypeOK
    <3> QED BY <2>4, <3>2, <3>3
  <2>9. ASSUME NEW w \in Worker,
               \/ MarkForwardSent(w) \/ MarkForwardSentFails(w) \/ MarkForwardFailed(w)
               \/ MarkForwardRetry(w) \/ MarkFails(w) \/ NilRelayPanics(w)
        PROVE  Goal
    <3>1. \A v \in Worker : wk'[v] = wk[v] \/ wk'[v].cur = {}
      BY <2>0, <2>9 DEF MarkForwardSent, MarkForwardSentFails, MarkForwardFailed,
           MarkForwardRetry, MarkFails, NilRelayPanics, NextJob, Forget, IdleWorker, WorkerState
    <3>2. \A j \in Job : hist'[j].empty = hist[j].empty
      BY <2>9 DEF MarkForwardSent, MarkForwardSentFails, MarkForwardFailed,
           MarkForwardRetry, MarkFails, NilRelayPanics, TypeOK
    <3> QED BY <2>3, <2>4, <3>1, <3>2
  <2>10. CASE \/ \E j \in Job : EnqueueForward(j)
              \/ \E m \in Msg : DeleteMessage(m)
              \/ Crash \/ Restart \/ Tick \/ UNCHANGED vars
    <3>1. \A v \in Worker : wk'[v] = wk[v] \/ wk'[v].cur = {}
      BY <2>0, <2>10 DEF EnqueueForward, DeleteMessage, Crash, Restart, Tick, vars, Forget, IdleWorker
    <3>2. \A j \in Job : hist'[j].empty = hist[j].empty
      BY <2>10 DEF EnqueueForward, DeleteMessage, Crash, Restart, Tick, vars, TypeOK
    <3> QED BY <2>3, <2>4, <2>5, <3>1, <3>2
  <2> HIDE DEF Goal
  <2> QED BY <2>5, <2>6, <2>7, <2>8, <2>9, <2>10 DEF Next, WorkerStep, WorkerFault, RelayStep
<1>3. EmptyInv => EmptyCopiesAreExcused
  BY DEF EmptyInv
<1> QED BY <1>1, <1>2, <1>3, TypeCorrect, PTL DEF Spec

---------------------------------------------------------------------------
(* The step simulation behind KeepsOutbox *)

(* A step that changes no status and no number of copies is not seen. *)
LEMMA BoxStutters ==
  ASSUME \A j \in Job : /\ rows'[j].status = rows[j].status
                        /\ hist'[j].full = hist[j].full
                        /\ hist'[j].empty = hist[j].empty
  PROVE  UNCHANGED Box!ovars
BY DEF Box!ovars, BoxStatus, BoxCopies, Copies

(* A step of the worker or of the relay delivers, settles, gives up, or is
   not seen. *)
LEMMA WorkerSimulates ==
  ASSUME IInv, NEW w \in Worker, WorkerStep(w) \/ WorkerFault(w) \/ RelayStep(w)
  PROVE  Box!Next \/ UNCHANGED Box!ovars
<1>0. /\ rows \in [Job -> RowState]
      /\ hist \in [Job -> [sends : Nat, full : Nat, empty : Nat, lost : Nat, rested : BOOLEAN]]
  BY DEF IInv, TypeOK
<1>1. CASE ClaimForwardJobs(w)
  <2>1. PICK S \in SUBSET Due :
          /\ rows' = [j \in Job |-> IF j \in S THEN Leased(j) ELSE rows[j]]
          /\ hist' = [j \in Job |-> [hist[j] EXCEPT !.rested = @ /\ j \notin S]]
    BY <1>1 DEF ClaimForwardJobs
  <2>2. \A j \in Job : /\ rows'[j].status = rows[j].status
                       /\ hist'[j].full = hist[j].full /\ hist'[j].empty = hist[j].empty
    BY <1>0, <2>1 DEF Leased, Due
  <2> QED BY <2>2, BoxStutters
<1>2. CASE \/ LoadRaw(w) \/ LoadRawFails(w) \/ Dial(w) \/ DialFails(w)
           \/ NilRelayPanics(w) \/ RelayRefuses(w) \/ MarkForwardSentFails(w) \/ MarkFails(w)
  <2>1. UNCHANGED rows
    BY <1>2 DEF LoadRaw, LoadRawFails, Dial, DialFails, NilRelayPanics, RelayRefuses,
                MarkForwardSentFails, MarkFails
  <2>2. \A j \in Job : hist'[j].full = hist[j].full /\ hist'[j].empty = hist[j].empty
    BY <1>0, <1>2 DEF LoadRaw, LoadRawFails, Dial, DialFails, NilRelayPanics, RelayRefuses,
                MarkForwardSentFails, MarkFails
  <2> QED BY <2>1, <2>2, BoxStutters
<1>3. ASSUME wk[w].pc # "next"
      PROVE  \E e \in Claimed : /\ wk[w].cur = {e} /\ Current(w) = {e.job} /\ e.job \in Job
                                /\ rows[e.job].status = "pending"
  BY <1>3, CurrentJob
<1>4. CASE RelayAccepts(w) \/ RelayAcceptsUnheard(w)
  <2>1. PICK u \in {0, 1} : hist' = Accepted(w, u)
    BY <1>4 DEF RelayAccepts, RelayAcceptsUnheard
  <2>2. PICK e \in Claimed : Current(w) = {e.job} /\ e.job \in Job /\ rows[e.job].status = "pending"
    BY <1>3, <1>4 DEF RelayAccepts, RelayAcceptsUnheard
  <2>3. hist'[e.job].full + hist'[e.job].empty = hist[e.job].full + hist[e.job].empty + 1
    <3>1. CASE wk[w].body = "full"
      <4>1. hist'[e.job].full = hist[e.job].full + 1 /\ hist'[e.job].empty = hist[e.job].empty + 0
        BY <1>0, <2>1, <2>2, <3>1 DEF Accepted
      <4> QED BY <1>0, <2>2, <4>1
    <3>2. CASE wk[w].body # "full"
      <4>1. hist'[e.job].full = hist[e.job].full + 0 /\ hist'[e.job].empty = hist[e.job].empty + 1
        BY <1>0, <2>1, <2>2, <3>2 DEF Accepted
      <4> QED BY <1>0, <2>2, <4>1
    <3> QED BY <3>1, <3>2
  <2>4. \A j \in Job : j # e.job => hist'[j] = hist[j]
    BY <2>1, <2>2 DEF Accepted
  <2>5. BoxCopies' = [BoxCopies EXCEPT ![e.job] = @ + 1]
    BY <2>2, <2>3, <2>4 DEF BoxCopies, Copies
  <2>6. UNCHANGED BoxStatus /\ BoxStatus[e.job] = "pending"
    BY <1>4, <2>2 DEF RelayAccepts, RelayAcceptsUnheard, BoxStatus
  <2>7. Box!Deliver(e.job)
    BY <2>5, <2>6 DEF Box!Deliver
  <2> QED BY <2>2, <2>7 DEF Box!Next
<1>5. CASE MarkForwardSent(w)
  <2>1. PICK e \in Claimed : Current(w) = {e.job} /\ e.job \in Job /\ rows[e.job].status = "pending"
    BY <1>3, <1>5 DEF MarkForwardSent
  <2>2. Unrecorded(e.job)
    BY <1>5, <2>1 DEF MarkForwardSent, Unrecorded
  <2>3. Copies(e.job) > 0
    <3>1. Copies(e.job) = hist[e.job].lost + 0 + 1 /\ hist[e.job].lost \in Nat
      BY <1>0, <2>1, <2>2 DEF IInv, DuplicatesAreFaults
    <3> QED BY <3>1
  <2>4. BoxStatus' = [BoxStatus EXCEPT ![e.job] = "sent"]
    BY <1>0, <1>5, <2>1 DEF MarkForwardSent, BoxStatus, RowState
  <2>5. UNCHANGED BoxCopies
    BY <1>5 DEF MarkForwardSent, BoxCopies, Copies
  <2>6. Box!Settle(e.job)
    BY <2>1, <2>3, <2>4, <2>5 DEF Box!Settle, BoxStatus, BoxCopies
  <2> QED BY <2>1, <2>6 DEF Box!Next
<1>6. CASE MarkForwardFailed(w)
  <2>1. PICK e \in Claimed : wk[w].cur = {e} /\ e.job \in Job /\ rows[e.job].status = "pending"
    BY <1>3, <1>6 DEF MarkForwardFailed
  <2>2. BoxStatus' = [BoxStatus EXCEPT ![e.job] = "failed"]
    <3>1. rows' = [rows EXCEPT ![e.job] = [rows[e.job] EXCEPT !.status = "failed"]]
      BY <1>6, <2>1 DEF MarkForwardFailed
    <3>2. \A j \in Job : rows'[j].status = IF j = e.job THEN "failed" ELSE rows[j].status
      BY <1>0, <2>1, <3>1 DEF RowState
    <3> QED BY <2>1, <3>2 DEF BoxStatus
  <2>3. UNCHANGED BoxCopies
    BY <1>6 DEF MarkForwardFailed, BoxCopies, Copies
  <2>4. Box!GiveUp(e.job)
    BY <2>1, <2>2, <2>3 DEF Box!GiveUp, BoxStatus
  <2> QED BY <2>1, <2>4 DEF Box!Next
<1>7. CASE MarkForwardRetry(w)
  <2>1. PICK e \in Claimed : wk[w].cur = {e} /\ e.job \in Job /\ rows[e.job].status = "pending"
    BY <1>3, <1>7 DEF MarkForwardRetry
  <2>2. \A j \in Job : rows'[j].status = rows[j].status
    BY <1>0, <1>7, <2>1 DEF MarkForwardRetry, RowState
  <2> QED BY <1>7, <2>2, BoxStutters DEF MarkForwardRetry
<1> QED BY <1>1, <1>2, <1>4, <1>5, <1>6, <1>7 DEF WorkerStep, WorkerFault, RelayStep

(* Crashes, restarts, deletes and time are not seen; enqueuing is. *)
LEMMA EnvironmentSimulates ==
  ASSUME IInv,
         \/ \E j \in Job : EnqueueForward(j)
         \/ \E m \in Msg : DeleteMessage(m)
         \/ Crash \/ Restart \/ Tick
  PROVE  Box!Next \/ UNCHANGED Box!ovars
<1>0. /\ rows \in [Job -> RowState]
      /\ hist \in [Job -> [sends : Nat, full : Nat, empty : Nat, lost : Nat, rested : BOOLEAN]]
  BY DEF IInv, TypeOK
<1>1. ASSUME NEW j \in Job, EnqueueForward(j) PROVE Box!Next
  <2>1. BoxStatus' = [BoxStatus EXCEPT ![j] = "pending"] /\ BoxStatus[j] = "none"
    BY <1>0, <1>1 DEF EnqueueForward, BoxStatus
  <2>2. UNCHANGED BoxCopies
    BY <1>1 DEF EnqueueForward, BoxCopies, Copies
  <2>3. Box!Enqueue(j)
    BY <2>1, <2>2 DEF Box!Enqueue
  <2> QED BY <2>3 DEF Box!Next
<1>2. CASE (\E m \in Msg : DeleteMessage(m)) \/ Crash \/ Restart \/ Tick
  <2>1. \A j \in Job : rows'[j].status = rows[j].status
    BY <1>0, <1>2 DEF DeleteMessage, Crash, Restart, Tick, RowState
  <2>2. \A j \in Job : hist'[j].full = hist[j].full /\ hist'[j].empty = hist[j].empty
    BY <1>0, <1>2 DEF DeleteMessage, Crash, Restart, Tick
  <2> QED BY <2>1, <2>2, BoxStutters
<1> QED BY <1>1, <1>2

(* With one worker, the queue with its leases, retries and crashes implements
   the outbox: what is settled stays settled, nothing is delivered after that,
   and "sent" is recorded only for what the relay accepted. *)
THEOREM OutboxIsKept == OneWorker /\ Spec => KeepsOutbox
<1>1. Init => Box!Init
  BY DEF Init, Box!Init, BoxStatus, BoxCopies, Copies
<1>2. IInv /\ [Next]_vars => [Box!Next]_(Box!ovars)
  <2>1. ASSUME IInv, Next PROVE Box!Next \/ UNCHANGED Box!ovars
    BY <2>1, WorkerSimulates, EnvironmentSimulates DEF Next
  <2>2. ASSUME UNCHANGED vars PROVE UNCHANGED Box!ovars
    BY <2>2 DEF vars, Box!ovars, BoxStatus, BoxCopies, Copies
  <2> QED BY <2>1, <2>2
<1> QED BY <1>1, <1>2, Inductive, PTL DEF Spec, KeepsOutbox, Box!Spec

---------------------------------------------------------------------------
(* Without a relay *)

(* Without a relay no worker gets past the send. *)
NothingIsTried == ~env.relay => \A w \in Worker : wk[w].pc \in {"next", "dial"}

(* Nobody changes the configuration of a running system. *)
LEMMA RelayStays == ASSUME TypeOK, Next PROVE env'.relay = env.relay
<1>1. \A k \in {"crashes", "store", "acks"} :
        env' = [env EXCEPT ![k] = @ + 1] => env'.relay = env.relay
  BY DEF TypeOK
<1>2. \/ UNCHANGED env
      \/ \E k \in {"crashes", "store", "acks"} : env' = [env EXCEPT ![k] = @ + 1]
  BY DEF Next, WorkerStep, WorkerFault, RelayStep, ClaimForwardJobs, LoadRaw, LoadRawFails, Dial,
         DialFails, NilRelayPanics, RelayRefuses, RelayAccepts, RelayAcceptsUnheard,
         MarkForwardSent, MarkForwardSentFails, MarkForwardFailed, MarkForwardRetry, MarkFails,
         EnqueueForward, DeleteMessage, Crash, Restart, Tick
<1> QED BY <1>1, <1>2

(* A worker's step without a relay: it claims, loads, or panics. *)
LEMMA RelaylessStep ==
  ASSUME TypeOK, NothingIsTried, QueueOutlivesPanics, ~env.relay, NEW w \in Worker,
         WorkerStep(w) \/ WorkerFault(w) \/ RelayStep(w)
  PROVE  /\ \A v \in Worker : wk'[v].pc \in {"next", "dial"}
         /\ \A j \in Job : rows'[j].status \in {"none", "pending"}
<1>0. wk \in [Worker -> WorkerState] /\ rows \in [Job -> RowState]
  BY DEF TypeOK
<1>1. wk[w].pc \in {"next", "dial"}
  BY DEF NothingIsTried
<1>2. ClaimForwardJobs(w) \/ LoadRaw(w) \/ LoadRawFails(w) \/ NilRelayPanics(w)
  BY <1>1 DEF WorkerStep, WorkerFault, RelayStep, Dial, DialFails, RelayRefuses, RelayAccepts,
              RelayAcceptsUnheard, MarkForwardSent, MarkForwardSentFails, MarkForwardFailed,
              MarkForwardRetry, MarkFails
<1>3. CASE ClaimForwardJobs(w)
  <2>1. PICK S \in SUBSET Due :
          /\ rows' = [j \in Job |-> IF j \in S THEN Leased(j) ELSE rows[j]]
          /\ \E B : wk' = [wk EXCEPT ![w].batch = B]
    BY <1>3 DEF ClaimForwardJobs
  <2>2. \A v \in Worker : wk'[v].pc = wk[v].pc
    BY <1>0, <2>1 DEF WorkerState
  <2> QED BY <2>1, <2>2 DEF NothingIsTried, QueueOutlivesPanics, Leased
<1>4. CASE LoadRaw(w) \/ LoadRawFails(w)
  <2>1. \A v \in Worker : wk'[v].pc \in {"dial", wk[v].pc}
    BY <1>0, <1>4 DEF LoadRaw, LoadRawFails
  <2>2. UNCHANGED rows
    BY <1>4 DEF LoadRaw, LoadRawFails
  <2> QED BY <2>1, <2>2 DEF NothingIsTried, QueueOutlivesPanics
<1>5. CASE NilRelayPanics(w)
  BY <1>5 DEF NilRelayPanics, Forget, IdleWorker, QueueOutlivesPanics
<1> QED BY <1>2, <1>3, <1>4, <1>5

(* What is queued without a relay stays queued, however often the process
   panics and is restarted, and however many workers there are. *)
THEOREM QueueSurvivesPanics == Spec => []QueueOutlivesPanics
<1>1. Init => NothingIsTried /\ QueueOutlivesPanics
  BY DEF Init, NothingIsTried, QueueOutlivesPanics, Forget, IdleWorker
<1>2. /\ TypeOK /\ NothingIsTried /\ QueueOutlivesPanics
      /\ [Next]_vars
      => (NothingIsTried /\ QueueOutlivesPanics)'
  <2>1. ASSUME TypeOK, NothingIsTried, QueueOutlivesPanics, Next
        PROVE  NothingIsTried' /\ QueueOutlivesPanics'
    <3>1. SUFFICES ASSUME ~env.relay
                   PROVE  /\ \A v \in Worker : wk'[v].pc \in {"next", "dial"}
                          /\ \A j \in Job : rows'[j].status \in {"none", "pending"}
      BY <2>1, RelayStays DEF NothingIsTried, QueueOutlivesPanics
    <3>2. CASE \E w \in Worker : WorkerStep(w) \/ WorkerFault(w) \/ RelayStep(w)
      BY <2>1, <3>1, <3>2, RelaylessStep
    <3>3. CASE \E j \in Job : EnqueueForward(j)
      BY <2>1, <3>1, <3>3 DEF EnqueueForward, NothingIsTried, QueueOutlivesPanics, TypeOK
    <3>4. CASE \/ \E m \in Msg : DeleteMessage(m)
               \/ Crash \/ Restart
      BY <2>1, <3>1, <3>4
         DEF DeleteMessage, Crash, Restart, Forget, IdleWorker, NothingIsTried, QueueOutlivesPanics
    <3>5. CASE Tick
      <4>1. \A j \in Job : rows'[j].status = rows[j].status
        BY <2>1, <3>5 DEF Tick, TypeOK, RowState
      <4> QED BY <2>1, <3>1, <3>5, <4>1 DEF Tick, NothingIsTried, QueueOutlivesPanics
    <3> QED BY <2>1, <3>2, <3>3, <3>4, <3>5 DEF Next
  <2>2. ASSUME NothingIsTried, QueueOutlivesPanics, UNCHANGED vars
        PROVE  NothingIsTried' /\ QueueOutlivesPanics'
    BY <2>2 DEF vars, NothingIsTried, QueueOutlivesPanics
  <2> QED BY <2>1, <2>2
<1> QED BY <1>1, <1>2, TypeCorrect, PTL DEF Spec

(* Verdicts are earned for any number of jobs, tries and crashes, with one
   worker per process: given up is given up late, and nothing is sent or given
   up without a relay. *)
THEOREM VerdictsComeFromTheRelay == OneWorker /\ Spec => []VerdictsAreEarned
<1>1. GivesUpLate /\ QueueOutlivesPanics => VerdictsAreEarned
  BY DEF VerdictsAreEarned
<1> QED BY <1>1, NobodyGivesUpEarly, QueueSurvivesPanics, PTL

---------------------------------------------------------------------------
(* The distance between claims *)

(* What was claimed since the last minute is leased, waits out its backoff or
   is settled: it is not due, and has been queued. *)
SpacedInv ==
  \A j \in Job :
    \/ hist[j].rested
    \/ rows[j].status # "none" /\ (rows[j].status = "pending" => rows[j].due > 0)

(* What backoff returns is a minute at least. *)
LEMMA BackoffIsPositive == ASSUME NEW n \in Nat PROVE Backoff(n) > 0
<1>1. n * n \in Nat
  OBVIOUS
<1>2. \A k \in Nat : (IF k < 1 THEN 1 ELSE IF k > 60 THEN 60 ELSE k) > 0
  OBVIOUS
<1> HIDE DEF Backoff
<1> QED BY <1>1, <1>2 DEF Backoff

(* What can happen to the row of one job: it stays or is settled, is claimed
   because it is due, is queued, is put back behind its backoff, or ages. *)
Kept(j) ==
  /\ rows'[j].attempts = rows[j].attempts /\ rows'[j].due = rows[j].due
  /\ rows'[j].status = rows[j].status \/ rows'[j].status \in {"sent", "failed"}
  /\ hist'[j].rested = hist[j].rested
Taken(j) == rows[j].status = "pending" /\ rows[j].due <= 0 /\ rows'[j] = Leased(j)
Queued(j) ==
  /\ rows[j].status = "none" /\ rows'[j].attempts = rows[j].attempts
  /\ hist'[j].rested = hist[j].rested
PutBack(j) ==
  /\ rows'[j].attempts = rows[j].attempts /\ rows'[j].status = "pending" /\ rows'[j].due > 0
  /\ hist'[j].rested = hist[j].rested
Aged(j) ==
  rows'[j].attempts = rows[j].attempts /\ rows'[j].status = rows[j].status /\ hist'[j].rested

(* A job that is not queued has been charged nothing. *)
NewIsFree == \A j \in Job : rows[j].status = "none" => rows[j].attempts = 0 /\ hist[j].rested

(* Steps that leave the rows alone. *)
LEMMA RowsStay ==
  ASSUME TypeOK, NEW j \in Job, UNCHANGED rows,
         \/ UNCHANGED hist
         \/ \E w \in Worker : Dial(w) \/ DialFails(w) \/ RelayAccepts(w)
                              \/ RelayAcceptsUnheard(w) \/ MarkForwardSentFails(w)
         \/ Crash
  PROVE  Kept(j)
<1>0. hist \in [Job -> [sends : Nat, full : Nat, empty : Nat, lost : Nat, rested : BOOLEAN]]
  BY DEF TypeOK
<1>1. hist'[j].rested = hist[j].rested
  <2>1. ASSUME NEW w \in Worker, Dial(w) \/ DialFails(w) \/ MarkForwardSentFails(w)
        PROVE  hist'[j].rested = hist[j].rested
    BY <1>0, <2>1 DEF Dial, DialFails, MarkForwardSentFails
  <2>2. ASSUME NEW w \in Worker, NEW u \in {0, 1}, hist' = Accepted(w, u)
        PROVE  hist'[j].rested = hist[j].rested
    BY <1>0, <2>2 DEF Accepted
  <2>3. ASSUME NEW w \in Worker, RelayAccepts(w) \/ RelayAcceptsUnheard(w)
        PROVE  hist'[j].rested = hist[j].rested
    BY <2>2, <2>3 DEF RelayAccepts, RelayAcceptsUnheard
  <2>4. CASE Crash
    BY <1>0, <2>4 DEF Crash
  <2> QED BY <2>1, <2>3, <2>4
<1> QED BY <1>1 DEF Kept

LEMMA WorkerMoves ==
  ASSUME TypeOK, MemoryIsCurrent, NEW j \in Job, NEW w \in Worker,
         WorkerStep(w) \/ WorkerFault(w) \/ RelayStep(w)
  PROVE  Kept(j) \/ Taken(j) \/ PutBack(j)
<1>0. /\ rows \in [Job -> RowState] /\ wk[w] \in WorkerState
      /\ hist \in [Job -> [sends : Nat, full : Nat, empty : Nat, lost : Nat, rested : BOOLEAN]]
  BY DEF TypeOK
<1>1. ASSUME UNCHANGED rows, ~ClaimForwardJobs(w) PROVE Kept(j)
  BY <1>1, RowsStay
     DEF WorkerStep, WorkerFault, RelayStep, LoadRaw, LoadRawFails, NilRelayPanics, RelayRefuses,
         MarkForwardSent, MarkForwardFailed, MarkForwardRetry, MarkFails
<1>2. CASE ClaimForwardJobs(w)
  <2>1. PICK S \in SUBSET Due :
          /\ rows' = [k \in Job |-> IF k \in S THEN Leased(k) ELSE rows[k]]
          /\ hist' = [k \in Job |-> [hist[k] EXCEPT !.rested = @ /\ k \notin S]]
    BY <1>2 DEF ClaimForwardJobs
  <2>2. CASE j \in S
    BY <2>1, <2>2 DEF Due, Taken
  <2>3. CASE j \notin S
    BY <1>0, <2>1, <2>3 DEF Kept
  <2> QED BY <2>2, <2>3
<1>3. CASE MarkForwardSent(w)
  BY <1>0, <1>3 DEF MarkForwardSent, RowState, Kept
<1>4. CASE MarkForwardFailed(w)
  <2>1. PICK e \in wk[w].cur : rows' = [rows EXCEPT ![e.job].status = "failed"] /\ hist' = hist
    BY <1>4 DEF MarkForwardFailed
  <2> QED BY <1>0, <2>1 DEF RowState, Kept
<1>5. CASE MarkForwardRetry(w)
  <2>1. PICK e \in wk[w].cur :
          /\ rows' = [rows EXCEPT ![e.job] = [status |-> "pending", attempts |-> e.attempts,
                                              due |-> Backoff(e.attempts)]]
          /\ hist' = hist
    BY <1>5 DEF MarkForwardRetry
  <2>2. e.attempts \in Nat /\ rows[e.job].attempts = e.attempts
    BY <1>0, <2>1 DEF WorkerState, Claimed, MemoryIsCurrent
  <2>3. CASE j = e.job
    BY <1>0, <2>1, <2>2, <2>3, BackoffIsPositive DEF PutBack
  <2>4. CASE j # e.job
    BY <1>0, <2>1, <2>4 DEF Kept
  <2> QED BY <2>3, <2>4
<1> QED BY <1>1, <1>2, <1>3, <1>4, <1>5
        DEF WorkerStep, WorkerFault, RelayStep, LoadRaw, LoadRawFails, Dial, DialFails,
            NilRelayPanics, RelayRefuses, RelayAccepts, RelayAcceptsUnheard,
            MarkForwardSentFails, MarkFails

LEMMA RowMoves ==
  ASSUME TypeOK, MemoryIsCurrent, NewIsFree, NEW j \in Job, [Next]_vars
  PROVE  Kept(j) \/ Taken(j) \/ Queued(j) \/ PutBack(j) \/ Aged(j)
<1>0. /\ rows \in [Job -> RowState]
      /\ hist \in [Job -> [sends : Nat, full : Nat, empty : Nat, lost : Nat, rested : BOOLEAN]]
  BY DEF TypeOK
<1>1. ASSUME NEW k \in Job, EnqueueForward(k) PROVE Kept(j) \/ Queued(j)
  BY <1>0, <1>1 DEF EnqueueForward, NewIsFree, Kept, Queued
<1>2. CASE (\E m \in Msg : DeleteMessage(m)) \/ Crash \/ Restart \/ UNCHANGED vars
  BY <1>2, RowsStay DEF DeleteMessage, Crash, Restart, vars
<1>3. CASE Tick
  BY <1>0, <1>3 DEF Tick, RowState, Aged
<1> QED BY <1>1, <1>2, <1>3, WorkerMoves DEF Next

(* A minute at least lies between two claims of one job, whatever fails,
   crashes and is restarted in between: the lease and the backoff both keep a
   claimed row from being due before time has passed.  With a second worker the
   retry of a claim that was overtaken would set the row's attempts back. *)
THEOREM AttemptsStaySpaced == OneWorker /\ Spec => AttemptsAreSpaced
<1>1. Init => NewIsFree /\ SpacedInv
  BY DEF Init, NewIsFree, SpacedInv
<1>2. ASSUME TypeOK, MemoryIsCurrent, NewIsFree, SpacedInv, [Next]_vars
      PROVE  /\ NewIsFree' /\ SpacedInv'
             /\ \A j \in Job : rows'[j].attempts > rows[j].attempts => hist[j].rested
  <2>0. /\ rows \in [Job -> RowState]
        /\ hist \in [Job -> [sends : Nat, full : Nat, empty : Nat, lost : Nat, rested : BOOLEAN]]
    BY <1>2 DEF TypeOK
  <2>1. ASSUME NEW j \in Job
        PROVE  /\ rows'[j].status = "none" => rows'[j].attempts = 0 /\ hist'[j].rested
               /\ \/ hist'[j].rested
                  \/ rows'[j].status # "none" /\ (rows'[j].status = "pending" => rows'[j].due > 0)
               /\ rows'[j].attempts > rows[j].attempts => hist[j].rested
    <3>1. rows[j].attempts \in Nat /\ rows[j].due \in Int
      BY <2>0 DEF RowState
    <3>2. CASE Kept(j)
      BY <1>2, <3>1, <3>2 DEF Kept, NewIsFree, SpacedInv
    <3>3. CASE Taken(j)
      BY <1>2, <3>1, <3>3 DEF Taken, Leased, LeaseMinutes, NewIsFree, SpacedInv
    <3>4. CASE Queued(j)
      BY <1>2, <3>1, <3>4 DEF Queued, NewIsFree, SpacedInv
    <3>5. CASE PutBack(j)
      BY <1>2, <3>1, <3>5 DEF PutBack, NewIsFree, SpacedInv
    <3>6. CASE Aged(j)
      BY <1>2, <3>1, <3>6 DEF Aged, NewIsFree, SpacedInv
    <3> QED BY <1>2, <3>2, <3>3, <3>4, <3>5, <3>6, RowMoves
  <2> QED BY <2>1 DEF NewIsFree, SpacedInv
<1>3. TypeOK /\ MemoryIsCurrent /\ NewIsFree /\ SpacedInv /\ [Next]_vars
      => [\A j \in Job : rows'[j].attempts > rows[j].attempts => hist[j].rested]_vars
  BY <1>2
<1>4. NewIsFree /\ SpacedInv /\ TypeOK /\ MemoryIsCurrent /\ [Next]_vars => NewIsFree' /\ SpacedInv'
  BY <1>2
<1> QED BY <1>1, <1>3, <1>4, TypeCorrect, MemoryStaysCurrent, PTL DEF Spec, AttemptsAreSpaced
=============================================================================

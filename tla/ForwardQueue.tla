--------------------------- MODULE ForwardQueue ---------------------------
(***************************************************************************)
(* Outbound forwarding: the table forward_jobs with its lease              *)
(* (internal/storage/sqlite), the worker that drains it                    *)
(* (internal/forward/worker.go), the relay it talks to                     *)
(* (internal/forward/forward.go), and what the worker runs against:        *)
(* process crashes, deletes of the message a job refers to, statements     *)
(* that fail, a relay that refuses, hangs, or accepts a message without    *)
(* the acknowledgement getting back.                                       *)
(*                                                                         *)
(* One action per database statement or transaction and per step of the    *)
(* SMTP conversation whose outcome the worker learns separately.  Time     *)
(* passes in minutes, the unit of the lease and of the backoff: a job's    *)
(* next_attempt_at is kept relative to the present.                        *)
(***************************************************************************)
EXTENDS Integers, FiniteSets

CONSTANTS
  Job,              \* queue rows: one message to one destination
  Msg,              \* stored messages
  MessageOf,        \* the message_id of each job, in [Job -> Msg]
  Worker,           \* forward workers; serve() starts one per process
  Batch,            \* jobs claimed per drain (10 in NewWorker)
  MaxTries,         \* cfg.ForwardMaxTries
  Relays,           \* the values of cfg.RelayEnabled()
  Lateness,         \* how late a due job may grow before the model stops counting
  MaxCrashes,       \* bound on crashes
  MaxStoreErrors,   \* bound on statements that fail
  MaxLostAcks       \* bound on acceptances the relay fails to confirm

ASSUME JobAssumption == MessageOf \in [Job -> Msg]
ASSUME TriesAssumption == Batch \in Nat \ {0} /\ MaxTries \in Nat \ {0}
ASSUME RelayAssumption == Relays \subseteq BOOLEAN
ASSUME FaultAssumption ==
  /\ Lateness \in Nat /\ MaxCrashes \in Nat
  /\ MaxStoreErrors \in Nat /\ MaxLostAcks \in Nat

VARIABLES
  rows,      \* per job: [status, attempts, due], due in minutes from now
  stored,    \* the messages whose raw source GetRaw can still find
  up,        \* the server process runs
  wk,        \* per worker: [pc, batch, cur, body]
  env,       \* [relay, crashes, store, acks]: whether a relay is configured,
             \*   and the crashes, store errors and lost acceptances so far
  hist       \* history, per job: [sends, full, empty, lost, rested]

vars == <<rows, stored, up, wk, env, hist>>

LeaseMinutes == 2

(* Mutant of Backoff: counted from the attempt before, and without its floor. *)
BackoffFromZero(n) == IF (n - 1) * (n - 1) > 60 THEN 60 ELSE (n - 1) * (n - 1)

(* backoff: attempt squared in minutes, at least one minute, at most an hour. *)
Backoff(n) == IF n * n < 1 THEN 1 ELSE IF n * n > 60 THEN 60 ELSE n * n

(* A job in a worker's memory: its attempts as the claim returned them and
   its place in the order of the claim. *)
Claimed == [job : Job, attempts : Nat, due : Int]

IdleWorker == [pc |-> "next", batch |-> {}, cur |-> {}, body |-> "none"]

---------------------------------------------------------------------------
(* The queue *)

(* Mutant of Due: rows with all their attempts charged are not claimed again. *)
DueBelowLimit ==
  {j \in Job : rows[j].status = "pending" /\ rows[j].due <= 0 /\ rows[j].attempts < MaxTries}

Due == {j \in Job : rows[j].status = "pending" /\ rows[j].due <= 0}

(* The row of a job that is being claimed. *)
Leased(j) == [status |-> "pending", attempts |-> rows[j].attempts + 1, due |-> LeaseMinutes]

(* Mutant of EnqueueForward: a status the queue does not know. *)
EnqueueForwardNew(j) ==
  /\ up
  /\ rows[j].status = "none"
  /\ rows' = [rows EXCEPT ![j] = [status |-> "queued", attempts |-> 0, due |-> 0]]
  /\ UNCHANGED <<stored, up, wk, env, hist>>

(* EnqueueForward: the row is due at once, whether its message is still there or
   was deleted since it was saved. *)
EnqueueForward(j) ==
  /\ up
  /\ rows[j].status = "none"
  /\ rows' = [rows EXCEPT ![j] = [status |-> "pending", attempts |-> 0, due |-> 0]]
  /\ UNCHANGED <<stored, up, wk, env, hist>>

(* Mutant of ClaimForwardJobs: the attempts are returned as they were read. *)
ClaimReturnsStale(w) ==
  /\ up
  /\ wk[w].pc = "next" /\ wk[w].batch = {}
  /\ Due # {}
  /\ \E S \in SUBSET Due :
       /\ IF Cardinality(Due) <= Batch THEN S = Due ELSE Cardinality(S) = Batch
       /\ \A j \in S, k \in Due \ S : rows[j].due <= rows[k].due
       /\ rows' = [j \in Job |-> IF j \in S THEN Leased(j) ELSE rows[j]]
       /\ wk' = [wk EXCEPT ![w].batch =
                   {[job |-> j, attempts |-> rows[j].attempts, due |-> rows[j].due] : j \in S}]
       /\ hist' = [j \in Job |-> [hist[j] EXCEPT !.rested = @ /\ j \notin S]]
  /\ UNCHANGED <<stored, up, env>>

(* The ticker fires and ClaimForwardJobs commits: up to Batch due rows, the
   longest due first; each is charged an attempt and leased. *)
ClaimForwardJobs(w) ==
  /\ up
  /\ wk[w].pc = "next" /\ wk[w].batch = {}
  /\ Due # {}
  /\ \E S \in SUBSET Due :
       /\ IF Cardinality(Due) <= Batch THEN S = Due ELSE Cardinality(S) = Batch
       /\ \A j \in S, k \in Due \ S : rows[j].due <= rows[k].due
       /\ rows' = [j \in Job |-> IF j \in S THEN Leased(j) ELSE rows[j]]
       /\ wk' = [wk EXCEPT ![w].batch =
                   {[job |-> j, attempts |-> rows[j].attempts + 1, due |-> rows[j].due] : j \in S}]
       /\ hist' = [j \in Job |-> [hist[j] EXCEPT !.rested = @ /\ j \notin S]]
  /\ UNCHANGED <<stored, up, env>>

---------------------------------------------------------------------------
(* The worker's loop over the batch it claimed *)

(* Mutant of LoadRaw: the source does not get as far as the send. *)
LoadRawForgotten(w) ==
  /\ up
  /\ wk[w].pc = "next"
  /\ \E e \in wk[w].batch :
       /\ \A f \in wk[w].batch : e.due <= f.due
       /\ wk' = [wk EXCEPT ![w] = [pc |-> "dial", batch |-> wk[w].batch \ {e}, cur |-> {e},
                                   body |-> "none"]]
  /\ UNCHANGED <<rows, stored, up, env, hist>>

(* The loop head and GetRaw: the source is there, or it is not and the
   worker goes on with an empty one. *)
LoadRaw(w) ==
  /\ up
  /\ wk[w].pc = "next"
  /\ \E e \in wk[w].batch :
       /\ \A f \in wk[w].batch : e.due <= f.due
       /\ wk' = [wk EXCEPT ![w] = [pc |-> "dial", batch |-> wk[w].batch \ {e}, cur |-> {e},
                                   body |-> IF MessageOf[e.job] \in stored
                                            THEN "full" ELSE "empty"]]
  /\ UNCHANGED <<rows, stored, up, env, hist>>

(* GetRaw fails on a source that is there: the worker logs it and goes on. *)
LoadRawFails(w) ==
  /\ up
  /\ wk[w].pc = "next"
  /\ env.store < MaxStoreErrors
  /\ env' = [env EXCEPT !.store = @ + 1]
  /\ \E e \in wk[w].batch :
       /\ \A f \in wk[w].batch : e.due <= f.due
       /\ wk' = [wk EXCEPT ![w] = [pc |-> "dial", batch |-> wk[w].batch \ {e}, cur |-> {e},
                                   body |-> "empty"]]
  /\ UNCHANGED <<rows, stored, up, hist>>

Current(w) == {e.job : e \in wk[w].cur}

(* Send connects to the relay... *)
Dial(w) ==
  /\ up /\ env.relay
  /\ wk[w].pc = "dial"
  /\ wk' = [wk EXCEPT ![w].pc = "talk"]
  /\ hist' = [j \in Job |-> IF j \in Current(w)
                            THEN [hist[j] EXCEPT !.sends = @ + 1] ELSE hist[j]]
  /\ UNCHANGED <<rows, stored, up, env>>

(* ... or does not, before the deadline of 45 seconds it gives the dialer. *)
DialFails(w) ==
  /\ up /\ env.relay
  /\ wk[w].pc = "dial"
  /\ wk' = [wk EXCEPT ![w].pc = "nack"]
  /\ hist' = [j \in Job |-> IF j \in Current(w)
                            THEN [hist[j] EXCEPT !.sends = @ + 1] ELSE hist[j]]
  /\ UNCHANGED <<rows, stored, up, env>>

(* The relay has confirmed j and the row does not say so yet. *)
Unrecorded(j) == \E w \in Worker : wk[w].pc = "ack" /\ j \in Current(w)

Forget == [w \in Worker |-> IdleWorker]

(* serve() wraps the nil *SMTPRelay in a Sender, so Run does not see nil and
   Send dereferences it: the goroutine panics and the process dies (counted
   with the crashes, to bound the model). *)
NilRelayPanics(w) ==
  /\ up /\ ~env.relay
  /\ wk[w].pc = "dial"
  /\ env.crashes < MaxCrashes
  /\ env' = [env EXCEPT !.crashes = @ + 1]
  /\ up' = FALSE
  /\ wk' = Forget
  /\ UNCHANGED <<rows, stored, hist>>

(* Mutant of RelayRefuses: the relay's reply is not looked at. *)
RelayRefusesUnnoticed(w) ==
  /\ up
  /\ wk[w].pc = "talk"
  /\ wk' = [wk EXCEPT ![w].pc = "ack"]
  /\ UNCHANGED <<rows, stored, up, env, hist>>

(* Mutant of RelayRefuses: Send tries again by itself. *)
RelayRefusesRedials(w) ==
  /\ up
  /\ wk[w].pc = "talk"
  /\ wk' = [wk EXCEPT ![w].pc = "dial"]
  /\ UNCHANGED <<rows, stored, up, env, hist>>

(* The relay turns the message down somewhere in the conversation. *)
RelayRefuses(w) ==
  /\ up
  /\ wk[w].pc = "talk"
  /\ wk' = [wk EXCEPT ![w].pc = "nack"]
  /\ UNCHANGED <<rows, stored, up, env, hist>>

(* hist after the relay accepts a copy of w's job. *)
Accepted(w, unconfirmed) ==
  [j \in Job |->
     IF j \notin Current(w) THEN hist[j]
     ELSE [hist[j] EXCEPT !.full = @ + (IF wk[w].body = "full" THEN 1 ELSE 0),
                          !.empty = @ + (IF wk[w].body = "full" THEN 0 ELSE 1),
                          !.lost = @ + unconfirmed]]

(* The relay accepts the message and Send returns nil. *)
RelayAccepts(w) ==
  /\ up
  /\ wk[w].pc = "talk"
  /\ wk' = [wk EXCEPT ![w].pc = "ack"]
  /\ hist' = Accepted(w, 0)
  /\ UNCHANGED <<rows, stored, up, env>>

(* The relay accepts the message, but the reply to the final dot is lost or
   QUIT fails: Send returns an error. *)
RelayAcceptsUnheard(w) ==
  /\ up
  /\ wk[w].pc = "talk"
  /\ env.acks < MaxLostAcks
  /\ env' = [env EXCEPT !.acks = @ + 1]
  /\ wk' = [wk EXCEPT ![w].pc = "nack"]
  /\ hist' = Accepted(w, 1)
  /\ UNCHANGED <<rows, stored, up>>

NextJob(w) == wk' = [wk EXCEPT ![w].pc = "next", ![w].cur = {}, ![w].body = "none"]

(* Mutant of MarkForwardSent: the row is only touched, not settled. *)
MarkForwardSentKeeps(w) ==
  /\ up
  /\ wk[w].pc = "ack"
  /\ NextJob(w)
  /\ UNCHANGED <<rows, stored, up, env, hist>>

MarkForwardSent(w) ==
  /\ up
  /\ wk[w].pc = "ack"
  /\ rows' = [j \in Job |-> IF j \in Current(w)
                            THEN [rows[j] EXCEPT !.status = "sent"] ELSE rows[j]]
  /\ NextJob(w)
  /\ UNCHANGED <<stored, up, env, hist>>

(* The error of MarkForwardSent is only logged. *)
MarkForwardSentFails(w) ==
  /\ up
  /\ wk[w].pc = "ack"
  /\ env.store < MaxStoreErrors
  /\ env' = [env EXCEPT !.store = @ + 1]
  /\ hist' = [j \in Job |-> IF j \in Current(w)
                            THEN [hist[j] EXCEPT !.lost = @ + 1] ELSE hist[j]]
  /\ NextJob(w)
  /\ UNCHANGED <<rows, stored, up>>

(* Mutant of MarkForwardFailed: one attempt early. *)
MarkForwardFailedEarly(w) ==
  /\ up
  /\ wk[w].pc = "nack"
  /\ \E e \in wk[w].cur :
       /\ e.attempts + 1 >= MaxTries
       /\ rows' = [rows EXCEPT ![e.job].status = "failed"]
  /\ NextJob(w)
  /\ UNCHANGED <<stored, up, env, hist>>

(* An error on the last attempt. *)
MarkForwardFailed(w) ==
  /\ up
  /\ wk[w].pc = "nack"
  /\ \E e \in wk[w].cur :
       /\ e.attempts >= MaxTries
       /\ rows' = [rows EXCEPT ![e.job].status = "failed"]
  /\ NextJob(w)
  /\ UNCHANGED <<stored, up, env, hist>>

(* An error on an earlier attempt: pending again, after the backoff. *)
MarkForwardRetry(w) ==
  /\ up
  /\ wk[w].pc = "nack"
  /\ \E e \in wk[w].cur :
       /\ e.attempts < MaxTries
       /\ rows' = [rows EXCEPT ![e.job] = [status |-> "pending", attempts |-> e.attempts,
                                           due |-> Backoff(e.attempts)]]
  /\ NextJob(w)
  /\ UNCHANGED <<stored, up, env, hist>>

(* The errors of MarkForwardFailed and MarkForwardRetry are dropped. *)
MarkFails(w) ==
  /\ up
  /\ wk[w].pc = "nack"
  /\ env.store < MaxStoreErrors
  /\ env' = [env EXCEPT !.store = @ + 1]
  /\ NextJob(w)
  /\ UNCHANGED <<rows, stored, up, hist>>

---------------------------------------------------------------------------
(* Environment *)

(* The message is deleted by a user, or the sweeper reaches an address that
   is no longer a forwarding one; its jobs stay. *)
DeleteMessage(m) ==
  /\ up
  /\ m \in stored
  /\ stored' = stored \ {m}
  /\ UNCHANGED <<rows, up, wk, env, hist>>

(* The process dies or is stopped: what the workers had in memory is gone;
   a copy the relay confirmed but the table does not show becomes unknown. *)
Crash ==
  /\ up
  /\ env.crashes < MaxCrashes
  /\ env' = [env EXCEPT !.crashes = @ + 1]
  /\ up' = FALSE
  /\ wk' = Forget
  /\ hist' = [j \in Job |-> IF Unrecorded(j)
                            THEN [hist[j] EXCEPT !.lost = @ + 1] ELSE hist[j]]
  /\ UNCHANGED <<rows, stored>>

(* The process is started again (its database survives). *)
Restart ==
  /\ ~up
  /\ up' = TRUE
  /\ UNCHANGED <<rows, stored, wk, env, hist>>

(* A minute passes.  Rows that are settled are never read again. *)
Tick ==
  /\ \E j \in Job : rows[j].status = "pending" /\ rows[j].due > -Lateness
  /\ rows' = [j \in Job |-> IF rows[j].status = "pending" /\ rows[j].due > -Lateness
                            THEN [rows[j] EXCEPT !.due = @ - 1] ELSE rows[j]]
  /\ hist' = [j \in Job |-> [hist[j] EXCEPT !.rested = TRUE]]
  /\ UNCHANGED <<stored, up, wk, env>>

---------------------------------------------------------------------------
Init ==
  /\ rows = [j \in Job |-> [status |-> "none", attempts |-> 0, due |-> 0]]
  /\ stored = Msg
  /\ up = TRUE
  /\ wk = Forget
  /\ env \in [relay : Relays, crashes : {0}, store : {0}, acks : {0}]
  /\ hist = [j \in Job |-> [sends |-> 0, full |-> 0, empty |-> 0, lost |-> 0, rested |-> TRUE]]

(* The steps of the worker's own code; the dialer's deadline is one of them. *)
WorkerStep(w) ==
  \/ ClaimForwardJobs(w) \/ LoadRaw(w) \/ Dial(w) \/ DialFails(w) \/ NilRelayPanics(w)
  \/ MarkForwardSent(w) \/ MarkForwardFailed(w) \/ MarkForwardRetry(w)

WorkerFault(w) == LoadRawFails(w) \/ MarkForwardSentFails(w) \/ MarkFails(w)

RelayStep(w) == RelayRefuses(w) \/ RelayAccepts(w) \/ RelayAcceptsUnheard(w)

Next ==
  \/ \E w \in Worker : WorkerStep(w) \/ WorkerFault(w) \/ RelayStep(w)
  \/ \E j \in Job : EnqueueForward(j)
  \/ \E m \in Msg : DeleteMessage(m)
  \/ Crash \/ Restart \/ Tick

Spec == Init /\ [][Next]_vars

(* Time passes, a dead process is restarted by whatever supervises it, and
   the worker's goroutine runs. *)
FairSpec ==
  /\ Spec
  /\ WF_vars(Tick) /\ WF_vars(Restart)
  /\ \A w \in Worker : WF_vars(WorkerStep(w))

(* In addition, the relay answers in the end. *)
AnsweringSpec == FairSpec /\ \A w \in Worker : WF_vars(RelayStep(w))

---------------------------------------------------------------------------
(* Properties *)

RowState == [status : {"none", "pending", "sent", "failed"}, attempts : Nat, due : Int]

WorkerState == [pc : {"next", "dial", "talk", "ack", "nack"}, batch : SUBSET Claimed,
                cur : SUBSET Claimed, body : {"none", "full", "empty"}]

(* The types of the variables. *)
TypeOK ==
  /\ rows \in [Job -> RowState]
  /\ stored \subseteq Msg
  /\ up \in BOOLEAN
  /\ wk \in [Worker -> WorkerState]
  /\ env \in [relay : BOOLEAN, crashes : Nat, store : Nat, acks : Nat]
  /\ hist \in [Job -> [sends : Nat, full : Nat, empty : Nat, lost : Nat, rested : BOOLEAN]]

Copies(j) == hist[j].full + hist[j].empty

(* Every copy the relay has is accounted for: it is the one the row records
   as sent, one whose acknowledgement the worker is about to record, or one
   whose acknowledgement was lost to a crash, to a failed MarkForwardSent or
   to an error Send returned after the relay had accepted the message.  A
   destination therefore gets a second copy only when one of these happened. *)
DuplicatesAreFaults ==
  \A j \in Job :
    Copies(j) = hist[j].lost
                + (IF rows[j].status = "sent" THEN 1 ELSE 0)
                + (IF Unrecorded(j) THEN 1 ELSE 0)

(* A job is given up only with its last permitted attempt used: no failure,
   crash or restart makes the queue give up early by its own count. *)
GivesUpLate == \A j \in Job : rows[j].status = "failed" => rows[j].attempts >= MaxTries

(* Without a relay, what is queued stays queued, through the crash loop the
   nil relay causes: nothing is recorded as sent or given up. *)
QueueOutlivesPanics ==
  ~env.relay => \A j \in Job : rows[j].status \in {"none", "pending"}

(* A job is given up only when its attempts are used, and gets no verdict at
   all, sent or given up, from a worker that has no relay. *)
VerdictsAreEarned == GivesUpLate /\ QueueOutlivesPanics

(* Job j has been charged for an attempt that has yet to be made. *)
Untried(j) ==
  \E w \in Worker : \/ \E e \in wk[w].batch : e.job = j
                    \/ wk[w].pc = "dial" /\ j \in Current(w)

(* An attempt that is charged and not made is still ahead in a worker's batch,
   or a crash took it: one crash costs a job one attempt at most, a failed
   statement costs it none, and nothing is tried without being charged.  "Give
   up forwarding after this many attempts" (README) holds up to crashes. *)
AttemptsAreTries ==
  \A j \in Job :
    LET ahead == IF Untried(j) THEN 1 ELSE 0 IN
    /\ hist[j].sends + ahead <= rows[j].attempts
    /\ rows[j].attempts <= hist[j].sends + ahead + env.crashes

(* "Messages are re-emitted verbatim" (forward.go), except where the worker
   goes on without the source: a copy without it means that the message was
   deleted, or that a statement failed. *)
EmptyCopiesAreExcused ==
  \A j \in Job : hist[j].empty > 0 => MessageOf[j] \notin stored \/ env.store > 0

(* What a worker holds is pending, charged with the attempts the worker
   remembers, held once, and worked on one at a time: the memory of a worker
   is never stale while it is the only one, however long its batch takes and
   although the leases run out. *)
MemoryIsCurrent ==
  \A w \in Worker :
    /\ \A e \in wk[w].batch \cup wk[w].cur :
         rows[e.job].status = "pending" /\ rows[e.job].attempts = e.attempts
    /\ \A e, f \in wk[w].batch \cup wk[w].cur : e.job = f.job => e = f
    /\ wk[w].batch \cap wk[w].cur = {}
    /\ IF wk[w].pc = "next" THEN wk[w].cur = {}
                            ELSE \E e \in wk[w].cur : wk[w].cur = {e}

(* A minute or more lies between two claims of one job, through failures,
   crashes and restarts: a destination that fails is not hammered. *)
AttemptsAreSpaced ==
  [][\A j \in Job : rows'[j].attempts > rows[j].attempts => hist[j].rested]_vars

(* serve() starts one worker per process. *)
OneWorker == \E w : Worker = {w}

(* The inductive invariant behind the three properties above and KeepsOutbox. *)
IInv == TypeOK /\ MemoryIsCurrent /\ DuplicatesAreFaults /\ GivesUpLate

(* The table and the relay, as the outbox sees them. *)
BoxStatus == [j \in Job |-> rows[j].status]
BoxCopies == [j \in Job |-> Copies(j)]

Box == INSTANCE Outbox WITH status <- BoxStatus, copies <- BoxCopies

(* With one worker, the queue implements the outbox: settled jobs stay
   settled, whatever a retry remembers, and "sent" is only recorded for what
   the relay has accepted. *)
KeepsOutbox == Box!Spec

(* Every enqueued job is sent or given up, through crashes, restarts, failed
   statements and refusals, provided the relay answers in the end. *)
EveryJobSettles ==
  \A j \in Job : rows[j].status = "pending" /\ env.relay ~> rows[j].status \in {"sent", "failed"}

(* worker.go: "sender may be nil, in which case Run is a no-op": a worker
   without a relay never gets as far as sending. *)
NilSenderIsNoOp == ~env.relay => \A w \in Worker : wk[w].pc # "dial"
===========================================================================

------------------------------- MODULE Ingest -------------------------------
(***************************************************************************)
(* From a sender to the tables: SMTP sessions (internal/smtp) and HTTP     *)
(* ingest requests (internal/api) collect an envelope and call Accept      *)
(* (internal/ingest), which stores one copy per recipient and enqueues the *)
(* forwards of each copy.  The sender keeps a mail until it is told that   *)
(* it was taken, and tries again after any other outcome.                  *)
(*                                                                         *)
(* One action per store call of Accept, per SMTP command and per answer.   *)
(* A store call fails when its context has ended (30 s for SMTP, the       *)
(* client's departure for HTTP) or when the database says so.  go-smtp,    *)
(* which calls the session's methods, and the sender are external.         *)
(***************************************************************************)
EXTENDS Naturals, Sequences, FiniteSets

CONSTANTS
  Mail,           \* what senders want delivered
  Addr,           \* recipient addresses as senders write them
  Inbox,          \* normalized addresses
  Blank,          \* what an address of white space is normalized to
  Norm,           \* normalizeInbox, in [Addr -> Inbox \cup {Blank}]
  HandledInboxes, \* the inboxes of the allowed domains
  RcptsOf,        \* a mail's envelope recipients, in [Mail -> Seq(Addr)]
  WithAttachment, \* the mails that have an attachment
  Conn,           \* SMTP connections
  Post,           \* HTTP ingest requests
  Dest,           \* forwarding destinations
  MaxAttempts,    \* bound on the attempts to deliver one mail
  MaxFaults,      \* bound on failed statements, ended contexts, hang-ups, crashes
  MaxChanges      \* bound on changes of the registry

ASSUME NormAssumption == Norm \in [Addr -> Inbox \cup {Blank}] /\ Blank \notin Inbox
ASSUME ScopeAssumption == HandledInboxes \subseteq Inbox
ASSUME RcptAssumption == RcptsOf \in [Mail -> Seq(Addr)] /\ \A m \in Mail : RcptsOf[m] # <<>>
ASSUME CallerAssumption == Conn \cap Post = {}
ASSUME BoundAssumption == MaxAttempts \in Nat /\ MaxFaults \in Nat /\ MaxChanges \in Nat

Caller == Conn \cup Post

VARIABLES
  mail,     \* per mail, at its sender: [state, attempts]
  sess,     \* per caller: [pc, mail, toName, rcpts, gone]
  run,      \* per caller, its call of Accept: [pc, todo, try, alive, copy, dests, dest]
  copies,   \* stored copies: [mail, try, left, inbox]; all but the inbox make the id
  route,    \* per inbox that is handled: its enabled forwarding destinations
  verified, \* destinations that are verified
  jobs,     \* forward_jobs: [copy, dest]
  count,    \* faults and registry changes so far
  hist      \* history, per caller, of the copy in run: [must, listed, verified]

vars == <<mail, sess, run, copies, route, verified, jobs, count, hist>>

Copy == [mail : Mail, try : Nat, left : Nat, inbox : Inbox]

NoSession == [pc |-> "ready", mail |-> {}, toName |-> <<>>, rcpts |-> <<>>, gone |-> FALSE]

NoRun == [pc |-> "none", todo |-> <<>>, try |-> 0, alive |-> TRUE,
          copy |-> {}, dests |-> {}, dest |-> {}]

NoHist == [must |-> {}, listed |-> {}, verified |-> {}]

Fault ==
  /\ count.faults < MaxFaults
  /\ count' = [count EXCEPT !.faults = @ + 1]

(* The recipient survives normalization and is in an allowed domain. *)
InScope(a) == Norm[a] \in HandledInboxes

---------------------------------------------------------------------------
(* SMTP sessions, as go-smtp drives them *)

Attempt(m) ==
  /\ mail[m].state = "queued"
  /\ mail[m].attempts < MaxAttempts
  /\ mail' = [mail EXCEPT ![m] = [state |-> "trying", attempts |-> @.attempts + 1]]

(* The sender sees the attempt fail and keeps the mail. *)
Requeued(S) ==
  [m \in Mail |-> IF m \in S /\ mail[m].state = "trying"
                  THEN [mail[m] EXCEPT !.state = "queued"] ELSE mail[m]]

(* Mutant of Reset: the recipients of the last transaction stay. *)
ResetKeepsRcpts(s) == [NoSession EXCEPT !.rcpts = s.rcpts]

(* Reset: the connection can carry another message. *)
Reset(s) == [s EXCEPT !.pc = "ready", !.mail = {}, !.toName = <<>>, !.rcpts = <<>>,
                      !.gone = FALSE]

(* MAIL FROM *)
MailFrom(c, m) ==
  /\ sess[c].pc = "ready"
  /\ Attempt(m)
  /\ sess' = [sess EXCEPT ![c].pc = "envelope", ![c].mail = {m}, ![c].toName = RcptsOf[m]]
  /\ UNCHANGED <<run, copies, route, verified, jobs, count, hist>>

(* RCPT TO, in the order of the sender's envelope: recorded, or 550. *)
Rcpt(c) ==
  /\ sess[c].pc = "envelope"
  /\ sess[c].toName # <<>>
  /\ LET addr == Head(sess[c].toName) IN
       sess' = [sess EXCEPT ![c].toName = Tail(@),
                            ![c].rcpts = IF InScope(addr) THEN Append(@, addr) ELSE @]
  /\ UNCHANGED <<mail, run, copies, route, verified, jobs, count, hist>>

(* Every recipient was turned down: the sender gives the mail up. *)
AllRefused(c) ==
  /\ sess[c].pc = "envelope"
  /\ sess[c].toName = <<>> /\ sess[c].rcpts = <<>>
  /\ mail' = [m \in Mail |-> IF m \in sess[c].mail
                             THEN [mail[m] EXCEPT !.state = "refused"] ELSE mail[m]]
  /\ sess' = [sess EXCEPT ![c] = Reset(@)]
  /\ UNCHANGED <<run, copies, route, verified, jobs, count, hist>>

(* Accept begins, with a parse of its own. *)
StartAccept(c, m, rcpts) ==
  run' = [run EXCEPT ![c] = [NoRun EXCEPT !.pc = "rcpt", !.todo = rcpts,
                                          !.try = mail'[m].attempts]]

(* DATA: the body is read and handed to Accept with the recipients. *)
Data(c) ==
  /\ sess[c].pc = "envelope"
  /\ sess[c].toName = <<>> /\ sess[c].rcpts # <<>>
  /\ sess' = [sess EXCEPT ![c].pc = "busy"]
  /\ UNCHANGED mail
  /\ \E m \in sess[c].mail : StartAccept(c, m, sess[c].rcpts)
  /\ UNCHANGED <<copies, route, verified, jobs, count, hist>>

(* DATA: the body cannot be read to its end: 451. *)
DataReadFails(c) ==
  /\ sess[c].pc = "envelope"
  /\ sess[c].toName = <<>> /\ sess[c].rcpts # <<>>
  /\ Fault
  /\ sess' = [sess EXCEPT ![c].pc = "busy"]
  /\ run' = [run EXCEPT ![c] = [NoRun EXCEPT !.pc = "error"]]
  /\ UNCHANGED <<mail, copies, route, verified, jobs, hist>>

(* RSET: the client starts the connection's transaction over. *)
ClientReset(c) ==
  /\ sess[c].pc = "envelope"
  /\ Fault
  /\ mail' = Requeued(sess[c].mail)
  /\ sess' = [sess EXCEPT ![c] = Reset(@)]
  /\ UNCHANGED <<run, copies, route, verified, jobs, hist>>

(* POST /api/ingest with a body and at least one recipient (a request without
   them, or with a body over the limit, is turned away before Accept). *)
handleIngest(c, m) ==
  /\ sess[c].pc = "ready"
  /\ Attempt(m)
  /\ sess' = [sess EXCEPT ![c] = [NoSession EXCEPT !.pc = "busy", !.mail = {m}]]
  /\ StartAccept(c, m, RcptsOf[m])
  /\ UNCHANGED <<copies, route, verified, jobs, count, hist>>

---------------------------------------------------------------------------
(* Accept *)

(* Mutant of SkipRecipient: an address out of scope fails the call. *)
SkipIsError(c) ==
  /\ run[c].pc = "rcpt" /\ run[c].todo # <<>>
  /\ ~InScope(Head(run[c].todo))
  /\ run' = [run EXCEPT ![c].pc = "error"]
  /\ UNCHANGED <<mail, sess, copies, route, verified, jobs, count, hist>>

SkipRecipient(c) ==
  /\ run[c].pc = "rcpt" /\ run[c].todo # <<>>
  /\ ~InScope(Head(run[c].todo))
  /\ run' = [run EXCEPT ![c].todo = Tail(@)]
  /\ UNCHANGED <<mail, sess, copies, route, verified, jobs, count, hist>>

(* The attachment ids, drawn once by the parse, have rows already: another
   copy of the same parse was stored. *)
AttachmentIdsTaken(c) ==
  \E m \in sess[c].mail \cap WithAttachment : \E k \in copies : k.mail = m /\ k.try = run[c].try

(* Mutant of NextCopy: the address as the sender wrote it. *)
NextCopyUnnormalized(c) ==
  {[mail |-> m, try |-> run[c].try, left |-> Len(run[c].todo), inbox |-> Head(run[c].todo)] :
     m \in sess[c].mail}

(* The next recipient's copy. *)
NextCopy(c) ==
  {[mail |-> m, try |-> run[c].try, left |-> Len(run[c].todo), inbox |-> Norm[Head(run[c].todo)]] :
     m \in sess[c].mail}

(* The loop body up to SaveMessage's commit. *)
SaveMessage(c) ==
  /\ run[c].pc = "rcpt" /\ run[c].todo # <<>>
  /\ InScope(Head(run[c].todo))
  /\ run[c].alive /\ ~AttachmentIdsTaken(c)
  /\ copies' = copies \cup NextCopy(c)
  /\ run' = [run EXCEPT ![c].pc = "lookup", ![c].todo = Tail(@), ![c].copy = NextCopy(c)]
  /\ LET i == Norm[Head(run[c].todo)] IN
       hist' = [hist EXCEPT ![c] = [must |-> route[i] \cap verified,
                                    listed |-> route[i], verified |-> verified]]
  /\ UNCHANGED <<mail, sess, route, verified, jobs, count>>

(* Mutant of SaveCannotSucceed: the error is logged and the loop goes on. *)
SaveErrorIsSkipped(c) ==
  /\ run[c].pc = "rcpt" /\ run[c].todo # <<>>
  /\ InScope(Head(run[c].todo))
  /\ ~run[c].alive \/ AttachmentIdsTaken(c)
  /\ run' = [run EXCEPT ![c].todo = Tail(@)]
  /\ UNCHANGED <<mail, sess, copies, route, verified, jobs, count, hist>>

(* SaveMessage returns an error, and Accept with it: the rest is not tried. *)
SaveCannotSucceed(c) ==
  /\ run[c].pc = "rcpt" /\ run[c].todo # <<>>
  /\ InScope(Head(run[c].todo))
  /\ ~run[c].alive \/ AttachmentIdsTaken(c)
  /\ run' = [run EXCEPT ![c].pc = "error"]
  /\ UNCHANGED <<mail, sess, copies, route, verified, jobs, count, hist>>

SaveFails(c) ==
  /\ run[c].pc = "rcpt" /\ run[c].todo # <<>>
  /\ InScope(Head(run[c].todo))
  /\ run[c].alive
  /\ Fault
  /\ run' = [run EXCEPT ![c].pc = "error"]
  /\ UNCHANGED <<mail, sess, copies, route, verified, jobs, hist>>

(* maybeForward: GetAddress; the destinations, if it is a forwarding address
   with forwarding enabled.  Without any the loop goes on. *)
GetAddress(c) ==
  /\ run[c].pc = "lookup" /\ run[c].alive
  /\ LET ds == UNION {route[k.inbox] : k \in run[c].copy} IN
       run' = [run EXCEPT ![c].pc = IF ds = {} THEN "rcpt" ELSE "verify", ![c].dests = ds]
  /\ UNCHANGED <<mail, sess, copies, route, verified, jobs, count, hist>>

(* The loop over the destinations goes on, or maybeForward returns. *)
AfterDest(c, d, pc) ==
  LET rest == run[c].dests \ {d} IN
  run' = [run EXCEPT ![c].dests = rest, ![c].dest = IF pc = "enqueue" THEN {d} ELSE {},
                     ![c].pc = IF pc # "enqueue" /\ rest = {} THEN "rcpt" ELSE pc]

(* Mutant of IsVerified: the answer is not looked at. *)
IsVerifiedIgnored(c, d) ==
  /\ run[c].pc = "verify" /\ run[c].alive
  /\ d \in run[c].dests
  /\ AfterDest(c, d, "enqueue")
  /\ UNCHANGED <<mail, sess, copies, route, verified, jobs, count, hist>>

(* IsVerified: an unverified destination is skipped. *)
IsVerified(c, d) ==
  /\ run[c].pc = "verify" /\ run[c].alive
  /\ d \in run[c].dests
  /\ AfterDest(c, d, IF d \in verified THEN "enqueue" ELSE "verify")
  /\ UNCHANGED <<mail, sess, copies, route, verified, jobs, count, hist>>

EnqueueForward(c) ==
  /\ run[c].pc = "enqueue" /\ run[c].alive
  /\ jobs' = jobs \cup {[copy |-> k, dest |-> d] : k \in run[c].copy, d \in run[c].dest}
  /\ run' = [run EXCEPT ![c].dest = {}, ![c].pc = IF run[c].dests = {} THEN "rcpt" ELSE "verify"]
  /\ UNCHANGED <<mail, sess, copies, route, verified, count, hist>>

(* A store call of maybeForward fails: GetAddress ends it, the other two
   skip the destination; Accept does not learn of it. *)
ForwardCallFails(c) ==
  /\ run[c].pc \in {"lookup", "verify", "enqueue"}
  /\ IF run[c].alive THEN Fault ELSE UNCHANGED count
  /\ \/ /\ run[c].pc = "lookup"
        /\ run' = [run EXCEPT ![c].pc = "rcpt"]
     \/ /\ run[c].pc = "verify"
        /\ \E d \in run[c].dests : AfterDest(c, d, "verify")
     \/ /\ run[c].pc = "enqueue"
        /\ run' = [run EXCEPT ![c].dest = {},
                              ![c].pc = IF run[c].dests = {} THEN "rcpt" ELSE "verify"]
  /\ hist' = [hist EXCEPT ![c].must = {}]
  /\ UNCHANGED <<mail, sess, copies, route, verified, jobs>>

(* All recipients are done: nil. *)
AcceptReturns(c) ==
  /\ run[c].pc = "rcpt" /\ run[c].todo = <<>>
  /\ run' = [run EXCEPT ![c].pc = "ok"]
  /\ UNCHANGED <<mail, sess, copies, route, verified, jobs, count, hist>>

(* 250 or 451, 202 or 500, if there is still somebody to tell; go-smtp then
   resets the session. *)
Answer(c) ==
  /\ run[c].pc \in {"ok", "error"}
  /\ mail' = IF sess[c].gone THEN mail
             ELSE IF run[c].pc = "error" THEN Requeued(sess[c].mail)
             ELSE [m \in Mail |-> IF m \in sess[c].mail
                                  THEN [mail[m] EXCEPT !.state = "acked"] ELSE mail[m]]
  /\ sess' = [sess EXCEPT ![c] = IF @.gone THEN NoSession ELSE Reset(@)]
  /\ run' = [run EXCEPT ![c] = NoRun]
  /\ hist' = [hist EXCEPT ![c] = NoHist]
  /\ UNCHANGED <<copies, route, verified, jobs, count>>

---------------------------------------------------------------------------
(* Environment *)

(* The 30 seconds of a Data call are over. *)
ContextEnds(c) ==
  /\ run[c].pc # "none" /\ run[c].alive
  /\ Fault
  /\ run' = [run EXCEPT ![c].alive = FALSE]
  /\ hist' = [hist EXCEPT ![c].must = {}]
  /\ UNCHANGED <<mail, sess, copies, route, verified, jobs>>

(* The client gives up waiting: its sender is free to try again while the
   server is still at work; an HTTP request's context ends. *)
HangUp(c) ==
  /\ sess[c].pc # "ready" /\ ~sess[c].gone
  /\ Fault
  /\ mail' = Requeued(sess[c].mail)
  /\ sess' = [sess EXCEPT ![c] = IF @.pc = "envelope" THEN NoSession
                                                     ELSE [@ EXCEPT !.gone = TRUE]]
  /\ run' = [run EXCEPT ![c].alive = @ /\ c \notin Post]
  /\ hist' = [hist EXCEPT ![c].must = IF c \in Post THEN {} ELSE @]
  /\ UNCHANGED <<copies, route, verified, jobs>>

(* The process dies and is started again. *)
Crash ==
  /\ Fault
  /\ mail' = Requeued(Mail)
  /\ sess' = [c \in Caller |-> NoSession]
  /\ run' = [c \in Caller |-> NoRun]
  /\ hist' = [c \in Caller |-> NoHist]
  /\ UNCHANGED <<copies, route, verified, jobs>>

(* The registry changes: forwarding of inbox i, or a verification. *)
RegistryBecomes(r, v) ==
  /\ count.changes < MaxChanges
  /\ count' = [count EXCEPT !.changes = @ + 1]
  /\ route' = r /\ verified' = v
  /\ hist' = [c \in Caller |->
       LET ds == UNION {r[k.inbox] : k \in run[c].copy} IN
       [must |-> hist[c].must \cap ds \cap v,
        listed |-> hist[c].listed \cup ds, verified |-> hist[c].verified \cup v]]
  /\ UNCHANGED <<mail, sess, run, copies, jobs>>

SetRoute(i, ds) == RegistryBecomes([route EXCEPT ![i] = ds], verified)
MarkVerified(d) == RegistryBecomes(route, verified \cup {d})
CreateVerification(d) == RegistryBecomes(route, verified \ {d})

---------------------------------------------------------------------------
Init ==
  /\ mail = [m \in Mail |-> [state |-> "queued", attempts |-> 0]]
  /\ sess = [c \in Caller |-> NoSession]
  /\ run = [c \in Caller |-> NoRun]
  /\ copies = {} /\ jobs = {}
  /\ route \in [HandledInboxes -> SUBSET Dest]
  /\ verified \in SUBSET Dest
  /\ count = [faults |-> 0, changes |-> 0]
  /\ hist = [c \in Caller |-> NoHist]

AcceptStep(c) ==
  \/ SkipRecipient(c) \/ SaveMessage(c) \/ SaveCannotSucceed(c)
  \/ GetAddress(c) \/ EnqueueForward(c) \/ ForwardCallFails(c)
  \/ \E d \in Dest : IsVerified(c, d)
  \/ AcceptReturns(c) \/ Answer(c)

SenderStep(c) ==
  \/ Rcpt(c) \/ AllRefused(c) \/ Data(c)

NewAttempt(m) ==
  \/ \E c \in Conn : MailFrom(c, m)
  \/ \E c \in Post : handleIngest(c, m)

Next ==
  \/ \E m \in Mail : NewAttempt(m)
  \/ \E c \in Conn : SenderStep(c) \/ DataReadFails(c) \/ ClientReset(c) \/ ContextEnds(c)
  \/ \E c \in Caller : AcceptStep(c) \/ SaveFails(c) \/ HangUp(c)
  \/ Crash
  \/ \E i \in HandledInboxes, ds \in SUBSET Dest : SetRoute(i, ds)
  \/ \E d \in Dest : MarkVerified(d) \/ CreateVerification(d)

Spec == Init /\ [][Next]_vars

(* The server's goroutines run, clients go on with what they began, and a
   sender tries again what was not taken. *)
FairSpec ==
  /\ Spec
  /\ \A c \in Caller : WF_vars(AcceptStep(c))
  /\ \A c \in Conn : WF_vars(SenderStep(c))
  /\ \A m \in Mail : WF_vars(NewAttempt(m))

---------------------------------------------------------------------------
(* Properties *)

SessState == [pc : {"ready", "envelope", "busy"}, mail : SUBSET Mail,
              toName : Seq(Addr), rcpts : Seq(Addr), gone : BOOLEAN]

RunState == [pc : {"none", "rcpt", "lookup", "verify", "enqueue", "ok", "error"},
             todo : Seq(Addr), try : Nat, alive : BOOLEAN,
             copy : SUBSET Copy, dests : SUBSET Dest, dest : SUBSET Dest]

(* The types of the variables. *)
TypeOK ==
  /\ mail \in [Mail -> [state : {"queued", "trying", "acked", "refused"}, attempts : Nat]]
  /\ sess \in [Caller -> SessState]
  /\ run \in [Caller -> RunState]
  /\ copies \subseteq Copy
  /\ route \in [HandledInboxes -> SUBSET Dest]
  /\ verified \subseteq Dest
  /\ jobs \subseteq [copy : Copy, dest : Dest]
  /\ count \in [faults : Nat, changes : Nat]
  /\ hist \in [Caller -> [must : SUBSET Dest, listed : SUBSET Dest, verified : SUBSET Dest]]

(* The places of mail m's envelope that name inbox i, in whatever spelling. *)
Naming(m, i) == {k \in 1 .. Len(RcptsOf[m]) : Norm[RcptsOf[m][k]] = i}

(* "A nil/zero error means every in-scope recipient was stored" (Accept): a
   sender that was told its mail is taken, and drops it, leaves a copy in
   every handled inbox its envelope names, however many attempts, hang-ups,
   failed statements and crashes came before. *)
AckedIsStored ==
  \A m \in Mail : mail[m].state = "acked" =>
    \A i \in HandledInboxes : Naming(m, i) # {} => \E k \in copies : k.mail = m /\ k.inbox = i

(* No copy goes to an inbox that the mail's own envelope does not name, and
   an inbox gets at most one copy per naming and attempt: what a connection
   carried before, and what other connections carry, leaves no trace in an
   envelope, and only an attempt its sender saw fail can cause a duplicate. *)
EnvelopesAreKept ==
  \A m \in Mail, i \in Inbox :
    Cardinality({k \in copies : k.mail = m /\ k.inbox = i})
      <= mail[m].attempts * Cardinality(Naming(m, i))

(* The destinations with a job for the copy in c's hand. *)
Queued(c) == {x.dest : x \in {y \in jobs : y.copy \in run[c].copy}}

(* The jobs maybeForward has queued for the copy in hand go to destinations
   that were listed and verified at some time since the copy was stored, and
   when it is done with a copy, every destination that was listed and
   verified all along has its job, unless a statement failed or the context
   ended on the way. *)
JobsAreRight ==
  \A c \in Caller :
    /\ Queued(c) \subseteq hist[c].listed \cap hist[c].verified
    /\ run[c].pc \in {"rcpt", "ok", "error"} => hist[c].must \subseteq Queued(c)

(* A mail is taken or refused in the end, if its sender keeps trying: no
   sequence of faults leaves a session, a call or an envelope that makes
   every later attempt fail. *)
EveryMailIsSettled == \A m \in Mail : <>(mail[m].state \in {"acked", "refused"})

(* message.go: the ingest layer fans a transaction out into one message per
   recipient, "so that every inbox owns an independent copy it can read or
   delete in isolation": without a fault, no call of Accept fails. *)
CopiesAreIndependent == count.faults = 0 => \A c \in Caller : run[c].pc # "error"

===========================================================================

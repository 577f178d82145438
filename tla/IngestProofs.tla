---------------------------- MODULE IngestProofs ----------------------------
(***************************************************************************)
(* TLAPS proofs about Ingest, for every set of mails, addresses, inboxes,  *)
(* connections, requests and destinations and every bound on attempts,     *)
(* faults and registry changes: what a sender is told was taken is stored, *)
(* nobody gets a copy the envelope does not call for, and every copy's     *)
(* forwards are queued.                                                    *)
(***************************************************************************)
EXTENDS Ingest, FunctionTheorems, FiniteSetTheorems, SequenceTheorems, TLAPS

(* The strengthening that makes the safety properties inductive *)

(* A caller carries one mail from the start of its transaction to the answer,
   and calls Accept exactly while it is busy. *)
SessionsFit ==
  \A c \in Caller :
    /\ sess[c].pc = "ready" => sess[c] = NoSession
    /\ sess[c].pc # "ready" => \E m \in Mail : sess[c].mail = {m}
    /\ sess[c].pc = "envelope" => c \notin Post
    /\ sess[c].gone => sess[c].pc = "busy"
    /\ sess[c].pc = "busy" <=> run[c].pc # "none"

(* The copy in hand is the run's own and stored; a run without a try, that of
   a body that could not be read, stores nothing. *)
RunsFit ==
  \A c \in Caller :
    /\ run[c].pc = "none" => run[c] = NoRun
    /\ run[c].pc = "ok" => run[c].todo = <<>>
    /\ run[c].pc \in {"lookup", "verify", "enqueue"} => run[c].copy # {}
    /\ run[c].pc # "enqueue" => run[c].dest = {}
    /\ run[c].try = 0 => run[c].pc \in {"none", "error"} /\ run[c].copy = {}
    /\ \A k \in run[c].copy : /\ run[c].copy = {k} /\ k \in copies
                             /\ k.mail \in sess[c].mail /\ k.try = run[c].try

(* A mail is tried by one caller at a time; those its sender has given up on
   are at earlier attempts, each at another. *)
AttemptsAreApart ==
  /\ \A c \in Caller : \A m \in sess[c].mail :
       /\ run[c].try <= mail[m].attempts
       /\ ~sess[c].gone =>
            /\ mail[m].state = "trying" /\ mail[m].attempts # 0
            /\ run[c].try \in {0, mail[m].attempts}
            /\ run[c].pc = "none" => \A k \in copies : k.mail = m => k.try < mail[m].attempts
  /\ \A c, d \in Caller : \A m \in sess[c].mail \cap sess[d].mail : c # d =>
       /\ ~sess[c].gone => sess[d].gone /\ run[d].try < mail[m].attempts
       /\ run[c].try # run[d].try \/ run[c].try = 0

(* Copies are of attempts that were made, in handled inboxes, and those of a run
   are of recipients that it has done. *)
CopiesAreDated ==
  /\ \A k \in copies : k.inbox \in HandledInboxes /\ k.try \in 1 .. mail[k.mail].attempts
  /\ \A c \in Caller : \A k \in copies :
       k.mail \in sess[c].mail /\ k.try = run[c].try => k.left > Len(run[c].todo)

(* Distinct places of m's envelope, r of them in order. *)
PlacesOf(m, r) ==
  {p \in [1 .. r -> 1 .. Len(RcptsOf[m])] : \A j, k \in 1 .. r : p[j] = p[k] => j = k}

(* What is left of an SMTP envelope is its end, and what was recorded stands
   at distinct places before it. *)
EnvelopeHasPlaces(m, s) ==
  LET done == Len(RcptsOf[m]) - Len(s.toName) IN
  /\ Len(s.rcpts) <= done
  /\ \A j \in 1 .. Len(s.toName) : s.toName[j] = RcptsOf[m][done + j]
  /\ \E p \in PlacesOf(m, Len(s.rcpts)) : \A j \in 1 .. Len(s.rcpts) :
       p[j] <= done /\ s.rcpts[j] = RcptsOf[m][p[j]]

EnvelopesHavePlaces ==
  \A c \in Caller : sess[c].pc = "envelope" => \A m \in sess[c].mail : EnvelopeHasPlaces(m, sess[c])

(* The recipients s are the last of the r that stood at the places p. *)
StandAt(m, r, p, s) ==
  /\ Len(s) <= r
  /\ \A j \in 1 .. Len(s) : s[j] = RcptsOf[m][p[r - Len(s) + j]]

(* The recipients handed to Accept in m's t-th attempt stood at the places p of
   its envelope: those that are stored and those that are still to do. *)
HasPlaces(m, t, r, p) ==
  /\ \A k \in copies : k.mail = m /\ k.try = t =>
       k.left \in 1 .. r /\ Norm[RcptsOf[m][p[r - k.left + 1]]] = k.inbox
  /\ \A c \in Caller : m \in sess[c].mail /\ run[c].try = t => StandAt(m, r, p, run[c].todo)

CopiesHavePlaces ==
  \A m \in Mail : \A t \in 1 .. mail[m].attempts :
    \E r \in 0 .. Len(RcptsOf[m]) : \E p \in PlacesOf(m, r) : HasPlaces(m, t, r, p)

Names(s, i) == \E j \in DOMAIN s : Norm[s[j]] = i

(* A handled inbox that the envelope names is stored, or still named in what is
   to come, as long as nothing failed. *)
NobodyIsForgotten ==
  \A c \in Caller : \A m \in sess[c].mail : \A i \in HandledInboxes : Naming(m, i) # {} =>
    /\ sess[c].pc = "envelope" => Names(sess[c].toName, i) \/ Names(sess[c].rcpts, i)
    /\ run[c].pc \notin {"none", "error"} =>
         Names(run[c].todo, i) \/ \E k \in copies : k.mail = m /\ k.inbox = i

(* Jobs are for stored copies, and the history of the copy in hand brackets the
   registry: listed and verified at some time, and all along. *)
HistoriesFit ==
  /\ \A x \in jobs : x.copy \in copies
  /\ \A c \in Caller :
       /\ run[c].copy = {} => hist[c].must = {}
       /\ \A k \in run[c].copy : /\ route[k.inbox] \subseteq hist[c].listed
                                /\ verified \subseteq hist[c].verified
                                /\ hist[c].must \subseteq route[k.inbox] \cap verified
       /\ run[c].dest \subseteq hist[c].listed \cap hist[c].verified
       /\ run[c].pc \in {"verify", "enqueue"} =>
            /\ run[c].dests \subseteq hist[c].listed
            /\ hist[c].must \subseteq Queued(c) \cup run[c].dests \cup run[c].dest

IInv ==
  /\ TypeOK /\ SessionsFit /\ RunsFit /\ AttemptsAreApart /\ CopiesAreDated
  /\ EnvelopesHavePlaces /\ CopiesHavePlaces
  /\ NobodyIsForgotten /\ AckedIsStored
  /\ HistoriesFit /\ JobsAreRight

---------------------------------------------------------------------------
MailState == [state : {"queued", "trying", "acked", "refused"}, attempts : Nat]
HistState == [must : SUBSET Dest, listed : SUBSET Dest, verified : SUBSET Dest]

(* The parts of TypeOK a proof asks for by name. *)
LEMMA Types ==
  ASSUME TypeOK
  PROVE  /\ mail \in [Mail -> MailState]
         /\ sess \in [Caller -> SessState]
         /\ run \in [Caller -> RunState]
         /\ copies \subseteq Copy
         /\ hist \in [Caller -> HistState]
BY DEF TypeOK, MailState, HistState

---------------------------------------------------------------------------
(* What keeps each part of the invariant, whatever the step *)

(* Transactions whose envelope is being collected are as they were. *)
LEMMA EnvelopesStay ==
  ASSUME EnvelopesHavePlaces,
         \A c \in Caller : sess'[c].pc = "envelope" => sess'[c] = sess[c]
  PROVE  EnvelopesHavePlaces'
<1> SUFFICES ASSUME NEW c \in Caller, sess'[c].pc = "envelope", NEW m \in sess'[c].mail
             PROVE  EnvelopeHasPlaces(m, sess'[c])
  BY DEF EnvelopesHavePlaces
<1> QED BY DEF EnvelopesHavePlaces

(* Sequences of recipients: what is left of one when its head is taken. *)
LEMMA TailOf ==
  ASSUME NEW s \in Seq(Addr), s # <<>>
  PROVE  /\ Tail(s) \in Seq(Addr) /\ Len(Tail(s)) = Len(s) - 1
         /\ Len(s) \in Nat \ {0}
         /\ Head(s) = s[1] /\ Head(s) \in Addr
         /\ \A j \in 1 .. Len(s) - 1 : Tail(s)[j] = s[j + 1]
BY HeadTailProperties, EmptySeq, ElementOfSeq

(* An inbox named in a sequence is named by its head or in its tail. *)
LEMMA NamesOf ==
  ASSUME NEW s \in Seq(Addr), s # <<>>, NEW i, Names(s, i)
  PROVE  Norm[Head(s)] = i \/ Names(Tail(s), i)
<1>1. PICK j \in 1 .. Len(s) : Norm[s[j]] = i
  BY DEF Names
<1>2. CASE j = 1
  BY <1>1, <1>2, TailOf
<1>3. CASE j # 1
  <2>1. j - 1 \in 1 .. Len(s) - 1 /\ Tail(s)[j - 1] = s[j]
    BY <1>3, TailOf
  <2>2. j - 1 \in DOMAIN Tail(s)
    BY <2>1, TailOf
  <2> QED BY <1>1, <2>1, <2>2 DEF Names
<1> QED BY <1>2, <1>3

(* What a call of Accept still has to do: as much as before, or less by its
   head. *)
Shorter(c) ==
  \/ run'[c].todo = run[c].todo
  \/ run[c].todo # <<>> /\ run'[c].todo = Tail(run[c].todo)

(* The caller goes on with the same mail and the same attempt, or has put the
   mail down, or has no attempt in hand. *)
GoesOn(c) ==
  \/ sess'[c].mail \subseteq sess[c].mail /\ run'[c].try = run[c].try /\ Shorter(c)
  \/ sess'[c].mail = {}
  \/ run'[c].try = 0

LEMMA StandTail ==
  ASSUME NEW m \in Mail, NEW r \in Nat, NEW p, NEW s \in Seq(Addr), s # <<>>, StandAt(m, r, p, s)
  PROVE  StandAt(m, r, p, Tail(s))
<1> DEFINE n == Len(s)
<1>1. n \in Nat \ {0} /\ Len(Tail(s)) = n - 1 /\ \A j \in 1 .. n - 1 : Tail(s)[j] = s[j + 1]
  BY TailOf
<1>2. n <= r /\ \A j \in 1 .. n : s[j] = RcptsOf[m][p[r - n + j]]
  BY DEF StandAt
<1>3. ASSUME NEW j \in 1 .. n - 1 PROVE Tail(s)[j] = RcptsOf[m][p[r - (n - 1) + j]]
  <2> DEFINE k == j + 1
  <2>1. k \in 1 .. n /\ r - n + k = r - (n - 1) + j
    BY <1>1
  <2>2. s[k] = RcptsOf[m][p[r - n + k]]
    BY <1>2, <2>1
  <2> QED BY <1>1, <2>1, <2>2
<1> HIDE DEF n
<1> QED BY <1>1, <1>2, <1>3 DEF StandAt

LEMMA PlacesGoOn ==
  ASSUME TypeOK, NEW m \in Mail, NEW t \in Nat \ {0}, NEW r \in Nat, NEW p,
         HasPlaces(m, t, r, p),
         NEW c \in Caller, GoesOn(c), m \in sess'[c].mail, run'[c].try = t
  PROVE  StandAt(m, r, p, run'[c].todo)
<1>1. m \in sess[c].mail /\ run[c].try = t /\ Shorter(c)
  BY DEF GoesOn
<1>2. StandAt(m, r, p, run[c].todo)
  BY <1>1 DEF HasPlaces
<1>3. run[c].todo \in Seq(Addr)
  BY Types DEF RunState
<1> QED BY <1>1, <1>2, <1>3, StandTail DEF Shorter

LEMMA PlacesStay ==
  ASSUME TypeOK, CopiesHavePlaces, copies' = copies,
         \A m \in Mail : mail'[m].attempts = mail[m].attempts,
         \A c \in Caller : GoesOn(c)
  PROVE  CopiesHavePlaces'
<1> SUFFICES ASSUME NEW m \in Mail, NEW t \in 1 .. mail[m].attempts
             PROVE  \E r \in 0 .. Len(RcptsOf[m]) : \E p \in PlacesOf(m, r) : HasPlaces(m, t, r, p)'
  BY DEF CopiesHavePlaces, PlacesOf
<1>1. PICK r \in 0 .. Len(RcptsOf[m]) : \E p \in PlacesOf(m, r) : HasPlaces(m, t, r, p)
  BY DEF CopiesHavePlaces
<1>2. PICK p \in PlacesOf(m, r) : HasPlaces(m, t, r, p)
  BY <1>1
<1>3. t \in Nat \ {0} /\ r \in Nat
  BY Types, RcptAssumption DEF MailState
<1>4. \A c \in Caller : m \in sess'[c].mail /\ run'[c].try = t => StandAt(m, r, p, run'[c].todo)
  BY <1>2, <1>3, PlacesGoOn
<1>5. HasPlaces(m, t, r, p)'
  BY <1>2, <1>4 DEF HasPlaces
<1> QED BY <1>5

(* No copy appears, and every run is at least as far as it was. *)
LEMMA DatesStay ==
  ASSUME TypeOK, CopiesAreDated, copies' = copies,
         \A m \in Mail : mail'[m].attempts \in Nat /\ mail'[m].attempts >= mail[m].attempts,
         \A c \in Caller : \/ GoesOn(c)
                           \/ \A k \in copies : k.mail \in sess'[c].mail => k.try # run'[c].try
  PROVE  CopiesAreDated'
<1>1. ASSUME NEW k \in copies' PROVE k.inbox \in HandledInboxes /\ k.try \in 1 .. mail'[k.mail].attempts
  <2>1. k \in Copy /\ k.mail \in Mail /\ mail[k.mail].attempts \in Nat
    BY Types DEF Copy, MailState
  <2> QED BY <2>1 DEF CopiesAreDated
<1>2. ASSUME NEW c \in Caller, NEW k \in copies', k.mail \in sess'[c].mail, k.try = run'[c].try
      PROVE  k.left > Len(run'[c].todo)
  <2>1. k.try # 0
    BY DEF CopiesAreDated
  <2>2. k.mail \in sess[c].mail /\ k.try = run[c].try /\ Shorter(c)
    BY <1>2, <2>1 DEF GoesOn
  <2>3. k.left > Len(run[c].todo)
    BY <2>2 DEF CopiesAreDated
  <2>4. run[c].todo \in Seq(Addr) /\ k.left \in Nat
    BY Types DEF RunState, Copy
  <2>5. CASE run'[c].todo = run[c].todo
    BY <2>3, <2>5
  <2>6. CASE run[c].todo # <<>> /\ run'[c].todo = Tail(run[c].todo)
    BY <2>3, <2>4, <2>6, TailOf
  <2> QED BY <2>2, <2>5, <2>6 DEF Shorter
<1> QED BY <1>1, <1>2 DEF CopiesAreDated

(* Everybody an envelope names stays named, and no run is taken up again. *)
LEMMA NobodyStaysForgotten ==
  ASSUME NobodyIsForgotten, copies \subseteq copies',
         \A c \in Caller :
           /\ sess'[c].pc = "envelope" => sess'[c] = sess[c]
           /\ run'[c].pc \notin {"none", "error"} =>
                /\ run[c].pc \notin {"none", "error"}
                /\ sess'[c].mail \subseteq sess[c].mail
                /\ \/ run'[c].todo = run[c].todo
                   \/ \A i \in HandledInboxes : Names(run[c].todo, i) => Names(run'[c].todo, i)
  PROVE  NobodyIsForgotten'
<1> SUFFICES ASSUME NEW c \in Caller, NEW m \in sess'[c].mail, NEW i \in HandledInboxes,
                    Naming(m, i) # {}
             PROVE  /\ sess'[c].pc = "envelope" => Names(sess'[c].toName, i) \/ Names(sess'[c].rcpts, i)
                    /\ run'[c].pc \notin {"none", "error"} =>
                         Names(run'[c].todo, i) \/ \E k \in copies' : k.mail = m /\ k.inbox = i
  BY DEF NobodyIsForgotten, Naming, Names
<1>1. sess'[c].pc = "envelope" => Names(sess'[c].toName, i) \/ Names(sess'[c].rcpts, i)
  BY DEF NobodyIsForgotten
<1>2. ASSUME run'[c].pc \notin {"none", "error"}
      PROVE  Names(run'[c].todo, i) \/ \E k \in copies' : k.mail = m /\ k.inbox = i
  <2>1. /\ run[c].pc \notin {"none", "error"} /\ m \in sess[c].mail
        /\ Names(run[c].todo, i) => Names(run'[c].todo, i)
    BY <1>2
  <2>2. Names(run[c].todo, i) \/ \E k \in copies : k.mail = m /\ k.inbox = i
    BY <2>1 DEF NobodyIsForgotten
  <2> QED BY <2>1, <2>2
<1> QED BY <1>1, <1>2

(* Nobody is told anything new. *)
LEMMA AckedStays ==
  ASSUME AckedIsStored, copies \subseteq copies',
         \A m \in Mail : mail'[m].state = "acked" => mail[m].state = "acked"
  PROVE  AckedIsStored'
BY DEF AckedIsStored, Naming

(* One caller puts a mail down, or its client hangs up on it, and the others
   do not move: the mail's sender may have its word only from the caller that
   had the client. *)
LEMMA LetGo ==
  ASSUME TypeOK, AttemptsAreApart, NEW c \in Caller, copies' = copies,
         \A m \in Mail : /\ mail'[m].attempts = mail[m].attempts
                         /\ m \notin sess[c].mail \/ sess[c].gone => mail'[m] = mail[m],
         \A d \in Caller : d # c => sess'[d] = sess[d] /\ run'[d] = run[d],
         \/ sess'[c].mail = {}
         \/ sess'[c].mail = sess[c].mail /\ sess'[c].gone /\ run'[c].try = run[c].try
  PROVE  AttemptsAreApart'
<1>0. \A d \in Caller : sess[d].mail \subseteq Mail /\ sess'[d].mail \subseteq sess[d].mail
  BY Types DEF SessState
<1>1. ASSUME NEW d \in Caller, NEW m \in sess'[d].mail
      PROVE  /\ run'[d].try <= mail'[m].attempts
             /\ ~sess'[d].gone =>
                  /\ mail'[m].state = "trying" /\ mail'[m].attempts # 0
                  /\ run'[d].try \in {0, mail'[m].attempts}
                  /\ run'[d].pc = "none" => \A k \in copies' : k.mail = m => k.try < mail'[m].attempts
  <2>1. m \in Mail /\ m \in sess[d].mail
    BY <1>0
  <2>2. CASE d = c
    BY <2>1, <2>2 DEF AttemptsAreApart
  <2>3. CASE d # c
    <3>1. ~sess[d].gone => m \notin sess[c].mail \/ sess[c].gone
      BY <2>1, <2>3 DEF AttemptsAreApart
    <3>2. ~sess[d].gone => mail'[m] = mail[m]
      BY <3>1, <2>1
    <3> QED BY <2>1, <2>3, <3>2 DEF AttemptsAreApart
  <2> QED BY <2>2, <2>3
<1>2. ASSUME NEW d \in Caller, NEW e \in Caller, NEW m \in sess'[d].mail \cap sess'[e].mail, d # e
      PROVE  /\ ~sess'[d].gone => sess'[e].gone /\ run'[e].try < mail'[m].attempts
             /\ run'[d].try # run'[e].try \/ run'[d].try = 0
  <2>1. m \in Mail /\ m \in sess[d].mail \cap sess[e].mail
    BY <1>0
  <2>2. /\ run'[d].try = run[d].try /\ run'[e].try = run[e].try
        /\ ~sess'[d].gone => ~sess[d].gone
        /\ sess[e].gone => sess'[e].gone
        /\ mail'[m].attempts = mail[m].attempts
    BY <1>2, <2>1
  <2> QED BY <1>2, <2>1, <2>2 DEF AttemptsAreApart
<1> QED BY <1>1, <1>2 DEF AttemptsAreApart
---------------------------------------------------------------------------
(* Steps of Accept that store nothing *)

(* Caller c's call goes on without a change of the mails, the transactions,
   the copies and the registry. *)
Quiet(c) ==
  /\ UNCHANGED <<mail, sess, copies, route, verified>>
  /\ \A d \in Caller : d # c => run'[d] = run[d]
  /\ run[c].pc # "none" /\ run'[c].pc # "none"
  /\ run'[c].try = run[c].try /\ run'[c].copy = run[c].copy
  /\ Shorter(c)
  /\ run'[c].todo # run[c].todo => ~InScope(Head(run[c].todo))
  /\ run[c].pc = "error" => run'[c].pc = "error"
  /\ run'[c].pc = "ok" => run'[c].todo = <<>>
  /\ run'[c].pc \in {"lookup", "verify", "enqueue"} => run[c].copy # {}
  /\ run'[c].pc # "enqueue" => run'[c].dest = {}
  /\ run[c].try = 0 => run'[c].pc = "error"

LEMMA QuietGoesOn ==
  ASSUME NEW c \in Caller, Quiet(c)
  PROVE  \A d \in Caller : GoesOn(d)
BY DEF Quiet, GoesOn, Shorter

LEMMA QuietKeeps ==
  ASSUME IInv, NEW c \in Caller, Quiet(c), TypeOK', HistoriesFit', JobsAreRight'
  PROVE  IInv'
<1> USE DEF Quiet
<1>0. TypeOK /\ SessionsFit /\ RunsFit /\ AttemptsAreApart /\ CopiesAreDated
      /\ EnvelopesHavePlaces /\ CopiesHavePlaces /\ NobodyIsForgotten /\ AckedIsStored
  BY DEF IInv
<1>1. SessionsFit'
  BY <1>0 DEF SessionsFit
<1>2. RunsFit'
  BY <1>0 DEF RunsFit
<1>3. AttemptsAreApart'
  BY <1>0 DEF AttemptsAreApart
<1>4. \A m \in Mail : mail'[m] = mail[m] /\ mail[m].attempts \in Nat
  BY <1>0, Types DEF MailState
<1>5. CopiesAreDated' /\ CopiesHavePlaces'
  BY <1>0, <1>4, QuietGoesOn, DatesStay, PlacesStay
<1>6. EnvelopesHavePlaces'
  BY <1>0, EnvelopesStay
<1>7. NobodyIsForgotten'
  <2>1. ASSUME run'[c].todo # run[c].todo, NEW i \in HandledInboxes, Names(run[c].todo, i)
        PROVE  Names(run'[c].todo, i)
    <3>1. run[c].todo \in Seq(Addr)
      BY <1>0, Types DEF RunState
    <3>2. run[c].todo # <<>> /\ run'[c].todo = Tail(run[c].todo)
          /\ Norm[Head(run[c].todo)] # i
      BY <2>1 DEF Shorter, InScope
    <3> QED BY <2>1, <3>1, <3>2, NamesOf
  <2>2. ASSUME NEW d \in Caller, run'[d].pc \notin {"none", "error"}
        PROVE  /\ run[d].pc \notin {"none", "error"}
               /\ \/ run'[d].todo = run[d].todo
                  \/ \A i \in HandledInboxes : Names(run[d].todo, i) => Names(run'[d].todo, i)
    BY <2>1, <2>2
  <2> QED BY <1>0, <2>2, NobodyStaysForgotten
<1>8. AckedIsStored'
  BY <1>0, AckedStays
<1> QED BY <1>1, <1>2, <1>3, <1>5, <1>6, <1>7, <1>8 DEF IInv

(* The call of c moves on: the jobs it queues are for the copy in hand, and it
   drops a destination only with its job queued or its promise withdrawn. *)
LEMMA HistoryGoesOn ==
  ASSUME IInv, NEW c \in Caller, UNCHANGED <<copies, route, verified>>,
         \A d \in Caller : d # c => run'[d] = run[d] /\ hist'[d] = hist[d],
         run'[c].copy = run[c].copy,
         hist'[c].listed = hist[c].listed, hist'[c].verified = hist[c].verified,
         hist'[c].must \subseteq hist[c].must,
         jobs \subseteq jobs',
         \A x \in jobs' \ jobs : x.copy \in run[c].copy /\ x.dest \in hist[c].listed \cap hist[c].verified,
         run'[c].dest \subseteq hist[c].listed \cap hist[c].verified,
         run'[c].pc \in {"verify", "enqueue"} =>
           /\ run'[c].dests \subseteq hist[c].listed
           /\ hist'[c].must \subseteq Queued(c)' \cup run'[c].dests \cup run'[c].dest,
         run'[c].pc \in {"rcpt", "ok", "error"} => hist'[c].must \subseteq Queued(c)'
  PROVE  HistoriesFit' /\ JobsAreRight'
<1>0. TypeOK /\ RunsFit /\ AttemptsAreApart /\ CopiesAreDated /\ HistoriesFit /\ JobsAreRight
  BY DEF IInv
<1>1. ASSUME NEW d \in Caller, d # c PROVE run[d].copy \cap run[c].copy = {}
  <2> SUFFICES ASSUME NEW k \in run[d].copy \cap run[c].copy PROVE FALSE
    OBVIOUS
  <2>1. /\ k.mail \in sess[c].mail \cap sess[d].mail /\ k \in copies
        /\ k.try = run[c].try /\ k.try = run[d].try
    BY <1>0 DEF RunsFit
  <2>2. k.try # 0
    BY <1>0, <2>1 DEF CopiesAreDated
  <2> QED BY <1>0, <1>1, <2>1, <2>2 DEF AttemptsAreApart
<1>2. ASSUME NEW d \in Caller, d # c PROVE Queued(d)' = Queued(d)
  BY <1>1, <1>2 DEF Queued
<1>3. Queued(c) \subseteq Queued(c)' /\ Queued(c)' \subseteq hist[c].listed \cap hist[c].verified
  BY <1>0 DEF Queued, JobsAreRight
<1>4. \A x \in jobs' : x.copy \in copies'
  BY <1>0 DEF HistoriesFit, RunsFit
<1>5. ASSUME NEW d \in Caller
      PROVE  /\ run'[d].copy = {} => hist'[d].must = {}
             /\ \A k \in run'[d].copy : /\ route'[k.inbox] \subseteq hist'[d].listed
                                       /\ verified' \subseteq hist'[d].verified
                                       /\ hist'[d].must \subseteq route'[k.inbox] \cap verified'
             /\ run'[d].dest \subseteq hist'[d].listed \cap hist'[d].verified
             /\ run'[d].pc \in {"verify", "enqueue"} =>
                  /\ run'[d].dests \subseteq hist'[d].listed
                  /\ hist'[d].must \subseteq Queued(d)' \cup run'[d].dests \cup run'[d].dest
  <2>1. CASE d = c
    <3>1. run'[d].copy = {} => hist'[d].must = {}
      BY <1>0, <2>1 DEF HistoriesFit
    <3>2. \A k \in run'[d].copy : /\ route'[k.inbox] \subseteq hist'[d].listed
                                 /\ verified' \subseteq hist'[d].verified
                                 /\ hist'[d].must \subseteq route'[k.inbox] \cap verified'
      BY <1>0, <2>1 DEF HistoriesFit
    <3> QED BY <2>1, <3>1, <3>2
  <2>2. CASE d # c
    BY <1>0, <1>2, <2>2 DEF HistoriesFit
  <2> QED BY <2>1, <2>2
<1>6. HistoriesFit'
  BY <1>4, <1>5 DEF HistoriesFit
<1>7. JobsAreRight'
  BY <1>0, <1>2, <1>3 DEF JobsAreRight
<1> QED BY <1>6, <1>7
(* The record of a run with some fields changed, and the others as they were. *)
LEMMA RunMoved ==
  ASSUME TypeOK, NEW c \in Caller, NEW e \in RunState, run' = [run EXCEPT ![c] = e]
  PROVE  /\ run' \in [Caller -> RunState] /\ run'[c] = e
         /\ \A d \in Caller : d # c => run'[d] = run[d]
BY Types

LEMMA SkipKeeps ==
  ASSUME IInv, NEW c \in Caller, SkipRecipient(c)
  PROVE  IInv'
<1> DEFINE e == [run[c] EXCEPT !.todo = Tail(@)]
<1>0. TypeOK /\ RunsFit /\ HistoriesFit /\ JobsAreRight
  BY DEF IInv
<1>1. run[c] \in RunState /\ run[c].todo \in Seq(Addr) /\ run[c].todo # <<>> /\ run[c].pc = "rcpt"
  BY <1>0, Types DEF RunState, SkipRecipient
<1>2. e \in RunState /\ run' = [run EXCEPT ![c] = e]
  BY <1>1, TailOf DEF RunState, SkipRecipient
<1>3. e.pc = "rcpt" /\ e.todo = Tail(run[c].todo) /\ e.try = run[c].try /\ e.copy = run[c].copy
      /\ e.dest = run[c].dest
  BY <1>1 DEF RunState
<1> HIDE DEF e
<1>4. /\ run' \in [Caller -> RunState] /\ run'[c] = e
      /\ \A d \in Caller : d # c => run'[d] = run[d]
  BY <1>0, <1>2, RunMoved
<1>5. TypeOK'
  BY <1>0, <1>4 DEF TypeOK, SkipRecipient
<1>6. Quiet(c)
  BY <1>0, <1>1, <1>3, <1>4 DEF Quiet, Shorter, SkipRecipient, RunsFit
<1>7. Queued(c)' = Queued(c)
  BY <1>3, <1>4 DEF Queued, SkipRecipient
<1>8. /\ UNCHANGED <<copies, route, verified, jobs, hist>>
      /\ hist[c].must \subseteq Queued(c)
      /\ run[c].dest \subseteq hist[c].listed \cap hist[c].verified
  BY <1>0, <1>1 DEF SkipRecipient, HistoriesFit, JobsAreRight
<1>9. HistoriesFit' /\ JobsAreRight'
  BY <1>3, <1>4, <1>7, <1>8, HistoryGoesOn
<1> QED BY <1>5, <1>6, <1>9, QuietKeeps

(* SaveMessage fails for any reason: Accept returns the error. *)
LEMMA ErrorKeeps ==
  ASSUME IInv, NEW c \in Caller, run[c].pc = "rcpt",
         run' = [run EXCEPT ![c].pc = "error"],
         UNCHANGED <<mail, sess, copies, route, verified, jobs, hist>>,
         count' \in [faults : Nat, changes : Nat]
  PROVE  IInv'
<1> DEFINE e == [run[c] EXCEPT !.pc = "error"]
<1>0. TypeOK /\ RunsFit /\ HistoriesFit /\ JobsAreRight
  BY DEF IInv
<1>1. run[c] \in RunState
  BY <1>0, Types
<1>2. e \in RunState /\ run' = [run EXCEPT ![c] = e]
  BY <1>1 DEF RunState
<1>3. e.pc = "error" /\ e.todo = run[c].todo /\ e.try = run[c].try /\ e.copy = run[c].copy
      /\ e.dest = run[c].dest
  BY <1>1 DEF RunState
<1> HIDE DEF e
<1>4. /\ run' \in [Caller -> RunState] /\ run'[c] = e
      /\ \A d \in Caller : d # c => run'[d] = run[d]
  BY <1>0, <1>2, RunMoved
<1>5. TypeOK'
  BY <1>0, <1>4 DEF TypeOK
<1>6. Quiet(c)
  BY <1>0, <1>3, <1>4 DEF Quiet, Shorter, RunsFit
<1>7. Queued(c)' = Queued(c)
  BY <1>3, <1>4 DEF Queued
<1>8. HistoriesFit' /\ JobsAreRight'
  BY <1>0, <1>3, <1>4, <1>7, HistoryGoesOn DEF HistoriesFit, JobsAreRight, RunsFit
<1> QED BY <1>5, <1>6, <1>8, QuietKeeps

LEMMA FaultCounts ==
  ASSUME TypeOK, Fault
  PROVE  count' \in [faults : Nat, changes : Nat]
BY DEF TypeOK, Fault

LEMMA SaveErrorKeeps ==
  ASSUME IInv, NEW c \in Caller, SaveCannotSucceed(c) \/ SaveFails(c)
  PROVE  IInv'
<1>0. TypeOK
  BY DEF IInv
<1>1. count \in [faults : Nat, changes : Nat]
  BY <1>0 DEF TypeOK
<1>2. CASE SaveCannotSucceed(c)
  BY <1>1, <1>2, ErrorKeeps DEF SaveCannotSucceed
<1>3. CASE SaveFails(c)
  BY <1>0, <1>3, FaultCounts, ErrorKeeps DEF SaveFails
<1> QED BY <1>2, <1>3

LEMMA AcceptReturnsKeeps ==
  ASSUME IInv, NEW c \in Caller, AcceptReturns(c)
  PROVE  IInv'
<1> DEFINE e == [run[c] EXCEPT !.pc = "ok"]
<1>0. TypeOK /\ RunsFit /\ HistoriesFit /\ JobsAreRight
  BY DEF IInv
<1>1. run[c] \in RunState /\ run[c].todo = <<>> /\ run[c].pc = "rcpt"
  BY <1>0, Types DEF AcceptReturns
<1>2. e \in RunState /\ run' = [run EXCEPT ![c] = e]
  BY <1>1 DEF RunState, AcceptReturns
<1>3. e.pc = "ok" /\ e.todo = run[c].todo /\ e.try = run[c].try /\ e.copy = run[c].copy
      /\ e.dest = run[c].dest
  BY <1>1 DEF RunState
<1> HIDE DEF e
<1>4. /\ run' \in [Caller -> RunState] /\ run'[c] = e
      /\ \A d \in Caller : d # c => run'[d] = run[d]
  BY <1>0, <1>2, RunMoved
<1>5. TypeOK'
  BY <1>0, <1>4 DEF TypeOK, AcceptReturns
<1>6. Quiet(c)
  BY <1>0, <1>1, <1>3, <1>4 DEF Quiet, Shorter, RunsFit, AcceptReturns
<1>7. Queued(c)' = Queued(c)
  BY <1>3, <1>4 DEF Queued, AcceptReturns
<1>8. HistoriesFit' /\ JobsAreRight'
  BY <1>0, <1>1, <1>3, <1>4, <1>7, HistoryGoesOn DEF AcceptReturns, HistoriesFit, JobsAreRight, RunsFit
<1> QED BY <1>5, <1>6, <1>8, QuietKeeps

(* The destinations found are those that are listed now. *)
LEMMA GetAddressKeeps ==
  ASSUME IInv, NEW c \in Caller, GetAddress(c)
  PROVE  IInv'
<1> DEFINE ds == UNION {route[k.inbox] : k \in run[c].copy}
           pc == IF ds = {} THEN "rcpt" ELSE "verify"
           e == [run[c] EXCEPT !.pc = pc, !.dests = ds]
<1>0. TypeOK /\ RunsFit /\ CopiesAreDated /\ HistoriesFit /\ JobsAreRight
  BY DEF IInv
<1>1. run[c] \in RunState /\ run[c].pc = "lookup" /\ run[c].copy # {}
  BY <1>0, Types DEF GetAddress, RunsFit
<1>2. PICK k \in run[c].copy : run[c].copy = {k} /\ k \in copies
  BY <1>0, <1>1 DEF RunsFit
<1>3. ds = route[k.inbox] /\ ds \subseteq Dest
  <2>1. route[k.inbox] \in SUBSET Dest
    BY <1>0, <1>2 DEF TypeOK, CopiesAreDated
  <2>2. {route[j.inbox] : j \in run[c].copy} = {route[k.inbox]}
    BY <1>2
  <2> QED BY <2>1, <2>2
<1>4. ds \subseteq hist[c].listed /\ hist[c].must \subseteq ds
  BY <1>0, <1>2, <1>3 DEF HistoriesFit
<1>5. run' = [run EXCEPT ![c].pc = pc, ![c].dests = ds]
  BY DEF GetAddress
<1> HIDE DEF ds
<1>6. pc \in {"rcpt", "verify"} /\ (pc = "rcpt" => ds = {})
  OBVIOUS
<1> HIDE DEF pc
<1>7. e \in RunState /\ run' = [run EXCEPT ![c] = e]
  BY <1>1, <1>3, <1>5, <1>6 DEF RunState
<1>8. e.pc = pc /\ e.todo = run[c].todo /\ e.try = run[c].try /\ e.copy = run[c].copy
      /\ e.dest = run[c].dest /\ e.dests = ds
  BY <1>1 DEF RunState
<1> HIDE DEF e
<1>9. /\ run' \in [Caller -> RunState] /\ run'[c] = e
      /\ \A d \in Caller : d # c => run'[d] = run[d]
  BY <1>0, <1>7, RunMoved
<1>10. TypeOK'
  BY <1>0, <1>9 DEF TypeOK, GetAddress
<1>11. Quiet(c)
  BY <1>0, <1>1, <1>6, <1>8, <1>9 DEF Quiet, Shorter, RunsFit, GetAddress
<1>12. Queued(c)' = Queued(c)
  BY <1>8, <1>9 DEF Queued, GetAddress
<1>13. run'[c].dest \subseteq hist[c].listed \cap hist[c].verified
  BY <1>0, <1>8, <1>9 DEF HistoriesFit
<1>14. HistoriesFit' /\ JobsAreRight'
  BY <1>4, <1>6, <1>8, <1>9, <1>12, <1>13, HistoryGoesOn DEF GetAddress
<1> QED BY <1>10, <1>11, <1>14, QuietKeeps
(* The loop over the destinations has a copy in hand, the history of which
   brackets the registry. *)
LEMMA InHand ==
  ASSUME IInv, NEW c \in Caller, run[c].pc \in {"lookup", "verify", "enqueue"}
  PROVE  /\ run[c].copy # {} /\ run[c].try # 0
         /\ verified \subseteq hist[c].verified /\ hist[c].must \subseteq verified
<1>1. RunsFit /\ HistoriesFit
  BY DEF IInv
<1>2. PICK k : k \in run[c].copy
  BY <1>1 DEF RunsFit
<1> QED BY <1>1, <1>2 DEF RunsFit, HistoriesFit

LoopPc == {"rcpt", "verify", "enqueue"}

(* What the loop over the destinations does to the run. *)
LEMMA LoopMoves ==
  ASSUME IInv, NEW c \in Caller, NEW pc \in LoopPc,
         NEW ds \in SUBSET Dest, NEW dd \in SUBSET Dest,
         run[c].pc \in {"lookup", "verify", "enqueue"},
         pc # "enqueue" => dd = {},
         run' = [run EXCEPT ![c] = [run[c] EXCEPT !.pc = pc, !.dests = ds, !.dest = dd]],
         UNCHANGED <<mail, sess, copies, route, verified>>
  PROVE  /\ run' \in [Caller -> RunState]
         /\ \A d \in Caller : d # c => run'[d] = run[d]
         /\ run'[c].pc = pc /\ run'[c].dests = ds /\ run'[c].dest = dd
         /\ run'[c].copy = run[c].copy
         /\ Quiet(c)
<1> DEFINE e == [run[c] EXCEPT !.pc = pc, !.dests = ds, !.dest = dd]
<1>0. TypeOK
  BY DEF IInv
<1>1. run[c] \in RunState
  BY <1>0, Types
<1>2. e \in RunState
  BY <1>1 DEF RunState, LoopPc
<1>3. e.pc = pc /\ e.dests = ds /\ e.dest = dd
      /\ e.todo = run[c].todo /\ e.try = run[c].try /\ e.copy = run[c].copy
  BY <1>1 DEF RunState
<1> HIDE DEF e
<1>4. /\ run' \in [Caller -> RunState] /\ run'[c] = e
      /\ \A d \in Caller : d # c => run'[d] = run[d]
  BY <1>0, <1>2, RunMoved DEF e
<1>5. Quiet(c)
  BY <1>3, <1>4, InHand DEF Quiet, Shorter, LoopPc
<1> QED BY <1>3, <1>4, <1>5

LEMMA AfterDestMoves ==
  ASSUME IInv, NEW c \in Caller, NEW d \in run[c].dests, NEW pc \in {"verify", "enqueue"},
         run[c].pc = "verify", AfterDest(c, d, pc),
         UNCHANGED <<mail, sess, copies, route, verified>>
  PROVE  /\ run' \in [Caller -> RunState]
         /\ \A x \in Caller : x # c => run'[x] = run[x]
         /\ run'[c].pc \in {"rcpt", "verify", "enqueue"}
         /\ run'[c].pc = "enqueue" <=> pc = "enqueue"
         /\ run'[c].pc = "rcpt" => run'[c].dests = {}
         /\ run'[c].dests = run[c].dests \ {d}
         /\ run'[c].dest = IF pc = "enqueue" THEN {d} ELSE {}
         /\ run'[c].copy = run[c].copy
         /\ Quiet(c)
<1> DEFINE ds == run[c].dests \ {d}
           dd == IF pc = "enqueue" THEN {d} ELSE {}
           p == IF pc # "enqueue" /\ ds = {} THEN "rcpt" ELSE pc
<1>1. run[c] \in RunState /\ run[c].dests \in SUBSET Dest
  BY Types DEF IInv, RunState
<1>2. ds \in SUBSET Dest /\ dd \in SUBSET Dest /\ p \in LoopPc /\ p \in {"rcpt", "verify", "enqueue"}
      /\ (p # "enqueue" => dd = {}) /\ (p = "enqueue" <=> pc = "enqueue") /\ (p = "rcpt" => ds = {})
  BY <1>1 DEF LoopPc
<1>3. run' = [run EXCEPT ![c].dests = ds, ![c].dest = dd, ![c].pc = p]
  BY DEF AfterDest
<1>4. dd = IF pc = "enqueue" THEN {d} ELSE {}
  OBVIOUS
<1> HIDE DEF dd, p, ds
<1>5. PICK q, S, T : q = p /\ S = ds /\ T = dd
  OBVIOUS
<1>6. run' = [run EXCEPT ![c] = [run[c] EXCEPT !.pc = q, !.dests = S, !.dest = T]]
  BY <1>1, <1>3, <1>5, Types DEF IInv, RunState
<1>7. /\ run' \in [Caller -> RunState]
      /\ \A x \in Caller : x # c => run'[x] = run[x]
      /\ run'[c].pc = q /\ run'[c].dests = S /\ run'[c].dest = T
      /\ run'[c].copy = run[c].copy
      /\ Quiet(c)
  <2>1. q \in LoopPc /\ S \in SUBSET Dest /\ T \in SUBSET Dest
    BY <1>2, <1>5
  <2>2. q # "enqueue" => T = {}
    BY <1>2, <1>5
  <2>3. run[c].pc \in {"lookup", "verify", "enqueue"}
    OBVIOUS
  <2> QED BY <2>1, <2>2, <2>3, <1>6, LoopMoves
<1> QED BY <1>2, <1>4, <1>5, <1>7 DEF ds

LEMMA IsVerifiedKeeps ==
  ASSUME IInv, NEW c \in Caller, NEW d \in Dest, IsVerified(c, d)
  PROVE  IInv'
<1> DEFINE pc == IF d \in verified THEN "enqueue" ELSE "verify"
<1>0. TypeOK /\ RunsFit /\ HistoriesFit /\ JobsAreRight
  BY DEF IInv
<1>1. /\ run[c].pc = "verify" /\ d \in run[c].dests /\ AfterDest(c, d, pc)
      /\ UNCHANGED <<mail, sess, copies, route, verified, jobs, count, hist>>
  BY DEF IsVerified
<1>2. pc \in {"verify", "enqueue"} /\ (pc = "enqueue" <=> d \in verified)
  OBVIOUS
<1> HIDE DEF pc
<1>3. /\ run' \in [Caller -> RunState]
      /\ \A x \in Caller : x # c => run'[x] = run[x]
      /\ run'[c].pc \in {"rcpt", "verify", "enqueue"}
      /\ run'[c].pc = "enqueue" <=> pc = "enqueue"
      /\ run'[c].pc = "rcpt" => run'[c].dests = {}
      /\ run'[c].dests = run[c].dests \ {d}
      /\ run'[c].dest = IF pc = "enqueue" THEN {d} ELSE {}
      /\ run'[c].copy = run[c].copy
      /\ Quiet(c)
  BY <1>1, <1>2, AfterDestMoves
<1>4. TypeOK'
  BY <1>0, <1>1, <1>3 DEF TypeOK
<1>5. Queued(c)' = Queued(c)
  BY <1>1, <1>3 DEF Queued
<1>6. /\ verified \subseteq hist[c].verified /\ hist[c].must \subseteq verified
      /\ run[c].dests \subseteq hist[c].listed
      /\ run[c].dest = {}
      /\ hist[c].must \subseteq Queued(c) \cup run[c].dests
  BY <1>0, <1>1, InHand DEF HistoriesFit, RunsFit
<1>7. run'[c].dest \subseteq hist[c].listed \cap hist[c].verified
  BY <1>1, <1>2, <1>3, <1>6
<1>8. hist[c].must \subseteq Queued(c) \cup run'[c].dests \cup run'[c].dest
  BY <1>2, <1>3, <1>6
<1>9. run'[c].pc = "rcpt" => hist[c].must \subseteq Queued(c)
  BY <1>2, <1>3, <1>8
<1>10. run'[c].dests \subseteq hist[c].listed
  BY <1>3, <1>6
<1>11. HistoriesFit' /\ JobsAreRight'
  BY <1>1, <1>3, <1>5, <1>7, <1>8, <1>9, <1>10, HistoryGoesOn
<1> QED BY <1>3, <1>4, <1>11, QuietKeeps

(* The end of one destination of the loop, its job queued or not. *)
EnqueueEnds(c) ==
  run' = [run EXCEPT ![c].dest = {}, ![c].pc = IF run[c].dests = {} THEN "rcpt" ELSE "verify"]

LEMMA EnqueueDone ==
  ASSUME IInv, NEW c \in Caller, run[c].pc = "enqueue", EnqueueEnds(c),
         UNCHANGED <<mail, sess, copies, route, verified>>
  PROVE  /\ run' \in [Caller -> RunState]
         /\ \A x \in Caller : x # c => run'[x] = run[x]
         /\ run'[c].pc \in {"rcpt", "verify"}
         /\ run'[c].pc = "rcpt" => run'[c].dests = {}
         /\ run'[c].dests = run[c].dests /\ run'[c].dest = {}
         /\ run'[c].copy = run[c].copy
         /\ Quiet(c)
<1> DEFINE p == IF run[c].dests = {} THEN "rcpt" ELSE "verify"
<1>1. run[c] \in RunState /\ run[c].dests \in SUBSET Dest /\ {} \in SUBSET Dest
  BY Types DEF IInv, RunState
<1>2. p \in LoopPc /\ p # "enqueue" /\ (p = "rcpt" => run[c].dests = {})
  BY DEF LoopPc
<1>3. run' = [run EXCEPT ![c].dest = {}, ![c].pc = p]
  BY DEF EnqueueEnds
<1> HIDE DEF p
<1>4. PICK q, S, T : q = p /\ S = run[c].dests /\ T = {}
  OBVIOUS
<1>5. run' = [run EXCEPT ![c] = [run[c] EXCEPT !.pc = q, !.dests = S, !.dest = T]]
  BY <1>1, <1>3, <1>4, Types DEF IInv, RunState
<1>6. /\ run' \in [Caller -> RunState]
      /\ \A x \in Caller : x # c => run'[x] = run[x]
      /\ run'[c].pc = q /\ run'[c].dests = S /\ run'[c].dest = T
      /\ run'[c].copy = run[c].copy
      /\ Quiet(c)
  <2>1. q \in LoopPc /\ S \in SUBSET Dest /\ T \in SUBSET Dest
    BY <1>1, <1>2, <1>4
  <2>2. q # "enqueue" => T = {}
    BY <1>4
  <2>3. run[c].pc \in {"lookup", "verify", "enqueue"}
    OBVIOUS
  <2> QED BY <2>1, <2>2, <2>3, <1>5, LoopMoves
<1> QED BY <1>2, <1>4, <1>6 DEF LoopPc

LEMMA EnqueueKeeps ==
  ASSUME IInv, NEW c \in Caller, EnqueueForward(c)
  PROVE  IInv'
<1> DEFINE new == {[copy |-> k, dest |-> d] : k \in run[c].copy, d \in run[c].dest}
<1>0. TypeOK /\ RunsFit /\ HistoriesFit /\ JobsAreRight
  BY DEF IInv
<1>1. /\ run[c].pc = "enqueue"
      /\ EnqueueEnds(c)
      /\ jobs' = jobs \cup new
      /\ UNCHANGED <<mail, sess, copies, route, verified, count, hist>>
  BY DEF EnqueueForward, EnqueueEnds
<1>2. run[c].copy \subseteq Copy /\ run[c].dest \subseteq Dest
  BY <1>0, Types DEF RunState
<1>3. \A x \in new : x.copy \in run[c].copy /\ x.dest \in run[c].dest /\ x \in [copy : Copy, dest : Dest]
  BY <1>2
<1>4. \A d \in run[c].dest : \E x \in new : x.copy \in run[c].copy /\ x.dest = d
  <2> SUFFICES ASSUME NEW d \in run[c].dest PROVE \E x \in new : x.copy \in run[c].copy /\ x.dest = d
    OBVIOUS
  <2>1. PICK k : k \in run[c].copy
    BY <1>1, InHand
  <2>2. [copy |-> k, dest |-> d] \in new
    BY <2>1
  <2> QED BY <2>1, <2>2
<1> HIDE DEF new
<1>5. /\ run' \in [Caller -> RunState]
      /\ \A x \in Caller : x # c => run'[x] = run[x]
      /\ run'[c].pc \in {"rcpt", "verify"}
      /\ run'[c].pc = "rcpt" => run'[c].dests = {}
      /\ run'[c].dests = run[c].dests /\ run'[c].dest = {}
      /\ run'[c].copy = run[c].copy
      /\ Quiet(c)
  BY <1>1, EnqueueDone
<1>6. TypeOK'
  BY <1>0, <1>1, <1>3, <1>5 DEF TypeOK
<1>7. Queued(c) \cup run[c].dest \subseteq Queued(c)'
  BY <1>1, <1>4, <1>5 DEF Queued
<1>8. /\ run[c].dest \subseteq hist[c].listed \cap hist[c].verified
      /\ run[c].dests \subseteq hist[c].listed
      /\ hist[c].must \subseteq Queued(c) \cup run[c].dests \cup run[c].dest
  BY <1>0, <1>1 DEF HistoriesFit
<1>9. \A x \in jobs' \ jobs : x.copy \in run[c].copy /\ x.dest \in hist[c].listed \cap hist[c].verified
  BY <1>1, <1>3, <1>8
<1>10. /\ hist[c].must \subseteq Queued(c)' \cup run'[c].dests \cup run'[c].dest
       /\ run'[c].pc = "rcpt" => hist[c].must \subseteq Queued(c)'
  BY <1>5, <1>7, <1>8
<1>11. HistoriesFit' /\ JobsAreRight'
  BY <1>1, <1>5, <1>8, <1>9, <1>10, HistoryGoesOn
<1> QED BY <1>5, <1>6, <1>11, QuietKeeps

(* The history is told that nothing is promised of c's copy any more. *)
LEMMA PromiseWithdrawn ==
  ASSUME TypeOK, NEW c \in Caller, hist' = [hist EXCEPT ![c].must = {}]
  PROVE  /\ hist' \in [Caller -> HistState]
         /\ hist'[c].must = {} /\ hist'[c].listed = hist[c].listed
         /\ hist'[c].verified = hist[c].verified
         /\ \A d \in Caller : d # c => hist'[d] = hist[d]
<1>1. hist \in [Caller -> HistState]
  BY Types
<1> QED BY <1>1 DEF HistState

LEMMA ForwardCallFailsKeeps ==
  ASSUME IInv, NEW c \in Caller, ForwardCallFails(c)
  PROVE  IInv'
<1>0. TypeOK /\ RunsFit /\ HistoriesFit /\ JobsAreRight
  BY DEF IInv
<1>1. /\ run[c].pc \in {"lookup", "verify", "enqueue"}
      /\ hist' = [hist EXCEPT ![c].must = {}]
      /\ UNCHANGED <<mail, sess, copies, route, verified, jobs>>
  BY DEF ForwardCallFails
<1>2. count' \in [faults : Nat, changes : Nat]
  BY <1>0, FaultCounts DEF ForwardCallFails, TypeOK
<1>3. /\ hist' \in [Caller -> HistState]
      /\ hist'[c].must = {} /\ hist'[c].listed = hist[c].listed
      /\ hist'[c].verified = hist[c].verified
      /\ \A d \in Caller : d # c => hist'[d] = hist[d]
  BY <1>0, <1>1, PromiseWithdrawn
<1>4. run[c] \in RunState
  BY <1>0, Types
<1>5. /\ run' \in [Caller -> RunState]
      /\ \A x \in Caller : x # c => run'[x] = run[x]
      /\ run'[c].pc \in {"rcpt", "verify"}
      /\ run'[c].dests \subseteq run[c].dests /\ run'[c].dest = {}
      /\ run'[c].copy = run[c].copy
      /\ run'[c].pc = "verify" => run[c].pc \in {"verify", "enqueue"}
      /\ Quiet(c)
  <2>1. CASE run[c].pc = "lookup" /\ run' = [run EXCEPT ![c].pc = "rcpt"]
    <3>1. run[c].dest = {}
      BY <1>0, <2>1 DEF RunsFit
    <3>2. run[c].dests \in SUBSET Dest /\ {} \in SUBSET Dest
      BY <1>4 DEF RunState
    <3>3. run' = [run EXCEPT ![c] = [run[c] EXCEPT !.pc = "rcpt", !.dests = run[c].dests, !.dest = {}]]
      BY <1>0, <1>4, <2>1, <3>1, Types DEF RunState
    <3>4. "rcpt" \in LoopPc
      BY DEF LoopPc
    <3>5. UNCHANGED <<mail, sess, copies, route, verified>>
      BY <1>1
    <3>6. /\ run' \in [Caller -> RunState]
          /\ \A x \in Caller : x # c => run'[x] = run[x]
          /\ run'[c].pc = "rcpt" /\ run'[c].dests = run[c].dests /\ run'[c].dest = {}
          /\ run'[c].copy = run[c].copy
          /\ Quiet(c)
      BY <1>1, <3>2, <3>3, <3>4, <3>5, LoopMoves
    <3> QED BY <3>6
  <2>2. CASE run[c].pc = "verify" /\ \E d \in run[c].dests : AfterDest(c, d, "verify")
    BY <1>1, <2>2, AfterDestMoves
  <2>3. CASE run[c].pc = "enqueue" /\ EnqueueEnds(c)
    BY <1>1, <2>3, EnqueueDone
  <2> QED BY <2>1, <2>2, <2>3 DEF ForwardCallFails, EnqueueEnds
<1>6. TypeOK'
  BY <1>0, <1>1, <1>2, <1>3, <1>5 DEF TypeOK, HistState
<1>7. run'[c].pc = "verify" => run'[c].dests \subseteq hist[c].listed
  BY <1>0, <1>5 DEF HistoriesFit
<1>8. HistoriesFit' /\ JobsAreRight'
  BY <1>1, <1>3, <1>5, <1>7, HistoryGoesOn
<1> QED BY <1>5, <1>6, <1>8, QuietKeeps

(* A context that ends withdraws the promise and leaves the rest to the calls
   that will fail. *)
LEMMA ContextEndsKeeps ==
  ASSUME IInv, NEW c \in Caller, ContextEnds(c)
  PROVE  IInv'
<1> DEFINE e == [run[c] EXCEPT !.alive = FALSE]
<1>0. TypeOK /\ RunsFit /\ HistoriesFit
  BY DEF IInv
<1>1. /\ run[c].pc # "none" /\ run' = [run EXCEPT ![c].alive = FALSE]
      /\ hist' = [hist EXCEPT ![c].must = {}]
      /\ UNCHANGED <<mail, sess, copies, route, verified, jobs>>
      /\ count' \in [faults : Nat, changes : Nat]
  BY <1>0, FaultCounts DEF ContextEnds
<1>2. run[c] \in RunState
  BY <1>0, Types
<1>3. e \in RunState /\ run' = [run EXCEPT ![c] = e]
  BY <1>1, <1>2 DEF RunState
<1>4. e.pc = run[c].pc /\ e.todo = run[c].todo /\ e.try = run[c].try /\ e.copy = run[c].copy
      /\ e.dests = run[c].dests /\ e.dest = run[c].dest
  BY <1>2 DEF RunState
<1> HIDE DEF e
<1>5. /\ run' \in [Caller -> RunState] /\ run'[c] = e
      /\ \A d \in Caller : d # c => run'[d] = run[d]
  BY <1>0, <1>3, RunMoved
<1>6. /\ hist' \in [Caller -> HistState]
      /\ hist'[c].must = {} /\ hist'[c].listed = hist[c].listed
      /\ hist'[c].verified = hist[c].verified
      /\ \A d \in Caller : d # c => hist'[d] = hist[d]
  BY <1>0, <1>1, PromiseWithdrawn
<1>7. TypeOK'
  BY <1>0, <1>1, <1>5, <1>6 DEF TypeOK, HistState
<1>8. Quiet(c)
  BY <1>0, <1>1, <1>4, <1>5 DEF Quiet, Shorter, RunsFit
<1>9. HistoriesFit' /\ JobsAreRight'
  <2>1. /\ run'[c].dest \subseteq hist[c].listed \cap hist[c].verified
        /\ run'[c].pc \in {"verify", "enqueue"} => run'[c].dests \subseteq hist[c].listed
    BY <1>0, <1>4, <1>5 DEF HistoriesFit
  <2> QED BY <1>1, <1>4, <1>5, <1>6, <2>1, HistoryGoesOn
<1> QED BY <1>7, <1>8, <1>9, QuietKeeps
---------------------------------------------------------------------------
(* Transactions that are put down *)

LEMMA SessMoved ==
  ASSUME TypeOK, NEW c \in Caller, NEW e \in SessState, sess' = [sess EXCEPT ![c] = e]
  PROVE  /\ sess' \in [Caller -> SessState] /\ sess'[c] = e
         /\ \A d \in Caller : d # c => sess'[d] = sess[d]
BY Types

LEMMA NothingInHand ==
  /\ NoSession \in SessState /\ NoRun \in RunState /\ NoHist \in HistState
  /\ NoSession.pc = "ready" /\ NoSession.mail = {} /\ NoSession.gone = FALSE
  /\ NoRun.pc = "none" /\ NoRun.try = 0 /\ NoRun.copy = {} /\ NoRun.dest = {} /\ NoRun.todo = <<>>
  /\ NoHist.must = {}
  /\ \A s \in SessState : Reset(s) = NoSession
<1>1. NoSession \in SessState /\ NoRun \in RunState /\ NoHist \in HistState
  BY EmptySeq DEF NoSession, SessState, NoRun, RunState, NoHist, HistState
<1>2. ASSUME NEW s \in SessState PROVE Reset(s) = NoSession
  <2> DEFINE z == Reset(s)
  <2>1. z \in SessState
    BY EmptySeq DEF SessState, Reset
  <2>2. z.pc = "ready" /\ z.mail = {} /\ z.toName = <<>> /\ z.rcpts = <<>> /\ z.gone = FALSE
    BY DEF SessState, Reset
  <2> HIDE DEF z
  <2>3. z = [pc |-> z.pc, mail |-> z.mail, toName |-> z.toName, rcpts |-> z.rcpts, gone |-> z.gone]
    BY <2>1 DEF SessState
  <2>4. z = NoSession
    BY <2>2, <2>3 DEF NoSession
  <2> QED BY <2>4 DEF z
<1> QED BY <1>1, <1>2 DEF NoSession, NoRun, NoHist

(* A sender is told of the mails in S. *)
LEMMA MailsTold ==
  ASSUME TypeOK, NEW S \in SUBSET Mail, NEW st \in {"refused", "acked"},
         \/ mail' = mail
         \/ mail' = Requeued(S)
         \/ mail' = [m \in Mail |-> IF m \in S THEN [mail[m] EXCEPT !.state = st] ELSE mail[m]]
  PROVE  /\ mail' \in [Mail -> MailState]
         /\ \A m \in Mail : /\ mail'[m].attempts = mail[m].attempts
                            /\ m \notin S => mail'[m] = mail[m]
                            /\ mail'[m].state \in {mail[m].state, "queued", st}
                            /\ mail' = Requeued(S) => mail'[m].state \in {mail[m].state, "queued"}
<1>1. mail \in [Mail -> MailState]
  BY Types
<1>2. CASE mail' = mail
  BY <1>1, <1>2 DEF MailState
<1>3. CASE mail' = Requeued(S)
  <2>1. ASSUME NEW m \in Mail
        PROVE  /\ mail'[m] \in MailState
               /\ mail'[m].attempts = mail[m].attempts
               /\ m \notin S => mail'[m] = mail[m]
               /\ mail'[m].state \in {mail[m].state, "queued"}
    BY <1>1, <1>3 DEF Requeued, MailState
  <2>2. mail' = [m \in Mail |-> mail'[m]]
    BY <1>3 DEF Requeued
  <2> QED BY <2>1, <2>2
<1>4. CASE mail' = [m \in Mail |-> IF m \in S THEN [mail[m] EXCEPT !.state = st] ELSE mail[m]]
  <2>1. ASSUME NEW m \in Mail
        PROVE  /\ mail'[m] \in MailState
               /\ mail'[m].attempts = mail[m].attempts
               /\ m \notin S => mail'[m] = mail[m]
               /\ mail'[m].state \in {mail[m].state, st}
    BY <1>1, <1>4 DEF MailState
  <2>2. mail' = [m \in Mail |-> mail'[m]]
    BY <1>4
  <2>3. ASSUME NEW m \in Mail, mail' = Requeued(S)
        PROVE  mail'[m].state \in {mail[m].state, "queued"}
    BY <1>1, <2>3 DEF Requeued, MailState
  <2> QED BY <2>1, <2>2, <2>3
<1> QED BY <1>2, <1>3, <1>4

(* What c has in hand before DATA. *)
LEMMA InEnvelope ==
  ASSUME IInv, NEW c \in Caller, sess[c].pc \in {"ready", "envelope"}
  PROVE  run[c] = NoRun /\ ~sess[c].gone /\ hist[c].must = {}
<1>1. SessionsFit /\ RunsFit /\ HistoriesFit
  BY DEF IInv
<1>2. sess[c].gone \in BOOLEAN
  BY Types DEF IInv, SessState
<1>3. run[c] = NoRun
  BY <1>1 DEF SessionsFit, RunsFit
<1> QED BY <1>1, <1>2, <1>3, NothingInHand DEF SessionsFit, HistoriesFit

(* Callers go on as they were, or have nothing in hand. *)
LEMMA HistoryStays ==
  ASSUME HistoriesFit, JobsAreRight, UNCHANGED <<copies, route, verified, jobs>>,
         \A d \in Caller :
           \/ run'[d] = run[d] /\ hist'[d] = hist[d]
           \/ /\ run'[d].copy = {} /\ run'[d].dest = {}
              /\ run'[d].pc \notin {"verify", "enqueue"}
              /\ hist'[d].must = {}
  PROVE  HistoriesFit' /\ JobsAreRight'
<1>1. ASSUME NEW d \in Caller, run'[d] = run[d] /\ hist'[d] = hist[d]
      PROVE  Queued(d)' = Queued(d)
  BY <1>1 DEF Queued
<1>2. ASSUME NEW d \in Caller, run'[d].copy = {} PROVE Queued(d)' = {}
  BY <1>2 DEF Queued
<1>3. HistoriesFit'
  BY <1>1, <1>2 DEF HistoriesFit
<1>4. JobsAreRight'
  BY <1>1, <1>2 DEF JobsAreRight
<1> QED BY <1>3, <1>4

(* A caller that ends its transaction, with or without a word to the sender. *)
LEMMA PutDownKeeps ==
  ASSUME IInv, NEW c \in Caller, UNCHANGED <<copies, route, verified, jobs>>,
         count' \in [faults : Nat, changes : Nat],
         sess' = [sess EXCEPT ![c] = NoSession],
         run' = [run EXCEPT ![c] = NoRun],
         hist' \in [Caller -> HistState], hist'[c].must = {},
         \A d \in Caller : d # c => hist'[d] = hist[d],
         mail' \in [Mail -> MailState],
         \A m \in Mail : /\ mail'[m].attempts = mail[m].attempts
                         /\ m \notin sess[c].mail \/ sess[c].gone => mail'[m] = mail[m],
         AckedIsStored'
  PROVE  IInv'
<1>0. TypeOK /\ SessionsFit /\ RunsFit /\ AttemptsAreApart /\ CopiesAreDated
      /\ EnvelopesHavePlaces /\ CopiesHavePlaces /\ NobodyIsForgotten
      /\ HistoriesFit /\ JobsAreRight
  BY DEF IInv
<1>1. /\ sess' \in [Caller -> SessState] /\ sess'[c] = NoSession
      /\ \A d \in Caller : d # c => sess'[d] = sess[d]
  BY <1>0, NothingInHand, SessMoved
<1>2. /\ run' \in [Caller -> RunState] /\ run'[c] = NoRun
      /\ \A d \in Caller : d # c => run'[d] = run[d]
  BY <1>0, NothingInHand, RunMoved
<1>3. TypeOK'
  BY <1>0, <1>1, <1>2 DEF TypeOK, MailState, HistState
<1>4. SessionsFit'
  BY <1>0, <1>1, <1>2, NothingInHand DEF SessionsFit
<1>5. RunsFit'
  BY <1>0, <1>1, <1>2, NothingInHand DEF RunsFit
<1>6. AttemptsAreApart'
  BY <1>0, <1>1, <1>2, NothingInHand, LetGo
<1>7. \A d \in Caller : GoesOn(d)
  BY <1>1, <1>2, NothingInHand DEF GoesOn, Shorter
<1>8. \A m \in Mail : mail'[m].attempts \in Nat /\ mail'[m].attempts >= mail[m].attempts
  BY <1>0, Types DEF MailState
<1>9. CopiesAreDated' /\ CopiesHavePlaces'
  BY <1>0, <1>7, <1>8, DatesStay, PlacesStay
<1>10. EnvelopesHavePlaces'
  BY <1>0, <1>1, NothingInHand, EnvelopesStay
<1>11. NobodyIsForgotten'
  <2>1. ASSUME NEW d \in Caller
        PROVE  /\ sess'[d].pc = "envelope" => sess'[d] = sess[d]
               /\ run'[d].pc \notin {"none", "error"} =>
                    /\ run[d].pc \notin {"none", "error"}
                    /\ sess'[d].mail \subseteq sess[d].mail
                    /\ run'[d].todo = run[d].todo
    BY <1>1, <1>2, NothingInHand
  <2> QED BY <1>0, <2>1, NobodyStaysForgotten
<1>12. HistoriesFit' /\ JobsAreRight'
  BY <1>0, <1>2, NothingInHand, HistoryStays
<1> QED BY <1>3, <1>4, <1>5, <1>6, <1>9, <1>10, <1>11, <1>12 DEF IInv

LEMMA AllRefusedKeeps ==
  ASSUME IInv, NEW c \in Caller, AllRefused(c)
  PROVE  IInv'
<1>0. TypeOK /\ AckedIsStored
  BY DEF IInv
<1>1. /\ sess[c].pc = "envelope"
      /\ mail' = [m \in Mail |-> IF m \in sess[c].mail
                                 THEN [mail[m] EXCEPT !.state = "refused"] ELSE mail[m]]
      /\ sess' = [sess EXCEPT ![c] = Reset(@)]
      /\ UNCHANGED <<run, copies, route, verified, jobs, count, hist>>
  BY DEF AllRefused
<1>2. run[c] = NoRun /\ ~sess[c].gone /\ hist[c].must = {}
  BY <1>1, InEnvelope
<1>3. sess[c] \in SessState /\ sess[c].mail \in SUBSET Mail /\ "refused" \in {"refused", "acked"}
  BY <1>0, Types DEF SessState
<1>4. /\ mail' \in [Mail -> MailState]
      /\ \A m \in Mail : /\ mail'[m].attempts = mail[m].attempts
                         /\ m \notin sess[c].mail => mail'[m] = mail[m]
                         /\ mail'[m].state \in {mail[m].state, "queued", "refused"}
  BY <1>0, <1>1, <1>3, MailsTold
<1>5. AckedIsStored'
  BY <1>0, <1>1, <1>4, AckedStays
<1>6. sess' = [sess EXCEPT ![c] = NoSession] /\ run' = [run EXCEPT ![c] = NoRun]
  BY <1>0, <1>1, <1>2, <1>3, NothingInHand, Types
<1>7. hist' \in [Caller -> HistState] /\ count' \in [faults : Nat, changes : Nat]
  BY <1>0, <1>1, Types DEF TypeOK
<1> QED BY <1>1, <1>2, <1>4, <1>5, <1>6, <1>7, PutDownKeeps

LEMMA ClientResetKeeps ==
  ASSUME IInv, NEW c \in Caller, ClientReset(c)
  PROVE  IInv'
<1>0. TypeOK /\ AckedIsStored
  BY DEF IInv
<1>1. /\ sess[c].pc = "envelope" /\ Fault
      /\ mail' = Requeued(sess[c].mail)
      /\ sess' = [sess EXCEPT ![c] = Reset(@)]
      /\ UNCHANGED <<run, copies, route, verified, jobs, hist>>
  BY DEF ClientReset
<1>2. run[c] = NoRun /\ ~sess[c].gone /\ hist[c].must = {}
  BY <1>1, InEnvelope
<1>3. sess[c] \in SessState /\ sess[c].mail \in SUBSET Mail /\ "refused" \in {"refused", "acked"}
  BY <1>0, Types DEF SessState
<1>4. /\ mail' \in [Mail -> MailState]
      /\ \A m \in Mail : /\ mail'[m].attempts = mail[m].attempts
                         /\ m \notin sess[c].mail => mail'[m] = mail[m]
                         /\ mail'[m].state \in {mail[m].state, "queued", "refused"}
  BY <1>0, <1>1, <1>3, MailsTold
<1>5. AckedIsStored'
  BY <1>0, <1>1, <1>4, AckedStays
<1>6. sess' = [sess EXCEPT ![c] = NoSession] /\ run' = [run EXCEPT ![c] = NoRun]
  BY <1>0, <1>1, <1>2, <1>3, NothingInHand, Types
<1>7. hist' \in [Caller -> HistState] /\ count' \in [faults : Nat, changes : Nat]
  BY <1>0, <1>1, Types, FaultCounts
<1> QED BY <1>1, <1>2, <1>4, <1>5, <1>6, <1>7, PutDownKeeps

(* The sender learns that its mail is taken only when nothing is left to do,
   and then everybody the envelope names has a copy. *)
LEMMA AnswerKeeps ==
  ASSUME IInv, NEW c \in Caller, Answer(c)
  PROVE  IInv'
<1>0. TypeOK /\ AckedIsStored /\ NobodyIsForgotten /\ RunsFit
  BY DEF IInv
<1>1. /\ run[c].pc \in {"ok", "error"}
      /\ mail' = IF sess[c].gone THEN mail
                 ELSE IF run[c].pc = "error" THEN Requeued(sess[c].mail)
                 ELSE [m \in Mail |-> IF m \in sess[c].mail
                                      THEN [mail[m] EXCEPT !.state = "acked"] ELSE mail[m]]
      /\ sess' = [sess EXCEPT ![c] = IF @.gone THEN NoSession ELSE Reset(@)]
      /\ run' = [run EXCEPT ![c] = NoRun]
      /\ hist' = [hist EXCEPT ![c] = NoHist]
      /\ UNCHANGED <<copies, route, verified, jobs, count>>
  BY DEF Answer
<1>2. sess[c] \in SessState /\ sess[c].mail \in SUBSET Mail /\ "acked" \in {"refused", "acked"}
  BY <1>0, Types DEF SessState
<1>3. /\ mail' \in [Mail -> MailState]
      /\ \A m \in Mail : /\ mail'[m].attempts = mail[m].attempts
                         /\ m \notin sess[c].mail => mail'[m] = mail[m]
                         /\ mail'[m].state \in {mail[m].state, "queued", "acked"}
                         /\ mail' = Requeued(sess[c].mail) => mail'[m].state \in {mail[m].state, "queued"}
  BY <1>0, <1>1, <1>2, MailsTold
<1>4. ASSUME NEW m \in Mail, mail'[m].state = "acked", mail[m].state # "acked",
             NEW i \in HandledInboxes, Naming(m, i) # {}
      PROVE  \E k \in copies : k.mail = m /\ k.inbox = i
  <2>1. run[c].pc = "ok" /\ m \in sess[c].mail
    BY <1>1, <1>3, <1>4
  <2>2. ~Names(run[c].todo, i)
    <3>1. run[c].todo = <<>>
      BY <1>0, <2>1 DEF RunsFit
    <3> QED BY <3>1 DEF Names
  <2> QED BY <1>0, <1>4, <2>1, <2>2 DEF NobodyIsForgotten
<1>5. AckedIsStored'
  BY <1>0, <1>1, <1>4 DEF AckedIsStored, Naming
<1>6. sess' = [sess EXCEPT ![c] = NoSession]
  BY <1>0, <1>1, <1>2, NothingInHand, Types
<1>7. /\ hist' \in [Caller -> HistState] /\ hist'[c].must = {}
      /\ \A d \in Caller : d # c => hist'[d] = hist[d]
  BY <1>0, <1>1, NothingInHand, Types
<1>8. \A m \in Mail : m \notin sess[c].mail \/ sess[c].gone => mail'[m] = mail[m]
  BY <1>1, <1>3
<1>9. count' \in [faults : Nat, changes : Nat]
  BY <1>0, <1>1 DEF TypeOK
<1> QED BY <1>1, <1>3, <1>5, <1>6, <1>7, <1>8, <1>9, PutDownKeeps
---------------------------------------------------------------------------
(* The environment *)

(* A client that hangs up while its body is handled leaves a call that goes on
   without it. *)
LEMMA HangUpBusyKeeps ==
  ASSUME IInv, NEW c \in Caller, HangUp(c), sess[c].pc = "busy"
  PROVE  IInv'
<1> DEFINE al == run[c].alive /\ c \notin Post
           mu == IF c \in Post THEN {} ELSE hist[c].must
           e == [run[c] EXCEPT !.alive = al]
           s == [sess[c] EXCEPT !.gone = TRUE]
<1>0. TypeOK /\ SessionsFit /\ RunsFit /\ AttemptsAreApart /\ CopiesAreDated
      /\ EnvelopesHavePlaces /\ CopiesHavePlaces /\ NobodyIsForgotten /\ AckedIsStored
      /\ HistoriesFit /\ JobsAreRight
  BY DEF IInv
<1>1. run[c] \in RunState /\ sess[c] \in SessState /\ hist[c] \in HistState
      /\ sess[c].mail \in SUBSET Mail /\ "refused" \in {"refused", "acked"}
      /\ ~sess[c].gone
  BY <1>0, Types DEF SessState, HangUp
<1>2. /\ mail' = Requeued(sess[c].mail)
      /\ sess' = [sess EXCEPT ![c] = s]
      /\ run' = [run EXCEPT ![c].alive = al]
      /\ hist' = [hist EXCEPT ![c].must = mu]
      /\ UNCHANGED <<copies, route, verified, jobs>>
  BY DEF HangUp
<1>3. mu \subseteq hist[c].must /\ al \in BOOLEAN
  BY <1>1
<1>4. s \in SessState /\ s.gone = TRUE /\ s.pc = "busy" /\ s.mail = sess[c].mail
  BY <1>1 DEF SessState
<1> HIDE DEF s
<1>5. e \in RunState /\ run' = [run EXCEPT ![c] = e]
  BY <1>1, <1>2, <1>3 DEF RunState
<1>6. e.pc = run[c].pc /\ e.todo = run[c].todo /\ e.try = run[c].try /\ e.copy = run[c].copy
      /\ e.dests = run[c].dests /\ e.dest = run[c].dest
  BY <1>1 DEF RunState
<1> HIDE DEF e, al
<1>7. /\ run' \in [Caller -> RunState] /\ run'[c] = e
      /\ \A d \in Caller : d # c => run'[d] = run[d]
  BY <1>0, <1>5, RunMoved
<1>8. /\ sess' \in [Caller -> SessState] /\ sess'[c] = s
      /\ \A d \in Caller : d # c => sess'[d] = sess[d]
  BY <1>0, <1>2, <1>4, SessMoved
<1>9. /\ hist' \in [Caller -> HistState]
      /\ hist'[c].must = mu /\ hist'[c].listed = hist[c].listed
      /\ hist'[c].verified = hist[c].verified
      /\ \A d \in Caller : d # c => hist'[d] = hist[d]
  <2>1. hist \in [Caller -> HistState]
    BY <1>0, Types
  <2>2. mu \subseteq Dest
    BY <1>1, <1>3 DEF HistState
  <2> HIDE DEF mu
  <2> QED BY <1>2, <2>1, <2>2 DEF HistState
<1> HIDE DEF mu
<1>10. /\ mail' \in [Mail -> MailState]
       /\ \A m \in Mail : /\ mail'[m].attempts = mail[m].attempts
                          /\ m \notin sess[c].mail => mail'[m] = mail[m]
                          /\ mail'[m].state \in {mail[m].state, "queued", "refused"}
  BY <1>0, <1>1, <1>2, MailsTold
<1>11. TypeOK'
  <2>1. count' \in [faults : Nat, changes : Nat]
    BY <1>0, FaultCounts DEF HangUp
  <2> QED BY <1>0, <1>2, <1>7, <1>8, <1>9, <1>10, <2>1 DEF TypeOK, MailState, HistState
<1>12. SessionsFit'
  BY <1>0, <1>4, <1>6, <1>7, <1>8 DEF SessionsFit
<1>13. RunsFit'
  <2>1. run[c].pc # "none"
    BY <1>0 DEF SessionsFit
  <2> QED BY <1>0, <1>2, <1>4, <1>6, <1>7, <1>8, <2>1 DEF RunsFit
<1>14. AttemptsAreApart'
  BY <1>0, <1>1, <1>2, <1>4, <1>6, <1>7, <1>8, <1>10, LetGo
<1>15. \A d \in Caller : GoesOn(d)
  BY <1>4, <1>6, <1>7, <1>8 DEF GoesOn, Shorter
<1>16. \A m \in Mail : mail'[m].attempts \in Nat /\ mail'[m].attempts >= mail[m].attempts
  BY <1>0, <1>10, Types DEF MailState
<1>17. CopiesAreDated' /\ CopiesHavePlaces'
  BY <1>0, <1>2, <1>10, <1>15, <1>16, DatesStay, PlacesStay
<1>18. EnvelopesHavePlaces'
  BY <1>0, <1>4, <1>8, EnvelopesStay
<1>19. NobodyIsForgotten'
  <2>1. ASSUME NEW d \in Caller
        PROVE  /\ sess'[d].pc = "envelope" => sess'[d] = sess[d]
               /\ run'[d].pc \notin {"none", "error"} =>
                    /\ run[d].pc \notin {"none", "error"}
                    /\ sess'[d].mail \subseteq sess[d].mail
                    /\ run'[d].todo = run[d].todo
    BY <1>4, <1>6, <1>7, <1>8
  <2> QED BY <1>0, <1>2, <2>1, NobodyStaysForgotten
<1>20. AckedIsStored'
  BY <1>0, <1>2, <1>10, AckedStays
<1>21. HistoriesFit' /\ JobsAreRight'
  <2>1. Queued(c)' = Queued(c)
    BY <1>2, <1>6, <1>7 DEF Queued
  <2>2. /\ run[c].dest \subseteq hist[c].listed \cap hist[c].verified
        /\ run[c].pc \in {"verify", "enqueue"} =>
             /\ run[c].dests \subseteq hist[c].listed
             /\ hist[c].must \subseteq Queued(c) \cup run[c].dests \cup run[c].dest
        /\ run[c].pc \in {"rcpt", "ok", "error"} => hist[c].must \subseteq Queued(c)
    BY <1>0 DEF HistoriesFit, JobsAreRight
  <2>3. /\ run'[c].dest \subseteq hist[c].listed \cap hist[c].verified
        /\ run'[c].pc \in {"verify", "enqueue"} =>
             /\ run'[c].dests \subseteq hist[c].listed
             /\ hist'[c].must \subseteq Queued(c)' \cup run'[c].dests \cup run'[c].dest
        /\ run'[c].pc \in {"rcpt", "ok", "error"} => hist'[c].must \subseteq Queued(c)'
    BY <1>3, <1>6, <1>7, <1>9, <2>1, <2>2
  <2> QED BY <1>2, <1>3, <1>6, <1>7, <1>9, <2>3, HistoryGoesOn
<1> QED BY <1>11, <1>12, <1>13, <1>14, <1>17, <1>18, <1>19, <1>20, <1>21 DEF IInv

LEMMA HangUpKeeps ==
  ASSUME IInv, NEW c \in Caller, HangUp(c)
  PROVE  IInv'
<1>0. TypeOK /\ SessionsFit /\ AckedIsStored
  BY DEF IInv
<1>1. sess[c] \in SessState /\ sess[c].mail \in SUBSET Mail /\ "refused" \in {"refused", "acked"}
      /\ sess[c].pc \in {"envelope", "busy"}
  BY <1>0, Types DEF SessState, HangUp
<1>2. CASE sess[c].pc = "busy"
  BY <1>2, HangUpBusyKeeps
<1>3. CASE sess[c].pc = "envelope"
  <2>1. /\ mail' = Requeued(sess[c].mail)
        /\ sess' = [sess EXCEPT ![c] = NoSession]
        /\ UNCHANGED <<copies, route, verified, jobs>>
        /\ count' \in [faults : Nat, changes : Nat]
    BY <1>0, <1>3, FaultCounts DEF HangUp
  <2>2. run[c] = NoRun /\ ~sess[c].gone /\ hist[c].must = {} /\ c \notin Post
    BY <1>0, <1>3, InEnvelope DEF SessionsFit
  <2>3. run' = [run EXCEPT ![c] = NoRun]
    <3> DEFINE al == run[c].alive /\ c \notin Post
               e == [run[c] EXCEPT !.alive = al]
    <3>1. run[c] \in RunState /\ run[c].alive = TRUE
      BY <2>2, NothingInHand DEF NoRun
    <3>2. al = TRUE
      BY <2>2, <3>1
    <3>3. run' = [run EXCEPT ![c].alive = al]
      BY DEF HangUp
    <3> HIDE DEF al
    <3>4. e = run[c]
      BY <3>1, <3>2 DEF RunState
    <3>5. run' = [run EXCEPT ![c] = e]
      BY <1>0, <3>3, Types
    <3> QED BY <2>2, <3>4, <3>5
  <2>4. /\ hist' \in [Caller -> HistState] /\ hist'[c].must = {}
        /\ \A d \in Caller : d # c => hist'[d] = hist[d]
    <3>1. hist' = [hist EXCEPT ![c].must = {}]
      BY <2>2 DEF HangUp
    <3> QED BY <1>0, <3>1, PromiseWithdrawn
  <2>5. /\ mail' \in [Mail -> MailState]
        /\ \A m \in Mail : /\ mail'[m].attempts = mail[m].attempts
                           /\ m \notin sess[c].mail => mail'[m] = mail[m]
                           /\ mail'[m].state \in {mail[m].state, "queued", "refused"}
    BY <1>0, <1>1, <2>1, MailsTold
  <2>6. AckedIsStored'
    BY <1>0, <2>1, <2>5, AckedStays
  <2> QED BY <2>1, <2>2, <2>3, <2>4, <2>5, <2>6, PutDownKeeps
<1> QED BY <1>1, <1>2, <1>3

(* A crash leaves the tables, and nothing else. *)
LEMMA CrashKeeps ==
  ASSUME IInv, Crash
  PROVE  IInv'
<1>0. TypeOK /\ CopiesAreDated /\ CopiesHavePlaces /\ AckedIsStored /\ HistoriesFit /\ JobsAreRight
  BY DEF IInv
<1>1. /\ mail' = Requeued(Mail)
      /\ UNCHANGED <<copies, route, verified, jobs>>
      /\ count' \in [faults : Nat, changes : Nat]
  BY <1>0, FaultCounts DEF Crash
<1>2. /\ sess' \in [Caller -> SessState] /\ run' \in [Caller -> RunState] /\ hist' \in [Caller -> HistState]
      /\ \A c \in Caller : sess'[c] = NoSession /\ run'[c] = NoRun /\ hist'[c] = NoHist
  BY NothingInHand DEF Crash
<1>3. /\ mail' \in [Mail -> MailState]
      /\ \A m \in Mail : /\ mail'[m].attempts = mail[m].attempts
                         /\ mail'[m].state \in {mail[m].state, "queued"}
  <2>1. Mail \in SUBSET Mail /\ "refused" \in {"refused", "acked"}
    OBVIOUS
  <2> QED BY <1>0, <1>1, <2>1, MailsTold
<1>4. TypeOK'
  BY <1>0, <1>1, <1>2, <1>3 DEF TypeOK, MailState, HistState
<1>5. SessionsFit' /\ RunsFit'
  BY <1>2, NothingInHand DEF SessionsFit, RunsFit
<1>6. AttemptsAreApart'
  BY <1>2, NothingInHand DEF AttemptsAreApart
<1>7. \A d \in Caller : GoesOn(d)
  BY <1>2, NothingInHand DEF GoesOn
<1>8. \A m \in Mail : mail'[m].attempts \in Nat /\ mail'[m].attempts >= mail[m].attempts
  BY <1>0, <1>3, Types DEF MailState
<1>9. CopiesAreDated' /\ CopiesHavePlaces'
  BY <1>0, <1>1, <1>3, <1>7, <1>8, DatesStay, PlacesStay
<1>10. EnvelopesHavePlaces' /\ NobodyIsForgotten'
  BY <1>2, NothingInHand DEF EnvelopesHavePlaces, NobodyIsForgotten
<1>11. AckedIsStored'
  BY <1>0, <1>1, <1>3, AckedStays
<1>12. HistoriesFit' /\ JobsAreRight'
  BY <1>0, <1>1, <1>2, NothingInHand, HistoryStays
<1> QED BY <1>4, <1>5, <1>6, <1>9, <1>10, <1>11, <1>12 DEF IInv

(* The history keeps up with the registry. *)
LEMMA RegistryKeeps ==
  ASSUME IInv, NEW r \in [HandledInboxes -> SUBSET Dest], NEW v \in SUBSET Dest,
         RegistryBecomes(r, v)
  PROVE  IInv'
<1> DEFINE Listed(c) == UNION {r[k.inbox] : k \in run[c].copy}
<1>0. TypeOK /\ SessionsFit /\ RunsFit /\ AttemptsAreApart /\ CopiesAreDated
      /\ EnvelopesHavePlaces /\ CopiesHavePlaces /\ NobodyIsForgotten /\ AckedIsStored
      /\ HistoriesFit /\ JobsAreRight
  BY DEF IInv
<1>1. /\ route' = r /\ verified' = v
      /\ hist' = [c \in Caller |->
           [must |-> hist[c].must \cap Listed(c) \cap v,
            listed |-> hist[c].listed \cup Listed(c), verified |-> hist[c].verified \cup v]]
      /\ UNCHANGED <<mail, sess, run, copies, jobs>>
      /\ count' \in [faults : Nat, changes : Nat]
  BY <1>0 DEF RegistryBecomes, TypeOK
<1>2. ASSUME NEW c \in Caller
      PROVE  /\ Listed(c) \subseteq Dest
             /\ \A k \in run[c].copy : Listed(c) = r[k.inbox]
             /\ run[c].copy = {} => Listed(c) = {}
  <2>1. ASSUME NEW k \in run[c].copy PROVE Listed(c) = r[k.inbox] /\ r[k.inbox] \subseteq Dest
    <3>1. run[c].copy = {k} /\ k.inbox \in HandledInboxes
      BY <1>0 DEF RunsFit, CopiesAreDated
    <3>2. {r[j.inbox] : j \in run[c].copy} = {r[k.inbox]}
      BY <3>1
    <3> QED BY <3>1, <3>2
  <2>2. CASE run[c].copy = {}
    BY <2>2
  <2> QED BY <2>1, <2>2
<1> HIDE DEF Listed
<1>3. \A c \in Caller : /\ hist'[c].must = hist[c].must \cap Listed(c) \cap v
                        /\ hist'[c].listed = hist[c].listed \cup Listed(c)
                        /\ hist'[c].verified = hist[c].verified \cup v
                        /\ Queued(c)' = Queued(c)
  BY <1>1 DEF Queued
<1>4. hist' \in [Caller -> HistState]
  <2>1. hist \in [Caller -> HistState]
    BY <1>0, Types
  <2> QED BY <1>1, <1>2, <2>1 DEF HistState
<1>5. TypeOK'
  BY <1>0, <1>1, <1>4 DEF TypeOK, HistState
<1>6. SessionsFit' /\ RunsFit' /\ AttemptsAreApart' /\ AckedIsStored'
  BY <1>0, <1>1 DEF SessionsFit, RunsFit, AttemptsAreApart, AckedIsStored, Naming
<1>7. \A d \in Caller : GoesOn(d)
  BY <1>1 DEF GoesOn, Shorter
<1>8. \A m \in Mail : mail'[m].attempts \in Nat /\ mail'[m].attempts >= mail[m].attempts
                      /\ mail'[m].attempts = mail[m].attempts
  BY <1>0, <1>1, Types DEF MailState
<1>9. CopiesAreDated' /\ CopiesHavePlaces'
  BY <1>0, <1>1, <1>7, <1>8, DatesStay, PlacesStay
<1>10. EnvelopesHavePlaces'
  BY <1>0, <1>1, EnvelopesStay
<1>11. NobodyIsForgotten'
  BY <1>0, <1>1, NobodyStaysForgotten
<1>12. HistoriesFit'
  <2>1. ASSUME NEW c \in Caller
        PROVE  /\ run[c].copy = {} => hist'[c].must = {}
               /\ \A k \in run[c].copy : /\ r[k.inbox] \subseteq hist'[c].listed
                                         /\ v \subseteq hist'[c].verified
                                         /\ hist'[c].must \subseteq r[k.inbox] \cap v
    BY <1>2, <1>3
  <2>2. ASSUME NEW c \in Caller
        PROVE  /\ run[c].dest \subseteq hist'[c].listed \cap hist'[c].verified
               /\ run[c].pc \in {"verify", "enqueue"} =>
                    /\ run[c].dests \subseteq hist'[c].listed
                    /\ hist'[c].must \subseteq Queued(c)' \cup run[c].dests \cup run[c].dest
    <3>1. /\ run[c].dest \subseteq hist[c].listed \cap hist[c].verified
          /\ run[c].pc \in {"verify", "enqueue"} =>
               /\ run[c].dests \subseteq hist[c].listed
               /\ hist[c].must \subseteq Queued(c) \cup run[c].dests \cup run[c].dest
      BY <1>0 DEF HistoriesFit
    <3> QED BY <1>3, <3>1
  <2>3. \A x \in jobs : x.copy \in copies
    BY <1>0 DEF HistoriesFit
  <2> QED BY <1>1, <2>1, <2>2, <2>3 DEF HistoriesFit
<1>13. JobsAreRight'
  <2>1. ASSUME NEW c \in Caller
        PROVE  /\ Queued(c)' \subseteq hist'[c].listed \cap hist'[c].verified
               /\ run[c].pc \in {"rcpt", "ok", "error"} => hist'[c].must \subseteq Queued(c)'
    <3>1. /\ Queued(c) \subseteq hist[c].listed \cap hist[c].verified
          /\ run[c].pc \in {"rcpt", "ok", "error"} => hist[c].must \subseteq Queued(c)
      BY <1>0 DEF JobsAreRight
    <3> QED BY <1>3, <3>1
  <2> QED BY <1>1, <2>1 DEF JobsAreRight
<1> QED BY <1>5, <1>6, <1>9, <1>10, <1>11, <1>12, <1>13 DEF IInv
---------------------------------------------------------------------------
(* Transactions that are begun, collected and handed to Accept *)

(* Before RCPT TO, nothing is recorded and all is left. *)
LEMMA EnvelopeBegins ==
  ASSUME NEW m \in Mail, NEW s, s.toName = RcptsOf[m], s.rcpts = <<>>
  PROVE  EnvelopeHasPlaces(m, s)
<1> DEFINE L == Len(RcptsOf[m])
           p == [j \in 1 .. 0 |-> 1]
<1>1. L \in Nat /\ Len(s.rcpts) = 0
  BY RcptAssumption, LenProperties, EmptySeq
<1>2. p \in PlacesOf(m, 0)
  BY <1>1 DEF PlacesOf
<1> HIDE DEF p
<1>3. \A j \in 1 .. L : s.toName[j] = RcptsOf[m][(L - L) + j]
  BY <1>1
<1>4. 0 <= L - L
  BY <1>1
<1>5. \E q \in PlacesOf(m, 0) : \A j \in 1 .. 0 : q[j] <= L - L /\ s.rcpts[j] = RcptsOf[m][q[j]]
  BY <1>2
<1> QED BY <1>1, <1>3, <1>4, <1>5 DEF EnvelopeHasPlaces

LEMMA OneLess ==
  ASSUME NEW L \in Nat, NEW left \in Nat \ {0}, NEW n \in Nat, n <= L - left
  PROVE  /\ L - (left - 1) = (L - left) + 1
         /\ L - left \in Nat /\ (L - left) + 1 \in 1 .. L
OBVIOUS

(* RCPT TO takes the next address from what is left, and records it, if it
   does, at its own place. *)
LEMMA EnvelopeGoesOn ==
  ASSUME NEW m \in Mail, NEW s \in SessState, s.toName # <<>>, EnvelopeHasPlaces(m, s),
         NEW e \in SessState, e.toName = Tail(s.toName),
         e.rcpts = s.rcpts \/ e.rcpts = Append(s.rcpts, Head(s.toName))
  PROVE  EnvelopeHasPlaces(m, e)
<1> DEFINE L == Len(RcptsOf[m])
           left == Len(s.toName)
           done == L - left
           n == Len(s.rcpts)
<1>1. /\ s.toName \in Seq(Addr) /\ s.rcpts \in Seq(Addr)
      /\ Head(s.toName) = s.toName[1] /\ Head(s.toName) \in Addr
      /\ \A j \in 1 .. left - 1 : e.toName[j] = s.toName[j + 1]
  BY TailOf DEF SessState
<1>2. /\ n <= done
      /\ \A j \in 1 .. left : s.toName[j] = RcptsOf[m][done + j]
      /\ \E p \in PlacesOf(m, n) : \A j \in 1 .. n :
           p[j] <= done /\ s.rcpts[j] = RcptsOf[m][p[j]]
  BY DEF EnvelopeHasPlaces
<1>3. PICK p \in PlacesOf(m, n) : \A j \in 1 .. n : p[j] <= done /\ s.rcpts[j] = RcptsOf[m][p[j]]
  BY <1>2
<1>4. L \in Nat /\ n \in Nat /\ left \in Nat \ {0} /\ Len(e.toName) = left - 1
  BY <1>1, RcptAssumption, LenProperties, TailOf
<1>5. L - Len(e.toName) = done + 1 /\ done \in Nat /\ done + 1 \in 1 .. L /\ n <= done
  BY <1>2, <1>4, OneLess
<1>6. p \in [1 .. n -> 1 .. L] /\ \A j, k \in 1 .. n : p[j] = p[k] => j = k
  BY <1>3 DEF PlacesOf
<1> HIDE DEF done, L, n, left
<1>7. ASSUME NEW j \in 1 .. Len(e.toName) PROVE e.toName[j] = RcptsOf[m][(done + 1) + j]
  <2> DEFINE k == j + 1
  <2>1. k \in 1 .. left /\ done + k = (done + 1) + j /\ j \in 1 .. left - 1
    BY <1>4, <1>5
  <2> QED BY <1>1, <1>2, <2>1
<1>8. s.toName[1] = RcptsOf[m][done + 1]
  BY <1>2, <1>4
<1>9. Len(e.rcpts) <= done + 1
      /\ \E q \in PlacesOf(m, Len(e.rcpts)) : \A j \in 1 .. Len(e.rcpts) :
           q[j] <= done + 1 /\ e.rcpts[j] = RcptsOf[m][q[j]]
  <2>1. CASE e.rcpts = s.rcpts
    <3>1. ASSUME NEW j \in 1 .. n PROVE p[j] <= done + 1
      <4>1. p[j] \in Nat /\ p[j] <= done
        BY <1>3, <1>4, <1>6
      <4> QED BY <1>5, <4>1
    <3>2. n <= done + 1
      BY <1>4, <1>5
    <3> QED BY <1>3, <2>1, <3>1, <3>2 DEF n
  <2>2. CASE e.rcpts = Append(s.rcpts, Head(s.toName))
    <3> DEFINE q == [j \in 1 .. n + 1 |-> IF j = n + 1 THEN done + 1 ELSE p[j]]
    <3>1. /\ Len(e.rcpts) = n + 1
          /\ \A j \in 1 .. n : e.rcpts[j] = s.rcpts[j]
          /\ e.rcpts[n + 1] = s.toName[1]
      BY <1>1, <2>2, AppendProperties DEF n
    <3>2. q \in [1 .. n + 1 -> 1 .. L]
      <4>1. \A j \in 1 .. n : p[j] \in 1 .. L
        BY <1>6
      <4>2. done + 1 \in 1 .. L
        BY <1>4, <1>5
      <4>3. \A j \in 1 .. n + 1 : j = n + 1 \/ j \in 1 .. n
        BY <1>4
      <4> QED BY <4>1, <4>2, <4>3
    <3>3. \A j \in 1 .. n : q[j] = p[j] /\ q[j] <= done
      BY <1>3, <1>4
    <3>4. q[n + 1] = done + 1
      BY <1>4
    <3> HIDE DEF q
    <3>5. \A j \in 1 .. n + 1 : j = n + 1 \/ j \in 1 .. n
      BY <1>4
    <3>6. \A j, k \in 1 .. n + 1 : q[j] = q[k] => j = k
      <4> SUFFICES ASSUME NEW j \in 1 .. n + 1, NEW k \in 1 .. n + 1, q[j] = q[k] PROVE j = k
        OBVIOUS
      <4>1. CASE j = n + 1 /\ k \in 1 .. n
        BY <1>5, <3>2, <3>3, <3>4, <4>1
      <4>2. CASE k = n + 1 /\ j \in 1 .. n
        BY <1>5, <3>2, <3>3, <3>4, <4>2
      <4>3. CASE j \in 1 .. n /\ k \in 1 .. n
        BY <1>6, <3>3, <4>3
      <4> QED BY <3>5, <4>1, <4>2, <4>3
    <3>7. q \in PlacesOf(m, n + 1)
      BY <3>2, <3>6 DEF PlacesOf, L
    <3>8. \A j \in 1 .. n + 1 : q[j] <= done + 1 /\ e.rcpts[j] = RcptsOf[m][q[j]]
      <4> SUFFICES ASSUME NEW j \in 1 .. n + 1
                   PROVE  q[j] <= done + 1 /\ e.rcpts[j] = RcptsOf[m][q[j]]
        OBVIOUS
      <4>1. CASE j = n + 1
        BY <1>5, <1>8, <3>1, <3>4, <4>1
      <4>2. CASE j \in 1 .. n
        <5>1. q[j] \in Nat /\ q[j] <= done
          BY <1>3, <1>4, <1>6, <3>3, <4>2
        <5>2. q[j] <= done + 1
          BY <1>5, <5>1
        <5> QED BY <1>3, <3>1, <3>3, <4>2, <5>2
      <4> QED BY <3>5, <4>1, <4>2
    <3>9. n + 1 <= done + 1
      BY <1>4, <1>5
    <3> QED BY <3>1, <3>7, <3>8, <3>9
  <2> QED BY <2>1, <2>2
<1> QED BY <1>5, <1>7, <1>9 DEF EnvelopeHasPlaces, L

(* Attempt t of mail m begins, or its recipients are handed to Accept: nobody
   else is at it, and nothing of it is stored. *)
LEMMA PlacesOfFresh ==
  ASSUME TypeOK, CopiesHavePlaces, copies' = copies,
         NEW c \in Caller, NEW m \in Mail, NEW r \in 0 .. Len(RcptsOf[m]), NEW p \in PlacesOf(m, r),
         NEW t \in Nat \ {0},
         mail'[m].attempts = t, mail[m].attempts \in {t - 1, t},
         \A n \in Mail : n # m => mail'[n].attempts = mail[n].attempts,
         \A k \in copies : k.mail = m => k.try # t,
         \A d \in Caller : d # c => /\ sess'[d].mail = sess[d].mail /\ run'[d] = run[d]
                                    /\ m \in sess[d].mail => run[d].try # t,
         sess'[c].mail \subseteq {m}, run'[c].try \in {0, t},
         run'[c].try = t => StandAt(m, r, p, run'[c].todo)
  PROVE  CopiesHavePlaces'
<1> SUFFICES ASSUME NEW n \in Mail, NEW u \in 1 .. mail'[n].attempts
             PROVE  \E x \in 0 .. Len(RcptsOf[n]) : \E q \in PlacesOf(n, x) : HasPlaces(n, u, x, q)'
  BY DEF CopiesHavePlaces, PlacesOf
<1>1. CASE n = m /\ u = t
  <2>1. HasPlaces(m, t, r, p)'
    BY DEF HasPlaces
  <2> QED BY <1>1, <2>1
<1>2. CASE n # m \/ u # t
  <2>1. u \in 1 .. mail[n].attempts /\ u # 0
    <3>1. mail[n].attempts \in Nat
      BY Types DEF MailState
    <3> QED BY <1>2, <3>1
  <2>2. PICK x \in 0 .. Len(RcptsOf[n]) : \E q \in PlacesOf(n, x) : HasPlaces(n, u, x, q)
    BY <2>1 DEF CopiesHavePlaces
  <2>3. PICK q \in PlacesOf(n, x) : HasPlaces(n, u, x, q)
    BY <2>2
  <2>4. ~(n \in sess'[c].mail /\ run'[c].try = u)
    BY <1>2, <2>1
  <2>5. \A d \in Caller : n \in sess'[d].mail /\ run'[d].try = u => StandAt(n, x, q, run'[d].todo)
    BY <2>3, <2>4 DEF HasPlaces
  <2>6. HasPlaces(n, u, x, q)'
    BY <2>3, <2>5 DEF HasPlaces
  <2> QED BY <2>6
<1> QED BY <1>1, <1>2

(* Nobody is forgotten by c, and the others do not move. *)
LEMMA NobodyForgottenBy ==
  ASSUME NobodyIsForgotten, NEW c \in Caller, copies \subseteq copies',
         \A d \in Caller : d # c => sess'[d] = sess[d] /\ run'[d] = run[d],
         \A m \in sess'[c].mail : \A i \in HandledInboxes : Naming(m, i) # {} =>
           /\ sess'[c].pc = "envelope" => Names(sess'[c].toName, i) \/ Names(sess'[c].rcpts, i)
           /\ run'[c].pc \notin {"none", "error"} =>
                Names(run'[c].todo, i) \/ \E k \in copies' : k.mail = m /\ k.inbox = i
  PROVE  NobodyIsForgotten'
<1> SUFFICES ASSUME NEW d \in Caller, NEW m \in sess'[d].mail, NEW i \in HandledInboxes,
                    Naming(m, i) # {}
             PROVE  /\ sess'[d].pc = "envelope" => Names(sess'[d].toName, i) \/ Names(sess'[d].rcpts, i)
                    /\ run'[d].pc \notin {"none", "error"} =>
                         Names(run'[d].todo, i) \/ \E k \in copies' : k.mail = m /\ k.inbox = i
  BY DEF NobodyIsForgotten, Naming, Names
<1>1. CASE d = c
  BY <1>1
<1>2. CASE d # c
  <2>1. /\ sess[d].pc = "envelope" => Names(sess[d].toName, i) \/ Names(sess[d].rcpts, i)
        /\ run[d].pc \notin {"none", "error"} =>
             Names(run[d].todo, i) \/ \E k \in copies : k.mail = m /\ k.inbox = i
    BY <1>2 DEF NobodyIsForgotten
  <2> QED BY <1>2, <2>1
<1> QED BY <1>1, <1>2

LEMMA NamingNames ==
  ASSUME NEW m \in Mail, NEW i, Naming(m, i) # {}
  PROVE  Names(RcptsOf[m], i)
BY RcptAssumption, LenProperties DEF Naming, Names

LEMMA RcptKeeps ==
  ASSUME IInv, NEW c \in Caller, Rcpt(c)
  PROVE  IInv'
<1> DEFINE addr == Head(sess[c].toName)
           rc == IF InScope(addr) THEN Append(sess[c].rcpts, addr) ELSE sess[c].rcpts
           e == [sess[c] EXCEPT !.toName = Tail(@), !.rcpts = rc]
<1>0. TypeOK /\ SessionsFit /\ RunsFit /\ AttemptsAreApart /\ CopiesAreDated
      /\ EnvelopesHavePlaces /\ CopiesHavePlaces /\ NobodyIsForgotten /\ AckedIsStored
      /\ HistoriesFit /\ JobsAreRight
  BY DEF IInv
<1>1. /\ sess[c].pc = "envelope" /\ sess[c].toName # <<>>
      /\ sess' = [sess EXCEPT ![c].toName = Tail(@), ![c].rcpts = rc]
      /\ UNCHANGED <<mail, run, copies, route, verified, jobs, count, hist>>
  <2>1. sess' = [sess EXCEPT ![c].toName = Tail(@),
                             ![c].rcpts = IF InScope(addr) THEN Append(@, addr) ELSE @]
    BY DEF Rcpt
  <2>2. sess' = [sess EXCEPT ![c].toName = Tail(@), ![c].rcpts = rc]
    BY <1>0, <2>1, Types DEF SessState
  <2> QED BY <2>2 DEF Rcpt
<1>2. sess[c] \in SessState /\ sess[c].toName \in Seq(Addr) /\ sess[c].rcpts \in Seq(Addr)
  BY <1>0, Types DEF SessState
<1>3. /\ Tail(sess[c].toName) \in Seq(Addr) /\ addr \in Addr
      /\ rc \in Seq(Addr) /\ (rc = sess[c].rcpts \/ rc = Append(sess[c].rcpts, addr))
      /\ InScope(addr) => rc = Append(sess[c].rcpts, addr)
  BY <1>1, <1>2, TailOf, AppendProperties
<1> HIDE DEF rc
<1>4. e \in SessState
  BY <1>2, <1>3 DEF SessState
<1>5. e.pc = "envelope" /\ e.mail = sess[c].mail /\ e.gone = sess[c].gone
      /\ e.toName = Tail(sess[c].toName) /\ e.rcpts = rc
  BY <1>1, <1>2 DEF SessState
<1>6. sess' = [sess EXCEPT ![c] = e]
  BY <1>0, <1>1, <1>2, Types DEF SessState
<1> HIDE DEF e
<1>7. /\ sess' \in [Caller -> SessState] /\ sess'[c] = e
      /\ \A d \in Caller : d # c => sess'[d] = sess[d]
  BY <1>0, <1>4, <1>6, SessMoved
<1>8. TypeOK'
  BY <1>0, <1>1, <1>7 DEF TypeOK
<1>9. \A d \in Caller : sess'[d].mail = sess[d].mail /\ sess'[d].gone = sess[d].gone
                        /\ sess'[d].pc = sess[d].pc
  BY <1>1, <1>5, <1>7
<1>10. SessionsFit' /\ RunsFit' /\ AttemptsAreApart'
  <2>1. SessionsFit'
    BY <1>0, <1>1, <1>5, <1>7 DEF SessionsFit
  <2>2. RunsFit'
    BY <1>0, <1>1, <1>9 DEF RunsFit
  <2>3. AttemptsAreApart'
    <3>1. ASSUME NEW d \in Caller, NEW m \in sess'[d].mail
          PROVE  /\ run[d].try <= mail[m].attempts
                 /\ ~sess'[d].gone =>
                      /\ mail[m].state = "trying" /\ mail[m].attempts # 0
                      /\ run[d].try \in {0, mail[m].attempts}
                      /\ run[d].pc = "none" => \A k \in copies : k.mail = m => k.try < mail[m].attempts
      BY <1>0, <1>9 DEF AttemptsAreApart
    <3>2. ASSUME NEW x \in Caller, NEW y \in Caller, NEW m \in sess'[x].mail \cap sess'[y].mail, x # y
          PROVE  /\ ~sess'[x].gone => sess'[y].gone /\ run[y].try < mail[m].attempts
                 /\ run[x].try # run[y].try \/ run[x].try = 0
      BY <1>0, <1>9, <3>2 DEF AttemptsAreApart
    <3> QED BY <1>1, <3>1, <3>2 DEF AttemptsAreApart
  <2> QED BY <2>1, <2>2, <2>3
<1>11. \A d \in Caller : GoesOn(d)
  BY <1>1, <1>9 DEF GoesOn, Shorter
<1>12. \A m \in Mail : mail'[m].attempts \in Nat /\ mail'[m].attempts >= mail[m].attempts
                       /\ mail'[m].attempts = mail[m].attempts
  BY <1>0, <1>1, Types DEF MailState
<1>13. CopiesAreDated' /\ CopiesHavePlaces'
  BY <1>0, <1>1, <1>11, <1>12, DatesStay, PlacesStay
<1>14. EnvelopesHavePlaces'
  <2>1. ASSUME NEW m \in sess[c].mail PROVE EnvelopeHasPlaces(m, e)
    <3>1. m \in Mail
      BY <1>2 DEF SessState
    <3>2. EnvelopeHasPlaces(m, sess[c])
      BY <1>0, <1>1 DEF EnvelopesHavePlaces
    <3> QED BY <1>1, <1>2, <1>3, <1>4, <1>5, <3>1, <3>2, EnvelopeGoesOn
  <2> SUFFICES ASSUME NEW d \in Caller, sess'[d].pc = "envelope", NEW m \in sess'[d].mail
               PROVE  EnvelopeHasPlaces(m, sess'[d])
    BY DEF EnvelopesHavePlaces
  <2>2. CASE d = c
    BY <1>5, <1>7, <2>1, <2>2
  <2>3. CASE d # c
    BY <1>0, <1>7, <2>3 DEF EnvelopesHavePlaces
  <2> QED BY <2>2, <2>3
<1>15. NobodyIsForgotten'
  <2>1. ASSUME NEW m \in sess'[c].mail, NEW i \in HandledInboxes, Naming(m, i) # {}
        PROVE  Names(e.toName, i) \/ Names(e.rcpts, i)
    <3>1. Names(sess[c].toName, i) \/ Names(sess[c].rcpts, i)
      BY <1>0, <1>1, <1>9, <2>1 DEF NobodyIsForgotten
    <3>2. ASSUME Names(sess[c].rcpts, i) PROVE Names(e.rcpts, i)
      <4>1. PICK j \in 1 .. Len(sess[c].rcpts) : Norm[sess[c].rcpts[j]] = i
        BY <1>2, <3>2, LenProperties DEF Names
      <4>2. j \in DOMAIN e.rcpts /\ e.rcpts[j] = sess[c].rcpts[j]
        <5>1. CASE rc = sess[c].rcpts
          BY <1>2, <1>5, <5>1, LenProperties
        <5>2. CASE rc = Append(sess[c].rcpts, addr)
          <6>1. Len(e.rcpts) = Len(sess[c].rcpts) + 1 /\ e.rcpts[j] = sess[c].rcpts[j]
                /\ DOMAIN e.rcpts = 1 .. Len(e.rcpts) /\ Len(sess[c].rcpts) \in Nat
            BY <1>2, <1>3, <1>5, <5>2, AppendProperties, LenProperties
          <6> QED BY <6>1
        <5> QED BY <1>3, <5>1, <5>2
      <4> QED BY <4>1, <4>2 DEF Names
    <3>3. ASSUME Norm[addr] = i PROVE Names(e.rcpts, i)
      <4>1. rc = Append(sess[c].rcpts, addr)
        BY <1>3, <3>3 DEF InScope
      <4> DEFINE n == Len(sess[c].rcpts) + 1
      <4>2. n \in DOMAIN e.rcpts /\ e.rcpts[n] = addr
        BY <1>2, <1>3, <1>5, <4>1, AppendProperties, LenProperties
      <4> QED BY <3>3, <4>2 DEF Names
    <3>4. Names(sess[c].toName, i) => Norm[addr] = i \/ Names(e.toName, i)
      BY <1>1, <1>2, <1>5, NamesOf
    <3> QED BY <3>1, <3>2, <3>3, <3>4
  <2>2. run'[c].pc = "none"
    BY <1>1, InEnvelope, NothingInHand
  <2> QED BY <1>0, <1>1, <1>5, <1>7, <2>1, <2>2, NobodyForgottenBy
<1>16. AckedIsStored'
  BY <1>0, <1>1, AckedStays
<1>17. HistoriesFit' /\ JobsAreRight'
  BY <1>0, <1>1, HistoryStays
<1> QED BY <1>8, <1>10, <1>13, <1>14, <1>15, <1>16, <1>17 DEF IInv
(* A sender tries again only when no client of it is connected any more. *)
LEMMA Attempted ==
  ASSUME IInv, NEW m \in Mail, Attempt(m)
  PROVE  /\ mail' \in [Mail -> MailState]
         /\ mail'[m].attempts = mail[m].attempts + 1 /\ mail'[m].state = "trying"
         /\ mail[m].attempts \in Nat
         /\ \A n \in Mail : n # m => mail'[n] = mail[n]
         /\ \A d \in Caller : m \in sess[d].mail => sess[d].gone
<1>1. mail \in [Mail -> MailState]
  BY Types DEF IInv
<1>2. mail[m].attempts \in Nat
  BY <1>1 DEF MailState
<1>3. [state |-> "trying", attempts |-> mail[m].attempts + 1] \in MailState
  BY <1>2 DEF MailState
<1>4. mail' = [mail EXCEPT ![m] = [state |-> "trying", attempts |-> mail[m].attempts + 1]]
  BY DEF Attempt
<1>5. \A d \in Caller : m \in sess[d].mail => sess[d].gone
  <2>1. mail[m].state # "trying"
    BY DEF Attempt
  <2> QED BY <2>1 DEF IInv, AttemptsAreApart
<1> QED BY <1>1, <1>2, <1>3, <1>4, <1>5

(* Every place of the envelope, in order. *)
LEMMA AllPlaces ==
  ASSUME NEW m \in Mail
  PROVE  \E p \in PlacesOf(m, Len(RcptsOf[m])) : StandAt(m, Len(RcptsOf[m]), p, RcptsOf[m])
<1> DEFINE L == Len(RcptsOf[m])
           p == [j \in 1 .. L |-> j]
<1>1. L \in Nat
  BY RcptAssumption, LenProperties
<1>2. p \in PlacesOf(m, L)
  BY DEF PlacesOf
<1>3. ASSUME NEW j \in 1 .. L PROVE p[L - L + j] = j
  BY <1>1
<1> HIDE DEF p
<1>4. L <= L
  BY <1>1
<1>5. StandAt(m, L, p, RcptsOf[m])
  BY <1>3, <1>4 DEF StandAt
<1> QED BY <1>2, <1>5

(* A new attempt is at a number that no copy and no other call has. *)
LEMMA AttemptBegins ==
  ASSUME IInv, NEW c \in Caller, NEW m \in Mail, Attempt(m), sess[c].pc = "ready",
         NEW e \in SessState, NEW f \in RunState,
         sess' = [sess EXCEPT ![c] = e], run' = [run EXCEPT ![c] = f],
         UNCHANGED <<copies, route, verified, jobs, count, hist>>,
         e.mail = {m}, e.gone = FALSE, f.copy = {}, f.dest = {},
         \/ /\ e.pc = "envelope" /\ e.toName = RcptsOf[m] /\ e.rcpts = <<>> /\ c \notin Post
            /\ f = NoRun
         \/ /\ e.pc = "busy"
            /\ f.pc = "rcpt" /\ f.todo = RcptsOf[m] /\ f.try = mail[m].attempts + 1
  PROVE  IInv'
<1> DEFINE t == mail[m].attempts + 1
<1>0. TypeOK /\ SessionsFit /\ RunsFit /\ AttemptsAreApart /\ CopiesAreDated
      /\ EnvelopesHavePlaces /\ CopiesHavePlaces /\ NobodyIsForgotten /\ AckedIsStored
      /\ HistoriesFit /\ JobsAreRight
  BY DEF IInv
<1>1. /\ mail' \in [Mail -> MailState]
      /\ mail'[m].attempts = t /\ mail'[m].state = "trying"
      /\ mail[m].attempts \in Nat
      /\ \A n \in Mail : n # m => mail'[n] = mail[n]
      /\ \A d \in Caller : m \in sess[d].mail => sess[d].gone
  BY Attempted
<1>2. /\ sess' \in [Caller -> SessState] /\ sess'[c] = e
      /\ \A d \in Caller : d # c => sess'[d] = sess[d]
  BY <1>0, SessMoved
<1>3. /\ run' \in [Caller -> RunState] /\ run'[c] = f
      /\ \A d \in Caller : d # c => run'[d] = run[d]
  BY <1>0, RunMoved
<1>4. run[c] = NoRun /\ hist[c].must = {}
  BY InEnvelope
<1>5. f.try \in {0, t} /\ t \in Nat \ {0} /\ mail[m].attempts \in {t - 1, t}
  BY <1>1, NothingInHand
<1>6. \A k \in copies : k.mail = m => k.try # t
  BY <1>0, <1>1 DEF CopiesAreDated
<1>7. \A d \in Caller : m \in sess[d].mail => run[d].try <= mail[m].attempts /\ run[d].try \in Nat
  BY <1>0, Types DEF AttemptsAreApart, RunState
<1>8. TypeOK'
  BY <1>0, <1>1, <1>2, <1>3 DEF TypeOK, MailState
<1>9. SessionsFit'
  BY <1>0, <1>2, <1>3, NothingInHand DEF SessionsFit
<1>10. RunsFit'
  <2>1. ASSUME NEW d \in Caller, d # c
        PROVE  sess'[d] = sess[d] /\ run'[d] = run[d]
    BY <1>2, <1>3, <2>1
  <2>2. \/ f = NoRun
        \/ f.pc = "rcpt" /\ f.try # 0
    BY <1>5
  <2> QED BY <1>0, <1>3, <2>1, <2>2, NothingInHand DEF RunsFit
<1>11. AttemptsAreApart'
  <2>1. ASSUME NEW d \in Caller, NEW n \in sess'[d].mail
        PROVE  /\ run'[d].try <= mail'[n].attempts
               /\ ~sess'[d].gone =>
                    /\ mail'[n].state = "trying" /\ mail'[n].attempts # 0
                    /\ run'[d].try \in {0, mail'[n].attempts}
                    /\ run'[d].pc = "none" => \A k \in copies : k.mail = n => k.try < mail'[n].attempts
    <3>1. CASE d = c
      <4>1. n = m
        BY <1>2, <3>1
      <4>2. \A k \in copies : k.mail = m => k.try < t
        BY <1>0, <1>1 DEF CopiesAreDated
      <4> QED BY <1>1, <1>3, <1>5, <3>1, <4>1, <4>2
    <3>2. CASE d # c /\ n = m
      BY <1>1, <1>2, <1>3, <1>7, <3>2
    <3>3. CASE d # c /\ n # m
      <4>1. n \in Mail
        BY <1>2 DEF SessState
      <4> QED BY <1>0, <1>1, <1>2, <1>3, <3>3, <4>1 DEF AttemptsAreApart
    <3> QED BY <3>1, <3>2, <3>3
  <2>2. ASSUME NEW x \in Caller, NEW y \in Caller, NEW n \in sess'[x].mail \cap sess'[y].mail, x # y
        PROVE  /\ ~sess'[x].gone => sess'[y].gone /\ run'[y].try < mail'[n].attempts
               /\ run'[x].try # run'[y].try \/ run'[x].try = 0
    <3>0. n \in Mail
      BY <1>2 DEF SessState
    <3>1. CASE x = c
      <4>1. n = m /\ y # c
        BY <1>2, <2>2, <3>1
      <4>2. sess'[y].gone /\ run'[y].try < t /\ run'[y].try # t
        BY <1>1, <1>2, <1>3, <1>7, <2>2, <4>1
      <4> QED BY <1>1, <1>3, <1>5, <3>1, <4>1, <4>2
    <3>2. CASE y = c
      <4>1. n = m /\ x # c
        BY <1>2, <2>2, <3>2
      <4>2. sess'[x].gone /\ run'[x].try < t /\ run'[x].try # t
        BY <1>1, <1>2, <1>3, <1>7, <2>2, <4>1
      <4> QED BY <1>3, <1>5, <3>2, <4>2
    <3>3. CASE x # c /\ y # c
      <4>1. /\ ~sess[x].gone => sess[y].gone /\ run[y].try < mail[n].attempts
            /\ run[x].try # run[y].try \/ run[x].try = 0
        BY <1>0, <1>2, <2>2, <3>3 DEF AttemptsAreApart
      <4>2. ~sess[x].gone => n # m
        BY <1>1, <1>2, <3>3
      <4> QED BY <1>1, <1>2, <1>3, <3>0, <3>3, <4>1, <4>2
    <3> QED BY <3>1, <3>2, <3>3
  <2> QED BY <2>1, <2>2 DEF AttemptsAreApart
<1>12. CopiesAreDated'
  <2>1. \A n \in Mail : mail'[n].attempts \in Nat /\ mail'[n].attempts >= mail[n].attempts
    <3>1. mail \in [Mail -> MailState]
      BY <1>0, Types
    <3> QED BY <1>1, <3>1 DEF MailState
  <2>2. ASSUME NEW d \in Caller
        PROVE  GoesOn(d) \/ \A k \in copies : k.mail \in sess'[d].mail => k.try # run'[d].try
    <3>1. CASE d = c
      BY <1>2, <1>3, <1>5, <1>6, <3>1 DEF GoesOn
    <3>2. CASE d # c
      BY <1>2, <1>3, <3>2 DEF GoesOn, Shorter
    <3> QED BY <3>1, <3>2
  <2> QED BY <1>0, <2>1, <2>2, DatesStay
<1>13. CopiesHavePlaces'
  <2> DEFINE L == Len(RcptsOf[m])
  <2>1. L \in Nat
    BY RcptAssumption, LenProperties
  <2>2. PICK p \in PlacesOf(m, L) : StandAt(m, L, p, RcptsOf[m])
    BY AllPlaces
  <2>3. f.try = t => StandAt(m, L, p, f.todo)
    BY <1>5, <2>2, NothingInHand
  <2>4. L \in 0 .. Len(RcptsOf[m])
    BY <2>1
  <2> HIDE DEF L
  <2>5. \A d \in Caller : d # c => /\ sess'[d].mail = sess[d].mail /\ run'[d] = run[d]
                                   /\ m \in sess[d].mail => run[d].try # t
    BY <1>1, <1>2, <1>3, <1>7
  <2>6. PICK u : u = t
    OBVIOUS
  <2>7. /\ u \in Nat \ {0} /\ mail'[m].attempts = u /\ mail[m].attempts \in {u - 1, u}
        /\ \A n \in Mail : n # m => mail'[n].attempts = mail[n].attempts
        /\ \A k \in copies : k.mail = m => k.try # u
        /\ sess'[c].mail \subseteq {m} /\ run'[c].try \in {0, u}
        /\ run'[c].try = u => StandAt(m, L, p, run'[c].todo)
    BY <1>1, <1>2, <1>3, <1>5, <1>6, <2>3, <2>6
  <2>8. \A d \in Caller : d # c => /\ sess'[d].mail = sess[d].mail /\ run'[d] = run[d]
                                   /\ m \in sess[d].mail => run[d].try # u
    BY <2>5, <2>6
  <2> HIDE DEF t
  <2> QED BY <1>0, <2>2, <2>4, <2>7, <2>8, PlacesOfFresh
<1>14. EnvelopesHavePlaces'
  <2> SUFFICES ASSUME NEW d \in Caller, sess'[d].pc = "envelope", NEW n \in sess'[d].mail
               PROVE  EnvelopeHasPlaces(n, sess'[d])
    BY DEF EnvelopesHavePlaces
  <2>1. CASE d = c
    BY <1>2, <2>1, EnvelopeBegins
  <2>2. CASE d # c
    BY <1>0, <1>2, <2>2 DEF EnvelopesHavePlaces
  <2> QED BY <2>1, <2>2
<1>15. NobodyIsForgotten'
  <2>1. \A n \in sess'[c].mail : \A i \in HandledInboxes : Naming(n, i) # {} =>
          /\ sess'[c].pc = "envelope" => Names(sess'[c].toName, i) \/ Names(sess'[c].rcpts, i)
          /\ run'[c].pc \notin {"none", "error"} =>
               Names(run'[c].todo, i) \/ \E k \in copies' : k.mail = n /\ k.inbox = i
    BY <1>2, <1>3, NamingNames, NothingInHand
  <2> QED BY <1>0, <1>2, <1>3, <2>1, NobodyForgottenBy
<1>16. AckedIsStored'
  BY <1>0, <1>1, AckedStays
<1>17. HistoriesFit' /\ JobsAreRight'
  <2>1. f.pc \notin {"verify", "enqueue"}
    BY NothingInHand
  <2> QED BY <1>0, <1>3, <1>4, <2>1, HistoryStays
<1> QED BY <1>8, <1>9, <1>10, <1>11, <1>12, <1>13, <1>14, <1>15, <1>16, <1>17 DEF IInv
LEMMA MailFromKeeps ==
  ASSUME IInv, NEW c \in Conn, NEW m \in Mail, MailFrom(c, m)
  PROVE  IInv'
<1> DEFINE e == [sess[c] EXCEPT !.pc = "envelope", !.mail = {m}, !.toName = RcptsOf[m]]
<1>0. TypeOK /\ SessionsFit /\ c \in Caller /\ c \notin Post
  BY CallerAssumption DEF IInv, Caller
<1>1. /\ sess[c].pc = "ready" /\ Attempt(m)
      /\ sess' = [sess EXCEPT ![c].pc = "envelope", ![c].mail = {m}, ![c].toName = RcptsOf[m]]
      /\ UNCHANGED <<run, copies, route, verified, jobs, count, hist>>
  BY DEF MailFrom
<1>2. sess[c] = NoSession /\ sess[c] \in SessState /\ RcptsOf[m] \in Seq(Addr) /\ {m} \in SUBSET Mail
  BY <1>0, <1>1, Types, RcptAssumption DEF SessionsFit
<1>3. e \in SessState
  BY <1>2 DEF SessState
<1>4. e.pc = "envelope" /\ e.mail = {m} /\ e.toName = RcptsOf[m] /\ e.rcpts = <<>> /\ e.gone = FALSE
  BY <1>2 DEF NoSession
<1>5. sess' = [sess EXCEPT ![c] = e]
  BY <1>0, <1>1, <1>2, Types DEF SessState
<1> HIDE DEF e
<1>6. run[c] = NoRun /\ run' = [run EXCEPT ![c] = NoRun]
  BY <1>0, <1>1, InEnvelope, Types
<1>7. UNCHANGED <<copies, route, verified, jobs, count, hist>>
  BY <1>1
<1>8. NoRun \in RunState /\ NoRun.copy = {} /\ NoRun.dest = {}
  BY NothingInHand
<1>9. PICK x, f : x = e /\ f = NoRun
  OBVIOUS
<1>10. /\ x \in SessState /\ f \in RunState
       /\ sess' = [sess EXCEPT ![c] = x] /\ run' = [run EXCEPT ![c] = f]
       /\ x.mail = {m} /\ x.gone = FALSE /\ f.copy = {} /\ f.dest = {}
       /\ x.pc = "envelope" /\ x.toName = RcptsOf[m] /\ x.rcpts = <<>> /\ c \notin Post /\ f = NoRun
  BY <1>0, <1>3, <1>4, <1>5, <1>6, <1>8, <1>9
<1>11. c \in Caller /\ Attempt(m) /\ sess[c].pc = "ready"
  BY <1>0, <1>1
<1> QED BY <1>7, <1>10, <1>11, AttemptBegins

LEMMA HandleIngestKeeps ==
  ASSUME IInv, NEW c \in Post, NEW m \in Mail, handleIngest(c, m)
  PROVE  IInv'
<1> DEFINE e == [NoSession EXCEPT !.pc = "busy", !.mail = {m}]
           t == mail'[m].attempts
           f == [NoRun EXCEPT !.pc = "rcpt", !.todo = RcptsOf[m], !.try = t]
<1>0. TypeOK /\ c \in Caller
  BY DEF IInv, Caller
<1>1. /\ sess[c].pc = "ready" /\ Attempt(m)
      /\ sess' = [sess EXCEPT ![c] = e]
      /\ run' = [run EXCEPT ![c] = f]
      /\ UNCHANGED <<copies, route, verified, jobs, count, hist>>
  BY DEF handleIngest, StartAccept
<1>2. t = mail[m].attempts + 1 /\ t \in Nat
  BY <1>1, Attempted
<1> HIDE DEF t
<1>3. RcptsOf[m] \in Seq(Addr) /\ {m} \in SUBSET Mail
  BY RcptAssumption
<1>4. e \in SessState
  BY <1>3, NothingInHand DEF SessState
<1>5. f \in RunState
  BY <1>2, <1>3, NothingInHand DEF RunState
<1>6. e.pc = "busy" /\ e.mail = {m} /\ e.gone = FALSE
  BY DEF NoSession
<1>7. f.pc = "rcpt" /\ f.todo = RcptsOf[m] /\ f.try = mail[m].attempts + 1 /\ f.copy = {} /\ f.dest = {}
  BY <1>2 DEF NoRun
<1> HIDE DEF e, f
<1> QED BY <1>0, <1>1, <1>4, <1>5, <1>6, <1>7, AttemptBegins

(* DATA: what was recorded goes to Accept as the transaction's attempt, or the
   body could not be read and nothing goes. *)
LEMMA DataBegins ==
  ASSUME IInv, NEW c \in Caller, sess[c].pc = "envelope", sess[c].toName = <<>>,
         NEW m \in sess[c].mail, NEW f \in RunState,
         sess' = [sess EXCEPT ![c].pc = "busy"], run' = [run EXCEPT ![c] = f],
         UNCHANGED <<mail, copies, route, verified, jobs, hist>>,
         count' \in [faults : Nat, changes : Nat],
         f.copy = {}, f.dest = {},
         \/ f.pc = "error" /\ f.try = 0
         \/ f.pc = "rcpt" /\ f.todo = sess[c].rcpts /\ f.try = mail[m].attempts
  PROVE  IInv'
<1> DEFINE t == mail[m].attempts
           e == [sess[c] EXCEPT !.pc = "busy"]
<1>0. TypeOK /\ SessionsFit /\ RunsFit /\ AttemptsAreApart /\ CopiesAreDated
      /\ EnvelopesHavePlaces /\ CopiesHavePlaces /\ NobodyIsForgotten /\ AckedIsStored
      /\ HistoriesFit /\ JobsAreRight
  BY DEF IInv
<1>1. sess[c] \in SessState /\ sess[c].mail = {m} /\ m \in Mail
  BY <1>0, Types DEF SessState, SessionsFit
<1>2. e \in SessState /\ sess' = [sess EXCEPT ![c] = e]
  BY <1>1 DEF SessState
<1>3. e.pc = "busy" /\ e.mail = {m} /\ e.gone = sess[c].gone
  BY <1>1 DEF SessState
<1> HIDE DEF e
<1>4. /\ sess' \in [Caller -> SessState] /\ sess'[c] = e
      /\ \A d \in Caller : d # c => sess'[d] = sess[d]
  BY <1>0, <1>2, SessMoved
<1>5. /\ run' \in [Caller -> RunState] /\ run'[c] = f
      /\ \A d \in Caller : d # c => run'[d] = run[d]
  BY <1>0, RunMoved
<1>6. run[c] = NoRun /\ ~sess[c].gone /\ hist[c].must = {}
  BY InEnvelope
<1>7. /\ t \in Nat \ {0} /\ mail[m].state = "trying"
      /\ \A k \in copies : k.mail = m => k.try < t /\ k.try \in Nat
      /\ \A d \in Caller : d # c /\ m \in sess[d].mail =>
           sess[d].gone /\ run[d].try < t /\ run[d].try \in Nat
  <2>1. t \in Nat /\ t # 0 /\ mail[m].state = "trying"
    BY <1>0, <1>1, <1>6, Types DEF AttemptsAreApart, MailState
  <2>2. \A k \in copies : k.mail = m => k.try < t /\ k.try \in Nat
    BY <1>0, <1>1, <1>6, NothingInHand, Types DEF AttemptsAreApart, Copy
  <2>3. \A d \in Caller : d # c /\ m \in sess[d].mail =>
          sess[d].gone /\ run[d].try < t /\ run[d].try \in Nat
    BY <1>0, <1>1, <1>6, Types DEF AttemptsAreApart, RunState
  <2> QED BY <2>1, <2>2, <2>3
<1>8. TypeOK'
  BY <1>0, <1>4, <1>5 DEF TypeOK
<1>9. SessionsFit'
  <2>1. f.pc # "none"
    OBVIOUS
  <2> QED BY <1>0, <1>1, <1>3, <1>4, <1>5, <2>1 DEF SessionsFit
<1>10. RunsFit'
  <2>1. ASSUME NEW d \in Caller, d # c
        PROVE  sess'[d] = sess[d] /\ run'[d] = run[d]
    BY <1>4, <1>5, <2>1
  <2>2. \/ f.pc = "error" /\ f.try = 0
        \/ f.pc = "rcpt" /\ f.try # 0
    BY <1>7
  <2> QED BY <1>0, <1>5, <2>1, <2>2 DEF RunsFit
<1>11. AttemptsAreApart'
  <2>0. \A d \in Caller : sess'[d].mail = sess[d].mail /\ sess'[d].gone = sess[d].gone
    BY <1>1, <1>3, <1>4
  <2>1. ASSUME NEW d \in Caller, NEW n \in sess[d].mail
        PROVE  /\ run'[d].try <= mail[n].attempts
               /\ ~sess[d].gone =>
                    /\ mail[n].state = "trying" /\ mail[n].attempts # 0
                    /\ run'[d].try \in {0, mail[n].attempts}
                    /\ run'[d].pc = "none" => \A k \in copies : k.mail = n => k.try < mail[n].attempts
    <3>1. CASE d = c
      BY <1>1, <1>5, <1>7, <3>1
    <3>2. CASE d # c
      BY <1>0, <1>5, <3>2 DEF AttemptsAreApart
    <3> QED BY <3>1, <3>2
  <2>2. ASSUME NEW x \in Caller, NEW y \in Caller, NEW n \in sess[x].mail \cap sess[y].mail, x # y
        PROVE  /\ ~sess[x].gone => sess[y].gone /\ run'[y].try < mail[n].attempts
               /\ run'[x].try # run'[y].try \/ run'[x].try = 0
    <3>1. CASE x = c
      <4>1. n = m /\ sess[y].gone /\ run'[y].try < t /\ run'[y].try \in Nat /\ run'[x] = f
        BY <1>1, <1>5, <1>7, <2>2, <3>1
      <4>2. f.try = 0 \/ f.try = t
        OBVIOUS
      <4> QED BY <1>7, <4>1, <4>2
    <3>2. CASE y = c
      <4>1. n = m /\ sess[x].gone /\ run'[x].try < t /\ run'[x].try \in Nat /\ run'[y] = f
        BY <1>1, <1>5, <1>7, <2>2, <3>2
      <4>2. f.try = 0 \/ f.try = t
        OBVIOUS
      <4> QED BY <1>7, <4>1, <4>2
    <3>3. CASE x # c /\ y # c
      BY <1>0, <1>5, <2>2, <3>3 DEF AttemptsAreApart
    <3> QED BY <3>1, <3>2, <3>3
  <2>3. ASSUME NEW d \in Caller, NEW n \in sess'[d].mail
        PROVE  /\ run'[d].try <= mail[n].attempts
               /\ ~sess'[d].gone =>
                    /\ mail[n].state = "trying" /\ mail[n].attempts # 0
                    /\ run'[d].try \in {0, mail[n].attempts}
                    /\ run'[d].pc = "none" => \A k \in copies : k.mail = n => k.try < mail[n].attempts
    BY <2>0, <2>1
  <2>4. ASSUME NEW x \in Caller, NEW y \in Caller, NEW n \in sess'[x].mail \cap sess'[y].mail, x # y
        PROVE  /\ ~sess'[x].gone => sess'[y].gone /\ run'[y].try < mail[n].attempts
               /\ run'[x].try # run'[y].try \/ run'[x].try = 0
    BY <2>0, <2>2, <2>4
  <2> QED BY <2>3, <2>4 DEF AttemptsAreApart
<1>12. CopiesAreDated'
  <2>1. \A n \in Mail : mail'[n].attempts \in Nat /\ mail'[n].attempts >= mail[n].attempts
    BY <1>0, Types DEF MailState
  <2>2. ASSUME NEW d \in Caller
        PROVE  GoesOn(d) \/ \A k \in copies : k.mail \in sess'[d].mail => k.try # run'[d].try
    <3>1. CASE d = c
      <4>1. f.try = 0 \/ f.try = t
        OBVIOUS
      <4>2. \A k \in copies : k.mail \in sess'[c].mail => k.try # t
        <5>1. sess'[c].mail = {m}
          BY <1>3, <1>4
        <5>2. \A k \in copies : k.mail = m => k.try # t
          BY <1>7
        <5> HIDE DEF t
        <5> QED BY <5>1, <5>2
      <4> HIDE DEF t
      <4> QED BY <1>5, <3>1, <4>1, <4>2 DEF GoesOn
    <3>2. CASE d # c
      BY <1>4, <1>5, <3>2 DEF GoesOn, Shorter
    <3> QED BY <3>1, <3>2
  <2> QED BY <1>0, <2>1, <2>2, DatesStay
<1>13. CopiesHavePlaces'
  <2> DEFINE r == Len(sess[c].rcpts)
             L == Len(RcptsOf[m])
  <2>1. EnvelopeHasPlaces(m, sess[c])
    BY <1>0 DEF EnvelopesHavePlaces
  <2>2. r \in Nat /\ L \in Nat /\ Len(sess[c].toName) = 0
    BY <1>1, RcptAssumption, LenProperties, EmptySeq DEF SessState
  <2>3. /\ r <= L - Len(sess[c].toName)
        /\ \E p \in PlacesOf(m, r) : \A j \in 1 .. r : sess[c].rcpts[j] = RcptsOf[m][p[j]]
    BY <2>1 DEF EnvelopeHasPlaces
  <2>4. PICK p \in PlacesOf(m, r) : \A j \in 1 .. r : sess[c].rcpts[j] = RcptsOf[m][p[j]]
    BY <2>3
  <2>5. r \in 0 .. Len(RcptsOf[m])
    BY <2>2, <2>3
  <2>6. StandAt(m, r, p, sess[c].rcpts)
    <3>1. \A j \in 1 .. r : r - r + j = j
      BY <2>2
    <3>2. r <= r
      BY <2>2
    <3> QED BY <2>4, <3>1, <3>2 DEF StandAt
  <2> HIDE DEF r, L
  <2>7. PICK u : u = t
    OBVIOUS
  <2>8. /\ u \in Nat \ {0} /\ mail'[m].attempts = u /\ mail[m].attempts \in {u - 1, u}
        /\ \A n \in Mail : n # m => mail'[n].attempts = mail[n].attempts
        /\ \A k \in copies : k.mail = m => k.try # u
        /\ sess'[c].mail \subseteq {m} /\ run'[c].try \in {0, u}
        /\ run'[c].try = u => StandAt(m, r, p, run'[c].todo)
    BY <1>1, <1>3, <1>4, <1>5, <1>7, <2>6, <2>7
  <2>9. \A d \in Caller : d # c => /\ sess'[d].mail = sess[d].mail /\ run'[d] = run[d]
                                   /\ m \in sess[d].mail => run[d].try # u
    BY <1>4, <1>5, <1>7, <2>7
  <2> HIDE DEF t
  <2> QED BY <1>0, <1>1, <2>4, <2>5, <2>8, <2>9, PlacesOfFresh
<1>14. EnvelopesHavePlaces'
  <2>1. \A d \in Caller : sess'[d].pc = "envelope" => sess'[d] = sess[d]
    BY <1>3, <1>4
  <2> QED BY <1>0, <2>1, EnvelopesStay
<1>15. NobodyIsForgotten'
  <2>1. ASSUME NEW n \in sess'[c].mail, NEW i \in HandledInboxes, Naming(n, i) # {}
        PROVE  Names(sess[c].rcpts, i)
    <3>1. n \in sess[c].mail
      BY <1>1, <1>3, <1>4
    <3>2. Names(sess[c].toName, i) \/ Names(sess[c].rcpts, i)
      BY <1>0, <2>1, <3>1 DEF NobodyIsForgotten
    <3>3. ~Names(sess[c].toName, i)
      BY DEF Names
    <3> QED BY <3>2, <3>3
  <2> QED BY <1>0, <1>3, <1>4, <1>5, <2>1, NobodyForgottenBy
<1>16. AckedIsStored'
  BY <1>0, AckedStays
<1>17. HistoriesFit' /\ JobsAreRight'
  <2>1. f.pc \notin {"verify", "enqueue"}
    OBVIOUS
  <2> QED BY <1>0, <1>5, <1>6, <2>1, HistoryStays
<1> QED BY <1>8, <1>9, <1>10, <1>11, <1>12, <1>13, <1>14, <1>15, <1>16, <1>17 DEF IInv

LEMMA DataKeeps ==
  ASSUME IInv, NEW c \in Caller, Data(c)
  PROVE  IInv'
<1>0. TypeOK
  BY DEF IInv
<1>1. /\ sess[c].pc = "envelope" /\ sess[c].toName = <<>>
      /\ sess' = [sess EXCEPT ![c].pc = "busy"]
      /\ UNCHANGED <<mail, copies, route, verified, jobs, count, hist>>
      /\ \E m \in sess[c].mail : StartAccept(c, m, sess[c].rcpts)
  BY DEF Data
<1>2. PICK m \in sess[c].mail : StartAccept(c, m, sess[c].rcpts)
  BY <1>1
<1> DEFINE f == [NoRun EXCEPT !.pc = "rcpt", !.todo = sess[c].rcpts, !.try = mail[m].attempts]
<1>3. run' = [run EXCEPT ![c] = f]
  BY <1>1, <1>2 DEF StartAccept
<1>4. sess[c].rcpts \in Seq(Addr) /\ mail[m].attempts \in Nat
  BY <1>0, Types DEF SessState, MailState
<1>5. f \in RunState
  BY <1>4, NothingInHand DEF RunState
<1>6. f.pc = "rcpt" /\ f.todo = sess[c].rcpts /\ f.try = mail[m].attempts /\ f.copy = {} /\ f.dest = {}
  BY DEF NoRun
<1>7. count' \in [faults : Nat, changes : Nat]
  BY <1>0, <1>1 DEF TypeOK
<1> HIDE DEF f
<1> QED BY <1>1, <1>3, <1>5, <1>6, <1>7, DataBegins

LEMMA DataReadFailsKeeps ==
  ASSUME IInv, NEW c \in Caller, DataReadFails(c)
  PROVE  IInv'
<1> DEFINE f == [NoRun EXCEPT !.pc = "error"]
<1>0. TypeOK /\ SessionsFit
  BY DEF IInv
<1>1. /\ sess[c].pc = "envelope" /\ sess[c].toName = <<>>
      /\ sess' = [sess EXCEPT ![c].pc = "busy"]
      /\ run' = [run EXCEPT ![c] = f]
      /\ UNCHANGED <<mail, copies, route, verified, jobs, hist>>
      /\ count' \in [faults : Nat, changes : Nat]
  BY <1>0, FaultCounts DEF DataReadFails
<1>2. PICK m : m \in sess[c].mail
  BY <1>0, <1>1 DEF SessionsFit
<1>3. f \in RunState
  BY NothingInHand DEF RunState
<1>4. f.pc = "error" /\ f.try = 0 /\ f.copy = {} /\ f.dest = {}
  BY DEF NoRun
<1> HIDE DEF f
<1> QED BY <1>1, <1>2, <1>3, <1>4, DataBegins
---------------------------------------------------------------------------
(* The one step that stores *)

(* SaveMessage stores the copy of the next recipient: a new one, at the place
   of the envelope that the recipient stood at. *)
LEMMA SaveKeeps ==
  ASSUME IInv, NEW c \in Caller, SaveMessage(c)
  PROVE  IInv'
<1>0. TypeOK /\ SessionsFit /\ RunsFit /\ AttemptsAreApart /\ CopiesAreDated
      /\ EnvelopesHavePlaces /\ CopiesHavePlaces /\ NobodyIsForgotten /\ AckedIsStored
      /\ HistoriesFit /\ JobsAreRight
  BY DEF IInv
<1>1. run[c].pc = "rcpt" /\ run[c].todo # <<>> /\ InScope(Head(run[c].todo))
      /\ UNCHANGED <<mail, sess, route, verified, jobs, count>>
  BY DEF SaveMessage
<1>2. PICK m \in Mail : sess[c].mail = {m}
  <2>1. sess[c].pc = "busy"
    BY <1>0, <1>1 DEF SessionsFit
  <2> QED BY <1>0, <2>1 DEF SessionsFit
<1> DEFINE s == run[c].todo
           t == run[c].try
           n == Len(s)
           i == Norm[Head(s)]
           new == [mail |-> m, try |-> t, left |-> n, inbox |-> i]
           e == [run[c] EXCEPT !.pc = "lookup", !.todo = Tail(s), !.copy = {new}]
           h == [must |-> route[i] \cap verified, listed |-> route[i], verified |-> verified]
<1>3. /\ run[c] \in RunState /\ s \in Seq(Addr) /\ t \in Nat /\ n \in Nat \ {0}
      /\ Tail(s) \in Seq(Addr) /\ Len(Tail(s)) = n - 1
      /\ Head(s) = s[1]
  BY <1>0, <1>1, Types, TailOf DEF RunState
<1>4. i \in HandledInboxes /\ i \in Inbox
  BY <1>1, ScopeAssumption DEF InScope
<1>5. t # 0 /\ run[c].dest = {} /\ t \in 1 .. mail[m].attempts
  <2>1. t # 0 /\ run[c].dest = {}
    BY <1>0, <1>1 DEF RunsFit
  <2>2. t <= mail[m].attempts /\ mail[m].attempts \in Nat
    BY <1>0, <1>2, Types DEF AttemptsAreApart, MailState
  <2> QED BY <1>3, <2>1, <2>2
<1>6. new \in Copy /\ new.mail = m /\ new.try = t /\ new.left = n /\ new.inbox = i
  BY <1>3, <1>4 DEF Copy
<1>7. NextCopy(c) = {new}
  BY <1>2 DEF NextCopy
<1>8. copies' = copies \cup {new} /\ run' = [run EXCEPT ![c].pc = "lookup", ![c].todo = Tail(s), ![c].copy = {new}]
      /\ hist' = [hist EXCEPT ![c] = h]
  BY <1>7 DEF SaveMessage
<1> HIDE DEF new
<1>9. e \in RunState /\ run' = [run EXCEPT ![c] = e]
  BY <1>0, <1>3, <1>6, <1>8, Types DEF RunState
<1>10. e.pc = "lookup" /\ e.todo = Tail(s) /\ e.try = t /\ e.copy = {new} /\ e.dest = {}
  BY <1>3, <1>5 DEF RunState
<1> HIDE DEF e
<1>11. /\ run' \in [Caller -> RunState] /\ run'[c] = e
       /\ \A d \in Caller : d # c => run'[d] = run[d]
  BY <1>0, <1>9, RunMoved
<1>12. route[i] \in SUBSET Dest /\ verified \in SUBSET Dest
  BY <1>0, <1>4 DEF TypeOK
<1>13. h \in HistState /\ h.must = route[i] \cap verified /\ h.listed = route[i] /\ h.verified = verified
  BY <1>12 DEF HistState
<1> HIDE DEF h, i
<1>14. /\ hist' \in [Caller -> HistState] /\ hist'[c] = h
       /\ \A d \in Caller : d # c => hist'[d] = hist[d]
  BY <1>0, <1>8, <1>13, Types
<1>15. new \notin copies
  <2>1. n \in Nat /\ ~(n > n)
    BY <1>3
  <2> QED BY <1>0, <1>2, <1>6, <2>1 DEF CopiesAreDated
<1>16. \A d \in Caller : d # c /\ m \in sess[d].mail => run[d].try # t
  BY <1>0, <1>2, <1>5 DEF AttemptsAreApart
<1>17. TypeOK'
  BY <1>0, <1>1, <1>6, <1>8, <1>11, <1>14 DEF TypeOK, HistState
<1>18. SessionsFit'
  BY <1>0, <1>1, <1>10, <1>11 DEF SessionsFit
<1>19. RunsFit'
  <2>1. ASSUME NEW d \in Caller, d # c, NEW k \in run[d].copy
        PROVE  run[d].copy = {k} /\ k \in copies' /\ k.mail \in sess[d].mail /\ k.try = run[d].try
    BY <1>0, <1>8, <2>1 DEF RunsFit
  <2>2. ASSUME NEW k \in e.copy
        PROVE  e.copy = {k} /\ k \in copies' /\ k.mail \in sess[c].mail /\ k.try = e.try
    BY <1>2, <1>6, <1>8, <1>10, <2>2
  <2>3. ASSUME NEW d \in Caller, d # c
        PROVE  /\ run[d].pc = "none" => run[d] = NoRun
               /\ run[d].pc = "ok" => run[d].todo = <<>>
               /\ run[d].pc \in {"lookup", "verify", "enqueue"} => run[d].copy # {}
               /\ run[d].pc # "enqueue" => run[d].dest = {}
               /\ run[d].try = 0 => run[d].pc \in {"none", "error"} /\ run[d].copy = {}
    BY <1>0 DEF RunsFit
  <2>4. e.copy # {}
    BY <1>10
  <2> QED BY <1>1, <1>5, <1>10, <1>11, <2>1, <2>2, <2>3, <2>4 DEF RunsFit
<1>20. \A d \in Caller : run'[d].try = run[d].try /\ (run'[d].pc = "none" => run[d].pc = "none" /\ d # c)
  BY <1>10, <1>11
<1>21. AttemptsAreApart'
  <2>1. ASSUME NEW d \in Caller, NEW k \in sess[d].mail
        PROVE  /\ run'[d].try <= mail[k].attempts
               /\ ~sess[d].gone =>
                    /\ mail[k].state = "trying" /\ mail[k].attempts # 0
                    /\ run'[d].try \in {0, mail[k].attempts}
                    /\ run'[d].pc = "none" => \A x \in copies' : x.mail = k => x.try < mail[k].attempts
    <3>1. /\ run'[d].try <= mail[k].attempts
          /\ ~sess[d].gone =>
               /\ mail[k].state = "trying" /\ mail[k].attempts # 0
               /\ run'[d].try \in {0, mail[k].attempts}
               /\ run'[d].pc = "none" => \A x \in copies : x.mail = k => x.try < mail[k].attempts
      BY <1>0, <1>20 DEF AttemptsAreApart
    <3>2. ASSUME ~sess[d].gone, run'[d].pc = "none", k = m PROVE t < mail[k].attempts
      BY <1>0, <1>2, <1>20, <2>1, <3>2 DEF AttemptsAreApart
    <3> QED BY <1>6, <1>8, <3>1, <3>2
  <2>2. ASSUME NEW x \in Caller, NEW y \in Caller, NEW k \in sess[x].mail \cap sess[y].mail, x # y
        PROVE  /\ ~sess[x].gone => sess[y].gone /\ run'[y].try < mail[k].attempts
               /\ run'[x].try # run'[y].try \/ run'[x].try = 0
    BY <1>0, <1>20, <2>2 DEF AttemptsAreApart
  <2> QED BY <1>1, <2>1, <2>2 DEF AttemptsAreApart
<1>22. CopiesAreDated'
  <2>1. \A k \in copies' : k.inbox \in HandledInboxes /\ k.try \in 1 .. mail[k.mail].attempts
    BY <1>0, <1>4, <1>5, <1>6, <1>8 DEF CopiesAreDated
  <2>2. ASSUME NEW d \in Caller, NEW k \in copies', k.mail \in sess[d].mail, k.try = run'[d].try
        PROVE  k.left > Len(run'[d].todo)
    <3>1. CASE d = c /\ k = new
      <4>1. k.left = n /\ Len(run'[d].todo) = n - 1 /\ n \in Nat
        BY <1>3, <1>6, <1>10, <1>11, <3>1
      <4> HIDE DEF n
      <4> QED BY <4>1
    <3>2. CASE d = c /\ k \in copies
      <4>1. k.left > n /\ k.left \in Nat
        BY <1>0, <1>20, <2>2, <3>2, Types DEF CopiesAreDated, Copy
      <4>2. Len(run'[d].todo) = n - 1
        BY <1>3, <1>10, <1>11, <3>2
      <4> QED BY <1>3, <4>1, <4>2
    <3>3. CASE d # c
      <4>1. k # new
        BY <1>6, <1>16, <1>20, <2>2, <3>3
      <4>2. k \in copies /\ run'[d] = run[d]
        BY <1>8, <1>11, <3>3, <4>1
      <4> QED BY <1>0, <2>2, <4>2 DEF CopiesAreDated
    <3> QED BY <1>8, <3>1, <3>2, <3>3
  <2> QED BY <1>1, <2>1, <2>2 DEF CopiesAreDated
<1>23. CopiesHavePlaces'
  <2> SUFFICES ASSUME NEW x \in Mail, NEW u \in 1 .. mail[x].attempts
               PROVE  \E r \in 0 .. Len(RcptsOf[x]) : \E p \in PlacesOf(x, r) : HasPlaces(x, u, r, p)'
    BY <1>1 DEF CopiesHavePlaces, PlacesOf
  <2>1. PICK r \in 0 .. Len(RcptsOf[x]) : \E p \in PlacesOf(x, r) : HasPlaces(x, u, r, p)
    BY <1>0 DEF CopiesHavePlaces
  <2>2. PICK p \in PlacesOf(x, r) : HasPlaces(x, u, r, p)
    BY <2>1
  <2>3. r \in Nat
    BY RcptAssumption, LenProperties
  <2>4. ASSUME NEW d \in Caller, x \in sess[d].mail, run'[d].try = u
        PROVE  StandAt(x, r, p, run'[d].todo)
    <3>1. StandAt(x, r, p, run[d].todo)
      BY <1>20, <2>2, <2>4 DEF HasPlaces
    <3>2. CASE d = c
      <4>1. StandAt(x, r, p, Tail(s))
        BY <1>1, <1>3, <2>3, <3>1, <3>2, StandTail
      <4> QED BY <1>10, <1>11, <3>2, <4>1
    <3>3. CASE d # c
      BY <1>11, <3>1, <3>3
    <3> QED BY <3>2, <3>3
  <2>5. ASSUME x = m, u = t PROVE n \in 1 .. r /\ Norm[RcptsOf[x][p[r - n + 1]]] = new.inbox
    <3>1. StandAt(x, r, p, s)
      BY <1>2, <2>2, <2>5 DEF HasPlaces
    <3>2. n <= r /\ \A j \in 1 .. n : s[j] = RcptsOf[x][p[r - n + j]]
      BY <3>1 DEF StandAt
    <3>3. 1 \in 1 .. n /\ n \in 1 .. r
      BY <1>3, <2>3, <3>2
    <3>4. s[1] = RcptsOf[x][p[r - n + 1]]
      BY <3>2, <3>3
    <3> QED BY <1>3, <1>6, <3>3, <3>4 DEF i
  <2>6. ASSUME NEW k \in copies', k.mail = x, k.try = u
        PROVE  k.left \in 1 .. r /\ Norm[RcptsOf[x][p[r - k.left + 1]]] = k.inbox
    <3>1. CASE k = new
      BY <1>6, <2>5, <2>6, <3>1
    <3>2. CASE k \in copies
      BY <2>2, <2>6, <3>2 DEF HasPlaces
    <3> QED BY <1>8, <3>1, <3>2
  <2>7. HasPlaces(x, u, r, p)'
    BY <1>1, <2>4, <2>6 DEF HasPlaces
  <2> QED BY <2>7
<1>24. EnvelopesHavePlaces'
  BY <1>0, <1>1, EnvelopesStay
<1>25. NobodyIsForgotten'
  <2>1. ASSUME NEW k \in HandledInboxes, Naming(m, k) # {}
        PROVE  Names(Tail(s), k) \/ \E x \in copies' : x.mail = m /\ x.inbox = k
    <3>1. Names(s, k) \/ \E x \in copies : x.mail = m /\ x.inbox = k
      <4>1. m \in sess[c].mail /\ run[c].pc \notin {"none", "error"}
        BY <1>1, <1>2
      <4> QED BY <1>0, <2>1, <4>1 DEF NobodyIsForgotten
    <3>2. Names(s, k) => i = k \/ Names(Tail(s), k)
      BY <1>1, <1>3, NamesOf DEF i
    <3> QED BY <1>6, <1>8, <3>1, <3>2
  <2>2. sess[c].pc # "envelope"
    BY <1>0, <1>1 DEF SessionsFit
  <2>3. \A x \in sess'[c].mail : \A k \in HandledInboxes : Naming(x, k) # {} =>
          /\ sess'[c].pc = "envelope" => Names(sess'[c].toName, k) \/ Names(sess'[c].rcpts, k)
          /\ run'[c].pc \notin {"none", "error"} =>
               Names(run'[c].todo, k) \/ \E y \in copies' : y.mail = x /\ y.inbox = k
    BY <1>1, <1>2, <1>10, <1>11, <2>1, <2>2
  <2>4. copies \subseteq copies' /\ \A d \in Caller : d # c => sess'[d] = sess[d] /\ run'[d] = run[d]
    BY <1>1, <1>8, <1>11
  <2> QED BY <1>0, <2>3, <2>4, NobodyForgottenBy
<1>26. AckedIsStored'
  BY <1>0, <1>1, <1>8, AckedStays
<1>27. \A d \in Caller : d # c => Queued(d)' = Queued(d)
  BY <1>1, <1>11 DEF Queued
<1>28. Queued(c)' = {}
  BY <1>0, <1>1, <1>10, <1>11, <1>15 DEF Queued, HistoriesFit
<1>29. HistoriesFit'
  <2>1. \A x \in jobs' : x.copy \in copies'
    BY <1>0, <1>1, <1>8 DEF HistoriesFit
  <2>2. ASSUME NEW d \in Caller
        PROVE  /\ run'[d].copy = {} => hist'[d].must = {}
               /\ \A k \in run'[d].copy : /\ route'[k.inbox] \subseteq hist'[d].listed
                                         /\ verified' \subseteq hist'[d].verified
                                         /\ hist'[d].must \subseteq route'[k.inbox] \cap verified'
               /\ run'[d].dest \subseteq hist'[d].listed \cap hist'[d].verified
               /\ run'[d].pc \in {"verify", "enqueue"} =>
                    /\ run'[d].dests \subseteq hist'[d].listed
                    /\ hist'[d].must \subseteq Queued(d)' \cup run'[d].dests \cup run'[d].dest
    <3>1. CASE d = c
      BY <1>1, <1>6, <1>10, <1>11, <1>13, <1>14, <3>1
    <3>2. CASE d # c
      <4>1. run'[d] = run[d] /\ hist'[d] = hist[d] /\ Queued(d)' = Queued(d)
            /\ route' = route /\ verified' = verified
        BY <1>1, <1>11, <1>14, <1>27, <3>2
      <4> QED BY <1>0, <4>1 DEF HistoriesFit
    <3> QED BY <3>1, <3>2
  <2> QED BY <2>1, <2>2 DEF HistoriesFit
<1>30. JobsAreRight'
  <2>1. ASSUME NEW d \in Caller
        PROVE  /\ Queued(d)' \subseteq hist'[d].listed \cap hist'[d].verified
               /\ run'[d].pc \in {"rcpt", "ok", "error"} => hist'[d].must \subseteq Queued(d)'
    <3>1. CASE d = c
      BY <1>10, <1>11, <1>28, <3>1
    <3>2. CASE d # c
      BY <1>0, <1>11, <1>14, <1>27, <3>2 DEF JobsAreRight
    <3> QED BY <3>1, <3>2
  <2> QED BY <2>1 DEF JobsAreRight
<1> QED BY <1>17, <1>18, <1>19, <1>21, <1>22, <1>23, <1>24, <1>25, <1>26, <1>29, <1>30 DEF IInv
---------------------------------------------------------------------------
(* The theorems *)

LEMMA InitHolds ==
  ASSUME Init
  PROVE  IInv
<1>1. /\ \A c \in Caller : sess[c] = NoSession /\ run[c] = NoRun /\ hist[c] = NoHist
      /\ copies = {} /\ jobs = {}
      /\ \A m \in Mail : mail[m] = [state |-> "queued", attempts |-> 0]
  BY DEF Init
<1>2. TypeOK
  <2>1. /\ sess \in [Caller -> SessState] /\ run \in [Caller -> RunState] /\ hist \in [Caller -> HistState]
    BY NothingInHand DEF Init
  <2>2. mail \in [Mail -> MailState]
    BY DEF Init, MailState
  <2> QED BY <2>1, <2>2 DEF Init, TypeOK, MailState, HistState
<1>3. SessionsFit /\ RunsFit
  BY <1>1, NothingInHand DEF SessionsFit, RunsFit
<1>4. AttemptsAreApart /\ CopiesAreDated /\ EnvelopesHavePlaces /\ NobodyIsForgotten
  BY <1>1, NothingInHand DEF AttemptsAreApart, CopiesAreDated, EnvelopesHavePlaces, NobodyIsForgotten
<1>5. CopiesHavePlaces
  <2>1. \A m \in Mail : mail[m].attempts = 0
    BY <1>1
  <2> QED BY <2>1 DEF CopiesHavePlaces
<1>6. AckedIsStored
  BY <1>1 DEF AckedIsStored
<1>7. HistoriesFit /\ JobsAreRight
  BY <1>1, NothingInHand DEF HistoriesFit, JobsAreRight, Queued
<1> QED BY <1>2, <1>3, <1>4, <1>5, <1>6, <1>7 DEF IInv

LEMMA StutterHolds ==
  ASSUME IInv, UNCHANGED vars
  PROVE  IInv'
<1> USE DEF vars
<1>0. TypeOK /\ SessionsFit /\ RunsFit /\ AttemptsAreApart /\ CopiesAreDated
      /\ EnvelopesHavePlaces /\ CopiesHavePlaces /\ NobodyIsForgotten /\ AckedIsStored
      /\ HistoriesFit /\ JobsAreRight
  BY DEF IInv
<1>1. TypeOK'
  BY <1>0 DEF TypeOK
<1>7. SessionsFit'
  BY <1>0 DEF SessionsFit
<1>8. RunsFit'
  BY <1>0 DEF RunsFit
<1>9. AttemptsAreApart'
  BY <1>0 DEF AttemptsAreApart
<1>10. AckedIsStored'
  BY <1>0 DEF AckedIsStored
<1>2. \A d \in Caller : GoesOn(d)
  BY DEF GoesOn, Shorter
<1>3. \A m \in Mail : mail'[m].attempts \in Nat /\ mail'[m].attempts >= mail[m].attempts
                      /\ mail'[m].attempts = mail[m].attempts
  BY <1>0, Types DEF MailState
<1>4. CopiesAreDated' /\ CopiesHavePlaces'
  BY <1>0, <1>2, <1>3, DatesStay, PlacesStay
<1>5. EnvelopesHavePlaces' /\ NobodyIsForgotten'
  BY <1>0, EnvelopesStay, NobodyStaysForgotten
<1>6. HistoriesFit' /\ JobsAreRight'
  BY <1>0, HistoryStays
<1> QED BY <1>1, <1>7, <1>8, <1>9, <1>10, <1>4, <1>5, <1>6 DEF IInv

LEMMA NextHolds ==
  ASSUME IInv, [Next]_vars
  PROVE  IInv'
<1>0. \A c \in Conn : c \in Caller
  BY DEF Caller
<1>1. ASSUME NEW c \in Caller, AcceptStep(c) PROVE IInv'
  <2>1. CASE SkipRecipient(c)
    BY <2>1, SkipKeeps
  <2>2. CASE SaveMessage(c)
    BY <2>2, SaveKeeps
  <2>3. CASE SaveCannotSucceed(c)
    BY <2>3, SaveErrorKeeps
  <2>4. CASE GetAddress(c)
    BY <2>4, GetAddressKeeps
  <2>5. CASE EnqueueForward(c)
    BY <2>5, EnqueueKeeps
  <2>6. CASE ForwardCallFails(c)
    BY <2>6, ForwardCallFailsKeeps
  <2>7. CASE \E d \in Dest : IsVerified(c, d)
    BY <2>7, IsVerifiedKeeps
  <2>8. CASE AcceptReturns(c)
    BY <2>8, AcceptReturnsKeeps
  <2>9. CASE Answer(c)
    BY <2>9, AnswerKeeps
  <2> QED BY <1>1, <2>1, <2>2, <2>3, <2>4, <2>5, <2>6, <2>7, <2>8, <2>9 DEF AcceptStep
<1>2. ASSUME NEW c \in Conn, SenderStep(c) \/ DataReadFails(c) \/ ClientReset(c) \/ ContextEnds(c)
      PROVE  IInv'
  <2>1. CASE Rcpt(c)
    BY <1>0, <2>1, RcptKeeps
  <2>2. CASE AllRefused(c)
    BY <1>0, <2>2, AllRefusedKeeps
  <2>3. CASE Data(c)
    BY <1>0, <2>3, DataKeeps
  <2>4. CASE DataReadFails(c)
    BY <1>0, <2>4, DataReadFailsKeeps
  <2>5. CASE ClientReset(c)
    BY <1>0, <2>5, ClientResetKeeps
  <2>6. CASE ContextEnds(c)
    BY <1>0, <2>6, ContextEndsKeeps
  <2> QED BY <1>2, <2>1, <2>2, <2>3, <2>4, <2>5, <2>6 DEF SenderStep
<1>3. ASSUME NEW m \in Mail, NewAttempt(m) PROVE IInv'
  BY <1>3, MailFromKeeps, HandleIngestKeeps DEF NewAttempt
<1>4. ASSUME NEW c \in Caller, SaveFails(c) \/ HangUp(c) PROVE IInv'
  BY <1>4, SaveErrorKeeps, HangUpKeeps
<1>5. ASSUME NEW i \in HandledInboxes, NEW ds \in SUBSET Dest, SetRoute(i, ds) PROVE IInv'
  <2>1. [route EXCEPT ![i] = ds] \in [HandledInboxes -> SUBSET Dest] /\ verified \in SUBSET Dest
    BY DEF IInv, TypeOK
  <2> QED BY <1>5, <2>1, RegistryKeeps DEF SetRoute
<1>6. ASSUME NEW d \in Dest, MarkVerified(d) \/ CreateVerification(d) PROVE IInv'
  <2>1. /\ route \in [HandledInboxes -> SUBSET Dest]
        /\ verified \cup {d} \in SUBSET Dest /\ verified \ {d} \in SUBSET Dest
    BY DEF IInv, TypeOK
  <2> QED BY <1>6, <2>1, RegistryKeeps DEF MarkVerified, CreateVerification
<1>7. CASE UNCHANGED vars
  BY <1>7, StutterHolds
<1> QED BY <1>1, <1>2, <1>3, <1>4, <1>5, <1>6, <1>7, CrashKeeps DEF Next

(* Every reachable state is of the right type and satisfies the strengthening. *)
THEOREM Inductive == Spec => []IInv
<1>1. Init => IInv
  BY InitHolds
<1>2. IInv /\ [Next]_vars => IInv'
  BY NextHolds
<1> QED BY <1>1, <1>2, PTL DEF Spec

(* The variables of Accept, its callers and the tables keep their types. *)
THEOREM TypeCorrect == Spec => []TypeOK
<1>1. IInv => TypeOK
  BY DEF IInv
<1> QED BY <1>1, Inductive, PTL

(* What Accept's nil error promises: a mail whose sender was told that it is
   taken has a copy in every handled inbox that its envelope names, whatever
   failed, hung up or crashed, and however often it was tried. *)
THEOREM TakenIsStored == Spec => []AckedIsStored
<1>1. IInv => AckedIsStored
  BY DEF IInv
<1> QED BY <1>1, Inductive, PTL

(* maybeForward's jobs are for destinations that were listed and verified
   since the copy was stored, and none that was so all along is missed unless a
   statement or the context failed. *)
THEOREM JobsStayRight == Spec => []JobsAreRight
<1>1. IInv => JobsAreRight
  BY DEF IInv
<1> QED BY <1>1, Inductive, PTL

(* Every attempt's places, as one function of the attempt. *)
LEMMA CopiesAreNumbered ==
  ASSUME IInv, NEW m \in Mail, NEW i \in Inbox
  PROVE  \E f : f \in Injection({k \in copies : k.mail = m /\ k.inbox = i},
                               (1 .. mail[m].attempts) \X Naming(m, i))
<1> DEFINE K == {k \in copies : k.mail = m /\ k.inbox = i}
           a == mail[m].attempts
           L == Len(RcptsOf[m])
           Fits(t, w) == \E r \in 0 .. L : \E p \in PlacesOf(m, r) : w = <<r, p>> /\ HasPlaces(m, t, r, p)
           W(t) == CHOOSE w : Fits(t, w)
           pl(k) == W(k.try)[2][W(k.try)[1] - k.left + 1]
           f == [k \in K |-> <<k.try, pl(k)>>]
<1>0. TypeOK /\ CopiesAreDated /\ CopiesHavePlaces
  BY DEF IInv
<1>1. ASSUME NEW t \in 1 .. a PROVE Fits(t, W(t))
  <2>1. PICK r \in 0 .. L : \E p \in PlacesOf(m, r) : HasPlaces(m, t, r, p)
    BY <1>0 DEF CopiesHavePlaces
  <2>2. PICK p \in PlacesOf(m, r) : HasPlaces(m, t, r, p)
    BY <2>1
  <2>3. Fits(t, <<r, p>>)
    BY <2>2
  <2>4. \E w : Fits(t, w)
    BY <2>3
  <2> HIDE DEF Fits
  <2> QED BY <2>4
<1>2. ASSUME NEW k \in K PROVE k.try \in 1 .. a /\ k \in Copy /\ k.mail = m /\ k.inbox = i
  BY <1>0, Types DEF CopiesAreDated
<1>3. ASSUME NEW k \in K
      PROVE  \E r \in 0 .. L : \E p \in PlacesOf(m, r) :
               /\ W(k.try) = <<r, p>> /\ HasPlaces(m, k.try, r, p)
               /\ k.left \in 1 .. r /\ r - k.left + 1 \in 1 .. r
               /\ pl(k) = p[r - k.left + 1] /\ pl(k) \in Naming(m, i)
  <2>1. Fits(k.try, W(k.try))
    BY <1>1, <1>2
  <2> HIDE DEF W
  <2>2. PICK r \in 0 .. L : \E p \in PlacesOf(m, r) : W(k.try) = <<r, p>> /\ HasPlaces(m, k.try, r, p)
    BY <2>1
  <2>3. PICK p \in PlacesOf(m, r) : W(k.try) = <<r, p>> /\ HasPlaces(m, k.try, r, p)
    BY <2>2
  <2>4. r \in Nat /\ L \in Nat
    BY RcptAssumption, LenProperties
  <2>5. k.left \in 1 .. r /\ Norm[RcptsOf[m][p[r - k.left + 1]]] = k.inbox
    BY <1>2, <2>3 DEF HasPlaces
  <2>6. r - k.left + 1 \in 1 .. r
    BY <2>4, <2>5
  <2>7. pl(k) = p[r - k.left + 1]
    BY <2>3
  <2>8. p[r - k.left + 1] \in 1 .. L
    BY <2>6 DEF PlacesOf
  <2>9. pl(k) \in Naming(m, i)
    BY <1>2, <2>5, <2>7, <2>8 DEF Naming
  <2> HIDE DEF pl
  <2> QED BY <2>3, <2>5, <2>6, <2>7, <2>9
<1> HIDE DEF Fits, W, pl
<1>4. f \in [K -> (1 .. a) \X Naming(m, i)]
  BY <1>2, <1>3
<1>5. ASSUME NEW j \in K, NEW k \in K, f[j] = f[k] PROVE j = k
  <2>1. j.try = k.try /\ pl(j) = pl(k)
    BY <1>5
  <2>2. PICK r \in 0 .. L : \E p \in PlacesOf(m, r) :
               /\ W(k.try) = <<r, p>> /\ k.left \in 1 .. r /\ r - k.left + 1 \in 1 .. r
               /\ pl(k) = p[r - k.left + 1]
    BY <1>3
  <2>3. PICK p \in PlacesOf(m, r) :
               /\ W(k.try) = <<r, p>> /\ k.left \in 1 .. r /\ r - k.left + 1 \in 1 .. r
               /\ pl(k) = p[r - k.left + 1]
    BY <2>2
  <2>4. PICK x \in 0 .. L : \E q \in PlacesOf(m, x) :
               /\ W(j.try) = <<x, q>> /\ j.left \in 1 .. x /\ x - j.left + 1 \in 1 .. x
               /\ pl(j) = q[x - j.left + 1]
    BY <1>3
  <2>5. PICK q \in PlacesOf(m, x) :
               /\ W(j.try) = <<x, q>> /\ j.left \in 1 .. x /\ x - j.left + 1 \in 1 .. x
               /\ pl(j) = q[x - j.left + 1]
    BY <2>4
  <2>6. x = r /\ q = p
    BY <2>1, <2>3, <2>5
  <2>7. r - j.left + 1 = r - k.left + 1
    BY <2>1, <2>3, <2>5, <2>6 DEF PlacesOf
  <2>8. j.left = k.left
    BY <2>3, <2>5, <2>6, <2>7
  <2>9. j \in Copy /\ k \in Copy /\ j.mail = k.mail /\ j.inbox = k.inbox
    BY <1>2
  <2> QED BY <2>1, <2>8, <2>9 DEF Copy
<1>6. f \in Injection(K, (1 .. a) \X Naming(m, i))
  <2> HIDE DEF f, K, a
  <2> DEFINE T == (1 .. a) \X Naming(m, i)
  <2>1. f \in [K -> T]
    BY <1>4
  <2>2. \A j, k \in K : f[j] = f[k] => j = k
    BY <1>5
  <2> HIDE DEF T
  <2>3. f \in Injection(K, T)
    BY <2>1, <2>2, Fun_IsInj
  <2> QED BY <2>3 DEF T
<1> QED BY <1>6

LEMMA EnvelopesAreKeptBy ==
  ASSUME IInv
  PROVE  EnvelopesAreKept
<1> SUFFICES ASSUME NEW m \in Mail, NEW i \in Inbox
             PROVE  Cardinality({k \in copies : k.mail = m /\ k.inbox = i})
                      <= mail[m].attempts * Cardinality(Naming(m, i))
  BY DEF EnvelopesAreKept
<1> DEFINE K == {k \in copies : k.mail = m /\ k.inbox = i}
           a == mail[m].attempts
<1>1. PICK f : f \in Injection(K, (1 .. a) \X Naming(m, i))
  BY CopiesAreNumbered
<1>2. a \in Nat
  BY Types DEF IInv, MailState
<1>3. IsFiniteSet(1 .. a) /\ Cardinality(1 .. a) = a
  <2> HIDE DEF a
  <2>1. 1 \in Int /\ a \in Int
    BY <1>2
  <2>2. IsFiniteSet(1 .. a) /\ Cardinality(1 .. a) = IF 1 > a THEN 0 ELSE a - 1 + 1
    BY <2>1, FS_Interval
  <2>3. (IF 1 > a THEN 0 ELSE a - 1 + 1) = a
    BY <1>2
  <2> QED BY <2>2, <2>3
<1>4. IsFiniteSet(Naming(m, i))
  <2>1. IsFiniteSet(1 .. Len(RcptsOf[m]))
    BY RcptAssumption, LenProperties, FS_Interval
  <2>2. Naming(m, i) \in SUBSET (1 .. Len(RcptsOf[m]))
    BY DEF Naming
  <2> QED BY <2>1, <2>2, FS_Subset
<1>5. IsFiniteSet((1 .. a) \X Naming(m, i))
      /\ Cardinality((1 .. a) \X Naming(m, i)) = a * Cardinality(Naming(m, i))
  BY <1>3, <1>4, FS_Product
<1> HIDE DEF K, a
<1>6. Cardinality(K) <= a * Cardinality(Naming(m, i))
  BY <1>1, <1>5, FS_Injection
<1> QED BY <1>6 DEF K, a

(* No envelope is mixed up with another: an inbox holds no more copies of a
   mail than the mail names it times the attempts that were made, and none of
   a mail that does not name it. *)
THEOREM EnvelopesStayKept == Spec => []EnvelopesAreKept
<1>1. IInv => EnvelopesAreKept
  BY EnvelopesAreKeptBy
<1> QED BY <1>1, Inductive, PTL
=============================================================================

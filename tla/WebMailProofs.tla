---------------------------- MODULE WebMailProofs ----------------------------
(***************************************************************************)
(* TLAPS proofs about WebMail, for every set of inboxes and searches, any  *)
(* number of messages, and every bound on calls, acts and mishaps: however *)
(* calls overtake each other, every spinner is stopped, the list and the   *)
(* source shown are those asked for, and a message that is read stays open.*)
(***************************************************************************)
EXTENDS WebMail, FunctionTheorems, FiniteSetTheorems, SequenceTheorems, TLAPS

(* The strengthening that makes the safety properties inductive *)

CallState ==
  [kind : {"list", "search", "clear", "msg", "raw", "del", "wait"},
   arg : Inbox \cup Query \cup Id, id : Id \cup {NoMessage},
   chain : BOOLEAN, stale : BOOLEAN, served : BOOLEAN, ans : Seq(Id)]

History ==
  [heard : BOOLEAN, late : BOOLEAN, rawLate : BOOLEAN, promised : Id \cup {NoMessage}]

(* What a call carries, and which calls belong to a wait. *)
CallIsFormed(c) ==
  /\ c.kind \in {"list", "clear", "wait"} => c.arg \in Inbox
  /\ c.kind = "search" => c.arg \in Query \ {NoQuery}
  /\ c.kind \in {"msg", "raw", "del"} => c.arg \in Id
  /\ c.kind = "wait" => c.chain
  /\ c.chain => c.kind \in {"wait", "list", "msg"}
  /\ c.chain /\ c.kind = "list" => c.id \in Id

(* What a call says of the messages here, those there ever were being 1..ever:
   a list is of its inbox or search, a message once existed, and one whose
   deletion was served is gone. *)
CallIsTrue(c, here, ever) ==
  /\ c.kind = "list" => \A m \in Range(c.ans) : InboxOf[m] = c.arg
  /\ c.kind = "search" => Range(c.ans) \subseteq Matches[c.arg]
  /\ c.kind \in {"msg", "raw"} /\ c.ans # <<>> => c.arg \in 1 .. ever
  /\ c.kind = "del" => c.arg \in 1 .. ever /\ (c.served => c.arg \notin here)

(* Only a stale call is about an inbox, a search or a message the state s has
   left; with no message open, sources do not matter. *)
CallIsTimely(c, s) ==
  c.stale \/ /\ c.kind = "list" => c.arg = s.inbox
             /\ c.kind = "search" => c.arg = s.query
             /\ c.kind = "raw" /\ s.current # NoMessage => c.arg = s.current

CallsFit(cs, s, here, ever) ==
  /\ cs \in Seq(CallState)
  /\ \A n \in DOMAIN cs :
       CallIsFormed(cs[n]) /\ CallIsTrue(cs[n], here, ever) /\ CallIsTimely(cs[n], s)

(* Some call is of a kind, or belongs to a wait; at most one does. *)
HasKind(cs, kind) == \E n \in DOMAIN cs : cs[n].kind = kind
HasChain(cs) == \E n \in DOMAIN cs : cs[n].chain
OneChain(cs) == \A n, k \in DOMAIN cs : cs[n].chain /\ cs[k].chain => n = k

FlagsFit(s, cs) ==
  /\ s.loadingInbox => HasKind(cs, "list")
  /\ s.searching => HasKind(cs, "search")
  /\ s.loadingMsg => HasKind(cs, "msg")
  /\ s.waiting <=> HasChain(cs)
  /\ OneChain(cs)

(* What the state says: the message open was there, its source is its own, and
   so is the list, each unless a stale answer came. *)
StateIsTrue(s, h, ever) ==
  /\ s.current # NoMessage =>
       s.current \in 1 .. ever /\ (s.raw \in {NoMessage, s.current} \/ h.rawLate)
  /\ h.heard /\ ~h.late =>
       \A m \in Range(s.messages) :
         InboxOf[m] = s.inbox \/ (s.query # NoQuery /\ m \in Matches[s.query])

Types ==
  /\ arrived \in 0 .. MaxMail /\ stored \subseteq 1 .. arrived
  /\ route \in Page /\ page \in Page /\ auto \in BOOLEAN
  /\ st \in State /\ hist \in History /\ count \in [acts : Nat, mishaps : Nat]
  /\ Len(calls) <= MaxCalls
  /\ page \in Inbox => st.inbox = page
  /\ page = "landing" => st.inbox = NoInbox

IInv ==
  /\ Types
  /\ CallsFit(calls, st, stored, arrived)
  /\ FlagsFit(st, calls)
  /\ StateIsTrue(st, hist, arrived)

---------------------------------------------------------------------------
(* The listings: what is newest has no newer one before it. *)

(* The number of newer messages tells the messages of a set apart, so each
   place of the listing is taken, by one of them. *)
LEMMA PlacesAreTaken ==
  ASSUME NEW S \in SUBSET Id, NEW k \in 1 .. Cardinality(S)
  PROVE  \E m \in S : Cardinality({o \in S : o > m}) = k - 1
<1> DEFINE newer(m) == {o \in S : o > m}
           N == Cardinality(S)
           f == [m \in S |-> Cardinality(newer(m))]
           T == 0 .. N - 1
<1>1. IsFiniteSet(Id) /\ Id \subseteq Nat
  BY MailAssumption, FS_Interval DEF Id
<1>2. IsFiniteSet(S) /\ N \in Nat
  BY <1>1, FS_Subset, FS_CardinalityType
<1>3. ASSUME NEW m \in S
      PROVE  IsFiniteSet(newer(m)) /\ Cardinality(newer(m)) \in Nat /\ Cardinality(newer(m)) < N
  <2>1. newer(m) \in SUBSET S /\ m \notin newer(m)
    BY <1>1
  <2>2. IsFiniteSet(newer(m)) /\ Cardinality(newer(m)) <= N
        /\ (N = Cardinality(newer(m)) => S = newer(m))
    BY <1>2, <2>1, FS_Subset
  <2>3. Cardinality(newer(m)) \in Nat
    BY <2>2, FS_CardinalityType
  <2> QED BY <1>2, <2>1, <2>2, <2>3
<1>4. \A m \in S : f[m] \in T
  BY <1>2, <1>3
<1>5. ASSUME NEW m \in S, NEW o \in S, o > m PROVE f[m] > f[o]
  <2>0. S \subseteq Nat
    BY <1>1
  <2>1. newer(o) \in SUBSET newer(m) /\ o \in newer(m) /\ o \notin newer(o)
    <3>1. \A x \in S : x > o => x > m
      BY <1>5, <2>0
    <3>2. ~(o > o)
      BY <2>0
    <3> QED BY <1>5, <3>1, <3>2
  <2>2. Cardinality(newer(o)) <= Cardinality(newer(m))
        /\ (Cardinality(newer(m)) = Cardinality(newer(o)) => newer(m) = newer(o))
    BY <1>3, <2>1, FS_Subset
  <2> QED BY <1>3, <2>1, <2>2
<1>6. \A m, o \in S : f[m] = f[o] => m = o
  <2> TAKE m \in S, o \in S
  <2> HAVE f[m] = f[o]
  <2>1. m \in Nat /\ o \in Nat /\ f[m] \in Nat /\ f[o] \in Nat
    BY <1>1, <1>4, <1>2
  <2> QED BY <1>5, <2>1
<1>7. f \in [S -> T]
  BY <1>4
<1> HIDE DEF f
<1>8. f \in Injection(S, T)
  BY <1>6, <1>7, Fun_IsInj
<1>9. IsFiniteSet(T) /\ Cardinality(T) = N
  <2> HIDE DEF N
  <2>1. IsFiniteSet(0 .. N - 1) /\ Cardinality(0 .. N - 1) = IF 0 > N - 1 THEN 0 ELSE N - 1 - 0 + 1
    BY <1>2, FS_Interval
  <2>2. (IF 0 > N - 1 THEN 0 ELSE N - 1 - 0 + 1) = N
    BY <1>2
  <2> QED BY <2>1, <2>2
<1>10. f \in Surjection(S, T)
  <2> HIDE DEF T, N
  <2>1. Cardinality(S) = Cardinality(T)
    BY <1>9 DEF N
  <2> QED BY <1>8, <1>9, <2>1, FS_Injection
<1>11. k - 1 \in T
  BY <1>2
<1>12. PICK m \in S : f[m] = k - 1
  BY <1>10, <1>11 DEF Surjection
<1> QED BY <1>12 DEF f

LEMMA NewestHolds ==
  ASSUME NEW S \in SUBSET Id
  PROVE  Newest(S) \in Seq(Id) /\ Range(Newest(S)) \subseteq S
<1> DEFINE N == Cardinality(S)
           place(k) == CHOOSE m \in S : Cardinality({o \in S : o > m}) = k - 1
<1>1. N \in Nat
  <2>1. IsFiniteSet(Id)
    BY MailAssumption, FS_Interval DEF Id
  <2>2. IsFiniteSet(S)
    BY <2>1, FS_Subset
  <2> QED BY <2>2, FS_CardinalityType
<1>2. \A k \in 1 .. N : place(k) \in S
  BY PlacesAreTaken
<1>3. Newest(S) = [k \in 1 .. N |-> place(k)]
  BY DEF Newest
<1> HIDE DEF place, N
<1>4. Newest(S) \in [1 .. N -> Id]
  BY <1>2, <1>3
<1>5. \A m \in Range(Newest(S)) : m \in S
  BY <1>2, <1>3 DEF Range
<1> QED BY <1>1, <1>4, <1>5, SeqDef

LEMMA ListingHolds ==
  ASSUME NEW i, stored \subseteq 1 .. arrived, arrived \in 0 .. MaxMail
  PROVE  Listing(i) \in Seq(Id) /\ \A m \in Range(Listing(i)) : InboxOf[m] = i
<1>1. stored \subseteq Id
  <2>1. \A m \in 1 .. arrived : m \in 1 .. MaxMail
    BY MailAssumption
  <2> QED BY <2>1 DEF Id
<1> DEFINE S == {m \in stored : InboxOf[m] = i}
<1>2. S \in SUBSET Id
  BY <1>1
<1>3. \A m \in S : InboxOf[m] = i
  OBVIOUS
<1> HIDE DEF S
<1>4. Newest(S) \in Seq(Id) /\ Range(Newest(S)) \subseteq S
  BY <1>2, NewestHolds
<1> QED BY <1>3, <1>4 DEF Listing, S

---------------------------------------------------------------------------
(* The ways a list of calls is built *)

LEMMA AppendOf ==
  ASSUME NEW cs \in Seq(CallState), NEW c \in CallState
  PROVE  /\ Append(cs, c) \in Seq(CallState)
         /\ Len(Append(cs, c)) = Len(cs) + 1
         /\ DOMAIN cs \subseteq DOMAIN Append(cs, c)
         /\ \A n \in DOMAIN cs : Append(cs, c)[n] = cs[n]
         /\ Len(cs) + 1 \in DOMAIN Append(cs, c) /\ Append(cs, c)[Len(cs) + 1] = c
         /\ \A n \in DOMAIN Append(cs, c) : n \in DOMAIN cs \/ n = Len(cs) + 1
         /\ Len(cs) + 1 \notin DOMAIN cs
OBVIOUS

(* The place in a list that its k-th call had before the n-th was taken out. *)
Before(k, n) == IF k < n THEN k ELSE k + 1

LEMMA RestOf ==
  ASSUME NEW cs \in Seq(CallState), NEW n \in DOMAIN cs
  PROVE  /\ RemoveAt(cs, n) \in Seq(CallState)
         /\ Len(RemoveAt(cs, n)) = Len(cs) - 1
         /\ \A k \in DOMAIN RemoveAt(cs, n) :
              /\ Before(k, n) \in DOMAIN cs \ {n}
              /\ RemoveAt(cs, n)[k] = cs[Before(k, n)]
         /\ \A j, k \in DOMAIN RemoveAt(cs, n) : Before(j, n) = Before(k, n) => j = k
         /\ \A j \in DOMAIN cs \ {n} : \E k \in DOMAIN RemoveAt(cs, n) : j = Before(k, n)
<1> DEFINE new == RemoveAt(cs, n)
           L == Len(cs)
           front == SubSeq(cs, 1, n - 1)
           back == SubSeq(cs, n + 1, L)
<1>1. L \in Nat /\ DOMAIN cs = 1 .. L /\ n \in 1 .. L
  OBVIOUS
<1>2. /\ front \in Seq(CallState) /\ Len(front) = n - 1
      /\ \A k \in 1 .. n - 1 : front[k] = cs[k]
  BY <1>1
<1>3. /\ back \in Seq(CallState) /\ Len(back) = L - n
      /\ \A k \in 1 .. L - n : back[k] = cs[k + n]
  BY <1>1
<1>4. new = front \o back
  BY DEF RemoveAt
<1> HIDE DEF front, back, new, L
<1>5. new \in Seq(CallState) /\ Len(new) = Len(front) + Len(back)
  BY <1>2, <1>3, <1>4, ConcatProperties
<1>6. Len(new) = L - 1 /\ DOMAIN new = 1 .. L - 1
  BY <1>1, <1>2, <1>3, <1>5
<1>7. ASSUME NEW k \in 1 .. L - 1
      PROVE  Before(k, n) \in (1 .. L) \ {n} /\ new[k] = cs[Before(k, n)]
  <2>1. CASE k \in 1 .. n - 1
    BY <1>1, <1>2, <1>3, <1>4, <2>1 DEF Before
  <2>2. CASE k \notin 1 .. n - 1
    <3>1. k - (n - 1) \in 1 .. L - n /\ (k - (n - 1)) + n = k + 1 /\ ~(k < n)
      BY <1>1, <2>2
    <3>2. new[k] = IF k <= Len(front) THEN front[k] ELSE back[k - Len(front)]
      <4>1. k \in 1 .. Len(front) + Len(back)
        BY <1>1, <1>2, <1>3
      <4> QED BY <1>2, <1>3, <1>4, <4>1, ConcatProperties
    <3>3. ~(k <= Len(front)) /\ k - Len(front) = k - (n - 1)
      BY <1>1, <1>2, <2>2
    <3>4. new[k] = cs[k + 1]
      BY <1>3, <3>1, <3>2, <3>3
    <3>5. Before(k, n) = k + 1
      BY <3>1 DEF Before
    <3>6. k + 1 \in 1 .. L /\ k + 1 # n
      BY <1>1, <2>2
    <3> QED BY <3>4, <3>5, <3>6
  <2> QED BY <2>1, <2>2
<1>8. \A j, k \in 1 .. L - 1 : Before(j, n) = Before(k, n) => j = k
  BY <1>1 DEF Before
<1>9. ASSUME NEW j \in (1 .. L) \ {n} PROVE \E k \in 1 .. L - 1 : j = Before(k, n)
  <2>1. CASE j < n
    <3>1. j \in 1 .. L - 1 /\ j = Before(j, n)
      BY <1>1, <2>1 DEF Before
    <3> QED BY <3>1
  <2>2. CASE ~(j < n)
    <3>1. j - 1 \in 1 .. L - 1 /\ j = Before(j - 1, n)
      BY <1>1, <2>2 DEF Before
    <3> QED BY <3>1
  <2> QED BY <2>1, <2>2
<1>10. DOMAIN new = 1 .. L - 1 /\ DOMAIN cs = 1 .. L
  BY <1>1, <1>6
<1>11. /\ \A k \in DOMAIN new : Before(k, n) \in DOMAIN cs \ {n} /\ new[k] = cs[Before(k, n)]
       /\ \A j, k \in DOMAIN new : Before(j, n) = Before(k, n) => j = k
       /\ \A j \in DOMAIN cs \ {n} : \E k \in DOMAIN new : j = Before(k, n)
  BY <1>7, <1>8, <1>9, <1>10
<1>12. Len(new) = Len(cs) - 1
  BY <1>6 DEF L
<1> QED BY <1>5, <1>11, <1>12 DEF new

(* Calls that are changed each by itself. *)
LEMMA EachOf ==
  ASSUME NEW cs \in Seq(CallState), NEW new, DOMAIN new = DOMAIN cs,
         new = [n \in DOMAIN new |-> new[n]], \A n \in DOMAIN cs : new[n] \in CallState
  PROVE  new \in Seq(CallState) /\ Len(new) = Len(cs)
<1>1. DOMAIN cs = 1 .. Len(cs) /\ Len(cs) \in Nat
  OBVIOUS
<1>2. new \in [1 .. Len(cs) -> CallState]
  BY <1>1
<1>3. new \in Seq(CallState)
  BY <1>1, <1>2, SeqDef
<1>4. Len(new) \in Nat /\ DOMAIN new = 1 .. Len(new)
  BY <1>3
<1>5. Len(new) = Len(cs)
  BY <1>1, <1>4
<1> QED BY <1>3, <1>5

LEMMA StaleOf ==
  ASSUME NEW cs \in Seq(CallState), NEW kinds
  PROVE  /\ Stale(cs, kinds) \in Seq(CallState) /\ Len(Stale(cs, kinds)) = Len(cs)
         /\ DOMAIN Stale(cs, kinds) = DOMAIN cs
         /\ \A n \in DOMAIN cs :
              LET c == Stale(cs, kinds)[n] IN
              /\ c \in CallState /\ c.kind = cs[n].kind /\ c.arg = cs[n].arg /\ c.id = cs[n].id
              /\ c.chain = cs[n].chain /\ c.served = cs[n].served /\ c.ans = cs[n].ans
              /\ cs[n].stale => c.stale
              /\ cs[n].kind \in kinds => c.stale
<1> DEFINE new == Stale(cs, kinds)
<1>1. DOMAIN new = DOMAIN cs /\ new = [n \in DOMAIN new |-> new[n]]
  BY DEF Stale
<1>2. ASSUME NEW n \in DOMAIN cs
      PROVE  LET c == new[n] IN
              /\ c \in CallState /\ c.kind = cs[n].kind /\ c.arg = cs[n].arg /\ c.id = cs[n].id
              /\ c.chain = cs[n].chain /\ c.served = cs[n].served /\ c.ans = cs[n].ans
              /\ cs[n].stale => c.stale
              /\ cs[n].kind \in kinds => c.stale
  <2>1. cs[n] \in CallState
    OBVIOUS
  <2>2. new[n] = [cs[n] EXCEPT !.stale = cs[n].stale \/ cs[n].kind \in kinds]
    BY DEF Stale
  <2>3. (cs[n].stale \/ cs[n].kind \in kinds) \in BOOLEAN
    OBVIOUS
  <2> QED BY <2>1, <2>2, <2>3 DEF CallState
<1>3. \A n \in DOMAIN cs : new[n] \in CallState
  BY <1>2
<1> HIDE DEF new
<1>4. new \in Seq(CallState) /\ Len(new) = Len(cs)
  BY <1>1, <1>3, EachOf
<1> QED BY <1>1, <1>2, <1>4 DEF new

(* The n-th call answered. *)
Answered(cs, n, ans) == [cs EXCEPT ![n].served = TRUE, ![n].ans = ans]

LEMMA ServedOf ==
  ASSUME NEW cs \in Seq(CallState), NEW n \in DOMAIN cs, NEW ans \in Seq(Id), NEW new,
         new = Answered(cs, n, ans)
  PROVE  /\ new \in Seq(CallState) /\ Len(new) = Len(cs) /\ DOMAIN new = DOMAIN cs
         /\ \A k \in DOMAIN cs :
              /\ new[k].kind = cs[k].kind /\ new[k].arg = cs[k].arg /\ new[k].id = cs[k].id
              /\ new[k].chain = cs[k].chain /\ new[k].stale = cs[k].stale
              /\ k # n => new[k] = cs[k]
         /\ new[n].served /\ new[n].ans = ans
<1>1. cs[n] \in CallState
  OBVIOUS
<1> DEFINE c == [[cs[n] EXCEPT !.served = TRUE] EXCEPT !.ans = ans]
<1>2. /\ c \in CallState /\ c.kind = cs[n].kind /\ c.arg = cs[n].arg /\ c.id = cs[n].id
      /\ c.chain = cs[n].chain /\ c.stale = cs[n].stale /\ c.served /\ c.ans = ans
  BY <1>1 DEF CallState
<1>3. new = [cs EXCEPT ![n] = c]
  BY DEF Answered
<1> HIDE DEF c
<1>4. DOMAIN new = DOMAIN cs /\ new[n] = c /\ \A k \in DOMAIN cs : k # n => new[k] = cs[k]
  BY <1>3
<1>5. new \in Seq(CallState) /\ Len(new) = Len(cs)
  <2>1. new = [k \in DOMAIN new |-> new[k]]
    BY <1>3
  <2>2. \A k \in DOMAIN cs : new[k] \in CallState
    BY <1>2, <1>4
  <2> QED BY <1>4, <2>1, <2>2, EachOf
<1> QED BY <1>2, <1>4, <1>5

---------------------------------------------------------------------------
(* Kinds and waits of a list that is built from another *)

LEMMA AppendKinds ==
  ASSUME NEW cs \in Seq(CallState), NEW c \in CallState
  PROVE  /\ \A k : HasKind(Append(cs, c), k) <=> (HasKind(cs, k) \/ c.kind = k)
         /\ HasChain(Append(cs, c)) <=> (HasChain(cs) \/ c.chain)
         /\ OneChain(cs) /\ ~(c.chain /\ HasChain(cs)) => OneChain(Append(cs, c))
<1> DEFINE new == Append(cs, c)
           last == Len(cs) + 1
<1>1. /\ DOMAIN cs \subseteq DOMAIN new /\ \A n \in DOMAIN cs : new[n] = cs[n]
      /\ last \in DOMAIN new /\ new[last] = c
      /\ \A n \in DOMAIN new : n \in DOMAIN cs \/ n = last
  BY AppendOf
<1> HIDE DEF new, last
<1>2. \A k : HasKind(new, k) <=> (HasKind(cs, k) \/ c.kind = k)
  BY <1>1 DEF HasKind
<1>3. HasChain(new) <=> (HasChain(cs) \/ c.chain)
  BY <1>1 DEF HasChain
<1>4. OneChain(cs) /\ ~(c.chain /\ HasChain(cs)) => OneChain(new)
  BY <1>1 DEF HasChain, OneChain
<1> QED BY <1>2, <1>3, <1>4 DEF new

LEMMA RestKinds ==
  ASSUME NEW cs \in Seq(CallState), NEW n \in DOMAIN cs
  PROVE  /\ \A k : HasKind(cs, k) /\ cs[n].kind # k => HasKind(RemoveAt(cs, n), k)
         /\ ~cs[n].chain => (HasChain(RemoveAt(cs, n)) <=> HasChain(cs))
         /\ OneChain(cs) /\ cs[n].chain => ~HasChain(RemoveAt(cs, n))
         /\ OneChain(cs) => OneChain(RemoveAt(cs, n))
<1> DEFINE new == RemoveAt(cs, n)
           old(k) == Before(k, n)
<1>1. /\ \A k \in DOMAIN new : old(k) \in DOMAIN cs \ {n} /\ new[k] = cs[old(k)]
      /\ \A j, k \in DOMAIN new : old(j) = old(k) => j = k
      /\ \A j \in DOMAIN cs \ {n} : \E k \in DOMAIN new : j = old(k)
  BY RestOf
<1> HIDE DEF new, old
<1>2. ASSUME NEW k, HasKind(cs, k), cs[n].kind # k PROVE HasKind(new, k)
  <2>1. PICK j \in DOMAIN cs : cs[j].kind = k
    BY <1>2 DEF HasKind
  <2>2. PICK i \in DOMAIN new : j = old(i)
    BY <1>1, <1>2, <2>1
  <2> QED BY <1>1, <2>1, <2>2 DEF HasKind
<1>3. HasChain(new) => HasChain(cs)
  BY <1>1 DEF HasChain
<1>4. ASSUME ~cs[n].chain, HasChain(cs) PROVE HasChain(new)
  <2>1. PICK j \in DOMAIN cs : cs[j].chain
    BY <1>4 DEF HasChain
  <2>2. PICK i \in DOMAIN new : j = old(i)
    BY <1>1, <1>4, <2>1
  <2> QED BY <1>1, <2>1, <2>2 DEF HasChain
<1>5. OneChain(cs) /\ cs[n].chain => ~HasChain(new)
  BY <1>1 DEF HasChain, OneChain
<1>6. OneChain(cs) => OneChain(new)
  BY <1>1 DEF OneChain
<1> QED BY <1>2, <1>3, <1>4, <1>5, <1>6 DEF new

(* Calls that keep kind and chain. *)
LEMMA SameKinds ==
  ASSUME NEW cs, NEW new, DOMAIN new = DOMAIN cs,
         \A n \in DOMAIN cs : new[n].kind = cs[n].kind /\ new[n].chain = cs[n].chain
  PROVE  /\ \A k : HasKind(new, k) <=> HasKind(cs, k)
         /\ HasChain(new) <=> HasChain(cs)
         /\ OneChain(cs) => OneChain(new)
BY DEF HasKind, HasChain, OneChain

---------------------------------------------------------------------------
(* What keeps calls fit *)

LEMMA AppendFits ==
  ASSUME NEW cs, NEW s, NEW here, NEW ever, NEW c \in CallState, CallsFit(cs, s, here, ever),
         CallIsFormed(c), CallIsTrue(c, here, ever), CallIsTimely(c, s)
  PROVE  CallsFit(Append(cs, c), s, here, ever)
<1> DEFINE new == Append(cs, c)
<1>1. cs \in Seq(CallState)
  BY DEF CallsFit
<1>2. /\ new \in Seq(CallState)
      /\ \A n \in DOMAIN cs : new[n] = cs[n]
      /\ \A n \in DOMAIN new : n \in DOMAIN cs \/ new[n] = c
  BY <1>1, AppendOf
<1> HIDE DEF new
<1>3. ASSUME NEW n \in DOMAIN new
      PROVE  CallIsFormed(new[n]) /\ CallIsTrue(new[n], here, ever) /\ CallIsTimely(new[n], s)
  BY <1>2 DEF CallsFit
<1> QED BY <1>2, <1>3 DEF CallsFit, new

LEMMA RestFits ==
  ASSUME NEW cs, NEW s, NEW here, NEW ever, CallsFit(cs, s, here, ever), NEW n \in DOMAIN cs
  PROVE  CallsFit(RemoveAt(cs, n), s, here, ever)
<1> DEFINE new == RemoveAt(cs, n)
<1>1. cs \in Seq(CallState)
  BY DEF CallsFit
<1>2. new \in Seq(CallState) /\ \A k \in DOMAIN new : \E j \in DOMAIN cs : new[k] = cs[j]
  BY <1>1, RestOf
<1> HIDE DEF new
<1>3. ASSUME NEW k \in DOMAIN new
      PROVE  CallIsFormed(new[k]) /\ CallIsTrue(new[k], here, ever) /\ CallIsTimely(new[k], s)
  BY <1>2 DEF CallsFit
<1> QED BY <1>2, <1>3 DEF CallsFit, new

(* The state moves on, and leaves stale what it does not stay with. *)
LEMMA StaleFits ==
  ASSUME NEW cs, NEW s, NEW t, NEW here, NEW ever, NEW kinds, CallsFit(cs, s, here, ever),
         "list" \in kinds \/ t.inbox = s.inbox, "search" \in kinds \/ t.query = s.query,
         "raw" \in kinds \/ t.current \in {s.current, NoMessage}
  PROVE  CallsFit(Stale(cs, kinds), t, here, ever)
<1> DEFINE new == Stale(cs, kinds)
<1>1. cs \in Seq(CallState)
  BY DEF CallsFit
<1>2. /\ new \in Seq(CallState) /\ DOMAIN new = DOMAIN cs
      /\ \A n \in DOMAIN cs :
           /\ new[n].kind = cs[n].kind /\ new[n].arg = cs[n].arg /\ new[n].id = cs[n].id
           /\ new[n].chain = cs[n].chain /\ new[n].served = cs[n].served
           /\ new[n].ans = cs[n].ans
           /\ cs[n].stale => new[n].stale
           /\ cs[n].kind \in kinds => new[n].stale
  BY <1>1, StaleOf
<1> HIDE DEF new
<1>3. ASSUME NEW n \in DOMAIN new
      PROVE  CallIsFormed(new[n]) /\ CallIsTrue(new[n], here, ever) /\ CallIsTimely(new[n], t)
  <2>1. CallIsFormed(cs[n]) /\ CallIsTrue(cs[n], here, ever) /\ CallIsTimely(cs[n], s)
    BY <1>2 DEF CallsFit
  <2>2. CallIsFormed(new[n])
    BY <1>2, <2>1 DEF CallIsFormed
  <2>3. CallIsTrue(new[n], here, ever)
    BY <1>2, <2>1 DEF CallIsTrue
  <2>4. CallIsTimely(new[n], t)
    BY <1>2, <2>1 DEF CallIsTimely
  <2> QED BY <2>2, <2>3, <2>4
<1> QED BY <1>2, <1>3 DEF CallsFit, new

LEMMA StateFits ==
  ASSUME NEW cs, NEW s, NEW t, NEW here, NEW ever, CallsFit(cs, s, here, ever),
         t.inbox = s.inbox, t.query = s.query, t.current \in {s.current, NoMessage}
  PROVE  CallsFit(cs, t, here, ever)
<1>1. \A n \in DOMAIN cs : CallIsTimely(cs[n], s) => CallIsTimely(cs[n], t)
  BY DEF CallIsTimely
<1> QED BY <1>1 DEF CallsFit

(* Messages arrive, and are deleted. *)
LEMMA ServerFits ==
  ASSUME NEW cs, NEW s, NEW here, NEW ever \in Nat, NEW now, NEW since \in Nat,
         CallsFit(cs, s, here, ever), ever <= since,
         \A m \in 1 .. ever : m \in now => m \in here
  PROVE  CallsFit(cs, s, now, since)
<1>1. \A m \in 1 .. ever : m \in 1 .. since
  OBVIOUS
<1>2. \A n \in DOMAIN cs : CallIsTrue(cs[n], here, ever) => CallIsTrue(cs[n], now, since)
  BY <1>1 DEF CallIsTrue
<1> QED BY <1>2 DEF CallsFit

---------------------------------------------------------------------------
(* New calls *)

(* A call as it is sent: well formed, and true of the messages at hand. *)
LEMMA CallIsNew ==
  ASSUME NEW kind \in {"list", "search", "clear", "msg", "raw", "del", "wait"}, NEW arg,
         NEW id \in Id \cup {NoMessage}, NEW chain \in BOOLEAN, Types,
         kind \in {"list", "clear", "wait"} => arg \in Inbox,
         kind = "search" => arg \in Query \ {NoQuery},
         kind \in {"msg", "raw"} => arg \in Id,
         kind = "del" => arg \in 1 .. arrived,
         kind = "wait" => chain, chain => kind \in {"wait", "list", "msg"},
         chain /\ kind = "list" => id \in Id
  PROVE  LET c == Call(kind, arg, id, chain) IN
         /\ c \in CallState /\ CallIsFormed(c) /\ CallIsTrue(c, stored, arrived)
         /\ c.kind = kind /\ c.arg = arg /\ c.id = id /\ c.chain = chain
<1> DEFINE c == Call(kind, arg, id, chain)
           ans == IF kind \in {"msg", "raw"} /\ arg \in stored THEN <<arg>> ELSE <<>>
<1>1. /\ c.kind = kind /\ c.arg = arg /\ c.id = id /\ c.chain = chain
      /\ c.stale = FALSE /\ c.served = (kind \in {"msg", "raw"}) /\ c.ans = ans
  BY DEF Call
<1>2. stored \subseteq 1 .. arrived /\ \A m \in 1 .. arrived : m \in Id
  BY MailAssumption DEF Types, Id
<1>3. ans \in Seq(Id)
  <2>1. CASE kind \in {"msg", "raw"} /\ arg \in stored
    BY <1>2, <2>1
  <2>2. CASE ~(kind \in {"msg", "raw"} /\ arg \in stored)
    BY <2>2
  <2> QED BY <2>1, <2>2
<1>4. arg \in Inbox \cup Query \cup Id
  BY <1>2
<1>5. c \in CallState
  BY <1>3, <1>4 DEF Call, CallState
<1>6. CallIsFormed(c)
  BY <1>1, <1>2 DEF CallIsFormed
<1>7. CallIsTrue(c, stored, arrived)
  <2>1. kind \in {"list", "search"} => Range(ans) = {}
    BY DEF Range
  <2>2. ans # <<>> => arg \in stored
    OBVIOUS
  <2> HIDE DEF ans, c
  <2> QED BY <1>1, <1>2, <2>1, <2>2 DEF CallIsTrue
<1> QED BY <1>1, <1>5, <1>6, <1>7

(* The calls that belong to no wait. *)
LEMMA AloneIsNew ==
  ASSUME Types, NEW kind, NEW arg,
         \/ kind \in {"list", "clear"} /\ arg \in Inbox
         \/ kind = "search" /\ arg \in Query \ {NoQuery}
         \/ kind \in {"msg", "raw"} /\ arg \in Id
         \/ kind = "del" /\ arg \in 1 .. arrived
  PROVE  LET c == Call(kind, arg, NoMessage, FALSE) IN
         /\ c \in CallState /\ CallIsFormed(c) /\ CallIsTrue(c, stored, arrived)
         /\ c.kind = kind /\ c.arg = arg /\ c.chain = FALSE
<1>1. PICK chain : chain = FALSE
  OBVIOUS
<1>2. /\ kind \in {"list", "search", "clear", "msg", "raw", "del", "wait"}
      /\ NoMessage \in Id \cup {NoMessage} /\ chain \in BOOLEAN /\ ~chain
  BY <1>1
<1>3. /\ kind \in {"list", "clear", "wait"} => arg \in Inbox
      /\ kind = "search" => arg \in Query \ {NoQuery}
      /\ kind \in {"msg", "raw"} => arg \in Id
      /\ kind = "del" => arg \in 1 .. arrived
      /\ kind # "wait"
  OBVIOUS
<1> DEFINE c == Call(kind, arg, NoMessage, chain)
<1>4. /\ c \in CallState /\ CallIsFormed(c) /\ CallIsTrue(c, stored, arrived)
      /\ c.kind = kind /\ c.arg = arg /\ c.chain = chain
  BY <1>2, <1>3, CallIsNew
<1> QED BY <1>1, <1>4

(* The calls of a wait. *)
LEMMA ChainIsNew ==
  ASSUME Types, NEW kind, NEW arg, NEW id \in Id \cup {NoMessage},
         \/ kind = "wait" /\ arg \in Inbox
         \/ kind = "list" /\ arg \in Inbox /\ id \in Id
         \/ kind = "msg" /\ arg \in Id
  PROVE  LET c == Call(kind, arg, id, TRUE) IN
         /\ c \in CallState /\ CallIsFormed(c) /\ CallIsTrue(c, stored, arrived)
         /\ c.kind = kind /\ c.arg = arg /\ c.chain = TRUE
<1> DEFINE c == Call(kind, arg, id, TRUE)
           ans == IF kind = "msg" /\ arg \in stored THEN <<arg>> ELSE <<>>
<1>1. /\ c.kind = kind /\ c.arg = arg /\ c.id = id /\ c.chain = TRUE
      /\ c.stale = FALSE /\ c.served = (kind = "msg") /\ c.ans = ans
  BY DEF Call
<1>2. stored \subseteq 1 .. arrived /\ \A m \in 1 .. arrived : m \in Id
  BY MailAssumption DEF Types, Id
<1>3. ans \in Seq(Id) /\ (ans # <<>> => arg \in stored) /\ (kind = "list" => Range(ans) = {})
  <2>1. CASE kind = "msg" /\ arg \in stored
    BY <1>2, <2>1
  <2>2. CASE ~(kind = "msg" /\ arg \in stored)
    BY <2>2 DEF Range
  <2> QED BY <2>1, <2>2
<1>4. c \in CallState
  BY <1>3 DEF Call, CallState
<1> HIDE DEF c, ans
<1>5. CallIsFormed(c)
  BY <1>1 DEF CallIsFormed
<1>6. CallIsTrue(c, stored, arrived)
  BY <1>1, <1>2, <1>3 DEF CallIsTrue
<1> QED BY <1>1, <1>4, <1>5, <1>6 DEF c

(* loadMessages: the list it asks for is the open inbox's, and stops the
   skeleton it shows. *)
LEMMA AskFits ==
  ASSUME Types, NEW s \in State, NEW cs, CallsFit(cs, s, stored, arrived)
  PROVE  CallsFit(AskMessages(s, cs), s, stored, arrived)
<1> DEFINE c == Call("list", s.inbox, NoMessage, FALSE)
<1>1. CASE s.inbox = NoInbox
  BY <1>1 DEF AskMessages
<1>2. CASE s.inbox # NoInbox
  <2>1. s.inbox \in Inbox
    BY <1>2 DEF State
  <2>2. PICK i \in Inbox : i = s.inbox
    BY <2>1
  <2> DEFINE d == Call("list", i, NoMessage, FALSE)
  <2>5. /\ d \in CallState /\ CallIsFormed(d) /\ CallIsTrue(d, stored, arrived)
        /\ d.kind = "list" /\ d.arg = i
    BY AloneIsNew
  <2>3. /\ c \in CallState /\ CallIsFormed(c) /\ CallIsTrue(c, stored, arrived)
        /\ c.kind = "list" /\ c.arg = s.inbox
    BY <2>2, <2>5
  <2>4. CallIsTimely(c, s)
    BY <2>3 DEF CallIsTimely
  <2> HIDE DEF c
  <2>6. CallsFit(Append(cs, c), s, stored, arrived)
    BY <2>3, <2>4, AppendFits
  <2> QED BY <1>2, <2>6 DEF AskMessages, c
<1> QED BY <1>1, <1>2

LEMMA LoadingTypes ==
  ASSUME NEW s \in State
  PROVE  /\ LoadingMessages(s) \in State
         /\ LoadingMessages(s).inbox = s.inbox /\ LoadingMessages(s).messages = s.messages
         /\ LoadingMessages(s).current = s.current /\ LoadingMessages(s).raw = s.raw
         /\ LoadingMessages(s).query = s.query /\ LoadingMessages(s).loadingMsg = s.loadingMsg
         /\ LoadingMessages(s).searching = s.searching
         /\ LoadingMessages(s).waiting = s.waiting
         /\ s.inbox = NoInbox => LoadingMessages(s).loadingInbox = s.loadingInbox
BY DEF LoadingMessages, State

(* FlagsFit sees of the calls only kinds and waits. *)
LEMMA FlagsKept ==
  ASSUME NEW s, NEW cs, NEW t, NEW ds, FlagsFit(s, cs),
         t.loadingInbox => s.loadingInbox, t.searching => s.searching,
         t.loadingMsg => s.loadingMsg, t.waiting <=> s.waiting,
         \A k : HasKind(cs, k) => HasKind(ds, k), HasChain(ds) <=> HasChain(cs),
         OneChain(cs) => OneChain(ds)
  PROVE  FlagsFit(t, ds)
BY DEF FlagsFit

LEMMA FlagsOfAppend ==
  ASSUME NEW s, NEW cs \in Seq(CallState), NEW c \in CallState, ~c.chain, FlagsFit(s, cs)
  PROVE  FlagsFit(s, Append(cs, c))
BY AppendKinds, FlagsKept

LEMMA AskFlags ==
  ASSUME Types, NEW s \in State, NEW cs \in Seq(CallState), FlagsFit(s, cs)
  PROVE  /\ FlagsFit(LoadingMessages(s), AskMessages(s, cs))
         /\ FlagsFit(s, AskMessages(s, cs))
<1> DEFINE c == Call("list", s.inbox, NoMessage, FALSE)
           t == LoadingMessages(s)
<1>1. /\ t.loadingMsg = s.loadingMsg /\ t.searching = s.searching /\ t.waiting = s.waiting
      /\ s.inbox = NoInbox => t.loadingInbox = s.loadingInbox
  BY LoadingTypes
<1> HIDE DEF t
<1>2. CASE s.inbox = NoInbox
  BY <1>1, <1>2 DEF AskMessages, t, FlagsFit
<1>3. CASE s.inbox # NoInbox
  <2>1. s.inbox \in Inbox
    BY <1>3 DEF State
  <2>2. c \in CallState /\ c.kind = "list" /\ c.chain = FALSE
    BY <2>1, AloneIsNew
  <2> HIDE DEF c
  <2>3. FlagsFit(s, Append(cs, c)) /\ HasKind(Append(cs, c), "list")
    BY <2>2, FlagsOfAppend, AppendKinds
  <2>4. FlagsFit(t, Append(cs, c))
    BY <1>1, <2>3 DEF FlagsFit
  <2> QED BY <1>3, <2>3, <2>4 DEF AskMessages, c, t
<1> QED BY <1>2, <1>3

---------------------------------------------------------------------------
(* What the user does *)

LEMMA TrueMoves ==
  ASSUME NEW s, NEW t, NEW h, NEW g, NEW ever \in Nat, NEW since \in Nat, ever <= since,
         StateIsTrue(s, h, ever), t.current \in {s.current, NoMessage}, t.raw = s.raw,
         t.inbox = s.inbox, t.query = s.query, t.messages = s.messages,
         g.heard = h.heard, g.late = h.late, g.rawLate = h.rawLate
  PROVE  StateIsTrue(t, g, since)
<1>1. \A m \in 1 .. ever : m \in 1 .. since
  OBVIOUS
<1> QED BY <1>1 DEF StateIsTrue

LEMMA PromiseEnds ==
  ASSUME Types, hist' = [hist EXCEPT !.promised = NoMessage]
  PROVE  /\ hist' \in History /\ hist'.heard = hist.heard /\ hist'.late = hist.late
         /\ hist'.rawLate = hist.rawLate
BY DEF Types, History

LEMMA ActCounts ==
  ASSUME Types, UserActs
  PROVE  count' \in [acts : Nat, mishaps : Nat] /\ count'.acts # count.acts
BY DEF Types, UserActs

LEMMA MishapCounts ==
  ASSUME Types, Mishap \/ UNCHANGED count
  PROVE  count' \in [acts : Nat, mishaps : Nat]
BY DEF Types, Mishap

(* An act that stays in the visit: inbox, query, list and source are as they
   were, and the message open is, or is closed. *)
LEMMA ActKeeps ==
  ASSUME IInv, NEW s \in State, NEW cs, AsksInVisit(s, cs),
         s.inbox = st.inbox, s.query = st.query, s.messages = st.messages, s.raw = st.raw,
         s.current \in {st.current, NoMessage}, Len(cs) <= MaxCalls,
         CallsFit(cs, s, stored, arrived), FlagsFit(s, cs)
  PROVE  IInv'
<1>1. /\ Types /\ UserActs /\ st' = s /\ calls' = cs
      /\ hist' = [hist EXCEPT !.promised = NoMessage]
      /\ UNCHANGED <<arrived, stored, route, page, auto>>
  BY DEF IInv, AsksInVisit, Asks
<1>2. /\ hist' \in History /\ hist'.heard = hist.heard /\ hist'.late = hist.late
      /\ hist'.rawLate = hist.rawLate
  BY <1>1, PromiseEnds
<1>3. count' \in [acts : Nat, mishaps : Nat]
  BY <1>1, ActCounts
<1>4. Types'
  BY <1>1, <1>2, <1>3 DEF Types
<1>5. StateIsTrue(s, hist', arrived)
  <2>1. arrived \in Nat /\ arrived <= arrived /\ StateIsTrue(st, hist, arrived)
    BY <1>1, MailAssumption DEF Types, IInv
  <2> QED BY <1>2, <2>1, TrueMoves
<1> QED BY <1>1, <1>4, <1>5 DEF IInv

(* One more call, sent on its own. *)
LEMMA SendKeeps ==
  ASSUME IInv, RoomForCall, NEW s \in State, NEW c \in CallState,
         AsksInVisit(s, Append(calls, c)),
         s.inbox = st.inbox, s.query = st.query, s.messages = st.messages, s.raw = st.raw,
         s.current = st.current,
         CallIsFormed(c), CallIsTrue(c, stored, arrived), CallIsTimely(c, st),
         FlagsFit(s, Append(calls, c))
  PROVE  IInv'
<1>1. CallsFit(calls, st, stored, arrived) /\ calls \in Seq(CallState)
  BY DEF IInv, CallsFit
<1>2. CallsFit(Append(calls, c), st, stored, arrived)
  BY <1>1, AppendFits
<1>3. CallsFit(Append(calls, c), s, stored, arrived)
  BY <1>2, StateFits
<1>4. Len(Append(calls, c)) <= MaxCalls
  BY <1>1, PageBoundAssumption DEF RoomForCall
<1> QED BY <1>3, <1>4, ActKeeps

LEMMA OpenMessageKeeps ==
  ASSUME IInv, NEW m \in Id, OpenMessage(m) PROVE IInv'
<1> DEFINE s == [st EXCEPT !.loadingMsg = TRUE]
           c == Call("msg", m, NoMessage, FALSE)
<1>1. Types /\ calls \in Seq(CallState) /\ FlagsFit(st, calls)
  BY DEF IInv, CallsFit
<1>2. /\ s \in State /\ s.inbox = st.inbox /\ s.query = st.query /\ s.messages = st.messages
      /\ s.raw = st.raw /\ s.current = st.current /\ s.loadingInbox = st.loadingInbox
      /\ s.searching = st.searching /\ s.waiting = st.waiting
  BY <1>1 DEF Types, State
<1>3. /\ c \in CallState /\ CallIsFormed(c) /\ CallIsTrue(c, stored, arrived)
      /\ c.kind = "msg" /\ ~c.chain
  BY <1>1, AloneIsNew
<1>4. RoomForCall /\ AsksInVisit(s, Append(calls, c))
  BY DEF OpenMessage
<1> HIDE DEF s, c
<1>5. CallIsTimely(c, st)
  BY <1>3 DEF CallIsTimely
<1>6. FlagsFit(s, Append(calls, c))
  <2>1. FlagsFit(st, Append(calls, c)) /\ HasKind(Append(calls, c), "msg")
    BY <1>1, <1>3, FlagsOfAppend, AppendKinds
  <2> QED BY <1>2, <2>1 DEF FlagsFit
<1> QED BY <1>2, <1>3, <1>4, <1>5, <1>6, SendKeeps

LEMMA CloseMessageKeeps ==
  ASSUME IInv, CloseMessage PROVE IInv'
<1> DEFINE s == [st EXCEPT !.current = NoMessage]
<1>1. /\ Types /\ CallsFit(calls, st, stored, arrived) /\ FlagsFit(st, calls)
      /\ AsksInVisit(s, calls)
  BY DEF IInv, CloseMessage
<1>2. /\ s \in State /\ s.inbox = st.inbox /\ s.query = st.query /\ s.messages = st.messages
      /\ s.raw = st.raw /\ s.current = NoMessage /\ s.loadingInbox = st.loadingInbox
      /\ s.searching = st.searching /\ s.waiting = st.waiting /\ s.loadingMsg = st.loadingMsg
  BY <1>1 DEF Types, State
<1> HIDE DEF s
<1>3. CallsFit(calls, s, stored, arrived)
  BY <1>1, <1>2, StateFits
<1>4. FlagsFit(s, calls) /\ Len(calls) <= MaxCalls
  BY <1>1, <1>2 DEF FlagsFit, Types
<1> QED BY <1>1, <1>2, <1>3, <1>4, ActKeeps

LEMMA DeleteMessageKeeps ==
  ASSUME IInv, DeleteMessage PROVE IInv'
<1> DEFINE c == Call("del", st.current, NoMessage, FALSE)
<1>1. Types /\ calls \in Seq(CallState) /\ FlagsFit(st, calls) /\ st \in State
  BY DEF IInv, CallsFit, Types
<1>2. st.current \in 1 .. arrived /\ RoomForCall /\ AsksInVisit(st, Append(calls, c))
  BY DEF IInv, StateIsTrue, DeleteMessage
<1>3. /\ c \in CallState /\ CallIsFormed(c) /\ CallIsTrue(c, stored, arrived)
      /\ c.kind = "del" /\ ~c.chain
  BY <1>1, <1>2, AloneIsNew
<1> HIDE DEF c
<1>4. CallIsTimely(c, st)
  BY <1>3 DEF CallIsTimely
<1>5. FlagsFit(st, Append(calls, c))
  BY <1>1, <1>3, FlagsOfAppend
<1> QED BY <1>1, <1>2, <1>3, <1>4, <1>5, SendKeeps

LEMMA ClearInboxKeeps ==
  ASSUME IInv, ClearInbox PROVE IInv'
<1> DEFINE c == Call("clear", st.inbox, NoMessage, FALSE)
<1>1. Types /\ calls \in Seq(CallState) /\ FlagsFit(st, calls) /\ st \in State
  BY DEF IInv, CallsFit, Types
<1>2. st.inbox \in Inbox /\ RoomForCall /\ AsksInVisit(st, Append(calls, c))
  BY <1>1 DEF State, ClearInbox
<1>3. /\ c \in CallState /\ CallIsFormed(c) /\ CallIsTrue(c, stored, arrived)
      /\ c.kind = "clear" /\ ~c.chain
  BY <1>1, <1>2, AloneIsNew
<1> HIDE DEF c
<1>4. CallIsTimely(c, st)
  BY <1>3 DEF CallIsTimely
<1>5. FlagsFit(st, Append(calls, c))
  BY <1>1, <1>3, FlagsOfAppend
<1> QED BY <1>1, <1>2, <1>3, <1>4, <1>5, SendKeeps

(* A reload. *)
LEMMA ReloadIsSound ==
  ASSUME IInv, RoomForCall
  PROVE  /\ LoadingMessages(st) \in State
         /\ CallsFit(AskMessages(st, calls), st, stored, arrived)
         /\ CallsFit(AskMessages(st, calls), LoadingMessages(st), stored, arrived)
         /\ FlagsFit(LoadingMessages(st), AskMessages(st, calls))
         /\ FlagsFit(st, AskMessages(st, calls))
         /\ Len(AskMessages(st, calls)) <= MaxCalls
<1>1. /\ Types /\ calls \in Seq(CallState) /\ FlagsFit(st, calls) /\ st \in State
      /\ CallsFit(calls, st, stored, arrived) /\ Len(calls) <= MaxCalls
  BY DEF IInv, CallsFit, Types
<1> DEFINE t == LoadingMessages(st)
<1>2. t \in State /\ t.inbox = st.inbox /\ t.query = st.query /\ t.current = st.current
  BY <1>1, LoadingTypes
<1> HIDE DEF t
<1>3. CallsFit(AskMessages(st, calls), st, stored, arrived)
  BY <1>1, AskFits
<1>4. CallsFit(AskMessages(st, calls), t, stored, arrived)
  BY <1>2, <1>3, StateFits
<1>5. FlagsFit(LoadingMessages(st), AskMessages(st, calls)) /\ FlagsFit(st, AskMessages(st, calls))
  BY <1>1, AskFlags
<1>6. Len(AskMessages(st, calls)) <= MaxCalls
  BY <1>1, PageBoundAssumption DEF AskMessages, RoomForCall
<1> QED BY <1>2, <1>3, <1>4, <1>5, <1>6 DEF t

LEMMA RefreshKeeps ==
  ASSUME IInv, Refresh PROVE IInv'
<1>1. RoomForCall /\ AsksInVisit(LoadingMessages(st), AskMessages(st, calls)) /\ st \in State
  BY DEF Refresh, IInv, Types
<1> DEFINE t == LoadingMessages(st)
<1>2. /\ t \in State /\ t.inbox = st.inbox /\ t.query = st.query /\ t.current = st.current
      /\ t.messages = st.messages /\ t.raw = st.raw
  BY <1>1, LoadingTypes
<1>3. /\ CallsFit(AskMessages(st, calls), t, stored, arrived)
      /\ FlagsFit(t, AskMessages(st, calls)) /\ Len(AskMessages(st, calls)) <= MaxCalls
  BY <1>1, ReloadIsSound
<1> HIDE DEF t
<1>4. AsksInVisit(t, AskMessages(st, calls))
  BY <1>1 DEF t
<1> QED BY <1>2, <1>3, <1>4, ActKeeps

(* The one wait: nothing else belongs to one while it runs. *)
LEMMA WaitForNextKeeps ==
  ASSUME IInv, WaitForNext PROVE IInv'
<1> DEFINE s == [st EXCEPT !.waiting = TRUE]
           newest == IF st.messages = <<>> THEN NoMessage ELSE Head(st.messages)
<1>1. Types /\ calls \in Seq(CallState) /\ FlagsFit(st, calls) /\ st \in State
  BY DEF IInv, CallsFit, Types
<1>2. st.inbox \in Inbox /\ RoomForCall /\ ~st.waiting
      /\ AsksInVisit(s, Append(calls, Call("wait", st.inbox, newest, TRUE)))
  BY <1>1 DEF State, WaitForNext
<1>3. newest \in Id \cup {NoMessage}
  <2>1. st.messages \in Seq(Id)
    BY <1>1 DEF State
  <2>2. st.messages # <<>> => Head(st.messages) \in Id
    BY <2>1, HeadTailProperties
  <2> QED BY <2>2
<1>4. /\ s \in State /\ s.inbox = st.inbox /\ s.query = st.query /\ s.messages = st.messages
      /\ s.raw = st.raw /\ s.current = st.current /\ s.loadingInbox = st.loadingInbox
      /\ s.searching = st.searching /\ s.loadingMsg = st.loadingMsg /\ s.waiting
  BY <1>1 DEF State
<1> HIDE DEF newest, s
<1> DEFINE c == Call("wait", st.inbox, newest, TRUE)
<1>5. PICK i : i = st.inbox
  OBVIOUS
<1>6. i \in Inbox
  BY <1>2, <1>5
<1> DEFINE d == Call("wait", i, newest, TRUE)
<1>7. /\ d \in CallState /\ CallIsFormed(d) /\ CallIsTrue(d, stored, arrived)
      /\ d.kind = "wait" /\ d.chain = TRUE
  BY <1>1, <1>3, <1>6, ChainIsNew
<1>8. /\ c \in CallState /\ CallIsFormed(c) /\ CallIsTrue(c, stored, arrived)
      /\ c.kind = "wait" /\ c.chain /\ AsksInVisit(s, Append(calls, c))
  BY <1>2, <1>5, <1>7
<1> HIDE DEF c, d
<1>9. CallIsTimely(c, st)
  BY <1>8 DEF CallIsTimely
<1>10. FlagsFit(s, Append(calls, c))
  <2>1. ~HasChain(calls) /\ OneChain(calls)
    BY <1>1, <1>2 DEF FlagsFit
  <2>2. /\ \A k : HasKind(calls, k) => HasKind(Append(calls, c), k)
        /\ HasChain(Append(calls, c)) /\ OneChain(Append(calls, c))
    BY <1>1, <1>8, <2>1, AppendKinds
  <2> QED BY <1>1, <1>4, <2>2 DEF FlagsFit
<1> QED BY <1>2, <1>4, <1>8, <1>9, <1>10, SendKeeps

(* What only moves the page, the route, the timer or the counters. *)
LEMMA NavigateKeeps ==
  ASSUME IInv, (\E r \in Page : Navigate(r)) \/ ToggleAuto PROVE IInv'
<1>1. /\ Types /\ UserActs /\ hist' = [hist EXCEPT !.promised = NoMessage]
      /\ UNCHANGED <<arrived, stored, page, st, calls>>
      /\ route' \in Page /\ auto' \in BOOLEAN
  BY DEF IInv, Types, Navigate, ToggleAuto
<1>2. /\ hist' \in History /\ hist'.heard = hist.heard /\ hist'.late = hist.late
      /\ hist'.rawLate = hist.rawLate
  BY <1>1, PromiseEnds
<1>3. count' \in [acts : Nat, mishaps : Nat]
  BY <1>1, ActCounts
<1>4. Types'
  BY <1>1, <1>2, <1>3 DEF Types
<1>5. StateIsTrue(st, hist', arrived)
  BY <1>2 DEF IInv, StateIsTrue
<1> QED BY <1>1, <1>4, <1>5 DEF IInv

(* A new visit: the calls for lists of the old one are left stale. *)
LEMMA TurnFits ==
  ASSUME IInv, NEW s, s.current \in {st.current, NoMessage},
         s.loadingInbox = st.loadingInbox, s.searching = st.searching,
         s.loadingMsg = st.loadingMsg, s.waiting = st.waiting
  PROVE  LET cs == Stale(calls, ListCalls) IN
         /\ cs \in Seq(CallState) /\ Len(cs) = Len(calls)
         /\ CallsFit(cs, s, stored, arrived) /\ FlagsFit(s, cs)
<1> DEFINE cs == Stale(calls, ListCalls)
<1>1. /\ CallsFit(calls, st, stored, arrived) /\ calls \in Seq(CallState)
      /\ FlagsFit(st, calls)
  BY DEF IInv, CallsFit
<1>2. /\ cs \in Seq(CallState) /\ Len(cs) = Len(calls) /\ DOMAIN cs = DOMAIN calls
      /\ \A n \in DOMAIN calls : cs[n].kind = calls[n].kind /\ cs[n].chain = calls[n].chain
  BY <1>1, StaleOf
<1>3. "list" \in ListCalls /\ "search" \in ListCalls
  BY DEF ListCalls
<1>4. CallsFit(cs, s, stored, arrived)
  BY <1>1, <1>3, StaleFits
<1> HIDE DEF cs
<1>5. /\ \A k : HasKind(cs, k) <=> HasKind(calls, k)
      /\ HasChain(cs) <=> HasChain(calls)
      /\ OneChain(calls) => OneChain(cs)
  BY <1>2, SameKinds
<1>6. FlagsFit(s, cs)
  BY <1>1, <1>5 DEF FlagsFit
<1> QED BY <1>2, <1>4, <1>6 DEF cs

LEMMA TurnIsTrue ==
  ASSUME IInv, NEW s, NEW h, s.current \in {st.current, NoMessage}, s.raw = st.raw,
         ~h.heard, h.rawLate = hist.rawLate
  PROVE  StateIsTrue(s, h, arrived)
BY DEF IInv, StateIsTrue

LEMMA NewVisitTypes ==
  ASSUME Types, NEW h, h \in {NewVisit, [NewVisit EXCEPT !.promised = NoMessage]}
  PROVE  h \in History /\ ~h.heard /\ h.rawLate = hist.rawLate
BY DEF Types, History, NewVisit

LEMMA SearchKeeps ==
  ASSUME IInv, NEW q \in Query \cup {NoQuery}, Search(q) PROVE IInv'
<1> DEFINE s == [st EXCEPT !.query = q]
           t == [s EXCEPT !.searching = TRUE]
           old == Stale(calls, ListCalls)
           c == Call("search", q, NoMessage, FALSE)
<1>1. /\ Types /\ RoomForCall /\ UserActs /\ st \in State /\ Len(calls) \in Nat
      /\ hist' = [NewVisit EXCEPT !.promised = NoMessage]
      /\ UNCHANGED <<arrived, stored, route, page, auto>>
      /\ \/ q = NoQuery /\ st' = LoadingMessages(s) /\ calls' = AskMessages(s, old)
         \/ q # NoQuery /\ st' = t /\ calls' = Append(old, c)
  <2>1. Types /\ st \in State /\ calls \in Seq(CallState)
    BY DEF IInv, Types, CallsFit
  <2>2. RoomForCall /\ hist' = [NewVisit EXCEPT !.promised = NoMessage]
    BY DEF Search
  <2>3. \/ q = NoQuery /\ Asks(LoadingMessages(s), AskMessages(s, old))
        \/ q # NoQuery /\ Asks(t, Append(old, c))
    BY DEF Search
  <2> HIDE DEF s, t, old, c
  <2> QED BY <2>1, <2>2, <2>3 DEF Asks
<1>2. /\ s \in State /\ s.inbox = st.inbox /\ s.query = q /\ s.messages = st.messages
      /\ s.raw = st.raw /\ s.current = st.current /\ s.loadingInbox = st.loadingInbox
      /\ s.searching = st.searching /\ s.loadingMsg = st.loadingMsg
      /\ s.waiting = st.waiting
  BY <1>1 DEF State
<1>3. /\ t \in State /\ t.inbox = s.inbox /\ t.query = q /\ t.messages = s.messages
      /\ t.raw = s.raw /\ t.current = s.current /\ t.loadingInbox = s.loadingInbox
      /\ t.searching /\ t.loadingMsg = s.loadingMsg /\ t.waiting = s.waiting
  BY <1>2 DEF State
<1> HIDE DEF s, t
<1>4. /\ old \in Seq(CallState) /\ Len(old) = Len(calls)
      /\ CallsFit(old, s, stored, arrived) /\ FlagsFit(s, old)
  BY <1>2, TurnFits
<1>5. hist' \in History /\ ~hist'.heard /\ hist'.rawLate = hist.rawLate
  BY <1>1, NewVisitTypes
<1>6. count' \in [acts : Nat, mishaps : Nat]
  BY <1>1, ActCounts
<1> HIDE DEF old
<1>7. CASE q = NoQuery
  <2> DEFINE u == LoadingMessages(s)
  <2>1. /\ u \in State /\ u.inbox = s.inbox /\ u.query = s.query /\ u.current = s.current
        /\ u.raw = s.raw
    BY <1>2, LoadingTypes
  <2>2. st' = u /\ calls' = AskMessages(s, old)
    BY <1>1, <1>7
  <2>3. CallsFit(AskMessages(s, old), s, stored, arrived)
        /\ FlagsFit(u, AskMessages(s, old))
    BY <1>1, <1>2, <1>4, AskFits, AskFlags
  <2> HIDE DEF u
  <2>4. CallsFit(AskMessages(s, old), u, stored, arrived)
    BY <2>1, <2>3, StateFits
  <2>5. Len(AskMessages(s, old)) <= MaxCalls
    BY <1>1, <1>4, PageBoundAssumption DEF AskMessages, RoomForCall
  <2>6. StateIsTrue(u, hist', arrived)
    BY <1>2, <1>5, <2>1, TurnIsTrue
  <2>7. Types'
    BY <1>1, <1>2, <1>5, <1>6, <2>1, <2>2, <2>5 DEF Types
  <2> QED BY <1>1, <2>2, <2>3, <2>4, <2>6, <2>7 DEF IInv
<1>8. CASE q # NoQuery
  <2>1. q \in Query \ {NoQuery}
    BY <1>8
  <2>2. /\ c \in CallState /\ CallIsFormed(c) /\ CallIsTrue(c, stored, arrived)
        /\ c.kind = "search" /\ c.arg = q /\ ~c.chain
    BY <1>1, <2>1, AloneIsNew
  <2>3. st' = t /\ calls' = Append(old, c)
    BY <1>1, <1>8
  <2> HIDE DEF c
  <2>4. CallIsTimely(c, s)
    BY <1>2, <2>2 DEF CallIsTimely
  <2>5. CallsFit(Append(old, c), s, stored, arrived)
    BY <1>4, <2>2, <2>4, AppendFits
  <2>6. CallsFit(Append(old, c), t, stored, arrived)
    BY <1>2, <1>3, <2>5, StateFits
  <2>7. FlagsFit(s, Append(old, c)) /\ HasKind(Append(old, c), "search")
    BY <1>4, <2>2, FlagsOfAppend, AppendKinds
  <2>8. FlagsFit(t, Append(old, c))
    BY <1>3, <2>7 DEF FlagsFit
  <2>9. Len(Append(old, c)) <= MaxCalls
    BY <1>1, <1>4, PageBoundAssumption DEF RoomForCall
  <2>10. StateIsTrue(t, hist', arrived)
    BY <1>2, <1>3, <1>5, TurnIsTrue
  <2>11. Types'
    BY <1>1, <1>2, <1>3, <1>5, <1>6, <2>3, <2>9 DEF Types
  <2> QED BY <1>1, <2>3, <2>6, <2>8, <2>10, <2>11 DEF IInv
<1> QED BY <1>7, <1>8

---------------------------------------------------------------------------
(* Pages and polling *)

(* The open inbox is loaded again; the page may have changed to its own. *)
LEMMA PollKeeps ==
  ASSUME IInv, Poll PROVE IInv'
<1> DEFINE t == LoadingMessages(st)
           cs == AskMessages(st, calls)
<1>1. /\ st' = t /\ calls' = cs /\ RoomForPoll /\ Types /\ calls \in Seq(CallState)
      /\ UNCHANGED <<arrived, stored, route, page, auto, count, hist>>
  BY DEF Poll, IInv, CallsFit
<1>2. RoomForCall
  BY <1>1, PageBoundAssumption DEF RoomForPoll, RoomForCall
<1>3. /\ t \in State /\ t.inbox = st.inbox /\ t.messages = st.messages
      /\ t.current = st.current /\ t.raw = st.raw /\ t.query = st.query
  BY <1>1, LoadingTypes DEF Types
<1>4. CallsFit(cs, t, stored, arrived) /\ FlagsFit(t, cs) /\ Len(cs) <= MaxCalls
  BY <1>2, ReloadIsSound
<1> HIDE DEF t, cs
<1>5. Types'
  BY <1>1, <1>3, <1>4 DEF Types
<1>6. StateIsTrue(t, hist, arrived)
  BY <1>3 DEF IInv, StateIsTrue
<1> QED BY <1>1, <1>4, <1>5, <1>6 DEF IInv

(* A page that takes the state over from another visit, with or without a list
   asked for. *)
LEMMA TurnKeeps ==
  ASSUME IInv, RoomForCall, NEW s \in State, NEW cs,
         s.current \in {st.current, NoMessage}, s.raw = st.raw,
         page' \in Page, page' \in Inbox => s.inbox = page',
         page' = "landing" => s.inbox = NoInbox,
         st' = s, calls' = cs, hist' = NewVisit,
         UNCHANGED <<arrived, stored, route, auto, count>>,
         CallsFit(cs, s, stored, arrived), FlagsFit(s, cs), Len(cs) <= MaxCalls
  PROVE  IInv'
<1>1. Types
  BY DEF IInv
<1>2. hist' \in History /\ ~hist'.heard /\ hist'.rawLate = hist.rawLate
  BY <1>1, NewVisitTypes
<1>3. Types'
  BY <1>1, <1>2 DEF Types
<1>4. StateIsTrue(s, hist', arrived)
  BY <1>2, TurnIsTrue
<1> QED BY <1>3, <1>4 DEF IInv

LEMMA MountPageKeeps ==
  ASSUME IInv, MountPage PROVE IInv'
<1>1. /\ Types /\ RoomForCall /\ page' = route /\ route \in Page /\ st \in State
      /\ UNCHANGED <<arrived, stored, route, auto, count>>
  BY DEF MountPage, IInv, Types
<1>2. CASE route \in Inbox /\ st.inbox = route /\ st.messages # <<>>
  <2>1. st' = st /\ calls' = AskMessages(st, calls) /\ hist' = hist
    BY <1>2, PageAssumption DEF MountPage
  <2>2. /\ CallsFit(AskMessages(st, calls), st, stored, arrived)
        /\ FlagsFit(st, AskMessages(st, calls)) /\ Len(AskMessages(st, calls)) <= MaxCalls
    BY <1>1, ReloadIsSound
  <2>3. page' # "landing"
    BY <1>1, <1>2, PageAssumption
  <2>4. Types'
    BY <1>1, <1>2, <2>1, <2>2, <2>3 DEF Types
  <2> QED BY <1>1, <2>1, <2>2, <2>4 DEF IInv
<1>3. CASE route \in Inbox /\ ~(st.inbox = route /\ st.messages # <<>>)
  <2> DEFINE s == Entered(route)
             old == Stale(calls, ListCalls)
             t == LoadingMessages(s)
             cs == AskMessages(s, old)
  <2>1. st' = t /\ calls' = cs /\ hist' = NewVisit
    BY <1>3, PageAssumption DEF MountPage
  <2>2. /\ s \in State /\ s.inbox = route /\ s.current = NoMessage /\ s.raw = st.raw
        /\ s.loadingInbox = st.loadingInbox /\ s.searching = st.searching
        /\ s.loadingMsg = st.loadingMsg /\ s.waiting = st.waiting
    BY <1>1, <1>3 DEF State, Entered
  <2> HIDE DEF s
  <2>3. /\ t \in State /\ t.inbox = s.inbox /\ t.query = s.query /\ t.current = s.current
        /\ t.raw = s.raw
    BY <2>2, LoadingTypes
  <2>4. /\ old \in Seq(CallState) /\ Len(old) = Len(calls)
        /\ CallsFit(old, s, stored, arrived) /\ FlagsFit(s, old)
    BY <2>2, TurnFits
  <2> HIDE DEF old
  <2>5. CallsFit(cs, s, stored, arrived) /\ FlagsFit(t, cs)
    BY <1>1, <2>2, <2>4, AskFits, AskFlags
  <2>6. Len(cs) <= MaxCalls
    <3>1. calls \in Seq(CallState)
      BY DEF IInv, CallsFit
    <3> QED BY <1>1, <2>4, <3>1, PageBoundAssumption DEF AskMessages, RoomForCall
  <2> HIDE DEF t, cs
  <2>7. CallsFit(cs, t, stored, arrived)
    BY <2>3, <2>5, StateFits
  <2>8. page' # "landing" /\ page' \in Page /\ t.inbox = page'
        /\ t.current \in {st.current, NoMessage} /\ t.raw = st.raw
    BY <1>1, <1>3, <2>2, <2>3, PageAssumption
  <2> QED BY <1>1, <2>1, <2>3, <2>5, <2>6, <2>7, <2>8, TurnKeeps
<1>4. CASE route = "landing"
  <2> DEFINE s == Left
             old == Stale(calls, ListCalls)
  <2>1. st' = s /\ calls' = old /\ hist' = NewVisit
    BY <1>4, PageAssumption DEF MountPage
  <2>2. /\ s \in State /\ s.inbox = NoInbox /\ s.current = NoMessage /\ s.raw = st.raw
        /\ s.loadingInbox = st.loadingInbox /\ s.searching = st.searching
        /\ s.loadingMsg = st.loadingMsg /\ s.waiting = st.waiting
    <3>1. <<>> \in Seq(Id) /\ NoInbox \in Inbox \cup {NoInbox}
          /\ NoQuery \in Query \cup {NoQuery} /\ NoMessage \in Id \cup {NoMessage}
      OBVIOUS
    <3> QED BY <1>1, <3>1 DEF State, Left
  <2> HIDE DEF s
  <2>3. /\ Len(old) = Len(calls) /\ CallsFit(old, s, stored, arrived) /\ FlagsFit(s, old)
    BY <2>2, TurnFits
  <2>4. Len(old) <= MaxCalls
    BY <1>1, <2>3 DEF Types
  <2> HIDE DEF old
  <2>5. /\ page' \in Page /\ page' \notin Inbox
        /\ s.current \in {st.current, NoMessage} /\ s.raw = st.raw
    BY <1>1, <1>4, <2>2, PageAssumption
  <2> QED BY <1>1, <2>1, <2>2, <2>3, <2>4, <2>5, TurnKeeps
<1>5. CASE route = "section"
  <2>1. UNCHANGED <<st, calls, hist>>
    BY <1>5, PageAssumption DEF MountPage
  <2>2. page' \notin Inbox /\ page' # "landing"
    BY <1>1, <1>5, PageAssumption
  <2>3. Types'
    BY <1>1, <2>1, <2>2 DEF Types
  <2> QED BY <1>1, <2>1, <2>3 DEF IInv
<1> QED BY <1>1, <1>2, <1>3, <1>4, <1>5 DEF Page

---------------------------------------------------------------------------
(* The server *)

(* What the server has becomes S, what there ever was, ever; the calls may be
   answered with it. *)
LEMMA StoreKeeps ==
  ASSUME IInv, UNCHANGED <<route, page, st, auto, hist>>,
         count' \in [acts : Nat, mishaps : Nat],
         arrived' \in 0 .. MaxMail, stored' \subseteq 1 .. arrived', arrived <= arrived',
         Len(calls') <= MaxCalls, CallsFit(calls', st, stored', arrived'),
         FlagsFit(st, calls')
  PROVE  IInv'
<1>1. Types /\ StateIsTrue(st, hist, arrived)
  BY DEF IInv
<1>2. Types'
  BY <1>1 DEF Types
<1>3. arrived \in Nat /\ arrived' \in Nat
  BY <1>1, MailAssumption DEF Types
<1>4. StateIsTrue(st, hist, arrived')
  BY <1>1, <1>3, TrueMoves
<1> QED BY <1>2, <1>4 DEF IInv

LEMMA ArriveKeeps ==
  ASSUME IInv, Arrive PROVE IInv'
<1>1. /\ Types /\ CallsFit(calls, st, stored, arrived) /\ FlagsFit(st, calls)
      /\ arrived < MaxMail /\ arrived' = arrived + 1 /\ stored' = stored \cup {arrived + 1}
      /\ UNCHANGED <<route, page, st, auto, calls, count, hist>>
  BY DEF IInv, Arrive
<1>2. /\ arrived \in Nat /\ arrived' \in Nat /\ arrived <= arrived' /\ arrived' \in 0 .. MaxMail
      /\ count' \in [acts : Nat, mishaps : Nat] /\ Len(calls') <= MaxCalls
  BY <1>1, MailAssumption DEF Types
<1>3. stored' \subseteq 1 .. arrived'
  BY <1>1, <1>2 DEF Types
<1>4. \A m \in 1 .. arrived : m \in stored' => m \in stored
  BY <1>1, <1>2
<1>5. CallsFit(calls, st, stored', arrived')
  BY <1>1, <1>2, <1>4, ServerFits
<1> QED BY <1>1, <1>2, <1>3, <1>5, StoreKeeps

LEMMA DeletedElsewhereKeeps ==
  ASSUME IInv, NEW m \in Id, DeletedElsewhere(m) PROVE IInv'
<1>1. /\ Types /\ CallsFit(calls, st, stored, arrived) /\ FlagsFit(st, calls)
      /\ Mishap /\ stored' = stored \ {m} /\ Len(calls) <= MaxCalls
      /\ UNCHANGED <<arrived, route, page, st, auto, calls, hist>>
  BY DEF IInv, Types, DeletedElsewhere
<1>2. arrived \in Nat /\ arrived <= arrived /\ arrived' \in 0 .. MaxMail
      /\ stored' \subseteq 1 .. arrived'
  <2>1. arrived' = arrived /\ arrived \in 0 .. MaxMail /\ stored \subseteq 1 .. arrived
    BY <1>1 DEF Types
  <2>2. arrived \in Nat /\ arrived <= arrived
    BY <2>1, MailAssumption
  <2> QED BY <1>1, <2>1, <2>2
<1>3. \A k \in 1 .. arrived : k \in stored' => k \in stored
  BY <1>1
<1>4. CallsFit(calls, st, stored', arrived)
  BY <1>1, <1>2, <1>3, ServerFits
<1>5. count' \in [acts : Nat, mishaps : Nat]
  BY <1>1, MishapCounts
<1> QED BY <1>1, <1>2, <1>4, <1>5, StoreKeeps

(* The n-th call is served, truthfully. *)
LEMMA ServesKeeps ==
  ASSUME IInv, NEW n \in DOMAIN calls, NEW ans \in Seq(Id), NEW S \in SUBSET stored,
         Serves(n, ans, S), calls[n].kind \notin {"msg", "raw"},
         calls[n].kind = "list" => \A m \in Range(ans) : InboxOf[m] = calls[n].arg,
         calls[n].kind = "search" => Range(ans) \subseteq Matches[calls[n].arg],
         calls[n].kind = "del" => calls[n].arg \notin S
  PROVE  IInv'
<1>1. /\ Types /\ CallsFit(calls, st, stored, arrived) /\ FlagsFit(st, calls)
      /\ calls \in Seq(CallState) /\ calls' = Answered(calls, n, ans) /\ stored' = S
      /\ UNCHANGED <<arrived, route, page, st, auto, count, hist>>
  BY DEF IInv, CallsFit, Serves, Answered
<1> DEFINE cs == Answered(calls, n, ans)
<1>2. /\ cs \in Seq(CallState) /\ Len(cs) = Len(calls) /\ DOMAIN cs = DOMAIN calls
      /\ \A k \in DOMAIN calls :
           /\ cs[k].kind = calls[k].kind /\ cs[k].arg = calls[k].arg /\ cs[k].id = calls[k].id
           /\ cs[k].chain = calls[k].chain /\ cs[k].stale = calls[k].stale
           /\ k # n => cs[k] = calls[k]
      /\ cs[n].served /\ cs[n].ans = ans
  BY <1>1, ServedOf
<1>3. /\ arrived \in Nat /\ arrived <= arrived /\ arrived' \in 0 .. MaxMail
      /\ stored' \subseteq 1 .. arrived' /\ count' \in [acts : Nat, mishaps : Nat]
  BY <1>1, MailAssumption DEF Types
<1>4. \A k \in 1 .. arrived : k \in S => k \in stored
  OBVIOUS
<1>5. CallsFit(calls, st, S, arrived)
  BY <1>1, <1>3, <1>4, ServerFits
<1> HIDE DEF cs
<1>6. ASSUME NEW k \in DOMAIN cs
      PROVE  CallIsFormed(cs[k]) /\ CallIsTrue(cs[k], S, arrived) /\ CallIsTimely(cs[k], st)
  <2>1. CallIsFormed(calls[k]) /\ CallIsTrue(calls[k], S, arrived) /\ CallIsTimely(calls[k], st)
    BY <1>2, <1>5 DEF CallsFit
  <2>2. CallIsFormed(cs[k])
    BY <1>2, <2>1 DEF CallIsFormed
  <2>3. CallIsTimely(cs[k], st)
    BY <1>2, <2>1 DEF CallIsTimely
  <2>4. CallIsTrue(cs[k], S, arrived)
    BY <1>2, <2>1 DEF CallIsTrue
  <2> QED BY <2>2, <2>3, <2>4
<1>7. CallsFit(cs, st, S, arrived)
  BY <1>2, <1>6 DEF CallsFit
<1>8. /\ \A k : HasKind(cs, k) <=> HasKind(calls, k)
      /\ HasChain(cs) <=> HasChain(calls)
      /\ OneChain(calls) => OneChain(cs)
  BY <1>2, SameKinds
<1>9. FlagsFit(st, cs)
  BY <1>1, <1>8 DEF FlagsFit
<1>10. calls' = cs /\ Len(cs) <= MaxCalls
  BY <1>1, <1>2 DEF cs, Types
<1> QED BY <1>1, <1>3, <1>7, <1>9, <1>10, StoreKeeps

LEMMA ServeKeeps ==
  ASSUME IInv, NEW n \in DOMAIN calls, Serve(n) PROVE IInv'
<1> DEFINE c == calls[n]
<1>1. /\ Types /\ c \in CallState /\ CallIsFormed(c) /\ stored \in SUBSET stored
      /\ stored \subseteq 1 .. arrived /\ arrived \in 0 .. MaxMail
  BY DEF IInv, Types, CallsFit
<1>2. stored \subseteq Id
  <2>1. \A m \in 1 .. arrived : m \in 1 .. MaxMail
    BY <1>1, MailAssumption
  <2> QED BY <1>1, <2>1 DEF Id
<1>3. <<>> \in Seq(Id) /\ Range(<<>>) = {}
  BY DEF Range
<1>4. CASE c.kind = "list" /\ Serves(n, Listing(c.arg), stored)
  <2>1. Listing(c.arg) \in Seq(Id) /\ \A m \in Range(Listing(c.arg)) : InboxOf[m] = c.arg
    BY <1>1, ListingHolds
  <2> QED BY <1>1, <1>4, <2>1, ServesKeeps
<1>5. CASE c.kind = "search" /\ Serves(n, Newest(Matches[c.arg] \cap stored), stored)
  <2> DEFINE S == Matches[c.arg] \cap stored
  <2>1. S \in SUBSET Id
    BY <1>2
  <2>2. Newest(S) \in Seq(Id) /\ Range(Newest(S)) \subseteq S
    BY <2>1, NewestHolds
  <2> QED BY <1>1, <1>5, <2>2, ServesKeeps
<1>6. CASE c.kind = "del" /\ Serves(n, Newest({c.arg} \cap stored), stored \ {c.arg})
  <2> DEFINE S == {c.arg} \cap stored
  <2>1. S \in SUBSET Id
    BY <1>2
  <2>2. Newest(S) \in Seq(Id)
    BY <2>1, NewestHolds
  <2> QED BY <1>1, <1>6, <2>2, ServesKeeps
<1>7. CASE c.kind = "clear" /\ Serves(n, <<>>, {m \in stored : InboxOf[m] # c.arg})
  BY <1>1, <1>3, <1>7, ServesKeeps
<1>8. CASE c.kind = "wait" /\ Listing(c.arg) # <<>> /\ Serves(n, <<Head(Listing(c.arg))>>, stored)
  <2>1. Listing(c.arg) \in Seq(Id)
    BY <1>1, ListingHolds
  <2>2. <<Head(Listing(c.arg))>> \in Seq(Id)
    BY <1>8, <2>1, HeadTailProperties
  <2> QED BY <1>1, <1>8, <2>2, ServesKeeps
<1>9. CASE c.kind = "wait" /\ Serves(n, <<>>, stored)
  BY <1>1, <1>3, <1>9, ServesKeeps
<1> QED BY <1>4, <1>5, <1>6, <1>7, <1>8, <1>9 DEF Serve, ServeRead, ServeDelete, ServeWait

---------------------------------------------------------------------------
(* Answers *)

(* The flags of s fit the calls cs, but for a wait of which no call is left
   (waits), if any. *)
Owed(s, cs, waits) ==
  /\ s.loadingInbox => HasKind(cs, "list")
  /\ s.searching => HasKind(cs, "search")
  /\ s.loadingMsg => HasKind(cs, "msg")
  /\ s.waiting <=> (waits \/ HasChain(cs))
  /\ ~(waits /\ HasChain(cs))
  /\ OneChain(cs)

(* What is known when the n-th call is answered or fails. *)
LEMMA AnswerFinds ==
  ASSUME IInv, NEW n \in DOMAIN calls
  PROVE  /\ Types /\ st \in State /\ hist \in History /\ calls[n] \in CallState
         /\ CallIsFormed(calls[n]) /\ CallIsTrue(calls[n], stored, arrived)
         /\ CallIsTimely(calls[n], st)
         /\ Rest(n) \in Seq(CallState) /\ Len(Rest(n)) + 1 <= MaxCalls
         /\ CallsFit(Rest(n), st, stored, arrived)
         /\ StateIsTrue(st, hist, arrived)
<1>1. /\ Types /\ CallsFit(calls, st, stored, arrived) /\ calls \in Seq(CallState)
      /\ StateIsTrue(st, hist, arrived)
  BY DEF IInv, CallsFit
<1>2. Rest(n) \in Seq(CallState) /\ Len(Rest(n)) = Len(calls) - 1
  BY <1>1, RestOf DEF Rest
<1>3. CallsFit(Rest(n), st, stored, arrived)
  BY <1>1, RestFits DEF Rest
<1>4. Len(calls) \in Nat /\ Len(calls) <= MaxCalls
  BY <1>1 DEF Types
<1>5. calls[n] \in CallState
  BY <1>1
<1> QED BY <1>1, <1>2, <1>3, <1>4, <1>5, PageBoundAssumption DEF Types, CallsFit

LEMMA AnswerOwes ==
  ASSUME IInv, NEW n \in DOMAIN calls, NEW s,
         s.loadingInbox => st.loadingInbox /\ calls[n].kind # "list",
         s.searching => st.searching /\ calls[n].kind # "search",
         s.loadingMsg => st.loadingMsg /\ calls[n].kind # "msg",
         s.waiting <=> st.waiting
  PROVE  Owed(s, Rest(n), calls[n].chain)
<1>1. calls \in Seq(CallState) /\ FlagsFit(st, calls)
  BY DEF IInv, CallsFit
<1>2. /\ \A k : HasKind(calls, k) /\ calls[n].kind # k => HasKind(Rest(n), k)
      /\ ~calls[n].chain => (HasChain(Rest(n)) <=> HasChain(calls))
      /\ OneChain(calls) /\ calls[n].chain => ~HasChain(Rest(n))
      /\ OneChain(calls) => OneChain(Rest(n))
  BY <1>1, RestKinds DEF Rest
<1>3. calls[n].chain => HasChain(calls)
  BY DEF HasChain
<1> QED BY <1>1, <1>2, <1>3 DEF FlagsFit, Owed

(* The wait is over, or never was this call's. *)
LEMMA OwedIsPaid ==
  ASSUME NEW s, NEW t, NEW cs, NEW waits, Owed(s, cs, waits),
         t.loadingInbox => s.loadingInbox, t.searching => s.searching,
         t.loadingMsg => s.loadingMsg, t.waiting <=> (s.waiting /\ ~waits)
  PROVE  FlagsFit(t, cs)
BY DEF Owed, FlagsFit

(* The wait goes on with another call. *)
LEMMA OwedGoesOn ==
  ASSUME NEW s, NEW t, NEW cs \in Seq(CallState), NEW c \in CallState, c.chain,
         Owed(s, cs, TRUE), t.waiting <=> s.waiting,
         t.loadingInbox => s.loadingInbox \/ c.kind = "list",
         t.searching => s.searching, t.loadingMsg => s.loadingMsg \/ c.kind = "msg"
  PROVE  FlagsFit(t, Append(cs, c))
<1>1. /\ \A k : HasKind(Append(cs, c), k) <=> (HasKind(cs, k) \/ c.kind = k)
      /\ HasChain(Append(cs, c)) <=> (HasChain(cs) \/ c.chain)
      /\ OneChain(cs) /\ ~(c.chain /\ HasChain(cs)) => OneChain(Append(cs, c))
  BY AppendKinds
<1> QED BY <1>1 DEF Owed, FlagsFit

(* waitForNext opens the message that its list was to show. *)
LEMMA ThenOpenFits ==
  ASSUME Types, NEW c, c.chain \in BOOLEAN, c.chain => c.id \in Id, NEW s \in State, NEW cs,
         CallsFit(cs, s, stored, arrived), Owed(s, cs, c.chain)
  PROVE  LET t == ThenOpen(c, s, cs)[1]
             ds == ThenOpen(c, s, cs)[2] IN
         /\ t \in State /\ t.inbox = s.inbox /\ t.query = s.query /\ t.messages = s.messages
         /\ t.current = s.current /\ t.raw = s.raw
         /\ CallsFit(ds, t, stored, arrived) /\ FlagsFit(t, ds) /\ Len(ds) <= Len(cs) + 1
<1>1. cs \in Seq(CallState)
  BY DEF CallsFit
<1>2. CASE ~c.chain
  <2>1. ThenOpen(c, s, cs) = <<s, cs>>
    BY <1>2 DEF ThenOpen
  <2>2. FlagsFit(s, cs)
    BY <1>2 DEF Owed, FlagsFit
  <2> QED BY <1>1, <2>1, <2>2
<1>3. CASE c.chain
  <2> DEFINE t == [s EXCEPT !.loadingMsg = TRUE]
             d == Call("msg", c.id, NoMessage, TRUE)
             ds == Append(cs, d)
  <2>1. ThenOpen(c, s, cs) = <<t, ds>>
    BY <1>3 DEF ThenOpen
  <2>2. /\ t \in State /\ t.inbox = s.inbox /\ t.query = s.query /\ t.messages = s.messages
        /\ t.current = s.current /\ t.raw = s.raw /\ t.loadingInbox = s.loadingInbox
        /\ t.searching = s.searching /\ t.waiting = s.waiting
    BY DEF State
  <2>3. PICK m \in Id : m = c.id
    BY <1>3
  <2>4. NoMessage \in Id \cup {NoMessage}
    OBVIOUS
  <2> DEFINE e == Call("msg", m, NoMessage, TRUE)
  <2>5. /\ e \in CallState /\ CallIsFormed(e) /\ CallIsTrue(e, stored, arrived)
        /\ e.kind = "msg" /\ e.chain = TRUE
    BY <2>4, ChainIsNew
  <2>6. /\ d \in CallState /\ CallIsFormed(d) /\ CallIsTrue(d, stored, arrived)
        /\ d.kind = "msg" /\ d.chain
    BY <2>3, <2>5
  <2> HIDE DEF d, e, t
  <2>7. CallIsTimely(d, s)
    BY <2>6 DEF CallIsTimely
  <2>8. CallsFit(ds, s, stored, arrived)
    BY <2>6, <2>7, AppendFits
  <2>9. CallsFit(ds, t, stored, arrived)
    BY <2>2, <2>8, StateFits
  <2>10. Owed(s, cs, TRUE)
    BY <1>3 DEF Owed
  <2>11. FlagsFit(t, ds)
    BY <1>1, <2>2, <2>6, <2>10, OwedGoesOn
  <2>12. Len(ds) <= Len(cs) + 1
    BY <1>1, <2>6
  <2> HIDE DEF ds
  <2> QED BY <2>1, <2>2, <2>9, <2>11, <2>12
<1> QED BY <1>2, <1>3

(* What an answer shows, the open inbox staying the same. *)
LEMMA ShowsKeeps ==
  ASSUME IInv, NEW s \in State, NEW cs, NEW h \in History, st' = s, calls' = cs, hist' = h,
         UNCHANGED <<arrived, stored, page, auto>>, route' \in Page,
         count' \in [acts : Nat, mishaps : Nat], s.inbox = st.inbox,
         CallsFit(cs, s, stored, arrived), FlagsFit(s, cs), Len(cs) <= MaxCalls,
         StateIsTrue(s, h, arrived)
  PROVE  IInv'
<1>1. Types
  BY DEF IInv
<1>2. Types'
  BY <1>1 DEF Types
<1> QED BY <1>2 DEF IInv

LEMMA MessagesArriveKeeps ==
  ASSUME IInv, NEW n \in DOMAIN calls, MessagesArrive(n) PROVE IInv'
<1> DEFINE c == calls[n]
           s == [st EXCEPT !.messages = IF sameIds(st.messages, c.ans) THEN st.messages ELSE c.ans,
                           !.loadingInbox = FALSE]
           next == ThenOpen(c, s, Rest(n))
           h == ListIsFrom(n)
<1>1. /\ Types /\ st \in State /\ hist \in History /\ c \in CallState
      /\ CallIsFormed(c) /\ CallIsTrue(c, stored, arrived) /\ CallIsTimely(c, st)
      /\ Rest(n) \in Seq(CallState) /\ Len(Rest(n)) + 1 <= MaxCalls
      /\ CallsFit(Rest(n), st, stored, arrived) /\ StateIsTrue(st, hist, arrived)
  BY AnswerFinds
<1>2. /\ c.kind = "list" /\ st' = next[1] /\ calls' = next[2] /\ hist' = h
      /\ UNCHANGED <<arrived, stored, route, page, auto, count>>
  BY DEF MessagesArrive, Answers, Shows
<1>3. c.ans \in Seq(Id) /\ c.chain \in BOOLEAN /\ c.stale \in BOOLEAN
  BY <1>1 DEF CallState
<1>4. /\ s \in State /\ s.inbox = st.inbox /\ s.query = st.query /\ s.messages = c.ans
      /\ s.current = st.current /\ s.raw = st.raw /\ ~s.loadingInbox
      /\ s.searching = st.searching /\ s.loadingMsg = st.loadingMsg
      /\ s.waiting = st.waiting
  BY <1>1, <1>3 DEF State, sameIds
<1>5. /\ h \in History /\ h.rawLate = hist.rawLate
      /\ h.heard /\ ~h.late => ~c.stale
  BY <1>1, <1>3 DEF History, ListIsFrom
<1> HIDE DEF s, h
<1>6. CallsFit(Rest(n), s, stored, arrived)
  BY <1>1, <1>4, StateFits
<1>7. Owed(s, Rest(n), c.chain)
  BY <1>2, <1>4, AnswerOwes
<1>8. c.chain => c.id \in Id
  BY <1>1, <1>2 DEF CallIsFormed
<1>9. /\ next[1] \in State /\ next[1].inbox = s.inbox /\ next[1].query = s.query
      /\ next[1].messages = s.messages /\ next[1].current = s.current /\ next[1].raw = s.raw
      /\ CallsFit(next[2], next[1], stored, arrived) /\ FlagsFit(next[1], next[2])
      /\ Len(next[2]) <= Len(Rest(n)) + 1
  BY <1>1, <1>3, <1>4, <1>6, <1>7, <1>8, ThenOpenFits
<1> HIDE DEF next
<1>10. StateIsTrue(next[1], h, arrived)
  <2>1. ~c.stale => \A m \in Range(c.ans) : InboxOf[m] = st.inbox
    BY <1>1, <1>2 DEF CallIsTrue, CallIsTimely
  <2> QED BY <1>1, <1>4, <1>5, <1>9, <2>1 DEF StateIsTrue
<1>11. Len(next[2]) <= MaxCalls
  <2>1. Len(Rest(n)) \in Nat /\ Len(next[2]) \in Nat
    BY <1>1, <1>9 DEF CallsFit
  <2> QED BY <1>1, <1>9, <2>1, PageBoundAssumption
<1>12. /\ route' \in Page /\ count' \in [acts : Nat, mishaps : Nat]
       /\ next[1].inbox = st.inbox /\ UNCHANGED <<arrived, stored, page, auto>>
  BY <1>1, <1>2, <1>4, <1>9 DEF Types
<1> QED BY <1>2, <1>5, <1>9, <1>10, <1>11, <1>12, ShowsKeeps

LEMMA SearchArrivesKeeps ==
  ASSUME IInv, NEW n \in DOMAIN calls, SearchArrives(n) PROVE IInv'
<1> DEFINE c == calls[n]
           s == [st EXCEPT !.messages = c.ans, !.searching = FALSE]
           h == ListIsFrom(n)
<1>1. /\ Types /\ st \in State /\ hist \in History /\ c \in CallState
      /\ CallIsFormed(c) /\ CallIsTrue(c, stored, arrived) /\ CallIsTimely(c, st)
      /\ Rest(n) \in Seq(CallState) /\ Len(Rest(n)) + 1 <= MaxCalls
      /\ CallsFit(Rest(n), st, stored, arrived) /\ StateIsTrue(st, hist, arrived)
  BY AnswerFinds
<1>2. /\ c.kind = "search" /\ st' = s /\ calls' = Rest(n) /\ hist' = h
      /\ UNCHANGED <<arrived, stored, route, page, auto, count>>
  BY DEF SearchArrives, Answers, Shows
<1>3. c.ans \in Seq(Id) /\ c.chain \in BOOLEAN /\ c.stale \in BOOLEAN
  BY <1>1 DEF CallState
<1>4. /\ s \in State /\ s.inbox = st.inbox /\ s.query = st.query /\ s.messages = c.ans
      /\ s.current = st.current /\ s.raw = st.raw /\ s.loadingInbox = st.loadingInbox
      /\ ~s.searching /\ s.loadingMsg = st.loadingMsg /\ s.waiting = st.waiting
  BY <1>1, <1>3 DEF State
<1>5. /\ h \in History /\ h.rawLate = hist.rawLate
      /\ h.heard /\ ~h.late => ~c.stale
  BY <1>1, <1>3 DEF History, ListIsFrom
<1> HIDE DEF s, h
<1>6. CallsFit(Rest(n), s, stored, arrived)
  BY <1>1, <1>4, StateFits
<1>7. Owed(s, Rest(n), c.chain) /\ ~c.chain
  BY <1>1, <1>2, <1>4, AnswerOwes DEF CallIsFormed
<1>8. FlagsFit(s, Rest(n))
  BY <1>7, OwedIsPaid
<1>9. StateIsTrue(s, h, arrived)
  <2>1. ~c.stale => st.query # NoQuery /\ \A m \in Range(c.ans) : m \in Matches[st.query]
    BY <1>1, <1>2 DEF CallIsTrue, CallIsTimely, CallIsFormed
  <2> QED BY <1>1, <1>4, <1>5, <2>1 DEF StateIsTrue
<1>10. Len(Rest(n)) <= MaxCalls
  BY <1>1, PageBoundAssumption
<1>11. route' \in Page /\ count' \in [acts : Nat, mishaps : Nat]
  BY <1>1, <1>2 DEF Types
<1> QED BY <1>2, <1>4, <1>5, <1>6, <1>8, <1>9, <1>10, <1>11, ShowsKeeps

(* The message is opened, and the sources of others are left stale. *)
LEMMA MessageArrivesKeeps ==
  ASSUME IInv, NEW n \in DOMAIN calls, MessageArrives(n) PROVE IInv'
<1> DEFINE c == calls[n]
           s == Opened(c)
           old == Stale(Rest(n), {"raw"})
           d == Call("raw", c.arg, NoMessage, FALSE)
           cs == Append(old, d)
           h == [hist EXCEPT !.rawLate = FALSE, !.promised = IF c.chain THEN c.arg ELSE hist.promised]
<1>1. /\ Types /\ st \in State /\ hist \in History /\ c \in CallState
      /\ CallIsFormed(c) /\ CallIsTrue(c, stored, arrived) /\ CallIsTimely(c, st)
      /\ Rest(n) \in Seq(CallState) /\ Len(Rest(n)) + 1 <= MaxCalls
      /\ CallsFit(Rest(n), st, stored, arrived) /\ StateIsTrue(st, hist, arrived)
  BY AnswerFinds
<1>2. /\ c.kind = "msg" /\ c.ans # <<>> /\ st' = s /\ calls' = cs /\ hist' = h
      /\ UNCHANGED <<arrived, stored, route, page, auto, count>>
  BY DEF MessageArrives, Answers, Shows
<1>3. c.arg \in Id /\ c.arg \in 1 .. arrived
  BY <1>1, <1>2 DEF CallIsFormed, CallIsTrue
<1>4. (st.waiting /\ ~c.chain) \in BOOLEAN
  OBVIOUS
<1>5. /\ s \in State /\ s.inbox = st.inbox /\ s.query = st.query /\ s.messages = st.messages
      /\ s.current = c.arg /\ s.raw = NoMessage /\ s.loadingInbox = st.loadingInbox
      /\ s.searching = st.searching /\ ~s.loadingMsg /\ (s.waiting <=> (st.waiting /\ ~c.chain))
  BY <1>1, <1>3, <1>4 DEF State, Opened
<1>6. h \in History /\ h.heard = hist.heard /\ h.late = hist.late
  BY <1>1, <1>3 DEF History
<1> HIDE DEF s, h
<1>7. /\ old \in Seq(CallState) /\ Len(old) = Len(Rest(n)) /\ DOMAIN old = DOMAIN Rest(n)
      /\ \A k \in DOMAIN Rest(n) :
           old[k].kind = Rest(n)[k].kind /\ old[k].chain = Rest(n)[k].chain
  BY <1>1, StaleOf
<1>8. CallsFit(old, s, stored, arrived)
  BY <1>1, <1>5, StaleFits
<1>9. PICK m \in Id : m = c.arg
  BY <1>3
<1> DEFINE e == Call("raw", m, NoMessage, FALSE)
<1>10. /\ e \in CallState /\ CallIsFormed(e) /\ CallIsTrue(e, stored, arrived)
       /\ e.kind = "raw" /\ e.arg = m /\ e.chain = FALSE
  BY <1>1, AloneIsNew
<1>11. /\ d \in CallState /\ CallIsFormed(d) /\ CallIsTrue(d, stored, arrived)
       /\ d.kind = "raw" /\ d.arg = c.arg /\ ~d.chain
  BY <1>9, <1>10
<1> HIDE DEF d, e, old
<1>12. CallIsTimely(d, s)
  BY <1>5, <1>11 DEF CallIsTimely
<1>13. CallsFit(cs, s, stored, arrived)
  BY <1>8, <1>11, <1>12, AppendFits
<1>14. FlagsFit(s, cs)
  <2> DEFINE t == [st EXCEPT !.loadingMsg = FALSE]
  <2>1. /\ t.loadingInbox = st.loadingInbox /\ t.searching = st.searching
        /\ ~t.loadingMsg /\ t.waiting = st.waiting
    BY <1>1 DEF State
  <2> HIDE DEF t
  <2>2. Owed(t, Rest(n), c.chain)
    BY <1>2, <2>1, AnswerOwes
  <2>3. FlagsFit(s, Rest(n))
    BY <1>5, <2>1, <2>2, OwedIsPaid
  <2>4. /\ \A k : HasKind(old, k) <=> HasKind(Rest(n), k)
        /\ HasChain(old) <=> HasChain(Rest(n))
        /\ OneChain(Rest(n)) => OneChain(old)
    BY <1>7, SameKinds
  <2>5. FlagsFit(s, old)
    BY <2>3, <2>4 DEF FlagsFit
  <2> QED BY <1>7, <1>11, <2>5, FlagsOfAppend
<1>15. StateIsTrue(s, h, arrived)
  BY <1>1, <1>3, <1>5, <1>6 DEF StateIsTrue
<1>16. Len(cs) <= MaxCalls
  BY <1>1, <1>7, <1>11
<1>17. route' \in Page /\ count' \in [acts : Nat, mishaps : Nat]
  BY <1>1, <1>2 DEF Types
<1> HIDE DEF cs
<1> QED BY <1>2, <1>5, <1>6, <1>13, <1>14, <1>15, <1>16, <1>17, ShowsKeeps

LEMMA RawArrivesKeeps ==
  ASSUME IInv, NEW n \in DOMAIN calls, RawArrives(n) PROVE IInv'
<1> DEFINE c == calls[n]
           s == [st EXCEPT !.raw = c.arg]
           h == [hist EXCEPT !.rawLate = hist.rawLate \/ c.stale]
<1>1. /\ Types /\ st \in State /\ hist \in History /\ c \in CallState
      /\ CallIsFormed(c) /\ CallIsTrue(c, stored, arrived) /\ CallIsTimely(c, st)
      /\ Rest(n) \in Seq(CallState) /\ Len(Rest(n)) + 1 <= MaxCalls
      /\ CallsFit(Rest(n), st, stored, arrived) /\ StateIsTrue(st, hist, arrived)
  BY AnswerFinds
<1>2. /\ c.kind = "raw" /\ st' = s /\ calls' = Rest(n) /\ hist' = h
      /\ UNCHANGED <<arrived, stored, route, page, auto, count>>
  BY DEF RawArrives, Answers, Shows
<1>3. c.arg \in Id /\ ~c.chain /\ (hist.rawLate \/ c.stale) \in BOOLEAN
  BY <1>1, <1>2 DEF CallIsFormed
<1>4. /\ s \in State /\ s.inbox = st.inbox /\ s.query = st.query /\ s.messages = st.messages
      /\ s.current = st.current /\ s.raw = c.arg /\ s.loadingInbox = st.loadingInbox
      /\ s.searching = st.searching /\ s.loadingMsg = st.loadingMsg /\ s.waiting = st.waiting
  BY <1>1, <1>3 DEF State
<1>5. /\ h \in History /\ h.heard = hist.heard /\ h.late = hist.late
      /\ (h.rawLate <=> (hist.rawLate \/ c.stale))
  BY <1>1, <1>3 DEF History
<1> HIDE DEF s, h
<1>6. CallsFit(Rest(n), s, stored, arrived)
  BY <1>1, <1>4, StateFits
<1>7. FlagsFit(s, Rest(n))
  <2>1. Owed(s, Rest(n), c.chain)
    BY <1>2, <1>4, AnswerOwes
  <2> QED BY <1>3, <2>1, OwedIsPaid
<1>8. StateIsTrue(s, h, arrived)
  <2>1. ~c.stale /\ st.current # NoMessage => c.arg = st.current
    BY <1>1, <1>2 DEF CallIsTimely
  <2> QED BY <1>1, <1>4, <1>5, <2>1 DEF StateIsTrue
<1>9. Len(Rest(n)) <= MaxCalls
  BY <1>1, PageBoundAssumption
<1>10. route' \in Page /\ count' \in [acts : Nat, mishaps : Nat]
  BY <1>1, <1>2 DEF Types
<1> QED BY <1>2, <1>4, <1>5, <1>6, <1>7, <1>8, <1>9, <1>10, ShowsKeeps

LEMMA DeleteArrivesKeeps ==
  ASSUME IInv, NEW n \in DOMAIN calls, DeleteArrives(n) PROVE IInv'
<1> DEFINE c == calls[n]
           s == [st EXCEPT !.current = IF st.current = c.arg THEN NoMessage ELSE st.current]
           t == LoadingMessages(s)
           cs == AskMessages(s, Rest(n))
<1>1. /\ Types /\ st \in State /\ hist \in History /\ c \in CallState
      /\ CallIsFormed(c) /\ CallIsTrue(c, stored, arrived) /\ CallIsTimely(c, st)
      /\ Rest(n) \in Seq(CallState) /\ Len(Rest(n)) + 1 <= MaxCalls
      /\ CallsFit(Rest(n), st, stored, arrived) /\ StateIsTrue(st, hist, arrived)
  BY AnswerFinds
<1>2. /\ c.kind = "del" /\ st' = t /\ calls' = cs /\ hist' = hist
      /\ UNCHANGED <<arrived, stored, route, page, auto, count>>
  BY DEF DeleteArrives, Answers, Shows
<1>3. /\ s \in State /\ s.inbox = st.inbox /\ s.query = st.query /\ s.messages = st.messages
      /\ s.current \in {st.current, NoMessage} /\ s.raw = st.raw
      /\ s.loadingInbox = st.loadingInbox /\ s.searching = st.searching
      /\ s.loadingMsg = st.loadingMsg /\ s.waiting = st.waiting
  BY <1>1 DEF State
<1> HIDE DEF s
<1>4. /\ t \in State /\ t.inbox = s.inbox /\ t.query = s.query /\ t.messages = s.messages
      /\ t.current = s.current /\ t.raw = s.raw
  BY <1>3, LoadingTypes
<1>5. CallsFit(Rest(n), s, stored, arrived)
  BY <1>1, <1>3, StateFits
<1>6. FlagsFit(s, Rest(n))
  <2>1. Owed(s, Rest(n), c.chain) /\ ~c.chain
    BY <1>1, <1>2, <1>3, AnswerOwes DEF CallIsFormed
  <2> QED BY <2>1, OwedIsPaid
<1>7. CallsFit(cs, s, stored, arrived) /\ FlagsFit(t, cs)
  BY <1>1, <1>3, <1>5, <1>6, AskFits, AskFlags
<1>8. Len(cs) <= MaxCalls
  <2>1. \A d : Len(Append(Rest(n), d)) = Len(Rest(n)) + 1
    BY <1>1
  <2> QED BY <1>1, <2>1, PageBoundAssumption DEF AskMessages
<1> HIDE DEF t, cs
<1>9. CallsFit(cs, t, stored, arrived)
  BY <1>4, <1>7, StateFits
<1>10. StateIsTrue(t, hist, arrived)
  BY <1>1, <1>3, <1>4 DEF StateIsTrue
<1>11. route' \in Page /\ count' \in [acts : Nat, mishaps : Nat] /\ t.inbox = st.inbox
  BY <1>1, <1>2, <1>3, <1>4 DEF Types
<1> QED BY <1>1, <1>2, <1>4, <1>7, <1>8, <1>9, <1>10, <1>11, ShowsKeeps

LEMMA ClearArrivesKeeps ==
  ASSUME IInv, NEW n \in DOMAIN calls, ClearArrives(n) PROVE IInv'
<1> DEFINE c == calls[n]
           s == [st EXCEPT !.current = NoMessage, !.messages = <<>>]
           h == [hist EXCEPT !.late = hist.late \/ c.stale]
<1>1. /\ Types /\ st \in State /\ hist \in History /\ c \in CallState
      /\ CallIsFormed(c) /\ CallIsTrue(c, stored, arrived) /\ CallIsTimely(c, st)
      /\ Rest(n) \in Seq(CallState) /\ Len(Rest(n)) + 1 <= MaxCalls
      /\ CallsFit(Rest(n), st, stored, arrived) /\ StateIsTrue(st, hist, arrived)
  BY AnswerFinds
<1>2. /\ c.kind = "clear" /\ st' = s /\ calls' = Rest(n) /\ hist' = h
      /\ UNCHANGED <<arrived, stored, route, page, auto, count>>
  BY DEF ClearArrives, Answers, Shows
<1>3. /\ ~c.chain /\ (hist.late \/ c.stale) \in BOOLEAN
      /\ <<>> \in Seq(Id) /\ NoMessage \in Id \cup {NoMessage} /\ Range(<<>>) = {}
  BY <1>1, <1>2 DEF CallIsFormed, Range
<1>4. /\ s \in State /\ s.inbox = st.inbox /\ s.query = st.query /\ s.messages = <<>>
      /\ s.current = NoMessage /\ s.raw = st.raw /\ s.loadingInbox = st.loadingInbox
      /\ s.searching = st.searching /\ s.loadingMsg = st.loadingMsg /\ s.waiting = st.waiting
  BY <1>1, <1>3 DEF State
<1>5. h \in History
  BY <1>1, <1>3 DEF History
<1> HIDE DEF s, h
<1>6. CallsFit(Rest(n), s, stored, arrived)
  BY <1>1, <1>4, StateFits
<1>7. FlagsFit(s, Rest(n))
  <2>1. Owed(s, Rest(n), c.chain)
    BY <1>2, <1>4, AnswerOwes
  <2> QED BY <1>3, <2>1, OwedIsPaid
<1>8. StateIsTrue(s, h, arrived)
  BY <1>3, <1>4 DEF StateIsTrue
<1>9. Len(Rest(n)) <= MaxCalls
  BY <1>1, PageBoundAssumption
<1>10. route' \in Page /\ count' \in [acts : Nat, mishaps : Nat]
  BY <1>1, <1>2 DEF Types
<1> QED BY <1>2, <1>4, <1>5, <1>6, <1>7, <1>8, <1>9, <1>10, ShowsKeeps

LEMMA WaitArrivesKeeps ==
  ASSUME IInv, NEW n \in DOMAIN calls, WaitArrives(n) PROVE IInv'
<1> DEFINE c == calls[n]
<1>1. /\ Types /\ st \in State /\ hist \in History /\ c \in CallState
      /\ CallIsFormed(c) /\ CallIsTrue(c, stored, arrived) /\ CallIsTimely(c, st)
      /\ Rest(n) \in Seq(CallState) /\ Len(Rest(n)) + 1 <= MaxCalls
      /\ CallsFit(Rest(n), st, stored, arrived) /\ StateIsTrue(st, hist, arrived)
  BY AnswerFinds
<1>2. c.kind = "wait" /\ UNCHANGED <<arrived, stored, page, auto, count, hist>>
  BY DEF WaitArrives, Answers
<1>3. c.chain /\ c.arg \in Inbox /\ c.ans \in Seq(Id) /\ c.chain \in BOOLEAN
  BY <1>1, <1>2 DEF CallIsFormed, CallState
<1>4. Owed(st, Rest(n), TRUE)
  <2>1. Owed(st, Rest(n), c.chain)
    BY <1>2, AnswerOwes
  <2> QED BY <1>3, <2>1 DEF Owed
<1>5. count' \in [acts : Nat, mishaps : Nat] /\ route \in Page
  BY <1>1, <1>2 DEF Types
<1>6. CASE c.ans = <<>>
  <2> DEFINE s == [st EXCEPT !.waiting = FALSE]
  <2>1. st' = s /\ calls' = Rest(n) /\ route' = route
    BY <1>6 DEF WaitArrives
  <2>2. /\ s \in State /\ s.inbox = st.inbox /\ s.query = st.query /\ s.messages = st.messages
        /\ s.current = st.current /\ s.raw = st.raw /\ s.loadingInbox = st.loadingInbox
        /\ s.searching = st.searching /\ s.loadingMsg = st.loadingMsg /\ ~s.waiting
    BY <1>1 DEF State
  <2> HIDE DEF s
  <2>3. CallsFit(Rest(n), s, stored, arrived)
    BY <1>1, <2>2, StateFits
  <2>4. FlagsFit(s, Rest(n))
    BY <1>4, <2>2, OwedIsPaid
  <2>5. StateIsTrue(s, hist, arrived)
    BY <1>1, <2>2 DEF StateIsTrue
  <2>6. Len(Rest(n)) <= MaxCalls
    BY <1>1, PageBoundAssumption
  <2> QED BY <1>1, <1>2, <1>5, <2>1, <2>2, <2>3, <2>4, <2>5, <2>6, ShowsKeeps
<1>7. c.ans # <<>> => Head(c.ans) \in Id
  BY <1>3, HeadTailProperties
<1>8. CASE c.ans # <<>> /\ st.inbox = c.arg
  <2> DEFINE s == LoadingMessages(st)
             d == Call("list", c.arg, Head(c.ans), TRUE)
             cs == Append(Rest(n), d)
  <2>1. st' = s /\ calls' = cs /\ route' = route
    BY <1>8 DEF WaitArrives
  <2>2. /\ s \in State /\ s.inbox = st.inbox /\ s.query = st.query /\ s.messages = st.messages
        /\ s.current = st.current /\ s.raw = st.raw
        /\ s.searching = st.searching /\ s.loadingMsg = st.loadingMsg
        /\ s.waiting = st.waiting
    BY <1>1, LoadingTypes
  <2>3. PICK m \in Id, i \in Inbox : m = Head(c.ans) /\ i = c.arg
    BY <1>3, <1>7, <1>8
  <2> DEFINE e == Call("list", i, m, TRUE)
  <2>4. m \in Id \cup {NoMessage}
    OBVIOUS
  <2>5. /\ e \in CallState /\ CallIsFormed(e) /\ CallIsTrue(e, stored, arrived)
        /\ e.kind = "list" /\ e.arg = i /\ e.chain = TRUE
    BY <1>1, <2>4, ChainIsNew
  <2>6. /\ d \in CallState /\ CallIsFormed(d) /\ CallIsTrue(d, stored, arrived)
        /\ d.kind = "list" /\ d.arg = c.arg /\ d.chain
    BY <2>3, <2>5
  <2> HIDE DEF d, e, s
  <2>7. CallIsTimely(d, st)
    BY <1>8, <2>6 DEF CallIsTimely
  <2>8. CallsFit(cs, st, stored, arrived)
    BY <1>1, <2>6, <2>7, AppendFits
  <2>9. CallsFit(cs, s, stored, arrived)
    BY <2>2, <2>8, StateFits
  <2>10. FlagsFit(s, cs)
    BY <1>1, <1>4, <2>2, <2>6, OwedGoesOn
  <2>11. StateIsTrue(s, hist, arrived)
    BY <1>1, <2>2 DEF StateIsTrue
  <2>12. Len(cs) <= MaxCalls
    BY <1>1, <2>6
  <2> HIDE DEF cs
  <2> QED BY <1>1, <1>2, <1>5, <2>1, <2>2, <2>9, <2>10, <2>11, <2>12, ShowsKeeps
<1>9. CASE c.ans # <<>> /\ st.inbox # c.arg
  <2> DEFINE b == [c EXCEPT !.id = Head(c.ans)]
             t == ThenOpen(b, st, Rest(n))[1]
             ds == ThenOpen(b, st, Rest(n))[2]
  <2>1. st' = t /\ calls' = ds /\ route' = c.arg
    BY <1>9 DEF WaitArrives
  <2>2. b.chain = TRUE /\ b.id \in Id
    BY <1>1, <1>3, <1>7, <1>9 DEF CallState
  <2>3. b.chain \in BOOLEAN /\ Owed(st, Rest(n), b.chain)
    BY <1>4, <2>2
  <2> HIDE DEF b
  <2>4. /\ t \in State /\ t.inbox = st.inbox /\ t.query = st.query /\ t.messages = st.messages
        /\ t.current = st.current /\ t.raw = st.raw
        /\ CallsFit(ds, t, stored, arrived) /\ FlagsFit(t, ds)
        /\ Len(ds) <= Len(Rest(n)) + 1
    BY <1>1, <2>2, <2>3, ThenOpenFits
  <2> HIDE DEF t, ds
  <2>5. StateIsTrue(t, hist, arrived)
    BY <1>1, <2>4 DEF StateIsTrue
  <2>6. Len(ds) <= MaxCalls
    <3>1. Len(Rest(n)) \in Nat /\ Len(ds) \in Nat
      BY <1>1, <2>4 DEF CallsFit
    <3> QED BY <1>1, <2>4, <3>1, PageBoundAssumption
  <2>7. route' \in Page
    BY <1>3, <2>1 DEF Page
  <2> QED BY <1>1, <1>2, <1>5, <2>1, <2>4, <2>5, <2>6, <2>7, ShowsKeeps
<1> QED BY <1>6, <1>8, <1>9

(* The spinner of its kind stops, and a wait ends with its message or goes on
   without its list. *)
LEMMA CallFailsKeeps ==
  ASSUME IInv, NEW n \in DOMAIN calls, CallFails(n) PROVE IInv'
<1> DEFINE c == calls[n]
           over == c.chain /\ c.kind \in {"msg", "wait"}
           s == [st EXCEPT !.loadingInbox = st.loadingInbox /\ c.kind # "list",
                           !.searching = st.searching /\ c.kind # "search",
                           !.loadingMsg = st.loadingMsg /\ c.kind # "msg",
                           !.waiting = st.waiting /\ ~over]
           next == IF c.kind = "list" THEN ThenOpen(c, s, Rest(n)) ELSE <<s, Rest(n)>>
<1>1. /\ Types /\ st \in State /\ hist \in History /\ c \in CallState
      /\ CallIsFormed(c) /\ CallIsTrue(c, stored, arrived) /\ CallIsTimely(c, st)
      /\ Rest(n) \in Seq(CallState) /\ Len(Rest(n)) + 1 <= MaxCalls
      /\ CallsFit(Rest(n), st, stored, arrived) /\ StateIsTrue(st, hist, arrived)
  BY AnswerFinds
<1>2. /\ st' = next[1] /\ calls' = next[2] /\ (Mishap \/ UNCHANGED count)
      /\ UNCHANGED <<arrived, stored, route, page, auto, hist>>
  BY DEF CallFails
<1>3. /\ (st.loadingInbox /\ c.kind # "list") \in BOOLEAN
      /\ (st.searching /\ c.kind # "search") \in BOOLEAN
      /\ (st.loadingMsg /\ c.kind # "msg") \in BOOLEAN
      /\ (st.waiting /\ ~over) \in BOOLEAN
  OBVIOUS
<1>4. /\ s \in State /\ s.inbox = st.inbox /\ s.query = st.query /\ s.messages = st.messages
      /\ s.current = st.current /\ s.raw = st.raw
      /\ s.loadingInbox => st.loadingInbox /\ c.kind # "list"
      /\ s.searching => st.searching /\ c.kind # "search"
      /\ s.loadingMsg => st.loadingMsg /\ c.kind # "msg"
      /\ s.waiting <=> (st.waiting /\ ~over)
  <2>1. PICK lists \in BOOLEAN : lists = (st.loadingInbox /\ c.kind # "list")
    BY <1>3
  <2>2. PICK searches \in BOOLEAN : searches = (st.searching /\ c.kind # "search")
    BY <1>3
  <2>3. PICK opens \in BOOLEAN : opens = (st.loadingMsg /\ c.kind # "msg")
    BY <1>3
  <2>4. PICK waits \in BOOLEAN : waits = (st.waiting /\ ~over)
    BY <1>3
  <2>5. s = [st EXCEPT !.loadingInbox = lists, !.searching = searches,
                       !.loadingMsg = opens, !.waiting = waits]
    BY <2>1, <2>2, <2>3, <2>4
  <2> HIDE DEF s, over
  <2>6. /\ s \in State /\ s.inbox = st.inbox /\ s.query = st.query
        /\ s.messages = st.messages /\ s.current = st.current /\ s.raw = st.raw
        /\ s.loadingInbox = lists /\ s.searching = searches
        /\ s.loadingMsg = opens /\ s.waiting = waits
    BY <1>1, <2>5 DEF State
  <2> QED BY <2>1, <2>2, <2>3, <2>4, <2>6
<1> HIDE DEF s
<1>5. CallsFit(Rest(n), s, stored, arrived)
  BY <1>1, <1>4, StateFits
<1>6. /\ next[1] \in State /\ next[1].inbox = s.inbox /\ next[1].query = s.query
      /\ next[1].messages = s.messages /\ next[1].current = s.current /\ next[1].raw = s.raw
      /\ CallsFit(next[2], next[1], stored, arrived) /\ FlagsFit(next[1], next[2])
      /\ Len(next[2]) <= MaxCalls
  <2>1. CASE c.kind = "list"
    <3>1. ~over /\ (s.waiting <=> st.waiting)
      BY <1>4, <2>1
    <3>2. Owed(s, Rest(n), c.chain)
      BY <1>4, <3>1, AnswerOwes
    <3>3. c.chain \in BOOLEAN /\ (c.chain => c.id \in Id)
      BY <1>1, <2>1 DEF CallIsFormed, CallState
    <3> DEFINE t == ThenOpen(c, s, Rest(n))[1]
               ds == ThenOpen(c, s, Rest(n))[2]
    <3>4. /\ t \in State /\ t.inbox = s.inbox /\ t.query = s.query /\ t.messages = s.messages
          /\ t.current = s.current /\ t.raw = s.raw
          /\ CallsFit(ds, t, stored, arrived) /\ FlagsFit(t, ds)
          /\ Len(ds) <= Len(Rest(n)) + 1
      BY <1>1, <1>4, <1>5, <3>2, <3>3, ThenOpenFits
    <3>5. next[1] = t /\ next[2] = ds
      BY <2>1
    <3> HIDE DEF t, ds, next
    <3>6. Len(Rest(n)) \in Nat /\ Len(ds) \in Nat
      BY <1>1, <3>4 DEF CallsFit
    <3>7. Len(ds) <= MaxCalls
      BY <1>1, <3>4, <3>6, PageBoundAssumption
    <3> QED BY <3>4, <3>5, <3>7
  <2>2. CASE c.kind # "list"
    <3>1. next[1] = s /\ next[2] = Rest(n)
      BY <2>2
    <3>2. over <=> c.chain
      BY <1>1, <2>2 DEF CallIsFormed
    <3> DEFINE t == [s EXCEPT !.waiting = st.waiting]
    <3>3. /\ t.loadingInbox = s.loadingInbox /\ t.searching = s.searching
          /\ t.loadingMsg = s.loadingMsg /\ t.waiting = st.waiting
      BY <1>4 DEF State
    <3> HIDE DEF t, next
    <3>4. Owed(t, Rest(n), c.chain)
      BY <1>4, <3>3, AnswerOwes
    <3>5. FlagsFit(s, Rest(n))
      BY <1>4, <3>2, <3>3, <3>4, OwedIsPaid
    <3>6. Len(Rest(n)) <= MaxCalls
      BY <1>1, PageBoundAssumption
    <3> QED BY <1>4, <1>5, <3>1, <3>5, <3>6
  <2> QED BY <2>1, <2>2
<1> HIDE DEF next
<1>7. StateIsTrue(next[1], hist, arrived)
  BY <1>1, <1>4, <1>6 DEF StateIsTrue
<1>8. route' \in Page /\ count' \in [acts : Nat, mishaps : Nat] /\ next[1].inbox = st.inbox
  BY <1>1, <1>2, <1>4, <1>6, MishapCounts DEF Types
<1> QED BY <1>1, <1>2, <1>6, <1>7, <1>8, ShowsKeeps

---------------------------------------------------------------------------
(* Every step keeps the invariant. *)

LEMMA InitHolds == Init => IInv
<1> SUFFICES ASSUME Init PROVE IInv
  OBVIOUS
<1>1. /\ st.inbox = NoInbox /\ st.current = NoMessage /\ ~st.loadingInbox /\ ~st.loadingMsg
      /\ ~st.searching /\ ~st.waiting /\ calls = <<>> /\ ~hist.heard
  BY DEF Init
<1>2. Types
  <2>1. <<>> \in Seq(Id) /\ Len(<<>>) = 0 /\ 0 <= MaxCalls /\ 0 \in 0 .. MaxMail
    BY MailAssumption, PageBoundAssumption
  <2>2. st \in State
    BY <2>1 DEF Init, State
  <2>3. hist \in History /\ count \in [acts : Nat, mishaps : Nat]
    BY DEF Init, History
  <2>4. page \in Page /\ page \notin Inbox /\ page # "landing"
    BY PageAssumption DEF Init, Page
  <2> QED BY <2>1, <2>2, <2>3, <2>4 DEF Init, Types
<1>3. calls \in Seq(CallState) /\ DOMAIN calls = {}
  BY <1>1
<1>4. CallsFit(calls, st, stored, arrived)
  BY <1>3 DEF CallsFit
<1>5. FlagsFit(st, calls)
  BY <1>1, <1>3 DEF FlagsFit, HasChain, OneChain
<1>6. StateIsTrue(st, hist, arrived)
  BY <1>1 DEF StateIsTrue
<1> QED BY <1>2, <1>4, <1>5, <1>6 DEF IInv

LEMMA UserKeeps == ASSUME IInv, User PROVE IInv'
<1>1. CASE (\E r \in Page : Navigate(r)) \/ ToggleAuto
  BY <1>1, NavigateKeeps
<1>2. ASSUME NEW m \in Id, OpenMessage(m) PROVE IInv'
  BY <1>2, OpenMessageKeeps
<1>3. ASSUME NEW q \in Query \cup {NoQuery}, Search(q) PROVE IInv'
  BY <1>3, SearchKeeps
<1>4. CASE CloseMessage \/ DeleteMessage \/ ClearInbox
  BY <1>4, CloseMessageKeeps, DeleteMessageKeeps, ClearInboxKeeps
<1>5. CASE Refresh \/ WaitForNext
  BY <1>5, RefreshKeeps, WaitForNextKeeps
<1> QED BY <1>1, <1>2, <1>3, <1>4, <1>5 DEF User

LEMMA AnswerKeeps ==
  ASSUME IInv, NEW n \in DOMAIN calls, Answer(n) PROVE IInv'
<1>1. CASE MessagesArrive(n) \/ SearchArrives(n) \/ MessageArrives(n) \/ RawArrives(n)
  BY <1>1, MessagesArriveKeeps, SearchArrivesKeeps, MessageArrivesKeeps, RawArrivesKeeps
<1>2. CASE DeleteArrives(n) \/ ClearArrives(n) \/ WaitArrives(n) \/ CallFails(n)
  BY <1>2, DeleteArrivesKeeps, ClearArrivesKeeps, WaitArrivesKeeps, CallFailsKeeps
<1> QED BY <1>1, <1>2 DEF Answer

LEMMA NextHolds == IInv /\ [Next]_vars => IInv'
<1> SUFFICES ASSUME IInv, [Next]_vars PROVE IInv'
  OBVIOUS
<1>1. CASE User
  BY <1>1, UserKeeps
<1>2. CASE MountPage \/ Poll
  BY <1>2, MountPageKeeps, PollKeeps
<1>3. ASSUME NEW n \in DOMAIN calls, Serve(n) \/ Answer(n) PROVE IInv'
  BY <1>3, ServeKeeps, AnswerKeeps
<1>4. ASSUME Arrive \/ \E m \in Id : DeletedElsewhere(m) PROVE IInv'
  BY <1>4, ArriveKeeps, DeletedElsewhereKeeps
<1>5. CASE UNCHANGED vars
  <2>1. /\ Types' /\ CallsFit(calls', st', stored', arrived') /\ FlagsFit(st', calls')
        /\ StateIsTrue(st', hist', arrived')
    BY <1>5 DEF vars, IInv, Types
  <2> QED BY <2>1 DEF IInv
<1> QED BY <1>1, <1>2, <1>3, <1>4, <1>5 DEF Next

LEMMA Inductive == Spec => []IInv
<1> QED BY InitHolds, NextHolds, PTL DEF Spec

---------------------------------------------------------------------------
(* What follows *)

(* The types of the variables; an inbox page works on its own inbox, and on the
   landing page every list under way is of an earlier visit. *)
THEOREM TypeCorrect == Spec => []TypeOK
<1>1. IInv => TypeOK
  <2> SUFFICES ASSUME IInv PROVE TypeOK
    OBVIOUS
  <2>1. Types /\ calls \in Seq(CallState)
    BY DEF IInv, CallsFit
  <2>2. \A n \in DOMAIN calls :
          /\ calls[n].kind \in {"list", "search", "clear", "msg", "raw", "del", "wait"}
          /\ calls[n].ans \in Seq(Id) /\ calls[n].id \in Id \cup {NoMessage}
    <3> TAKE n \in DOMAIN calls
    <3>1. calls[n] \in CallState
      BY <2>1
    <3> QED BY <3>1 DEF CallState
  <2>3. ASSUME page = "landing", NEW n \in InFlight({"list"}) PROVE calls[n].stale
    <3>1. n \in DOMAIN calls /\ calls[n].kind = "list"
      BY DEF InFlight
    <3>2. CallIsFormed(calls[n]) /\ CallIsTimely(calls[n], st)
      BY <3>1 DEF IInv, CallsFit
    <3> QED BY <2>1, <2>3, <3>1, <3>2, PageAssumption DEF Types, CallIsFormed, CallIsTimely
  <2> QED BY <2>1, <2>2, <2>3 DEF Types, TypeOK
<1> QED BY <1>1, Inductive, PTL

(* However calls overlap and fail, each spinner belongs to a call that will
   stop it, and one wait at most runs, while its button says so. *)
THEOREM FlagsKeepOwners == Spec => []FlagsHaveOwners
<1>1. IInv => FlagsHaveOwners
  <2> SUFFICES ASSUME IInv PROVE FlagsHaveOwners
    OBVIOUS
  <2>1. \A k : HasKind(calls, k) => InFlight({k}) # {}
    BY DEF HasKind, InFlight
  <2>2. FlagsFit(st, calls)
    BY DEF IInv
  <2> QED BY <2>1, <2>2 DEF FlagsFit, HasChain, OneChain, FlagsHaveOwners
<1> QED BY <1>1, Inductive, PTL

(* Whatever was asked before and comes late, the list shown is the open
   inbox's or the search's, late answers apart. *)
THEOREM ListStaysOwn == Spec => []ListIsOwn
<1>1. IInv => ListIsOwn
  BY DEF IInv, StateIsTrue, ListIsOwn
<1> QED BY <1>1, Inductive, PTL

(* The source shown is that of the message that is open, late answers apart. *)
THEOREM RawStaysOwn == Spec => []RawIsOwn
<1>1. IInv => RawIsOwn
  BY DEF IInv, StateIsTrue, RawIsOwn, ReaderPane
<1> QED BY <1>1, Inductive, PTL

---------------------------------------------------------------------------
(* What a step may not do *)

(* A message is closed by an act, by a page, or for a reason. *)
ClosedFor(c) ==
  \/ count'.acts # count.acts \/ page' # page
  \/ c \notin stored
  \/ \E n \in InFlight({"clear"}) : calls' = Rest(n)

LEMMA UserActed == ASSUME User PROVE UserActs
<1>1. ASSUME NEW r, Navigate(r) PROVE UserActs
  BY <1>1 DEF Navigate
<1>2. ASSUME NEW m, OpenMessage(m) PROVE UserActs
  BY <1>2 DEF OpenMessage, AsksInVisit, Asks
<1>3. ASSUME NEW q, Search(q) PROVE UserActs
  BY <1>3 DEF Search, Asks
<1>4. CASE CloseMessage \/ DeleteMessage \/ ClearInbox
  BY <1>4 DEF CloseMessage, DeleteMessage, ClearInbox, AsksInVisit, Asks
<1>5. CASE Refresh \/ WaitForNext
  BY <1>5 DEF Refresh, WaitForNext, AsksInVisit, Asks
<1>6. CASE ToggleAuto
  BY <1>6 DEF ToggleAuto
<1> QED BY <1>1, <1>2, <1>3, <1>4, <1>5, <1>6 DEF User

LEMMA ThenOpenKeeps ==
  ASSUME NEW c, NEW s \in State, NEW cs
  PROVE  ThenOpen(c, s, cs)[1].current = s.current
BY DEF ThenOpen, State

(* An answer closes the message only when it is deleted or its list cleared. *)
LEMMA AnswerKeepsOpen ==
  ASSUME IInv, NEW n \in DOMAIN calls, Answer(n), st.current # NoMessage, st'.current = NoMessage
  PROVE  ClosedFor(st.current)
<1> DEFINE c == calls[n]
<1>1. /\ st \in State /\ c \in CallState
      /\ CallIsFormed(c) /\ CallIsTrue(c, stored, arrived)
  BY AnswerFinds
<1>2. CASE MessagesArrive(n)
  <2> DEFINE s == [st EXCEPT !.messages = IF sameIds(st.messages, c.ans) THEN st.messages
                                          ELSE c.ans,
                             !.loadingInbox = FALSE]
  <2>1. s \in State /\ s.current = st.current
    <3>1. PICK ids \in Seq(Id) : ids = (IF sameIds(st.messages, c.ans) THEN st.messages ELSE c.ans)
      BY <1>1 DEF State, CallState
    <3>2. s = [st EXCEPT !.messages = ids, !.loadingInbox = FALSE]
      BY <3>1
    <3> HIDE DEF s
    <3> QED BY <1>1, <3>1, <3>2 DEF State
  <2>2. st' = ThenOpen(c, s, Rest(n))[1]
    BY <1>2 DEF MessagesArrive, Shows
  <2> HIDE DEF s
  <2>3. st'.current = s.current
    BY <2>1, <2>2, ThenOpenKeeps
  <2> QED BY <1>1, <2>1, <2>3
<1>3. CASE SearchArrives(n)
  BY <1>1, <1>3 DEF SearchArrives, Shows, State
<1>4. CASE MessageArrives(n)
  <2>1. c.kind = "msg" /\ st' = Opened(c)
    BY <1>4 DEF MessageArrives, Answers, Shows
  <2>2. st'.current = c.arg /\ c.arg \in Id
    BY <1>1, <2>1 DEF Opened, State, CallIsFormed
  <2> QED BY <2>2 DEF Id, NoMessage
<1>5. CASE RawArrives(n)
  BY <1>1, <1>5 DEF RawArrives, Shows, State
<1>6. CASE DeleteArrives(n)
  <2>1. c.kind = "del" /\ c.served
    BY <1>6 DEF DeleteArrives, Answers
  <2> DEFINE s == [st EXCEPT !.current = IF st.current = c.arg THEN NoMessage ELSE st.current]
  <2>2. s \in State /\ s.current = (IF st.current = c.arg THEN NoMessage ELSE st.current)
    BY <1>1 DEF State
  <2>3. st' = LoadingMessages(s)
    BY <1>6 DEF DeleteArrives, Shows
  <2>4. st.current = c.arg
    BY <2>2, <2>3, LoadingTypes
  <2> QED BY <1>1, <2>1, <2>4 DEF CallIsTrue, ClosedFor
<1>7. CASE ClearArrives(n)
  BY <1>7 DEF ClearArrives, Answers, Shows, InFlight, ClosedFor
<1>8. CASE WaitArrives(n)
  <2>1. CASE st' = [st EXCEPT !.waiting = FALSE]
    BY <1>1, <2>1 DEF State
  <2>2. CASE st' = LoadingMessages(st)
    BY <1>1, <2>2, LoadingTypes
  <2>3. CASE st' = ThenOpen([c EXCEPT !.id = Head(c.ans)], st, Rest(n))[1]
    BY <1>1, <2>3, ThenOpenKeeps
  <2> QED BY <1>8, <2>1, <2>2, <2>3 DEF WaitArrives
<1>9. CASE CallFails(n)
  <2>1. PICK lists \in BOOLEAN : lists = (st.loadingInbox /\ c.kind # "list")
    OBVIOUS
  <2>2. PICK searches \in BOOLEAN : searches = (st.searching /\ c.kind # "search")
    OBVIOUS
  <2>3. PICK opens \in BOOLEAN : opens = (st.loadingMsg /\ c.kind # "msg")
    OBVIOUS
  <2>4. PICK waits \in BOOLEAN : waits = (st.waiting /\ ~(c.chain /\ c.kind \in {"msg", "wait"}))
    OBVIOUS
  <2> DEFINE s == [st EXCEPT !.loadingInbox = lists, !.searching = searches,
                             !.loadingMsg = opens, !.waiting = waits]
  <2>5. s \in State /\ s.current = st.current
    BY <1>1 DEF State
  <2>6. st' = (IF c.kind = "list" THEN ThenOpen(c, s, Rest(n)) ELSE <<s, Rest(n)>>)[1]
    BY <1>9, <2>1, <2>2, <2>3, <2>4 DEF CallFails
  <2> HIDE DEF s
  <2>7. CASE c.kind = "list"
    BY <2>5, <2>6, <2>7, ThenOpenKeeps
  <2>8. CASE c.kind # "list"
    BY <2>5, <2>6, <2>8
  <2> QED BY <2>7, <2>8
<1> QED BY <1>2, <1>3, <1>4, <1>5, <1>6, <1>7, <1>8, <1>9 DEF Answer

(* The message that is read is closed by the user, by a page, by its own
   deletion or by the clearing of a list, and by nothing else. *)
THEOREM ReaderStaysOpen == Spec => ReaderKeepsOpen
<1>1. ASSUME IInv, [Next]_vars, st.current # NoMessage, st'.current = NoMessage
      PROVE  ClosedFor(st.current)
  <2>1. Types /\ st \in State
    BY <1>1 DEF IInv, Types
  <2>2. CASE User
    BY <2>1, <2>2, UserActed, ActCounts DEF ClosedFor
  <2>3. CASE MountPage
    BY <2>3 DEF MountPage, ClosedFor
  <2>4. CASE Poll
    BY <1>1, <2>1, <2>4, LoadingTypes DEF Poll
  <2>5. ASSUME NEW n \in DOMAIN calls, Serve(n) PROVE FALSE
    <3>1. st' = st
      BY <2>5 DEF Serve, ServeRead, ServeDelete, ServeWait, Serves
    <3> QED BY <1>1, <3>1
  <2>6. ASSUME NEW n \in DOMAIN calls, Answer(n) PROVE ClosedFor(st.current)
    BY <1>1, <2>6, AnswerKeepsOpen
  <2>7. CASE Arrive \/ \E m \in Id : DeletedElsewhere(m)
    BY <1>1, <2>7 DEF Arrive, DeletedElsewhere
  <2>8. CASE UNCHANGED vars
    BY <1>1, <2>8 DEF vars
  <2> QED BY <1>1, <2>2, <2>3, <2>4, <2>5, <2>6, <2>7, <2>8 DEF Next
<1>2. IInv /\ [Next]_vars =>
        (ReaderPane = "message" /\ st'.current = NoMessage =>
           \/ count'.acts # count.acts \/ page' # page
           \/ st.current \notin stored
           \/ \E n \in InFlight({"clear"}) : calls' = Rest(n))
  BY <1>1 DEF ClosedFor, ReaderPane
<1>3. IInv /\ [Next]_vars =>
        [ReaderPane = "message" /\ st'.current = NoMessage =>
           \/ count'.acts # count.acts \/ page' # page
           \/ st.current \notin stored
           \/ \E n \in InFlight({"clear"}) : calls' = Rest(n)]_vars
  BY <1>2
<1> QED BY <1>3, Inductive, PTL DEF Spec, ReaderKeepsOpen
=============================================================================

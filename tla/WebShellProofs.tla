--------------------------- MODULE WebShellProofs ---------------------------
(***************************************************************************)
(* Proofs about InboxLink and WebShell: what is encoded into a path comes  *)
(* back out of it; j and k miss no message of a list that stays as it is;  *)
(* while the user keeps still the highlight of the palette never slips to  *)
(* another command; what is on the screen fits together; and the inbox     *)
(* that opens is the one that was shown.                                   *)
(***************************************************************************)
EXTENDS WebShell, FunctionTheorems, FiniteSetTheorems, SequenceTheorems, TLAPS

---------------------------------------------------------------------------
(* Filtered sequences *)

(* f lists the m elements of K in their order. *)
InOrder(f, m, K) ==
  /\ m \in Nat /\ f \in [1 .. m -> K]
  /\ \A i, k \in 1 .. m : i < k => f[i] < f[k]
  /\ \A n \in K : \E k \in 1 .. m : f[k] = n

(* The elements of K up to n, which are counted to find the place of n. *)
UpTo(K, n) == {i \in K : i <= n}

LEMMA PlacesOfList ==
  ASSUME NEW K, K \subseteq Nat, NEW m, NEW f, InOrder(f, m, K)
  PROVE  /\ Cardinality(K) = m
         /\ \A k \in 1 .. m : Cardinality(UpTo(K, f[k])) = k
<1>0. /\ m \in Nat /\ f \in [1 .. m -> K]
      /\ \A i, k \in 1 .. m : i < k => f[i] < f[k]
      /\ \A n \in K : \E k \in 1 .. m : f[k] = n
  BY DEF InOrder
<1>1. ASSUME NEW k \in 1 .. m, NEW i \in 1 .. m PROVE f[i] <= f[k] <=> i <= k
  <2>1. f[i] \in Nat /\ f[k] \in Nat
    BY <1>0
  <2>2. i < k \/ k < i \/ i = k
    OBVIOUS
  <2> QED BY <1>0, <2>1, <2>2
<1>2. ASSUME NEW k \in 1 .. m PROVE Cardinality(UpTo(K, f[k])) = k
  <2> DEFINE g == [i \in 1 .. k |-> f[i]]
  <2>1. g \in [1 .. k -> UpTo(K, f[k])]
    BY <1>0, <1>1 DEF UpTo
  <2>2. \A i, l \in 1 .. k : g[i] = g[l] => i = l
    <3>1. SUFFICES ASSUME NEW i \in 1 .. k, NEW l \in 1 .. k, f[i] = f[l] PROVE i = l
      OBVIOUS
    <3>2. i \in 1 .. m /\ l \in 1 .. m
      BY <1>0
    <3>3. f[i] \in Nat /\ f[l] \in Nat
      BY <1>0, <3>2
    <3>4. f[i] <= f[l] /\ f[l] <= f[i]
      BY <3>1, <3>3
    <3>5. i <= l /\ l <= i
      BY <1>1, <3>2, <3>4
    <3> QED BY <3>5
  <2>3. \A n \in UpTo(K, f[k]) : \E i \in 1 .. k : g[i] = n
    <3>1. SUFFICES ASSUME NEW n \in K, n <= f[k] PROVE \E i \in 1 .. k : f[i] = n
      BY DEF UpTo
    <3>2. PICK i \in 1 .. m : f[i] = n
      BY <1>0
    <3>3. i <= k
      BY <1>1, <3>1, <3>2
    <3> QED BY <3>2, <3>3
  <2>4. g \in Bijection(1 .. k, UpTo(K, f[k]))
    <3> HIDE DEF g
    <3> QED BY <2>1, <2>2, <2>3, Fun_IsBij
  <2> QED BY <1>0, <2>4, FS_CountingElements DEF ExistsBijection
<1>3. Cardinality(K) = m
  <2>1. \A i, l \in 1 .. m : f[i] = f[l] => i = l
    <3>1. SUFFICES ASSUME NEW i \in 1 .. m, NEW l \in 1 .. m, f[i] = f[l] PROVE i = l
      OBVIOUS
    <3>2. f[i] \in Nat /\ f[l] \in Nat
      BY <1>0
    <3>3. f[i] <= f[l] /\ f[l] <= f[i]
      BY <3>1, <3>2
    <3>4. i <= l /\ l <= i
      BY <1>1, <3>3
    <3> QED BY <3>4
  <2>2. f \in Bijection(1 .. m, K)
    BY <1>0, <2>1, Fun_IsBij
  <2> QED BY <1>0, <2>2, FS_CountingElements DEF ExistsBijection
<1> QED BY <1>2, <1>3

(* What s has along the first m elements of f. *)
Along(s, f, m) == [k \in 1 .. m |-> s[f[k]]]

(* What is picked, where the positions are known in their order. *)
LEMMA PickedIs ==
  ASSUME NEW K, K \subseteq Nat, NEW m, NEW f, InOrder(f, m, K), NEW s
  PROVE  Picked(s, K) = Along(s, f, m)
<1>0. /\ m \in Nat /\ f \in [1 .. m -> K]
      /\ \A n \in K : \E k \in 1 .. m : f[k] = n
  BY DEF InOrder
<1>1. ASSUME NEW k \in 1 .. m
      PROVE  (CHOOSE n \in K : Cardinality(UpTo(K, n)) = k) = f[k]
  <2>1. \A i \in 1 .. m : Cardinality(UpTo(K, f[i])) = i
    BY PlacesOfList
  <2>2. f[k] \in K /\ Cardinality(UpTo(K, f[k])) = k
    BY <1>0, <2>1
  <2>3. ASSUME NEW n \in K, Cardinality(UpTo(K, n)) = k PROVE n = f[k]
    <3>1. PICK i \in 1 .. m : f[i] = n
      BY <1>0
    <3> QED BY <2>1, <2>3, <3>1
  <2> QED BY <2>2, <2>3
<1>2. Cardinality(K) = m
  BY PlacesOfList
<1>3. Picked(s, K) = [k \in 1 .. Cardinality(K) |->
                        s[CHOOSE n \in K : Cardinality(UpTo(K, n)) = k]]
  BY DEF Picked, UpTo
<1> QED BY <1>1, <1>2, <1>3 DEF Along

(* The places of a list's positions list them. *)
LEMMA PositionsInOrder ==
  ASSUME NEW N \in Nat, NEW K, K \subseteq 1 .. N
  PROVE  Cardinality(K) \in Nat /\ \E f : InOrder(f, Cardinality(K), K)
<1>1. IsFiniteSet(K) /\ Cardinality(K) \in Nat
  <2>1. IsFiniteSet(1 .. N) /\ K \in SUBSET (1 .. N)
    BY FS_Interval
  <2>2. IsFiniteSet(K)
    BY <2>1, FS_Subset
  <2> QED BY <2>2, FS_CardinalityType
<1>0. \A n \in K : n \in Nat
  OBVIOUS
<1> DEFINE m == Cardinality(K)
           spot(n) == Cardinality(UpTo(K, n))
           p == [n \in K |-> spot(n)]
<1>2. ASSUME NEW n \in K
      PROVE  IsFiniteSet(UpTo(K, n)) /\ spot(n) \in 1 .. m
  <2>1. UpTo(K, n) \in SUBSET K /\ n \in UpTo(K, n)
    BY <1>2 DEF UpTo
  <2>2. IsFiniteSet(UpTo(K, n)) /\ spot(n) <= m
    BY <1>1, <2>1, FS_Subset
  <2>3. spot(n) \in Nat /\ spot(n) # 0
    BY <2>1, <2>2, FS_CardinalityType, FS_EmptySet
  <2> QED BY <1>1, <2>2, <2>3
<1>3. ASSUME NEW i \in K, NEW n \in K, i < n PROVE spot(i) < spot(n)
  <2>1. UpTo(K, i) \in SUBSET UpTo(K, n) /\ n \in UpTo(K, n) /\ n \notin UpTo(K, i)
    <3>1. i \in Nat /\ n \in Nat
      BY <1>0
    <3> HIDE DEF p, m, spot
    <3>2. n \in UpTo(K, n) /\ n \notin UpTo(K, i)
      BY <1>3, <3>1 DEF UpTo
    <3>3. ASSUME NEW k \in UpTo(K, i) PROVE k \in UpTo(K, n)
      <4>1. k \in K /\ k <= i
        BY DEF UpTo
      <4>2. k \in Nat
        BY <1>0, <4>1
      <4>3. k <= n
        BY <1>3, <3>1, <4>1, <4>2
      <4> QED BY <4>1, <4>3 DEF UpTo
    <3> QED BY <3>2, <3>3
  <2>2. spot(i) <= spot(n) /\ spot(i) # spot(n)
    BY <1>2, <2>1, FS_Subset
  <2> QED BY <1>2, <2>2
<1> HIDE DEF spot
<1>4. p \in Injection(K, 1 .. m)
  <2>1. \A i, n \in K : i # n => p[i] # p[n]
    <3>1. SUFFICES ASSUME NEW i \in K, NEW n \in K, i # n PROVE spot(i) # spot(n)
      OBVIOUS
    <3>2. i < n \/ n < i
      BY <3>1
    <3>3. spot(i) \in Int /\ spot(n) \in Int
      BY <1>2
    <3> QED BY <1>3, <3>2, <3>3
  <2>2. p \in [K -> 1 .. m]
    BY <1>2
  <2> HIDE DEF p
  <2> QED BY <2>1, <2>2, Fun_IsInj
<1>5. p \in Surjection(K, 1 .. m)
  <2>1. IsFiniteSet(1 .. m) /\ Cardinality(1 .. m) = m
    BY <1>1, FS_Interval
  <2> HIDE DEF p, m
  <2>2. m = Cardinality(K)
    BY DEF m
  <2> QED BY <1>4, <2>1, <2>2, FS_Injection
<1>6. \A k \in 1 .. m : \E n \in K : spot(n) = k
  <2>1. \A k \in 1 .. m : \E n \in K : p[n] = k
    <3> HIDE DEF p, m
    <3> QED BY <1>5, Fun_SurjectionProperties
  <2> QED BY <2>1
<1> DEFINE f == [k \in 1 .. m |-> CHOOSE n \in K : spot(n) = k]
<1>7. ASSUME NEW k \in 1 .. m PROVE f[k] \in K /\ spot(f[k]) = k
  BY <1>6, <1>7
<1>8. InOrder(f, m, K)
  <2>1. \A i, k \in 1 .. m : i < k => f[i] < f[k]
    <3>1. SUFFICES ASSUME NEW i \in 1 .. m, NEW k \in 1 .. m, i < k PROVE f[i] < f[k]
      OBVIOUS
    <3> HIDE DEF f
    <3>2. f[i] \in K /\ f[k] \in K /\ spot(f[i]) = i /\ spot(f[k]) = k
      BY <1>7
    <3>3. f[i] \in Nat /\ f[k] \in Nat
      BY <1>0, <3>2
    <3>4. f[k] < f[i] => spot(f[k]) < spot(f[i])
      BY <1>3, <3>2
    <3>5. f[k] # f[i]
      BY <3>1, <3>2
    <3> QED BY <1>1, <3>1, <3>2, <3>3, <3>4, <3>5
  <2>2. \A n \in K : \E k \in 1 .. m : f[k] = n
    <3>1. SUFFICES ASSUME NEW n \in K PROVE f[spot(n)] = n /\ spot(n) \in 1 .. m
      OBVIOUS
    <3>2. spot(n) \in 1 .. m
      BY <1>2
    <3> HIDE DEF f
    <3>3. f[spot(n)] \in K /\ spot(f[spot(n)]) = spot(n)
      BY <1>7, <3>2
    <3>4. spot(n) \in Nat /\ n \in Nat /\ f[spot(n)] \in Nat
      <4>1. n \in Nat /\ f[spot(n)] \in Nat
        BY <1>0, <3>3
      <4>2. \A k \in 1 .. m : k \in Nat
        OBVIOUS
      <4> QED BY <3>2, <4>1, <4>2
    <3>5. ~(f[spot(n)] < n)
      BY <1>3, <3>3, <3>4
    <3>6. ~(n < f[spot(n)])
      BY <1>3, <3>3, <3>4
    <3> QED BY <3>2, <3>4, <3>5, <3>6
  <2>3. f \in [1 .. m -> K]
    BY <1>7
  <2> HIDE DEF f
  <2> QED BY <1>1, <2>1, <2>2, <2>3 DEF InOrder
<1> QED BY <1>1, <1>8

(* What is picked is a sequence of elements of the picked positions. *)
LEMMA PickedType ==
  ASSUME NEW N \in Nat, NEW K, K \subseteq 1 .. N, NEW S, NEW s, \A n \in K : s[n] \in S
  PROVE  Picked(s, K) \in Seq(S)
<1>1. Cardinality(K) \in Nat /\ \E f : InOrder(f, Cardinality(K), K)
  BY PositionsInOrder
<1>2. PICK f : InOrder(f, Cardinality(K), K)
  BY <1>1
<1>3. K \subseteq Nat
  OBVIOUS
<1>4. Picked(s, K) = Along(s, f, Cardinality(K))
  BY <1>2, <1>3, PickedIs
<1>5. \A k \in 1 .. Cardinality(K) : s[f[k]] \in S
  BY <1>2 DEF InOrder
<1> QED BY <1>1, <1>4, <1>5 DEF Along

---------------------------------------------------------------------------
(* Texts *)

(* The ends of a set of positions. *)
LEMMA EndsAre ==
  ASSUME NEW N \in Nat, NEW K, K \subseteq 1 .. N, K # {}
  PROVE  /\ Min(K) \in K /\ \A n \in K : Min(K) <= n
         /\ Max(K) \in K /\ \A n \in K : n <= Max(K)
<1>1. PICK f : InOrder(f, Cardinality(K), K)
  BY PositionsInOrder
<1> DEFINE m == Cardinality(K)
<1>2. /\ m \in Nat /\ f \in [1 .. m -> K]
      /\ \A i, k \in 1 .. m : i < k => f[i] < f[k]
      /\ \A n \in K : \E k \in 1 .. m : f[k] = n
  BY <1>1 DEF InOrder
<1> HIDE DEF m
<1>3. 1 \in 1 .. m /\ m \in 1 .. m
  <2>1. PICK n \in K : TRUE
    OBVIOUS
  <2>2. PICK k \in 1 .. m : f[k] = n
    BY <1>2, <2>1
  <2> QED BY <1>2, <2>2
<1>4. f[1] \in K /\ f[m] \in K
  BY <1>2, <1>3
<1>5. ASSUME NEW n \in K PROVE f[1] <= n /\ n <= f[m]
  <2>1. PICK k \in 1 .. m : f[k] = n
    BY <1>2
  <2>2. \A i \in K : i \in Int
    OBVIOUS
  <2>3. (1 = k \/ 1 < k) /\ (k = m \/ k < m)
    BY <1>2
  <2>4. f[1] \in Int /\ f[m] \in Int /\ n \in Int
    BY <1>4, <2>2
  <2> QED BY <1>2, <1>3, <2>1, <2>3, <2>4
<1>6. \E x \in K : \A y \in K : x <= y
  BY <1>4, <1>5
<1>7. \E x \in K : \A y \in K : x >= y
  <2>1. \A y \in K : f[m] >= y
    <3>1. \A y \in K : y \in Int
      OBVIOUS
    <3> QED BY <1>4, <1>5, <3>1
  <2> QED BY <1>4, <2>1
<1>8. Min(K) \in K /\ \A n \in K : Min(K) <= n
  BY <1>6 DEF Min
<1>9. Max(K) \in K /\ \A n \in K : Max(K) >= n
  BY <1>7 DEF Max
<1>10. \A n \in K : n <= Max(K)
  <2>1. \A n \in K : n \in Int
    OBVIOUS
  <2> QED BY <1>9, <2>1
<1> QED BY <1>8, <1>9, <1>10

LEMMA TextsAre ==
  ASSUME NEW t \in Seq(Piece)
  PROVE  /\ Len(t) \in Nat /\ DOMAIN t = 1 .. Len(t) /\ \A n \in 1 .. Len(t) : t[n] \in Piece
         /\ t # <<>> => Len(t) >= 1
<1>1. t # <<>> => Len(t) \in Nat \ {0}
  BY EmptySeq
<1> QED BY <1>1

(* A text without capitals and without spaces at its ends. *)
Trimmed(t) ==
  /\ t \in Seq(Piece) /\ \A n \in DOMAIN t : t[n] # "X"
  /\ t # <<>> => t[1] # " " /\ t[Len(t)] # " "

(* The pieces of a text that are no space. *)
Inked(t) == {n \in DOMAIN t : t[n] # " "}

LEMMA LowerType ==
  ASSUME NEW t \in Seq(Piece)
  PROVE  /\ Lower(t) \in Seq(Piece) /\ Len(Lower(t)) = Len(t)
         /\ \A n \in 1 .. Len(t) : Lower(t)[n] = IF t[n] = "X" THEN "x" ELSE t[n]
<1>1. Len(t) \in Nat /\ DOMAIN t = 1 .. Len(t) /\ \A n \in 1 .. Len(t) : t[n] \in Piece
  BY TextsAre
<1>2. Lower(t) = [n \in 1 .. Len(t) |-> IF t[n] = "X" THEN "x" ELSE t[n]]
  BY <1>1 DEF Lower
<1>3. "x" \in Piece
  BY DEF Piece
<1> QED BY <1>1, <1>2, <1>3

(* Trimmed text has its pieces from the first to the last one with ink. *)
LEMMA NormalFrom ==
  ASSUME NEW t \in Seq(Piece), Inked(t) # {}
  PROVE  \E b, e \in Inked(t) :
           /\ b <= e /\ Normal(t) = Lower(SubSeq(t, b, e))
           /\ \A n \in Inked(t) : b <= n /\ n <= e
<1>1. Inked(t) \subseteq 1 .. Len(t) /\ Len(t) \in Nat
  BY TextsAre DEF Inked
<1>2. /\ Min(Inked(t)) \in Inked(t) /\ \A n \in Inked(t) : Min(Inked(t)) <= n
      /\ Max(Inked(t)) \in Inked(t) /\ \A n \in Inked(t) : n <= Max(Inked(t))
  BY <1>1, EndsAre
<1>3. Normal(t) = Lower(SubSeq(t, Min(Inked(t)), Max(Inked(t))))
  BY DEF Normal, Inked
<1> QED BY <1>2, <1>3

LEMMA NormalIsTrimmed ==
  ASSUME NEW t \in Seq(Piece)
  PROVE  Trimmed(Normal(t)) /\ (Has(Normal(t), "%") => Has(t, "%"))
<1>1. CASE Inked(t) = {}
  <2>1. Normal(t) = <<>>
    BY <1>1 DEF Normal, Inked
  <2> QED BY <2>1 DEF Trimmed, Has
<1>2. CASE Inked(t) # {}
  <2>0. /\ Len(t) \in Nat /\ DOMAIN t = 1 .. Len(t)
        /\ \A n \in 1 .. Len(t) : t[n] \in Piece
    BY TextsAre
  <2>1. PICK b, e \in Inked(t) : b <= e /\ Normal(t) = Lower(SubSeq(t, b, e))
    BY <1>2, NormalFrom
  <2>2. t[b] # " " /\ t[e] # " "
    BY DEF Inked
  <2>b. b \in 1 .. Len(t) /\ e \in 1 .. Len(t)
    BY <2>0 DEF Inked
  <2>c. b \in Nat /\ e \in Nat /\ b <= e
    BY <2>0, <2>1, <2>b
  <2> DEFINE u == SubSeq(t, b, e)
  <2>3. /\ u \in Seq(Piece) /\ Len(u) = e - b + 1
        /\ \A n \in 1 .. (e - b + 1) : u[n] = t[b + n - 1]
    <3>1. \A n \in b .. e : t[n] \in Piece
      <4>1. \A n \in b .. e : n \in 1 .. Len(t)
        BY <2>0, <2>b, <2>c
      <4> QED BY <2>0, <4>1
    <3> QED BY <2>c, <3>1, SubSeqProperties
  <2> HIDE DEF u
  <2>4. /\ Lower(u) \in Seq(Piece) /\ Len(Lower(u)) = Len(u)
        /\ \A n \in 1 .. Len(u) : Lower(u)[n] = IF u[n] = "X" THEN "x" ELSE u[n]
    BY <2>3, LowerType
  <2>5. u[1] = t[b] /\ u[Len(u)] = t[e]
    <3>2. 1 \in 1 .. (e - b + 1) /\ e - b + 1 \in 1 .. (e - b + 1)
      BY <2>c
    <3>3. u[1] = t[b + 1 - 1] /\ u[e - b + 1] = t[b + (e - b + 1) - 1]
      BY <2>3, <3>2
    <3>4. b + 1 - 1 = b /\ b + (e - b + 1) - 1 = e
      BY <2>c
    <3> QED BY <2>3, <3>3, <3>4
  <2>6. Trimmed(Lower(u))
    <3>1. Len(u) \in 1 .. Len(u) /\ 1 \in 1 .. Len(u) /\ DOMAIN Lower(u) = 1 .. Len(u)
      <4>1. Len(u) = e - b + 1 /\ Len(Lower(u)) = Len(u)
        BY <2>3, <2>4
      <4>2. DOMAIN Lower(u) = 1 .. Len(Lower(u))
        BY <2>4
      <4> QED BY <2>c, <4>1, <4>2
    <3> QED BY <2>2, <2>4, <2>5, <3>1 DEF Trimmed
  <2>7. Has(Lower(u), "%") => Has(t, "%")
    <3>1. SUFFICES ASSUME NEW n \in DOMAIN Lower(u), Lower(u)[n] = "%"
                   PROVE  \E i \in DOMAIN t : t[i] = "%"
      BY DEF Has
    <3>2. n \in 1 .. (e - b + 1)
      BY <2>3, <2>4, <3>1
    <3>3. u[n] = "%" /\ u[n] = t[b + n - 1]
      BY <2>3, <2>4, <3>1, <3>2
    <3>4. b + n - 1 \in 1 .. Len(t) /\ DOMAIN t = 1 .. Len(t)
      BY <2>0, <2>b, <2>c, <3>2
    <3> QED BY <3>3, <3>4
  <2> QED BY <2>1, <2>6, <2>7 DEF u
<1> QED BY <1>1, <1>2

LEMMA NormalOfTrimmed ==
  ASSUME NEW t, Trimmed(t)
  PROVE  Normal(t) = t
<1>1. t \in Seq(Piece) /\ \A n \in DOMAIN t : t[n] # "X"
  BY DEF Trimmed
<1>2. CASE t = <<>>
  BY <1>2 DEF Normal
<1>3. CASE t # <<>>
  <2>1. 1 \in Inked(t) /\ Len(t) \in Inked(t) /\ Inked(t) \subseteq 1 .. Len(t)
    <3>1. 1 \in DOMAIN t /\ Len(t) \in DOMAIN t /\ DOMAIN t = 1 .. Len(t)
      BY <1>1, <1>3, TextsAre
    <3> QED BY <1>1, <1>3, <3>1 DEF Trimmed, Inked
  <2>2. PICK b, e \in Inked(t) : /\ Normal(t) = Lower(SubSeq(t, b, e))
                                 /\ \A n \in Inked(t) : b <= n /\ n <= e
    BY <1>1, <2>1, NormalFrom
  <2>3. b = 1 /\ e = Len(t)
    BY <1>1, <2>1, <2>2
  <2>4. SubSeq(t, 1, Len(t)) = t
    BY <1>1
  <2>5. Lower(t) = t
    BY <1>1 DEF Lower
  <2> QED BY <2>2, <2>3, <2>4, <2>5
<1> QED BY <1>2, <1>3

---------------------------------------------------------------------------
(* Paths *)

(* Where n pieces are spelled, those of C at two places. *)
Places(N, C) == {p \in 1 .. 2 * N : \E n \in 1 .. N : p = 2 * n - 1 \/ (p = 2 * n /\ n \in C)}

(* g leads from a piece to the place where its spelling starts. *)
Starts(g, f, m, N, C) ==
  /\ g \in [1 .. N -> 1 .. m]
  /\ \A n \in 1 .. N : f[g[n]] = 2 * n - 1
  /\ \A n \in C : g[n] + 1 \in 1 .. m /\ f[g[n] + 1] = 2 * n
  /\ \A i, n \in 1 .. N : i < n => g[i] < g[n]
  /\ \A k \in 1 .. m : \E n \in 1 .. N : k = g[n] \/ (n \in C /\ k = g[n] + 1)

LEMMA PlacesStart ==
  ASSUME NEW N \in Nat, NEW C, C \subseteq 1 .. N, NEW m, NEW f, InOrder(f, m, Places(N, C))
  PROVE  \E g : Starts(g, f, m, N, C)
<1>0. /\ m \in Nat /\ f \in [1 .. m -> Places(N, C)]
      /\ \A i, k \in 1 .. m : i < k => f[i] < f[k]
      /\ \A n \in Places(N, C) : \E k \in 1 .. m : f[k] = n
  BY DEF InOrder
<1>1. \A k \in 1 .. m : f[k] \in Nat
  <2>1. \A p \in Places(N, C) : p \in Nat
    BY DEF Places
  <2> QED BY <1>0, <2>1
<1>2. ASSUME NEW i \in 1 .. m, NEW k \in 1 .. m, f[i] < f[k] PROVE i < k
  <2>1. i < k \/ k < i \/ i = k
    OBVIOUS
  <2>2. f[i] \in Nat /\ f[k] \in Nat
    BY <1>1
  <2>3. k < i => f[k] < f[i]
    BY <1>0
  <2> QED BY <1>2, <2>1, <2>2, <2>3
<1>3. ASSUME NEW i \in 1 .. m, NEW k \in 1 .. m, f[i] = f[k] PROVE i = k
  <2>1. i < k \/ k < i \/ i = k
    OBVIOUS
  <2>2. f[i] \in Nat /\ f[k] \in Nat
    BY <1>1
  <2>3. (k < i => f[k] < f[i]) /\ (i < k => f[i] < f[k])
    BY <1>0
  <2> QED BY <1>3, <2>1, <2>2, <2>3
<1> DEFINE g == [n \in 1 .. N |-> CHOOSE k \in 1 .. m : f[k] = 2 * n - 1]
<1>4. ASSUME NEW n \in 1 .. N PROVE g[n] \in 1 .. m /\ f[g[n]] = 2 * n - 1
  <2>1. 2 * n - 1 \in Places(N, C)
    BY DEF Places
  <2>2. \E k \in 1 .. m : f[k] = 2 * n - 1
    BY <1>0, <2>1
  <2> QED BY <2>2
<1>5. g \in [1 .. N -> 1 .. m]
  BY <1>4
<1> HIDE DEF g
<1>6. ASSUME NEW n \in C PROVE g[n] + 1 \in 1 .. m /\ f[g[n] + 1] = 2 * n
  <2>0. n \in 1 .. N /\ n \in Nat
    OBVIOUS
  <2>1. 2 * n \in Places(N, C)
    BY <2>0 DEF Places
  <2>2. PICK k \in 1 .. m : f[k] = 2 * n
    BY <1>0, <2>1
  <2>3. g[n] \in 1 .. m /\ f[g[n]] = 2 * n - 1
    BY <1>4, <2>0
  <2>4. g[n] < k
    <3>1. f[g[n]] < f[k]
      BY <2>0, <2>2, <2>3
    <3> QED BY <1>2, <2>3, <3>1
  <2>5. g[n] + 1 \in 1 .. m /\ g[n] < g[n] + 1
    BY <1>0, <2>3, <2>4
  <2>6. f[g[n]] < f[g[n] + 1] /\ f[g[n] + 1] \in Nat
    BY <1>0, <1>1, <2>3, <2>5
  <2>7. g[n] + 1 < k => f[g[n] + 1] < f[k]
    BY <1>0, <2>5
  <2>8. g[n] + 1 = k \/ g[n] + 1 < k
    BY <2>3, <2>4
  <2>9. g[n] + 1 = k
    BY <2>0, <2>2, <2>3, <2>6, <2>7, <2>8
  <2> QED BY <2>2, <2>9
<1>7. ASSUME NEW i \in 1 .. N, NEW n \in 1 .. N, i < n PROVE g[i] < g[n]
  <2>1. f[g[i]] < f[g[n]] /\ g[i] \in 1 .. m /\ g[n] \in 1 .. m
    BY <1>4, <1>7
  <2> QED BY <1>2, <2>1
<1>8. ASSUME NEW k \in 1 .. m PROVE \E n \in 1 .. N : k = g[n] \/ (n \in C /\ k = g[n] + 1)
  <2>1. f[k] \in Places(N, C)
    BY <1>0
  <2>2. PICK n \in 1 .. N : f[k] = 2 * n - 1 \/ (f[k] = 2 * n /\ n \in C)
    BY <2>1 DEF Places
  <2>3. CASE f[k] = 2 * n - 1
    BY <1>3, <1>4, <2>3
  <2>4. CASE f[k] = 2 * n /\ n \in C
    <3>1. g[n] + 1 \in 1 .. m /\ f[g[n] + 1] = f[k]
      BY <1>6, <2>4
    <3>2. k = g[n] + 1
      BY <1>3, <3>1
    <3> QED BY <2>4, <3>2
  <2> QED BY <2>2, <2>3, <2>4
<1>9. Starts(g, f, m, N, C)
  BY <1>4, <1>5, <1>6, <1>7, <1>8 DEF Starts
<1> QED BY <1>9

(* The pieces that are spelled as a code. *)
Coded(t) == {n \in 1 .. Len(t) : t[n] \in DOMAIN Code}

Spelling(t) ==
  [p \in 1 .. 2 * Len(t) |->
     IF t[(p + 1) \div 2] \notin DOMAIN Code THEN t[(p + 1) \div 2]
     ELSE IF p % 2 = 1 THEN "%" ELSE Code[t[(p + 1) \div 2]]]

LEMMA Halves ==
  ASSUME NEW n \in Nat, n > 0
  PROVE  /\ (2 * n - 1 + 1) \div 2 = n /\ (2 * n + 1) \div 2 = n
         /\ (2 * n - 1) % 2 = 1 /\ (2 * n) % 2 = 0
OBVIOUS

LEMMA HalvesAre ==
  ASSUME NEW N \in Nat, NEW p \in 1 .. 2 * N
  PROVE  \E n \in 1 .. N : p = 2 * n - 1 \/ p = 2 * n
<1>1. (p + 1) \div 2 \in 1 .. N
  OBVIOUS
<1>2. p = 2 * ((p + 1) \div 2) - 1 \/ p = 2 * ((p + 1) \div 2)
  OBVIOUS
<1> QED BY <1>1, <1>2

LEMMA EncodeIs ==
  ASSUME NEW t \in Seq(Piece)
  PROVE  Encode(t) = Picked(Spelling(t), Places(Len(t), Coded(t)))
<1>1. Len(t) \in Nat
  BY TextsAre
<1> DEFINE K == {p \in 1 .. 2 * Len(t) : p % 2 = 1 \/ t[(p + 1) \div 2] \in DOMAIN Code}
<1>2. Encode(t) = Picked(Spelling(t), K)
  BY DEF Encode, Spelling
<1>3. ASSUME NEW p \in 1 .. 2 * Len(t) PROVE p \in K <=> p \in Places(Len(t), Coded(t))
  <2>1. PICK n \in 1 .. Len(t) : p = 2 * n - 1 \/ p = 2 * n
    BY <1>1, HalvesAre
  <2>2. n \in Nat /\ n > 0
    BY <1>1
  <2>3. CASE p = 2 * n - 1
    <3>1. p % 2 = 1
      BY <2>2, <2>3, Halves
    <3> QED BY <2>3, <3>1 DEF Places
  <2>4. CASE p = 2 * n
    <3>1. p % 2 = 0 /\ (p + 1) \div 2 = n
      BY <2>2, <2>4, Halves
    <3>2. p \in K <=> n \in Coded(t)
      BY <3>1 DEF Coded
    <3>3. ASSUME NEW i \in 1 .. Len(t) PROVE p # 2 * i - 1 /\ (p = 2 * i => i = n)
      <4>1. i \in Nat
        BY <1>1
      <4> QED BY <2>2, <2>4, <4>1
    <3>4. p \in Places(Len(t), Coded(t)) <=> n \in Coded(t)
      BY <2>4, <3>3 DEF Places
    <3> QED BY <3>2, <3>4
  <2> QED BY <2>1, <2>3, <2>4
<1>4. K = Places(Len(t), Coded(t))
  BY <1>3 DEF Places
<1> QED BY <1>2, <1>4

LEMMA SpellingIs ==
  ASSUME NEW t \in Seq(Piece), NEW n \in 1 .. Len(t)
  PROVE  /\ Spelling(t)[2 * n - 1] = IF n \in Coded(t) THEN "%" ELSE t[n]
         /\ n \in Coded(t) => Spelling(t)[2 * n] = Code[t[n]]
<1>1. Len(t) \in Nat
  BY TextsAre
<1>2. n \in Nat /\ n > 0 /\ 2 * n - 1 \in 1 .. 2 * Len(t) /\ 2 * n \in 1 .. 2 * Len(t)
  BY <1>1
<1>3. /\ (2 * n - 1 + 1) \div 2 = n /\ (2 * n + 1) \div 2 = n
      /\ (2 * n - 1) % 2 = 1 /\ (2 * n) % 2 # 1
  BY <1>2, Halves
<1>4. Spelling(t)[2 * n - 1] = IF t[n] \notin DOMAIN Code THEN t[n] ELSE "%"
  BY <1>2, <1>3 DEF Spelling
<1>5. Spelling(t)[2 * n] = IF t[n] \notin DOMAIN Code THEN t[n] ELSE Code[t[n]]
  BY <1>2, <1>3 DEF Spelling
<1>6. n \in Coded(t) <=> t[n] \in DOMAIN Code
  BY DEF Coded
<1> QED BY <1>4, <1>5, <1>6

(* Three codes, none of which starts another. *)
LEMMA CodesAre ==
  /\ \A c \in DOMAIN Code : Code[c] # "%" /\ Code[c] \in Range(Code) /\ Code[c] \in Piece
  /\ \A b, c \in DOMAIN Code : Code[b] = Code[c] => b = c
  /\ "%" \in DOMAIN Code /\ "%" \in Piece
  BY DEF Code, Range, Piece

(* The path: where f lists the places and g their starts, the codes start with
   the coded pieces, each is followed by its letters, and what decoding keeps
   is the starts. *)
LEMMA PathIs ==
  ASSUME NEW t \in Seq(Piece)
  PROVE  \E f, m, g :
           /\ InOrder(f, m, Places(Len(t), Coded(t))) /\ Starts(g, f, m, Len(t), Coded(t))
           /\ m \in Nat /\ Encode(t) = Along(Spelling(t), f, m)
<1>1. Len(t) \in Nat
  BY TextsAre
<1> DEFINE K == Places(Len(t), Coded(t))
<1>2. K \subseteq 1 .. 2 * Len(t) /\ K \subseteq Nat
  BY DEF Places
<1>3. 2 * Len(t) \in Nat
  BY <1>1
<1>4. Encode(t) = Picked(Spelling(t), K)
  BY EncodeIs
<1>5. Coded(t) \subseteq 1 .. Len(t)
  BY DEF Coded
<1> HIDE DEF K
<1>6. PICK f : InOrder(f, Cardinality(K), K)
  BY <1>2, <1>3, PositionsInOrder
<1> DEFINE m == Cardinality(K)
<1>7. m \in Nat /\ InOrder(f, m, K)
  BY <1>6 DEF InOrder
<1> HIDE DEF m
<1>8. Picked(Spelling(t), K) = Along(Spelling(t), f, m)
  BY <1>2, <1>7, PickedIs
<1>9. \E g : Starts(g, f, m, Len(t), Coded(t))
  <2>1. InOrder(f, m, Places(Len(t), Coded(t)))
    BY <1>7 DEF K
  <2> QED BY <1>1, <1>5, <2>1, PlacesStart
<1> QED BY <1>4, <1>7, <1>8, <1>9 DEF K

LEMMA PathReads ==
  ASSUME NEW t \in Seq(Piece), NEW f, NEW m \in Nat, NEW g,
         Starts(g, f, m, Len(t), Coded(t)), NEW e, e = Along(Spelling(t), f, m)
  PROVE  /\ DOMAIN e = 1 .. m /\ Len(e) = m
         /\ \A n \in 1 .. Len(t) : e[g[n]] = IF n \in Coded(t) THEN "%" ELSE t[n]
         /\ \A n \in Coded(t) : e[g[n] + 1] = Code[t[n]]
         /\ \A k \in 1 .. m : e[k] = "%" <=> \E n \in Coded(t) : k = g[n]
<1>1. e = [k \in 1 .. m |-> Spelling(t)[f[k]]]
  BY DEF Along
<1>2. DOMAIN e = 1 .. m /\ Len(e) = m /\ \A k \in 1 .. m : e[k] = Spelling(t)[f[k]]
  BY <1>1
<1>0. /\ g \in [1 .. Len(t) -> 1 .. m]
      /\ \A n \in 1 .. Len(t) : f[g[n]] = 2 * n - 1
      /\ \A n \in Coded(t) : g[n] + 1 \in 1 .. m /\ f[g[n] + 1] = 2 * n
      /\ \A k \in 1 .. m : \E n \in 1 .. Len(t) : k = g[n] \/ (n \in Coded(t) /\ k = g[n] + 1)
  BY DEF Starts
<1>3. ASSUME NEW n \in 1 .. Len(t)
      PROVE  g[n] \in 1 .. m /\ e[g[n]] = IF n \in Coded(t) THEN "%" ELSE t[n]
  <2>1. g[n] \in 1 .. m /\ f[g[n]] = 2 * n - 1
    BY <1>0
  <2>2. e[g[n]] = Spelling(t)[2 * n - 1]
    BY <1>2, <2>1
  <2> QED BY <2>1, <2>2, SpellingIs
<1>4. ASSUME NEW n \in Coded(t) PROVE e[g[n] + 1] = Code[t[n]]
  <2>1. n \in 1 .. Len(t)
    BY DEF Coded
  <2>2. g[n] + 1 \in 1 .. m /\ f[g[n] + 1] = 2 * n
    BY <1>0
  <2>3. e[g[n] + 1] = Spelling(t)[2 * n]
    BY <1>2, <2>2
  <2> QED BY <2>1, <2>3, SpellingIs
<1>5. ASSUME NEW k \in 1 .. m PROVE e[k] = "%" <=> \E n \in Coded(t) : k = g[n]
  <2>1. PICK n \in 1 .. Len(t) : k = g[n] \/ (n \in Coded(t) /\ k = g[n] + 1)
    BY <1>0
  <2>2. CASE k = g[n] /\ n \in Coded(t)
    BY <1>3, <2>2
  <2>3. CASE k = g[n] /\ n \notin Coded(t)
    <3>1. e[k] = t[n]
      BY <1>3, <2>3
    <3>2. t[n] # "%"
      BY <2>3, CodesAre DEF Coded
    <3>3. ASSUME NEW i \in Coded(t), k = g[i] PROVE FALSE
      <4>1. i \in 1 .. Len(t)
        BY DEF Coded
      <4>2. e[k] = "%"
        BY <1>3, <3>3, <4>1
      <4> QED BY <3>1, <3>2, <4>2
    <3> QED BY <3>1, <3>2, <3>3
  <2>4. CASE n \in Coded(t) /\ k = g[n] + 1
    <3>1. e[k] = Code[t[n]] /\ t[n] \in DOMAIN Code
      BY <1>4, <2>4 DEF Coded
    <3>2. e[k] # "%"
      BY <3>1, CodesAre
    <3>3. ASSUME NEW i \in Coded(t), k = g[i] PROVE FALSE
      <4>1. i \in 1 .. Len(t)
        BY DEF Coded
      <4>2. e[k] = "%"
        BY <1>3, <3>3, <4>1
      <4> QED BY <3>2, <4>2
    <3> QED BY <3>2, <3>3
  <2> QED BY <2>1, <2>2, <2>3, <2>4
<1> QED BY <1>2, <1>3, <1>4, <1>5

(* Every "%" of an encoded text starts a code: the router never throws. *)
LEMMA PathNeverThrows ==
  ASSUME NEW t \in Seq(Piece)
  PROVE  ~Throws(Encode(t))
<1>1. PICK f, m, g :
         /\ Starts(g, f, m, Len(t), Coded(t))
         /\ m \in Nat /\ Encode(t) = Along(Spelling(t), f, m)
  BY PathIs
<1> DEFINE e == Encode(t)
<1>2. e = Along(Spelling(t), f, m) /\ m \in Nat /\ Starts(g, f, m, Len(t), Coded(t))
  BY <1>1
<1> HIDE DEF e
<1>3. /\ DOMAIN e = 1 .. m /\ Len(e) = m
      /\ \A n \in Coded(t) : e[g[n] + 1] = Code[t[n]]
      /\ \A k \in 1 .. m : e[k] = "%" <=> \E n \in Coded(t) : k = g[n]
  BY <1>2, PathReads
<1>4. SUFFICES ASSUME NEW k \in 1 .. m, e[k] = "%"
               PROVE  k # m /\ e[k + 1] \in Range(Code)
  BY <1>3 DEF Throws, e
<1>5. PICK n \in Coded(t) : k = g[n]
  BY <1>3, <1>4
<1>6. e[k + 1] = Code[t[n]] /\ t[n] \in DOMAIN Code
  BY <1>3, <1>5 DEF Coded
<1>7. k + 1 \in 1 .. m
  BY <1>2, <1>5 DEF Starts
<1> QED BY <1>2, <1>6, <1>7, CodesAre

Decoded(e) ==
  [k \in DOMAIN e |-> IF e[k] = "%" THEN CHOOSE c \in DOMAIN Code : Code[c] = e[k + 1] ELSE e[k]]

DecodedAt(e) == {k \in DOMAIN e : ~(k - 1 \in DOMAIN e /\ e[k - 1] = "%")}

LEMMA DecodeIs ==
  ASSUME NEW e
  PROVE  Decode(e) = Picked(Decoded(e), DecodedAt(e))
<1> DEFINE codes == {n \in DOMAIN e : e[n] = "%"}
<1>1. Decoded(e) = [k \in DOMAIN e |-> IF k \in codes
                                       THEN CHOOSE c \in DOMAIN Code : Code[c] = e[k + 1]
                                       ELSE e[k]]
  BY DEF Decoded
<1>2. DecodedAt(e) = {k \in DOMAIN e : k - 1 \notin codes}
  BY DEF DecodedAt
<1> QED BY <1>1, <1>2 DEF Decode

(* Whatever is typed comes out of its path as it went in: what openInbox
   encodes for the address bar, decodeURIComponent gives back. *)
THEOREM PathsReturn ==
  ASSUME NEW t \in Seq(Piece)
  PROVE  Decode(Encode(t)) = t /\ ~Throws(Encode(t))
<1>1. PICK f, m, g :
         /\ InOrder(f, m, Places(Len(t), Coded(t))) /\ Starts(g, f, m, Len(t), Coded(t))
         /\ m \in Nat /\ Encode(t) = Along(Spelling(t), f, m)
  BY PathIs
<1> DEFINE e == Encode(t)
           N == Len(t)
<1>2. e = Along(Spelling(t), f, m) /\ m \in Nat /\ Starts(g, f, m, Len(t), Coded(t))
  BY <1>1
<1>a. N \in Nat /\ t = [n \in 1 .. N |-> t[n]]
  BY TextsAre
<1> HIDE DEF e
<1>3. /\ DOMAIN e = 1 .. m /\ Len(e) = m
      /\ \A n \in 1 .. N : e[g[n]] = IF n \in Coded(t) THEN "%" ELSE t[n]
      /\ \A n \in Coded(t) : e[g[n] + 1] = Code[t[n]]
      /\ \A k \in 1 .. m : e[k] = "%" <=> \E n \in Coded(t) : k = g[n]
  BY <1>2, PathReads
<1>4. /\ g \in [1 .. N -> 1 .. m]
      /\ \A n \in 1 .. N : f[g[n]] = 2 * n - 1
      /\ \A n \in Coded(t) : g[n] + 1 \in 1 .. m /\ f[g[n] + 1] = 2 * n
      /\ \A i, n \in 1 .. N : i < n => g[i] < g[n]
      /\ \A k \in 1 .. m : \E n \in 1 .. N : k = g[n] \/ (n \in Coded(t) /\ k = g[n] + 1)
  BY <1>2 DEF Starts
<1>b. Coded(t) \subseteq 1 .. N
  BY DEF Coded
<1> HIDE DEF N
<1>5. ASSUME NEW n \in 1 .. N PROVE g[n] \in DecodedAt(e)
  <2>1. g[n] \in 1 .. m
    BY <1>4
  <2>2. SUFFICES ASSUME g[n] - 1 \in 1 .. m, e[g[n] - 1] = "%" PROVE FALSE
    BY <1>3, <2>1 DEF DecodedAt
  <2>3. PICK i \in Coded(t) : g[n] - 1 = g[i]
    BY <1>3, <2>2
  <2>4. g[n] = g[i] + 1
    BY <1>2, <2>1, <2>3, <2>2
  <2>5. 2 * n - 1 = 2 * i /\ n \in Nat /\ i \in Nat
    <3>1. f[g[n]] = 2 * n - 1 /\ f[g[i] + 1] = 2 * i
      BY <1>4
    <3> QED BY <1>a, <1>b, <2>4, <3>1
  <2> QED BY <2>5
<1>6. ASSUME NEW k \in DecodedAt(e) PROVE \E n \in 1 .. N : g[n] = k
  <2>1. k \in 1 .. m /\ ~(k - 1 \in 1 .. m /\ e[k - 1] = "%")
    BY <1>3 DEF DecodedAt
  <2>2. PICK n \in 1 .. N : k = g[n] \/ (n \in Coded(t) /\ k = g[n] + 1)
    BY <1>4, <2>1
  <2>3. ASSUME n \in Coded(t), k = g[n] + 1 PROVE FALSE
    <3>1. g[n] \in 1 .. m /\ e[g[n]] = "%"
      BY <1>3, <1>4, <2>3
    <3>2. k - 1 = g[n]
      BY <1>2, <2>3, <3>1
    <3> QED BY <2>1, <3>1, <3>2
  <2> QED BY <2>2, <2>3
<1>7. InOrder(g, N, DecodedAt(e))
  <2>1. g \in [1 .. N -> DecodedAt(e)]
    BY <1>4, <1>5
  <2> QED BY <1>a, <1>4, <1>6, <2>1 DEF InOrder
<1>8. Picked(Decoded(e), DecodedAt(e)) = Along(Decoded(e), g, N)
  <2>1. DecodedAt(e) \subseteq Nat
    BY <1>3 DEF DecodedAt
  <2> QED BY <1>7, <2>1, PickedIs
<1>9. ASSUME NEW n \in 1 .. N PROVE Decoded(e)[g[n]] = t[n]
  <2>1. g[n] \in 1 .. m
    BY <1>4
  <2>2. CASE n \in Coded(t)
    <3>1. e[g[n]] = "%" /\ e[g[n] + 1] = Code[t[n]] /\ t[n] \in DOMAIN Code
      BY <1>3, <2>2 DEF Coded
    <3>2. Decoded(e)[g[n]] = CHOOSE c \in DOMAIN Code : Code[c] = Code[t[n]]
      BY <1>3, <2>1, <3>1 DEF Decoded
    <3>3. \A c \in DOMAIN Code : Code[c] = Code[t[n]] => c = t[n]
      BY <3>1, CodesAre
    <3> QED BY <3>1, <3>2, <3>3
  <2>3. CASE n \notin Coded(t)
    <3>1. e[g[n]] = t[n]
      BY <1>3, <2>3
    <3>2. t[n] # "%"
      <4>1. t[n] \notin DOMAIN Code
        BY <2>3 DEF Coded, N
      <4> QED BY <4>1, CodesAre
    <3> QED BY <1>3, <2>1, <3>1, <3>2 DEF Decoded
  <2> QED BY <2>2, <2>3
<1>10. Along(Decoded(e), g, N) = t
  BY <1>9, <1>a DEF Along
<1>11. Decode(e) = t
  BY <1>8, <1>10, DecodeIs
<1> QED BY <1>11, PathNeverThrows DEF e

(* Text without a percent sign is its own decoding. *)
LEMMA PlainDecodes ==
  ASSUME NEW t \in Seq(Piece), ~Has(t, "%")
  PROVE  Decode(t) = t
<1>1. Len(t) \in Nat /\ DOMAIN t = 1 .. Len(t) /\ t = [n \in 1 .. Len(t) |-> t[n]]
  BY TextsAre
<1> DEFINE N == Len(t)
           g == [n \in 1 .. N |-> n]
<1>2. DecodedAt(t) = 1 .. N
  BY <1>1 DEF DecodedAt, Has
<1>3. InOrder(g, N, 1 .. N) /\ 1 .. N \subseteq Nat
  BY <1>1 DEF InOrder
<1>4. \A n \in 1 .. N : Decoded(t)[g[n]] = t[n]
  BY <1>1 DEF Decoded, Has
<1> HIDE DEF g, N
<1>5. Picked(Decoded(t), DecodedAt(t)) = Along(Decoded(t), g, N)
  BY <1>2, <1>3, PickedIs
<1>6. Along(Decoded(t), g, N) = [n \in 1 .. N |-> t[n]]
  BY <1>4 DEF Along
<1> QED BY <1>1, <1>5, <1>6, DecodeIs DEF N

(* An address has at least its "@". *)
LEMMA FirstInbox == Normal(<<"x", "@">> \o ServerDomain) # <<>>
  <1> DEFINE t == <<"x", "@">> \o ServerDomain
  <1>1. ServerDomain \in Seq(Piece)
    BY ShellAssumption
  <1>2. <<"x", "@">> \in Seq(Piece)
    BY DEF Piece
  <1>3. t \in Seq(Piece) /\ 1 \in DOMAIN t /\ t[1] = "x"
    BY <1>1, <1>2
  <1> HIDE DEF t
  <1>4. 1 \in Inked(t)
    BY <1>3 DEF Inked
  <1>5. PICK b, e \in Inked(t) : b <= e /\ Normal(t) = Lower(SubSeq(t, b, e))
    BY <1>3, <1>4, NormalFrom
  <1>6. b \in Nat /\ e \in Nat
    <2>1. Len(t) \in Nat /\ DOMAIN t = 1 .. Len(t)
      BY <1>3, TextsAre
    <2>2. b \in 1 .. Len(t) /\ e \in 1 .. Len(t)
      BY <2>1 DEF Inked
    <2> QED BY <2>1, <2>2
  <1>7. SubSeq(t, b, e) = [i \in 1 .. (e - b + 1) |-> t[b + i - 1]]
    BY <1>6
  <1>8. 1 \in DOMAIN Normal(t)
    BY <1>5, <1>6, <1>7 DEF Lower
  <1> QED BY <1>8 DEF t

---------------------------------------------------------------------------
USE DEF NoText, NoMessage

(* The inductive invariant: outside of any inbox nothing is listed, which is
   what leaving an inbox for the landing page relies on when the position of
   the keys stays; and what is listed is a sequence. *)
Listed ==
  hist.quiet =>
    /\ sel \in Nat /\ mail.list \in Seq(Message)
    /\ place.inbox = NoText => mail.list = <<>>

ShellShape ==
  /\ "inbox" \in DOMAIN place /\ {"list", "current"} \subseteq DOMAIN mail
  /\ {"promised", "opened", "quiet"} \subseteq DOMAIN hist /\ hist.quiet \in BOOLEAN
  /\ count \in [acts : Nat, changes : Nat]

KeysInv == ShellShape /\ Listed /\ KeysMissNothing

---------------------------------------------------------------------------
(* The keys *)

LEMMA KeysStart == Init => KeysInv
  <1> SUFFICES ASSUME Init PROVE KeysInv
    OBVIOUS
  <1>1. ShellShape
    BY DEF Init, ShellShape
  <1>2. Normal(<<"x", "@">> \o ServerDomain) # <<>>
    BY FirstInbox
  <1>3. Listed
    <2>1. hist.quiet /\ sel = 0
      BY DEF Init
    <2>2. CASE place = [path |-> "landing", inbox |-> NoText]
      <3>1. mail.list = <<>>
        BY <2>2 DEF Init
      <3> QED
        BY <2>1, <3>1 DEF Listed
    <2>3. CASE place # [path |-> "landing", inbox |-> NoText]
      <3>1. place.inbox = Normal(<<"x", "@">> \o ServerDomain) /\ mail.list \in Lists
        BY <2>3 DEF Init
      <3> QED
        BY <2>1, <3>1, <1>2, ShellAssumption DEF Listed
    <2> QED
      BY <2>2, <2>3
  <1>4. KeysMissNothing
    BY DEF Init, KeysMissNothing
  <1> QED
    BY <1>1, <1>3, <1>4 DEF KeysInv

(* Steps that leave the list, the keys' position and the inbox alone. *)
LEMMA KeysKept ==
  ASSUME KeysInv, UNCHANGED <<place, mail, sel, hist>>,
         count' \in [acts : Nat, changes : Nat]
  PROVE KeysInv'
  <1>1. ShellShape'
    BY DEF KeysInv, ShellShape
  <1>2. Listed'
    BY DEF KeysInv, Listed
  <1>3. KeysMissNothing'
    BY DEF KeysInv, KeysMissNothing
  <1> QED
    BY <1>1, <1>2, <1>3 DEF KeysInv

(* What the user does, and what changes behind him, is counted. *)
LEMMA ActsAreCounted ==
  ASSUME KeysInv, UserActs
  PROVE count' \in [acts : Nat, changes : Nat] /\ count'.acts # count.acts
  BY DEF KeysInv, ShellShape, UserActs

LEMMA ChangesAreCounted ==
  ASSUME KeysInv, Changes
  PROVE count' \in [acts : Nat, changes : Nat]
  BY DEF KeysInv, ShellShape, Changes

(* A message is opened at a position not beyond the next one, or at the
   first. *)
LEMMA OpenAtKeeps ==
  ASSUME KeysInv, NEW i, OpenAt(i), hist.quiet => i <= sel + 1 \/ i = 1
  PROVE KeysInv'
  <1> USE DEF OpenAt, Reads, Keys
  <1>1. count' \in [acts : Nat, changes : Nat]
    BY ActsAreCounted
  <1>2. /\ place' = place /\ sel' = i /\ mail'.list = mail.list
        /\ "current" \in DOMAIN mail' /\ "list" \in DOMAIN mail'
        /\ hist'.quiet = hist.quiet /\ hist'.opened = hist.opened \cup {mail.list[i]}
        /\ {"promised", "opened", "quiet"} \subseteq DOMAIN hist'
        /\ i \in DOMAIN mail.list
    BY DEF KeysInv, ShellShape
  <1> HIDE DEF OpenAt, Reads, Keys
  <1>3. CASE hist.quiet
    <2>1. sel \in Nat /\ mail.list \in Seq(Message)
      BY <1>3 DEF KeysInv, Listed
    <2>2. i \in 1 .. Len(mail.list)
      BY <1>2, <2>1
    <2>3. ShellShape'
      BY <1>1, <1>2 DEF KeysInv, ShellShape
    <2>4. Listed'
      BY <1>2, <2>2 DEF KeysInv, Listed
    <2>5. ASSUME NEW k \in 1 .. i
          PROVE k \in DOMAIN mail.list /\ mail.list[k] \in hist.opened \cup {mail.list[i]}
      <3>1. CASE k = i
        BY <3>1, <1>2
      <3>2. CASE k # i
        <4>1. k \in 1 .. sel
          BY <3>2, <2>1, <2>2, <2>5, <1>3
        <4> QED
          BY <4>1, <1>3 DEF KeysInv, KeysMissNothing
      <3> QED
        BY <3>1, <3>2
    <2>6. KeysMissNothing'
      BY <1>2, <2>5 DEF KeysMissNothing
    <2> QED
      BY <2>3, <2>4, <2>6 DEF KeysInv
  <1>4. CASE ~hist.quiet
    <2>1. ShellShape'
      BY <1>1, <1>2, <1>4 DEF KeysInv, ShellShape
    <2> QED
      BY <2>1, <1>2, <1>4 DEF KeysInv, Listed, KeysMissNothing
  <1> QED
    BY <1>3, <1>4

(* From here on the user may miss messages, and nothing is claimed. *)
LEMMA QuietEnds ==
  ASSUME ShellShape', ~hist'.quiet
  PROVE KeysInv'
  BY DEF KeysInv, Listed, KeysMissNothing

LEMMA OpensKeeps ==
  ASSUME KeysInv, NEW t, NEW shown, Opens(t, shown), count' \in [acts : Nat, changes : Nat]
  PROVE KeysInv'
  <1>1. /\ {"promised", "opened", "quiet"} \subseteq DOMAIN hist' /\ hist'.quiet = FALSE
        /\ "inbox" \in DOMAIN place' /\ {"list", "current"} \subseteq DOMAIN mail'
    <2> DEFINE failed == Throws(Param(PathOf(t)))
               address == IF failed THEN NoText ELSE Normal(Decode(Param(PathOf(t))))
               same == place.inbox = address
    <2>1. /\ hist' = [hist EXCEPT !.promised = shown, !.quiet = FALSE]
          /\ place' = IF failed THEN [place EXCEPT !.path = "failed"]
                      ELSE [path |-> "inbox", inbox |-> address]
          /\ mail' = IF failed \/ (same /\ (place.path = "inbox" \/ mail.list # <<>>)) THEN mail
                     ELSE [mail EXCEPT !.current = 0]
      BY DEF Opens, Enters
    <2> HIDE DEF failed, address, same
    <2> QED
      BY <2>1 DEF KeysInv, ShellShape
  <1>2. ShellShape'
    BY <1>1 DEF ShellShape
  <1> QED
    BY <1>1, <1>2, QuietEnds

(* Another page: the list is emptied where the inbox is left, and where it is
   not left there was none, or it stays. *)
LEMMA GoesKeeps ==
  ASSUME KeysInv, NEW path, Goes(path), sel' = sel, count' \in [acts : Nat, changes : Nat],
         {"promised", "opened", "quiet"} \subseteq DOMAIN hist', hist'.opened = hist.opened,
         hist'.quiet = (hist.quiet /\ place'.inbox = place.inbox)
  PROVE KeysInv'
  <1>1. /\ place'.inbox = IF path = "landing" THEN NoText ELSE place.inbox
        /\ mail' = IF path = "landing" THEN [list |-> <<>>, current |-> 0] ELSE mail
        /\ "inbox" \in DOMAIN place'
    BY DEF Goes
  <1>2. ShellShape'
    BY <1>1 DEF KeysInv, ShellShape
  <1>3. CASE hist'.quiet
    <2>1. mail'.list = mail.list
      BY <1>1, <1>3 DEF KeysInv, Listed
    <2>2. Listed'
      BY <1>1, <1>3, <2>1 DEF KeysInv, Listed
    <2>3. KeysMissNothing'
      BY <1>3, <2>1 DEF KeysInv, KeysMissNothing
    <2> QED
      BY <1>2, <2>2, <2>3 DEF KeysInv
  <1> QED
    BY <1>2, <1>3, QuietEnds

LEMMA EscapeKeeps ==
  ASSUME KeysInv, PressEscape
  PROVE KeysInv'
  <1>1. count' \in [acts : Nat, changes : Nat] /\ sel' = sel
    BY ActsAreCounted DEF PressEscape, Keys
  <1>2. hist' = [hist EXCEPT !.quiet = @ /\ place'.inbox = place.inbox]
    BY DEF PressEscape
  <1>3. /\ {"promised", "opened", "quiet"} \subseteq DOMAIN hist' /\ hist'.opened = hist.opened
        /\ hist'.quiet = (hist.quiet /\ place'.inbox = place.inbox)
    BY <1>2 DEF KeysInv, ShellShape
  <1>4. CASE Goes("landing")
    BY <1>1, <1>3, <1>4, GoesKeeps
  <1>5. CASE ~Goes("landing")
    <2>1. place' = place /\ mail'.list = mail.list /\ {"list", "current"} \subseteq DOMAIN mail'
      BY <1>5 DEF PressEscape, KeysInv, ShellShape
    <2>2. ShellShape'
      BY <1>1, <1>3, <2>1 DEF KeysInv, ShellShape
    <2>3. Listed'
      BY <1>1, <1>3, <2>1 DEF KeysInv, Listed
    <2>4. KeysMissNothing'
      BY <1>1, <1>3, <2>1 DEF KeysInv, KeysMissNothing
    <2> QED
      BY <2>2, <2>3, <2>4 DEF KeysInv
  <1> QED
    BY <1>4, <1>5

LEMMA PressXKeeps ==
  ASSUME KeysInv, PressX
  PROVE KeysInv'
  <1>1. count' \in [acts : Nat, changes : Nat]
    BY ActsAreCounted DEF PressX, Keys
  <1>2. /\ place' = place /\ {"list", "current"} \subseteq DOMAIN mail'
        /\ hist' = [hist EXCEPT !.quiet = FALSE]
    BY DEF PressX
  <1>3. ShellShape' /\ ~hist'.quiet
    BY <1>1, <1>2 DEF KeysInv, ShellShape
  <1> QED
    BY <1>3, QuietEnds

LEMMA ReloadKeeps ==
  ASSUME KeysInv, Reload
  PROVE KeysInv'
  <1>1. count' \in [acts : Nat, changes : Nat]
    BY ActsAreCounted DEF Reload
  <1>2. /\ place' = IF place.path = "inbox" THEN place ELSE [place EXCEPT !.inbox = <<>>]
        /\ mail' = [list |-> <<>>, current |-> 0]
        /\ hist' = [hist EXCEPT !.quiet = FALSE]
    BY DEF Reload
  <1>3. ShellShape' /\ ~hist'.quiet
    BY <1>1, <1>2 DEF KeysInv, ShellShape
  <1> QED
    BY <1>3, QuietEnds

(* A list that replaces another: the keys start anew with one that none of
   them has moved in yet. *)
LEMMA ListKeeps ==
  ASSUME KeysInv, NEW new \in Lists, ListArrives(new)
  PROVE KeysInv'
  <1>1. count' \in [acts : Nat, changes : Nat]
    BY ChangesAreCounted DEF ListArrives
  <1>2. /\ place' = place /\ sel' = sel /\ place.inbox # <<>>
        /\ mail' = [mail EXCEPT !.list = new]
        /\ hist' = [hist EXCEPT !.quiet = sel = 0 \/ (@ /\ new = mail.list),
                                !.opened = IF sel = 0 THEN {} ELSE @]
    BY DEF ListArrives
  <1>3. /\ mail'.list = new /\ {"list", "current"} \subseteq DOMAIN mail'
        /\ {"promised", "opened", "quiet"} \subseteq DOMAIN hist'
        /\ hist'.quiet = (sel = 0 \/ (hist.quiet /\ new = mail.list))
        /\ sel # 0 => hist'.opened = hist.opened
    BY <1>2 DEF KeysInv, ShellShape
  <1>4. ShellShape'
    BY <1>1, <1>2, <1>3 DEF KeysInv, ShellShape
  <1>5. new \in Seq(Message)
    BY ShellAssumption
  <1>6. Listed'
    <2>1. CASE sel = 0
      BY <1>2, <1>3, <1>5, <2>1 DEF Listed
    <2>2. CASE sel # 0
      <3>1. hist'.quiet => sel \in Nat
        BY <1>3, <2>2 DEF KeysInv, Listed
      <3> QED
        BY <1>2, <1>3, <1>5, <3>1 DEF Listed
    <2> QED
      BY <2>1, <2>2
  <1>7. KeysMissNothing'
    <2>1. CASE sel = 0
      BY <1>2, <2>1 DEF KeysMissNothing
    <2>2. CASE sel # 0
      BY <1>2, <1>3, <2>2 DEF KeysInv, KeysMissNothing
    <2> QED
      BY <2>1, <2>2
  <1> QED
    BY <1>4, <1>6, <1>7 DEF KeysInv

LEMMA RunKeeps ==
  ASSUME KeysInv, Run
  PROVE KeysInv'
  <1>1. count' \in [acts : Nat, changes : Nat] /\ sel' = sel
    BY ActsAreCounted DEF Run
  <1>2. CASE \E t, shown : Opens(t, shown)
    BY <1>1, <1>2, OpensKeeps
  <1>3. CASE Goes("section") /\ hist' = hist
    <2>1. place'.inbox = place.inbox
      BY <1>3 DEF Goes
    <2>2. /\ {"promised", "opened", "quiet"} \subseteq DOMAIN hist' /\ hist'.opened = hist.opened
          /\ hist'.quiet = (hist.quiet /\ place'.inbox = place.inbox)
      BY <1>3, <2>1 DEF KeysInv, ShellShape
    <2> QED
      BY <1>1, <1>3, <2>2, GoesKeeps
  <1>4. CASE UNCHANGED <<place, mail, hist>>
    BY <1>1, <1>4, KeysKept
  <1>5. \/ \E t, shown : Opens(t, shown)
        \/ Goes("section") /\ hist' = hist
        \/ UNCHANGED <<place, mail, hist>>
    <2> DEFINE c == flat[palette.active]
    <2>1. \/ Opens(c[2], c[2])
          \/ GenAddress
          \/ Goes("section") /\ UNCHANGED hist
          \/ UNCHANGED <<place, mail, hist>>
      BY DEF Run
    <2> HIDE DEF c
    <2> QED
      BY <2>1 DEF GenAddress
  <1> QED
    BY <1>2, <1>3, <1>4, <1>5

(* The highlighted position, what is typed, the menus, the reader and the
   settings are none of the keys' business. *)
LEMMA OthersKeep ==
  ASSUME KeysInv,
         \/ \E t \in Text : TypeAddress(t) \/ TypeTerm(t)
         \/ \E t \in Tabs : PickTab(t)
         \/ \E m \in Menus : ToggleMenu(m)
         \/ \E p \in Setting : ChangeSetting(p)
         \/ ToggleExtras \/ ShowPalette \/ Move(1) \/ Move(-1) \/ ClosePalette
         \/ \E n \in DOMAIN flat : Hover(n)
         \/ \E new \in Inboxes : InboxesArrive(new)
         \/ ConfigArrives \/ UNCHANGED vars
  PROVE KeysInv'
  <1>1. UNCHANGED <<place, mail, sel, hist>>
    BY DEF TypeAddress, TypeTerm, PickTab, ToggleMenu, ChangeSetting, ToggleExtras, ShowPalette,
           Move, ClosePalette, Hover, InboxesArrive, ConfigArrives, Palette, vars
  <1>2. UserActs \/ Changes \/ UNCHANGED count
    BY DEF TypeAddress, TypeTerm, PickTab, ToggleMenu, ChangeSetting, ToggleExtras, ShowPalette,
           Move, ClosePalette, Hover, InboxesArrive, ConfigArrives, Palette, Keys, vars
  <1>3. count' \in [acts : Nat, changes : Nat]
    <2>1. CASE UNCHANGED count
      BY <2>1 DEF KeysInv, ShellShape
    <2> QED
      BY <1>2, <2>1, ActsAreCounted, ChangesAreCounted
  <1> QED
    BY <1>1, <1>3, KeysKept

LEMMA KeysStay == KeysInv /\ [Next]_vars => KeysInv'
  <1> SUFFICES ASSUME KeysInv, [Next]_vars PROVE KeysInv'
    OBVIOUS
  <1>1. ASSUME PressJ PROVE KeysInv'
    <2>1. ASSUME hist.quiet PROVE KeyJ <= sel + 1
      <3>1. sel \in Nat /\ Len(mail.list) \in Nat
        BY <2>1 DEF KeysInv, Listed
      <3> QED
        BY <3>1 DEF KeyJ, Down
    <2> QED
      BY <1>1, <2>1, OpenAtKeeps DEF PressJ
  <1>2. ASSUME PressK PROVE KeysInv'
    <2>1. ASSUME hist.quiet PROVE KeyK <= sel + 1 \/ KeyK = 1
      <3>1. sel \in Nat
        BY <2>1 DEF KeysInv, Listed
      <3> QED
        BY <3>1 DEF KeyK
    <2> QED
      BY <1>2, <2>1, OpenAtKeeps DEF PressK
  <1>3. ASSUME PressEnter PROVE KeysInv'
    <2>1. ASSUME hist.quiet PROVE sel <= sel + 1
      BY <2>1 DEF KeysInv, Listed
    <2> QED
      BY <1>3, <2>1, OpenAtKeeps DEF PressEnter
  <1>4. ASSUME Section PROVE KeysInv'
    <2>1. /\ count' \in [acts : Nat, changes : Nat] /\ sel' = sel
          /\ \E path : Goes(path)
          /\ hist' = [hist EXCEPT !.quiet = @ /\ place'.inbox = place.inbox]
      BY <1>4, ActsAreCounted DEF Section, Keys
    <2>2. /\ {"promised", "opened", "quiet"} \subseteq DOMAIN hist' /\ hist'.opened = hist.opened
          /\ hist'.quiet = (hist.quiet /\ place'.inbox = place.inbox)
      BY <2>1 DEF KeysInv, ShellShape
    <2> QED
      BY <2>1, <2>2, GoesKeeps
  <1>5. ASSUME PressG \/ ClickNewAddress \/ OpenTyped PROVE KeysInv'
    <2>1. UserActs /\ \E t, shown : Opens(t, shown)
      BY <1>5 DEF PressG, ClickNewAddress, OpenTyped, newAddress, Keys
    <2> QED
      BY <2>1, ActsAreCounted, OpensKeeps
  <1>6. ASSUME InboxEntered PROVE KeysInv'
    <2>1. PICK t \in Waited \ {place.inbox} : Opens(t, t)
      BY <1>6 DEF InboxEntered
    <2>2. count' \in [acts : Nat, changes : Nat]
      BY <1>6, ChangesAreCounted DEF InboxEntered
    <2> QED
      BY <2>1, <2>2, OpensKeeps
  <1>7. ASSUME NEW m \in Message, ClickMessage(m) PROVE KeysInv'
    <2>1. count' \in [acts : Nat, changes : Nat]
      BY <1>7, ActsAreCounted DEF ClickMessage, Keys
    <2>2. /\ place' = place /\ sel' = sel
          /\ mail' = [mail EXCEPT !.current = m]
          /\ hist' = [hist EXCEPT !.opened = @ \cup {m}]
      BY <1>7 DEF ClickMessage, Reads
    <2>3. /\ mail'.list = mail.list /\ hist'.quiet = hist.quiet /\ hist.opened \subseteq hist'.opened
          /\ {"list", "current"} \subseteq DOMAIN mail'
          /\ {"promised", "opened", "quiet"} \subseteq DOMAIN hist'
      BY <2>2 DEF KeysInv, ShellShape
    <2>4. ShellShape'
      BY <2>1, <2>2, <2>3 DEF KeysInv, ShellShape
    <2>5. Listed'
      BY <2>2, <2>3 DEF KeysInv, Listed
    <2>6. KeysMissNothing'
      BY <2>2, <2>3 DEF KeysInv, KeysMissNothing
    <2> QED
      BY <2>4, <2>5, <2>6 DEF KeysInv
  <1> QED
    BY <1>1, <1>2, <1>3, <1>4, <1>5, <1>6, <1>7, EscapeKeeps, PressXKeeps, ReloadKeeps, RunKeeps,
       ListKeeps, OthersKeep DEF Next

(* Going down and up a list that stays as it is, with j, k and Enter, among
   everything else that can happen, misses no message: app.vue clamps the
   position to the list and opens each message it stops at. *)
THEOREM KeysOpenAll == Spec => []KeysMissNothing
  <1>1. KeysInv => KeysMissNothing
    BY DEF KeysInv
  <1> QED
    BY <1>1, KeysStart, KeysStay, PTL DEF Spec

---------------------------------------------------------------------------
(* The commands of the palette *)

(* What the commands depend on. *)
SameCommands ==
  palette'.q = palette.q /\ place'.inbox = place.inbox /\ UNCHANGED <<inboxes, domain>>

(* The commands of the palette, as a function of those. *)
MatchingOf(cs, q, at, d) ==
  LET term == Normal(q)
      shows(c) == CASE c = "gen" -> <<"@">> \o d
                    [] c \in {"wait", "clear"} -> at
                    [] OTHER -> NoText
      shown(c) == c \in {"wait", "clear"} => at # NoText
      hit(c) == term = NoText \/ c \in Hits[q] \/ IsIn(term, Lower(shows(c)))
  IN Picked(cs, {n \in DOMAIN cs : shown(cs[n]) /\ hit(cs[n])})

LEMMA FoundIs ==
  ASSUME NEW cs
  PROVE Found(cs) = MatchingOf(cs, palette.q, place.inbox, domain)
  BY DEF Found, MatchingOf, Shows

InboxesFound(q, ibs) ==
  Picked([n \in DOMAIN ibs |-> <<"inbox", ibs[n].inbox>>],
         {n \in DOMAIN ibs : IsIn(Normal(q), Lower(ibs[n].inbox))})

CommandsOf(q, at, ibs, d) ==
  LET term == Normal(q)
      found(cs) == MatchingOf(cs, q, at, d)
  IN
  (IF term # NoText /\ LooksLikeInbox(term) THEN <<<<"open", maybeQualify(term, d)>>>> ELSE <<>>)
  \o Group("run", found(Actions)) \o Group("go", found(Manage)) \o InboxesFound(q, ibs)

LEMMA InboxesFoundAre == FoundInboxes = InboxesFound(palette.q, inboxes)
  BY DEF FoundInboxes, InboxesFound, InboxCommand

LEMMA CommandsAre == flat = CommandsOf(palette.q, place.inbox, inboxes, domain)
  BY FoundIs, InboxesFoundAre DEF flat, CommandsOf, OpenCommand

LEMMA CommandsWillBe == (flat = CommandsOf(palette.q, place.inbox, inboxes, domain))'
  BY CommandsAre, PTL

LEMMA CommandsStay ==
  ASSUME SameCommands
  PROVE flat' = flat
  <1>1. flat' = CommandsOf(palette.q, place.inbox, inboxes, domain)'
    BY CommandsWillBe
  <1>2. palette'.q = palette.q /\ place'.inbox = place.inbox /\ inboxes' = inboxes /\ domain' = domain
    BY DEF SameCommands
  <1>3. flat' = CommandsOf(palette'.q, place'.inbox, inboxes', domain')
    BY <1>1
  <1> QED
    BY <1>2, <1>3, CommandsAre

---------------------------------------------------------------------------
(* What is shown, and what opens *)

LEMMA AtIsText == <<"@">> \in Seq(Piece)
  BY DEF Piece

LEMMA QualifiedTexts ==
  ASSUME NEW t \in Seq(Piece), NEW d \in Seq(Piece)
  PROVE  Qualify(t, d) \in Seq(Piece) /\ maybeQualify(t, d) \in Seq(Piece)
  <1>1. <<"@">> \in Seq(Piece)
    BY AtIsText
  <1>2. Normal(t) \in Seq(Piece) /\ Lower(t) \in Seq(Piece)
    BY NormalIsTrimmed, LowerType DEF Trimmed
  <1> QED
    BY <1>1, <1>2 DEF Qualify, maybeQualify

LEMMA DecodeType ==
  ASSUME NEW t \in Seq(Piece), ~Throws(t)
  PROVE  Decode(t) \in Seq(Piece)
  <1>1. /\ Len(t) \in Nat /\ DOMAIN t = 1 .. Len(t)
        /\ \A k \in 1 .. Len(t) : t[k] \in Piece
    BY TextsAre
  <1>2. DecodedAt(t) \subseteq 1 .. Len(t)
    BY <1>1 DEF DecodedAt
  <1>3. ASSUME NEW k \in DecodedAt(t) PROVE Decoded(t)[k] \in Piece
    <2>1. k \in DOMAIN t
      BY <1>1, <1>2
    <2>2. CASE t[k] = "%"
      <3>1. t[k + 1] \in Range(Code)
        BY <2>1, <2>2 DEF Throws
      <3>2. \E c \in DOMAIN Code : Code[c] = t[k + 1]
        BY <3>1 DEF Range
      <3>3. Decoded(t)[k] \in DOMAIN Code
        BY <2>1, <2>2, <3>2 DEF Decoded
      <3> QED
        BY <3>3 DEF Code, Piece
    <2>3. CASE t[k] # "%"
      BY <1>1, <2>1, <2>3 DEF Decoded
    <2> QED
      BY <2>2, <2>3
  <1>4. Picked(Decoded(t), DecodedAt(t)) \in Seq(Piece)
    BY <1>1, <1>2, <1>3, PickedType
  <1> QED
    BY <1>4, DecodeIs

(* The page that a text leads to: without a percent sign the inbox of that
   name, and no failure. *)
LEMMA EntersThere ==
  ASSUME NEW t \in Seq(Piece), Enters(PathOf(t))
  PROVE  /\ typed' = NoText
         /\ \/ place' = [place EXCEPT !.path = "failed"] /\ Has(t, "%")
            \/ \E a \in Seq(Piece) : /\ place' = [path |-> "inbox", inbox |-> a]
                                     /\ ~Has(t, "%") => a = Normal(t)
         /\ \/ mail' = mail /\ reader' = reader
            \/ /\ mail' = mail \/ mail' = [mail EXCEPT !.current = NoMessage]
               /\ reader' = FreshReader
  <1> DEFINE n == Normal(t)
             address == IF Throws(n) THEN NoText ELSE Normal(Decode(n))
             same == place.inbox = address
  <1>1. n \in Seq(Piece) /\ Normal(n) = n /\ (Has(n, "%") => Has(t, "%"))
    BY NormalIsTrimmed, NormalOfTrimmed DEF Trimmed
  <1>2. Param(PathOf(t)) = n
    BY <1>1, PathsReturn DEF Param, PathOf
  <1> HIDE DEF n
  <1>3. Throws(n) => Has(n, "%")
    BY DEF Throws, Has
  <1>4. Normal(Decode(n)) \in Seq(Piece) \/ Throws(n)
    BY <1>1, DecodeType, NormalIsTrimmed DEF Trimmed
  <1>5. ~Has(t, "%") => Normal(Decode(n)) = n
    BY <1>1, PlainDecodes
  <1>6. /\ typed' = NoText
        /\ place' = IF Throws(n) THEN [place EXCEPT !.path = "failed"]
                    ELSE [path |-> "inbox", inbox |-> address]
        /\ mail' = IF Throws(n) \/ (same /\ (place.path = "inbox" \/ mail.list # <<>>)) THEN mail
                   ELSE [mail EXCEPT !.current = NoMessage]
        /\ reader' = IF same /\ place.path = "inbox" THEN reader ELSE FreshReader
    BY <1>2 DEF Enters
  <1> QED
    BY <1>1, <1>3, <1>4, <1>5, <1>6 DEF n

(* What the commands of the palette are: a text to be opened, or one of the
   fixed commands. *)
Entry == ({"open", "inbox"} \X Seq(Piece)) \cup ({"run", "go"} \X Command)

(* The shapes of the state. *)
PlaceOK == place \in [path : {"landing", "inbox", "section", "failed"}, inbox : Seq(Piece)]
MailOK == mail \in [list : Seq(Message), current : Message \cup {NoMessage}]
KeysOK == sel \in Nat /\ typed \in Text \cup {NoText}
PaletteOK == palette \in [open : BOOLEAN, q : Text \cup {NoText}, active : Nat \ {0}]
ServerOK == inboxes \in Seq([inbox : Seq(Piece), message_count : Nat]) /\ domain \in Seq(Piece)
ReaderOK == reader \in [tab : Tabs, extras : BOOLEAN]
PrefsOK ==
  /\ prefs \in [theme : Themes, accent : Accents, images : BOOLEAN, auto : BOOLEAN,
                read : Seq(Message)]
  /\ Len(prefs.read) <= ReadMax
HistOK == hist \in [promised : Seq(Piece), opened : SUBSET Message, quiet : BOOLEAN]

Shapes ==
  PlaceOK /\ MailOK /\ KeysOK /\ PaletteOK /\ ServerOK /\ ReaderOK /\ PrefsOK /\ HistOK

LEMMA EmptyTexts == \A S : <<>> \in Seq(S)
  BY EmptySeq

LEMMA Concatenated ==
  ASSUME NEW S, NEW a \in Seq(S), NEW b \in Seq(S)
  PROVE  a \o b \in Seq(S)
  OBVIOUS

LEMMA ListsOfCommands == Actions \in Seq(Command) /\ Manage \in Seq(Command)
  <1>1. Actions \in Seq(Range(Actions)) /\ Manage \in Seq(Range(Manage))
    BY DEF Actions, Manage, Range
  <1>2. \A S, s : s \in Seq(S) /\ S \subseteq Command => s \in Seq(Command)
    OBVIOUS
  <1> QED
    BY <1>1, <1>2 DEF Command

LEMMA FoundType ==
  ASSUME NEW cs \in Seq(Command)
  PROVE  Found(cs) \in Seq(Command)
  <1>1. Len(cs) \in Nat /\ DOMAIN cs = 1 .. Len(cs) /\ \A n \in 1 .. Len(cs) : cs[n] \in Command
    OBVIOUS
  <1> DEFINE term == Normal(palette.q)
             shown(c) == c \in {"wait", "clear"} => place.inbox # NoText
             hit(c) == term = NoText \/ c \in Hits[palette.q] \/ IsIn(term, Lower(Shows(c)))
             K == {n \in DOMAIN cs : shown(cs[n]) /\ hit(cs[n])}
  <1>2. Found(cs) = Picked(cs, K)
    BY DEF Found
  <1>3. K \subseteq 1 .. Len(cs)
    BY <1>1
  <1> HIDE DEF K
  <1> QED
    BY <1>1, <1>2, <1>3, PickedType

LEMMA GroupType ==
  ASSUME NEW cs \in Seq(Command), NEW name \in {"run", "go"}
  PROVE  Group(name, cs) \in Seq(Entry)
  <1>1. Len(cs) \in Nat /\ DOMAIN cs = 1 .. Len(cs) /\ \A n \in 1 .. Len(cs) : cs[n] \in Command
    OBVIOUS
  <1>2. \A c \in Command : <<name, c>> \in Entry
    BY DEF Entry
  <1> QED
    BY <1>1, <1>2 DEF Group

LEMMA FoundInboxesType ==
  ASSUME ServerOK
  PROVE  FoundInboxes \in Seq(Entry)
  <1> DEFINE s == [n \in DOMAIN inboxes |-> InboxCommand(n)]
             K == {n \in DOMAIN inboxes : IsIn(Normal(palette.q), Lower(inboxes[n].inbox))}
  <1>1. /\ Len(inboxes) \in Nat /\ DOMAIN inboxes = 1 .. Len(inboxes)
        /\ \A n \in 1 .. Len(inboxes) : inboxes[n].inbox \in Seq(Piece)
    <2> DEFINE Row == [inbox : Seq(Piece), message_count : Nat]
    <2>1. inboxes \in Seq(Row)
      BY DEF ServerOK
    <2>2. \A r \in Row : r.inbox \in Seq(Piece)
      OBVIOUS
    <2> HIDE DEF Row
    <2>3. /\ Len(inboxes) \in Nat /\ DOMAIN inboxes = 1 .. Len(inboxes)
          /\ \A n \in 1 .. Len(inboxes) : inboxes[n] \in Row
      BY <2>1
    <2> QED
      BY <2>2, <2>3
  <1>2. K \subseteq 1 .. Len(inboxes)
    BY <1>1
  <1>3. \A n \in K : s[n] = <<"inbox", inboxes[n].inbox>>
    BY DEF InboxCommand
  <1>4. \A t \in Seq(Piece) : <<"inbox", t>> \in Entry
    BY DEF Entry
  <1>5. FoundInboxes = Picked(s, K)
    BY DEF FoundInboxes
  <1> HIDE DEF s, K
  <1>6. \A n \in K : s[n] \in Entry
    BY <1>1, <1>2, <1>3, <1>4
  <1> QED
    BY <1>1, <1>2, <1>5, <1>6, PickedType

(* The palette's list. *)
LEMMA FlatType ==
  ASSUME ServerOK, PaletteOK
  PROVE  flat \in Seq(Entry)
  <1> DEFINE term == Normal(palette.q)
             first == IF term # NoText /\ LooksLikeInbox(term) THEN <<OpenCommand(term)>> ELSE <<>>
             run == Group("run", Found(Actions))
             go == Group("go", Found(Manage))
  <1>1. palette.q \in Seq(Piece)
    BY ShellAssumption, EmptyTexts DEF PaletteOK
  <1>2. term \in Seq(Piece)
    BY <1>1, NormalIsTrimmed DEF Trimmed
  <1>3. first \in Seq(Entry)
    <2>1. OpenCommand(term) \in Entry
      <3>1. maybeQualify(term, domain) \in Seq(Piece)
        BY <1>2, QualifiedTexts DEF ServerOK
      <3> QED
        BY <3>1 DEF OpenCommand, Entry
    <2> HIDE DEF term
    <2> QED
      BY <2>1, EmptyTexts
  <1>4. run \in Seq(Entry) /\ go \in Seq(Entry)
    BY ListsOfCommands, FoundType, GroupType
  <1>5. FoundInboxes \in Seq(Entry)
    BY FoundInboxesType
  <1>6. flat = first \o run \o go \o FoundInboxes
    BY DEF flat
  <1> HIDE DEF first, run, go
  <1> QED
    BY <1>3, <1>4, <1>5, <1>6, Concatenated

LEMMA EntriesOpen ==
  ASSUME NEW c \in Entry
  PROVE  c[1] \in {"open", "inbox"} => c[2] \in Seq(Piece)
  BY DEF Entry

---------------------------------------------------------------------------
(* What fits together *)

(* The reader's tab and links are the open message's; one menu at a time, the
   reader's beside a message. *)
Fits ==
  /\ reader.tab = "atts" => mail.current \in WithFiles
  /\ reader.extras => mail.current \in WithLinks
  /\ \E m \in Menus : menus \subseteq {m}
  /\ "reader" \in menus => place.path = "inbox" /\ mail.current # NoMessage

(* A command is highlighted, or the first will be that is listed. *)
Lit == palette.open => palette.active = 1 \/ palette.active \in DOMAIN flat

(* A page fails at an address with a percent sign only. *)
Met == OpensWhatItShows /\ (place.path = "failed" => Has(hist.promised, "%"))

ShellInv == Shapes /\ Fits /\ Lit /\ Met

(* Other pages are no inbox that was promised. *)
LEMMA GoesMeets ==
  ASSUME ShellInv, NEW path \in {"landing", "section"}, Goes(path)
  PROVE  /\ PlaceOK' /\ MailOK' /\ ReaderOK' /\ typed' = NoText /\ reader' = FreshReader
         /\ Met'
  <1>1. /\ place' = [path |-> path, inbox |-> IF path = "landing" THEN NoText ELSE place.inbox]
        /\ mail' = IF path = "landing" THEN [list |-> <<>>, current |-> NoMessage] ELSE mail
        /\ reader' = FreshReader /\ typed' = NoText
    BY DEF Goes
  <1>2. place'.path = path /\ place' \in [path : {"landing", "inbox", "section", "failed"}, inbox : Seq(Piece)]
    BY <1>1, EmptyTexts DEF ShellInv, Shapes, PlaceOK
  <1>3. mail' \in [list : Seq(Message), current : Message \cup {NoMessage}]
    BY <1>1, EmptyTexts DEF ShellInv, Shapes, MailOK
  <1>4. reader' \in [tab : Tabs, extras : BOOLEAN]
    BY <1>1 DEF FreshReader, Tabs
  <1>5. Met'
    BY <1>2 DEF Met, OpensWhatItShows
  <1> QED
    BY <1>1, <1>2, <1>3, <1>4, <1>5 DEF PlaceOK, MailOK, ReaderOK

(* The inbox that opens is the one that was promised. *)
LEMMA OpensMeets ==
  ASSUME ShellInv, NEW t \in Seq(Piece), Opens(t, t)
  PROVE  /\ PlaceOK' /\ MailOK' /\ ReaderOK' /\ HistOK' /\ typed' = NoText /\ Met'
         /\ reader'.tab = "atts" => mail'.current \in WithFiles
         /\ reader'.extras => mail'.current \in WithLinks
  <1>1. Enters(PathOf(t)) /\ hist' = [hist EXCEPT !.promised = t, !.quiet = FALSE]
    BY DEF Opens
  <1>2. /\ typed' = NoText
        /\ \/ place' = [place EXCEPT !.path = "failed"] /\ Has(t, "%")
           \/ \E a \in Seq(Piece) : /\ place' = [path |-> "inbox", inbox |-> a]
                                    /\ ~Has(t, "%") => a = Normal(t)
        /\ \/ mail' = mail /\ reader' = reader
           \/ /\ mail' = mail \/ mail' = [mail EXCEPT !.current = NoMessage]
              /\ reader' = FreshReader
    BY <1>1, EntersThere
  <1>3. PlaceOK'
    BY <1>2 DEF ShellInv, Shapes, PlaceOK
  <1>4. MailOK'
    BY <1>2 DEF ShellInv, Shapes, MailOK
  <1>5. ReaderOK'
    <2>1. FreshReader \in [tab : Tabs, extras : BOOLEAN]
      BY DEF FreshReader, Tabs
    <2>2. reader' = reader \/ reader' = FreshReader
      BY <1>2
    <2> QED
      BY <2>1, <2>2 DEF ShellInv, Shapes, ReaderOK
  <1>6. HistOK' /\ hist'.promised = t
    BY <1>1 DEF ShellInv, Shapes, HistOK
  <1>7. Met'
    <2>1. CASE place' = [place EXCEPT !.path = "failed"] /\ Has(t, "%")
      BY <1>6, <2>1 DEF Met, OpensWhatItShows
    <2>2. ASSUME NEW a \in Seq(Piece), place' = [path |-> "inbox", inbox |-> a],
                 ~Has(t, "%") => a = Normal(t)
          PROVE  Met'
      <3>1. place'.path = "inbox" /\ place'.inbox = a
        BY <2>2
      <3>2. OpensWhatItShows'
        BY <1>6, <2>2, <3>1 DEF OpensWhatItShows
      <3> QED
        BY <3>1, <3>2 DEF Met
    <2> QED
      BY <1>2, <2>1, <2>2
  <1>8. /\ reader'.tab = "atts" => mail'.current \in WithFiles
        /\ reader'.extras => mail'.current \in WithLinks
    <2>1. CASE mail' = mail /\ reader' = reader
      BY <2>1 DEF ShellInv, Fits
    <2>2. CASE reader' = FreshReader
      BY <2>2 DEF FreshReader
    <2> QED
      BY <1>2, <2>1, <2>2
  <1> QED
    BY <1>2, <1>3, <1>4, <1>5, <1>6, <1>7, <1>8

(* Where the inbox stays what it was. *)
LEMMA MetStays ==
  ASSUME ShellInv, UNCHANGED place, hist'.promised = hist.promised
  PROVE  PlaceOK' /\ Met'
  BY DEF ShellInv, Shapes, PlaceOK, Met, OpensWhatItShows

(* Menus that a step leaves open. *)
LEMMA KeptFits ==
  ASSUME ShellInv, menus' \in {{}, Kept}
  PROVE  /\ \E m \in Menus : menus' \subseteq {m}
         /\ "reader" \in menus' => place'.path = "inbox" /\ mail'.current # NoMessage
  <1>1. menus' \subseteq menus
    BY DEF Kept
  <1>2. "reader" \in menus' => place' = place /\ mail'.current # NoMessage
    BY DEF Kept
  <1>3. PICK m \in Menus : menus \subseteq {m}
    BY DEF ShellInv, Fits
  <1> QED
    BY <1>1, <1>2, <1>3 DEF ShellInv, Fits

(* The highlight: on the first, on the same of the same, or out of sight. *)
LEMMA FirstIsLit ==
  ASSUME palette'.active = 1
  PROVE  Lit'
  BY DEF Lit

LEMMA SameIsLit ==
  ASSUME SameCommands, palette'.active \in DOMAIN flat
  PROVE  Lit'
  BY CommandsStay DEF Lit

LEMMA LitStays ==
  ASSUME ShellInv, SameCommands, UNCHANGED palette
  PROVE  Lit'
  BY CommandsStay DEF ShellInv, Lit

LEMMA ClosedIsLit ==
  ASSUME ~palette'.open
  PROVE  Lit'
  BY DEF Lit

---------------------------------------------------------------------------
(* The steps *)

LEMMA FreshReaderOK == FreshReader \in [tab : Tabs, extras : BOOLEAN]
  BY DEF FreshReader, Tabs

(* The marks are messages, no more than are kept. *)
LEMMA MarkedType ==
  ASSUME NEW read \in Seq(Message), Len(read) <= ReadMax, NEW m \in Message
  PROVE  Marked(read, m) \in Seq(Message) /\ Len(Marked(read, m)) <= ReadMax
  <1>1. ReadMax \in Nat /\ ReadKeep \in 1 .. ReadMax
    BY ShellAssumption
  <1> DEFINE all == Append(read, m)
  <1>2. all \in Seq(Message) /\ Len(all) \in Nat
    OBVIOUS
  <1>3. CASE m \in Range(read)
    BY <1>3 DEF Marked
  <1>4. CASE m \notin Range(read) /\ ~(Len(all) > ReadMax)
    BY <1>1, <1>2, <1>4 DEF Marked
  <1>5. CASE m \notin Range(read) /\ Len(all) > ReadMax
    <2>1. Marked(read, m) = SubSeq(all, Len(all) - ReadKeep + 1, Len(all))
      BY <1>5 DEF Marked
    <2> HIDE DEF all
    <2>2. Len(all) - ReadKeep + 1 \in 1 .. Len(all)
      BY <1>1, <1>2, <1>5
    <2>3. \A i \in (Len(all) - ReadKeep + 1) .. Len(all) : all[i] \in Message
      BY <1>2, <2>2
    <2>4. /\ Marked(read, m) \in Seq(Message)
          /\ Len(Marked(read, m)) = Len(all) - (Len(all) - ReadKeep + 1) + 1
      <3> DEFINE from == Len(all) - ReadKeep + 1
      <3>1. from \in Int /\ Len(all) \in Int /\ from <= Len(all) /\ \A i \in from .. Len(all) : all[i] \in Message
        BY <1>2, <2>2, <2>3
      <3>2. Marked(read, m) = SubSeq(all, from, Len(all))
        BY <2>1
      <3> HIDE DEF from
      <3>3. /\ Marked(read, m) \in Seq(Message)
            /\ Len(Marked(read, m)) = Len(all) - from + 1
        BY <3>1, <3>2, SubSeqProperties
      <3> QED
        BY <3>3 DEF from
    <2> QED
      BY <1>1, <1>2, <2>4
  <1> QED
    BY <1>3, <1>4, <1>5

(* A message is opened. *)
LEMMA ReadsKeep ==
  ASSUME ShellInv, NEW m \in Message, Reads(m)
  PROVE  /\ MailOK' /\ ReaderOK' /\ PrefsOK' /\ HistOK'
         /\ mail'.current = m /\ hist'.promised = hist.promised
         /\ reader'.tab = "atts" => mail'.current \in WithFiles
         /\ reader'.extras => mail'.current \in WithLinks
  <1>1. /\ mail' = [mail EXCEPT !.current = m]
        /\ reader' = IF m = mail.current THEN reader ELSE FreshReader
        /\ prefs' = [prefs EXCEPT !.read = Marked(prefs.read, m)]
        /\ hist' = [hist EXCEPT !.opened = hist.opened \cup {m}]
    BY DEF Reads, OpenedReader
  <1>2. MailOK' /\ mail'.current = m
    BY <1>1 DEF ShellInv, Shapes, MailOK
  <1>3. ReaderOK'
    BY <1>1, FreshReaderOK DEF ShellInv, Shapes, ReaderOK
  <1>4. PrefsOK'
    <2>1. prefs.read \in Seq(Message) /\ Len(prefs.read) <= ReadMax
      BY DEF ShellInv, Shapes, PrefsOK
    <2>2. Marked(prefs.read, m) \in Seq(Message) /\ Len(Marked(prefs.read, m)) <= ReadMax
      BY <2>1, MarkedType
    <2> DEFINE r == Marked(prefs.read, m)
    <2>3. r \in Seq(Message) /\ Len(r) <= ReadMax /\ prefs' = [prefs EXCEPT !.read = r]
      BY <1>1, <2>2
    <2> HIDE DEF r
    <2> QED
      BY <2>3 DEF ShellInv, Shapes, PrefsOK
  <1>5. HistOK' /\ hist'.promised = hist.promised
    BY <1>1 DEF ShellInv, Shapes, HistOK
  <1>6. /\ reader'.tab = "atts" => mail'.current \in WithFiles
        /\ reader'.extras => mail'.current \in WithLinks
    BY <1>1, <1>2 DEF ShellInv, Fits, FreshReader
  <1> QED
    BY <1>2, <1>3, <1>4, <1>5, <1>6

(* What a step leaves alone keeps its shape. *)
LEMMA PlaceStays == ASSUME ShellInv, UNCHANGED place PROVE PlaceOK'
  BY DEF ShellInv, Shapes, PlaceOK
LEMMA MailStays == ASSUME ShellInv, UNCHANGED mail PROVE MailOK'
  BY DEF ShellInv, Shapes, MailOK
LEMMA KeysStayOK == ASSUME ShellInv, UNCHANGED sel, typed' \in Text \cup {NoText} PROVE KeysOK'
  BY DEF ShellInv, Shapes, KeysOK
LEMMA TypedStays == ASSUME ShellInv, UNCHANGED <<sel, typed>> PROVE KeysOK'
  BY DEF ShellInv, Shapes, KeysOK
LEMMA PaletteStays == ASSUME ShellInv, UNCHANGED palette PROVE PaletteOK'
  BY DEF ShellInv, Shapes, PaletteOK
LEMMA ServerStays == ASSUME ShellInv, UNCHANGED <<inboxes, domain>> PROVE ServerOK'
  BY DEF ShellInv, Shapes, ServerOK
LEMMA ReaderStays == ASSUME ShellInv, UNCHANGED reader PROVE ReaderOK'
  BY DEF ShellInv, Shapes, ReaderOK
LEMMA PrefsStay == ASSUME ShellInv, UNCHANGED prefs PROVE PrefsOK'
  BY DEF ShellInv, Shapes, PrefsOK
LEMMA HistStays == ASSUME ShellInv, UNCHANGED hist PROVE HistOK'
  BY DEF ShellInv, Shapes, HistOK
LEMMA FitStays == ASSUME ShellInv, UNCHANGED <<place, reader, menus>>, mail'.current = mail.current
                  PROVE  Fits'
  BY DEF ShellInv, Fits

LEMMA ShellFrom ==
  ASSUME PlaceOK', MailOK', KeysOK', PaletteOK', ServerOK', ReaderOK', PrefsOK', HistOK',
         Fits', Lit', Met'
  PROVE  ShellInv'
  BY DEF ShellInv, Shapes

LEMMA OpenAtFits ==
  ASSUME ShellInv, NEW i, OpenAt(i)
  PROVE  ShellInv'
  <1>1. /\ ~palette.open /\ i \in DOMAIN mail.list /\ sel' = i /\ Reads(mail.list[i])
        /\ UNCHANGED <<place, typed, palette, inboxes, domain, menus>>
    BY DEF OpenAt, Keys
  <1>2. i \in Nat /\ mail.list[i] \in Message
    BY <1>1 DEF ShellInv, Shapes, MailOK
  <1>3. /\ MailOK' /\ ReaderOK' /\ PrefsOK' /\ HistOK'
        /\ mail'.current = mail.list[i] /\ hist'.promised = hist.promised
        /\ reader'.tab = "atts" => mail'.current \in WithFiles
        /\ reader'.extras => mail'.current \in WithLinks
    BY <1>1, <1>2, ReadsKeep
  <1>4. KeysOK'
    BY <1>1, <1>2 DEF ShellInv, Shapes, KeysOK
  <1>5. mail'.current # NoMessage
    BY <1>2, <1>3, ShellAssumption
  <1>6. Fits'
    BY <1>1, <1>3, <1>5 DEF ShellInv, Fits
  <1> QED
    BY <1>1, <1>3, <1>4, <1>6, PaletteStays, ServerStays, MetStays, ClosedIsLit, ShellFrom

LEMMA EscapeFits ==
  ASSUME ShellInv, PressEscape
  PROVE  ShellInv'
  <1>1. /\ ~palette.open /\ menus' = {}
        /\ hist' = [hist EXCEPT !.quiet = hist.quiet /\ place'.inbox = place.inbox]
        /\ UNCHANGED <<sel, palette, inboxes, domain, prefs>>
        /\ \/ /\ mail' = [mail EXCEPT !.current = NoMessage]
              /\ reader' = FreshReader
              /\ UNCHANGED <<place, typed>>
           \/ Goes("landing")
           \/ UNCHANGED <<place, mail, reader, typed>>
    BY DEF PressEscape, Keys
  <1>2. HistOK' /\ hist'.promised = hist.promised
    BY <1>1 DEF ShellInv, Shapes, HistOK
  <1>3. /\ PlaceOK' /\ MailOK' /\ ReaderOK' /\ KeysOK' /\ Met'
        /\ reader'.tab = "atts" => mail'.current \in WithFiles
        /\ reader'.extras => mail'.current \in WithLinks
    <2>1. CASE Goes("landing")
      <3>1. /\ PlaceOK' /\ MailOK' /\ ReaderOK' /\ typed' = NoText /\ reader' = FreshReader /\ Met'
        BY <2>1, GoesMeets
      <3>2. KeysOK'
        BY <1>1, <3>1, KeysStayOK
      <3> QED
        BY <3>1, <3>2 DEF FreshReader
    <2>2. CASE mail' = [mail EXCEPT !.current = NoMessage] /\ reader' = FreshReader
               /\ UNCHANGED <<place, typed>>
      <3>1. MailOK'
        BY <2>2 DEF ShellInv, Shapes, MailOK
      <3>2. ReaderOK' /\ reader'.tab # "atts" /\ ~reader'.extras
        BY <2>2, FreshReaderOK DEF ReaderOK, FreshReader
      <3> QED
        BY <1>1, <1>2, <2>2, <3>1, <3>2, MetStays, TypedStays
    <2>3. CASE UNCHANGED <<place, mail, reader, typed>>
      <3>1. /\ reader'.tab = "atts" => mail'.current \in WithFiles
            /\ reader'.extras => mail'.current \in WithLinks
        BY <2>3 DEF ShellInv, Fits
      <3> QED
        BY <1>1, <1>2, <2>3, <3>1, MetStays, MailStays, ReaderStays, TypedStays
    <2> QED
      BY <1>1, <2>1, <2>2, <2>3
  <1>4. Fits'
    BY <1>1, <1>3 DEF Fits, Menus
  <1> QED
    BY <1>1, <1>2, <1>3, <1>4, PaletteStays, ServerStays, PrefsStay, ClosedIsLit, ShellFrom

LEMMA PressXFits ==
  ASSUME ShellInv, PressX
  PROVE  ShellInv'
  <1> DEFINE K == {n \in DOMAIN mail.list : mail.list[n] # mail.current}
  <1>1. /\ ~palette.open /\ menus' \in {{}, Kept} /\ reader' = FreshReader
        /\ mail' = [list |-> Picked(mail.list, K), current |-> NoMessage]
        /\ hist' = [hist EXCEPT !.quiet = FALSE]
        /\ UNCHANGED <<place, sel, typed, palette, inboxes, domain, prefs>>
    BY DEF PressX, Keys
  <1>2. Picked(mail.list, K) \in Seq(Message)
    <2>1. mail.list \in Seq(Message)
      BY DEF ShellInv, Shapes, MailOK
    <2>2. /\ Len(mail.list) \in Nat /\ K \subseteq 1 .. Len(mail.list)
          /\ \A n \in K : mail.list[n] \in Message
      BY <2>1
    <2> HIDE DEF K
    <2> QED
      BY <2>2, PickedType
  <1> HIDE DEF K
  <1>3. MailOK'
    BY <1>1, <1>2 DEF MailOK
  <1>4. ReaderOK' /\ reader'.tab # "atts" /\ ~reader'.extras
    BY <1>1, FreshReaderOK DEF ReaderOK, FreshReader
  <1>5. HistOK' /\ hist'.promised = hist.promised
    BY <1>1 DEF ShellInv, Shapes, HistOK
  <1>6. Fits'
    BY <1>1, <1>4, KeptFits DEF Fits
  <1> QED
    BY <1>1, <1>3, <1>4, <1>5, <1>6, PaletteStays, ServerStays, PrefsStay, TypedStays, MetStays,
       ClosedIsLit, ShellFrom

LEMMA SectionFits ==
  ASSUME ShellInv, Section
  PROVE  ShellInv'
  <1>1. PICK path \in {"landing", "section"} :
          /\ Goes(path)
          /\ hist' = [hist EXCEPT !.quiet = hist.quiet /\ place'.inbox = place.inbox]
    BY DEF Section
  <1>2. /\ ~palette.open /\ menus' \in {{}, Kept}
        /\ UNCHANGED <<sel, palette, inboxes, domain, prefs>>
    BY DEF Section, Keys
  <1>3. /\ PlaceOK' /\ MailOK' /\ ReaderOK' /\ typed' = NoText /\ reader' = FreshReader /\ Met'
    BY <1>1, GoesMeets
  <1>4. HistOK'
    BY <1>1 DEF ShellInv, Shapes, HistOK
  <1>5. Fits'
    BY <1>2, <1>3, KeptFits DEF Fits, FreshReader
  <1> QED
    BY <1>2, <1>3, <1>4, <1>5, PaletteStays, ServerStays, PrefsStay, KeysStayOK, ClosedIsLit,
       ShellFrom

(* The texts that are opened: what is generated, typed, found. *)
LEMMA OpeningFits ==
  ASSUME ShellInv, NEW t \in Seq(Piece), Opens(t, t), menus' \in {{}, Kept},
         UNCHANGED <<sel, inboxes, domain, prefs>>, PaletteOK', Lit'
  PROVE  ShellInv'
  <1>1. /\ PlaceOK' /\ MailOK' /\ ReaderOK' /\ HistOK' /\ typed' = NoText /\ Met'
        /\ reader'.tab = "atts" => mail'.current \in WithFiles
        /\ reader'.extras => mail'.current \in WithLinks
    BY OpensMeets
  <1>2. Fits'
    BY <1>1, KeptFits DEF Fits
  <1> QED
    BY <1>1, <1>2, ServerStays, PrefsStay, KeysStayOK, ShellFrom

LEMMA GeneratedText ==
  ASSUME ShellInv
  PROVE  Generated \in Seq(Piece)
  <1>1. <<"x", "@">> \in Seq(Piece)
    BY DEF Piece
  <1>2. domain \in Seq(Piece)
    BY DEF ShellInv, Shapes, ServerOK
  <1> QED
    BY <1>1, <1>2, Concatenated DEF Generated

LEMMA TypedText ==
  ASSUME ShellInv
  PROVE  Qualify(typed, domain) \in Seq(Piece)
  <1>1. typed \in Seq(Piece)
    BY ShellAssumption, EmptyTexts DEF ShellInv, Shapes, KeysOK
  <1>2. domain \in Seq(Piece)
    BY DEF ShellInv, Shapes, ServerOK
  <1> QED
    BY <1>1, <1>2, QualifiedTexts

LEMMA TypingFits ==
  ASSUME ShellInv, NEW t \in Text, TypeAddress(t)
  PROVE  ShellInv'
  <1>1. /\ ~palette.open /\ typed' = t
        /\ UNCHANGED <<place, mail, sel, palette, inboxes, domain, reader, menus, prefs, hist>>
    BY DEF TypeAddress, Keys
  <1> QED
    BY <1>1, MetStays, MailStays, KeysStayOK, PaletteStays, ServerStays, ReaderStays, PrefsStay,
       HistStays, FitStays, ClosedIsLit, ShellFrom

LEMMA ClicksFit ==
  ASSUME ShellInv, PressG \/ ClickNewAddress \/ OpenTyped
  PROVE  ShellInv'
  <1>1. /\ ~palette.open /\ menus' \in {{}, Kept}
        /\ UNCHANGED <<sel, palette, inboxes, domain, prefs>>
    BY DEF PressG, ClickNewAddress, OpenTyped, Keys
  <1>2. PICK t \in Seq(Piece) : Opens(t, t)
    BY GeneratedText, TypedText DEF PressG, ClickNewAddress, OpenTyped, newAddress
  <1> QED
    BY <1>1, <1>2, PaletteStays, ClosedIsLit, OpeningFits

LEMMA ClickMessageFits ==
  ASSUME ShellInv, NEW m \in Message, ClickMessage(m)
  PROVE  ShellInv'
  <1>1. /\ ~palette.open /\ Reads(m) /\ menus' = {}
        /\ UNCHANGED <<place, sel, typed, palette, inboxes, domain>>
    BY DEF ClickMessage, Keys
  <1>2. /\ MailOK' /\ ReaderOK' /\ PrefsOK' /\ HistOK' /\ hist'.promised = hist.promised
        /\ reader'.tab = "atts" => mail'.current \in WithFiles
        /\ reader'.extras => mail'.current \in WithLinks
    BY <1>1, ReadsKeep
  <1>3. Fits'
    BY <1>1, <1>2 DEF Fits, Menus
  <1> QED
    BY <1>1, <1>2, <1>3, PaletteStays, ServerStays, TypedStays, MetStays, ClosedIsLit, ShellFrom

(* The reader's tabs and links, the menus. *)
LEMMA ReaderFits ==
  ASSUME ShellInv,
         \/ \E t \in Tabs : PickTab(t)
         \/ ToggleExtras
         \/ \E m \in Menus : ToggleMenu(m)
  PROVE  ShellInv'
  <1>1. /\ ~palette.open
        /\ UNCHANGED <<place, mail, sel, typed, palette, inboxes, domain, prefs, hist>>
    BY DEF PickTab, ToggleExtras, ToggleMenu, Keys
  <1>2. ReaderOK' /\ Fits'
    <2>1. ASSUME NEW t \in Tabs, PickTab(t) PROVE ReaderOK' /\ Fits'
      <3>1. reader' = [reader EXCEPT !.tab = t] /\ menus' = {} /\ (t = "atts" => mail.current \in WithFiles)
        BY <2>1 DEF PickTab
      <3>2. ReaderOK' /\ reader'.tab = t /\ reader'.extras = reader.extras
        BY <3>1 DEF ShellInv, Shapes, ReaderOK
      <3> QED
        BY <1>1, <3>1, <3>2 DEF ShellInv, Fits, Menus
    <2>2. ASSUME ToggleExtras PROVE ReaderOK' /\ Fits'
      <3>1. reader' = [reader EXCEPT !.extras = ~reader.extras] /\ menus' = {} /\ mail.current \in WithLinks
        BY <2>2 DEF ToggleExtras
      <3>2. ReaderOK' /\ reader'.tab = reader.tab
        BY <3>1 DEF ShellInv, Shapes, ReaderOK
      <3> QED
        BY <1>1, <3>1, <3>2 DEF ShellInv, Fits, Menus
    <2>3. ASSUME NEW m \in Menus, ToggleMenu(m) PROVE ReaderOK' /\ Fits'
      <3>1. /\ menus' = {m} \ menus /\ reader' = reader
            /\ m = "reader" => place.path = "inbox" /\ mail.current # NoMessage
        BY <2>3 DEF ToggleMenu
      <3>2. menus' \subseteq {m}
        BY <3>1
      <3> QED
        BY <1>1, <3>1, <3>2, ReaderStays DEF ShellInv, Fits
    <2> QED
      BY <2>1, <2>2, <2>3
  <1> QED
    BY <1>1, <1>2, MailStays, PaletteStays, ServerStays, PrefsStay, HistStays, TypedStays, MetStays,
       ClosedIsLit, ShellFrom

LEMMA SettingType ==
  ASSUME ShellInv, NEW p \in Setting, prefs' = p
  PROVE  PrefsOK'
  <1>1. /\ prefs \in [theme : Themes, accent : Accents, images : BOOLEAN, auto : BOOLEAN,
                      read : Seq(Message)]
        /\ Len(prefs.read) <= ReadMax
    BY DEF ShellInv, Shapes, PrefsOK
  <1>2. CASE \E t \in Themes : p = [prefs EXCEPT !.theme = t]
    BY <1>1, <1>2 DEF PrefsOK
  <1>3. CASE \E a \in Accents : p = [prefs EXCEPT !.accent = a]
    BY <1>1, <1>3 DEF PrefsOK
  <1>4. CASE p = [prefs EXCEPT !.images = ~prefs.images] \/ p = [prefs EXCEPT !.auto = ~prefs.auto]
    BY <1>1, <1>4 DEF PrefsOK
  <1> QED
    BY <1>2, <1>3, <1>4 DEF Setting

LEMMA SettingFits ==
  ASSUME ShellInv, NEW p \in Setting, ChangeSetting(p)
  PROVE  ShellInv'
  <1>1. /\ ~palette.open /\ prefs' = p /\ menus' = {}
        /\ UNCHANGED <<place, mail, sel, typed, palette, inboxes, domain, reader, hist>>
    BY DEF ChangeSetting, Keys
  <1>2. PrefsOK'
    BY <1>1, SettingType
  <1>3. Fits'
    BY <1>1 DEF ShellInv, Fits
  <1> QED
    BY <1>1, <1>2, <1>3, MailStays, PaletteStays, ServerStays, ReaderStays, HistStays, TypedStays,
       MetStays, ClosedIsLit, ShellFrom

(* Loaded again: where the page had failed no inbox is open. *)
LEMMA ReloadFits ==
  ASSUME ShellInv, Reload
  PROVE  ShellInv'
  <1>1. /\ mail' = [list |-> <<>>, current |-> NoMessage]
        /\ place' = IF place.path = "inbox" THEN place ELSE [place EXCEPT !.inbox = NoText]
        /\ sel' = 0 /\ typed' = NoText /\ reader' = FreshReader /\ menus' = {}
        /\ palette' = [open |-> FALSE, q |-> NoText, active |-> 1]
        /\ inboxes' = <<>> /\ domain' = DefaultDomain
        /\ hist' = [hist EXCEPT !.quiet = FALSE] /\ UNCHANGED prefs
    BY DEF Reload
  <1>2. PlaceOK' /\ place'.path = place.path /\ (place.path = "inbox" => place' = place)
    BY <1>1, EmptyTexts DEF ShellInv, Shapes, PlaceOK
  <1>3. MailOK' /\ KeysOK' /\ PaletteOK'
    BY <1>1, EmptyTexts DEF MailOK, KeysOK, PaletteOK
  <1>4. ServerOK'
    <2>1. DefaultDomain \in Seq(Piece)
      BY DEF DefaultDomain, Piece
    <2> QED
      BY <1>1, <2>1, EmptyTexts DEF ServerOK
  <1>5. HistOK' /\ hist'.promised = hist.promised
    BY <1>1 DEF ShellInv, Shapes, HistOK
  <1>6. Met'
    BY <1>2, <1>5 DEF ShellInv, Met, OpensWhatItShows
  <1>7. ReaderOK' /\ Fits'
    BY <1>1, FreshReaderOK DEF ReaderOK, Fits, FreshReader, Menus
  <1>8. Lit'
    BY <1>1 DEF Lit
  <1> QED
    BY <1>1, <1>2, <1>3, <1>4, <1>5, <1>6, <1>7, <1>8, PrefsStay, ShellFrom

(* The palette: its commands change with what is typed and with nothing else
   that is done in it. *)
LEMMA PaletteFits ==
  ASSUME ShellInv, NEW p, palette' = p,
         UNCHANGED <<place, mail, sel, typed, inboxes, domain, reader, prefs, hist>>,
         menus' \in {{}, menus}, PaletteOK', Lit'
  PROVE  ShellInv'
  <1>1. Fits'
    BY DEF ShellInv, Fits
  <1> QED
    BY <1>1, MailStays, ServerStays, ReaderStays, PrefsStay, HistStays, TypedStays, MetStays, ShellFrom

LEMMA ShowFits ==
  ASSUME ShellInv, ShowPalette
  PROVE  ShellInv'
  <1>1. /\ palette' = [open |-> TRUE, q |-> NoText, active |-> 1]
        /\ UNCHANGED <<place, mail, sel, typed, inboxes, domain, reader, menus, prefs, hist>>
    BY DEF ShowPalette
  <1>2. PaletteOK' /\ palette'.active = 1
    BY <1>1 DEF PaletteOK
  <1> QED
    BY <1>1, <1>2, FirstIsLit, PaletteFits

LEMMA TermFits ==
  ASSUME ShellInv, NEW t \in Text, TypeTerm(t)
  PROVE  ShellInv'
  <1>1. /\ palette' = [[palette EXCEPT !.q = t] EXCEPT !.active = 1]
        /\ UNCHANGED <<place, mail, sel, typed, inboxes, domain, reader, menus, prefs, hist>>
    BY DEF TypeTerm, Palette, Highlights
  <1>2. PaletteOK' /\ palette'.active = 1
    <2> DEFINE Box == [open : BOOLEAN, q : Text \cup {NoText}, active : Nat \ {0}]
               p == [palette EXCEPT !.q = t]
    <2>1. p \in Box /\ palette' = [p EXCEPT !.active = 1]
      BY <1>1 DEF ShellInv, Shapes, PaletteOK
    <2> HIDE DEF p
    <2> QED
      BY <2>1 DEF PaletteOK
  <1> QED
    BY <1>1, <1>2, FirstIsLit, PaletteFits

(* The highlight is moved to a command. *)
LEMMA HighlightFits ==
  ASSUME ShellInv, NEW n \in DOMAIN flat, Palette([palette EXCEPT !.active = n])
  PROVE  ShellInv'
  <1>1. /\ palette' = [palette EXCEPT !.active = n]
        /\ UNCHANGED <<place, mail, sel, typed, inboxes, domain, reader, menus, prefs, hist>>
    BY DEF Palette
  <1>2. n \in Nat \ {0}
    <2>1. flat \in Seq(Entry)
      BY FlatType DEF ShellInv, Shapes
    <2> QED
      BY <2>1
  <1>3. PaletteOK' /\ palette'.active = n /\ palette'.q = palette.q
    BY <1>1, <1>2 DEF ShellInv, Shapes, PaletteOK
  <1>4. Lit'
    BY <1>1, <1>3, SameIsLit DEF SameCommands
  <1> QED
    BY <1>1, <1>3, <1>4, PaletteFits

(* The arrows wrap around. *)
LEMMA MoveFits ==
  ASSUME ShellInv, NEW d \in {1, -1}, Move(d)
  PROVE  ShellInv'
  <1> DEFINE n == 1 + ((palette.active - 1 + d + Len(flat)) % Len(flat))
  <1>1. flat # <<>> /\ Palette([palette EXCEPT !.active = n])
    BY DEF Move
  <1>2. n \in DOMAIN flat
    <2>1. flat \in Seq(Entry)
      BY FlatType DEF ShellInv, Shapes
    <2>2. Len(flat) \in Nat \ {0} /\ DOMAIN flat = 1 .. Len(flat)
      BY <1>1, <2>1, EmptySeq
    <2>3. palette.active \in Nat
      BY DEF ShellInv, Shapes, PaletteOK
    <2> DEFINE N == Len(flat)
               k == palette.active - 1 + d + Len(flat)
    <2>4. N \in Nat \ {0} /\ k \in Int
      BY <2>2, <2>3
    <2> HIDE DEF N, k
    <2>5. k % N \in 0 .. N - 1
      BY <2>4
    <2>6. 1 + (k % N) \in 1 .. N
      BY <2>4, <2>5
    <2> QED
      BY <2>2, <2>6 DEF N, k
  <1> HIDE DEF n
  <1> QED
    BY <1>1, <1>2, HighlightFits

LEMMA CloseFits ==
  ASSUME ShellInv, ClosePalette
  PROVE  ShellInv'
  <1>1. /\ palette' = [palette EXCEPT !.open = FALSE] /\ menus' = {}
        /\ UNCHANGED <<place, mail, sel, typed, inboxes, domain, reader, prefs, hist>>
    BY DEF ClosePalette
  <1>2. PaletteOK' /\ ~palette'.open
    BY <1>1 DEF ShellInv, Shapes, PaletteOK
  <1> QED
    BY <1>1, <1>2, ClosedIsLit, PaletteFits

(* A command runs. *)
LEMMA RunFits ==
  ASSUME ShellInv, Run
  PROVE  ShellInv'
  <1> DEFINE c == flat[palette.active]
             set == CASE c[2] = "theme" ->
                                [prefs EXCEPT !.theme = IF prefs.theme = "dark" THEN "light" ELSE "dark"]
                      [] c[2] = "images" -> [prefs EXCEPT !.images = ~prefs.images]
                      [] c[2] = "auto" -> [prefs EXCEPT !.auto = ~prefs.auto]
  <1>1. /\ palette.active \in DOMAIN flat
        /\ palette' = [[palette EXCEPT !.active = 1] EXCEPT !.open = FALSE]
        /\ menus' \in {{}, Kept} /\ UNCHANGED <<sel, inboxes, domain>>
        /\ \/ c[1] \in {"open", "inbox"} /\ Opens(c[2], c[2]) /\ UNCHANGED prefs
           \/ Opens(Generated, Generated) /\ UNCHANGED prefs
           \/ Goes("section") /\ UNCHANGED <<prefs, hist>>
           \/ /\ c[1] = "run" /\ c[2] \in {"theme", "images", "auto"}
              /\ prefs' = set
              /\ UNCHANGED <<place, mail, reader, typed, hist>>
           \/ UNCHANGED <<place, mail, reader, typed, prefs, hist>>
    BY DEF Run, Touched, Highlights, GenAddress
  <1>2. c \in Entry
    <2>1. flat \in Seq(Entry)
      BY FlatType DEF ShellInv, Shapes
    <2> QED
      BY <1>1, <2>1
  <1> HIDE DEF c, set
  <1>3. PaletteOK' /\ ~palette'.open
    <2> DEFINE Box == [open : BOOLEAN, q : Text \cup {NoText}, active : Nat \ {0}]
               p == [palette EXCEPT !.active = 1]
    <2>1. p \in Box /\ palette' = [p EXCEPT !.open = FALSE]
      BY <1>1 DEF ShellInv, Shapes, PaletteOK
    <2> HIDE DEF p
    <2> QED
      BY <2>1 DEF PaletteOK
  <1>4. Lit'
    BY <1>3, ClosedIsLit
  <1>5. CASE c[1] \in {"open", "inbox"} /\ Opens(c[2], c[2]) /\ UNCHANGED prefs
    <2>1. c[2] \in Seq(Piece)
      BY <1>2, <1>5, EntriesOpen
    <2> QED
      BY <1>1, <1>3, <1>4, <1>5, <2>1, OpeningFits
  <1>6. CASE Opens(Generated, Generated) /\ UNCHANGED prefs
    BY <1>1, <1>3, <1>4, <1>6, GeneratedText, OpeningFits
  <1>7. CASE Goes("section") /\ UNCHANGED <<prefs, hist>>
    <2>1. /\ PlaceOK' /\ MailOK' /\ ReaderOK' /\ typed' = NoText /\ reader' = FreshReader /\ Met'
      BY <1>7, GoesMeets
    <2>2. Fits'
      BY <1>1, <2>1, KeptFits DEF Fits, FreshReader
    <2> QED
      BY <1>1, <1>3, <1>4, <1>7, <2>1, <2>2, ServerStays, PrefsStay, HistStays, KeysStayOK, ShellFrom
  <1>8. CASE UNCHANGED <<place, mail, reader, typed, hist>> /\ PrefsOK'
    <2>1. Fits'
      BY <1>1, <1>8, KeptFits DEF ShellInv, Fits
    <2> QED
      BY <1>1, <1>3, <1>4, <1>8, <2>1, MailStays, ServerStays, ReaderStays, HistStays, TypedStays,
         MetStays, ShellFrom
  <1>9. CASE c[2] \in {"theme", "images", "auto"}
             /\ prefs' = set
             /\ UNCHANGED <<place, mail, reader, typed, hist>>
    <2>1. \E p \in Setting : prefs' = p
      <3>1. {"dark", "light"} \subseteq Themes
        BY DEF Themes
      <3>2. CASE c[2] = "theme"
        <4>1. set = [prefs EXCEPT !.theme = IF prefs.theme = "dark" THEN "light" ELSE "dark"]
          BY <3>2 DEF set
        <4> QED
          BY <1>9, <3>1, <4>1 DEF Setting
      <3>3. CASE c[2] = "images"
        <4>1. set = [prefs EXCEPT !.images = ~prefs.images]
          BY <3>3 DEF set
        <4> QED
          BY <1>9, <4>1 DEF Setting
      <3>4. CASE c[2] = "auto"
        <4>1. set = [prefs EXCEPT !.auto = ~prefs.auto]
          BY <3>4 DEF set
        <4> QED
          BY <1>9, <4>1 DEF Setting
      <3> QED
        BY <1>9, <3>2, <3>3, <3>4
    <2>2. PrefsOK'
      BY <2>1, SettingType
    <2> QED
      BY <1>8, <1>9, <2>2
  <1>10. CASE UNCHANGED <<place, mail, reader, typed, prefs, hist>>
    BY <1>8, <1>10, PrefsStay
  <1> QED
    BY <1>1, <1>5, <1>6, <1>7, <1>9, <1>10

(* What changes behind the user's back. *)
LEMMA InboxesFit ==
  ASSUME ShellInv, NEW new \in Inboxes, InboxesArrive(new)
  PROVE  ShellInv'
  <1>1. /\ inboxes' = IF inboxes = new THEN inboxes ELSE new
        /\ palette' = IF inboxes = new THEN palette ELSE [palette EXCEPT !.active = 1]
        /\ UNCHANGED <<place, mail, sel, typed, domain, reader, menus, prefs, hist>>
    BY DEF InboxesArrive, sameInboxes, Touched, Highlights
  <1>2. new \in Seq([inbox : Seq(Piece), message_count : Nat])
    BY ShellAssumption
  <1>3. ServerOK'
    BY <1>1, <1>2 DEF ShellInv, Shapes, ServerOK
  <1>4. PaletteOK' /\ (inboxes # new => palette'.active = 1)
    BY <1>1 DEF ShellInv, Shapes, PaletteOK
  <1>5. Lit'
    <2>1. CASE inboxes = new
      BY <1>1, <2>1, LitStays DEF SameCommands
    <2>2. CASE inboxes # new
      BY <1>3, <1>4, <2>2, FirstIsLit
    <2> QED
      BY <2>1, <2>2
  <1> QED
    BY <1>1, <1>3, <1>4, <1>5, MailStays, ReaderStays, PrefsStay, HistStays, TypedStays, FitStays,
       MetStays, ShellFrom

LEMMA ConfigFits ==
  ASSUME ShellInv, ConfigArrives
  PROVE  ShellInv'
  <1>1. /\ domain' = ServerDomain /\ palette' = [palette EXCEPT !.active = 1]
        /\ UNCHANGED <<place, mail, sel, typed, inboxes, reader, menus, prefs, hist>>
    BY DEF ConfigArrives, Touched, Highlights
  <1>2. ServerOK'
    <2>1. ServerDomain \in Seq(Piece)
      BY ShellAssumption
    <2> QED
      BY <1>1, <2>1 DEF ShellInv, Shapes, ServerOK
  <1>3. PaletteOK' /\ palette'.active = 1
    BY <1>1 DEF ShellInv, Shapes, PaletteOK
  <1>4. Lit'
    BY <1>2, <1>3, FirstIsLit
  <1> QED
    BY <1>1, <1>2, <1>3, <1>4, MailStays, ReaderStays, PrefsStay, HistStays, TypedStays, FitStays,
       MetStays, ShellFrom

LEMMA ListFits ==
  ASSUME ShellInv, NEW new \in Lists, ListArrives(new)
  PROVE  ShellInv'
  <1>1. /\ mail' = [mail EXCEPT !.list = new]
        /\ hist' = [hist EXCEPT !.quiet = sel = 0 \/ (hist.quiet /\ new = mail.list),
                                !.opened = IF sel = 0 THEN {} ELSE hist.opened]
        /\ UNCHANGED <<place, sel, typed, palette, inboxes, domain, reader, menus, prefs>>
    BY DEF ListArrives
  <1>2. new \in Seq(Message)
    BY ShellAssumption
  <1>3. MailOK' /\ mail'.current = mail.current
    BY <1>1, <1>2 DEF ShellInv, Shapes, MailOK
  <1>4. HistOK' /\ hist'.promised = hist.promised
    <2> DEFINE quiet == sel = 0 \/ (hist.quiet /\ new = mail.list)
               opened == IF sel = 0 THEN {} ELSE hist.opened
    <2>1. quiet \in BOOLEAN /\ opened \in SUBSET Message
      BY DEF ShellInv, Shapes, HistOK
    <2>2. hist' = [hist EXCEPT !.quiet = quiet, !.opened = opened]
      BY <1>1
    <2> HIDE DEF quiet, opened
    <2> QED
      BY <2>1, <2>2 DEF ShellInv, Shapes, HistOK
  <1>5. Lit'
    BY <1>1, LitStays DEF SameCommands
  <1> QED
    BY <1>1, <1>3, <1>4, <1>5, PaletteStays, ServerStays, ReaderStays, PrefsStay, TypedStays,
       FitStays, MetStays, ShellFrom

LEMMA WaitedTexts ==
  ASSUME ShellInv, NEW t \in Waited
  PROVE  t \in Seq(Piece)
  <1>1. CASE t = Normal(Generated)
    BY <1>1, GeneratedText, NormalIsTrimmed DEF Trimmed
  <1>2. CASE \E n \in DOMAIN inboxes : t = inboxes[n].inbox
    <2>1. PICK n \in DOMAIN inboxes : t = inboxes[n].inbox
      BY <1>2
    <2>2. inboxes \in Seq([inbox : Seq(Piece), message_count : Nat])
      BY DEF ShellInv, Shapes, ServerOK
    <2>3. inboxes[n] \in [inbox : Seq(Piece), message_count : Nat]
      <3>1. n \in 1 .. Len(inboxes)
        BY <2>1, <2>2
      <3> QED
        BY <2>2, <3>1, ElementOfSeq
    <2> QED
      BY <2>1, <2>3
  <1> QED
    BY <1>1, <1>2 DEF Waited

LEMMA EnteredFits ==
  ASSUME ShellInv, InboxEntered
  PROVE  ShellInv'
  <1>1. /\ menus' = Kept
        /\ palette' = IF place'.inbox = place.inbox THEN palette ELSE [palette EXCEPT !.active = 1]
        /\ UNCHANGED <<sel, inboxes, domain, prefs>>
    BY DEF InboxEntered, Touched, Highlights
  <1>2. PICK t \in Waited : Opens(t, t)
    BY DEF InboxEntered
  <1>3. PaletteOK' /\ (place'.inbox # place.inbox => palette'.active = 1)
    BY <1>1 DEF ShellInv, Shapes, PaletteOK
  <1>4. Lit'
    <2>1. CASE place'.inbox = place.inbox
      BY <1>1, <2>1, LitStays DEF SameCommands
    <2>2. CASE place'.inbox # place.inbox
      BY <1>1, <1>3, <2>2, FirstIsLit
    <2> QED
      BY <2>1, <2>2
  <1>5. t \in Seq(Piece)
    BY WaitedTexts
  <1> QED
    BY <1>1, <1>2, <1>3, <1>4, <1>5, OpeningFits

LEMMA ShellStays == ShellInv /\ [Next]_vars => ShellInv'
  <1> SUFFICES ASSUME ShellInv, [Next]_vars PROVE ShellInv'
    OBVIOUS
  <1>1. ASSUME UNCHANGED vars PROVE ShellInv'
    <2>1. /\ UNCHANGED <<place, mail, sel, typed, palette, inboxes, domain, reader, menus, prefs>>
          /\ UNCHANGED hist
      BY <1>1 DEF vars
    <2>2. Lit'
      BY <2>1, LitStays DEF SameCommands
    <2> QED
      BY <2>1, <2>2, MailStays, PaletteStays, ServerStays, ReaderStays, PrefsStay, HistStays,
         TypedStays, FitStays, MetStays, ShellFrom
  <1>2. ASSUME PressJ \/ PressK \/ PressEnter PROVE ShellInv'
    BY <1>2, OpenAtFits DEF PressJ, PressK, PressEnter
  <1>3. ASSUME Move(1) \/ Move(-1) PROVE ShellInv'
    BY <1>3, MoveFits
  <1>4. ASSUME NEW n \in DOMAIN flat, Hover(n) PROVE ShellInv'
    BY <1>4, HighlightFits DEF Hover
  <1> QED
    BY <1>1, <1>2, <1>3, <1>4, EscapeFits, PressXFits, SectionFits, ClicksFit, TypingFits, TermFits,
       ClickMessageFits, ReaderFits, SettingFits, ReloadFits, ShowFits, CloseFits, RunFits,
       InboxesFit, ConfigFits, ListFits, EnteredFits DEF Next

LEMMA ShellStarts == Init => ShellInv
  <1> SUFFICES ASSUME Init PROVE ShellInv
    OBVIOUS
  <1>0. /\ sel = 0 /\ typed = NoText /\ reader = FreshReader /\ menus = {}
        /\ palette = [open |-> FALSE, q |-> NoText, active |-> 1]
        /\ inboxes \in Inboxes /\ domain = DefaultDomain
        /\ prefs = [theme |-> "dark", accent |-> "neutral", images |-> FALSE, auto |-> TRUE,
                    read |-> <<>>]
        /\ hist = [promised |-> place.inbox, opened |-> {}, quiet |-> TRUE]
        /\ \/ place = [path |-> "landing", inbox |-> NoText]
              /\ mail = [list |-> <<>>, current |-> NoMessage]
           \/ /\ place = [path |-> "inbox", inbox |-> Normal(<<"x", "@">> \o ServerDomain)]
              /\ \E l \in Lists : mail = [list |-> l, current |-> NoMessage]
    BY DEF Init
  <1> DEFINE first == Normal(<<"x", "@">> \o ServerDomain)
  <1>1. first \in Seq(Piece) /\ Normal(first) = first
    <2>1. <<"x", "@">> \in Seq(Piece)
      BY DEF Piece
    <2>2. ServerDomain \in Seq(Piece)
      BY ShellAssumption
    <2>3. <<"x", "@">> \o ServerDomain \in Seq(Piece)
      BY <2>1, <2>2, Concatenated
    <2>4. Trimmed(first)
      BY <2>3, NormalIsTrimmed
    <2> QED
      BY <2>4, NormalOfTrimmed DEF Trimmed
  <1> HIDE DEF first
  <1>2. \/ place = [path |-> "landing", inbox |-> <<>>]
        \/ place = [path |-> "inbox", inbox |-> first]
    BY <1>0 DEF first
  <1>3. PlaceOK /\ place.inbox \in Seq(Piece)
    <2>1. <<>> \in Seq(Piece)
      BY EmptyTexts
    <2>2. \E path \in {"landing", "inbox"}, a \in Seq(Piece) : place = [path |-> path, inbox |-> a]
      BY <1>1, <1>2, <2>1
    <2> QED
      BY <2>2 DEF PlaceOK
  <1>4. MailOK
    <2>1. \A l \in Lists : l \in Seq(Message)
      BY ShellAssumption
    <2>2. <<>> \in Seq(Message)
      BY EmptyTexts
    <2>3. PICK l \in Seq(Message) : mail = [list |-> l, current |-> 0]
      BY <1>0, <2>1, <2>2
    <2> QED
      BY <2>3 DEF MailOK
  <1>5. KeysOK /\ PaletteOK
    BY <1>0 DEF KeysOK, PaletteOK
  <1>6. ServerOK
    <2>1. DefaultDomain \in Seq(Piece)
      BY DEF DefaultDomain, Piece
    <2>2. inboxes \in Seq([inbox : Seq(Piece), message_count : Nat])
      BY <1>0, ShellAssumption
    <2> QED
      BY <1>0, <2>1, <2>2 DEF ServerOK
  <1>7. ReaderOK /\ Fits
    BY <1>0, FreshReaderOK DEF ReaderOK, Fits, FreshReader, Menus
  <1>8. PrefsOK
    <2>1. Len(<<>>) <= ReadMax
      BY ShellAssumption
    <2> QED
      BY <1>0, <2>1, EmptyTexts DEF PrefsOK, Themes, Accents
  <1>9. HistOK /\ hist.promised = place.inbox
    BY <1>0, <1>3 DEF HistOK
  <1>10. Met
    <2>1. place.path = "inbox" => place.inbox = first
      BY <1>2
    <2>2. place.path # "failed"
      BY <1>2
    <2> QED
      BY <1>1, <1>9, <2>1, <2>2 DEF Met, OpensWhatItShows
  <1>11. Lit
    BY <1>0 DEF Lit
  <1> QED
    BY <1>3, <1>4, <1>5, <1>6, <1>7, <1>8, <1>9, <1>10, <1>11 DEF ShellInv, Shapes

LEMMA ShellTypes == ShellInv => TypeOK
  <1> SUFFICES ASSUME ShellInv PROVE TypeOK
    OBVIOUS
  <1>1. /\ place.path \in {"landing", "inbox", "section", "failed"}
        /\ mail.current \in Message \cup {NoMessage} /\ mail.list \in Seq(Message)
    BY DEF ShellInv, Shapes, PlaceOK, MailOK
  <1>2. sel \in Nat /\ palette.active \in Nat \ {0} /\ palette.q \in Text \cup {NoText}
    BY DEF ShellInv, Shapes, KeysOK, PaletteOK
  <1>3. reader \in [tab : Tabs, extras : BOOLEAN]
    BY DEF ShellInv, Shapes, ReaderOK
  <1>4. /\ prefs \in [theme : Themes, accent : Accents, images : BOOLEAN, auto : BOOLEAN,
                      read : Seq(Message)]
        /\ Len(prefs.read) <= ReadMax
    BY DEF ShellInv, Shapes, PrefsOK
  <1>5. PICK m \in Menus : menus \subseteq {m}
    BY DEF ShellInv, Fits
  <1>6. menus \subseteq Menus /\ Cardinality(menus) <= 1
    <2>1. menus = {} \/ menus = {m}
      BY <1>5
    <2>2. Cardinality({}) = 0 /\ Cardinality({m}) = 1
      BY FS_EmptySet, FS_Singleton
    <2> QED
      BY <1>5, <2>1, <2>2
  <1>7. palette.open /\ flat # <<>> => palette.active \in DOMAIN flat
    <2>1. flat \in Seq(Entry)
      BY FlatType DEF ShellInv, Shapes
    <2>2. flat # <<>> => 1 \in DOMAIN flat
      BY <2>1, EmptySeq
    <2> QED
      BY <2>2 DEF ShellInv, Lit
  <1> QED
    BY <1>1, <1>2, <1>3, <1>4, <1>6, <1>7 DEF ShellInv, Fits, TypeOK

(* What is on the screen fits together, whatever the user does and whatever
   arrives: no attachments tab without attachments, never two menus open, the
   reader's never without a message, and Enter in the palette always has a
   command to run when any is listed. *)
THEOREM ShellTypeCorrect == Spec => []TypeOK
  <1> QED
    BY ShellStarts, ShellStays, ShellTypes, PTL DEF Spec

(* While the user keeps still what changes is told to the palette by the
   watches, and the rest leaves its commands alone. *)
LEMMA HighlightHolds ==
  ASSUME KeysInv, ShellInv, [Next]_vars, palette.open, count'.acts = count.acts
  PROVE  \/ palette'.active = 1
         \/ /\ palette.active \in DOMAIN flat /\ palette'.active \in DOMAIN flat'
            /\ flat'[palette'.active] = flat[palette.active]
  <1>1. \/ \E new \in Inboxes : InboxesArrive(new)
        \/ \E new \in Lists : ListArrives(new)
        \/ ConfigArrives \/ InboxEntered \/ UNCHANGED vars
    <2>1. ~UserActs
      BY ActsAreCounted
    <2> QED
      BY <2>1 DEF Next, PressJ, PressK, PressEnter, PressEscape, PressX, PressG, Section, OpenAt,
         TypeAddress, TypeTerm, ClickMessage, PickTab, ToggleMenu, ChangeSetting, OpenTyped,
         ClickNewAddress, ToggleExtras, Reload, ShowPalette, Move, ClosePalette, Run, Hover,
         Palette, Keys
  <1>2. CASE palette' = Touched
    <2>1. palette'.active = 1
      BY <1>2 DEF Touched, Highlights, ShellInv, Shapes, PaletteOK
    <2> QED
      BY <2>1
  <1>3. CASE SameCommands /\ palette' = palette
    <2>1. palette' = palette /\ flat' = flat
      BY <1>3, CommandsStay
    <2>2. palette.active = 1 \/ palette.active \in DOMAIN flat
      BY DEF ShellInv, Lit
    <2> QED
      BY <2>1, <2>2
  <1>4. (SameCommands /\ palette' = palette) \/ palette' = Touched
    BY <1>1 DEF SameCommands, InboxesArrive, ListArrives, ConfigArrives, InboxEntered, vars
  <1> QED
    BY <1>2, <1>3, <1>4

(* Whatever arrives while the palette is open, Enter runs the command that the
   user sees highlighted, or the first: no answer of the server moves the
   highlight to another, or past the end of the list. *)
THEOREM HighlightStays == Spec => HighlightNeverSlips
  <1>1. KeysInv /\ ShellInv /\ [Next]_vars =>
          [palette.open /\ count'.acts = count.acts =>
             \/ palette'.active = 1
             \/ /\ palette.active \in DOMAIN flat /\ palette'.active \in DOMAIN flat'
                /\ flat'[palette'.active] = flat[palette.active]]_vars
    BY HighlightHolds
  <1> QED
    BY <1>1, KeysStart, KeysStay, ShellStarts, ShellStays, PTL DEF Spec, HighlightNeverSlips

(* The inbox that opens is the one that was shown, from the landing page, the
   palette, its list or a generated name: completing the address, encoding it
   into the path, decoding it in the router and once more in the page lead to
   the same inbox for every text without a percent sign. *)
THEOREM OpensTheShown == Spec => []OpensWhatItShows
  <1>1. ShellInv => OpensWhatItShows
    BY DEF ShellInv, Met
  <1> QED
    BY <1>1, ShellStarts, ShellStays, PTL DEF Spec
=============================================================================

-------------------------- MODULE WebSessionProofs --------------------------
(***************************************************************************)
(* TLAPS proofs about WebSession, for every set of users and destinations  *)
(* and every bound on keys, calls, acts and mishaps: whichever calls       *)
(* overtake each other, user, token and browser storage stay together, and *)
(* the account pages list what belongs to the owner of the token.          *)
(***************************************************************************)
EXTENDS WebSession, SequenceTheorems, TLAPS

(* The strengthening that makes SessionIsWhole and ListsAreOwn inductive *)

AnyRow == [at : Nat, is : Entry]
CallArg == User \cup Nat \cup Scope \cup (SUBSET Dest) \cup AnyRow
CallAns == Nat \cup (SUBSET Nat) \cup (SUBSET AnyRow)
Kind == {"status", "setup", "login", "keys", "mkkey", "rmkey", "addrs"} \cup Changes
Form == Forms \cup {""}
CallState ==
  [kind : Kind, token : Nat, arg : CallArg, form : Form, key : CallAns,
   stale : BOOLEAN, late : BOOLEAN, served : BOOLEAN, ok : BOOLEAN, ans : CallAns]
SessionState ==
  [checked : BOOLEAN, needsSetup : BOOLEAN, user : User \cup {NoUser}, token : Nat,
   keys : SUBSET Nat, addresses : SUBSET AnyRow, signinOpen : BOOLEAN]

SessionHistory ==
  [oldKeys : BOOLEAN, oldBook : BOOLEAN, pasted : BOOLEAN, behind : BOOLEAN,
   doubt : SUBSET Nat, want : Seq(Entry)]

(* What is asked with a call. *)
ArgFits(kind, arg) ==
  /\ kind = "mkkey" => arg \in Scope
  /\ kind = "reserve" => arg \in SUBSET Dest
  /\ kind \in Edits => arg \in AnyRow

(* What a call says, where keys are issued to iss and the session's token is t:
   a login brings a key of the one who logs in, a load what its token's owner
   has, and only a stale load has another token than the session. *)
CallIsSound(c, iss, t) ==
  /\ c.kind \in {"setup", "login"} =>
       /\ c.arg \in User
       /\ c.served /\ c.ok => c.ans \in DOMAIN iss /\ iss[c.ans] = c.arg
  /\ ArgFits(c.kind, c.arg)
  /\ c.kind \in {"keys", "addrs"} /\ c.served /\ c.ok => c.token \in DOMAIN iss
  /\ c.kind = "keys" /\ c.served /\ c.ok =>
       c.ans \subseteq DOMAIN iss /\ \A k \in c.ans : iss[k] = iss[c.token]
  /\ c.kind = "addrs" /\ c.served /\ c.ok =>
       c.ans \in SUBSET AnyRow /\ \A r \in c.ans : r.is.of = iss[c.token]
  /\ c.kind \in {"keys", "addrs"} /\ ~c.stale => c.token = t

CallsAreSound(cs, iss, t) ==
  cs \in Seq(CallState) /\ \A n \in DOMAIN cs : CallIsSound(cs[n], iss, t)

Types ==
  /\ issued \in Seq(User) /\ scopes \in Seq(Scope) /\ Len(scopes) = Len(issued)
  /\ book \in Seq(Entry)
  /\ st \in SessionState /\ st.keys \subseteq DOMAIN issued
  /\ hist \in SessionHistory

IInv ==
  /\ Types
  /\ CallsAreSound(calls, issued, st.token)
  /\ SessionIsWhole /\ ListsAreOwn

---------------------------------------------------------------------------
(* The two ways a list of calls is built. *)
LEMMA AppendIsSound ==
  ASSUME NEW cs, NEW iss, NEW t, NEW c,
         CallsAreSound(cs, iss, t), c \in CallState, CallIsSound(c, iss, t)
  PROVE  CallsAreSound(Append(cs, c), iss, t)
<1>1. cs \in Seq(CallState) /\ \A n \in DOMAIN cs : CallIsSound(cs[n], iss, t)
  BY DEF CallsAreSound
<1> DEFINE new == Append(cs, c)
<1>2. /\ new \in Seq(CallState)
      /\ Len(new) = Len(cs) + 1
      /\ \A n \in DOMAIN new : new[n] = IF n = Len(cs) + 1 THEN c ELSE cs[n]
      /\ DOMAIN new = 1 .. Len(cs) + 1 /\ DOMAIN cs = 1 .. Len(cs) /\ Len(cs) \in Nat
  BY <1>1
<1>3. \A n \in DOMAIN new : n = Len(cs) + 1 \/ n \in DOMAIN cs
  BY <1>2
<1>4. \A n \in DOMAIN new : CallIsSound(new[n], iss, t)
  BY <1>1, <1>2, <1>3
<1> QED BY <1>2, <1>4 DEF CallsAreSound

(* The place in a list that its k-th call had before the n-th was taken out. *)
Before(k, n) == IF k < n THEN k ELSE k + 1

LEMMA RestOf ==
  ASSUME NEW cs \in Seq(CallState), NEW n \in DOMAIN cs
  PROVE  /\ RemoveAt(cs, n) \in Seq(CallState)
         /\ Len(RemoveAt(cs, n)) = Len(cs) - 1 /\ Len(cs) \in Nat
         /\ \A k \in DOMAIN RemoveAt(cs, n) :
              /\ Before(k, n) \in DOMAIN cs \ {n}
              /\ RemoveAt(cs, n)[k] = cs[Before(k, n)]
         /\ \A j, k \in DOMAIN RemoveAt(cs, n) : Before(j, n) = Before(k, n) => j = k
         /\ \A j \in DOMAIN cs \ {n} : \E k \in DOMAIN RemoveAt(cs, n) : j = Before(k, n)
<1> DEFINE new == RemoveAt(cs, n)
           L == Len(cs)
           front == SubSeq(cs, 1, n - 1)
           back == SubSeq(cs, n + 1, L)
<1>1. L \in Nat /\ DOMAIN cs = 1 .. L /\ n \in 1 .. L
  OBVIOUS
<1>2. /\ front \in Seq(CallState) /\ Len(front) = n - 1
      /\ \A k \in 1 .. n - 1 : front[k] = cs[k]
  BY <1>1
<1>3. /\ back \in Seq(CallState) /\ Len(back) = L - n
      /\ \A k \in 1 .. L - n : back[k] = cs[k + n]
  BY <1>1
<1>4. new = front \o back
  BY DEF RemoveAt
<1> HIDE DEF front, back, new, L
<1>5. new \in Seq(CallState) /\ Len(new) = Len(front) + Len(back)
  BY <1>2, <1>3, <1>4, ConcatProperties
<1>6. Len(new) = L - 1 /\ DOMAIN new = 1 .. L - 1
  BY <1>1, <1>2, <1>3, <1>5
<1>7. ASSUME NEW k \in 1 .. L - 1
      PROVE  Before(k, n) \in (1 .. L) \ {n} /\ new[k] = cs[Before(k, n)]
  <2>1. CASE k \in 1 .. n - 1
    BY <1>1, <1>2, <1>3, <1>4, <2>1 DEF Before
  <2>2. CASE k \notin 1 .. n - 1
    <3>1. k - (n - 1) \in 1 .. L - n /\ (k - (n - 1)) + n = k + 1 /\ ~(k < n)
      BY <1>1, <2>2
    <3>2. new[k] = IF k <= Len(front) THEN front[k] ELSE back[k - Len(front)]
      <4>1. k \in 1 .. Len(front) + Len(back)
        BY <1>1, <1>2, <1>3
      <4> QED BY <1>2, <1>3, <1>4, <4>1, ConcatProperties
    <3>3. ~(k <= Len(front)) /\ k - Len(front) = k - (n - 1)
      BY <1>1, <1>2, <2>2
    <3>4. new[k] = cs[k + 1]
      BY <1>3, <3>1, <3>2, <3>3
    <3>5. Before(k, n) = k + 1
      BY <3>1 DEF Before
    <3>6. k + 1 \in 1 .. L /\ k + 1 # n
      BY <1>1, <2>2
    <3> QED BY <3>4, <3>5, <3>6
  <2> QED BY <2>1, <2>2
<1>8. \A j, k \in 1 .. L - 1 : Before(j, n) = Before(k, n) => j = k
  BY <1>1 DEF Before
<1>9. ASSUME NEW j \in (1 .. L) \ {n} PROVE \E k \in 1 .. L - 1 : j = Before(k, n)
  <2>1. CASE j < n
    <3>1. j \in 1 .. L - 1 /\ j = Before(j, n)
      BY <1>1, <2>1 DEF Before
    <3> QED BY <3>1
  <2>2. CASE ~(j < n)
    <3>1. j - 1 \in 1 .. L - 1 /\ j = Before(j - 1, n)
      BY <1>1, <2>2 DEF Before
    <3> QED BY <3>1
  <2> QED BY <2>1, <2>2
<1>10. DOMAIN new = 1 .. L - 1 /\ DOMAIN cs = 1 .. L
  BY <1>1, <1>6
<1>11. /\ \A k \in DOMAIN new : Before(k, n) \in DOMAIN cs \ {n} /\ new[k] = cs[Before(k, n)]
       /\ \A j, k \in DOMAIN new : Before(j, n) = Before(k, n) => j = k
       /\ \A j \in DOMAIN cs \ {n} : \E k \in DOMAIN new : j = Before(k, n)
  BY <1>7, <1>8, <1>9, <1>10
<1>12. Len(new) = Len(cs) - 1 /\ Len(cs) \in Nat
  BY <1>1, <1>6 DEF L
<1> QED BY <1>5, <1>11, <1>12 DEF new

LEMMA RestIsSound ==
  ASSUME NEW cs, NEW iss, NEW t, NEW n \in DOMAIN cs, CallsAreSound(cs, iss, t)
  PROVE  CallsAreSound(RemoveAt(cs, n), iss, t)
<1>1. cs \in Seq(CallState) /\ \A k \in DOMAIN cs : CallIsSound(cs[k], iss, t)
  BY DEF CallsAreSound
<1> DEFINE new == RemoveAt(cs, n)
<1>2. /\ new \in Seq(CallState)
      /\ \A k \in DOMAIN new : Before(k, n) \in DOMAIN cs /\ new[k] = cs[Before(k, n)]
  BY <1>1, RestOf
<1> HIDE DEF new
<1>3. \A k \in DOMAIN new : CallIsSound(new[k], iss, t)
  BY <1>1, <1>2
<1> QED BY <1>2, <1>3 DEF CallsAreSound, new

(* Calls that are changed each by itself. *)
LEMMA MappedIsSound ==
  ASSUME NEW cs, NEW new, NEW iss, NEW t, cs \in Seq(CallState), DOMAIN new = DOMAIN cs,
         new = [n \in DOMAIN new |-> new[n]],
         \A n \in DOMAIN cs : new[n] \in CallState /\ CallIsSound(new[n], iss, t)
  PROVE  CallsAreSound(new, iss, t)
<1>1. DOMAIN cs = 1 .. Len(cs) /\ Len(cs) \in Nat
  OBVIOUS
<1>2. new \in [1 .. Len(cs) -> CallState]
  BY <1>1
<1>3. new \in Seq(CallState)
  BY <1>1, <1>2, SeqDef
<1> QED BY <1>3 DEF CallsAreSound

(* A form that is gone changes nothing of what the calls say. *)
LEMMA UnmountedIsSound ==
  ASSUME NEW cs, NEW iss, NEW t, NEW forms, CallsAreSound(cs, iss, t)
  PROVE  CallsAreSound(Unmounts(forms, cs), iss, t)
<1> DEFINE new == Unmounts(forms, cs)
<1>1. cs \in Seq(CallState) /\ \A n \in DOMAIN cs : CallIsSound(cs[n], iss, t)
  BY DEF CallsAreSound
<1>2. DOMAIN new = DOMAIN cs /\ new = [n \in DOMAIN new |-> new[n]]
  BY DEF Unmounts
<1>3. ASSUME NEW n \in DOMAIN cs
      PROVE  new[n] \in CallState /\ CallIsSound(new[n], iss, t)
  <2>1. cs[n] \in CallState /\ CallIsSound(cs[n], iss, t)
    BY <1>1
  <2>2. "" \in Form /\ 0 \in CallAns
    BY DEF CallAns, Form
  <2>3. CASE cs[n].form \in forms
    <3>1. new[n] = [cs[n] EXCEPT !.form = "", !.key = 0]
      BY <2>3 DEF Unmounts
    <3>2. new[n] \in CallState
      BY <2>1, <2>2, <3>1 DEF CallState
    <3>3. /\ new[n].kind = cs[n].kind /\ new[n].arg = cs[n].arg /\ new[n].token = cs[n].token
          /\ new[n].stale = cs[n].stale /\ new[n].served = cs[n].served
          /\ new[n].ok = cs[n].ok /\ new[n].ans = cs[n].ans
      BY <2>1, <3>1 DEF CallState
    <3> QED BY <2>1, <3>2, <3>3 DEF CallIsSound
  <2>4. CASE cs[n].form \notin forms
    BY <2>1, <2>4 DEF Unmounts
  <2> QED BY <2>3, <2>4
<1> QED BY <1>1, <1>2, <1>3, MappedIsSound

(* In a new session the calls under way are stale, whatever its token is. *)
LEMMA NewSessionIsSound ==
  ASSUME NEW cs, NEW iss, NEW t, NEW u, CallsAreSound(cs, iss, t)
  PROVE  CallsAreSound(NewSession(cs), iss, u)
<1> DEFINE new == NewSession(cs)
<1>1. cs \in Seq(CallState) /\ \A n \in DOMAIN cs : CallIsSound(cs[n], iss, t)
  BY DEF CallsAreSound
<1>2. DOMAIN new = DOMAIN cs /\ new = [n \in DOMAIN new |-> new[n]]
  BY DEF NewSession
<1>3. ASSUME NEW n \in DOMAIN cs
      PROVE  new[n] \in CallState /\ CallIsSound(new[n], iss, u)
  <2>1. cs[n] \in CallState /\ CallIsSound(cs[n], iss, t)
    BY <1>1
  <2>2. CASE cs[n].kind \in {"keys", "addrs"}
    <3>1. new[n] = [cs[n] EXCEPT !.stale = TRUE]
      BY <2>2 DEF NewSession
    <3>2. new[n] \in CallState
      BY <2>1, <3>1 DEF CallState
    <3>3. /\ new[n].kind = cs[n].kind /\ new[n].arg = cs[n].arg /\ new[n].token = cs[n].token
          /\ new[n].stale /\ new[n].served = cs[n].served
          /\ new[n].ok = cs[n].ok /\ new[n].ans = cs[n].ans
      BY <2>1, <3>1 DEF CallState
    <3> QED BY <2>1, <3>2, <3>3 DEF CallIsSound
  <2>3. CASE cs[n].kind \notin {"keys", "addrs"}
    BY <2>1, <2>3 DEF NewSession, CallIsSound
  <2> QED BY <2>2, <2>3
<1> QED BY <1>1, <1>2, <1>3, MappedIsSound

(* That an answer is late says nothing else of it. *)
LEMMA LateIsSound ==
  ASSUME NEW cs, NEW iss, NEW t, NEW m, CallsAreSound(cs, iss, t)
  PROVE  CallsAreSound(LateUpTo(cs, m), iss, t)
<1> DEFINE new == LateUpTo(cs, m)
<1>1. cs \in Seq(CallState) /\ \A n \in DOMAIN cs : CallIsSound(cs[n], iss, t)
  BY DEF CallsAreSound
<1>2. DOMAIN new = DOMAIN cs /\ new = [n \in DOMAIN new |-> new[n]]
  BY DEF LateUpTo
<1>3. ASSUME NEW n \in DOMAIN cs
      PROVE  new[n] \in CallState /\ CallIsSound(new[n], iss, t)
  <2>1. cs[n] \in CallState /\ CallIsSound(cs[n], iss, t)
    BY <1>1
  <2>2. new[n] = cs[n] \/ new[n] = [cs[n] EXCEPT !.late = TRUE]
    BY DEF LateUpTo
  <2>3. new[n] \in CallState
    BY <2>1, <2>2 DEF CallState
  <2>4. /\ new[n].kind = cs[n].kind /\ new[n].arg = cs[n].arg /\ new[n].token = cs[n].token
        /\ new[n].stale = cs[n].stale /\ new[n].served = cs[n].served
        /\ new[n].ok = cs[n].ok /\ new[n].ans = cs[n].ans
    BY <2>1, <2>2 DEF CallState
  <2> QED BY <2>1, <2>3, <2>4 DEF CallIsSound
<1> QED BY <1>1, <1>2, <1>3, MappedIsSound

(* Another key takes nothing from what the calls say of the others. *)
LEMMA MintedIsSound ==
  ASSUME NEW cs, NEW iss, NEW t, NEW u, iss \in Seq(User), u \in User, CallsAreSound(cs, iss, t)
  PROVE  CallsAreSound(cs, Append(iss, u), t)
<1> DEFINE new == Append(iss, u)
<1>1. DOMAIN iss \subseteq DOMAIN new /\ \A k \in DOMAIN iss : new[k] = iss[k]
  OBVIOUS
<1> HIDE DEF new
<1>2. \A n \in DOMAIN cs : CallIsSound(cs[n], iss, t) => CallIsSound(cs[n], new, t)
  BY <1>1 DEF CallIsSound
<1> QED BY <1>2 DEF CallsAreSound, new

(* A call as it is sent. *)
LEMMA CallIsNew ==
  ASSUME NEW kind \in Kind, NEW t \in Nat, NEW arg \in CallArg, NEW form \in Form,
         NEW key \in CallAns, NEW iss,
         kind \in {"setup", "login"} => arg \in User, ArgFits(kind, arg)
  PROVE  /\ Call(kind, t, arg, form, key) \in CallState
         /\ CallIsSound(Call(kind, t, arg, form, key), iss, t)
<1> DEFINE c == Call(kind, t, arg, form, key)
<1>1. /\ c.kind = kind /\ c.token = t /\ c.arg = arg /\ c.form = form /\ c.key = key
      /\ c.stale = FALSE /\ c.late = FALSE /\ c.served = FALSE /\ c.ok = FALSE /\ c.ans = 0
  BY DEF Call
<1>2. 0 \in CallAns
  BY DEF CallAns
<1>3. c \in CallState
  BY <1>2 DEF Call, CallState
<1>4. CallIsSound(c, iss, t)
  BY <1>1 DEF CallIsSound
<1> QED BY <1>3, <1>4

(* Sending one, and the loads of the two lists. *)
LEMMA SentIsSound ==
  ASSUME NEW cs, NEW iss, NEW kind \in Kind, NEW t \in Nat, NEW arg \in CallArg,
         NEW form \in Form, NEW key \in CallAns, CallsAreSound(cs, iss, t),
         kind \in {"setup", "login"} => arg \in User,
         ArgFits(kind, arg)
  PROVE  CallsAreSound(Append(cs, Call(kind, t, arg, form, key)), iss, t)
BY CallIsNew, AppendIsSound

LEMMA LoadIsSound ==
  ASSUME NEW s, NEW cs, NEW iss, NEW form \in Form, NEW key \in CallAns,
         s.token \in Nat, CallsAreSound(cs, iss, s.token)
  PROVE  /\ CallsAreSound(LoadKeys(s, cs, form, key), iss, s.token)
         /\ CallsAreSound(LoadAddresses(s, cs, form), iss, s.token)
<1>1. 0 \in CallArg /\ 0 \in CallAns
  BY DEF CallArg, CallAns
<1> /\ "keys" \in Kind /\ "addrs" \in Kind
    /\ ArgFits("keys", 0) /\ ArgFits("addrs", 0)
  BY DEF Kind, ArgFits, Edits
<1>2. CallsAreSound(Append(cs, Call("keys", s.token, 0, form, key)), iss, s.token)
  BY <1>1, SentIsSound
<1>3. CallsAreSound(Append(cs, Call("addrs", s.token, 0, form, 0)), iss, s.token)
  BY <1>1, SentIsSound
<1> QED BY <1>2, <1>3 DEF LoadKeys, LoadAddresses

LEMMA MountIsSound ==
  ASSUME NEW s, NEW cs, NEW iss, NEW page, s.token \in Nat, CallsAreSound(cs, iss, s.token)
  PROVE  CallsAreSound(Mounts(s, cs, page), iss, s.token)
<1>1. "" \in Form /\ 0 \in CallAns
  BY DEF Form, CallAns
<1>2. /\ CallsAreSound(LoadKeys(s, cs, "", 0), iss, s.token)
      /\ CallsAreSound(LoadAddresses(s, cs, ""), iss, s.token)
  BY <1>1, LoadIsSound
<1> QED BY <1>2 DEF Mounts

(* The addresses, and what is wanted of them, when one is changed. *)
LEMMA EntryChanges ==
  ASSUME NEW b \in Seq(Entry), NEW a, NEW e, a \in DOMAIN b => e \in Entry
  PROVE  /\ [b EXCEPT ![a] = e] \in Seq(Entry) /\ Len([b EXCEPT ![a] = e]) = Len(b)
         /\ DOMAIN [b EXCEPT ![a] = e] = DOMAIN b
<1> DEFINE new == [b EXCEPT ![a] = e]
<1>1. DOMAIN b = 1 .. Len(b) /\ Len(b) \in Nat /\ \A k \in DOMAIN b : b[k] \in Entry
  OBVIOUS
<1>2. DOMAIN new = DOMAIN b /\ new = [k \in DOMAIN b |-> IF k = a THEN e ELSE b[k]]
  BY <1>1
<1>3. new \in [1 .. Len(b) -> Entry]
  BY <1>1, <1>2
<1>4. new \in Seq(Entry)
  BY <1>1, <1>3, SeqDef
<1> QED BY <1>1, <1>2, <1>4

LEMMA EntryOf ==
  ASSUME NEW e \in Entry, NEW T \in SUBSET Dest, NEW l \in BOOLEAN
  PROVE  /\ [e EXCEPT !.to = T, !.live = l] \in Entry
         /\ [e EXCEPT !.to = T] \in Entry
         /\ [e EXCEPT !.to = T, !.live = l] = [of |-> e.of, to |-> T, live |-> l]
         /\ [e EXCEPT !.to = T] = [of |-> e.of, to |-> T, live |-> e.live]
<1>1. [e EXCEPT !.to = T] = [of |-> e.of, to |-> T, live |-> e.live]
  BY DEF Entry
<1>2. [e EXCEPT !.to = T, !.live = l] = [[e EXCEPT !.to = T] EXCEPT !.live = l]
  OBVIOUS
<1>3. [[of |-> e.of, to |-> T, live |-> e.live] EXCEPT !.live = l] = [of |-> e.of, to |-> T, live |-> l]
  OBVIOUS
<1>4. [e EXCEPT !.to = T, !.live = l] \in Entry /\ [e EXCEPT !.to = T] \in Entry
  BY DEF Entry
<1> QED BY <1>1, <1>2, <1>3, <1>4

LEMMA OneEntry == ASSUME NEW e \in Entry PROVE <<e>> \in Seq(Entry)
OBVIOUS

---------------------------------------------------------------------------
(* What an action leaves of the invariant when it touches only the calls. *)

LEMMA UndisturbedInv ==
  ASSUME IInv, issued' \in Seq(User), DOMAIN issued \subseteq DOMAIN issued',
         \A k \in DOMAIN issued : issued'[k] = issued[k],
         scopes' \in Seq(Scope), Len(scopes') = Len(issued'),
         book' \in Seq(Entry), st' \in SessionState, hist' \in SessionHistory,
         CallsAreSound(calls', issued', st.token), storage' = storage,
         st'.user = st.user, st'.token = st.token, st'.keys = st.keys,
         st'.addresses = st.addresses, hist'.oldKeys = hist.oldKeys,
         hist'.oldBook = hist.oldBook, hist'.pasted = hist.pasted
  PROVE  IInv'
<1>1. Types /\ SessionIsWhole /\ ListsAreOwn
  BY DEF IInv
<1>2. Types'
  BY <1>1 DEF Types
<1>3. SessionIsWhole'
  BY <1>1 DEF SessionIsWhole, Stored
<1>4. ListsAreOwn'
  <2>1. CASE st.token \in DOMAIN issued
    <3>1. TokenUser' = TokenUser
      BY <2>1 DEF TokenUser
    <3> QED BY <1>1, <3>1 DEF ListsAreOwn, Types
  <2>2. CASE st.token \notin DOMAIN issued
    <3>1. TokenUser = NoUser
      BY <2>2 DEF TokenUser
    <3>2. ~hist.oldKeys => st.keys = {}
      BY <1>1, <3>1, UserAssumption DEF ListsAreOwn, Types
    <3>3. ~hist.oldBook => st.addresses = {}
      <4>1. \A r \in st.addresses : r.is.of \in User
        BY <1>1 DEF Types, SessionState, AnyRow, Entry
      <4> QED BY <1>1, <3>1, <4>1, UserAssumption DEF ListsAreOwn
    <3> QED BY <3>2, <3>3 DEF ListsAreOwn
  <2> QED BY <2>1, <2>2
<1> QED BY <1>2, <1>3, <1>4 DEF IInv

LEMMA AskInv ==
  ASSUME IInv, UNCHANGED <<issued, scopes, book, st, storage>>, hist' \in SessionHistory,
         hist'.oldKeys = hist.oldKeys, hist'.oldBook = hist.oldBook,
         hist'.pasted = hist.pasted, CallsAreSound(calls', issued, st.token)
  PROVE  IInv'
<1>1. Types
  BY DEF IInv
<1> QED BY <1>1, UndisturbedInv DEF Types

(* A session that begins, or ends, with no lists but those of before. *)
LEMMA ReplacedInv ==
  ASSUME Types', storage' = Stored(st'.user, st'.token),
         ~hist'.pasted => IF st'.user = NoUser THEN st'.token = NoToken
                          ELSE st'.token \in DOMAIN issued' /\ issued'[st'.token] = st'.user,
         st'.keys = {} \/ hist'.oldKeys, st'.addresses = {} \/ hist'.oldBook,
         CallsAreSound(calls', issued', st'.token)
  PROVE  IInv'
<1>1. SessionIsWhole'
  BY DEF SessionIsWhole
<1>2. ListsAreOwn'
  BY DEF ListsAreOwn
<1> QED BY <1>1, <1>2 DEF IInv

(* The calls with which the page starts. *)
LEMMA FreshIsSound ==
  ASSUME NEW kept, NEW iss, kept.token \in Nat
  PROVE  CallsAreSound(FreshCalls(kept), iss, kept.token)
<1> DEFINE status == <<Call("status", kept.token, 0, "", 0)>>
<1>1. /\ "status" \in Kind /\ "" \in Form /\ 0 \in CallArg /\ 0 \in CallAns
  BY DEF Kind, Form, CallArg, CallAns
<1> ArgFits("status", 0)
  BY DEF ArgFits, Edits
<1>2. CallsAreSound(<<>>, iss, kept.token)
  BY DEF CallsAreSound
<1>3. status = Append(<<>>, Call("status", kept.token, 0, "", 0))
  OBVIOUS
<1>4. CallsAreSound(status, iss, kept.token)
  BY <1>1, <1>2, <1>3, SentIsSound
<1> DEFINE fresh == Fresh(kept)
<1>5. fresh.token = kept.token
  BY DEF Fresh
<1>6. CallsAreSound(LoadAddresses(fresh, status, ""), iss, fresh.token)
  BY <1>1, <1>4, <1>5, LoadIsSound
<1>7. CallsAreSound(LoadKeys(fresh, LoadAddresses(fresh, status, ""), "", 0), iss, fresh.token)
  BY <1>1, <1>5, <1>6, LoadIsSound
<1> QED BY <1>4, <1>5, <1>7 DEF FreshCalls

LEMMA FreshTypes ==
  ASSUME NEW kept, kept.user \in User \cup {NoUser}, kept.token \in Nat
  PROVE  /\ Fresh(kept) \in SessionState /\ Fresh(kept).user = kept.user
         /\ Fresh(kept).token = kept.token /\ Fresh(kept).keys = {}
         /\ Fresh(kept).addresses = {}
BY DEF Fresh, SessionState

LEMMA InitInv == Init => IInv
<1> SUFFICES ASSUME Init PROVE IInv
  OBVIOUS
<1>1. /\ storage = Stored(NoUser, NoToken) \/ (storage = Stored(Admin, 1) /\ issued # <<>>)
      /\ st = Fresh(storage) /\ calls = FreshCalls(storage)
      /\ hist = [oldKeys |-> FALSE, oldBook |-> FALSE, pasted |-> FALSE, behind |-> TRUE,
                 doubt |-> {}, want |-> book]
      /\ issued # <<>> => 1 \in DOMAIN issued /\ issued[1] = Admin
      /\ \/ issued = <<>> /\ scopes = <<>>
         \/ issued = <<Admin>> /\ scopes = <<"admin">>
         \/ \E u \in User : issued = <<Admin, u>> /\ scopes = <<"admin", "manage">>
      /\ book = <<>> \/ book = <<[of |-> Admin, to |-> {}, live |-> TRUE]>>
  BY DEF Init
<1>2. /\ issued \in Seq(User) /\ scopes \in Seq(Scope) /\ Len(scopes) = Len(issued)
      /\ book \in Seq(Entry)
  <2>1. Admin \in User
    BY SessionBoundAssumption
  <2>2. {"admin", "manage"} \subseteq Scope
    BY DEF Scope
  <2>3. [of |-> Admin, to |-> {}, live |-> TRUE] \in Entry
    BY <2>1 DEF Entry
  <2>4. book \in Seq(Entry)
    <3> DEFINE e == [of |-> Admin, to |-> {}, live |-> TRUE]
    <3>1. <<e>> \in Seq(Entry)
      BY <2>3, OneEntry
    <3>2. <<>> \in Seq(Entry)
      OBVIOUS
    <3>3. book = <<>> \/ book = <<e>>
      BY <1>1
    <3> HIDE DEF e
    <3> QED BY <3>1, <3>2, <3>3, Zenon
  <2>5. /\ issued \in Seq(User) /\ scopes \in Seq(Scope) /\ Len(scopes) = Len(issued)
    <3>1. CASE issued = <<>> /\ scopes = <<>>
      BY <3>1
    <3>2. CASE issued = <<Admin>> /\ scopes = <<"admin">>
      BY <2>1, <2>2, <3>2
    <3>3. CASE \E u \in User : issued = <<Admin, u>> /\ scopes = <<"admin", "manage">>
      BY <2>1, <2>2, <3>3
    <3> QED BY <1>1, <3>1, <3>2, <3>3
  <2> QED BY <2>4, <2>5
<1>3. /\ storage.user \in User \cup {NoUser} /\ storage.token \in Nat
      /\ storage = Stored(storage.user, storage.token)
      /\ IF storage.user = NoUser THEN storage.token = NoToken
         ELSE storage.token \in DOMAIN issued /\ issued[storage.token] = storage.user
  <2>1. CASE storage = Stored(NoUser, NoToken)
    BY <2>1 DEF Stored, NoToken
  <2>2. CASE storage = Stored(Admin, 1) /\ issued # <<>>
    BY <1>1, <2>2, UserAssumption, SessionBoundAssumption DEF Stored
  <2> QED BY <1>1, <2>1, <2>2
<1>4. /\ st \in SessionState /\ st.user = storage.user /\ st.token = storage.token
      /\ st.keys = {} /\ st.addresses = {}
  BY <1>1, <1>3, FreshTypes
<1>5. CallsAreSound(calls, issued, st.token)
  BY <1>1, <1>3, <1>4, FreshIsSound
<1>6. hist \in SessionHistory /\ ~hist.pasted
  <2>1. {} \in SUBSET Nat /\ book \in Seq(Entry)
    BY <1>2
  <2> QED BY <1>1, <2>1 DEF SessionHistory
<1>7. Types
  BY <1>1, <1>2, <1>4, <1>6 DEF Types
<1>8. SessionIsWhole
  BY <1>3, <1>4, <1>6 DEF SessionIsWhole
<1>9. ListsAreOwn
  BY <1>4 DEF ListsAreOwn
<1> QED BY <1>5, <1>7, <1>8, <1>9 DEF IInv

---------------------------------------------------------------------------
(* What the user does *)

LEMMA EditsAt == ASSUME IInv PROVE \A n \in InFlight(Edits) : calls[n].arg.at \in Nat
BY DEF IInv, CallsAreSound, CallIsSound, ArgFits, AnyRow, InFlight

LEMMA ReloadInv == ASSUME IInv, Reload PROVE IInv'
<1>1. Types /\ SessionIsWhole
  BY DEF IInv
<1>2. /\ storage.user = st.user /\ storage.token = st.token
      /\ st.user \in User \cup {NoUser} /\ st.token \in Nat
  BY <1>1 DEF SessionIsWhole, Stored, Types, SessionState
<1>3. /\ st' = Fresh(storage) /\ calls' = FreshCalls(storage)
      /\ hist' = [hist EXCEPT !.oldKeys = FALSE, !.oldBook = FALSE, !.behind = TRUE,
                              !.doubt = @ \cup {calls[n].arg.at : n \in InFlight(Edits)}]
      /\ UNCHANGED <<issued, scopes, book, storage>>
  BY DEF Reload
<1>4. /\ st' \in SessionState /\ st'.user = st.user /\ st'.token = st.token
      /\ st'.keys = {} /\ st'.addresses = {}
  BY <1>2, <1>3, FreshTypes
<1>5. CallsAreSound(calls', issued', st'.token)
  BY <1>2, <1>3, <1>4, FreshIsSound
<1>6. hist' \in SessionHistory /\ hist'.pasted = hist.pasted
  <2>1. {calls[n].arg.at : n \in InFlight(Edits)} \subseteq Nat
    BY EditsAt
  <2> QED BY <1>1, <1>3, <2>1 DEF Types, SessionHistory
<1>7. Types'
  BY <1>1, <1>3, <1>4, <1>6 DEF Types
<1> QED BY <1>1, <1>3, <1>4, <1>5, <1>6, <1>7, ReplacedInv DEF SessionIsWhole

(* The history of a session that is replaced. *)
LEMMA SessionHistTypes ==
  ASSUME Types, NEW emptied \in BOOLEAN, NEW pasted \in BOOLEAN
  PROVE  /\ SessionHist(emptied, pasted) \in SessionHistory
         /\ SessionHist(emptied, pasted).pasted = pasted
         /\ ~emptied => /\ SessionHist(emptied, pasted).oldKeys = (st.keys # {})
                        /\ SessionHist(emptied, pasted).oldBook = (st.addresses # {})
BY DEF Types, SessionHist, SessionHistory

LEMMA LogoutInv == ASSUME IInv, Logout PROVE IInv'
<1>1. Types /\ CallsAreSound(calls, issued, st.token)
  BY DEF IInv
<1>2. /\ st' = Emptied(Session(st, NoUser, NoToken))
      /\ storage' = Stored(NoUser, NoToken) /\ calls' = NewSession(calls)
      /\ hist' = SessionHist(TRUE, FALSE) /\ UNCHANGED <<issued, scopes, book>>
  BY DEF Logout
<1>3. /\ st' \in SessionState /\ st'.user = NoUser /\ st'.token = NoToken
      /\ st'.keys = {} /\ st'.addresses = {}
  BY <1>1, <1>2 DEF Types, SessionState, Emptied, Session, NoToken
<1>4. hist' \in SessionHistory
  BY <1>1, <1>2, SessionHistTypes
<1>5. Types'
  BY <1>1, <1>2, <1>3, <1>4 DEF Types
<1>6. CallsAreSound(calls', issued', st'.token)
  BY <1>1, <1>2, NewSessionIsSound
<1> QED BY <1>2, <1>3, <1>5, <1>6, ReplacedInv

LEMMA SetTokenInv ==
  ASSUME IInv, NEW t \in Draft, SetToken(t) PROVE IInv'
<1>1. Types /\ SessionIsWhole /\ CallsAreSound(calls, issued, st.token)
  BY DEF IInv
<1>2. /\ st' = [st EXCEPT !.token = t] /\ storage' = [storage EXCEPT !.token = t]
      /\ calls' = NewSession(calls) /\ hist' = SessionHist(FALSE, TRUE)
      /\ UNCHANGED <<issued, scopes, book>>
  BY DEF SetToken
<1>3. t \in Nat
  BY <1>1, SessionBoundAssumption DEF Types, Draft, NoToken, GlobalToken
<1>4. /\ st' \in SessionState /\ st'.user = st.user /\ st'.token = t
      /\ st'.keys = st.keys /\ st'.addresses = st.addresses
  BY <1>1, <1>2, <1>3 DEF Types, SessionState
<1>5. storage' = Stored(st'.user, st'.token)
  BY <1>1, <1>2, <1>4 DEF SessionIsWhole, Stored
<1>6. /\ hist' \in SessionHistory /\ hist'.pasted
      /\ hist'.oldKeys = (st.keys # {}) /\ hist'.oldBook = (st.addresses # {})
  BY <1>1, <1>2, SessionHistTypes
<1>7. Types'
  BY <1>1, <1>2, <1>4, <1>6 DEF Types
<1>8. CallsAreSound(calls', issued', st'.token)
  BY <1>1, <1>2, NewSessionIsSound
<1> QED BY <1>4, <1>5, <1>6, <1>7, <1>8, ReplacedInv

(* Pages, overlays and forms. *)
LEMMA VisitInv == ASSUME IInv, NEW p, Visit(p) PROVE IInv'
<1> DEFINE cs == Unmounts({"key", "reserve"}, calls)
<1>1. Types /\ CallsAreSound(calls, issued, st.token) /\ st.token \in Nat
  BY DEF IInv, Types, SessionState
<1>2. CallsAreSound(cs, issued, st.token)
  BY <1>1, UnmountedIsSound
<1>3. CallsAreSound(calls', issued, st.token)
  BY <1>1, <1>2, MountIsSound DEF Visit
<1> QED BY <1>1, <1>3, AskInv DEF Visit, Types

LEMMA OverlayInv == ASSUME IInv, OpenSignIn \/ CloseSignIn PROVE IInv'
<1>1. Types /\ CallsAreSound(calls, issued, st.token)
  BY DEF IInv
<1>2. UNCHANGED <<issued, scopes, book, storage, hist>>
  BY DEF OpenSignIn, CloseSignIn
<1>3. /\ st' \in SessionState /\ st'.user = st.user /\ st'.token = st.token
      /\ st'.keys = st.keys /\ st'.addresses = st.addresses
  BY <1>1 DEF OpenSignIn, CloseSignIn, Types, SessionState
<1>4. CallsAreSound(calls', issued, st.token)
  BY <1>1, UnmountedIsSound DEF OpenSignIn, CloseSignIn
<1> QED BY <1>1, <1>2, <1>3, <1>4, UndisturbedInv DEF Types

(* One call is sent, and nothing else that matters here changes. *)
LEMMA SendInv ==
  ASSUME IInv, NEW kind \in Kind, NEW arg \in CallArg, NEW form \in Form,
         UNCHANGED <<issued, scopes, book, st, storage>>,
         calls' = Append(calls, Call(kind, st.token, arg, form, 0)),
         kind \in {"setup", "login"} => arg \in User,
         ArgFits(kind, arg),
         hist' \in SessionHistory, hist'.oldKeys = hist.oldKeys,
         hist'.oldBook = hist.oldBook, hist'.pasted = hist.pasted
  PROVE  IInv'
<1>1. CallsAreSound(calls, issued, st.token) /\ st.token \in Nat
  BY DEF IInv, Types, SessionState
<1>2. 0 \in CallAns
  BY DEF CallAns
<1>3. CallsAreSound(calls', issued, st.token)
  BY <1>1, <1>2, SentIsSound
<1> QED BY <1>3, AskInv

LEMMA FormsInv ==
  ASSUME IInv, SubmitSetup \/ (\E u \in User : SubmitLogin(u))
                 \/ (\E scope \in Scope : MakeKey(scope))
                 \/ (\E k \in 1 .. MaxKeys : RevokeKey(k)) \/ DismissSecret
  PROVE  IInv'
<1>1. hist \in SessionHistory /\ CallsAreSound(calls, issued, st.token)
  BY DEF IInv, Types
<1>2. /\ {"setup", "login", "mkkey", "rmkey"} \subseteq Kind
      /\ {"setup", "login", "key", ""} \subseteq Form
  BY DEF Kind, Form, Forms
<1>3. /\ User \cup Nat \cup Scope \subseteq CallArg
      /\ \A arg : ArgFits("setup", arg) /\ ArgFits("login", arg) /\ ArgFits("rmkey", arg)
      /\ \A arg \in Scope : ArgFits("mkkey", arg)
  BY DEF CallArg, ArgFits, Edits
<1>4. CASE SubmitSetup
  BY <1>1, <1>2, <1>3, <1>4, SendInv, SessionBoundAssumption DEF SubmitSetup
<1>5. ASSUME NEW u \in User, SubmitLogin(u) PROVE IInv'
  BY <1>1, <1>2, <1>3, <1>5, SendInv DEF SubmitLogin
<1>6. ASSUME NEW scope \in Scope, MakeKey(scope) PROVE IInv'
  BY <1>1, <1>2, <1>3, <1>6, SendInv DEF MakeKey, Asks
<1>7. ASSUME NEW k \in 1 .. MaxKeys, RevokeKey(k) PROVE IInv'
  <2>1. k \in Nat
    BY SessionBoundAssumption
  <2> QED BY <1>1, <1>2, <1>3, <1>7, <2>1, SendInv DEF RevokeKey, Asks
<1>8. CASE DismissSecret
  BY <1>1, <1>8, AskInv DEF DismissSecret
<1> QED BY <1>4, <1>5, <1>6, <1>7, <1>8

(* An edit of an address, which is sent with all that its row is to be. *)
LEMMA EditRowInv ==
  ASSUME IInv, NEW kind \in Edits, NEW r, NEW is,
         r \in st.addresses => is \in Entry, EditRow(kind, r, is)
  PROVE  IInv'
<1> DEFINE arg == [at |-> r.at, is |-> is]
<1>1. /\ r \in st.addresses /\ UNCHANGED <<issued, scopes, book, st, storage>>
      /\ calls' = Append(calls, Call(kind, st.token, arg, "", 0))
      /\ hist' = [hist EXCEPT !.want[r.at] = is,
                              !.doubt = IF Current(r) THEN @ ELSE @ \cup {r.at}]
  BY DEF EditRow, Asks
<1>2. st.addresses \subseteq AnyRow /\ hist \in SessionHistory /\ hist.want \in Seq(Entry)
  BY DEF IInv, Types, SessionState, SessionHistory
<1>3. arg \in AnyRow /\ r.at \in Nat
  BY <1>1, <1>2 DEF AnyRow
<1>4. /\ kind \in Kind /\ "" \in Form /\ arg \in CallArg /\ ArgFits(kind, arg)
      /\ kind \notin {"setup", "login"}
  BY <1>3 DEF Kind, Changes, Edits, Form, CallArg, ArgFits
<1> HIDE DEF arg
<1>5. [hist.want EXCEPT ![r.at] = is] \in Seq(Entry)
  BY <1>1, <1>2, EntryChanges
<1>6. /\ hist' \in SessionHistory /\ hist'.oldKeys = hist.oldKeys
      /\ hist'.oldBook = hist.oldBook /\ hist'.pasted = hist.pasted
  <2>1. (IF Current(r) THEN hist.doubt ELSE hist.doubt \cup {r.at}) \subseteq Nat
    BY <1>2, <1>3 DEF SessionHistory
  <2> QED BY <1>1, <1>2, <1>5, <2>1 DEF SessionHistory
<1> QED BY <1>1, <1>4, <1>6, SendInv

LEMMA EditsInv ==
  ASSUME IInv, \/ \E S \in SUBSET Dest : Reserve(S)
               \/ \E r \in st.addresses :
                    Release(r) \/ \E d \in Dest : AddDest(r, d) \/ RemoveDest(r, d)
  PROVE  IInv'
<1>1. hist \in SessionHistory /\ st.addresses \subseteq AnyRow
  BY DEF IInv, Types, SessionState
<1>2. /\ "reserve" \in Kind /\ "reserve" \in Form /\ SUBSET Dest \subseteq CallArg
      /\ \A S \in SUBSET Dest : ArgFits("reserve", S)
      /\ {"patch", "release"} \subseteq Edits
  BY DEF Kind, Changes, Edits, Form, Forms, CallArg, ArgFits
<1>3. ASSUME NEW S \in SUBSET Dest, Reserve(S) PROVE IInv'
  <2>1. /\ calls' = Append(calls, Call("reserve", st.token, S, "reserve", 0))
        /\ UNCHANGED <<issued, scopes, book, st, storage, hist>>
    BY <1>3 DEF Reserve, Asks
  <2> QED BY <1>1, <1>2, <2>1, SendInv
<1>4. ASSUME NEW r \in st.addresses,
             Release(r) \/ \E d \in Dest : AddDest(r, d) \/ RemoveDest(r, d)
      PROVE  IInv'
  <2>1. r.is \in Entry /\ r.is.to \subseteq Dest
    BY <1>1 DEF AnyRow, Entry
  <2>2. CASE Release(r)
    <3>1. [r.is EXCEPT !.to = {}, !.live = FALSE] \in Entry
      BY <2>1, EntryOf
    <3> QED BY <1>2, <2>2, <3>1, EditRowInv DEF Release
  <2>3. ASSUME NEW d \in Dest, AddDest(r, d) PROVE IInv'
    <3>1. [r.is EXCEPT !.to = r.is.to \cup {d}] \in Entry
      BY <2>1, EntryOf
    <3> QED BY <1>2, <2>3, <3>1, EditRowInv DEF AddDest
  <2>4. ASSUME NEW d \in Dest, RemoveDest(r, d) PROVE IInv'
    <3>1. [r.is EXCEPT !.to = r.is.to \ {d}] \in Entry
      BY <2>1, EntryOf
    <3> QED BY <1>2, <2>4, <3>1, EditRowInv DEF RemoveDest
  <2> QED BY <1>4, <2>2, <2>3, <2>4
<1> QED BY <1>3, <1>4

---------------------------------------------------------------------------
(* The server *)

(* A reply is sound when what it says of the keys is true of iss. *)
LEMMA ReplyIsSound ==
  ASSUME NEW iss, NEW t, CallsAreSound(calls, iss, t), NEW n \in DOMAIN calls,
         NEW ok \in BOOLEAN, NEW ans \in CallAns, Replies(n, ok, ans),
         ok => LET c == calls[n] IN
           /\ c.kind \in {"setup", "login"} => ans \in DOMAIN iss /\ iss[ans] = c.arg
           /\ c.kind \in {"keys", "addrs"} => c.token \in DOMAIN iss
           /\ c.kind = "keys" => ans \subseteq DOMAIN iss /\ \A k \in ans : iss[k] = iss[c.token]
           /\ c.kind = "addrs" => /\ ans \in SUBSET AnyRow
                                  /\ \A r \in ans : r.is.of = iss[c.token]
  PROVE  CallsAreSound(calls', iss, t)
<1> DEFINE c == calls[n]
           d == [c EXCEPT !.served = TRUE, !.ok = ok, !.ans = ans]
<1>1. calls \in Seq(CallState) /\ \A k \in DOMAIN calls : CallIsSound(calls[k], iss, t)
  BY DEF CallsAreSound
<1>2. c \in CallState /\ CallIsSound(c, iss, t)
  BY <1>1
<1>3. calls' = [calls EXCEPT ![n] = d]
  BY <1>1, <1>2 DEF Replies, CallState
<1>4. d \in CallState
  BY <1>2 DEF CallState
<1>5. /\ d.kind = c.kind /\ d.arg = c.arg /\ d.token = c.token /\ d.stale = c.stale
      /\ d.ok = ok /\ d.ans = ans
  BY <1>2 DEF CallState
<1>6. CallIsSound(d, iss, t)
  BY <1>2, <1>5 DEF CallIsSound
<1> HIDE DEF d
<1>7. \A k \in DOMAIN calls : calls'[k] \in CallState /\ CallIsSound(calls'[k], iss, t)
  BY <1>1, <1>3, <1>4, <1>6
<1>8. DOMAIN calls' = DOMAIN calls /\ calls' = [k \in DOMAIN calls' |-> calls'[k]]
  BY <1>3
<1> QED BY <1>1, <1>7, <1>8, MappedIsSound

(* mintKey: the new key belongs to u. *)
LEMMA MintInv ==
  ASSUME IInv, NEW n \in DOMAIN calls, NEW u \in User, NEW scope \in Scope, Mints(n, u, scope),
         (calls[n].kind \in {"setup", "login"} /\ calls[n].arg = u) \/ calls[n].kind = "mkkey",
         UNCHANGED <<book, st, storage, hist>>
  PROVE  IInv'
<1>1. /\ Types /\ issued \in Seq(User) /\ st \in SessionState /\ hist \in SessionHistory
      /\ book \in Seq(Entry) /\ CallsAreSound(calls, issued, st.token)
  BY DEF IInv, Types
<1>2. /\ issued' = Append(issued, u) /\ scopes' = Append(scopes, scope)
      /\ Replies(n, TRUE, Len(issued) + 1)
  BY DEF Mints
<1>3. /\ issued' \in Seq(User) /\ DOMAIN issued \subseteq DOMAIN issued'
      /\ \A k \in DOMAIN issued : issued'[k] = issued[k]
      /\ Len(issued) + 1 \in DOMAIN issued' /\ issued'[Len(issued) + 1] = u
      /\ Len(issued) + 1 \in Nat
  BY <1>1, <1>2
<1>4. CallsAreSound(calls, issued', st.token)
  BY <1>1, <1>2, MintedIsSound
<1>5. Len(issued) + 1 \in CallAns
  BY <1>3 DEF CallAns
<1>6. CallsAreSound(calls', issued', st.token)
  BY <1>2, <1>3, <1>4, <1>5, ReplyIsSound
<1>7. scopes' \in Seq(Scope) /\ Len(scopes') = Len(issued')
  BY <1>2 DEF IInv, Types
<1> QED BY <1>1, <1>3, <1>6, <1>7, UndisturbedInv

(* A reply that changes no keys. *)
LEMMA AnsweredInv ==
  ASSUME IInv, NEW n \in DOMAIN calls, NEW ok \in BOOLEAN, NEW ans \in CallAns,
         Replies(n, ok, ans), UNCHANGED <<issued, scopes, st, storage>>,
         hist' \in SessionHistory, hist'.oldKeys = hist.oldKeys,
         hist'.oldBook = hist.oldBook, hist'.pasted = hist.pasted,
         book' \in Seq(Entry),
         ok => LET c == calls[n] IN
           /\ c.kind \notin {"setup", "login"}
           /\ c.kind \in {"keys", "addrs"} => c.token \in DOMAIN issued
           /\ c.kind = "keys" => /\ ans \subseteq DOMAIN issued
                                 /\ \A k \in ans : issued[k] = issued[c.token]
           /\ c.kind = "addrs" => /\ ans \in SUBSET AnyRow
                                  /\ \A r \in ans : r.is.of = issued[c.token]
  PROVE  IInv'
<1>1. /\ Types /\ issued \in Seq(User) /\ st \in SessionState
      /\ scopes \in Seq(Scope) /\ Len(scopes) = Len(issued)
      /\ CallsAreSound(calls, issued, st.token)
  BY DEF IInv, Types
<1>2. CallsAreSound(calls', issued, st.token)
  BY <1>1, ReplyIsSound
<1> QED BY <1>1, <1>2, UndisturbedInv

LEMMA ServeAccountInv ==
  ASSUME IInv, NEW n \in DOMAIN calls, ServeAccount(n) PROVE IInv'
<1> DEFINE c == calls[n]
<1>1. /\ calls \in Seq(CallState) /\ CallIsSound(c, issued, st.token)
      /\ book \in Seq(Entry) /\ hist \in SessionHistory
  BY DEF IInv, Types, CallsAreSound
<1>2. UNCHANGED <<book, st, storage, hist>>
  BY DEF ServeAccount
<1>3. 0 \in CallAns /\ 1 \in CallAns /\ {"admin", "manage"} \subseteq Scope
  BY DEF CallAns, Scope
<1>4. CASE c.kind = "status" /\ Replies(n, TRUE, IF accounts = {} THEN 1 ELSE 0)
           /\ UNCHANGED <<issued, scopes>>
  BY <1>1, <1>2, <1>3, <1>4, AnsweredInv
<1>5. ASSUME NEW scope \in Scope, c.kind \in {"setup", "login"}, Mints(n, c.arg, scope)
      PROVE  IInv'
  <2>1. c.arg \in User
    BY <1>1, <1>5 DEF CallIsSound
  <2> QED BY <1>2, <1>5, <2>1, MintInv
<1>6. CASE Replies(n, FALSE, 0) /\ UNCHANGED <<issued, scopes>>
  BY <1>1, <1>2, <1>3, <1>6, AnsweredInv
<1>7. CASE c.kind = "setup" /\ Mints(n, c.arg, "admin")
  BY <1>3, <1>5, <1>7
<1>8. CASE c.kind = "login" /\ Mints(n, c.arg, IF c.arg \in OrgAdmin THEN "admin" ELSE "manage")
  BY <1>3, <1>5, <1>8
<1> QED BY <1>4, <1>6, <1>7, <1>8 DEF ServeAccount

(* The owner of a token is a user only by a key that was issued. *)
LEMMA OwnerOf ==
  ASSUME NEW t, issued \in Seq(User), Owner(t) # NoUser
  PROVE  t \in DOMAIN issued /\ issued[t] = Owner(t) /\ Owner(t) \in User
<1>1. t \in DOMAIN issued /\ issued[t] = Owner(t)
  BY DEF Owner, Manages
<1> QED BY <1>1

LEMMA ServeKeysInv ==
  ASSUME IInv, NEW n \in DOMAIN calls, ServeKeys(n) PROVE IInv'
<1> DEFINE c == calls[n]
           u == Owner(c.token)
           grants == u # NoUser /\ (c.arg = "admin" => IsAdmin(c.token))
<1>1. /\ issued \in Seq(User) /\ book \in Seq(Entry) /\ hist \in SessionHistory
      /\ CallIsSound(c, issued, st.token)
  BY DEF IInv, Types, CallsAreSound
<1>2. UNCHANGED <<book, st, storage, hist>>
  BY DEF ServeKeys
<1>3. 0 \in CallAns /\ KeysOf(u) \in CallAns /\ (u # NoUser) \in BOOLEAN
  <2>1. KeysOf(u) \in SUBSET Nat
    BY <1>1 DEF KeysOf
  <2> QED BY <2>1 DEF CallAns
<1>4. /\ u # NoUser => c.token \in DOMAIN issued /\ issued[c.token] = u /\ u \in User
      /\ KeysOf(u) \subseteq DOMAIN issued /\ \A k \in KeysOf(u) : issued[k] = u
  BY <1>1, OwnerOf DEF KeysOf
<1>5. CASE c.kind = "keys" /\ Replies(n, u # NoUser, KeysOf(u)) /\ UNCHANGED <<issued, scopes>>
  BY <1>1, <1>2, <1>3, <1>4, <1>5, AnsweredInv
<1>6. CASE c.kind = "mkkey" /\ grants /\ Mints(n, u, c.arg)
  <2>1. c.arg \in Scope
    BY <1>1, <1>6 DEF CallIsSound, ArgFits
  <2> QED BY <1>2, <1>4, <1>6, <2>1, MintInv
<1>7. CASE c.kind = "mkkey" /\ Replies(n, FALSE, 0) /\ UNCHANGED <<issued, scopes>>
  BY <1>1, <1>2, <1>3, <1>7, AnsweredInv
<1>8. CASE c.kind = "rmkey" /\ Replies(n, u # NoUser /\ c.arg \in KeysOf(u), 0) /\ UNCHANGED <<issued, scopes>>
  BY <1>1, <1>2, <1>3, <1>8, AnsweredInv
<1> QED BY <1>5, <1>6, <1>7, <1>8 DEF ServeKeys

LEMMA ListedTypes ==
  ASSUME book \in Seq(Entry), NEW u
  PROVE  /\ Listed(u) \in SUBSET AnyRow /\ Listed(u) \in CallAns
         /\ \A r \in Listed(u) : r.is.of = u
<1>1. DOMAIN book \subseteq Nat /\ \A a \in DOMAIN book : book[a] \in Entry
  OBVIOUS
<1>2. Listed(u) \in SUBSET AnyRow /\ \A r \in Listed(u) : r.is.of = u
  BY <1>1 DEF Listed, AnyRow
<1> QED BY <1>2 DEF CallAns

LEMMA ServeAddressesInv ==
  ASSUME IInv, NEW n \in DOMAIN calls, ServeAddresses(n) PROVE IInv'
<1> DEFINE c == calls[n]
           u == Owner(c.token)
           reserved == [of |-> u, to |-> c.arg, live |-> TRUE]
           owned == book[c.arg.at].live /\ book[c.arg.at].of = u
<1>1. /\ issued \in Seq(User) /\ book \in Seq(Entry) /\ hist \in SessionHistory
      /\ CallIsSound(c, issued, st.token)
  BY DEF IInv, Types, CallsAreSound
<1>2. UNCHANGED <<issued, scopes, st, storage>>
  BY DEF ServeAddresses
<1>3. /\ 0 \in CallAns
      /\ u # NoUser => c.token \in DOMAIN issued /\ u \in User /\ issued[c.token] = u
  BY <1>1, OwnerOf DEF CallAns
<1>4. CASE /\ c.kind = "addrs" /\ Replies(n, u # NoUser, IF u # NoUser THEN Listed(u) ELSE 0)
           /\ UNCHANGED <<book, hist>>
  <2>1. (u # NoUser) \in BOOLEAN
    OBVIOUS
  <2> HIDE DEF u
  <2>2. CASE u # NoUser
    BY <1>1, <1>2, <1>3, <1>4, <2>1, <2>2, ListedTypes, AnsweredInv
  <2>3. CASE u = NoUser
    BY <1>1, <1>2, <1>3, <1>4, <2>1, <2>3, AnsweredInv
  <2> QED BY <2>2, <2>3
<1>5. CASE /\ c.kind = "reserve" /\ u # NoUser /\ Replies(n, TRUE, 0)
           /\ book' = Append(book, reserved)
           /\ hist' = [hist EXCEPT !.want = Append(@, reserved)]
  <2>1. reserved \in Entry
    BY <1>1, <1>3, <1>5 DEF Entry, CallIsSound, ArgFits
  <2> HIDE DEF reserved
  <2>2. book' \in Seq(Entry) /\ Append(hist.want, reserved) \in Seq(Entry)
    BY <1>1, <1>5, <2>1 DEF SessionHistory
  <2>3. /\ hist' \in SessionHistory /\ hist'.oldKeys = hist.oldKeys
        /\ hist'.oldBook = hist.oldBook /\ hist'.pasted = hist.pasted
    BY <1>1, <1>5, <2>2 DEF SessionHistory
  <2> QED BY <1>1, <1>2, <1>3, <1>5, <2>2, <2>3, AnsweredInv
<1>6. CASE /\ c.kind = "release" /\ owned /\ Replies(n, TRUE, 0)
           /\ book' = [book EXCEPT ![c.arg.at] = [@ EXCEPT !.to = {}, !.live = FALSE]]
           /\ UNCHANGED hist
  <2>1. c.arg.at \in DOMAIN book => [book[c.arg.at] EXCEPT !.to = {}, !.live = FALSE] \in Entry
    <3>1. c.arg.at \in DOMAIN book => book[c.arg.at] \in Entry
      BY <1>1
    <3>2. {} \in SUBSET Dest /\ FALSE \in BOOLEAN
      OBVIOUS
    <3> QED BY <3>1, <3>2, EntryOf
  <2>2. book' \in Seq(Entry)
    BY <1>1, <1>6, <2>1, EntryChanges
  <2> QED BY <1>1, <1>2, <1>3, <1>6, <2>2, AnsweredInv
<1>7. CASE /\ c.kind \in {"reserve", "release"} /\ Replies(n, FALSE, 0)
           /\ UNCHANGED <<book, hist>>
  BY <1>1, <1>2, <1>3, <1>7, AnsweredInv
<1> QED BY <1>4, <1>5, <1>6, <1>7, Zenon DEF ServeAddresses

(* A change of an address in two steps. *)
LEMMA PatchInv ==
  ASSUME IInv, NEW n \in DOMAIN calls, FindAddress(n) \/ WriteAddress(n) PROVE IInv'
<1> DEFINE c == calls[n]
           d == [c EXCEPT !.ans = 1]
<1>1. /\ issued \in Seq(User) /\ book \in Seq(Entry) /\ hist \in SessionHistory
      /\ calls \in Seq(CallState) /\ c \in CallState /\ CallIsSound(c, issued, st.token)
      /\ CallsAreSound(calls, issued, st.token)
  BY DEF IInv, Types, CallsAreSound
<1> c.kind = "patch"
  BY DEF FindAddress, WriteAddress
<1>2. UNCHANGED <<issued, scopes, st, storage, hist>> /\ 0 \in CallAns /\ 1 \in CallAns
  BY DEF FindAddress, WriteAddress, CallAns
<1>3. CASE FindAddress(n) /\ calls' = [calls EXCEPT ![n].ans = 1]
  <2>1. calls' = [calls EXCEPT ![n] = d]
    BY <1>1, <1>3
  <2>2. d \in CallState
    BY <1>1, <1>2 DEF CallState
  <2>3. /\ d.kind = c.kind /\ d.arg = c.arg /\ d.token = c.token /\ d.stale = c.stale
    BY <1>1 DEF CallState
  <2>4. CallIsSound(d, issued, st.token)
    BY <1>1, <2>3 DEF CallIsSound
  <2> HIDE DEF d
  <2>5. \A k \in DOMAIN calls : calls'[k] \in CallState /\ CallIsSound(calls'[k], issued, st.token)
    BY <1>1, <2>1, <2>2, <2>4 DEF CallsAreSound
  <2>6. DOMAIN calls' = DOMAIN calls /\ calls' = [k \in DOMAIN calls' |-> calls'[k]]
    BY <1>1, <2>1
  <2>7. CallsAreSound(calls', issued, st.token)
    BY <1>1, <2>5, <2>6, MappedIsSound
  <2> QED BY <1>1, <1>2, <1>3, <2>7, AskInv DEF FindAddress
<1>4. CASE FindAddress(n) /\ Replies(n, FALSE, 0)
  BY <1>1, <1>2, <1>4, AnsweredInv DEF FindAddress
<1>5. CASE WriteAddress(n)
  <2>1. /\ book' = [book EXCEPT ![c.arg.at] = [@ EXCEPT !.to = c.arg.is.to, !.live = TRUE]]
        /\ Replies(n, TRUE, 0)
    BY <1>5 DEF WriteAddress
  <2>2. c.arg.is.to \in SUBSET Dest
    BY <1>1 DEF CallIsSound, ArgFits, Edits, AnyRow, Entry
  <2>3. c.arg.at \in DOMAIN book =>
          [book[c.arg.at] EXCEPT !.to = c.arg.is.to, !.live = TRUE] \in Entry
    <3>1. c.arg.at \in DOMAIN book => book[c.arg.at] \in Entry
      BY <1>1
    <3>2. TRUE \in BOOLEAN
      OBVIOUS
    <3> QED BY <2>2, <3>1, <3>2, EntryOf
  <2>4. book' \in Seq(Entry)
    BY <1>1, <2>1, <2>3, EntryChanges
  <2> QED BY <1>1, <1>2, <2>1, <2>4, AnsweredInv
<1> QED BY <1>3, <1>4, <1>5 DEF FindAddress

---------------------------------------------------------------------------
(* Answers *)

(* What an answer finds. *)
LEMMA AnswerFinds ==
  ASSUME IInv, NEW n \in DOMAIN calls
  PROVE  /\ Types /\ issued \in Seq(User) /\ st \in SessionState /\ hist \in SessionHistory
         /\ calls[n] \in CallState /\ CallIsSound(calls[n], issued, st.token)
         /\ CallsAreSound(Rest(n), issued, st.token)
<1>1. Types /\ CallsAreSound(calls, issued, st.token)
  BY DEF IInv
<1>2. CallsAreSound(Rest(n), issued, st.token)
  BY <1>1, RestIsSound DEF Rest
<1> QED BY <1>1, <1>2 DEF Types, CallsAreSound

LEMMA StatusArrivesInv ==
  ASSUME IInv, NEW n \in DOMAIN calls, StatusArrives(n) PROVE IInv'
<1> DEFINE s == [st EXCEPT !.checked = TRUE, !.needsSetup = calls[n].ans = 1]
<1>1. /\ Types /\ st \in SessionState /\ CallsAreSound(Rest(n), issued, st.token)
  BY AnswerFinds
<1>2. /\ st' = s /\ calls' = Mounts(s, Rest(n), view.page)
      /\ UNCHANGED <<issued, scopes, book, storage, hist>>
  BY DEF StatusArrives
<1>3. /\ s \in SessionState /\ s.user = st.user /\ s.token = st.token /\ st.token \in Nat
      /\ s.keys = st.keys /\ s.addresses = st.addresses
  BY <1>1 DEF SessionState
<1> HIDE DEF s
<1>4. CallsAreSound(calls', issued, st.token)
  BY <1>1, <1>2, <1>3, MountIsSound
<1> QED BY <1>1, <1>2, <1>3, <1>4, UndisturbedInv DEF Types

LEMMA CallFailsInv ==
  ASSUME IInv, NEW n \in DOMAIN calls, CallFails(n) PROVE IInv'
<1> DEFINE c == calls[n]
           s == Checked(c.kind)
<1>1. /\ Types /\ st \in SessionState /\ hist \in SessionHistory
      /\ CallIsSound(c, issued, st.token) /\ CallsAreSound(Rest(n), issued, st.token)
  BY AnswerFinds
<1>2. /\ st' = s /\ calls' = Without(n) /\ UNCHANGED <<issued, scopes, book, storage>>
      /\ hist' = [hist EXCEPT !.behind = @ \/ c.kind \in BookCalls,
                              !.doubt = IF c.kind \in Edits THEN @ \cup {c.arg.at} ELSE @]
  BY DEF CallFails
<1>3. /\ s \in SessionState /\ s.user = st.user /\ s.token = st.token /\ st.token \in Nat
      /\ s.keys = st.keys /\ s.addresses = st.addresses
  BY <1>1 DEF SessionState, Checked
<1>4. c.kind \in Edits => c.arg.at \in Nat
  BY <1>1 DEF CallIsSound, ArgFits, AnyRow
<1>5. /\ hist' \in SessionHistory /\ hist'.oldKeys = hist.oldKeys
      /\ hist'.oldBook = hist.oldBook /\ hist'.pasted = hist.pasted
  BY <1>1, <1>2, <1>4 DEF SessionHistory
<1>6. CallsAreSound(calls', issued, st.token)
  <2>1. CallsAreSound(Mounts(s, Rest(n), view.page), issued, st.token)
    <3> HIDE DEF s
    <3> QED BY <1>1, <1>3, MountIsSound
  <2>2. \A m : CallsAreSound(LateUpTo(Rest(n), m), issued, st.token)
    BY <1>1, LateIsSound
  <2> QED BY <1>1, <1>2, <2>1, <2>2 DEF Without
<1> HIDE DEF s
<1> QED BY <1>1, <1>2, <1>3, <1>5, <1>6, UndisturbedInv DEF Types

(* Signed in, by setting up or by logging in: user and token are those of the
   one call that is answered, and so is what the browser keeps. *)
LEMMA SignedInInv ==
  ASSUME IInv, NEW n \in DOMAIN calls, Answers(n, {"setup", "login"}),
         storage' = Stored(calls[n].arg, calls[n].ans),
         st' \in SessionState, st'.user = calls[n].arg, st'.token = calls[n].ans,
         st'.keys = st.keys, st'.addresses = st.addresses,
         hist' = SessionHist(FALSE, FALSE), UNCHANGED <<issued, scopes, book>>,
         CallsAreSound(calls', issued, st'.token)
  PROVE  IInv'
<1>1. Types /\ issued \in Seq(User) /\ CallIsSound(calls[n], issued, st.token)
  BY AnswerFinds
<1>2. /\ calls[n].arg \in User /\ calls[n].ans \in DOMAIN issued
      /\ issued[calls[n].ans] = calls[n].arg
  BY <1>1 DEF Answers, CallIsSound
<1>3. /\ hist' \in SessionHistory /\ hist'.oldKeys = (st.keys # {})
      /\ hist'.oldBook = (st.addresses # {})
  BY <1>1, SessionHistTypes
<1>4. Types'
  BY <1>1, <1>3 DEF Types
<1> QED BY <1>2, <1>3, <1>4, ReplacedInv, UserAssumption

LEMMA SignedInTypes ==
  ASSUME IInv, NEW n \in DOMAIN calls, Answers(n, {"setup", "login"})
  PROVE  /\ [Session(st, calls[n].arg, calls[n].ans) EXCEPT !.needsSetup = FALSE] \in SessionState
         /\ [Session(st, calls[n].arg, calls[n].ans) EXCEPT !.signinOpen = FALSE] \in SessionState
         /\ calls[n].ans \in Nat
<1>1. /\ issued \in Seq(User) /\ st \in SessionState /\ CallIsSound(calls[n], issued, st.token)
  BY AnswerFinds
<1>2. calls[n].arg \in User /\ calls[n].ans \in Nat
  BY <1>1 DEF Answers, CallIsSound
<1> QED BY <1>1, <1>2 DEF Session, SessionState

LEMMA SetupArrivesInv ==
  ASSUME IInv, NEW n \in DOMAIN calls, SetupArrives(n) PROVE IInv'
<1> DEFINE c == calls[n]
           s == [Session(st, c.arg, c.ans) EXCEPT !.needsSetup = FALSE]
<1>1. /\ Answers(n, {"setup"}) /\ Answers(n, {"setup", "login"})
      /\ st' = s /\ storage' = Stored(c.arg, c.ans)
      /\ calls' = Mounts(s, NewSession(Rest(n)), view.page)
      /\ hist' = SessionHist(FALSE, FALSE) /\ UNCHANGED <<issued, scopes, book>>
  BY DEF SetupArrives, Answers
<1>2. st \in SessionState /\ CallsAreSound(Rest(n), issued, st.token)
  BY AnswerFinds
<1>3. s \in SessionState /\ c.ans \in Nat
  BY <1>1, SignedInTypes
<1>4. s.user = c.arg /\ s.token = c.ans /\ s.keys = st.keys /\ s.addresses = st.addresses
  BY <1>2 DEF Session, SessionState
<1> HIDE DEF s
<1>5. CallsAreSound(NewSession(Rest(n)), issued, s.token)
  BY <1>2, NewSessionIsSound
<1>6. CallsAreSound(calls', issued, s.token)
  BY <1>1, <1>3, <1>4, <1>5, MountIsSound
<1> QED BY <1>1, <1>3, <1>4, <1>6, SignedInInv

LEMMA LoginArrivesInv ==
  ASSUME IInv, NEW n \in DOMAIN calls, LoginArrives(n) PROVE IInv'
<1> DEFINE c == calls[n]
           s == [Session(st, c.arg, c.ans) EXCEPT !.signinOpen = FALSE]
           cs == NewSession(Unmounts({"login"}, Rest(n)))
<1>1. /\ Answers(n, {"login"}) /\ Answers(n, {"setup", "login"})
      /\ st' = s /\ storage' = Stored(c.arg, c.ans)
      /\ calls' = LoadKeys(s, LoadAddresses(s, cs, ""), "", 0)
      /\ hist' = SessionHist(FALSE, FALSE) /\ UNCHANGED <<issued, scopes, book>>
  BY DEF LoginArrives, Answers
<1>2. st \in SessionState /\ CallsAreSound(Rest(n), issued, st.token)
  BY AnswerFinds
<1>3. s \in SessionState /\ c.ans \in Nat
  BY <1>1, SignedInTypes
<1>4. s.user = c.arg /\ s.token = c.ans /\ s.keys = st.keys /\ s.addresses = st.addresses
  BY <1>2 DEF Session, SessionState
<1>5. CallsAreSound(cs, issued, s.token)
  BY <1>2, UnmountedIsSound, NewSessionIsSound
<1>6. "" \in Form /\ 0 \in CallAns
  BY DEF Form, CallAns
<1> HIDE DEF s, cs
<1>7. CallsAreSound(LoadAddresses(s, cs, ""), issued, s.token)
  BY <1>3, <1>4, <1>5, <1>6, LoadIsSound
<1>8. CallsAreSound(calls', issued, s.token)
  BY <1>1, <1>3, <1>4, <1>6, <1>7, LoadIsSound
<1> QED BY <1>1, <1>3, <1>4, <1>8, SignedInInv

(* The lists are replaced one at a time: what is shown of the other stays. *)
LEMMA KeysArriveInv ==
  ASSUME IInv, NEW n \in DOMAIN calls, KeysArrive(n) PROVE IInv'
<1> DEFINE c == calls[n]
<1>1. /\ Types /\ issued \in Seq(User) /\ st \in SessionState /\ hist \in SessionHistory
      /\ c \in CallState /\ CallIsSound(c, issued, st.token)
      /\ CallsAreSound(Rest(n), issued, st.token)
  BY AnswerFinds
<1>2. SessionIsWhole /\ ListsAreOwn
  BY DEF IInv
<1>3. /\ c.kind = "keys" /\ c.served /\ c.ok
      /\ st' = [st EXCEPT !.keys = c.ans] /\ hist' = [hist EXCEPT !.oldKeys = c.stale]
      /\ calls' = Rest(n) /\ UNCHANGED <<issued, scopes, book, storage>>
  BY DEF KeysArrive, Answers
<1>4. /\ c.token \in DOMAIN issued /\ c.ans \subseteq DOMAIN issued
      /\ \A k \in c.ans : issued[k] = issued[c.token]
      /\ ~c.stale => c.token = st.token
  BY <1>1, <1>3 DEF CallIsSound
<1>5. c.ans \in SUBSET Nat /\ c.stale \in BOOLEAN
  BY <1>1, <1>4 DEF CallState
<1>6. /\ st' \in SessionState /\ st'.user = st.user /\ st'.token = st.token
      /\ st'.keys = c.ans /\ st'.addresses = st.addresses
  BY <1>1, <1>3, <1>5 DEF SessionState
<1>7. /\ hist' \in SessionHistory /\ hist'.oldKeys = c.stale
      /\ hist'.oldBook = hist.oldBook /\ hist'.pasted = hist.pasted
  BY <1>1, <1>3, <1>5 DEF SessionHistory
<1>8. Types'
  BY <1>1, <1>3, <1>4, <1>6, <1>7 DEF Types
<1>9. SessionIsWhole'
  BY <1>2, <1>3, <1>6, <1>7 DEF SessionIsWhole, Stored
<1>10. ListsAreOwn'
  <2>1. ~c.stale => \A k \in c.ans : issued[k] = issued[st.token] /\ st.token \in DOMAIN issued
    BY <1>4
  <2> QED BY <1>2, <1>3, <1>6, <1>7, <2>1 DEF ListsAreOwn, TokenUser
<1> QED BY <1>1, <1>3, <1>6, <1>8, <1>9, <1>10 DEF IInv

LEMMA AddressesArriveInv ==
  ASSUME IInv, NEW n \in DOMAIN calls, AddressesArrive(n) PROVE IInv'
<1> DEFINE c == calls[n]
<1>1. /\ Types /\ issued \in Seq(User) /\ st \in SessionState /\ hist \in SessionHistory
      /\ c \in CallState /\ CallIsSound(c, issued, st.token)
      /\ CallsAreSound(Rest(n), issued, st.token)
  BY AnswerFinds
<1>2. SessionIsWhole /\ ListsAreOwn
  BY DEF IInv
<1>3. /\ c.kind = "addrs" /\ c.served /\ c.ok
      /\ st' = [st EXCEPT !.addresses = c.ans]
      /\ hist' = [hist EXCEPT !.oldBook = c.stale, !.behind = c.stale \/ c.late]
      /\ calls' = LateUpTo(Rest(n), n - 1) /\ UNCHANGED <<issued, scopes, book, storage>>
  BY DEF AddressesArrive, Answers
<1>4. /\ c.token \in DOMAIN issued /\ c.ans \in SUBSET AnyRow
      /\ \A r \in c.ans : r.is.of = issued[c.token]
      /\ ~c.stale => c.token = st.token
  BY <1>1, <1>3 DEF CallIsSound
<1>5. c.stale \in BOOLEAN /\ c.late \in BOOLEAN
  BY <1>1 DEF CallState
<1>6. /\ st' \in SessionState /\ st'.user = st.user /\ st'.token = st.token
      /\ st'.keys = st.keys /\ st'.addresses = c.ans
  BY <1>1, <1>3, <1>4 DEF SessionState
<1>7. /\ hist' \in SessionHistory /\ hist'.oldKeys = hist.oldKeys
      /\ hist'.oldBook = c.stale /\ hist'.pasted = hist.pasted
  BY <1>1, <1>3, <1>5 DEF SessionHistory
<1>8. Types'
  BY <1>1, <1>3, <1>6, <1>7 DEF Types
<1>9. SessionIsWhole'
  BY <1>2, <1>3, <1>6, <1>7 DEF SessionIsWhole, Stored
<1>10. ListsAreOwn'
  <2>1. TokenUser' = TokenUser
    BY <1>3, <1>6 DEF TokenUser
  <2>2. ~c.stale => \A r \in c.ans : r.is.of = TokenUser
    BY <1>4 DEF TokenUser
  <2> QED BY <1>2, <1>3, <1>6, <1>7, <2>1, <2>2 DEF ListsAreOwn
<1>11. CallsAreSound(calls', issued', st'.token)
  BY <1>1, <1>3, <1>6, LateIsSound
<1> QED BY <1>8, <1>9, <1>10, <1>11 DEF IInv

LEMMA KeyMadeInv ==
  ASSUME IInv, NEW n \in DOMAIN calls, KeyMade(n) PROVE IInv'
<1> DEFINE c == calls[n]
<1>1. /\ Types /\ st \in SessionState /\ hist \in SessionHistory /\ c \in CallState
      /\ CallsAreSound(Rest(n), issued, st.token) /\ st.token \in Nat
  BY AnswerFinds DEF SessionState
<1>2. /\ calls' = LoadKeys(st, Rest(n), c.form, c.ans)
      /\ st' = IF st.user = NoUser THEN [st EXCEPT !.keys = {}] ELSE st
      /\ hist' = [hist EXCEPT !.oldKeys = @ /\ st.user # NoUser]
      /\ UNCHANGED <<issued, scopes, book, storage>>
  BY DEF KeyMade
<1>3. c.form \in Form /\ c.ans \in CallAns
  BY <1>1 DEF CallState
<1>4. CallsAreSound(calls', issued, st.token)
  BY <1>1, <1>2, <1>3, LoadIsSound
<1>5. /\ hist' \in SessionHistory /\ hist'.oldKeys = (hist.oldKeys /\ st.user # NoUser)
      /\ hist'.oldBook = hist.oldBook /\ hist'.pasted = hist.pasted
  BY <1>1, <1>2 DEF SessionHistory
<1>6. CASE st.user # NoUser
  <2>1. st' = st
    BY <1>2, <1>6
  <2>2. hist'.oldKeys = hist.oldKeys
    BY <1>1, <1>5, <1>6 DEF SessionHistory
  <2> QED BY <1>2, <1>4, <1>5, <2>1, <2>2, AskInv
<1>7. CASE st.user = NoUser
  <2>1. /\ st' \in SessionState /\ st'.user = st.user /\ st'.token = st.token
        /\ st'.keys = {} /\ st'.addresses = st.addresses
    BY <1>1, <1>2, <1>7 DEF SessionState
  <2>2. SessionIsWhole /\ ListsAreOwn
    BY DEF IInv
  <2>3. Types'
    BY <1>1, <1>2, <1>5, <2>1 DEF Types
  <2>4. SessionIsWhole'
    BY <1>2, <1>5, <2>1, <2>2 DEF SessionIsWhole, Stored
  <2>5. ListsAreOwn'
    BY <1>2, <1>5, <2>1, <2>2 DEF ListsAreOwn, TokenUser
  <2> QED BY <1>2, <1>4, <2>1, <2>3, <2>4, <2>5 DEF IInv
<1> QED BY <1>6, <1>7

LEMMA AddressChangedInv ==
  ASSUME IInv, NEW n \in DOMAIN calls, AddressChanged(n) PROVE IInv'
<1> DEFINE c == calls[n]
<1>1. /\ Types /\ st \in SessionState /\ hist \in SessionHistory /\ c \in CallState
      /\ CallsAreSound(Rest(n), issued, st.token) /\ st.token \in Nat
  BY AnswerFinds DEF SessionState
<1>2. /\ calls' = LoadAddresses(st, Rest(n), c.form)
      /\ st' = IF st.user = NoUser THEN [st EXCEPT !.addresses = {}] ELSE st
      /\ hist' = [hist EXCEPT !.oldBook = @ /\ st.user # NoUser]
      /\ UNCHANGED <<issued, scopes, book, storage>>
  BY DEF AddressChanged
<1>3. c.form \in Form /\ 0 \in CallAns
  BY <1>1 DEF CallState, CallAns
<1>4. CallsAreSound(calls', issued, st.token)
  BY <1>1, <1>2, <1>3, LoadIsSound
<1>5. /\ hist' \in SessionHistory /\ hist'.oldBook = (hist.oldBook /\ st.user # NoUser)
      /\ hist'.oldKeys = hist.oldKeys /\ hist'.pasted = hist.pasted
  BY <1>1, <1>2 DEF SessionHistory
<1>6. CASE st.user # NoUser
  <2>1. st' = st
    BY <1>2, <1>6
  <2>2. hist'.oldBook = hist.oldBook
    BY <1>1, <1>5, <1>6 DEF SessionHistory
  <2> QED BY <1>2, <1>4, <1>5, <2>1, <2>2, AskInv
<1>7. CASE st.user = NoUser
  <2>2. /\ st' \in SessionState /\ st'.user = st.user /\ st'.token = st.token
        /\ st'.keys = st.keys /\ st'.addresses = {}
    BY <1>1, <1>2, <1>7 DEF SessionState
  <2>3. SessionIsWhole /\ ListsAreOwn
    BY DEF IInv
  <2>4. Types'
    BY <1>1, <1>2, <1>5, <2>2 DEF Types
  <2>5. SessionIsWhole'
    BY <1>2, <1>5, <2>2, <2>3 DEF SessionIsWhole, Stored
  <2>6. ListsAreOwn'
    BY <1>2, <1>5, <2>2, <2>3 DEF ListsAreOwn, TokenUser
  <2> QED BY <1>2, <1>4, <2>2, <2>4, <2>5, <2>6 DEF IInv
<1> QED BY <1>6, <1>7

---------------------------------------------------------------------------
(* Every step keeps the invariant. *)

LEMMA UserInv == ASSUME IInv, UserDoes PROVE IInv'
<1>1. ASSUME NEW t \in Draft, SetToken(t) PROVE IInv'
  BY <1>1, SetTokenInv
<1>2. ASSUME NEW p \in Page, Visit(p) PROVE IInv'
  BY <1>2, VisitInv
<1>3. CASE \/ SubmitSetup \/ (\E u \in User : SubmitLogin(u))
           \/ (\E scope \in Scope : MakeKey(scope))
           \/ (\E k \in 1 .. MaxKeys : RevokeKey(k)) \/ DismissSecret
  BY <1>3, FormsInv
<1>4. CASE \/ \E S \in SUBSET Dest : Reserve(S)
           \/ \E r \in st.addresses :
                Release(r) \/ \E d \in Dest : AddDest(r, d) \/ RemoveDest(r, d)
  BY <1>4, EditsInv
<1>5. CASE OpenSignIn \/ CloseSignIn
  BY <1>5, OverlayInv
<1>6. CASE Reload
  BY <1>6, ReloadInv
<1>7. CASE Logout
  BY <1>7, LogoutInv
<1> QED BY <1>1, <1>2, <1>3, <1>4, <1>5, <1>6, <1>7 DEF UserDoes

LEMMA CallsInv ==
  ASSUME IInv, NEW n \in DOMAIN calls, Serve(n) \/ Answer(n) PROVE IInv'
<1>1. CASE Serve(n)
  BY <1>1, ServeAccountInv, ServeKeysInv, ServeAddressesInv, PatchInv DEF Serve
<1>2. CASE StatusArrives(n) \/ SetupArrives(n) \/ LoginArrives(n)
  BY <1>2, StatusArrivesInv, SetupArrivesInv, LoginArrivesInv
<1>3. CASE KeysArrive(n) \/ KeyMade(n) \/ AddressesArrive(n) \/ AddressChanged(n)
  BY <1>3, KeysArriveInv, KeyMadeInv, AddressesArriveInv, AddressChangedInv
<1>4. CASE CallFails(n)
  BY <1>4, CallFailsInv
<1> QED BY <1>1, <1>2, <1>3, <1>4 DEF Answer

LEMMA NextInv == IInv /\ [Next]_vars => IInv'
<1> SUFFICES ASSUME IInv, [Next]_vars PROVE IInv'
  OBVIOUS
<1>1. hist \in SessionHistory /\ CallsAreSound(calls, issued, st.token)
  BY DEF IInv, Types
<1>2. ASSUME NEW u \in User, SetupElsewhere(u) PROVE IInv'
  BY <1>1, <1>2, AskInv DEF SetupElsewhere
<1>3. CASE UNCHANGED vars
  BY <1>1, <1>3, AskInv DEF vars
<1> QED BY <1>2, <1>3, UserInv, CallsInv DEF Next

LEMMA Inductive == Spec => []IInv
<1> QED BY InitInv, NextInv, PTL DEF Spec

(* Whichever logins, setups and reloads overlap, the user shown is the owner of
   the token in use until one is pasted, and a reload finds the same session. *)
THEOREM SessionStaysWhole == Spec => []SessionIsWhole
<1>1. IInv => SessionIsWhole
  BY DEF IInv
<1> QED BY <1>1, Inductive, PTL

(* The account pages list what belongs to the owner of the token in use, late
   loads of an earlier session apart. *)
THEOREM ListsStayOwn == Spec => []ListsAreOwn
<1>1. IInv => ListsAreOwn
  BY DEF IInv
<1> QED BY <1>1, Inductive, PTL
=============================================================================

-------------------------- MODULE WebAccountProofs --------------------------
(***************************************************************************)
(* More TLAPS proofs about WebSession, on the ground of the session's      *)
(* invariant: a form waits exactly while its own call is under way, the    *)
(* bounds on keys, addresses and calls hold, every address is what its     *)
(* user last made of it or will be, unless it is in doubt, and a page that *)
(* missed no answer lists its token's owner's book.                        *)
(***************************************************************************)
EXTENDS WebSessionProofs, FunctionTheorems, FiniteSetTheorems

(* What a call of a form, of the gate or about a key carries, while the page is
   in state s and so many keys are issued. *)
CallFits(c, s, keys) ==
  /\ c.form = "setup" <=> c.kind = "setup"
  /\ c.form = "login" => c.kind = "login"
  /\ c.form = "key" => c.kind \in {"mkkey", "keys"}
  /\ c.form = "reserve" => c.kind \in {"reserve", "addrs"}
  /\ c.key \in 0 .. keys
  /\ c.kind \in {"mkkey", "rmkey"} /\ c.served /\ c.ok => c.ans \in 0 .. keys
  /\ c.kind = "status" => ~s.checked
  /\ c.kind = "setup" => s.checked /\ s.needsSetup
  /\ c.kind \in {"login", "mkkey", "rmkey"} \cup Changes => s.checked /\ ~s.needsSetup

(* One call at a time for each form, and for the status. *)
OneEach(cs) ==
  \A n, k \in DOMAIN cs :
    \/ cs[n].form = cs[k].form /\ cs[n].form # ""
    \/ cs[n].kind = "status" /\ cs[k].kind = "status"
    => n = k

HasForm(cs, f) == \E n \in DOMAIN cs : cs[n].form = f

Fits(cs, s, keys, busy) ==
  /\ cs \in Seq(CallState) /\ \A n \in DOMAIN cs : CallFits(cs[n], s, keys)
  /\ OneEach(cs)
  /\ busy \subseteq Forms /\ \A f \in Forms : f \in busy <=> HasForm(cs, f)

(* The calls that become two, and those that will issue a key. *)
Logins(cs) == {n \in DOMAIN cs : cs[n].kind = "login"}
Minting(cs) == {n \in DOMAIN cs : cs[n].kind \in {"login", "setup", "mkkey"} /\ ~cs[n].served}
Load(cs) == Len(cs) + Cardinality(Logins(cs))
Due(cs) == Cardinality(Minting(cs))
Bounded(cs, keys) == Load(cs) <= MaxCalls /\ keys + Due(cs) <= MaxKeys

ViewState(keys) ==
  [page : Page, busy : SUBSET Forms, secret : 0 .. keys]

PageInv ==
  /\ accounts \subseteq User /\ revoked \subseteq DOMAIN issued /\ st.token \in Token
  /\ view \in ViewState(Len(issued))
  /\ st.signinOpen => st.checked /\ ~st.needsSetup
  /\ Fits(calls, st, Len(issued), view.busy)
  /\ Bounded(calls, Len(issued))

---------------------------------------------------------------------------
(* The ways a list of calls is built *)

LEMMA AppendOf ==
  ASSUME NEW cs \in Seq(CallState), NEW c \in CallState
  PROVE  /\ Append(cs, c) \in Seq(CallState)
         /\ Len(Append(cs, c)) = Len(cs) + 1 /\ Len(cs) \in Nat
         /\ DOMAIN Append(cs, c) = DOMAIN cs \cup {Len(cs) + 1}
         /\ \A n \in DOMAIN cs : Append(cs, c)[n] = cs[n]
         /\ Append(cs, c)[Len(cs) + 1] = c
         /\ Len(cs) + 1 \notin DOMAIN cs
OBVIOUS

(* Calls that are changed each by itself. *)
LEMMA EachOf ==
  ASSUME NEW cs \in Seq(CallState), NEW new, DOMAIN new = DOMAIN cs,
         new = [n \in DOMAIN new |-> new[n]], \A n \in DOMAIN cs : new[n] \in CallState
  PROVE  new \in Seq(CallState) /\ Len(new) = Len(cs)
<1>1. DOMAIN cs = 1 .. Len(cs) /\ Len(cs) \in Nat
  OBVIOUS
<1>2. new \in [1 .. Len(cs) -> CallState]
  BY <1>1
<1>3. new \in Seq(CallState)
  BY <1>1, <1>2, SeqDef
<1>4. Len(new) \in Nat /\ DOMAIN new = 1 .. Len(new)
  BY <1>3
<1>5. Len(new) = Len(cs)
  BY <1>1, <1>4
<1> QED BY <1>3, <1>5

LEMMA SessionOf ==
  ASSUME NEW cs \in Seq(CallState)
  PROVE  /\ NewSession(cs) \in Seq(CallState) /\ Len(NewSession(cs)) = Len(cs)
         /\ DOMAIN NewSession(cs) = DOMAIN cs
         /\ \A n \in DOMAIN cs :
              LET c == NewSession(cs)[n] IN
              /\ c \in CallState /\ c.kind = cs[n].kind /\ c.token = cs[n].token
              /\ c.arg = cs[n].arg /\ c.form = cs[n].form /\ c.key = cs[n].key
              /\ c.served = cs[n].served /\ c.ok = cs[n].ok /\ c.ans = cs[n].ans
<1> DEFINE new == NewSession(cs)
<1>1. DOMAIN new = DOMAIN cs /\ new = [n \in DOMAIN new |-> new[n]]
  BY DEF NewSession
<1>2. ASSUME NEW n \in DOMAIN cs
      PROVE  LET c == new[n] IN
              /\ c \in CallState /\ c.kind = cs[n].kind /\ c.token = cs[n].token
              /\ c.arg = cs[n].arg /\ c.form = cs[n].form /\ c.key = cs[n].key
              /\ c.served = cs[n].served /\ c.ok = cs[n].ok /\ c.ans = cs[n].ans
  <2>1. cs[n] \in CallState
    OBVIOUS
  <2>2. new[n] = cs[n] \/ new[n] = [cs[n] EXCEPT !.stale = TRUE]
    BY DEF NewSession
  <2> QED BY <2>1, <2>2 DEF CallState
<1>3. \A n \in DOMAIN cs : new[n] \in CallState
  BY <1>2
<1> HIDE DEF new
<1>4. new \in Seq(CallState) /\ Len(new) = Len(cs)
  BY <1>1, <1>3, EachOf
<1> QED BY <1>1, <1>2, <1>4 DEF new

LEMMA LateOf ==
  ASSUME NEW cs \in Seq(CallState), NEW m
  PROVE  /\ LateUpTo(cs, m) \in Seq(CallState) /\ Len(LateUpTo(cs, m)) = Len(cs)
         /\ DOMAIN LateUpTo(cs, m) = DOMAIN cs
         /\ \A n \in DOMAIN cs :
              LET c == LateUpTo(cs, m)[n] IN
              /\ c \in CallState /\ c.kind = cs[n].kind /\ c.token = cs[n].token
              /\ c.arg = cs[n].arg /\ c.form = cs[n].form /\ c.key = cs[n].key
              /\ c.stale = cs[n].stale /\ c.served = cs[n].served /\ c.ok = cs[n].ok /\ c.ans = cs[n].ans
<1> DEFINE new == LateUpTo(cs, m)
<1>1. DOMAIN new = DOMAIN cs /\ new = [n \in DOMAIN new |-> new[n]]
  BY DEF LateUpTo
<1>2. ASSUME NEW n \in DOMAIN cs
      PROVE  LET c == new[n] IN
              /\ c \in CallState /\ c.kind = cs[n].kind /\ c.token = cs[n].token
              /\ c.arg = cs[n].arg /\ c.form = cs[n].form /\ c.key = cs[n].key
              /\ c.stale = cs[n].stale /\ c.served = cs[n].served /\ c.ok = cs[n].ok /\ c.ans = cs[n].ans
  <2>1. cs[n] \in CallState
    OBVIOUS
  <2>2. new[n] = cs[n] \/ new[n] = [cs[n] EXCEPT !.late = TRUE]
    BY DEF LateUpTo
  <2> QED BY <2>1, <2>2 DEF CallState
<1>3. \A n \in DOMAIN cs : new[n] \in CallState
  BY <1>2
<1> HIDE DEF new
<1>4. new \in Seq(CallState) /\ Len(new) = Len(cs)
  BY <1>1, <1>3, EachOf
<1> QED BY <1>1, <1>2, <1>4 DEF new

SameButForm(c, d) ==
  /\ c.kind = d.kind /\ c.token = d.token /\ c.arg = d.arg /\ c.served = d.served
  /\ c.ok = d.ok /\ c.ans = d.ans /\ c.stale = d.stale /\ c.late = d.late

LEMMA UnmountsOf ==
  ASSUME NEW cs \in Seq(CallState), NEW forms
  PROVE  /\ Unmounts(forms, cs) \in Seq(CallState) /\ Len(Unmounts(forms, cs)) = Len(cs)
         /\ DOMAIN Unmounts(forms, cs) = DOMAIN cs
         /\ \A n \in DOMAIN cs : SameButForm(Unmounts(forms, cs)[n], cs[n])
         /\ \A n \in DOMAIN cs : cs[n].form \in forms =>
              Unmounts(forms, cs)[n].form = "" /\ Unmounts(forms, cs)[n].key = 0
         /\ \A n \in DOMAIN cs : cs[n].form \notin forms => Unmounts(forms, cs)[n] = cs[n]
<1> DEFINE new == Unmounts(forms, cs)
<1>1. DOMAIN new = DOMAIN cs /\ new = [n \in DOMAIN new |-> new[n]]
  BY DEF Unmounts
<1>2. ASSUME NEW n \in DOMAIN cs
      PROVE  /\ new[n] \in CallState /\ SameButForm(new[n], cs[n])
             /\ cs[n].form \in forms => new[n].form = "" /\ new[n].key = 0
             /\ cs[n].form \notin forms => new[n] = cs[n]
  <2>1. cs[n] \in CallState
    OBVIOUS
  <2>2. CASE cs[n].form \in forms
    <3>1. new[n] = [cs[n] EXCEPT !.form = "", !.key = 0]
      BY <2>2 DEF Unmounts
    <3>2. "" \in Form /\ 0 \in CallAns
      BY DEF Form, CallAns
    <3>3. new[n] \in CallState
      BY <2>1, <3>1, <3>2 DEF CallState
    <3> QED BY <2>1, <2>2, <3>1, <3>3 DEF CallState, SameButForm
  <2>3. CASE cs[n].form \notin forms
    BY <2>1, <2>3 DEF Unmounts, SameButForm
  <2> QED BY <2>2, <2>3
<1>3. \A n \in DOMAIN cs : new[n] \in CallState
  BY <1>2
<1> HIDE DEF new
<1>4. new \in Seq(CallState) /\ Len(new) = Len(cs)
  BY <1>1, <1>3, EachOf
<1> QED BY <1>1, <1>2, <1>4 DEF new

(* The n-th call answered. *)
Answered(cs, n, ok, ans) == [cs EXCEPT ![n].served = TRUE, ![n].ok = ok, ![n].ans = ans]

LEMMA ServedOf ==
  ASSUME NEW cs \in Seq(CallState), NEW n \in DOMAIN cs, NEW ok \in BOOLEAN, NEW ans \in CallAns,
         NEW new, new = Answered(cs, n, ok, ans)
  PROVE  /\ new \in Seq(CallState) /\ Len(new) = Len(cs) /\ DOMAIN new = DOMAIN cs
         /\ \A k \in DOMAIN cs :
              /\ new[k].kind = cs[k].kind /\ new[k].token = cs[k].token /\ new[k].arg = cs[k].arg
              /\ new[k].form = cs[k].form /\ new[k].key = cs[k].key
              /\ new[k].stale = cs[k].stale /\ new[k].late = cs[k].late
              /\ k # n => new[k] = cs[k]
         /\ new[n].served /\ new[n].ok = ok /\ new[n].ans = ans
<1>1. cs[n] \in CallState
  OBVIOUS
<1> DEFINE c == [[[cs[n] EXCEPT !.served = TRUE] EXCEPT !.ok = ok] EXCEPT !.ans = ans]
<1>2. /\ c \in CallState /\ c.kind = cs[n].kind /\ c.token = cs[n].token /\ c.arg = cs[n].arg
      /\ c.form = cs[n].form /\ c.key = cs[n].key /\ c.stale = cs[n].stale /\ c.late = cs[n].late
      /\ c.served /\ c.ok = ok /\ c.ans = ans
  BY <1>1 DEF CallState
<1>3. new = [cs EXCEPT ![n] = c]
  BY DEF Answered
<1> HIDE DEF c
<1>4. DOMAIN new = DOMAIN cs /\ new[n] = c /\ \A k \in DOMAIN cs : k # n => new[k] = cs[k]
  BY <1>3
<1>5. new \in Seq(CallState) /\ Len(new) = Len(cs)
  <2>1. new = [k \in DOMAIN new |-> new[k]]
    BY <1>3
  <2>2. \A k \in DOMAIN cs : new[k] \in CallState
    BY <1>2, <1>4
  <2> QED BY <1>4, <2>1, <2>2, EachOf
<1> QED BY <1>2, <1>4, <1>5

---------------------------------------------------------------------------
(* What fits stays fitting *)

LEMMA AppendFits ==
  ASSUME NEW cs, NEW s, NEW keys, NEW busy, Fits(cs, s, keys, busy),
         NEW c \in CallState, CallFits(c, s, keys), c.form \notin busy,
         c.kind = "status" => cs = <<>>
  PROVE  Fits(Append(cs, c), s, keys, busy \cup ({c.form} \ {""}))
<1> DEFINE new == Append(cs, c)
           waits == busy \cup ({c.form} \ {""})
<1>1. /\ cs \in Seq(CallState) /\ OneEach(cs) /\ busy \subseteq Forms
      /\ \A n \in DOMAIN cs : CallFits(cs[n], s, keys)
      /\ \A f \in Forms : f \in busy <=> HasForm(cs, f)
  BY DEF Fits
<1> DEFINE last == Len(cs) + 1
<1>2. /\ new \in Seq(CallState) /\ DOMAIN new = DOMAIN cs \cup {last} /\ last \notin DOMAIN cs
      /\ \A n \in DOMAIN cs : new[n] = cs[n]
      /\ new[last] = c
  BY <1>1, AppendOf
<1>3. c.form \in Forms \cup {""}
  BY DEF CallState, Form
<1> HIDE DEF new, last
<1>4. \A n \in DOMAIN new : CallFits(new[n], s, keys)
  BY <1>1, <1>2
<1>5. \A n \in DOMAIN cs : cs[n].form = c.form => c.form = ""
  BY <1>1, <1>3 DEF HasForm
<1>6. \A n \in DOMAIN cs : c.kind # "status"
  OBVIOUS
<1>7. OneEach(new)
  <2>1. ASSUME NEW n \in DOMAIN new, NEW k \in DOMAIN new,
               \/ new[n].form = new[k].form /\ new[n].form # ""
               \/ new[n].kind = "status" /\ new[k].kind = "status"
        PROVE  n = k
    <3>1. CASE n \in DOMAIN cs /\ k \in DOMAIN cs
      BY <1>1, <1>2, <2>1, <3>1 DEF OneEach
    <3>2. CASE n = last /\ k \in DOMAIN cs
      BY <1>2, <1>5, <1>6, <2>1, <3>2
    <3>3. CASE n \in DOMAIN cs /\ k = last
      BY <1>2, <1>5, <1>6, <2>1, <3>3
    <3> QED BY <1>2, <3>1, <3>2, <3>3
  <2> QED BY <2>1 DEF OneEach
<1>8. ASSUME NEW f \in Forms PROVE f \in waits <=> HasForm(new, f)
  <2>1. HasForm(new, f) <=> HasForm(cs, f) \/ c.form = f
    BY <1>2 DEF HasForm
  <2>2. f # ""
    BY DEF Forms
  <2> QED BY <1>1, <2>1, <2>2
<1>9. waits \subseteq Forms
  BY <1>1, <1>3
<1> HIDE DEF waits
<1> QED BY <1>2, <1>4, <1>7, <1>8, <1>9 DEF Fits, new, waits

LEMMA RestFits ==
  ASSUME NEW cs, NEW s, NEW keys, NEW busy, Fits(cs, s, keys, busy), NEW n \in DOMAIN cs
  PROVE  Fits(RemoveAt(cs, n), s, keys, busy \ {cs[n].form})
<1> DEFINE new == RemoveAt(cs, n)
<1>1. /\ cs \in Seq(CallState) /\ OneEach(cs) /\ busy \subseteq Forms
      /\ \A k \in DOMAIN cs : CallFits(cs[k], s, keys)
      /\ \A f \in Forms : f \in busy <=> HasForm(cs, f)
  BY DEF Fits
<1>2. /\ new \in Seq(CallState)
      /\ \A k \in DOMAIN new : Before(k, n) \in DOMAIN cs \ {n} /\ new[k] = cs[Before(k, n)]
      /\ \A j, k \in DOMAIN new : Before(j, n) = Before(k, n) => j = k
      /\ \A j \in DOMAIN cs \ {n} : \E k \in DOMAIN new : j = Before(k, n)
  BY <1>1, RestOf
<1> HIDE DEF new
<1>3. \A k \in DOMAIN new : CallFits(new[k], s, keys)
  BY <1>1, <1>2
<1>4. OneEach(new)
  <2>1. ASSUME NEW j \in DOMAIN new, NEW k \in DOMAIN new,
               \/ new[j].form = new[k].form /\ new[j].form # ""
               \/ new[j].kind = "status" /\ new[k].kind = "status"
        PROVE  j = k
    <3>1. /\ Before(j, n) \in DOMAIN cs /\ new[j] = cs[Before(j, n)]
          /\ Before(k, n) \in DOMAIN cs /\ new[k] = cs[Before(k, n)]
      BY <1>2
    <3>2. Before(j, n) = Before(k, n)
      BY <1>1, <2>1, <3>1 DEF OneEach
    <3> QED BY <1>2, <3>2
  <2> QED BY <2>1 DEF OneEach
<1>5. ASSUME NEW f \in Forms PROVE f \in busy \ {cs[n].form} <=> HasForm(new, f)
  <2>1. f # ""
    BY DEF Forms
  <2>2. ASSUME f \in busy, f # cs[n].form PROVE HasForm(new, f)
    <3>1. PICK j \in DOMAIN cs : cs[j].form = f
      BY <1>1, <2>2 DEF HasForm
    <3>2. PICK k \in DOMAIN new : j = Before(k, n)
      BY <1>2, <2>2, <3>1
    <3> QED BY <1>2, <3>1, <3>2 DEF HasForm
  <2>3. ASSUME HasForm(new, f) PROVE f \in busy /\ f # cs[n].form
    <3>1. PICK k \in DOMAIN new : new[k].form = f
      BY <2>3 DEF HasForm
    <3>2. Before(k, n) \in DOMAIN cs /\ Before(k, n) # n /\ cs[Before(k, n)].form = f
      BY <1>2, <3>1
    <3>3. HasForm(cs, f)
      BY <3>2 DEF HasForm
    <3>4. f # cs[n].form
      BY <1>1, <2>1, <3>2 DEF OneEach
    <3> QED BY <1>1, <3>3, <3>4
  <2> QED BY <2>2, <2>3
<1> QED BY <1>1, <1>2, <1>3, <1>4, <1>5 DEF Fits, new

(* Calls changed each by itself, of which no more is said than was. *)
LEMMA SameFits ==
  ASSUME NEW cs, NEW s, NEW keys, NEW busy, Fits(cs, s, keys, busy),
         NEW new \in Seq(CallState), DOMAIN new = DOMAIN cs, NEW t, NEW more,
         NEW forms \in SUBSET {"login", "key", "reserve"},
         \A n \in DOMAIN cs : CallFits(cs[n], s, keys) => CallFits(new[n], t, more),
         \A n \in DOMAIN cs : /\ new[n].kind = cs[n].kind
                              /\ new[n].form = IF cs[n].form \in forms THEN "" ELSE cs[n].form
  PROVE  Fits(new, t, more, busy \ forms)
<1>1. /\ OneEach(cs) /\ busy \subseteq Forms
      /\ \A n \in DOMAIN cs : CallFits(cs[n], s, keys)
      /\ \A f \in Forms : f \in busy <=> HasForm(cs, f)
  BY DEF Fits
<1>2. \A n \in DOMAIN new : CallFits(new[n], t, more)
  BY <1>1
<1>3. OneEach(new)
  BY <1>1 DEF OneEach
<1>4. ASSUME NEW f \in Forms PROVE f \in busy \ forms <=> HasForm(new, f)
  <2>1. f # ""
    BY DEF Forms
  <2>2. HasForm(new, f) <=> HasForm(cs, f) /\ f \notin forms
    BY <2>1 DEF HasForm
  <2> QED BY <1>1, <2>2
<1>5. busy \ forms \subseteq Forms
  BY <1>1
<1> QED BY <1>2, <1>3, <1>4, <1>5 DEF Fits

LEMMA SessionFits ==
  ASSUME NEW cs, NEW s, NEW keys, NEW busy, Fits(cs, s, keys, busy)
  PROVE  Fits(NewSession(cs), s, keys, busy)
<1> DEFINE new == NewSession(cs)
<1>1. cs \in Seq(CallState)
  BY DEF Fits
<1>2. /\ new \in Seq(CallState) /\ DOMAIN new = DOMAIN cs
      /\ \A n \in DOMAIN cs :
           /\ new[n].kind = cs[n].kind /\ new[n].form = cs[n].form /\ new[n].key = cs[n].key
           /\ new[n].served = cs[n].served /\ new[n].ok = cs[n].ok /\ new[n].ans = cs[n].ans
  BY <1>1, SessionOf
<1> HIDE DEF new
<1>3. \A n \in DOMAIN cs : CallFits(cs[n], s, keys) => CallFits(new[n], s, keys)
  BY <1>2 DEF CallFits
<1>4. \A n \in DOMAIN cs : /\ new[n].kind = cs[n].kind
                           /\ new[n].form = IF cs[n].form \in {} THEN "" ELSE cs[n].form
  BY <1>2
<1>5. Fits(new, s, keys, busy \ {})
  BY <1>2, <1>3, <1>4, SameFits
<1>6. busy \ {} = busy
  OBVIOUS
<1> QED BY <1>5, <1>6 DEF new

LEMMA LateFits ==
  ASSUME NEW cs, NEW s, NEW keys, NEW busy, NEW m, Fits(cs, s, keys, busy)
  PROVE  Fits(LateUpTo(cs, m), s, keys, busy)
<1> DEFINE new == LateUpTo(cs, m)
<1>1. cs \in Seq(CallState)
  BY DEF Fits
<1>2. /\ new \in Seq(CallState) /\ DOMAIN new = DOMAIN cs
      /\ \A n \in DOMAIN cs :
           /\ new[n].kind = cs[n].kind /\ new[n].form = cs[n].form /\ new[n].key = cs[n].key
           /\ new[n].served = cs[n].served /\ new[n].ok = cs[n].ok /\ new[n].ans = cs[n].ans
  BY <1>1, LateOf
<1> HIDE DEF new
<1>3. \A n \in DOMAIN cs : CallFits(cs[n], s, keys) => CallFits(new[n], s, keys)
  BY <1>2 DEF CallFits
<1>4. \A n \in DOMAIN cs : /\ new[n].kind = cs[n].kind
                           /\ new[n].form = IF cs[n].form \in {} THEN "" ELSE cs[n].form
  BY <1>2
<1>5. Fits(new, s, keys, busy \ {})
  BY <1>2, <1>3, <1>4, SameFits
<1>6. busy \ {} = busy
  OBVIOUS
<1> QED BY <1>5, <1>6 DEF new

LEMMA UnmountFits ==
  ASSUME NEW cs, NEW s, NEW keys \in Nat, NEW busy, Fits(cs, s, keys, busy),
         NEW forms \in SUBSET {"login", "key", "reserve"}
  PROVE  Fits(Unmounts(forms, cs), s, keys, busy \ forms)
<1> DEFINE new == Unmounts(forms, cs)
<1>1. cs \in Seq(CallState)
  BY DEF Fits
<1>2. /\ new \in Seq(CallState) /\ DOMAIN new = DOMAIN cs
      /\ \A n \in DOMAIN cs : SameButForm(new[n], cs[n])
      /\ \A n \in DOMAIN cs : cs[n].form \in forms => new[n].form = "" /\ new[n].key = 0
      /\ \A n \in DOMAIN cs : cs[n].form \notin forms => new[n] = cs[n]
  <2>1. new \in Seq(CallState) /\ DOMAIN new = DOMAIN cs
    BY <1>1, UnmountsOf
  <2>2. \A n \in DOMAIN cs : SameButForm(new[n], cs[n])
    BY <1>1, UnmountsOf
  <2>3. \A n \in DOMAIN cs : cs[n].form \in forms => new[n].form = "" /\ new[n].key = 0
    BY <1>1, UnmountsOf
  <2>4. \A n \in DOMAIN cs : cs[n].form \notin forms => new[n] = cs[n]
    BY DEF Unmounts
  <2> QED BY <2>1, <2>2, <2>3, <2>4
<1> HIDE DEF new
<1>3. ASSUME NEW n \in DOMAIN cs, CallFits(cs[n], s, keys)
      PROVE  CallFits(new[n], s, keys)
  <2>1. CASE cs[n].form \in forms
    <3>1. SameButForm(new[n], cs[n]) /\ new[n].form = "" /\ new[n].key = 0 /\ cs[n].form # "setup"
      BY <1>2, <2>1
    <3>2. 0 \in 0 .. keys
      OBVIOUS
    <3> QED BY <1>3, <3>1, <3>2 DEF CallFits, SameButForm
  <2>2. CASE cs[n].form \notin forms
    BY <1>2, <1>3, <2>2
  <2> QED BY <2>1, <2>2
<1>4. \A n \in DOMAIN cs : /\ new[n].kind = cs[n].kind
                           /\ new[n].form = IF cs[n].form \in forms THEN "" ELSE cs[n].form
  BY <1>2 DEF SameButForm
<1>5. \A n \in DOMAIN cs : CallFits(cs[n], s, keys) => CallFits(new[n], s, keys)
  BY <1>3
<1>6. Fits(new, s, keys, busy \ forms)
  BY <1>2, <1>4, <1>5, SameFits
<1> QED BY <1>6 DEF new

LEMMA ServedFits ==
  ASSUME NEW cs, NEW s, NEW keys \in Nat, NEW more \in Nat, keys <= more, NEW busy,
         Fits(cs, s, keys, busy), NEW n \in DOMAIN cs, NEW ok \in BOOLEAN, NEW ans \in CallAns,
         cs[n].kind \in {"mkkey", "rmkey"} /\ ok => ans \in 0 .. more
  PROVE  Fits(Answered(cs, n, ok, ans), s, more, busy)
<1> DEFINE new == Answered(cs, n, ok, ans)
<1>1. cs \in Seq(CallState)
  BY DEF Fits
<1>2. /\ new \in Seq(CallState) /\ DOMAIN new = DOMAIN cs
      /\ \A k \in DOMAIN cs :
           /\ new[k].kind = cs[k].kind /\ new[k].form = cs[k].form /\ new[k].key = cs[k].key
           /\ k # n => new[k] = cs[k]
      /\ new[n].served /\ new[n].ok = ok /\ new[n].ans = ans
  BY <1>1, ServedOf
<1> HIDE DEF new
<1>3. \A k \in DOMAIN cs : CallFits(cs[k], s, keys) => CallFits(new[k], s, more)
  BY <1>2 DEF CallFits
<1>4. \A k \in DOMAIN cs : /\ new[k].kind = cs[k].kind
                           /\ new[k].form = IF cs[k].form \in {} THEN "" ELSE cs[k].form
  BY <1>2
<1>5. Fits(new, s, more, busy \ {})
  BY <1>2, <1>3, <1>4, SameFits
<1>6. busy \ {} = busy
  OBVIOUS
<1> QED BY <1>5, <1>6 DEF new

(* The page's state changes, the calls do not. *)
LEMMA StateFits ==
  ASSUME NEW cs, NEW s, NEW keys, NEW busy, Fits(cs, s, keys, busy), NEW t,
         \A n \in DOMAIN cs : CallFits(cs[n], s, keys) => CallFits(cs[n], t, keys)
  PROVE  Fits(cs, t, keys, busy)
BY DEF Fits

LEMMA SameStateFits ==
  ASSUME NEW cs, NEW s, NEW keys, NEW busy, Fits(cs, s, keys, busy), NEW t,
         t.checked = s.checked, t.needsSetup = s.needsSetup
  PROVE  Fits(cs, t, keys, busy)
BY StateFits DEF CallFits

---------------------------------------------------------------------------
(* Sizes *)

LEMMA SizeTypes ==
  ASSUME NEW cs \in Seq(CallState)
  PROVE  /\ IsFiniteSet(Logins(cs)) /\ IsFiniteSet(Minting(cs))
         /\ Cardinality(Logins(cs)) \in Nat /\ Due(cs) \in Nat
         /\ Len(cs) \in Nat /\ Load(cs) \in Nat /\ Len(cs) <= Load(cs)
<1>1. DOMAIN cs = 1 .. Len(cs) /\ Len(cs) \in Nat
  OBVIOUS
<1>2. IsFiniteSet(1 .. Len(cs))
  BY <1>1, FS_Interval
<1>3. Logins(cs) \in SUBSET (1 .. Len(cs)) /\ Minting(cs) \in SUBSET (1 .. Len(cs))
  BY <1>1 DEF Logins, Minting
<1>4. IsFiniteSet(Logins(cs)) /\ IsFiniteSet(Minting(cs))
  BY <1>2, <1>3, FS_Subset
<1>5. Cardinality(Logins(cs)) \in Nat /\ Cardinality(Minting(cs)) \in Nat
  BY <1>4, FS_CardinalityType
<1> QED BY <1>1, <1>4, <1>5 DEF Load, Due

LEMMA SameSizes ==
  ASSUME NEW cs, NEW new, DOMAIN new = DOMAIN cs, Len(new) = Len(cs),
         \A n \in DOMAIN cs : new[n].kind = cs[n].kind /\ new[n].served = cs[n].served
  PROVE  Load(new) = Load(cs) /\ Due(new) = Due(cs)
<1>1. Logins(new) = Logins(cs) /\ Minting(new) = Minting(cs)
  BY DEF Logins, Minting
<1> QED BY <1>1 DEF Load, Due

SameSize(new, cs) == Load(new) = Load(cs) /\ Due(new) = Due(cs)
OneMore(new, cs) == Load(new) = Load(cs) + 1 /\ Due(new) = Due(cs)

LEMMA SessionSizes ==
  ASSUME NEW cs \in Seq(CallState) PROVE SameSize(NewSession(cs), cs)
<1> DEFINE new == NewSession(cs)
<1>1. /\ DOMAIN new = DOMAIN cs /\ Len(new) = Len(cs)
      /\ \A n \in DOMAIN cs : new[n].kind = cs[n].kind /\ new[n].served = cs[n].served
  BY SessionOf
<1> HIDE DEF new
<1>2. Load(new) = Load(cs) /\ Due(new) = Due(cs)
  BY <1>1, SameSizes
<1> QED BY <1>2 DEF new, SameSize

LEMMA LateSizes ==
  ASSUME NEW cs \in Seq(CallState), NEW m PROVE SameSize(LateUpTo(cs, m), cs)
<1> DEFINE new == LateUpTo(cs, m)
<1>1. /\ DOMAIN new = DOMAIN cs /\ Len(new) = Len(cs)
      /\ \A n \in DOMAIN cs : new[n].kind = cs[n].kind /\ new[n].served = cs[n].served
  BY LateOf
<1> HIDE DEF new
<1>2. Load(new) = Load(cs) /\ Due(new) = Due(cs)
  BY <1>1, SameSizes
<1> QED BY <1>2 DEF new, SameSize

LEMMA UnmountSizes ==
  ASSUME NEW cs \in Seq(CallState), NEW forms PROVE SameSize(Unmounts(forms, cs), cs)
<1> DEFINE new == Unmounts(forms, cs)
<1>1. /\ DOMAIN new = DOMAIN cs /\ Len(new) = Len(cs)
      /\ \A n \in DOMAIN cs : SameButForm(new[n], cs[n])
  BY UnmountsOf
<1> HIDE DEF new
<1>2. \A n \in DOMAIN cs : new[n].kind = cs[n].kind /\ new[n].served = cs[n].served
  BY <1>1 DEF SameButForm
<1>3. Load(new) = Load(cs) /\ Due(new) = Due(cs)
  BY <1>1, <1>2, SameSizes
<1> QED BY <1>3 DEF new, SameSize

LoadOf(c) == IF c.kind = "login" THEN 2 ELSE 1
DueOf(c) == IF c.kind \in {"login", "setup", "mkkey"} /\ ~c.served THEN 1 ELSE 0

LEMMA AppendSizes ==
  ASSUME NEW cs \in Seq(CallState), NEW c \in CallState
  PROVE  /\ Load(Append(cs, c)) = Load(cs) + LoadOf(c)
         /\ Due(Append(cs, c)) = Due(cs) + DueOf(c)
<1> DEFINE new == Append(cs, c)
           last == Len(cs) + 1
<1>1. /\ DOMAIN new = DOMAIN cs \cup {last} /\ last \notin DOMAIN cs /\ Len(new) = Len(cs) + 1
      /\ \A n \in DOMAIN cs : new[n] = cs[n]
      /\ new[last] = c /\ Len(cs) \in Nat
  BY AppendOf
<1> HIDE DEF new, last
<1>2. /\ IsFiniteSet(Logins(cs)) /\ IsFiniteSet(Minting(cs))
      /\ Cardinality(Logins(cs)) \in Nat /\ Cardinality(Minting(cs)) \in Nat
  BY SizeTypes DEF Due
<1>3. last \notin Logins(cs) /\ last \notin Minting(cs)
  BY <1>1 DEF Logins, Minting
<1>4. /\ Cardinality(Logins(cs) \cup {last}) = Cardinality(Logins(cs)) + 1
      /\ Cardinality(Minting(cs) \cup {last}) = Cardinality(Minting(cs)) + 1
  BY <1>2, <1>3, FS_AddElement
<1>5. Load(new) = Load(cs) + LoadOf(c)
  <2>1. CASE c.kind = "login"
    <3>1. Logins(new) = Logins(cs) \cup {last}
      BY <1>1, <2>1 DEF Logins
    <3> QED BY <1>1, <1>2, <1>4, <2>1, <3>1 DEF Load, LoadOf
  <2>2. CASE c.kind # "login"
    <3>1. Logins(new) = Logins(cs)
      BY <1>1, <2>2 DEF Logins
    <3> QED BY <1>1, <1>2, <2>2, <3>1 DEF Load, LoadOf
  <2> QED BY <2>1, <2>2
<1>6. Due(new) = Due(cs) + DueOf(c)
  <2>1. CASE c.kind \in {"login", "setup", "mkkey"} /\ ~c.served
    <3>1. Minting(new) = Minting(cs) \cup {last}
      BY <1>1, <2>1 DEF Minting
    <3> QED BY <1>2, <1>4, <2>1, <3>1 DEF Due, DueOf
  <2>2. CASE ~(c.kind \in {"login", "setup", "mkkey"} /\ ~c.served)
    <3>1. Minting(new) = Minting(cs)
      BY <1>1, <2>2 DEF Minting
    <3> QED BY <1>2, <2>2, <3>1 DEF Due, DueOf
  <2> QED BY <2>1, <2>2
<1> QED BY <1>5, <1>6 DEF new

LEMMA PlainAppendSizes ==
  ASSUME NEW cs \in Seq(CallState), NEW c \in CallState,
         c.kind \notin {"login", "setup", "mkkey"}
  PROVE  OneMore(Append(cs, c), cs)
<1>1. LoadOf(c) = 1 /\ DueOf(c) = 0
  BY DEF LoadOf, DueOf
<1>2. Due(cs) \in Nat
  BY SizeTypes
<1>3. Load(Append(cs, c)) = Load(cs) + 1 /\ Due(Append(cs, c)) = Due(cs) + 0
  BY <1>1, AppendSizes
<1> QED BY <1>2, <1>3 DEF OneMore

(* The places of some calls, after the n-th was taken out. *)
LEMMA ShiftedSize ==
  ASSUME NEW cs \in Seq(CallState), NEW n \in DOMAIN cs, NEW S \in SUBSET DOMAIN cs,
         NEW T, T = {k \in DOMAIN RemoveAt(cs, n) : Before(k, n) \in S}
  PROVE  Cardinality(T) = Cardinality(S) - (IF n \in S THEN 1 ELSE 0)
<1> DEFINE new == RemoveAt(cs, n)
           f == [k \in T |-> Before(k, n)]
<1>1. /\ \A k \in DOMAIN new : Before(k, n) \in DOMAIN cs \ {n}
      /\ \A j, k \in DOMAIN new : Before(j, n) = Before(k, n) => j = k
      /\ \A j \in DOMAIN cs \ {n} : \E k \in DOMAIN new : j = Before(k, n)
      /\ DOMAIN cs = 1 .. Len(cs) /\ Len(cs) \in Nat
  BY RestOf
<1>2. T = {k \in DOMAIN new : Before(k, n) \in S}
  OBVIOUS
<1> HIDE DEF new
<1>3. f \in [T -> S \ {n}] /\ \A a, b \in T : f[a] = f[b] => a = b
  BY <1>1, <1>2
<1>4. \A t \in S \ {n} : \E k \in T : f[k] = t
  BY <1>1, <1>2
<1> HIDE DEF f
<1>5. f \in Bijection(T, S \ {n})
  BY <1>3, <1>4, Fun_IsBij
<1>6. ExistsBijection(S \ {n}, T)
  <2>1. ExistsBijection(T, S \ {n})
    BY <1>5 DEF ExistsBijection
  <2> QED BY <2>1, Fun_ExistsBijSymmetric
<1>7. IsFiniteSet(S)
  <2>1. IsFiniteSet(1 .. Len(cs))
    BY <1>1, FS_Interval
  <2>2. S \in SUBSET (1 .. Len(cs))
    BY <1>1
  <2> QED BY <2>1, <2>2, FS_Subset
<1>8. /\ IsFiniteSet(S \ {n})
      /\ Cardinality(S \ {n}) = IF n \in S THEN Cardinality(S) - 1 ELSE Cardinality(S)
  BY <1>7, FS_RemoveElement
<1>9. Cardinality(T) = Cardinality(S \ {n})
  BY <1>6, <1>8, FS_Bijection
<1>10. Cardinality(S) \in Nat
  BY <1>7, FS_CardinalityType
<1> QED BY <1>8, <1>9, <1>10

LEMMA RestSizes ==
  ASSUME NEW cs \in Seq(CallState), NEW n \in DOMAIN cs
  PROVE  /\ Load(RemoveAt(cs, n)) = Load(cs) - LoadOf(cs[n])
         /\ Due(RemoveAt(cs, n)) = Due(cs) - DueOf(cs[n])
<1> DEFINE new == RemoveAt(cs, n)
<1>1. /\ Len(new) = Len(cs) - 1 /\ Len(cs) \in Nat
      /\ \A k \in DOMAIN new : Before(k, n) \in DOMAIN cs \ {n} /\ new[k] = cs[Before(k, n)]
  BY RestOf
<1>2. Cardinality(Logins(cs)) \in Nat /\ Cardinality(Minting(cs)) \in Nat
  BY SizeTypes DEF Due
<1>3. /\ Logins(cs) \in SUBSET DOMAIN cs /\ Minting(cs) \in SUBSET DOMAIN cs
      /\ n \in Logins(cs) <=> cs[n].kind = "login"
      /\ n \in Minting(cs) <=> cs[n].kind \in {"login", "setup", "mkkey"} /\ ~cs[n].served
  BY DEF Logins, Minting
<1>4. Logins(new) = {k \in DOMAIN new : Before(k, n) \in Logins(cs)}
  <2> HIDE DEF new
  <2> QED BY <1>1 DEF Logins
<1>5. Minting(new) = {k \in DOMAIN new : Before(k, n) \in Minting(cs)}
  <2> HIDE DEF new
  <2> QED BY <1>1 DEF Minting
<1>6. Cardinality(Logins(new)) = Cardinality(Logins(cs)) - (IF n \in Logins(cs) THEN 1 ELSE 0)
  BY <1>3, <1>4, ShiftedSize
<1>7. Cardinality(Minting(new)) = Cardinality(Minting(cs)) - (IF n \in Minting(cs) THEN 1 ELSE 0)
  BY <1>3, <1>5, ShiftedSize
<1> HIDE DEF new
<1>8. Load(new) = Load(cs) - LoadOf(cs[n])
  BY <1>1, <1>2, <1>3, <1>6 DEF Load, LoadOf
<1>9. Due(new) = Due(cs) - DueOf(cs[n])
  BY <1>2, <1>3, <1>7 DEF Due, DueOf
<1> QED BY <1>8, <1>9 DEF new

LEMMA ServedSizes ==
  ASSUME NEW cs \in Seq(CallState), NEW n \in DOMAIN cs, NEW ok \in BOOLEAN, NEW ans \in CallAns,
         ~cs[n].served
  PROVE  /\ Load(Answered(cs, n, ok, ans)) = Load(cs)
         /\ Due(Answered(cs, n, ok, ans)) = Due(cs) - DueOf(cs[n])
<1> DEFINE new == Answered(cs, n, ok, ans)
<1>1. /\ DOMAIN new = DOMAIN cs /\ Len(new) = Len(cs)
      /\ \A k \in DOMAIN cs : new[k].kind = cs[k].kind /\ (k # n => new[k] = cs[k])
      /\ new[n].served
  BY ServedOf
<1> HIDE DEF new
<1>2. IsFiniteSet(Minting(cs)) /\ Cardinality(Minting(cs)) \in Nat
  BY SizeTypes DEF Due
<1>3. Logins(new) = Logins(cs) /\ Minting(new) = Minting(cs) \ {n}
  BY <1>1 DEF Logins, Minting
<1>4. Cardinality(Minting(cs) \ {n}) =
        IF n \in Minting(cs) THEN Cardinality(Minting(cs)) - 1 ELSE Cardinality(Minting(cs))
  BY <1>2, FS_RemoveElement
<1>5. n \in Minting(cs) <=> cs[n].kind \in {"login", "setup", "mkkey"} /\ ~cs[n].served
  BY DEF Minting
<1>6. Load(new) = Load(cs)
  BY <1>1, <1>3 DEF Load
<1>7. Due(new) = Due(cs) - DueOf(cs[n])
  BY <1>2, <1>3, <1>4, <1>5 DEF Due, DueOf
<1> QED BY <1>6, <1>7 DEF new

---------------------------------------------------------------------------
(* A call as it is sent *)

LEMMA CallIsState ==
  ASSUME NEW kind \in Kind, NEW t \in Nat, NEW arg \in CallArg, NEW form \in Form,
         NEW key \in CallAns
  PROVE  Call(kind, t, arg, form, key) \in CallState
<1>1. 0 \in CallAns
  BY DEF CallAns
<1> QED BY <1>1 DEF Call, CallState

LEMMA KeysUpTo ==
  ASSUME NEW keys \in Nat PROVE 0 \in 0 .. keys /\ \A key \in 0 .. keys : key \in Nat
OBVIOUS

LEMMA NoneSize == Load(<<>>) = 0 /\ Due(<<>>) = 0
<1>1. Logins(<<>>) = {} /\ Minting(<<>>) = {} /\ Len(<<>>) = 0
  BY DEF Logins, Minting
<1>2. Cardinality({}) = 0
  BY FS_EmptySet
<1>3. 0 + 0 = 0
  OBVIOUS
<1> HIDE DEF Logins, Minting
<1>4. Due(<<>>) = 0
  BY <1>1, <1>2, Zenon DEF Due
<1>5. Load(<<>>) = 0 + 0
  BY <1>1, <1>2, Zenon DEF Load
<1> QED BY <1>3, <1>4, <1>5

(* A load that a form of the keys page, or nothing, waits for. *)
OfKeys(form, key, keys) == form \in {"", "key"} /\ key \in 0 .. keys
OfAddresses(form) == form \in {"", "reserve"}

LEMMA KeysLoadFits ==
  ASSUME NEW cs, NEW s, NEW keys \in Nat, NEW busy, Fits(cs, s, keys, busy),
         s.user # NoUser, s.token \in Nat, NEW form, NEW key, OfKeys(form, key, keys),
         form \notin busy
  PROVE  /\ Fits(LoadKeys(s, cs, form, key), s, keys, busy \cup ({form} \ {""}))
         /\ OneMore(LoadKeys(s, cs, form, key), cs)
<1> DEFINE c == Call("keys", s.token, 0, form, key)
<1>1. c \in CallState
  <2>1. "keys" \in Kind /\ form \in Form
    BY DEF Kind, Form, Forms, OfKeys
  <2>2. 0 \in CallArg /\ key \in CallAns
    <3>1. key \in Nat /\ 0 \in Nat
      BY KeysUpTo DEF OfKeys
    <3> QED BY <3>1 DEF CallArg, CallAns
  <2> QED BY <2>1, <2>2, CallIsState
<1>2. c \in CallState /\ c.kind = "keys" /\ c.form = form /\ c.key = key /\ ~c.served
  BY <1>1 DEF Call
<1>3. LoadKeys(s, cs, form, key) = Append(cs, c)
  BY DEF LoadKeys
<1> HIDE DEF c
<1>4. CallFits(c, s, keys)
  BY <1>2 DEF CallFits, Changes, Edits, OfKeys
<1>5. c.form \notin busy /\ c.kind # "status"
  BY <1>2
<1>6. Fits(Append(cs, c), s, keys, busy \cup ({c.form} \ {""}))
  BY <1>2, <1>4, <1>5, AppendFits
<1>7. cs \in Seq(CallState)
  BY DEF Fits
<1>8. OneMore(Append(cs, c), cs)
  BY <1>2, <1>7, PlainAppendSizes
<1>9. Fits(Append(cs, c), s, keys, busy \cup ({form} \ {""}))
  BY <1>2, <1>6
<1> QED BY <1>3, <1>8, <1>9

LEMMA AddressesLoadFits ==
  ASSUME NEW cs, NEW s, NEW keys \in Nat, NEW busy, Fits(cs, s, keys, busy),
         s.user # NoUser, s.token \in Nat, NEW form, OfAddresses(form), form \notin busy
  PROVE  /\ Fits(LoadAddresses(s, cs, form), s, keys, busy \cup ({form} \ {""}))
         /\ OneMore(LoadAddresses(s, cs, form), cs)
<1> DEFINE c == Call("addrs", s.token, 0, form, 0)
<1>1. c \in CallState
  <2>1. "addrs" \in Kind /\ form \in Form
    BY DEF Kind, Form, Forms, OfAddresses
  <2>2. 0 \in CallArg /\ 0 \in CallAns
    BY DEF CallArg, CallAns
  <2> QED BY <2>1, <2>2, CallIsState
<1>2. c \in CallState /\ c.kind = "addrs" /\ c.form = form /\ c.key = 0 /\ ~c.served
  BY <1>1 DEF Call
<1>3. LoadAddresses(s, cs, form) = Append(cs, c)
  BY DEF LoadAddresses
<1> HIDE DEF c
<1>4. CallFits(c, s, keys)
  <2>1. 0 \in 0 .. keys
    BY KeysUpTo
  <2> QED BY <1>2, <2>1 DEF CallFits, Changes, Edits, OfAddresses
<1>5. c.form \notin busy /\ c.kind # "status"
  BY <1>2
<1>6. Fits(Append(cs, c), s, keys, busy \cup ({c.form} \ {""}))
  BY <1>2, <1>4, <1>5, AppendFits
<1>7. cs \in Seq(CallState)
  BY DEF Fits
<1>8. OneMore(Append(cs, c), cs)
  BY <1>2, <1>7, PlainAppendSizes
<1>9. Fits(Append(cs, c), s, keys, busy \cup ({form} \ {""}))
  BY <1>2, <1>6
<1> QED BY <1>3, <1>8, <1>9

(* The load of the page that the gate opens onto, if there is one. *)
LEMMA MountFits ==
  ASSUME NEW cs, NEW s, NEW keys \in Nat, NEW busy, Fits(cs, s, keys, busy),
         s.token \in Nat, NEW page
  PROVE  /\ Fits(Mounts(s, cs, page), s, keys, busy)
         /\ Mounts(s, cs, page) = cs \/ OneMore(Mounts(s, cs, page), cs)
<1>1. PICK form, k : form = "" /\ k = 0
  OBVIOUS
<1>2. busy \cup ({form} \ {""}) = busy /\ form \notin busy
  BY <1>1 DEF Fits, Forms
<1>3. OfKeys(form, k, keys) /\ OfAddresses(form)
  <2>1. 0 \in 0 .. keys
    BY KeysUpTo
  <2> QED BY <1>1, <2>1 DEF OfKeys, OfAddresses
<1>4. ASSUME s.user # NoUser
      PROVE  /\ Fits(LoadKeys(s, cs, form, k), s, keys, busy) /\ OneMore(LoadKeys(s, cs, form, k), cs)
             /\ Fits(LoadAddresses(s, cs, form), s, keys, busy) /\ OneMore(LoadAddresses(s, cs, form), cs)
  <2>1. /\ Fits(LoadKeys(s, cs, form, k), s, keys, busy \cup ({form} \ {""}))
        /\ OneMore(LoadKeys(s, cs, form, k), cs)
    BY <1>2, <1>3, <1>4, KeysLoadFits
  <2>2. /\ Fits(LoadAddresses(s, cs, form), s, keys, busy \cup ({form} \ {""}))
        /\ OneMore(LoadAddresses(s, cs, form), cs)
    BY <1>2, <1>3, <1>4, AddressesLoadFits
  <2> QED BY <1>2, <2>1, <2>2
<1>5. /\ s.user = NoUser => LoadKeys(s, cs, form, k) = cs /\ LoadAddresses(s, cs, form) = cs
      /\ Mounts(s, cs, page) \in {cs, LoadKeys(s, cs, form, k), LoadAddresses(s, cs, form)}
  BY <1>1 DEF LoadKeys, LoadAddresses, Mounts
<1> QED BY <1>4, <1>5

(* The page as it is loaded. *)
LEMMA FreshFits ==
  ASSUME NEW kept, NEW keys \in Nat, kept.token \in Nat
  PROVE  /\ Fits(FreshCalls(kept), Fresh(kept), keys, {})
         /\ Load(FreshCalls(kept)) = IF kept.user = NoUser THEN 1 ELSE 3
         /\ Due(FreshCalls(kept)) = 0
         /\ Len(FreshCalls(kept)) = Load(FreshCalls(kept))
<1> DEFINE s == Fresh(kept)
           c == Call("status", kept.token, 0, "", 0)
<1>1. s.user = kept.user /\ s.token = kept.token /\ ~s.checked
  BY DEF Fresh
<1>2. /\ "status" \in Kind /\ "" \in Form /\ 0 \in CallArg /\ 0 \in CallAns
  BY DEF Kind, Form, CallArg, CallAns
<1>3. c \in CallState /\ c.kind = "status" /\ c.form = "" /\ c.key = 0 /\ ~c.served
  <2>1. c \in CallState
    BY <1>2, CallIsState
  <2> QED BY <2>1 DEF Call
<1>4. <<c>> = Append(<<>>, c)
  OBVIOUS
<1>5. FreshCalls(kept) = IF kept.user = NoUser THEN <<c>>
                         ELSE LoadKeys(s, LoadAddresses(s, <<c>>, ""), "", 0)
  BY DEF FreshCalls
<1> HIDE DEF s, c
<1>6. CallFits(c, s, keys)
  <2>1. 0 \in 0 .. keys
    BY KeysUpTo
  <2> QED BY <1>1, <1>3, <2>1 DEF CallFits, Changes, Edits
<1>7. Fits(<<>>, s, keys, {})
  <2> DEFINE none == <<>>
  <2>1. none \in Seq(CallState) /\ DOMAIN none = {}
    OBVIOUS
  <2> HIDE DEF none
  <2>2. Fits(none, s, keys, {})
    BY <2>1 DEF Fits, OneEach, HasForm
  <2> QED BY <2>2 DEF none
<1>8. Fits(<<c>>, s, keys, {})
  <2>1. c.form \notin {} /\ {} \cup ({c.form} \ {""}) = {}
    BY <1>3
  <2>2. Fits(Append(<<>>, c), s, keys, {} \cup ({c.form} \ {""}))
    BY <1>3, <1>6, <1>7, <2>1, AppendFits
  <2> QED BY <1>4, <2>1, <2>2
<1>9. Load(<<c>>) = 1 /\ Due(<<c>>) = 0
  <2>1. LoadOf(c) = 1 /\ DueOf(c) = 0
    BY <1>3 DEF LoadOf, DueOf
  <2>2. /\ Load(Append(<<>>, c)) = Load(<<>>) + LoadOf(c)
        /\ Due(Append(<<>>, c)) = Due(<<>>) + DueOf(c)
    <3>1. <<>> \in Seq(CallState)
      OBVIOUS
    <3> QED BY <1>3, <3>1, AppendSizes
  <2> QED BY <1>4, <2>1, <2>2, NoneSize
<1>10. CASE kept.user = NoUser
  <2>1. FreshCalls(kept) = <<c>> /\ Len(<<c>>) = 1
    BY <1>5, <1>10
  <2> QED BY <1>8, <1>9, <1>10, <2>1 DEF s
<1>11. CASE kept.user # NoUser
  <2> DEFINE a == LoadAddresses(s, <<c>>, "")
             b == LoadKeys(s, a, "", 0)
  <2>1. FreshCalls(kept) = b
    BY <1>5, <1>11
  <2>2. /\ "" \notin {} /\ {} \cup ({""} \ {""}) = {} /\ 0 \in 0 .. keys
        /\ "" \in {"", "key"} /\ "" \in {"", "reserve"} /\ s.token \in Nat /\ s.user # NoUser
    <3>1. "" \notin {} /\ {} \cup ({""} \ {""}) = {}
      OBVIOUS
    <3>2. 0 \in 0 .. keys
      OBVIOUS
    <3> QED BY <1>1, <1>11, <3>1, <3>2
  <2>3. Fits(a, s, keys, {} \cup ({""} \ {""})) /\ OneMore(a, <<c>>)
    <3>1. PICK form, none : form = "" /\ none = {}
      OBVIOUS
    <3>2. /\ OfAddresses(form) /\ form \notin none /\ Fits(<<c>>, s, keys, none)
          /\ s.token \in Nat /\ s.user # NoUser
      BY <1>8, <2>2, <3>1 DEF OfAddresses
    <3>3. /\ Fits(LoadAddresses(s, <<c>>, form), s, keys, none \cup ({form} \ {""}))
          /\ OneMore(LoadAddresses(s, <<c>>, form), <<c>>)
      BY <3>2, AddressesLoadFits
    <3> QED BY <3>1, <3>3
  <2>4. Fits(a, s, keys, {})
    BY <2>2, <2>3
  <2>5. Len(b) = 3
    <3>1. PICK d, e : a = Append(<<c>>, d) /\ b = Append(a, e)
      BY <1>11, <1>1, Zenon DEF LoadKeys, LoadAddresses
    <3> HIDE DEF a, b
    <3> QED BY <3>1
  <2> HIDE DEF a
  <2>6. Fits(b, s, keys, {} \cup ({""} \ {""})) /\ OneMore(b, a)
    <3>1. PICK form, none : form = "" /\ none = {}
      OBVIOUS
    <3>2. /\ OfKeys(form, 0, keys) /\ form \notin none /\ Fits(a, s, keys, none)
          /\ s.token \in Nat /\ s.user # NoUser
      BY <2>2, <2>4, <3>1 DEF OfKeys
    <3>3. /\ Fits(LoadKeys(s, a, form, 0), s, keys, none \cup ({form} \ {""}))
          /\ OneMore(LoadKeys(s, a, form, 0), a)
      BY <3>2, KeysLoadFits
    <3> QED BY <3>1, <3>3
  <2>7. Fits(b, s, keys, {})
    BY <2>2, <2>6
  <2> HIDE DEF b
  <2>8. Load(b) = 3 /\ Due(b) = 0
    <3>1. Load(a) = 1 + 1 /\ Load(b) = Load(a) + 1
      BY <1>9, <2>3, <2>6 DEF OneMore
    <3>2. (1 + 1) + 1 = 3
      OBVIOUS
    <3>3. Due(b) = 0
      BY <1>9, <2>3, <2>6 DEF OneMore
    <3> QED BY <3>1, <3>2, <3>3
  <2> QED BY <1>11, <2>1, <2>5, <2>7, <2>8 DEF s
<1> QED BY <1>10, <1>11

---------------------------------------------------------------------------
(* What an action finds, and what it must keep *)

(* Room for so many loads more, and so many keys. *)
RoomLeft(loads, keys) ==
  Load(calls) + loads <= MaxCalls /\ Len(issued) + (Due(calls) + keys) <= MaxKeys

LEMMA PageFinds ==
  ASSUME IInv, PageInv
  PROVE  /\ issued \in Seq(User) /\ Len(issued) \in Nat /\ DOMAIN issued = 1 .. Len(issued)
         /\ Len(issued) <= MaxKeys /\ DOMAIN issued \subseteq Token
         /\ calls \in Seq(CallState) /\ Load(calls) \in Nat /\ Due(calls) \in Nat
         /\ Fits(calls, st, Len(issued), view.busy)
         /\ st \in SessionState /\ st.token \in Nat /\ hist \in SessionHistory
         /\ storage = Stored(st.user, st.token)
         /\ MaxKeys \in Nat /\ MaxCalls \in Nat
         /\ RoomLeft(0, 0) /\ (RoomForCall => RoomLeft(1, 0))
         /\ RoomForCall /\ RoomForKey => RoomLeft(1, 1)
         /\ RoomForLogin => RoomForCall
         /\ RoomForLogin /\ RoomForKey => RoomLeft(2, 1)
<1>1. /\ issued \in Seq(User) /\ calls \in Seq(CallState) /\ st \in SessionState
      /\ hist \in SessionHistory /\ storage = Stored(st.user, st.token)
  BY DEF IInv, Types, CallsAreSound, SessionIsWhole
<1>2. Len(issued) \in Nat /\ DOMAIN issued = 1 .. Len(issued) /\ MaxKeys \in Nat /\ MaxCalls \in Nat
  BY <1>1, SessionBoundAssumption
<1>3. Load(calls) \in Nat /\ Due(calls) \in Nat
  BY <1>1, SizeTypes
<1>4. Len(issued) <= MaxKeys
  BY <1>2, <1>3 DEF PageInv, Bounded
<1>5. DOMAIN issued \subseteq Token
  BY <1>2, <1>4 DEF Token, NoToken, GlobalToken
<1>6. InFlight({"login"}) = Logins(calls)
  BY DEF InFlight, Logins
<1>7. {n \in InFlight({"login", "setup", "mkkey"}) : ~calls[n].served} = Minting(calls)
  BY DEF InFlight, Minting
<1>8. /\ RoomForCall <=> Len(calls) + Cardinality(Logins(calls)) < MaxCalls
      /\ RoomForLogin <=> Len(calls) + Cardinality(Logins(calls)) + 1 < MaxCalls
      /\ RoomForKey <=> Len(issued) + Cardinality(Minting(calls)) < MaxKeys
  <2>1. RoomForCall <=> Len(calls) + Cardinality(Logins(calls)) < MaxCalls
    BY <1>6, Zenon DEF RoomForCall
  <2>2. RoomForLogin <=> Len(calls) + Cardinality(Logins(calls)) + 1 < MaxCalls
    BY <1>6, Zenon DEF RoomForLogin
  <2>3. RoomForKey <=> Len(issued) + Cardinality(Minting(calls)) < MaxKeys
    BY <1>7, Zenon DEF RoomForKey
  <2> QED BY <2>1, <2>2, <2>3
<1>9. Load(calls) <= MaxCalls /\ Len(issued) + Due(calls) <= MaxKeys
  BY DEF PageInv, Bounded
<1>10. /\ RoomLeft(0, 0) /\ (RoomForCall => RoomLeft(1, 0))
       /\ RoomForCall /\ RoomForKey => RoomLeft(1, 1)
       /\ RoomForLogin => RoomForCall
       /\ RoomForLogin /\ RoomForKey => RoomLeft(2, 1)
  <2> DEFINE a == Len(calls)
             b == Cardinality(Logins(calls))
             k == Len(issued)
             m == Cardinality(Minting(calls))
  <2>1. a \in Nat /\ b \in Nat /\ k \in Nat /\ m \in Nat /\ MaxKeys \in Nat /\ MaxCalls \in Nat
    BY <1>1, <1>2, SizeTypes DEF Due
  <2>2. Load(calls) = a + b /\ Due(calls) = m
    BY DEF Load, Due
  <2> HIDE DEF a, b, k, m
  <2>3. \A i, j \in Nat : RoomLeft(i, j) <=> a + b + i <= MaxCalls /\ k + (m + j) <= MaxKeys
    BY <2>2, Zenon DEF RoomLeft, k
  <2>4. /\ RoomForCall <=> a + b < MaxCalls
        /\ RoomForLogin <=> a + b + 1 < MaxCalls
        /\ RoomForKey <=> k + m < MaxKeys
    BY <1>8, Zenon DEF a, b, k, m
  <2>5. a + b <= MaxCalls /\ k + m <= MaxKeys
    BY <1>9, <2>2, Zenon DEF k
  <2> QED BY <2>1, <2>3, <2>4, <2>5
<1>11. st.token \in Nat /\ Fits(calls, st, Len(issued), view.busy)
  BY <1>1 DEF SessionState, PageInv
<1> QED BY <1>1, <1>2, <1>3, <1>4, <1>5, <1>10, <1>11

LEMMA PageKept ==
  ASSUME PageInv, UNCHANGED <<accounts, issued, revoked>>,
         st'.token \in Token, view' \in ViewState(Len(issued)),
         st'.signinOpen => st'.checked /\ ~st'.needsSetup,
         Fits(calls', st', Len(issued), view'.busy),
         Bounded(calls', Len(issued))
  PROVE  PageInv'
BY DEF PageInv

LEMMA InitPage == Init => PageInv
<1> SUFFICES ASSUME Init PROVE PageInv
  OBVIOUS
<1>1. IInv
  BY InitInv
<1>2. /\ issued \in Seq(User) /\ st.token \in Nat /\ storage = Stored(st.user, st.token)
  BY <1>1 DEF IInv, Types, SessionState, SessionIsWhole
<1>3. storage.token = st.token
  BY <1>2 DEF Stored
<1>4. /\ st = Fresh(storage) /\ calls = FreshCalls(storage) /\ revoked = {}
      /\ view = [page |-> "other", busy |-> {}, secret |-> 0]
      /\ accounts \in {{}, User}
      /\ issued = <<>> \/ issued = <<Admin>> \/ \E u : issued = <<Admin, u>>
      /\ storage = Stored(NoUser, NoToken) \/ storage = Stored(Admin, 1)
  BY DEF Init
<1>5. Len(issued) \in Nat /\ Len(issued) <= 2
  <2>1. CASE issued = <<>>
    BY <2>1
  <2>2. CASE issued = <<Admin>>
    BY <2>2
  <2>3. ASSUME NEW u, issued = <<Admin, u>> PROVE Len(issued) \in Nat /\ Len(issued) <= 2
    BY <2>3
  <2> QED BY <1>4, <2>1, <2>2, <2>3
<1>6. MaxKeys \in Nat \ {0, 1} /\ MaxCalls \in Nat /\ 3 <= MaxCalls
  BY SessionBoundAssumption
<1>7. st.token \in Token
  BY <1>3, <1>4, <1>5, <1>6 DEF Stored, Token, NoToken, GlobalToken
<1>8. /\ Fits(calls, st, Len(issued), {}) /\ Load(calls) \in {1, 3} /\ Due(calls) = 0
  BY <1>2, <1>3, <1>4, <1>5, FreshFits
<1>9. view \in ViewState(Len(issued)) /\ view.busy = {}
  BY <1>4, <1>5 DEF ViewState, Page
<1>10. ~st.signinOpen
  BY <1>4 DEF Fresh
<1>11. accounts \subseteq User /\ revoked \subseteq DOMAIN issued
  BY <1>4
<1>12. Bounded(calls, Len(issued))
  <2>1. Len(issued) + 0 <= MaxKeys
    <3>1. 2 <= MaxKeys /\ MaxKeys \in Nat
      BY <1>6
    <3> QED BY <1>5, <3>1
  <2>2. Load(calls) <= MaxCalls
    BY <1>6, <1>8
  <2> QED BY <1>8, <2>1, <2>2, Zenon DEF Bounded
<1> QED BY <1>7, <1>8, <1>9, <1>10, <1>11, <1>12 DEF PageInv

---------------------------------------------------------------------------
(* What the user does *)

FitsNow(c) == CallFits(c, st, Len(issued))
Viewed(v) == v \in ViewState(Len(issued))
Asked(kind, arg, form) == Call(kind, st.token, arg, form, 0)

(* One call is sent, and at most its form waits from now on. *)
LEMMA AskedPage ==
  ASSUME IInv, PageInv, UNCHANGED <<accounts, issued, revoked, st>>,
         NEW c \in CallState, calls' = Append(calls, c), c.kind # "status",
         FitsNow(c), c.form \notin view.busy,
         Viewed(view'), view'.busy = view.busy \cup ({c.form} \ {""}),
         RoomLeft(LoadOf(c), DueOf(c))
  PROVE  PageInv'
<1>1. /\ calls \in Seq(CallState) /\ Fits(calls, st, Len(issued), view.busy)
      /\ Len(issued) \in Nat /\ Due(calls) \in Nat
  BY PageFinds
<1>2. Fits(calls', st, Len(issued), view'.busy)
  <2>1. Fits(Append(calls, c), st, Len(issued), view.busy \cup ({c.form} \ {""}))
    BY <1>1, AppendFits DEF FitsNow
  <2> QED BY <2>1
<1>3. Load(calls') = Load(calls) + LoadOf(c) /\ Due(calls') = Due(calls) + DueOf(c)
  BY <1>1, AppendSizes
<1>5. Bounded(calls', Len(issued))
  BY <1>3, Zenon DEF RoomLeft, Bounded
<1>6. st.token \in Token /\ (st.signinOpen => st.checked /\ ~st.needsSetup)
  BY DEF PageInv
<1>7. view' \in ViewState(Len(issued))
  BY DEF Viewed
<1>8. st'.token \in Token /\ (st'.signinOpen => st'.checked /\ ~st'.needsSetup)
  BY <1>6
<1>9. Fits(calls', st', Len(issued), view'.busy)
  BY <1>2
<1> QED BY <1>5, <1>7, <1>8, <1>9, PageKept

(* A call that issues no key is sent, and no form waits for it. *)
LEMMA PlainAskPage ==
  ASSUME IInv, PageInv, Gate = "app", NEW kind \in {"rmkey", "patch", "release"},
         NEW arg \in CallArg, Asks(Asked(kind, arg, "")), UNCHANGED view
  PROVE  PageInv'
<1> DEFINE c == Asked(kind, arg, "")
<1>1. st.token \in Nat /\ Len(issued) \in Nat /\ (RoomForCall => RoomLeft(1, 0))
  BY PageFinds
<1>2. c \in CallState
  <2>1. kind \in Kind /\ "" \in Form /\ 0 \in CallAns
    BY DEF Kind, Changes, Edits, Form, CallAns
  <2> QED BY <1>1, <2>1, CallIsState DEF Asked
<1>3. c.kind = kind /\ c.form = "" /\ c.key = 0 /\ ~c.served
  BY DEF Asked, Call
<1>4. RoomForCall /\ calls' = Append(calls, c) /\ UNCHANGED <<accounts, issued, revoked, st>>
  BY DEF Asks
<1> HIDE DEF c
<1>5. FitsNow(c)
  <2>1. st.checked /\ ~st.needsSetup
    BY DEF Gate
  <2>2. 0 \in 0 .. Len(issued)
    BY <1>1, KeysUpTo
  <2> QED BY <1>3, <2>1, <2>2 DEF CallFits, FitsNow
<1>6. Viewed(view') /\ view.busy \subseteq Forms
  BY DEF PageInv, Fits, Viewed
<1>7. c.form \notin view.busy /\ view.busy = view.busy \cup ({c.form} \ {""}) /\ c.kind # "status"
  BY <1>3, <1>6 DEF Forms
<1>8. LoadOf(c) = 1 /\ DueOf(c) = 0
  BY <1>3 DEF LoadOf, DueOf
<1>9. RoomLeft(LoadOf(c), DueOf(c))
  BY <1>1, <1>4, <1>8, Zenon
<1> QED BY <1>2, <1>4, <1>5, <1>6, <1>7, <1>9, AskedPage

(* A form sends its call, for which there is room. *)
LEMMA FormPage ==
  ASSUME IInv, PageInv, NEW kind \in {"setup", "login", "mkkey", "reserve"},
         NEW form, form = (IF kind = "mkkey" THEN "key" ELSE kind),
         NEW arg \in CallArg, UNCHANGED <<accounts, issued, revoked, st>>,
         calls' = Append(calls, Asked(kind, arg, form)), form \notin view.busy,
         view' = [view EXCEPT !.busy = @ \cup {form}],
         RoomForCall, kind = "login" => RoomForLogin, kind # "reserve" => RoomForKey,
         st.checked, kind = "setup" <=> st.needsSetup
  PROVE  PageInv'
<1> DEFINE c == Asked(kind, arg, form)
<1>1. /\ st.token \in Nat /\ Len(issued) \in Nat
      /\ RoomForCall => RoomLeft(1, 0)
      /\ RoomForCall /\ RoomForKey => RoomLeft(1, 1)
      /\ RoomForLogin /\ RoomForKey => RoomLeft(2, 1)
  BY PageFinds
<1>2. form \in Forms /\ form # ""
  BY DEF Forms
<1>3. c \in CallState
  <2>1. kind \in Kind /\ form \in Form /\ 0 \in CallAns
    BY <1>2 DEF Kind, Changes, Edits, Form, CallAns
  <2> QED BY <1>1, <2>1, CallIsState DEF Asked
<1>4. c.kind = kind /\ c.form = form /\ c.key = 0 /\ ~c.served
  BY DEF Asked, Call
<1>5. calls' = Append(calls, c)
  OBVIOUS
<1> HIDE DEF c
<1>6. FitsNow(c)
  <2>1. 0 \in 0 .. Len(issued)
    BY <1>1, KeysUpTo
  <2> QED BY <1>4, <2>1 DEF CallFits, Changes, Edits, FitsNow
<1>7. Viewed(view') /\ view'.busy = view.busy \cup ({c.form} \ {""})
  <2>1. view \in ViewState(Len(issued))
    BY DEF PageInv
  <2>2. view'.busy = view.busy \cup {form} /\ view' \in ViewState(Len(issued))
    BY <1>2, <2>1 DEF ViewState, Viewed
  <2>3. {form} = {c.form} \ {""}
    BY <1>2, <1>4
  <2> QED BY <2>2, <2>3 DEF Viewed
<1>8. c.form \notin view.busy /\ c.kind # "status"
  BY <1>4
<1>9. RoomLeft(LoadOf(c), DueOf(c))
  <2>1. CASE kind = "login"
    <3>1. LoadOf(c) = 2 /\ DueOf(c) = 1
      BY <1>4, <2>1 DEF LoadOf, DueOf
    <3> QED BY <1>1, <2>1, <3>1, Zenon
  <2>2. CASE kind = "reserve"
    <3>1. LoadOf(c) = 1 /\ DueOf(c) = 0
      BY <1>4, <2>2 DEF LoadOf, DueOf
    <3> QED BY <1>1, <3>1, Zenon
  <2>3. CASE kind \in {"setup", "mkkey"}
    <3>1. LoadOf(c) = 1 /\ DueOf(c) = 1 /\ kind # "reserve"
      BY <1>4, <2>3 DEF LoadOf, DueOf
    <3> QED BY <1>1, <3>1, Zenon
  <2> QED BY <2>1, <2>2, <2>3
<1> QED BY <1>3, <1>5, <1>6, <1>7, <1>8, <1>9, AskedPage

LEMMA FormsPage ==
  ASSUME IInv, PageInv, \/ SubmitSetup \/ (\E u \in User : SubmitLogin(u)) \/ (\E scope \in Scope : MakeKey(scope))
                        \/ (\E S \in SUBSET Dest : Reserve(S))
  PROVE  PageInv'
<1>1. User \cup Scope \cup (SUBSET Dest) \subseteq CallArg
  BY DEF CallArg
<1>2. CASE SubmitSetup
  <2>1. Admin \in CallArg
    BY <1>1, SessionBoundAssumption
  <2>2. st.checked /\ st.needsSetup
    BY <1>2 DEF SubmitSetup, Gate
  <2>3. /\ calls' = Append(calls, Asked("setup", Admin, "setup"))
        /\ "setup" \notin view.busy /\ view' = [view EXCEPT !.busy = @ \cup {"setup"}]
        /\ RoomForCall /\ RoomForKey /\ UNCHANGED <<accounts, issued, revoked, st>>
    BY <1>2 DEF SubmitSetup, Asked
  <2>4. PICK kind \in {"setup", "login", "mkkey", "reserve"} : kind = "setup"
    OBVIOUS
  <2>5. /\ calls' = Append(calls, Asked(kind, Admin, kind))
        /\ kind \notin view.busy /\ view' = [view EXCEPT !.busy = @ \cup {kind}]
        /\ kind = IF kind = "mkkey" THEN "key" ELSE kind
        /\ kind # "login" /\ (kind = "setup" <=> st.needsSetup)
    BY <2>2, <2>3, <2>4
  <2> QED BY <2>1, <2>2, <2>3, <2>5, FormPage
<1>3. ASSUME NEW u \in User, SubmitLogin(u) PROVE PageInv'
  <2>1. u \in CallArg
    BY <1>1
  <2>2. st.checked /\ ~st.needsSetup
    BY <1>3 DEF SubmitLogin, PageInv
  <2>3. /\ calls' = Append(calls, Asked("login", u, "login"))
        /\ "login" \notin view.busy /\ view' = [view EXCEPT !.busy = @ \cup {"login"}]
        /\ RoomForLogin /\ RoomForKey /\ UNCHANGED <<accounts, issued, revoked, st>>
    BY <1>3 DEF SubmitLogin, Asked
  <2>4. RoomForCall
    BY <2>3, PageFinds
  <2>5. PICK kind \in {"setup", "login", "mkkey", "reserve"} : kind = "login"
    OBVIOUS
  <2>6. /\ calls' = Append(calls, Asked(kind, u, kind))
        /\ kind \notin view.busy /\ view' = [view EXCEPT !.busy = @ \cup {kind}]
        /\ kind = IF kind = "mkkey" THEN "key" ELSE kind
        /\ (kind = "setup" <=> st.needsSetup)
    BY <2>2, <2>3, <2>5
  <2> QED BY <2>1, <2>2, <2>3, <2>4, <2>6, FormPage
<1>4. ASSUME NEW scope \in Scope, MakeKey(scope) PROVE PageInv'
  <2>1. scope \in CallArg
    BY <1>1
  <2>2. st.checked /\ ~st.needsSetup
    BY <1>4 DEF MakeKey, OnPage, InApp, Gate
  <2>3. /\ calls' = Append(calls, Asked("mkkey", scope, "key"))
        /\ "key" \notin view.busy /\ view' = [view EXCEPT !.busy = @ \cup {"key"}]
        /\ RoomForCall /\ RoomForKey /\ UNCHANGED <<accounts, issued, revoked, st>>
    BY <1>4 DEF MakeKey, Asks, Asked
  <2>4. PICK kind \in {"setup", "login", "mkkey", "reserve"}, form \in {"key"} :
          kind = "mkkey" /\ form = IF kind = "mkkey" THEN "key" ELSE kind
    OBVIOUS
  <2>5. /\ calls' = Append(calls, Asked(kind, scope, form))
        /\ form \notin view.busy /\ view' = [view EXCEPT !.busy = @ \cup {form}]
        /\ kind # "login" /\ (kind = "setup" <=> st.needsSetup)
    BY <2>2, <2>3, <2>4
  <2> QED BY <2>1, <2>2, <2>3, <2>4, <2>5, FormPage
<1>5. ASSUME NEW S \in SUBSET Dest, Reserve(S) PROVE PageInv'
  <2>1. S \in CallArg
    BY <1>1
  <2>2. st.checked /\ ~st.needsSetup
    BY <1>5 DEF Reserve, OnPage, InApp, Gate
  <2>3. /\ calls' = Append(calls, Asked("reserve", S, "reserve"))
        /\ "reserve" \notin view.busy /\ view' = [view EXCEPT !.busy = @ \cup {"reserve"}]
        /\ RoomForCall /\ UNCHANGED <<accounts, issued, revoked, st>>
    BY <1>5 DEF Reserve, Asks, Asked
  <2>4. PICK kind \in {"setup", "login", "mkkey", "reserve"} : kind = "reserve"
    OBVIOUS
  <2>5. /\ calls' = Append(calls, Asked(kind, S, kind))
        /\ kind \notin view.busy /\ view' = [view EXCEPT !.busy = @ \cup {kind}]
        /\ kind = IF kind = "mkkey" THEN "key" ELSE kind
        /\ kind # "login" /\ (kind = "setup" <=> st.needsSetup)
    BY <2>2, <2>3, <2>4
  <2> QED BY <2>1, <2>2, <2>3, <2>4, <2>5, FormPage
<1> QED BY <1>2, <1>3, <1>4, <1>5

LEMMA AsksPage ==
  ASSUME IInv, PageInv, \/ \E k \in 1 .. MaxKeys : RevokeKey(k)
                        \/ \E r \in st.addresses : Release(r) \/ \E d \in Dest : AddDest(r, d) \/ RemoveDest(r, d)
  PROVE  PageInv'
<1>1. st \in SessionState /\ MaxKeys \in Nat
  BY PageFinds
<1>2. Nat \cup AnyRow \subseteq CallArg
  BY DEF CallArg
<1>3. ASSUME NEW k \in 1 .. MaxKeys, RevokeKey(k) PROVE PageInv'
  <2>1. k \in CallArg
    BY <1>1, <1>2
  <2>2. Asks(Asked("rmkey", k, "")) /\ UNCHANGED view /\ Gate = "app"
    BY <1>3 DEF RevokeKey, OnPage, InApp, Asked
  <2> QED BY <2>1, <2>2, PlainAskPage
<1>4. ASSUME NEW r \in st.addresses, NEW kind \in {"patch", "release"}, NEW e \in Entry,
             EditRow(kind, r, e)
      PROVE  PageInv'
  <2>1. [at |-> r.at, is |-> e] \in CallArg
    BY <1>1, <1>2 DEF SessionState, AnyRow
  <2>2. Asks(Asked(kind, [at |-> r.at, is |-> e], "")) /\ UNCHANGED view /\ Gate = "app"
    BY <1>4 DEF EditRow, OnPage, InApp, Asked
  <2> QED BY <2>1, <2>2, PlainAskPage
<1>5. ASSUME NEW r \in st.addresses,
             Release(r) \/ \E d \in Dest : AddDest(r, d) \/ RemoveDest(r, d)
      PROVE  PageInv'
  <2>1. r.is \in Entry /\ r.is.to \in SUBSET Dest
    BY <1>1 DEF SessionState, AnyRow, Entry
  <2>2. ASSUME NEW T \in SUBSET Dest
        PROVE  [r.is EXCEPT !.to = T] \in Entry /\ [r.is EXCEPT !.to = T, !.live = FALSE] \in Entry
    BY <2>1, <2>2, EntryOf
  <2>3. CASE Release(r)
    BY <1>4, <2>2, <2>3 DEF Release
  <2>4. ASSUME NEW d \in Dest, AddDest(r, d) PROVE PageInv'
    BY <1>4, <2>1, <2>2, <2>4 DEF AddDest
  <2>5. ASSUME NEW d \in Dest, RemoveDest(r, d) PROVE PageInv'
    BY <1>4, <2>1, <2>2, <2>5 DEF RemoveDest
  <2> QED BY <1>5, <2>3, <2>4, <2>5
<1> QED BY <1>3, <1>5

---------------------------------------------------------------------------
(* Lists that grow no larger *)

LEMMA SameBounded ==
  ASSUME NEW cs, NEW new, NEW keys, SameSize(new, cs), Bounded(cs, keys)
  PROVE  Bounded(new, keys)
BY Zenon DEF SameSize, Bounded

LEMMA MoreBounded ==
  ASSUME IInv, PageInv, RoomForCall, NEW new, OneMore(new, calls)
  PROVE  Bounded(new, Len(issued))
<1>1. Due(calls) \in Nat /\ RoomLeft(1, 0)
  BY PageFinds
<1>2. Due(calls) + 0 = Due(calls)
  BY <1>1
<1> QED BY <1>1, <1>2, Zenon DEF OneMore, RoomLeft, Bounded

LEMMA OverlayPage ==
  ASSUME IInv, PageInv, OpenSignIn \/ CloseSignIn PROVE PageInv'
<1>1. /\ st \in SessionState /\ Fits(calls, st, Len(issued), view.busy) /\ Len(issued) \in Nat
      /\ calls \in Seq(CallState)
  BY PageFinds
<1>2. /\ view \in ViewState(Len(issued)) /\ st.token \in Token /\ Bounded(calls, Len(issued))
      /\ st.signinOpen => st.checked /\ ~st.needsSetup
  BY DEF PageInv
<1>3. CASE OpenSignIn
  <2>1. /\ st'.signinOpen /\ st'.checked = st.checked /\ st'.needsSetup = st.needsSetup
        /\ st'.token = st.token
    BY <1>1, <1>3 DEF OpenSignIn, SessionState
  <2>2. st.checked /\ ~st.needsSetup
    BY <1>3 DEF OpenSignIn, InApp, Gate
  <2>3. UNCHANGED <<accounts, issued, revoked, view, calls>>
    BY <1>3 DEF OpenSignIn
  <2>4. Fits(calls', st', Len(issued), view'.busy)
    <3>1. Fits(calls, st', Len(issued), view.busy)
      BY <1>1, <2>1, SameStateFits
    <3> QED BY <2>3, <3>1
  <2> QED BY <1>2, <2>1, <2>2, <2>3, <2>4, PageKept
<1>4. CASE CloseSignIn
  <2>1. /\ ~st'.signinOpen /\ st'.checked = st.checked /\ st'.needsSetup = st.needsSetup
        /\ st'.token = st.token
    BY <1>1, <1>4 DEF CloseSignIn, SessionState
  <2>2. /\ calls' = Unmounts({"login"}, calls) /\ UNCHANGED <<accounts, issued, revoked>>
    BY <1>4 DEF CloseSignIn
  <2>3. view' \in ViewState(Len(issued)) /\ view'.busy = view.busy \ {"login"}
    BY <1>2, <1>4 DEF CloseSignIn, ViewState
  <2>4. Fits(calls', st', Len(issued), view'.busy)
    <3>1. {"login"} \in SUBSET {"login", "key", "reserve"}
      OBVIOUS
    <3>2. Fits(Unmounts({"login"}, calls), st, Len(issued), view.busy \ {"login"})
      BY <1>1, <3>1, UnmountFits
    <3>3. Fits(calls', st, Len(issued), view'.busy)
      BY <2>2, <2>3, <3>2
    <3> QED BY <2>1, <3>3, SameStateFits
  <2>5. Bounded(calls', Len(issued))
    <3>1. SameSize(calls', calls)
      BY <1>1, <2>2, UnmountSizes
    <3> QED BY <1>2, <3>1, SameBounded
  <2> QED BY <1>2, <2>1, <2>2, <2>3, <2>4, <2>5, PageKept
<1> QED BY <1>3, <1>4

LEMMA ReloadPage == ASSUME IInv, PageInv, Reload PROVE PageInv'
<1>1. /\ st.token \in Nat /\ Len(issued) \in Nat /\ storage = Stored(st.user, st.token)
      /\ Len(issued) <= MaxKeys
  BY PageFinds
<1>2. /\ st' = Fresh(storage) /\ calls' = FreshCalls(storage)
      /\ Len(FreshCalls(storage)) <= MaxCalls
      /\ view' = [page |-> view.page, busy |-> {}, secret |-> 0]
      /\ UNCHANGED <<accounts, issued, revoked>>
  BY DEF Reload
<1>3. storage.token = st.token
  BY <1>1 DEF Stored
<1>4. /\ Fits(FreshCalls(storage), Fresh(storage), Len(issued), {})
      /\ Due(FreshCalls(storage)) = 0
      /\ Len(FreshCalls(storage)) = Load(FreshCalls(storage))
  BY <1>1, <1>3, FreshFits
<1>5. Bounded(calls', Len(issued))
  <2>1. Len(issued) + 0 <= MaxKeys
    BY <1>1
  <2> QED BY <1>2, <1>4, <2>1, Zenon DEF Bounded
<1>6. st'.token = st.token /\ ~st'.signinOpen
  BY <1>2, <1>3 DEF Fresh
<1>7. st.token \in Token /\ view \in ViewState(Len(issued))
  BY DEF PageInv
<1>8. view' \in ViewState(Len(issued)) /\ view'.busy = {}
  BY <1>1, <1>2, <1>7 DEF ViewState
<1>9. Fits(calls', st', Len(issued), view'.busy)
  BY <1>2, <1>4, <1>8
<1> QED BY <1>2, <1>5, <1>6, <1>7, <1>8, <1>9, PageKept

(* In the app no setup waits. *)
LEMMA NoSetupInApp ==
  ASSUME PageInv, Gate = "app" PROVE "setup" \notin view.busy
<1>1. Fits(calls, st, Len(issued), view.busy) /\ ~st.needsSetup
  BY DEF PageInv, Gate
<1>2. \A n \in DOMAIN calls : calls[n].form # "setup"
  BY <1>1 DEF Fits, CallFits
<1> QED BY <1>1, <1>2 DEF Fits, HasForm, Forms

LEMMA VisitPage ==
  ASSUME IInv, PageInv, NEW p \in Page, Visit(p) PROVE PageInv'
<1> DEFINE gone == {"key", "reserve"}
           cs == Unmounts(gone, calls)
           busy == view.busy \ gone
<1>1. /\ st \in SessionState /\ st.token \in Nat /\ Len(issued) \in Nat
      /\ Fits(calls, st, Len(issued), view.busy) /\ calls \in Seq(CallState)
  BY PageFinds
<1>2. /\ view \in ViewState(Len(issued)) /\ st.token \in Token /\ Bounded(calls, Len(issued))
      /\ st.signinOpen => st.checked /\ ~st.needsSetup
  BY DEF PageInv
<1>3. /\ Gate = "app" /\ RoomForCall /\ UNCHANGED <<accounts, issued, revoked, st>>
      /\ view' = [page |-> p, busy |-> view.busy \cap {"login"}, secret |-> 0]
      /\ calls' = Mounts(st, cs, p)
  BY DEF Visit
<1>4. view' \in ViewState(Len(issued)) /\ view'.busy = busy /\ "" \notin busy
  <2>1. view.busy \subseteq Forms /\ "setup" \notin view.busy
    BY <1>2, <1>3, NoSetupInApp DEF ViewState
  <2>2. view.busy \cap {"login"} = busy /\ "" \notin busy
    BY <2>1 DEF Forms
  <2>3. 0 \in 0 .. Len(issued)
    BY <1>1, KeysUpTo
  <2> QED BY <1>3, <2>1, <2>2, <2>3 DEF ViewState
<1>5. Fits(cs, st, Len(issued), busy)
  <2>1. gone \in SUBSET {"login", "key", "reserve"}
    OBVIOUS
  <2> HIDE DEF gone
  <2> QED BY <1>1, <2>1, UnmountFits
<1>6. SameSize(cs, calls)
  BY <1>1, UnmountSizes
<1> HIDE DEF cs, busy
<1>7. /\ Fits(calls', st, Len(issued), busy)
      /\ calls' = cs \/ OneMore(calls', cs)
  BY <1>1, <1>3, <1>5, MountFits
<1>8. Bounded(calls', Len(issued))
  <2>1. CASE calls' = cs
    BY <1>2, <1>6, <2>1, SameBounded
  <2>2. CASE OneMore(calls', cs)
    <3>1. OneMore(calls', calls)
      BY <1>6, <2>2, Zenon DEF OneMore, SameSize
    <3> QED BY <1>3, <3>1, MoreBounded
  <2> QED BY <1>7, <2>1, <2>2
<1>9. Fits(calls', st', Len(issued), view'.busy)
  BY <1>3, <1>4, <1>7
<1> QED BY <1>2, <1>3, <1>4, <1>8, <1>9, PageKept

(* The session changes, and with it no more than the calls' staleness. *)
LEMMA SessionPage ==
  ASSUME IInv, PageInv, Logout \/ (\E t \in Draft : SetToken(t)) PROVE PageInv'
<1>1. /\ st \in SessionState /\ Fits(calls, st, Len(issued), view.busy)
      /\ calls \in Seq(CallState) /\ DOMAIN issued \subseteq Token /\ MaxKeys \in Nat
  BY PageFinds
<1>2. /\ view \in ViewState(Len(issued)) /\ st.token \in Token /\ Bounded(calls, Len(issued))
      /\ st.signinOpen => st.checked /\ ~st.needsSetup
  BY DEF PageInv
<1>3. /\ calls' = NewSession(calls) /\ UNCHANGED <<accounts, issued, revoked, view>>
  BY DEF Logout, SetToken
<1>4. /\ st'.checked = st.checked /\ st'.needsSetup = st.needsSetup
      /\ st'.signinOpen = st.signinOpen /\ st'.token \in Token
  <2>1. NoToken \in Token /\ GlobalToken \in Token
    BY <1>1 DEF Token, NoToken, GlobalToken
  <2>2. CASE Logout
    BY <1>1, <2>1, <2>2 DEF Logout, Emptied, Session, SessionState
  <2>3. ASSUME NEW t \in Draft, SetToken(t) PROVE st'.token \in Token
    <3>1. t \in Token
      BY <1>1, <2>1 DEF Draft
    <3>2. st' = [st EXCEPT !.token = t]
      BY <2>3 DEF SetToken
    <3> QED BY <1>1, <3>1, <3>2 DEF SessionState
  <2>4. ASSUME NEW t \in Draft, SetToken(t)
        PROVE  /\ st'.checked = st.checked /\ st'.needsSetup = st.needsSetup
               /\ st'.signinOpen = st.signinOpen
    BY <1>1, <2>4 DEF SetToken, SessionState
  <2> QED BY <2>2, <2>3, <2>4
<1>5. Fits(calls', st', Len(issued), view'.busy)
  <2>1. Fits(NewSession(calls), st, Len(issued), view.busy)
    BY <1>1, SessionFits
  <2>2. Fits(calls', st, Len(issued), view'.busy)
    BY <1>3, <2>1
  <2> QED BY <1>4, <2>2, SameStateFits
<1>6. Bounded(calls', Len(issued))
  <2>1. SameSize(calls', calls)
    BY <1>1, <1>3, SessionSizes
  <2> QED BY <1>2, <2>1, SameBounded
<1> QED BY <1>2, <1>3, <1>4, <1>5, <1>6, PageKept

LEMMA SmallPage ==
  ASSUME IInv, PageInv, \/ DismissSecret \/ UNCHANGED vars
                        \/ (\E u \in User : SetupElsewhere(u))
  PROVE  PageInv'
<1>1. Len(issued) \in Nat
  BY PageFinds
<1>2. CASE DismissSecret
  <2>1. UNCHANGED <<accounts, issued, revoked, st, calls>> /\ view' = [view EXCEPT !.secret = 0]
    BY <1>2 DEF DismissSecret
  <2>2. view \in ViewState(Len(issued)) /\ 0 \in 0 .. Len(issued)
    BY <1>1, KeysUpTo DEF PageInv
  <2>3. view' \in ViewState(Len(issued)) /\ view'.busy = view.busy
    BY <2>1, <2>2 DEF ViewState
  <2> QED BY <2>1, <2>3 DEF PageInv
<1>3. CASE UNCHANGED vars
  BY <1>3 DEF vars, PageInv
<1>4. ASSUME NEW u \in User, SetupElsewhere(u) PROVE PageInv'
  BY <1>4 DEF SetupElsewhere, PageInv
<1> QED BY <1>2, <1>3, <1>4

---------------------------------------------------------------------------
(* The server answers *)

LEMMA ServedPage ==
  ASSUME IInv, PageInv, NEW n \in DOMAIN calls, ~calls[n].served,
         NEW ok \in BOOLEAN, NEW ans \in CallAns, calls' = Answered(calls, n, ok, ans),
         accounts' \subseteq User, NEW more \in Nat, Len(issued') = more, Len(issued) <= more,
         more = Len(issued) + DueOf(calls[n]) \/ more = Len(issued),
         revoked' \subseteq DOMAIN issued',
         calls[n].kind \in {"mkkey", "rmkey"} /\ ok => ans \in 0 .. more,
         UNCHANGED <<st, view>>
  PROVE  PageInv'
<1>1. /\ calls \in Seq(CallState) /\ Fits(calls, st, Len(issued), view.busy)
      /\ Len(issued) \in Nat /\ Due(calls) \in Nat /\ MaxKeys \in Nat
  BY PageFinds
<1>2. Fits(calls', st', Len(issued'), view'.busy)
  <2>1. Fits(Answered(calls, n, ok, ans), st, more, view.busy)
    BY <1>1, ServedFits
  <2> QED BY <2>1
<1>3. Load(calls') = Load(calls) /\ Due(calls') = Due(calls) - DueOf(calls[n])
  BY <1>1, ServedSizes
<1>4. Load(calls) <= MaxCalls /\ Len(issued) + Due(calls) <= MaxKeys
  BY DEF PageInv, Bounded
<1>5. DueOf(calls[n]) \in {0, 1}
  BY DEF DueOf
<1>6. more + (Due(calls) - DueOf(calls[n])) <= MaxKeys
  BY <1>1, <1>4, <1>5
<1>7. Bounded(calls', Len(issued'))
  BY <1>3, <1>4, <1>6, Zenon DEF Bounded
<1>8. view' \in ViewState(Len(issued'))
  <2>1. view \in ViewState(Len(issued))
    BY DEF PageInv
  <2>2. 0 .. Len(issued) \subseteq 0 .. more
    BY <1>1
  <2> QED BY <2>1, <2>2 DEF ViewState
<1> QED BY <1>2, <1>7, <1>8 DEF PageInv

LEMMA PlainServedPage ==
  ASSUME IInv, PageInv, NEW n \in DOMAIN calls, ~calls[n].served,
         NEW ok \in BOOLEAN, NEW ans \in CallAns, Replies(n, ok, ans),
         calls[n].kind \in {"mkkey", "rmkey"} /\ ok => ans = 0,
         UNCHANGED <<accounts, issued, st, view>>, revoked' \subseteq DOMAIN issued
  PROVE  PageInv'
<1>1. calls' = Answered(calls, n, ok, ans)
  BY DEF Replies, Answered
<1>2. PICK more \in Nat : Len(issued) = more
  BY PageFinds
<1>3. calls[n].kind \in {"mkkey", "rmkey"} /\ ok => ans \in 0 .. more
  <2>1. 0 \in 0 .. more
    BY KeysUpTo
  <2> QED BY <2>1
<1>4. accounts' \subseteq User
  BY DEF PageInv
<1>5. Len(issued') = more /\ Len(issued) <= more /\ revoked' \subseteq DOMAIN issued'
  BY <1>2
<1> QED BY <1>1, <1>2, <1>3, <1>4, <1>5, ServedPage

LEMMA MintPage ==
  ASSUME IInv, PageInv, NEW n \in DOMAIN calls, ~calls[n].served, NEW u \in User,
         NEW scope, Mints(n, u, scope),
         calls[n].kind \in {"setup", "login", "mkkey"}, accounts' \subseteq User,
         UNCHANGED <<revoked, st, view>>
  PROVE  PageInv'
<1>1. issued \in Seq(User) /\ Len(issued) \in Nat
  BY PageFinds
<1>2. PICK more \in Nat : more = Len(issued) + 1
  BY <1>1
<1>3. issued' = Append(issued, u) /\ calls' = Answered(calls, n, TRUE, more)
  BY <1>2 DEF Mints, Replies, Answered
<1>4. /\ Len(issued') = more /\ DOMAIN issued \subseteq DOMAIN issued' /\ Len(issued) <= more
      /\ more \in 0 .. more
  BY <1>1, <1>2, <1>3
<1>5. more = Len(issued) + DueOf(calls[n])
  <2>1. DueOf(calls[n]) = 1
    BY DEF DueOf
  <2> QED BY <1>2, <2>1
<1>6. revoked' \subseteq DOMAIN issued' /\ more \in CallAns
  BY <1>4 DEF PageInv, CallAns
<1>7. \A ok \in {TRUE} : calls[n].kind \in {"mkkey", "rmkey"} /\ ok => more \in 0 .. more
  BY <1>4
<1>8. PICK ok \in BOOLEAN : ok = TRUE
  OBVIOUS
<1>9. calls' = Answered(calls, n, ok, more)
  BY <1>3, <1>8
<1> QED BY <1>4, <1>5, <1>6, <1>9, ServedPage

(* The address of a change has been found, and the call is not answered yet. *)
Found(cs, n) == [cs EXCEPT ![n].ans = 1]

LEMMA FoundOf ==
  ASSUME NEW cs \in Seq(CallState), NEW n \in DOMAIN cs, NEW new, new = Found(cs, n)
  PROVE  /\ new \in Seq(CallState) /\ Len(new) = Len(cs) /\ DOMAIN new = DOMAIN cs
         /\ \A k \in DOMAIN cs :
              /\ new[k].kind = cs[k].kind /\ new[k].token = cs[k].token /\ new[k].arg = cs[k].arg
              /\ new[k].form = cs[k].form /\ new[k].key = cs[k].key
              /\ new[k].stale = cs[k].stale /\ new[k].late = cs[k].late
              /\ new[k].served = cs[k].served /\ new[k].ok = cs[k].ok
              /\ k # n => new[k] = cs[k]
<1> DEFINE c == [cs[n] EXCEPT !.ans = 1]
<1>1. cs[n] \in CallState /\ 1 \in CallAns
  BY DEF CallAns
<1>2. /\ c \in CallState /\ c.kind = cs[n].kind /\ c.token = cs[n].token /\ c.arg = cs[n].arg
      /\ c.form = cs[n].form /\ c.key = cs[n].key /\ c.stale = cs[n].stale /\ c.late = cs[n].late
      /\ c.served = cs[n].served /\ c.ok = cs[n].ok
  BY <1>1 DEF CallState
<1>3. new = [cs EXCEPT ![n] = c]
  BY DEF Found
<1> HIDE DEF c
<1>4. DOMAIN new = DOMAIN cs /\ new[n] = c /\ \A k \in DOMAIN cs : k # n => new[k] = cs[k]
  BY <1>3
<1>5. new \in Seq(CallState) /\ Len(new) = Len(cs)
  <2>1. new = [k \in DOMAIN new |-> new[k]]
    BY <1>3
  <2>2. \A k \in DOMAIN cs : new[k] \in CallState
    BY <1>2, <1>4
  <2> QED BY <1>4, <2>1, <2>2, EachOf
<1> QED BY <1>2, <1>4, <1>5

LEMMA FoundPage ==
  ASSUME IInv, PageInv, NEW n \in DOMAIN calls, calls[n].kind = "patch",
         calls' = [calls EXCEPT ![n].ans = 1],
         UNCHANGED <<accounts, issued, revoked, st, view>>
  PROVE  PageInv'
<1>1. calls \in Seq(CallState) /\ Fits(calls, st, Len(issued), view.busy)
  BY PageFinds
<1>2. /\ calls' \in Seq(CallState) /\ DOMAIN calls' = DOMAIN calls /\ Len(calls') = Len(calls)
      /\ \A k \in DOMAIN calls :
           /\ calls'[k].kind = calls[k].kind /\ calls'[k].form = calls[k].form
           /\ calls'[k].key = calls[k].key /\ calls'[k].served = calls[k].served
           /\ k # n => calls'[k] = calls[k]
  <2>1. PICK new : new = calls'
    OBVIOUS
  <2>2. new = Found(calls, n)
    BY <2>1 DEF Found
  <2>3. /\ new \in Seq(CallState) /\ DOMAIN new = DOMAIN calls /\ Len(new) = Len(calls)
        /\ \A k \in DOMAIN calls :
             /\ new[k].kind = calls[k].kind /\ new[k].form = calls[k].form
             /\ new[k].key = calls[k].key /\ new[k].served = calls[k].served
             /\ k # n => new[k] = calls[k]
    BY <1>1, <2>2, FoundOf
  <2> QED BY <2>1, <2>3, Zenon
<1>3. \A k \in DOMAIN calls : CallFits(calls[k], st, Len(issued)) => CallFits(calls'[k], st, Len(issued))
  BY <1>2 DEF CallFits
<1>4. \A k \in DOMAIN calls : /\ calls'[k].kind = calls[k].kind
                              /\ calls'[k].form = IF calls[k].form \in {} THEN "" ELSE calls[k].form
  BY <1>2
<1>5. PICK new \in Seq(CallState) : new = calls'
  BY <1>2
<1>6. Fits(new, st, Len(issued), view.busy \ {})
  BY <1>1, <1>2, <1>3, <1>4, <1>5, SameFits
<1>7. view.busy \ {} = view.busy
  OBVIOUS
<1>8. Load(calls') = Load(calls) /\ Due(calls') = Due(calls)
  BY <1>2, SameSizes
<1>9. Fits(calls', st', Len(issued'), view'.busy)
  BY <1>5, <1>6, <1>7
<1>10. Bounded(calls', Len(issued'))
  BY <1>8, Zenon DEF PageInv, Bounded
<1> QED BY <1>9, <1>10, PageKept DEF PageInv

LEMMA ServePage ==
  ASSUME IInv, PageInv, NEW n \in DOMAIN calls, Serve(n) PROVE PageInv'
<1> DEFINE c == calls[n]
<1>1. /\ calls \in Seq(CallState) /\ book \in Seq(Entry) /\ issued \in Seq(User)
      /\ CallIsSound(c, issued, st.token) /\ DOMAIN issued = 1 .. Len(issued)
  BY PageFinds DEF IInv, Types, CallsAreSound
<1>2. c \in CallState
  BY <1>1
<1>3. accounts \subseteq User /\ revoked \subseteq DOMAIN issued
  BY DEF PageInv
<1>4. 0 \in CallAns /\ 1 \in CallAns
  BY DEF CallAns
<1>5. \A u : KeysOf(u) \in CallAns
  BY <1>1 DEF KeysOf, CallAns
<1>6. CASE ServeAccount(n)
  <2>1. ~c.served /\ UNCHANGED <<revoked, st, view>>
    BY <1>6 DEF ServeAccount
  <2>2. CASE c.kind = "status" /\ Replies(n, TRUE, IF accounts = {} THEN 1 ELSE 0)
             /\ UNCHANGED <<accounts, issued>>
    <3>1. PICK ok \in BOOLEAN, ans \in CallAns : ok = TRUE /\ ans = IF accounts = {} THEN 1 ELSE 0
      BY <1>4
    <3>2. Replies(n, ok, ans) /\ c.kind \notin {"mkkey", "rmkey"}
      BY <2>2, <3>1
    <3> QED BY <1>3, <2>1, <2>2, <3>2, PlainServedPage
  <2>3. CASE c.kind = "setup" /\ accounts' = {c.arg} /\ Mints(n, c.arg, "admin")
    <3>1. c.arg \in User
      BY <1>1, <2>3 DEF CallIsSound
    <3> QED BY <2>1, <2>3, <3>1, MintPage
  <2>4. CASE c.kind \in {"setup", "login"} /\ Replies(n, FALSE, 0) /\ UNCHANGED <<accounts, issued>>
    <3>1. PICK ok \in BOOLEAN, ans \in CallAns : ok = FALSE /\ ans = 0
      BY <1>4
    <3>2. Replies(n, ok, ans) /\ ~ok
      BY <2>4, <3>1
    <3> QED BY <1>3, <2>1, <2>4, <3>2, PlainServedPage
  <2>5. CASE c.kind = "login" /\ c.arg \in accounts /\ UNCHANGED accounts
             /\ \E scope : Mints(n, c.arg, scope)
    BY <1>3, <2>1, <2>5, MintPage
  <2> QED BY <1>6, <2>2, <2>3, <2>4, <2>5, Zenon DEF ServeAccount
<1>7. CASE ServeKeys(n)
  <2> DEFINE u == Owner(c.token)
             grants == u # NoUser /\ (c.arg = "admin" => IsAdmin(c.token))
  <2>1. ~c.served /\ UNCHANGED <<accounts, st, view>>
    BY <1>7 DEF ServeKeys
  <2>2. CASE c.kind = "keys" /\ Replies(n, u # NoUser, KeysOf(u)) /\ UNCHANGED <<issued, revoked>>
    <3>1. PICK ok \in BOOLEAN, ans \in CallAns : ok = (u # NoUser) /\ ans = KeysOf(u)
      BY <1>5
    <3>2. Replies(n, ok, ans) /\ c.kind \notin {"mkkey", "rmkey"}
      BY <2>2, <3>1
    <3> QED BY <1>3, <2>1, <2>2, <3>2, PlainServedPage
  <2>3. CASE c.kind = "mkkey" /\ grants /\ Mints(n, u, c.arg) /\ UNCHANGED revoked
    <3>1. u \in User
      BY <1>1, <2>3, OwnerOf
    <3>2. accounts' \subseteq User
      BY <1>3, <2>1
    <3> HIDE DEF u
    <3> QED BY <2>1, <2>3, <3>1, <3>2, MintPage
  <2>4. CASE c.kind = "mkkey" /\ ~grants /\ Replies(n, FALSE, 0) /\ UNCHANGED <<issued, revoked>>
    <3>1. PICK ok \in BOOLEAN, ans \in CallAns : ok = FALSE /\ ans = 0
      BY <1>4
    <3>2. Replies(n, ok, ans) /\ ~ok
      BY <2>4, <3>1
    <3> QED BY <1>3, <2>1, <2>4, <3>2, PlainServedPage
  <2>5. CASE /\ c.kind = "rmkey"
             /\ Replies(n, u # NoUser /\ c.arg \in KeysOf(u), 0)
             /\ revoked' = revoked \cup ({c.arg} \cap KeysOf(u))
             /\ UNCHANGED issued
    <3>1. PICK ok \in BOOLEAN, ans \in CallAns : ok = (u # NoUser /\ c.arg \in KeysOf(u)) /\ ans = 0
      BY <1>4
    <3>2. Replies(n, ok, ans)
      BY <2>5, <3>1
    <3>3. revoked' \subseteq DOMAIN issued
      BY <1>3, <2>5 DEF KeysOf
    <3> QED BY <2>1, <2>5, <3>1, <3>2, <3>3, PlainServedPage
  <2> QED BY <1>7, <2>2, <2>3, <2>4, <2>5 DEF ServeKeys
<1>8. CASE ServeAddresses(n)
  <2> DEFINE u == Owner(c.token)
  <2>1. ~c.served /\ UNCHANGED <<accounts, issued, revoked, st, view>>
    BY <1>8 DEF ServeAddresses
  <2>2. c.kind \notin {"mkkey", "rmkey"} /\ \E ok \in BOOLEAN, ans \in CallAns : Replies(n, ok, ans)
    <3>1. CASE c.kind = "addrs" /\ Replies(n, u # NoUser, IF u # NoUser THEN Listed(u) ELSE 0)
      <4>1. (IF u # NoUser THEN Listed(u) ELSE 0) \in CallAns
        BY <1>1, <1>4, ListedTypes
      <4>2. (u # NoUser) \in BOOLEAN
        OBVIOUS
      <4> HIDE DEF u
      <4> QED BY <3>1, <4>1, <4>2
    <3>2. CASE c.kind \in {"reserve", "release"} /\ Replies(n, TRUE, 0)
      BY <1>4, <3>2
    <3>3. CASE c.kind \in {"reserve", "release"} /\ Replies(n, FALSE, 0)
      BY <1>4, <3>3
    <3> QED BY <1>8, <3>1, <3>2, <3>3 DEF ServeAddresses
  <2> QED BY <1>3, <2>1, <2>2, PlainServedPage
<1>9. CASE FindAddress(n) \/ WriteAddress(n)
  <2>1. c.kind = "patch" /\ ~c.served /\ UNCHANGED <<accounts, issued, revoked, st, view>>
    BY <1>9 DEF FindAddress, WriteAddress
  <2>2. CASE calls' = [calls EXCEPT ![n].ans = 1]
    BY <2>1, <2>2, FoundPage
  <2>3. CASE Replies(n, FALSE, 0) \/ Replies(n, TRUE, 0)
    BY <1>3, <1>4, <2>1, <2>3, PlainServedPage
  <2> QED BY <1>9, <2>2, <2>3 DEF FindAddress, WriteAddress
<1> QED BY <1>6, <1>7, <1>8, <1>9 DEF Serve

---------------------------------------------------------------------------
(* Answers arrive *)

(* What is left when a call is answered, and what waits no more. *)
LEMMA RestPage ==
  ASSUME IInv, PageInv, NEW n \in DOMAIN calls
  PROVE  /\ Rest(n) \in Seq(CallState)
         /\ Fits(Rest(n), st, Len(issued), view.busy \ {calls[n].form})
         /\ Load(Rest(n)) + LoadOf(calls[n]) <= MaxCalls /\ Load(Rest(n)) + 1 <= MaxCalls
         /\ Bounded(Rest(n), Len(issued))
         /\ calls[n] \in CallState /\ CallFits(calls[n], st, Len(issued))
         /\ \A j \in DOMAIN Rest(n) :
              /\ CallFits(Rest(n)[j], st, Len(issued))
              /\ calls[n].kind = "status" => Rest(n)[j].kind # "status"
              /\ calls[n].form # "" => Rest(n)[j].form # calls[n].form
<1> DEFINE new == RemoveAt(calls, n)
<1>1. /\ calls \in Seq(CallState) /\ Fits(calls, st, Len(issued), view.busy)
      /\ Len(issued) \in Nat /\ Load(calls) \in Nat /\ Due(calls) \in Nat
      /\ MaxCalls \in Nat /\ MaxKeys \in Nat
  BY PageFinds
<1>2. /\ new \in Seq(CallState)
      /\ \A j \in DOMAIN new : Before(j, n) \in DOMAIN calls \ {n} /\ new[j] = calls[Before(j, n)]
  BY <1>1, RestOf
<1>3. Fits(new, st, Len(issued), view.busy \ {calls[n].form})
  BY <1>1, RestFits
<1>4. /\ Load(new) = Load(calls) - LoadOf(calls[n]) /\ Due(new) = Due(calls) - DueOf(calls[n])
  BY <1>1, RestSizes
<1>5. LoadOf(calls[n]) \in {1, 2} /\ DueOf(calls[n]) \in {0, 1}
  BY DEF LoadOf, DueOf
<1>6. Load(calls) <= MaxCalls /\ Len(issued) + Due(calls) <= MaxKeys
  BY DEF PageInv, Bounded
<1>7. Load(new) \in Nat
  BY <1>2, SizeTypes
<1> HIDE DEF new
<1>8. /\ Load(new) + LoadOf(calls[n]) <= MaxCalls /\ Load(new) <= MaxCalls
      /\ Load(new) + 1 <= MaxCalls
  BY <1>1, <1>4, <1>5, <1>6
<1>9. Len(issued) + Due(new) <= MaxKeys
  BY <1>1, <1>4, <1>5, <1>6
<1>10. Bounded(new, Len(issued))
  BY <1>8, <1>9, Zenon DEF Bounded
<1>11. calls[n] \in CallState /\ CallFits(calls[n], st, Len(issued))
  BY <1>1 DEF Fits
<1>12. ASSUME NEW j \in DOMAIN new
       PROVE  /\ CallFits(new[j], st, Len(issued))
              /\ calls[n].kind = "status" => new[j].kind # "status"
              /\ calls[n].form # "" => new[j].form # calls[n].form
  <2>1. /\ Before(j, n) \in DOMAIN calls /\ Before(j, n) # n /\ new[j] = calls[Before(j, n)]
    BY <1>2
  <2>2. OneEach(calls) /\ CallFits(calls[Before(j, n)], st, Len(issued))
    BY <1>1, <2>1 DEF Fits
  <2> QED BY <2>1, <2>2 DEF OneEach
<1>13. Rest(n) = new
  BY DEF Rest, new
<1> QED BY <1>2, <1>3, <1>8, <1>10, <1>11, <1>12, <1>13

LEMMA SettledPage ==
  ASSUME IInv, PageInv, NEW form, NEW key, form = "key" => key \in 0 .. Len(issued)
  PROVE  /\ Settled(form, key) \in ViewState(Len(issued))
         /\ Settled(form, key).busy = view.busy \ {form}
<1>1. view \in ViewState(Len(issued))
  BY DEF PageInv
<1>2. Settled(form, key) = [view EXCEPT !.busy = @ \ {form},
                                        !.secret = IF form = "key" THEN key ELSE @]
  BY DEF Settled
<1> QED BY <1>1, <1>2 DEF ViewState

(* A load in the place of the call that was answered. *)
LEMMA MountedPage ==
  ASSUME IInv, PageInv, NEW n \in DOMAIN calls, NEW cs, SameSize(cs, Rest(n)), NEW s,
         s.token \in Nat, NEW busy, Fits(cs, s, Len(issued), busy), NEW page
  PROVE  /\ Fits(Mounts(s, cs, page), s, Len(issued), busy)
         /\ Bounded(Mounts(s, cs, page), Len(issued))
<1>1. /\ Load(Rest(n)) + 1 <= MaxCalls /\ Bounded(Rest(n), Len(issued)) /\ Len(issued) \in Nat
  BY RestPage, PageFinds
<1>2. /\ Fits(Mounts(s, cs, page), s, Len(issued), busy)
      /\ Mounts(s, cs, page) = cs \/ OneMore(Mounts(s, cs, page), cs)
  BY <1>1, MountFits
<1>3. CASE Mounts(s, cs, page) = cs
  BY <1>1, <1>2, <1>3, SameBounded
<1>4. CASE OneMore(Mounts(s, cs, page), cs)
  BY <1>1, <1>2, <1>4, Zenon DEF OneMore, SameSize, Bounded
<1> QED BY <1>2, <1>3, <1>4

(* The status is known, or will not be: only loads can be under way. *)
LEMMA StatusPage ==
  ASSUME IInv, PageInv, NEW n \in DOMAIN calls, calls[n].kind = "status",
         calls' = Mounts(st', Rest(n), view.page), UNCHANGED <<accounts, issued, revoked, view>>,
         st'.token = st.token, st'.signinOpen = st.signinOpen
  PROVE  PageInv'
<1>1. /\ Fits(Rest(n), st, Len(issued), view.busy \ {calls[n].form})
      /\ Bounded(Rest(n), Len(issued))
      /\ calls[n] \in CallState /\ CallFits(calls[n], st, Len(issued))
      /\ \A j \in DOMAIN Rest(n) :
           CallFits(Rest(n)[j], st, Len(issued)) /\ Rest(n)[j].kind # "status"
  BY RestPage
<1>2. view \in ViewState(Len(issued)) /\ st.token \in Token /\ (st.signinOpen => st.checked)
  BY DEF PageInv
<1>3. ~st.checked /\ calls[n].form = ""
  BY <1>1 DEF CallFits, CallState, Form, Forms
<1>4. view.busy \ {calls[n].form} = view.busy
  BY <1>2, <1>3 DEF ViewState, Forms
<1>5. ASSUME NEW j \in DOMAIN Rest(n) PROVE CallFits(Rest(n)[j], st', Len(issued))
  <2> DEFINE c == Rest(n)[j]
  <2>1. /\ c.kind # "status" /\ c.kind # "setup"
        /\ c.kind \notin {"login", "mkkey", "rmkey"} \cup Changes
    BY <1>1, <1>3 DEF CallFits
  <2> QED BY <1>1, <2>1 DEF CallFits
<1>6. Fits(Rest(n), st', Len(issued), view.busy)
  <2>1. Fits(Rest(n), st, Len(issued), view.busy)
    BY <1>1, <1>4
  <2>2. \A j \in DOMAIN Rest(n) : CallFits(Rest(n)[j], st, Len(issued))
                               => CallFits(Rest(n)[j], st', Len(issued))
    BY <1>5
  <2> QED BY <2>1, <2>2, StateFits
<1>7. Fits(calls', st', Len(issued), view'.busy) /\ Bounded(calls', Len(issued))
  <2>1. SameSize(Rest(n), Rest(n)) /\ st'.token \in Nat
    BY PageFinds DEF SameSize
  <2> QED BY <1>6, <2>1, MountedPage
<1> QED BY <1>2, <1>3, <1>7, PageKept

LEMMA StatusArrivesPage ==
  ASSUME IInv, PageInv, NEW n \in DOMAIN calls, StatusArrives(n) PROVE PageInv'
<1>1. st \in SessionState
  BY PageFinds
<1>2. st'.token = st.token /\ st'.signinOpen = st.signinOpen
  BY <1>1 DEF StatusArrives, SessionState
<1> QED BY <1>2, StatusPage DEF StatusArrives, Answers

LEMMA SetupArrivesPage ==
  ASSUME IInv, PageInv, NEW n \in DOMAIN calls, SetupArrives(n) PROVE PageInv'
<1> DEFINE c == calls[n]
<1>1. /\ Rest(n) \in Seq(CallState)
      /\ Fits(Rest(n), st, Len(issued), view.busy \ {c.form})
      /\ Bounded(Rest(n), Len(issued))
      /\ c \in CallState /\ CallFits(c, st, Len(issued))
      /\ \A j \in DOMAIN Rest(n) :
              /\ CallFits(Rest(n)[j], st, Len(issued))
              /\ c.form # "" => Rest(n)[j].form # c.form
  BY RestPage
<1>2. view \in ViewState(Len(issued)) /\ (st.signinOpen => st.checked /\ ~st.needsSetup)
  BY DEF PageInv
<1>3. /\ c.kind = "setup" /\ c.served /\ c.ok
      /\ st' = [Session(st, c.arg, c.ans) EXCEPT !.needsSetup = FALSE]
      /\ view' = [view EXCEPT !.busy = @ \ {"setup"}]
      /\ calls' = Mounts(st', NewSession(Rest(n)), view.page) /\ UNCHANGED <<accounts, issued, revoked>>
  BY DEF SetupArrives, Answers
<1>4. st.checked /\ st.needsSetup /\ c.form = "setup"
  BY <1>1, <1>3 DEF CallFits
<1>5. st'.token \in Token /\ ~st'.signinOpen
  <2>1. st \in SessionState /\ DOMAIN issued \subseteq Token /\ CallIsSound(c, issued, st.token)
    BY PageFinds DEF IInv, CallsAreSound
  <2>2. c.ans \in Token
    BY <1>3, <2>1 DEF CallIsSound
  <2>3. st'.token = c.ans /\ st'.signinOpen = st.signinOpen
    BY <1>3, <2>1 DEF Session, SessionState
  <2> QED BY <1>2, <1>4, <2>2, <2>3
<1>6. view' \in ViewState(Len(issued)) /\ view'.busy = view.busy \ {c.form}
  BY <1>2, <1>3, <1>4 DEF ViewState
<1>7. ASSUME NEW j \in DOMAIN Rest(n) PROVE CallFits(Rest(n)[j], st', Len(issued))
  <2> DEFINE d == Rest(n)[j]
  <2>1. /\ CallFits(d, st, Len(issued)) /\ d.form # "setup"
    BY <1>1, <1>4
  <2>2. /\ d.kind # "status" /\ d.kind # "setup"
        /\ d.kind \notin {"login", "mkkey", "rmkey"} \cup Changes
    BY <1>4, <2>1 DEF CallFits
  <2> QED BY <2>1, <2>2 DEF CallFits
<1>8. Fits(NewSession(Rest(n)), st', Len(issued), view'.busy)
  <2>1. \A j \in DOMAIN Rest(n) : CallFits(Rest(n)[j], st, Len(issued))
                               => CallFits(Rest(n)[j], st', Len(issued))
    BY <1>7
  <2>2. Fits(Rest(n), st', Len(issued), view.busy \ {c.form})
    BY <1>1, <2>1, StateFits
  <2>3. Fits(NewSession(Rest(n)), st', Len(issued), view.busy \ {c.form})
    BY <2>2, SessionFits
  <2> QED BY <1>6, <2>3
<1>9. Fits(calls', st', Len(issued), view'.busy) /\ Bounded(calls', Len(issued))
  <2>1. SameSize(NewSession(Rest(n)), Rest(n))
    BY <1>1, SessionSizes
  <2>2. st'.token \in Nat
    <3>1. Token \subseteq Nat
      BY SessionBoundAssumption DEF Token, NoToken, GlobalToken
    <3> QED BY <1>5, <3>1
  <2> QED BY <1>3, <1>8, <2>1, <2>2, MountedPage
<1> QED BY <1>3, <1>5, <1>6, <1>9, PageKept

(* Forms of the keys page wait for its calls, those of the addresses page for
   its own. *)
LEMMA FormOfKind ==
  ASSUME NEW c \in CallState, NEW s, NEW keys, CallFits(c, s, keys)
  PROVE  /\ c.kind = "login" => c.form \in {"", "login"}
         /\ c.kind \in {"keys", "mkkey", "rmkey"} => c.form \in {"", "key"}
         /\ c.kind \in BookCalls => c.form \in {"", "reserve"}
         /\ c.key \in 0 .. keys
         /\ c.kind \in {"mkkey", "rmkey"} /\ c.served /\ c.ok => c.ans \in 0 .. keys
BY DEF CallFits, CallState, Form, Forms, BookCalls, Changes, Edits

LEMMA LoginArrivesPage ==
  ASSUME IInv, PageInv, NEW n \in DOMAIN calls, LoginArrives(n) PROVE PageInv'
<1> DEFINE c == calls[n]
           s == [Session(st, c.arg, c.ans) EXCEPT !.signinOpen = FALSE]
           cs == NewSession(Unmounts({"login"}, Rest(n)))
           a == LoadAddresses(s, cs, "")
           busy == view.busy \ {"login"}
<1>1. /\ Rest(n) \in Seq(CallState)
      /\ Fits(Rest(n), st, Len(issued), view.busy \ {c.form})
      /\ Load(Rest(n)) + LoadOf(c) <= MaxCalls
      /\ Bounded(Rest(n), Len(issued))
      /\ c \in CallState /\ CallFits(c, st, Len(issued))
  BY RestPage
<1>2. view \in ViewState(Len(issued))
  BY DEF PageInv
<1>3. /\ c.kind = "login" /\ c.served /\ c.ok /\ st' = s
      /\ view' = [view EXCEPT !.busy = @ \ {"login"}]
      /\ calls' = LoadKeys(s, a, "", 0) /\ UNCHANGED <<accounts, issued, revoked>>
  BY DEF LoginArrives, Answers
<1>4. c.form \in {"", "login"}
  BY <1>1, <1>3, FormOfKind
<1>5. /\ st \in SessionState /\ DOMAIN issued \subseteq Token /\ CallIsSound(c, issued, st.token)
      /\ Len(issued) \in Nat /\ DOMAIN issued = 1 .. Len(issued)
  BY PageFinds DEF IInv, CallsAreSound
<1>6. c.ans \in Token /\ c.ans \in Nat /\ c.arg # NoUser
  <2>1. c.arg \in User /\ c.ans \in DOMAIN issued
    BY <1>3, <1>5 DEF CallIsSound
  <2>2. c.ans \in Nat
    BY <1>5, <2>1
  <2> HIDE DEF c
  <2> QED BY <1>5, <2>1, <2>2, UserAssumption
<1>7. /\ s.token = c.ans /\ s.user = c.arg /\ ~s.signinOpen
      /\ s.checked = st.checked /\ s.needsSetup = st.needsSetup
  BY <1>5 DEF Session, SessionState
<1>8. view' \in ViewState(Len(issued)) /\ view'.busy = busy /\ "" \notin busy
  BY <1>2, <1>3 DEF ViewState, Forms
<1> HIDE DEF s
<1>9. Fits(cs, s, Len(issued), busy) /\ cs \in Seq(CallState)
  <2> DEFINE was == view.busy \ {c.form}
             cs0 == Unmounts({"login"}, Rest(n))
  <2>1. {"login"} \in SUBSET {"login", "key", "reserve"}
    OBVIOUS
  <2>2. Fits(cs0, st, Len(issued), was \ {"login"})
    BY <1>1, <1>5, <2>1, UnmountFits
  <2>3. was \ {"login"} = busy
    BY <1>2, <1>4 DEF ViewState, Forms
  <2> HIDE DEF was, busy, cs0
  <2>4. Fits(cs0, s, Len(issued), busy)
    BY <1>7, <2>2, <2>3, SameStateFits
  <2>5. Fits(NewSession(cs0), s, Len(issued), busy)
    BY <2>4, SessionFits
  <2> QED BY <2>5 DEF Fits, cs0
<1>10. SameSize(cs, Rest(n))
  <2> DEFINE cs0 == Unmounts({"login"}, Rest(n))
  <2>1. SameSize(cs0, Rest(n))
    BY <1>1, UnmountSizes
  <2>2. SameSize(cs, cs0)
    <3>1. cs0 \in Seq(CallState)
      BY <1>1, UnmountsOf
    <3> HIDE DEF cs0
    <3>2. SameSize(NewSession(cs0), cs0)
      BY <3>1, SessionSizes
    <3> QED BY <3>2 DEF cs0
  <2> QED BY <2>1, <2>2, Zenon DEF SameSize
<1> HIDE DEF cs, busy
<1>11. PICK form, k : form = "" /\ k = 0
  OBVIOUS
<1>12. /\ busy \cup ({form} \ {""}) = busy /\ form \notin busy /\ OfAddresses(form)
       /\ OfKeys(form, k, Len(issued))
  <2>1. 0 \in 0 .. Len(issued)
    BY <1>5, KeysUpTo
  <2> QED BY <1>8, <1>11, <2>1 DEF OfAddresses, OfKeys
<1>13. Fits(a, s, Len(issued), busy) /\ OneMore(a, cs)
  <2>1. s.user # NoUser /\ s.token \in Nat
    BY <1>6, <1>7
  <2>2. /\ Fits(LoadAddresses(s, cs, form), s, Len(issued), busy \cup ({form} \ {""}))
        /\ OneMore(LoadAddresses(s, cs, form), cs)
    BY <1>5, <1>9, <1>12, <2>1, AddressesLoadFits
  <2> QED BY <1>11, <1>12, <2>2
<1> HIDE DEF a
<1>14. Fits(calls', s, Len(issued), busy) /\ OneMore(calls', a)
  <2>1. s.user # NoUser /\ s.token \in Nat
    BY <1>6, <1>7
  <2>2. /\ Fits(LoadKeys(s, a, form, k), s, Len(issued), busy \cup ({form} \ {""}))
        /\ OneMore(LoadKeys(s, a, form, k), a)
    BY <1>5, <1>12, <1>13, <2>1, KeysLoadFits
  <2> QED BY <1>3, <1>11, <1>12, <2>2
<1>15. Bounded(calls', Len(issued))
  <2>1. Load(Rest(n)) + 2 <= MaxCalls /\ Load(Rest(n)) \in Nat
    <3>1. LoadOf(c) = 2
      BY <1>3 DEF LoadOf
    <3> QED BY <1>1, <3>1, SizeTypes
  <2>2. Load(calls') = (Load(Rest(n)) + 1) + 1 /\ Due(calls') = Due(Rest(n))
    BY <1>10, <1>13, <1>14, Zenon DEF SameSize, OneMore
  <2>3. (Load(Rest(n)) + 1) + 1 = Load(Rest(n)) + 2
    BY <2>1
  <2> QED BY <1>1, <2>1, <2>2, <2>3, Zenon DEF Bounded
<1>16. st'.token \in Token /\ ~st'.signinOpen
  BY <1>3, <1>6, <1>7
<1>17. Fits(calls', st', Len(issued), view'.busy)
  BY <1>3, <1>8, <1>14
<1> QED BY <1>3, <1>8, <1>15, <1>16, <1>17, PageKept

(* A call is answered: the form that waited for it waits no more. *)
LEMMA EndedPage ==
  ASSUME IInv, PageInv, NEW n \in DOMAIN calls, NEW key, NEW m,
         calls' = Rest(n) \/ calls' = LateUpTo(Rest(n), m),
         view' = Settled(calls[n].form, key),
         calls[n].form = "key" => key \in 0 .. Len(issued),
         UNCHANGED <<accounts, issued, revoked>>, st'.token = st.token,
         st'.checked = st.checked, st'.needsSetup = st.needsSetup, st'.signinOpen = st.signinOpen
  PROVE  PageInv'
<1>1. /\ Fits(Rest(n), st, Len(issued), view.busy \ {calls[n].form})
      /\ Bounded(Rest(n), Len(issued)) /\ Rest(n) \in Seq(CallState)
  BY RestPage
<1>2. view' \in ViewState(Len(issued)) /\ view'.busy = view.busy \ {calls[n].form}
  BY SettledPage
<1>3. st.token \in Token /\ (st.signinOpen => st.checked /\ ~st.needsSetup)
  BY DEF PageInv
<1>4. Fits(Rest(n), st', Len(issued), view'.busy)
  BY <1>1, <1>2, SameStateFits
<1>5. Fits(LateUpTo(Rest(n), m), st', Len(issued), view'.busy)
  BY <1>4, LateFits
<1>6. Bounded(LateUpTo(Rest(n), m), Len(issued))
  BY <1>1, LateSizes, SameBounded
<1>7. Fits(calls', st', Len(issued), view'.busy) /\ Bounded(calls', Len(issued))
  BY <1>1, <1>4, <1>5, <1>6
<1> QED BY <1>2, <1>3, <1>7, PageKept

(* A call is answered and followed by a load, for which its form waits on. *)
LEMMA FollowedPage ==
  ASSUME IInv, PageInv, NEW n \in DOMAIN calls, NEW form, form = calls[n].form,
         Fits(calls', st, Len(issued), (view.busy \ {form}) \cup ({form} \ {""})),
         OneMore(calls', Rest(n)), UNCHANGED <<accounts, issued, revoked, st, view>>
  PROVE  PageInv'
<1>1. /\ Load(Rest(n)) + 1 <= MaxCalls /\ Bounded(Rest(n), Len(issued))
      /\ calls[n] \in CallState
  BY RestPage
<1>2. Bounded(calls', Len(issued))
  BY <1>1, Zenon DEF OneMore, Bounded
<1>3. /\ view \in ViewState(Len(issued)) /\ st.token \in Token
      /\ st.signinOpen => st.checked /\ ~st.needsSetup
      /\ Fits(calls, st, Len(issued), view.busy)
  BY DEF PageInv
<1>4. (view.busy \ {form}) \cup ({form} \ {""}) = view.busy
  <2>1. form # "" => form \in view.busy
    BY <1>1, <1>3 DEF Fits, HasForm, CallState, Form
  <2>2. "" \notin view.busy
    BY <1>3 DEF ViewState, Forms
  <2> QED BY <2>1, <2>2
<1>5. Fits(calls', st', Len(issued), view'.busy)
  BY <1>4
<1> QED BY <1>2, <1>3, <1>5, PageKept

LEMMA LoadsArrivePage ==
  ASSUME IInv, PageInv, NEW n \in DOMAIN calls, KeysArrive(n) \/ AddressesArrive(n)
  PROVE  PageInv'
<1> DEFINE c == calls[n]
<1>1. c \in CallState /\ CallFits(c, st, Len(issued)) /\ st \in SessionState
  BY RestPage, PageFinds
<1>2. CASE KeysArrive(n)
  <2>1. /\ st' = [st EXCEPT !.keys = c.ans] /\ view' = Settled(c.form, c.key) /\ calls' = Rest(n)
        /\ UNCHANGED <<accounts, issued, revoked>>
    BY <1>2 DEF KeysArrive
  <2>2. /\ st'.token = st.token /\ st'.checked = st.checked
        /\ st'.needsSetup = st.needsSetup /\ st'.signinOpen = st.signinOpen
    BY <1>1, <2>1 DEF SessionState
  <2>3. c.key \in 0 .. Len(issued)
    BY <1>1, FormOfKind
  <2> QED BY <2>1, <2>2, <2>3, EndedPage
<1>3. CASE AddressesArrive(n)
  <2>1. /\ st' = [st EXCEPT !.addresses = c.ans]
        /\ view' = Settled(c.form, 0) /\ calls' = LateUpTo(Rest(n), n - 1) /\ c.kind = "addrs"
        /\ UNCHANGED <<accounts, issued, revoked>>
    BY <1>3 DEF AddressesArrive, Answers
  <2>2. /\ st'.token = st.token /\ st'.checked = st.checked
        /\ st'.needsSetup = st.needsSetup /\ st'.signinOpen = st.signinOpen
    BY <1>1, <2>1 DEF SessionState
  <2>3. c.form # "key"
    BY <1>1, <2>1, FormOfKind DEF BookCalls
  <2>4. PICK key : key = 0
    OBVIOUS
  <2>5. view' = Settled(c.form, key)
    BY <2>1, <2>4
  <2> QED BY <2>1, <2>2, <2>3, <2>5, EndedPage
<1> QED BY <1>2, <1>3

LEMMA KeyMadePage ==
  ASSUME IInv, PageInv, NEW n \in DOMAIN calls, KeyMade(n) PROVE PageInv'
<1> DEFINE c == calls[n]
<1>1. /\ c \in CallState /\ CallFits(c, st, Len(issued)) /\ st \in SessionState
      /\ Fits(Rest(n), st, Len(issued), view.busy \ {c.form})
      /\ st.token \in Nat /\ Len(issued) \in Nat
  BY RestPage, PageFinds
<1>2. /\ c.kind \in {"mkkey", "rmkey"} /\ c.served /\ c.ok
      /\ calls' = LoadKeys(st, Rest(n), c.form, c.ans)
      /\ st' = IF st.user = NoUser THEN [st EXCEPT !.keys = {}] ELSE st
      /\ view' = IF st.user = NoUser THEN Settled(c.form, c.ans) ELSE view
      /\ UNCHANGED <<accounts, issued, revoked>>
  BY DEF KeyMade, Answers
<1>3. c.form \in {"", "key"} /\ c.ans \in 0 .. Len(issued)
  BY <1>1, <1>2, FormOfKind
<1>4. CASE st.user = NoUser
  <2>1. calls' = Rest(n) /\ view' = Settled(c.form, c.ans)
    BY <1>2, <1>4 DEF LoadKeys
  <2>2. /\ st'.token = st.token /\ st'.checked = st.checked
        /\ st'.needsSetup = st.needsSetup /\ st'.signinOpen = st.signinOpen
    BY <1>1, <1>2, <1>4 DEF SessionState
  <2> QED BY <1>2, <1>3, <2>1, <2>2, EndedPage
<1>5. CASE st.user # NoUser
  <2>1. PICK form, key, busy : form = c.form /\ key = c.ans /\ busy = view.busy \ {form}
    OBVIOUS
  <2>2. form \notin busy /\ OfKeys(form, key, Len(issued)) /\ Fits(Rest(n), st, Len(issued), busy)
    BY <1>1, <1>3, <2>1 DEF OfKeys
  <2>3. /\ Fits(LoadKeys(st, Rest(n), form, key), st, Len(issued), busy \cup ({form} \ {""}))
        /\ OneMore(LoadKeys(st, Rest(n), form, key), Rest(n))
    BY <1>1, <1>5, <2>2, KeysLoadFits
  <2>4. /\ Fits(calls', st, Len(issued), (view.busy \ {form}) \cup ({form} \ {""}))
        /\ OneMore(calls', Rest(n))
    BY <1>2, <2>1, <2>3
  <2>5. UNCHANGED <<accounts, issued, revoked, st, view>>
    BY <1>2, <1>5
  <2> QED BY <2>1, <2>4, <2>5, FollowedPage
<1> QED BY <1>4, <1>5

LEMMA AddressChangedPage ==
  ASSUME IInv, PageInv, NEW n \in DOMAIN calls, AddressChanged(n) PROVE PageInv'
<1> DEFINE c == calls[n]
<1>1. /\ c \in CallState /\ CallFits(c, st, Len(issued)) /\ st \in SessionState
      /\ Fits(Rest(n), st, Len(issued), view.busy \ {c.form})
      /\ st.token \in Nat /\ Len(issued) \in Nat
  BY RestPage, PageFinds
<1>2. /\ c.kind \in Changes
      /\ calls' = LoadAddresses(st, Rest(n), c.form)
      /\ st' = IF st.user = NoUser THEN [st EXCEPT !.addresses = {}] ELSE st
      /\ view' = IF st.user = NoUser THEN Settled(c.form, 0) ELSE view
      /\ UNCHANGED <<accounts, issued, revoked>>
  BY DEF AddressChanged, Answers
<1>3. c.form \in {"", "reserve"}
  BY <1>1, <1>2, FormOfKind DEF BookCalls
<1>4. CASE st.user = NoUser
  <2>1. PICK key : key = 0
    OBVIOUS
  <2>2. calls' = Rest(n) /\ view' = Settled(c.form, key) /\ c.form # "key"
    BY <1>2, <1>3, <1>4, <2>1 DEF LoadAddresses
  <2>3. /\ st'.token = st.token /\ st'.checked = st.checked
        /\ st'.needsSetup = st.needsSetup /\ st'.signinOpen = st.signinOpen
    BY <1>1, <1>2, <1>4 DEF SessionState
  <2> QED BY <1>2, <2>2, <2>3, EndedPage
<1>5. CASE st.user # NoUser
  <2>1. PICK form, busy : form = c.form /\ busy = view.busy \ {form}
    OBVIOUS
  <2>2. form \notin busy /\ OfAddresses(form) /\ Fits(Rest(n), st, Len(issued), busy)
    BY <1>1, <1>3, <2>1 DEF OfAddresses
  <2>3. /\ Fits(LoadAddresses(st, Rest(n), form), st, Len(issued), busy \cup ({form} \ {""}))
        /\ OneMore(LoadAddresses(st, Rest(n), form), Rest(n))
    BY <1>1, <1>5, <2>2, AddressesLoadFits
  <2>4. /\ Fits(calls', st, Len(issued), (view.busy \ {form}) \cup ({form} \ {""}))
        /\ OneMore(calls', Rest(n))
    BY <1>2, <2>1, <2>3
  <2>5. UNCHANGED <<accounts, issued, revoked, st, view>>
    BY <1>2, <1>5
  <2> QED BY <2>1, <2>4, <2>5, FollowedPage
<1> QED BY <1>4, <1>5

LEMMA CallFailsPage ==
  ASSUME IInv, PageInv, NEW n \in DOMAIN calls, CallFails(n) PROVE PageInv'
<1> DEFINE c == calls[n]
<1>1. /\ c \in CallState /\ CallFits(c, st, Len(issued)) /\ st \in SessionState
      /\ view \in ViewState(Len(issued))
  BY RestPage, PageFinds DEF PageInv
<1> DEFINE key == IF c.kind = "keys" THEN c.key ELSE view.secret
<1>2. /\ st' = Checked(c.kind)
      /\ view' = IF c.form = "" THEN view ELSE Settled(c.form, key)
      /\ calls' = Without(n) /\ UNCHANGED <<accounts, issued, revoked>>
  BY DEF CallFails
<1>3. /\ st'.token = st.token /\ st'.needsSetup = st.needsSetup /\ st'.signinOpen = st.signinOpen
      /\ c.kind # "status" => st'.checked = st.checked
  BY <1>1, <1>2 DEF SessionState, Checked
<1>4. CASE c.kind = "status"
  <2>1. c.form = ""
    BY <1>1, <1>4 DEF CallFits, CallState, Form, Forms
  <2>2. view' = view
    BY <1>2, <2>1
  <2>3. calls' = Mounts(st', Rest(n), view.page)
    BY <1>2, <1>4 DEF Without
  <2> QED BY <1>2, <1>3, <1>4, <2>2, <2>3, StatusPage
<1>5. CASE c.kind # "status"
  <2>1. view' = Settled(c.form, key)
    <3>1. CASE c.form = ""
      <4>1. view = Settled(c.form, key)
        BY <1>1, <3>1 DEF Settled, ViewState, Forms
      <4> QED BY <1>2, <3>1, <4>1
    <3>2. CASE c.form # ""
      BY <1>2, <3>2
    <3> QED BY <3>1, <3>2
  <2>2. key \in 0 .. Len(issued)
    <3>1. c.key \in 0 .. Len(issued) /\ view.secret \in 0 .. Len(issued)
      BY <1>1, FormOfKind DEF ViewState
    <3> QED BY <3>1
  <2>3. \E m : calls' = Rest(n) \/ calls' = LateUpTo(Rest(n), m)
    BY <1>2, <1>5, Zenon DEF Without
  <2> HIDE DEF key
  <2> QED BY <1>2, <1>3, <1>5, <2>1, <2>2, <2>3, EndedPage
<1> QED BY <1>4, <1>5

LEMMA NextPage == IInv /\ PageInv /\ [Next]_vars => PageInv'
<1> SUFFICES ASSUME IInv, PageInv, [Next]_vars PROVE PageInv'
  OBVIOUS
<1>1. CASE UserDoes
  <2>1. ASSUME NEW p \in Page, Visit(p) PROVE PageInv'
    BY <2>1, VisitPage
  <2>2. CASE \/ SubmitSetup \/ (\E u \in User : SubmitLogin(u)) \/ (\E scope \in Scope : MakeKey(scope))
             \/ (\E S \in SUBSET Dest : Reserve(S))
    BY <2>2, FormsPage
  <2>3. CASE \/ \E k \in 1 .. MaxKeys : RevokeKey(k)
             \/ \E r \in st.addresses :
                  Release(r) \/ \E d \in Dest : AddDest(r, d) \/ RemoveDest(r, d)
    BY <2>3, AsksPage
  <2>4. CASE Logout \/ \E t \in Draft : SetToken(t)
    BY <2>4, SessionPage
  <2>5. CASE OpenSignIn \/ CloseSignIn
    BY <2>5, OverlayPage
  <2>6. CASE Reload
    BY <2>6, ReloadPage
  <2>7. CASE DismissSecret
    BY <2>7, SmallPage
  <2> QED BY <1>1, <2>1, <2>2, <2>3, <2>4, <2>5, <2>6, <2>7 DEF UserDoes
<1>2. ASSUME NEW n \in DOMAIN calls, Serve(n) PROVE PageInv'
  BY <1>2, ServePage
<1>3. ASSUME NEW n \in DOMAIN calls, Answer(n) PROVE PageInv'
  <2>1. CASE StatusArrives(n) \/ SetupArrives(n) \/ LoginArrives(n)
    BY <2>1, StatusArrivesPage, SetupArrivesPage, LoginArrivesPage
  <2>2. CASE KeysArrive(n) \/ AddressesArrive(n)
    BY <2>2, LoadsArrivePage
  <2>3. CASE KeyMade(n) \/ AddressChanged(n) \/ CallFails(n)
    BY <2>3, KeyMadePage, AddressChangedPage, CallFailsPage
  <2> QED BY <1>3, <2>1, <2>2, <2>3 DEF Answer
<1>4. CASE UNCHANGED vars \/ \E u \in User : SetupElsewhere(u)
  BY <1>4, SmallPage
<1> QED BY <1>1, <1>2, <1>3, <1>4 DEF Next

LEMMA PageInductive == Spec => [](IInv /\ PageInv)
<1> QED BY InitInv, InitPage, NextInv, NextPage, PTL DEF Spec

---------------------------------------------------------------------------
(* What the edits and the list rely on.  The definitions take their calls,
   books and wishes as arguments, so that a lemma can speak of them before and
   after a step. *)

(* An edit that is not known to be done; a load that will tell all. *)
Open(c) == c.kind \in Edits /\ ~(c.served /\ c.ok)
Good(c) == c.kind = "addrs" /\ ~c.stale /\ ~c.late

(* A row shows an address that was live, of the owner that it has for good. *)
RowFits(r, b) == r.at \in DOMAIN b /\ r.is.live /\ r.is.of = b[r.at].of

(* What an edit of the book b asks, or the answer to a load tells. *)
EntryFits(c, b, w, doubt) ==
  /\ c.kind \in Edits =>
       /\ c.arg \in AnyRow /\ c.arg.at \in DOMAIN b /\ c.arg.is.of = b[c.arg.at].of
       /\ c.kind = "patch" => c.arg.is.live
       /\ c.kind = "release" => c.arg.is.to = {} /\ ~c.arg.is.live
  /\ Open(c) /\ c.arg.at \notin doubt => c.arg.is = w[c.arg.at]
  /\ c.kind = "addrs" /\ c.served /\ c.ok => \A r \in c.ans : RowFits(r, b)

(* An address out of doubt has one open edit, which asks what is wanted, or
   none, and is what is wanted. *)
EditsFit(cs, b, w, doubt) ==
  /\ \A n \in DOMAIN cs : EntryFits(cs[n], b, w, doubt)
  /\ \A n, k \in DOMAIN cs :
       Open(cs[n]) /\ Open(cs[k]) /\ cs[n].arg.at = cs[k].arg.at => n = k \/ cs[n].arg.at \in doubt
  /\ \A a \in DOMAIN b : \/ a \in doubt \/ b[a] = w[a]
                         \/ \E n \in DOMAIN cs : Open(cs[n]) /\ cs[n].arg.at = a

(* The addresses that are being reserved have room. *)
Reserving(cs) == {n \in DOMAIN cs : cs[n].kind = "reserve" /\ ~cs[n].served}
Rooms(cs, b) == Len(b) + Cardinality(Reserving(cs)) <= MaxBook

Kept(cs, b, w, doubt) == cs \in Seq(CallState) /\ EditsFit(cs, b, w, doubt) /\ Rooms(cs, b)

(* While no change is under way the last good load brings the book of the
   session, and when there is none the page has it. *)
LastGood(cs, n) == Good(cs[n]) /\ \A k \in DOMAIN cs : k > n => ~Good(cs[k])
NoGood(cs) == \A n \in DOMAIN cs : ~Good(cs[n])
NoChange(cs) == \A n \in DOMAIN cs : cs[n].kind \notin Changes
Rows(b, u) == {[at |-> a, is |-> b[a]] : a \in {x \in DOMAIN b : b[x].of = u /\ b[x].live}}

Brings(cs, b, u) ==
  \A n \in DOMAIN cs : LastGood(cs, n) /\ cs[n].served /\ cs[n].ok => cs[n].ans = Rows(b, u)

ListFits(cs, s, iss, behind, b) ==
  /\ ~behind => s.token \in DOMAIN iss
  /\ s.user = NoUser => behind /\ NoGood(cs)
  /\ NoChange(cs) => /\ Brings(cs, b, iss[s.token])
                     /\ ~behind /\ NoGood(cs) => s.addresses = Rows(b, iss[s.token])

BookInv ==
  /\ Len(hist.want) = Len(book) /\ hist.doubt \subseteq DOMAIN book
  /\ \A r \in st.addresses : RowFits(r, book)
  /\ Kept(calls, book, hist.want, hist.doubt)
  /\ ListFits(calls, st, issued, hist.behind, book)

---------------------------------------------------------------------------
(* Edits and rooms: how they follow the ways a list of calls is built *)

LEMMA RoomTypes ==
  ASSUME NEW cs \in Seq(CallState)
  PROVE  IsFiniteSet(Reserving(cs)) /\ Cardinality(Reserving(cs)) \in Nat
<1>1. DOMAIN cs = 1 .. Len(cs) /\ Len(cs) \in Nat
  OBVIOUS
<1>2. IsFiniteSet(1 .. Len(cs)) /\ Reserving(cs) \in SUBSET (1 .. Len(cs))
  BY <1>1, FS_Interval DEF Reserving
<1>3. IsFiniteSet(Reserving(cs))
  BY <1>2, FS_Subset
<1> QED BY <1>3, FS_CardinalityType

(* The same calls, as far as the book is concerned. *)
Alike(new, cs) ==
  /\ new \in Seq(CallState) /\ DOMAIN new = DOMAIN cs
  /\ \A n \in DOMAIN cs :
       /\ new[n].kind = cs[n].kind /\ new[n].token = cs[n].token /\ new[n].arg = cs[n].arg
       /\ new[n].served = cs[n].served /\ new[n].ok = cs[n].ok
       /\ cs[n].served => new[n].ans = cs[n].ans

LEMMA AlikeKept ==
  ASSUME NEW cs, NEW b, NEW w, NEW doubt, Kept(cs, b, w, doubt), NEW new, Alike(new, cs)
  PROVE  Kept(new, b, w, doubt)
<1>1. Reserving(new) = Reserving(cs)
  BY DEF Alike, Reserving
<1>2. Rooms(new, b)
  BY <1>1 DEF Kept, Rooms
<1>3. \A n \in DOMAIN cs : Open(new[n]) <=> Open(cs[n])
  BY DEF Alike, Open
<1>4. \A n \in DOMAIN new : EntryFits(new[n], b, w, doubt)
  BY <1>3 DEF Alike, Kept, EditsFit, EntryFits
<1>5. EditsFit(new, b, w, doubt)
  BY <1>3, <1>4 DEF Alike, Kept, EditsFit
<1> QED BY <1>2, <1>5 DEF Kept, Alike

LEMMA AlikeCalls ==
  ASSUME NEW cs \in Seq(CallState), NEW forms, NEW m
  PROVE  Alike(NewSession(cs), cs) /\ Alike(Unmounts(forms, cs), cs) /\ Alike(LateUpTo(cs, m), cs)
<1>1. Alike(NewSession(cs), cs)
  BY SessionOf DEF Alike
<1>2. Alike(Unmounts(forms, cs), cs)
  <2>1. PICK new : new = Unmounts(forms, cs)
    OBVIOUS
  <2>2. /\ new \in Seq(CallState) /\ DOMAIN new = DOMAIN cs
        /\ \A n \in DOMAIN cs : SameButForm(new[n], cs[n])
    BY <2>1, UnmountsOf
  <2> QED BY <2>1, <2>2 DEF Alike, SameButForm
<1>3. Alike(LateUpTo(cs, m), cs)
  BY LateOf DEF Alike
<1> QED BY <1>1, <1>2, <1>3

(* More doubt, and more wishes for what is in doubt. *)
LEMMA DoubtKept ==
  ASSUME NEW cs, NEW b, NEW w, NEW doubt, Kept(cs, b, w, doubt), NEW v, NEW more,
         doubt \subseteq more, \A a \in DOMAIN b : a \notin more => v[a] = w[a]
  PROVE  Kept(cs, b, v, more)
<1>1. \A n \in DOMAIN cs : EntryFits(cs[n], b, v, more)
  <2> SUFFICES ASSUME NEW n \in DOMAIN cs PROVE EntryFits(cs[n], b, v, more)
    OBVIOUS
  <2>1. EntryFits(cs[n], b, w, doubt)
    BY DEF Kept, EditsFit
  <2> QED BY <2>1 DEF EntryFits, Open
<1>2. EditsFit(cs, b, v, more)
  BY <1>1 DEF Kept, EditsFit
<1> QED BY <1>2 DEF Kept

LEMMA AppendKept ==
  ASSUME NEW cs, NEW b, NEW w, NEW doubt, Kept(cs, b, w, doubt), NEW c \in CallState,
         EntryFits(c, b, w, doubt),
         \A n \in DOMAIN cs : Open(c) /\ Open(cs[n]) /\ cs[n].arg.at = c.arg.at => c.arg.at \in doubt,
         c.kind = "reserve" => Len(b) + Cardinality(Reserving(cs)) < MaxBook,
         Len(b) \in Nat
  PROVE  Kept(Append(cs, c), b, w, doubt)
<1> DEFINE new == Append(cs, c)
           last == Len(cs) + 1
<1>1. cs \in Seq(CallState) /\ EditsFit(cs, b, w, doubt) /\ Rooms(cs, b)
  BY DEF Kept
<1>2. /\ new \in Seq(CallState)
      /\ DOMAIN new = DOMAIN cs \cup {last} /\ last \notin DOMAIN cs
      /\ \A n \in DOMAIN cs : new[n] = cs[n]
      /\ new[last] = c
  BY <1>1, AppendOf
<1> HIDE DEF new, last
<1>3. \A n \in DOMAIN new : EntryFits(new[n], b, w, doubt)
  BY <1>1, <1>2 DEF EditsFit
<1>4. ASSUME NEW n \in DOMAIN new, NEW k \in DOMAIN new,
             Open(new[n]), Open(new[k]), new[n].arg.at = new[k].arg.at
      PROVE  n = k \/ new[n].arg.at \in doubt
  <2>1. CASE n \in DOMAIN cs /\ k \in DOMAIN cs
    BY <1>1, <1>2, <1>4, <2>1 DEF EditsFit
  <2>2. CASE n = last \/ k = last
    BY <1>2, <1>4, <2>2
  <2> QED BY <1>2, <2>1, <2>2
<1>5. ASSUME NEW a \in DOMAIN b
      PROVE  \/ a \in doubt \/ b[a] = w[a]
             \/ \E n \in DOMAIN new : Open(new[n]) /\ new[n].arg.at = a
  BY <1>1, <1>2 DEF EditsFit
<1>6. EditsFit(new, b, w, doubt)
  BY <1>3, <1>4, <1>5 DEF EditsFit
<1>7. Rooms(new, b)
  <2>1. IsFiniteSet(Reserving(cs)) /\ Cardinality(Reserving(cs)) \in Nat /\ last \notin Reserving(cs)
    BY <1>1, <1>2, RoomTypes DEF Reserving
  <2>2. \/ Reserving(new) = Reserving(cs)
        \/ c.kind = "reserve" /\ Reserving(new) = Reserving(cs) \cup {last}
    <3>1. CASE c.kind = "reserve" /\ ~c.served
      <4>1. Reserving(new) = Reserving(cs) \cup {last}
        BY <1>2, <3>1 DEF Reserving
      <4> QED BY <3>1, <4>1
    <3>2. CASE ~(c.kind = "reserve" /\ ~c.served)
      <4>1. Reserving(new) = Reserving(cs)
        BY <1>2, <3>2 DEF Reserving
      <4> QED BY <4>1
    <3> QED BY <3>1, <3>2
  <2>3. Cardinality(Reserving(cs) \cup {last}) = Cardinality(Reserving(cs)) + 1
    BY <2>1, FS_AddElement
  <2>4. MaxBook \in Nat
    BY SessionBoundAssumption
  <2>5. CASE Reserving(new) = Reserving(cs)
    BY <1>1, <2>5, Zenon DEF Rooms
  <2>6. CASE c.kind = "reserve" /\ Cardinality(Reserving(new)) = Cardinality(Reserving(cs)) + 1
    BY <2>1, <2>4, <2>6 DEF Rooms
  <2> QED BY <2>2, <2>3, <2>5, <2>6, Zenon
<1> QED BY <1>2, <1>6, <1>7 DEF Kept, new

(* A call that neither edits, nor reserves, nor tells. *)
LEMMA PlainAppendKept ==
  ASSUME NEW cs, NEW b, NEW w, NEW doubt, Kept(cs, b, w, doubt), NEW c \in CallState,
         c.kind \notin Changes, ~c.served, Len(b) \in Nat
  PROVE  Kept(Append(cs, c), b, w, doubt)
<1>1. ~Open(c) /\ c.kind # "reserve"
  BY DEF Open, Changes
<1>2. EntryFits(c, b, w, doubt)
  BY <1>1 DEF EntryFits, Changes
<1> QED BY <1>1, <1>2, AppendKept

LEMMA RestKept ==
  ASSUME NEW cs, NEW b, NEW w, NEW doubt, Kept(cs, b, w, doubt), NEW n \in DOMAIN cs,
         Open(cs[n]) => cs[n].arg.at \in doubt, Len(b) \in Nat
  PROVE  Kept(RemoveAt(cs, n), b, w, doubt)
<1> DEFINE new == RemoveAt(cs, n)
<1>1. cs \in Seq(CallState) /\ EditsFit(cs, b, w, doubt) /\ Rooms(cs, b)
  BY DEF Kept
<1>2. /\ new \in Seq(CallState)
      /\ \A k \in DOMAIN new : Before(k, n) \in DOMAIN cs \ {n} /\ new[k] = cs[Before(k, n)]
      /\ \A j, k \in DOMAIN new : Before(j, n) = Before(k, n) => j = k
      /\ \A j \in DOMAIN cs \ {n} : \E k \in DOMAIN new : j = Before(k, n)
  BY <1>1, RestOf
<1>3. Cardinality(Reserving(new)) = Cardinality(Reserving(cs)) - (IF n \in Reserving(cs) THEN 1 ELSE 0)
  <2>1. Reserving(new) = {k \in DOMAIN new : Before(k, n) \in Reserving(cs)}
    <3> HIDE DEF new
    <3> QED BY <1>2 DEF Reserving
  <2>2. Reserving(cs) \in SUBSET DOMAIN cs
    BY DEF Reserving
  <2> QED BY <1>1, <2>1, <2>2, ShiftedSize
<1> HIDE DEF new
<1>4. Rooms(new, b)
  <2>1. Cardinality(Reserving(cs)) \in Nat /\ MaxBook \in Nat
    BY <1>1, RoomTypes, SessionBoundAssumption
  <2> QED BY <1>1, <1>3, <2>1 DEF Rooms
<1>5. \A k \in DOMAIN new : EntryFits(new[k], b, w, doubt)
  BY <1>1, <1>2 DEF EditsFit
<1>6. ASSUME NEW j \in DOMAIN new, NEW k \in DOMAIN new,
             Open(new[j]), Open(new[k]), new[j].arg.at = new[k].arg.at
      PROVE  j = k \/ new[j].arg.at \in doubt
  BY <1>1, <1>2, <1>6 DEF EditsFit
<1>7. ASSUME NEW a \in DOMAIN b, a \notin doubt, b[a] # w[a]
      PROVE  \E k \in DOMAIN new : Open(new[k]) /\ new[k].arg.at = a
  <2>1. PICK j \in DOMAIN cs : Open(cs[j]) /\ cs[j].arg.at = a
    BY <1>1, <1>7 DEF EditsFit
  <2>2. j # n
    BY <1>7, <2>1
  <2>3. PICK k \in DOMAIN new : j = Before(k, n)
    BY <1>2, <2>2
  <2> QED BY <1>2, <2>1, <2>3
<1>8. EditsFit(new, b, w, doubt)
  BY <1>5, <1>6, <1>7 DEF EditsFit
<1> QED BY <1>2, <1>4, <1>8 DEF Kept, new

(* A call is answered, and the book is as it was. *)
LEMMA ServedKept ==
  ASSUME NEW cs, NEW b, NEW w, NEW doubt, Kept(cs, b, w, doubt), NEW n \in DOMAIN cs, ~cs[n].served,
         NEW ok \in BOOLEAN, NEW ans \in CallAns, ok => cs[n].kind \notin Edits,
         ok /\ cs[n].kind = "addrs" => \A r \in ans : RowFits(r, b), Len(b) \in Nat
  PROVE  /\ Kept(Answered(cs, n, ok, ans), b, w, doubt)
         /\ cs[n].kind = "reserve" =>
              Cardinality(Reserving(Answered(cs, n, ok, ans))) + 1 = Cardinality(Reserving(cs))
<1> DEFINE new == Answered(cs, n, ok, ans)
<1>1. cs \in Seq(CallState) /\ EditsFit(cs, b, w, doubt) /\ Rooms(cs, b)
  BY DEF Kept
<1>2. /\ new \in Seq(CallState) /\ DOMAIN new = DOMAIN cs
      /\ \A k \in DOMAIN cs : /\ new[k].kind = cs[k].kind /\ new[k].arg = cs[k].arg
                              /\ k # n => new[k] = cs[k]
      /\ new[n].served /\ new[n].ok = ok /\ new[n].ans = ans
  BY <1>1, ServedOf
<1> HIDE DEF new
<1>3. \A k \in DOMAIN cs : Open(new[k]) <=> Open(cs[k])
  BY <1>2 DEF Open
<1>4. ASSUME NEW k \in DOMAIN new PROVE EntryFits(new[k], b, w, doubt)
  <2>1. EntryFits(cs[k], b, w, doubt)
    BY <1>1, <1>2 DEF EditsFit
  <2>2. CASE k # n
    BY <1>2, <2>1, <2>2
  <2>3. CASE k = n
    BY <1>2, <1>3, <2>1, <2>3 DEF EntryFits
  <2> QED BY <2>2, <2>3
<1>5. EditsFit(new, b, w, doubt)
  BY <1>1, <1>2, <1>3, <1>4 DEF EditsFit
<1>6. /\ Reserving(new) = Reserving(cs) \ {n} /\ IsFiniteSet(Reserving(cs))
      /\ Cardinality(Reserving(cs)) \in Nat
      /\ n \in Reserving(cs) <=> cs[n].kind = "reserve"
  BY <1>1, <1>2, RoomTypes DEF Reserving
<1>7. Cardinality(Reserving(new)) =
        IF cs[n].kind = "reserve" THEN Cardinality(Reserving(cs)) - 1 ELSE Cardinality(Reserving(cs))
  BY <1>6, FS_RemoveElement
<1>8. Rooms(new, b) /\ (cs[n].kind = "reserve" => Cardinality(Reserving(new)) + 1 = Cardinality(Reserving(cs)))
  <2>1. MaxBook \in Nat
    BY SessionBoundAssumption
  <2> QED BY <1>1, <1>6, <1>7, <2>1 DEF Rooms
<1> QED BY <1>2, <1>5, <1>8 DEF Kept, new

---------------------------------------------------------------------------
(* The list: how it follows the same ways *)

LEMMA NoneListed ==
  ASSUME NEW cs, NEW s, NEW iss, NEW b, NoGood(cs)
  PROVE  ListFits(cs, s, iss, TRUE, b)
BY DEF ListFits, Brings, LastGood, NoGood

LEMMA StateListed ==
  ASSUME NEW cs, NEW s, NEW iss, NEW behind, NEW b, ListFits(cs, s, iss, behind, b), NEW t,
         t.user = s.user, t.token = s.token, t.addresses = s.addresses
  PROVE  ListFits(cs, t, iss, behind, b)
BY DEF ListFits

(* Forms that wait no more, or a change whose address is found, are not of the
   list's concern, nor is an answer to another call. *)
LEMMA AlikeListed ==
  ASSUME NEW cs, NEW s, NEW iss, NEW behind, NEW b, ListFits(cs, s, iss, behind, b),
         NEW new, DOMAIN new = DOMAIN cs,
         \A n \in DOMAIN cs : /\ new[n].kind = cs[n].kind /\ (Good(new[n]) <=> Good(cs[n]))
                              /\ cs[n].kind = "addrs" =>
                                   /\ new[n].served = cs[n].served /\ new[n].ok = cs[n].ok
                                   /\ new[n].ans = cs[n].ans
  PROVE  ListFits(new, s, iss, behind, b)
<1>1. (NoGood(new) <=> NoGood(cs)) /\ (NoChange(new) <=> NoChange(cs))
  BY DEF NoGood, NoChange
<1>2. \A u : Brings(cs, b, u) => Brings(new, b, u)
  BY DEF Brings, LastGood, Good
<1> QED BY <1>1, <1>2 DEF ListFits

LEMMA AppendListed ==
  ASSUME NEW cs \in Seq(CallState), NEW s, NEW iss, NEW behind, NEW b, ListFits(cs, s, iss, behind, b),
         NEW c \in CallState, c.kind # "addrs"
  PROVE  ListFits(Append(cs, c), s, iss, behind, b)
<1> DEFINE new == Append(cs, c)
           last == Len(cs) + 1
<1>1. /\ DOMAIN new = DOMAIN cs \cup {last} /\ last \notin DOMAIN cs
      /\ \A n \in DOMAIN cs : new[n] = cs[n]
      /\ new[last] = c
  BY AppendOf
<1> HIDE DEF new, last
<1>2. ~Good(c)
  BY DEF Good
<1>3. (NoGood(new) <=> NoGood(cs)) /\ (NoChange(new) => NoChange(cs))
  BY <1>1, <1>2 DEF NoGood, NoChange
<1>4. ASSUME NEW u, Brings(cs, b, u) PROVE Brings(new, b, u)
  BY <1>1, <1>2, <1>4 DEF Brings, LastGood
<1>5. ListFits(new, s, iss, behind, b)
  BY <1>3, <1>4 DEF ListFits
<1> QED BY <1>5 DEF new

(* Whatever is under way, a load that is sent now will tell all. *)
LEMMA LoadListed ==
  ASSUME NEW cs \in Seq(CallState), NEW s, NEW iss, NEW behind, NEW b,
         ~behind => s.token \in DOMAIN iss, s.user # NoUser,
         NEW c \in CallState, Good(c), ~c.served
  PROVE  ListFits(Append(cs, c), s, iss, behind, b)
<1> DEFINE new == Append(cs, c)
           last == Len(cs) + 1
<1>1. /\ DOMAIN new = DOMAIN cs \cup {last} /\ new[last] = c
      /\ \A n \in DOMAIN cs : n < last
      /\ last \in Nat
  BY AppendOf
<1> HIDE DEF new, last
<1>2. ~NoGood(new)
  BY <1>1 DEF NoGood
<1>3. \A n \in DOMAIN new : LastGood(new, n) => n = last
  BY <1>1 DEF LastGood
<1>4. \A u : Brings(new, b, u)
  BY <1>1, <1>3 DEF Brings
<1>5. ListFits(new, s, iss, behind, b)
  BY <1>2, <1>4 DEF ListFits
<1> QED BY <1>5 DEF new

(* Taking a call out leaves the order of the others. *)
LEMMA BeforeGrows ==
  ASSUME NEW cs \in Seq(CallState), NEW n \in DOMAIN cs
  PROVE  LET rest == RemoveAt(cs, n) IN
         /\ \A j, k \in DOMAIN rest : Before(k, n) > Before(j, n) => k > j
         /\ \A k \in DOMAIN rest : k > n - 1 => Before(k, n) > n
         /\ \A j \in DOMAIN cs \ {n} : j > n => \E k \in DOMAIN rest : j = Before(k, n) /\ k > n - 1
<1> DEFINE rest == RemoveAt(cs, n)
<1>1. /\ rest \in Seq(CallState) /\ n \in Nat
      /\ \A j \in DOMAIN cs \ {n} : \E k \in DOMAIN rest : j = Before(k, n)
  BY RestOf
<1>2. \A k \in DOMAIN rest : k \in Nat
  BY <1>1
<1> HIDE DEF rest
<1>3. \A j, k \in DOMAIN rest : Before(k, n) > Before(j, n) => k > j
  BY <1>1, <1>2 DEF Before
<1>4. \A k \in DOMAIN rest : k > n - 1 => Before(k, n) > n
  BY <1>1, <1>2 DEF Before
<1>5. ASSUME NEW j \in DOMAIN cs \ {n}, j > n
      PROVE  \E k \in DOMAIN rest : j = Before(k, n) /\ k > n - 1
  <2>1. PICK k \in DOMAIN rest : j = Before(k, n)
    BY <1>1
  <2>2. k > n - 1
    BY <1>1, <1>2, <1>5, <2>1 DEF Before
  <2> QED BY <2>1, <2>2
<1> QED BY <1>3, <1>4, <1>5 DEF rest

LEMMA RestListed ==
  ASSUME NEW cs \in Seq(CallState), NEW s, NEW iss, NEW behind, NEW b, ListFits(cs, s, iss, behind, b),
         NEW n \in DOMAIN cs, cs[n].kind \notin BookCalls
  PROVE  ListFits(RemoveAt(cs, n), s, iss, behind, b)
<1> DEFINE new == RemoveAt(cs, n)
<1>1. /\ \A k \in DOMAIN new : Before(k, n) \in DOMAIN cs \ {n} /\ new[k] = cs[Before(k, n)]
      /\ \A j \in DOMAIN cs \ {n} : \E k \in DOMAIN new : j = Before(k, n)
      /\ \A j, k \in DOMAIN new : Before(k, n) > Before(j, n) => k > j
  BY RestOf, BeforeGrows
<1> HIDE DEF new
<1>2. ~Good(cs[n]) /\ cs[n].kind \notin Changes
  BY DEF Good, BookCalls
<1>3. (NoGood(new) <=> NoGood(cs)) /\ (NoChange(new) <=> NoChange(cs))
  BY <1>1, <1>2 DEF NoGood, NoChange
<1>4. ASSUME NEW k \in DOMAIN new, LastGood(new, k) PROVE LastGood(cs, Before(k, n))
  BY <1>1, <1>2, <1>4 DEF LastGood
<1>5. ASSUME NEW u, Brings(cs, b, u) PROVE Brings(new, b, u)
  BY <1>1, <1>4, <1>5 DEF Brings
<1>6. ListFits(new, s, iss, behind, b)
  BY <1>3, <1>5 DEF ListFits
<1> QED BY <1>6 DEF new

(* A load is answered, or lost: those before it are late. *)
LEMMA EndedListed ==
  ASSUME NEW cs \in Seq(CallState), NEW s, NEW iss, NEW behind, NEW b, ListFits(cs, s, iss, behind, b),
         NEW n \in DOMAIN cs, cs[n].kind = "addrs", NEW t, t.user = s.user, t.token = s.token, NEW later,
         ~later => /\ Good(cs[n]) /\ s.token \in DOMAIN iss
                   /\ cs[n].served /\ cs[n].ok /\ t.addresses = cs[n].ans,
         NEW new, new = LateUpTo(RemoveAt(cs, n), n - 1), later \in BOOLEAN
  PROVE  ListFits(new, t, iss, later, b)
<1> DEFINE rest == RemoveAt(cs, n)
<1>1. /\ \A k \in DOMAIN rest : Before(k, n) \in DOMAIN cs \ {n} /\ rest[k] = cs[Before(k, n)]
      /\ \A j \in DOMAIN cs \ {n} : \E k \in DOMAIN rest : j = Before(k, n)
      /\ \A j, k \in DOMAIN rest : Before(k, n) > Before(j, n) => k > j
      /\ \A k \in DOMAIN rest : k > n - 1 => Before(k, n) > n
      /\ \A j \in DOMAIN cs \ {n} : j > n => \E k \in DOMAIN rest : j = Before(k, n) /\ k > n - 1
      /\ rest \in Seq(CallState)
  BY RestOf, BeforeGrows
<1>2. /\ DOMAIN new = DOMAIN rest
      /\ \A k \in DOMAIN rest : /\ new[k].kind = rest[k].kind /\ new[k].served = rest[k].served
                                /\ new[k].ok = rest[k].ok /\ new[k].ans = rest[k].ans
  BY <1>1, LateOf
<1>3. \A k \in DOMAIN rest : Good(new[k]) <=> Good(rest[k]) /\ k > n - 1
  <2> SUFFICES ASSUME NEW k \in DOMAIN rest PROVE Good(new[k]) <=> Good(rest[k]) /\ k > n - 1
    OBVIOUS
  <2>1. rest[k] \in CallState /\ k \in Nat /\ n \in Nat
    BY <1>1
  <2> HIDE DEF rest
  <2>2. new[k] = IF k <= n - 1 /\ rest[k].kind = "addrs" /\ ~rest[k].stale
                 THEN [rest[k] EXCEPT !.late = TRUE] ELSE rest[k]
    BY DEF LateUpTo, rest
  <2>3. CASE k <= n - 1
    BY <2>1, <2>2, <2>3 DEF Good, CallState
  <2>4. CASE ~(k <= n - 1)
    BY <2>1, <2>2, <2>4
  <2> QED BY <2>3, <2>4
<1> HIDE DEF rest
<1>4. NoChange(new) => NoChange(cs)
  BY <1>1, <1>2 DEF NoChange, Changes, Edits
<1>5. ASSUME NEW k \in DOMAIN new, LastGood(new, k) PROVE LastGood(cs, Before(k, n))
  <2>1. Good(cs[Before(k, n)]) /\ k > n - 1 /\ Before(k, n) > n
    BY <1>1, <1>2, <1>3, <1>5 DEF LastGood
  <2>2. ASSUME NEW j \in DOMAIN cs, j > Before(k, n) PROVE ~Good(cs[j])
    <3>1. j > n /\ j \in DOMAIN cs \ {n}
      <4>1. j \in Nat /\ n \in Nat /\ Before(k, n) \in Nat
        BY <1>1, <1>2
      <4> QED BY <2>1, <2>2, <4>1
    <3>2. PICK i \in DOMAIN rest : j = Before(i, n) /\ i > n - 1
      BY <1>1, <3>1
    <3>3. i > k
      BY <1>1, <1>2, <2>2, <3>2
    <3> QED BY <1>1, <1>2, <1>3, <1>5, <3>2, <3>3 DEF LastGood
  <2> QED BY <2>1, <2>2 DEF LastGood
<1>6. ASSUME NEW u, Brings(cs, b, u) PROVE Brings(new, b, u)
  BY <1>1, <1>2, <1>5, <1>6 DEF Brings
<1>7. ASSUME ~later, NoGood(new), NoChange(new) PROVE t.addresses = Rows(b, iss[t.token])
  <2>1. ASSUME NEW j \in DOMAIN cs, j > n PROVE ~Good(cs[j])
    <3>1. PICK k \in DOMAIN rest : j = Before(k, n) /\ k > n - 1
      <4>1. j \in DOMAIN cs \ {n}
        BY <2>1
      <4> QED BY <1>1, <2>1, <4>1
    <3> QED BY <1>1, <1>2, <1>3, <1>7, <3>1 DEF NoGood
  <2>2. LastGood(cs, n)
    BY <1>7, <2>1 DEF LastGood
  <2> QED BY <1>4, <1>7, <2>2 DEF ListFits, Brings
<1>8. NoGood(cs) => NoGood(new)
  BY <1>1, <1>2, <1>3 DEF NoGood
<1>9. s.user = NoUser => later /\ NoGood(new)
  BY <1>8 DEF ListFits, NoGood
<1> QED BY <1>4, <1>6, <1>7, <1>9 DEF ListFits

---------------------------------------------------------------------------
(* What an action finds, and what it must keep *)

LEMMA BookFinds ==
  ASSUME IInv, BookInv
  PROVE  /\ calls \in Seq(CallState) /\ book \in Seq(Entry) /\ Len(book) \in Nat
         /\ hist \in SessionHistory /\ hist.want \in Seq(Entry) /\ DOMAIN hist.want = DOMAIN book
         /\ hist.doubt \subseteq DOMAIN book /\ Len(hist.want) = Len(book)
         /\ st \in SessionState /\ st.token \in Nat /\ issued \in Seq(User)
         /\ Kept(calls, book, hist.want, hist.doubt)
         /\ ListFits(calls, st, issued, hist.behind, book)
         /\ \A r \in st.addresses : RowFits(r, book)
<1>1. /\ calls \in Seq(CallState) /\ book \in Seq(Entry) /\ hist \in SessionHistory
      /\ st \in SessionState /\ issued \in Seq(User)
  BY DEF IInv, Types, CallsAreSound
<1>2. hist.want \in Seq(Entry) /\ st.token \in Nat
  BY <1>1 DEF SessionHistory, SessionState
<1>3. Len(book) \in Nat /\ DOMAIN book = 1 .. Len(book) /\ DOMAIN hist.want = 1 .. Len(hist.want)
  BY <1>1, <1>2
<1> QED BY <1>1, <1>2, <1>3 DEF BookInv

LEMMA BookKept ==
  ASSUME BookInv, book' = book, hist'.want = hist.want, hist'.doubt = hist.doubt,
         \A r \in st'.addresses : RowFits(r, book),
         Kept(calls', book, hist.want, hist.doubt),
         ListFits(calls', st', issued', hist'.behind, book)
  PROVE  BookInv'
BY DEF BookInv

(* The loads ask for nothing, and one of the addresses will tell all. *)
LEMMA LoadsBook ==
  ASSUME NEW cs, NEW b, NEW w, NEW doubt, Kept(cs, b, w, doubt), Len(b) \in Nat,
         NEW s, s.token \in Nat, NEW form \in Form, NEW key \in CallAns, NEW iss, NEW behind
  PROVE  /\ Kept(LoadKeys(s, cs, form, key), b, w, doubt)
         /\ Kept(LoadAddresses(s, cs, form), b, w, doubt)
         /\ \A t : ListFits(cs, t, iss, behind, b) =>
              ListFits(LoadKeys(s, cs, form, key), t, iss, behind, b)
         /\ (s.user = NoUser => ListFits(cs, s, iss, behind, b)) /\ (~behind => s.token \in DOMAIN iss)
            => ListFits(LoadAddresses(s, cs, form), s, iss, behind, b)
<1> DEFINE k == Call("keys", s.token, 0, form, key)
           a == Call("addrs", s.token, 0, form, 0)
<1>1. cs \in Seq(CallState)
  BY DEF Kept
<1>2. k \in CallState /\ a \in CallState
  <2>1. "keys" \in Kind /\ "addrs" \in Kind /\ 0 \in CallArg /\ 0 \in CallAns
    BY DEF Kind, CallArg, CallAns
  <2> QED BY <2>1, CallIsState
<1>3. /\ k.kind = "keys" /\ ~k.served /\ k.kind \notin Changes
      /\ a.kind = "addrs" /\ ~a.served /\ a.kind \notin Changes /\ Good(a)
  BY DEF Call, Changes, Edits, Good
<1>4. /\ LoadKeys(s, cs, form, key) = IF s.user = NoUser THEN cs ELSE Append(cs, k)
      /\ LoadAddresses(s, cs, form) = IF s.user = NoUser THEN cs ELSE Append(cs, a)
  BY DEF LoadKeys, LoadAddresses
<1> HIDE DEF k, a
<1>5. Kept(Append(cs, k), b, w, doubt) /\ Kept(Append(cs, a), b, w, doubt)
  BY <1>2, <1>3, PlainAppendKept
<1>6. ASSUME NEW t, ListFits(cs, t, iss, behind, b)
      PROVE  ListFits(Append(cs, k), t, iss, behind, b)
  <2>1. k.kind # "addrs"
    BY <1>3
  <2> QED BY <1>1, <1>2, <1>6, <2>1, AppendListed
<1>7. ASSUME s.user # NoUser, ~behind => s.token \in DOMAIN iss
      PROVE  ListFits(Append(cs, a), s, iss, behind, b)
  BY <1>1, <1>2, <1>3, <1>7, LoadListed
<1> QED BY <1>4, <1>5, <1>6, <1>7

LEMMA MountsBook ==
  ASSUME NEW cs, NEW b, NEW w, NEW doubt, Kept(cs, b, w, doubt), Len(b) \in Nat,
         NEW s, s.token \in Nat, NEW page, NEW iss, NEW behind, ListFits(cs, s, iss, behind, b)
  PROVE  /\ Kept(Mounts(s, cs, page), b, w, doubt)
         /\ ListFits(Mounts(s, cs, page), s, iss, behind, b)
<1>1. PICK form \in Form, key \in CallAns : form = "" /\ key = 0
  BY DEF Form, CallAns
<1>2. ~behind => s.token \in DOMAIN iss
  BY DEF ListFits
<1>3. /\ Kept(LoadKeys(s, cs, form, key), b, w, doubt)
      /\ Kept(LoadAddresses(s, cs, form), b, w, doubt)
      /\ ListFits(LoadKeys(s, cs, form, key), s, iss, behind, b)
      /\ ListFits(LoadAddresses(s, cs, form), s, iss, behind, b)
  BY <1>2, LoadsBook
<1>4. Mounts(s, cs, page) \in {cs, LoadKeys(s, cs, form, key), LoadAddresses(s, cs, form)}
  BY <1>1 DEF Mounts
<1> QED BY <1>3, <1>4

(* The page as it is loaded: nothing is asked for yet. *)
LEMMA FreshBook ==
  ASSUME NEW kept, kept.token \in Nat, NEW b, Len(b) \in Nat, Len(b) <= MaxBook, NEW w, NEW doubt,
         \A a \in DOMAIN b : a \in doubt \/ b[a] = w[a], NEW iss
  PROVE  /\ Kept(FreshCalls(kept), b, w, doubt)
         /\ ListFits(FreshCalls(kept), Fresh(kept), iss, TRUE, b)
<1> DEFINE c == Call("status", kept.token, 0, "", 0)
           s == Fresh(kept)
           none == <<>>
<1>1. s.user = kept.user /\ s.token = kept.token
  BY DEF Fresh
<1>2. c \in CallState /\ c.kind = "status" /\ ~c.served
  <2>1. /\ "status" \in Kind /\ "" \in Form /\ 0 \in CallArg /\ 0 \in CallAns
    BY DEF Kind, Form, CallArg, CallAns
  <2>2. c \in CallState
    BY <2>1, CallIsState
  <2> QED BY <2>2 DEF Call
<1>3. PICK form \in Form, key \in CallAns : form = "" /\ key = 0
  BY DEF Form, CallAns
<1>4. <<c>> = Append(none, c)
  OBVIOUS
<1>5. FreshCalls(kept) = IF kept.user = NoUser THEN <<c>>
                         ELSE LoadKeys(s, LoadAddresses(s, <<c>>, form), form, key)
  BY <1>3 DEF FreshCalls
<1> HIDE DEF c, s
<1>6. none \in Seq(CallState) /\ DOMAIN none = {}
  OBVIOUS
<1> HIDE DEF none
<1>7. Kept(none, b, w, doubt)
  <2>1. Reserving(none) = {}
    BY <1>6 DEF Reserving
  <2>2. Cardinality(Reserving(none)) = 0
    BY <2>1, FS_EmptySet
  <2>3. Len(b) + 0 <= MaxBook
    OBVIOUS
  <2>4. Rooms(none, b)
    BY <2>2, <2>3, Zenon DEF Rooms
  <2>5. EditsFit(none, b, w, doubt)
    BY <1>6 DEF EditsFit
  <2> QED BY <1>6, <2>4, <2>5 DEF Kept
<1>8. Kept(<<c>>, b, w, doubt)
  <2>1. c.kind \notin Changes
    BY <1>2 DEF Changes, Edits
  <2> QED BY <1>2, <1>4, <1>7, <2>1, PlainAppendKept
<1>9. ListFits(<<c>>, s, iss, TRUE, b)
  <2>1. ListFits(none, s, iss, TRUE, b)
    BY <1>6, NoneListed DEF NoGood
  <2>2. c.kind # "addrs"
    BY <1>2
  <2> QED BY <1>2, <1>4, <1>6, <2>1, <2>2, AppendListed
<1>10. PICK behind : behind = TRUE
  OBVIOUS
<1>11. /\ Kept(LoadAddresses(s, <<c>>, form), b, w, doubt)
       /\ ListFits(LoadAddresses(s, <<c>>, form), s, iss, behind, b)
  BY <1>1, <1>8, <1>9, <1>10, LoadsBook
<1>12. /\ Kept(LoadKeys(s, LoadAddresses(s, <<c>>, form), form, key), b, w, doubt)
       /\ ListFits(LoadKeys(s, LoadAddresses(s, <<c>>, form), form, key), s, iss, behind, b)
  <2>1. PICK cs : cs = LoadAddresses(s, <<c>>, form)
    OBVIOUS
  <2> QED BY <1>1, <1>11, <2>1, LoadsBook
<1> QED BY <1>5, <1>8, <1>9, <1>10, <1>12 DEF s

LEMMA InitBook == Init => BookInv
<1> SUFFICES ASSUME Init PROVE BookInv
  OBVIOUS
<1>1. IInv
  BY InitInv
<1>2. /\ st = Fresh(storage) /\ calls = FreshCalls(storage)
      /\ hist.want = book /\ hist.doubt = {} /\ hist.behind = TRUE
      /\ book = <<>> \/ book = <<[of |-> Admin, to |-> {}, live |-> TRUE]>>
  BY DEF Init
<1>3. storage.token \in Nat
  BY <1>1 DEF IInv, Types, SessionState, SessionIsWhole, Stored
<1>4. Len(book) \in Nat /\ Len(book) <= MaxBook
  <2>1. MaxBook \in Nat /\ 1 <= MaxBook
    BY SessionBoundAssumption
  <2>2. Len(book) = 0 \/ Len(book) = 1
    BY <1>2
  <2> QED BY <2>1, <2>2
<1>5. /\ Kept(calls, book, hist.want, hist.doubt)
      /\ ListFits(calls, st, issued, hist.behind, book)
  BY <1>2, <1>3, <1>4, FreshBook
<1>6. st.addresses = {}
  BY <1>2 DEF Fresh
<1> QED BY <1>2, <1>5, <1>6 DEF BookInv

LEMMA ReloadBook == ASSUME IInv, PageInv, BookInv, Reload PROVE BookInv'
<1> DEFINE open == {calls[n].arg.at : n \in InFlight(Edits)}
           more == hist.doubt \cup open
<1>1. /\ st' = Fresh(storage) /\ calls' = FreshCalls(storage)
      /\ hist' = [hist EXCEPT !.oldKeys = FALSE, !.oldBook = FALSE, !.behind = TRUE,
                              !.doubt = more]
      /\ UNCHANGED <<issued, book, storage>>
  BY DEF Reload
<1>2. /\ book \in Seq(Entry) /\ Len(book) \in Nat /\ calls \in Seq(CallState)
      /\ hist \in SessionHistory /\ hist.doubt \subseteq DOMAIN book
      /\ Kept(calls, book, hist.want, hist.doubt)
  BY BookFinds
<1>3. storage.token \in Nat
  BY DEF IInv, Types, SessionState, SessionIsWhole, Stored
<1>4. Len(book) <= MaxBook
  <2>1. Cardinality(Reserving(calls)) \in Nat /\ MaxBook \in Nat
    BY <1>2, RoomTypes, SessionBoundAssumption
  <2> QED BY <1>2, <2>1 DEF Kept, Rooms
<1>5. open \subseteq DOMAIN book
  BY <1>2 DEF Kept, EditsFit, EntryFits, InFlight
<1>6. \A a \in DOMAIN book : a \in more \/ book[a] = hist.want[a]
  BY <1>2 DEF Kept, EditsFit, Open, InFlight
<1> HIDE DEF more
<1>7. /\ Kept(calls', book, hist.want, more)
      /\ ListFits(calls', st', issued, TRUE, book)
  BY <1>1, <1>2, <1>3, <1>4, <1>6, FreshBook
<1>8. hist'.want = hist.want /\ hist'.doubt = more /\ hist'.behind = TRUE
  BY <1>1, <1>2 DEF SessionHistory
<1>9. st'.addresses = {} /\ more \subseteq DOMAIN book
  BY <1>1, <1>2, <1>5 DEF Fresh, more
<1> QED BY <1>1, <1>2, <1>7, <1>8, <1>9 DEF BookInv

---------------------------------------------------------------------------
(* What the user does *)

LEMMA UnmountsBook ==
  ASSUME NEW cs, NEW b, NEW w, NEW doubt, Kept(cs, b, w, doubt), NEW forms,
         NEW s, NEW iss, NEW behind, ListFits(cs, s, iss, behind, b)
  PROVE  /\ Kept(Unmounts(forms, cs), b, w, doubt)
         /\ ListFits(Unmounts(forms, cs), s, iss, behind, b)
<1>1. cs \in Seq(CallState)
  BY DEF Kept
<1>2. PICK new : new = Unmounts(forms, cs)
  OBVIOUS
<1>3. Kept(new, b, w, doubt)
  BY <1>1, <1>2, AlikeCalls, AlikeKept
<1>4. DOMAIN new = DOMAIN cs /\ \A n \in DOMAIN cs : SameButForm(new[n], cs[n])
  BY <1>1, <1>2, UnmountsOf
<1>5. \A n \in DOMAIN cs : /\ new[n].kind = cs[n].kind /\ (Good(new[n]) <=> Good(cs[n]))
                           /\ new[n].served = cs[n].served /\ new[n].ok = cs[n].ok
                           /\ new[n].ans = cs[n].ans
  BY <1>4 DEF SameButForm, Good
<1>6. ListFits(new, s, iss, behind, b)
  BY <1>4, <1>5, AlikeListed
<1> QED BY <1>2, <1>3, <1>6

LEMMA NewSessionBook ==
  ASSUME NEW cs, NEW b, NEW w, NEW doubt, Kept(cs, b, w, doubt), NEW s, NEW iss
  PROVE  /\ Kept(NewSession(cs), b, w, doubt)
         /\ ListFits(NewSession(cs), s, iss, TRUE, b)
<1>1. cs \in Seq(CallState)
  BY DEF Kept
<1>2. Kept(NewSession(cs), b, w, doubt)
  BY <1>1, AlikeCalls, AlikeKept
<1>3. NoGood(NewSession(cs))
  <2> SUFFICES ASSUME NEW n \in DOMAIN NewSession(cs) PROVE ~Good(NewSession(cs)[n])
    BY DEF NoGood
  <2>1. n \in DOMAIN cs /\ cs[n] \in CallState
    BY <1>1 DEF NewSession
  <2>2. NewSession(cs)[n] = IF cs[n].kind \in {"keys", "addrs"} THEN [cs[n] EXCEPT !.stale = TRUE]
                            ELSE cs[n]
    BY <2>1 DEF NewSession
  <2>3. CASE cs[n].kind \in {"keys", "addrs"}
    BY <2>1, <2>2, <2>3 DEF Good, CallState
  <2>4. CASE cs[n].kind \notin {"keys", "addrs"}
    BY <2>2, <2>4 DEF Good
  <2> QED BY <2>3, <2>4
<1> QED BY <1>2, <1>3, NoneListed

LEMMA SessionHistBook ==
  ASSUME IInv, NEW emptied, NEW pasted
  PROVE  LET h == SessionHist(emptied, pasted) IN
         h.want = hist.want /\ h.doubt = hist.doubt /\ h.behind = TRUE
BY DEF IInv, Types, SessionHistory, SessionHist

LEMMA SessionBook ==
  ASSUME IInv, PageInv, BookInv, Logout \/ (\E t \in Draft : SetToken(t)) PROVE BookInv'
<1>1. /\ Kept(calls, book, hist.want, hist.doubt) /\ st \in SessionState
      /\ \A r \in st.addresses : RowFits(r, book)
  BY BookFinds
<1>2. /\ calls' = NewSession(calls) /\ UNCHANGED <<issued, book>>
      /\ hist'.want = hist.want /\ hist'.doubt = hist.doubt /\ hist'.behind = TRUE
  <2>1. /\ calls' = NewSession(calls) /\ UNCHANGED <<issued, book>>
        /\ \E emptied, pasted : hist' = SessionHist(emptied, pasted)
    BY DEF Logout, SetToken
  <2> QED BY <2>1, SessionHistBook
<1>3. st'.addresses \in {{}, st.addresses}
  BY <1>1 DEF Logout, SetToken, Emptied, Session, SessionState
<1>4. /\ Kept(calls', book, hist.want, hist.doubt)
      /\ ListFits(calls', st', issued', hist'.behind, book)
  BY <1>1, <1>2, NewSessionBook
<1> QED BY <1>1, <1>2, <1>3, <1>4, BookKept

LEMMA VisitBook == ASSUME IInv, PageInv, BookInv, NEW p, Visit(p) PROVE BookInv'
<1>1. /\ Kept(calls, book, hist.want, hist.doubt) /\ Len(book) \in Nat /\ st.token \in Nat
      /\ ListFits(calls, st, issued, hist.behind, book)
      /\ \A r \in st.addresses : RowFits(r, book)
  BY BookFinds
<1>2. PICK cs : cs = Unmounts({"key", "reserve"}, calls)
  OBVIOUS
<1>3. Kept(cs, book, hist.want, hist.doubt) /\ ListFits(cs, st, issued, hist.behind, book)
  BY <1>1, <1>2, UnmountsBook
<1>4. calls' = Mounts(st, cs, p) /\ UNCHANGED <<issued, book, st, hist>>
  BY <1>2 DEF Visit
<1>5. /\ Kept(calls', book, hist.want, hist.doubt)
      /\ ListFits(calls', st, issued, hist.behind, book)
  BY <1>1, <1>3, <1>4, MountsBook
<1> QED BY <1>1, <1>4, <1>5, BookKept

LEMMA OverlayBook ==
  ASSUME IInv, PageInv, BookInv, OpenSignIn \/ CloseSignIn PROVE BookInv'
<1>1. /\ Kept(calls, book, hist.want, hist.doubt) /\ st \in SessionState
      /\ ListFits(calls, st, issued, hist.behind, book)
      /\ \A r \in st.addresses : RowFits(r, book)
  BY BookFinds
<1>2. /\ UNCHANGED <<issued, book, hist>>
      /\ calls' = calls \/ calls' = Unmounts({"login"}, calls)
  BY DEF OpenSignIn, CloseSignIn
<1>3. st'.user = st.user /\ st'.token = st.token /\ st'.addresses = st.addresses
  BY <1>1 DEF OpenSignIn, CloseSignIn, SessionState
<1>4. /\ Kept(calls', book, hist.want, hist.doubt)
      /\ ListFits(calls', st, issued, hist.behind, book)
  BY <1>1, <1>2, UnmountsBook
<1>5. ListFits(calls', st', issued', hist'.behind, book)
  BY <1>2, <1>3, <1>4, StateListed
<1> QED BY <1>1, <1>2, <1>3, <1>4, <1>5, BookKept

(* A call that has nothing to do with the addresses is sent. *)
LEMMA PlainAskBook ==
  ASSUME IInv, PageInv, BookInv, NEW kind \in Kind \ BookCalls, NEW arg \in CallArg, NEW form \in Form,
         calls' = Append(calls, Call(kind, st.token, arg, form, 0)),
         UNCHANGED <<issued, book, st, hist>>
  PROVE  BookInv'
<1> DEFINE c == Call(kind, st.token, arg, form, 0)
<1>1. /\ Kept(calls, book, hist.want, hist.doubt) /\ calls \in Seq(CallState)
      /\ ListFits(calls, st, issued, hist.behind, book) /\ Len(book) \in Nat
      /\ st.token \in Nat /\ \A r \in st.addresses : RowFits(r, book)
  BY BookFinds
<1>2. c \in CallState
  <2>1. 0 \in CallAns
    BY DEF CallAns
  <2> QED BY <1>1, <2>1, CallIsState
<1>3. c.kind \notin Changes /\ c.kind # "addrs" /\ ~c.served
  BY DEF Call, BookCalls
<1>4. calls' = Append(calls, c)
  OBVIOUS
<1> HIDE DEF c
<1>5. Kept(Append(calls, c), book, hist.want, hist.doubt)
  BY <1>1, <1>2, <1>3, PlainAppendKept
<1>6. ListFits(Append(calls, c), st, issued, hist.behind, book)
  BY <1>1, <1>2, <1>3, AppendListed
<1> QED BY <1>1, <1>4, <1>5, <1>6, BookKept

LEMMA FormsBook ==
  ASSUME IInv, PageInv, BookInv,
         SubmitSetup \/ (\E u \in User : SubmitLogin(u))
           \/ (\E scope \in Scope : MakeKey(scope)) \/ (\E k \in 1 .. MaxKeys : RevokeKey(k))
  PROVE  BookInv'
<1>1. {"setup", "login", "mkkey", "rmkey"} \subseteq Kind \ BookCalls
  BY DEF Kind, BookCalls, Changes, Edits
<1>2. /\ {"setup", "login", "key", ""} \subseteq Form
      /\ User \cup Nat \cup Scope \subseteq CallArg
  BY DEF Form, Forms, CallArg
<1>3. CASE SubmitSetup
  BY <1>1, <1>2, <1>3, PlainAskBook, SessionBoundAssumption DEF SubmitSetup
<1>4. ASSUME NEW u \in User, SubmitLogin(u) PROVE BookInv'
  BY <1>1, <1>2, <1>4, PlainAskBook DEF SubmitLogin
<1>5. ASSUME NEW scope \in Scope, MakeKey(scope) PROVE BookInv'
  BY <1>1, <1>2, <1>5, PlainAskBook DEF MakeKey, Asks
<1>6. ASSUME NEW k \in 1 .. MaxKeys, RevokeKey(k) PROVE BookInv'
  <2>1. k \in Nat
    BY SessionBoundAssumption
  <2> QED BY <1>1, <1>2, <1>6, <2>1, PlainAskBook DEF RevokeKey, Asks
<1> QED BY <1>3, <1>4, <1>5, <1>6

LEMMA SmallBook ==
  ASSUME IInv, PageInv, BookInv,
         DismissSecret \/ UNCHANGED vars \/ (\E u \in User : SetupElsewhere(u))
  PROVE  BookInv'
<1>1. UNCHANGED <<issued, book, st, calls, hist>>
  BY DEF DismissSecret, vars, SetupElsewhere
<1> QED BY <1>1 DEF BookInv

LEMMA ReserveBook ==
  ASSUME IInv, PageInv, BookInv, NEW S \in SUBSET Dest, Reserve(S) PROVE BookInv'
<1> DEFINE c == Call("reserve", st.token, S, "reserve", 0)
<1>1. /\ Kept(calls, book, hist.want, hist.doubt) /\ calls \in Seq(CallState)
      /\ ListFits(calls, st, issued, hist.behind, book) /\ Len(book) \in Nat
      /\ st.token \in Nat /\ \A r \in st.addresses : RowFits(r, book)
  BY BookFinds
<1>2. c \in CallState
  <2>1. "reserve" \in Kind /\ "reserve" \in Form /\ S \in CallArg /\ 0 \in CallAns
    BY DEF Kind, Changes, Form, Forms, CallArg, CallAns
  <2> QED BY <1>1, <2>1, CallIsState
<1>3. c.kind = "reserve"
  BY DEF Call
<1>4. /\ calls' = Append(calls, c) /\ UNCHANGED <<issued, book, st, hist>> /\ RoomForAddress
  BY DEF Reserve, Asks
<1> HIDE DEF c
<1>5. EntryFits(c, book, hist.want, hist.doubt) /\ ~Open(c) /\ c.kind # "addrs"
  BY <1>3 DEF EntryFits, Open, Edits
<1>6. Len(book) + Cardinality(Reserving(calls)) < MaxBook
  <2>1. {n \in InFlight({"reserve"}) : ~calls[n].served} = Reserving(calls)
    BY DEF InFlight, Reserving
  <2> QED BY <1>4, <2>1, Zenon DEF RoomForAddress
<1>7. Kept(Append(calls, c), book, hist.want, hist.doubt)
  BY <1>1, <1>2, <1>5, <1>6, AppendKept
<1>8. ListFits(Append(calls, c), st, issued, hist.behind, book)
  BY <1>1, <1>2, <1>5, AppendListed
<1> QED BY <1>1, <1>4, <1>7, <1>8, BookKept

(* An address is out of doubt when its one open edit asks what is wanted. *)
LEMMA SureKept ==
  ASSUME NEW cs, NEW b, NEW w, NEW doubt, NEW most, Kept(cs, b, w, most),
         NEW n \in DOMAIN cs, Open(cs[n]), cs[n].arg.is = w[cs[n].arg.at],
         \A x \in most : x \in doubt \/ x = cs[n].arg.at,
         \A k \in DOMAIN cs : Open(cs[k]) /\ cs[k].arg.at = cs[n].arg.at => k = n
  PROVE  Kept(cs, b, w, doubt)
<1>1. EditsFit(cs, b, w, most)
  BY DEF Kept
<1>2. ASSUME NEW k \in DOMAIN cs PROVE EntryFits(cs[k], b, w, doubt)
  <2>1. EntryFits(cs[k], b, w, most)
    BY <1>1 DEF EditsFit
  <2>2. Open(cs[k]) /\ cs[k].arg.at \notin doubt => cs[k].arg.is = w[cs[k].arg.at]
    BY <2>1 DEF EntryFits
  <2> QED BY <2>1, <2>2 DEF EntryFits
<1>3. EditsFit(cs, b, w, doubt)
  BY <1>1, <1>2 DEF EditsFit
<1> QED BY <1>3 DEF Kept

(* An edit asks what is wanted from now on; when it is not the only one that is
   open for its address, or the row showed something else, there is doubt. *)
LEMMA EditRowBook ==
  ASSUME IInv, PageInv, BookInv, NEW kind \in Edits, NEW r, NEW is,
         r \in st.addresses => /\ is \in Entry /\ is.of = r.is.of
                               /\ kind = "patch" => is.live = r.is.live
                               /\ kind = "release" => is.to = {} /\ ~is.live,
         EditRow(kind, r, is)
  PROVE  BookInv'
<1> DEFINE arg == [at |-> r.at, is |-> is]
           c == Call(kind, st.token, arg, "", 0)
           v == [hist.want EXCEPT ![r.at] = is]
           more == IF Current(r) THEN hist.doubt ELSE hist.doubt \cup {r.at}
           last == Len(calls) + 1
<1>1. /\ Kept(calls, book, hist.want, hist.doubt) /\ calls \in Seq(CallState)
      /\ ListFits(calls, st, issued, hist.behind, book) /\ Len(book) \in Nat
      /\ st.token \in Nat /\ st \in SessionState /\ hist \in SessionHistory
      /\ hist.doubt \subseteq DOMAIN book /\ hist.want \in Seq(Entry)
      /\ DOMAIN hist.want = DOMAIN book /\ Len(hist.want) = Len(book)
      /\ \A x \in st.addresses : RowFits(x, book)
  BY BookFinds
<1>2. /\ r \in st.addresses /\ UNCHANGED <<issued, book, st>> /\ calls' = Append(calls, c)
      /\ hist' = [hist EXCEPT !.want[r.at] = is, !.doubt = more]
  BY DEF EditRow, Asks
<1>3. r \in AnyRow /\ arg \in AnyRow /\ RowFits(r, book)
  BY <1>1, <1>2 DEF SessionState, AnyRow
<1>4. c \in CallState
  <2>1. kind \in Kind /\ "" \in Form /\ arg \in CallArg /\ 0 \in CallAns
    BY <1>3 DEF Kind, Changes, Form, CallArg, CallAns
  <2> HIDE DEF arg
  <2> QED BY <1>1, <2>1, CallIsState
<1>5. /\ c.kind = kind /\ c.arg = arg /\ ~c.served /\ arg.at = r.at /\ arg.is = is
      /\ c.kind \notin {"reserve", "addrs"}
  BY DEF Call, Edits
<1>6. hist'.want = v /\ hist'.doubt = more /\ hist'.behind = hist.behind
  BY <1>1, <1>2 DEF SessionHistory
<1>7. /\ r.at \in DOMAIN book /\ v[r.at] = is /\ Len(v) = Len(book)
      /\ \A a \in DOMAIN book : a # r.at => v[a] = hist.want[a]
  <2>1. r.at \in DOMAIN hist.want
    BY <1>1, <1>3 DEF RowFits
  <2>2. Len(v) = Len(hist.want)
    BY <1>1, <1>2, EntryChanges
  <2> QED BY <1>1, <2>1, <2>2
<1>8. /\ calls' \in Seq(CallState) /\ DOMAIN calls' = DOMAIN calls \cup {last}
      /\ \A n \in DOMAIN calls : calls'[n] = calls[n]
      /\ calls'[last] = c
  <2>1. PICK new : new = calls'
    OBVIOUS
  <2>2. /\ new \in Seq(CallState) /\ DOMAIN new = DOMAIN calls \cup {last}
        /\ \A n \in DOMAIN calls : new[n] = calls[n]
        /\ new[last] = c
    <3> HIDE DEF c
    <3> QED BY <1>1, <1>2, <1>4, <2>1, AppendOf
  <2> HIDE DEF c, last
  <2> QED BY <2>1, <2>2
<1>9. more \subseteq DOMAIN book /\ hist.doubt \subseteq more
      /\ more \cup {r.at} = hist.doubt \cup {r.at}
  BY <1>1, <1>7
<1>10. ASSUME r.at \notin more, NEW n \in DOMAIN calls PROVE ~(Open(calls[n]) /\ calls[n].arg.at = r.at)
  <2>1. Current(r)
    BY <1>10
  <2> QED BY <1>10, <2>1 DEF Current, Undone, InFlight, Open
<1> HIDE DEF c, v, arg, more, last
<1>11. Kept(calls', book, v, more \cup {r.at})
  <2>1. PICK most : most = more \cup {r.at}
    OBVIOUS
  <2>2. Kept(calls, book, v, most)
    BY <1>1, <1>7, <1>9, <2>1, DoubtKept
  <2>3. EntryFits(c, book, v, most)
    <3>1. arg \in AnyRow /\ arg.at \in DOMAIN book /\ arg.is = v[arg.at]
      BY <1>3, <1>5, <1>7
    <3>2. is.of = book[r.at].of /\ (kind = "patch" => is.live) /\ (kind = "release" => is.to = {} /\ ~is.live)
      BY <1>2, <1>3 DEF RowFits
    <3> QED BY <1>5, <3>1, <3>2 DEF EntryFits
  <2>4. c.arg.at \in most /\ c.kind # "reserve"
    BY <1>5, <2>1
  <2> QED BY <1>1, <1>2, <1>4, <2>1, <2>2, <2>3, <2>4, AppendKept
<1>12. Kept(calls', book, v, more)
  <2>1. CASE r.at \in more
    <3>1. more \cup {r.at} = more
      BY <2>1
    <3> QED BY <1>11, <3>1
  <2>2. CASE r.at \notin more
    <3>1. /\ last \in DOMAIN calls' /\ Open(calls'[last])
          /\ calls'[last].arg.at = r.at /\ calls'[last].arg.is = v[r.at]
      BY <1>5, <1>7, <1>8 DEF Open
    <3>2. \A k \in DOMAIN calls' : Open(calls'[k]) /\ calls'[k].arg.at = r.at => k = last
      BY <1>8, <1>10, <2>2
    <3>3. PICK cs, most : cs = calls' /\ most = more \cup {r.at}
      OBVIOUS
    <3>4. PICK n \in DOMAIN cs : n = last
      BY <3>1, <3>3
    <3>5. Kept(cs, book, v, most) /\ \A x \in most : x \in more \/ x = cs[n].arg.at
      BY <1>11, <3>1, <3>3, <3>4
    <3>6. Open(cs[n]) /\ cs[n].arg.is = v[cs[n].arg.at]
      BY <3>1, <3>3, <3>4
    <3>7. \A k \in DOMAIN cs : Open(cs[k]) /\ cs[k].arg.at = cs[n].arg.at => k = n
      BY <3>1, <3>2, <3>3, <3>4
    <3>8. Kept(cs, book, v, more)
      BY <3>5, <3>6, <3>7, SureKept
    <3> QED BY <3>3, <3>8
  <2> QED BY <2>1, <2>2
<1>13. ListFits(calls', st, issued, hist.behind, book)
  BY <1>1, <1>2, <1>4, <1>5, AppendListed
<1> QED BY <1>1, <1>2, <1>6, <1>7, <1>9, <1>12, <1>13 DEF BookInv

LEMMA EditsBook ==
  ASSUME IInv, PageInv, BookInv, NEW r \in st.addresses,
         Release(r) \/ \E d \in Dest : AddDest(r, d) \/ RemoveDest(r, d)
  PROVE  BookInv'
<1>1. r.is \in Entry /\ r.is.to \subseteq Dest /\ {"patch", "release"} \subseteq Edits
  BY BookFinds DEF SessionState, AnyRow, Entry, Edits
<1>2. CASE Release(r)
  <2>1. PICK is : is = [r.is EXCEPT !.to = {}, !.live = FALSE]
    OBVIOUS
  <2>2. is \in Entry /\ is = [of |-> r.is.of, to |-> {}, live |-> FALSE]
    <3>1. {} \in SUBSET Dest /\ FALSE \in BOOLEAN
      OBVIOUS
    <3> QED BY <1>1, <2>1, <3>1, EntryOf
  <2>3. is.of = r.is.of /\ is.to = {} /\ ~is.live
    BY <2>2
  <2>4. EditRow("release", r, is)
    BY <1>2, <2>1 DEF Release
  <2> QED BY <1>1, <2>2, <2>3, <2>4, EditRowBook
<1>3. ASSUME NEW T \in SUBSET Dest, EditRow("patch", r, [r.is EXCEPT !.to = T]) PROVE BookInv'
  <2>1. PICK is : is = [r.is EXCEPT !.to = T]
    OBVIOUS
  <2>2. is \in Entry /\ is = [of |-> r.is.of, to |-> T, live |-> r.is.live]
    BY <1>1, <2>1, EntryOf
  <2>3. is.of = r.is.of /\ is.live = r.is.live
    BY <2>2
  <2>4. EditRow("patch", r, is)
    BY <1>3, <2>1
  <2> QED BY <1>1, <2>2, <2>3, <2>4, EditRowBook
<1>4. ASSUME NEW d \in Dest, AddDest(r, d) \/ RemoveDest(r, d) PROVE BookInv'
  <2>1. r.is.to \cup {d} \in SUBSET Dest /\ r.is.to \ {d} \in SUBSET Dest
    BY <1>1
  <2> QED BY <1>3, <1>4, <2>1 DEF AddDest, RemoveDest
<1> QED BY <1>2, <1>4

---------------------------------------------------------------------------
(* The server *)

(* A call is answered, and the answer that is to tell all does. *)
LEMMA ServedListed ==
  ASSUME NEW cs \in Seq(CallState), NEW s, NEW iss, NEW behind, NEW b, ListFits(cs, s, iss, behind, b),
         NEW n \in DOMAIN cs, NEW ok \in BOOLEAN, NEW ans \in CallAns,
         ok /\ Good(cs[n]) => ans = Rows(b, iss[s.token])
  PROVE  ListFits(Answered(cs, n, ok, ans), s, iss, behind, b)
<1> DEFINE new == Answered(cs, n, ok, ans)
<1>1. /\ DOMAIN new = DOMAIN cs
      /\ \A k \in DOMAIN cs : /\ new[k].kind = cs[k].kind /\ new[k].stale = cs[k].stale
                              /\ new[k].late = cs[k].late
                              /\ k # n => new[k] = cs[k]
      /\ new[n].served /\ new[n].ok = ok /\ new[n].ans = ans
  <2>1. PICK other : other = Answered(cs, n, ok, ans)
    OBVIOUS
  <2>2. /\ DOMAIN other = DOMAIN cs
        /\ \A k \in DOMAIN cs : /\ other[k].kind = cs[k].kind /\ other[k].stale = cs[k].stale
                                /\ other[k].late = cs[k].late
                                /\ k # n => other[k] = cs[k]
        /\ other[n].served /\ other[n].ok = ok /\ other[n].ans = ans
    BY <2>1, ServedOf
  <2> HIDE DEF new
  <2>3. new = other
    BY <2>1 DEF new
  <2> QED BY <2>2, <2>3
<1> HIDE DEF new
<1>2. \A k \in DOMAIN cs : Good(new[k]) <=> Good(cs[k])
  BY <1>1 DEF Good
<1>3. (NoGood(new) <=> NoGood(cs)) /\ (NoChange(new) <=> NoChange(cs))
  BY <1>1, <1>2 DEF NoGood, NoChange
<1>4. \A k \in DOMAIN cs : LastGood(new, k) <=> LastGood(cs, k)
  BY <1>1, <1>2 DEF LastGood
<1>5. ASSUME Brings(cs, b, iss[s.token]) PROVE Brings(new, b, iss[s.token])
  <2> SUFFICES ASSUME NEW k \in DOMAIN new, LastGood(new, k), new[k].served, new[k].ok
               PROVE  new[k].ans = Rows(b, iss[s.token])
    BY DEF Brings
  <2>1. CASE k = n
    <3>1. ok /\ Good(cs[n]) /\ new[n].ans = ans
      BY <1>1, <1>4, <2>1 DEF LastGood
    <3> QED BY <2>1, <3>1
  <2>2. CASE k # n
    BY <1>1, <1>4, <1>5, <2>2 DEF Brings
  <2> QED BY <2>1, <2>2
<1>6. ListFits(new, s, iss, behind, b)
  BY <1>3, <1>5 DEF ListFits
<1> QED BY <1>6 DEF new

(* More keys are no other keys. *)
LEMMA IssuedListed ==
  ASSUME NEW cs, NEW s, NEW iss, NEW behind, NEW b, ListFits(cs, s, iss, behind, b),
         CallsAreSound(cs, iss, s.token), NEW more,
         \A k \in DOMAIN iss : k \in DOMAIN more /\ more[k] = iss[k]
  PROVE  ListFits(cs, s, more, behind, b)
<1>1. \A n \in DOMAIN cs : Good(cs[n]) /\ cs[n].served /\ cs[n].ok => s.token \in DOMAIN iss
  BY DEF CallsAreSound, CallIsSound, Good
<1>2. Brings(cs, b, iss[s.token]) => Brings(cs, b, more[s.token])
  BY <1>1 DEF Brings, LastGood
<1> QED BY <1>2 DEF ListFits

(* While a change is under way, the book may change. *)
LEMMA ChangingListed ==
  ASSUME NEW cs, NEW s, NEW iss, NEW behind, NEW b, ListFits(cs, s, iss, behind, b),
         NEW n \in DOMAIN cs, cs[n].kind \in Changes, NEW c
  PROVE  ListFits(cs, s, iss, behind, c)
<1>1. ~NoChange(cs)
  BY DEF NoChange
<1> QED BY <1>1 DEF ListFits

LEMMA RepliesBook ==
  ASSUME IInv, BookInv, NEW n \in DOMAIN calls, ~calls[n].served,
         NEW ok \in BOOLEAN, NEW ans \in CallAns, Replies(n, ok, ans),
         ok => calls[n].kind \notin Edits,
         ok /\ calls[n].kind = "addrs" => /\ calls[n].token \in DOMAIN issued
                                          /\ ans = Rows(book, issued[calls[n].token]),
         UNCHANGED <<book, st, hist>>,
         \A k \in DOMAIN issued : k \in DOMAIN issued' /\ issued'[k] = issued[k]
  PROVE  BookInv'
<1>1. /\ calls \in Seq(CallState) /\ Len(book) \in Nat
      /\ Kept(calls, book, hist.want, hist.doubt)
      /\ ListFits(calls, st, issued, hist.behind, book)
      /\ \A r \in st.addresses : RowFits(r, book)
      /\ CallsAreSound(calls, issued, st.token)
  BY BookFinds DEF IInv
<1>2. calls' = Answered(calls, n, ok, ans)
  BY DEF Replies, Answered
<1>3. Kept(calls', book, hist.want, hist.doubt)
  <2>1. ok /\ calls[n].kind = "addrs" => \A r \in ans : RowFits(r, book)
    BY DEF Rows, RowFits
  <2> QED BY <1>1, <1>2, <2>1, ServedKept
<1>4. ListFits(calls, st, issued', hist.behind, book)
  BY <1>1, IssuedListed
<1>5. ok /\ Good(calls[n]) => ans = Rows(book, issued'[st.token])
  <2>1. Good(calls[n]) => calls[n].kind = "addrs" /\ calls[n].token = st.token
    BY <1>1 DEF CallsAreSound, CallIsSound, Good
  <2> QED BY <2>1
<1>6. ListFits(calls', st, issued', hist.behind, book)
  BY <1>1, <1>2, <1>4, <1>5, ServedListed
<1> QED BY <1>1, <1>3, <1>6, BookKept

LEMMA ServeAccountBook ==
  ASSUME IInv, PageInv, BookInv, NEW n \in DOMAIN calls, ServeAccount(n) \/ ServeKeys(n)
  PROVE  BookInv'
<1> DEFINE c == calls[n]
           u == Owner(c.token)
<1>1. ~c.served /\ UNCHANGED <<book, st, hist>> /\ issued \in Seq(User)
  BY BookFinds DEF ServeAccount, ServeKeys
<1>2. c.kind \in {"status", "setup", "login", "keys", "mkkey", "rmkey"}
  BY DEF ServeAccount, ServeKeys
<1>3. c.kind \notin Edits /\ c.kind # "addrs"
  BY <1>2 DEF Edits
<1>4. \/ \E ok \in BOOLEAN, ans \in CallAns : Replies(n, ok, ans) /\ issued' = issued
      \/ \E v, scope : Mints(n, v, scope)
  <2>1. /\ 0 \in CallAns /\ 1 \in CallAns /\ KeysOf(u) \in CallAns
        /\ (u # NoUser) \in BOOLEAN /\ (u # NoUser /\ c.arg \in KeysOf(u)) \in BOOLEAN
    BY <1>1 DEF CallAns, KeysOf
  <2>2. CASE ServeAccount(n)
    <3>1. (IF accounts = {} THEN 1 ELSE 0) \in CallAns
      BY <2>1
    <3> QED BY <2>1, <2>2, <3>1, Zenon DEF ServeAccount
  <2>3. CASE ServeKeys(n)
    BY <2>1, <2>3, Zenon DEF ServeKeys
  <2> QED BY <2>2, <2>3
<1>5. ASSUME NEW v, NEW scope, Mints(n, v, scope)
      PROVE  /\ \E ok \in BOOLEAN, ans \in CallAns : Replies(n, ok, ans)
             /\ \A k \in DOMAIN issued : k \in DOMAIN issued' /\ issued'[k] = issued[k]
  <2>1. Replies(n, TRUE, Len(issued) + 1) /\ issued' = Append(issued, v)
    BY <1>5 DEF Mints
  <2>2. Len(issued) + 1 \in CallAns
    BY <1>1 DEF CallAns
  <2>3. \A k \in DOMAIN issued : k \in DOMAIN issued' /\ issued'[k] = issued[k]
    BY <1>1, <2>1
  <2> QED BY <2>1, <2>2, <2>3
<1> QED BY <1>1, <1>3, <1>4, <1>5, RepliesBook

(* A new address, as it is wanted. *)
LEMMA GrowKept ==
  ASSUME NEW cs, NEW b \in Seq(Entry), NEW w \in Seq(Entry), NEW doubt, Kept(cs, b, w, doubt),
         Len(w) = Len(b), NEW e \in Entry, Len(b) + 1 + Cardinality(Reserving(cs)) <= MaxBook
  PROVE  Kept(cs, Append(b, e), Append(w, e), doubt)
<1> DEFINE b2 == Append(b, e)
           w2 == Append(w, e)
           last == Len(b) + 1
<1>1. /\ DOMAIN b2 = DOMAIN b \cup {last} /\ Len(b2) = Len(b) + 1 /\ Len(b) \in Nat
      /\ \A a \in DOMAIN b : b2[a] = b[a] /\ w2[a] = w[a]
      /\ b2[last] = e /\ w2[last] = e
  OBVIOUS
<1> HIDE DEF b2, w2, last
<1>2. cs \in Seq(CallState) /\ EditsFit(cs, b, w, doubt)
  BY DEF Kept
<1>3. \A r : RowFits(r, b) => RowFits(r, b2)
  BY <1>1 DEF RowFits
<1>4. ASSUME NEW n \in DOMAIN cs PROVE EntryFits(cs[n], b2, w2, doubt)
  <2>1. EntryFits(cs[n], b, w, doubt)
    BY <1>2 DEF EditsFit
  <2>2. Open(cs[n]) => cs[n].arg.at \in DOMAIN b
    BY <2>1 DEF EntryFits, Open
  <2> QED BY <1>1, <1>3, <2>1, <2>2 DEF EntryFits
<1>5. EditsFit(cs, b2, w2, doubt)
  BY <1>1, <1>2, <1>4 DEF EditsFit
<1>6. Rooms(cs, b2)
  BY <1>1, Zenon DEF Rooms
<1> QED BY <1>2, <1>5, <1>6 DEF Kept, b2, w2

(* An edit is done: the address is what it asked. *)
Put(b, c) == [b EXCEPT ![c.arg.at] = c.arg.is]

LEMMA DoneKept ==
  ASSUME NEW cs, NEW b \in Seq(Entry), NEW w, NEW doubt, Kept(cs, b, w, doubt),
         NEW n \in DOMAIN cs, ~cs[n].served, cs[n].kind \in Edits, NEW ok, ok = TRUE
  PROVE  /\ Kept(Answered(cs, n, ok, 0), Put(b, cs[n]), w, doubt)
         /\ Len(Put(b, cs[n])) = Len(b)
         /\ \A r : RowFits(r, b) => RowFits(r, Put(b, cs[n]))
<1> DEFINE a == cs[n].arg.at
           new == Answered(cs, n, ok, 0)
           d == Put(b, cs[n])
<1>1. /\ cs \in Seq(CallState) /\ EditsFit(cs, b, w, doubt) /\ Rooms(cs, b)
      /\ EntryFits(cs[n], b, w, doubt) /\ Open(cs[n])
  BY DEF Kept, EditsFit, Open
<1>2. /\ new \in Seq(CallState) /\ DOMAIN new = DOMAIN cs
      /\ \A k \in DOMAIN cs : /\ new[k].kind = cs[k].kind /\ new[k].arg = cs[k].arg
                              /\ k # n => new[k] = cs[k]
      /\ new[n].served /\ new[n].ok
  <2>1. PICK ans \in CallAns : ans = 0
    BY DEF CallAns
  <2>2. cs \in Seq(CallState)
    BY <1>1
  <2>3. PICK yes \in BOOLEAN : yes = ok
    OBVIOUS
  <2>4. PICK other : other = Answered(cs, n, yes, ans)
    OBVIOUS
  <2>5. /\ other \in Seq(CallState) /\ DOMAIN other = DOMAIN cs
        /\ \A k \in DOMAIN cs : /\ other[k].kind = cs[k].kind /\ other[k].arg = cs[k].arg
                                /\ k # n => other[k] = cs[k]
        /\ other[n].served /\ other[n].ok = yes
    BY <2>2, <2>4, ServedOf
  <2>6. new = other
    BY <2>1, <2>3, <2>4
  <2> HIDE DEF new
  <2> QED BY <2>3, <2>5, <2>6
<1>3. a \in DOMAIN b /\ cs[n].arg.is \in Entry /\ cs[n].arg.is.of = b[a].of
  BY <1>1 DEF EntryFits, AnyRow
<1>4. /\ DOMAIN d = DOMAIN b /\ Len(d) = Len(b) /\ d[a] = cs[n].arg.is
      /\ \A x \in DOMAIN b : x # a => d[x] = b[x]
  BY <1>3, EntryChanges DEF Put
<1> HIDE DEF new, d
<1>5. \A x \in DOMAIN b : d[x].of = b[x].of
  BY <1>3, <1>4
<1>6. \A r : RowFits(r, b) => RowFits(r, d)
  BY <1>4, <1>5 DEF RowFits
<1> HIDE DEF a
<1>7. \A k \in DOMAIN cs : Open(new[k]) <=> Open(cs[k]) /\ k # n
  BY <1>2 DEF Open
<1>8. ASSUME NEW k \in DOMAIN new PROVE EntryFits(new[k], d, w, doubt)
  <2>1. EntryFits(cs[k], b, w, doubt)
    BY <1>1, <1>2 DEF EditsFit
  <2>2. CASE k # n
    <3>1. new[k] = cs[k]
      BY <1>2, <2>2
    <3> QED BY <1>4, <1>5, <1>6, <2>1, <3>1 DEF EntryFits
  <2>3. CASE k = n
    <3>1. ~Open(new[k]) /\ new[k].kind # "addrs"
      BY <1>2, <1>7, <2>3 DEF Edits
    <3> QED BY <1>2, <1>4, <1>5, <2>1, <2>3, <3>1 DEF EntryFits
  <2> QED BY <2>2, <2>3
<1>9. ASSUME NEW x \in DOMAIN d, x \notin doubt, d[x] # w[x]
      PROVE  \E k \in DOMAIN new : Open(new[k]) /\ new[k].arg.at = x
  <2>1. x # a
    BY <1>1, <1>4, <1>9 DEF EntryFits, a
  <2>2. PICK k \in DOMAIN cs : Open(cs[k]) /\ cs[k].arg.at = x
    BY <1>1, <1>4, <1>9, <2>1 DEF EditsFit
  <2>3. k # n
    BY <2>1, <2>2 DEF a
  <2> QED BY <1>2, <1>7, <2>2, <2>3
<1>10. ASSUME NEW j \in DOMAIN new, NEW k \in DOMAIN new,
              Open(new[j]), Open(new[k]), new[j].arg.at = new[k].arg.at
       PROVE  j = k \/ new[j].arg.at \in doubt
  <2>1. /\ Open(cs[j]) /\ Open(cs[k]) /\ new[j] = cs[j] /\ new[k] = cs[k]
        /\ j \in DOMAIN cs /\ k \in DOMAIN cs
    BY <1>2, <1>7, <1>10
  <2> QED BY <1>1, <1>10, <2>1 DEF EditsFit
<1>11. EditsFit(new, d, w, doubt)
  BY <1>8, <1>9, <1>10 DEF EditsFit
<1>12. Rooms(new, d)
  <2>1. Reserving(new) = Reserving(cs)
    <3>1. cs[n].kind # "reserve"
      BY DEF Edits
    <3> QED BY <1>2, <3>1 DEF Reserving
  <2> QED BY <1>1, <1>4, <2>1, Zenon DEF Rooms
<1> QED BY <1>2, <1>4, <1>6, <1>11, <1>12 DEF Kept, new, d

(* An edit is done, whatever it asked of an address that was there. *)
LEMMA DoneBook ==
  ASSUME IInv, BookInv, NEW n \in DOMAIN calls, ~calls[n].served, calls[n].kind \in Edits,
         Replies(n, TRUE, 0), UNCHANGED <<issued, st, hist>>,
         book' = [book EXCEPT ![calls[n].arg.at] = calls[n].arg.is]
  PROVE  BookInv'
<1>1. /\ calls \in Seq(CallState) /\ book \in Seq(Entry)
      /\ Kept(calls, book, hist.want, hist.doubt) /\ Len(hist.want) = Len(book)
      /\ ListFits(calls, st, issued, hist.behind, book)
      /\ hist.doubt \subseteq DOMAIN book
      /\ \A r \in st.addresses : RowFits(r, book)
  BY BookFinds
<1>2. PICK new, d, ok : /\ ok = TRUE /\ new = calls' /\ new = Answered(calls, n, ok, 0)
                        /\ d = book' /\ d = Put(book, calls[n])
  BY DEF Replies, Answered, Put
<1>3. /\ Kept(new, d, hist.want, hist.doubt) /\ Len(d) = Len(book)
      /\ \A r : RowFits(r, book) => RowFits(r, d)
  <2>1. PICK cs, b, w, doubt : cs = calls /\ b = book /\ w = hist.want /\ doubt = hist.doubt
    OBVIOUS
  <2>2. b \in Seq(Entry) /\ Kept(cs, b, w, doubt)
    BY <1>1, <2>1
  <2>3. n \in DOMAIN cs /\ ~cs[n].served /\ cs[n].kind \in Edits
    BY <2>1
  <2>4. new = Answered(cs, n, ok, 0) /\ d = Put(b, cs[n])
    BY <1>2, <2>1
  <2>5. /\ Kept(Answered(cs, n, ok, 0), Put(b, cs[n]), w, doubt)
        /\ Len(Put(b, cs[n])) = Len(b)
        /\ \A r : RowFits(r, b) => RowFits(r, Put(b, cs[n]))
    BY <1>2, <2>2, <2>3, DoneKept
  <2> QED BY <2>1, <2>4, <2>5
<1>4. DOMAIN d = DOMAIN book
  BY <1>2 DEF Put
<1>5. PICK ans \in CallAns : ans = 0
  BY DEF CallAns
<1>6. n \in DOMAIN new /\ new[n].kind \in Changes
  <2>1. ok \in BOOLEAN /\ new = Answered(calls, n, ok, ans)
    BY <1>2, <1>5
  <2>2. DOMAIN new = DOMAIN calls /\ new[n].kind = calls[n].kind
    BY <1>1, <2>1, ServedOf
  <2> QED BY <2>2 DEF Changes
<1>7. ListFits(new, st, issued, hist.behind, book)
  <2>1. ~Good(calls[n]) /\ ok \in BOOLEAN /\ new = Answered(calls, n, ok, ans)
    BY <1>2, <1>5 DEF Good, Edits
  <2> QED BY <1>1, <2>1, ServedListed
<1>8. ListFits(new, st, issued, hist.behind, d)
  BY <1>6, <1>7, ChangingListed
<1> QED BY <1>1, <1>2, <1>3, <1>4, <1>8 DEF BookInv

(* What an edit asks is what the server makes of the address. *)
LEMMA AskedEntry ==
  ASSUME IInv, BookInv, NEW n \in DOMAIN calls, calls[n].kind \in Edits
  PROVE  LET a == calls[n].arg.at
             is == calls[n].arg.is
         IN
         /\ a \in DOMAIN book
         /\ calls[n].kind = "release" => [book[a] EXCEPT !.to = {}, !.live = FALSE] = is
         /\ calls[n].kind = "patch" => [book[a] EXCEPT !.to = is.to, !.live = TRUE] = is
<1> DEFINE a == calls[n].arg.at
           is == calls[n].arg.is
<1>1. /\ a \in DOMAIN book /\ is \in Entry /\ is.of = book[a].of
      /\ calls[n].kind = "patch" => is.live
      /\ calls[n].kind = "release" => is.to = {} /\ ~is.live
  BY BookFinds DEF Kept, EditsFit, EntryFits, AnyRow
<1>2. book[a] \in Entry
  BY <1>1, BookFinds
<1> HIDE DEF a, is
<1>3. is = [of |-> is.of, to |-> is.to, live |-> is.live] /\ is.to \in SUBSET Dest
  BY <1>1 DEF Entry
<1>4. CASE calls[n].kind = "release"
  <2>1. {} \in SUBSET Dest /\ FALSE \in BOOLEAN
    OBVIOUS
  <2>2. [book[a] EXCEPT !.to = {}, !.live = FALSE] = [of |-> book[a].of, to |-> {}, live |-> FALSE]
    BY <1>2, <2>1, EntryOf
  <2>3. is.live = FALSE
    BY <1>1, <1>4 DEF Entry
  <2>4. [book[a] EXCEPT !.to = {}, !.live = FALSE] = is
    BY <1>1, <1>3, <1>4, <2>2, <2>3
  <2> QED BY <1>1, <1>4, <2>4 DEF a, is
<1>5. CASE calls[n].kind = "patch"
  <2>1. TRUE \in BOOLEAN
    OBVIOUS
  <2>2. [book[a] EXCEPT !.to = is.to, !.live = TRUE] = [of |-> book[a].of, to |-> is.to, live |-> TRUE]
    BY <1>2, <1>3, <2>1, EntryOf
  <2>3. is.live = TRUE
    BY <1>1, <1>5 DEF Entry
  <2>4. [book[a] EXCEPT !.to = is.to, !.live = TRUE] = is
    BY <1>1, <1>3, <2>2, <2>3
  <2> QED BY <1>1, <1>5, <2>4 DEF a, is
<1> QED BY <1>4, <1>5 DEF Edits

LEMMA ReservedBook ==
  ASSUME IInv, BookInv, NEW n \in DOMAIN calls, ~calls[n].served, calls[n].kind = "reserve",
         Replies(n, TRUE, 0), NEW e \in Entry, book' = Append(book, e),
         hist' = [hist EXCEPT !.want = Append(@, e)], UNCHANGED <<issued, st>>
  PROVE  BookInv'
<1>1. /\ calls \in Seq(CallState) /\ book \in Seq(Entry) /\ Len(book) \in Nat
      /\ hist \in SessionHistory /\ hist.want \in Seq(Entry)
      /\ Kept(calls, book, hist.want, hist.doubt) /\ Len(hist.want) = Len(book)
      /\ ListFits(calls, st, issued, hist.behind, book)
      /\ hist.doubt \subseteq DOMAIN book
      /\ \A r \in st.addresses : RowFits(r, book)
  BY BookFinds
<1>2. PICK ok \in BOOLEAN, ans \in CallAns : ok = TRUE /\ ans = 0
  BY DEF CallAns
<1>3. PICK new : new = calls' /\ new = Answered(calls, n, ok, ans)
  BY <1>2 DEF Replies, Answered
<1>4. Kept(new, book, hist.want, hist.doubt) /\ Cardinality(Reserving(new)) + 1 = Cardinality(Reserving(calls))
  <2>1. calls[n].kind \notin Edits /\ calls[n].kind # "addrs"
    BY DEF Edits
  <2>2. /\ Kept(Answered(calls, n, ok, ans), book, hist.want, hist.doubt)
        /\ Cardinality(Reserving(Answered(calls, n, ok, ans))) + 1 = Cardinality(Reserving(calls))
    BY <1>1, <2>1, ServedKept
  <2> QED BY <1>3, <2>2
<1>5. Len(book) + 1 + Cardinality(Reserving(new)) <= MaxBook
  <2>1. Len(book) + Cardinality(Reserving(calls)) <= MaxBook
    BY <1>1 DEF Kept, Rooms
  <2>2. Cardinality(Reserving(new)) \in Nat
    BY <1>4, RoomTypes DEF Kept
  <2> QED BY <1>1, <1>4, <2>1, <2>2
<1>6. Kept(new, Append(book, e), Append(hist.want, e), hist.doubt)
  BY <1>1, <1>4, <1>5, GrowKept
<1>7. ListFits(new, st, issued, hist.behind, Append(book, e))
  <2>1. ~Good(calls[n])
    BY DEF Good
  <2>2. ListFits(new, st, issued, hist.behind, book)
    BY <1>1, <1>3, <2>1, ServedListed
  <2>3. n \in DOMAIN new /\ new[n].kind \in Changes
    <3>1. DOMAIN new = DOMAIN calls /\ new[n].kind = calls[n].kind
      BY <1>1, <1>3, ServedOf
    <3> QED BY <3>1 DEF Changes
  <2> QED BY <2>2, <2>3, ChangingListed
<1>8. /\ hist'.want = Append(hist.want, e) /\ hist'.doubt = hist.doubt /\ hist'.behind = hist.behind
  BY <1>1 DEF SessionHistory
<1>9. /\ Len(hist'.want) = Len(book') /\ DOMAIN book \subseteq DOMAIN book'
      /\ \A a \in DOMAIN book : book'[a] = book[a]
  BY <1>1, <1>8
<1>10. \A r \in st'.addresses : RowFits(r, book')
  BY <1>1, <1>9 DEF RowFits
<1>11. hist'.doubt \subseteq DOMAIN book'
  BY <1>1, <1>8, <1>9
<1> QED BY <1>3, <1>6, <1>7, <1>8, <1>9, <1>10, <1>11 DEF BookInv

LEMMA ServeAddressesBook ==
  ASSUME IInv, PageInv, BookInv, NEW n \in DOMAIN calls, ServeAddresses(n) PROVE BookInv'
<1> DEFINE c == calls[n]
           u == Owner(c.token)
           reserved == [of |-> u, to |-> c.arg, live |-> TRUE]
           owned == book[c.arg.at].live /\ book[c.arg.at].of = u
<1>1. /\ ~c.served /\ UNCHANGED <<issued, st>> /\ issued \in Seq(User) /\ book \in Seq(Entry)
      /\ CallIsSound(c, issued, st.token) /\ 0 \in CallAns
  BY BookFinds DEF ServeAddresses, IInv, CallsAreSound, CallAns
<1>2. u # NoUser => c.token \in DOMAIN issued /\ issued[c.token] = u /\ u \in User
  BY <1>1, OwnerOf
<1>3. CASE /\ c.kind = "addrs" /\ Replies(n, u # NoUser, IF u # NoUser THEN Listed(u) ELSE 0)
           /\ UNCHANGED <<book, hist>>
  <2>1. Listed(u) \in CallAns /\ Listed(u) = Rows(book, u)
    BY <1>1, ListedTypes DEF Listed, Rows
  <2>2. c.kind \notin Edits
    BY <1>3 DEF Edits
  <2>3. PICK ok \in BOOLEAN, ans \in CallAns :
          ok = (u # NoUser) /\ ans = IF u # NoUser THEN Listed(u) ELSE 0
    BY <1>1, <2>1
  <2>4. ok => c.token \in DOMAIN issued /\ ans = Rows(book, issued[c.token])
    BY <1>2, <2>1, <2>3
  <2>5. Replies(n, ok, ans)
    BY <1>3, <2>3
  <2> QED BY <1>1, <1>3, <2>2, <2>4, <2>5, RepliesBook
<1>4. CASE /\ c.kind = "reserve" /\ u # NoUser /\ Replies(n, TRUE, 0)
           /\ book' = Append(book, reserved)
           /\ hist' = [hist EXCEPT !.want = Append(@, reserved)]
  <2>1. reserved \in Entry
    BY <1>1, <1>2, <1>4 DEF Entry, CallIsSound, ArgFits
  <2> HIDE DEF reserved
  <2> QED BY <1>1, <1>4, <2>1, ReservedBook
<1>5. CASE /\ c.kind = "release" /\ owned /\ Replies(n, TRUE, 0)
           /\ book' = [book EXCEPT ![c.arg.at] = [@ EXCEPT !.to = {}, !.live = FALSE]]
           /\ UNCHANGED hist
  <2>1. c.kind \in Edits
    BY <1>5 DEF Edits
  <2>2. c.arg.at \in DOMAIN book /\ [book[c.arg.at] EXCEPT !.to = {}, !.live = FALSE] = c.arg.is
    BY <1>5, <2>1, AskedEntry
  <2>3. book' = [book EXCEPT ![c.arg.at] = c.arg.is]
    BY <1>5, <2>2
  <2> QED BY <1>1, <1>5, <2>1, <2>3, DoneBook
<1>6. CASE /\ c.kind \in {"reserve", "release"} /\ Replies(n, FALSE, 0) /\ UNCHANGED <<book, hist>>
  <2>1. PICK ok \in BOOLEAN, ans \in CallAns : ok = FALSE /\ ans = 0
    BY <1>1
  <2>2. Replies(n, ok, ans) /\ ~ok
    BY <1>6, <2>1
  <2> QED BY <1>1, <1>6, <2>2, RepliesBook
<1> QED BY <1>3, <1>4, <1>5, <1>6, Zenon DEF ServeAddresses

LEMMA PatchBook ==
  ASSUME IInv, PageInv, BookInv, NEW n \in DOMAIN calls, FindAddress(n) \/ WriteAddress(n)
  PROVE  BookInv'
<1> DEFINE c == calls[n]
<1>1. /\ c.kind = "patch" /\ ~c.served /\ UNCHANGED <<issued, st, hist>>
      /\ c.kind \in Edits /\ 0 \in CallAns
  BY DEF FindAddress, WriteAddress, Edits, CallAns
<1>2. CASE FindAddress(n) /\ calls' = [calls EXCEPT ![n].ans = 1]
  <2>1. /\ calls \in Seq(CallState) /\ Kept(calls, book, hist.want, hist.doubt)
        /\ ListFits(calls, st, issued, hist.behind, book)
        /\ \A r \in st.addresses : RowFits(r, book)
    BY BookFinds
  <2>2. PICK new : new = calls' /\ new = Found(calls, n)
    BY <1>2 DEF Found
  <2>3. /\ new \in Seq(CallState) /\ DOMAIN new = DOMAIN calls
        /\ \A k \in DOMAIN calls :
             /\ new[k].kind = calls[k].kind /\ new[k].token = calls[k].token /\ new[k].arg = calls[k].arg
             /\ new[k].stale = calls[k].stale /\ new[k].late = calls[k].late
             /\ new[k].served = calls[k].served /\ new[k].ok = calls[k].ok
             /\ k # n => new[k] = calls[k]
    BY <2>1, <2>2, FoundOf
  <2>4. Alike(new, calls)
    BY <1>1, <2>3 DEF Alike
  <2>5. Kept(new, book, hist.want, hist.doubt)
    BY <2>1, <2>4, AlikeKept
  <2>6. \A k \in DOMAIN calls :
          /\ new[k].kind = calls[k].kind /\ (Good(new[k]) <=> Good(calls[k]))
          /\ calls[k].kind = "addrs" =>
               /\ new[k].served = calls[k].served /\ new[k].ok = calls[k].ok
               /\ new[k].ans = calls[k].ans
    BY <1>1, <2>3 DEF Good
  <2>7. ListFits(new, st, issued, hist.behind, book)
    BY <2>1, <2>3, <2>6, AlikeListed
  <2>8. book' = book
    BY <1>2 DEF FindAddress
  <2> QED BY <1>1, <2>1, <2>2, <2>5, <2>7, <2>8, BookKept
<1>3. CASE FindAddress(n) /\ Replies(n, FALSE, 0)
  <2>1. PICK ok \in BOOLEAN, ans \in CallAns : ok = FALSE /\ ans = 0
    BY <1>1
  <2>2. Replies(n, ok, ans) /\ ~ok /\ book' = book
    BY <1>3, <2>1 DEF FindAddress
  <2> QED BY <1>1, <2>2, RepliesBook
<1>4. CASE WriteAddress(n)
  <2>1. /\ book' = [book EXCEPT ![c.arg.at] = [@ EXCEPT !.to = c.arg.is.to, !.live = TRUE]]
        /\ Replies(n, TRUE, 0)
    BY <1>4 DEF WriteAddress
  <2>2. c.arg.at \in DOMAIN book /\ [book[c.arg.at] EXCEPT !.to = c.arg.is.to, !.live = TRUE] = c.arg.is
    BY <1>1, AskedEntry
  <2>3. book' = [book EXCEPT ![c.arg.at] = c.arg.is]
    BY <2>1, <2>2
  <2> QED BY <1>1, <2>1, <2>3, DoneBook
<1> QED BY <1>2, <1>3, <1>4 DEF FindAddress

---------------------------------------------------------------------------
(* Answers *)

(* What is left when a call is answered: an edit that was done, or whose
   address is in doubt, is not missed. *)
LEMMA RestBook ==
  ASSUME IInv, BookInv, NEW n \in DOMAIN calls
  PROVE  /\ ~Open(calls[n]) => Kept(Rest(n), book, hist.want, hist.doubt)
         /\ calls[n].kind \notin BookCalls => /\ ~Open(calls[n])
                                              /\ ListFits(Rest(n), st, issued, hist.behind, book)
<1>1. /\ Kept(calls, book, hist.want, hist.doubt) /\ Len(book) \in Nat
      /\ calls \in Seq(CallState) /\ ListFits(calls, st, issued, hist.behind, book)
  BY BookFinds
<1>2. ~Open(calls[n]) => Kept(Rest(n), book, hist.want, hist.doubt)
  BY <1>1, RestKept DEF Rest
<1>3. ASSUME calls[n].kind \notin BookCalls
      PROVE  ~Open(calls[n]) /\ ListFits(Rest(n), st, issued, hist.behind, book)
  <2>1. ~Open(calls[n])
    BY <1>3 DEF Open, BookCalls, Changes
  <2> QED BY <1>1, <1>3, <2>1, RestListed DEF Rest
<1> QED BY <1>2, <1>3

LEMMA StatusBook ==
  ASSUME IInv, BookInv, NEW n \in DOMAIN calls, calls[n].kind = "status", NEW s,
         s.user = st.user, s.token = st.token, s.addresses = st.addresses, NEW page,
         st' = s, calls' = Mounts(s, Rest(n), page), UNCHANGED <<issued, book>>,
         hist'.want = hist.want, hist'.doubt = hist.doubt, hist'.behind = hist.behind
  PROVE  BookInv'
<1>1. /\ Kept(Rest(n), book, hist.want, hist.doubt)
      /\ ListFits(Rest(n), st, issued, hist.behind, book)
  <2>1. calls[n].kind \notin BookCalls
    BY DEF BookCalls, Changes, Edits
  <2> QED BY <2>1, RestBook
<1>2. ListFits(Rest(n), s, issued, hist.behind, book)
  BY <1>1, StateListed
<1>3. /\ Len(book) \in Nat /\ s.token \in Nat /\ \A r \in s.addresses : RowFits(r, book)
  BY BookFinds
<1>4. /\ Kept(calls', book, hist.want, hist.doubt)
      /\ ListFits(calls', s, issued, hist.behind, book)
  BY <1>1, <1>2, <1>3, MountsBook
<1> QED BY <1>3, <1>4, BookKept

LEMMA StatusArrivesBook ==
  ASSUME IInv, BookInv, NEW n \in DOMAIN calls, StatusArrives(n) PROVE BookInv'
<1> DEFINE s == [st EXCEPT !.checked = TRUE, !.needsSetup = calls[n].ans = 1]
<1>1. /\ calls[n].kind = "status" /\ st' = s /\ calls' = Mounts(s, Rest(n), view.page)
      /\ UNCHANGED <<issued, book, hist>>
  BY DEF StatusArrives, Answers
<1>2. s.user = st.user /\ s.token = st.token /\ s.addresses = st.addresses
  BY BookFinds DEF SessionState
<1> HIDE DEF s
<1> QED BY <1>1, <1>2, StatusBook

LEMMA SetupArrivesBook ==
  ASSUME IInv, BookInv, st' \in SessionState, NEW n \in DOMAIN calls, SetupArrives(n) PROVE BookInv'
<1>1. /\ calls[n].kind = "setup" /\ UNCHANGED <<issued, book>>
      /\ calls' = Mounts(st', NewSession(Rest(n)), view.page)
      /\ hist' = SessionHist(FALSE, FALSE)
      /\ st' = [Session(st, calls[n].arg, calls[n].ans) EXCEPT !.needsSetup = FALSE]
  BY DEF SetupArrives, Answers
<1>2. /\ Len(book) \in Nat /\ st'.token \in Nat /\ st'.addresses = st.addresses
      /\ \A r \in st.addresses : RowFits(r, book)
  BY <1>1, BookFinds DEF SessionState, Session
<1>3. Kept(Rest(n), book, hist.want, hist.doubt)
  <2>1. ~Open(calls[n])
    BY <1>1 DEF Open, Edits
  <2> QED BY <2>1, RestBook
<1>4. hist'.want = hist.want /\ hist'.doubt = hist.doubt /\ hist'.behind = TRUE
  BY <1>1, SessionHistBook
<1>5. PICK cs, b, h, s, iss, page :
         cs = NewSession(Rest(n)) /\ b = book /\ h = hist' /\ s = st' /\ iss = issued /\ page = view.page
  OBVIOUS
<1>6. Kept(cs, b, h.want, h.doubt) /\ ListFits(cs, s, iss, h.behind, b)
  <2>1. /\ Kept(NewSession(Rest(n)), book, hist.want, hist.doubt)
        /\ ListFits(NewSession(Rest(n)), s, issued, TRUE, book)
    BY <1>3, NewSessionBook
  <2> QED BY <1>4, <1>5, <2>1
<1>7. /\ Kept(Mounts(s, cs, page), b, h.want, h.doubt)
      /\ ListFits(Mounts(s, cs, page), s, iss, h.behind, b)
  <2>1. Len(b) \in Nat /\ s.token \in Nat
    BY <1>2, <1>5
  <2> QED BY <1>6, <2>1, MountsBook
<1> QED BY <1>1, <1>2, <1>4, <1>5, <1>7, BookKept

LEMMA LoginArrivesBook ==
  ASSUME IInv, BookInv, st' \in SessionState, NEW n \in DOMAIN calls, LoginArrives(n) PROVE BookInv'
<1>1. /\ calls[n].kind = "login" /\ UNCHANGED <<issued, book>>
      /\ calls' = LoadKeys(st', LoadAddresses(st', NewSession(Unmounts({"login"}, Rest(n))), ""), "", 0)
      /\ hist' = SessionHist(FALSE, FALSE)
      /\ st' = [Session(st, calls[n].arg, calls[n].ans) EXCEPT !.signinOpen = FALSE]
  BY DEF LoginArrives, Answers
<1>2. /\ Len(book) \in Nat /\ st'.token \in Nat /\ st'.addresses = st.addresses
      /\ \A r \in st.addresses : RowFits(r, book)
  BY <1>1, BookFinds DEF SessionState, Session
<1>3. Kept(Unmounts({"login"}, Rest(n)), book, hist.want, hist.doubt)
  <2>1. calls[n].kind \notin BookCalls
    BY <1>1 DEF BookCalls, Changes, Edits
  <2> QED BY <2>1, RestBook, UnmountsBook
<1>4. hist'.want = hist.want /\ hist'.doubt = hist.doubt /\ hist'.behind = TRUE
  BY <1>1, SessionHistBook
<1>5. PICK cs, b, h, s, iss :
         /\ cs = NewSession(Unmounts({"login"}, Rest(n))) /\ b = book /\ h = hist' /\ s = st'
         /\ iss = issued
  OBVIOUS
<1>6. Kept(cs, b, h.want, h.doubt) /\ ListFits(cs, s, iss, h.behind, b)
  <2>1. /\ Kept(NewSession(Unmounts({"login"}, Rest(n))), book, hist.want, hist.doubt)
        /\ ListFits(NewSession(Unmounts({"login"}, Rest(n))), s, issued, TRUE, book)
    BY <1>3, NewSessionBook
  <2> QED BY <1>4, <1>5, <2>1
<1>7. Len(b) \in Nat /\ s.token \in Nat
  BY <1>2, <1>5
<1>8. PICK form \in Form, key \in CallAns : form = "" /\ key = 0
  BY DEF Form, CallAns
<1>9. PICK more : more = LoadAddresses(s, cs, form)
  OBVIOUS
<1>10. Kept(more, b, h.want, h.doubt) /\ ListFits(more, s, iss, h.behind, b)
  <2>1. ~h.behind => s.token \in DOMAIN iss
    BY <1>4, <1>5
  <2>2. key \in CallAns
    OBVIOUS
  <2> QED BY <1>6, <1>7, <1>9, <2>1, <2>2, LoadsBook
<1>11. /\ Kept(LoadKeys(s, more, form, key), b, h.want, h.doubt)
       /\ ListFits(LoadKeys(s, more, form, key), s, iss, h.behind, b)
  BY <1>7, <1>10, LoadsBook
<1> QED BY <1>1, <1>2, <1>4, <1>5, <1>8, <1>9, <1>11, BookKept

LEMMA KeysArriveBook ==
  ASSUME IInv, BookInv, NEW n \in DOMAIN calls, KeysArrive(n) PROVE BookInv'
<1>1. /\ calls[n].kind = "keys" /\ UNCHANGED <<issued, book>> /\ calls' = Rest(n)
      /\ st' = [st EXCEPT !.keys = calls[n].ans]
      /\ hist' = [hist EXCEPT !.oldKeys = calls[n].stale]
  BY DEF KeysArrive, Answers
<1>2. /\ st'.user = st.user /\ st'.token = st.token /\ st'.addresses = st.addresses
      /\ hist'.want = hist.want /\ hist'.doubt = hist.doubt /\ hist'.behind = hist.behind
      /\ \A r \in st.addresses : RowFits(r, book)
  BY <1>1, BookFinds DEF SessionState, SessionHistory
<1>3. calls[n].kind \notin BookCalls
  BY <1>1 DEF BookCalls, Changes, Edits
<1>4. /\ Kept(Rest(n), book, hist.want, hist.doubt)
      /\ ListFits(Rest(n), st, issued, hist.behind, book)
  BY <1>3, RestBook
<1>5. ListFits(Rest(n), st', issued, hist.behind, book)
  BY <1>2, <1>4, StateListed
<1> QED BY <1>1, <1>2, <1>4, <1>5, BookKept

LEMMA KeyMadeBook ==
  ASSUME IInv, BookInv, NEW n \in DOMAIN calls, KeyMade(n) PROVE BookInv'
<1>1. /\ calls[n].kind \in {"mkkey", "rmkey"} /\ UNCHANGED <<issued, book>>
      /\ calls' = LoadKeys(st, Rest(n), calls[n].form, calls[n].ans)
      /\ st' = IF st.user = NoUser THEN [st EXCEPT !.keys = {}] ELSE st
      /\ hist' = [hist EXCEPT !.oldKeys = @ /\ st.user # NoUser]
  BY DEF KeyMade, Answers
<1>2. /\ st'.user = st.user /\ st'.token = st.token /\ st'.addresses = st.addresses
      /\ hist'.want = hist.want /\ hist'.doubt = hist.doubt /\ hist'.behind = hist.behind
      /\ \A r \in st.addresses : RowFits(r, book)
      /\ Len(book) \in Nat /\ st.token \in Nat
  BY <1>1, BookFinds DEF SessionState, SessionHistory
<1>3. calls[n].form \in Form /\ calls[n].ans \in CallAns
  <2>1. calls[n] \in CallState
    BY BookFinds
  <2> QED BY <2>1 DEF CallState
<1>4. PICK cs, form, key :
        cs = Rest(n) /\ form = calls[n].form /\ key = calls[n].ans
  OBVIOUS
<1>5. Kept(cs, book, hist.want, hist.doubt) /\ ListFits(cs, st, issued, hist.behind, book)
  <2>1. calls[n].kind \notin BookCalls
    BY <1>1 DEF BookCalls, Changes, Edits
  <2> QED BY <1>4, <2>1, RestBook
<1>6. /\ Kept(LoadKeys(st, cs, form, key), book, hist.want, hist.doubt)
      /\ ListFits(LoadKeys(st, cs, form, key), st, issued, hist.behind, book)
  BY <1>2, <1>3, <1>4, <1>5, LoadsBook
<1>7. ListFits(calls', st', issued, hist.behind, book)
  BY <1>1, <1>2, <1>4, <1>6, StateListed
<1> QED BY <1>1, <1>2, <1>4, <1>6, <1>7, BookKept

LEMMA AddressesArriveBook ==
  ASSUME IInv, BookInv, NEW n \in DOMAIN calls, AddressesArrive(n) PROVE BookInv'
<1> DEFINE c == calls[n]
<1>1. /\ c.kind = "addrs" /\ c.served /\ c.ok /\ UNCHANGED <<issued, book>>
      /\ calls' = LateUpTo(Rest(n), n - 1)
      /\ st' = [st EXCEPT !.addresses = c.ans]
      /\ hist' = [hist EXCEPT !.oldBook = c.stale, !.behind = c.stale \/ c.late]
  BY DEF AddressesArrive, Answers
<1>2. /\ calls \in Seq(CallState) /\ st \in SessionState /\ hist \in SessionHistory
      /\ ListFits(calls, st, issued, hist.behind, book) /\ CallIsSound(c, issued, st.token)
      /\ EntryFits(c, book, hist.want, hist.doubt) /\ c \in CallState
  BY BookFinds DEF IInv, CallsAreSound, Kept, EditsFit
<1>3. /\ st'.user = st.user /\ st'.token = st.token /\ st'.addresses = c.ans
      /\ hist'.want = hist.want /\ hist'.doubt = hist.doubt /\ hist'.behind = (c.stale \/ c.late)
  BY <1>1, <1>2 DEF SessionState, SessionHistory
<1>4. \A r \in st'.addresses : RowFits(r, book)
  BY <1>1, <1>2, <1>3 DEF EntryFits
<1>5. PICK t, new : t = st' /\ new = LateUpTo(RemoveAt(calls, n), n - 1)
  OBVIOUS
<1>6. PICK later \in BOOLEAN : later = (c.stale \/ c.late)
  <2>1. c.stale \in BOOLEAN /\ c.late \in BOOLEAN
    BY <1>2 DEF CallState
  <2> QED BY <2>1
<1>7. ~later => /\ Good(c) /\ st.token \in DOMAIN issued /\ c.served /\ c.ok /\ t.addresses = c.ans
  BY <1>1, <1>2, <1>3, <1>5, <1>6 DEF Good, CallIsSound
<1>8. ListFits(new, t, issued, later, book)
  BY <1>1, <1>2, <1>3, <1>5, <1>7, EndedListed
<1>9. Kept(new, book, hist.want, hist.doubt)
  <2>1. ~Open(c)
    BY <1>1 DEF Open
  <2>2. PICK cs : cs = RemoveAt(calls, n)
    OBVIOUS
  <2>3. Kept(cs, book, hist.want, hist.doubt)
    BY <2>1, <2>2, RestBook DEF Rest
  <2> QED BY <1>5, <2>2, <2>3, AlikeCalls, AlikeKept DEF Kept
<1> QED BY <1>1, <1>3, <1>4, <1>5, <1>8, <1>9, <1>6, BookKept DEF Rest

LEMMA AddressChangedBook ==
  ASSUME IInv, BookInv, NEW n \in DOMAIN calls, AddressChanged(n) PROVE BookInv'
<1>1. /\ calls[n].kind \in Changes /\ calls[n].served /\ calls[n].ok /\ UNCHANGED <<issued, book>>
      /\ calls' = LoadAddresses(st, Rest(n), calls[n].form)
      /\ st' = IF st.user = NoUser THEN [st EXCEPT !.addresses = {}] ELSE st
      /\ hist' = [hist EXCEPT !.oldBook = @ /\ st.user # NoUser]
  BY DEF AddressChanged, Answers
<1>2. /\ hist'.want = hist.want /\ hist'.doubt = hist.doubt /\ hist'.behind = hist.behind
      /\ \A r \in st.addresses : RowFits(r, book)
      /\ Len(book) \in Nat /\ st.token \in Nat /\ st \in SessionState /\ calls \in Seq(CallState)
      /\ ListFits(calls, st, issued, hist.behind, book) /\ hist.behind \in BOOLEAN
  BY <1>1, BookFinds DEF SessionHistory
<1>3. PICK cs, form : cs = Rest(n) /\ form = calls[n].form
  OBVIOUS
<1>4. Kept(cs, book, hist.want, hist.doubt)
  BY <1>1, <1>3, RestBook DEF Open
<1>5. form \in Form
  <2>1. calls[n] \in CallState
    BY <1>2
  <2> QED BY <1>3, <2>1 DEF CallState
<1>6. PICK key \in CallAns : key = 0
  BY DEF CallAns
<1>7. CASE st.user # NoUser
  <2>1. ~hist.behind => st.token \in DOMAIN issued
    BY <1>2 DEF ListFits
  <2>2. /\ Kept(LoadAddresses(st, cs, form), book, hist.want, hist.doubt)
        /\ ListFits(LoadAddresses(st, cs, form), st, issued, hist.behind, book)
    BY <1>2, <1>4, <1>5, <1>7, <2>1, LoadsBook
  <2> QED BY <1>1, <1>2, <1>3, <1>7, <2>2, BookKept
<1>8. CASE st.user = NoUser
  <2>1. calls' = cs /\ st'.addresses = {}
    BY <1>1, <1>2, <1>3, <1>8 DEF LoadAddresses, SessionState
  <2>2. hist.behind /\ NoGood(calls)
    BY <1>2, <1>8 DEF ListFits
  <2>3. NoGood(cs)
    BY <1>2, <1>3, <2>2, RestOf DEF NoGood, Rest
  <2>4. ListFits(cs, st', issued, hist.behind, book)
    <3>1. hist.behind = TRUE
      BY <1>2, <2>2
    <3> QED BY <2>3, <3>1, NoneListed
  <2> QED BY <1>1, <1>2, <1>4, <2>1, <2>4, BookKept
<1> QED BY <1>7, <1>8

(* A call fails: a change may have been made for all one knows. *)
LEMMA CallFailsBook ==
  ASSUME IInv, BookInv, NEW n \in DOMAIN calls, CallFails(n) PROVE BookInv'
<1> DEFINE c == calls[n]
           more == IF c.kind \in Edits THEN hist.doubt \cup {c.arg.at} ELSE hist.doubt
<1>1. /\ UNCHANGED <<issued, book>> /\ st' = Checked(c.kind) /\ calls' = Without(n)
      /\ hist' = [hist EXCEPT !.behind = @ \/ c.kind \in BookCalls, !.doubt = more]
  BY DEF CallFails
<1>2. /\ Len(book) \in Nat /\ st.token \in Nat /\ st \in SessionState /\ calls \in Seq(CallState)
      /\ ListFits(calls, st, issued, hist.behind, book) /\ hist \in SessionHistory
      /\ hist.doubt \subseteq DOMAIN book /\ Len(hist.want) = Len(book)
      /\ Kept(calls, book, hist.want, hist.doubt)
      /\ EntryFits(c, book, hist.want, hist.doubt)
      /\ \A r \in st.addresses : RowFits(r, book)
  BY BookFinds DEF Kept, EditsFit
<1>3. /\ hist'.want = hist.want /\ hist'.doubt = more
      /\ hist'.behind = (hist.behind \/ c.kind \in BookCalls)
      /\ st'.user = st.user /\ st'.token = st.token /\ st'.addresses = st.addresses
  BY <1>1, <1>2 DEF SessionHistory, SessionState, Checked
<1>4. more \subseteq DOMAIN book /\ hist.doubt \subseteq more
  BY <1>2 DEF EntryFits
<1>5. Open(c) => c.arg.at \in more
  BY DEF Open
<1> HIDE DEF more
<1>6. PICK cs : cs = RemoveAt(calls, n) /\ cs = Rest(n)
  BY DEF Rest
<1>7. Kept(cs, book, hist.want, more)
  <2>1. Kept(calls, book, hist.want, more)
    BY <1>2, <1>4, DoubtKept
  <2> QED BY <1>2, <1>5, <1>6, <2>1, RestKept
<1>8. cs \in Seq(CallState)
  BY <1>7 DEF Kept
<1>9. Kept(calls', book, hist.want, more) /\ ListFits(calls', st', issued, hist'.behind, book)
  <2>1. CASE c.kind = "status"
    <3>1. calls' = Mounts(Checked(c.kind), cs, view.page)
      BY <1>1, <1>6, <2>1 DEF Without
    <3>2. c.kind \notin BookCalls
      BY <2>1 DEF BookCalls, Changes, Edits
    <3>3. PICK s, h, iss : s = st' /\ h = hist' /\ iss = issued
      OBVIOUS
    <3>4. h.behind = hist.behind
      BY <1>2, <1>3, <3>2, <3>3 DEF SessionHistory
    <3>5. ListFits(cs, st, issued, hist.behind, book)
      BY <1>6, <3>2, RestBook
    <3>6. ListFits(cs, s, iss, h.behind, book)
      BY <1>3, <3>3, <3>4, <3>5, StateListed
    <3>7. s.token \in Nat
      BY <1>2, <1>3, <3>3
    <3>8. /\ Kept(Mounts(s, cs, view.page), book, hist.want, more)
          /\ ListFits(Mounts(s, cs, view.page), s, iss, h.behind, book)
      BY <1>2, <1>7, <3>6, <3>7, MountsBook
    <3> QED BY <1>1, <3>1, <3>3, <3>8
  <2>2. CASE c.kind = "addrs"
    <3>1. calls' = LateUpTo(cs, n - 1)
      BY <1>1, <1>6, <2>2 DEF Without
    <3>2. PICK t, new : t = st' /\ new = LateUpTo(RemoveAt(calls, n), n - 1)
      OBVIOUS
    <3>3. PICK later \in BOOLEAN : later = TRUE
      OBVIOUS
    <3>4. ListFits(new, t, issued, later, book)
      BY <1>2, <1>3, <2>2, <3>2, <3>3, EndedListed
    <3>5. Kept(new, book, hist.want, more)
      BY <1>6, <1>7, <1>8, <3>2, AlikeCalls, AlikeKept
    <3>6. hist'.behind = later
      BY <1>3, <2>2, <3>3 DEF BookCalls
    <3> QED BY <1>6, <3>1, <3>2, <3>4, <3>5, <3>6
  <2>3. CASE c.kind \in Changes
    <3>1. calls' = LateUpTo(cs, Len(calls))
      BY <1>1, <1>6, <2>3 DEF Without, Changes, Edits
    <3>2. PICK new, m : new = LateUpTo(cs, m) /\ m = Len(calls)
      OBVIOUS
    <3>3. Kept(new, book, hist.want, more)
      BY <1>7, <1>8, <3>2, AlikeCalls, AlikeKept
    <3>4. NoGood(new)
      <4> SUFFICES ASSUME NEW k \in DOMAIN new PROVE ~Good(new[k])
        BY DEF NoGood
      <4>1. DOMAIN new = DOMAIN cs
        BY <3>2 DEF LateUpTo
      <4>2. Len(RemoveAt(calls, n)) = Len(calls) - 1 /\ Len(calls) \in Nat
        BY <1>2, RestOf
      <4>3. Len(cs) = Len(calls) - 1
        BY <1>6, <4>2
      <4>4. k \in Nat /\ k <= m /\ cs[k] \in CallState
        BY <1>8, <3>2, <4>1, <4>2, <4>3
      <4>5. new[k] = IF cs[k].kind = "addrs" /\ ~cs[k].stale THEN [cs[k] EXCEPT !.late = TRUE] ELSE cs[k]
        BY <3>2, <4>1, <4>4 DEF LateUpTo
      <4> QED BY <4>4, <4>5 DEF Good, CallState
    <3>5. ListFits(new, st', issued, TRUE, book)
      BY <3>4, NoneListed
    <3>6. hist'.behind = TRUE
      BY <1>3, <2>3 DEF BookCalls
    <3> QED BY <1>1, <3>1, <3>2, <3>3, <3>5, <3>6
  <2>4. CASE c.kind \notin {"status", "addrs"} \cup Changes
    <3>1. calls' = cs /\ c.kind \notin BookCalls
      BY <1>1, <1>6, <2>4 DEF Without, BookCalls
    <3>2. ListFits(cs, st, issued, hist.behind, book)
      BY <1>6, <3>1, RestBook
    <3>3. hist'.behind = hist.behind
      BY <1>2, <1>3, <3>1 DEF SessionHistory
    <3>4. ListFits(cs, st', issued, hist'.behind, book)
      BY <1>3, <3>2, <3>3, StateListed
    <3> QED BY <1>7, <3>1, <3>4
  <2> QED BY <2>1, <2>2, <2>3, <2>4
<1> QED BY <1>1, <1>2, <1>3, <1>4, <1>9 DEF BookInv

LEMMA NextBook == IInv /\ PageInv /\ BookInv /\ IInv' /\ [Next]_vars => BookInv'
<1> SUFFICES ASSUME IInv, PageInv, BookInv, IInv', [Next]_vars PROVE BookInv'
  OBVIOUS
<1>1. CASE UserDoes
  <2>1. ASSUME NEW p \in Page, Visit(p) PROVE BookInv'
    BY <2>1, VisitBook
  <2>2. CASE \/ SubmitSetup \/ (\E u \in User : SubmitLogin(u)) \/ (\E scope \in Scope : MakeKey(scope))
             \/ (\E k \in 1 .. MaxKeys : RevokeKey(k))
    BY <2>2, FormsBook
  <2>3. CASE \E S \in SUBSET Dest : Reserve(S)
    BY <2>3, ReserveBook
  <2>4. CASE \E r \in st.addresses : Release(r) \/ \E d \in Dest : AddDest(r, d) \/ RemoveDest(r, d)
    BY <2>4, EditsBook
  <2>5. CASE Logout \/ \E t \in Draft : SetToken(t)
    BY <2>5, SessionBook
  <2>6. CASE OpenSignIn \/ CloseSignIn
    BY <2>6, OverlayBook
  <2>7. CASE Reload
    BY <2>7, ReloadBook
  <2>8. CASE DismissSecret
    BY <2>8, SmallBook
  <2> QED BY <1>1, <2>1, <2>2, <2>3, <2>4, <2>5, <2>6, <2>7, <2>8 DEF UserDoes
<1>2. ASSUME NEW n \in DOMAIN calls, Serve(n) PROVE BookInv'
  BY <1>2, ServeAccountBook, ServeAddressesBook, PatchBook DEF Serve
<1>3. ASSUME NEW n \in DOMAIN calls, Answer(n) PROVE BookInv'
  <2>1. st' \in SessionState
    BY DEF IInv, Types
  <2>2. CASE StatusArrives(n) \/ SetupArrives(n) \/ LoginArrives(n)
    BY <2>1, <2>2, StatusArrivesBook, SetupArrivesBook, LoginArrivesBook
  <2>3. CASE KeysArrive(n) \/ KeyMade(n)
    BY <2>3, KeysArriveBook, KeyMadeBook
  <2>4. CASE AddressesArrive(n) \/ AddressChanged(n) \/ CallFails(n)
    BY <2>4, AddressesArriveBook, AddressChangedBook, CallFailsBook
  <2> QED BY <1>3, <2>2, <2>3, <2>4 DEF Answer
<1>4. CASE UNCHANGED vars \/ \E u \in User : SetupElsewhere(u)
  BY <1>4, SmallBook
<1> QED BY <1>1, <1>2, <1>3, <1>4 DEF Next

LEMMA BookInductive == Spec => [](IInv /\ PageInv /\ BookInv)
<1> QED BY InitInv, InitPage, InitBook, NextInv, NextPage, NextBook, PTL DEF Spec

---------------------------------------------------------------------------
(* The theorems *)

(* The variables keep their types, the bounds on keys, addresses and calls
   hold, and each form of the page waits exactly while its own call, or the
   load after it, is under way: whatever overlaps, no answer to another call
   ends its wait, and none that ended leaves it waiting. *)
THEOREM TypeCorrect == Spec => []TypeOK
<1>1. IInv /\ PageInv /\ BookInv => TypeOK
  <2> SUFFICES ASSUME IInv, PageInv, BookInv PROVE TypeOK
    OBVIOUS
  <2>1. /\ issued \in Seq(User) /\ Len(issued) \in Nat /\ Len(issued) <= MaxKeys
        /\ DOMAIN issued \subseteq Token /\ calls \in Seq(CallState)
        /\ Fits(calls, st, Len(issued), view.busy) /\ st \in SessionState
        /\ hist \in SessionHistory /\ storage = Stored(st.user, st.token)
        /\ MaxCalls \in Nat
    BY PageFinds
  <2>2. /\ accounts \subseteq User /\ revoked \subseteq DOMAIN issued /\ st.token \in Token
        /\ view \in ViewState(Len(issued)) /\ Load(calls) <= MaxCalls
    BY DEF PageInv, Bounded
  <2>3. Len(calls) <= MaxCalls
    <3>1. Len(calls) \in Nat /\ Load(calls) \in Nat /\ Len(calls) <= Load(calls)
      BY <2>1, SizeTypes
    <3> QED BY <2>1, <2>2, <3>1
  <2>4. /\ scopes \in Seq(Scope) /\ Len(scopes) = Len(issued) /\ st.keys \subseteq DOMAIN issued
        /\ hist.want \in Seq(Entry) /\ book \in Seq(Entry) /\ Len(book) \in Nat
    BY BookFinds DEF IInv, Types
  <2>5. Len(book) <= MaxBook
    <3>1. Cardinality(Reserving(calls)) \in Nat /\ MaxBook \in Nat
      BY <2>1, RoomTypes, SessionBoundAssumption
    <3>2. Len(book) + Cardinality(Reserving(calls)) <= MaxBook
      BY DEF BookInv, Kept, Rooms
    <3> QED BY <2>4, <3>1, <3>2
  <2>6. DOMAIN book \subseteq 1 .. MaxBook /\ Len(hist.want) = Len(book)
    <3>1. MaxBook \in Nat /\ DOMAIN book = 1 .. Len(book)
      BY <2>4, SessionBoundAssumption
    <3> QED BY <2>4, <2>5, <3>1, BookFinds
  <2>7. hist.doubt \subseteq 1 .. MaxBook
    BY <2>6, BookFinds
  <2>8. ASSUME NEW r \in st.addresses PROVE r \in Row
    <3>1. r \in AnyRow /\ RowFits(r, book)
      BY <2>1, BookFinds DEF SessionState
    <3> QED BY <2>6, <3>1 DEF AnyRow, RowFits, Row
  <2>9. st.user \in User \cup {NoUser}
    BY <2>1 DEF SessionState
  <2>10. storage \in [user : User \cup {NoUser}, token : Token]
    BY <2>1, <2>2, <2>9 DEF Stored
  <2>11. view.page \in Page /\ view.busy \subseteq Forms /\ view.secret \in 0 .. Len(issued)
    BY <2>2 DEF ViewState
  <2>12. \A f \in Forms : f \in view.busy <=> \E n \in DOMAIN calls : calls[n].form = f
    BY <2>1 DEF Fits, HasForm
  <2>13. \A n, k \in DOMAIN calls : calls[n].form = calls[k].form /\ calls[n].form # "" => n = k
    BY <2>1 DEF Fits, OneEach
  <2> QED BY <2>1, <2>2, <2>3, <2>4, <2>5, <2>6, <2>7, <2>8, <2>9, <2>10, <2>11, <2>12, <2>13
          DEF TypeOK
<1> QED BY <1>1, BookInductive, PTL

(* Whatever is sent with whichever token, in whatever order it is answered,
   lost or given up, every address out of doubt is what its user last made of
   it or will be by a call that is still to be done; and with no call about
   addresses under way, a page that missed no answer lists what its token's
   owner has. *)
THEOREM EditsStayTrue == Spec => []EditsAddUp
<1>1. IInv /\ PageInv /\ BookInv => EditsAddUp
  <2> SUFFICES ASSUME IInv, PageInv, BookInv PROVE EditsAddUp
    OBVIOUS
  <2>1. EditsFit(calls, book, hist.want, hist.doubt) /\ ListFits(calls, st, issued, hist.behind, book)
    BY DEF BookInv, Kept
  <2>2. ASSUME NEW a \in DOMAIN book, a \notin hist.doubt, book[a] # hist.want[a]
        PROVE  Undone(a) # {}
    <3>1. PICK n \in DOMAIN calls : Open(calls[n]) /\ calls[n].arg.at = a
      BY <2>1, <2>2 DEF EditsFit
    <3>2. n \in Undone(a)
      BY <3>1 DEF Undone, InFlight, Open
    <3> QED BY <3>2
  <2>3. ASSUME InFlight(BookCalls) = {}, ~hist.behind PROVE st.addresses = Listed(TokenUser)
    <3>1. \A n \in DOMAIN calls : calls[n].kind \notin BookCalls
      BY <2>3 DEF InFlight
    <3>2. NoChange(calls) /\ NoGood(calls)
      BY <3>1 DEF NoChange, NoGood, Good, BookCalls
    <3>3. st.token \in DOMAIN issued /\ st.addresses = Rows(book, issued[st.token])
      BY <2>1, <2>3, <3>2 DEF ListFits
    <3> QED BY <3>3 DEF TokenUser, Listed, Rows
  <2> QED BY <2>2, <2>3 DEF EditsAddUp
<1> QED BY <1>1, BookInductive, PTL
=============================================================================

------------------------------ MODULE InboxLink ------------------------------
(***************************************************************************)
(* From what is typed to the inbox that opens: the text is completed to an *)
(* address, put into a path, taken out of it by the router and once more   *)
(* by the page.  A text is a sequence of the pieces that are treated       *)
(* differently: "x" and "X", a letter (not a hexadecimal digit), "@", "%", *)
(* " ", and the digits "25", "40" and "20", which may follow a "%".        *)
(***************************************************************************)
EXTENDS Naturals, FiniteSets, Sequences, SequencesExt

Piece == {"x", "X", "@", "%", " ", "25", "40", "20"}

(* filter: what s has at the positions K, in their order. *)
Picked(s, K) ==
  [k \in 1 .. Cardinality(K) |-> s[CHOOSE n \in K : Cardinality({i \in K : i <= n}) = k]]

Has(t, c) == \E n \in DOMAIN t : t[n] = c

(* toLowerCase() *)
Lower(t) == [n \in DOMAIN t |-> IF t[n] = "X" THEN "x" ELSE t[n]]

(* trim().toLowerCase() *)
Normal(t) ==
  LET kept == {n \in DOMAIN t : t[n] # " "} IN
  IF kept = {} THEN <<>> ELSE Lower(SubSeq(t, Min(kept), Max(kept)))

(* qualify of the landing page, at the domain d. *)
Qualify(t, d) ==
  IF Normal(t) = <<>> \/ Has(t, "@") THEN Normal(t) ELSE Normal(t) \o <<"@">> \o d

(* maybeQualify of the palette *)
maybeQualify(term, d) ==
  IF Has(term, "@") THEN Lower(term) ELSE Lower(term) \o <<"@">> \o d

(* What the palette offers to open: a name, or anything with an "@". *)
LooksLikeInbox(t) == Has(t, "@") \/ ~(Has(t, "%") \/ Has(t, " "))

Code == [c \in {"%", "@", " "} |-> IF c = "%" THEN "25" ELSE IF c = "@" THEN "40" ELSE "20"]

(* encodeURIComponent: the n-th piece is spelled at the places 2n - 1 and 2n of
   wide, or at the first of them only. *)
Encode(t) ==
  LET piece(p) == t[(p + 1) \div 2]
      wide == [p \in 1 .. 2 * Len(t) |->
                 IF piece(p) \notin DOMAIN Code THEN piece(p)
                 ELSE IF p % 2 = 1 THEN "%" ELSE Code[piece(p)]]
  IN Picked(wide, {p \in 1 .. 2 * Len(t) : p % 2 = 1 \/ piece(p) \in DOMAIN Code})

(* decodeURIComponent, which throws on a "%" that starts no code. *)
Throws(t) == \E n \in DOMAIN t : t[n] = "%" /\ (n = Len(t) \/ t[n + 1] \notin Range(Code))

Decode(t) ==
  LET codes == {n \in DOMAIN t : t[n] = "%"}
      decoded == [n \in DOMAIN t |-> IF n \in codes THEN CHOOSE c \in DOMAIN Code : Code[c] = t[n + 1]
                                     ELSE t[n]]
  IN Picked(decoded, {n \in DOMAIN t : n - 1 \notin codes})

(* openInbox: the path; the router's params are decoded already. *)
PathOf(t) == Encode(Normal(t))
Param(path) == Decode(path)
=============================================================================

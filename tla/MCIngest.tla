----------------------------- MODULE MCIngest -----------------------------
(* The instances of Ingest that TLC checks. *)
EXTENDS Ingest, TLC

CONSTANTS
  m1, m2,    \* two mails
  A, a,      \* two spellings of one address
  b,         \* another address
  x,         \* an address of a domain that is not handled
  sp         \* white space

Normalized == [r \in Addr |-> CASE r \in {A, a} -> "a" [] r = b -> "b" [] r = x -> "x" [] r = sp -> Blank]

(* One mail to two inboxes. *)
TwoRcpts == [m \in Mail |-> <<a, b>>]

(* A mail nothing is stored for, and one that names one inbox twice, another
   one once, and two addresses nothing is stored for. *)
Mixed == [m \in Mail |-> IF m = m1 THEN <<x>> ELSE <<A, sp, a, x, b>>]
===========================================================================

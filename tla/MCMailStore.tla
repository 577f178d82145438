---------------------------- MODULE MCMailStore ----------------------------
(* The instances of MailStore that TLC checks. *)
EXTENDS MailStore, TLC

CONSTANTS p1, p2, s, t1   \* two parses of one source, the first with an attachment

OneSource == [p \in Mail |-> s]
Atts == [p \in Mail |-> IF p = p1 THEN {t1} ELSE {}]

Symmetry == Permutations(Id) \cup Permutations(Deleter) \cup Permutations(Inbox)
===========================================================================

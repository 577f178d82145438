-------------------------- MODULE MCForwardQueue --------------------------
(* The instances of ForwardQueue that TLC checks. *)
EXTENDS ForwardQueue

CONSTANT m

(* Every job forwards the same message, to a destination of its own. *)
OneMessage == [j \in Job |-> m]
===========================================================================

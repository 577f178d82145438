---------------------------- MODULE MCLongPoll ----------------------------
(* The instances of LongPoll that TLC checks. *)
EXTENDS LongPoll

CONSTANT a   \* an inbox address

(* Every mail is to the one recipient. *)
OneInbox == {<<a>>}
===========================================================================

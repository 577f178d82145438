----------------------------- MODULE MCWebMail -----------------------------
(* Instances of WebMail: one or two inboxes, and a search that finds the
   first message. *)
EXTENDS WebMail

CONSTANTS a, b, q1

OneMail == <<a>>
TwoInOne == <<a, a>>
FirstOnly == q1 :> {1}
NoMatches == <<>>
=============================================================================

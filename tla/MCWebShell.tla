----------------------------- MODULE MCWebShell -----------------------------
(* Three messages, the second with attachments; four texts, one of them with
   a space and a capital, two with a percent sign, and two inboxes; a domain
   that is configured with a capital. *)
EXTENDS WebShell, TLC

x == <<"x", "@", "x">>
OfServer == <<"X">>
Names == {<<"x">>, <<" ", "X", "@", "x">>, <<"x", "%", "40", "x">>, <<"x", "%">>}

LettersHit == [t \in Names |-> IF t = <<"x">> THEN {"wait", "clear"} ELSE {}]

ThreeOrLess == {<<1, 2, 3>>, <<2, 3>>, <<>>}

SomeInboxes ==
  {<<>>, <<[inbox |-> x, message_count |-> 1]>>,
   <<[inbox |-> <<"25", "@", "x">>, message_count |-> 1], [inbox |-> x, message_count |-> 2]>>}
=============================================================================

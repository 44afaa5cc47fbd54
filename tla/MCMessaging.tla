---------------------------- MODULE MCMessaging ----------------------------
(***************************************************************************)
(* Instances of Messaging with two calls.                                  *)
(***************************************************************************)
EXTENDS Messaging

\* The first message is empty or too long, the second is neither.
OddAndPlain == {<<"empty", "some">>, <<"long", "some">>}

BothPlain == {<<"some", "some">>}
=============================================================================

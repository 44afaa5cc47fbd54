--------------------------- MODULE MessageStream ---------------------------
(***************************************************************************)
(* What a stream of WireMsg frames promises: the messages written to it    *)
(* are received in the order in which they were written, each exactly      *)
(* once, until the stream ends.  An empty user message is received as an   *)
(* error, in its place.                                                    *)
(***************************************************************************)
EXTENDS Integers, Sequences

CONSTANTS
  Msgs,          \* the messages that can be written
  Outcome(_)     \* what receiving a message yields

VARIABLES
  sent,   \* the messages written, in order
  got,    \* the outcomes received, in order
  over    \* has the receiver seen the end of the stream?

vars == <<sent, got, over>>

Init == sent = <<>> /\ got = <<>> /\ over = FALSE

Send(m) ==
  /\ sent' = Append(sent, m)
  /\ UNCHANGED <<got, over>>

Receive ==
  /\ ~over /\ Len(got) < Len(sent)
  /\ got' = Append(got, Outcome(sent[Len(got) + 1]))
  /\ UNCHANGED <<sent, over>>

End ==
  /\ over' = TRUE
  /\ UNCHANGED <<sent, got>>

Next == (\E m \in Msgs : Send(m)) \/ Receive \/ End

Spec == Init /\ [][Next]_vars
=============================================================================

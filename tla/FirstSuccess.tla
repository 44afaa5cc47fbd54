---------------------------- MODULE FirstSuccess ----------------------------
(***************************************************************************)
(* What connect_to_any promises (src/src/endpoint.rs), and what new_peer   *)
(* relies on: of all the attempts it makes, the first that succeeds is     *)
(* chosen, and it gives up only when every one has failed.                 *)
(***************************************************************************)
CONSTANT NoOne

VARIABLES
  targets,   \* the addresses to try
  failed,    \* those whose attempt has failed for good
  chosen,    \* the one that was connected to, or NoOne
  over       \* has the call returned?

vars == <<targets, failed, chosen, over>>

Init == failed = {} /\ chosen = NoOne /\ over = FALSE

Fail(a) ==
  /\ ~over /\ chosen = NoOne /\ a \in targets \ failed
  /\ failed' = failed \cup {a}
  /\ over' = (failed' = targets)
  /\ UNCHANGED <<targets, chosen>>

\* The call may go on over the chosen connection.
Choose(a) ==
  /\ ~over /\ chosen = NoOne /\ a \in targets \ failed
  /\ chosen' = a /\ over' \in BOOLEAN
  /\ UNCHANGED <<targets, failed>>

Return ==
  /\ ~over /\ (chosen # NoOne \/ targets = {})
  /\ over' = TRUE
  /\ UNCHANGED <<targets, failed, chosen>>

Next == Return \/ \E a \in targets : Fail(a) \/ Choose(a)

Spec == Init /\ [][Next]_vars
=============================================================================

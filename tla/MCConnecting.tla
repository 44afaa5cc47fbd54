---------------------------- MODULE MCConnecting ----------------------------
(***************************************************************************)
(* Instances of Connecting: configurations with the default idle timeout,  *)
(* a short one and one that is too long.                                   *)
(***************************************************************************)
EXTENDS Connecting

MCConfigs ==
  {[idle_timeout |-> {},  keep_alive |-> FALSE],
   [idle_timeout |-> {1}, keep_alive |-> TRUE],
   [idle_timeout |-> {9}, keep_alive |-> FALSE]}
=============================================================================

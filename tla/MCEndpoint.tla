----------------------------- MODULE MCEndpoint -----------------------------
(***************************************************************************)
(* Instances of Endpoint for TLC: a host behind a router, and a claim that *)
(* the code does not keep.                                                 *)
(***************************************************************************)
EXTENDS Endpoint

Local      == <<"lan", "port1">>
Seen       == <<"wan", "port2">>
Open       == {Seen, <<"wan", "port3">>}

\* Claim of Config::external_port (config.rs:113-115): if it is provided,
\* automatic port forwarding will be skipped.
ForwardingSkipped == ExternalPort # "none" => ~forwarded
=============================================================================

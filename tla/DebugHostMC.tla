---------------------------- MODULE DebugHostMC -----------------------------
(* Instances of DebugHost for model checking.                              *)
EXTENDS DebugHost

\* An address of the host's own, and one to which answers come.
MCAddresses == {<<0, "host">>, <<1, "r", "back">>}
=============================================================================

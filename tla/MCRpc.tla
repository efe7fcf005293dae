-------------------------------- MODULE MCRpc --------------------------------
(* Rpc with small constants for TLC. *)
EXTENDS Rpc
==============================================================================

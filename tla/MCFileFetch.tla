----------------------------- MODULE MCFileFetch -----------------------------
(* FileFetch with small constants for TLC. *)
EXTENDS FileFetch
==============================================================================

----------------------------- MODULE MCSessions -----------------------------
(* Sessions with small constants for TLC. *)
EXTENDS Sessions, TLC

CONSTANTS s1, s2   \* Session

\* The game of the second session is silent: what is written to one ring is not
\* seen in another.
MCMaxLines == (s1 :> [stdout |-> 2, stderr |-> 1]) @@ (s2 :> [stdout |-> 0, stderr |-> 0])

Symmetry == Permutations(Pid)
==============================================================================

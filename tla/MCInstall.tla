------------------------------ MODULE MCInstall ------------------------------
(* Install with small constants for TLC. *)
EXTENDS Install, TLC

CONSTANTS i1,              \* an instance whose metadata may change
          jar, index,      \* Path
          c1, c2           \* Content

At(path, sha1, role) == [path |-> path, sha1 |-> sha1, role |-> role]

\* A plan whose artifacts are all pinned, and one with a library that is not, as
\* the oldest versions have.
FullPlan == <<At(jar, c1, "native"), At(index, c2, "index")>>
BarePlan == <<At(jar, Unpinned, "library")>>
MCPlans == [i \in Instance |-> IF i = i1 THEN {FullPlan, BarePlan} ELSE {FullPlan}]

Requests == Permutations(Job)
==============================================================================

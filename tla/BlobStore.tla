------------------------------ MODULE BlobStore ------------------------------
(***************************************************************************)
(* What the content addressed store promises its callers, without files,   *)
(* permissions or steps: under an address there is either nothing or the   *)
(* one content the address names.  Contents come in whole and go away      *)
(* whole; none ever changes in place.                                      *)
(***************************************************************************)

CONSTANTS
    Address,   \* the addresses; the content an address names is itself
    Absent     \* what is stored under an address that holds nothing; no address

VARIABLE blob  \* what is stored under each address

Init == blob = [a \in Address |-> Absent]

\* A complete content appears under its own address.
Insert(a) ==
    /\ blob[a] = Absent
    /\ blob' = [blob EXCEPT ![a] = a]

\* Garbage collection takes a content away.
Collect(a) ==
    /\ blob[a] # Absent
    /\ blob' = [blob EXCEPT ![a] = Absent]

Next == \E a \in Address : Insert(a) \/ Collect(a)

Spec == Init /\ [][Next]_blob
==============================================================================

--------------------------- MODULE MCAttestationLog ---------------------------
(* Instances of AttestationLog for TLC. *)
EXTENDS AttestationLog, TLC

CONSTANTS o1, o2

TwoLegacy == <<o1, o2>>

AllFaults == FaultKinds

\* Requests are interchangeable, and so are chain objects and instances.
Symmetry == Permutations(Requests) \cup Permutations(Chains) \cup Permutations(Instances)
=============================================================================

------------------------- MODULE MCPassportLifecycle -------------------------
(* Instances of PassportLifecycle for TLC. *)
EXTENDS PassportLifecycle, TLC

AllFaults == FaultKinds

Symmetry == Permutations(Passports) \cup Permutations(Rotates) \cup Permutations(Revokes)
              \cup Permutations(Checks)
=============================================================================

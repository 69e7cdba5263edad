---------------------------- MODULE MCKeyCustody ----------------------------
(* Instances of KeyCustody for TLC. *)
EXTENDS KeyCustody, TLC

NoFaults   == {}
NoAckLoss  == {"crash", "queryError"}

Symmetry == Permutations(Keys) \cup Permutations(Tenants) \cup Permutations(Rotations)
              \cup Permutations(Passports) \cup Permutations(Instances)
=============================================================================

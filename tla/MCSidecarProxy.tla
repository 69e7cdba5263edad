---------------------------- MODULE MCSidecarProxy ----------------------------
(* Instances of SidecarProxy for TLC. *)
EXTENDS SidecarProxy, TLC

Symmetry == Permutations(Sidecars) \cup Permutations(Calls)
=============================================================================

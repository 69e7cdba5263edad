------------------------- MODULE MCIssuanceRateLimit -------------------------
(* Instances of IssuanceRateLimit for TLC. *)
EXTENDS IssuanceRateLimit, TLC

ShortLengths == <<1, 2, 3>>
SmallLimits  == <<2, 2, 2>>

Symmetry     == Permutations(Issuances) \cup Permutations(Keys)
=============================================================================

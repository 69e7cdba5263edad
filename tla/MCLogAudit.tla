------------------------------ MODULE MCLogAudit ------------------------------
(* Instances of LogAudit for TLC. *)
EXTENDS LogAudit

CONSTANTS a1, a2

\* One agent acts twice in a row, where the padded tree repeats a leaf.
TwoAgents == [k \in 1 .. MaxRecords |-> IF k \in {2, 5} THEN a2 ELSE a1]
=============================================================================

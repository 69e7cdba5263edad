---------------------------- MODULE AppendOnlyLog ----------------------------
(***************************************************************************)
(* What the attestation log of one company promises to an outside auditor: *)
(* there is one sequence of records, it only ever grows at its end, and    *)
(* every signed tree head anyone is shown commits to a non-empty prefix of *)
(* it.  A tree head is written as the sequence of leaves its RFC 6962 root *)
(* commits to (the hash is taken to be collision free), so its tree size   *)
(* is its length.                                                          *)
(***************************************************************************)
EXTENDS Naturals, Sequences

CONSTANT Leaf        \* record hashes

VARIABLES
  log,               \* the one committed sequence of records
  heads              \* every signed tree head shown to somebody

vars == <<log, heads>>

Init ==
  /\ log \in Seq(Leaf)
  /\ heads = {}

\* One more record at the end of the log; nobody has seen a head over it yet.
Extend ==
  /\ \E leaf \in Leaf : log' = Append(log, leaf)
  /\ UNCHANGED heads

\* Show somebody the head of any size the log has already reached.
Publish ==
  /\ \E size \in 1 .. Len(log) : heads' = heads \cup {SubSeq(log, 1, size)}
  /\ UNCHANGED log

Next == Extend \/ Publish

Spec == Init /\ [][Next]_vars
=============================================================================

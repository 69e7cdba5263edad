------------------------------ MODULE MerkleTree ------------------------------
(***************************************************************************)
(* The trees over record hashes: the RFC 6962 tree that tree heads commit  *)
(* to (src/crypto/rfc6962.ts) and the older padded tree of                 *)
(* src/crypto/merkle.ts, with their proofs and the verifiers that run      *)
(* without the log.                                                        *)
(*                                                                         *)
(* SHA-256 does not collide, so a hash is written as what was hashed; the  *)
(* first component says which of the hash functions it was.  Every hash    *)
(* has its 32 bytes: the checks for malformed hex are left out.            *)
(***************************************************************************)
EXTENDS Naturals, Sequences, SequencesExt

HashLeaf(d)        == <<"leaf", d>>
HashChildren(l, r) == <<"node", l, r>>

\* largestPowerOfTwoLessThan, for n > 1 (its 32-bit shifts are exact below 2^30).
SplitSize(n) ==
  LET Grow[k \in 1 .. n] == IF 2 * k < n THEN Grow[2 * k] ELSE k
  IN  Grow[1]

\* merkleTreeHash of the n leaves D[lo + 1] .. D[lo + n], a slice of the leaves.
Subtree(D) ==
  LET H[n \in 0 .. Len(D)] ==
        [lo \in 0 .. Len(D) - n |->
           IF n = 0 THEN <<"empty">>
           ELSE IF n = 1 THEN HashLeaf(D[lo + 1])
           ELSE LET k == SplitSize(n) IN HashChildren(H[k][lo], H[n - k][lo + k])]
  IN  H

Root(D) == Subtree(D)[Len(D)][0]

-----------------------------------------------------------------------------
(* Inclusion *)

Step(sibling, position) == [sibling |-> sibling, position |-> position]

\* auditPath: from the leaf up, each sibling with its side.
AuditPath(m, D) ==
  LET P[n \in 0 .. Len(D)] ==
        [lo \in 0 .. Len(D) - n |->
           IF n <= 1 THEN <<>>
           ELSE LET k == SplitSize(n)
                IN  IF m < lo + k
                    THEN Append(P[k][lo], Step(Subtree(D)[n - k][lo + k], "right"))
                    ELSE Append(P[n - k][lo + k], Step(Subtree(D)[k][lo], "left"))]
  IN  P[Len(D)][0]

Climb(current, step) ==
  IF step.position = "left" THEN HashChildren(step.sibling, current)
                            ELSE HashChildren(current, step.sibling)

\* verifyInclusionHex.
VerifyInclusionPath(leafHash, proof, root) == FoldLeft(Climb, leafHash, proof) = root

-----------------------------------------------------------------------------
(* Consistency *)

\* subproof for the m leaves of the old tree among the n leaves from D[first - m + 1]
\* on: nothing is emitted for the subtree that is the whole old tree, whose root the
\* verifier has.  The code's b is m = first: a step to the right takes leaves off m,
\* moves the slice by as many and clears b, and nothing else does.
SubProof(first, D) ==
  LET S[n \in 1 .. Len(D)] ==
        [m \in 1 .. first |->
           LET lo == first - m
               k  == SplitSize(n)
           IN  IF n <= m THEN IF m = first THEN <<>> ELSE <<Subtree(D)[n][lo]>>
               ELSE IF m <= k THEN Append(S[k][m], Subtree(D)[n - k][lo + k])
                              ELSE Append(S[n - k][m - k], Subtree(D)[k][lo])]
  IN  S

\* consistencyProofHex.
ConsistencyProof(first, D) ==
  IF first \in {0, Len(D)} THEN <<>> ELSE SubProof(first, D)[Len(D)][first]

\* subverify: the old and the new root of a subtree of sizes m and n, rebuilt from
\* the nodes of the proof from the i-th on, and the place of the next node; b is
\* m = first again.  No node is at a place beyond the proof, which stands for the
\* RangeError of nextNode.
Rebuild(first, second, firstRoot, proof) ==
  LET Node(i)  == IF i <= Len(proof) THEN proof[i] ELSE <<"none">>
      After(i) == IF i <= Len(proof) THEN i + 1 ELSE Len(proof) + 2
      V[n \in 1 .. second] ==
        [m \in 1 .. first |-> [i \in 1 .. Len(proof) + 2 |->
           LET k     == SplitSize(n)
               left  == V[k][m][i]
               right == V[n - k][m - k][i]
           IN  IF n <= m
               THEN IF m = first THEN [old |-> firstRoot, new |-> firstRoot, next |-> i]
                                 ELSE [old |-> Node(i), new |-> Node(i), next |-> After(i)]
               ELSE IF m <= k
               THEN [old |-> left.old, new |-> HashChildren(left.new, Node(left.next)),
                     next |-> After(left.next)]
               ELSE [old |-> HashChildren(Node(right.next), right.old),
                     new |-> HashChildren(Node(right.next), right.new),
                     next |-> After(right.next)]]]
  IN  V[second][first][1]

\* Mutant of VerifyConsistency: only the new root is compared.
VerifyConsistencyNewOnly(first, second, firstRoot, secondRoot, proof) ==
  /\ first <= second
  /\ \/ first = 0 /\ proof = <<>>
     \/ first = second /\ first # 0 /\ proof = <<>> /\ firstRoot = secondRoot
     \/ /\ first \in 1 .. second - 1
        /\ LET rebuilt == Rebuild(first, second, firstRoot, proof)
           IN  rebuilt.next = Len(proof) + 1 /\ rebuilt.new = secondRoot

\* verifyConsistencyHex.
VerifyConsistency(first, second, firstRoot, secondRoot, proof) ==
  /\ first <= second
  /\ \/ first = 0 /\ proof = <<>>
     \/ first = second /\ first # 0 /\ proof = <<>> /\ firstRoot = secondRoot
     \/ /\ first \in 1 .. second - 1
        /\ LET rebuilt == Rebuild(first, second, firstRoot, proof)
           IN  rebuilt.next = Len(proof) + 1 /\ rebuilt.old = firstRoot /\ rebuilt.new = secondRoot

-----------------------------------------------------------------------------
(* The padded tree of merkle.ts, which GET /v1/verify and /v1/proof use *)

HashPair(l, r) == <<"pair", l, r>>

\* pad: up to the next power of two with copies of the last leaf.
PaddedSize(n) ==
  LET Grow[size \in 1 .. 2 * n + 1] == IF size < n THEN Grow[2 * size] ELSE size
  IN  Grow[1]

Pad(D) == [i \in 1 .. PaddedSize(Len(D)) |-> IF i <= Len(D) THEN D[i] ELSE D[Len(D)]]

\* buildLevels: each level hashes the pairs of the one below.
Level(D) ==
  LET N[l \in 0 .. PaddedSize(Len(D))] ==
        IF l = 0 THEN Pad(D)
        ELSE LET below == N[l - 1]
             IN  [i \in 1 .. Len(below) \div 2 |-> HashPair(below[2 * i - 1], below[2 * i])]
  IN  N

\* The level at which one node is left.
Height(D) == CHOOSE h \in 0 .. PaddedSize(Len(D)) : Len(Level(D)[h]) = 1

\* computeRoot.
PaddedRoot(D) == IF D = <<>> THEN <<"zeros">> ELSE Level(D)[Height(D)][1]

\* buildProof's idx at each level, for a 0-based index.
IndexAt(D, index) ==
  LET At[l \in 0 .. PaddedSize(Len(D))] == IF l = 0 THEN index ELSE At[l - 1] \div 2
  IN  At

\* Mutant of PaddedProof: the sibling is always the node on the right.
PaddedProofRight(D, index) ==
  [l \in 1 .. Height(D) |->
     LET i == IndexAt(D, index)[l - 1]
     IN  Step(Level(D)[l - 1][IF i % 2 = 1 THEN i ELSE i + 2], "right")]

\* buildProof.
PaddedProof(D, index) ==
  [l \in 1 .. Height(D) |->
     LET i == IndexAt(D, index)[l - 1]
     IN  IF i % 2 = 1 THEN Step(Level(D)[l - 1][i], "left")
                      ELSE Step(Level(D)[l - 1][i + 2], "right")]

\* One step of verifyProof.
ClimbPair(current, step) ==
  IF step.position = "left" THEN HashPair(step.sibling, current)
                            ELSE HashPair(current, step.sibling)

\* verifyProof.
VerifyPaddedProof(leaf, proof, root) == FoldLeft(ClimbPair, leaf, proof) = root
=============================================================================

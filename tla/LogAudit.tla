------------------------------- MODULE LogAudit -------------------------------
(***************************************************************************)
(* An auditor against the server: GET /v1/checkpoint, the consistency and  *)
(* inclusion proofs and GET /v1/proof of one company's log, while records  *)
(* are appended, the tenant is hydrated anew and somebody with access to   *)
(* the database rewrites a record (src/api/checkpoint-routes.ts,           *)
(* inclusion-routes.ts, their dependencies in app.ts,                      *)
(* src/crypto/inclusion.ts, chain.ts, sth.ts).                             *)
(*                                                                         *)
(* How records and heads get into the database is the matter of            *)
(* AttestationLog; here an append is one step, and a hydration installs    *)
(* whatever ServedIsCovered of that module allows.                         *)
(***************************************************************************)
EXTENDS MerkleTree, FiniteSets

CONSTANTS
  Agents,
  Author,           \* the agent of the k-th record appended
  MaxLegacy,        \* bound: records older than tree heads
  MaxRecords,       \* bound: records
  MaxSaved          \* bound: heads the auditor keeps

ASSUME ParametersAssumption ==
  /\ MaxRecords \in Nat /\ MaxLegacy \in 0 .. MaxRecords
  /\ MaxSaved \in Nat
  /\ Author \in [1 .. MaxRecords -> Agents]

VARIABLES
  records,          \* table records, in index order
  treeHeads,        \* table signed_tree_heads: tree size -> leaves of its root
  tenantChain,      \* the tenant's chain
  latestHead,       \* its latest tree head
  altered,          \* indices of rows rewritten in the database
  saved,            \* heads the auditor keeps
  query             \* the request it has under way

auditVars ==
  <<records, treeHeads, tenantChain, latestHead, altered, saved, query>>

\* A head is the sequence of leaves it was signed over: what it shows is the root
\* and the size.  No head is the head of no leaves.
NoHead == <<>>
None == [stage |-> "none"]

\* computeRecordHash, over what the record says.
RecordHash(index, payload) == <<"record", index, payload>>

\* computeNextRecord; its index is one less than its place.  The company's signature
\* is left out: nothing the auditor checks here looks at it.
Record(k, payload) ==
  [index |-> k - 1, payload |-> payload, hash |-> RecordHash(k - 1, payload)]

\* chain.currentLeafHashes.
Leaves(log) == [k \in DOMAIN log |-> log[k].hash]

Prefix(s, n) == SubSeq(s, 1, n)

\* Records without heads of their own had one head made over them all.
AuditInit ==
  \E legacy \in 0 .. MaxLegacy :
    /\ records = [k \in 1 .. legacy |-> Record(k, Author[k])]
    /\ treeHeads = [size \in {legacy} \ {0} |-> Leaves(records)]
    /\ tenantChain = records
    /\ latestHead = Leaves(records)
    /\ altered = {}
    /\ saved = {}
    /\ query = None

-----------------------------------------------------------------------------
(* The log *)

\* An append whose index is free in the table: with its head, over the chain in
\* memory, committed and acknowledged.
AppendRecord ==
  /\ Len(tenantChain) = Len(records)
  /\ Len(records) < MaxRecords
  /\ LET k      == Len(tenantChain) + 1
         record == Record(k, Author[k])
         signed == Append(Leaves(tenantChain), record.hash)
     IN  /\ records' = Append(records, record)
         /\ treeHeads' = [size \in DOMAIN treeHeads \cup {k} |->
                            IF size = k THEN signed ELSE treeHeads[size]]
         /\ tenantChain' = Append(tenantChain, record)
         /\ latestHead' = signed
  /\ UNCHANGED <<altered, saved, query>>

\* A hydration installs a chain and a stored head that covers it: those of the
\* table after a restart, older ones after a hydration that was overtaken.
Hydrate ==
  \E n \in 0 .. Len(records) :
    /\ tenantChain' = Prefix(records, n)
    /\ \/ n = 0 /\ latestHead' = NoHead
       \/ \E size \in DOMAIN treeHeads : size >= n /\ latestHead' = treeHeads[size]
    /\ UNCHANGED <<records, treeHeads, altered, saved, query>>

\* Somebody rewrites the payload of a row, and may put its hash right.
Alter(k, payload, rehash) ==
  /\ altered = {}
  /\ payload # records[k].payload
  /\ altered' = {k - 1}
  /\ records' = [records EXCEPT ![k].payload = payload,
                                ![k].hash    = IF rehash THEN RecordHash(k - 1, payload) ELSE @]
  /\ UNCHANGED <<treeHeads, tenantChain, latestHead, saved, query>>

-----------------------------------------------------------------------------
(* The auditor's requests *)

\* GET /v1/checkpoint, and the auditor keeps what it gets.
SaveCheckpoint ==
  /\ latestHead # NoHead
  /\ Cardinality(saved) < MaxSaved
  /\ saved' = saved \cup {latestHead}
  /\ UNCHANGED <<records, treeHeads, tenantChain, latestHead, altered, query>>

\* The auditor has looked at its answer.
Forget ==
  /\ query.stage \in {"inclusion", "consistency"}
  /\ query' = None
  /\ UNCHANGED <<records, treeHeads, tenantChain, latestHead, altered, saved>>

\* A 4xx; the auditor may ask again.
Refuse == query' = None

\* GET /v1/agents/:agentId/attestations/:index/proof, for an agent of the company, up
\* to recordAt: the record must be there and be the agent's.
AskInclusion(agent, index) ==
  /\ query = None
  /\ IF index < Len(tenantChain) /\ tenantChain[index + 1].payload = agent
     THEN query' = [stage |-> "head", index |-> index, record |-> tenantChain[index + 1]]
     ELSE Refuse
  /\ UNCHANGED <<records, treeHeads, tenantChain, latestHead, altered, saved>>

\* latestCheckpoint: it must cover the index.
FindHead ==
  /\ query.stage = "head"
  /\ IF query.index < Len(latestHead)
     THEN query' = [stage |-> "leaves", index |-> query.index, record |-> query.record,
                    sth |-> latestHead]
     ELSE Refuse
  /\ UNCHANGED <<records, treeHeads, tenantChain, latestHead, altered, saved>>

\* Mutant of InclusionReply: the proof is built over all leaves there are.
InclusionReplyOverAll(record, index, leaves, sth) ==
  [stage |-> "inclusion", record |-> record, leafHash |-> HashLeaf(record.hash),
   proof |-> AuditPath(index, leaves), root |-> Root(leaves), sth |-> sth]

\* buildInclusionProof: over exactly the leaves the head commits to.
InclusionReply(record, index, leaves, sth) ==
  [stage |-> "inclusion", record |-> record, leafHash |-> HashLeaf(record.hash),
   proof |-> AuditPath(index, Prefix(leaves, Len(sth))),
   root |-> Root(Prefix(leaves, Len(sth))), sth |-> sth]

\* leafHashes, and buildInclusionProof: the chain may be shorter than the head.
ReplyInclusion ==
  /\ query.stage = "leaves"
  /\ IF Len(tenantChain) >= Len(query.sth)
     THEN query' = InclusionReply(query.record, query.index, Leaves(tenantChain), query.sth)
     ELSE Refuse
  /\ UNCHANGED <<records, treeHeads, tenantChain, latestHead, altered, saved>>

\* GET /v1/checkpoint/consistency between the sizes of two heads the auditor has: the
\* proof over the leaves read in one go.  checkpointAt is asked afterwards and only
\* adds the stored heads, which a careful auditor does not use.
AskConsistency(older, newer) ==
  /\ query = None
  /\ Len(older) <= Len(newer)
  /\ IF Len(newer) <= Len(tenantChain)
     THEN query' = [stage |-> "consistency", older |-> older, newer |-> newer,
                    proof |-> ConsistencyProof(Len(older),
                                               Prefix(Leaves(tenantChain), Len(newer)))]
     ELSE Refuse
  /\ UNCHANGED <<records, treeHeads, tenantChain, latestHead, altered, saved>>

AuditNext ==
  \/ AppendRecord \/ Hydrate
  \/ \E k \in DOMAIN records, payload \in Agents, rehash \in BOOLEAN :
       Alter(k, payload, rehash)
  \/ SaveCheckpoint \/ Forget
  \/ \E agent \in Agents, index \in 0 .. MaxRecords - 1 : AskInclusion(agent, index)
  \/ \E older \in saved \cup {NoHead}, newer \in saved : AskConsistency(older, newer)
  \/ FindHead \/ ReplyInclusion

AuditSpec == AuditInit /\ [][AuditNext]_auditVars

-----------------------------------------------------------------------------
(* What the auditor and the server compute *)

\* Mutant of VerifyInclusionProof: the record's own hash is believed.
VerifyInclusionBelieving(reply) ==
  /\ reply.leafHash = HashLeaf(reply.record.hash)
  /\ VerifyInclusionPath(reply.leafHash, reply.proof, reply.root)
  /\ reply.root = Root(reply.sth)

\* verifyInclusionProof, with the CA key that signed the head.
VerifyInclusionProof(reply) ==
  /\ reply.record.hash = RecordHash(reply.record.index, reply.record.payload)
  /\ reply.leafHash = HashLeaf(reply.record.hash)
  /\ VerifyInclusionPath(reply.leafHash, reply.proof, reply.root)
  /\ reply.root = Root(reply.sth)

\* The auditor's check of a consistency reply against the heads it kept.
Consistent(older, newer, proof) ==
  VerifyConsistency(Len(older), Len(newer), Root(older), Root(newer), proof)

-----------------------------------------------------------------------------
(* Properties *)

\* Whatever is appended or hydrated between the reads of the route, an
\* inclusion proof that is answered verifies, while no row has been altered;
\* so does every consistency proof between heads the auditor was shown.
AnsweredProofsVerify ==
  altered = {} =>
    /\ query.stage = "inclusion" => VerifyInclusionProof(query)
    /\ query.stage = "consistency" => Consistent(query.older, query.newer, query.proof)

\* A record the auditor accepts is the one that stood at its index when the head was
\* signed, whatever has been done to the table since.
AcceptedRecordWasSigned ==
  query.stage = "inclusion" /\ VerifyInclusionProof(query) =>
    /\ query.record.index < Len(query.sth)
    /\ query.sth[query.record.index + 1] = RecordHash(query.record.index, query.record.payload)

\* Proofs near the one that was answered: a node dropped, doubled, moved or replaced
\* by another one, or a root put on either end.
Nearby(proof, older, newer) ==
  LET nodes == {proof[i] : i \in DOMAIN proof} \cup {Root(older), Root(newer)}
  IN  {proof}
        \cup {RemoveAt(proof, i) : i \in DOMAIN proof}
        \cup {InsertAt(proof, i, n) : i \in 1 .. Len(proof) + 1, n \in nodes}
        \cup {ReplaceAt(proof, i, n) : i \in DOMAIN proof, n \in nodes}

\* No reply, nor one near it, makes an auditor accept two heads of which the older
\* does not commit to a prefix of the newer: a rewritten history is noticed.
RewriteIsNoticed ==
  query.stage = "consistency" =>
    \A proof \in Nearby(query.proof, query.older, query.newer) :
      Consistent(query.older, query.newer, proof) => IsPrefix(query.older, query.newer)

\* GET /v1/proof and GET /v1/verify agree: each record's proof climbs to the
\* padded root, and although padding repeats a leaf, no other prefix of the log
\* has that root.
PaddedTreeBindsLog ==
  LET leaves == Leaves(tenantChain)
      root == PaddedRoot(leaves)
  IN /\ \A k \in DOMAIN tenantChain :
          VerifyPaddedProof(tenantChain[k].hash, PaddedProof(leaves, k - 1), root)
     /\ \A n \in 0 .. Len(tenantChain) - 1 : PaddedRoot(Prefix(leaves, n)) # root
=============================================================================

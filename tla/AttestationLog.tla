---------------------------- MODULE AttestationLog ----------------------------
(***************************************************************************)
(* The attestation log of one company: the tables records and              *)
(* signed_tree_heads in Postgres, the in-memory chain every server         *)
(* instance keeps of them, and the append pipeline of POST /v1/attest      *)
(* between the two (src/api/app.ts, src/checkpoint/log.ts,                 *)
(* src/crypto/chain.ts, src/db/store.ts).                                  *)
(*                                                                         *)
(* Companies never share a row, a chain or a queue, so one company stands  *)
(* for all.  A record is the attest request it came from: its hash covers  *)
(* its index, timestamp and payload.  Positions count from 1, so           *)
(* record.index is position - 1.  A signed tree head is the sequence of    *)
(* leaves its root commits to; <<>> is "no tree head".                     *)
(*                                                                         *)
(* Every await of the code is a point where other requests, other          *)
(* instances, a failure or a crash may come in between, so the actions are *)
(* the stretches of code between two awaits.                               *)
(***************************************************************************)
EXTENDS Naturals, Sequences, FiniteSets

CONSTANTS
  Instances,       \* server processes over one database (two in a rolling deploy)
  Requests,        \* POST /v1/attest requests
  Chains,          \* AttestationChain objects, recycled once unreachable
  OldRecords,      \* records written before checkpoints existed
  LegacyLog,       \* the rows of those records, if it is
  Registered,      \* may the company be in the database at the start: a set of answers
  Faults,          \* what may go wrong: a subset of FaultKinds
  NoChain          \* "the tenants map has no entry"

FaultKinds == {"crash", "abort", "ackLoss", "loadError"}
Leaf == Requests \cup OldRecords

ASSUME InputsAssumption ==
  /\ NoChain \notin Chains
  /\ Requests \cap OldRecords = {}
  /\ LegacyLog \in Seq(OldRecords)
  /\ Registered \subseteq BOOLEAN
  /\ Faults \subseteq FaultKinds

VARIABLES
  registered,      \* the company has a row in companies
  rows,            \* records: position -> leaf, primary key (company_id, idx)
  sths,            \* signed_tree_heads: tree size -> head, primary key (company_id, tree_size)
  mode,            \* per instance: "down", "starting" (hydrating) or "serving"
  tenant,          \* per instance: the chain object in the tenants map
  queue,           \* per instance: requests in the keyed append queue, running one first
  chain,           \* per chain object: its records
  head,            \* per chain object: latestSth, <<>> if none
  loading,         \* per chain object: how far the initTenant that made it is
  loader,          \* per chain object: the instance it lives in
  stage,           \* per request: how far it is
  host,            \* per request: the instance that serves it
  object,          \* per request: the chain its handler captured
  leaves,          \* per request: the leaf set captured for its tree head
  published        \* every tree head sent to somebody

database == <<registered, rows, sths>>
memory   == <<mode, tenant, chain, head, loading, loader>>
requests == <<queue, stage, host, object, leaves>>
vars == <<database, memory, requests, published>>

-----------------------------------------------------------------------------
(* The tables                                                              *)

Put(table, key, row) ==
  [k \in DOMAIN table \cup {key} |-> IF k = key THEN row ELSE table[k]]

\* SELECT ... ORDER BY idx: the rows in key order, numbered from 1.
Rank(table, key) == Cardinality({k \in DOMAIN table : k <= key})
NthKey(table, n) == CHOOSE key \in DOMAIN table : Rank(table, key) = n
InKeyOrder(table) == [n \in 1 .. Cardinality(DOMAIN table) |-> table[NthKey(table, n)]]

InTransaction == {"inserted", "signed"}

\* Another open transaction holds this primary key: the INSERT waits for it.
KeyHeld(r, key) ==
  \E q \in Requests \ {r} : stage[q] \in InTransaction /\ Len(leaves[q]) = key

-----------------------------------------------------------------------------
(* Chain objects                                                           *)

Running == {"received", "queued", "begun", "inserted", "signed", "committed"}
Final   == {"acked", "failed", "lost"}
LoadStages == {"records", "sth", "backfill", "install"}

Unreachable(l) ==
  \/ loading[l] = "free"
  \/ /\ loading[l] = "done"
     /\ tenant[loader[l]] # l
     /\ \A r \in Requests : stage[r] \in Running => object[r] # l

Init ==
  /\ registered \in Registered
  /\ rows = IF registered THEN LegacyLog ELSE <<>>
  /\ sths = [size \in {} |-> <<>>]
  /\ mode = [i \in Instances |-> "down"]
  /\ tenant = [i \in Instances |-> NoChain]
  /\ queue = [i \in Instances |-> <<>>]
  /\ chain = [l \in Chains |-> <<>>]
  /\ head = [l \in Chains |-> <<>>]
  /\ loading = [l \in Chains |-> "free"]
  /\ loader \in [Chains -> Instances]
  /\ stage = [r \in Requests |-> "idle"]
  /\ host \in [Requests -> Instances]
  /\ object \in [Requests -> Chains]
  /\ leaves = [r \in Requests |-> <<>>]
  /\ published = {}

-----------------------------------------------------------------------------
(* initTenant and who calls it                                             *)

\* initTenant up to its first read of the log: a new, empty chain object.
BeginLoad(i, l) ==
  /\ Unreachable(l)
  /\ loading' = [loading EXCEPT ![l] = "records"]
  /\ loader' = [loader EXCEPT ![l] = i]
  /\ chain' = [chain EXCEPT ![l] = <<>>]
  /\ head' = [head EXCEPT ![l] = <<>>]

\* A process starts.  A company it lists is hydrated before it serves.
StartKnown(i, l) ==
  /\ mode[i] = "down"
  /\ registered
  /\ mode' = [mode EXCEPT ![i] = "starting"]
  /\ BeginLoad(i, l)
  /\ UNCHANGED <<database, tenant, requests, published>>

StartUnknown(i) ==
  /\ mode[i] = "down"
  /\ ~registered
  /\ mode' = [mode EXCEPT ![i] = "serving"]
  /\ UNCHANGED <<database, tenant, chain, head, loading, loader, requests, published>>

\* POST /v1/companies: the row is visible to everybody before initTenant runs.
CreateCompany(i, l) ==
  /\ mode[i] = "serving"
  /\ ~registered
  /\ registered' = TRUE
  /\ BeginLoad(i, l)
  /\ UNCHANGED <<rows, sths, mode, tenant, requests, published>>

\* Mutant of EnsureTenant: every request hydrates, cached or not.
EnsureTenantAlways(i, l) ==
  /\ mode[i] = "serving"
  /\ registered
  /\ BeginLoad(i, l)
  /\ UNCHANGED <<database, mode, tenant, requests, published>>

\* ensureTenant: nothing cached, the company exists, so hydrate it.  Nothing
\* stops a second request from doing the same before the first is finished.
EnsureTenant(i, l) ==
  /\ mode[i] = "serving"
  /\ tenant[i] = NoChain
  /\ registered
  /\ BeginLoad(i, l)
  /\ UNCHANGED <<database, mode, tenant, requests, published>>

ReadRecords(l) ==
  /\ loading[l] = "records"
  /\ chain' = [chain EXCEPT ![l] = InKeyOrder(rows)]
  /\ loading' = [loading EXCEPT ![l] = "sth"]
  /\ UNCHANGED <<database, mode, tenant, head, loader, requests, published>>

\* getLatestSTH: ORDER BY tree_size DESC LIMIT 1, <<>> when there is none.
IsLatestSth(sth) ==
  \/ DOMAIN sths = {} /\ sth = <<>>
  \/ \E size \in DOMAIN sths :
       sth = sths[size] /\ \A other \in DOMAIN sths : other <= size

\* Mutant of LatestSthRead: the stored head is taken as it is, without a backfill.
LatestSthReadAsIs(l, sth) ==
  /\ head' = [head EXCEPT ![l] = sth]
  /\ loading' = [loading EXCEPT ![l] = "install"]

LatestSthRead(l, sth) ==
  IF Len(chain[l]) > 0 /\ Len(sth) < Len(chain[l])
  THEN /\ head' = [head EXCEPT ![l] = chain[l]]          \* signSTH over the chain
       /\ loading' = [loading EXCEPT ![l] = "backfill"]
  ELSE /\ head' = [head EXCEPT ![l] = sth]
       /\ loading' = [loading EXCEPT ![l] = "install"]

ReadLatestSth(l) ==
  /\ loading[l] = "sth"
  /\ \E sth \in {<<>>} \cup {sths[size] : size \in DOMAIN sths} :
       IsLatestSth(sth) /\ LatestSthRead(l, sth)
  /\ UNCHANGED <<database, mode, tenant, chain, loader, requests, published>>

\* insertSTH: ON CONFLICT (company_id, tree_size) DO NOTHING.
InsertBackfill(l) ==
  /\ loading[l] = "backfill"
  /\ sths' = IF Len(head[l]) \in DOMAIN sths
             THEN sths ELSE Put(sths, Len(head[l]), head[l])
  /\ loading' = [loading EXCEPT ![l] = "install"]
  /\ UNCHANGED <<registered, rows, mode, tenant, chain, head, loader, requests, published>>

\* tenants.set: whatever the map held before is overwritten.
InstallTenant(l) ==
  /\ loading[l] = "install"
  /\ tenant' = [tenant EXCEPT ![loader[l]] = l]
  /\ mode' = [mode EXCEPT ![loader[l]] = "serving"]
  /\ loading' = [loading EXCEPT ![l] = "done"]
  /\ UNCHANGED <<database, chain, head, loader, requests, published>>

\* A query of initTenant fails: that request answers 500 (while starting, the
\* process exits instead, which is Crash).
LoadError(l) ==
  /\ "loadError" \in Faults
  /\ loading[l] \in LoadStages
  /\ mode[loader[l]] = "serving"
  /\ loading' = [loading EXCEPT ![l] = "free"]
  /\ UNCHANGED <<database, mode, tenant, chain, head, loader, requests, published>>

-----------------------------------------------------------------------------
(* POST /v1/attest                                                         *)

\* The handler reads the tenants map before its first await and keeps what it read.
ReceiveAttest(i, r) ==
  /\ mode[i] = "serving"
  /\ registered
  /\ tenant[i] # NoChain
  /\ stage[r] = "idle"
  /\ stage' = [stage EXCEPT ![r] = "received"]
  /\ host' = [host EXCEPT ![r] = i]
  /\ object' = [object EXCEPT ![r] = tenant[i]]
  /\ UNCHANGED <<database, memory, queue, leaves, published>>

\* The company was created elsewhere and never hydrated here: tenants.get gives
\* undefined, and using it throws.
AttestWithoutTenant(i, r) ==
  /\ mode[i] = "serving"
  /\ registered
  /\ tenant[i] = NoChain
  /\ stage[r] = "idle"
  /\ stage' = [stage EXCEPT ![r] = "failed"]
  /\ UNCHANGED <<database, memory, queue, host, object, leaves, published>>

\* The body is parsed; the append joins the tail of its company's queue.
Enqueue(r) ==
  /\ stage[r] = "received"
  /\ stage' = [stage EXCEPT ![r] = "queued"]
  /\ queue' = [queue EXCEPT ![host[r]] = Append(@, r)]
  /\ UNCHANGED <<database, memory, host, object, leaves, published>>

\* The queue runs its first call only.
MyTurn(r) == queue[host[r]] # <<>> /\ Head(queue[host[r]]) = r

\* Mutant of Settle: a rejected call stays the queue's tail and is never passed.
SettleStuck(r, outcome) ==
  /\ stage' = [stage EXCEPT ![r] = outcome]
  /\ queue' = IF outcome = "failed" THEN queue ELSE [queue EXCEPT ![host[r]] = Tail(@)]
  /\ UNCHANGED <<host, object, leaves>>

\* The call settles, with a result or an error, and the next one may run.
Settle(r, outcome) ==
  /\ stage' = [stage EXCEPT ![r] = outcome]
  /\ queue' = [queue EXCEPT ![host[r]] = Tail(@)]
  /\ UNCHANGED <<host, object, leaves>>

\* Mutant of ComputeRecord: the chain and its head move on before the transaction.
ComputeRecordEagerly(r) ==
  LET l == object[r] IN
  /\ stage[r] = "queued"
  /\ MyTurn(r)
  /\ leaves' = [leaves EXCEPT ![r] = Append(chain[l], r)]
  /\ chain' = [chain EXCEPT ![l] = Append(@, r)]
  /\ head' = [head EXCEPT ![l] = Append(chain[l], r)]
  /\ stage' = [stage EXCEPT ![r] = "begun"]
  /\ UNCHANGED <<database, mode, tenant, loading, loader, queue, host, object, published>>

\* appendWithCheckpoint: computeNextRecord and the leaf set, from the captured chain.
ComputeRecord(r) ==
  /\ stage[r] = "queued"
  /\ MyTurn(r)
  /\ leaves' = [leaves EXCEPT ![r] = Append(chain[object[r]], r)]
  /\ stage' = [stage EXCEPT ![r] = "begun"]
  /\ UNCHANGED <<database, memory, queue, host, object, published>>

\* BEGIN; INSERT INTO records.  A committed row with the same key refuses it.
InsertRecord(r) ==
  /\ stage[r] = "begun"
  /\ ~KeyHeld(r, Len(leaves[r]))
  /\ IF Len(leaves[r]) \in DOMAIN rows
     THEN Settle(r, "failed")
     ELSE /\ stage' = [stage EXCEPT ![r] = "inserted"]
          /\ UNCHANGED <<queue, host, object, leaves>>
  /\ UNCHANGED <<database, memory, published>>

\* Mutant of InsertSth: the call goes on without waiting for COMMIT.
InsertSthUnawaited(r) ==
  /\ stage[r] = "inserted"
  /\ stage' = [stage EXCEPT ![r] = "committed"]
  /\ UNCHANGED <<database, memory, queue, host, object, leaves, published>>

\* buildSth() inside the transaction; INSERT INTO signed_tree_heads.
InsertSth(r) ==
  /\ stage[r] = "inserted"
  /\ IF Len(leaves[r]) \in DOMAIN sths
     THEN Settle(r, "failed")
     ELSE /\ stage' = [stage EXCEPT ![r] = "signed"]
          /\ UNCHANGED <<queue, host, object, leaves>>
  /\ UNCHANGED <<database, memory, published>>

\* COMMIT: the record and its tree head become visible together.
Commit(r) ==
  /\ stage[r] = "signed"
  /\ rows' = Put(rows, Len(leaves[r]), r)
  /\ sths' = Put(sths, Len(leaves[r]), leaves[r])
  /\ stage' = [stage EXCEPT ![r] = "committed"]
  /\ UNCHANGED <<registered, memory, queue, host, object, leaves, published>>

\* COMMIT is acknowledged: push and setLatestSth on the captured chain, then the
\* broadcast of the record with its checkpoint and the 201.  push() throws
\* unless the record is the chain's next one.
Acknowledge(r) ==
  LET l == object[r] IN
  /\ stage[r] = "committed"
  /\ IF Len(leaves[r]) = Len(chain[l]) + 1
     THEN /\ chain' = [chain EXCEPT ![l] = Append(@, r)]
          /\ head' = [head EXCEPT ![l] = leaves[r]]
          /\ published' = published \cup {leaves[r]}
          /\ Settle(r, "acked")
     ELSE /\ UNCHANGED <<chain, head, published>>
          /\ Settle(r, "failed")
  /\ UNCHANGED <<database, mode, tenant, loading, loader>>

\* Signing or a statement of the transaction fails: ROLLBACK, and the call throws.
AbortAppend(r) ==
  /\ "abort" \in Faults
  /\ stage[r] \in {"begun", "inserted", "signed"}
  /\ Settle(r, "failed")
  /\ UNCHANGED <<database, memory, published>>

\* The connection is lost after the server committed: the call throws all the same.
LoseAck(r) ==
  /\ "ackLoss" \in Faults
  /\ stage[r] = "committed"
  /\ Settle(r, "failed")
  /\ UNCHANGED <<database, memory, published>>

-----------------------------------------------------------------------------
(* Auditors and crashes                                                    *)

\* GET /v1/checkpoint: the latest tree head of the chain in the tenants map.
GetCheckpoint(i) ==
  /\ mode[i] = "serving"
  /\ tenant[i] # NoChain
  /\ head[tenant[i]] # <<>>
  /\ published' = published \cup {head[tenant[i]]}
  /\ UNCHANGED <<database, memory, requests>>

\* The process dies: memory is gone, Postgres rolls its open transactions back.
Crash(i) ==
  /\ "crash" \in Faults
  /\ mode[i] # "down"
  /\ mode' = [mode EXCEPT ![i] = "down"]
  /\ tenant' = [tenant EXCEPT ![i] = NoChain]
  /\ queue' = [queue EXCEPT ![i] = <<>>]
  /\ loading' = [l \in Chains |-> IF loader[l] = i THEN "free" ELSE loading[l]]
  /\ stage' = [r \in Requests |->
                 IF host[r] = i /\ stage[r] \in Running THEN "lost" ELSE stage[r]]
  /\ UNCHANGED <<database, chain, head, loader, host, object, leaves, published>>

LoadStep(l) ==
  \/ ReadRecords(l) \/ ReadLatestSth(l) \/ InsertBackfill(l) \/ InstallTenant(l)
  \/ LoadError(l)

AttestStep(r) ==
  \/ Enqueue(r) \/ ComputeRecord(r) \/ InsertRecord(r) \/ InsertSth(r)
  \/ Commit(r) \/ Acknowledge(r) \/ AbortAppend(r) \/ LoseAck(r)

InstanceStep(i) ==
  \/ StartUnknown(i) \/ GetCheckpoint(i) \/ Crash(i)
  \/ \E l \in Chains : StartKnown(i, l) \/ CreateCompany(i, l) \/ EnsureTenant(i, l)
  \/ \E r \in Requests : ReceiveAttest(i, r) \/ AttestWithoutTenant(i, r)

Next ==
  \/ \E i \in Instances : InstanceStep(i)
  \/ \E l \in Chains : LoadStep(l)
  \/ \E r \in Requests : AttestStep(r)

Spec == Init /\ [][Next]_vars

\* Node runs every continuation whose promise is settled, and every query
\* settles: the code sets no timeout of its own on the database.
FairSpec ==
  /\ Spec
  /\ \A l \in Chains : WF_vars(LoadStep(l))
  /\ \A r \in Requests : WF_vars(AttestStep(r))

-----------------------------------------------------------------------------
(* Properties                                                              *)

\* A head commits to the first Len(h) rows of the table.
Commits(h, table) == \A k \in 1 .. Len(h) : k \in DOMAIN table /\ table[k] = h[k]

TypeOK ==
  /\ registered \in BOOLEAN
  /\ rows \in Seq(Leaf)
  /\ DOMAIN sths \subseteq Nat
  /\ \A size \in DOMAIN sths : sths[size] \in Seq(Leaf)
  /\ mode \in [Instances -> {"down", "starting", "serving"}]
  /\ tenant \in [Instances -> Chains \cup {NoChain}]
  /\ queue \in [Instances -> Seq(Requests)]
  /\ chain \in [Chains -> Seq(Leaf)]
  /\ head \in [Chains -> Seq(Leaf)]
  /\ loading \in [Chains -> LoadStages \cup {"free", "done"}]
  /\ loader \in [Chains -> Instances]
  /\ stage \in [Requests -> {"idle"} \cup Running \cup Final]
  /\ host \in [Requests -> Instances]
  /\ object \in [Requests -> Chains]
  /\ leaves \in [Requests -> Seq(Leaf)]
  /\ published \subseteq Seq(Leaf)

\* No split view: of any two tree heads ever shown to anyone, by any instance,
\* before or after any crash, one commits to a prefix of what the other commits to.
HeadsOnOneLog ==
  \A g, h \in published : Len(g) <= Len(h) => \A k \in 1 .. Len(g) : g[k] = h[k]

\* Nothing is shown that a restart could take back: every head that was shown is
\* stored, and the records it commits to are.
PublishedIsDurable ==
  \A h \in published : Len(h) \in DOMAIN sths /\ sths[Len(h)] = h /\ Commits(h, rows)

\* "There is never a record without an STH": on disk, every record appended by
\* this code has the tree head of exactly its prefix.
EveryRecordCovered ==
  \A k \in DOMAIN rows :
    rows[k] \in Requests => k \in DOMAIN sths /\ Len(sths[k]) = k /\ Commits(sths[k], rows)

\* In memory too: a chain that can be served has a tree head over all its records.
ServedIsCovered ==
  \A i \in Instances :
    tenant[i] # NoChain =>
      /\ Len(chain[tenant[i]]) <= Len(head[tenant[i]])
      /\ Commits(head[tenant[i]], rows)
      /\ Commits(chain[tenant[i]], rows)

\* A 201 is final: an acknowledged record is on disk under a stored tree head.
AckedIsDurable ==
  \A r \in Requests :
    stage[r] = "acked" =>
      \E k \in DOMAIN rows : rows[k] = r /\ k \in DOMAIN sths /\ sths[k][k] = r

\* One instance, of a company it knew when it started: between appends, the chain
\* that is served is the persisted log (app.ts: "each STH commits to the exact
\* in-memory leaf set that matches the persisted log"), unless the acknowledgement
\* of a COMMIT was lost and a request that has failed is in the log all the same.
MemoryMatchesLog ==
  \A i \in Instances :
    (/\ tenant[i] # NoChain
     /\ \A r \in Requests : stage[r] # "committed"
     /\ \A r \in Requests : stage[r] = "failed" => \A k \in DOMAIN rows : rows[k] # r)
    => chain[tenant[i]] = rows

\* A failed call does not block later calls: every attest request is answered
\* (or its instance dies), whatever the calls queued before it do.
EveryAttestAnswered ==
  \A r \in Requests : stage[r] \in Running ~> stage[r] \in Final

\* The database and the heads shown implement the abstract log.
Abstract == INSTANCE AppendOnlyLog WITH log <- rows, heads <- published
AbstractLog == Abstract!Spec
=============================================================================

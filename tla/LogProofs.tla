------------------------------- MODULE LogProofs ------------------------------
(***************************************************************************)
(* Proofs about AttestationLog, for any number of instances, requests and  *)
(* chain objects, any legacy log and any set of faults; and about the      *)
(* trees of MerkleTree, for logs of any length, and what LogAudit says an  *)
(* auditor can rely on.                                                    *)
(*                                                                         *)
(* The log.  Memory is never ahead of the records table: a chain, a head   *)
(* and the leaf set of a running append all commit to rows that are there  *)
(* (LogSound).  An append inside its transaction therefore writes the      *)
(* position right behind the last row, and the primary key leaves room for *)
(* one such transaction at a time (OneWriter), so its COMMIT extends the   *)
(* table by one and its tree head is the new table.  A head reaches the    *)
(* outside only after it is stored (HeadsStored).                          *)
(*                                                                         *)
(* That memory is not behind the table either holds of a single instance   *)
(* only: it has one chain object, whose queue lets one append at a time    *)
(* through to the table (OneChain, InStep).                                *)
(*                                                                         *)
(* The trees.  A recursive function is reached through the equation of its *)
(* step, which holds because a function that satisfies it can be built     *)
(* size by size; what it computes then follows by going from each size to  *)
(* the next (Counting).  Two trees of a size with one root have the same   *)
(* leaves (RootBinds), and a proof that verifies rebuilds two roots out of *)
(* nodes that both trees must have (ConsistencyBinds).                     *)
(*                                                                         *)
(* The auditor.  Rows, chains and heads carry their places (LogsShaped),   *)
(* replies are built over as many leaves as their head has (QueryShaped),  *)
(* and until a row is altered there is one log, of which everything is a   *)
(* prefix (LogsOriginal, QueryOriginal).                                   *)
(***************************************************************************)
EXTENDS AttestationLog, LogAudit, SequenceTheorems, FiniteSetTheorems, WellFoundedInduction,
        TLAPS

AtInsert == {"begun", "inserted", "signed"}

\* Stored and remembered heads commit to rows of the table.
LogSound ==
  /\ \A size \in DOMAIN sths : size > 0 /\ Len(sths[size]) = size /\ Commits(sths[size], rows)
  /\ \A l \in Chains : Commits(chain[l], rows) /\ Commits(head[l], rows)

Covered == \A k \in DOMAIN rows : rows[k] \in Requests => k \in DOMAIN sths

\* The leaf set of a running append is a prefix of the table and its own record.
AppendsSound ==
  \A r \in Requests :
    /\ stage[r] \in AtInsert \cup {"committed"} =>
         /\ Len(leaves[r]) > 0
         /\ leaves[r][Len(leaves[r])] = r
         /\ \A k \in 1 .. Len(leaves[r]) - 1 : k \in DOMAIN rows /\ rows[k] = leaves[r][k]
    /\ stage[r] = "committed" =>
         /\ Len(leaves[r]) \in DOMAIN sths
         /\ Commits(leaves[r], rows)

OneWriter ==
  /\ \A r \in Requests : stage[r] \in InTransaction => Len(leaves[r]) = Len(rows) + 1
  /\ \A q, r \in Requests : stage[q] \in InTransaction /\ stage[r] \in InTransaction => q = r

\* Only the first call of an instance's queue is at work.
RunsFirst == \A r \in Requests : stage[r] \in AtInsert \cup {"committed"} => MyTurn(r)

\* A chain object in the tenants map belongs to that instance and is complete.
TenantsLoaded ==
  \A i \in Instances :
    tenant[i] # NoChain => loading[tenant[i]] = "done" /\ loader[tenant[i]] = i

HeadsStored ==
  \A l \in Chains :
    /\ loading[l] \in {"install", "done"} /\ head[l] # <<>> => Len(head[l]) \in DOMAIN sths
    /\ loading[l] \in {"backfill", "install", "done"} => Len(chain[l]) <= Len(head[l])
    /\ loading[l] = "backfill" => head[l] # <<>>

Shown == \A h \in published : Len(h) \in DOMAIN sths /\ Commits(h, rows)

AckedStored ==
  \A r \in Requests : stage[r] = "acked" => \E k \in DOMAIN rows : rows[k] = r /\ k \in DOMAIN sths

IInv ==
  /\ TypeOK
  /\ LogSound
  /\ Covered
  /\ AppendsSound
  /\ OneWriter
  /\ RunsFirst
  /\ TenantsLoaded
  /\ HeadsStored
  /\ Shown
  /\ AckedStored

-----------------------------------------------------------------------------
(* Sequences                                                               *)

\* Inserting the row behind the last one extends the table by one record.
LEMMA PutAppends ==
  ASSUME NEW S, NEW t \in Seq(S), NEW e \in S
  PROVE  /\ Put(t, Len(t) + 1, e) = Append(t, e)
         /\ Append(t, e) \in Seq(S)
         /\ Len(Append(t, e)) = Len(t) + 1
<1>1. DOMAIN t \cup {Len(t) + 1} = 1 .. Len(t) + 1
  BY LenProperties
<1>2. /\ Append(t, e) \in Seq(S)
      /\ Len(Append(t, e)) = Len(t) + 1
      /\ \A k \in 1 .. Len(t) + 1 : Append(t, e)[k] = IF k = Len(t) + 1 THEN e ELSE t[k]
  BY AppendProperties
<1>3. Append(t, e) = [k \in 1 .. Len(t) + 1 |-> Append(t, e)[k]]
  BY <1>2, LenProperties
<1>4. Put(t, Len(t) + 1, e) = [k \in 1 .. Len(t) + 1 |-> IF k = Len(t) + 1 THEN e ELSE t[k]]
  BY <1>1 DEF Put
<1>5. QED
  BY <1>2, <1>3, <1>4

\* A table without holes is read back as it is.
LEMMA KeyOrder ==
  ASSUME NEW S, NEW t \in Seq(S)
  PROVE  InKeyOrder(t) = t
<1>1. Len(t) \in Nat /\ DOMAIN t = 1 .. Len(t) /\ t = [k \in 1 .. Len(t) |-> t[k]]
  BY LenProperties
<1>2. Cardinality(DOMAIN t) = Len(t)
  <2>1. Cardinality(1 .. Len(t)) = Len(t)
    BY <1>1, FS_Interval
  <2>2. QED
    BY <1>1, <2>1
<1>3. ASSUME NEW k \in 1 .. Len(t) PROVE Rank(t, k) = k
  <2>1. {j \in DOMAIN t : j <= k} = 1 .. k
    BY <1>1
  <2>2. Cardinality(1 .. k) = k
    <3>1. k \in Int /\ 1 <= k
      BY <1>1
    <3>2. QED
      BY <3>1, FS_Interval
  <2>3. QED
    BY <2>1, <2>2 DEF Rank
<1>4. ASSUME NEW n \in 1 .. Len(t) PROVE NthKey(t, n) = n
  <2>1. n \in DOMAIN t /\ Rank(t, n) = n
    BY <1>1, <1>3
  <2>2. \A k \in DOMAIN t : Rank(t, k) = n => k = n
    BY <1>1, <1>3
  <2>3. QED
    BY <2>1, <2>2 DEF NthKey
<1>5. InKeyOrder(t) = [n \in 1 .. Len(t) |-> t[n]]
  BY <1>2, <1>4 DEF InKeyOrder
<1>6. QED
  BY <1>1, <1>5

\* What committed to the table still does when a record is appended to it.
LEMMA CommitsGrow ==
  ASSUME NEW t \in Seq(Leaf), NEW e \in Leaf, NEW h \in Seq(Leaf), Commits(h, t)
  PROVE  Commits(h, Append(t, e))
BY AppendProperties, LenProperties DEF Commits

\* Two heads of one size over one table are equal.
LEMMA OneHeadPerSize ==
  ASSUME NEW t, NEW g \in Seq(Leaf), NEW h \in Seq(Leaf),
         Len(g) = Len(h), Commits(g, t), Commits(h, t)
  PROVE  g = h
BY SeqEqual DEF Commits

-----------------------------------------------------------------------------
(* The inductive invariant                                                 *)

\* The invariant at first: empty tables, or a company that is registered.
LEMMA InitInvariant == Init => IInv
<1> SUFFICES ASSUME Init PROVE IInv
  OBVIOUS
<1>0. LegacyLog \in Seq(OldRecords) /\ \A k \in DOMAIN LegacyLog : LegacyLog[k] \in OldRecords
  BY InputsAssumption, ElementOfSeq, LenProperties
<1>1. rows \in Seq(Leaf)
  BY <1>0, InputsAssumption, SeqMonotonic, EmptySeq DEF Init, Leaf
<1>2. TypeOK
  BY <1>1, InputsAssumption DEF Init, TypeOK, LoadStages
<1>3. LogSound /\ AppendsSound /\ OneWriter /\ RunsFirst /\ TenantsLoaded
   /\ HeadsStored
  BY DEF Init, LogSound, AppendsSound, OneWriter, RunsFirst, TenantsLoaded, HeadsStored, Commits,
         AtInsert, InTransaction
<1>4. Covered /\ Shown /\ AckedStored
  <2>1. \A k \in DOMAIN rows : rows[k] \notin Requests
    BY <1>0, InputsAssumption DEF Init
  <2>2. QED
    BY <2>1 DEF Init, Covered, Shown, AckedStored
<1>5. QED
  BY <1>2, <1>3, <1>4 DEF IInv

\* A new chain object is empty, and is in no tenants map.
LEMMA BeginLoadStep ==
  ASSUME IInv, NEW i \in Instances, NEW l \in Chains, BeginLoad(i, l),
         registered' \in BOOLEAN, mode' \in [Instances -> {"down", "starting", "serving"}],
         UNCHANGED <<rows, sths, tenant, requests, published>>
  PROVE  IInv'
<1> USE DEF IInv, requests
<1>1. TypeOK'
  BY DEF TypeOK, BeginLoad, LoadStages
<1>2. LogSound' /\ HeadsStored'
  BY DEF TypeOK, BeginLoad, LogSound, HeadsStored, Commits
<1>3. TenantsLoaded'
  BY InputsAssumption DEF TypeOK, BeginLoad, TenantsLoaded, Unreachable
<1>4. Covered' /\ AppendsSound' /\ OneWriter' /\ RunsFirst' /\ Shown' /\ AckedStored'
  BY DEF Covered, AppendsSound, OneWriter, RunsFirst, MyTurn, Shown, AckedStored, Commits
<1>5. QED
  BY <1>1, <1>2, <1>3, <1>4

\* Every await of a hydration keeps the invariant.
LEMMA LoadStepInvariant ==
  ASSUME IInv, NEW l \in Chains, LoadStep(l)
  PROVE  IInv'
<1> USE DEF IInv, requests
<1>1. CASE ReadRecords(l)
  <2>1. chain' = [chain EXCEPT ![l] = rows]
    BY <1>1, KeyOrder DEF ReadRecords, TypeOK
  <2>2. TypeOK' /\ LogSound' /\ HeadsStored' /\ TenantsLoaded'
    BY <1>1, <2>1, LenProperties
    DEF ReadRecords, database, TypeOK, LoadStages, LogSound, HeadsStored, TenantsLoaded, Commits
  <2>3. Covered' /\ AppendsSound' /\ OneWriter' /\ RunsFirst' /\ Shown' /\ AckedStored'
    BY <1>1 DEF ReadRecords, database, Covered, AppendsSound, OneWriter, RunsFirst, MyTurn, Shown, AckedStored, Commits
  <2>4. QED
    BY <2>2, <2>3
<1>2. CASE ReadLatestSth(l)
  <2>1. PICK sth \in {<<>>} \cup {sths[size] : size \in DOMAIN sths} :
           IsLatestSth(sth) /\ LatestSthRead(l, sth)
    BY <1>2 DEF ReadLatestSth
  <2>2. sth \in Seq(Leaf) /\ Commits(sth, rows) /\ (sth # <<>> => Len(sth) \in DOMAIN sths)
    <3>1. CASE sth = <<>>
      BY <3>1, EmptySeq DEF Commits
    <3>2. CASE \E size \in DOMAIN sths : sth = sths[size]
      BY <3>2 DEF TypeOK, LogSound
    <3>3. QED
      BY <2>1, <3>1, <3>2
  <2>3. UNCHANGED <<database, mode, tenant, chain, loader, queue, stage, host, object, leaves,
                    published>>
    BY <1>2 DEF ReadLatestSth
  <2>4. CASE Len(chain[l]) > 0 /\ Len(sth) < Len(chain[l])
    <3>1. /\ head' = [head EXCEPT ![l] = chain[l]]
          /\ loading' = [loading EXCEPT ![l] = "backfill"]
      BY <2>1, <2>4 DEF LatestSthRead
    <3>2. TypeOK'
      BY <1>2, <2>3, <2>4, <3>1 DEF database, TypeOK, LoadStages
    <3>3. LogSound' /\ HeadsStored' /\ TenantsLoaded'
      BY <1>2, <2>3, <2>4, <3>1
      DEF ReadLatestSth, database, TypeOK, LogSound, HeadsStored, TenantsLoaded, Commits
    <3>4. QED
      BY <2>3, <3>2, <3>3 DEF database, Covered, AppendsSound, OneWriter, RunsFirst, MyTurn, Shown, AckedStored, Commits
  <2>5. CASE ~(Len(chain[l]) > 0 /\ Len(sth) < Len(chain[l]))
    <3>1. /\ head' = [head EXCEPT ![l] = sth]
          /\ loading' = [loading EXCEPT ![l] = "install"]
      BY <2>1, <2>5 DEF LatestSthRead
    <3>2. Len(chain[l]) <= Len(sth)
      BY <2>2, <2>5, LenProperties DEF TypeOK
    <3>3. TypeOK'
      BY <1>2, <2>2, <2>3, <3>1, <3>2 DEF database, TypeOK, LoadStages
    <3>4. LogSound' /\ HeadsStored' /\ TenantsLoaded'
      BY <1>2, <2>2, <2>3, <3>1, <3>2
      DEF ReadLatestSth, database, TypeOK, LogSound, HeadsStored, TenantsLoaded, Commits
    <3>5. QED
      BY <2>3, <3>3, <3>4 DEF database, Covered, AppendsSound, OneWriter, RunsFirst, MyTurn, Shown, AckedStored, Commits
  <2>6. QED
    BY <2>4, <2>5
<1>3. CASE InsertBackfill(l)
  <2>1. head[l] \in Seq(Leaf) /\ Len(head[l]) > 0 /\ Commits(head[l], rows)
    BY <1>3, EmptySeq DEF InsertBackfill, TypeOK, HeadsStored, LogSound
  <2>2. \/ sths' = sths /\ Len(head[l]) \in DOMAIN sths
        \/ sths' = Put(sths, Len(head[l]), head[l])
    BY <1>3 DEF InsertBackfill
  <2>3. /\ DOMAIN sths' = DOMAIN sths \cup {Len(head[l])}
        /\ \A size \in DOMAIN sths' :
             \/ size = Len(head[l]) /\ sths'[size] = head[l]
             \/ size \in DOMAIN sths /\ sths'[size] = sths[size]
    BY <2>2 DEF Put
  <2>4. TypeOK'
    BY <1>3, <2>1, <2>3 DEF InsertBackfill, TypeOK, LoadStages
  <2>5. LogSound'
    BY <1>3, <2>1, <2>3 DEF InsertBackfill, LogSound, Commits
  <2>6. HeadsStored' /\ TenantsLoaded'
    BY <1>3, <2>1, <2>3 DEF InsertBackfill, TypeOK, HeadsStored, TenantsLoaded
  <2>7. Covered' /\ AppendsSound' /\ OneWriter' /\ RunsFirst' /\ Shown' /\ AckedStored'
    BY <1>3, <2>3
    DEF InsertBackfill, Covered, AppendsSound, OneWriter, RunsFirst, MyTurn, Shown, AckedStored, Commits
  <2>8. QED
    BY <2>4, <2>5, <2>6, <2>7
<1>4. CASE InstallTenant(l)
  <2>1. UNCHANGED <<database, chain, head, loader, queue, stage, host, object, leaves, published>>
    BY <1>4 DEF InstallTenant
  <2>2. TypeOK'
    BY <1>4, <2>1 DEF InstallTenant, database, TypeOK, LoadStages
  <2>3. TenantsLoaded'
    BY <1>4, <2>1, InputsAssumption DEF InstallTenant, TypeOK, TenantsLoaded
  <2>4. HeadsStored'
    BY <1>4, <2>1 DEF InstallTenant, database, TypeOK, HeadsStored
  <2>5. LogSound' /\ Covered' /\ AppendsSound' /\ OneWriter' /\ RunsFirst' /\ Shown' /\ AckedStored'
    BY <2>1 DEF database, LogSound, Covered, AppendsSound, OneWriter, RunsFirst, MyTurn, Shown, AckedStored, Commits
  <2>6. QED
    BY <2>2, <2>3, <2>4, <2>5
<1>5. CASE LoadError(l)
  <2>1. UNCHANGED <<database, chain, head, loader, queue, stage, host, object, leaves, published>>
    BY <1>5 DEF LoadError
  <2>2. TypeOK'
    BY <1>5, <2>1 DEF LoadError, database, TypeOK, LoadStages
  <2>3. TenantsLoaded'
    BY <1>5, <2>1, InputsAssumption DEF LoadError, TypeOK, TenantsLoaded, LoadStages
  <2>4. HeadsStored'
    BY <1>5, <2>1 DEF LoadError, database, TypeOK, HeadsStored
  <2>5. LogSound' /\ Covered' /\ AppendsSound' /\ OneWriter' /\ RunsFirst' /\ Shown' /\ AckedStored'
    BY <2>1 DEF database, LogSound, Covered, AppendsSound, OneWriter, RunsFirst, MyTurn, Shown, AckedStored, Commits
  <2>6. QED
    BY <2>2, <2>3, <2>4, <2>5
<1>6. QED
  BY <1>1, <1>2, <1>3, <1>4, <1>5 DEF LoadStep

\* The append of r ends: r leaves the queue and nothing else is touched.
LEMMA SettleStep ==
  ASSUME IInv, NEW r \in Requests, NEW outcome \in {"acked", "failed"},
         stage[r] \in AtInsert \cup {"committed"}, Settle(r, outcome)
  PROVE  /\ stage' \in [Requests -> {"idle"} \cup Running \cup Final]
         /\ queue' \in [Instances -> Seq(Requests)]
         /\ RunsFirst'
         /\ \A q \in Requests \ {r} : stage'[q] = stage[q]
         /\ stage'[r] = outcome
<1> USE DEF IInv
<1>1. queue[host[r]] \in Seq(Requests) /\ queue[host[r]] # <<>> /\ host[r] \in Instances
  BY DEF TypeOK, RunsFirst, MyTurn
<1>2. Tail(queue[host[r]]) \in Seq(Requests)
  BY <1>1, HeadTailProperties
<1>3. queue' \in [Instances -> Seq(Requests)]
  BY <1>1, <1>2 DEF Settle, TypeOK
<1>4. stage' = [stage EXCEPT ![r] = outcome] /\ stage \in [Requests -> {"idle"} \cup Running \cup Final]
  BY DEF Settle, TypeOK
<1>5. stage' \in [Requests -> {"idle"} \cup Running \cup Final]
  BY <1>4 DEF Running, Final
<1>6. ASSUME NEW q \in Requests, stage'[q] \in AtInsert \cup {"committed"} PROVE MyTurn(q)'
  <2>1. q # r /\ stage[q] = stage'[q]
    BY <1>4, <1>6 DEF AtInsert
  <2>2. MyTurn(q) /\ MyTurn(r)
    BY <2>1, <1>6 DEF RunsFirst
  <2>3. host[q] # host[r]
    BY <2>1, <2>2 DEF MyTurn
  <2>4. QED
    BY <2>2, <2>3 DEF MyTurn, Settle, TypeOK
<1>7. QED
  BY <1>3, <1>4, <1>5, <1>6 DEF RunsFirst

\* Every await of an attestation keeps the invariant.
LEMMA AttestStepInvariant ==
  ASSUME IInv, NEW r \in Requests, AttestStep(r)
  PROVE  IInv'
<1> USE DEF IInv
<1>0. leaves[r] \in Seq(Leaf) /\ rows \in Seq(Leaf) /\ host[r] \in Instances /\ object[r] \in Chains
      /\ r \in Leaf
  BY DEF TypeOK, Leaf
<1>1. CASE Enqueue(r)
  <2>1. stage' = [stage EXCEPT ![r] = "queued"] /\ queue' = [queue EXCEPT ![host[r]] = Append(@, r)]
        /\ UNCHANGED <<database, memory, host, object, leaves, published>>
    BY <1>1 DEF Enqueue
  <2>2. queue' \in [Instances -> Seq(Requests)]
    BY <1>0, <2>1, AppendProperties DEF TypeOK
  <2>3. TypeOK'
    BY <2>1, <2>2 DEF TypeOK, database, memory, Running
  <2>4. RunsFirst'
    <3>1. SUFFICES ASSUME NEW q \in Requests, stage'[q] \in AtInsert \cup {"committed"}
                   PROVE  MyTurn(q)'
      BY DEF RunsFirst
    <3>2. MyTurn(q)
      BY <2>1, <3>1 DEF RunsFirst, AtInsert, TypeOK
    <3>3. CASE host[q] # host[r]
      BY <2>1, <3>2, <3>3 DEF MyTurn, TypeOK
    <3>4. CASE host[q] = host[r]
      <4>1. queue'[host[q]] = Append(queue[host[q]], r) /\ host'[q] = host[q]
        BY <1>0, <2>1, <3>4 DEF TypeOK
      <4>2. queue[host[q]] \in Seq(Requests) /\ queue[host[q]] # <<>>
        BY <1>0, <3>2, <3>4 DEF MyTurn, TypeOK
      <4>3. Append(queue[host[q]], r) # <<>>
            /\ Head(Append(queue[host[q]], r)) = Head(queue[host[q]])
        BY <4>2, AppendProperties, EmptySeq
      <4>4. QED
        BY <3>2, <4>1, <4>3 DEF MyTurn
    <3>5. QED
      BY <3>3, <3>4
  <2>5. LogSound' /\ Covered' /\ TenantsLoaded' /\ HeadsStored' /\ Shown'
    BY <2>1 DEF database, memory, LogSound, Covered, TenantsLoaded, HeadsStored, Shown, Commits
  <2>6. AppendsSound' /\ OneWriter' /\ AckedStored'
    BY <2>1 DEF database, TypeOK, AppendsSound, OneWriter, AckedStored, AtInsert, InTransaction, Commits
  <2>7. QED
    BY <2>3, <2>4, <2>5, <2>6
<1>2. CASE ComputeRecord(r)
  <2>1. leaves' = [leaves EXCEPT ![r] = Append(chain[object[r]], r)]
        /\ stage' = [stage EXCEPT ![r] = "begun"]
        /\ UNCHANGED <<database, memory, queue, host, object, published>>
    BY <1>2 DEF ComputeRecord
  <2>2. chain[object[r]] \in Seq(Leaf) /\ Commits(chain[object[r]], rows)
    BY <1>0 DEF TypeOK, LogSound
  <2>3. TypeOK'
    BY <1>0, <2>1, <2>2, AppendProperties DEF TypeOK, database, memory, Running
  <2>4. RunsFirst'
    BY <1>2, <2>1 DEF ComputeRecord, RunsFirst, MyTurn, TypeOK
  <2>5. LogSound' /\ Covered' /\ TenantsLoaded' /\ HeadsStored' /\ Shown'
    BY <2>1 DEF database, memory, LogSound, Covered, TenantsLoaded, HeadsStored, Shown, Commits
  <2>6. /\ Len(leaves'[r]) = Len(chain[object[r]]) + 1 /\ leaves'[r][Len(leaves'[r])] = r
        /\ \A k \in 1 .. Len(leaves'[r]) - 1 : k \in DOMAIN rows /\ rows[k] = leaves'[r][k]
    <3> DEFINE c == chain[object[r]]
    <3>1. leaves'[r] = Append(c, r)
      BY <2>1 DEF TypeOK
    <3>2. /\ Len(Append(c, r)) = Len(c) + 1 /\ Append(c, r)[Len(c) + 1] = r
          /\ \A k \in 1 .. Len(c) : Append(c, r)[k] = c[k]
      BY <1>0, <2>2, AppendProperties
    <3>3. Len(c) + 1 - 1 = Len(c)
      BY <2>2, LenProperties
    <3> HIDE DEF c
    <3>4. QED
      BY <2>2, <3>1, <3>2, <3>3 DEF Commits, c
  <2>7. AppendsSound'
    BY <2>1, <2>2, <2>6, LenProperties DEF database, TypeOK, AppendsSound, AtInsert, Commits
  <2>8. OneWriter' /\ AckedStored'
    BY <2>1 DEF database, TypeOK, OneWriter, AckedStored, InTransaction
  <2>9. QED
    BY <2>3, <2>4, <2>5, <2>7, <2>8
<1>3. CASE InsertRecord(r) /\ Len(leaves[r]) \notin DOMAIN rows
  <2>1. stage[r] = "begun" /\ stage' = [stage EXCEPT ![r] = "inserted"] /\ ~KeyHeld(r, Len(leaves[r]))
        /\ UNCHANGED <<database, memory, queue, host, object, leaves, published>>
    BY <1>3 DEF InsertRecord
  <2>2. Len(leaves[r]) = Len(rows) + 1
    <3>1. Len(leaves[r]) \in Nat /\ Len(leaves[r]) > 0 /\ Len(rows) \in Nat /\ DOMAIN rows = 1 .. Len(rows)
      BY <1>0, <2>1, LenProperties DEF AppendsSound, AtInsert
    <3>2. Len(leaves[r]) > 1 => Len(leaves[r]) - 1 \in DOMAIN rows
      BY <2>1, <3>1 DEF AppendsSound, AtInsert
    <3>3. QED
      BY <1>3, <3>1, <3>2
  <2>3. OneWriter'
    <3>1. \A q \in Requests \ {r} : stage[q] \notin InTransaction
      BY <2>1, <2>2 DEF KeyHeld, OneWriter
    <3>2. QED
      BY <2>1, <2>2, <3>1 DEF database, TypeOK, OneWriter
  <2>4. TypeOK'
    BY <2>1 DEF TypeOK, database, memory, Running
  <2>5. LogSound' /\ Covered' /\ TenantsLoaded' /\ HeadsStored' /\ Shown'
    BY <2>1 DEF database, memory, LogSound, Covered, TenantsLoaded, HeadsStored, Shown, Commits
  <2>6. AppendsSound' /\ AckedStored' /\ RunsFirst'
    <3>1. \A q \in Requests : /\ stage'[q] \in AtInsert \cup {"committed"}
                                   => stage[q] \in AtInsert \cup {"committed"}
                              /\ stage'[q] = "committed" => stage[q] = "committed"
      BY <2>1 DEF TypeOK, AtInsert
    <3>2. AppendsSound' /\ RunsFirst'
      BY <2>1, <3>1 DEF database, AppendsSound, RunsFirst, MyTurn, Commits
    <3>3. AckedStored'
      BY <2>1 DEF database, TypeOK, AckedStored
    <3>4. QED
      BY <3>2, <3>3
  <2>7. QED
    BY <2>3, <2>4, <2>5, <2>6
<1>4. CASE InsertSth(r) /\ Len(leaves[r]) \notin DOMAIN sths
  <2>1. stage[r] = "inserted" /\ stage' = [stage EXCEPT ![r] = "signed"]
        /\ UNCHANGED <<database, memory, queue, host, object, leaves, published>>
    BY <1>4 DEF InsertSth
  <2>2. TypeOK'
    BY <2>1 DEF TypeOK, database, memory, Running
  <2>3. LogSound' /\ Covered' /\ TenantsLoaded' /\ HeadsStored' /\ Shown'
    BY <2>1 DEF database, memory, LogSound, Covered, TenantsLoaded, HeadsStored, Shown, Commits
  <2>4. AppendsSound' /\ OneWriter' /\ AckedStored' /\ RunsFirst'
    <3>1. \A q \in Requests : /\ stage'[q] \in AtInsert \cup {"committed"}
                                   => stage[q] \in AtInsert \cup {"committed"}
                              /\ stage'[q] = "committed" => stage[q] = "committed"
      BY <2>1 DEF TypeOK, AtInsert
    <3>2. AppendsSound' /\ RunsFirst'
      BY <2>1, <3>1 DEF database, AppendsSound, RunsFirst, MyTurn, Commits
    <3>3. OneWriter'
      BY <2>1 DEF database, TypeOK, OneWriter, InTransaction
    <3>4. AckedStored'
      BY <2>1 DEF database, TypeOK, AckedStored
    <3>5. QED
      BY <3>2, <3>3, <3>4
  <2>5. QED
    BY <2>2, <2>3, <2>4
<1>5. CASE \/ InsertRecord(r) /\ Len(leaves[r]) \in DOMAIN rows
           \/ InsertSth(r) /\ Len(leaves[r]) \in DOMAIN sths
           \/ AbortAppend(r)
           \/ LoseAck(r)
  <2>1. Settle(r, "failed") /\ stage[r] \in AtInsert \cup {"committed"}
        /\ UNCHANGED <<database, memory, published>>
    BY <1>5 DEF InsertRecord, InsertSth, AbortAppend, LoseAck, AtInsert
  <2>2. /\ stage' \in [Requests -> {"idle"} \cup Running \cup Final]
        /\ queue' \in [Instances -> Seq(Requests)]
        /\ RunsFirst'
        /\ \A q \in Requests \ {r} : stage'[q] = stage[q]
        /\ stage'[r] = "failed"
    BY <2>1, SettleStep
  <2>3. UNCHANGED <<host, object, leaves>>
    BY <2>1 DEF Settle
  <2>4. TypeOK'
    BY <2>1, <2>2, <2>3 DEF TypeOK, database, memory
  <2>5. LogSound' /\ Covered' /\ TenantsLoaded' /\ HeadsStored' /\ Shown'
    BY <2>1 DEF database, memory, LogSound, Covered, TenantsLoaded, HeadsStored, Shown, Commits
  <2>6. AppendsSound' /\ OneWriter' /\ AckedStored'
    <3>1. AppendsSound'
      BY <2>1, <2>2, <2>3 DEF database, AppendsSound, AtInsert, Commits
    <3>2. OneWriter'
      BY <2>1, <2>2, <2>3 DEF database, OneWriter, InTransaction
    <3>3. AckedStored'
      BY <2>1, <2>2 DEF database, AckedStored
    <3>4. QED
      BY <3>1, <3>2, <3>3
  <2>7. QED
    BY <2>2, <2>4, <2>5, <2>6
<1>6. CASE Commit(r)
  <2>1. /\ stage[r] = "signed"
        /\ rows' = Put(rows, Len(leaves[r]), r)
        /\ sths' = Put(sths, Len(leaves[r]), leaves[r])
        /\ stage' = [stage EXCEPT ![r] = "committed"]
        /\ UNCHANGED <<registered, memory, queue, host, object, leaves, published>>
    BY <1>6 DEF Commit
  <2>2. Len(leaves[r]) = Len(rows) + 1 /\ \A q \in Requests \ {r} : stage[q] \notin InTransaction
    BY <2>1 DEF OneWriter, InTransaction
  <2>3. rows' = Append(rows, r) /\ rows' \in Seq(Leaf) /\ Len(rows') = Len(rows) + 1
    <3>1. rows' = Put(rows, Len(rows) + 1, r)
      BY <2>1, <2>2
    <3>2. /\ Put(rows, Len(rows) + 1, r) = Append(rows, r)
          /\ Append(rows, r) \in Seq(Leaf)
          /\ Len(Append(rows, r)) = Len(rows) + 1
      BY <1>0, PutAppends, Zenon
    <3>3. QED
      BY <3>1, <3>2
  <2>4. /\ DOMAIN sths' = DOMAIN sths \cup {Len(leaves[r])}
        /\ \A size \in DOMAIN sths' :
             \/ size = Len(leaves[r]) /\ sths'[size] = leaves[r]
             \/ size \in DOMAIN sths /\ sths'[size] = sths[size]
    BY <2>1 DEF Put
  <2>5. \A h \in Seq(Leaf) : Commits(h, rows) => Commits(h, rows')
    BY <1>0, <2>3, CommitsGrow
  <2>6. DOMAIN rows' = DOMAIN rows \cup {Len(leaves[r])} /\ rows'[Len(leaves[r])] = r
        /\ \A k \in DOMAIN rows : rows'[k] = rows[k]
    BY <1>0, <2>2, <2>3, AppendProperties, LenProperties
  <2>7. Commits(leaves[r], rows')
    <3>1. \A k \in 1 .. Len(leaves[r]) - 1 : k \in DOMAIN rows /\ rows[k] = leaves[r][k]
      BY <2>1 DEF AppendsSound, AtInsert
    <3>2. leaves[r][Len(leaves[r])] = r /\ Len(leaves[r]) \in Nat
      BY <1>0, <2>1, LenProperties DEF AppendsSound, AtInsert
    <3>3. QED
      BY <2>6, <3>1, <3>2 DEF Commits
  <2>8. TypeOK'
    BY <1>0, <2>1, <2>3, <2>4 DEF TypeOK, memory, Running
  <2>9. LogSound'
    <3>1. Len(leaves[r]) > 0
      BY <2>1 DEF AppendsSound, AtInsert
    <3>2. QED
      BY <2>1, <2>4, <2>5, <2>7, <3>1 DEF LogSound, TypeOK, memory
  <2>10. Covered' /\ Shown' /\ HeadsStored' /\ TenantsLoaded'
    BY <2>1, <2>4, <2>5, <2>6 DEF Covered, Shown, HeadsStored, TenantsLoaded, TypeOK, memory
  <2>11. AppendsSound'
    <3>1. ASSUME NEW q \in Requests, stage'[q] \in AtInsert \cup {"committed"}
          PROVE  /\ Len(leaves[q]) > 0 /\ leaves[q][Len(leaves[q])] = q
                 /\ \A k \in 1 .. Len(leaves[q]) - 1 : k \in DOMAIN rows' /\ rows'[k] = leaves[q][k]
      <4>1. stage[q] \in AtInsert \cup {"committed"}
        BY <2>1, <3>1 DEF TypeOK, AtInsert
      <4>2. QED
        BY <2>6, <4>1 DEF AppendsSound
    <3>2. ASSUME NEW q \in Requests, stage'[q] = "committed"
          PROVE  Len(leaves[q]) \in DOMAIN sths' /\ Commits(leaves[q], rows')
      <4>1. CASE q = r
        BY <2>4, <2>7, <4>1
      <4>2. CASE q # r
        <5>1. stage[q] = "committed"
          BY <2>1, <3>2, <4>2 DEF TypeOK
        <5>2. QED
          BY <2>4, <2>5, <5>1 DEF AppendsSound, TypeOK
      <4>3. QED
        BY <4>1, <4>2
    <3>3. QED
      BY <2>1, <3>1, <3>2 DEF AppendsSound
  <2>12. OneWriter'
    BY <2>1, <2>2 DEF OneWriter, InTransaction, TypeOK
  <2>13. RunsFirst'
    BY <2>1 DEF RunsFirst, MyTurn, AtInsert, TypeOK
  <2>14. AckedStored'
    BY <2>1, <2>4, <2>6 DEF AckedStored, TypeOK
  <2>15. QED
    BY <2>8, <2>9, <2>10, <2>11, <2>12, <2>13, <2>14
<1>7. CASE Acknowledge(r) /\ Len(leaves[r]) # Len(chain[object[r]]) + 1
  <2>1. Settle(r, "failed") /\ stage[r] = "committed"
        /\ UNCHANGED <<database, memory, published>>
    BY <1>7 DEF Acknowledge, memory
  <2>2. /\ stage' \in [Requests -> {"idle"} \cup Running \cup Final]
        /\ queue' \in [Instances -> Seq(Requests)]
        /\ RunsFirst'
        /\ \A q \in Requests \ {r} : stage'[q] = stage[q]
        /\ stage'[r] = "failed"
    BY <2>1, SettleStep
  <2>3. UNCHANGED <<host, object, leaves>>
    BY <2>1 DEF Settle
  <2>4. TypeOK'
    BY <2>1, <2>2, <2>3 DEF TypeOK, database, memory
  <2>5. LogSound' /\ Covered' /\ TenantsLoaded' /\ HeadsStored' /\ Shown'
    BY <2>1 DEF database, memory, LogSound, Covered, TenantsLoaded, HeadsStored, Shown, Commits
  <2>6. AppendsSound' /\ OneWriter' /\ AckedStored'
    <3>1. AppendsSound'
      BY <2>1, <2>2, <2>3 DEF database, AppendsSound, AtInsert, Commits
    <3>2. OneWriter'
      BY <2>1, <2>2, <2>3 DEF database, OneWriter, InTransaction
    <3>3. AckedStored'
      BY <2>1, <2>2 DEF database, AckedStored
    <3>4. QED
      BY <3>1, <3>2, <3>3
  <2>7. QED
    BY <2>2, <2>4, <2>5, <2>6
<1>8. CASE Acknowledge(r) /\ Len(leaves[r]) = Len(chain[object[r]]) + 1
  <2> DEFINE l == object[r]
  <2>1. /\ stage[r] = "committed"
        /\ chain' = [chain EXCEPT ![l] = Append(@, r)]
        /\ head' = [head EXCEPT ![l] = leaves[r]]
        /\ published' = published \cup {leaves[r]}
        /\ Settle(r, "acked")
        /\ UNCHANGED <<database, mode, tenant, loading, loader>>
    BY <1>8 DEF Acknowledge
  <2>2. /\ stage' \in [Requests -> {"idle"} \cup Running \cup Final]
        /\ queue' \in [Instances -> Seq(Requests)]
        /\ RunsFirst'
        /\ \A q \in Requests \ {r} : stage'[q] = stage[q]
        /\ stage'[r] = "acked"
    BY <2>1, SettleStep
  <2>3. UNCHANGED <<host, object, leaves>>
    BY <2>1 DEF Settle
  <2>4. Commits(leaves[r], rows) /\ Len(leaves[r]) \in DOMAIN sths /\ Len(leaves[r]) > 0
        /\ leaves[r][Len(leaves[r])] = r
    BY <2>1 DEF AppendsSound
  <2>5. chain[l] \in Seq(Leaf) /\ Commits(chain[l], rows)
    BY <1>0 DEF TypeOK, LogSound
  <2>6. /\ Append(chain[l], r) \in Seq(Leaf)
        /\ Len(Append(chain[l], r)) = Len(leaves[r])
        /\ Commits(Append(chain[l], r), rows)
    BY <1>0, <1>8, <2>4, <2>5, AppendProperties, LenProperties DEF Commits
  <2>7. TypeOK'
    BY <1>0, <2>1, <2>2, <2>3, <2>6 DEF TypeOK, database
  <2>8. LogSound' /\ Covered' /\ TenantsLoaded' /\ Shown'
    <3>1. Covered'
      BY <2>1 DEF database, Covered
    <3>2. TenantsLoaded' /\ Shown'
      BY <2>1, <2>4 DEF database, TenantsLoaded, Shown, Commits
    <3>3. LogSound'
      BY <1>0, <2>1, <2>4, <2>6 DEF database, TypeOK, LogSound, Commits
    <3>4. QED
      BY <3>1, <3>2, <3>3
  <2>9. HeadsStored'
    <3>1. leaves[r] # <<>> /\ Len(leaves[r]) <= Len(leaves[r])
      BY <1>0, <2>4, EmptySeq, LenProperties
    <3>2. QED
      BY <1>0, <2>1, <2>4, <2>6, <3>1 DEF database, TypeOK, HeadsStored
  <2>10. AppendsSound' /\ OneWriter'
    <3>1. AppendsSound'
      BY <2>1, <2>2, <2>3 DEF database, AppendsSound, AtInsert, Commits
    <3>2. OneWriter'
      BY <2>1, <2>2, <2>3 DEF database, OneWriter, InTransaction
    <3>3. QED
      BY <3>1, <3>2
  <2>11. AckedStored'
    <3>1. Len(leaves[r]) \in 1 .. Len(leaves[r])
      BY <1>0, <2>4, LenProperties
    <3>2. Len(leaves[r]) \in DOMAIN rows /\ rows[Len(leaves[r])] = r
      BY <2>4, <3>1 DEF Commits
    <3>3. QED
      BY <2>1, <2>2, <2>4, <3>2 DEF database, AckedStored
  <2>12. QED
    BY <2>2, <2>7, <2>8, <2>9, <2>10, <2>11
<1>9. QED
  BY <1>1, <1>2, <1>3, <1>4, <1>5, <1>6, <1>7, <1>8
  DEF AttestStep, InsertRecord, InsertSth

\* The steps of an instance itself, its starts and deaths among them, keep it too.
LEMMA InstanceStepInvariant ==
  ASSUME IInv, NEW i \in Instances, InstanceStep(i)
  PROVE  IInv'
<1> USE DEF IInv
<1>1. ASSUME NEW l \in Chains, StartKnown(i, l) \/ CreateCompany(i, l) \/ EnsureTenant(i, l)
      PROVE  IInv'
  <2>1. BeginLoad(i, l) /\ UNCHANGED <<rows, sths, tenant, requests, published>>
    BY <1>1 DEF StartKnown, CreateCompany, EnsureTenant, database
  <2>2. registered' \in BOOLEAN /\ mode' \in [Instances -> {"down", "starting", "serving"}]
    BY <1>1 DEF StartKnown, CreateCompany, EnsureTenant, database, TypeOK
  <2>3. QED
    BY <2>1, <2>2, BeginLoadStep DEF IInv
<1>2. CASE StartUnknown(i)
  <2>1. /\ mode' = [mode EXCEPT ![i] = "serving"]
        /\ UNCHANGED <<database, tenant, chain, head, loading, loader, requests, published>>
    BY <1>2 DEF StartUnknown
  <2>2. TypeOK'
    BY <2>1 DEF TypeOK, database, requests
  <2>3. QED
    BY <2>1, <2>2 DEF database, requests, LogSound, Covered, TenantsLoaded, HeadsStored, Shown, Commits,
                      AppendsSound, OneWriter, AckedStored, RunsFirst, MyTurn
<1>3. CASE GetCheckpoint(i)
  <2> DEFINE h == head[tenant[i]]
  <2>1. /\ tenant[i] \in Chains /\ tenant[i] # NoChain /\ h # <<>>
        /\ published' = published \cup {h}
        /\ UNCHANGED <<database, memory, requests>>
    BY <1>3 DEF GetCheckpoint, TypeOK
  <2>2. h \in Seq(Leaf) /\ Commits(h, rows) /\ Len(h) \in DOMAIN sths
    BY <2>1 DEF TypeOK, LogSound, TenantsLoaded, HeadsStored
  <2>3. TypeOK' /\ Shown'
    BY <2>1, <2>2 DEF TypeOK, Shown, database, memory, requests, Commits
  <2>4. QED
    BY <2>1, <2>3 DEF database, memory, requests, LogSound, Covered, TenantsLoaded, HeadsStored, Commits,
                      AppendsSound, OneWriter, AckedStored, RunsFirst, MyTurn
<1>4. CASE Crash(i)
  <2>1. /\ tenant' = [tenant EXCEPT ![i] = NoChain]
        /\ queue' = [queue EXCEPT ![i] = <<>>]
        /\ UNCHANGED <<database, chain, head, loader, host, object, leaves, published>>
    BY <1>4 DEF Crash
  <2>2. loading' = [l \in Chains |-> IF loader[l] = i THEN "free" ELSE loading[l]]
    BY <1>4 DEF Crash
  <2>3. stage' = [r \in Requests |->
                   IF host[r] = i /\ stage[r] \in Running THEN "lost" ELSE stage[r]]
    BY <1>4 DEF Crash
  <2>4. mode' \in [Instances -> {"down", "starting", "serving"}]
    BY <1>4 DEF Crash, TypeOK
  <2>5. stage' \in [Requests -> {"idle"} \cup Running \cup Final]
    BY <2>3 DEF TypeOK, Final
  <2>6. loading' \in [Chains -> LoadStages \cup {"free", "done"}]
    BY <2>2 DEF TypeOK
  <2>7. tenant' \in [Instances -> Chains \cup {NoChain}] /\ queue' \in [Instances -> Seq(Requests)]
    BY <2>1, EmptySeq DEF TypeOK
  <2>8. TypeOK'
    BY <2>1, <2>4, <2>5, <2>6, <2>7 DEF TypeOK, database
  <2>9. LogSound' /\ Covered' /\ Shown'
    BY <2>1 DEF database, LogSound, Covered, Shown, Commits
  <2>10. TenantsLoaded' /\ HeadsStored'
    BY <2>1, <2>2, InputsAssumption DEF TypeOK, database, TenantsLoaded, HeadsStored
  <2>11. \A r \in Requests : stage'[r] \in AtInsert \cup {"committed"} \cup {"acked"}
                               => stage'[r] = stage[r] /\ (stage[r] # "acked" => host[r] # i)
    BY <2>3 DEF TypeOK, AtInsert, Running
  <2>12. AppendsSound' /\ OneWriter' /\ AckedStored'
    BY <2>1, <2>11 DEF database, AppendsSound, OneWriter, AckedStored, AtInsert, InTransaction, Commits
  <2>13. RunsFirst'
    BY <2>1, <2>11 DEF RunsFirst, MyTurn, AtInsert, TypeOK
  <2>14. QED
    BY <2>8, <2>9, <2>10, <2>12, <2>13
<1>5. ASSUME NEW r \in Requests, ReceiveAttest(i, r) \/ AttestWithoutTenant(i, r)
      PROVE  IInv'
  <2>1. /\ stage[r] = "idle"
        /\ stage' \in {[stage EXCEPT ![r] = "received"], [stage EXCEPT ![r] = "failed"]}
        /\ UNCHANGED <<database, memory, queue, leaves, published>>
    BY <1>5 DEF ReceiveAttest, AttestWithoutTenant
  <2>2. /\ stage' \in [Requests -> {"idle"} \cup Running \cup Final]
        /\ stage'[r] \in {"received", "failed"}
        /\ \A q \in Requests \ {r} : stage'[q] = stage[q]
    BY <2>1 DEF TypeOK, Running, Final
  <2>3. /\ host' \in [Requests -> Instances] /\ object' \in [Requests -> Chains]
        /\ \A q \in Requests \ {r} : host'[q] = host[q]
    BY <1>5 DEF ReceiveAttest, AttestWithoutTenant, TypeOK
  <2>4. TypeOK'
    BY <2>1, <2>2, <2>3 DEF TypeOK, database, memory
  <2>5. LogSound' /\ Covered' /\ TenantsLoaded' /\ HeadsStored' /\ Shown'
    BY <2>1 DEF database, memory, LogSound, Covered, TenantsLoaded, HeadsStored, Shown, Commits
  <2>6. AppendsSound' /\ OneWriter' /\ AckedStored' /\ RunsFirst'
    BY <2>1, <2>2, <2>3 DEF database, AppendsSound, OneWriter, AckedStored, RunsFirst, MyTurn, AtInsert,
                            InTransaction, Commits
  <2>7. QED
    BY <2>4, <2>5, <2>6
<1>6. QED
  BY <1>1, <1>2, <1>3, <1>4, <1>5 DEF InstanceStep

\* Every step keeps the invariant.
LEMMA StepInvariant == IInv /\ [Next]_vars => IInv'
<1> SUFFICES ASSUME IInv, [Next]_vars PROVE IInv'
  OBVIOUS
<1>1. CASE UNCHANGED vars
  BY <1>1 DEF vars, database, memory, requests, IInv, TypeOK, LogSound, Covered, AppendsSound,
     OneWriter, RunsFirst, MyTurn, TenantsLoaded, HeadsStored, Shown, AckedStored, Commits
<1>2. CASE Next
  BY <1>2, InstanceStepInvariant, LoadStepInvariant, AttestStepInvariant DEF Next
<1>3. QED
  BY <1>1, <1>2

\* The strengthening of all the invariants below holds of every reachable state.
THEOREM Invariance == Spec => []IInv
  BY InitInvariant, StepInvariant, PTL DEF Spec

-----------------------------------------------------------------------------
(* What the invariant gives                                                *)

\* The records table has no holes (rows \in Seq(Leaf)) and every variable its type.
THEOREM TypeCorrect == Spec => []TypeOK
<1>1. IInv => TypeOK
  BY DEF IInv
<1>2. QED
  BY <1>1, Invariance, PTL

\* No split view, for any number of instances, appends, hydrations and crashes.
THEOREM NoSplitView == Spec => []HeadsOnOneLog
<1>1. ASSUME IInv PROVE HeadsOnOneLog
  <2>1. SUFFICES ASSUME NEW g \in published, NEW h \in published, Len(g) <= Len(h),
                        NEW k \in 1 .. Len(g)
                 PROVE  g[k] = h[k]
    BY DEF HeadsOnOneLog
  <2>2. Len(g) \in Nat /\ Len(h) \in Nat
    BY <1>1, LenProperties DEF IInv, TypeOK
  <2>3. g[k] = rows[k] /\ h[k] = rows[k]
    BY <1>1, <2>1, <2>2 DEF IInv, Shown, Commits
  <2>4. QED
    BY <2>3
<1>2. QED
  BY <1>1, Invariance, PTL

\* Whatever anybody was shown is stored, head and records.
THEOREM ShownIsStored == Spec => []PublishedIsDurable
<1>1. ASSUME IInv PROVE PublishedIsDurable
  <2>1. SUFFICES ASSUME NEW h \in published
                 PROVE  Len(h) \in DOMAIN sths /\ sths[Len(h)] = h /\ Commits(h, rows)
    BY DEF PublishedIsDurable
  <2>2. h \in Seq(Leaf) /\ Len(h) \in DOMAIN sths /\ Commits(h, rows)
    BY <1>1 DEF IInv, TypeOK, Shown
  <2>3. sths[Len(h)] \in Seq(Leaf) /\ Len(sths[Len(h)]) = Len(h) /\ Commits(sths[Len(h)], rows)
    BY <1>1, <2>2 DEF IInv, TypeOK, LogSound
  <2>4. sths[Len(h)] = h
    BY <2>2, <2>3, OneHeadPerSize
  <2>5. QED
    BY <2>2, <2>4
<1>2. QED
  BY <1>1, Invariance, PTL

\* There is never a record without its tree head on disk.
THEOREM NeverARecordWithoutHead == Spec => []EveryRecordCovered
<1>1. IInv => EveryRecordCovered
  BY DEF IInv, Covered, LogSound, EveryRecordCovered
<1>2. QED
  BY <1>1, Invariance, PTL

\* Nor in a chain that an instance serves.
THEOREM NeverServedUncovered == Spec => []ServedIsCovered
<1>1. ASSUME IInv PROVE ServedIsCovered
  <2>1. SUFFICES ASSUME NEW i \in Instances, tenant[i] # NoChain
                 PROVE  /\ Len(chain[tenant[i]]) <= Len(head[tenant[i]])
                        /\ Commits(head[tenant[i]], rows)
                        /\ Commits(chain[tenant[i]], rows)
    BY DEF ServedIsCovered
  <2>2. tenant[i] \in Chains /\ loading[tenant[i]] = "done"
    BY <1>1, <2>1 DEF IInv, TypeOK, TenantsLoaded
  <2>3. QED
    BY <1>1, <2>2 DEF IInv, LogSound, HeadsStored
<1>2. QED
  BY <1>1, Invariance, PTL

\* A 201 survives every later crash, hydration and conflict.
THEOREM AcknowledgedIsStored == Spec => []AckedIsDurable
<1>1. ASSUME IInv PROVE AckedIsDurable
  <2>1. SUFFICES ASSUME NEW r \in Requests, stage[r] = "acked"
                 PROVE  \E k \in DOMAIN rows : rows[k] = r /\ k \in DOMAIN sths /\ sths[k][k] = r
    BY DEF AckedIsDurable
  <2>2. PICK k \in DOMAIN rows : rows[k] = r /\ k \in DOMAIN sths
    BY <1>1, <2>1 DEF IInv, AckedStored
  <2>3. k > 0 /\ Len(sths[k]) = k /\ Commits(sths[k], rows) /\ k \in Nat
    BY <1>1, <2>2 DEF IInv, LogSound, TypeOK
  <2>4. sths[k][k] = rows[k]
    BY <2>3 DEF Commits
  <2>5. QED
    BY <2>2, <2>4
<1>2. QED
  BY <1>1, Invariance, PTL

-----------------------------------------------------------------------------
(* Refinement                                                              *)

\* A head over the table that is shown is a prefix the abstract log can publish.
LEMMA ShowingPublishes ==
  ASSUME rows \in Seq(Leaf), NEW h \in Seq(Leaf), Len(h) > 0, Commits(h, rows),
         published' = published \cup {h}, UNCHANGED rows
  PROVE  Abstract!Publish
<1>1. Len(h) \in Nat /\ Len(rows) \in Nat /\ DOMAIN rows = 1 .. Len(rows)
  BY LenProperties
<1>2. Len(h) \in 1 .. Len(rows)
  BY <1>1 DEF Commits
<1>3. /\ SubSeq(rows, 1, Len(h)) \in Seq(Leaf)
      /\ Len(SubSeq(rows, 1, Len(h))) = Len(h)
      /\ \A k \in 1 .. Len(h) : SubSeq(rows, 1, Len(h))[k] = rows[k]
  <2>1. \A k \in 1 .. Len(h) : rows[k] \in Leaf
    BY <1>1, <1>2, ElementOfSeq
  <2>2. QED
    BY <1>1, <1>2, <2>1, SubSeqProperties
<1>4. SubSeq(rows, 1, Len(h)) = h
  BY <1>1, <1>3, SeqEqual DEF Commits
<1>5. QED
  BY <1>2, <1>4 DEF Abstract!Publish

\* Every step is an append, a new tree head or nothing to the abstract log.
LEMMA StepRefines ==
  ASSUME IInv, [Next]_vars
  PROVE  [Abstract!Next]_(Abstract!vars)
<1> USE DEF IInv
<1>1. ASSUME NEW r \in Requests, Commit(r) PROVE Abstract!Extend
  <2>1. Len(leaves[r]) = Len(rows) + 1 /\ r \in Leaf /\ rows \in Seq(Leaf)
    BY <1>1 DEF Commit, OneWriter, InTransaction, TypeOK, Leaf
  <2>2. rows' = Put(rows, Len(rows) + 1, r) /\ published' = published
    BY <1>1, <2>1 DEF Commit
  <2>3. Put(rows, Len(rows) + 1, r) = Append(rows, r)
    BY <2>1, PutAppends, Zenon
  <2>4. QED
    BY <2>1, <2>2, <2>3 DEF Abstract!Extend
<1>2. ASSUME NEW r \in Requests, Acknowledge(r) PROVE Abstract!Publish \/ UNCHANGED <<rows, published>>
  <2>1. CASE Len(leaves[r]) = Len(chain[object[r]]) + 1
    <3>1. published' = published \cup {leaves[r]} /\ rows' = rows /\ stage[r] = "committed"
      BY <1>2, <2>1 DEF Acknowledge, database
    <3>2. leaves[r] \in Seq(Leaf) /\ Len(leaves[r]) > 0 /\ Commits(leaves[r], rows) /\ rows \in Seq(Leaf)
      BY <3>1 DEF TypeOK, AppendsSound
    <3>3. QED
      BY <3>1, <3>2, ShowingPublishes
  <2>2. CASE Len(leaves[r]) # Len(chain[object[r]]) + 1
    BY <1>2, <2>2 DEF Acknowledge, database
  <2>3. QED
    BY <2>1, <2>2
<1>3. ASSUME NEW i \in Instances, GetCheckpoint(i) PROVE Abstract!Publish
  <2> DEFINE h == head[tenant[i]]
  <2>1. tenant[i] \in Chains /\ h # <<>> /\ published' = published \cup {h} /\ rows' = rows
    BY <1>3 DEF GetCheckpoint, TypeOK, database
  <2>2. h \in Seq(Leaf) /\ Commits(h, rows) /\ rows \in Seq(Leaf)
    BY <2>1 DEF TypeOK, LogSound
  <2>3. Len(h) > 0
    BY <2>1, <2>2, EmptySeq
  <2>4. QED
    BY <2>1, <2>2, <2>3, ShowingPublishes
<1>4. ASSUME NEW r \in Requests,
             Enqueue(r) \/ ComputeRecord(r) \/ InsertRecord(r) \/ InsertSth(r) \/ AbortAppend(r) \/ LoseAck(r)
      PROVE  UNCHANGED <<rows, published>>
  BY <1>4 DEF Enqueue, ComputeRecord, InsertRecord, InsertSth, AbortAppend, LoseAck, database
<1>5. ASSUME NEW l \in Chains, LoadStep(l) PROVE UNCHANGED <<rows, published>>
  BY <1>5 DEF LoadStep, ReadRecords, ReadLatestSth, InsertBackfill, InstallTenant, LoadError, database
<1>6. ASSUME NEW i \in Instances, InstanceStep(i), ~GetCheckpoint(i) PROVE UNCHANGED <<rows, published>>
  BY <1>6 DEF InstanceStep, StartUnknown, Crash, StartKnown, CreateCompany, EnsureTenant, ReceiveAttest,
              AttestWithoutTenant, database
<1>7. CASE Next
  BY <1>1, <1>2, <1>3, <1>4, <1>5, <1>6, <1>7
  DEF Next, AttestStep, Abstract!Next, Abstract!vars
<1>8. CASE UNCHANGED vars
  BY <1>8 DEF vars, database, Abstract!vars
<1>9. QED
  BY <1>7, <1>8

\* Postgres, every instance's memory and the append pipeline together implement
\* one append-only log whose published heads are prefixes of it.
THEOREM ImplementsAppendOnlyLog == Spec => AbstractLog
<1>1. Init => Abstract!Init
  BY InitInvariant DEF Init, IInv, TypeOK, Abstract!Init
<1>2. IInv /\ [Next]_vars => [Abstract!Next]_(Abstract!vars)
  BY StepRefines
<1>3. QED
  BY <1>1, <1>2, Invariance, PTL DEF Spec, AbstractLog, Abstract!Spec
-----------------------------------------------------------------------------
(* One instance, of a company it knew when it started                      *)

\* No record of an append that has failed is in the table.
Unbroken == \A r \in Requests : stage[r] = "failed" => \A k \in DOMAIN rows : rows[k] # r

\* The instance i is the only one: it hydrates the company once before it serves, and
\* every running request has captured the chain object that is served.
OneChain(i) ==
  /\ registered
  /\ mode[i] = "serving" <=> tenant[i] # NoChain
  /\ \A r \in Requests : stage[r] \in Running => mode[i] = "serving" /\ object[r] = tenant[i]
  /\ \A l \in Chains : loading[l] \in LoadStages => mode[i] = "starting"
  /\ \A l, m \in Chains : loading[l] \in LoadStages /\ loading[m] \in LoadStages => l = m
  /\ \A l \in Chains : loading[l] \in {"sth", "backfill", "install"} => chain[l] = rows

\* That chain is the table, or lacks the record of the append that has just committed.
InStep(i) ==
  Unbroken /\ mode[i] = "serving" =>
    /\ (\A r \in Requests : stage[r] # "committed") => chain[tenant[i]] = rows
    /\ \A r \in Requests : stage[r] = "committed" =>
         rows = Append(chain[tenant[i]], r) /\ Len(leaves[r]) = Len(rows)

SoleInv(i) == IInv /\ OneChain(i) /\ InStep(i)

\* A single instance: what it serves is the log, at first and after each kind of step.
LEMMA SoleInit ==
  ASSUME NEW i, Instances = {i}, Registered = {TRUE}, Init
  PROVE  OneChain(i) /\ InStep(i)
BY DEF Init, OneChain, InStep, Running, LoadStages

\* With one instance its queue lets one append at a time work.
LEMMA OneAtWork ==
  ASSUME NEW i, Instances = {i}, IInv, NEW q \in Requests, NEW r \in Requests,
         stage[q] \in AtInsert \cup {"committed"}, stage[r] \in AtInsert \cup {"committed"}
  PROVE  q = r
<1>1. host[q] = i /\ host[r] = i
  BY DEF IInv, TypeOK
<1> QED
  BY <1>1 DEF IInv, RunsFirst, MyTurn

\* The steps that leave the table, the chains in use and what has committed alone.
LEMMA SoleQuiet ==
  ASSUME NEW i, Instances = {i}, SoleInv(i), UNCHANGED <<rows, registered, mode, tenant, chain, loading>>,
         \A r \in Requests : /\ stage[r] = "failed" => stage'[r] = "failed"
                             /\ stage'[r] = "committed" <=> stage[r] = "committed"
                             /\ stage'[r] = "committed" => leaves'[r] = leaves[r]
                             /\ stage'[r] \in Running =>
                                  \/ stage[r] \in Running /\ object'[r] = object[r]
                                  \/ mode[i] = "serving" /\ object'[r] = tenant[i]
  PROVE  OneChain(i)' /\ InStep(i)'
<1>1. OneChain(i)'
  BY DEF SoleInv, OneChain
<1>2. Unbroken' => Unbroken
  BY DEF Unbroken
<1>3. InStep(i)'
  BY <1>2 DEF SoleInv, InStep
<1> QED
  BY <1>1, <1>3

LEMMA SoleInstance ==
  ASSUME NEW i, Instances = {i}, SoleInv(i), InstanceStep(i)
  PROVE  OneChain(i)' /\ InStep(i)'
<1>0. OneChain(i) /\ InStep(i) /\ TypeOK /\ TenantsLoaded
  BY DEF SoleInv, IInv
<1>1. ASSUME NEW l \in Chains, StartKnown(i, l) \/ CreateCompany(i, l) \/ EnsureTenant(i, l)
      PROVE  OneChain(i)' /\ InStep(i)'
  <2>1. StartKnown(i, l)
    BY <1>0, <1>1 DEF CreateCompany, EnsureTenant, OneChain
  <2>2. /\ mode[i] = "down" /\ mode' = [mode EXCEPT ![i] = "starting"]
        /\ loading' = [loading EXCEPT ![l] = "records"] /\ chain' = [chain EXCEPT ![l] = <<>>]
        /\ UNCHANGED <<registered, rows, tenant, stage, object>>
    BY <2>1 DEF StartKnown, BeginLoad, database, requests
  <2>3. mode'[i] = "starting" /\ tenant[i] = NoChain
    BY <1>0, <2>2 DEF TypeOK, OneChain
  <2>4. \A m \in Chains : loading[m] \notin LoadStages
    BY <1>0, <2>2 DEF OneChain
  <2>5. \A m \in Chains : loading'[m] \in LoadStages => m = l /\ loading'[m] = "records"
    BY <1>0, <2>2, <2>4 DEF TypeOK
  <2>6. OneChain(i)'
    BY <1>0, <2>2, <2>3, <2>5 DEF OneChain, LoadStages
  <2> QED
    BY <2>3, <2>6 DEF InStep
<1>2. CASE StartUnknown(i)
  BY <1>0, <1>2 DEF StartUnknown, OneChain
<1>3. CASE GetCheckpoint(i)
  BY <1>3, SoleQuiet DEF GetCheckpoint, database, memory, requests
<1>4. CASE Crash(i)
  <2>1. /\ mode' = [mode EXCEPT ![i] = "down"] /\ tenant' = [tenant EXCEPT ![i] = NoChain]
        /\ loading' = [l \in Chains |-> IF loader[l] = i THEN "free" ELSE loading[l]]
        /\ stage' = [r \in Requests |->
                       IF host[r] = i /\ stage[r] \in Running THEN "lost" ELSE stage[r]]
        /\ UNCHANGED <<registered, rows, chain, object>>
    BY <1>4 DEF Crash, database
  <2>2. mode'[i] = "down" /\ tenant'[i] = NoChain /\ \A l \in Chains : loading'[l] = "free"
    BY <1>0, <2>1 DEF TypeOK
  <2>3. \A r \in Requests : stage'[r] \notin Running
    BY <1>0, <2>1 DEF TypeOK, Running
  <2> QED
    BY <1>0, <2>1, <2>2, <2>3 DEF OneChain, InStep, LoadStages
<1>5. ASSUME NEW r \in Requests, ReceiveAttest(i, r) \/ AttestWithoutTenant(i, r)
      PROVE  OneChain(i)' /\ InStep(i)'
  <2>1. ReceiveAttest(i, r)
    BY <1>0, <1>5 DEF AttestWithoutTenant, OneChain
  <2>2. /\ mode[i] = "serving" /\ stage[r] = "idle" /\ stage' = [stage EXCEPT ![r] = "received"]
        /\ object' = [object EXCEPT ![r] = tenant[i]]
        /\ UNCHANGED <<database, memory, leaves>>
    BY <2>1 DEF ReceiveAttest
  <2> QED
    BY <1>0, <2>2, SoleQuiet DEF TypeOK, database, memory
<1> QED
  BY <1>1, <1>2, <1>3, <1>4, <1>5 DEF InstanceStep

LEMMA SoleLoad ==
  ASSUME NEW i, Instances = {i}, SoleInv(i), NEW l \in Chains, LoadStep(l)
  PROVE  OneChain(i)' /\ InStep(i)'
<1>0. OneChain(i) /\ InStep(i) /\ TypeOK /\ loader[l] = i
  BY DEF SoleInv, IInv, TypeOK
<1>1. loading[l] \in LoadStages /\ mode[i] = "starting" /\ tenant[i] = NoChain
  BY <1>0 DEF LoadStep, ReadRecords, ReadLatestSth, InsertBackfill, InstallTenant, LoadError,
              LoadStages, OneChain
<1>2. CASE ReadRecords(l)
  <2>1. chain' = [chain EXCEPT ![l] = rows]
    BY <1>0, <1>2, KeyOrder DEF ReadRecords, TypeOK
  <2>2. /\ loading' = [loading EXCEPT ![l] = "sth"]
        /\ UNCHANGED <<registered, rows, mode, tenant, stage, object>>
    BY <1>2 DEF ReadRecords, database, requests
  <2> QED
    BY <1>0, <1>1, <2>1, <2>2 DEF OneChain, InStep, TypeOK, LoadStages
<1>3. CASE ReadLatestSth(l) \/ InsertBackfill(l)
  <2>1. /\ loading[l] \in {"sth", "backfill"}
        /\ \E s \in {"backfill", "install"} : loading' = [loading EXCEPT ![l] = s]
        /\ UNCHANGED <<registered, rows, chain, mode, tenant, stage, object>>
    BY <1>3 DEF ReadLatestSth, LatestSthRead, InsertBackfill, database, requests
  <2> QED
    BY <1>0, <1>1, <2>1 DEF OneChain, InStep, TypeOK, LoadStages
<1>4. CASE InstallTenant(l)
  <2>1. /\ loading[l] = "install" /\ loading' = [loading EXCEPT ![l] = "done"]
        /\ tenant' = [tenant EXCEPT ![i] = l] /\ mode' = [mode EXCEPT ![i] = "serving"]
        /\ UNCHANGED <<registered, rows, chain, stage, object>>
    BY <1>0, <1>4 DEF InstallTenant, database, requests
  <2>2. tenant'[i] = l /\ mode'[i] = "serving" /\ l # NoChain /\ chain[l] = rows
    BY <1>0, <2>1, InputsAssumption DEF TypeOK, OneChain
  <2>3. \A m \in Chains : loading'[m] \notin LoadStages
    BY <1>0, <1>1, <2>1 DEF TypeOK, OneChain, LoadStages
  <2>4. \A r \in Requests : stage'[r] \notin Running
    BY <1>0, <1>1, <2>1 DEF OneChain
  <2> QED
    BY <1>0, <2>1, <2>2, <2>3, <2>4 DEF OneChain, InStep, LoadStages, Running
<1>5. CASE LoadError(l)
  BY <1>0, <1>1, <1>5 DEF LoadError
<1> QED
  BY <1>2, <1>3, <1>4, <1>5 DEF LoadStep

LEMMA SoleAttest ==
  ASSUME NEW i, Instances = {i}, SoleInv(i), NEW r \in Requests, AttestStep(r)
  PROVE  OneChain(i)' /\ InStep(i)'
<1>0. OneChain(i) /\ InStep(i) /\ IInv /\ TypeOK
  BY DEF SoleInv, IInv
<1>1. CASE Enqueue(r) \/ ComputeRecord(r) \/ InsertRecord(r) \/ InsertSth(r) \/ AbortAppend(r)
  <2>1. /\ UNCHANGED <<rows, registered, mode, tenant, chain, loading, object>>
        /\ stage[r] \in Running \ {"committed"}
        /\ \E s \in (Running \ {"committed"}) \cup {"failed"} : stage' = [stage EXCEPT ![r] = s]
        /\ leaves' = leaves \/ \E h : leaves' = [leaves EXCEPT ![r] = h]
    BY <1>1 DEF Enqueue, ComputeRecord, InsertRecord, InsertSth, AbortAppend, Settle, database, memory,
                Running
  <2>2. \A q \in Requests : q # r => stage'[q] = stage[q] /\ leaves'[q] = leaves[q]
    BY <1>0, <2>1 DEF TypeOK
  <2>3. stage'[r] # "committed"
    BY <1>0, <2>1 DEF TypeOK
  <2> QED
    BY <2>1, <2>2, <2>3, SoleQuiet DEF Running
<1>2. CASE Commit(r)
  <2>1. /\ stage[r] = "signed" /\ stage' = [stage EXCEPT ![r] = "committed"]
        /\ rows' = Put(rows, Len(leaves[r]), r)
        /\ UNCHANGED <<registered, mode, tenant, chain, loading, object, leaves>>
    BY <1>2 DEF Commit, memory
  <2>2. Len(leaves[r]) = Len(rows) + 1 /\ rows \in Seq(Leaf) /\ r \in Leaf
    BY <1>0, <2>1 DEF IInv, OneWriter, InTransaction, TypeOK, Leaf
  <2>3. rows' = Append(rows, r) /\ Len(rows') = Len(leaves[r])
    <3>1. rows' = Put(rows, Len(rows) + 1, r)
      BY <2>1, <2>2
    <3>2. Put(rows, Len(rows) + 1, r) = Append(rows, r) /\ Len(Append(rows, r)) = Len(rows) + 1
      BY <2>2, PutAppends, Zenon
    <3> QED
      BY <2>2, <3>1, <3>2
  <2>4. \A q \in Requests : stage'[q] = "committed" <=> q = r
    BY <1>0, <2>1, OneAtWork DEF TypeOK, AtInsert
  <2>5. \A q \in Requests : stage[q] # "committed"
    BY <1>0, <2>1, OneAtWork DEF AtInsert
  <2>6. Unbroken' => Unbroken
    <3>1. \A k \in DOMAIN rows : k \in DOMAIN rows' /\ rows'[k] = rows[k]
      BY <2>2, <2>3, AppendProperties, LenProperties
    <3>2. \A q \in Requests : stage[q] = "failed" => stage'[q] = "failed"
      BY <1>0, <2>1 DEF TypeOK
    <3> QED
      BY <3>1, <3>2 DEF Unbroken
  <2>7. OneChain(i)'
    <3>1. mode[i] = "serving"
      BY <1>0, <2>1 DEF OneChain, Running
    <3>2. \A q \in Requests : stage'[q] \in Running => stage[q] \in Running
      BY <1>0, <2>1 DEF TypeOK, Running
    <3>3. \A m \in Chains : loading[m] \notin LoadStages
      BY <1>0, <3>1 DEF OneChain
    <3> QED
      BY <1>0, <2>1, <3>1, <3>2, <3>3 DEF OneChain, LoadStages
  <2>8. InStep(i)'
    BY <1>0, <2>1, <2>3, <2>4, <2>5, <2>6 DEF InStep
  <2> QED
    BY <2>7, <2>8
<1>3. CASE Acknowledge(r) \/ LoseAck(r)
  <2> DEFINE l == object[r]
  <2>1. /\ stage[r] = "committed" /\ l = tenant[i] /\ mode[i] = "serving" /\ l \in Chains
        /\ \A m \in Chains : loading[m] \notin LoadStages
    BY <1>0, <1>3 DEF Acknowledge, LoseAck, OneChain, Running, TypeOK
  <2>2. /\ UNCHANGED <<rows, registered, mode, tenant, loading, object>>
        /\ \E s \in {"acked", "failed"} : stage' = [stage EXCEPT ![r] = s]
    BY <1>3 DEF Acknowledge, LoseAck, Settle, database, memory
  <2>3. \A q \in Requests : q = r \/ stage'[q] = stage[q]
    BY <1>0, <2>2 DEF TypeOK
  <2>4. stage'[r] \in {"acked", "failed"}
    BY <1>0, <2>2 DEF TypeOK
  <2>5. OneChain(i)'
    <3>1. \A q \in Requests : stage'[q] \in Running => stage[q] \in Running
      BY <2>3, <2>4 DEF Running
    <3> QED
      BY <1>0, <2>1, <2>2, <3>1 DEF OneChain, LoadStages
  <2>6. \A q \in Requests : stage'[q] # "committed"
    BY <1>0, <2>1, <2>3, <2>4, OneAtWork
  <2>7. Unbroken' => Unbroken
    BY <2>1, <2>2, <2>3 DEF Unbroken
  <2>8. stage'[r] = "failed" => ~Unbroken'
    <3>1. leaves[r] \in Seq(Leaf) /\ Len(leaves[r]) > 0 /\ leaves[r][Len(leaves[r])] = r
          /\ Commits(leaves[r], rows)
      BY <1>0, <2>1 DEF IInv, TypeOK, AppendsSound
    <3>2. Len(leaves[r]) \in 1 .. Len(leaves[r])
      BY <3>1, LenProperties
    <3>3. Len(leaves[r]) \in DOMAIN rows /\ rows[Len(leaves[r])] = r
      BY <3>1, <3>2 DEF Commits
    <3> QED
      BY <2>2, <3>3 DEF Unbroken
  <2>9. ASSUME Unbroken' PROVE chain'[l] = rows
    <3>1. rows = Append(chain[l], r) /\ Len(leaves[r]) = Len(rows)
      BY <1>0, <2>1, <2>7, <2>9 DEF InStep
    <3>2. stage'[r] = "acked"
      BY <2>4, <2>8, <2>9
    <3>3. chain' = [chain EXCEPT ![l] = Append(chain[l], r)]
      <4>1. Acknowledge(r)
        BY <1>0, <1>3, <3>2 DEF LoseAck, Settle, TypeOK
      <4>2. Len(leaves[r]) = Len(chain[l]) + 1
        BY <1>0, <2>1, <3>1, AppendProperties DEF TypeOK
      <4> QED
        BY <4>1, <4>2 DEF Acknowledge
    <3> QED
      BY <1>0, <2>1, <3>1, <3>3 DEF TypeOK
  <2>10. InStep(i)'
    BY <2>1, <2>2, <2>6, <2>9 DEF InStep
  <2> QED
    BY <2>5, <2>10
<1> QED
  BY <1>1, <1>2, <1>3 DEF AttestStep

\* One instance, of a company it knew when it started: whatever crashes, aborts and lost
\* acknowledgements there are, the chain it serves is the table between two appends,
\* until the record of an append that failed is in the table.
THEOREM OneInstanceServesTheLog ==
  ASSUME NEW i, Instances = {i}, Registered = {TRUE}
  PROVE  Spec => []MemoryMatchesLog
<1>1. Init => SoleInv(i)
  BY SoleInit, InitInvariant DEF SoleInv
<1>2. SoleInv(i) /\ [Next]_vars => SoleInv(i)'
  <2> SUFFICES ASSUME SoleInv(i), [Next]_vars PROVE SoleInv(i)'
    OBVIOUS
  <2>1. IInv'
    BY StepInvariant DEF SoleInv
  <2>2. ASSUME UNCHANGED vars PROVE OneChain(i)' /\ InStep(i)'
    <3>1. UNCHANGED <<rows, registered, mode, tenant, chain, loading, object, stage, leaves>>
      BY <2>2 DEF vars, database, memory, requests
    <3>2. \A r \in Requests : stage[r] \in Running => mode[i] = "serving" /\ object[r] = tenant[i]
      BY DEF SoleInv, OneChain
    <3> QED
      BY <3>1, <3>2, SoleQuiet
  <2>3. ASSUME Next PROVE OneChain(i)' /\ InStep(i)'
    BY <2>3, SoleInstance, SoleLoad, SoleAttest DEF Next
  <2> QED
    BY <2>1, <2>2, <2>3 DEF SoleInv
<1>3. SoleInv(i) => MemoryMatchesLog
  BY DEF SoleInv, OneChain, InStep, MemoryMatchesLog, Unbroken
<1> QED
  BY <1>1, <1>2, <1>3, PTL DEF Spec

-----------------------------------------------------------------------------
(* The trees: induction on numbers, splitting, and the hash of a slice *)

\* A set of naturals that holds 0 and the successor of each of its members holds all.
LEMMA Counting ==
  ASSUME NEW T, 0 \in T, \A n \in Nat : n \in T => n + 1 \in T
  PROVE  Nat \subseteq T
<1> DEFINE M == Nat \ T
<1> SUFFICES ASSUME M # {} PROVE FALSE
  OBVIOUS
<1> DEFINE below(n) == 0 .. n
           B == {below(n) : n \in M}
<1>1. B # {} /\ B \subseteq FiniteSubsetsOf(Nat)
  <2>1. ASSUME NEW n \in M PROVE below(n) \in SUBSET Nat /\ IsFiniteSet(below(n))
    BY FS_Interval
  <2> QED
    BY <2>1 DEF FiniteSubsetsOf
<1>2. PICK x \in B : \A y \in B : ~ (<<y, x>> \in StrictSubsetOrdering(Nat))
  <2> HIDE DEF B
  <2> QED
    BY <1>1, WFMin, FS_StrictSubsetOrderingWellFounded
<1>3. PICK n \in M : x = below(n)
  OBVIOUS
<1>4. n - 1 \in M /\ n = (n - 1) + 1
  <2>1. n \in Nat /\ n # 0
    OBVIOUS
  <2>2. n - 1 \in Nat /\ n = (n - 1) + 1
    BY <2>1
  <2> QED
    BY <2>2
<1>5. below(n - 1) \subseteq below(n) /\ below(n - 1) # below(n)
  <2>1. n \in below(n) /\ n \notin below(n - 1)
    BY <1>4
  <2> QED
    BY <2>1, <1>4
<1>6. <<below(n - 1), x>> \in StrictSubsetOrdering(Nat)
  <2>1. below(n) \in SUBSET Nat /\ below(n - 1) \in SUBSET Nat
    OBVIOUS
  <2> QED
    BY <2>1, <1>5, <1>3 DEF StrictSubsetOrdering
<1> QED
  BY <1>2, <1>4, <1>6

\* largestPowerOfTwoLessThan doubles while twice the size is less than n.
GrowStep(n, g, k) == IF 2 * k < n THEN g[2 * k] ELSE k

\* The doubling is defined, and largestPowerOfTwoLessThan is where it ends from 1.
LEMMA SplitGrow ==
  ASSUME NEW n \in Nat \ {0}
  PROVE  \E g : /\ g = [k \in 1 .. n |-> IF 2 * k < n THEN g[2 * k] ELSE k]
                /\ SplitSize(n) = g[1]
<1> DEFINE Good(t) == \E g : \A k \in 1 .. n : n - k < t => g[k] = GrowStep(n, g, k)
<1> DEFINE T == {t \in Nat : Good(t)}
<1>1. 0 \in T
  BY SMT
<1>2. ASSUME NEW t \in Nat, t \in T PROVE t + 1 \in T
  <2>1. PICK g : \A k \in 1 .. n : n - k < t => g[k] = GrowStep(n, g, k)
    BY <1>2
  <2> DEFINE h == [k \in 1 .. n |-> GrowStep(n, g, k)]
  <2>2. ASSUME NEW k \in 1 .. n, n - k < t + 1 PROVE h[k] = GrowStep(n, h, k)
    BY <2>1, <2>2 DEF GrowStep
  <2>3. Good(t + 1)
    <3> HIDE DEF h
    <3> QED BY <2>2
  <2> QED BY <2>3
<1>3. n + 1 \in T
  <2> HIDE DEF T
  <2> QED BY <1>1, <1>2, Counting
<1>4. PICK g : \A k \in 1 .. n : g[k] = GrowStep(n, g, k)
  BY <1>3
<1> DEFINE h == [k \in 1 .. n |-> g[k]]
<1>5. h = [k \in 1 .. n |-> IF 2 * k < n THEN h[2 * k] ELSE k]
  BY <1>4 DEF GrowStep
<1> HIDE DEF h
<1> DEFINE c == CHOOSE f : f = [k \in 1 .. n |-> IF 2 * k < n THEN f[2 * k] ELSE k]
<1>6. c = [k \in 1 .. n |-> IF 2 * k < n THEN c[2 * k] ELSE k]
  BY <1>5, Zenon
<1>7. SplitSize(n) = c[1]
  BY DEF SplitSize
<1> QED BY <1>6, <1>7

\* Split in two, neither side is empty and the left one is at least half.
LEMMA SplitBounds ==
  ASSUME NEW n \in Nat, n >= 2
  PROVE  /\ SplitSize(n) \in 1 .. n - 1
         /\ n <= 2 * SplitSize(n)
<1>1. PICK g : /\ g = [k \in 1 .. n |-> IF 2 * k < n THEN g[2 * k] ELSE k]
               /\ SplitSize(n) = g[1]
  BY SplitGrow
<1> DEFINE Good(k) == g[k] \in k .. n - 1 /\ n <= 2 * g[k]
           T == {t \in Nat : \A k \in 1 .. n - 1 : n - k < t => Good(k)}
<1>2. 0 \in T
  BY SMT
<1>3. ASSUME NEW t \in Nat, t \in T PROVE t + 1 \in T
  <2> SUFFICES ASSUME NEW k \in 1 .. n - 1, n - k < t + 1 PROVE Good(k)
    OBVIOUS
  <2>1. CASE 2 * k < n
    <3>1. g[k] = g[2 * k] /\ 2 * k \in 1 .. n - 1 /\ n - 2 * k < t
      BY <1>1, <2>1
    <3>2. Good(2 * k)
      BY <3>1, <1>3
    <3> QED
      BY <3>1, <3>2
  <2>2. CASE ~ (2 * k < n)
    BY <1>1, <2>2
  <2> QED
    BY <2>1, <2>2
<1>4. n \in T
  <2> HIDE DEF T
  <2> QED
    BY <1>2, <1>3, Counting
<1>5. Good(1)
  BY <1>4
<1> QED
  BY <1>1, <1>5

\* A tree that reaches beyond the left side is split at the same place.
LEMMA SplitStays ==
  ASSUME NEW n \in Nat, NEW m \in Nat, n >= 2, SplitSize(n) < m, m <= n
  PROVE  SplitSize(m) = SplitSize(n)
<1>1. PICK g : /\ g = [k \in 1 .. n |-> IF 2 * k < n THEN g[2 * k] ELSE k]
               /\ SplitSize(n) = g[1]
  BY SplitGrow
<1>2. 1 <= SplitSize(n)
  BY SplitBounds
<1>3. PICK f : /\ f = [k \in 1 .. m |-> IF 2 * k < m THEN f[2 * k] ELSE k]
               /\ SplitSize(m) = f[1]
  <2>1. m \in Nat \ {0}
    BY <1>2, SplitBounds
  <2> QED
    BY <2>1, SplitGrow
<1> DEFINE Good(k) == /\ g[k] \in k .. n
                      /\ g[k] < m => f[k] = g[k]
           T == {t \in Nat : \A k \in 1 .. n - 1 : n - k < t => Good(k)}
<1>4. 0 \in T
  BY SMT
<1>5. ASSUME NEW t \in Nat, t \in T PROVE t + 1 \in T
  <2> SUFFICES ASSUME NEW k \in 1 .. n - 1, n - k < t + 1 PROVE Good(k)
    OBVIOUS
  <2>1. CASE 2 * k < n
    <3>1. g[k] = g[2 * k] /\ 2 * k \in 1 .. n - 1 /\ n - 2 * k < t
      BY <1>1, <2>1
    <3>2. Good(2 * k)
      BY <3>1, <1>5
    <3>3. ASSUME g[k] < m PROVE f[k] = f[2 * k]
      <4>1. 2 * k < m
        BY <3>1, <3>2, <3>3
      <4> QED
        BY <4>1, <1>3
    <3> QED
      BY <3>1, <3>2, <3>3
  <2>2. CASE ~ (2 * k < n)
    <3>1. g[k] = k
      BY <1>1, <2>2
    <3>2. ASSUME k < m PROVE f[k] = k
      BY <1>3, <2>2, <3>2
    <3> QED
      BY <3>1, <3>2
  <2> QED
    BY <2>1, <2>2
<1>6. n \in T
  <2> HIDE DEF T
  <2> QED
    BY <1>4, <1>5, Counting
<1>7. Good(1)
  BY <1>6
<1> QED
  BY <1>1, <1>3, <1>7

-----------------------------------------------------------------------------
(* The tree of RFC 6962 *)

\* Equal hashes are hashes of equal parts.
LEMMA LeafBinds ==
  ASSUME NEW a, NEW b, HashLeaf(a) = HashLeaf(b)
  PROVE  a = b
<1>1. HashLeaf(a)[2] = a /\ HashLeaf(b)[2] = b
  BY DEF HashLeaf
<1> QED
  BY <1>1

\* Equal hashes are hashes of equal parts.
LEMMA ChildrenBind ==
  ASSUME NEW a, NEW b, NEW c, NEW d, HashChildren(a, b) = HashChildren(c, d)
  PROVE  a = c /\ b = d
<1>1. HashChildren(a, b)[2] = a /\ HashChildren(a, b)[3] = b
  BY DEF HashChildren
<1>2. HashChildren(c, d)[2] = c /\ HashChildren(c, d)[3] = d
  BY DEF HashChildren
<1> QED
  BY <1>1, <1>2

\* Equal hashes are hashes of equal parts.
LEMMA PairBinds ==
  ASSUME NEW a, NEW b, NEW c, NEW d, HashPair(a, b) = HashPair(c, d)
  PROVE  a = c /\ b = d
<1>1. HashPair(a, b)[2] = a /\ HashPair(a, b)[3] = b
  BY DEF HashPair
<1>2. HashPair(c, d)[2] = c /\ HashPair(c, d)[3] = d
  BY DEF HashPair
<1> QED
  BY <1>1, <1>2

\* The hash of n leaves from lo on, out of the hashes of fewer.
HashStep(D, g, n, lo) ==
  IF n = 0 THEN <<"empty">>
  ELSE IF n = 1 THEN HashLeaf(D[lo + 1])
  ELSE HashChildren(g[SplitSize(n)][lo], g[n - SplitSize(n)][lo + SplitSize(n)])

\* merkleTreeHash is defined: each tree is split into smaller ones.
LEMMA SubtreeStep ==
  ASSUME NEW D, Len(D) \in Nat, NEW n \in 0 .. Len(D), NEW lo \in 0 .. Len(D) - n
  PROVE  Subtree(D)[n][lo] = HashStep(D, Subtree(D), n, lo)
<1> DEFINE N == Len(D)
           Body(g) == [s \in 0 .. N |-> [l \in 0 .. N - s |-> HashStep(D, g, s, l)]]
           Good(t) == \E g : \A s \in 0 .. N : \A l \in 0 .. N - s :
                        s < t => g[s][l] = HashStep(D, g, s, l)
           T == {t \in Nat : Good(t)}
<1>1. 0 \in T
  BY SMT
<1>2. ASSUME NEW t \in Nat, t \in T PROVE t + 1 \in T
  <2>1. PICK g : \A s \in 0 .. N : \A l \in 0 .. N - s : s < t => g[s][l] = HashStep(D, g, s, l)
    BY <1>2
  <2> DEFINE h == Body(g)
  <2>2. ASSUME NEW s \in 0 .. N, NEW l \in 0 .. N - s, s < t + 1
        PROVE  h[s][l] = HashStep(D, h, s, l)
    <3>1. h[s][l] = HashStep(D, g, s, l)
      OBVIOUS
    <3>2. CASE s <= 1
      BY <3>1, <3>2 DEF HashStep
    <3>3. CASE s >= 2
      <4> DEFINE k == SplitSize(s)
      <4>1. k \in 1 .. s - 1
        BY <3>3, SplitBounds
      <4> HIDE DEF k
      <4>2. /\ k \in 0 .. N /\ l \in 0 .. N - k /\ k < t
            /\ s - k \in 0 .. N /\ l + k \in 0 .. N - (s - k) /\ s - k < t
        BY <4>1, <2>2
      <4>3. h[k][l] = HashStep(D, g, k, l) /\ h[s - k][l + k] = HashStep(D, g, s - k, l + k)
        BY <4>2
      <4>4. h[k][l] = g[k][l] /\ h[s - k][l + k] = g[s - k][l + k]
        BY <2>1, <4>2, <4>3
      <4> HIDE DEF h
      <4> QED
        BY <3>1, <3>3, <4>4 DEF HashStep, k
    <3> QED
      BY <3>2, <3>3
  <2>3. Good(t + 1)
    <3> HIDE DEF h
    <3> QED
      BY <2>2
  <2> HIDE DEF Good
  <2> QED
    BY <2>3
<1>3. N + 1 \in T
  <2> HIDE DEF T
  <2> QED
    BY <1>1, <1>2, Counting
<1>4. PICK g : \A s \in 0 .. N : \A l \in 0 .. N - s : g[s][l] = HashStep(D, g, s, l)
  <2>1. PICK g : \A s \in 0 .. N : \A l \in 0 .. N - s :
                   s < N + 1 => g[s][l] = HashStep(D, g, s, l)
    BY <1>3
  <2>2. \A s \in 0 .. N : s < N + 1
    OBVIOUS
  <2> QED
    BY <2>1, <2>2
<1> DEFINE h == [s \in 0 .. N |-> [l \in 0 .. N - s |-> g[s][l]]]
<1>5. h = Body(h)
  <2> SUFFICES ASSUME NEW s \in 0 .. N, NEW l \in 0 .. N - s
               PROVE  h[s][l] = HashStep(D, h, s, l)
    OBVIOUS
  <2>1. CASE s <= 1
    BY <1>4, <2>1 DEF HashStep
  <2>2. CASE s >= 2
    <3> DEFINE k == SplitSize(s)
    <3>1. k \in 1 .. s - 1
      BY <2>2, SplitBounds
    <3> HIDE DEF k
    <3>2. h[k][l] = g[k][l] /\ h[s - k][l + k] = g[s - k][l + k] /\ h[s][l] = g[s][l]
      BY <3>1
    <3> HIDE DEF h
    <3> QED
      BY <1>4, <2>2, <3>2 DEF HashStep, k
  <2> QED
    BY <2>1, <2>2
<1> HIDE DEF h
<1> DEFINE c == CHOOSE f : f = Body(f)
<1>6. c = Body(c)
  BY <1>5, Zenon
<1>7. Subtree(D) = c
  BY Zenon DEF Subtree, HashStep
<1> HIDE DEF c
<1>8. c[n] = [l \in 0 .. N - n |-> HashStep(D, c, n, l)]
  BY <1>6
<1>9. c[n][lo] = HashStep(D, c, n, lo)
  BY <1>8
<1> QED
  BY <1>7, <1>9

-----------------------------------------------------------------------------
(* Folds *)

\* One step up either tree.
ClimbEither(kind, current, step) ==
  IF kind = "pair" THEN ClimbPair(current, step) ELSE Climb(current, step)

\* FoldLeft takes the last place off a set of places.
FoldStep(kind, p, x, g, s) ==
  IF s = {} THEN x ELSE ClimbEither(kind, g[s \ {Max(s)}], p[Max(s)])

\* What the fold has computed for every set of places of the proof.
FoldTable(kind, p, x, g) ==
  \A s \in SUBSET DOMAIN p : g[s] = FoldStep(kind, p, x, g, s)

\* The recursion of the fold is defined: each set of places hands on a smaller one.
LEMMA FoldIsDefined ==
  ASSUME NEW kind, NEW x, NEW p, Len(p) \in Nat, DOMAIN p = 1 .. Len(p)
  PROVE  \E g : FoldTable(kind, p, x, g)
<1> DEFINE S == SUBSET DOMAIN p
           Body(g) == [s \in S |-> FoldStep(kind, p, x, g, s)]
           Good(t) == \E g : \A s \in S : s \subseteq 1 .. t => g[s] = FoldStep(kind, p, x, g, s)
           T == {t \in Nat : Good(t)}
<1>1. 0 \in T
  <2> DEFINE g == [s \in S |-> x]
  <2>1. \A s \in S : s \subseteq 1 .. 0 => g[s] = FoldStep(kind, p, x, g, s)
    BY DEF FoldStep
  <2>2. Good(0)
    <3> HIDE DEF g
    <3> QED
      BY <2>1
  <2> HIDE DEF Good
  <2> QED
    BY <2>2
<1>2. ASSUME NEW t \in Nat, t \in T PROVE t + 1 \in T
  <2>1. PICK g : \A s \in S : s \subseteq 1 .. t => g[s] = FoldStep(kind, p, x, g, s)
    BY <1>2
  <2> DEFINE h == Body(g)
  <2>2. \A s \in S : s \subseteq 1 .. t => h[s] = g[s]
    BY <2>1
  <2>3. ASSUME NEW s \in S, s \subseteq 1 .. t + 1 PROVE h[s] = FoldStep(kind, p, x, h, s)
    <3>1. h[s] = FoldStep(kind, p, x, g, s)
      OBVIOUS
    <3> HIDE DEF h
    <3>2. CASE s = {}
      BY <3>1, <3>2 DEF FoldStep
    <3>3. CASE s # {}
      <4>1. s \ {Max(s)} \in S
        OBVIOUS
      <4>2. s \ {Max(s)} \subseteq 1 .. t
        <5>1. CASE t + 1 \in s
          <6>1. \A y \in s : t + 1 >= y
            BY <2>3
          <6>2. Max(s) \in s /\ \A y \in s : Max(s) >= y
            BY <5>1, <6>1 DEF Max
          <6>3. Max(s) = t + 1
            BY <5>1, <6>1, <6>2, <2>3
          <6> QED
            BY <6>3, <2>3
        <5>2. CASE t + 1 \notin s
          BY <5>2, <2>3
        <5> QED
          BY <5>1, <5>2
      <4>3. h[s \ {Max(s)}] = g[s \ {Max(s)}]
        BY <2>2, <4>1, <4>2
      <4> QED
        BY <3>1, <3>3, <4>3 DEF FoldStep
    <3> QED
      BY <3>2, <3>3
  <2>4. Good(t + 1)
    <3> HIDE DEF h
    <3> QED
      BY <2>3
  <2> HIDE DEF Good
  <2> QED
    BY <2>4
<1>3. Len(p) \in T
  <2> HIDE DEF T
  <2> QED
    BY <1>1, <1>2, Counting
<1> QED
  BY <1>3 DEF FoldTable

\* The fold over a proof goes from node to node, up either tree.
LEMMA FoldClimbs ==
  ASSUME NEW kind, NEW x, NEW p, Len(p) \in Nat, DOMAIN p = 1 .. Len(p),
         NEW c, FoldTable(kind, p, x, c)
  PROVE  /\ c[1 .. 0] = x
         /\ \A i \in 1 .. Len(p) : c[1 .. i] = ClimbEither(kind, c[1 .. i - 1], p[i])
<1>1. c[1 .. 0] = x
  <2>1. 1 .. 0 \in SUBSET DOMAIN p /\ 1 .. 0 = {}
    OBVIOUS
  <2>2. c[1 .. 0] = FoldStep(kind, p, x, c, 1 .. 0)
    BY <2>1 DEF FoldTable
  <2> QED
    BY <2>1, <2>2 DEF FoldStep
<1>2. ASSUME NEW i \in 1 .. Len(p) PROVE c[1 .. i] = ClimbEither(kind, c[1 .. i - 1], p[i])
  <2>1. 1 .. i \in SUBSET DOMAIN p /\ i \in 1 .. i
    OBVIOUS
  <2>2. Max(1 .. i) = i
    <3>1. i \in 1 .. i /\ \A y \in 1 .. i : i >= y
      OBVIOUS
    <3>2. Max(1 .. i) \in 1 .. i /\ \A y \in 1 .. i : Max(1 .. i) >= y
      BY <3>1 DEF Max
    <3> QED
      BY <3>1, <3>2
  <2>3. (1 .. i) \ {i} = 1 .. i - 1
    OBVIOUS
  <2>4. c[1 .. i] = FoldStep(kind, p, x, c, 1 .. i)
    BY <2>1 DEF FoldTable
  <2> QED
    BY <2>1, <2>2, <2>3, <2>4 DEF FoldStep
<1> QED
  BY <1>1, <1>2

\* Where verifyInclusionHex ends.
ClimbAll(x, p) == FoldLeft(Climb, x, p)

\* verifyInclusionHex climbs from the leaf hash, node by node.
LEMMA InclusionClimbs ==
  ASSUME NEW x, NEW p, Len(p) \in Nat, DOMAIN p = 1 .. Len(p)
  PROVE  \E d : /\ d[0] = x
                /\ \A i \in 1 .. Len(p) : d[i] = Climb(d[i - 1], p[i])
                /\ ClimbAll(x, p) = d[Len(p)]
<1> DEFINE Body(f) == [s \in SUBSET DOMAIN p |->
                         IF s = {} THEN x ELSE Climb(f[s \ {Max(s)}], p[Max(s)])]
           c == CHOOSE f : f = Body(f)
<1>1. ClimbAll(x, p) = c[DOMAIN p]
  BY Zenon DEF ClimbAll, FoldLeft, MapThenFoldSet
<1>2. ASSUME NEW f, NEW s
      PROVE  FoldStep("node", p, x, f, s) = IF s = {} THEN x ELSE Climb(f[s \ {Max(s)}], p[Max(s)])
  BY DEF FoldStep, ClimbEither
<1>3. PICK g : FoldTable("node", p, x, g)
  BY FoldIsDefined
<1> DEFINE h == [s \in SUBSET DOMAIN p |-> g[s]]
<1>4. h = Body(h)
  <2> SUFFICES ASSUME NEW s \in SUBSET DOMAIN p
               PROVE  h[s] = IF s = {} THEN x ELSE Climb(h[s \ {Max(s)}], p[Max(s)])
    OBVIOUS
  <2>1. s \ {Max(s)} \in SUBSET DOMAIN p
    OBVIOUS
  <2>2. h[s] = g[s] /\ h[s \ {Max(s)}] = g[s \ {Max(s)}]
    BY <2>1
  <2> HIDE DEF h
  <2> QED
    BY <2>2, <1>2, <1>3 DEF FoldTable
<1> HIDE DEF h
<1>5. c = Body(c)
  <2> HIDE DEF Body
  <2> QED
    BY <1>4, Zenon
<1> HIDE DEF c
<1>6. FoldTable("node", p, x, c)
  BY <1>2, <1>5 DEF FoldTable
<1>7. /\ c[1 .. 0] = x
      /\ \A i \in 1 .. Len(p) : c[1 .. i] = ClimbEither("node", c[1 .. i - 1], p[i])
  BY <1>6, FoldClimbs
<1> DEFINE d == [i \in 0 .. Len(p) |-> c[1 .. i]]
<1>8. d[0] = x /\ d[Len(p)] = c[DOMAIN p]
  BY <1>7
<1>9. ASSUME NEW i \in 1 .. Len(p) PROVE d[i] = Climb(d[i - 1], p[i])
  <2>1. d[i] = c[1 .. i] /\ d[i - 1] = c[1 .. i - 1]
    OBVIOUS
  <2> QED
    BY <1>7, <2>1 DEF ClimbEither
<1> HIDE DEF d
<1> QED
  BY <1>1, <1>8, <1>9

\* A function on 1 .. Len(p) is what the operators on sequences take.
Listed(p) == Len(p) \in Nat /\ p = [i \in 1 .. Len(p) |-> p[i]]

\* Appending adds one place and leaves the others.
LEMMA ListedAppend ==
  ASSUME NEW p, Listed(p), NEW x
  PROVE  /\ Listed(Append(p, x))
         /\ Len(Append(p, x)) = Len(p) + 1
         /\ \A i \in 1 .. Len(p) : Append(p, x)[i] = p[i]
         /\ Append(p, x)[Len(p) + 1] = x
<1> DEFINE S == {p[i] : i \in 1 .. Len(p)} \cup {x}
<1>1. p \in Seq(S) /\ x \in S
  BY DEF Listed
<1>2. Append(p, x) \in Seq(S)
  <2> HIDE DEF S
  <2> QED
    BY <1>1
<1>3. /\ Len(Append(p, x)) = Len(p) + 1
      /\ \A i \in 1 .. Len(p) : Append(p, x)[i] = p[i]
      /\ Append(p, x)[Len(p) + 1] = x
  <2> HIDE DEF S
  <2> QED
    BY <1>1
<1>4. Listed(Append(p, x))
  <2> DEFINE q == Append(p, x)
  <2>1. q \in Seq(S)
    BY <1>2
  <2> HIDE DEF S, q
  <2>2. Len(q) \in Nat /\ q \in [1 .. Len(q) -> S]
    BY <2>1, LenProperties
  <2>3. Listed(q)
    BY <2>2 DEF Listed
  <2> QED
    BY <2>3 DEF q
<1> QED
  BY <1>3, <1>4

\* Climbing a path that has grown by one step ends one step above.
LEMMA ClimbAppend ==
  ASSUME NEW x, NEW p, Listed(p), NEW step
  PROVE  /\ ClimbAll(x, <<>>) = x
         /\ ClimbAll(x, Append(p, step)) = Climb(ClimbAll(x, p), step)
<1>1. ClimbAll(x, <<>>) = x
  <2>1. PICK d : d[0] = x /\ ClimbAll(x, <<>>) = d[Len(<<>>)]
    <3>1. Len(<<>>) \in Nat /\ DOMAIN <<>> = 1 .. Len(<<>>)
      OBVIOUS
    <3> QED
      BY <3>1, InclusionClimbs
  <2> QED
    BY <2>1
<1> DEFINE q == Append(p, step)
<1>2. /\ Len(p) \in Nat /\ DOMAIN p = 1 .. Len(p)
      /\ Len(q) = Len(p) + 1 /\ DOMAIN q = 1 .. Len(q)
      /\ \A i \in 1 .. Len(p) : q[i] = p[i]
      /\ q[Len(p) + 1] = step
  <2>1. DOMAIN p = 1 .. Len(p)
    BY DEF Listed
  <2>2. DOMAIN q = 1 .. Len(q)
    BY ListedAppend DEF Listed
  <2> QED
    BY <2>1, <2>2, ListedAppend DEF Listed
<1> HIDE DEF q
<1>3. PICK d : /\ d[0] = x
               /\ \A i \in 1 .. Len(p) : d[i] = Climb(d[i - 1], p[i])
               /\ ClimbAll(x, p) = d[Len(p)]
  BY <1>2, InclusionClimbs
<1>4. PICK e : /\ e[0] = x
               /\ \A i \in 1 .. Len(q) : e[i] = Climb(e[i - 1], q[i])
               /\ ClimbAll(x, q) = e[Len(q)]
  BY <1>2, InclusionClimbs
<1> DEFINE T == {i \in Nat : i <= Len(p) => e[i] = d[i]}
<1>5. 0 \in T
  BY <1>3, <1>4
<1>6. ASSUME NEW i \in Nat, i \in T PROVE i + 1 \in T
  <2> SUFFICES ASSUME i + 1 <= Len(p) PROVE e[i + 1] = d[i + 1]
    OBVIOUS
  <2>1. e[i] = d[i] /\ i + 1 \in 1 .. Len(p) /\ i + 1 \in 1 .. Len(q) /\ (i + 1) - 1 = i
    BY <1>2, <1>6
  <2>2. e[i + 1] = Climb(e[i], q[i + 1]) /\ d[i + 1] = Climb(d[i], p[i + 1])
    BY <2>1, <1>3, <1>4
  <2> QED
    BY <2>1, <2>2, <1>2
<1>7. Len(p) \in T
  <2> HIDE DEF T
  <2> QED
    BY <1>2, <1>5, <1>6, Counting
<1>8. e[Len(p)] = d[Len(p)]
  BY <1>2, <1>7
<1>9. e[Len(q)] = Climb(e[Len(p)], step)
  <2>1. Len(q) \in 1 .. Len(q) /\ Len(q) - 1 = Len(p)
    BY <1>2
  <2> QED
    BY <2>1, <1>2, <1>4
<1> QED
  BY <1>1, <1>3, <1>4, <1>8, <1>9 DEF q

-----------------------------------------------------------------------------
(* What a root and an inclusion path bind *)

SameLeaves(D, E, n, lo, ho) == \A i \in 1 .. n : D[lo + i] = E[ho + i]

\* Subtrees of n leaves have one hash exactly when they have the same leaves.
Binds(D, E, n) ==
  \A lo \in Nat : \A ho \in Nat :
    lo + n <= Len(D) /\ ho + n <= Len(E) =>
      (Subtree(D)[n][lo] = Subtree(E)[n][ho] <=> SameLeaves(D, E, n, lo, ho))

\* The same leaves in two pieces.
LEMMA SameLeavesSplit ==
  ASSUME NEW D, NEW E, NEW n \in Nat, NEW k \in 1 .. n, NEW a \in Nat, NEW b \in Nat
  PROVE  SameLeaves(D, E, n, a, b) <=>
           SameLeaves(D, E, k, a, b) /\ SameLeaves(D, E, n - k, a + k, b + k)
<1>1. ASSUME SameLeaves(D, E, n, a, b)
      PROVE  SameLeaves(D, E, k, a, b) /\ SameLeaves(D, E, n - k, a + k, b + k)
  <2>1. SameLeaves(D, E, k, a, b)
    BY <1>1 DEF SameLeaves
  <2>2. ASSUME NEW i \in 1 .. n - k PROVE D[a + k + i] = E[b + k + i]
    <3>1. k + i \in 1 .. n /\ a + (k + i) = a + k + i /\ b + (k + i) = b + k + i
      OBVIOUS
    <3>2. D[a + (k + i)] = E[b + (k + i)]
      BY <1>1, <3>1 DEF SameLeaves
    <3> QED
      BY <3>1, <3>2
  <2> QED
    BY <2>1, <2>2 DEF SameLeaves
<1>2. ASSUME SameLeaves(D, E, k, a, b), SameLeaves(D, E, n - k, a + k, b + k)
      PROVE  SameLeaves(D, E, n, a, b)
  <2> SUFFICES ASSUME NEW i \in 1 .. n PROVE D[a + i] = E[b + i]
    BY DEF SameLeaves
  <2>1. CASE i <= k
    BY <1>2, <2>1 DEF SameLeaves
  <2>2. CASE i > k
    <3>1. i - k \in 1 .. n - k /\ a + k + (i - k) = a + i /\ b + k + (i - k) = b + i
      BY <2>2
    <3>2. D[a + k + (i - k)] = E[b + k + (i - k)]
      BY <1>2, <3>1 DEF SameLeaves
    <3> QED
      BY <3>1, <3>2
  <2> QED
    BY <2>1, <2>2
<1> QED
  BY <1>1, <1>2

\* A tree is bound by its two sides.
LEMMA BindsStep ==
  ASSUME NEW D, NEW E, Len(D) \in Nat, Len(E) \in Nat, NEW n \in Nat,
         \A k \in 0 .. n - 1 : Binds(D, E, k)
  PROVE  Binds(D, E, n)
<1> SUFFICES ASSUME NEW a \in Nat, NEW b \in Nat, a + n <= Len(D), b + n <= Len(E)
             PROVE  Subtree(D)[n][a] = Subtree(E)[n][b] <=> SameLeaves(D, E, n, a, b)
  BY DEF Binds
<1>1. /\ Subtree(D)[n][a] = HashStep(D, Subtree(D), n, a)
      /\ Subtree(E)[n][b] = HashStep(E, Subtree(E), n, b)
  <2>1. n \in 0 .. Len(D) /\ a \in 0 .. Len(D) - n /\ n \in 0 .. Len(E) /\ b \in 0 .. Len(E) - n
    OBVIOUS
  <2> QED
    BY <2>1, SubtreeStep
<1>2. CASE n = 0
  BY <1>1, <1>2 DEF HashStep, SameLeaves
<1>3. CASE n = 1
  BY <1>1, <1>3, LeafBinds DEF HashStep, SameLeaves
<1>4. CASE n >= 2
  <2>1. PICK k \in 1 .. n - 1 : k = SplitSize(n)
    BY <1>4, SplitBounds
  <2>2. Subtree(D)[n][a] = HashChildren(Subtree(D)[k][a], Subtree(D)[n - k][a + k])
    BY <1>1, <1>4, <2>1 DEF HashStep
  <2>3. Subtree(E)[n][b] = HashChildren(Subtree(E)[k][b], Subtree(E)[n - k][b + k])
    BY <1>1, <1>4, <2>1 DEF HashStep
  <2>4. k \in Nat /\ k \in 1 .. n /\ n - k \in Nat /\ k \in 0 .. n - 1 /\ n - k \in 0 .. n - 1
    BY <2>1
  <2>5. Binds(D, E, k) /\ Binds(D, E, n - k)
    BY <2>4
  <2>6. (Subtree(D)[k][a] = Subtree(E)[k][b]) <=> SameLeaves(D, E, k, a, b)
    <3>1. a + k <= Len(D) /\ b + k <= Len(E)
      BY <2>4
    <3> QED
      BY <2>5, <3>1 DEF Binds
  <2>7. (Subtree(D)[n - k][a + k] = Subtree(E)[n - k][b + k])
          <=> SameLeaves(D, E, n - k, a + k, b + k)
    <3>1. a + k \in Nat /\ b + k \in Nat /\ a + k + (n - k) <= Len(D) /\ b + k + (n - k) <= Len(E)
      BY <2>4
    <3> QED
      BY <3>1, <2>5 DEF Binds
  <2>8. SameLeaves(D, E, n, a, b) <=>
          SameLeaves(D, E, k, a, b) /\ SameLeaves(D, E, n - k, a + k, b + k)
    BY <2>4, SameLeavesSplit
  <2>9. ASSUME Subtree(D)[n][a] = Subtree(E)[n][b] PROVE SameLeaves(D, E, n, a, b)
    <3>1. /\ Subtree(D)[k][a] = Subtree(E)[k][b]
          /\ Subtree(D)[n - k][a + k] = Subtree(E)[n - k][b + k]
      <4>1. HashChildren(Subtree(D)[k][a], Subtree(D)[n - k][a + k])
              = HashChildren(Subtree(E)[k][b], Subtree(E)[n - k][b + k])
        BY <2>2, <2>3, <2>9
      <4> QED
        BY <4>1, ChildrenBind
    <3> QED
      BY <3>1, <2>6, <2>7, <2>8
  <2>10. ASSUME SameLeaves(D, E, n, a, b) PROVE Subtree(D)[n][a] = Subtree(E)[n][b]
    <3>1. /\ Subtree(D)[k][a] = Subtree(E)[k][b]
          /\ Subtree(D)[n - k][a + k] = Subtree(E)[n - k][b + k]
      BY <2>10, <2>6, <2>7, <2>8
    <3> QED
      BY <3>1, <2>2, <2>3
  <2> QED
    BY <2>9, <2>10
<1> QED
  BY <1>2, <1>3, <1>4

\* A subtree hash stands for its leaves and for no others.
LEMMA SubtreeBinds ==
  ASSUME NEW D, NEW E, Len(D) \in Nat, Len(E) \in Nat, NEW n \in Nat
  PROVE  Binds(D, E, n)
<1> DEFINE T == {t \in Nat : \A s \in 0 .. t : Binds(D, E, s)}
<1>1. 0 \in T
  BY BindsStep
<1>2. ASSUME NEW t \in Nat, t \in T PROVE t + 1 \in T
  <2>1. Binds(D, E, t + 1)
    <3>1. \A k \in 0 .. (t + 1) - 1 : Binds(D, E, k)
      BY <1>2
    <3> QED
      BY <3>1, BindsStep
  <2> QED
    BY <2>1, <1>2
<1>3. n \in T
  <2> HIDE DEF T
  <2> QED
    BY <1>1, <1>2, Counting
<1> QED
  BY <1>3

\* Two logs of one length with one root are one log.
THEOREM RootBinds ==
  ASSUME NEW D, NEW E, Listed(D), Listed(E), Len(D) = Len(E)
  PROVE  Root(D) = Root(E) <=> D = E
<1> DEFINE n == Len(D)
<1>1. n \in Nat /\ Len(E) = n
  BY DEF Listed
<1>2. Binds(D, E, n)
  BY <1>1, SubtreeBinds
<1>3. D = [i \in 1 .. n |-> D[i]] /\ E = [i \in 1 .. n |-> E[i]]
  BY DEF Listed
<1> HIDE DEF n
<1>4. Subtree(D)[n][0] = Subtree(E)[n][0] <=> SameLeaves(D, E, n, 0, 0)
  BY <1>1, <1>2 DEF Binds, n
<1>5. SameLeaves(D, E, n, 0, 0) <=> \A i \in 1 .. n : D[i] = E[i]
  BY <1>1 DEF SameLeaves
<1>6. (\A i \in 1 .. n : D[i] = E[i]) => D = E
  BY <1>3
<1> QED
  BY <1>1, <1>4, <1>5, <1>6 DEF Root, n

\* The path of leaf m among the n leaves from lo on, out of the paths among fewer.
PathStep(m, D, g, n, lo) ==
  IF n <= 1 THEN <<>>
  ELSE IF m < lo + SplitSize(n)
       THEN Append(g[SplitSize(n)][lo],
                   Step(Subtree(D)[n - SplitSize(n)][lo + SplitSize(n)], "right"))
       ELSE Append(g[n - SplitSize(n)][lo + SplitSize(n)], Step(Subtree(D)[SplitSize(n)][lo], "left"))

\* auditPath is defined: each tree is split into smaller ones.
LEMMA AuditPathSteps ==
  ASSUME NEW m, NEW D, Len(D) \in Nat
  PROVE  \E p : /\ AuditPath(m, D) = p[Len(D)][0]
                /\ \A n \in 0 .. Len(D) : \A lo \in 0 .. Len(D) - n :
                     p[n][lo] = PathStep(m, D, p, n, lo)
<1> DEFINE N == Len(D)
           Body(g) == [s \in 0 .. N |-> [l \in 0 .. N - s |-> PathStep(m, D, g, s, l)]]
           Good(t) == \E g : \A s \in 0 .. N : \A l \in 0 .. N - s :
                        s < t => g[s][l] = PathStep(m, D, g, s, l)
           T == {t \in Nat : Good(t)}
<1>1. 0 \in T
  BY SMT
<1>2. ASSUME NEW t \in Nat, t \in T PROVE t + 1 \in T
  <2>1. PICK g : \A s \in 0 .. N : \A l \in 0 .. N - s : s < t => g[s][l] = PathStep(m, D, g, s, l)
    BY <1>2
  <2> DEFINE h == Body(g)
  <2>2. ASSUME NEW s \in 0 .. N, NEW l \in 0 .. N - s, s < t + 1
        PROVE  h[s][l] = PathStep(m, D, h, s, l)
    <3>1. h[s][l] = PathStep(m, D, g, s, l)
      OBVIOUS
    <3>2. CASE s <= 1
      BY <3>1, <3>2 DEF PathStep
    <3>3. CASE s >= 2
      <4> DEFINE k == SplitSize(s)
      <4>1. k \in 1 .. s - 1
        BY <3>3, SplitBounds
      <4> HIDE DEF k
      <4>2. /\ k \in 0 .. N /\ l \in 0 .. N - k /\ k < t
            /\ s - k \in 0 .. N /\ l + k \in 0 .. N - (s - k) /\ s - k < t
        BY <4>1, <2>2
      <4>3. h[k][l] = PathStep(m, D, g, k, l) /\ h[s - k][l + k] = PathStep(m, D, g, s - k, l + k)
        BY <4>2
      <4>4. h[k][l] = g[k][l] /\ h[s - k][l + k] = g[s - k][l + k]
        BY <2>1, <4>2, <4>3
      <4> HIDE DEF h
      <4> QED
        BY <3>1, <3>3, <4>4 DEF PathStep, k
    <3> QED
      BY <3>2, <3>3
  <2>3. Good(t + 1)
    <3> HIDE DEF h
    <3> QED
      BY <2>2
  <2> HIDE DEF Good
  <2> QED
    BY <2>3
<1>3. N + 1 \in T
  <2> HIDE DEF T
  <2> QED
    BY <1>1, <1>2, Counting
<1>4. PICK g : \A s \in 0 .. N : \A l \in 0 .. N - s : g[s][l] = PathStep(m, D, g, s, l)
  BY <1>3
<1> DEFINE h == [s \in 0 .. N |-> [l \in 0 .. N - s |-> g[s][l]]]
<1>5. h = Body(h)
  <2> SUFFICES ASSUME NEW s \in 0 .. N, NEW l \in 0 .. N - s
               PROVE  h[s][l] = PathStep(m, D, h, s, l)
    OBVIOUS
  <2>1. CASE s <= 1
    BY <1>4, <2>1 DEF PathStep
  <2>2. CASE s >= 2
    <3> DEFINE k == SplitSize(s)
    <3>1. k \in 1 .. s - 1
      BY <2>2, SplitBounds
    <3> HIDE DEF k
    <3>2. h[k][l] = g[k][l] /\ h[s - k][l + k] = g[s - k][l + k] /\ h[s][l] = g[s][l]
      BY <3>1
    <3> HIDE DEF h
    <3> QED
      BY <1>4, <2>2, <3>2 DEF PathStep, k
  <2> QED
    BY <2>1, <2>2
<1> HIDE DEF h
<1> DEFINE c == CHOOSE f : f = Body(f)
<1>6. c = Body(c)
  BY <1>5, Zenon
<1>7. AuditPath(m, D) = c[N][0]
  BY Zenon DEF AuditPath, PathStep
<1> HIDE DEF c
<1>8. ASSUME NEW n \in 0 .. N, NEW lo \in 0 .. N - n PROVE c[n][lo] = PathStep(m, D, c, n, lo)
  <2>1. c[n] = [l \in 0 .. N - n |-> PathStep(m, D, c, n, l)]
    BY <1>6
  <2> QED
    BY <2>1
<1> QED
  BY <1>7, <1>8

-----------------------------------------------------------------------------
(* An audit path leads from its leaf to the root *)

\* A path climbs to the root from the leaf hash of D[m + 1] and from nothing else.
Leads(D, m, path, root) ==
  /\ Listed(path)
  /\ \A x : ClimbAll(x, path) = root <=> x = HashLeaf(D[m + 1])

\* One more step takes the path of a side of a tree to the top of the tree.
LEMMA LeadsOn ==
  ASSUME NEW D, NEW m, NEW path, NEW l, NEW r
  PROVE  /\ Leads(D, m, path, l) => Leads(D, m, Append(path, Step(r, "right")), HashChildren(l, r))
         /\ Leads(D, m, path, r) => Leads(D, m, Append(path, Step(l, "left")), HashChildren(l, r))
<1>1. ASSUME Leads(D, m, path, l)
      PROVE  Leads(D, m, Append(path, Step(r, "right")), HashChildren(l, r))
  <2> DEFINE step == Step(r, "right")
  <2>1. Listed(path) /\ Listed(Append(path, step))
    BY <1>1, ListedAppend DEF Leads
  <2>2. ASSUME NEW x
        PROVE  ClimbAll(x, Append(path, step)) = HashChildren(l, r) <=> x = HashLeaf(D[m + 1])
    <3>1. ClimbAll(x, Append(path, step)) = Climb(ClimbAll(x, path), step)
      BY <2>1, ClimbAppend
    <3>2. Climb(ClimbAll(x, path), step) = HashChildren(ClimbAll(x, path), r)
      BY DEF Climb, Step
    <3>3. HashChildren(ClimbAll(x, path), r) = HashChildren(l, r) => ClimbAll(x, path) = l
      BY ChildrenBind
    <3> QED
      BY <3>1, <3>2, <3>3, <1>1 DEF Leads
  <2> QED
    BY <2>1, <2>2 DEF Leads
<1>2. ASSUME Leads(D, m, path, r)
      PROVE  Leads(D, m, Append(path, Step(l, "left")), HashChildren(l, r))
  <2> DEFINE step == Step(l, "left")
  <2>1. Listed(path) /\ Listed(Append(path, step))
    BY <1>2, ListedAppend DEF Leads
  <2>2. ASSUME NEW x
        PROVE  ClimbAll(x, Append(path, step)) = HashChildren(l, r) <=> x = HashLeaf(D[m + 1])
    <3>1. ClimbAll(x, Append(path, step)) = Climb(ClimbAll(x, path), step)
      BY <2>1, ClimbAppend
    <3>2. Climb(ClimbAll(x, path), step) = HashChildren(l, ClimbAll(x, path))
      BY DEF Climb, Step
    <3>3. HashChildren(l, ClimbAll(x, path)) = HashChildren(l, r) => ClimbAll(x, path) = r
      BY ChildrenBind
    <3> QED
      BY <3>1, <3>2, <3>3, <1>2 DEF Leads
  <2> QED
    BY <2>1, <2>2 DEF Leads
<1> QED
  BY <1>1, <1>2

\* An empty path leads nowhere.
LEMMA LeadsHere ==
  ASSUME NEW D, NEW m
  PROVE  Leads(D, m, <<>>, HashLeaf(D[m + 1]))
<1>1. Listed(<<>>)
  BY DEF Listed
<1>2. \A x : ClimbAll(x, <<>>) = x
  BY <1>1, ClimbAppend
<1> QED
  BY <1>1, <1>2 DEF Leads

\* The path auditPath builds for a leaf leads from that leaf to the root.
LEMMA AuditPathLeads ==
  ASSUME NEW D, Len(D) \in Nat, NEW m \in 0 .. Len(D) - 1
  PROVE  Leads(D, m, AuditPath(m, D), Root(D))
<1>1. PICK p : /\ AuditPath(m, D) = p[Len(D)][0]
               /\ \A n \in 0 .. Len(D) : \A lo \in 0 .. Len(D) - n :
                    p[n][lo] = PathStep(m, D, p, n, lo)
  BY AuditPathSteps
<1> DEFINE Good(n) == \A lo \in 0 .. Len(D) - n :
                        lo <= m /\ m < lo + n => Leads(D, m, p[n][lo], Subtree(D)[n][lo])
           T == {t \in Nat : \A n \in 0 .. Len(D) : n < t => Good(n)}
<1>2. 0 \in T
  BY SMT
<1>3. ASSUME NEW t \in Nat, t \in T PROVE t + 1 \in T
  <2> SUFFICES ASSUME NEW n \in 0 .. Len(D), n < t + 1, NEW lo \in 0 .. Len(D) - n,
                      lo <= m, m < lo + n
               PROVE  Leads(D, m, p[n][lo], Subtree(D)[n][lo])
    OBVIOUS
  <2>1. Subtree(D)[n][lo] = HashStep(D, Subtree(D), n, lo)
    BY SubtreeStep
  <2>2. p[n][lo] = PathStep(m, D, p, n, lo)
    BY <1>1
  <2>3. CASE n <= 1
    <3>1. n = 1 /\ lo = m
      BY <2>3
    <3>2. Subtree(D)[n][lo] = HashLeaf(D[m + 1]) /\ p[n][lo] = <<>>
      BY <2>1, <2>2, <3>1 DEF HashStep, PathStep
    <3> QED
      BY <3>2, LeadsHere
  <2>4. CASE n >= 2
    <3>1. PICK k \in 1 .. n - 1 : k = SplitSize(n)
      BY <2>4, SplitBounds
    <3> DEFINE l == Subtree(D)[k][lo]
               r == Subtree(D)[n - k][lo + k]
    <3>2. Subtree(D)[n][lo] = HashChildren(l, r)
      BY <2>1, <2>4, <3>1 DEF HashStep
    <3>2a. ~ (n <= 1)
      BY <2>4
    <3>3. CASE m < lo + k
      <4>1. p[n][lo] = Append(p[k][lo], Step(r, "right"))
        BY <2>2, <3>1, <3>2a, <3>3, Zenon DEF PathStep
      <4>2. k \in 0 .. Len(D) /\ k < t /\ lo \in 0 .. Len(D) - k
        BY <3>1
      <4>3. Leads(D, m, p[k][lo], l)
        BY <4>2, <1>3, <3>3
      <4> HIDE DEF l, r
      <4> QED
        BY <3>2, <4>1, <4>3, LeadsOn
    <3>4. CASE ~ (m < lo + k)
      <4>1. p[n][lo] = Append(p[n - k][lo + k], Step(l, "left"))
        BY <2>2, <3>1, <3>2a, <3>4, Zenon DEF PathStep
      <4>2. /\ n - k \in 0 .. Len(D) /\ n - k < t /\ lo + k \in 0 .. Len(D) - (n - k)
            /\ lo + k <= m /\ m < lo + k + (n - k)
        BY <3>1, <3>4
      <4>3. Leads(D, m, p[n - k][lo + k], r)
        BY <4>2, <1>3
      <4> HIDE DEF l, r
      <4> QED
        BY <3>2, <4>1, <4>3, LeadsOn
    <3> QED
      BY <3>3, <3>4
  <2> QED
    BY <2>3, <2>4
<1>4. Len(D) + 1 \in T
  <2> HIDE DEF T
  <2> QED
    BY <1>2, <1>3, Counting
<1>5. Good(Len(D))
  BY <1>4
<1> QED
  BY <1>1, <1>5 DEF Root

\* The path that auditPath builds for a place takes the leaf at that place to the root,
\* and no other (inclusionProofHex, verifyInclusionHex).
THEOREM InclusionBinds ==
  ASSUME NEW D, Len(D) \in Nat, NEW m \in 0 .. Len(D) - 1, NEW x
  PROVE  VerifyInclusionPath(HashLeaf(x), AuditPath(m, D), Root(D)) <=> x = D[m + 1]
<1>1. PICK path : path = AuditPath(m, D)
  OBVIOUS
<1>2. Leads(D, m, path, Root(D))
  BY <1>1, AuditPathLeads
<1>3. ClimbAll(HashLeaf(x), path) = Root(D) <=> HashLeaf(x) = HashLeaf(D[m + 1])
  BY <1>2 DEF Leads
<1>4. HashLeaf(x) = HashLeaf(D[m + 1]) <=> x = D[m + 1]
  BY LeafBinds
<1> QED
  BY <1>1, <1>3, <1>4 DEF VerifyInclusionPath, ClimbAll

-----------------------------------------------------------------------------
(* Consistency proofs *)

NodeAt(proof, i)  == IF i <= Len(proof) THEN proof[i] ELSE <<"none">>
AfterAt(proof, i) == IF i <= Len(proof) THEN i + 1 ELSE Len(proof) + 2

\* subverify for a tree split into its left side of k leaves and the rest.
RebuiltLeft(proof, left) ==
  [old |-> left.old, new |-> HashChildren(left.new, NodeAt(proof, left.next)),
   next |-> AfterAt(proof, left.next)]

RebuiltRight(proof, right) ==
  [old |-> HashChildren(NodeAt(proof, right.next), right.old),
   new |-> HashChildren(NodeAt(proof, right.next), right.new),
   next |-> AfterAt(proof, right.next)]

RebuiltHere(first, firstRoot, proof, m, i) ==
  IF m = first THEN [old |-> firstRoot, new |-> firstRoot, next |-> i]
               ELSE [old |-> NodeAt(proof, i), new |-> NodeAt(proof, i), next |-> AfterAt(proof, i)]

\* subverify for a tree of n leaves, out of what it returns for fewer.
RebuildStep(first, firstRoot, proof, g, n, m, i) ==
  IF n <= m THEN RebuiltHere(first, firstRoot, proof, m, i)
  ELSE IF m <= SplitSize(n) THEN RebuiltLeft(proof, g[SplitSize(n)][m][i])
                            ELSE RebuiltRight(proof, g[n - SplitSize(n)][m - SplitSize(n)][i])

\* What subverify returns for every slice of the tree.
RebuildTable(first, second, firstRoot, proof, g) ==
  \A n \in 1 .. second : \A m \in 1 .. first : \A i \in 1 .. Len(proof) + 2 :
    g[n][m][i] = RebuildStep(first, firstRoot, proof, g, n, m, i)

\* subverify is defined: each tree is split into smaller ones.
LEMMA RebuildSteps ==
  ASSUME NEW first \in Nat, NEW second \in Nat, NEW firstRoot, NEW proof, Len(proof) \in Nat
  PROVE  \E v : /\ Rebuild(first, second, firstRoot, proof) = v[second][first][1]
                /\ RebuildTable(first, second, firstRoot, proof, v)
<1> DEFINE Is == 1 .. Len(proof) + 2
           At(g, n, m, i) == RebuildStep(first, firstRoot, proof, g, n, m, i)
           Body(g) == [n \in 1 .. second |-> [m \in 1 .. first |-> [i \in Is |-> At(g, n, m, i)]]]
           Upto(t, g) == \A n \in 1 .. second : n < t =>
                           \A m \in 1 .. first : \A i \in Is : g[n][m][i] = At(g, n, m, i)
           T == {t \in Nat : \E g : Upto(t, g)}
<1>1. 0 \in T
  BY SMT
<1>2. ASSUME NEW t \in Nat, t \in T PROVE t + 1 \in T
  <2>1. PICK g : Upto(t, g)
    BY <1>2
  <2> DEFINE h == Body(g)
  <2>2. ASSUME NEW n \in 1 .. second, NEW m \in 1 .. first, NEW i \in Is
        PROVE  h[n][m][i] = At(g, n, m, i)
    OBVIOUS
  <2>3. ASSUME NEW n \in 1 .. second, NEW m \in 1 .. first, NEW i \in Is, n < t
        PROVE  h[n][m][i] = g[n][m][i]
    <3> HIDE DEF h, At, Is
    <3> QED
      BY <2>1, <2>2, <2>3
  <2>4. ASSUME NEW n \in 1 .. second, n < t + 1, NEW m \in 1 .. first, NEW i \in Is
        PROVE  h[n][m][i] = At(h, n, m, i)
    <3>1. CASE n <= m
      BY <2>2, <3>1 DEF RebuildStep
    <3>2. CASE ~ (n <= m)
      <4>1. PICK k \in 1 .. n - 1 : k = SplitSize(n)
        BY <3>2, SplitBounds
      <4>2. CASE m <= k
        <5>1. k \in 1 .. second /\ k < t
          BY <4>1, <2>4
        <5>2. h[k][m][i] = g[k][m][i]
          BY <5>1, <2>3
        <5>3. At(g, n, m, i) = RebuiltLeft(proof, g[k][m][i])
          BY <3>2, <4>1, <4>2, Zenon DEF RebuildStep
        <5>4. At(h, n, m, i) = RebuiltLeft(proof, h[k][m][i])
          <6> HIDE DEF h
          <6> QED
            BY <3>2, <4>1, <4>2, Zenon DEF RebuildStep
        <5> HIDE DEF h, At
        <5> QED
          BY <5>2, <5>3, <5>4, <2>2
      <4>3. CASE ~ (m <= k)
        <5>1. n - k \in 1 .. second /\ n - k < t /\ m - k \in 1 .. first
          BY <4>1, <4>3, <2>4
        <5>2. h[n - k][m - k][i] = g[n - k][m - k][i]
          BY <5>1, <2>3
        <5>3. At(g, n, m, i) = RebuiltRight(proof, g[n - k][m - k][i])
          BY <3>2, <4>1, <4>3, Zenon DEF RebuildStep
        <5>4. At(h, n, m, i) = RebuiltRight(proof, h[n - k][m - k][i])
          <6> HIDE DEF h
          <6> QED
            BY <3>2, <4>1, <4>3, Zenon DEF RebuildStep
        <5> HIDE DEF h, At
        <5> QED
          BY <5>2, <5>3, <5>4, <2>2
      <4> QED
        BY <4>2, <4>3
    <3> QED
      BY <3>1, <3>2
  <2>5. Upto(t + 1, h)
    <3> HIDE DEF h, At, Is
    <3> QED
      BY <2>4
  <2> HIDE DEF Upto, h
  <2> QED
    BY <2>5
<1>3. second + 1 \in T
  <2> HIDE DEF T
  <2> QED
    BY <1>1, <1>2, Counting
<1>4. PICK g : Upto(second + 1, g)
  BY <1>3
<1> DEFINE h == [n \in 1 .. second |-> [m \in 1 .. first |-> [i \in Is |-> g[n][m][i]]]]
<1>5. h = Body(h)
  <2>1. ASSUME NEW n \in 1 .. second, NEW m \in 1 .. first, NEW i \in Is
        PROVE  h[n][m][i] = g[n][m][i]
    OBVIOUS
  <2> SUFFICES ASSUME NEW n \in 1 .. second, NEW m \in 1 .. first, NEW i \in Is
               PROVE  h[n][m][i] = At(h, n, m, i)
    OBVIOUS
  <2>2. h[n][m][i] = At(g, n, m, i)
    <3> HIDE DEF h, At, Is
    <3> QED
      BY <1>4, <2>1
  <2> HIDE DEF h
  <2>3. CASE n <= m
    BY <2>2, <2>3 DEF RebuildStep
  <2>4. CASE ~ (n <= m)
    <3>1. PICK k \in 1 .. n - 1 : k = SplitSize(n)
      BY <2>4, SplitBounds
    <3>2. CASE m <= k
      <4>1. k \in 1 .. second
        BY <3>1
      <4>2. h[k][m][i] = g[k][m][i]
        BY <4>1, <2>1
      <4> QED
        BY <2>2, <2>4, <3>1, <3>2, <4>2, Zenon DEF RebuildStep
    <3>3. CASE ~ (m <= k)
      <4>1. n - k \in 1 .. second /\ m - k \in 1 .. first
        BY <3>1, <3>3
      <4>2. h[n - k][m - k][i] = g[n - k][m - k][i]
        BY <4>1, <2>1
      <4> QED
        BY <2>2, <2>4, <3>1, <3>3, <4>2, Zenon DEF RebuildStep
    <3> QED
      BY <3>2, <3>3
  <2> QED
    BY <2>3, <2>4
<1> HIDE DEF h
<1> DEFINE c == CHOOSE f : f = Body(f)
<1>6. c = Body(c)
  <2> HIDE DEF Body
  <2> QED
    BY <1>5, Zenon
<1>7. Rebuild(first, second, firstRoot, proof) = c[second][first][1]
  BY Zenon DEF Rebuild, RebuildStep, RebuiltHere, RebuiltLeft, RebuiltRight, NodeAt, AfterAt
<1> HIDE DEF c
<1>8. ASSUME NEW n \in 1 .. second, NEW m \in 1 .. first, NEW i \in Is
      PROVE  c[n][m][i] = At(c, n, m, i)
  <2>1. c[n] = [b \in 1 .. first |-> [a \in Is |-> At(c, n, b, a)]]
    BY <1>6
  <2>2. c[n][m] = [a \in Is |-> At(c, n, m, a)]
    BY <2>1
  <2> QED
    BY <2>2
<1>9. RebuildTable(first, second, firstRoot, proof, c)
  BY <1>8 DEF RebuildTable
<1> QED
  BY <1>7, <1>9

\* The old and the new root of a tree of n leaves that a verifier rebuilds bind the
\* same leaves.
RebuiltBinds(D, E, first, proof, v, n) ==
  \A m \in 1 .. first : \A i \in 1 .. Len(proof) + 2 : \A lo \in Nat :
    /\ m <= n /\ lo + m <= Len(D) /\ lo + n <= Len(E)
    /\ v[n][m][i].old = Subtree(D)[m][lo]
    /\ v[n][m][i].new = Subtree(E)[n][lo]
    => SameLeaves(D, E, m, lo, lo)

\* Whatever nodes the proof has, each node on the left goes into both roots.
LEMMA RebuiltBindsStep ==
  ASSUME NEW D, Len(D) \in Nat, NEW E, Len(E) \in Nat, NEW firstRoot, NEW proof,
         NEW first \in Nat, NEW second \in Nat, NEW v,
         RebuildTable(first, second, firstRoot, proof, v),
         NEW s \in 1 .. second, \A k \in 1 .. s - 1 : RebuiltBinds(D, E, first, proof, v, k)
  PROVE  RebuiltBinds(D, E, first, proof, v, s)
<1> SUFFICES ASSUME NEW b \in 1 .. first, NEW j \in 1 .. Len(proof) + 2, NEW a \in Nat,
                    b <= s, a + b <= Len(D), a + s <= Len(E),
                    v[s][b][j].old = Subtree(D)[b][a], v[s][b][j].new = Subtree(E)[s][a]
             PROVE  SameLeaves(D, E, b, a, a)
  BY DEF RebuiltBinds
<1>1. PICK u : u = v[s][b][j]
  OBVIOUS
<1>2. u = RebuildStep(first, firstRoot, proof, v, s, b, j)
  BY <1>1 DEF RebuildTable
<1>3. u.old = Subtree(D)[b][a] /\ u.new = Subtree(E)[s][a]
  BY <1>1
<1>4. CASE s <= b
  <2>1. s = b
    BY <1>4
  <2>2. u.old = u.new
    BY <1>2, <1>4 DEF RebuildStep, RebuiltHere
  <2>3. Subtree(D)[b][a] = Subtree(E)[b][a]
    BY <2>1, <2>2, <1>3
  <2>4. Binds(D, E, b) /\ b \in Nat
    BY SubtreeBinds
  <2> QED
    BY <2>1, <2>3, <2>4 DEF Binds
<1>5. CASE ~ (s <= b)
  <2>1. s \in Nat /\ s >= 2 /\ b < s
    BY <1>5
  <2>2. PICK k \in 1 .. s - 1 : k = SplitSize(s)
    BY <2>1, SplitBounds
  <2>3. Subtree(E)[s][a] = HashChildren(Subtree(E)[k][a], Subtree(E)[s - k][a + k])
    <3>1. s \in 0 .. Len(E) /\ a \in 0 .. Len(E) - s
      OBVIOUS
    <3>2. Subtree(E)[s][a] = HashStep(E, Subtree(E), s, a)
      BY <3>1, SubtreeStep
    <3> QED
      BY <2>1, <2>2, <3>2 DEF HashStep
  <2>4. CASE b <= k
    <3>1. PICK left : left = v[k][b][j]
      OBVIOUS
    <3>2. u = RebuiltLeft(proof, left)
      BY <1>2, <1>5, <2>2, <2>4, <3>1, Zenon DEF RebuildStep
    <3>3. u.old = left.old /\ u.new = HashChildren(left.new, NodeAt(proof, left.next))
      BY <3>2 DEF RebuiltLeft
    <3>4. HashChildren(left.new, NodeAt(proof, left.next))
            = HashChildren(Subtree(E)[k][a], Subtree(E)[s - k][a + k])
      BY <2>3, <3>3, <1>3
    <3>5. left.new = Subtree(E)[k][a]
      BY <3>4, ChildrenBind
    <3>6. left.old = Subtree(D)[b][a]
      BY <3>3, <1>3
    <3>7. RebuiltBinds(D, E, first, proof, v, k) /\ a + k <= Len(E)
      BY <2>2
    <3> QED
      BY <2>4, <3>1, <3>5, <3>6, <3>7 DEF RebuiltBinds
  <2>5. CASE ~ (b <= k)
    <3>1. PICK right : right = v[s - k][b - k][j]
      OBVIOUS
    <3>2. PICK node : node = NodeAt(proof, right.next)
      OBVIOUS
    <3>3. u = RebuiltRight(proof, right)
      BY <1>2, <1>5, <2>2, <2>5, <3>1, Zenon DEF RebuildStep
    <3>4. u.old = HashChildren(node, right.old) /\ u.new = HashChildren(node, right.new)
      BY <3>2, <3>3 DEF RebuiltRight
    <3>5. HashChildren(node, right.new)
            = HashChildren(Subtree(E)[k][a], Subtree(E)[s - k][a + k])
      BY <2>3, <3>4, <1>3
    <3>6. node = Subtree(E)[k][a] /\ right.new = Subtree(E)[s - k][a + k]
      BY <3>5, ChildrenBind
    <3>7. Subtree(D)[b][a] = HashChildren(Subtree(D)[k][a], Subtree(D)[b - k][a + k])
      <4>1. SplitSize(b) = k
        BY <2>1, <2>2, <2>5, SplitStays
      <4>2. b \in 0 .. Len(D) /\ a \in 0 .. Len(D) - b /\ b # 0 /\ b # 1
        BY <2>2, <2>5
      <4>3. Subtree(D)[b][a] = HashStep(D, Subtree(D), b, a)
        BY <4>2, SubtreeStep
      <4> QED
        BY <4>1, <4>2, <4>3 DEF HashStep
    <3>8. HashChildren(node, right.old)
            = HashChildren(Subtree(D)[k][a], Subtree(D)[b - k][a + k])
      BY <3>4, <3>7, <1>3
    <3>9. node = Subtree(D)[k][a] /\ right.old = Subtree(D)[b - k][a + k]
      BY <3>8, ChildrenBind
    <3>10. SameLeaves(D, E, k, a, a)
      <4>1. Subtree(D)[k][a] = Subtree(E)[k][a]
        BY <3>6, <3>9
      <4>2. k \in Nat /\ a + k <= Len(D) /\ a + k <= Len(E)
        BY <2>2, <2>5
      <4>3. Binds(D, E, k)
        BY <4>2, SubtreeBinds
      <4> QED
        BY <4>1, <4>2, <4>3 DEF Binds
    <3>11. SameLeaves(D, E, b - k, a + k, a + k)
      <4>1. s - k \in 1 .. s - 1 /\ b - k \in 1 .. first /\ a + k \in Nat /\ b - k <= s - k
        BY <2>1, <2>2, <2>5
      <4>2. (a + k) + (b - k) <= Len(D) /\ (a + k) + (s - k) <= Len(E)
        BY <2>2
      <4>3. RebuiltBinds(D, E, first, proof, v, s - k)
        BY <4>1
      <4> QED
        BY <3>1, <3>6, <3>9, <4>1, <4>2, <4>3 DEF RebuiltBinds
    <3>12. b \in Nat /\ k \in 1 .. b
      BY <2>2, <2>5
    <3> QED
      BY <3>10, <3>11, <3>12, SameLeavesSplit
  <2> QED
    BY <2>4, <2>5
<1> QED
  BY <1>4, <1>5

\* At every size of the tree.
LEMMA RebuiltRootsBind ==
  ASSUME NEW D, Len(D) \in Nat, NEW E, Len(E) \in Nat, NEW firstRoot, NEW proof,
         NEW first \in Nat, NEW second \in Nat, NEW v,
         RebuildTable(first, second, firstRoot, proof, v), NEW n \in 1 .. second
  PROVE  RebuiltBinds(D, E, first, proof, v, n)
<1> DEFINE T == {t \in Nat : \A s \in 1 .. second : s <= t => RebuiltBinds(D, E, first, proof, v, s)}
<1>1. 0 \in T
  BY SMT
<1>2. ASSUME NEW t \in Nat, t \in T PROVE t + 1 \in T
  <2>1. ASSUME t + 1 <= second PROVE RebuiltBinds(D, E, first, proof, v, t + 1)
    <3>1. \A k \in 1 .. (t + 1) - 1 : RebuiltBinds(D, E, first, proof, v, k)
      BY <1>2, <2>1
    <3> QED
      BY <3>1, <2>1, RebuiltBindsStep
  <2> QED
    BY <2>1, <1>2
<1>3. n \in T
  <2> HIDE DEF T
  <2> QED
    BY <1>1, <1>2, Counting
<1> QED
  BY <1>3

\* Two roots for which some proof verifies are those of a log and of a prefix of it.
THEOREM ConsistencyBinds ==
  ASSUME NEW D, NEW E, Listed(D), Listed(E), NEW proof, Len(proof) \in Nat,
         VerifyConsistency(Len(D), Len(E), Root(D), Root(E), proof)
  PROVE  Len(D) <= Len(E) /\ \A i \in 1 .. Len(D) : D[i] = E[i]
<1> DEFINE first  == Len(D)
           second == Len(E)
<1>1. first \in Nat /\ second \in Nat /\ first <= second
  BY DEF Listed, VerifyConsistency
<1>2. CASE first = 0
  BY <1>1, <1>2
<1>3. CASE first = second /\ first # 0
  <2>1. Root(D) = Root(E)
    BY <1>1, <1>3 DEF VerifyConsistency
  <2>2. D = E
    BY <1>3, <2>1, RootBinds
  <2> QED
    BY <1>1, <2>2
<1>4. CASE first \in 1 .. second - 1
  <2> DEFINE rebuilt == Rebuild(first, second, Root(D), proof)
  <2>1. rebuilt.old = Root(D) /\ rebuilt.new = Root(E)
    BY <1>1, <1>4 DEF VerifyConsistency
  <2>2. PICK v : /\ rebuilt = v[second][first][1]
                 /\ RebuildTable(first, second, Root(D), proof, v)
    BY <1>1, RebuildSteps
  <2> HIDE DEF rebuilt, first, second
  <2>3. v[second][first][1].old = Subtree(D)[first][0] /\ v[second][first][1].new = Subtree(E)[second][0]
    BY <2>1, <2>2 DEF Root, first, second
  <2>4. SameLeaves(D, E, first, 0, 0)
    <3>1. Len(D) = first /\ Len(E) = second
      BY DEF first, second
    <3>2. 1 \in 1 .. Len(proof) + 2 /\ 0 + first <= Len(D) /\ 0 + second <= Len(E)
      BY <1>1, <3>1
    <3>3. first \in 1 .. first /\ second \in 1 .. second
      BY <1>1, <1>4
    <3>4. RebuiltBinds(D, E, first, proof, v, second)
      BY <1>1, <2>2, <3>1, <3>3, RebuiltRootsBind
    <3> QED
      BY <1>1, <2>3, <3>1, <3>2, <3>3, <3>4 DEF RebuiltBinds
  <2> QED
    BY <1>1, <2>4 DEF SameLeaves, first, second
<1> QED
  BY <1>1, <1>2, <1>3, <1>4

-----------------------------------------------------------------------------
(* The proof that is handed out verifies *)

\* subproof for a tree of n leaves, out of what it emits for fewer.
SubProofStep(first, D, g, n, m) ==
  IF n <= m THEN IF m = first THEN <<>> ELSE <<Subtree(D)[n][first - m]>>
  ELSE IF m <= SplitSize(n)
       THEN Append(g[SplitSize(n)][m], Subtree(D)[n - SplitSize(n)][first - m + SplitSize(n)])
       ELSE Append(g[n - SplitSize(n)][m - SplitSize(n)], Subtree(D)[SplitSize(n)][first - m])

\* What subproof emits for every slice of the tree.
SubProofTable(first, D, g) ==
  \A n \in 1 .. Len(D) : \A m \in 1 .. first : g[n][m] = SubProofStep(first, D, g, n, m)

\* subproof is defined: each tree is split into smaller ones.
LEMMA SubProofSteps ==
  ASSUME NEW first \in Nat, NEW D, Len(D) \in Nat
  PROVE  SubProofTable(first, D, SubProof(first, D))
<1> DEFINE N == Len(D)
           At(g, n, m) == SubProofStep(first, D, g, n, m)
           Body(g) == [n \in 1 .. N |-> [m \in 1 .. first |-> At(g, n, m)]]
           Upto(t, g) == \A n \in 1 .. N : n < t => \A m \in 1 .. first : g[n][m] = At(g, n, m)
           T == {t \in Nat : \E g : Upto(t, g)}
<1>1. 0 \in T
  BY SMT
\* The step at n looks at g only where n is split.
<1> DEFINE Agree(g, h, n) ==
      \A s \in 1 .. N : s < n => \A m \in 1 .. first : h[s][m] = g[s][m]
<1>2. ASSUME NEW g, NEW h, NEW n \in 1 .. N, NEW m \in 1 .. first, Agree(g, h, n)
      PROVE  At(g, n, m) = At(h, n, m)
  <2>1. CASE n <= m
    BY <2>1 DEF SubProofStep
  <2>2. CASE ~ (n <= m)
    <3>1. PICK k \in 1 .. n - 1 : k = SplitSize(n)
      BY <2>2, SplitBounds
    <3>2. CASE m <= k
      <4>1. k \in 1 .. N /\ k < n
        BY <3>1
      <4>2. h[k][m] = g[k][m]
        BY <4>1, <1>2
      <4> QED
        BY <2>2, <3>1, <3>2, <4>2, Zenon DEF SubProofStep
    <3>3. CASE ~ (m <= k)
      <4>1. n - k \in 1 .. N /\ n - k < n /\ m - k \in 1 .. first
        BY <3>1, <3>3
      <4>2. h[n - k][m - k] = g[n - k][m - k]
        BY <4>1, <1>2
      <4> QED
        BY <2>2, <3>1, <3>3, <4>2, Zenon DEF SubProofStep
    <3> QED
      BY <3>2, <3>3
  <2> QED
    BY <2>1, <2>2
<1>3. ASSUME NEW t \in Nat, t \in T PROVE t + 1 \in T
  <2>1. PICK g : Upto(t, g)
    BY <1>3
  <2> DEFINE h == Body(g)
  <2>2. \A n \in 1 .. N : \A m \in 1 .. first : h[n][m] = At(g, n, m)
    OBVIOUS
  <2> HIDE DEF h, At
  <2>3. \A n \in 1 .. N : n < t => \A m \in 1 .. first : h[n][m] = g[n][m]
    BY <2>1, <2>2
  <2>4. ASSUME NEW n \in 1 .. N, n < t + 1, NEW m \in 1 .. first
        PROVE  h[n][m] = At(h, n, m)
    <3>1. Agree(g, h, n)
      BY <2>3, <2>4
    <3> HIDE DEF Agree
    <3>2. At(g, n, m) = At(h, n, m)
      BY <1>2, <3>1
    <3> QED
      BY <2>2, <3>2
  <2>5. Upto(t + 1, h)
    BY <2>4
  <2> HIDE DEF Upto
  <2> QED
    BY <2>5
<1>4. N + 1 \in T
  <2> HIDE DEF T
  <2> QED
    BY <1>1, <1>3, Counting
<1>5. PICK g : Upto(N + 1, g)
  BY <1>4
<1> DEFINE h == [n \in 1 .. N |-> [m \in 1 .. first |-> g[n][m]]]
<1>6. h = Body(h)
  <2>1. \A n \in 1 .. N : \A m \in 1 .. first : h[n][m] = g[n][m]
    OBVIOUS
  <2>2. ASSUME NEW n \in 1 .. N, NEW m \in 1 .. first PROVE h[n][m] = At(h, n, m)
    <3> HIDE DEF h, At
    <3>1. Agree(g, h, n)
      BY <2>1
    <3>2. h[n][m] = At(g, n, m)
      BY <1>5, <2>1
    <3> HIDE DEF Agree
    <3> QED
      BY <1>2, <3>1, <3>2
  <2> QED
    BY <2>2
<1> HIDE DEF h
<1> DEFINE c == CHOOSE f : f = Body(f)
<1>7. c = Body(c)
  <2> HIDE DEF Body
  <2> QED
    BY <1>6, Zenon
<1>8. SubProof(first, D) = c
  BY Zenon DEF SubProof, SubProofStep
<1> HIDE DEF c
<1>9. ASSUME NEW n \in 1 .. N, NEW m \in 1 .. first PROVE c[n][m] = At(c, n, m)
  <2>1. c[n] = [b \in 1 .. first |-> At(c, n, b)]
    BY <1>7
  <2> QED
    BY <2>1
<1> QED
  BY <1>8, <1>9 DEF SubProofTable

\* From the i-th place on, the proof has the nodes of part.
Holds(proof, i, part) ==
  /\ i \in Nat \ {0} /\ Len(part) \in Nat /\ i + Len(part) <= Len(proof) + 1
  /\ \A j \in 1 .. Len(part) : proof[i + j - 1] = part[j]

\* Over the nodes subproof emits for a slice of D, subverify rebuilds the hashes of the
\* slice and of its old part, and has consumed exactly those nodes.
Accepts(first, D, proof, v, n) ==
  \A m \in 1 .. first : \A i \in 1 .. Len(proof) + 2 :
    /\ m <= n /\ first - m + n <= Len(D)
    /\ Holds(proof, i, SubProof(first, D)[n][m])
    => /\ v[n][m][i].old = Subtree(D)[m][first - m]
       /\ v[n][m][i].new = Subtree(D)[n][first - m]
       /\ v[n][m][i].next = i + Len(SubProof(first, D)[n][m])

\* A part and its last node.
LEMMA HoldsAppend ==
  ASSUME NEW proof, Len(proof) \in Nat, NEW i, NEW part, Listed(part), NEW node,
         Holds(proof, i, Append(part, node))
  PROVE  /\ Holds(proof, i, part)
         /\ i + Len(part) \in 1 .. Len(proof)
         /\ NodeAt(proof, i + Len(part)) = node
         /\ AfterAt(proof, i + Len(part)) = i + Len(Append(part, node))
<1>1. PICK whole : whole = Append(part, node)
  OBVIOUS
<1>2. /\ Len(part) \in Nat /\ Len(whole) = Len(part) + 1 /\ whole[Len(part) + 1] = node
      /\ \A j \in 1 .. Len(part) : whole[j] = part[j]
  BY <1>1, ListedAppend DEF Listed
<1>3. Holds(proof, i, whole)
  BY <1>1
<1>4. i + Len(part) \in 1 .. Len(proof)
  BY <1>2, <1>3 DEF Holds
<1>5. proof[i + Len(part)] = node
  <2>1. Len(part) + 1 \in 1 .. Len(whole) /\ i + (Len(part) + 1) - 1 = i + Len(part)
    BY <1>2, <1>3 DEF Holds
  <2> QED
    BY <2>1, <1>2, <1>3 DEF Holds
<1>6. Holds(proof, i, part)
  <2>1. \A j \in 1 .. Len(part) : j \in 1 .. Len(whole)
    BY <1>2
  <2> QED
    BY <2>1, <1>2, <1>3 DEF Holds
<1> QED
  BY <1>1, <1>2, <1>3, <1>4, <1>5, <1>6 DEF NodeAt, AfterAt, Holds

\* What subproof emits is a list of nodes.
LEMMA SubProofListed ==
  ASSUME NEW first \in Nat, NEW D, Len(D) \in Nat, NEW n \in 1 .. Len(D), NEW m \in 1 .. first
  PROVE  Listed(SubProof(first, D)[n][m])
<1> DEFINE S == SubProof(first, D)
           T == {t \in Nat : \A s \in 1 .. Len(D) : s <= t => \A b \in 1 .. first : Listed(S[s][b])}
<1>1. 0 \in T
  BY SMT
<1>2. ASSUME NEW t \in Nat, t \in T PROVE t + 1 \in T
  <2>1. ASSUME NEW b \in 1 .. first, t + 1 <= Len(D) PROVE Listed(S[t + 1][b])
    <3>1. PICK s \in 1 .. Len(D) : s = t + 1
      BY <2>1
    <3>2. S[s][b] = SubProofStep(first, D, S, s, b)
      BY SubProofSteps DEF SubProofTable
    <3>3. CASE s <= b
      <4>1. Listed(<<>>) /\ Listed(<<Subtree(D)[s][first - b]>>)
        BY DEF Listed
      <4> HIDE DEF S
      <4> QED
        BY <3>1, <3>2, <3>3, <4>1 DEF SubProofStep
    <3>4. CASE ~ (s <= b)
      <4>1. PICK k \in 1 .. s - 1 : k = SplitSize(s)
        BY <3>4, SplitBounds
      <4>2. CASE b <= k
        <5>1. k \in 1 .. Len(D) /\ k <= t
          BY <3>1, <4>1
        <5>2. Listed(S[k][b])
          BY <1>2, <5>1
        <5>3. S[s][b] = Append(S[k][b], Subtree(D)[s - k][first - b + k])
          BY <3>2, <3>4, <4>1, <4>2, Zenon DEF SubProofStep
        <5> HIDE DEF S
        <5> QED
          BY <3>1, <5>2, <5>3, ListedAppend
      <4>3. CASE ~ (b <= k)
        <5>1. s - k \in 1 .. Len(D) /\ s - k <= t /\ b - k \in 1 .. first
          BY <3>1, <4>1, <4>3
        <5>2. Listed(S[s - k][b - k])
          BY <1>2, <5>1
        <5>3. S[s][b] = Append(S[s - k][b - k], Subtree(D)[k][first - b])
          BY <3>2, <3>4, <4>1, <4>3, Zenon DEF SubProofStep
        <5> HIDE DEF S
        <5> QED
          BY <3>1, <5>2, <5>3, ListedAppend
      <4> QED
        BY <4>2, <4>3
    <3> QED
      BY <3>3, <3>4
  <2>2. ASSUME NEW s \in 1 .. Len(D), s <= t + 1, NEW b \in 1 .. first PROVE Listed(S[s][b])
    <3>1. CASE s <= t
      BY <3>1, <1>2
    <3>2. CASE s = t + 1
      BY <3>2, <2>1
    <3> QED
      BY <3>1, <3>2, <2>2
  <2> HIDE DEF S
  <2> QED
    BY <2>2
<1>3. n \in T
  <2> HIDE DEF T
  <2> QED
    BY <1>1, <1>2, Counting
<1> QED
  BY <1>3

\* Verifier and prover split the tree at the same places.
LEMMA AcceptsStep ==
  ASSUME NEW D, Len(D) \in Nat, NEW first \in 1 .. Len(D), NEW proof, Len(proof) \in Nat, NEW v,
         RebuildTable(first, Len(D), Subtree(D)[first][0], proof, v),
         NEW n \in 1 .. Len(D), \A k \in 1 .. n - 1 : Accepts(first, D, proof, v, k)
  PROVE  Accepts(first, D, proof, v, n)
<1> SUFFICES ASSUME NEW m \in 1 .. first, NEW i \in 1 .. Len(proof) + 2,
                    m <= n, first - m + n <= Len(D),
                    Holds(proof, i, SubProof(first, D)[n][m])
             PROVE  /\ v[n][m][i].old = Subtree(D)[m][first - m]
                    /\ v[n][m][i].new = Subtree(D)[n][first - m]
                    /\ v[n][m][i].next = i + Len(SubProof(first, D)[n][m])
  BY DEF Accepts
<1>1. PICK S : S = SubProof(first, D)
  OBVIOUS
<1>2. PICK lo \in Nat : lo = first - m
  OBVIOUS
<1>3. PICK u : u = v[n][m][i]
  OBVIOUS
<1>4. u = RebuildStep(first, Subtree(D)[first][0], proof, v, n, m, i)
  BY <1>3 DEF RebuildTable
<1>5. S[n][m] = SubProofStep(first, D, S, n, m)
  <2>1. first \in Nat
    OBVIOUS
  <2> QED
    BY <2>1, <1>1, SubProofSteps DEF SubProofTable
<1>6. Holds(proof, i, S[n][m])
  BY <1>1
<1>7. SUFFICES /\ u.old = Subtree(D)[m][lo]
               /\ u.new = Subtree(D)[n][lo]
               /\ u.next = i + Len(S[n][m])
  BY <1>1, <1>2, <1>3
<1>8. CASE n <= m
  <2>1. n = m
    BY <1>8
  <2>2. u = RebuiltHere(first, Subtree(D)[first][0], proof, m, i)
    BY <1>4, <1>8, Zenon DEF RebuildStep
  <2>3. CASE m = first
    <3>1. S[n][m] = <<>> /\ Len(<<>>) = 0
      BY <1>5, <1>8, <2>3 DEF SubProofStep
    <3>2. lo = 0
      BY <1>2, <2>3
    <3> QED
      BY <2>1, <2>2, <2>3, <3>1, <3>2 DEF RebuiltHere
  <2>4. CASE m # first
    <3>1. S[n][m] = <<Subtree(D)[n][lo]>>
      BY <1>2, <1>5, <1>8, <2>4 DEF SubProofStep
    <3>2. Len(S[n][m]) = 1 /\ S[n][m][1] = Subtree(D)[n][lo]
      BY <3>1
    <3>3. i <= Len(proof) /\ proof[i] = Subtree(D)[n][lo]
      BY <1>6, <3>2 DEF Holds
    <3>4. NodeAt(proof, i) = Subtree(D)[n][lo] /\ AfterAt(proof, i) = i + 1
      BY <3>3 DEF NodeAt, AfterAt
    <3> QED
      BY <2>1, <2>2, <2>4, <3>2, <3>4 DEF RebuiltHere
  <2> QED
    BY <2>3, <2>4
<1>9. CASE ~ (n <= m)
  <2>1. n \in Nat /\ n >= 2 /\ m < n
    BY <1>9
  <2>2. PICK k \in 1 .. n - 1 : k = SplitSize(n)
    BY <2>1, SplitBounds
  <2>3. Subtree(D)[n][lo] = HashChildren(Subtree(D)[k][lo], Subtree(D)[n - k][lo + k])
    <3>1. n \in 0 .. Len(D) /\ lo \in 0 .. Len(D) - n
      BY <1>2
    <3>2. Subtree(D)[n][lo] = HashStep(D, Subtree(D), n, lo)
      BY <3>1, SubtreeStep
    <3> QED
      BY <2>1, <2>2, <3>2 DEF HashStep
  <2>4. CASE m <= k
    <3>1. PICK part : part = S[k][m]
      OBVIOUS
    <3>2. PICK left : left = v[k][m][i]
      OBVIOUS
    <3>3. PICK node : node = Subtree(D)[n - k][lo + k]
      OBVIOUS
    <3>4. S[n][m] = Append(part, node)
      <4>1. S[n][m] = Append(S[k][m], Subtree(D)[n - k][first - m + k])
        BY <1>5, <1>9, <2>2, <2>4, Zenon DEF SubProofStep
      <4> QED
        BY <4>1, <3>1, <3>3, <1>2
    <3>5. u = RebuiltLeft(proof, left)
      BY <1>4, <1>9, <2>2, <2>4, <3>2, Zenon DEF RebuildStep
    <3>6. Listed(part)
      <4>1. first \in Nat /\ k \in 1 .. Len(D)
        BY <2>2
      <4> QED
        BY <4>1, <1>1, <3>1, SubProofListed
    <3>7. /\ Holds(proof, i, part)
          /\ NodeAt(proof, i + Len(part)) = node
          /\ AfterAt(proof, i + Len(part)) = i + Len(Append(part, node))
      BY <1>6, <3>4, <3>6, HoldsAppend
    <3>8. /\ left.old = Subtree(D)[m][lo] /\ left.new = Subtree(D)[k][lo]
          /\ left.next = i + Len(part)
      <4>1. Accepts(first, D, proof, v, k) /\ first - m + k <= Len(D)
        BY <2>2
      <4> QED
        BY <4>1, <1>1, <1>2, <2>4, <3>1, <3>2, <3>7 DEF Accepts
    <3> QED
      BY <2>3, <3>3, <3>4, <3>5, <3>7, <3>8 DEF RebuiltLeft
  <2>5. CASE ~ (m <= k)
    <3>1. PICK part : part = S[n - k][m - k]
      OBVIOUS
    <3>2. PICK right : right = v[n - k][m - k][i]
      OBVIOUS
    <3>3. PICK node : node = Subtree(D)[k][lo]
      OBVIOUS
    <3>4. S[n][m] = Append(part, node)
      <4>1. S[n][m] = Append(S[n - k][m - k], Subtree(D)[k][first - m])
        BY <1>5, <1>9, <2>2, <2>5, Zenon DEF SubProofStep
      <4> QED
        BY <4>1, <3>1, <3>3, <1>2
    <3>5. u = RebuiltRight(proof, right)
      BY <1>4, <1>9, <2>2, <2>5, <3>2, Zenon DEF RebuildStep
    <3>6. n - k \in 1 .. n - 1 /\ n - k \in 1 .. Len(D) /\ m - k \in 1 .. first /\ m - k <= n - k
      BY <2>1, <2>2, <2>5
    <3>7. Listed(part)
      <4>1. first \in Nat
        OBVIOUS
      <4> QED
        BY <4>1, <1>1, <3>1, <3>6, SubProofListed
    <3>8. /\ Holds(proof, i, part)
          /\ NodeAt(proof, i + Len(part)) = node
          /\ AfterAt(proof, i + Len(part)) = i + Len(Append(part, node))
      BY <1>6, <3>4, <3>7, HoldsAppend
    <3>9. /\ right.old = Subtree(D)[m - k][lo + k] /\ right.new = Subtree(D)[n - k][lo + k]
          /\ right.next = i + Len(part)
      <4>1. Accepts(first, D, proof, v, n - k)
        BY <3>6
      <4>2. first - (m - k) = lo + k /\ first - (m - k) + (n - k) <= Len(D)
        BY <1>2, <2>2
      <4>3. /\ v[n - k][m - k][i].old = Subtree(D)[m - k][first - (m - k)]
            /\ v[n - k][m - k][i].new = Subtree(D)[n - k][first - (m - k)]
            /\ v[n - k][m - k][i].next = i + Len(SubProof(first, D)[n - k][m - k])
        BY <4>1, <4>2, <1>1, <3>1, <3>6, <3>8 DEF Accepts
      <4> QED
        BY <4>2, <4>3, <1>1, <3>1, <3>2
    <3>10. Subtree(D)[m][lo] = HashChildren(Subtree(D)[k][lo], Subtree(D)[m - k][lo + k])
      <4>1. SplitSize(m) = k
        BY <2>1, <2>2, <2>5, SplitStays
      <4>2. m \in 0 .. Len(D) /\ lo \in 0 .. Len(D) - m /\ m # 0 /\ m # 1
        BY <1>2, <2>2, <2>5
      <4>3. Subtree(D)[m][lo] = HashStep(D, Subtree(D), m, lo)
        BY <4>2, SubtreeStep
      <4> QED
        BY <4>1, <4>2, <4>3 DEF HashStep
    <3> QED
      BY <2>3, <3>3, <3>4, <3>5, <3>8, <3>9, <3>10 DEF RebuiltRight
  <2> QED
    BY <2>4, <2>5
<1> QED
  BY <1>8, <1>9

\* The proof between a log and a prefix of it verifies.
THEOREM ConsistencyAccepts ==
  ASSUME NEW D, NEW E, Listed(D), Listed(E), Len(D) <= Len(E),
         \A i \in 1 .. Len(D) : D[i] = E[i]
  PROVE  /\ Listed(ConsistencyProof(Len(D), E))
         /\ VerifyConsistency(Len(D), Len(E), Root(D), Root(E), ConsistencyProof(Len(D), E))
<1> DEFINE first  == Len(D)
           second == Len(E)
<1>1. first \in Nat /\ second \in Nat /\ first <= second
  BY DEF Listed
<1>2. Listed(<<>>) /\ Len(<<>>) = 0
  BY DEF Listed
<1>3. CASE first = 0
  BY <1>1, <1>2, <1>3 DEF ConsistencyProof, VerifyConsistency
<1>4. CASE first = second /\ first # 0
  <2>1. D = E
    BY <1>1, <1>4 DEF Listed
  <2> QED
    BY <1>1, <1>2, <1>4, <2>1 DEF ConsistencyProof, VerifyConsistency
<1>5. CASE first \in 1 .. second - 1
  <2>1. PICK proof : proof = SubProof(first, E)[second][first]
    OBVIOUS
  <2>2. ConsistencyProof(first, E) = proof
    BY <1>1, <1>5, <2>1 DEF ConsistencyProof
  <2>3. Listed(proof)
    <3>1. second \in 1 .. Len(E) /\ first \in 1 .. first
      BY <1>1, <1>5
    <3> QED
      BY <1>1, <2>1, <3>1, SubProofListed
  <2>4. Len(proof) \in Nat
    BY <2>3 DEF Listed
  <2>5. Root(D) = Subtree(E)[first][0]
    <3>1. Binds(D, E, first)
      BY <1>1, SubtreeBinds
    <3>2. SameLeaves(D, E, first, 0, 0)
      BY <1>1 DEF SameLeaves
    <3> QED
      BY <1>1, <3>1, <3>2 DEF Binds, Root
  <2>6. PICK v : /\ Rebuild(first, second, Root(D), proof) = v[second][first][1]
                 /\ RebuildTable(first, second, Root(D), proof, v)
    BY <1>1, <2>4, RebuildSteps
  <2> HIDE DEF first
  <2>7. \A k \in 1 .. second : Accepts(first, E, proof, v, k)
    <3> DEFINE T == {t \in Nat : \A s \in 1 .. second : s <= t => Accepts(first, E, proof, v, s)}
    <3>1. 0 \in T
      BY <1>1, SMT
    <3>2. ASSUME NEW t \in Nat, t \in T PROVE t + 1 \in T
      <4>1. ASSUME t + 1 <= second PROVE Accepts(first, E, proof, v, t + 1)
        <5>1. \A k \in 1 .. (t + 1) - 1 : Accepts(first, E, proof, v, k)
          BY <3>2, <4>1
        <5>2. first \in 1 .. Len(E) /\ t + 1 \in 1 .. Len(E)
          BY <1>1, <1>5, <4>1
        <5> QED
          BY <5>1, <5>2, <1>1, <2>4, <2>5, <2>6, AcceptsStep
      <4> QED
        BY <4>1, <3>2
    <3>3. second \in T
      <4> HIDE DEF T
      <4> QED
        BY <1>1, <3>1, <3>2, Counting
    <3> QED
      BY <3>3
  <2>8. Holds(proof, 1, SubProof(first, E)[second][first])
    BY <2>1, <2>4 DEF Holds
  <2>9. /\ v[second][first][1].old = Subtree(E)[first][0]
        /\ v[second][first][1].new = Subtree(E)[second][0]
        /\ v[second][first][1].next = 1 + Len(proof)
    <3>1. /\ first \in 1 .. first /\ 1 \in 1 .. Len(proof) + 2 /\ first <= second
          /\ first - first = 0 /\ first - first + second <= Len(E) /\ second \in 1 .. second
      BY <1>1, <1>5, <2>4
    <3>2. Accepts(first, E, proof, v, second)
      BY <2>7, <3>1
    <3> QED
      BY <2>1, <2>8, <3>1, <3>2 DEF Accepts
  <2> QED
    BY <1>1, <1>5, <2>2, <2>3, <2>4, <2>5, <2>6, <2>9 DEF VerifyConsistency, Root, first
<1> QED
  BY <1>1, <1>3, <1>4, <1>5

-----------------------------------------------------------------------------
(* The padded tree *)

\* pad doubles the size until it has room for the leaves.
PaddedStep(n, g, size) == IF size < n THEN g[2 * size] ELSE size

\* pad ends with a size that has room for all n leaves and is reached by doubling 1:
\* it is in every set that holds 1 and the double of each of its members.
LEMMA PaddedSizeDoubles ==
  ASSUME NEW n \in Nat \ {0},
         NEW P, 1 \in P, \A x \in Nat \ {0} : x \in P => 2 * x \in P
  PROVE  PaddedSize(n) \in Nat /\ PaddedSize(n) >= n /\ PaddedSize(n) \in P
<1> DEFINE N == 2 * n + 1
           Good(t) == \E g : \A s \in 1 .. N : N - s < t => g[s] = PaddedStep(n, g, s)
           T == {t \in Nat : Good(t)}
<1>1. 0 \in T
  BY SMT
<1>2. ASSUME NEW t \in Nat, t \in T PROVE t + 1 \in T
  <2>1. PICK g : \A s \in 1 .. N : N - s < t => g[s] = PaddedStep(n, g, s)
    BY <1>2
  <2> DEFINE h == [s \in 1 .. N |-> PaddedStep(n, g, s)]
  <2>2. ASSUME NEW s \in 1 .. N, N - s < t + 1 PROVE h[s] = PaddedStep(n, h, s)
    BY <2>1, <2>2 DEF PaddedStep
  <2>3. Good(t + 1)
    <3> HIDE DEF h
    <3> QED
      BY <2>2
  <2> QED
    BY <2>3
<1>3. N + 1 \in T
  <2> HIDE DEF T
  <2> QED
    BY <1>1, <1>2, Counting
<1>4. PICK g : \A s \in 1 .. N : g[s] = PaddedStep(n, g, s)
  BY <1>3
<1> DEFINE h == [s \in 1 .. N |-> g[s]]
<1>5. h = [s \in 1 .. N |-> IF s < n THEN h[2 * s] ELSE s]
  BY <1>4 DEF PaddedStep
<1> HIDE DEF h
<1> DEFINE c == CHOOSE f : f = [s \in 1 .. N |-> IF s < n THEN f[2 * s] ELSE s]
<1>6. c = [s \in 1 .. N |-> IF s < n THEN c[2 * s] ELSE s]
  BY <1>5, Zenon
<1>7. PaddedSize(n) = c[1]
  BY Zenon DEF PaddedSize
<1> HIDE DEF c
<1> DEFINE U == {t \in Nat : \A s \in 1 .. N : N - s < t /\ s \in P =>
                   c[s] \in Nat /\ c[s] >= n /\ c[s] \in P}
<1>8. 0 \in U
  BY SMT
<1>9. ASSUME NEW t \in Nat, t \in U PROVE t + 1 \in U
  <2> SUFFICES ASSUME NEW s \in 1 .. N, N - s < t + 1, s \in P
               PROVE  c[s] \in Nat /\ c[s] >= n /\ c[s] \in P
    OBVIOUS
  <2>1. CASE s < n
    <3>1. c[s] = c[2 * s] /\ 2 * s \in 1 .. N /\ N - 2 * s < t
      BY <1>6, <2>1
    <3>2. 2 * s \in P
      OBVIOUS
    <3> QED
      BY <3>1, <3>2, <1>9
  <2>2. CASE ~ (s < n)
    BY <1>6, <2>2
  <2> QED
    BY <2>1, <2>2
<1>10. N \in U
  <2> HIDE DEF U
  <2> QED
    BY <1>8, <1>9, Counting
<1> QED
  BY <1>7, <1>10

\* f lists the powers of two up to x, which is the h-th.
Powers(f, h, x) ==
  /\ h \in Nat /\ f \in [0 .. h -> Nat \ {0}]
  /\ f[0] = 1 /\ f[h] = x
  /\ \A i \in 0 .. h - 1 : f[i + 1] = 2 * f[i]

\* The padded size is a power of two.
LEMMA PaddedSizePower ==
  ASSUME NEW n \in Nat \ {0}
  PROVE  /\ PaddedSize(n) \in Nat /\ PaddedSize(n) >= n
         /\ \E h \in Nat : \E f : Powers(f, h, PaddedSize(n))
<1> DEFINE P == {x \in Nat : \E h \in Nat : \E f : Powers(f, h, x)}
<1>1. 1 \in P
  <2>1. Powers([i \in 0 .. 0 |-> 1], 0, 1)
    BY DEF Powers
  <2> QED
    BY <2>1
<1>2. ASSUME NEW x \in Nat \ {0}, x \in P PROVE 2 * x \in P
  <2>1. PICK h \in Nat : \E f : Powers(f, h, x)
    BY <1>2
  <2>2. PICK f : Powers(f, h, x)
    BY <2>1
  <2> DEFINE e == [i \in 0 .. h + 1 |-> IF i = h + 1 THEN 2 * x ELSE f[i]]
  <2>3. e \in [0 .. h + 1 -> Nat \ {0}] /\ e[0] = 1 /\ e[h + 1] = 2 * x
    BY <2>2 DEF Powers
  <2>4. ASSUME NEW i \in 0 .. (h + 1) - 1 PROVE e[i + 1] = 2 * e[i]
    BY <2>2 DEF Powers
  <2>5. Powers(e, h + 1, 2 * x)
    <3> HIDE DEF e
    <3> QED
      BY <2>3, <2>4 DEF Powers
  <2> HIDE DEF e
  <2> QED
    BY <2>5
<1> HIDE DEF P
<1>3. PaddedSize(n) \in Nat /\ PaddedSize(n) >= n /\ PaddedSize(n) \in P
  BY <1>1, <1>2, PaddedSizeDoubles
<1> QED
  BY <1>3 DEF P

\* The i-th power of two is more than i.
LEMMA PowersGrow ==
  ASSUME NEW h, NEW f, NEW x, Powers(f, h, x), NEW i \in 0 .. h
  PROVE  f[i] >= i + 1
<1> DEFINE T == {t \in Nat : t <= h => f[t] >= t + 1}
<1>1. 0 \in T
  BY DEF Powers
<1>2. ASSUME NEW t \in Nat, t \in T PROVE t + 1 \in T
  BY <1>2 DEF Powers
<1>3. i \in T
  <2>1. i \in Nat
    BY DEF Powers
  <2> HIDE DEF T
  <2> QED
    BY <2>1, <1>1, <1>2, Counting
<1> QED
  BY <1>3

\* As high, as many.
LEMMA PowersAgree ==
  ASSUME NEW h, NEW f, NEW x, Powers(f, h, x), NEW e, NEW y, Powers(e, h, y)
  PROVE  \A i \in 0 .. h : f[i] = e[i]
<1> DEFINE T == {t \in Nat : t <= h => f[t] = e[t]}
<1>1. 0 \in T
  BY DEF Powers
<1>2. ASSUME NEW t \in Nat, t \in T PROVE t + 1 \in T
  BY <1>2 DEF Powers
<1>3. Nat \subseteq T
  <2> HIDE DEF T
  <2> QED
    BY <1>1, <1>2, Counting
<1> QED
  BY <1>3 DEF Powers

\* The pairs of one level, hashed.
Paired(below) == [i \in 1 .. Len(below) \div 2 |-> HashPair(below[2 * i - 1], below[2 * i])]

\* buildLevels is defined: each level is made of the one below.
LEMMA LevelSteps ==
  ASSUME NEW D, PaddedSize(Len(D)) \in Nat
  PROVE  /\ Level(D)[0] = Pad(D)
         /\ \A l \in 1 .. PaddedSize(Len(D)) : Level(D)[l] = Paired(Level(D)[l - 1])
<1> DEFINE N == PaddedSize(Len(D))
           At(g, l) == IF l = 0 THEN Pad(D) ELSE Paired(g[l - 1])
           Body(g) == [l \in 0 .. N |-> At(g, l)]
           Upto(t, g) == \A l \in 0 .. N : l < t => g[l] = At(g, l)
           T == {t \in Nat : \E g : Upto(t, g)}
<1>1. 0 \in T
  BY SMT
<1>2. ASSUME NEW t \in Nat, t \in T PROVE t + 1 \in T
  <2>1. PICK g : Upto(t, g)
    BY <1>2
  <2> DEFINE h == Body(g)
  <2>2. \A l \in 0 .. N : h[l] = At(g, l)
    OBVIOUS
  <2> HIDE DEF h
  <2>3. ASSUME NEW l \in 0 .. N, l < t + 1 PROVE h[l] = At(h, l)
    <3>1. CASE l = 0
      BY <2>2, <3>1
    <3>2. CASE l # 0
      <4>1. l - 1 \in 0 .. N /\ l - 1 < t
        BY <2>3, <3>2
      <4>2. h[l - 1] = g[l - 1]
        BY <2>1, <2>2, <4>1
      <4> QED
        BY <2>2, <3>2, <4>2
    <3> QED
      BY <3>1, <3>2
  <2>4. Upto(t + 1, h)
    <3> HIDE DEF At
    <3> QED
      BY <2>3
  <2> HIDE DEF Upto
  <2> QED
    BY <2>4
<1>3. N + 1 \in T
  <2> HIDE DEF T
  <2> QED
    BY <1>1, <1>2, Counting
<1>4. PICK g : Upto(N + 1, g)
  BY <1>3
<1> DEFINE h == [l \in 0 .. N |-> g[l]]
<1>5. h = Body(h)
  <2>1. \A l \in 0 .. N : h[l] = g[l]
    OBVIOUS
  <2>2. ASSUME NEW l \in 0 .. N PROVE h[l] = At(h, l)
    <3> HIDE DEF h
    <3>1. h[l] = At(g, l)
      BY <1>4, <2>1
    <3>2. CASE l = 0
      BY <3>1, <3>2
    <3>3. CASE l # 0
      <4>1. h[l - 1] = g[l - 1]
        BY <2>1, <3>3
      <4> QED
        BY <3>1, <3>3, <4>1
    <3> QED
      BY <3>2, <3>3
  <2> QED
    BY <2>2
<1> HIDE DEF h
<1> DEFINE c == CHOOSE f : f = Body(f)
<1>6. c = Body(c)
  <2> HIDE DEF Body
  <2> QED
    BY <1>5, Zenon
<1>7. Level(D) = c
  BY Zenon DEF Level, Paired
<1> HIDE DEF c
<1>8. \A l \in 0 .. N : c[l] = At(c, l)
  BY <1>6
<1> QED
  BY <1>7, <1>8

\* Halving a list of 2 n nodes.
LEMMA PairedLength ==
  ASSUME NEW below, NEW n \in Nat, Len(below) = 2 * n \/ Len(below) = 2 * n + 1
  PROVE  /\ Listed(Paired(below)) /\ Len(Paired(below)) = n
         /\ \A i \in 1 .. n : Paired(below)[i] = HashPair(below[2 * i - 1], below[2 * i])
<1>1. Len(below) \div 2 = n
  OBVIOUS
<1>2. PICK q : q = Paired(below)
  OBVIOUS
<1>3. q = [i \in 1 .. n |-> HashPair(below[2 * i - 1], below[2 * i])]
  BY <1>1, <1>2 DEF Paired
<1>4. Len(q) = n
  BY <1>3
<1>5. \A i \in 1 .. n : q[i] = HashPair(below[2 * i - 1], below[2 * i])
  BY <1>3
<1>6. Listed(q)
  BY <1>3, <1>4, <1>5 DEF Listed
<1> QED
  BY <1>2, <1>4, <1>5, <1>6

\* Each level has half the nodes of the one below, up to the single root.
LEMMA LevelLengths ==
  ASSUME NEW D, Listed(D), Len(D) # 0,
         NEW h, NEW f, Powers(f, h, PaddedSize(Len(D)))
  PROVE  /\ h \in Nat /\ h + 1 <= PaddedSize(Len(D))
         /\ \A l \in 0 .. h : Len(Level(D)[l]) = f[h - l]
         /\ Height(D) = h
<1> DEFINE N == PaddedSize(Len(D))
<1>1. Len(D) \in Nat \ {0}
  BY DEF Listed
<1>2. N \in Nat /\ N >= Len(D)
  BY <1>1, PaddedSizePower
<1>3. h \in Nat /\ h + 1 <= N
  <2>1. h \in Nat /\ h \in 0 .. h /\ f[h] = N
    BY DEF Powers
  <2>2. f[h] >= h + 1
    BY <2>1, PowersGrow
  <2> QED
    BY <2>1, <2>2
<1>4. Len(Level(D)[0]) = N
  <2>1. Level(D)[0] = Pad(D)
    BY <1>2, LevelSteps
  <2>2. Len(Pad(D)) = N
    BY <1>2 DEF Pad
  <2> QED
    BY <2>1, <2>2
<1> HIDE DEF N
<1>5. \A l \in 1 .. N : Level(D)[l] = Paired(Level(D)[l - 1])
  BY <1>2, LevelSteps DEF N
<1>6. /\ f \in [0 .. h -> Nat \ {0}] /\ f[0] = 1 /\ f[h] = N
      /\ \A i \in 0 .. h - 1 : f[i + 1] = 2 * f[i]
  BY DEF Powers, N
<1> DEFINE T == {t \in Nat : t <= h => Len(Level(D)[t]) = f[h - t]}
<1>7. 0 \in T
  BY <1>3, <1>4, <1>6
<1>8. ASSUME NEW t \in Nat, t \in T PROVE t + 1 \in T
  <2> SUFFICES ASSUME t + 1 <= h PROVE Len(Level(D)[t + 1]) = f[h - (t + 1)]
    OBVIOUS
  <2>1. h - (t + 1) \in 0 .. h - 1 /\ (h - (t + 1)) + 1 = h - t /\ h - (t + 1) \in 0 .. h
    BY <1>3
  <2>2. f[h - t] = 2 * f[h - (t + 1)] /\ f[h - (t + 1)] \in Nat
    BY <2>1, <1>6
  <2>3. Len(Level(D)[t]) = 2 * f[h - (t + 1)]
    <3>1. t <= h
      BY <1>3
    <3> QED
      BY <3>1, <1>8, <2>2
  <2>4. t + 1 \in 1 .. N /\ (t + 1) - 1 = t
    BY <1>3, <1>2
  <2>5. Level(D)[t + 1] = Paired(Level(D)[t])
    BY <1>5, <2>4
  <2> QED
    BY <2>2, <2>3, <2>5, PairedLength
<1>9. Nat \subseteq T
  <2> HIDE DEF T
  <2> QED
    BY <1>7, <1>8, Counting
<1>10. \A l \in 0 .. h : Len(Level(D)[l]) = f[h - l]
  BY <1>3, <1>9
<1>11. ASSUME NEW l \in 0 .. N, Len(Level(D)[l]) = 1 PROVE l = h
  <2>1. CASE l < h
    <3>1. f[h - l] >= h - l + 1
      <4>1. h - l \in 0 .. h
        BY <1>3, <2>1
      <4> QED
        BY <4>1, PowersGrow
    <3>2. f[h - l] = 1
      <4>1. l \in 0 .. h
        BY <1>3, <2>1
      <4> QED
        BY <4>1, <1>10, <1>11
    <3> QED
      BY <3>1, <3>2, <2>1, <1>3
  <2>2. CASE l > h
    <3> DEFINE U == {t \in Nat : h + 1 + t <= N => Len(Level(D)[h + 1 + t]) = 0}
    <3>1. 0 \in U
      <4>1. ASSUME h + 1 <= N PROVE Len(Level(D)[h + 1]) = 0
        <5>1. Len(Level(D)[h]) = 2 * 0 + 1
          <6>1. h \in 0 .. h /\ f[h - h] = 1
            BY <1>3, <1>6
          <6>2. Len(Level(D)[h]) = f[h - h]
            BY <6>1, <1>10
          <6> QED
            BY <6>1, <6>2
        <5>2. h + 1 \in 1 .. N /\ (h + 1) - 1 = h
          BY <1>3, <4>1
        <5>3. Level(D)[h + 1] = Paired(Level(D)[h])
          BY <1>5, <5>2
        <5> QED
          BY <5>1, <5>3, PairedLength
      <4> QED
        BY <4>1, <1>3
    <3>2. ASSUME NEW t \in Nat, t \in U PROVE t + 1 \in U
      <4> SUFFICES ASSUME h + 1 + (t + 1) <= N PROVE Len(Level(D)[h + 1 + (t + 1)]) = 0
        OBVIOUS
      <4>1. PICK a \in Nat : a = h + 1 + t
        BY <1>3
      <4>2. Len(Level(D)[a]) = 2 * 0
        BY <3>2, <4>1, <1>2, <1>3
      <4>3. a + 1 \in 1 .. N /\ (a + 1) - 1 = a /\ h + 1 + (t + 1) = a + 1
        BY <4>1, <1>2, <1>3
      <4>4. Level(D)[a + 1] = Paired(Level(D)[a])
        BY <1>5, <4>3
      <4> QED
        BY <4>2, <4>3, <4>4, PairedLength
    <3>3. Nat \subseteq U
      <4> HIDE DEF U
      <4> QED
        BY <3>1, <3>2, Counting
    <3>4. l - (h + 1) \in Nat /\ h + 1 + (l - (h + 1)) = l
      BY <1>2, <1>3, <2>2
    <3>5. l - (h + 1) \in U
      BY <3>3, <3>4
    <3>6. Len(Level(D)[l]) = 0
      BY <3>4, <3>5
    <3> QED
      BY <3>6, <1>11
  <2> QED
    BY <2>1, <2>2, <1>2, <1>3
<1>12. Height(D) = h
  <2>1. h \in 0 .. N /\ Len(Level(D)[h]) = 1
    <3>1. h \in 0 .. h /\ f[h - h] = 1
      BY <1>3, <1>6
    <3>2. Len(Level(D)[h]) = 1
      BY <3>1, <1>10
    <3>3. h \in 0 .. N
      BY <1>2, <1>3
    <3> QED
      BY <3>2, <3>3
  <2>2. Height(D) = CHOOSE a \in 0 .. N : Len(Level(D)[a]) = 1
    BY DEF Height, N
  <2> QED
    BY <2>1, <2>2, <1>11
<1> QED
  BY <1>3, <1>10, <1>12 DEF N

\* verifyProof climbs from the leaf, node by node.
LEMMA PairsClimb ==
  ASSUME NEW x, NEW p, Len(p) \in Nat, DOMAIN p = 1 .. Len(p), NEW root
  PROVE  \E d : /\ d[0] = x
                /\ \A i \in 1 .. Len(p) : d[i] = ClimbPair(d[i - 1], p[i])
                /\ d[Len(p)] = root => VerifyPaddedProof(x, p, root)
<1> DEFINE Body(f) == [s \in SUBSET DOMAIN p |->
                         IF s = {} THEN x ELSE ClimbPair(f[s \ {Max(s)}], p[Max(s)])]
           c == CHOOSE f : f = Body(f)
<1>1. c[DOMAIN p] = root => VerifyPaddedProof(x, p, root)
  BY Zenon DEF VerifyPaddedProof, FoldLeft, MapThenFoldSet
<1>2. ASSUME NEW f, NEW s
      PROVE  FoldStep("pair", p, x, f, s) = IF s = {} THEN x ELSE ClimbPair(f[s \ {Max(s)}], p[Max(s)])
  BY DEF FoldStep, ClimbEither
<1>3. PICK g : FoldTable("pair", p, x, g)
  BY FoldIsDefined
<1> DEFINE h == [s \in SUBSET DOMAIN p |-> g[s]]
<1>4. h = Body(h)
  <2> SUFFICES ASSUME NEW s \in SUBSET DOMAIN p
               PROVE  h[s] = IF s = {} THEN x ELSE ClimbPair(h[s \ {Max(s)}], p[Max(s)])
    OBVIOUS
  <2>1. s \ {Max(s)} \in SUBSET DOMAIN p
    OBVIOUS
  <2>2. h[s] = g[s] /\ h[s \ {Max(s)}] = g[s \ {Max(s)}]
    BY <2>1
  <2> HIDE DEF h
  <2> QED
    BY <2>2, <1>2, <1>3 DEF FoldTable
<1> HIDE DEF h
<1>5. c = Body(c)
  <2> HIDE DEF Body
  <2> QED
    BY <1>4, Zenon
<1> HIDE DEF c
<1>6. FoldTable("pair", p, x, c)
  BY <1>2, <1>5 DEF FoldTable
<1>7. /\ c[1 .. 0] = x
      /\ \A i \in 1 .. Len(p) : c[1 .. i] = ClimbEither("pair", c[1 .. i - 1], p[i])
  BY <1>6, FoldClimbs
<1> DEFINE d == [i \in 0 .. Len(p) |-> c[1 .. i]]
<1>8. d[0] = x /\ d[Len(p)] = c[DOMAIN p]
  BY <1>7
<1>9. ASSUME NEW i \in 1 .. Len(p) PROVE d[i] = ClimbPair(d[i - 1], p[i])
  <2>1. d[i] = c[1 .. i] /\ d[i - 1] = c[1 .. i - 1]
    OBVIOUS
  <2> QED
    BY <1>7, <2>1 DEF ClimbEither
<1> HIDE DEF d
<1> QED
  BY <1>1, <1>8, <1>9

\* buildProof halves the index at each level.
LEMMA IndexSteps ==
  ASSUME NEW D, PaddedSize(Len(D)) \in Nat, NEW index
  PROVE  /\ IndexAt(D, index)[0] = index
         /\ \A l \in 1 .. PaddedSize(Len(D)) : IndexAt(D, index)[l] = IndexAt(D, index)[l - 1] \div 2
<1> DEFINE N == PaddedSize(Len(D))
           At(g, l) == IF l = 0 THEN index ELSE g[l - 1] \div 2
           Body(g) == [l \in 0 .. N |-> At(g, l)]
           Upto(t, g) == \A l \in 0 .. N : l < t => g[l] = At(g, l)
           T == {t \in Nat : \E g : Upto(t, g)}
<1>1. 0 \in T
  BY SMT
<1>2. ASSUME NEW t \in Nat, t \in T PROVE t + 1 \in T
  <2>1. PICK g : Upto(t, g)
    BY <1>2
  <2> DEFINE h == Body(g)
  <2>2. \A l \in 0 .. N : h[l] = At(g, l)
    OBVIOUS
  <2> HIDE DEF h
  <2>3. ASSUME NEW l \in 0 .. N, l < t + 1 PROVE h[l] = At(h, l)
    <3>1. CASE l = 0
      BY <2>2, <3>1
    <3>2. CASE l # 0
      <4>1. l - 1 \in 0 .. N /\ l - 1 < t
        BY <2>3, <3>2
      <4>2. h[l - 1] = g[l - 1]
        BY <2>1, <2>2, <4>1
      <4> QED
        BY <2>2, <3>2, <4>2
    <3> QED
      BY <3>1, <3>2
  <2>4. Upto(t + 1, h)
    <3> HIDE DEF At
    <3> QED
      BY <2>3
  <2> HIDE DEF Upto
  <2> QED
    BY <2>4
<1>3. N + 1 \in T
  <2> HIDE DEF T
  <2> QED
    BY <1>1, <1>2, Counting
<1>4. PICK g : Upto(N + 1, g)
  BY <1>3
<1> DEFINE h == [l \in 0 .. N |-> g[l]]
<1>5. h = Body(h)
  <2>1. \A l \in 0 .. N : h[l] = g[l]
    OBVIOUS
  <2>2. ASSUME NEW l \in 0 .. N PROVE h[l] = At(h, l)
    <3> HIDE DEF h
    <3>1. h[l] = At(g, l)
      BY <1>4, <2>1
    <3>2. CASE l = 0
      BY <3>1, <3>2
    <3>3. CASE l # 0
      <4>1. h[l - 1] = g[l - 1]
        BY <2>1, <3>3
      <4> QED
        BY <3>1, <3>3, <4>1
    <3> QED
      BY <3>2, <3>3
  <2> QED
    BY <2>2
<1> HIDE DEF h
<1> DEFINE c == CHOOSE f : f = Body(f)
<1>6. c = Body(c)
  <2> HIDE DEF Body
  <2> QED
    BY <1>5, Zenon
<1>7. IndexAt(D, index) = c
  BY Zenon DEF IndexAt
<1> HIDE DEF c
<1>8. \A l \in 0 .. N : c[l] = At(c, l)
  BY <1>6
<1> QED
  BY <1>7, <1>8

\* The padded leaves.
LEMMA PadLeaf ==
  ASSUME NEW D, Listed(D), Len(D) # 0
  PROVE  /\ PaddedSize(Len(D)) \in Nat /\ PaddedSize(Len(D)) >= Len(D)
         /\ \A i \in 1 .. Len(D) : Level(D)[0][i] = D[i]
         /\ \A i \in 1 .. PaddedSize(Len(D)) :
              i > Len(D) => Level(D)[0][i] = D[Len(D)]
<1>1. Len(D) \in Nat \ {0}
  BY DEF Listed
<1>2. PaddedSize(Len(D)) \in Nat /\ PaddedSize(Len(D)) >= Len(D)
  BY <1>1, PaddedSizePower
<1>3. Level(D)[0] = Pad(D)
  BY <1>2, LevelSteps
<1> QED
  BY <1>1, <1>2, <1>3 DEF Pad

\* The proof of each record climbs to the root: at each level the node climbed to is
\* the one at the halved index.
THEOREM PaddedProofClimbs ==
  ASSUME NEW D, Listed(D), NEW index \in 0 .. Len(D) - 1
  PROVE  VerifyPaddedProof(D[index + 1], PaddedProof(D, index), PaddedRoot(D))
<1>1. Len(D) \in Nat \ {0}
  BY DEF Listed
<1>2. PICK N : N = PaddedSize(Len(D))
  OBVIOUS
<1>3. N \in Nat /\ N >= Len(D)
  BY <1>1, <1>2, PaddedSizePower
<1>4. PICK h \in Nat : \E f : Powers(f, h, N)
  BY <1>1, <1>2, PaddedSizePower
<1>5. PICK f : Powers(f, h, N)
  BY <1>4
<1>6. /\ h + 1 <= N
      /\ \A l \in 0 .. h : Len(Level(D)[l]) = f[h - l]
      /\ Height(D) = h
  BY <1>1, <1>2, <1>5, LevelLengths
<1>7. /\ f \in [0 .. h -> Nat \ {0}] /\ f[0] = 1 /\ f[h] = N
      /\ \A i \in 0 .. h - 1 : f[i + 1] = 2 * f[i]
  BY <1>5 DEF Powers
<1>8. PICK At : At = IndexAt(D, index)
  OBVIOUS
<1>9. At[0] = index /\ \A l \in 1 .. N : At[l] = At[l - 1] \div 2
  BY <1>2, <1>3, <1>8, IndexSteps
<1>10. PICK p : p = PaddedProof(D, index)
  OBVIOUS
<1>11. p = [l \in 1 .. h |->
              IF At[l - 1] % 2 = 1 THEN Step(Level(D)[l - 1][At[l - 1]], "left")
                                   ELSE Step(Level(D)[l - 1][At[l - 1] + 2], "right")]
  BY <1>6, <1>8, <1>10 DEF PaddedProof
<1>12. Len(p) = h /\ DOMAIN p = 1 .. h
  BY <1>11
<1>13. PICK root : root = PaddedRoot(D)
  OBVIOUS
<1>14. PICK d : /\ d[0] = D[index + 1]
                /\ \A i \in 1 .. Len(p) : d[i] = ClimbPair(d[i - 1], p[i])
                /\ d[Len(p)] = root => VerifyPaddedProof(D[index + 1], p, root)
  BY <1>12, PairsClimb
<1> DEFINE Good(l) == /\ At[l] \in Nat /\ At[l] < f[h - l]
                      /\ d[l] = Level(D)[l][At[l] + 1]
           T == {t \in Nat : t <= h => Good(t)}
<1>15. 0 \in T
  <2>1. At[0] < f[h - 0]
    BY <1>3, <1>7, <1>9
  <2>2. index + 1 \in 1 .. Len(D)
    BY <1>1
  <2>3. Level(D)[0][index + 1] = D[index + 1]
    BY <1>1, <2>2, PadLeaf
  <2> QED
    BY <2>1, <2>3, <1>9, <1>14
<1>16. ASSUME NEW t \in Nat, t \in T PROVE t + 1 \in T
  <2> SUFFICES ASSUME t + 1 <= h PROVE Good(t + 1)
    OBVIOUS
  <2>1. Good(t)
    BY <1>16
  <2>2. PICK i \in Nat : i = At[t]
    BY <2>1
  <2>3. PICK n \in Nat : n = f[h - (t + 1)]
    BY <1>7
  <2>4. f[h - t] = 2 * n
    <3>1. h - (t + 1) \in 0 .. h - 1 /\ (h - (t + 1)) + 1 = h - t
      OBVIOUS
    <3> QED
      BY <3>1, <1>7, <2>3
  <2>5. i < 2 * n
    BY <2>1, <2>2, <2>4
  <2>6. At[t + 1] = i \div 2
    <3>1. t + 1 \in 1 .. N /\ (t + 1) - 1 = t
      BY <1>3, <1>6
    <3> QED
      BY <3>1, <1>9, <2>2
  <2>7. PICK below : below = Level(D)[t]
    OBVIOUS
  <2>8. Level(D)[t + 1] = Paired(below)
    <3>1. t + 1 \in 1 .. PaddedSize(Len(D)) /\ (t + 1) - 1 = t
      BY <1>2, <1>3, <1>6
    <3> QED
      BY <3>1, <1>2, <1>3, <2>7, LevelSteps
  <2>9. Len(below) = 2 * n
    <3>1. t \in 0 .. h
      OBVIOUS
    <3> QED
      BY <3>1, <1>6, <2>4, <2>7
  <2>10. \A j \in 1 .. n : Level(D)[t + 1][j] = HashPair(below[2 * j - 1], below[2 * j])
    BY <2>8, <2>9, PairedLength
  <2>11. d[t] = below[i + 1]
    BY <2>1, <2>2, <2>7
  <2>12. d[t + 1] = ClimbPair(below[i + 1], p[t + 1])
    <3>1. t + 1 \in 1 .. Len(p) /\ (t + 1) - 1 = t
      BY <1>12
    <3> QED
      BY <3>1, <1>14, <2>11
  <2>13. p[t + 1] = IF i % 2 = 1 THEN Step(below[i], "left") ELSE Step(below[i + 2], "right")
    <3>1. t + 1 \in 1 .. h /\ (t + 1) - 1 = t
      OBVIOUS
    <3> QED
      BY <3>1, <1>11, <2>2, <2>7
  <2>14. CASE i % 2 = 1
    <3>1. PICK j \in Nat : i = 2 * j + 1
      <4>1. i = 2 * (i \div 2) + 1 /\ i \div 2 \in Nat
        BY <2>14
      <4> QED
        BY <4>1
    <3>2. i \div 2 = j /\ j + 1 \in 1 .. n /\ 2 * (j + 1) - 1 = i /\ 2 * (j + 1) = i + 1
      BY <3>1, <2>5
    <3>3. d[t + 1] = HashPair(below[i], below[i + 1])
      BY <2>12, <2>13, <2>14 DEF ClimbPair, Step
    <3>4. Level(D)[t + 1][j + 1] = HashPair(below[i], below[i + 1])
      BY <2>10, <3>2
    <3>5. At[t + 1] = j /\ j < f[h - (t + 1)]
      BY <2>3, <2>6, <3>2
    <3> QED
      BY <3>3, <3>4, <3>5
  <2>15. CASE i % 2 # 1
    <3>1. PICK j \in Nat : i = 2 * j
      <4>1. i = 2 * (i \div 2) /\ i \div 2 \in Nat
        BY <2>15
      <4> QED
        BY <4>1
    <3>2. i \div 2 = j /\ j + 1 \in 1 .. n /\ 2 * (j + 1) - 1 = i + 1 /\ 2 * (j + 1) = i + 2
      BY <3>1, <2>5
    <3>3. d[t + 1] = HashPair(below[i + 1], below[i + 2])
      BY <2>12, <2>13, <2>15 DEF ClimbPair, Step
    <3>4. Level(D)[t + 1][j + 1] = HashPair(below[i + 1], below[i + 2])
      BY <2>10, <3>2
    <3>5. At[t + 1] = j /\ j < f[h - (t + 1)]
      BY <2>3, <2>6, <3>2
    <3> QED
      BY <3>3, <3>4, <3>5
  <2> QED
    BY <2>14, <2>15
<1>17. h \in T
  <2> HIDE DEF T
  <2> QED
    BY <1>15, <1>16, Counting
<1>18. At[h] = 0
  <2>1. At[h] \in Nat /\ At[h] < f[h - h]
    BY <1>17
  <2>2. f[h - h] = 1
    BY <1>7
  <2> QED
    BY <2>1, <2>2
<1>19. d[h] = Level(D)[h][1]
  BY <1>17, <1>18
<1>20. root = Level(D)[h][1]
  <2>1. D # <<>>
    BY <1>1
  <2> QED
    BY <2>1, <1>6, <1>13 DEF PaddedRoot
<1> QED
  BY <1>10, <1>12, <1>13, <1>14, <1>19, <1>20

\* No leaf is a hash of the tree, and no two leaves are equal.
ProperLeaves(D) ==
  /\ \A i \in 1 .. Len(D) : D[i] # <<"zeros">> /\ \A l : \A r : D[i] # HashPair(l, r)
  /\ \A i \in 1 .. Len(D) : \A j \in 1 .. Len(D) : D[i] = D[j] => i = j

\* What a node of a level is: a leaf on the lowest, the hash of a pair on the others.
LEMMA NodeOfLevel ==
  ASSUME NEW D, Listed(D), Len(D) # 0, NEW h, NEW f, Powers(f, h, PaddedSize(Len(D))),
         NEW l \in 0 .. h, NEW i \in 1 .. f[h - l]
  PROVE  /\ l = 0 => \E j \in 1 .. Len(D) : Level(D)[l][i] = D[j]
         /\ l # 0 => /\ l - 1 \in 0 .. h
                     /\ 2 * i - 1 \in 1 .. f[h - (l - 1)] /\ 2 * i \in 1 .. f[h - (l - 1)]
                     /\ Level(D)[l][i] = HashPair(Level(D)[l - 1][2 * i - 1], Level(D)[l - 1][2 * i])
<1>1. /\ h \in Nat /\ f \in [0 .. h -> Nat \ {0}] /\ f[0] = 1 /\ f[h] = PaddedSize(Len(D))
      /\ \A a \in 0 .. h - 1 : f[a + 1] = 2 * f[a]
  BY DEF Powers
<1>2. /\ h + 1 <= PaddedSize(Len(D))
      /\ \A a \in 0 .. h : Len(Level(D)[a]) = f[h - a]
  BY LevelLengths
<1>3. Len(D) \in Nat \ {0}
  BY DEF Listed
<1>4. CASE l = 0
  <2>1. i \in 1 .. PaddedSize(Len(D))
    BY <1>1, <1>4
  <2>2. CASE i <= Len(D)
    <3>1. i \in 1 .. Len(D)
      BY <2>1, <2>2, <1>3
    <3> QED
      BY <3>1, <1>4, PadLeaf
  <2>3. CASE i > Len(D)
    <3>1. Level(D)[0][i] = D[Len(D)]
      BY <2>1, <2>3, PadLeaf
    <3>2. Len(D) \in 1 .. Len(D)
      BY <1>3
    <3> QED
      BY <3>1, <3>2, <1>4
  <2> QED
    BY <1>3, <1>4, <2>1, <2>2, <2>3
<1>5. CASE l # 0
  <2>1. l - 1 \in 0 .. h /\ h - l \in 0 .. h - 1 /\ (h - l) + 1 = h - (l - 1)
    BY <1>1, <1>5
  <2>2. PICK n \in Nat : n = f[h - l]
    BY <1>1
  <2>3. f[h - (l - 1)] = 2 * n
    BY <1>1, <2>1, <2>2
  <2>4. Len(Level(D)[l - 1]) = 2 * n
    BY <1>2, <2>1, <2>3
  <2>5. PaddedSize(Len(D)) \in Nat
    BY PadLeaf
  <2>6. Level(D)[l] = Paired(Level(D)[l - 1])
    <3>1. l \in 1 .. PaddedSize(Len(D))
      BY <1>1, <1>2, <1>5, <2>5
    <3> QED
      BY <3>1, <2>5, LevelSteps
  <2>7. Level(D)[l][i] = HashPair(Level(D)[l - 1][2 * i - 1], Level(D)[l - 1][2 * i])
    BY <2>2, <2>4, <2>6, PairedLength
  <2>8. 2 * i - 1 \in 1 .. 2 * n /\ 2 * i \in 1 .. 2 * n
    BY <2>2
  <2> QED
    BY <1>5, <2>1, <2>3, <2>7, <2>8
<1> QED
  BY <1>4, <1>5

\* Equal nodes are as high: below one of them a leaf would be a hash of the tree.
LEMMA NodesAsHigh ==
  ASSUME NEW D, Listed(D), Len(D) # 0, NEW h, NEW f, Powers(f, h, PaddedSize(Len(D))),
         NEW E, Listed(E), Len(E) # 0, NEW k, NEW e, Powers(e, k, PaddedSize(Len(E))),
         ProperLeaves(D), ProperLeaves(E),
         NEW a \in 0 .. h, NEW i \in 1 .. f[h - a], NEW b \in 0 .. k, NEW j \in 1 .. e[k - b],
         Level(D)[a][i] = Level(E)[b][j]
  PROVE  a = b
<1> DEFINE Good(s) == \A c \in 0 .. k : \A x \in 1 .. f[h - s] : \A y \in 1 .. e[k - c] :
                        Level(D)[s][x] = Level(E)[c][y] => s = c
           T == {t \in Nat : t <= h => Good(t)}
<1>1. h \in Nat /\ k \in Nat
  BY DEF Powers
<1>2. 0 \in T
  <2> SUFFICES ASSUME NEW c \in 0 .. k, NEW x \in 1 .. f[h - 0], NEW y \in 1 .. e[k - c],
                      Level(D)[0][x] = Level(E)[c][y], c # 0
               PROVE  FALSE
    OBVIOUS
  <2>1. 0 \in 0 .. h
    BY <1>1
  <2>2. PICK z \in 1 .. Len(D) : Level(D)[0][x] = D[z]
    BY <2>1, NodeOfLevel
  <2>3. Level(E)[c][y] = HashPair(Level(E)[c - 1][2 * y - 1], Level(E)[c - 1][2 * y])
    BY NodeOfLevel
  <2>4. PICK l : \E r : D[z] = HashPair(l, r)
    BY <2>2, <2>3
  <2> QED
    BY <2>4 DEF ProperLeaves
<1>3. ASSUME NEW t \in Nat, t \in T PROVE t + 1 \in T
  <2> SUFFICES ASSUME t + 1 <= h, NEW c \in 0 .. k,
                      NEW x \in 1 .. f[h - (t + 1)], NEW y \in 1 .. e[k - c],
                      Level(D)[t + 1][x] = Level(E)[c][y]
               PROVE  t + 1 = c
    OBVIOUS
  <2>1. PICK s \in 0 .. h : s = t + 1 /\ s # 0 /\ s - 1 = t
    BY <1>1
  <2>2. /\ 2 * x - 1 \in 1 .. f[h - (s - 1)]
        /\ Level(D)[s][x] = HashPair(Level(D)[s - 1][2 * x - 1], Level(D)[s - 1][2 * x])
    BY <2>1, NodeOfLevel
  <2>3. CASE c = 0
    <3>1. \E z \in 1 .. Len(E) : Level(E)[c][y] = E[z]
      <4>1. PICK l \in 0 .. k : l = 0 /\ l = c
        BY <1>1, <2>3
      <4>2. y \in 1 .. e[k - l]
        BY <4>1
      <4>3. \E z \in 1 .. Len(E) : Level(E)[l][y] = E[z]
        BY <4>1, <4>2, NodeOfLevel
      <4> QED
        BY <4>1, <4>3
    <3>2. PICK z \in 1 .. Len(E) : Level(E)[c][y] = E[z]
      BY <3>1
    <3>3. PICK l : \E r : E[z] = HashPair(l, r)
      BY <3>2, <2>1, <2>2
    <3> QED
      BY <3>3 DEF ProperLeaves
  <2>4. CASE c # 0
    <3>1. /\ c - 1 \in 0 .. k /\ 2 * y - 1 \in 1 .. e[k - (c - 1)]
          /\ Level(E)[c][y] = HashPair(Level(E)[c - 1][2 * y - 1], Level(E)[c - 1][2 * y])
      <4>1. PICK l \in 0 .. k : l # 0 /\ l = c
        BY <2>4
      <4>2. y \in 1 .. e[k - l]
        BY <4>1
      <4>3. /\ l - 1 \in 0 .. k /\ 2 * y - 1 \in 1 .. e[k - (l - 1)]
            /\ Level(E)[l][y] = HashPair(Level(E)[l - 1][2 * y - 1], Level(E)[l - 1][2 * y])
        BY <4>1, <4>2, NodeOfLevel
      <4> QED
        BY <4>1, <4>3
    <3>2. HashPair(Level(D)[s - 1][2 * x - 1], Level(D)[s - 1][2 * x])
            = HashPair(Level(E)[c - 1][2 * y - 1], Level(E)[c - 1][2 * y])
      BY <2>1, <2>2, <3>1
    <3>3. Level(D)[t][2 * x - 1] = Level(E)[c - 1][2 * y - 1]
      BY <3>2, <2>1, PairBinds
    <3>4. Good(t)
      <4>1. t <= h
        BY <1>1
      <4> HIDE DEF Good
      <4> QED
        BY <1>3, <4>1
    <3>5. 2 * x - 1 \in 1 .. f[h - t]
      BY <2>1, <2>2
    <3>6. t = c - 1
      BY <3>1, <3>3, <3>4, <3>5
    <3> QED
      BY <3>6, <2>4
  <2> QED
    BY <2>3, <2>4
<1>4. Nat \subseteq T
  <2> HIDE DEF T
  <2> QED
    BY <1>2, <1>3, Counting
<1>5. Good(a)
  <2>1. a \in Nat /\ a <= h
    BY <1>1
  <2>2. a \in T
    BY <2>1, <1>4
  <2> QED
    BY <2>1, <2>2
<1> QED
  BY <1>5

\* A log and a shorter prefix of it have different padded roots.
THEOREM PaddedRootBinds ==
  ASSUME NEW D, Listed(D), ProperLeaves(D), NEW E, Listed(E), Len(E) < Len(D),
         \A i \in 1 .. Len(E) : E[i] = D[i]
  PROVE  PaddedRoot(E) # PaddedRoot(D)
<1> SUFFICES ASSUME PaddedRoot(E) = PaddedRoot(D) PROVE FALSE
  OBVIOUS
<1>1. Len(D) \in Nat \ {0} /\ Len(E) \in Nat /\ Len(D) # 0
  BY DEF Listed
<1>2. PICK h \in Nat : \E f : Powers(f, h, PaddedSize(Len(D)))
  BY <1>1, PaddedSizePower
<1>3. PICK f : Powers(f, h, PaddedSize(Len(D)))
  BY <1>2
<1>4. PaddedRoot(D) = Level(D)[h][1]
  <2>1. D # <<>> /\ Height(D) = h
    BY <1>1, <1>3, LevelLengths
  <2> QED
    BY <2>1 DEF PaddedRoot
<1>5. h \in 0 .. h /\ f[h - h] = 1 /\ 1 \in 1 .. f[h - h]
  <2>1. f[0] = 1 /\ h - h = 0
    BY <1>3 DEF Powers
  <2>2. h \in 0 .. h /\ f[h - h] = 1
    BY <2>1
  <2> QED
    BY <2>2
<1>6. CASE Len(E) = 0
  <2>1. E = <<>>
    BY <1>6 DEF Listed
  <2>2. PaddedRoot(D) = <<"zeros">>
    BY <2>1 DEF PaddedRoot
  <2>3. CASE h = 0
    <3>1. PICK j \in 1 .. Len(D) : Level(D)[h][1] = D[j]
      BY <1>1, <1>3, <1>5, <2>3, NodeOfLevel
    <3> QED
      BY <3>1, <1>4, <2>2 DEF ProperLeaves
  <2>4. CASE h # 0
    <3>1. PICK l : Level(D)[h][1] = HashPair(l, Level(D)[h - 1][2 * 1])
      BY <1>1, <1>3, <1>5, <2>4, NodeOfLevel
    <3>2. HashPair(l, Level(D)[h - 1][2 * 1])[1] = "pair" /\ <<"zeros">>[1] = "zeros"
      BY DEF HashPair
    <3> QED
      BY <3>1, <3>2, <1>4, <2>2
  <2> QED
    BY <2>3, <2>4
<1>7. CASE Len(E) # 0
  <2>1. PICK k \in Nat : \E e : Powers(e, k, PaddedSize(Len(E)))
    BY <1>1, <1>7, PaddedSizePower
  <2>2. PICK e : Powers(e, k, PaddedSize(Len(E)))
    BY <2>1
  <2>3. PaddedRoot(E) = Level(E)[k][1]
    <3>1. E # <<>> /\ Height(E) = k
      BY <1>1, <1>7, <2>2, LevelLengths
    <3> QED
      BY <3>1 DEF PaddedRoot
  <2>4. k \in 0 .. k /\ 1 \in 1 .. e[k - k]
    <3>1. e[0] = 1 /\ k - k = 0
      BY <2>2 DEF Powers
    <3>2. k \in 0 .. k /\ e[k - k] = 1
      BY <3>1
    <3> QED
      BY <3>2
  <2>5. ProperLeaves(E)
    <3>1. \A i \in 1 .. Len(E) : i \in 1 .. Len(D)
      BY <1>1
    <3> QED
      BY <3>1 DEF ProperLeaves
  <2>6. h = k
    <3>1. Level(D)[h][1] = Level(E)[k][1]
      BY <1>4, <2>3
    <3> QED
      BY <3>1, <1>1, <1>3, <1>5, <1>7, <2>2, <2>4, <2>5, NodesAsHigh
  <2>7. \A i \in 0 .. h : f[i] = e[i]
    BY <1>3, <2>2, <2>6, PowersAgree
  <2>8. f \in [0 .. h -> Nat \ {0}] /\ \A a \in 0 .. h - 1 : f[a + 1] = 2 * f[a]
    BY <1>3 DEF Powers
  <2> DEFINE Good(t) == \A i \in 1 .. f[t] : Level(D)[h - t][i] = Level(E)[h - t][i]
             T == {t \in Nat : t <= h => Good(t)}
  <2>9. 0 \in T
    <3>1. f[0] = 1 /\ h - 0 = h
      BY <1>3 DEF Powers
    <3>2. Level(D)[h][1] = Level(E)[h][1]
      BY <1>4, <2>3, <2>6
    <3> QED
      BY <3>1, <3>2
  <2>10. ASSUME NEW t \in Nat, t \in T PROVE t + 1 \in T
    <3> SUFFICES ASSUME t + 1 <= h PROVE Good(t + 1)
      <4> HIDE DEF Good
      <4> QED
        OBVIOUS
    <3> SUFFICES ASSUME NEW i \in 1 .. f[t + 1]
                 PROVE  Level(D)[h - (t + 1)][i] = Level(E)[h - (t + 1)][i]
      OBVIOUS
    <3>1. PICK n \in Nat : n = f[t]
      BY <2>8
    <3>2. i \in 1 .. 2 * n
      <4>1. t \in 0 .. h - 1
        OBVIOUS
      <4> QED
        BY <4>1, <2>8, <3>1
    <3>3. PICK x \in 1 .. n : i = 2 * x - 1 \/ i = 2 * x
      <4>1. CASE i % 2 = 1
        <5>1. i = 2 * (i \div 2 + 1) - 1 /\ i \div 2 + 1 \in 1 .. n
          BY <3>2, <4>1
        <5> QED
          BY <5>1
      <4>2. CASE i % 2 # 1
        <5>1. i = 2 * (i \div 2) /\ i \div 2 \in 1 .. n
          BY <3>2, <4>2
        <5> QED
          BY <5>1
      <4> QED
        BY <4>1, <4>2
    <3>4. PICK l \in 0 .. h : l = h - t /\ l # 0 /\ l - 1 = h - (t + 1) /\ h - l = t
      OBVIOUS
    <3>5. Level(D)[l][x] = HashPair(Level(D)[l - 1][2 * x - 1], Level(D)[l - 1][2 * x])
      <4>1. x \in 1 .. f[h - l]
        BY <3>1, <3>3, <3>4
      <4> QED
        BY <4>1, <1>1, <1>3, <3>4, NodeOfLevel
    <3>6. Level(E)[l][x] = HashPair(Level(E)[l - 1][2 * x - 1], Level(E)[l - 1][2 * x])
      <4>1. l \in 0 .. k /\ k - l = t /\ x \in 1 .. e[k - l]
        BY <2>6, <2>7, <3>1, <3>3, <3>4
      <4>2. Len(E) # 0 /\ l # 0
        BY <1>7, <3>4
      <4> HIDE DEF Good, T
      <4> QED
        BY <4>1, <4>2, <2>2, NodeOfLevel
    <3>7. Level(D)[l][x] = Level(E)[l][x]
      <4>1. Good(t)
        BY <2>10
      <4> QED
        BY <4>1, <3>1, <3>3, <3>4
    <3>8. HashPair(Level(D)[l - 1][2 * x - 1], Level(D)[l - 1][2 * x])
            = HashPair(Level(E)[l - 1][2 * x - 1], Level(E)[l - 1][2 * x])
      BY <3>5, <3>6, <3>7
    <3>9. /\ Level(D)[l - 1][2 * x - 1] = Level(E)[l - 1][2 * x - 1]
          /\ Level(D)[l - 1][2 * x] = Level(E)[l - 1][2 * x]
      BY <3>8, PairBinds
    <3> QED
      BY <3>3, <3>4, <3>9
  <2>11. h \in T
    <3> HIDE DEF T
    <3> QED
      BY <2>9, <2>10, Counting
  <2>12. \A i \in 1 .. PaddedSize(Len(D)) : Level(D)[0][i] = Level(E)[0][i]
    <3>1. f[h] = PaddedSize(Len(D)) /\ h - h = 0
      BY <1>3 DEF Powers
    <3> QED
      BY <2>11, <3>1
  <2>13. PaddedSize(Len(E)) = PaddedSize(Len(D))
    <3>1. f[h] = PaddedSize(Len(D)) /\ e[k] = PaddedSize(Len(E)) /\ h \in 0 .. h
      BY <1>3, <2>2 DEF Powers
    <3> QED
      BY <3>1, <2>6, <2>7
  <2>14. PICK i \in 1 .. Len(D) : i = Len(E) + 1
    BY <1>1
  <2>15. PaddedSize(Len(D)) \in Nat /\ PaddedSize(Len(D)) >= Len(D) /\ Level(D)[0][i] = D[i]
    BY <1>1, PadLeaf
  <2>16. Level(E)[0][i] = E[Len(E)]
    <3>1. i \in 1 .. PaddedSize(Len(E)) /\ i > Len(E)
      BY <1>1, <2>13, <2>14, <2>15
    <3> QED
      BY <3>1, <1>7, PadLeaf
  <2>17. D[i] = D[Len(E)] /\ Len(E) \in 1 .. Len(D)
    <3>1. Len(E) \in 1 .. Len(E) /\ Len(E) \in 1 .. Len(D)
      BY <1>1, <1>7
    <3>2. i \in 1 .. PaddedSize(Len(D))
      BY <2>15
    <3> QED
      BY <3>1, <3>2, <2>12, <2>15, <2>16
  <2>18. i = Len(E)
    BY <2>17 DEF ProperLeaves
  <2> QED
    BY <2>14, <2>18, <1>1
<1> QED
  BY <1>6, <1>7

-----------------------------------------------------------------------------
(* The auditor: the inductive invariant of LogAudit *)

\* What anybody with access to the database can leave in the k-th row: its payload and
\* its hash may be of different contents, but the index stays.
IsRecord(k, r) ==
  \E p \in Agents : \E q \in Agents :
    r = [index |-> k - 1, payload |-> p, hash |-> RecordHash(k - 1, q)]

IsLog(s) == Listed(s) /\ \A k \in 1 .. Len(s) : IsRecord(k, s[k])

\* A record as it was appended, the log of the first n of them, and its leaves.
Original(k)       == Record(k, Author[k])
OriginalLog(n)    == [k \in 1 .. n |-> Original(k)]
OriginalLeaves(n) == [k \in 1 .. n |-> Original(k).hash]

IsOriginalLog(s)  == s = OriginalLog(Len(s))
IsOriginalHead(s) == s = OriginalLeaves(Len(s))

\* Records carry their places, and heads are sequences of leaves.
LogsShaped ==
  /\ IsLog(records) /\ IsLog(tenantChain)
  /\ Listed(latestHead)
  /\ \A size \in DOMAIN treeHeads : size \in Nat /\ Listed(treeHeads[size]) /\ Len(treeHeads[size]) = size
  /\ \A sth \in saved : Listed(sth)

\* Proof and root of an inclusion reply are made of as many leaves as its head has.
InclusionShaped(reply, leafHashes) ==
  /\ Listed(reply.sth) /\ Listed(leafHashes) /\ Len(leafHashes) = Len(reply.sth)
  /\ reply.record.index \in 0 .. Len(reply.sth) - 1
  /\ reply.leafHash = HashLeaf(reply.record.hash)
  /\ reply.proof = AuditPath(reply.record.index, leafHashes)
  /\ reply.root = Root(leafHashes)

ConsistencyShaped(reply, leafHashes) ==
  /\ Listed(reply.older) /\ Listed(reply.newer) /\ Len(reply.older) <= Len(reply.newer)
  /\ Listed(leafHashes) /\ Len(leafHashes) = Len(reply.newer)
  /\ reply.proof = ConsistencyProof(Len(reply.older), leafHashes)

QueryShaped ==
  /\ query.stage \in {"none", "head", "leaves", "inclusion", "consistency"}
  /\ query.stage \in {"head", "leaves"} =>
       query.index \in Nat /\ IsRecord(query.index + 1, query.record)
  /\ query.stage = "leaves" => Listed(query.sth) /\ query.index < Len(query.sth)
  /\ query.stage = "inclusion" => \E leafHashes : InclusionShaped(query, leafHashes)
  /\ query.stage = "consistency" => \E leafHashes : ConsistencyShaped(query, leafHashes)

\* While no row has been altered there is one log, and everything is a prefix of it.
LogsOriginal ==
  altered = {} =>
    /\ IsOriginalLog(records) /\ IsOriginalLog(tenantChain)
    /\ IsOriginalHead(latestHead)
    /\ \A size \in DOMAIN treeHeads : IsOriginalHead(treeHeads[size])
    /\ \A sth \in saved : IsOriginalHead(sth)

QueryOriginal ==
  altered = {} =>
    /\ query.stage \in {"head", "leaves"} => query.record = Original(query.index + 1)
    /\ query.stage = "leaves" => IsOriginalHead(query.sth)
    /\ query.stage = "inclusion" =>
         /\ IsOriginalHead(query.sth)
         /\ query.record = Original(query.record.index + 1)
         /\ query.root = Root(query.sth)
    /\ query.stage = "consistency" =>
         /\ IsOriginalHead(query.older) /\ IsOriginalHead(query.newer)
         /\ query.proof = ConsistencyProof(Len(query.older), query.newer)

AuditInv == LogsShaped /\ QueryShaped /\ LogsOriginal /\ QueryOriginal

-----------------------------------------------------------------------------

\* A prefix of a sequence is one of its first places.
LEMMA PrefixListed ==
  ASSUME NEW s, Listed(s), NEW n \in 0 .. Len(s)
  PROVE  /\ Listed(Prefix(s, n)) /\ Len(Prefix(s, n)) = n
         /\ \A k \in 1 .. n : Prefix(s, n)[k] = s[k]
<1> DEFINE S == {s[i] : i \in 1 .. Len(s)}
<1>1. s \in Seq(S) /\ Len(s) \in Nat /\ n \in Nat /\ n <= Len(s)
  BY DEF Listed
<1>2. PICK q : q = Prefix(s, n)
  OBVIOUS
<1>3. /\ q \in Seq(S) /\ Len(q) = n
      /\ \A k \in 1 .. n : q[k] = s[k]
  <2> HIDE DEF S
  <2> QED
    BY <1>1, <1>2 DEF Prefix
<1>4. q = [i \in 1 .. Len(q) |-> q[i]]
  <2> HIDE DEF S
  <2> QED
    BY <1>3
<1> QED
  BY <1>1, <1>2, <1>3, <1>4 DEF Listed

\* The leaves of a log are the hashes of its records, in their order.
LEMMA LeavesListed ==
  ASSUME NEW s, IsLog(s)
  PROVE  /\ Listed(Leaves(s)) /\ Len(Leaves(s)) = Len(s) /\ DOMAIN s = 1 .. Len(s)
         /\ \A k \in 1 .. Len(s) : Leaves(s)[k] = s[k].hash
<1>1. PICK n \in Nat : n = Len(s)
  BY DEF IsLog, Listed
<1>2. s = [i \in 1 .. n |-> s[i]] /\ DOMAIN s = 1 .. n
  BY <1>1 DEF IsLog, Listed
<1>3. PICK q : q = Leaves(s)
  OBVIOUS
<1>4. q = [i \in 1 .. n |-> s[i].hash]
  BY <1>2, <1>3 DEF Leaves
<1>5. Len(q) = n
  BY <1>4
<1>6. \A i \in 1 .. n : q[i] = s[i].hash
  BY <1>4
<1>7. Listed(q)
  BY <1>4, <1>5, <1>6 DEF Listed
<1> QED
  BY <1>1, <1>2, <1>3, <1>5, <1>6, <1>7

\* Records carry their place, and so do their hashes.
LEMMA RecordFields ==
  ASSUME NEW k, NEW r, IsRecord(k, r)
  PROVE  r.index = k - 1 /\ \E q \in Agents : r.hash = RecordHash(k - 1, q)
BY DEF IsRecord

\* The original log has length n, and its prefixes are original.
LEMMA OriginalPrefix ==
  ASSUME NEW n \in Nat, NEW m \in 0 .. n
  PROVE  /\ Len(OriginalLog(n)) = n /\ Len(OriginalLeaves(n)) = n
         /\ \A k \in 1 .. n : OriginalLog(n)[k] = Original(k)
         /\ \A k \in 1 .. n : OriginalLeaves(n)[k] = Original(k).hash
         /\ Listed(OriginalLog(n)) /\ Listed(OriginalLeaves(n))
         /\ Prefix(OriginalLog(n), m) = OriginalLog(m)
         /\ Prefix(OriginalLeaves(n), m) = OriginalLeaves(m)
         /\ Leaves(OriginalLog(n)) = OriginalLeaves(n)
<1>1. ASSUME NEW t \in Nat
      PROVE  /\ Len(OriginalLog(t)) = t /\ Len(OriginalLeaves(t)) = t
             /\ \A k \in 1 .. t : OriginalLog(t)[k] = Original(k)
             /\ \A k \in 1 .. t : OriginalLeaves(t)[k] = Original(k).hash
  BY DEF OriginalLog, OriginalLeaves
<1>2. ASSUME NEW t \in Nat
      PROVE  /\ Listed(OriginalLog(t)) /\ Listed(OriginalLeaves(t))
             /\ OriginalLog(t) = [k \in 1 .. t |-> OriginalLog(t)[k]]
             /\ OriginalLeaves(t) = [k \in 1 .. t |-> OriginalLeaves(t)[k]]
  <2>1. OriginalLog(t) = [k \in 1 .. t |-> OriginalLog(t)[k]]
    BY DEF OriginalLog
  <2>2. OriginalLeaves(t) = [k \in 1 .. t |-> OriginalLeaves(t)[k]]
    BY DEF OriginalLeaves
  <2> QED
    BY <1>1, <2>1, <2>2 DEF Listed
<1>3. Prefix(OriginalLog(n), m) = OriginalLog(m)
  <2>1. /\ Listed(Prefix(OriginalLog(n), m)) /\ Len(Prefix(OriginalLog(n), m)) = m
        /\ \A k \in 1 .. m : Prefix(OriginalLog(n), m)[k] = OriginalLog(n)[k]
    BY <1>1, <1>2, PrefixListed
  <2>2. \A k \in 1 .. m : Prefix(OriginalLog(n), m)[k] = Original(k)
    BY <2>1, <1>1
  <2> QED
    BY <2>1, <2>2 DEF Listed, OriginalLog
<1>4. Prefix(OriginalLeaves(n), m) = OriginalLeaves(m)
  <2>1. /\ Listed(Prefix(OriginalLeaves(n), m)) /\ Len(Prefix(OriginalLeaves(n), m)) = m
        /\ \A k \in 1 .. m : Prefix(OriginalLeaves(n), m)[k] = OriginalLeaves(n)[k]
    BY <1>1, <1>2, PrefixListed
  <2>2. \A k \in 1 .. m : Prefix(OriginalLeaves(n), m)[k] = Original(k).hash
    BY <2>1, <1>1
  <2> QED
    BY <2>1, <2>2 DEF Listed, OriginalLeaves
<1>5. Leaves(OriginalLog(n)) = OriginalLeaves(n)
  <2>1. DOMAIN OriginalLog(n) = 1 .. n
    BY DEF OriginalLog
  <2> QED
    BY <2>1, <1>1 DEF Leaves, OriginalLeaves
<1> QED
  BY <1>1, <1>2, <1>3, <1>4, <1>5

\* A record as it was appended is one that can be in the table.
LEMMA OriginalIsRecord ==
  ASSUME NEW k \in 1 .. MaxRecords
  PROVE  IsRecord(k, Original(k))
<1>1. Author[k] \in Agents
  BY ParametersAssumption
<1>2. Original(k) = [index |-> k - 1, payload |-> Author[k], hash |-> RecordHash(k - 1, Author[k])]
  BY DEF Original, Record
<1> QED
  BY <1>1, <1>2 DEF IsRecord

\* The next record keeps a log a log, and an original one original.
LEMMA LogGrows ==
  ASSUME NEW s, IsLog(s), Len(s) < MaxRecords,
         NEW k, k = Len(s) + 1
  PROVE  /\ IsLog(Append(s, Original(k)))
         /\ Listed(Append(Leaves(s), Original(k).hash))
         /\ Len(Append(Leaves(s), Original(k).hash)) = k
         /\ IsOriginalLog(s) => /\ IsOriginalLog(Append(s, Original(k)))
                                /\ IsOriginalHead(Append(Leaves(s), Original(k).hash))
<1>1. PICK n \in Nat : n = Len(s) /\ k = n + 1 /\ k \in 1 .. MaxRecords
  BY ParametersAssumption DEF IsLog, Listed
<1>2. PICK t : t = Append(s, Original(k))
  OBVIOUS
<1>3. /\ Listed(t) /\ Len(t) = n + 1
      /\ \A i \in 1 .. n : t[i] = s[i]
      /\ t[n + 1] = Original(k)
  BY <1>1, <1>2, ListedAppend DEF IsLog
<1>4. ASSUME NEW i \in 1 .. n + 1 PROVE IsRecord(i, t[i])
  <2>1. CASE i \in 1 .. n
    BY <2>1, <1>1, <1>3 DEF IsLog
  <2>2. CASE i = n + 1
    BY <2>2, <1>1, <1>3, OriginalIsRecord
  <2> QED
    BY <2>1, <2>2
<1>5. PICK u : u = Append(Leaves(s), Original(k).hash)
  OBVIOUS
<1>6. /\ Listed(u) /\ Len(u) = n + 1
      /\ \A i \in 1 .. n : u[i] = s[i].hash
      /\ u[n + 1] = Original(k).hash
  <2>1. /\ Listed(Leaves(s)) /\ Len(Leaves(s)) = n
        /\ \A i \in 1 .. n : Leaves(s)[i] = s[i].hash
    BY <1>1, LeavesListed
  <2> QED
    BY <2>1, <1>5, ListedAppend
<1>7. ASSUME IsOriginalLog(s) PROVE t = OriginalLog(n + 1) /\ u = OriginalLeaves(n + 1)
  <2>1. \A i \in 1 .. n : s[i] = Original(i)
    BY <1>1, <1>7, OriginalPrefix DEF IsOriginalLog
  <2>2. \A i \in 1 .. n + 1 : t[i] = Original(i) /\ u[i] = Original(i).hash
    BY <2>1, <1>1, <1>3, <1>6
  <2>3. t = [i \in 1 .. n + 1 |-> t[i]] /\ u = [i \in 1 .. n + 1 |-> u[i]]
    BY <1>3, <1>6 DEF Listed
  <2> QED
    BY <2>2, <2>3 DEF OriginalLog, OriginalLeaves
<1> QED
  BY <1>1, <1>2, <1>3, <1>4, <1>5, <1>6, <1>7 DEF IsLog, IsOriginalLog, IsOriginalHead

\* What a hydration installs: the first rows of the table.
LEMMA LogPrefix ==
  ASSUME NEW s, IsLog(s), NEW n \in 0 .. Len(s)
  PROVE  /\ IsLog(Prefix(s, n)) /\ Len(Prefix(s, n)) = n
         /\ IsOriginalLog(s) => IsOriginalLog(Prefix(s, n))
<1>1. Len(s) \in Nat /\ Listed(s)
  BY DEF IsLog, Listed
<1>2. /\ Listed(Prefix(s, n)) /\ Len(Prefix(s, n)) = n
      /\ \A k \in 1 .. n : Prefix(s, n)[k] = s[k]
  BY <1>1, PrefixListed
<1>3. \A k \in 1 .. n : k \in 1 .. Len(s)
  BY <1>1
<1>4. IsLog(Prefix(s, n))
  BY <1>2, <1>3 DEF IsLog
<1>5. ASSUME IsOriginalLog(s) PROVE Prefix(s, n) = OriginalLog(n)
  <2>1. PICK t \in Nat : t = Len(s) /\ s = OriginalLog(t)
    BY <1>1, <1>5 DEF IsOriginalLog
  <2> QED
    BY <2>1, OriginalPrefix
<1> QED
  BY <1>2, <1>4, <1>5 DEF IsOriginalLog

\* A company starts with an original log, and with a head over all of it if any.
LEMMA AuditStarts == AuditInit => AuditInv
<1> SUFFICES ASSUME AuditInit PROVE AuditInv
  OBVIOUS
<1>1. PICK legacy \in 0 .. MaxLegacy :
        /\ records = [k \in 1 .. legacy |-> Record(k, Author[k])]
        /\ treeHeads = [size \in {legacy} \ {0} |-> Leaves(records)]
        /\ tenantChain = records
        /\ latestHead = Leaves(records)
        /\ altered = {}
        /\ saved = {}
        /\ query = None
  BY DEF AuditInit
<1>2. legacy \in Nat /\ legacy \in 0 .. legacy /\ \A k \in 1 .. legacy : k \in 1 .. MaxRecords
  BY ParametersAssumption
<1>3. records = OriginalLog(legacy)
  BY <1>1 DEF OriginalLog, Original
<1>4. /\ Listed(records) /\ Len(records) = legacy
      /\ \A k \in 1 .. legacy : records[k] = Original(k)
      /\ latestHead = OriginalLeaves(legacy) /\ Listed(latestHead) /\ Len(latestHead) = legacy
  BY <1>1, <1>2, <1>3, OriginalPrefix
<1>5. IsLog(records)
  BY <1>2, <1>4, OriginalIsRecord DEF IsLog
<1>6. \A size \in DOMAIN treeHeads : size = legacy /\ treeHeads[size] = latestHead
  BY <1>1
<1>7. LogsShaped
  BY <1>1, <1>2, <1>4, <1>5, <1>6 DEF LogsShaped
<1>8. LogsOriginal
  BY <1>1, <1>3, <1>4, <1>6 DEF LogsOriginal, IsOriginalLog, IsOriginalHead
<1>9. QueryShaped /\ QueryOriginal
  <2>1. query.stage = "none"
    BY <1>1 DEF None
  <2> QED
    BY <2>1 DEF QueryShaped, QueryOriginal
<1> QED
  BY <1>7, <1>8, <1>9 DEF AuditInv

\* An append, a hydration and a rewritten row leave the request as it is.
LEMMA QueryStays ==
  ASSUME QueryShaped, QueryOriginal, UNCHANGED query, altered' = {} => altered = {}
  PROVE  QueryShaped' /\ QueryOriginal'
<1>1. QueryShaped'
  BY DEF QueryShaped, InclusionShaped, ConsistencyShaped
<1>2. QueryOriginal'
  BY DEF QueryOriginal
<1> QED
  BY <1>1, <1>2

\* A step that leaves tables, memory and the auditor's heads alone keeps what is known of them.
LEMMA LogsStay ==
  ASSUME LogsShaped, LogsOriginal, altered' = altered,
         UNCHANGED <<records, treeHeads, tenantChain, latestHead, saved>>
  PROVE  LogsShaped' /\ LogsOriginal'
<1>1. LogsShaped'
  BY DEF LogsShaped
<1>2. LogsOriginal'
  BY DEF LogsOriginal
<1> QED
  BY <1>1, <1>2

\* An append makes log and heads longer by the next record.
LEMMA AppendKeeps == AuditInv /\ AppendRecord => AuditInv'
<1> SUFFICES ASSUME AuditInv, AppendRecord PROVE AuditInv'
  OBVIOUS
<1>1. PICK k : k = Len(tenantChain) + 1
  OBVIOUS
<1>2. PICK r : r = Original(k)
  OBVIOUS
<1>3. PICK signed : signed = Append(Leaves(tenantChain), Original(k).hash)
  OBVIOUS
<1>4. /\ Len(tenantChain) = Len(records) /\ Len(records) < MaxRecords
      /\ records' = Append(records, Original(k))
      /\ treeHeads' = [size \in DOMAIN treeHeads \cup {k} |-> IF size = k THEN signed ELSE treeHeads[size]]
      /\ tenantChain' = Append(tenantChain, Original(k))
      /\ latestHead' = signed
      /\ UNCHANGED <<altered, saved, query>>
  BY <1>1, <1>3 DEF AppendRecord, Original
<1>5. IsLog(records) /\ IsLog(tenantChain) /\ Len(tenantChain) \in Nat
  BY DEF AuditInv, LogsShaped, IsLog, Listed
<1>6. /\ IsLog(Append(records, Original(k)))
      /\ IsOriginalLog(records) => IsOriginalLog(Append(records, Original(k)))
  BY <1>1, <1>4, <1>5, LogGrows
<1>7. /\ IsLog(Append(tenantChain, Original(k)))
      /\ Listed(signed) /\ Len(signed) = k
      /\ IsOriginalLog(tenantChain) => /\ IsOriginalLog(Append(tenantChain, Original(k)))
                                       /\ IsOriginalHead(signed)
  BY <1>1, <1>3, <1>4, <1>5, LogGrows
<1>8. \A size \in DOMAIN treeHeads' :
        \/ size = k /\ treeHeads'[size] = signed
        \/ size \in DOMAIN treeHeads /\ treeHeads'[size] = treeHeads[size]
  BY <1>4
<1>9. LogsShaped'
  <2>1. IsLog(records)' /\ IsLog(tenantChain)' /\ Listed(latestHead)'
    BY <1>4, <1>6, <1>7 DEF IsLog, Listed
  <2>2. \A size \in DOMAIN treeHeads' :
          size \in Nat /\ Listed(treeHeads'[size]) /\ Len(treeHeads'[size]) = size
    BY <1>1, <1>5, <1>7, <1>8 DEF AuditInv, LogsShaped
  <2>3. \A sth \in saved' : Listed(sth)
    BY <1>4 DEF AuditInv, LogsShaped
  <2> QED
    BY <2>1, <2>2, <2>3 DEF LogsShaped, IsLog, Listed
<1>10. LogsOriginal'
  BY <1>4, <1>6, <1>7, <1>8 DEF AuditInv, LogsOriginal, IsOriginalLog, IsOriginalHead
<1>11. QueryShaped' /\ QueryOriginal'
  BY <1>4, QueryStays DEF AuditInv
<1> QED
  BY <1>9, <1>10, <1>11 DEF AuditInv

\* A hydration takes a prefix of the table and a stored head.
LEMMA HydrateKeeps == AuditInv /\ Hydrate => AuditInv'
<1> SUFFICES ASSUME AuditInv, Hydrate PROVE AuditInv'
  OBVIOUS
<1>1. PICK n \in 0 .. Len(records) :
        /\ tenantChain' = Prefix(records, n)
        /\ \/ n = 0 /\ latestHead' = NoHead
           \/ \E size \in DOMAIN treeHeads : size >= n /\ latestHead' = treeHeads[size]
        /\ UNCHANGED <<records, treeHeads, altered, saved, query>>
  BY DEF Hydrate
<1>2. /\ IsLog(Prefix(records, n))
      /\ IsOriginalLog(records) => IsOriginalLog(Prefix(records, n))
  BY LogPrefix DEF AuditInv, LogsShaped
<1>3. Listed(latestHead') /\ (altered = {} => IsOriginalHead(latestHead'))
  <2>1. CASE latestHead' = NoHead
    <3>1. Listed(<<>>) /\ <<>> = OriginalLeaves(Len(<<>>))
      BY DEF Listed, OriginalLeaves
    <3> QED
      BY <3>1, <2>1 DEF NoHead, IsOriginalHead
  <2>2. CASE \E size \in DOMAIN treeHeads : latestHead' = treeHeads[size]
    BY <2>2 DEF AuditInv, LogsShaped, LogsOriginal
  <2> QED
    BY <1>1, <2>1, <2>2
<1>4. LogsShaped'
  BY <1>1, <1>2, <1>3 DEF AuditInv, LogsShaped
<1>5. LogsOriginal'
  BY <1>1, <1>2, <1>3 DEF AuditInv, LogsOriginal
<1>6. QueryShaped' /\ QueryOriginal'
  BY <1>1, QueryStays DEF AuditInv
<1> QED
  BY <1>4, <1>5, <1>6 DEF AuditInv

\* A rewritten row keeps its index and a hash of some contents at that index.
LEMMA AlterKeeps ==
  ASSUME AuditInv, NEW k \in DOMAIN records, NEW payload \in Agents, NEW rehash \in BOOLEAN,
         Alter(k, payload, rehash)
  PROVE  AuditInv'
<1>1. /\ altered' = {k - 1}
      /\ records' = [records EXCEPT ![k].payload = payload,
                                    ![k].hash    = IF rehash THEN RecordHash(k - 1, payload) ELSE @]
      /\ UNCHANGED <<treeHeads, tenantChain, latestHead, saved, query>>
  BY DEF Alter
<1>2. PICK n \in Nat : n = Len(records)
  BY DEF AuditInv, LogsShaped, IsLog, Listed
<1>3. records = [i \in 1 .. n |-> records[i]] /\ DOMAIN records = 1 .. n
  BY <1>2 DEF AuditInv, LogsShaped, IsLog, Listed
<1>4. PICK old : old = records[k]
  OBVIOUS
<1>5. IsRecord(k, old)
  BY <1>2, <1>3, <1>4 DEF AuditInv, LogsShaped, IsLog
<1>6. PICK p \in Agents : \E q \in Agents :
        old = [index |-> k - 1, payload |-> p, hash |-> RecordHash(k - 1, q)]
  BY <1>5 DEF IsRecord
<1>7. PICK q \in Agents :
        old = [index |-> k - 1, payload |-> p, hash |-> RecordHash(k - 1, q)]
  BY <1>6
<1>8. /\ DOMAIN records' = 1 .. n /\ records' = [i \in 1 .. n |-> records'[i]]
      /\ \A i \in 1 .. n : i # k => records'[i] = records[i]
      /\ records'[k] = [old EXCEPT !.payload = payload,
                                   !.hash = IF rehash THEN RecordHash(k - 1, payload) ELSE old.hash]
  BY <1>1, <1>3, <1>4
<1>9. \/ records'[k] = [index |-> k - 1, payload |-> payload, hash |-> RecordHash(k - 1, payload)]
      \/ records'[k] = [index |-> k - 1, payload |-> payload, hash |-> RecordHash(k - 1, q)]
  BY <1>7, <1>8
<1>10. IsRecord(k, records'[k])
  BY <1>9 DEF IsRecord
<1>11. Len(records') = n
  BY <1>8
<1>12. IsLog(records')
  <2>1. Listed(records')
    BY <1>8, <1>11 DEF Listed
  <2>2. ASSUME NEW i \in 1 .. n PROVE IsRecord(i, records'[i])
    BY <1>2, <1>8, <1>10 DEF AuditInv, LogsShaped, IsLog
  <2> QED
    BY <2>1, <2>2, <1>11 DEF IsLog
<1>13. LogsShaped'
  BY <1>1, <1>12 DEF AuditInv, LogsShaped
<1>14. altered' # {}
  BY <1>1
<1>15. LogsOriginal'
  BY <1>14 DEF LogsOriginal
<1>16. QueryShaped' /\ QueryOriginal'
  BY <1>1, <1>14, QueryStays DEF AuditInv
<1> QED
  BY <1>13, <1>15, <1>16 DEF AuditInv

\* A head the auditor keeps is one that was served.
LEMMA SaveKeeps == AuditInv /\ SaveCheckpoint => AuditInv'
<1> SUFFICES ASSUME AuditInv, SaveCheckpoint PROVE AuditInv'
  OBVIOUS
<1>1. /\ saved' = saved \cup {latestHead}
      /\ UNCHANGED <<records, treeHeads, tenantChain, latestHead, altered, query>>
  BY DEF SaveCheckpoint
<1>2. LogsShaped'
  BY <1>1 DEF AuditInv, LogsShaped
<1>3. LogsOriginal'
  BY <1>1 DEF AuditInv, LogsOriginal
<1>4. QueryShaped' /\ QueryOriginal'
  BY <1>1, QueryStays DEF AuditInv
<1> QED
  BY <1>2, <1>3, <1>4 DEF AuditInv

\* A refusal, and a request that is done with, leave nothing to be shown.
LEMMA NothingAsked ==
  ASSUME AuditInv, query' = None,
         UNCHANGED <<records, treeHeads, tenantChain, latestHead, altered, saved>>
  PROVE  AuditInv'
<1>1. query'.stage = "none"
  BY DEF None
<1>2. QueryShaped' /\ QueryOriginal'
  BY <1>1 DEF QueryShaped, QueryOriginal
<1>3. LogsShaped' /\ LogsOriginal'
  BY LogsStay DEF AuditInv
<1> QED
  BY <1>2, <1>3 DEF AuditInv

\* The record that is asked for is read out of a log.
LEMMA AskInclusionKeeps ==
  ASSUME AuditInv, NEW agent \in Agents, NEW index \in 0 .. MaxRecords - 1,
         AskInclusion(agent, index)
  PROVE  AuditInv'
<1>1. UNCHANGED <<records, treeHeads, tenantChain, latestHead, altered, saved>>
  BY DEF AskInclusion
<1>2. CASE query' = None
  BY <1>1, <1>2, NothingAsked
<1>3. CASE /\ index < Len(tenantChain)
           /\ query' = [stage |-> "head", index |-> index, record |-> tenantChain[index + 1]]
  <2>1. index \in Nat /\ index + 1 \in 1 .. Len(tenantChain)
    BY <1>3, ParametersAssumption DEF AuditInv, LogsShaped, IsLog, Listed
  <2>2. IsRecord(index + 1, tenantChain[index + 1])
    BY <2>1 DEF AuditInv, LogsShaped, IsLog
  <2>3. query'.stage = "head" /\ query'.index = index /\ query'.record = tenantChain[index + 1]
    BY <1>3
  <2>4. QueryShaped'
    BY <2>1, <2>2, <2>3 DEF QueryShaped
  <2>5. altered = {} => tenantChain[index + 1] = Original(index + 1)
    <3>1. Len(tenantChain) \in Nat
      BY DEF AuditInv, LogsShaped, IsLog, Listed
    <3> QED
      BY <2>1, <3>1, OriginalPrefix DEF AuditInv, LogsOriginal, IsOriginalLog
  <2>6. QueryOriginal'
    BY <1>1, <2>3, <2>5 DEF QueryOriginal
  <2>7. LogsShaped' /\ LogsOriginal'
    BY <1>1, LogsStay DEF AuditInv
  <2> QED
    BY <2>4, <2>6, <2>7 DEF AuditInv
<1> QED
  BY <1>2, <1>3 DEF AskInclusion, Refuse

\* The head that covers it commits to a sequence of leaves that reaches its place.
LEMMA FindHeadKeeps == AuditInv /\ FindHead => AuditInv'
<1> SUFFICES ASSUME AuditInv, FindHead PROVE AuditInv'
  OBVIOUS
<1>1. /\ query.stage = "head"
      /\ UNCHANGED <<records, treeHeads, tenantChain, latestHead, altered, saved>>
  BY DEF FindHead
<1>2. CASE query' = None
  BY <1>1, <1>2, NothingAsked
<1>3. CASE /\ query.index < Len(latestHead)
           /\ query' = [stage |-> "leaves", index |-> query.index, record |-> query.record,
                        sth |-> latestHead]
  <2>1. /\ query'.stage = "leaves" /\ query'.index = query.index
        /\ query'.record = query.record /\ query'.sth = latestHead
    BY <1>3
  <2>2. QueryShaped'
    BY <1>1, <1>3, <2>1 DEF AuditInv, QueryShaped, LogsShaped
  <2>3. QueryOriginal'
    BY <1>1, <2>1 DEF AuditInv, QueryOriginal, LogsOriginal
  <2>4. LogsShaped' /\ LogsOriginal'
    BY <1>1, LogsStay DEF AuditInv
  <2> QED
    BY <2>2, <2>3, <2>4 DEF AuditInv
<1> QED
  BY <1>2, <1>3 DEF FindHead, Refuse

\* The proof is built over as many leaves as the head commits to.
LEMMA ReplyInclusionKeeps == AuditInv /\ ReplyInclusion => AuditInv'
<1> SUFFICES ASSUME AuditInv, ReplyInclusion PROVE AuditInv'
  OBVIOUS
<1>1. /\ query.stage = "leaves"
      /\ UNCHANGED <<records, treeHeads, tenantChain, latestHead, altered, saved>>
  BY DEF ReplyInclusion
<1>2. CASE query' = None
  BY <1>1, <1>2, NothingAsked
<1>3. CASE /\ Len(tenantChain) >= Len(query.sth)
           /\ query' = InclusionReply(query.record, query.index, Leaves(tenantChain), query.sth)
  <2>1. /\ query.index \in Nat /\ IsRecord(query.index + 1, query.record)
        /\ Listed(query.sth) /\ query.index < Len(query.sth)
    BY <1>1 DEF AuditInv, QueryShaped
  <2>2. PICK n \in Nat : n = Len(query.sth) /\ query.index \in 0 .. n - 1
    BY <2>1 DEF Listed
  <2>3. IsLog(tenantChain)
    BY DEF AuditInv, LogsShaped
  <2>4. Listed(Leaves(tenantChain)) /\ Len(Leaves(tenantChain)) = Len(tenantChain)
    BY <2>3, LeavesListed
  <2>5. PICK taken : taken = Prefix(Leaves(tenantChain), n)
    OBVIOUS
  <2>6. Listed(taken) /\ Len(taken) = n
    <3>1. n \in 0 .. Len(Leaves(tenantChain))
      BY <1>3, <2>2, <2>4 DEF Listed
    <3> QED
      BY <3>1, <2>4, <2>5, PrefixListed
  <2>7. query.record.index = query.index
    <3>1. query.record.index = (query.index + 1) - 1
      BY <2>1, RecordFields
    <3> QED
      BY <3>1, <2>1
  <2>8. /\ query'.stage = "inclusion" /\ query'.record = query.record
        /\ query'.leafHash = HashLeaf(query.record.hash)
        /\ query'.proof = AuditPath(query.index, taken)
        /\ query'.root = Root(taken) /\ query'.sth = query.sth
    BY <1>3, <2>2, <2>5 DEF InclusionReply
  <2>9. InclusionShaped(query', taken)
    BY <2>1, <2>2, <2>6, <2>7, <2>8 DEF InclusionShaped
  <2>10. QueryShaped'
    BY <2>8, <2>9 DEF QueryShaped
  <2>11. ASSUME altered = {} PROVE taken = query.sth /\ query.record = Original(query.index + 1)
    <3>1. IsOriginalLog(tenantChain) /\ IsOriginalHead(query.sth)
      BY <1>1, <2>11 DEF AuditInv, LogsOriginal, QueryOriginal
    <3>2. PICK l \in Nat : l = Len(tenantChain) /\ n \in 0 .. l /\ tenantChain = OriginalLog(l)
      BY <1>3, <2>2, <2>3, <3>1 DEF IsLog, Listed, IsOriginalLog
    <3>3. taken = OriginalLeaves(n)
      BY <2>5, <3>2, OriginalPrefix
    <3> QED
      BY <1>1, <2>2, <2>11, <3>1, <3>3 DEF AuditInv, QueryOriginal, IsOriginalHead
  <2>12. QueryOriginal'
    <3> SUFFICES ASSUME altered = {}
                 PROVE  /\ IsOriginalHead(query.sth)
                        /\ query.record = Original(query.record.index + 1)
                        /\ Root(taken) = Root(query.sth)
      BY <1>1, <2>8 DEF QueryOriginal
    <3> QED
      BY <1>1, <2>7, <2>11 DEF AuditInv, QueryOriginal
  <2>13. LogsShaped' /\ LogsOriginal'
    BY <1>1, LogsStay DEF AuditInv
  <2> QED
    BY <2>10, <2>12, <2>13 DEF AuditInv
<1> QED
  BY <1>2, <1>3 DEF ReplyInclusion, Refuse

\* So is a consistency proof, for the newer of the two heads.
LEMMA AskConsistencyKeeps ==
  ASSUME AuditInv, NEW older \in saved \cup {NoHead}, NEW newer \in saved,
         AskConsistency(older, newer)
  PROVE  AuditInv'
<1>1. /\ Len(older) <= Len(newer)
      /\ UNCHANGED <<records, treeHeads, tenantChain, latestHead, altered, saved>>
  BY DEF AskConsistency
<1>2. CASE query' = None
  BY <1>1, <1>2, NothingAsked
<1>3. CASE /\ Len(newer) <= Len(tenantChain)
           /\ query' = [stage |-> "consistency", older |-> older, newer |-> newer,
                        proof |-> ConsistencyProof(Len(older), Prefix(Leaves(tenantChain), Len(newer)))]
  <2>1. /\ Listed(older) /\ Listed(newer)
        /\ altered = {} => IsOriginalHead(older) /\ IsOriginalHead(newer)
    <3>1. Listed(<<>>) /\ <<>> = OriginalLeaves(Len(<<>>))
      BY DEF Listed, OriginalLeaves
    <3> QED
      BY <3>1 DEF AuditInv, LogsShaped, LogsOriginal, NoHead, IsOriginalHead
  <2>2. PICK n \in Nat : n = Len(newer)
    BY <2>1 DEF Listed
  <2>3. IsLog(tenantChain)
    BY DEF AuditInv, LogsShaped
  <2>4. Listed(Leaves(tenantChain)) /\ Len(Leaves(tenantChain)) = Len(tenantChain)
    BY <2>3, LeavesListed
  <2>5. PICK taken : taken = Prefix(Leaves(tenantChain), n)
    OBVIOUS
  <2>6. Listed(taken) /\ Len(taken) = n
    <3>1. n \in 0 .. Len(Leaves(tenantChain))
      BY <1>3, <2>2, <2>4 DEF Listed
    <3> QED
      BY <3>1, <2>4, <2>5, PrefixListed
  <2>7. /\ query'.stage = "consistency" /\ query'.older = older /\ query'.newer = newer
        /\ query'.proof = ConsistencyProof(Len(older), taken)
    BY <1>3, <2>2, <2>5
  <2>8. ConsistencyShaped(query', taken)
    BY <1>1, <2>1, <2>2, <2>6, <2>7 DEF ConsistencyShaped
  <2>9. QueryShaped'
    BY <2>7, <2>8 DEF QueryShaped
  <2>10. ASSUME altered = {} PROVE taken = newer
    <3>1. IsOriginalLog(tenantChain) /\ IsOriginalHead(newer)
      BY <2>1, <2>10 DEF AuditInv, LogsOriginal
    <3>2. PICK l \in Nat : l = Len(tenantChain) /\ n \in 0 .. l /\ tenantChain = OriginalLog(l)
      BY <1>3, <2>2, <2>3, <3>1 DEF IsLog, Listed, IsOriginalLog
    <3>3. taken = OriginalLeaves(n)
      BY <2>5, <3>2, OriginalPrefix
    <3> QED
      BY <2>2, <3>1, <3>3 DEF IsOriginalHead
  <2>11. QueryOriginal'
    BY <1>1, <2>1, <2>7, <2>10 DEF QueryOriginal
  <2>12. LogsShaped' /\ LogsOriginal'
    BY <1>1, LogsStay DEF AuditInv
  <2> QED
    BY <2>9, <2>11, <2>12 DEF AuditInv
<1> QED
  BY <1>2, <1>3 DEF AskConsistency, Refuse

\* Every step keeps the invariant.
LEMMA AuditSteps == AuditInv /\ [AuditNext]_auditVars => AuditInv'
<1> SUFFICES ASSUME AuditInv, [AuditNext]_auditVars PROVE AuditInv'
  OBVIOUS
<1>1. CASE AppendRecord
  BY <1>1, AppendKeeps
<1>2. CASE Hydrate
  BY <1>2, HydrateKeeps
<1>3. CASE \E k \in DOMAIN records, payload \in Agents, rehash \in BOOLEAN : Alter(k, payload, rehash)
  BY <1>3, AlterKeeps
<1>4. CASE SaveCheckpoint
  BY <1>4, SaveKeeps
<1>5. CASE Forget
  BY <1>5, NothingAsked DEF Forget
<1>6. CASE \E agent \in Agents, index \in 0 .. MaxRecords - 1 : AskInclusion(agent, index)
  BY <1>6, AskInclusionKeeps
<1>7. CASE \E older \in saved \cup {NoHead}, newer \in saved : AskConsistency(older, newer)
  BY <1>7, AskConsistencyKeeps
<1>8. CASE FindHead
  BY <1>8, FindHeadKeeps
<1>9. CASE ReplyInclusion
  BY <1>9, ReplyInclusionKeeps
<1>10. CASE UNCHANGED auditVars
  <2>1. UNCHANGED <<records, treeHeads, tenantChain, latestHead, altered, saved, query>>
    BY <1>10 DEF auditVars
  <2>2. LogsShaped' /\ LogsOriginal'
    BY <2>1, LogsStay DEF AuditInv
  <2>3. QueryShaped' /\ QueryOriginal'
    BY <2>1, QueryStays DEF AuditInv
  <2> QED
    BY <2>2, <2>3 DEF AuditInv
<1> QED
  BY <1>1, <1>2, <1>3, <1>4, <1>5, <1>6, <1>7, <1>8, <1>9, <1>10 DEF AuditNext

\* Records and heads keep their shape, and until a row is altered there is one log.
THEOREM AuditInvariance == AuditSpec => []AuditInv
<1> QED
  BY AuditStarts, AuditSteps, PTL DEF AuditSpec

-----------------------------------------------------------------------------
(* What the auditor can rely on *)

\* Whatever is appended or hydrated between the reads of the routes, an inclusion
\* proof that is answered verifies, and so does every consistency proof between heads
\* the auditor was shown, as long as no row has been altered (buildInclusionProof,
\* consistencyProofHex and their verifiers).
THEOREM HonestProofsVerify == AuditSpec => []AnsweredProofsVerify
<1>1. AuditInv => AnsweredProofsVerify
  <2> SUFFICES ASSUME AuditInv, altered = {} PROVE AnsweredProofsVerify
    BY DEF AnsweredProofsVerify
  <2>1. ASSUME query.stage = "inclusion" PROVE VerifyInclusionProof(query)
    <3>1. PICK taken : InclusionShaped(query, taken)
      BY <2>1 DEF AuditInv, QueryShaped
    <3>2. PICK index : index = query.record.index
      OBVIOUS
    <3>3. /\ Listed(query.sth) /\ Listed(taken) /\ Len(taken) = Len(query.sth)
          /\ index \in 0 .. Len(query.sth) - 1
          /\ query.leafHash = HashLeaf(query.record.hash)
          /\ query.proof = AuditPath(index, taken)
          /\ query.root = Root(taken)
      BY <3>1, <3>2 DEF InclusionShaped
    <3>4. /\ IsOriginalHead(query.sth) /\ query.record = Original(index + 1)
          /\ query.root = Root(query.sth)
      BY <2>1, <3>2 DEF AuditInv, QueryOriginal
    <3>5. PICK n \in Nat : n = Len(query.sth) /\ index \in 0 .. n - 1
      BY <3>3 DEF Listed
    <3>6. taken = query.sth
      BY <3>3, <3>4, RootBinds
    <3>7. taken[index + 1] = query.record.hash
      <4>1. query.sth = OriginalLeaves(n) /\ index + 1 \in 1 .. n
        BY <3>4, <3>5 DEF IsOriginalHead
      <4> QED
        BY <4>1, <3>4, <3>6, OriginalPrefix
    <3>8. Leads(taken, index, query.proof, query.root)
      BY <3>3, <3>5, AuditPathLeads
    <3>9. VerifyInclusionPath(query.leafHash, query.proof, query.root)
      BY <3>3, <3>7, <3>8 DEF Leads, ClimbAll, VerifyInclusionPath
    <3>10. query.record.hash = RecordHash(query.record.index, query.record.payload)
      <4>1. query.record = [index |-> (index + 1) - 1, payload |-> Author[index + 1],
                            hash |-> RecordHash((index + 1) - 1, Author[index + 1])]
        BY <3>4 DEF Original, Record
      <4> QED
        BY <4>1
    <3> QED
      BY <3>3, <3>4, <3>9, <3>10 DEF VerifyInclusionProof
  <2>2. ASSUME query.stage = "consistency" PROVE Consistent(query.older, query.newer, query.proof)
    <3>1. PICK taken : ConsistencyShaped(query, taken)
      BY <2>2 DEF AuditInv, QueryShaped
    <3>2. PICK D : D = query.older
      OBVIOUS
    <3>3. PICK E : E = query.newer
      OBVIOUS
    <3>4. Listed(D) /\ Listed(E) /\ Len(D) <= Len(E)
      BY <3>1, <3>2, <3>3 DEF ConsistencyShaped
    <3>5. IsOriginalHead(D) /\ IsOriginalHead(E) /\ query.proof = ConsistencyProof(Len(D), E)
      BY <2>2, <3>2, <3>3 DEF AuditInv, QueryOriginal
    <3>6. \A i \in 1 .. Len(D) : D[i] = E[i]
      <4>1. PICK m \in Nat : m = Len(D) /\ D = OriginalLeaves(m)
        BY <3>4, <3>5 DEF Listed, IsOriginalHead
      <4>2. PICK n \in Nat : n = Len(E) /\ E = OriginalLeaves(n)
        BY <3>4, <3>5 DEF Listed, IsOriginalHead
      <4>3. \A i \in 1 .. m : D[i] = Original(i).hash
        BY <4>1, OriginalPrefix
      <4>4. \A i \in 1 .. n : E[i] = Original(i).hash
        BY <4>2, OriginalPrefix
      <4> QED
        BY <3>4, <4>1, <4>2, <4>3, <4>4
    <3>7. VerifyConsistency(Len(D), Len(E), Root(D), Root(E), ConsistencyProof(Len(D), E))
      BY <3>4, <3>6, ConsistencyAccepts
    <3> QED
      BY <3>2, <3>3, <3>5, <3>7 DEF Consistent
  <2> QED
    BY <2>1, <2>2 DEF AnsweredProofsVerify
<1> QED
  BY <1>1, AuditInvariance, PTL

\* A record the auditor accepts is the one that stood at its index when the head was
\* signed, whatever has been done to the table since (verifyInclusionProof).
THEOREM AcceptedIsSigned == AuditSpec => []AcceptedRecordWasSigned
<1>1. AuditInv => AcceptedRecordWasSigned
  <2> SUFFICES ASSUME AuditInv, query.stage = "inclusion", VerifyInclusionProof(query)
               PROVE  /\ query.record.index < Len(query.sth)
                      /\ query.sth[query.record.index + 1]
                           = RecordHash(query.record.index, query.record.payload)
    BY DEF AcceptedRecordWasSigned
  <2>1. PICK taken : InclusionShaped(query, taken)
    BY DEF AuditInv, QueryShaped
  <2>2. PICK index : index = query.record.index
    OBVIOUS
  <2>3. /\ Listed(query.sth) /\ Listed(taken) /\ Len(taken) = Len(query.sth)
        /\ index \in 0 .. Len(query.sth) - 1
        /\ query.leafHash = HashLeaf(query.record.hash)
        /\ query.proof = AuditPath(index, taken)
        /\ query.root = Root(taken)
    BY <2>1, <2>2 DEF InclusionShaped
  <2>4. PICK n \in Nat : n = Len(query.sth) /\ index \in 0 .. n - 1
    BY <2>3 DEF Listed
  <2>5. taken = query.sth
    BY <2>3, RootBinds DEF VerifyInclusionProof
  <2>6. Leads(taken, index, query.proof, query.root)
    BY <2>3, <2>4, AuditPathLeads
  <2>7. ClimbAll(query.leafHash, query.proof) = query.root
    BY DEF VerifyInclusionProof, VerifyInclusionPath, ClimbAll
  <2>8. HashLeaf(query.record.hash) = HashLeaf(taken[index + 1])
    BY <2>3, <2>6, <2>7 DEF Leads
  <2>9. query.record.hash = taken[index + 1]
    BY <2>8, LeafBinds
  <2>10. query.record.hash = RecordHash(query.record.index, query.record.payload)
    BY DEF VerifyInclusionProof
  <2> QED
    BY <2>2, <2>4, <2>5, <2>9, <2>10
<1> QED
  BY <1>1, AuditInvariance, PTL

\* Proofs near a proof are sequences of nodes too.
LEMMA NearbyLengths ==
  ASSUME NEW older, NEW newer, NEW proof, Listed(proof),
         NEW near \in Nearby(proof, older, newer)
  PROVE  Len(near) \in Nat
<1> DEFINE S == {proof[i] : i \in 1 .. Len(proof)} \cup {Root(older), Root(newer)}
<1>1. /\ proof \in Seq(S) /\ Len(proof) \in Nat /\ DOMAIN proof = 1 .. Len(proof)
      /\ \A i \in DOMAIN proof : proof[i] \in S
      /\ Root(older) \in S /\ Root(newer) \in S
  BY DEF Listed
<1>2. \A n \in {proof[j] : j \in DOMAIN proof} \cup {Root(older), Root(newer)} : n \in S
  BY <1>1
<1> HIDE DEF S
<1>3. CASE near = proof
  BY <1>1, <1>3
<1>4. CASE \E i \in DOMAIN proof : near = RemoveAt(proof, i)
  <2>1. PICK i \in 1 .. Len(proof) : near = SubSeq(proof, 1, i - 1) \o SubSeq(proof, i + 1, Len(proof))
    BY <1>1, <1>4 DEF RemoveAt
  <2>2. PICK before \in Seq(S) : before = SubSeq(proof, 1, i - 1)
    <3>1. SubSeq(proof, 1, i - 1) \in Seq(S)
      BY <1>1, SubSeqProperties
    <3> QED
      BY <3>1
  <2>3. PICK after \in Seq(S) : after = SubSeq(proof, i + 1, Len(proof))
    <3>1. SubSeq(proof, i + 1, Len(proof)) \in Seq(S)
      BY <1>1, SubSeqProperties
    <3> QED
      BY <3>1
  <2>4. near = before \o after
    BY <2>1, <2>2, <2>3
  <2>5. near \in Seq(S)
    BY <2>2, <2>3, <2>4
  <2> QED
    BY <2>5
<1>5. CASE \E i \in 1 .. Len(proof) + 1 :
             \E n \in {proof[j] : j \in DOMAIN proof} \cup {Root(older), Root(newer)} :
               near = InsertAt(proof, i, n)
  <2>1. PICK i \in 1 .. Len(proof) + 1 :
          \E n \in {proof[j] : j \in DOMAIN proof} \cup {Root(older), Root(newer)} :
            near = InsertAt(proof, i, n)
    BY <1>5
  <2>2. PICK n \in S : near = InsertAt(proof, i, n)
    BY <1>2, <2>1
  <2>3. PICK before \in Seq(S) : before = SubSeq(proof, 1, i - 1)
    <3>1. SubSeq(proof, 1, i - 1) \in Seq(S)
      BY <1>1, SubSeqProperties
    <3> QED
      BY <3>1
  <2>4. PICK after \in Seq(S) : after = SubSeq(proof, i, Len(proof))
    <3>1. SubSeq(proof, i, Len(proof)) \in Seq(S)
      BY <1>1, SubSeqProperties
    <3> QED
      BY <3>1
  <2>5. near = before \o <<n>> \o after
    BY <2>2, <2>3, <2>4 DEF InsertAt
  <2>6. <<n>> \in Seq(S)
    OBVIOUS
  <2>7. before \o <<n>> \in Seq(S)
    BY <2>3, <2>6
  <2>8. near \in Seq(S)
    BY <2>4, <2>5, <2>7
  <2> QED
    BY <2>8
<1>6. CASE \E i \in DOMAIN proof :
             \E n \in {proof[j] : j \in DOMAIN proof} \cup {Root(older), Root(newer)} :
               near = ReplaceAt(proof, i, n)
  <2>1. PICK i \in DOMAIN proof, n \in S : near = [proof EXCEPT ![i] = n]
    BY <1>2, <1>6 DEF ReplaceAt
  <2>2. near \in Seq(S)
    BY <1>1, <2>1
  <2> QED
    BY <2>2
<1> QED
  BY <1>3, <1>4, <1>5, <1>6 DEF Nearby

\* No reply, nor one near it, makes an auditor accept two heads of which the older
\* does not commit to a prefix of the newer (verifyConsistencyHex): a rewritten history
\* is noticed.
THEOREM RewritesAreNoticed == AuditSpec => []RewriteIsNoticed
<1>1. AuditInv => RewriteIsNoticed
  <2> SUFFICES ASSUME AuditInv, query.stage = "consistency",
                      NEW proof \in Nearby(query.proof, query.older, query.newer),
                      Consistent(query.older, query.newer, proof)
               PROVE  IsPrefix(query.older, query.newer)
    BY DEF RewriteIsNoticed
  <2>1. PICK taken : ConsistencyShaped(query, taken)
    BY DEF AuditInv, QueryShaped
  <2>2. PICK D : D = query.older
    OBVIOUS
  <2>3. PICK E : E = query.newer
    OBVIOUS
  <2>4. /\ Listed(D) /\ Listed(E) /\ Len(D) <= Len(E)
        /\ Listed(taken) /\ Len(taken) = Len(E)
        /\ query.proof = ConsistencyProof(Len(D), taken)
    BY <2>1, <2>2, <2>3 DEF ConsistencyShaped
  <2>5. PICK m \in Nat, n \in Nat : m = Len(D) /\ n = Len(E) /\ m <= n
    BY <2>4 DEF Listed
  <2>6. Listed(query.proof)
    <3>1. CASE m = 0 \/ m = n
      <4>1. query.proof = <<>>
        BY <2>4, <2>5, <3>1 DEF ConsistencyProof
      <4> QED
        BY <4>1 DEF Listed
    <3>2. CASE ~ (m = 0 \/ m = n)
      <4>1. query.proof = SubProof(m, taken)[n][m] /\ m \in 1 .. m /\ n \in 1 .. Len(taken)
        BY <2>4, <2>5, <3>2 DEF ConsistencyProof
      <4> QED
        BY <4>1, <2>4, <2>5, SubProofListed
    <3> QED
      BY <3>1, <3>2
  <2>7. Len(proof) \in Nat
    BY <2>6, NearbyLengths
  <2>8. VerifyConsistency(Len(D), Len(E), Root(D), Root(E), proof)
    BY <2>2, <2>3 DEF Consistent
  <2>9. Len(D) <= Len(E) /\ \A i \in 1 .. Len(D) : D[i] = E[i]
    BY <2>4, <2>7, <2>8, ConsistencyBinds
  <2>10. SubSeq(D, 1, m) = SubSeq(E, 1, m)
    <3>1. /\ Listed(Prefix(D, m)) /\ Len(Prefix(D, m)) = m
          /\ \A i \in 1 .. m : Prefix(D, m)[i] = D[i]
      BY <2>4, <2>5, PrefixListed
    <3>2. /\ Listed(Prefix(E, m)) /\ Len(Prefix(E, m)) = m
          /\ \A i \in 1 .. m : Prefix(E, m)[i] = E[i]
      BY <2>4, <2>5, PrefixListed
    <3>3. Prefix(D, m) = Prefix(E, m)
      BY <2>5, <2>9, <3>1, <3>2 DEF Listed
    <3> QED
      BY <3>3 DEF Prefix
  <2>11. IsPrefix(D, E)
    BY <2>5, <2>9, <2>10 DEF IsPrefix
  <2> QED
    BY <2>2, <2>3, <2>11
<1> QED
  BY <1>1, AuditInvariance, PTL

\* Each record's padded proof climbs to the padded root, and although padding repeats a
\* leaf no other prefix of the log has that root (buildProof, computeRoot, verifyProof).
THEOREM PaddedRootCommits == AuditSpec => []PaddedTreeBindsLog
<1>1. AuditInv => PaddedTreeBindsLog
  <2> SUFFICES ASSUME AuditInv PROVE PaddedTreeBindsLog
    OBVIOUS
  <2>1. IsLog(tenantChain)
    BY DEF AuditInv, LogsShaped
  <2>2. PICK n \in Nat : n = Len(tenantChain)
    BY <2>1 DEF IsLog, Listed
  <2>3. PICK D : D = Leaves(tenantChain)
    OBVIOUS
  <2>4. /\ Listed(D) /\ Len(D) = n /\ DOMAIN tenantChain = 1 .. n
        /\ \A k \in 1 .. n : D[k] = tenantChain[k].hash
    BY <2>1, <2>2, <2>3, LeavesListed
  <2>5. \A k \in 1 .. n : \E q : D[k] = RecordHash(k - 1, q)
    BY <2>1, <2>2, <2>4, RecordFields DEF IsLog
  <2>6. ProperLeaves(D)
    <3>1. ASSUME NEW i \in 1 .. n
          PROVE  D[i] # <<"zeros">> /\ \A l : \A r : D[i] # HashPair(l, r)
      <4>1. PICK q : D[i] = RecordHash(i - 1, q)
        BY <2>5
      <4>2. D[i][1] = "record" /\ <<"zeros">>[1] = "zeros"
        BY <4>1 DEF RecordHash
      <4>3. \A l : \A r : HashPair(l, r)[1] = "pair"
        BY DEF HashPair
      <4> QED
        BY <4>2, <4>3
    <3>2. ASSUME NEW i \in 1 .. n, NEW j \in 1 .. n, D[i] = D[j] PROVE i = j
      <4>1. PICK p : D[i] = RecordHash(i - 1, p)
        BY <2>5
      <4>2. PICK q : D[j] = RecordHash(j - 1, q)
        BY <2>5
      <4>3. D[i][2] = i - 1 /\ D[j][2] = j - 1
        BY <4>1, <4>2 DEF RecordHash
      <4> QED
        BY <4>3, <3>2
    <3> QED
      BY <2>4, <3>1, <3>2 DEF ProperLeaves
  <2>7. ASSUME NEW k \in 1 .. n
        PROVE  VerifyPaddedProof(tenantChain[k].hash, PaddedProof(D, k - 1), PaddedRoot(D))
    <3>1. PICK index \in 0 .. Len(D) - 1 : index = k - 1 /\ index + 1 = k
      BY <2>4
    <3>2. VerifyPaddedProof(D[index + 1], PaddedProof(D, index), PaddedRoot(D))
      BY <2>4, PaddedProofClimbs
    <3> QED
      BY <2>4, <3>1, <3>2
  <2>8. ASSUME NEW m \in 0 .. n - 1 PROVE PaddedRoot(Prefix(D, m)) # PaddedRoot(D)
    <3>1. m \in 0 .. Len(D) /\ m < Len(D)
      BY <2>4
    <3>2. PICK E : E = Prefix(D, m)
      OBVIOUS
    <3>3. Listed(E) /\ Len(E) = m /\ \A i \in 1 .. m : E[i] = D[i]
      BY <2>4, <3>1, <3>2, PrefixListed
    <3>4. PaddedRoot(E) # PaddedRoot(D)
      BY <2>4, <2>6, <3>1, <3>3, PaddedRootBinds
    <3> QED
      BY <3>2, <3>4
  <2> QED
    BY <2>2, <2>3, <2>4, <2>7, <2>8 DEF PaddedTreeBindsLog
<1> QED
  BY <1>1, AuditInvariance, PTL

-----------------------------------------------------------------------------
(* No record that is not logged can be proved to be *)

\* Every subtree with this hash has x among its leaves.
HasLeaf(D, x, hash) ==
  \A n \in 0 .. Len(D) : \A lo \in 0 .. Len(D) - n :
    hash = Subtree(D)[n][lo] => \E i \in 1 .. n : D[lo + i] = x

\* A leaf hash is that of a subtree of one leaf.
LEMMA LeafHolds ==
  ASSUME NEW D, Len(D) \in Nat, NEW x
  PROVE  HasLeaf(D, x, HashLeaf(x))
<1> SUFFICES ASSUME NEW n \in 0 .. Len(D), NEW lo \in 0 .. Len(D) - n,
                    HashLeaf(x) = Subtree(D)[n][lo]
             PROVE  \E i \in 1 .. n : D[lo + i] = x
  BY DEF HasLeaf
<1>1. HashLeaf(x) = HashStep(D, Subtree(D), n, lo)
  BY SubtreeStep
<1>2. HashLeaf(x)[1] = "leaf"
  BY DEF HashLeaf
<1>3. CASE n = 0
  <2>1. HashLeaf(x) = <<"empty">> /\ <<"empty">>[1] = "empty"
    BY <1>1, <1>3 DEF HashStep
  <2> QED
    BY <1>2, <2>1
<1>4. CASE n = 1
  <2>1. HashLeaf(x) = HashLeaf(D[lo + 1])
    BY <1>1, <1>4 DEF HashStep
  <2>2. x = D[lo + 1]
    BY <2>1, LeafBinds
  <2> QED
    BY <1>4, <2>2
<1>5. CASE n # 0 /\ n # 1
  <2>1. PICK l : \E r : HashLeaf(x) = HashChildren(l, r)
    BY <1>1, <1>5 DEF HashStep
  <2>2. \A r : HashChildren(l, r)[1] = "node"
    BY DEF HashChildren
  <2> QED
    BY <1>2, <2>1, <2>2
<1> QED
  BY <1>3, <1>4, <1>5

\* A node is that of a subtree of which one side has the hash below it.
LEMMA NodeHolds ==
  ASSUME NEW D, Len(D) \in Nat, NEW x, NEW l, NEW r, HasLeaf(D, x, l) \/ HasLeaf(D, x, r)
  PROVE  HasLeaf(D, x, HashChildren(l, r))
<1> SUFFICES ASSUME NEW n \in 0 .. Len(D), NEW lo \in 0 .. Len(D) - n,
                    HashChildren(l, r) = Subtree(D)[n][lo]
             PROVE  \E i \in 1 .. n : D[lo + i] = x
  BY DEF HasLeaf
<1>1. HashChildren(l, r) = HashStep(D, Subtree(D), n, lo)
  BY SubtreeStep
<1>2. HashChildren(l, r)[1] = "node"
  BY DEF HashChildren
<1>3. CASE n = 0
  <2>1. HashChildren(l, r) = <<"empty">> /\ <<"empty">>[1] = "empty"
    BY <1>1, <1>3 DEF HashStep
  <2> QED
    BY <1>2, <2>1
<1>4. CASE n = 1
  <2>1. HashChildren(l, r) = HashLeaf(D[lo + 1])
    BY <1>1, <1>4 DEF HashStep
  <2>2. HashLeaf(D[lo + 1])[1] = "leaf"
    BY DEF HashLeaf
  <2> QED
    BY <1>2, <2>1, <2>2
<1>5. CASE n # 0 /\ n # 1
  <2>1. PICK k \in 1 .. n - 1 : k = SplitSize(n)
    <3>1. n \in Nat /\ n >= 2
      BY <1>5
    <3> QED
      BY <3>1, SplitBounds
  <2>2. HashChildren(l, r) = HashChildren(Subtree(D)[k][lo], Subtree(D)[n - k][lo + k])
    BY <1>1, <1>5, <2>1 DEF HashStep
  <2>3. l = Subtree(D)[k][lo] /\ r = Subtree(D)[n - k][lo + k]
    BY <2>2, ChildrenBind
  <2>4. PICK s \in 0 .. Len(D), mid \in 0 .. Len(D) : s = n - k /\ mid = lo + k
    BY <2>1
  <2>5. k \in 0 .. Len(D) /\ lo \in 0 .. Len(D) - k /\ mid \in 0 .. Len(D) - s
    BY <2>1, <2>4
  <2>6. CASE HasLeaf(D, x, l)
    <3>1. PICK i \in 1 .. k : D[lo + i] = x
      BY <2>3, <2>5, <2>6 DEF HasLeaf
    <3>2. i \in 1 .. n
      BY <2>1
    <3> QED
      BY <3>1, <3>2
  <2>7. CASE HasLeaf(D, x, r)
    <3>1. PICK i \in 1 .. s : D[mid + i] = x
      BY <2>3, <2>4, <2>5, <2>7 DEF HasLeaf
    <3>2. k + i \in 1 .. n /\ lo + (k + i) = mid + i
      BY <2>1, <2>4
    <3>3. D[lo + (k + i)] = x
      BY <3>1, <3>2
    <3> QED
      BY <3>2, <3>3
  <2> QED
    BY <2>6, <2>7
<1> QED
  BY <1>3, <1>4, <1>5

\* No path at all, made up or not, takes the leaf hash of something that was never
\* logged to the root of the log (verifyInclusionHex).
THEOREM OnlyLeavesAreIncluded ==
  ASSUME NEW D, Len(D) \in Nat, NEW x, NEW path, Listed(path),
         VerifyInclusionPath(HashLeaf(x), path, Root(D))
  PROVE  \E i \in 1 .. Len(D) : D[i] = x
<1>1. PICK len \in Nat : len = Len(path) /\ DOMAIN path = 1 .. len
  BY DEF Listed
<1>2. PICK at : /\ at[0] = HashLeaf(x)
                /\ \A i \in 1 .. len : at[i] = Climb(at[i - 1], path[i])
                /\ ClimbAll(HashLeaf(x), path) = at[len]
  BY <1>1, InclusionClimbs
<1> DEFINE T == {t \in Nat : t <= len => HasLeaf(D, x, at[t])}
<1>3. 0 \in T
  BY <1>2, LeafHolds
<1>4. ASSUME NEW t \in Nat, t \in T PROVE t + 1 \in T
  <2> SUFFICES ASSUME t + 1 <= len PROVE HasLeaf(D, x, at[t + 1])
    OBVIOUS
  <2>1. HasLeaf(D, x, at[t])
    BY <1>1, <1>4
  <2>2. PICK i \in 1 .. len : i = t + 1 /\ i - 1 = t
    BY <1>1
  <2>3. at[i] = Climb(at[t], path[i])
    BY <1>2, <2>2
  <2>4. PICK l, r : at[i] = HashChildren(l, r) /\ (l = at[t] \/ r = at[t])
    BY <2>3 DEF Climb
  <2>5. HasLeaf(D, x, HashChildren(l, r))
    BY <2>1, <2>4, NodeHolds
  <2> QED
    BY <2>2, <2>4, <2>5
<1>5. len \in T
  <2> HIDE DEF T
  <2> QED
    BY <1>1, <1>3, <1>4, Counting
<1>6. at[len] = Subtree(D)[Len(D)][0]
  BY <1>2 DEF VerifyInclusionPath, ClimbAll, Root
<1>7. Len(D) \in 0 .. Len(D) /\ 0 \in 0 .. Len(D) - Len(D) /\ HasLeaf(D, x, at[len])
  BY <1>5
<1>8. \E i \in 1 .. Len(D) : D[0 + i] = x
  BY <1>6, <1>7 DEF HasLeaf
<1> QED
  BY <1>8
=============================================================================

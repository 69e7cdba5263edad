-------------------------- MODULE BackupRestoreProofs --------------------------
(***************************************************************************)
(* Proofs about BackupRestore, for every number of servers, companies,     *)
(* restores and commits.  The first invariant says how much of the backup  *)
(* the running restore has inserted: all of the tables before the current  *)
(* one in INSERT_ORDER, and of that one what is not left in restore.rows.  *)
(*                                                                         *)
(* The second says what a database, and a backup of it read table by table *)
(* while servers write, hold in any case: rows point to rows that were     *)
(* there before them, so a table read later than another can only know     *)
(* more; what came late is what a restore stumbles over.                   *)
(***************************************************************************)
EXTENDS BackupRestore, FiniteSetTheorems, WellFoundedInduction, TLAPS

Positions == 1 .. NTables

\* The rows of the i-th table in INSERT_ORDER that a restore r has inserted.
Inserted(r, i) ==
  IF r.pc = "count" \/ (r.pc = "insert" /\ i < r.at) THEN file.tables[INSERT_ORDER[i]]
  ELSE IF r.pc = "insert" /\ i = r.at THEN file.tables[INSERT_ORDER[i]] \ r.rows
  ELSE {}

RowsOK == restore.pc = "insert" => restore.rows \subseteq file.tables[INSERT_ORDER[restore.at]]

Exclusive ==
  Restoring /\ ~mixed =>
    /\ \A s \in Servers : mode[s] = "down"
    /\ \A i \in Positions : db[INSERT_ORDER[i]] = Inserted(restore, i)

LogKept ==
  Restoring => \A i \in Positions :
    INSERT_ORDER[i] \in AppendOnly => Inserted(restore, i) \subseteq db[INSERT_ORDER[i]]

Sealed ==
  /\ file.status = "sealed" => dump.at = 0
  /\ Restoring => file.status = "sealed"

IInv == TypeOK /\ RowsOK /\ Exclusive /\ LogKept /\ Sealed

-----------------------------------------------------------------------------
(* INSERT_ORDER                                                            *)

\* Where each table stands in INSERT_ORDER.
LEMMA Places ==
  /\ INSERT_ORDER[1] = "ca_key" /\ INSERT_ORDER[2] = "issuance_rate_limit_events"
  /\ INSERT_ORDER[3] = "companies" /\ INSERT_ORDER[4] = "keys"
  /\ INSERT_ORDER[5] = "api_keys" /\ INSERT_ORDER[6] = "agents"
  /\ INSERT_ORDER[7] = "records" /\ INSERT_ORDER[8] = "keys_history"
  /\ INSERT_ORDER[9] = "revoked_passports" /\ INSERT_ORDER[10] = "oauth_clients"
  /\ INSERT_ORDER[11] = "oauth_tokens" /\ INSERT_ORDER[12] = "webhooks"
  /\ INSERT_ORDER[13] = "webhook_deliveries" /\ INSERT_ORDER[14] = "signed_tree_heads"
BY DEF INSERT_ORDER

\* Every table has a place in INSERT_ORDER ...
LEMMA EveryTableHasAPlace == \A t \in Tables : \E i \in Positions : INSERT_ORDER[i] = t
BY Places DEF Tables, Positions, NTables

\* ... and no other table has it.
LEMMA PlacesDiffer ==
  ASSUME NEW i \in Positions, NEW j \in Positions, INSERT_ORDER[i] = INSERT_ORDER[j]
  PROVE  i = j
BY Places DEF Positions, NTables

LEMMA PlacesAreTables == \A i \in Positions : INSERT_ORDER[i] \in Tables
BY Places DEF Tables, Positions, NTables

-----------------------------------------------------------------------------
(* Onward skips empty tables only                                          *)

\* Of some places in the order there is a first.
LEMMA LeastPlace ==
  ASSUME NEW S \in SUBSET Positions, S # {}
  PROVE  \E i \in S : \A j \in S : i <= j
<1> DEFINE L(k) == (S \cap 1 .. k # {}) => \E i \in S : \A j \in S : i <= j
<1>1. L(1) BY DEF Positions, NTables
<1>2. L(1) => L(2) BY DEF Positions, NTables
<1>3. L(2) => L(3) BY DEF Positions, NTables
<1>4. L(3) => L(4) BY DEF Positions, NTables
<1>5. L(4) => L(5) BY DEF Positions, NTables
<1>6. L(5) => L(6) BY DEF Positions, NTables
<1>7. L(6) => L(7) BY DEF Positions, NTables
<1>8. L(7) => L(8) BY DEF Positions, NTables
<1>9. L(8) => L(9) BY DEF Positions, NTables
<1>10. L(9) => L(10) BY DEF Positions, NTables
<1>11. L(10) => L(11) BY DEF Positions, NTables
<1>12. L(11) => L(12) BY DEF Positions, NTables
<1>13. L(12) => L(13) BY DEF Positions, NTables
<1>14. L(13) => L(14) BY DEF Positions, NTables
<1>15. S \cap 1 .. 14 # {} BY DEF Positions, NTables
<1> QED BY <1>1, <1>2, <1>3, <1>4, <1>5, <1>6, <1>7, <1>8, <1>9, <1>10, <1>11, <1>12,
           <1>13, <1>14, <1>15

\* Onward skips empty tables: what counts as inserted does not change with it.
LEMMA OnwardInserts ==
  ASSUME NEW n \in 1 .. NTables + 1
  PROVE  /\ Onward(n) = [pc |-> Onward(n).pc, at |-> Onward(n).at, rows |-> Onward(n).rows]
         /\ Onward(n).pc \in {"insert", "count"}
         /\ Onward(n).at \in Positions
         /\ Onward(n).pc = "insert" => Onward(n).rows = file.tables[INSERT_ORDER[Onward(n).at]]
         /\ \A i \in Positions :
              Inserted(Onward(n), i) = IF i < n THEN file.tables[INSERT_ORDER[i]] ELSE {}
<1> DEFINE left == {i \in n .. NTables : file.tables[INSERT_ORDER[i]] # {}}
           next == CHOOSE i \in left : \A j \in left : i <= j
<1>1. CASE left = {}
  <2>1. Onward(n) = [pc |-> "count", at |-> 1, rows |-> {}] BY <1>1 DEF Onward
  <2>2. \A i \in Positions : i >= n => file.tables[INSERT_ORDER[i]] = {}
    BY <1>1 DEF Positions, NTables
  <2>3. ASSUME NEW i \in Positions
        PROVE  Inserted(Onward(n), i) = IF i < n THEN file.tables[INSERT_ORDER[i]] ELSE {}
    <3>1. i < n \/ i >= n BY DEF Positions, NTables
    <3> QED BY <2>1, <2>2, <3>1 DEF Inserted
  <2> QED BY <2>1, <2>3 DEF Positions, NTables
<1>2. CASE left # {}
  <2>1. next \in left /\ \A j \in left : next <= j
    <3>1. left \in SUBSET Positions BY DEF Positions, NTables
    <3> HIDE DEF left
    <3> QED BY <1>2, <3>1, LeastPlace
  <2>2. Onward(n) = [pc |-> "insert", at |-> next, rows |-> file.tables[INSERT_ORDER[next]]]
    BY <1>2 DEF Onward
  <2> HIDE DEF next
  <2>3. next \in Positions /\ n <= next BY <2>1 DEF Positions, NTables
  <2>4. \A i \in Positions : n <= i /\ i < next => file.tables[INSERT_ORDER[i]] = {}
    BY <2>1 DEF Positions, NTables
  <2>5. ASSUME NEW i \in Positions
        PROVE  Inserted(Onward(n), i) = IF i < n THEN file.tables[INSERT_ORDER[i]] ELSE {}
    <3>1. CASE i < n
      <4>1. i < next BY <2>3, <3>1 DEF Positions, NTables
      <4> QED BY <2>2, <3>1, <4>1 DEF Inserted
    <3>2. CASE n <= i /\ i < next
      <4>1. file.tables[INSERT_ORDER[i]] = {} BY <2>4, <3>2
      <4>2. Inserted(Onward(n), i) = file.tables[INSERT_ORDER[i]]
        BY <2>2, <3>2 DEF Inserted
      <4>3. ~(i < n) BY <3>2 DEF Positions, NTables
      <4> QED BY <4>1, <4>2, <4>3
    <3>3. CASE n <= i /\ i = next
      <4>1. ~(i < n) /\ ~(i < next) BY <3>3 DEF Positions, NTables
      <4>2. Inserted(Onward(n), i) = file.tables[INSERT_ORDER[i]] \ file.tables[INSERT_ORDER[i]]
        BY <2>2, <3>3, <4>1 DEF Inserted
      <4> QED BY <4>1, <4>2
    <3>4. CASE n <= i /\ next < i
      <4>1. ~(i < n) /\ ~(i < next) /\ i # next BY <2>3, <3>4 DEF Positions, NTables
      <4> QED BY <2>2, <4>1 DEF Inserted
    <3> QED BY <2>3, <3>1, <3>2, <3>3, <3>4 DEF Positions, NTables
  <2>6. file.tables[INSERT_ORDER[next]] = file.tables[INSERT_ORDER[Onward(n).at]]
    BY <2>2
  <2> QED BY <2>2, <2>3, <2>5, <2>6
<1> QED BY <1>1, <1>2

-----------------------------------------------------------------------------
(* Servers                                                                 *)

\* A server leaves the scripts alone, never takes a row from an append-only
\* table, and while all are down can only start, which the history notes.
LEMMA ServersOnlyAppend ==
  ASSUME TypeOK, ServerStep
  PROVE  /\ TypeOK'
         /\ UNCHANGED scripts
         /\ \A t \in AppendOnly : db[t] \subseteq db'[t]
         /\ mixed => mixed'
         /\ Restoring /\ (\A s \in Servers : mode[s] = "down") => mixed'
<1> DEFINE Appends == /\ TablesOK(db')
                      /\ \A t \in AppendOnly : db[t] \subseteq db'[t]
           Notes(s) == /\ UNCHANGED scripts
                       /\ mode' \in [Servers -> {"down", "init", "mint", "up"}]
                       /\ schema' \in BOOLEAN /\ mixed' \in BOOLEAN /\ raced' \in BOOLEAN
                       /\ mixed => mixed'
                       /\ mode[s] = "down" /\ Restoring => mixed'
<1>1. ASSUME NEW d, NEW t, NEW row, TablesOK(d) PROVE TablesOK(With(d, t, row))
  BY <1>1 DEF TablesOK, With
<1>2. ASSUME NEW d, NEW t, NEW row, TablesOK(d) PROVE TablesOK(Upsert(d, t, row))
  BY <1>2 DEF TablesOK, Upsert
<1>3. ASSUME NEW d, NEW t, NEW row, TablesOK(d), NEW u \in Tables
      PROVE  d[u] \subseteq With(d, t, row)[u]
  BY <1>3 DEF TablesOK, With
<1>4. ASSUME NEW d, NEW t, NEW row, TablesOK(d), NEW u \in AppendOnly, t \notin AppendOnly
      PROVE  d[u] \subseteq Upsert(d, t, row)[u]
  BY <1>4 DEF TablesOK, Upsert, AppendOnly, Tables
<1>5. AppendOnly \subseteq Tables BY DEF AppendOnly, Tables
<1>6. TablesOK(db) BY DEF TypeOK
<1>7. ASSUME NEW s \in Servers, NEW kinds, Commits(s, kinds) PROVE Notes(s)
  BY <1>7 DEF Commits, TypeOK, scripts
<1>8. ASSUME db' = db PROVE Appends
  BY <1>6, <1>8
<1>9. ASSUME NEW t, NEW row, db' = With(db, t, row) PROVE Appends
  BY <1>1, <1>3, <1>5, <1>6, <1>9
<1>10. ASSUME NEW s \in Servers,
              \/ Start(s) \/ UseEnvCaKey(s) \/ LoadCaKey(s) \/ MissCaKey(s)
              \/ SaveCaKey(s) \/ Stop(s)
       PROVE  Appends /\ Notes(s)
  <2>1. CASE Start(s)
    <3>1. Notes(s) BY <2>1 DEF Start, TypeOK, scripts
    <3> QED BY <2>1, <3>1, <1>8 DEF Start
  <2>2. CASE LoadCaKey(s)
    <3>1. Notes(s) BY <2>2 DEF LoadCaKey, TypeOK, scripts, database, history
    <3> QED BY <2>2, <3>1, <1>8 DEF LoadCaKey, database
  <2>3. CASE MissCaKey(s)
    <3>1. Notes(s) BY <2>3 DEF MissCaKey, TypeOK, scripts, history
    <3> QED BY <2>3, <3>1, <1>8 DEF MissCaKey
  <2>4. CASE SaveCaKey(s)
    <3>1. Notes(s) BY <2>4 DEF SaveCaKey, TypeOK, scripts
    <3>2. Appends BY <2>4, <1>2, <1>4, <1>6 DEF SaveCaKey, AppendOnly
    <3> QED BY <3>1, <3>2
  <2>5. CASE Stop(s)
    <3>1. Notes(s) BY <2>5 DEF Stop, TypeOK, scripts, database, history
    <3> QED BY <2>5, <3>1, <1>8 DEF Stop, database
  <2>6. CASE UseEnvCaKey(s)
    <3>1. Notes(s) BY <2>6 DEF UseEnvCaKey, TypeOK, scripts, database, history
    <3> QED BY <2>6, <3>1, <1>8 DEF UseEnvCaKey, database
  <2> QED BY <1>10, <2>1, <2>2, <2>3, <2>4, <2>5, <2>6
<1>11. ASSUME NEW s \in Servers, NEW c \in Companies, Hydrate(s, c)
       PROVE  Appends /\ Notes(s)
  <2>1. Notes(s) BY <1>11 DEF Hydrate, TypeOK, scripts
  <2> DEFINE keys == IF RowsOf(c, "keys") = {} THEN fresh + 1
                     ELSE (CHOOSE r \in RowsOf(c, "keys") : TRUE).val
             saved == IF RowsOf(c, "keys") = {} THEN Upsert(db, "keys", Row(c, c, keys)) ELSE db
             head == Row(<<c, Cardinality(RowsOf(c, "records"))>>, c, caKeys[s])
  <2>2. db' \in {saved, With(saved, "signed_tree_heads", head)} BY <1>11 DEF Hydrate
  <2>3. TablesOK(saved) /\ \A t \in AppendOnly : db[t] \subseteq saved[t]
    BY <1>2, <1>4, <1>6 DEF AppendOnly
  <2> HIDE DEF saved, head
  <2>4. Appends BY <2>2, <2>3, <1>1, <1>3, <1>5
  <2> QED BY <2>1, <2>4
<1>12. ASSUME NEW s \in Servers, NEW c \in Companies,
              CreateCompany(s, c) \/ CreateWebhook(s, c)
       PROVE  Appends /\ Notes(s)
  BY <1>12, <1>7, <1>9 DEF CreateCompany, CreateWebhook
<1>13. ASSUME NEW s \in Servers, NEW c \in Companies, Attest(s, c)
       PROVE  Appends /\ Notes(s)
  <2> DEFINE size == tenants[s][c].length + 1
             record == Row(<<c, size>>, c, [key |-> tenants[s][c].keys, payload |-> writes + 1])
             sth == Row(<<c, size>>, c, caKeys[s])
  <2>1. db' = With(With(db, "records", record), "signed_tree_heads", sth)
    BY <1>13 DEF Attest
  <2>2. Commits(s, {"attest"}) BY <1>13 DEF Attest
  <2> HIDE DEF record, sth
  <2>3. Appends BY <2>1, <1>1, <1>3, <1>5, <1>6
  <2> QED BY <2>2, <2>3, <1>7
<1>14. ASSUME NEW s \in Servers, NEW c \in Companies, RotateKeys(s, c)
       PROVE  Appends /\ Notes(s)
  <2>1. PICK r : db' = Upsert(With(db, "keys_history", Row(fresh + 1, c, r.val)),
                              "keys", Row(c, c, fresh + 2))
    BY <1>14 DEF RotateKeys
  <2>2. Commits(s, {"rotate"}) BY <1>14 DEF RotateKeys
  <2> DEFINE kept == With(db, "keys_history", Row(fresh + 1, c, r.val))
  <2>3. TablesOK(kept) /\ \A t \in AppendOnly : db[t] \subseteq kept[t]
    BY <1>1, <1>3, <1>5, <1>6
  <2> HIDE DEF kept
  <2>4. "keys" \notin AppendOnly BY DEF AppendOnly
  <2>5. Appends BY <2>1, <2>3, <2>4, <1>2, <1>4 DEF kept
  <2> QED BY <2>2, <2>5, <1>7
<1>15. ASSUME NEW s \in Servers, NEW c, NEW t,
              InsertOther(s, c, t) \/ DeleteOther(s, c, t)
       PROVE  Appends /\ Notes(s)
  <2>1. Commits(s, {}) BY <1>15 DEF InsertOther, DeleteOther
  <2>2. CASE InsertOther(s, c, t) BY <2>1, <2>2, <1>7, <1>9 DEF InsertOther
  <2>3. CASE DeleteOther(s, c, t)
    <3>1. t \notin AppendOnly BY <2>3 DEF DeleteOther, AppendOnly
    <3>2. PICK row : db' = [db EXCEPT ![t] = @ \ {row}] BY <2>3 DEF DeleteOther
    <3>3. Appends BY <3>1, <3>2, <1>5, <1>6 DEF TablesOK
    <3> QED BY <2>1, <3>3, <1>7
  <2> QED BY <1>15, <2>2, <2>3
<1>16. ASSUME NEW s \in Servers, NEW hook, CreateDelivery(s, hook) \/ DeleteWebhook(s, hook)
       PROVE  Appends /\ Notes(s)
  <2>1. Commits(s, {}) BY <1>16 DEF CreateDelivery, DeleteWebhook
  <2>2. CASE CreateDelivery(s, hook) BY <2>1, <2>2, <1>7, <1>9 DEF CreateDelivery
  <2>3. CASE DeleteWebhook(s, hook)
    <3>1. Appends BY <2>3, <1>5, <1>6 DEF DeleteWebhook, TablesOK, AppendOnly
    <3> QED BY <2>1, <3>1, <1>7
  <2> QED BY <1>16, <2>2, <2>3
<1> HIDE DEF Appends, Notes
<1>17. PICK s \in Servers : Appends /\ Notes(s)
  BY <1>10, <1>11, <1>12, <1>13, <1>14, <1>15, <1>16 DEF ServerStep
<1>18. TypeOK' BY <1>17 DEF TypeOK, Appends, Notes, scripts
<1> QED BY <1>17, <1>18 DEF Appends, Notes

-----------------------------------------------------------------------------
(* The invariant                                                           *)

\* The invariant of the restore, step by step.
LEMMA InitIInv == Init => IInv
<1> SUFFICES ASSUME Init PROVE IInv OBVIOUS
<1>1. TablesOK([t \in Tables |-> {}]) BY DEF TablesOK
<1>2. TablesOK(db) BY <1>1, BoundsAssumption DEF Init, TablesOK
<1>3. schema \in BOOLEAN BY DEF Init
<1>4. mode \in [Servers -> {"down", "init", "mint", "up"}] BY DEF Init
<1>5. /\ dump = [at |-> 0, tables |-> [t \in Tables |-> {}]]
      /\ file = [status |-> "none", tables |-> [t \in Tables |-> {}]]
      /\ restore = [pc |-> "idle", at |-> 1, rows |-> {}]
      /\ mixed = FALSE /\ raced = FALSE
  BY DEF Init
<1>6. TypeOK
  <2>1. mixed \in BOOLEAN /\ raced \in BOOLEAN BY <1>5
  <2>2. /\ TablesOK(dump.tables) /\ TablesOK(file.tables)
        /\ dump = [at |-> dump.at, tables |-> dump.tables] /\ dump.at \in 0 .. SealStage
        /\ file = [status |-> file.status, tables |-> file.tables]
        /\ file.status \in {"none", "written", "sealed"}
    BY <1>1, <1>5 DEF SealStage, NTables
  <2>3. /\ restore = [pc |-> restore.pc, at |-> restore.at, rows |-> restore.rows]
        /\ restore.pc = "idle" /\ restore.at \in 1 .. NTables
    BY <1>5 DEF NTables
  <2> QED BY <1>2, <1>3, <1>4, <2>1, <2>2, <2>3 DEF TypeOK
<1> QED BY <1>5, <1>6 DEF IInv, RowsOK, Exclusive, LogKept, Sealed, Restoring

\* What the invariant says of the scripts is not disturbed by who keeps the
\* database, the backup and the restore.
LEMMA KeepsDatabase ==
  ASSUME IInv, TypeOK', UNCHANGED <<db, restore, mode, mixed>>,
         file'.tables = file.tables \/ ~Restoring, Sealed'
  PROVE  IInv'
<1>1. CASE Restoring
  <2>1. file'.tables = file.tables BY <1>1
  <2>2. \A i \in Positions : Inserted(restore, i)' = Inserted(restore, i)
    BY <2>1 DEF Inserted
  <2> QED BY <1>1, <2>1, <2>2 DEF IInv, RowsOK, Exclusive, LogKept, Restoring
<1>2. CASE ~Restoring
  BY <1>2 DEF IInv, RowsOK, Exclusive, LogKept, Restoring
<1> QED BY <1>1, <1>2

\* A server step deletes nothing from the append-only tables.
LEMMA ServerStepIInv == ASSUME IInv, ServerStep PROVE IInv'
<1>1. TypeOK BY DEF IInv
<1>2. /\ TypeOK' /\ UNCHANGED scripts
      /\ \A t \in AppendOnly : db[t] \subseteq db'[t]
      /\ mixed => mixed'
      /\ Restoring /\ (\A s \in Servers : mode[s] = "down") => mixed'
  BY <1>1, ServersOnlyAppend
<1>3. Restoring' <=> Restoring BY <1>2 DEF Restoring, scripts
<1>4. \A i \in Positions : Inserted(restore, i)' = Inserted(restore, i)
  BY <1>2 DEF Inserted, scripts
<1>5. RowsOK' BY <1>2 DEF IInv, RowsOK, scripts
<1>6. Sealed' BY <1>2, <1>3 DEF IInv, Sealed, scripts
<1>7. LogKept' BY <1>2, <1>3, <1>4 DEF IInv, LogKept
<1>8. Restoring => mixed' BY <1>2 DEF IInv, Exclusive
<1>9. Exclusive' BY <1>3, <1>8 DEF Exclusive
<1> QED BY <1>2, <1>5, <1>6, <1>7, <1>9 DEF IInv

\* A dump writes files, and does not touch the tables.
LEMMA DumpIInv ==
  ASSUME IInv, BeginDump \/ DumpTable \/ WriteBackup \/ WriteChecksum \/ DumpDies
  PROVE  IInv'
<1>1. TypeOK /\ Sealed BY DEF IInv
<1>2. TablesOK([t \in Tables |-> {}]) BY DEF TablesOK
<1>3. CASE BeginDump
  <2>1. TypeOK' BY <1>1, <1>3 DEF BeginDump, TypeOK, database, servers, SealStage, NTables
  <2>2. Sealed' BY <1>1, <1>3 DEF BeginDump, Sealed, Restoring
  <2> QED BY <1>3, <2>1, <2>2, KeepsDatabase DEF BeginDump, database, servers
<1>4. CASE DumpTable
  <2>1. TablesOK([dump.tables EXCEPT ![ALL_TABLES[dump.at]] = db[ALL_TABLES[dump.at]]])
    BY <1>1 DEF TypeOK, TablesOK
  <2>2. dump' = [at |-> dump.at + 1,
                 tables |-> [dump.tables EXCEPT ![ALL_TABLES[dump.at]] = db[ALL_TABLES[dump.at]]]]
        /\ dump.at + 1 \in 0 .. SealStage
    BY <1>4 DEF DumpTable, SealStage, NTables
  <2>3. TypeOK' BY <1>1, <1>4, <2>1, <2>2 DEF DumpTable, TypeOK, database, servers, history
  <2>4. Sealed' BY <1>1, <1>4 DEF DumpTable, Sealed, Restoring, NTables
  <2> QED BY <1>4, <2>3, <2>4, KeepsDatabase DEF DumpTable, database, servers, history
<1>5. CASE WriteBackup
  <2>1. TypeOK'
    BY <1>1, <1>2, <1>5 DEF WriteBackup, TypeOK, database, servers, history, SealStage, NTables
  <2>2. ~Restoring BY <1>1, <1>5 DEF WriteBackup, Sealed, WriteStage, NTables
  <2>3. Sealed' BY <1>5, <2>2 DEF WriteBackup, Sealed, Restoring
  <2> QED BY <1>5, <2>1, <2>2, <2>3, KeepsDatabase DEF WriteBackup, database, servers, history
<1>6. CASE WriteChecksum
  <2>1. TypeOK'
    BY <1>1, <1>6 DEF WriteChecksum, TypeOK, database, servers, history, SealStage, NTables
  <2>2. Sealed' BY <1>1, <1>6 DEF WriteChecksum, Sealed, Restoring, TypeOK
  <2>3. file'.tables = file.tables BY <1>1, <1>6 DEF WriteChecksum, TypeOK
  <2> QED BY <1>6, <2>1, <2>2, <2>3, KeepsDatabase DEF WriteChecksum, database, servers, history
<1>7. CASE DumpDies
  <2>1. TypeOK'
    BY <1>1, <1>2, <1>7 DEF DumpDies, TypeOK, database, servers, history, SealStage, NTables
  <2>2. Sealed' BY <1>1, <1>7 DEF DumpDies, Sealed, Restoring
  <2> QED BY <1>7, <2>1, <2>2, KeepsDatabase DEF DumpDies, database, servers, history
<1> QED BY <1>3, <1>4, <1>5, <1>6, <1>7

\* A restore begins with a file that has its checksum.
LEMMA BeginRestoreIInv == ASSUME IInv, BeginRestore PROVE IInv'
<1>1. TypeOK /\ Sealed BY DEF IInv
<1>2. TypeOK'
  <2>1. UNCHANGED <<mode, dump, file, raced>> BY DEF BeginRestore, servers
  <2>2. TablesOK(db') BY DEF BeginRestore, TablesOK
  <2>3. /\ restore' = [pc |-> restore'.pc, at |-> restore'.at, rows |-> restore'.rows]
        /\ restore'.pc = "create" /\ restore'.at \in 1 .. NTables
    <3>1. restore' = [pc |-> "create", at |-> 1, rows |-> {}] BY DEF BeginRestore
    <3> QED BY <3>1 DEF NTables
  <2>4. schema' \in BOOLEAN /\ mixed' \in BOOLEAN BY Zenon DEF BeginRestore
  <2>5. /\ TablesOK(dump'.tables) /\ TablesOK(file'.tables)
        /\ mode' \in [Servers -> {"down", "init", "mint", "up"}]
        /\ dump' = [at |-> dump'.at, tables |-> dump'.tables] /\ dump'.at \in 0 .. SealStage
        /\ file' = [status |-> file'.status, tables |-> file'.tables]
        /\ file'.status \in {"none", "written", "sealed"}
        /\ raced' \in BOOLEAN
    BY <1>1, <2>1 DEF TypeOK
  <2> QED BY <2>2, <2>3, <2>4, <2>5 DEF TypeOK
<1>3. restore'.pc = "create" /\ db' = [t \in Tables |-> {}] BY DEF BeginRestore
<1>4. \A i \in Positions : Inserted(restore, i)' = {} /\ db'[INSERT_ORDER[i]] = {}
  BY <1>3, PlacesAreTables DEF Inserted
<1>5. Sealed' BY <1>1 DEF BeginRestore, Sealed, servers
<1>6. (~mixed)' => \A s \in Servers : mode'[s] = "down" BY DEF BeginRestore, servers
<1>7. Exclusive' /\ LogKept' BY <1>4, <1>6 DEF Exclusive, LogKept
<1>8. RowsOK' BY <1>3 DEF RowsOK
<1> QED BY <1>2, <1>5, <1>7, <1>8 DEF IInv

\* Then every table is empty, and none is inserted.
LEMMA RecreateSchemaIInv == ASSUME IInv, RecreateSchema PROVE IInv'
<1>1. TypeOK /\ Sealed /\ Restoring BY DEF IInv, RecreateSchema, Restoring
<1>2. /\ restore.pc = "create" /\ restore' = Onward(1)
      /\ UNCHANGED <<db, fresh, writes, servers, dump, file, attempts, history>>
  BY DEF RecreateSchema
<1>3. 1 \in 1 .. NTables + 1 BY DEF NTables
<1>4. TypeOK'
  <2>1. /\ restore' = [pc |-> restore'.pc, at |-> restore'.at, rows |-> restore'.rows]
        /\ restore'.pc \in {"insert", "count"} /\ restore'.at \in 1 .. NTables
    BY <1>2, <1>3, OnwardInserts DEF Positions
  <2>2. schema' \in BOOLEAN BY DEF RecreateSchema
  <2>3. UNCHANGED <<db, mode, dump, file, mixed, raced>> BY <1>2 DEF servers, history
  <2>4. /\ TablesOK(db') /\ TablesOK(dump'.tables) /\ TablesOK(file'.tables)
        /\ mode' \in [Servers -> {"down", "init", "mint", "up"}]
        /\ dump' = [at |-> dump'.at, tables |-> dump'.tables] /\ dump'.at \in 0 .. SealStage
        /\ file' = [status |-> file'.status, tables |-> file'.tables]
        /\ file'.status \in {"none", "written", "sealed"}
        /\ mixed' \in BOOLEAN /\ raced' \in BOOLEAN
    BY <1>1, <2>3 DEF TypeOK
  <2>5. restore'.pc \in {"idle", "create", "insert", "count", "failed", "interrupted", "done"}
    BY <2>1
  <2> QED BY <2>1, <2>2, <2>4, <2>5, Zenon DEF TypeOK
<1>5. \A i \in Positions : Inserted(restore, i)' = Inserted(restore, i)
  <2> SUFFICES ASSUME NEW i \in Positions PROVE Inserted(restore, i)' = Inserted(restore, i)
    OBVIOUS
  <2>1. Inserted(restore, i)' = Inserted(Onward(1), i) BY <1>2 DEF Inserted
  <2>2. ~(i < 1) BY DEF Positions, NTables
  <2>3. Inserted(Onward(1), i) = {} BY <1>3, <2>2, OnwardInserts
  <2> QED BY <1>2, <2>1, <2>3 DEF Inserted
<1>6. RowsOK'
  <2>1. Onward(1).pc = "insert" => Onward(1).rows = file.tables[INSERT_ORDER[Onward(1).at]]
    BY <1>3, OnwardInserts
  <2> QED BY <1>2, <2>1 DEF RowsOK
<1>7. Exclusive' /\ LogKept' BY <1>1, <1>2, <1>5 DEF IInv, Exclusive, LogKept, servers, history
<1>8. Sealed' BY <1>1, <1>2 DEF Sealed, servers
<1> QED BY <1>4, <1>6, <1>7, <1>8 DEF IInv

\* A row goes from what is left to what is inserted.
LEMMA InsertRowIInv == ASSUME IInv, InsertRow PROVE IInv'
<1> DEFINE at == restore.at
           t == INSERT_ORDER[restore.at]
<1>1. TypeOK /\ Sealed /\ Restoring /\ RowsOK BY DEF IInv, InsertRow, Restoring
<1>2. /\ restore.pc = "insert"
      /\ UNCHANGED <<schema, fresh, writes, servers, dump, file, attempts, history>>
  BY DEF InsertRow
<1>3. PICK row \in restore.rows :
        /\ db' = With(db, t, row)
        /\ restore' = IF restore.rows = {row} THEN Onward(restore.at + 1)
                      ELSE [restore EXCEPT !.rows = @ \ {row}]
  BY DEF InsertRow
<1>4. at \in Positions /\ at + 1 \in 1 .. NTables + 1
  BY <1>1 DEF TypeOK, Positions, NTables
<1>5. /\ restore' = [pc |-> restore'.pc, at |-> restore'.at, rows |-> restore'.rows]
      /\ restore'.pc \in {"insert", "count"} /\ restore'.at \in Positions
      /\ restore'.pc = "insert" => restore'.rows \subseteq file.tables[INSERT_ORDER[restore'.at]]
  <2>1. CASE restore.rows = {row} BY <1>3, <1>4, <2>1, OnwardInserts
  <2>2. CASE restore.rows # {row}
    <3>1. restore' = [pc |-> "insert", at |-> at, rows |-> restore.rows \ {row}]
      BY <1>1, <1>2, <1>3, <2>2 DEF TypeOK
    <3> QED BY <1>1, <1>2, <1>4, <3>1 DEF RowsOK
  <2> QED BY <2>1, <2>2
<1>6. TablesOK(db') BY <1>1, <1>3 DEF TypeOK, TablesOK, With
<1>7. TypeOK' BY <1>1, <1>2, <1>5, <1>6 DEF TypeOK, servers, history, Positions
<1>8. RowsOK' BY <1>2, <1>5 DEF RowsOK
<1>9. ASSUME NEW i \in Positions
      PROVE  /\ i # at => Inserted(restore, i)' = Inserted(restore, i)
                          /\ db'[INSERT_ORDER[i]] = db[INSERT_ORDER[i]]
             /\ i = at => Inserted(restore, i)' = Inserted(restore, i) \cup {row}
                          /\ db'[INSERT_ORDER[i]] = db[INSERT_ORDER[i]] \cup {row}
  <2>1. i # at => INSERT_ORDER[i] # t BY <1>4, PlacesDiffer
  <2>2. INSERT_ORDER[i] \in Tables /\ t \in Tables BY <1>4, PlacesAreTables
  <2>3. /\ i # at => db'[INSERT_ORDER[i]] = db[INSERT_ORDER[i]]
        /\ i = at => db'[INSERT_ORDER[i]] = db[INSERT_ORDER[i]] \cup {row}
    BY <1>1, <1>3, <2>1, <2>2 DEF With, TypeOK, TablesOK
  <2>4. row \in file.tables[t] /\ restore.rows \subseteq file.tables[t]
    BY <1>1, <1>2, <1>3 DEF RowsOK
  <2>5. i \in Nat /\ at \in Nat BY <1>4 DEF Positions, NTables
  <2>6. Inserted(restore, i) = IF i < at THEN file.tables[INSERT_ORDER[i]]
                               ELSE IF i = at THEN file.tables[t] \ restore.rows ELSE {}
    BY <1>2 DEF Inserted
  <2>7. CASE restore.rows = {row}
    <3>1. Inserted(restore, i)' = Inserted(Onward(at + 1), i)
      BY <1>2, <1>3, <2>7 DEF Inserted
    <3>2. Inserted(Onward(at + 1), i) = IF i < at + 1 THEN file.tables[INSERT_ORDER[i]] ELSE {}
      BY <1>4, OnwardInserts
    <3>3. i = at => Inserted(restore, i)' = file.tables[t]
                    /\ Inserted(restore, i) = file.tables[t] \ {row}
      BY <2>5, <2>6, <2>7, <3>1, <3>2
    <3>4. i # at => Inserted(restore, i)' = Inserted(restore, i)
      BY <2>5, <2>6, <3>1, <3>2
    <3> QED BY <2>3, <2>4, <3>3, <3>4
  <2>8. CASE restore.rows # {row}
    <3>1. restore' = [pc |-> "insert", at |-> at, rows |-> restore.rows \ {row}]
      BY <1>1, <1>2, <1>3, <2>8 DEF TypeOK
    <3>2. Inserted(restore, i)' = IF i < at THEN file.tables[INSERT_ORDER[i]]
                                  ELSE IF i = at THEN file.tables[t] \ (restore.rows \ {row})
                                  ELSE {}
      BY <1>2, <3>1 DEF Inserted
    <3>3. i = at => Inserted(restore, i)' = Inserted(restore, i) \cup {row}
      BY <2>4, <2>5, <2>6, <3>2
    <3>4. i # at => Inserted(restore, i)' = Inserted(restore, i)
      BY <2>5, <2>6, <3>2
    <3> QED BY <2>3, <3>3, <3>4
  <2> QED BY <2>7, <2>8
<1>10. Exclusive'
  <2>1. (~mixed)' => \A s \in Servers : mode'[s] = "down"
    BY <1>1, <1>2 DEF IInv, Exclusive, servers, history
  <2>2. (~mixed)' => \A i \in Positions : db'[INSERT_ORDER[i]] = Inserted(restore, i)'
    BY <1>1, <1>2, <1>9 DEF IInv, Exclusive, history
  <2> QED BY <2>1, <2>2 DEF Exclusive
<1>11. LogKept'
  <2>1. \A i \in Positions :
          INSERT_ORDER[i] \in AppendOnly => Inserted(restore, i)' \subseteq db'[INSERT_ORDER[i]]
    BY <1>1, <1>9 DEF IInv, LogKept
  <2> QED BY <2>1 DEF LogKept
<1>12. Sealed' BY <1>1, <1>2 DEF Sealed
<1> QED BY <1>7, <1>8, <1>10, <1>11, <1>12 DEF IInv

\* Counting changes no table.
LEMMA CountTableIInv == ASSUME IInv, CountTable PROVE IInv'
<1>1. TypeOK /\ Sealed /\ Restoring BY DEF IInv, CountTable, Restoring
<1>2. /\ restore.pc = "count"
      /\ UNCHANGED <<database, servers, dump, file, attempts, history>>
      /\ \/ restore' = [restore EXCEPT !.pc = "failed"]
         \/ restore' = [restore EXCEPT !.pc = "done"]
         \/ restore.at # NTables /\ restore' = [restore EXCEPT !.at = @ + 1]
  BY DEF CountTable
<1>3. restore'.pc \in {"failed", "done", "count"} BY <1>1, <1>2 DEF TypeOK
<1>4. TypeOK' BY <1>1, <1>2 DEF TypeOK, database, servers, history, NTables
<1>5. \A i \in Positions : restore'.pc = "count" => Inserted(restore, i)' = Inserted(restore, i)
  BY <1>2 DEF Inserted
<1>6. RowsOK' BY <1>3 DEF RowsOK
<1>7. Exclusive' /\ LogKept'
  BY <1>1, <1>2, <1>3, <1>5 DEF IInv, Exclusive, LogKept, Restoring, database, servers, history
<1>8. Sealed' BY <1>1, <1>2 DEF Sealed
<1> QED BY <1>4, <1>6, <1>7, <1>8 DEF IInv

\* A restore that fails, dies or is cut short rolls nothing back, and claims nothing.
LEMMA RestoreStopsIInv ==
  ASSUME IInv, InsertRowFails \/ RestoreDies \/ ImportedDumpExits
  PROVE  IInv'
<1>1. TypeOK /\ Sealed BY DEF IInv
<1>2. /\ restore'.pc \in {"failed", "interrupted"} /\ restore'.at \in 1 .. NTables
      /\ restore' = [pc |-> restore'.pc, at |-> restore'.at, rows |-> restore'.rows]
      /\ UNCHANGED <<database, servers, dump, file, attempts, history>>
  <2>1. CASE InsertRowFails
    <3>1. /\ restore' = [restore EXCEPT !.pc = "failed", !.rows = {}]
          /\ UNCHANGED <<database, servers, dump, file, attempts, history>>
      BY <2>1 DEF InsertRowFails
    <3>2. restore' = [pc |-> "failed", at |-> restore.at, rows |-> {}]
      BY <1>1, <3>1 DEF TypeOK
    <3> QED BY <1>1, <3>1, <3>2 DEF TypeOK
  <2>2. CASE RestoreDies \/ ImportedDumpExits
    <3>1. /\ restore' = [pc |-> "interrupted", at |-> 1, rows |-> {}]
          /\ UNCHANGED <<database, servers, dump, file, attempts, history>>
      BY <2>2 DEF RestoreDies, ImportedDumpExits
    <3>2. 1 \in 1 .. NTables BY DEF NTables
    <3> QED BY <3>1, <3>2
  <2> QED BY <2>1, <2>2
<1>3. TypeOK'
  BY <1>1, <1>2 DEF TypeOK, database, servers, history
<1>4. ~Restoring' BY <1>2 DEF Restoring
<1>5. RowsOK' /\ Exclusive' /\ LogKept' BY <1>2, <1>4 DEF RowsOK, Exclusive, LogKept
<1>6. Sealed' BY <1>1, <1>2, <1>4 DEF Sealed
<1> QED BY <1>3, <1>5, <1>6 DEF IInv

\* Every step keeps the invariant.
LEMMA StepIInv == IInv /\ [Next]_vars => IInv'
<1> SUFFICES ASSUME IInv, [Next]_vars PROVE IInv' OBVIOUS
<1>1. CASE UNCHANGED vars
  BY <1>1 DEF vars, database, servers, scripts, history, IInv, TypeOK, RowsOK, Exclusive,
              LogKept, Sealed, Restoring, Inserted
<1> QED BY <1>1, ServerStepIInv, DumpIInv, BeginRestoreIInv, RecreateSchemaIInv,
           InsertRowIInv, CountTableIInv, RestoreStopsIInv DEF Next

\* How far a restore is, throughout: the tables before the current one are complete,
\* the current one lacks what is left to insert.
THEOREM Invariance == Spec => []IInv
BY InitIInv, StepIInv, PTL DEF Spec

-----------------------------------------------------------------------------
(* What a successful restore has restored                                  *)

\* A restore reports success only when it has counted the last table.
LEMMA CompletesCounting ==
  ASSUME IInv, Next, Completes
  PROVE  CountTable /\ restore.pc = "count"
<1>1. ServerStep => UNCHANGED scripts BY ServersOnlyAppend DEF IInv
<1>2. ~RecreateSchema
  <2>1. 1 \in 1 .. NTables + 1 BY DEF NTables
  <2> QED BY <2>1, OnwardInserts DEF RecreateSchema, Completes
<1>3. ~InsertRow
  <2> SUFFICES ASSUME InsertRow PROVE FALSE OBVIOUS
  <2>1. restore.at + 1 \in 1 .. NTables + 1 BY DEF IInv, TypeOK, NTables
  <2>2. restore'.pc \in {Onward(restore.at + 1).pc, restore.pc}
    BY DEF InsertRow, IInv, TypeOK
  <2> QED BY <2>1, <2>2, OnwardInserts DEF Completes
<1>4. ~ServerStep BY <1>1 DEF Completes, scripts
<1>5. ~(BeginDump \/ DumpTable \/ WriteBackup \/ WriteChecksum \/ DumpDies)
  BY DEF Completes, BeginDump, DumpTable, WriteBackup, WriteChecksum, DumpDies
<1>6. ~(BeginRestore \/ RestoreDies \/ ImportedDumpExits)
  <2>1. ~BeginRestore
    <3>1. BeginRestore => restore'.pc = "create" BY DEF BeginRestore
    <3> QED BY <3>1 DEF Completes
  <2>2. ~(RestoreDies \/ ImportedDumpExits)
    <3>1. RestoreDies \/ ImportedDumpExits => restore'.pc = "interrupted"
      BY DEF RestoreDies, ImportedDumpExits
    <3> QED BY <3>1 DEF Completes
  <2> QED BY <2>1, <2>2
<1>7. ~InsertRowFails BY DEF Completes, InsertRowFails, IInv, TypeOK
<1> QED BY <1>2, <1>3, <1>4, <1>5, <1>6, <1>7 DEF Next, CountTable

\* A restore that reports success and had the database to itself leaves
\* exactly what the backup holds.
THEOREM RestoresExactly == Spec => CompleteIsExact
<1>1. IInv /\ [Next]_vars => [Completes /\ ~mixed => db' = file.tables]_vars
  <2> SUFFICES ASSUME IInv, Next, Completes, ~mixed PROVE db' = file.tables
    OBVIOUS
  <2>1. restore.pc = "count" /\ db' = db BY CompletesCounting DEF CountTable, database
  <2>2. \A i \in Positions : db[INSERT_ORDER[i]] = file.tables[INSERT_ORDER[i]]
    BY <2>1 DEF IInv, Exclusive, Restoring, Inserted
  <2>3. \A t \in Tables : db[t] = file.tables[t] BY <2>2, EveryTableHasAPlace
  <2> QED BY <2>1, <2>3 DEF IInv, TypeOK, TablesOK
<1> QED BY <1>1, Invariance, PTL DEF Spec, CompleteIsExact

\* With servers writing all the while, a restore that reports success still
\* has every row of the backup's append-only tables.
THEOREM RestoresTheLog == Spec => CompleteHasTheLog
<1>1. IInv /\ [Next]_vars =>
        [Completes => \A t \in AppendOnly : file.tables[t] \subseteq db'[t]]_vars
  <2> SUFFICES ASSUME IInv, Next, Completes, NEW t \in AppendOnly
               PROVE  file.tables[t] \subseteq db'[t]
    OBVIOUS
  <2>1. restore.pc = "count" /\ db' = db BY CompletesCounting DEF CountTable, database
  <2>2. PICK i \in Positions : INSERT_ORDER[i] = t
    BY EveryTableHasAPlace DEF AppendOnly, Tables
  <2>3. file.tables[t] \subseteq db[t]
    BY <2>1, <2>2 DEF IInv, LogKept, Restoring, Inserted
  <2> QED BY <2>1, <2>3
<1> QED BY <1>1, Invariance, PTL DEF Spec, CompleteHasTheLog

-----------------------------------------------------------------------------
(* What a backup holds                                                     *)

\* Rows have the identifiers the store gives them.
RowsShaped(d) ==
  /\ Numbered(d["records"]) /\ Numbered(d["signed_tree_heads"])
  /\ IsFiniteSet(d["records"])
  /\ \A k \in d["keys"] : k.id = k.ref
  /\ \A k \in d["keys_history"] : k.id \in Nat /\ k.id <= fresh

IsTable(f) == f = [s \in Servers |-> [c \in Companies |-> f[s][c]]]

Shaped ==
  /\ fresh \in Nat
  /\ RowsShaped(db) /\ RowsShaped(dump.tables) /\ RowsShaped(file.tables)
  /\ IsTable(tenants)
  /\ \A s \in Servers, c \in Companies : tenants[s][c] # NoTenant =>
       /\ tenants[s][c] = [keys |-> tenants[s][c].keys, length |-> tenants[s][c].length,
                           latestSth |-> tenants[s][c].latestSth]
       /\ tenants[s][c].length \in Nat
  /\ caKeys = [s \in Servers |-> caKeys[s]]

\* Before the first restore nothing is restored; a restore has a sealed backup, which
\* no later dump replaces; a stopped server holds nothing.
Stages ==
  /\ restore.pc = "idle" => ~mixed
  /\ restore.pc # "idle" => file.status = "sealed"
  /\ \A s \in Servers, c \in Companies : mode[s] = "down" => tenants[s][c] = NoTenant

\* The database keeps its constraints; a backfilled tree head is inserted without
\* asking whether it is there, which is known only before the first restore.
SchemaSound ==
  /\ \A t \in Tables : Parent(t) # t => Rooted(db[t], db[Parent(t)])
  /\ \A t \in Tables : Keyed(t) /\ (t = "signed_tree_heads" => restore.pc = "idle") =>
       Unique(db[t])

\* What was missed by the dump matters once it is restored.
Unmissed(kinds) == restore.pc = "idle" \/ during \cap kinds = {}

HeadsCover == ~Partial /\ ~mixed => Covered(db["records"], db["signed_tree_heads"])

LogWithin ==
  /\ Within(db["signed_tree_heads"], db["records"])
  /\ \A s \in Servers, c \in Companies : tenants[s][c] # NoTenant =>
       /\ tenants[s][c].latestSth = tenants[s][c].length
       /\ tenants[s][c].length <= Cardinality(RowsOf(c, "records"))

KeysKnown ==
  /\ Known(db["records"], db["keys"] \cup db["keys_history"])
  /\ \A s \in Servers, c \in Companies : tenants[s][c] # NoTenant =>
       \E k \in db["keys"] \cup db["keys_history"] : k.ref = c /\ k.val = tenants[s][c].keys

CaKnown ==
  /\ Verified(db["signed_tree_heads"], db["ca_key"])
  /\ \A s \in Servers : mode[s] = "up" => Verifies(caKeys[s], db["ca_key"])

LogSound == ~mixed /\ Unmissed({"attest"}) => LogWithin
KeysSound == ~Partial /\ ~mixed /\ Unmissed({"rotate", "key"}) => KeysKnown
CaSound == ~Partial /\ ~mixed /\ ~raced /\ Unmissed({"ca"}) => CaKnown

\* A dump that has read the tables before the n-th, against the database.
Dumped(n) ==
  LET d == dump.tables IN
  /\ n > 1 /\ "company" \notin during => d["companies"] = db["companies"]
  /\ n > 10 /\ "webhook" \notin during => db["webhooks"] \subseteq d["webhooks"]
  /\ during \cap {"company", "webhook"} = {} =>
       \A i \in Positions : i < n =>
         LET t == ALL_TABLES[i] IN Parent(t) # t => Rooted(d[t], d[Parent(t)])
  /\ n > 2 /\ during \cap {"rotate", "key"} = {} => d["keys"] = db["keys"]
  /\ n > 5 => /\ d["records"] \subseteq db["records"]
              /\ "attest" \notin during => d["records"] = db["records"]
              /\ during \cap {"rotate", "key"} = {} =>
                   Known(d["records"], d["keys"] \cup db["keys_history"])
  /\ n > 6 /\ during \cap {"rotate", "key"} = {} =>
       Known(d["records"], d["keys"] \cup d["keys_history"])
  /\ n > 12 /\ "ca" \notin during => d["ca_key"] = db["ca_key"]
  /\ n > 14 =>
       /\ Covered(d["records"], d["signed_tree_heads"])
       /\ "attest" \notin during => Within(d["signed_tree_heads"], d["records"])
       /\ ~raced /\ "ca" \notin during => Verified(d["signed_tree_heads"], d["ca_key"])

DumpSound ==
  /\ \A t \in Tables : Keyed(t) => Unique(dump.tables[t])
  /\ dump.at \in 1 .. WriteStage => Dumped(dump.at)

\* What a finished backup holds, by what was committed while it was made.
FileSound ==
  LET f == file.tables IN
  file.status = "sealed" \/ dump.at = SealStage =>
    /\ \A t \in Tables : Keyed(t) => Unique(f[t])
    /\ during \cap {"company", "webhook"} = {} =>
         \A t \in Tables : Parent(t) # t => Rooted(f[t], f[Parent(t)])
    /\ during \cap {"rotate", "key"} = {} => Known(f["records"], f["keys"] \cup f["keys_history"])
    /\ Covered(f["records"], f["signed_tree_heads"])
    /\ "attest" \notin during => Within(f["signed_tree_heads"], f["records"])
    /\ ~raced /\ "ca" \notin during => Verified(f["signed_tree_heads"], f["ca_key"])

DataInv ==
  /\ IInv /\ Shaped /\ Stages
  /\ SchemaSound /\ HeadsCover /\ LogSound /\ KeysSound /\ CaSound
  /\ DumpSound /\ FileSound /\ RefusedOnlyOnLateParents

-----------------------------------------------------------------------------
(* Lemmas                                                                  *)

\* A set of naturals with a bound has a largest element, and Latest is that.
LEMMA LatestIsLargest ==
  ASSUME NEW S \in SUBSET Nat, NEW b \in Nat, \A n \in S : n <= b, S # {}
  PROVE  Latest(S) \in S /\ \A m \in S : m <= Latest(S)
<1> DEFINE above(n) == n .. b
           T == {above(n) : n \in S}
<1>1. T # {} /\ T \subseteq FiniteSubsetsOf(Nat)
  <2>1. ASSUME NEW n \in S PROVE above(n) \in SUBSET Nat /\ IsFiniteSet(above(n))
    BY FS_Interval
  <2> QED
    BY <2>1 DEF FiniteSubsetsOf
<1>2. PICK x \in T : \A y \in T : ~ (<<y, x>> \in StrictSubsetOrdering(Nat))
  <2> HIDE DEF T
  <2> QED
    BY <1>1, WFMin, FS_StrictSubsetOrderingWellFounded
<1>3. PICK n \in S : x = above(n)
  OBVIOUS
<1>4. ASSUME NEW m \in S PROVE m <= n
  <2> SUFFICES ASSUME n < m PROVE FALSE
    OBVIOUS
  <2>1. above(m) \subseteq above(n) /\ above(m) # above(n)
    <3>1. n \in above(n) /\ n \notin above(m)
      OBVIOUS
    <3> QED
      BY <3>1
  <2>2. above(m) \in SUBSET Nat /\ above(n) \in SUBSET Nat
    OBVIOUS
  <2>3. <<above(m), x>> \in StrictSubsetOrdering(Nat)
    BY <2>1, <2>2, <1>3 DEF StrictSubsetOrdering
  <2> QED
    BY <1>2, <2>3
<1>5. \E k \in S : \A m \in S : m <= k
  BY <1>4
<1> QED
  BY <1>5 DEF Latest

\* Inserting a row, or putting it in the place of another, leaves the other tables.
LEMMA WithRow ==
  ASSUME NEW d, TablesOK(d), NEW t \in Tables, NEW row
  PROVE  /\ TablesOK(With(d, t, row))
         /\ With(d, t, row)[t] = d[t] \cup {row}
         /\ \A u \in Tables \ {t} : With(d, t, row)[u] = d[u]
BY DEF TablesOK, With

Without(rows, id) == {r \in rows : r.id # id}

\* An upsert writes one row of one table.
LEMMA UpsertRow ==
  ASSUME NEW d, TablesOK(d), NEW t \in Tables, NEW row, NEW id, row.id = id
  PROVE  /\ TablesOK(Upsert(d, t, row))
         /\ Upsert(d, t, row)[t] = Without(d[t], id) \cup {row}
         /\ \A u \in Tables \ {t} : Upsert(d, t, row)[u] = d[u]
BY DEF TablesOK, Upsert, Without

\* The rows of the tables servers write, one action at a time.
Same(ts) == \A t \in Tables \ ts : db'[t] = db[t]

\* What each action of a server writes: an attestation its record and a head over it.
LEMMA AttestWrites ==
  ASSUME TypeOK, NEW s \in Servers, NEW c \in Companies, Attest(s, c)
  PROVE  LET size == tenants[s][c].length + 1
             record == Row(<<c, size>>, c, [key |-> tenants[s][c].keys, payload |-> writes + 1])
             sth == Row(<<c, size>>, c, caKeys[s])
         IN /\ Inserts(db, "records", record) /\ Inserts(db, "signed_tree_heads", sth)
            /\ db'["records"] = db["records"] \cup {record}
            /\ db'["signed_tree_heads"] = db["signed_tree_heads"] \cup {sth}
            /\ Same({"records", "signed_tree_heads"})
<1> DEFINE size == tenants[s][c].length + 1
           record == Row(<<c, size>>, c, [key |-> tenants[s][c].keys, payload |-> writes + 1])
           sth == Row(<<c, size>>, c, caKeys[s])
<1>1. /\ Inserts(db, "records", record) /\ Inserts(db, "signed_tree_heads", sth)
      /\ db' = With(With(db, "records", record), "signed_tree_heads", sth)
  BY DEF Attest
<1>2. "records" \in Tables /\ "signed_tree_heads" \in Tables /\ TablesOK(db)
  BY DEF Tables, TypeOK
<1> HIDE DEF record, sth
<1>3. /\ db'["records"] = db["records"] \cup {record}
      /\ db'["signed_tree_heads"] = db["signed_tree_heads"] \cup {sth}
      /\ Same({"records", "signed_tree_heads"})
  BY <1>1, <1>2, WithRow DEF Same
<1> QED
  BY <1>1, <1>3 DEF record, sth

\* A rotation moves the company's key to the history.
LEMMA RotateWrites ==
  ASSUME TypeOK, NEW s \in Servers, NEW c \in Companies, RotateKeys(s, c)
  PROVE  \E r \in RowsOf(c, "keys") :
           /\ db'["keys_history"] = db["keys_history"] \cup {Row(fresh + 1, c, r.val)}
           /\ db'["keys"] = Without(db["keys"], c) \cup {Row(c, c, fresh + 2)}
           /\ Same({"keys", "keys_history"})
<1>1. PICK r \in RowsOf(c, "keys") :
        db' = Upsert(With(db, "keys_history", Row(fresh + 1, c, r.val)),
                     "keys", Row(c, c, fresh + 2))
  BY DEF RotateKeys
<1> DEFINE old == Row(fresh + 1, c, r.val)
           new == Row(c, c, fresh + 2)
           kept == With(db, "keys_history", old)
<1>2. "keys" \in Tables /\ "keys_history" \in Tables /\ TablesOK(db)
  BY DEF Tables, TypeOK
<1>3. new.id = c
  BY DEF Row
<1> HIDE DEF old, new
<1>4. /\ TablesOK(kept) /\ kept["keys_history"] = db["keys_history"] \cup {old}
      /\ \A t \in Tables \ {"keys_history"} : kept[t] = db[t]
  BY <1>2, WithRow
<1> HIDE DEF kept
<1>5. /\ db'["keys"] = Without(kept["keys"], c) \cup {new}
      /\ \A t \in Tables \ {"keys"} : db'[t] = kept[t]
  BY <1>1, <1>2, <1>3, <1>4, UpsertRow DEF kept, old, new
<1>6. kept["keys"] = db["keys"] /\ db'["keys_history"] = kept["keys_history"]
  BY <1>2, <1>4, <1>5
<1>7. Same({"keys", "keys_history"})
  BY <1>4, <1>5 DEF Same
<1>8. /\ db'["keys_history"] = db["keys_history"] \cup {old}
      /\ db'["keys"] = Without(db["keys"], c) \cup {new}
  BY <1>3, <1>4, <1>5, <1>6
<1> QED
  BY <1>7, <1>8 DEF old, new

HydratedKeys(c) ==
  IF RowsOf(c, "keys") = {} THEN fresh + 1 ELSE (CHOOSE r \in RowsOf(c, "keys") : TRUE).val
Behind(c) == Cardinality(RowsOf(c, "records")) > Latest(SizesOf(c))

\* Hydration makes missing keys and catches up with a missing head.
LEMMA HydrateWrites ==
  ASSUME TypeOK, NEW s \in Servers, NEW c \in Companies, Hydrate(s, c)
  PROVE  /\ db'["keys"] = IF RowsOf(c, "keys") = {}
                          THEN Without(db["keys"], c) \cup {Row(c, c, HydratedKeys(c))}
                          ELSE db["keys"]
         /\ db'["signed_tree_heads"] =
              IF Behind(c)
              THEN db["signed_tree_heads"] \cup
                     {Row(<<c, Cardinality(RowsOf(c, "records"))>>, c, caKeys[s])}
              ELSE db["signed_tree_heads"]
         /\ Same({"keys", "signed_tree_heads"})
         /\ \E p \in db["companies"] : p.id = c
<1> DEFINE row == Row(c, c, HydratedKeys(c))
           new == RowsOf(c, "keys") = {}
           saved == IF new THEN Upsert(db, "keys", row) ELSE db
           head == Row(<<c, Cardinality(RowsOf(c, "records"))>>, c, caKeys[s])
<1>1. /\ db' = IF Behind(c) THEN With(saved, "signed_tree_heads", head) ELSE saved
      /\ \E p \in db["companies"] : p.id = c
  BY DEF Hydrate, HydratedKeys, Behind
<1>2. "keys" \in Tables /\ "signed_tree_heads" \in Tables /\ TablesOK(db)
  BY DEF Tables, TypeOK
<1>3. row.id = c
  BY DEF Row
<1> HIDE DEF row, head
<1>4. /\ TablesOK(saved)
      /\ saved["keys"] = IF new THEN Without(db["keys"], c) \cup {row} ELSE db["keys"]
      /\ \A t \in Tables \ {"keys"} : saved[t] = db[t]
  <2>1. CASE new
    <3>1. saved = Upsert(db, "keys", row)
      BY <2>1
    <3> HIDE DEF saved, new
    <3>2. /\ TablesOK(saved) /\ saved["keys"] = Without(db["keys"], c) \cup {row}
          /\ \A t \in Tables \ {"keys"} : saved[t] = db[t]
      BY <1>2, <1>3, <3>1, UpsertRow
    <3> QED
      BY <1>3, <2>1, <3>2
  <2>2. CASE ~new
    BY <1>2, <2>2
  <2> QED
    BY <2>1, <2>2
<1> HIDE DEF saved
<1>5. CASE Behind(c)
  <2>1. db' = With(saved, "signed_tree_heads", head)
    BY <1>1, <1>5
  <2>2. /\ db'["signed_tree_heads"] = saved["signed_tree_heads"] \cup {head}
        /\ \A t \in Tables \ {"signed_tree_heads"} : db'[t] = saved[t]
    BY <1>2, <1>4, <2>1, WithRow
  <2>3. saved["signed_tree_heads"] = db["signed_tree_heads"] /\ db'["keys"] = saved["keys"]
    BY <1>2, <1>4, <2>2
  <2>4. Same({"keys", "signed_tree_heads"})
    BY <1>4, <2>2 DEF Same
  <2> QED
    BY <1>1, <1>4, <1>5, <2>2, <2>3, <2>4 DEF row, head
<1>6. CASE ~Behind(c)
  <2>1. db' = saved
    BY <1>1, <1>6
  <2>2. Same({"keys", "signed_tree_heads"}) /\ db'["signed_tree_heads"] = db["signed_tree_heads"]
    BY <1>2, <1>4, <2>1 DEF Same
  <2> QED
    BY <1>1, <1>4, <1>6, <2>1, <2>2 DEF row, head
<1> QED
  BY <1>5, <1>6

\* A starting server saves the CA key that it loaded or made.
LEMMA SaveCaKeyWrites ==
  ASSUME TypeOK, NEW s \in Servers, SaveCaKey(s)
  PROVE  /\ db'["ca_key"] = Without(db["ca_key"], 1) \cup {Row(1, 1, caKeys[s])}
         /\ Same({"ca_key"})
<1> DEFINE row == Row(1, 1, caKeys[s])
<1>1. "ca_key" \in Tables /\ TablesOK(db) /\ row.id = 1 /\ db' = Upsert(db, "ca_key", row)
  BY DEF Tables, TypeOK, Row, SaveCaKey
<1> HIDE DEF row
<1>2. /\ db'["ca_key"] = Without(db["ca_key"], 1) \cup {row}
      /\ \A t \in Tables \ {"ca_key"} : db'[t] = db[t]
  BY <1>1, UpsertRow
<1> QED
  BY <1>1, <1>2 DEF Same, row

\* A table a row is inserted into that satisfies its constraints, and from which a row
\* without children, or with them, is deleted.
Inserted1(t, row) ==
  /\ Inserts(db, t, row)
  /\ db'[t] = db[t] \cup {row} /\ Same({t})

\* The tables that only the actions above write to.
Core == {"records", "signed_tree_heads", "keys", "keys_history", "ca_key"}

Others(s) ==
  \/ Start(s) \/ UseEnvCaKey(s) \/ LoadCaKey(s) \/ MissCaKey(s) \/ Stop(s)
  \/ \E c \in Companies :
       \/ CreateCompany(s, c) \/ CreateWebhook(s, c)
       \/ \E t \in OtherTables : InsertOther(s, c, t) \/ DeleteOther(s, c, t)
  \/ \E hook \in db["webhooks"] : CreateDelivery(s, hook) \/ DeleteWebhook(s, hook)

\* The other handlers insert a row outside the core tables or delete from few.
LEMMA OthersWrite ==
  ASSUME TypeOK, NEW s \in Servers, Others(s)
  PROVE  \/ db' = db
         \/ \E t \in Tables \ Core : \E row : Inserted1(t, row)
         \/ \E t \in {"api_keys", "oauth_tokens", "issuance_rate_limit_events"} :
              db'[t] \subseteq db[t] /\ Same({t})
         \/ \E hook \in db["webhooks"] :
              /\ db'["webhooks"] = db["webhooks"] \ {hook}
              /\ db'["webhook_deliveries"] = {d \in db["webhook_deliveries"] : d.ref # hook.id}
              /\ Same({"webhooks", "webhook_deliveries"})
<1>0. TablesOK(db)
  BY DEF TypeOK
<1>1. ASSUME NEW t \in Tables \ Core, NEW row, Inserts(db, t, row), db' = With(db, t, row)
      PROVE  Inserted1(t, row)
  BY <1>0, <1>1, WithRow DEF Inserted1, Same
<1>2. CASE Start(s) \/ UseEnvCaKey(s) \/ LoadCaKey(s) \/ MissCaKey(s) \/ Stop(s)
  BY <1>2 DEF Start, UseEnvCaKey, LoadCaKey, MissCaKey, Stop, database
<1>3. ASSUME NEW c \in Companies, CreateCompany(s, c)
      PROVE  \E t \in Tables \ Core : \E row : Inserted1(t, row)
  BY <1>1, <1>3 DEF CreateCompany, Tables, Core
<1>4. ASSUME NEW c \in Companies, CreateWebhook(s, c)
      PROVE  \E t \in Tables \ Core : \E row : Inserted1(t, row)
  BY <1>1, <1>4 DEF CreateWebhook, Tables, Core
<1>5. ASSUME NEW c \in Companies, NEW t \in OtherTables, InsertOther(s, c, t)
      PROVE  \E u \in Tables \ Core : \E row : Inserted1(u, row)
  <2>1. t \in Tables \ Core
    BY BoundsAssumption DEF Tables, Core
  <2> QED
    BY <1>1, <1>5, <2>1 DEF InsertOther
<1>6. ASSUME NEW c \in Companies, NEW t \in OtherTables, DeleteOther(s, c, t)
      PROVE  \E u \in {"api_keys", "oauth_tokens", "issuance_rate_limit_events"} :
               db'[u] \subseteq db[u] /\ Same({u})
  <2>1. PICK row : db' = [db EXCEPT ![t] = @ \ {row}]
    BY <1>6 DEF DeleteOther
  <2>2. t \in {"api_keys", "oauth_tokens", "issuance_rate_limit_events"}
    BY <1>6 DEF DeleteOther
  <2>3. db'[t] \subseteq db[t] /\ Same({t})
    BY <1>0, <2>1, <2>2 DEF Same, TablesOK, Tables
  <2> QED
    BY <2>2, <2>3
<1>7. ASSUME NEW hook \in db["webhooks"], CreateDelivery(s, hook)
      PROVE  \E t \in Tables \ Core : \E row : Inserted1(t, row)
  BY <1>1, <1>7 DEF CreateDelivery, Tables, Core
<1>8. ASSUME NEW hook \in db["webhooks"], DeleteWebhook(s, hook)
      PROVE  /\ db'["webhooks"] = db["webhooks"] \ {hook}
             /\ db'["webhook_deliveries"] = {d \in db["webhook_deliveries"] : d.ref # hook.id}
             /\ Same({"webhooks", "webhook_deliveries"})
  BY <1>0, <1>8 DEF DeleteWebhook, Same, TablesOK, Tables
<1> QED
  BY <1>2, <1>3, <1>4, <1>5, <1>6, <1>7, <1>8 DEF Others

\* A step of the servers is one of these.
LEMMA ServerActions ==
  ASSUME ServerStep
  PROVE  \E s \in Servers :
           \/ Others(s) \/ SaveCaKey(s)
           \/ \E c \in Companies : Hydrate(s, c) \/ Attest(s, c) \/ RotateKeys(s, c)
BY DEF ServerStep, Others

\* What the others leave of the servers.
LEMMA OthersKeep ==
  ASSUME TypeOK, Shaped, NEW s \in Servers, Others(s)
  PROVE  /\ \A t \in Core : db'[t] = db[t]
         /\ tenants' = tenants \/ tenants' = [tenants EXCEPT ![s] = [c \in Companies |-> NoTenant]]
         /\ fresh' \in Nat /\ fresh <= fresh'
         /\ caKeys' = [u \in Servers |-> caKeys'[u]]
         /\ \A u \in Servers : mode'[u] = "up" =>
             \/ mode[u] = "up" /\ caKeys'[u] = caKeys[u]
             \/ caKeys'[u] = ExternalCaKey
             \/ \E row \in db["ca_key"] : caKeys'[u] = row.val
         /\ \A u \in Servers : mode'[u] = "down" =>
             mode[u] = "down" \/ \A c \in Companies : tenants'[u][c] = NoTenant
<1>1. \A t \in Core : db'[t] = db[t]
  BY OthersWrite DEF Core, Tables, Same, Inserted1
<1>2. /\ mode \in [Servers -> {"down", "init", "mint", "up"}] /\ fresh \in Nat
      /\ caKeys = [u \in Servers |-> caKeys[u]]
      /\ tenants = [u \in Servers |-> [c \in Companies |-> tenants[u][c]]]
  BY DEF TypeOK, Shaped, IsTable
<1>3. CASE Start(s)
  <2>1. mode' = [mode EXCEPT ![s] = "init"] /\ UNCHANGED <<fresh, caKeys, tenants>>
    BY <1>3 DEF Start
  <2>2. caKeys' = [u \in Servers |-> caKeys'[u]]
    BY <1>2, <2>1
  <2>3. \A u \in Servers : mode'[u] = "up" =>
          \/ mode[u] = "up" /\ caKeys'[u] = caKeys[u]
          \/ caKeys'[u] = ExternalCaKey
          \/ \E row \in db["ca_key"] : caKeys'[u] = row.val
    BY <1>2, <2>1
  <2>4. \A u \in Servers : mode'[u] = "down" =>
          mode[u] = "down" \/ \A c \in Companies : tenants'[u][c] = NoTenant
    BY <1>2, <2>1
  <2>5. fresh' \in Nat /\ fresh <= fresh'
    BY <1>2, <2>1
  <2> QED
    BY <1>1, <2>1, <2>2, <2>3, <2>4, <2>5
<1>4. CASE LoadCaKey(s)
  <2>1. /\ mode' = [mode EXCEPT ![s] = "up"] /\ UNCHANGED <<fresh, tenants>>
        /\ \E row \in db["ca_key"] : caKeys' = [caKeys EXCEPT ![s] = row.val]
    BY <1>4 DEF LoadCaKey, database
  <2>2. caKeys' = [u \in Servers |-> caKeys'[u]]
    BY <1>2, <2>1
  <2>3. \A u \in Servers : mode'[u] = "up" =>
          \/ mode[u] = "up" /\ caKeys'[u] = caKeys[u]
          \/ caKeys'[u] = ExternalCaKey
          \/ \E row \in db["ca_key"] : caKeys'[u] = row.val
    BY <1>2, <2>1
  <2>4. \A u \in Servers : mode'[u] = "down" =>
          mode[u] = "down" \/ \A c \in Companies : tenants'[u][c] = NoTenant
    BY <1>2, <2>1
  <2>5. fresh' \in Nat /\ fresh <= fresh'
    BY <1>2, <2>1
  <2> QED
    BY <1>1, <2>1, <2>2, <2>3, <2>4, <2>5
<1>5. CASE MissCaKey(s)
  <2>1. /\ mode' = [mode EXCEPT ![s] = "mint"] /\ fresh' = fresh + 1 /\ tenants' = tenants
        /\ caKeys' = [caKeys EXCEPT ![s] = fresh + 1]
    BY <1>5 DEF MissCaKey
  <2>2. caKeys' = [u \in Servers |-> caKeys'[u]]
    BY <1>2, <2>1
  <2>3. \A u \in Servers : mode'[u] = "up" =>
          \/ mode[u] = "up" /\ caKeys'[u] = caKeys[u]
          \/ caKeys'[u] = ExternalCaKey
          \/ \E row \in db["ca_key"] : caKeys'[u] = row.val
    BY <1>2, <2>1
  <2>4. \A u \in Servers : mode'[u] = "down" =>
          mode[u] = "down" \/ \A c \in Companies : tenants'[u][c] = NoTenant
    BY <1>2, <2>1
  <2>5. fresh' \in Nat /\ fresh <= fresh'
    BY <1>2, <2>1
  <2> QED
    BY <1>1, <2>1, <2>2, <2>3, <2>4, <2>5
<1>6. CASE Stop(s)
  <2>1. /\ mode' = [mode EXCEPT ![s] = "down"] /\ fresh' = fresh
        /\ caKeys' = [caKeys EXCEPT ![s] = NoKey]
        /\ tenants' = [tenants EXCEPT ![s] = [c \in Companies |-> NoTenant]]
    BY <1>6 DEF Stop, database
  <2>2. caKeys' = [u \in Servers |-> caKeys'[u]]
    BY <1>2, <2>1
  <2>3. \A u \in Servers : mode'[u] = "up" =>
          \/ mode[u] = "up" /\ caKeys'[u] = caKeys[u]
          \/ caKeys'[u] = ExternalCaKey
          \/ \E row \in db["ca_key"] : caKeys'[u] = row.val
    BY <1>2, <2>1
  <2>4. \A u \in Servers : mode'[u] = "down" =>
          mode[u] = "down" \/ \A c \in Companies : tenants'[u][c] = NoTenant
    BY <1>2, <2>1
  <2>5. fresh' \in Nat /\ fresh <= fresh'
    BY <1>2, <2>1
  <2> QED
    BY <1>1, <2>1, <2>2, <2>3, <2>4, <2>5
<1>7. ASSUME NEW kinds, Commits(s, kinds), tenants' = tenants, fresh' \in {fresh, fresh + 1}
      PROVE  /\ tenants' = tenants /\ fresh' \in Nat /\ fresh <= fresh'
             /\ caKeys' = caKeys /\ mode' = mode
  BY <1>2, <1>7 DEF Commits
<1>8. CASE \E c \in Companies :
             \/ CreateCompany(s, c) \/ CreateWebhook(s, c)
             \/ \E t \in OtherTables : InsertOther(s, c, t) \/ DeleteOther(s, c, t)
  <2>1. /\ tenants' = tenants /\ fresh' \in Nat /\ fresh <= fresh'
        /\ caKeys' = caKeys /\ mode' = mode
    BY <1>7, <1>8 DEF CreateCompany, CreateWebhook, InsertOther, DeleteOther
  <2> QED
    BY <1>1, <1>2, <2>1
<1>9. CASE \E hook \in db["webhooks"] : CreateDelivery(s, hook) \/ DeleteWebhook(s, hook)
  <2>1. /\ tenants' = tenants /\ fresh' \in Nat /\ fresh <= fresh'
        /\ caKeys' = caKeys /\ mode' = mode
    BY <1>7, <1>9 DEF CreateDelivery, DeleteWebhook
  <2> QED
    BY <1>1, <1>2, <2>1
<1>10. CASE UseEnvCaKey(s)
  <2>1. /\ mode' = [mode EXCEPT ![s] = "up"] /\ UNCHANGED <<fresh, tenants>>
        /\ caKeys' = [caKeys EXCEPT ![s] = ExternalCaKey]
    BY <1>10 DEF UseEnvCaKey, database
  <2>2. caKeys' = [u \in Servers |-> caKeys'[u]]
    BY <1>2, <2>1
  <2>3. \A u \in Servers : mode'[u] = "up" =>
          \/ mode[u] = "up" /\ caKeys'[u] = caKeys[u]
          \/ caKeys'[u] = ExternalCaKey
          \/ \E row \in db["ca_key"] : caKeys'[u] = row.val
    BY <1>2, <2>1
  <2>4. \A u \in Servers : mode'[u] = "down" =>
          mode[u] = "down" \/ \A c \in Companies : tenants'[u][c] = NoTenant
    BY <1>2, <2>1
  <2>5. fresh' \in Nat /\ fresh <= fresh'
    BY <1>2, <2>1
  <2> QED
    BY <1>1, <2>1, <2>2, <2>3, <2>4, <2>5
<1> QED
  BY <1>3, <1>4, <1>5, <1>6, <1>8, <1>9, <1>10 DEF Others

\* A company's records are finitely many.
LEMMA RecordsFinite ==
  ASSUME Shaped, NEW c
  PROVE  IsFiniteSet(RowsOf(c, "records")) /\ Cardinality(RowsOf(c, "records")) \in Nat
BY FS_Subset, FS_CardinalityType DEF Shaped, RowsShaped, RowsOf

\* The tenants with that of one server replaced.
TableWith(f, s, c, v) == [f EXCEPT ![s][c] = v]

\* TableWith changes one entry of a table of servers and companies.
LEMMA TableSet ==
  ASSUME NEW f, IsTable(f), NEW s \in Servers, NEW c \in Companies, NEW v
  PROVE  /\ IsTable(TableWith(f, s, c, v))
         /\ TableWith(f, s, c, v)[s][c] = v
         /\ \A u \in Servers, e \in Companies :
              u # s \/ e # c => TableWith(f, s, c, v)[u][e] = f[u][e]
<1> DEFINE of == [f[s] EXCEPT ![c] = v]
           g == TableWith(f, s, c, v)
<1>1. g = [f EXCEPT ![s] = of]
  BY DEF TableWith
<1>2. \A u \in Servers : f[u] = [e \in Companies |-> f[u][e]]
  BY DEF IsTable
<1>3. of = [e \in Companies |-> of[e]] /\ of[c] = v /\ \A e \in Companies : e # c => of[e] = f[s][e]
  BY <1>2
<1> HIDE DEF of
<1>4. g = [u \in Servers |-> IF u = s THEN of ELSE f[u]]
  BY <1>1 DEF IsTable
<1> HIDE DEF g
<1>5. g[s] = of /\ \A u \in Servers : u # s => g[u] = f[u]
  BY <1>4
<1>6. ASSUME NEW u \in Servers PROVE g[u] = [e \in Companies |-> g[u][e]]
  <2>1. CASE u = s
    BY <1>3, <1>5, <2>1
  <2>2. CASE u # s
    BY <1>2, <1>5, <2>2
  <2> QED
    BY <2>1, <2>2
<1>7. g = [u \in Servers |-> g[u]]
  BY <1>4
<1>8. IsTable(g)
  BY <1>6, <1>7 DEF IsTable
<1>9. g[s][c] = v /\ \A u \in Servers, e \in Companies : u # s \/ e # c => g[u][e] = f[u][e]
  BY <1>3, <1>5
<1> QED
  BY <1>8, <1>9 DEF g

\* An entry of the tenants map is replaced by one of the right shape.
LEMMA TenantWith ==
  ASSUME Shaped, NEW s \in Servers, NEW c \in Companies,
         NEW k, NEW n \in Nat, NEW m,
         tenants' = TableWith(tenants, s, c, [keys |-> k, length |-> n, latestSth |-> m])
  PROVE  /\ IsTable(tenants')
         /\ \A u \in Servers, e \in Companies : tenants'[u][e] # NoTenant =>
              /\ tenants'[u][e] = [keys |-> tenants'[u][e].keys, length |-> tenants'[u][e].length,
                                   latestSth |-> tenants'[u][e].latestSth]
              /\ tenants'[u][e].length \in Nat
         /\ \A u \in Servers, e \in Companies : u # s \/ e # c => tenants'[u][e] = tenants[u][e]
         /\ tenants'[s][c] = [keys |-> k, length |-> n, latestSth |-> m]
<1>1. PICK v : v = [keys |-> k, length |-> n, latestSth |-> m]
  OBVIOUS
<1>2. v = [keys |-> v.keys, length |-> v.length, latestSth |-> v.latestSth] /\ v.length \in Nat
  BY <1>1
<1>3. IsTable(tenants) /\ tenants' = TableWith(tenants, s, c, v)
  BY <1>1 DEF Shaped
<1>4. /\ IsTable(tenants')
      /\ tenants'[s][c] = v
      /\ \A u \in Servers, e \in Companies : u # s \/ e # c => tenants'[u][e] = tenants[u][e]
  BY <1>3, TableSet
<1> QED
  BY <1>1, <1>2, <1>4 DEF Shaped

\* Rows stay of their kind when one is added: numbered ones, and keys.
LEMMA NumberedWith ==
  ASSUME NEW rows, Numbered(rows), NEW c, NEW n \in Nat, NEW v
  PROVE  Numbered(rows \cup {Row(<<c, n>>, c, v)})
<1> DEFINE row == Row(<<c, n>>, c, v)
<1>1. row.id = <<row.ref, row.id[2]>> /\ row.id[2] \in Nat
  BY DEF Row
<1> HIDE DEF row
<1>2. Numbered(rows \cup {row})
  BY <1>1 DEF Numbered
<1> QED
  BY <1>2 DEF row

LEMMA KeysWith ==
  ASSUME NEW rows, \A k \in rows : k.id = k.ref, NEW c, NEW v
  PROVE  \A k \in Without(rows, c) \cup {Row(c, c, v)} : k.id = k.ref
BY DEF Without, Row

\* What attesting and rotating change of a tenant.
LEMMA AttestedTenant ==
  ASSUME Shaped, NEW s \in Servers, NEW c \in Companies, Attest(s, c)
  PROVE  tenants' = TableWith(tenants, s, c,
           [keys |-> tenants[s][c].keys, length |-> tenants[s][c].length + 1,
            latestSth |-> tenants[s][c].length + 1])
<1> DEFINE size == tenants[s][c].length + 1
<1>1. tenants[s][c] = [keys |-> tenants[s][c].keys, length |-> tenants[s][c].length,
                       latestSth |-> tenants[s][c].latestSth]
  BY DEF Shaped, Attest
<1>2. tenants' = [tenants EXCEPT ![s][c].length = size, ![s][c].latestSth = size]
  BY DEF Attest
<1>3. tenants = [u \in Servers |-> [e \in Companies |-> tenants[u][e]]]
  BY DEF Shaped, IsTable
<1>4. tenants' = [tenants EXCEPT ![s][c] = [[tenants[s][c] EXCEPT !.length = size] EXCEPT !.latestSth = size]]
  <2> HIDE DEF size
  <2> QED
    BY <1>2, <1>3
<1>5. [[tenants[s][c] EXCEPT !.length = size] EXCEPT !.latestSth = size]
        = [keys |-> tenants[s][c].keys, length |-> size, latestSth |-> size]
  <2> DEFINE k == tenants[s][c].keys
             n == tenants[s][c].length
             m == tenants[s][c].latestSth
  <2>1. tenants[s][c] = [keys |-> k, length |-> n, latestSth |-> m]
    BY <1>1
  <2> HIDE DEF size, k, n, m
  <2>2. [tenants[s][c] EXCEPT !.length = size] = [keys |-> k, length |-> size, latestSth |-> m]
    BY <2>1
  <2>3. [[keys |-> k, length |-> size, latestSth |-> m] EXCEPT !.latestSth = size]
          = [keys |-> k, length |-> size, latestSth |-> size]
    OBVIOUS
  <2> QED
    BY <2>2, <2>3 DEF k
<1> QED
  BY <1>4, <1>5 DEF TableWith

\* A rotation changes the keys of the tenant in memory and nothing else.
LEMMA RotatedTenant ==
  ASSUME Shaped, NEW s \in Servers, NEW c \in Companies, RotateKeys(s, c)
  PROVE  tenants' = TableWith(tenants, s, c,
           [keys |-> fresh + 2, length |-> tenants[s][c].length,
            latestSth |-> tenants[s][c].latestSth])
<1>1. tenants[s][c] = [keys |-> tenants[s][c].keys, length |-> tenants[s][c].length,
                       latestSth |-> tenants[s][c].latestSth]
  BY DEF Shaped, RotateKeys
<1>2. tenants' = [tenants EXCEPT ![s][c] = [tenants[s][c] EXCEPT !.keys = fresh + 2]]
  BY DEF RotateKeys
<1>3. [tenants[s][c] EXCEPT !.keys = fresh + 2]
        = [keys |-> fresh + 2, length |-> tenants[s][c].length,
           latestSth |-> tenants[s][c].latestSth]
  BY <1>1
<1> QED
  BY <1>2, <1>3 DEF TableWith

\* Servers keep the shapes.
LEMMA ServerKeepsShape ==
  ASSUME TypeOK, Shaped, Stages, ServerStep
  PROVE  /\ Shaped'
         /\ \A s \in Servers, c \in Companies : mode'[s] = "down" => tenants'[s][c] = NoTenant
<1>1. UNCHANGED scripts /\ TypeOK'
  BY ServersOnlyAppend
<1> DEFINE Down == \A s \in Servers, c \in Companies : mode'[s] = "down" => tenants'[s][c] = NoTenant
           TenantsOK == /\ IsTable(tenants)
                        /\ \A s \in Servers, c \in Companies : tenants[s][c] # NoTenant =>
                             /\ tenants[s][c] = [keys |-> tenants[s][c].keys,
                                                 length |-> tenants[s][c].length,
                                                 latestSth |-> tenants[s][c].latestSth]
                             /\ tenants[s][c].length \in Nat
           KeysOK == caKeys' = [s \in Servers |-> caKeys'[s]]
<1>2. ASSUME fresh' \in Nat, fresh <= fresh', RowsShaped(db)', TenantsOK', KeysOK
      PROVE  Shaped'
  <2>1. RowsShaped(dump.tables)' /\ RowsShaped(file.tables)'
    BY <1>1, <1>2 DEF Shaped, RowsShaped, scripts
  <2> QED
    BY <1>2, <2>1 DEF Shaped
<1>3. TenantsOK /\ RowsShaped(db) /\ fresh \in Nat
  BY DEF Shaped
<1>4. ASSUME NEW s \in Servers, Others(s) PROVE Shaped' /\ Down
  <2>1. RowsShaped(db)'
    BY <1>3, <1>4, OthersKeep DEF RowsShaped, Core
  <2>2. TenantsOK'
    <3>1. CASE tenants' = tenants
      BY <1>3, <3>1
    <3>2. CASE tenants' = [tenants EXCEPT ![s] = [c \in Companies |-> NoTenant]]
      BY <1>3, <3>2 DEF IsTable
    <3> QED
      BY <1>4, <3>1, <3>2, OthersKeep
  <2>3. Down
    <3>1. CASE tenants' = tenants
      BY <1>4, <3>1, OthersKeep DEF Stages
    <3>2. CASE tenants' = [tenants EXCEPT ![s] = [c \in Companies |-> NoTenant]]
      BY <1>3, <1>4, <3>2, OthersKeep DEF Stages, IsTable
    <3> QED
      BY <1>4, <3>1, <3>2, OthersKeep
  <2> QED
    BY <1>2, <1>4, <2>1, <2>2, <2>3, OthersKeep
<1>5. ASSUME NEW s \in Servers, SaveCaKey(s) PROVE Shaped' /\ Down
  <2>1. RowsShaped(db)'
    BY <1>3, <1>5, SaveCaKeyWrites DEF RowsShaped, Same, Tables, SaveCaKey
  <2>2. TenantsOK' /\ fresh' = fresh /\ KeysOK
    BY <1>3, <1>5 DEF SaveCaKey, Shaped
  <2>3. Down
    BY <1>5 DEF SaveCaKey, TypeOK, Stages
  <2> QED
    BY <1>2, <1>3, <2>1, <2>2, <2>3
<1>6. ASSUME NEW s \in Servers, NEW c \in Companies, Hydrate(s, c) PROVE Shaped' /\ Down
  <2>1. fresh' \in {fresh, fresh + 1} /\ caKeys' = caKeys /\ mode' = mode /\ mode[s] = "up"
    BY <1>6 DEF Hydrate
  <2>2. Cardinality(RowsOf(c, "records")) \in Nat
    BY RecordsFinite
  <2>3. RowsShaped(db)'
    <3>1. Numbered(db'["signed_tree_heads"])
      <4> DEFINE head == Row(<<c, Cardinality(RowsOf(c, "records"))>>, c, caKeys[s])
      <4>1. Numbered(db["signed_tree_heads"] \cup {head})
        BY <1>3, <2>2, NumberedWith DEF RowsShaped
      <4>2. db'["signed_tree_heads"] \in {db["signed_tree_heads"] \cup {head}, db["signed_tree_heads"]}
        BY <1>6, HydrateWrites
      <4> HIDE DEF head
      <4> QED
        BY <1>3, <4>1, <4>2 DEF RowsShaped
    <3>2. \A k \in db'["keys"] : k.id = k.ref
      <4> DEFINE row == Row(c, c, HydratedKeys(c))
      <4>1. \A k \in Without(db["keys"], c) \cup {row} : k.id = k.ref
        BY <1>3, KeysWith DEF RowsShaped
      <4>2. db'["keys"] \in {Without(db["keys"], c) \cup {row}, db["keys"]}
        BY <1>6, HydrateWrites
      <4> HIDE DEF row
      <4> QED
        BY <1>3, <4>1, <4>2 DEF RowsShaped
    <3>3. db'["records"] = db["records"] /\ db'["keys_history"] = db["keys_history"]
      BY <1>6, HydrateWrites DEF Same, Tables
    <3> QED
      BY <1>3, <2>1, <3>1, <3>2, <3>3 DEF RowsShaped
  <2>4. PICK k, m : tenants' = TableWith(tenants, s, c,
                      [keys |-> k, length |-> Cardinality(RowsOf(c, "records")), latestSth |-> m])
    BY <1>6 DEF Hydrate, TableWith
  <2>5. TenantsOK'
    BY <2>2, <2>4, TenantWith
  <2>6. Down
    <3>1. \A u \in Servers, e \in Companies : u # s => tenants'[u][e] = tenants[u][e]
      <4>1. PICK v : tenants' = TableWith(tenants, s, c, v)
        BY <2>4
      <4> QED
        BY <1>3, <4>1, TableSet
    <3> QED
      BY <2>1, <3>1 DEF Stages
  <2>7. KeysOK
    BY <2>1 DEF Shaped
  <2> QED
    BY <1>2, <1>3, <2>1, <2>3, <2>5, <2>6, <2>7
<1>7. ASSUME NEW s \in Servers, NEW c \in Companies, Attest(s, c) PROVE Shaped' /\ Down
  <2>1. fresh' = fresh /\ caKeys' = caKeys /\ mode' = mode /\ mode[s] = "up"
        /\ tenants[s][c] # NoTenant
    BY <1>7 DEF Attest, Commits
  <2>2. tenants[s][c].length \in Nat
    BY <1>3, <2>1
  <2>3. RowsShaped(db)'
    <3> DEFINE record == Row(<<c, tenants[s][c].length + 1>>, c,
                             [key |-> tenants[s][c].keys, payload |-> writes + 1])
               sth == Row(<<c, tenants[s][c].length + 1>>, c, caKeys[s])
    <3>0. /\ db'["records"] = db["records"] \cup {record}
          /\ db'["signed_tree_heads"] = db["signed_tree_heads"] \cup {sth}
      BY <1>7, AttestWrites
    <3>1. Numbered(db["signed_tree_heads"] \cup {sth}) /\ Numbered(db["records"] \cup {record})
      <4>1. tenants[s][c].length + 1 \in Nat
        BY <2>2
      <4> QED
        BY <1>3, <4>1, NumberedWith DEF RowsShaped
    <3> HIDE DEF record, sth
    <3>2. IsFiniteSet(db["records"] \cup {record})
      BY <1>3, FS_AddElement DEF RowsShaped
    <3>3. db'["keys"] = db["keys"] /\ db'["keys_history"] = db["keys_history"]
      BY <1>7, AttestWrites DEF Same, Tables
    <3> QED
      BY <1>3, <2>1, <3>0, <3>1, <3>2, <3>3 DEF RowsShaped
  <2>4. tenants' = TableWith(tenants, s, c,
          [keys |-> tenants[s][c].keys, length |-> tenants[s][c].length + 1,
           latestSth |-> tenants[s][c].length + 1])
    BY <1>7, <2>1, AttestedTenant
  <2>5. TenantsOK'
    <3>1. PICK k, n : k = tenants[s][c].keys /\ n = tenants[s][c].length + 1
      OBVIOUS
    <3>2. n \in Nat /\ tenants' = TableWith(tenants, s, c, [keys |-> k, length |-> n, latestSth |-> n])
      BY <2>2, <2>4, <3>1
    <3> QED
      BY <3>2, TenantWith
  <2>6. Down
    <3>1. \A u \in Servers, e \in Companies : u # s => tenants'[u][e] = tenants[u][e]
      <4>1. PICK v : tenants' = TableWith(tenants, s, c, v)
        BY <2>4
      <4> QED
        BY <1>3, <4>1, TableSet
    <3> QED
      BY <2>1, <3>1 DEF Stages
  <2>7. KeysOK
    BY <2>1 DEF Shaped
  <2> QED
    BY <1>2, <1>3, <2>1, <2>3, <2>5, <2>6, <2>7
<1>8. ASSUME NEW s \in Servers, NEW c \in Companies, RotateKeys(s, c) PROVE Shaped' /\ Down
  <2>1. fresh' = fresh + 2 /\ caKeys' = caKeys /\ mode' = mode /\ mode[s] = "up"
        /\ tenants[s][c] # NoTenant
    BY <1>8 DEF RotateKeys, Commits
  <2>2. RowsShaped(db)'
    <3>1. PICK v : /\ db'["keys_history"] = db["keys_history"] \cup {Row(fresh + 1, c, v)}
                   /\ db'["keys"] = Without(db["keys"], c) \cup {Row(c, c, fresh + 2)}
      BY <1>8, RotateWrites
    <3>2. Same({"keys", "keys_history"})
      BY <1>8, RotateWrites
    <3>3. \A k \in db'["keys"] : k.id = k.ref
      <4>1. \A k \in Without(db["keys"], c) \cup {Row(c, c, fresh + 2)} : k.id = k.ref
        BY <1>3, KeysWith DEF RowsShaped
      <4> QED
        BY <3>1, <4>1
    <3>4. \A k \in db'["keys_history"] : k.id \in Nat /\ k.id <= fresh'
      <4>1. Row(fresh + 1, c, v).id = fresh + 1
        BY DEF Row
      <4> QED
        BY <1>3, <2>1, <3>1, <4>1 DEF RowsShaped
    <3> QED
      BY <1>3, <3>2, <3>3, <3>4 DEF RowsShaped, Same, Tables
  <2>3. tenants' = TableWith(tenants, s, c,
          [keys |-> fresh + 2, length |-> tenants[s][c].length,
           latestSth |-> tenants[s][c].latestSth])
    BY <1>8, <2>1, RotatedTenant
  <2>4. TenantsOK'
    <3>1. tenants[s][c].length \in Nat
      BY <1>3, <2>1
    <3>2. PICK k, n, m : k = fresh + 2 /\ n = tenants[s][c].length /\ m = tenants[s][c].latestSth
      OBVIOUS
    <3>3. tenants' = TableWith(tenants, s, c, [keys |-> k, length |-> n, latestSth |-> m])
      BY <2>3, <3>2
    <3>4. n \in Nat
      BY <3>1, <3>2
    <3> QED
      BY <3>3, <3>4, TenantWith
  <2>5. Down
    <3>1. \A u \in Servers, e \in Companies : u # s => tenants'[u][e] = tenants[u][e]
      <4>1. PICK v : tenants' = TableWith(tenants, s, c, v)
        BY <2>3
      <4> QED
        BY <1>3, <4>1, TableSet
    <3> QED
      BY <2>1, <3>1 DEF Stages
  <2>6. KeysOK
    BY <2>1 DEF Shaped
  <2> QED
    BY <1>2, <1>3, <2>1, <2>2, <2>4, <2>5, <2>6
<1> HIDE DEF Down
<1>9. Shaped' /\ Down
  BY <1>4, <1>5, <1>6, <1>7, <1>8, ServerActions
<1> QED
  BY <1>9 DEF Down

-----------------------------------------------------------------------------
(* Servers keep the constraints                                            *)

\* Every table is a root, or refers to companies or webhooks.
LEMMA ParentTables ==
  ASSUME NEW t \in Tables
  PROVE  /\ Parent(t) \in {t, "companies", "webhooks"}
         /\ Parent(t) = "webhooks" /\ Parent(t) # t <=> t = "webhook_deliveries"
         /\ Parent(t) \in Tables
BY DEF Parent, Tables

\* Fewer rows and more parents leave rows rooted and unique, and so does a new row
\* that has a parent and an id of its own.
LEMMA StillRooted ==
  ASSUME NEW rows, NEW parents, Rooted(rows, parents),
         NEW fewer \in SUBSET rows, NEW more, parents \subseteq more
  PROVE  Rooted(fewer, more)
BY DEF Rooted

LEMMA RootedWith ==
  ASSUME NEW rows, NEW parents, Rooted(rows, parents), NEW row,
         \E p \in parents : p.id = row.ref
  PROVE  Rooted(rows \cup {row}, parents)
BY DEF Rooted

LEMMA UniqueWith ==
  ASSUME NEW rows, Unique(rows), NEW row, \A r \in rows : r.id # row.id
  PROVE  Unique(rows \cup {row})
BY DEF Unique

LEMMA StillUnique ==
  ASSUME NEW rows, Unique(rows), NEW fewer \in SUBSET rows
  PROVE  Unique(fewer)
BY DEF Unique

\* What a step needs to keep the constraints: of the tables it writes, both; companies
\* are only added, and webhooks only removed with their deliveries.
LEMMA KeepsConstraints ==
  ASSUME TypeOK, SchemaSound, restore'.pc = "idle" => restore.pc = "idle",
         NEW ts \in SUBSET Tables, Same(ts),
         db["companies"] \subseteq db'["companies"],
         db["webhooks"] \subseteq db'["webhooks"] \/ {"webhooks", "webhook_deliveries"} \subseteq ts,
         \A t \in ts : Parent(t) # t => Rooted(db'[t], db'[Parent(t)]),
         \A t \in ts : Keyed(t) /\ (t = "signed_tree_heads" => restore.pc = "idle") => Unique(db'[t])
  PROVE  SchemaSound'
<1>1. ASSUME NEW t \in Tables, Parent(t) # t PROVE Rooted(db'[t], db'[Parent(t)])
  <2>1. CASE t \in ts
    BY <1>1, <2>1
  <2>2. CASE t \notin ts
    <3>1. db'[t] = db[t] /\ Rooted(db[t], db[Parent(t)])
      BY <1>1, <2>2 DEF Same, SchemaSound
    <3>2. db[Parent(t)] \subseteq db'[Parent(t)]
      BY <1>1, <2>2, ParentTables
    <3> QED
      BY <3>1, <3>2, StillRooted
  <2> QED
    BY <2>1, <2>2
<1>2. ASSUME NEW t \in Tables, Keyed(t), t = "signed_tree_heads" => restore.pc = "idle"
      PROVE  Unique(db'[t])
  <2>1. CASE t \in ts
    BY <1>2, <2>1
  <2>2. CASE t \notin ts
    BY <1>2, <2>2 DEF Same, SchemaSound
  <2> QED
    BY <2>1, <2>2
<1> QED
  BY <1>1, <1>2 DEF SchemaSound

\* What the keys of the schema enforce is kept by every action of a server.
LEMMA InsertsKeepSchema ==
  ASSUME TypeOK, SchemaSound, restore'.pc = "idle" => restore.pc = "idle",
         NEW t \in Tables, NEW row, Inserted1(t, row)
  PROVE  SchemaSound'
<1>1. db'[t] = db[t] \cup {row} /\ Same({t}) /\ Inserts(db, t, row)
  BY DEF Inserted1
<1>2. Keyed(t) /\ (t = "signed_tree_heads" => restore.pc = "idle") => Unique(db'[t])
  <2>1. Keyed(t) /\ (t = "signed_tree_heads" => restore.pc = "idle") => Unique(db[t])
    BY DEF SchemaSound
  <2> QED
    BY <1>1, <2>1, UniqueWith DEF Inserts
<1>3. Parent(t) # t => Rooted(db'[t], db'[Parent(t)])
  <2> SUFFICES ASSUME Parent(t) # t PROVE Rooted(db'[t], db'[Parent(t)])
    OBVIOUS
  <2>1. db'[Parent(t)] = db[Parent(t)] /\ Rooted(db[t], db[Parent(t)])
    BY <1>1, ParentTables DEF Same, SchemaSound
  <2> QED
    BY <1>1, <2>1, RootedWith DEF Inserts
<1>4. db["webhooks"] \subseteq db'["webhooks"] /\ db["companies"] \subseteq db'["companies"]
  <2>1. \A u \in Tables : db[u] \subseteq db'[u]
    BY <1>1 DEF Same
  <2> QED
    BY <2>1 DEF Tables
<1> QED
  BY <1>1, <1>2, <1>3, <1>4, KeepsConstraints

LEMMA OthersKeepSchema ==
  ASSUME TypeOK, SchemaSound, restore' = restore, db["companies"] \subseteq db'["companies"],
         NEW s \in Servers, Others(s)
  PROVE  SchemaSound'
<1>1. CASE db' = db
  BY <1>1 DEF SchemaSound
<1>2. ASSUME NEW t \in Tables \ Core, NEW row, Inserted1(t, row)
      PROVE  SchemaSound'
  BY <1>2, InsertsKeepSchema
<1>3. ASSUME NEW t \in {"api_keys", "oauth_tokens", "issuance_rate_limit_events"},
             db'[t] \subseteq db[t], Same({t})
      PROVE  SchemaSound'
  <2>1. t \in Tables /\ db["webhooks"] \subseteq db'["webhooks"]
    BY <1>3 DEF Same, Tables
  <2>2. Parent(t) # t => Rooted(db'[t], db'[Parent(t)])
    <3>1. Parent(t) # t => db[Parent(t)] \subseteq db'[Parent(t)] /\ Rooted(db[t], db[Parent(t)])
      BY <2>1, ParentTables DEF SchemaSound
    <3> QED
      BY <1>3, <3>1, StillRooted
  <2>3. Keyed(t) => Unique(db'[t])
    BY <1>3, <2>1, StillUnique DEF SchemaSound
  <2> QED
    BY <1>3, <2>1, <2>2, <2>3, KeepsConstraints
<1>4. ASSUME NEW hook \in db["webhooks"],
             db'["webhooks"] = db["webhooks"] \ {hook},
             db'["webhook_deliveries"] = {d \in db["webhook_deliveries"] : d.ref # hook.id},
             Same({"webhooks", "webhook_deliveries"})
      PROVE  SchemaSound'
  <2> DEFINE ts == {"webhooks", "webhook_deliveries"}
  <2>1. ts \subseteq Tables
    BY DEF Tables
  <2>2. Parent("webhooks") = "companies" /\ Parent("webhook_deliveries") = "webhooks"
    BY DEF Parent
  <2>3. Rooted(db["webhooks"], db["companies"]) /\ Rooted(db["webhook_deliveries"], db["webhooks"])
    BY <2>1, <2>2 DEF SchemaSound
  <2>4. Rooted(db'["webhooks"], db'["companies"])
    BY <1>4, <2>3, StillRooted
  <2>5. Rooted(db'["webhook_deliveries"], db'["webhooks"])
    BY <1>4, <2>3 DEF Rooted
  <2>6. Unique(db["webhooks"]) /\ Unique(db["webhook_deliveries"])
    BY <2>1 DEF SchemaSound, Keyed
  <2>7. Unique(db'["webhooks"]) /\ Unique(db'["webhook_deliveries"])
    BY <1>4, <2>6, StillUnique
  <2> QED
    BY <1>4, <2>1, <2>2, <2>4, <2>5, <2>7, KeepsConstraints
<1> QED
  BY <1>1, <1>2, <1>3, <1>4, OthersWrite

\* A backfilled tree head goes beyond every other.
LEMMA BehindIsBeyond ==
  ASSUME Shaped, Within(db["signed_tree_heads"], db["records"]), NEW c,
         NEW h \in db["signed_tree_heads"], h.ref = c
  PROVE  /\ SizesOf(c) # {} /\ h.id[2] <= Latest(SizesOf(c))
         /\ Latest(SizesOf(c)) \in Nat
         /\ Latest(SizesOf(c)) <= Cardinality(RowsOf(c, "records"))
<1>1. h.id[2] \in SizesOf(c)
  BY DEF SizesOf, RowsOf
<1>2. SizesOf(c) \in SUBSET Nat
  BY DEF SizesOf, RowsOf, Shaped, RowsShaped, Numbered
<1>3. \A n \in SizesOf(c) : n <= Cardinality(RowsOf(c, "records"))
  BY DEF SizesOf, RowsOf, Within
<1>4. Cardinality(RowsOf(c, "records")) \in Nat
  BY RecordsFinite
<1>5. Latest(SizesOf(c)) \in SizesOf(c) /\ \A n \in SizesOf(c) : n <= Latest(SizesOf(c))
  BY <1>1, <1>2, <1>3, <1>4, LatestIsLargest
<1> QED
  BY <1>1, <1>2, <1>3, <1>5

LEMMA ServerKeepsSchema ==
  ASSUME TypeOK, Shaped, Stages, SchemaSound, LogSound, ServerStep
  PROVE  SchemaSound'
<1>1. restore' = restore /\ db["companies"] \subseteq db'["companies"]
  BY ServersOnlyAppend DEF scripts, AppendOnly
<1>2. ASSUME NEW s \in Servers, Others(s) PROVE SchemaSound'
  BY <1>1, <1>2, OthersKeepSchema
<1>3. ASSUME NEW s \in Servers, SaveCaKey(s) PROVE SchemaSound'
  <2>1. Parent("ca_key") = "ca_key" /\ {"ca_key"} \in SUBSET Tables
    BY DEF Parent, Tables
  <2>2. Unique(db["ca_key"])
    BY DEF SchemaSound, Keyed, Tables
  <2>3. Row(1, 1, caKeys[s]).id = 1
    BY DEF Row
  <2>4. Unique(db'["ca_key"])
    BY <1>3, <2>2, <2>3, SaveCaKeyWrites DEF Unique, Without
  <2>5. db["webhooks"] \subseteq db'["webhooks"]
    BY <1>3, SaveCaKeyWrites DEF Same, Tables
  <2> QED
    BY <1>1, <1>3, <2>1, <2>4, <2>5, KeepsConstraints, SaveCaKeyWrites
<1>4. \A t \in {"keys", "keys_history", "records", "signed_tree_heads"} :
        t \in Tables /\ Parent(t) = "companies" /\ Keyed(t) /\ Rooted(db[t], db'["companies"])
  <2> SUFFICES ASSUME NEW t \in {"keys", "keys_history", "records", "signed_tree_heads"}
               PROVE  t \in Tables /\ Parent(t) = "companies" /\ Keyed(t)
                      /\ Rooted(db[t], db'["companies"])
    OBVIOUS
  <2>1. t \in Tables /\ Parent(t) = "companies" /\ Keyed(t)
    BY DEF Tables, Parent, Keyed
  <2>2. Rooted(db[t], db["companies"])
    BY <2>1 DEF SchemaSound
  <2> QED
    BY <1>1, <2>1, <2>2, StillRooted
<1>5. ASSUME NEW s \in Servers, NEW c \in Companies, Attest(s, c) PROVE SchemaSound'
  <2> DEFINE id == <<c, tenants[s][c].length + 1>>
             record == Row(id, c, [key |-> tenants[s][c].keys, payload |-> writes + 1])
             sth == Row(id, c, caKeys[s])
  <2>1. /\ db'["records"] = db["records"] \cup {record}
        /\ db'["signed_tree_heads"] = db["signed_tree_heads"] \cup {sth}
    BY <1>5, AttestWrites
  <2>2. /\ Inserts(db, "records", record) /\ Inserts(db, "signed_tree_heads", sth)
        /\ Same({"records", "signed_tree_heads"})
    BY <1>5, AttestWrites
  <2>3. record.id = id /\ record.ref = c /\ sth.id = id /\ sth.ref = c
    BY DEF Row
  <2> HIDE DEF id, record, sth
  <2>4. /\ \A r \in db["records"] : r.id # id
        /\ \A r \in db["signed_tree_heads"] : r.id # id
        /\ \E p \in db["companies"] : p.id = c
    BY <2>2, <2>3 DEF Inserts, Keyed, Parent
  <2>5. \E p \in db'["companies"] : p.id = c
    BY <1>1, <2>4
  <2>6. Rooted(db'["records"], db'["companies"]) /\ Rooted(db'["signed_tree_heads"], db'["companies"])
    BY <1>4, <2>1, <2>3, <2>5, RootedWith
  <2>7. Unique(db["records"]) => Unique(db'["records"])
    BY <2>1, <2>3, <2>4, UniqueWith
  <2>8. Unique(db["signed_tree_heads"]) => Unique(db'["signed_tree_heads"])
    BY <2>1, <2>3, <2>4, UniqueWith
  <2>9. db["webhooks"] \subseteq db'["webhooks"]
    BY <2>2 DEF Same, Tables
  <2>10. {"records", "signed_tree_heads"} \in SUBSET Tables
    BY DEF Tables
  <2> QED
    BY <1>1, <1>4, <2>2, <2>6, <2>7, <2>8, <2>9, <2>10, KeepsConstraints DEF SchemaSound
<1>6. ASSUME NEW s \in Servers, NEW c \in Companies, RotateKeys(s, c) PROVE SchemaSound'
  <2>1. PICK r \in RowsOf(c, "keys") :
          /\ db'["keys_history"] = db["keys_history"] \cup {Row(fresh + 1, c, r.val)}
          /\ db'["keys"] = Without(db["keys"], c) \cup {Row(c, c, fresh + 2)}
          /\ Same({"keys", "keys_history"})
    BY <1>6, RotateWrites
  <2> DEFINE old == Row(fresh + 1, c, r.val)
             new == Row(c, c, fresh + 2)
  <2>2. old.id = fresh + 1 /\ old.ref = c /\ new.id = c /\ new.ref = c
    BY DEF Row
  <2> HIDE DEF old, new
  <2>3. \A k \in db["keys_history"] : k.id # old.id
    BY <2>2 DEF Shaped, RowsShaped
  <2>4. \E p \in db'["companies"] : p.id = c
    BY <1>1, <1>4, <2>1 DEF RowsOf, Rooted
  <2>5. Rooted(db'["keys"], db'["companies"]) /\ Rooted(db'["keys_history"], db'["companies"])
    BY <1>4, <2>1, <2>2, <2>4 DEF Rooted, Without, old, new
  <2>6. Unique(db["keys_history"]) /\ Unique(db["keys"])
    BY <1>4 DEF SchemaSound
  <2>7. Unique(db'["keys_history"])
    BY <2>1, <2>3, <2>6, UniqueWith DEF old
  <2>8. Unique(db'["keys"])
    BY <2>1, <2>2, <2>6 DEF Unique, Without, new
  <2>9. db["webhooks"] \subseteq db'["webhooks"] /\ {"keys", "keys_history"} \in SUBSET Tables
    BY <2>1 DEF Same, Tables
  <2> QED
    BY <1>1, <1>4, <2>1, <2>5, <2>7, <2>8, <2>9, KeepsConstraints
<1>7. ASSUME NEW s \in Servers, NEW c \in Companies, Hydrate(s, c) PROVE SchemaSound'
  <2> DEFINE head == Row(<<c, Cardinality(RowsOf(c, "records"))>>, c, caKeys[s])
             row == Row(c, c, HydratedKeys(c))
  <2>1. /\ db'["keys"] \in {Without(db["keys"], c) \cup {row}, db["keys"]}
        /\ db'["signed_tree_heads"] = IF Behind(c) THEN db["signed_tree_heads"] \cup {head}
                                      ELSE db["signed_tree_heads"]
        /\ Same({"keys", "signed_tree_heads"})
        /\ \E p \in db["companies"] : p.id = c
    BY <1>7, HydrateWrites
  <2>2. /\ row.id = c /\ row.ref = c /\ head.ref = c
        /\ head.id = <<c, Cardinality(RowsOf(c, "records"))>>
    BY DEF Row
  <2> HIDE DEF row, head
  <2>3. \E p \in db'["companies"] : p.id = c
    BY <1>1, <2>1
  <2>4. Rooted(db'["keys"], db'["companies"])
    BY <1>4, <2>1, <2>2, <2>3 DEF Rooted, Without
  <2>5. Rooted(db'["signed_tree_heads"], db'["companies"])
    BY <1>4, <2>1, <2>2, <2>3, RootedWith
  <2>6. Unique(db["keys"])
    BY <1>4 DEF SchemaSound
  <2>7. Unique(db'["keys"])
    BY <2>1, <2>2, <2>6 DEF Unique, Without
  <2>8. ASSUME restore.pc = "idle" PROVE Unique(db'["signed_tree_heads"])
    <3>1. Unique(db["signed_tree_heads"])
      BY <1>4, <2>8 DEF SchemaSound
    <3>2. Within(db["signed_tree_heads"], db["records"])
      BY <2>8 DEF Stages, LogSound, Unmissed, LogWithin
    <3>3. ASSUME Behind(c), NEW h \in db["signed_tree_heads"] PROVE h.id # head.id
      <4> SUFFICES ASSUME h.id = head.id PROVE FALSE
        OBVIOUS
      <4>1. h.id = <<h.ref, h.id[2]>>
        BY DEF Shaped, RowsShaped, Numbered
      <4>2. h.ref = c /\ h.id[2] = Cardinality(RowsOf(c, "records"))
        BY <2>2, <4>1
      <4>3. h.id[2] <= Latest(SizesOf(c)) /\ Latest(SizesOf(c)) \in Nat
        BY <3>2, <4>2, BehindIsBeyond
      <4>4. Cardinality(RowsOf(c, "records")) \in Nat
        BY RecordsFinite
      <4> QED
        BY <3>3, <4>2, <4>3, <4>4 DEF Behind
    <3> QED
      BY <2>1, <3>1, <3>3, UniqueWith
  <2>9. db["webhooks"] \subseteq db'["webhooks"] /\ {"keys", "signed_tree_heads"} \in SUBSET Tables
    BY <2>1 DEF Same, Tables
  <2> QED
    BY <1>1, <1>4, <2>1, <2>4, <2>5, <2>7, <2>8, <2>9, KeepsConstraints
<1> QED
  BY <1>2, <1>3, <1>5, <1>6, <1>7, ServerActions

-----------------------------------------------------------------------------
(* Servers keep the log, the keys and the CA key                           *)

Count(rows, c) == Cardinality({r \in rows : r.ref = c})

\* How counts of a company's rows change with a row, and what they are for the log.
LEMMA CountWith ==
  ASSUME NEW rows, IsFiniteSet(rows), NEW row, row \notin rows, NEW c
  PROVE  /\ Count(rows, c) \in Nat
         /\ row.ref = c => Count(rows \cup {row}, c) = Count(rows, c) + 1
         /\ row.ref # c => Count(rows \cup {row}, c) = Count(rows, c)
<1> DEFINE under == {r \in rows : r.ref = c}
<1>1. IsFiniteSet(under) /\ row \notin under
  BY FS_Subset
<1>2. Cardinality(under) \in Nat
  BY <1>1, FS_CardinalityType
<1>3. Cardinality(under \cup {row}) = Cardinality(under) + 1
  BY <1>1, FS_AddElement
<1>4. row.ref = c => {r \in rows \cup {row} : r.ref = c} = under \cup {row}
  OBVIOUS
<1>5. row.ref # c => {r \in rows \cup {row} : r.ref = c} = under
  OBVIOUS
<1> QED
  BY <1>2, <1>3, <1>4, <1>5 DEF Count

LEMMA CountsOf == \A c : RowsOf(c, "records") = {r \in db["records"] : r.ref = c}
BY DEF RowsOf

LEMMA WithinCounts ==
  ASSUME NEW heads, NEW rows
  PROVE  Within(heads, rows) <=> \A h \in heads : h.id[2] <= Count(rows, h.ref)
BY DEF Within, Count

LEMMA LogWithinCounts ==
  LogWithin <=>
    /\ \A h \in db["signed_tree_heads"] : h.id[2] <= Count(db["records"], h.ref)
    /\ \A s \in Servers, c \in Companies : tenants[s][c] # NoTenant =>
         /\ tenants[s][c].latestSth = tenants[s][c].length
         /\ tenants[s][c].length <= Count(db["records"], c)
BY DEF LogWithin, Within, Count, RowsOf

\* A server attests to the chain it hydrated, and its tree heads stay within the records.
LEMMA ServerKeepsLog ==
  ASSUME TypeOK, Shaped, LogWithin, ServerStep
  PROVE  LogWithin'
<1> DEFINE Heads == \A h \in db["signed_tree_heads"] : h.id[2] <= Count(db["records"], h.ref)
           Tenants == \A s \in Servers, c \in Companies : tenants[s][c] # NoTenant =>
                        /\ tenants[s][c].latestSth = tenants[s][c].length
                        /\ tenants[s][c].length <= Count(db["records"], c)
<1>1. Heads /\ Tenants /\ IsTable(tenants)
  BY LogWithinCounts DEF Shaped
<1>2. Heads' /\ Tenants' => LogWithin'
  BY DEF LogWithin, Within, Count, RowsOf
<1>3. ASSUME NEW s \in Servers, Others(s) PROVE LogWithin'
  <2>1. db'["records"] = db["records"] /\ db'["signed_tree_heads"] = db["signed_tree_heads"]
    BY <1>3, OthersKeep DEF Core
  <2>2. CASE tenants' = tenants
    BY <1>1, <1>2, <2>1, <2>2
  <2>3. CASE tenants' = [tenants EXCEPT ![s] = [c \in Companies |-> NoTenant]]
    <3>1. \A u \in Servers, c \in Companies : tenants'[u][c] \in {NoTenant, tenants[u][c]}
      BY <1>1, <2>3 DEF IsTable
    <3> QED
      BY <1>1, <1>2, <2>1, <3>1
  <2> QED
    BY <1>3, <2>2, <2>3, OthersKeep
<1>4. ASSUME NEW s \in Servers, SaveCaKey(s) PROVE LogWithin'
  <2>1. db'["records"] = db["records"] /\ db'["signed_tree_heads"] = db["signed_tree_heads"]
    BY <1>4, SaveCaKeyWrites DEF Same, Tables
  <2> QED
    BY <1>1, <1>2, <1>4, <2>1 DEF SaveCaKey
<1>5. ASSUME NEW s \in Servers, NEW c \in Companies, RotateKeys(s, c) PROVE LogWithin'
  <2>1. db'["records"] = db["records"] /\ db'["signed_tree_heads"] = db["signed_tree_heads"]
    BY <1>5, RotateWrites DEF Same, Tables
  <2>2. PICK k, n, m : /\ n = tenants[s][c].length /\ m = tenants[s][c].latestSth
                       /\ tenants' = TableWith(tenants, s, c, [keys |-> k, length |-> n, latestSth |-> m])
    BY <1>5, RotatedTenant
  <2>3. tenants[s][c] # NoTenant /\ n \in Nat
    BY <1>5, <2>2 DEF RotateKeys, Shaped
  <2>4. /\ tenants'[s][c] = [keys |-> k, length |-> n, latestSth |-> m]
        /\ \A u \in Servers, e \in Companies : u # s \/ e # c => tenants'[u][e] = tenants[u][e]
    BY <2>2, <2>3, TenantWith
  <2>5. Tenants'
    BY <1>1, <2>1, <2>2, <2>3, <2>4
  <2> QED
    BY <1>1, <1>2, <2>1, <2>5
<1>6. ASSUME NEW s \in Servers, NEW c \in Companies, Attest(s, c) PROVE LogWithin'
  <2> DEFINE size == tenants[s][c].length + 1
             record == Row(<<c, size>>, c, [key |-> tenants[s][c].keys, payload |-> writes + 1])
             sth == Row(<<c, size>>, c, caKeys[s])
  <2>1. /\ Inserts(db, "records", record)
        /\ db'["records"] = db["records"] \cup {record}
        /\ db'["signed_tree_heads"] = db["signed_tree_heads"] \cup {sth}
    BY <1>6, AttestWrites
  <2>2. record.ref = c /\ sth.ref = c /\ sth.id = <<c, size>> /\ sth.id[2] = size
    BY DEF Row
  <2>3. PICK k, n : /\ n = size
                    /\ tenants' = TableWith(tenants, s, c, [keys |-> k, length |-> n, latestSth |-> n])
    BY <1>6, AttestedTenant
  <2> HIDE DEF record, sth
  <2>4. tenants[s][c] # NoTenant
    BY <1>6 DEF Attest
  <2>5. tenants[s][c].length \in Nat /\ tenants[s][c].length <= Count(db["records"], c)
    BY <1>1, <2>4 DEF Shaped
  <2>6. record \notin db["records"]
    BY <2>1 DEF Inserts, Keyed
  <2>7. IsFiniteSet(db["records"])
    BY DEF Shaped, RowsShaped
  <2>8. /\ \A e : Count(db["records"], e) \in Nat /\ Count(db'["records"], e) \in Nat
        /\ \A e : Count(db["records"], e) <= Count(db'["records"], e)
        /\ Count(db'["records"], c) = Count(db["records"], c) + 1
    <3>1. \A e : /\ Count(db["records"], e) \in Nat
                 /\ Count(db'["records"], e) \in {Count(db["records"], e), Count(db["records"], e) + 1}
      BY <2>1, <2>6, <2>7, CountWith
    <3>2. Count(db'["records"], c) = Count(db["records"], c) + 1
      BY <2>1, <2>2, <2>6, <2>7, CountWith
    <3>3. \A m, k1 : m \in Nat /\ k1 \in {m, m + 1} => k1 \in Nat /\ m <= k1
      OBVIOUS
    <3> QED
      BY <3>1, <3>2, <3>3
  <2>9. n \in Nat /\ n <= Count(db'["records"], c)
    BY <2>3, <2>5, <2>8
  <2>10. /\ tenants'[s][c] = [keys |-> k, length |-> n, latestSth |-> n]
         /\ \A u \in Servers, e \in Companies : u # s \/ e # c => tenants'[u][e] = tenants[u][e]
    BY <2>3, <2>9, TenantWith
  <2>11. ASSUME NEW h \in db'["signed_tree_heads"] PROVE h.id[2] <= Count(db'["records"], h.ref)
    <3>1. CASE h = sth
      BY <2>2, <2>3, <2>9, <3>1
    <3>2. CASE h \in db["signed_tree_heads"]
      <4>1. h.id[2] \in Nat /\ h.id[2] <= Count(db["records"], h.ref)
        BY <1>1, <3>2 DEF Shaped, RowsShaped, Numbered
      <4> QED
        BY <2>8, <4>1
    <3> QED
      BY <2>1, <3>1, <3>2
  <2>12. ASSUME NEW u \in Servers, NEW e \in Companies, tenants'[u][e] # NoTenant
         PROVE  /\ tenants'[u][e].latestSth = tenants'[u][e].length
                /\ tenants'[u][e].length <= Count(db'["records"], e)
    <3>1. CASE u = s /\ e = c
      BY <2>9, <2>10, <3>1
    <3>2. CASE u # s \/ e # c
      <4>1. /\ tenants'[u][e] = tenants[u][e]
            /\ tenants[u][e].length \in Nat /\ tenants[u][e].length <= Count(db["records"], e)
            /\ tenants[u][e].latestSth = tenants[u][e].length
        BY <1>1, <2>10, <2>12, <3>2 DEF Shaped
      <4> QED
        BY <2>8, <4>1
    <3> QED
      BY <3>1, <3>2
  <2> QED
    BY <1>2, <2>11, <2>12
<1>7. ASSUME NEW s \in Servers, NEW c \in Companies, Hydrate(s, c) PROVE LogWithin'
  <2> DEFINE n == Cardinality(RowsOf(c, "records"))
             head == Row(<<c, n>>, c, caKeys[s])
  <2>1. /\ db'["records"] = db["records"]
        /\ db'["signed_tree_heads"] = IF Behind(c) THEN db["signed_tree_heads"] \cup {head}
                                      ELSE db["signed_tree_heads"]
    BY <1>7, HydrateWrites DEF Same, Tables
  <2>2. head.ref = c /\ head.id[2] = n /\ n \in Nat /\ n = Count(db["records"], c)
    BY RecordsFinite DEF Row, Count, RowsOf
  <2>3. PICK k : tenants' = TableWith(tenants, s, c,
          [keys |-> k, length |-> n, latestSth |-> IF Behind(c) THEN n ELSE Latest(SizesOf(c))])
    BY <1>7 DEF Hydrate, TableWith, Behind
  <2> HIDE DEF n, head
  <2>4. ~Behind(c) => Latest(SizesOf(c)) = n
    <3> SUFFICES ASSUME ~Behind(c) PROVE Latest(SizesOf(c)) = n
      OBVIOUS
    <3>1. CASE SizesOf(c) = {}
      <4>1. Latest(SizesOf(c)) = 0
        BY <3>1 DEF Latest
      <4> QED
        BY <2>2, <4>1 DEF Behind, n
    <3>2. CASE SizesOf(c) # {}
      <4>1. PICK h \in db["signed_tree_heads"] : h.ref = c
        BY <3>2 DEF SizesOf, RowsOf
      <4>2. Latest(SizesOf(c)) \in Nat /\ Latest(SizesOf(c)) <= n
        BY <4>1, BehindIsBeyond DEF LogWithin, n
      <4> QED
        BY <2>2, <4>2 DEF Behind, n
    <3> QED
      BY <3>1, <3>2
  <2>5. tenants' = TableWith(tenants, s, c, [keys |-> k, length |-> n, latestSth |-> n])
    BY <2>3, <2>4
  <2>6. /\ tenants'[s][c] = [keys |-> k, length |-> n, latestSth |-> n]
        /\ \A u \in Servers, e \in Companies : u # s \/ e # c => tenants'[u][e] = tenants[u][e]
    BY <2>2, <2>5, TenantWith
  <2>7. Heads'
    BY <1>1, <2>1, <2>2
  <2>8. Tenants'
    BY <1>1, <2>1, <2>2, <2>6
  <2> QED
    BY <1>2, <2>7, <2>8
<1> QED
  BY <1>3, <1>4, <1>5, <1>6, <1>7, ServerActions

\* A record is attested together with the tree head over it.
LEMMA ServerKeepsCover ==
  ASSUME TypeOK, Shaped, ServerStep, Covered(db["records"], db["signed_tree_heads"])
  PROVE  Covered(db'["records"], db'["signed_tree_heads"])
<1>1. ASSUME db'["records"] = db["records"], db["signed_tree_heads"] \subseteq db'["signed_tree_heads"]
      PROVE  Covered(db'["records"], db'["signed_tree_heads"])
  BY <1>1 DEF Covered
<1>2. ASSUME NEW s \in Servers, NEW c \in Companies, Attest(s, c)
      PROVE  Covered(db'["records"], db'["signed_tree_heads"])
  <2> DEFINE size == tenants[s][c].length + 1
             record == Row(<<c, size>>, c, [key |-> tenants[s][c].keys, payload |-> writes + 1])
             sth == Row(<<c, size>>, c, caKeys[s])
  <2>1. /\ db'["records"] = db["records"] \cup {record}
        /\ db'["signed_tree_heads"] = db["signed_tree_heads"] \cup {sth}
    BY <1>2, AttestWrites
  <2>2. sth.ref = record.ref /\ sth.id[2] = size /\ record.id[2] = size
    BY DEF Row
  <2>3. size \in Nat
    <3>1. tenants[s][c] # NoTenant
      BY <1>2 DEF Attest
    <3>2. tenants[s][c].length \in Nat
      BY <3>1 DEF Shaped
    <3> QED
      BY <3>2
  <2> HIDE DEF size, record, sth
  <2> QED
    BY <2>1, <2>2, <2>3 DEF Covered
<1>3. ASSUME NEW s \in Servers, Others(s) \/ SaveCaKey(s)
      PROVE  db'["records"] = db["records"] /\ db'["signed_tree_heads"] = db["signed_tree_heads"]
  BY <1>3, OthersKeep, SaveCaKeyWrites DEF Core, Same, Tables
<1>4. ASSUME NEW s \in Servers, NEW c \in Companies, RotateKeys(s, c)
      PROVE  db'["records"] = db["records"] /\ db'["signed_tree_heads"] = db["signed_tree_heads"]
  BY <1>4, RotateWrites DEF Same, Tables
<1>5. ASSUME NEW s \in Servers, NEW c \in Companies, Hydrate(s, c)
      PROVE  db'["records"] = db["records"] /\ db["signed_tree_heads"] \subseteq db'["signed_tree_heads"]
  BY <1>5, HydrateWrites DEF Same, Tables
<1> QED
  BY <1>1, <1>2, <1>3, <1>4, <1>5, ServerActions

\* A key signs while it is among its company's keys, and stays there once it is retired.
LEMMA ServerKeepsKeys ==
  ASSUME TypeOK, Shaped, SchemaSound, KeysKnown, ServerStep
  PROVE  KeysKnown'
<1> DEFINE Has(keys, c, k) == \E row \in keys : row.ref = c /\ row.val = k
           known == db["keys"] \cup db["keys_history"]
<1>1. /\ \A r \in db["records"] : Has(known, r.ref, r.val.key)
      /\ \A s \in Servers, c \in Companies :
           tenants[s][c] # NoTenant => Has(known, c, tenants[s][c].keys)
      /\ IsTable(tenants)
  BY DEF KeysKnown, Known, Shaped
<1>2. ASSUME \A r \in db'["records"] : Has(known', r.ref, r.val.key),
             \A s \in Servers, c \in Companies :
               tenants'[s][c] # NoTenant => Has(known', c, tenants'[s][c].keys)
      PROVE  KeysKnown'
  BY <1>2 DEF KeysKnown, Known
<1>3. ASSUME \A c, k : Has(known, c, k) => Has(known', c, k), db'["records"] = db["records"],
             \A s \in Servers, c \in Companies : tenants'[s][c] # NoTenant =>
               tenants'[s][c] = tenants[s][c] \/ Has(known', c, tenants'[s][c].keys)
      PROVE  KeysKnown'
  <2>1. \A r \in db'["records"] : Has(known', r.ref, r.val.key)
    BY <1>1, <1>3
  <2> HIDE DEF Has
  <2>2. ASSUME NEW s \in Servers, NEW c \in Companies, tenants'[s][c] # NoTenant
        PROVE  Has(known', c, tenants'[s][c].keys)
    BY <1>1, <1>3, <2>2
  <2> QED
    BY <1>2, <2>1, <2>2
<1>4. ASSUME NEW s \in Servers, Others(s) PROVE KeysKnown'
  <2>1. /\ db'["records"] = db["records"] /\ db'["keys"] = db["keys"]
        /\ db'["keys_history"] = db["keys_history"]
    BY <1>4, OthersKeep DEF Core
  <2>2. \A u \in Servers, c \in Companies : tenants'[u][c] \in {NoTenant, tenants[u][c]}
    <3>1. CASE tenants' = tenants
      BY <3>1
    <3>2. CASE tenants' = [tenants EXCEPT ![s] = [c \in Companies |-> NoTenant]]
      BY <1>1, <3>2 DEF IsTable
    <3> QED
      BY <1>4, <3>1, <3>2, OthersKeep
  <2> QED
    BY <1>3, <2>1, <2>2
<1>5. ASSUME NEW s \in Servers, SaveCaKey(s) PROVE KeysKnown'
  <2>1. /\ db'["records"] = db["records"] /\ db'["keys"] = db["keys"]
        /\ db'["keys_history"] = db["keys_history"] /\ tenants' = tenants
    BY <1>5, SaveCaKeyWrites DEF Same, Tables, SaveCaKey
  <2> QED
    BY <1>3, <2>1
<1>6. ASSUME NEW s \in Servers, NEW c \in Companies, Attest(s, c) PROVE KeysKnown'
  <2> DEFINE size == tenants[s][c].length + 1
             record == Row(<<c, size>>, c, [key |-> tenants[s][c].keys, payload |-> writes + 1])
  <2>1. /\ db'["records"] = db["records"] \cup {record}
        /\ Same({"records", "signed_tree_heads"})
    BY <1>6, AttestWrites
  <2>2. known' = known
    BY <2>1 DEF Same, Tables
  <2>3. PICK k, n, m : /\ n \in Nat /\ k = tenants[s][c].keys
                       /\ tenants' = TableWith(tenants, s, c, [keys |-> k, length |-> n, latestSth |-> m])
    <3>1. tenants[s][c] # NoTenant
      BY <1>6 DEF Attest
    <3>2. tenants[s][c].length \in Nat
      BY <3>1 DEF Shaped
    <3>3. size \in Nat
      BY <3>2
    <3> QED
      BY <1>6, <3>3, AttestedTenant
  <2>4. /\ tenants'[s][c] = [keys |-> k, length |-> n, latestSth |-> m]
        /\ \A u \in Servers, e \in Companies : u # s \/ e # c => tenants'[u][e] = tenants[u][e]
    BY <2>3, TenantWith
  <2>5. record.ref = c /\ record.val.key = k /\ Has(known, c, k)
    <3>1. record.ref = c /\ record.val.key = k
      BY <2>3 DEF Row
    <3>2. tenants[s][c] # NoTenant
      BY <1>6 DEF Attest
    <3> HIDE DEF Has
    <3>3. Has(known, c, k)
      BY <1>1, <2>3, <3>2
    <3> QED
      BY <3>1, <3>3
  <2> HIDE DEF Has, record, known
  <2>6. \A r \in db'["records"] : Has(known', r.ref, r.val.key)
    BY <1>1, <2>1, <2>2, <2>5
  <2>7. ASSUME NEW u \in Servers, NEW e \in Companies, tenants'[u][e] # NoTenant
        PROVE  Has(known', e, tenants'[u][e].keys)
    <3>1. CASE u = s /\ e = c
      <4>1. tenants'[u][e].keys = k
        BY <2>4, <3>1
      <4> QED
        BY <2>2, <2>5, <3>1, <4>1
    <3>2. CASE u # s \/ e # c
      BY <1>1, <2>2, <2>4, <2>7, <3>2
    <3> QED
      BY <3>1, <3>2
  <2> QED
    BY <1>2, <2>6, <2>7
<1>7. ASSUME NEW s \in Servers, NEW c \in Companies, RotateKeys(s, c) PROVE KeysKnown'
  <2>1. PICK r \in RowsOf(c, "keys") :
          /\ db'["keys_history"] = db["keys_history"] \cup {Row(fresh + 1, c, r.val)}
          /\ db'["keys"] = Without(db["keys"], c) \cup {Row(c, c, fresh + 2)}
          /\ Same({"keys", "keys_history"})
    BY <1>7, RotateWrites
  <2> DEFINE old == Row(fresh + 1, c, r.val)
             new == Row(c, c, fresh + 2)
  <2>2. old.ref = c /\ old.val = r.val /\ new.ref = c /\ new.val = fresh + 2
    BY DEF Row
  <2> HIDE DEF old, new
  <2>3. \A k \in db["keys"] : k.id = c => k = r
    <3>1. Unique(db["keys"])
      BY DEF SchemaSound, Keyed, Tables
    <3>2. r \in db["keys"] /\ r.id = c
      BY DEF RowsOf, Shaped, RowsShaped
    <3> QED
      BY <3>1, <3>2 DEF Unique
  <2>4. \A e, k : Has(known, e, k) => Has(known', e, k)
    <3> SUFFICES ASSUME NEW e, NEW k, NEW row \in known, row.ref = e, row.val = k
                 PROVE  \E q \in known' : q.ref = e /\ q.val = k
      OBVIOUS
    <3>1. CASE row \in db["keys_history"] \/ row.id # c
      <4>1. row \in known'
        BY <2>1, <3>1 DEF Without
      <4> QED
        BY <4>1
    <3>2. CASE row \in db["keys"] /\ row.id = c
      <4>1. row = r /\ row.ref = c
        BY <2>3, <3>2 DEF RowsOf
      <4>2. old \in known'
        BY <2>1 DEF old
      <4> QED
        BY <2>2, <4>1, <4>2
    <3> QED
      BY <3>1, <3>2
  <2>5. PICK k, n, m : /\ n \in Nat /\ k = fresh + 2
                       /\ tenants' = TableWith(tenants, s, c, [keys |-> k, length |-> n, latestSth |-> m])
    <3>1. tenants[s][c] # NoTenant
      BY <1>7 DEF RotateKeys
    <3>2. tenants[s][c].length \in Nat
      BY <3>1 DEF Shaped
    <3> QED
      BY <1>7, <3>2, RotatedTenant
  <2>6. /\ tenants'[s][c] = [keys |-> k, length |-> n, latestSth |-> m]
        /\ \A u \in Servers, e \in Companies : u # s \/ e # c => tenants'[u][e] = tenants[u][e]
    BY <2>5, TenantWith
  <2>7. Has(known', c, k)
    <3>1. new \in known'
      BY <2>1 DEF new
    <3> QED
      BY <2>2, <2>5, <3>1
  <2>8. tenants'[s][c].keys = k
    BY <2>6
  <2>9. db'["records"] = db["records"]
    BY <2>1 DEF Same, Tables
  <2> HIDE DEF Has, known
  <2> QED
    BY <1>3, <2>4, <2>6, <2>7, <2>8, <2>9
<1>8. ASSUME NEW s \in Servers, NEW c \in Companies, Hydrate(s, c) PROVE KeysKnown'
  <2> DEFINE k == HydratedKeys(c)
             row == Row(c, c, k)
  <2>1. /\ db'["keys"] = IF RowsOf(c, "keys") = {} THEN Without(db["keys"], c) \cup {row}
                         ELSE db["keys"]
        /\ Same({"keys", "signed_tree_heads"})
    BY <1>8, HydrateWrites
  <2>2. row.ref = c /\ row.val = k
    BY DEF Row
  <2>3. db["keys"] \subseteq db'["keys"]
    <3>1. RowsOf(c, "keys") = {} => \A q \in db["keys"] : q.id # c
      BY DEF RowsOf, Shaped, RowsShaped
    <3> HIDE DEF row
    <3> QED
      BY <2>1, <3>1 DEF Without
  <2>4. \E q \in db'["keys"] : q.ref = c /\ q.val = k
    <3>1. CASE RowsOf(c, "keys") = {}
      <4>1. row \in db'["keys"]
        BY <2>1, <3>1
      <4> QED
        BY <2>2, <4>1
    <3>2. CASE RowsOf(c, "keys") # {}
      <4>1. PICK q \in RowsOf(c, "keys") : k = q.val
        BY <3>2 DEF HydratedKeys
      <4> QED
        BY <2>3, <4>1 DEF RowsOf
    <3> QED
      BY <3>1, <3>2
  <2> HIDE DEF k, row
  <2>5. PICK n, m : /\ n \in Nat
                    /\ tenants' = TableWith(tenants, s, c, [keys |-> k, length |-> n, latestSth |-> m])
    BY <1>8, RecordsFinite DEF Hydrate, TableWith, HydratedKeys, k
  <2>6. /\ tenants'[s][c] = [keys |-> k, length |-> n, latestSth |-> m]
        /\ \A u \in Servers, e \in Companies : u # s \/ e # c => tenants'[u][e] = tenants[u][e]
    BY <2>5, TenantWith
  <2>7. /\ db'["records"] = db["records"] /\ db'["keys_history"] = db["keys_history"]
        /\ known \subseteq known'
    BY <2>1, <2>3 DEF Same, Tables
  <2>8. \A e, v : Has(known, e, v) => Has(known', e, v)
    BY <2>7
  <2>9. Has(known', c, k) /\ tenants'[s][c].keys = k
    BY <2>4, <2>6
  <2> HIDE DEF Has, known
  <2> QED
    BY <1>3, <2>6, <2>7, <2>8, <2>9
<1> QED
  BY <1>4, <1>5, <1>6, <1>7, <1>8, ServerActions

\* A server signs with the stored CA key, unless one was saved over it, or with the
\* operator's.
LEMMA ServerKeepsCa ==
  ASSUME TypeOK, Shaped, CaKnown, ServerStep, ~raced'
  PROVE  CaKnown'
<1>1. /\ \A h \in db["signed_tree_heads"] : Verifies(h.val, db["ca_key"])
      /\ \A s \in Servers : mode[s] = "up" => Verifies(caKeys[s], db["ca_key"])
  BY DEF CaKnown, Verified
<1>2. ASSUME db'["ca_key"] = db["ca_key"],
             \A h \in db'["signed_tree_heads"] :
               h \in db["signed_tree_heads"] \/ \E s \in Servers : mode[s] = "up" /\ h.val = caKeys[s],
             \A s \in Servers : mode'[s] = "up" =>
               \/ mode[s] = "up" /\ caKeys'[s] = caKeys[s]
               \/ caKeys'[s] = ExternalCaKey
               \/ \E k \in db["ca_key"] : caKeys'[s] = k.val
      PROVE  CaKnown'
  <2>1. \A h \in db'["signed_tree_heads"] : Verifies(h.val, db'["ca_key"])
    BY <1>1, <1>2
  <2>2. \A s \in Servers : mode'[s] = "up" => Verifies(caKeys'[s], db'["ca_key"])
    BY <1>1, <1>2 DEF Verifies
  <2> QED
    BY <2>1, <2>2 DEF CaKnown, Verified
<1>3. ASSUME NEW s \in Servers, Others(s) PROVE CaKnown'
  BY <1>2, <1>3, OthersKeep DEF Core
<1>4. ASSUME NEW s \in Servers, SaveCaKey(s) PROVE CaKnown'
  <2>1. db["ca_key"] = {}
    BY <1>4 DEF SaveCaKey
  <2>2. /\ db'["signed_tree_heads"] = db["signed_tree_heads"]
        /\ Row(1, 1, caKeys[s]) \in db'["ca_key"]
    BY <1>4, SaveCaKeyWrites DEF Same, Tables
  <2>3. Row(1, 1, caKeys[s]).val = caKeys[s]
    BY DEF Row
  <2>4. mode' = [mode EXCEPT ![s] = "up"] /\ caKeys' = caKeys
    BY <1>4 DEF SaveCaKey
  <2>5. \A u \in Servers : mode'[u] = "up" => u = s \/ caKeys[u] = ExternalCaKey
    BY <1>1, <2>1, <2>4 DEF TypeOK, Verifies
  <2>6. \A u \in Servers : mode'[u] = "up" => Verifies(caKeys'[u], db'["ca_key"])
    BY <2>2, <2>3, <2>4, <2>5 DEF Verifies
  <2>7. \A h \in db'["signed_tree_heads"] : Verifies(h.val, db'["ca_key"])
    BY <1>1, <2>1, <2>2 DEF Verifies
  <2> QED
    BY <2>6, <2>7 DEF CaKnown, Verified
<1>5. ASSUME NEW s \in Servers, NEW c \in Companies, RotateKeys(s, c) PROVE CaKnown'
  <2>1. db'["ca_key"] = db["ca_key"] /\ db'["signed_tree_heads"] = db["signed_tree_heads"]
    BY <1>5, RotateWrites DEF Same, Tables
  <2>2. mode' = mode /\ caKeys' = caKeys
    BY <1>5 DEF RotateKeys, Commits
  <2> QED
    BY <1>2, <2>1, <2>2
<1>6. ASSUME NEW s \in Servers, NEW c \in Companies, Hydrate(s, c) \/ Attest(s, c) PROVE CaKnown'
  <2>1. mode' = mode /\ caKeys' = caKeys /\ mode[s] = "up"
    BY <1>6 DEF Hydrate, Attest, Commits
  <2>2. db'["ca_key"] = db["ca_key"]
    <3>1. Hydrate(s, c) => db'["ca_key"] = db["ca_key"]
      BY HydrateWrites DEF Same, Tables
    <3>2. Attest(s, c) => db'["ca_key"] = db["ca_key"]
      BY AttestWrites DEF Same, Tables
    <3> QED
      BY <1>6, <3>1, <3>2
  <2>3. \E head : /\ head.val = caKeys[s]
                  /\ db'["signed_tree_heads"] \subseteq db["signed_tree_heads"] \cup {head}
    <3>1. \A id : Row(id, c, caKeys[s]).val = caKeys[s]
      BY DEF Row
    <3>2. CASE Hydrate(s, c)
      <4> DEFINE head == Row(<<c, Cardinality(RowsOf(c, "records"))>>, c, caKeys[s])
      <4>1. db'["signed_tree_heads"] \subseteq db["signed_tree_heads"] \cup {head}
        BY <3>2, HydrateWrites
      <4>2. head.val = caKeys[s]
        BY <3>1
      <4> HIDE DEF head
      <4> QED
        BY <4>1, <4>2
    <3>3. CASE Attest(s, c)
      <4> DEFINE head == Row(<<c, tenants[s][c].length + 1>>, c, caKeys[s])
      <4>1. db'["signed_tree_heads"] = db["signed_tree_heads"] \cup {head}
        BY <3>3, AttestWrites
      <4>2. head.val = caKeys[s]
        BY <3>1
      <4> HIDE DEF head
      <4> QED
        BY <4>1, <4>2
    <3> QED
      BY <1>6, <3>2, <3>3
  <2>4. \A h \in db'["signed_tree_heads"] :
          h \in db["signed_tree_heads"] \/ \E u \in Servers : mode[u] = "up" /\ h.val = caKeys[u]
    BY <2>1, <2>3
  <2> QED
    BY <1>2, <2>1, <2>2, <2>4
<1> QED
  BY <1>3, <1>4, <1>5, <1>6, ServerActions

-----------------------------------------------------------------------------
(* What was committed during the dump is noted                             *)

Noted ==
  /\ during \subseteq during' /\ (raced => raced')
  /\ dump.at > 0 =>
       /\ "company" \notin during' => db'["companies"] = db["companies"]
       /\ "webhook" \notin during' => db'["webhooks"] \subseteq db["webhooks"]
       /\ "attest" \notin during' => db'["records"] = db["records"]
       /\ during' \cap {"rotate", "key"} = {} =>
            db'["keys"] = db["keys"] /\ db'["keys_history"] = db["keys_history"]
       /\ "ca" \notin during' => db'["ca_key"] = db["ca_key"]

\* The history variables note what servers write while a dump runs.
LEMMA ServersAreNoted ==
  ASSUME TypeOK, ServerStep
  PROVE  Noted
<1>1. ASSUME NEW kinds, during' = IF dump.at > 0 THEN during \cup kinds ELSE during
      PROVE  during \subseteq during' /\ (dump.at > 0 => kinds \subseteq during')
  BY <1>1
<1>2. ASSUME NEW kinds, NEW s \in Servers, Commits(s, kinds)
      PROVE  during \subseteq during' /\ (dump.at > 0 => kinds \subseteq during') /\ (raced => raced')
  BY <1>1, <1>2 DEF Commits
<1>3. ASSUME db' = db, UNCHANGED <<during, raced>> PROVE Noted
  BY <1>3 DEF Noted
<1>4. ASSUME NEW t \in Tables, NEW row, db' = With(db, t, row),
             NEW kinds, during \subseteq during', dump.at > 0 => kinds \subseteq during',
             raced => raced', t \notin Core,
             t = "companies" => "company" \in kinds, t = "webhooks" => "webhook" \in kinds
      PROVE  Noted
  <2>1. \A u \in Tables \ {t} : db'[u] = db[u]
    BY <1>4, WithRow DEF TypeOK
  <2>2. \A u \in Core : db'[u] = db[u]
    BY <1>4, <2>1 DEF Core, Tables
  <2>3. t # "companies" => db'["companies"] = db["companies"]
    BY <2>1 DEF Tables
  <2>4. t # "webhooks" => db'["webhooks"] = db["webhooks"]
    BY <2>1 DEF Tables
  <2> QED
    BY <1>4, <2>2, <2>3, <2>4 DEF Noted, Core
<1>5. ASSUME NEW s \in Servers,
             Start(s) \/ UseEnvCaKey(s) \/ LoadCaKey(s) \/ MissCaKey(s) \/ Stop(s)
      PROVE  Noted
  BY <1>3, <1>5 DEF Start, UseEnvCaKey, LoadCaKey, MissCaKey, Stop, database, history
<1>6. ASSUME NEW s \in Servers, SaveCaKey(s) PROVE Noted
  <2>1. during \subseteq during' /\ (dump.at > 0 => "ca" \in during') /\ (raced => raced')
    BY <1>6 DEF SaveCaKey
  <2>2. \A t \in Tables \ {"ca_key"} : db'[t] = db[t]
    BY <1>6, SaveCaKeyWrites DEF Same
  <2> QED
    BY <2>1, <2>2 DEF Noted, Tables
<1>7. ASSUME NEW s \in Servers, NEW c \in Companies, CreateCompany(s, c) PROVE Noted
  <2>1. /\ db' = With(db, "companies", Row(c, c, 0)) /\ Commits(s, {"company"})
        /\ "companies" \in Tables \ Core
    BY <1>7 DEF CreateCompany, Tables, Core
  <2> QED
    BY <1>2, <1>4, <2>1
<1>8. ASSUME NEW s \in Servers, NEW c \in Companies, CreateWebhook(s, c) PROVE Noted
  <2>1. /\ db' = With(db, "webhooks", Row(fresh + 1, c, 0)) /\ Commits(s, {"webhook"})
        /\ "webhooks" \in Tables \ Core
    BY <1>8 DEF CreateWebhook, Tables, Core
  <2> QED
    BY <1>2, <1>4, <2>1
<1>9. ASSUME NEW s \in Servers, NEW c \in Companies, NEW t \in OtherTables, InsertOther(s, c, t)
      PROVE  Noted
  <2>1. /\ db' = With(db, t, Row(c, c, writes + 1)) /\ Commits(s, {})
        /\ t \in Tables \ Core /\ t # "companies" /\ t # "webhooks"
    BY <1>9, BoundsAssumption DEF InsertOther, Tables, Core
  <2> QED
    BY <1>2, <1>4, <2>1
<1>10. ASSUME NEW s \in Servers, NEW hook \in db["webhooks"], CreateDelivery(s, hook) PROVE Noted
  <2>1. /\ db' = With(db, "webhook_deliveries", Row(fresh + 1, hook.id, 0)) /\ Commits(s, {})
        /\ "webhook_deliveries" \in Tables \ Core
    BY <1>10 DEF CreateDelivery, Tables, Core
  <2> QED
    BY <1>2, <1>4, <2>1
<1>11. ASSUME NEW s \in Servers, NEW c \in Companies, NEW t \in OtherTables, DeleteOther(s, c, t)
       PROVE  Noted
  <2>1. /\ t \in {"api_keys", "oauth_tokens", "issuance_rate_limit_events"}
        /\ \E row : db' = [db EXCEPT ![t] = @ \ {row}]
        /\ Commits(s, {})
    BY <1>11 DEF DeleteOther
  <2>2. \A u \in Core \cup {"companies", "webhooks"} : db'[u] = db[u]
    BY <2>1 DEF Core, TypeOK, TablesOK, Tables
  <2>3. during \subseteq during' /\ (raced => raced')
    BY <1>2, <2>1
  <2> QED
    BY <2>2, <2>3 DEF Noted, Core
<1>12. ASSUME NEW s \in Servers, NEW hook \in db["webhooks"], DeleteWebhook(s, hook) PROVE Noted
  <2>1. /\ db' = [db EXCEPT !["webhooks"] = @ \ {hook},
                            !["webhook_deliveries"] = {d \in @ : d.ref # hook.id}]
        /\ Commits(s, {})
    BY <1>12 DEF DeleteWebhook
  <2>2. \A u \in Core \cup {"companies"} : db'[u] = db[u]
    BY <2>1 DEF Core, TypeOK, TablesOK, Tables
  <2>3. db'["webhooks"] \subseteq db["webhooks"]
    BY <2>1 DEF TypeOK, TablesOK, Tables
  <2>4. during \subseteq during' /\ (raced => raced')
    BY <1>2, <2>1
  <2> QED
    BY <2>2, <2>3, <2>4 DEF Noted, Core
<1>13. ASSUME NEW s \in Servers, NEW c \in Companies, Attest(s, c) PROVE Noted
  <2>1. Commits(s, {"attest"}) /\ \A t \in Tables \ {"records", "signed_tree_heads"} : db'[t] = db[t]
    BY <1>13, AttestWrites DEF Attest, Same
  <2>2. during \subseteq during' /\ (dump.at > 0 => "attest" \in during') /\ (raced => raced')
    BY <1>2, <2>1
  <2> QED
    BY <2>1, <2>2 DEF Noted, Tables
<1>14. ASSUME NEW s \in Servers, NEW c \in Companies, RotateKeys(s, c) PROVE Noted
  <2>1. Commits(s, {"rotate"}) /\ \A t \in Tables \ {"keys", "keys_history"} : db'[t] = db[t]
    BY <1>14, RotateWrites DEF RotateKeys, Same
  <2>2. during \subseteq during' /\ (dump.at > 0 => "rotate" \in during') /\ (raced => raced')
    BY <1>2, <2>1
  <2> QED
    BY <2>1, <2>2 DEF Noted, Tables
<1>15. ASSUME NEW s \in Servers, NEW c \in Companies, Hydrate(s, c) PROVE Noted
  <2>1. /\ during' = IF RowsOf(c, "keys") = {} /\ dump.at > 0 THEN during \cup {"key"} ELSE during
        /\ raced' = raced
    BY <1>15 DEF Hydrate
  <2>2. /\ RowsOf(c, "keys") # {} => db'["keys"] = db["keys"]
        /\ \A t \in Tables \ {"keys", "signed_tree_heads"} : db'[t] = db[t]
    BY <1>15, HydrateWrites DEF Same
  <2>3. during \subseteq during' /\ (dump.at > 0 /\ RowsOf(c, "keys") = {} => "key" \in during')
    BY <2>1
  <2> QED
    BY <2>1, <2>2, <2>3 DEF Noted, Tables
<1>16. ASSUME NEW s \in Servers, Others(s) PROVE Noted
  BY <1>5, <1>7, <1>8, <1>9, <1>10, <1>11, <1>12, <1>16 DEF Others
<1> QED
  BY <1>6, <1>13, <1>14, <1>15, <1>16, ServerActions

\* What a dump has read stays as good as it was.
LEMMA ServerKeepsDump ==
  ASSUME TypeOK, TypeOK', DumpSound, ServerStep
  PROVE  DumpSound'
<1>1. dump' = dump
  BY ServersOnlyAppend DEF scripts
<1>2. \A t \in Tables : Keyed(t) => Unique(dump'.tables[t])
  BY <1>1 DEF DumpSound
<1>3. ASSUME dump.at \in 1 .. WriteStage PROVE Dumped(dump.at)'
  <2> DEFINE n == dump.at
             d == dump.tables
  <2>1. Noted /\ dump.at > 0 /\ Dumped(n)
    BY <1>3, ServersAreNoted DEF DumpSound
  <2>2. db["records"] \subseteq db'["records"] /\ db["keys_history"] \subseteq db'["keys_history"]
    BY ServersOnlyAppend DEF AppendOnly
  <2>3. /\ during \subseteq during' /\ (raced => raced')
        /\ "company" \notin during' => db'["companies"] = db["companies"]
        /\ "webhook" \notin during' => db'["webhooks"] \subseteq db["webhooks"]
        /\ "attest" \notin during' => db'["records"] = db["records"]
        /\ during' \cap {"rotate", "key"} = {} =>
             db'["keys"] = db["keys"] /\ db'["keys_history"] = db["keys_history"]
        /\ "ca" \notin during' => db'["ca_key"] = db["ca_key"]
    BY <2>1 DEF Noted
  <2>4. \A kinds : during' \cap kinds = {} => during \cap kinds = {}
    BY <2>3
  <2>5. n > 1 /\ "company" \notin during' => d["companies"] = db'["companies"]
    BY <2>1, <2>3 DEF Dumped
  <2>6. n > 10 /\ "webhook" \notin during' => db'["webhooks"] \subseteq d["webhooks"]
    BY <2>1, <2>3 DEF Dumped
  <2>7. during' \cap {"company", "webhook"} = {} =>
          \A i \in Positions : i < n =>
            LET t == ALL_TABLES[i] IN Parent(t) # t => Rooted(d[t], d[Parent(t)])
    BY <2>1, <2>4 DEF Dumped
  <2>8. n > 2 /\ during' \cap {"rotate", "key"} = {} => d["keys"] = db'["keys"]
    BY <2>1, <2>3, <2>4 DEF Dumped
  <2>9. n > 5 => /\ d["records"] \subseteq db'["records"]
                 /\ "attest" \notin during' => d["records"] = db'["records"]
                 /\ during' \cap {"rotate", "key"} = {} =>
                      Known(d["records"], d["keys"] \cup db'["keys_history"])
    BY <2>1, <2>2, <2>3, <2>4 DEF Dumped
  <2>10. n > 6 /\ during' \cap {"rotate", "key"} = {} =>
           Known(d["records"], d["keys"] \cup d["keys_history"])
    BY <2>1, <2>4 DEF Dumped
  <2>11. n > 12 /\ "ca" \notin during' => d["ca_key"] = db'["ca_key"]
    BY <2>1, <2>3 DEF Dumped
  <2>12. n > 14 =>
           /\ Covered(d["records"], d["signed_tree_heads"])
           /\ "attest" \notin during' => Within(d["signed_tree_heads"], d["records"])
           /\ ~raced' /\ "ca" \notin during' => Verified(d["signed_tree_heads"], d["ca_key"])
    BY <2>1, <2>3 DEF Dumped
  <2> QED
    BY <1>1, <2>5, <2>6, <2>7, <2>8, <2>9, <2>10, <2>11, <2>12 DEF Dumped
<1> QED
  BY <1>1, <1>2, <1>3 DEF DumpSound

\* A server does not touch the backup file.
LEMMA ServerKeepsFile ==
  ASSUME TypeOK, FileSound, ServerStep
  PROVE  FileSound'
<1>1. dump' = dump /\ file' = file
  BY ServersOnlyAppend DEF scripts
<1>2. during \subseteq during' /\ (raced => raced')
  BY ServersAreNoted DEF Noted
<1>3. \A kinds : during' \cap kinds = {} => during \cap kinds = {}
  BY <1>2
<1> QED
  BY <1>1, <1>2, <1>3 DEF FileSound

\* A server step during a restore mixes its content.
LEMMA StartsMix ==
  ASSUME TypeOK, ServerStep
  PROVE  mixed' = mixed \/ Restoring
<1>1. ASSUME NEW s \in Servers, Others(s) PROVE mixed' = mixed \/ Restoring
  <2>1. ASSUME Start(s), ~Restoring PROVE mixed' = mixed
    <3>1. mixed' = (mixed \/ Restoring)
      BY <2>1 DEF Start
    <3>2. mixed \in BOOLEAN
      BY DEF TypeOK
    <3> QED
      BY <2>1, <3>1, <3>2, Zenon
  <2>2. CASE UseEnvCaKey(s) \/ LoadCaKey(s) \/ MissCaKey(s) \/ Stop(s)
    BY <2>2 DEF UseEnvCaKey, LoadCaKey, MissCaKey, Stop, history
  <2>3. CASE \E c \in Companies :
               \/ CreateCompany(s, c) \/ CreateWebhook(s, c)
               \/ \E t \in OtherTables : InsertOther(s, c, t) \/ DeleteOther(s, c, t)
    BY <2>3 DEF CreateCompany, CreateWebhook, InsertOther, DeleteOther, Commits
  <2>4. CASE \E hook \in db["webhooks"] : CreateDelivery(s, hook) \/ DeleteWebhook(s, hook)
    BY <2>4 DEF CreateDelivery, DeleteWebhook, Commits
  <2> QED
    BY <1>1, <2>1, <2>2, <2>3, <2>4 DEF Others
<1>2. ASSUME NEW s \in Servers, SaveCaKey(s) PROVE mixed' = mixed
  BY <1>2 DEF SaveCaKey
<1>3. ASSUME NEW s \in Servers, NEW c \in Companies, Hydrate(s, c) \/ Attest(s, c) \/ RotateKeys(s, c)
      PROVE  mixed' = mixed
  BY <1>3 DEF Hydrate, Attest, RotateKeys, Commits
<1> QED
  BY <1>1, <1>2, <1>3, ServerActions

\* The invariant of the content, step by step: servers.
LEMMA ServerDataInv == ASSUME DataInv, ServerStep PROVE DataInv'
<1> USE DEF DataInv
<1>1. TypeOK /\ IInv' /\ TypeOK'
  BY ServerStepIInv DEF IInv
<1>2. /\ UNCHANGED <<dump, file, restore>> /\ (mixed => mixed')
  BY <1>1, ServersOnlyAppend DEF scripts
<1>3. Noted
  BY <1>1, ServersAreNoted
<1>4. \A kinds : Unmissed(kinds)' => Unmissed(kinds)
  BY <1>2, <1>3 DEF Noted, Unmissed
<1>5. Partial' = Partial
  BY <1>2 DEF Partial
<1>6. Shaped'
  BY <1>1, ServerKeepsShape
<1>7. Stages'
  <2>1. restore'.pc = "idle" => ~mixed'
    BY <1>1, <1>2, StartsMix DEF Stages, Restoring
  <2>2. \A s \in Servers, c \in Companies : mode'[s] = "down" => tenants'[s][c] = NoTenant
    BY <1>1, ServerKeepsShape
  <2> QED
    BY <1>2, <2>1, <2>2 DEF Stages
<1>8. SchemaSound'
  BY <1>1, ServerKeepsSchema
<1>9. HeadsCover'
  BY <1>1, <1>2, <1>5, ServerKeepsCover DEF HeadsCover
<1>10. LogSound'
  BY <1>1, <1>2, <1>4, ServerKeepsLog DEF LogSound
<1>11. KeysSound'
  BY <1>1, <1>2, <1>4, <1>5, ServerKeepsKeys DEF KeysSound
<1>12. CaSound'
  BY <1>1, <1>2, <1>3, <1>4, <1>5, ServerKeepsCa DEF CaSound, Noted
<1>13. DumpSound' /\ FileSound'
  BY <1>1, ServerKeepsDump, ServerKeepsFile
<1>14. RefusedOnlyOnLateParents'
  BY <1>2, <1>3 DEF RefusedOnlyOnLateParents, Noted
<1> QED
  BY <1>1, <1>6, <1>7, <1>8, <1>9, <1>10, <1>11, <1>12, <1>13, <1>14

-----------------------------------------------------------------------------
(* The dump                                                                *)

\* Where each table stands in ALL_TABLES, the order of the dump.
LEMMA DumpPlaces ==
  /\ ALL_TABLES[1] = "companies" /\ ALL_TABLES[2] = "keys"
  /\ ALL_TABLES[3] = "api_keys" /\ ALL_TABLES[4] = "agents"
  /\ ALL_TABLES[5] = "records" /\ ALL_TABLES[6] = "keys_history"
  /\ ALL_TABLES[7] = "revoked_passports" /\ ALL_TABLES[8] = "oauth_clients"
  /\ ALL_TABLES[9] = "oauth_tokens" /\ ALL_TABLES[10] = "webhooks"
  /\ ALL_TABLES[11] = "webhook_deliveries" /\ ALL_TABLES[12] = "ca_key"
  /\ ALL_TABLES[13] = "issuance_rate_limit_events" /\ ALL_TABLES[14] = "signed_tree_heads"
BY DEF ALL_TABLES

\* Every table is dumped, after the table its rows refer to.
LEMMA ParentsAreDumpedFirst ==
  /\ \A t \in Tables : \E i \in Positions : ALL_TABLES[i] = t
  /\ \A i \in Positions : ALL_TABLES[i] \in Tables
  /\ \A i \in Positions : \A j \in Positions : ALL_TABLES[i] = ALL_TABLES[j] => i = j
  /\ \A i \in Positions : Parent(ALL_TABLES[i]) # ALL_TABLES[i] =>
       \E j \in Positions : j < i /\ ALL_TABLES[j] = Parent(ALL_TABLES[i])
<1>1. \A t \in Tables : \E i \in Positions : ALL_TABLES[i] = t
  BY DumpPlaces DEF Tables, Positions, NTables
<1>2. \A i \in Positions : ALL_TABLES[i] \in Tables
  BY DumpPlaces DEF Tables, Positions, NTables
<1>3. \A i \in Positions : \A j \in Positions : ALL_TABLES[i] = ALL_TABLES[j] => i = j
  BY DumpPlaces DEF Positions, NTables
<1>4. ASSUME NEW i \in Positions, Parent(ALL_TABLES[i]) # ALL_TABLES[i]
      PROVE  \E j \in Positions : j < i /\ ALL_TABLES[j] = Parent(ALL_TABLES[i])
  <2>1. Parent(ALL_TABLES[i]) \in {"companies", "webhooks"}
    BY <1>2, <1>4, ParentTables
  <2>2. CASE Parent(ALL_TABLES[i]) = "webhooks"
    <3>1. ALL_TABLES[i] = "webhook_deliveries"
      BY <1>2, <1>4, <2>2, ParentTables
    <3>2. i = 11
      BY <1>3, <3>1, DumpPlaces DEF Positions, NTables
    <3> QED
      BY <2>2, <3>2, DumpPlaces DEF Positions, NTables
  <2>3. CASE Parent(ALL_TABLES[i]) = "companies"
    <3>1. i # 1
      BY <1>4, <2>3, DumpPlaces
    <3> QED
      BY <2>3, <3>1, DumpPlaces DEF Positions, NTables
  <2> QED
    BY <2>1, <2>2, <2>3
<1> QED
  BY <1>1, <1>2, <1>3, <1>4

\* The dump scripts leave the database and its servers alone.
LEMMA DumpFrame ==
  ASSUME DataInv, UNCHANGED <<database, servers, restore, attempts, mixed, raced>>,
         during' = during \/ restore.pc = "idle",
         IInv', RowsShaped(dump.tables)', RowsShaped(file.tables)',
         restore.pc # "idle" => file'.status = "sealed", DumpSound', FileSound'
  PROVE  DataInv'
<1>1. UNCHANGED <<schema, db, fresh, writes, mode, caKeys, tenants, restore, mixed, raced>>
  BY DEF database, servers
<1>2. Shaped'
  BY <1>1 DEF DataInv, Shaped, RowsShaped
<1>3. Stages' /\ SchemaSound' /\ HeadsCover'
  BY <1>1 DEF DataInv, Stages, SchemaSound, HeadsCover, Partial
<1>4. \A kinds : Unmissed(kinds)' => Unmissed(kinds)
  BY <1>1 DEF Unmissed
<1>5. LogSound' /\ KeysSound' /\ CaSound'
  <2>1. LogWithin' = LogWithin /\ KeysKnown' = KeysKnown /\ CaKnown' = CaKnown /\ Partial' = Partial
    BY <1>1 DEF LogWithin, KeysKnown, CaKnown, RowsOf, Partial
  <2> QED
    BY <1>1, <1>4, <2>1 DEF DataInv, LogSound, KeysSound, CaSound
<1>6. RefusedOnlyOnLateParents'
  BY <1>1 DEF DataInv, RefusedOnlyOnLateParents
<1> QED
  BY <1>2, <1>3, <1>5, <1>6 DEF DataInv

\* A dump runs before the first restore, when all there is in the database is sound.
LEMMA DumpsAreEarly ==
  ASSUME DataInv, dump.at > 0 \/ file.status # "sealed"
  PROVE  /\ restore.pc = "idle" /\ file.status # "sealed"
         /\ Covered(db["records"], db["signed_tree_heads"])
         /\ Within(db["signed_tree_heads"], db["records"])
         /\ Known(db["records"], db["keys"] \cup db["keys_history"])
         /\ ~raced => Verified(db["signed_tree_heads"], db["ca_key"])
         /\ \A t \in Tables : Keyed(t) => Unique(db[t])
<1>1. file.status # "sealed"
  BY DEF DataInv, IInv, Sealed, TypeOK
<1>2. restore.pc = "idle" /\ ~mixed /\ ~Partial
  BY <1>1 DEF DataInv, Stages, Partial
<1>3. \A kinds : Unmissed(kinds)
  BY <1>2 DEF Unmissed
<1> QED
  BY <1>1, <1>2, <1>3 DEF DataInv, HeadsCover, LogSound, LogWithin, KeysSound, KeysKnown, CaSound,
                          CaKnown, SchemaSound

\* A dump begins with nothing read.
LEMMA BeginDumpDataInv == ASSUME DataInv, BeginDump PROVE DataInv'
<1>1. IInv' /\ TypeOK
  BY DumpIInv DEF DataInv, IInv
<1>2. restore.pc = "idle"
  BY DumpsAreEarly DEF BeginDump
<1>3. dump'.at = 1 /\ dump'.tables = dump.tables /\ file' = file /\ fresh' = fresh
  BY <1>1 DEF BeginDump, TypeOK, database
<1>4. DumpSound'
  <2>1. Dumped(1)'
    BY DEF Dumped, Positions, NTables
  <2> QED
    BY <1>3, <2>1 DEF DataInv, DumpSound
<1>5. FileSound'
  BY <1>3 DEF FileSound, BeginDump, SealStage, NTables
<1>6. RowsShaped(dump.tables)' /\ RowsShaped(file.tables)'
  BY <1>3 DEF DataInv, Shaped, RowsShaped
<1> QED
  BY <1>1, <1>2, <1>4, <1>5, <1>6, DumpFrame DEF BeginDump

\* A table is read: with those read before it, unless a server wrote between.
LEMMA DumpTableDataInv == ASSUME DataInv, DumpTable PROVE DataInv'
<1> DEFINE n == dump.at
           d == dump.tables
           e == dump'.tables
           t == ALL_TABLES[dump.at]
<1>1. IInv' /\ TypeOK /\ n \in Positions
  BY DumpIInv DEF DataInv, IInv, DumpTable, Positions
<1>2. /\ restore.pc = "idle" /\ file.status # "sealed"
      /\ Covered(db["records"], db["signed_tree_heads"])
      /\ Within(db["signed_tree_heads"], db["records"])
      /\ Known(db["records"], db["keys"] \cup db["keys_history"])
      /\ ~raced => Verified(db["signed_tree_heads"], db["ca_key"])
      /\ \A u \in Tables : Keyed(u) => Unique(db[u])
  BY <1>1, DumpsAreEarly DEF Positions, NTables
<1>3. /\ dump'.at = n + 1 /\ e = [d EXCEPT ![t] = db[t]]
      /\ UNCHANGED <<db, fresh, file, during, raced, restore>>
  BY DEF DumpTable, database, history
<1>4. n + 1 \in 2 .. WriteStage /\ n \in Nat /\ TablesOK(d)
  BY <1>1 DEF Positions, NTables, WriteStage, TypeOK
<1>5. Dumped(n)
  BY <1>1 DEF DataInv, DumpSound, Positions, NTables, WriteStage
<1>6. \A i \in Positions : /\ i = n => e[ALL_TABLES[i]] = db[ALL_TABLES[i]]
                           /\ i # n => e[ALL_TABLES[i]] = d[ALL_TABLES[i]]
  BY <1>1, <1>3, <1>4, ParentsAreDumpedFirst DEF TablesOK
<1> HIDE DEF n, d, e, t
<1>7. /\ e["companies"] = IF n = 1 THEN db["companies"] ELSE d["companies"]
      /\ e["keys"] = IF n = 2 THEN db["keys"] ELSE d["keys"]
      /\ e["records"] = IF n = 5 THEN db["records"] ELSE d["records"]
      /\ e["keys_history"] = IF n = 6 THEN db["keys_history"] ELSE d["keys_history"]
      /\ e["webhooks"] = IF n = 10 THEN db["webhooks"] ELSE d["webhooks"]
      /\ e["ca_key"] = IF n = 12 THEN db["ca_key"] ELSE d["ca_key"]
      /\ e["signed_tree_heads"] = IF n = 14 THEN db["signed_tree_heads"] ELSE d["signed_tree_heads"]
  BY <1>6, DumpPlaces DEF Positions, NTables
<1>8. /\ n > 1 /\ "company" \notin during => d["companies"] = db["companies"]
      /\ n > 10 /\ "webhook" \notin during => db["webhooks"] \subseteq d["webhooks"]
      /\ n > 2 /\ during \cap {"rotate", "key"} = {} => d["keys"] = db["keys"]
      /\ n > 5 => /\ d["records"] \subseteq db["records"]
                  /\ "attest" \notin during => d["records"] = db["records"]
                  /\ during \cap {"rotate", "key"} = {} =>
                       Known(d["records"], d["keys"] \cup db["keys_history"])
      /\ n > 6 /\ during \cap {"rotate", "key"} = {} =>
           Known(d["records"], d["keys"] \cup d["keys_history"])
      /\ n > 12 /\ "ca" \notin during => d["ca_key"] = db["ca_key"]
  BY <1>5 DEF Dumped, n, d
<1>9. ASSUME n + 1 > 1, "company" \notin during PROVE e["companies"] = db["companies"]
  BY <1>4, <1>7, <1>8, <1>9
<1>10. ASSUME n + 1 > 10, "webhook" \notin during PROVE db["webhooks"] \subseteq e["webhooks"]
  BY <1>4, <1>7, <1>8, <1>10
<1>11. ASSUME n + 1 > 2, during \cap {"rotate", "key"} = {} PROVE e["keys"] = db["keys"]
  BY <1>4, <1>7, <1>8, <1>11
<1>12. ASSUME n + 1 > 5
       PROVE  /\ e["records"] \subseteq db["records"]
              /\ "attest" \notin during => e["records"] = db["records"]
              /\ during \cap {"rotate", "key"} = {} =>
                   Known(e["records"], e["keys"] \cup db["keys_history"])
  <2>1. CASE n = 5
    <3>1. e["records"] = db["records"] /\ e["keys"] = d["keys"]
      BY <1>7, <2>1
    <3>2. during \cap {"rotate", "key"} = {} => e["keys"] = db["keys"]
      BY <1>8, <2>1, <3>1
    <3> QED
      BY <1>2, <3>1, <3>2
  <2>2. CASE n > 5
    <3>1. e["records"] = d["records"] /\ e["keys"] = d["keys"]
      BY <1>4, <1>7, <2>2
    <3> QED
      BY <1>8, <2>2, <3>1
  <2> QED
    BY <1>4, <1>12, <2>1, <2>2
<1>13. ASSUME n + 1 > 6, during \cap {"rotate", "key"} = {}
       PROVE  Known(e["records"], e["keys"] \cup e["keys_history"])
  <2>1. CASE n = 6
    <3>1. /\ e["records"] = d["records"] /\ e["keys"] = d["keys"]
          /\ e["keys_history"] = db["keys_history"]
      BY <1>7, <2>1
    <3>2. Known(d["records"], d["keys"] \cup db["keys_history"])
      BY <1>8, <1>13, <2>1
    <3> QED
      BY <3>1, <3>2
  <2>2. CASE n > 6
    <3>1. /\ e["records"] = d["records"] /\ e["keys"] = d["keys"]
          /\ e["keys_history"] = d["keys_history"]
      BY <1>4, <1>7, <2>2
    <3> QED
      BY <1>8, <1>13, <2>2, <3>1
  <2> QED
    BY <1>4, <1>13, <2>1, <2>2
<1>14. ASSUME n + 1 > 12, "ca" \notin during PROVE e["ca_key"] = db["ca_key"]
  BY <1>4, <1>7, <1>8, <1>14
<1>15. ASSUME n + 1 > 14
       PROVE  /\ Covered(e["records"], e["signed_tree_heads"])
              /\ "attest" \notin during => Within(e["signed_tree_heads"], e["records"])
              /\ ~raced /\ "ca" \notin during => Verified(e["signed_tree_heads"], e["ca_key"])
  <2>1. n = 14
    BY <1>1, <1>15 DEF Positions, NTables
  <2>2. e["signed_tree_heads"] = db["signed_tree_heads"]
    BY <1>7, <2>1
  <2>3. e["records"] \subseteq db["records"] /\ ("attest" \notin during => e["records"] = db["records"])
    BY <1>12, <2>1
  <2>4. "ca" \notin during => e["ca_key"] = db["ca_key"]
    BY <1>14, <2>1
  <2>5. Covered(e["records"], e["signed_tree_heads"])
    BY <1>2, <2>2, <2>3 DEF Covered
  <2> QED
    BY <1>2, <2>2, <2>3, <2>4, <2>5
<1>16. ASSUME during \cap {"company", "webhook"} = {}, NEW i \in Positions, i < n + 1,
              Parent(ALL_TABLES[i]) # ALL_TABLES[i]
       PROVE  Rooted(e[ALL_TABLES[i]], e[Parent(ALL_TABLES[i])])
  <2>1. PICK j \in Positions : j < i /\ ALL_TABLES[j] = Parent(ALL_TABLES[i])
    BY <1>16, ParentsAreDumpedFirst
  <2>2. CASE i < n
    <3>1. Rooted(d[ALL_TABLES[i]], d[Parent(ALL_TABLES[i])])
      BY <1>5, <1>16, <2>2 DEF Dumped, n, d
    <3>2. e[ALL_TABLES[i]] = d[ALL_TABLES[i]] /\ e[ALL_TABLES[j]] = d[ALL_TABLES[j]]
      BY <1>4, <1>6, <2>1, <2>2 DEF Positions, NTables
    <3> QED
      BY <2>1, <3>1, <3>2
  <2>3. CASE i = n
    <3>1. e[ALL_TABLES[i]] = db[ALL_TABLES[i]] /\ ALL_TABLES[i] \in Tables
      BY <1>6, <2>3, ParentsAreDumpedFirst
    <3>2. Rooted(db[ALL_TABLES[i]], db[Parent(ALL_TABLES[i])])
      BY <1>16, <3>1 DEF DataInv, SchemaSound
    <3>3. db[Parent(ALL_TABLES[i])] \subseteq e[Parent(ALL_TABLES[i])]
      <4>1. Parent(ALL_TABLES[i]) \in {"companies", "webhooks"}
        BY <1>16, <3>1, ParentTables
      <4>2. CASE Parent(ALL_TABLES[i]) = "companies"
        BY <1>4, <1>9, <1>16, <4>2
      <4>3. CASE Parent(ALL_TABLES[i]) = "webhooks"
        <5>1. j = 10
          BY <2>1, <4>3, DumpPlaces, ParentsAreDumpedFirst DEF Positions, NTables
        <5>2. n + 1 > 10
          BY <1>4, <2>1, <2>3, <5>1
        <5> QED
          BY <1>10, <1>16, <4>3, <5>2
      <4> QED
        BY <4>1, <4>2, <4>3
    <3> QED
      BY <3>1, <3>2, <3>3, StillRooted
  <2> QED
    BY <1>4, <1>16, <2>2, <2>3 DEF Positions, NTables
<1>17. Dumped(dump.at)'
  BY <1>3, <1>9, <1>10, <1>11, <1>12, <1>13, <1>14, <1>15, <1>16 DEF Dumped, e
<1>18. DumpSound'
  <2>1. ASSUME NEW u \in Tables, Keyed(u) PROVE Unique(e[u])
    <3>1. PICK i \in Positions : u = ALL_TABLES[i]
      BY ParentsAreDumpedFirst
    <3>2. Unique(d[u]) /\ Unique(db[u])
      BY <1>2, <2>1 DEF DataInv, DumpSound, d
    <3> QED
      BY <1>6, <3>1, <3>2
  <2> QED
    BY <1>3, <1>17, <2>1 DEF DumpSound, e
<1>19. FileSound'
  BY <1>2, <1>3, <1>4 DEF FileSound, SealStage, WriteStage, NTables
<1>20. RowsShaped(dump.tables)' /\ RowsShaped(file.tables)'
  <2>1. RowsShaped(d) /\ RowsShaped(db) /\ RowsShaped(file.tables)
    BY DEF DataInv, Shaped, d
  <2>2. RowsShaped(e)
    BY <1>7, <2>1 DEF RowsShaped
  <2> QED
    BY <1>3, <2>1, <2>2 DEF RowsShaped, e
<1> QED
  BY <1>1, <1>2, <1>3, <1>18, <1>19, <1>20, DumpFrame DEF DumpTable, history

\* Empty tables satisfy everything that is asked of content.
LEMMA NoRows ==
  LET d == [t \in Tables |-> {}] IN
  /\ RowsShaped(d)
  /\ \A t \in Tables : Unique(d[t]) /\ \A u : Rooted(d[t], d[u])
  /\ Covered(d["records"], d["signed_tree_heads"])
  /\ Within(d["signed_tree_heads"], d["records"])
  /\ Known(d["records"], d["keys"] \cup d["keys_history"])
  /\ Verified(d["signed_tree_heads"], d["ca_key"])
<1> DEFINE d == [t \in Tables |-> {}]
<1>1. \A t \in Tables : d[t] = {}
  OBVIOUS
<1>2. /\ d["records"] = {} /\ d["signed_tree_heads"] = {} /\ d["keys"] = {} /\ d["keys_history"] = {}
  BY DEF Tables
<1> HIDE DEF d
<1>3. RowsShaped(d)
  BY <1>2, FS_EmptySet DEF RowsShaped, Numbered
<1>4. \A t \in Tables : Unique(d[t]) /\ \A u : Rooted(d[t], d[u])
  BY <1>1 DEF Unique, Rooted
<1>5. /\ Covered(d["records"], d["signed_tree_heads"])
      /\ Within(d["signed_tree_heads"], d["records"])
      /\ Known(d["records"], d["keys"] \cup d["keys_history"])
      /\ Verified(d["signed_tree_heads"], d["ca_key"])
  BY <1>2 DEF Covered, Within, Known, Verified
<1> QED
  BY <1>3, <1>4, <1>5 DEF d

\* The file gets what the dump has read, and is believed with its checksum.
LEMMA WriteBackupDataInv == ASSUME DataInv, WriteBackup PROVE DataInv'
<1> DEFINE d == dump.tables
           none == [t \in Tables |-> {}]
<1>1. IInv' /\ TypeOK /\ dump.at > 0
  BY DumpIInv DEF DataInv, IInv, WriteBackup, WriteStage, NTables
<1>2. restore.pc = "idle"
  BY <1>1, DumpsAreEarly
<1>3. /\ file' = [status |-> "written", tables |-> d] /\ dump' = [at |-> SealStage, tables |-> none]
      /\ UNCHANGED <<db, fresh, during, raced>> /\ dump.at = WriteStage
  BY DEF WriteBackup, database, history
<1>4. Dumped(WriteStage) /\ \A t \in Tables : Keyed(t) => Unique(d[t])
  BY <1>3 DEF DataInv, DumpSound, WriteStage, NTables
<1>5. dump'.at = SealStage /\ dump'.tables = none /\ file'.tables = d
  BY <1>3
<1> HIDE DEF d, none
<1>6. DumpSound'
  <2>1. \A t \in Tables : Unique(none[t])
    BY NoRows DEF none
  <2>2. SealStage \notin 1 .. WriteStage
    BY DEF SealStage, WriteStage, NTables
  <2> QED
    BY <1>5, <2>1, <2>2 DEF DumpSound
<1>7. FileSound'
  <2>1. ASSUME during \cap {"company", "webhook"} = {}, NEW t \in Tables, Parent(t) # t
        PROVE  Rooted(d[t], d[Parent(t)])
    <3>1. PICK i \in Positions : ALL_TABLES[i] = t /\ i < WriteStage
      BY ParentsAreDumpedFirst DEF Positions, NTables, WriteStage
    <3> QED
      BY <1>4, <2>1, <3>1 DEF Dumped, d
  <2>2. /\ during \cap {"rotate", "key"} = {} => Known(d["records"], d["keys"] \cup d["keys_history"])
        /\ Covered(d["records"], d["signed_tree_heads"])
        /\ "attest" \notin during => Within(d["signed_tree_heads"], d["records"])
        /\ ~raced /\ "ca" \notin during => Verified(d["signed_tree_heads"], d["ca_key"])
    BY <1>4 DEF Dumped, WriteStage, NTables, d
  <2> QED
    BY <1>3, <1>4, <1>5, <2>1, <2>2 DEF FileSound
<1>8. RowsShaped(dump.tables)' /\ RowsShaped(file.tables)'
  <2>1. RowsShaped(none) /\ RowsShaped(d)
    BY NoRows DEF none, DataInv, Shaped, d
  <2> QED
    BY <1>3, <1>5, <2>1 DEF RowsShaped
<1> QED
  BY <1>1, <1>2, <1>6, <1>7, <1>8, DumpFrame DEF WriteBackup, history

LEMMA WriteChecksumDataInv == ASSUME DataInv, WriteChecksum PROVE DataInv'
<1>1. IInv' /\ TypeOK
  BY DumpIInv DEF DataInv, IInv
<1>2. /\ file'.tables = file.tables /\ file'.status = "sealed" /\ dump.at = SealStage
      /\ dump'.at = 0 /\ dump'.tables = dump.tables /\ UNCHANGED <<db, fresh, during, raced>>
  BY <1>1 DEF WriteChecksum, database, history, TypeOK
<1>3. DumpSound'
  BY <1>2 DEF DataInv, DumpSound
<1>4. FileSound'
  BY <1>2 DEF DataInv, FileSound
<1>5. RowsShaped(dump.tables)' /\ RowsShaped(file.tables)'
  BY <1>2 DEF DataInv, Shaped, RowsShaped
<1> QED
  BY <1>1, <1>2, <1>3, <1>4, <1>5, DumpFrame DEF WriteChecksum, history

\* A dump that dies leaves its file without the checksum.
LEMMA DumpDiesDataInv == ASSUME DataInv, DumpDies PROVE DataInv'
<1> DEFINE none == [t \in Tables |-> {}]
<1>1. IInv' /\ TypeOK
  BY DumpIInv DEF DataInv, IInv
<1>2. restore.pc = "idle" /\ file.status # "sealed"
  BY DumpsAreEarly DEF DumpDies
<1>3. /\ file' = file /\ dump'.at = 0 /\ dump'.tables = none
      /\ UNCHANGED <<db, fresh, during, raced>>
  BY DEF DumpDies, database, history
<1> HIDE DEF none
<1>4. DumpSound'
  <2>1. \A t \in Tables : Unique(none[t])
    BY NoRows DEF none
  <2> QED
    BY <1>3, <2>1 DEF DumpSound
<1>5. FileSound'
  BY <1>2, <1>3 DEF FileSound, SealStage, NTables
<1>6. RowsShaped(dump.tables)' /\ RowsShaped(file.tables)'
  <2>1. RowsShaped(none) /\ RowsShaped(file.tables)
    BY NoRows DEF none, DataInv, Shaped
  <2> QED
    BY <1>3, <2>1 DEF RowsShaped
<1> QED
  BY <1>1, <1>2, <1>4, <1>5, <1>6, DumpFrame DEF DumpDies, history

-----------------------------------------------------------------------------
(* The restore                                                             *)

\* A table is restored after the table its rows refer to.
LEMMA ParentsAreInsertedFirst ==
  ASSUME NEW i \in Positions, Parent(INSERT_ORDER[i]) # INSERT_ORDER[i]
  PROVE  \E j \in Positions : j < i /\ INSERT_ORDER[j] = Parent(INSERT_ORDER[i])
<1>1. Parent(INSERT_ORDER[i]) \in {"companies", "webhooks"}
  BY PlacesAreTables, ParentTables
<1>2. CASE Parent(INSERT_ORDER[i]) = "webhooks"
  <2>1. INSERT_ORDER[i] = "webhook_deliveries"
    BY <1>2, PlacesAreTables, ParentTables
  <2>2. i = 13
    BY <2>1, Places, PlacesDiffer DEF Positions, NTables
  <2> QED
    BY <1>2, <2>2, Places DEF Positions, NTables
<1>3. CASE Parent(INSERT_ORDER[i]) = "companies"
  <2>1. i \notin {1, 2, 3}
    BY Places DEF Parent
  <2> QED
    BY <1>3, <2>1, Places DEF Positions, NTables
<1> QED
  BY <1>1, <1>2, <1>3

\* A restore with the database to itself: the log in it is within its records at any
\* time, and when it counts, the database is the backup.
LEMMA AloneRestoring ==
  IInv /\ Stages /\ FileSound /\ Restoring =>
    /\ LogSound
    /\ restore.pc = "count" =>
         HeadsCover /\ KeysSound /\ CaSound /\ (~mixed => db = file.tables)
<1> SUFFICES ASSUME IInv, Stages, FileSound, Restoring, ~mixed
             PROVE  /\ LogSound
                    /\ restore.pc = "count" =>
                         HeadsCover /\ KeysSound /\ CaSound /\ db = file.tables
  BY DEF LogSound, HeadsCover, KeysSound, CaSound
<1> DEFINE f == file.tables
<1>1. /\ \A i \in Positions : db[INSERT_ORDER[i]] = Inserted(restore, i)
      /\ \A s \in Servers : mode[s] = "down"
      /\ \A s \in Servers, c \in Companies : tenants[s][c] = NoTenant
      /\ TypeOK /\ file.status = "sealed"
  BY DEF IInv, Exclusive, Sealed, Stages
<1>2. restore.pc # "idle"
  BY DEF Restoring
<1>3. /\ during \cap {"rotate", "key"} = {} => Known(f["records"], f["keys"] \cup f["keys_history"])
      /\ Covered(f["records"], f["signed_tree_heads"])
      /\ "attest" \notin during => Within(f["signed_tree_heads"], f["records"])
      /\ ~raced /\ "ca" \notin during => Verified(f["signed_tree_heads"], f["ca_key"])
  BY <1>1 DEF FileSound
<1>4. LogSound
  <2> SUFFICES ASSUME "attest" \notin during PROVE Within(db["signed_tree_heads"], db["records"])
    BY <1>1, <1>2 DEF LogSound, LogWithin, Unmissed
  <2>1. db["records"] = Inserted(restore, 7) /\ db["signed_tree_heads"] = Inserted(restore, 14)
    BY <1>1, Places DEF Positions, NTables
  <2>2. CASE Inserted(restore, 14) = {}
    BY <2>1, <2>2 DEF Within
  <2>3. CASE Inserted(restore, 14) # {}
    <3>1. restore.pc = "count" \/ (restore.pc = "insert" /\ restore.at = 14)
      BY <1>1, <2>3 DEF Inserted, TypeOK, NTables
    <3>2. Inserted(restore, 7) = f["records"] /\ Inserted(restore, 14) \subseteq f["signed_tree_heads"]
      BY <3>1, Places DEF Inserted
    <3> QED
      BY <1>3, <2>1, <3>2 DEF Within
  <2> QED
    BY <2>2, <2>3
<1>5. ASSUME restore.pc = "count" PROVE HeadsCover /\ KeysSound /\ CaSound /\ db = f
  <2>1. \A i \in Positions : db[INSERT_ORDER[i]] = f[INSERT_ORDER[i]]
    BY <1>1, <1>5 DEF Inserted
  <2>2. \A t \in Tables : db[t] = f[t]
    BY <2>1, EveryTableHasAPlace
  <2>3. db = f
    BY <1>1, <2>2 DEF TypeOK, TablesOK
  <2>4. HeadsCover
    BY <1>3, <2>3 DEF HeadsCover
  <2>5. KeysSound
    BY <1>1, <1>2, <1>3, <2>3 DEF KeysSound, KeysKnown, Unmissed
  <2>6. CaSound
    BY <1>1, <1>2, <1>3, <2>3 DEF CaSound, CaKnown, Unmissed
  <2> QED
    BY <2>3, <2>4, <2>5, <2>6
<1> QED
  BY <1>4, <1>5

\* What a step of a restore needs to keep of the database.
LEMMA RestoreFrame ==
  ASSUME DataInv, IInv', UNCHANGED <<fresh, tenants, caKeys, mode, dump, file, during, raced>>,
         restore'.pc # "idle", file.status = "sealed",
         RowsShaped(db)', SchemaSound', RefusedOnlyOnLateParents',
         \/ restore'.pc \in {"create", "insert", "count"}
         \/ UNCHANGED <<db, mixed>> /\ restore.pc # "idle" /\ (Partial' \/ ~Partial)
  PROVE  DataInv'
<1>1. Shaped'
  BY DEF DataInv, Shaped, RowsShaped
<1>2. Stages'
  BY DEF DataInv, Stages
<1>3. DumpSound' /\ FileSound'
  <2>1. dump.at = 0
    BY DEF DataInv, IInv, Sealed
  <2>2. DumpSound'
    BY <2>1 DEF DataInv, DumpSound
  <2> QED
    BY <2>2 DEF DataInv, FileSound
<1>4. HeadsCover' /\ LogSound' /\ KeysSound' /\ CaSound'
  <2>1. CASE restore'.pc \in {"create", "insert", "count"}
    <3>1. (IInv /\ Stages /\ FileSound /\ Restoring)'
      BY <1>2, <1>3, <2>1 DEF Restoring
    <3>2. (IInv /\ Stages /\ FileSound /\ Restoring)' =>
            /\ LogSound'
            /\ (restore.pc = "count")' =>
                 HeadsCover' /\ KeysSound' /\ CaSound' /\ (~mixed => db = file.tables)'
      BY AloneRestoring, PTL
    <3>3. restore'.pc # "count" => Partial'
      BY <2>1 DEF Partial
    <3> QED
      BY <3>1, <3>2, <3>3 DEF HeadsCover, KeysSound, CaSound
  <2>2. CASE UNCHANGED <<db, mixed>> /\ restore.pc # "idle" /\ (Partial' \/ ~Partial)
    <3>1. \A kinds : Unmissed(kinds)' => Unmissed(kinds)
      BY <2>2 DEF Unmissed
    <3>2. LogWithin' = LogWithin /\ KeysKnown' = KeysKnown /\ CaKnown' = CaKnown
      BY <2>2 DEF LogWithin, KeysKnown, CaKnown, RowsOf
    <3>3. HeadsCover'
      BY <2>2 DEF DataInv, HeadsCover
    <3> QED
      BY <2>2, <3>1, <3>2, <3>3 DEF DataInv, LogSound, KeysSound, CaSound
  <2> QED
    BY <2>1, <2>2
<1> QED
  BY <1>1, <1>2, <1>3, <1>4 DEF DataInv

\* A restore takes its content from the file, table by table.
LEMMA BeginRestoreDataInv == ASSUME DataInv, BeginRestore PROVE DataInv'
<1> DEFINE none == [t \in Tables |-> {}]
<1>1. IInv' /\ TypeOK
  BY BeginRestoreIInv DEF DataInv, IInv
<1>2. /\ db' = none /\ restore'.pc = "create" /\ file.status = "sealed"
      /\ UNCHANGED <<fresh, tenants, caKeys, mode, dump, file, during, raced>>
  BY DEF BeginRestore, servers
<1> HIDE DEF none
<1>3. RowsShaped(none) /\ \A t \in Tables : Unique(none[t]) /\ \A u : Rooted(none[t], none[u])
  BY NoRows DEF none
<1>4. RowsShaped(db)'
  BY <1>2, <1>3 DEF RowsShaped
<1>5. SchemaSound' /\ RefusedOnlyOnLateParents'
  BY <1>2, <1>3 DEF SchemaSound, RefusedOnlyOnLateParents
<1> QED
  BY <1>1, <1>2, <1>4, <1>5, RestoreFrame

LEMMA RecreateSchemaDataInv == ASSUME DataInv, RecreateSchema PROVE DataInv'
<1>1. IInv' /\ TypeOK
  BY RecreateSchemaIInv DEF DataInv, IInv
<1>2. /\ UNCHANGED <<db, fresh, tenants, caKeys, mode, dump, file, during, mixed, raced>>
      /\ restore' = Onward(1) /\ restore.pc = "create"
  BY DEF RecreateSchema, servers, history
<1>3. restore'.pc \in {"insert", "count"}
  <2>1. 1 \in 1 .. NTables + 1
    BY DEF NTables
  <2> QED
    BY <1>2, <2>1, OnwardInserts
<1>4. file.status = "sealed"
  BY <1>2 DEF DataInv, Stages
<1>5. RowsShaped(db)' /\ SchemaSound' /\ RefusedOnlyOnLateParents'
  BY <1>2, <1>3 DEF DataInv, Shaped, RowsShaped, SchemaSound, RefusedOnlyOnLateParents
<1> QED
  BY <1>1, <1>2, <1>3, <1>4, <1>5, RestoreFrame

LEMMA InsertRowDataInv == ASSUME DataInv, InsertRow PROVE DataInv'
<1> DEFINE t == INSERT_ORDER[restore.at]
<1>1. IInv' /\ TypeOK /\ restore.at \in Positions
  BY InsertRowIInv DEF DataInv, IInv, TypeOK, Positions
<1>2. /\ UNCHANGED <<fresh, tenants, caKeys, mode, dump, file, during, mixed, raced>>
      /\ restore.pc = "insert"
  BY DEF InsertRow, servers, history
<1>3. PICK row \in restore.rows :
        /\ Inserts(db, t, row) /\ db' = With(db, t, row)
        /\ restore' = IF restore.rows = {row} THEN Onward(restore.at + 1)
                      ELSE [restore EXCEPT !.rows = @ \ {row}]
  BY DEF InsertRow
<1>4. restore'.pc \in {"insert", "count"}
  <2>1. CASE restore.rows = {row}
    <3>1. restore.at + 1 \in 1 .. NTables + 1
      BY <1>1 DEF Positions, NTables
    <3> QED
      BY <1>3, <2>1, <3>1, OnwardInserts
  <2>2. CASE restore.rows # {row}
    BY <1>1, <1>2, <1>3, <2>2 DEF TypeOK
  <2> QED
    BY <2>1, <2>2
<1>5. file.status = "sealed"
  BY <1>2 DEF DataInv, Stages
<1>6. t \in Tables /\ Inserted1(t, row)
  <2>1. t \in Tables
    BY <1>1, PlacesAreTables
  <2> HIDE DEF t
  <2> QED
    BY <1>1, <1>3, <2>1, WithRow DEF Inserted1, Same, TypeOK
<1>7. SchemaSound'
  BY <1>1, <1>4, <1>6, InsertsKeepSchema DEF DataInv
<1>8. row \in file.tables[t]
  BY <1>2, <1>3 DEF DataInv, IInv, RowsOK
<1> HIDE DEF t
<1>9. RowsShaped(db)'
  <2>1. RowsShaped(db) /\ RowsShaped(file.tables)
    BY DEF DataInv, Shaped
  <2>2. /\ db'[t] = db[t] \cup {row} /\ \A u \in Tables \ {t} : db'[u] = db[u]
    BY <1>6 DEF Inserted1, Same
  <2>3. Numbered(db'["records"]) /\ Numbered(db'["signed_tree_heads"])
    BY <1>8, <2>1, <2>2 DEF RowsShaped, Numbered, Tables
  <2>4. IsFiniteSet(db'["records"])
    <3>1. db'["records"] = db["records"] \/ db'["records"] = db["records"] \cup {row}
      BY <2>2 DEF Tables
    <3> QED
      BY <2>1, <3>1, FS_AddElement DEF RowsShaped
  <2>5. \A k \in db'["keys"] : k.id = k.ref
    BY <1>8, <2>1, <2>2 DEF RowsShaped, Tables
  <2>6. \A k \in db'["keys_history"] : k.id \in Nat /\ k.id <= fresh
    BY <1>8, <2>1, <2>2 DEF RowsShaped, Tables
  <2> QED
    BY <1>2, <2>3, <2>4, <2>5, <2>6 DEF RowsShaped
<1>10. RefusedOnlyOnLateParents'
  BY <1>4 DEF RefusedOnlyOnLateParents
<1> QED
  BY <1>1, <1>2, <1>4, <1>5, <1>7, <1>9, <1>10, RestoreFrame

\* A row of a backup that a restore of its own refuses has lost its parent.
LEMMA RefusedForItsParent ==
  ASSUME DataInv, restore.pc = "insert", NEW row \in restore.rows,
         ~Inserts(db, INSERT_ORDER[restore.at], row)
  PROVE  mixed \/ during \cap {"company", "webhook"} # {}
<1> SUFFICES ASSUME ~mixed, during \cap {"company", "webhook"} = {}
             PROVE  FALSE
  OBVIOUS
<1> DEFINE n == restore.at
           t == INSERT_ORDER[n]
           f == file.tables
<1>1. n \in Positions /\ Restoring /\ file.status = "sealed" /\ t \in Tables
  BY PlacesAreTables DEF DataInv, IInv, TypeOK, Positions, Restoring, Stages
<1>2. \A i \in Positions : db[INSERT_ORDER[i]] = Inserted(restore, i)
  BY <1>1 DEF DataInv, IInv, Exclusive
<1>3. /\ \A u \in Tables : Keyed(u) => Unique(f[u])
      /\ \A u \in Tables : Parent(u) # u => Rooted(f[u], f[Parent(u)])
  BY <1>1 DEF DataInv, FileSound
<1>4. row \in f[t]
  BY DEF DataInv, IInv, RowsOK
<1>5. Keyed(t) => \A r \in db[t] : r.id # row.id
  <2>1. db[t] = f[t] \ restore.rows
    BY <1>1, <1>2 DEF Inserted, Positions, NTables
  <2> HIDE DEF t, f
  <2> QED
    BY <1>1, <1>3, <1>4, <2>1 DEF Unique
<1>6. Parent(t) # t => \E p \in db[Parent(t)] : p.id = row.ref
  <2> SUFFICES ASSUME Parent(t) # t PROVE \E p \in db[Parent(t)] : p.id = row.ref
    OBVIOUS
  <2>1. PICK j \in Positions : j < n /\ INSERT_ORDER[j] = Parent(t)
    BY <1>1, ParentsAreInsertedFirst
  <2>2. db[Parent(t)] = f[Parent(t)]
    BY <1>2, <2>1 DEF Inserted
  <2>3. Rooted(f[t], f[Parent(t)])
    BY <1>1, <1>3
  <2> HIDE DEF t, f
  <2> QED
    BY <1>4, <2>2, <2>3 DEF Rooted
<1> QED
  BY <1>5, <1>6 DEF Inserts

LEMMA RestoreStopsDataInv ==
  ASSUME DataInv, InsertRowFails \/ RestoreDies \/ ImportedDumpExits \/ CountTable
  PROVE  DataInv'
<1>1. IInv' /\ TypeOK
  BY RestoreStopsIInv, CountTableIInv DEF DataInv, IInv
<1>2. UNCHANGED <<db, schema, fresh, tenants, caKeys, mode, dump, file, during, mixed, raced>>
  BY DEF InsertRowFails, RestoreDies, ImportedDumpExits, CountTable, database, servers, history
<1>3. /\ restore.pc \in {"create", "insert", "count"}
      /\ restore'.pc \in {"failed", "interrupted", "done", "count"}
      /\ restore'.pc \in {"done", "count"} => restore.pc = "count"
  <2>1. CASE InsertRowFails
    BY <1>1, <2>1 DEF InsertRowFails, TypeOK
  <2>2. CASE RestoreDies \/ ImportedDumpExits
    <3>1. restore'.pc = "interrupted"
      BY <2>2 DEF RestoreDies, ImportedDumpExits
    <3> QED
      BY <2>2, <3>1 DEF RestoreDies, ImportedDumpExits, Restoring
  <2>3. CASE CountTable
    BY <1>1, <2>3 DEF CountTable, TypeOK
  <2> QED
    BY <2>1, <2>2, <2>3
<1>4. file.status = "sealed"
  BY <1>3 DEF DataInv, Stages
<1>5. RowsShaped(db)' /\ SchemaSound'
  BY <1>2, <1>3 DEF DataInv, Shaped, RowsShaped, SchemaSound
<1>6. RefusedOnlyOnLateParents'
  <2> SUFFICES ASSUME restore'.pc = "failed" PROVE mixed \/ during \cap {"company", "webhook"} # {}
    BY <1>2 DEF RefusedOnlyOnLateParents
  <2>1. CASE InsertRowFails
    BY <2>1, RefusedForItsParent DEF InsertRowFails
  <2>2. CASE RestoreDies \/ ImportedDumpExits
    <3>1. restore'.pc = "interrupted"
      BY <2>2 DEF RestoreDies, ImportedDumpExits
    <3> QED
      BY <3>1
  <2>3. CASE CountTable
    <3> SUFFICES ASSUME ~mixed PROVE FALSE
      OBVIOUS
    <3>1. db = file.tables
      BY <2>3, AloneRestoring DEF DataInv, CountTable, Restoring
    <3>2. restore' = IF restore.at = NTables THEN [restore EXCEPT !.pc = "done"]
                     ELSE [restore EXCEPT !.at = @ + 1]
      BY <2>3, <3>1 DEF CountTable
    <3> QED
      BY <1>1, <2>3, <3>2 DEF TypeOK, CountTable
  <2> QED
    BY <2>1, <2>2, <2>3
<1>7. Partial' \/ ~Partial
  BY <1>3 DEF Partial
<1> QED
  BY <1>1, <1>2, <1>3, <1>4, <1>5, <1>6, <1>7, RestoreFrame

-----------------------------------------------------------------------------
(* The backup and what is restored from it                                 *)

\* The databases a behaviour begins with are sound.
LEMMA InitDataInv == Init => DataInv
<1> SUFFICES ASSUME Init PROVE DataInv
  OBVIOUS
<1> DEFINE none == [t \in Tables |-> {}]
<1>1. Sound(db)
  <2>1. CASE schema
    BY <2>1, DatabasesAssumption DEF Init
  <2>2. CASE ~schema
    <3>1. db = none
      BY <2>2 DEF Init
    <3>2. /\ RowsShaped(none) /\ none["keys_history"] = {}
          /\ \A t \in Tables : Unique(none[t]) /\ \A u : Rooted(none[t], none[u])
          /\ Covered(none["records"], none["signed_tree_heads"])
          /\ Within(none["signed_tree_heads"], none["records"])
          /\ Known(none["records"], none["keys"] \cup none["keys_history"])
          /\ Verified(none["signed_tree_heads"], none["ca_key"])
      BY NoRows DEF Tables
    <3> HIDE DEF none
    <3> QED
      BY <3>1, <3>2 DEF Sound, RowsShaped
  <2> QED
    BY <2>1, <2>2
<1>2. /\ fresh = 2 /\ dump.at = 0 /\ dump.tables = none /\ file.tables = none
      /\ file.status = "none" /\ restore.pc = "idle" /\ ~mixed
      /\ mode = [s \in Servers |-> "down"] /\ caKeys = [s \in Servers |-> NoKey]
      /\ tenants = [s \in Servers |-> [c \in Companies |-> NoTenant]]
  BY DEF Init
<1>3. RowsShaped(none) /\ \A t \in Tables : Unique(none[t])
  BY NoRows
<1> HIDE DEF none
<1>4. RowsShaped(db)
  BY <1>1, <1>2 DEF Sound, RowsShaped
<1>5. \A s \in Servers : /\ mode[s] = "down"
                         /\ \A c \in Companies : tenants[s][c] = NoTenant
  BY <1>2
<1>6. Shaped
  <2>1. IsTable(tenants) /\ caKeys = [s \in Servers |-> caKeys[s]]
    BY <1>2 DEF IsTable
  <2> QED
    BY <1>2, <1>3, <1>4, <1>5, <2>1 DEF Shaped
<1>7. Stages /\ SchemaSound /\ RefusedOnlyOnLateParents
  BY <1>1, <1>2, <1>5 DEF Stages, SchemaSound, RefusedOnlyOnLateParents, Sound
<1>8. HeadsCover /\ LogSound /\ KeysSound /\ CaSound
  <2>1. LogWithin /\ KeysKnown /\ CaKnown
    BY <1>1, <1>5 DEF LogWithin, KeysKnown, CaKnown, Sound
  <2> QED
    BY <1>1, <2>1 DEF HeadsCover, LogSound, KeysSound, CaSound, Sound
<1>9. DumpSound /\ FileSound
  BY <1>2, <1>3 DEF DumpSound, FileSound, SealStage, NTables
<1> QED
  BY <1>6, <1>7, <1>8, <1>9, InitIInv DEF DataInv

\* Every step keeps the invariant of the content.
LEMMA StepDataInv == DataInv /\ [Next]_vars => DataInv'
<1> SUFFICES ASSUME DataInv, [Next]_vars PROVE DataInv'
  OBVIOUS
<1>1. CASE UNCHANGED vars
  <2>1. IInv'
    BY <1>1, StepIInv DEF DataInv
  <2>2. UNCHANGED <<database, servers, restore, attempts, mixed, raced, during, dump, file>>
    BY <1>1 DEF vars, scripts, history
  <2>3. /\ RowsShaped(dump.tables)' /\ RowsShaped(file.tables)'
        /\ restore.pc # "idle" => file'.status = "sealed"
    BY <2>2 DEF DataInv, Shaped, RowsShaped, Stages, database
  <2>4. DumpSound' /\ FileSound'
    BY <2>2 DEF DataInv, DumpSound, FileSound, Dumped, database
  <2> QED
    BY <2>1, <2>2, <2>3, <2>4, DumpFrame
<1> QED
  BY <1>1, ServerDataInv, BeginDumpDataInv, DumpTableDataInv, WriteBackupDataInv,
     WriteChecksumDataInv, DumpDiesDataInv, BeginRestoreDataInv, RecreateSchemaDataInv,
     InsertRowDataInv, RestoreStopsDataInv DEF Next

\* Database, dump, file and restore have sound content throughout, unless something
\* of the kind in question was written in between.
THEOREM DataInvariance == Spec => []DataInv
BY InitDataInv, StepDataInv, PTL DEF Spec

\* A restore into a database of its own has an INSERT refused, or a count differ, only on
\* a backup during which a company or a webhook was created.
THEOREM RefusesOnlyLateParents == Spec => []RefusedOnlyOnLateParents
<1>1. DataInv => RefusedOnlyOnLateParents
  BY DEF DataInv
<1> QED
  BY <1>1, DataInvariance, PTL

\* What is restored has no record beyond its tree heads, and a server's latest tree head
\* covers its chain unless an action was attested during the dump or a server ran during
\* the restore.
THEOREM HeadsFit == Spec => []HeadsFitRecords
<1>1. DataInv => HeadsFitRecords
  BY DEF DataInv, HeadsFitRecords, HeadsCover, LogSound, LogWithin, Unmissed
<1> QED
  BY <1>1, DataInvariance, PTL

\* After a restore the key of every record is still stored, unless a key was made
\* during the dump.
THEOREM SignersKnown == Spec => []SignersAreKnown
<1>1. DataInv => SignersAreKnown
  BY DEF DataInv, SignersAreKnown, KeysSound, KeysKnown, Unmissed
<1> QED
  BY <1>1, DataInvariance, PTL

\* After a restore every tree head verifies under the stored CA key or the one that the
\* operator keeps in the environment, unless the stored one was saved during the dump or by
\* two servers.
THEOREM HeadsStayVerifiable == Spec => []HeadsVerify
<1>1. DataInv => HeadsVerify
  BY DEF DataInv, HeadsVerify, CaSound, CaKnown, Unmissed
<1> QED
  BY <1>1, DataInvariance, PTL
=============================================================================

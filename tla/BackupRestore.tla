---------------------------- MODULE BackupRestore ----------------------------
(***************************************************************************)
(* scripts/backup-db.ts and scripts/restore-db.ts against a database that  *)
(* servers use (src/db/store.ts, src/api/app.ts).                          *)
(*                                                                         *)
(* A dump is one SELECT per table, a restore one DROP, the schema, one     *)
(* INSERT per row and one COUNT per table: each is a transaction of its    *)
(* own, so each is an action, and a server may come in between any two,    *)
(* or the script may die.  A table is a set of rows [id, ref, val] under   *)
(* the primary key id; ref is the parent row it references.  Only what a   *)
(* restored server depends on is kept of a row: its keys, the key that     *)
(* signed it.  A handler of the server is one step: what happens inside    *)
(* one is the subject of AttestationLog, KeyCustody and WebhookDelivery.   *)
(***************************************************************************)
EXTENDS Naturals, Sequences, FiniteSets

CONSTANTS
  Servers,         \* server processes
  Serving,         \* those of them that requests reach
  Companies,       \* company ids
  Databases,       \* the databases a behaviour may begin with
  Provisioned,     \* servers that may be given a CA key in their environment
  ExternalCaKey,   \* that key: VANE_CA_PRIVATE_KEY and VANE_CA_PUBLIC_KEY
  OtherTables,     \* tables without a role of their own that handlers write to
  MaxFresh,        \* bound on generated keys and ids
  MaxWrites,       \* bound on committed handlers
  MaxRestores,     \* bound on starts of the restore script
  NoTenant, NoKey

\* Mutant of ALL_TABLES: a table of the schema is left out, the retired keys.
TablesNoHistory ==
  <<"companies", "keys", "api_keys", "agents", "records", "companies",
    "revoked_passports", "oauth_clients", "oauth_tokens", "webhooks",
    "webhook_deliveries", "ca_key", "issuance_rate_limit_events", "signed_tree_heads">>
\* Mutant of ALL_TABLES: the CA key is left out.
TablesNoCaKey ==
  <<"companies", "keys", "api_keys", "agents", "records", "keys_history",
    "revoked_passports", "oauth_clients", "oauth_tokens", "webhooks",
    "webhook_deliveries", "companies", "issuance_rate_limit_events", "signed_tree_heads">>
\* Mutant of ALL_TABLES: the tree heads are dumped before the records.
TablesHeadsFirst ==
  <<"companies", "keys", "api_keys", "agents", "signed_tree_heads", "keys_history",
    "revoked_passports", "oauth_clients", "oauth_tokens", "webhooks",
    "webhook_deliveries", "ca_key", "issuance_rate_limit_events", "records">>

\* Dump order: all tables of the schema.
ALL_TABLES ==
  <<"companies", "keys", "api_keys", "agents", "records", "keys_history",
    "revoked_passports", "oauth_clients", "oauth_tokens", "webhooks",
    "webhook_deliveries", "ca_key", "issuance_rate_limit_events", "signed_tree_heads">>

\* Mutant of INSERT_ORDER: the dump order of the webhook tables swapped.
DeliveriesFirst ==
  <<"ca_key", "issuance_rate_limit_events", "companies", "keys", "api_keys",
    "agents", "records", "keys_history", "revoked_passports", "oauth_clients",
    "oauth_tokens", "webhook_deliveries", "webhooks", "signed_tree_heads">>

\* Parents before children.
INSERT_ORDER ==
  <<"ca_key", "issuance_rate_limit_events", "companies", "keys", "api_keys",
    "agents", "records", "keys_history", "revoked_passports", "oauth_clients",
    "oauth_tokens", "webhooks", "webhook_deliveries", "signed_tree_heads">>

Tables == {"companies", "keys", "api_keys", "agents", "records", "keys_history",
           "revoked_passports", "oauth_clients", "oauth_tokens", "webhooks",
           "webhook_deliveries", "ca_key", "issuance_rate_limit_events", "signed_tree_heads"}
NTables == 14

ASSUME BoundsAssumption ==
  /\ Serving \subseteq Servers /\ Provisioned \subseteq Servers
  /\ MaxFresh \in Nat /\ MaxWrites \in Nat /\ MaxRestores \in Nat
  /\ OtherTables \subseteq {"api_keys", "agents", "revoked_passports", "oauth_clients",
                            "oauth_tokens", "issuance_rate_limit_events"}
  /\ \A d \in Databases : d = [t \in Tables |-> d[t]]

VARIABLES
  schema,          \* the tables exist
  db,              \* table -> its rows
  fresh,           \* keys and ids generated so far
  writes,          \* handlers that committed
  mode,            \* per server: "down", "init", "mint" (it found no CA key) or "up"
  caKeys,          \* per server: the CA key it holds
  tenants,         \* per server and company: [keys, length, latestSth] or NoTenant
  dump,            \* [at |-> table to read next, 0 if idle; tables |-> what was read]
  file,            \* the backup: [status: "none", "written" or "sealed" by its checksum; tables]
  restore,         \* [pc, at, rows]: stage, table, rows of it still to insert
  attempts,        \* starts of the restore script
  during,          \* history: the kinds of handlers that committed during the dump
  mixed,           \* history: a server ran between this restore's DROP and its end
  raced            \* history: a CA key was saved over another

database == <<schema, db, fresh, writes>>
servers  == <<mode, caKeys, tenants>>
scripts  == <<dump, file, restore, attempts>>
history  == <<during, mixed, raced>>
vars == <<database, servers, scripts, history>>

-----------------------------------------------------------------------------
(* The schema                                                              *)

Row(id, ref, val) == [id |-> id, ref |-> ref, val |-> val]

\* The table a row's foreign key references; itself: none.
Parent(t) ==
  CASE t \in {"companies", "ca_key", "issuance_rate_limit_events"} -> t
    [] t = "webhook_deliveries" -> "webhooks"
    [] OTHER -> "companies"

Keyed(t) == t # "issuance_rate_limit_events"

\* The constraints an INSERT is subject to.
Inserts(d, t, row) ==
  /\ Keyed(t) => \A r \in d[t] : r.id # row.id
  /\ Parent(t) # t => \E p \in d[Parent(t)] : p.id = row.ref

With(d, t, row) == [d EXCEPT ![t] = @ \cup {row}]
Upsert(d, t, row) == [d EXCEPT ![t] = {r \in @ : r.id # row.id} \cup {row}]

(* What a server that runs alone keeps true of the tables it writes.       *)

Unique(rows) == \A r, q \in rows : r.id = q.id => r = q
Rooted(rows, parents) == \A r \in rows : \E p \in parents : p.id = r.ref
Numbered(rows) == \A r \in rows : r.id = <<r.ref, r.id[2]>> /\ r.id[2] \in Nat

\* Every record is under a tree head, no tree head goes beyond the records, every
\* record's key is among a company's keys, every tree head's is the stored CA key
\* or the one that the operator keeps outside the database.
Covered(records, heads) ==
  \A r \in records : \E h \in heads : h.ref = r.ref /\ h.id[2] >= r.id[2]
Within(heads, records) ==
  \A h \in heads : h.id[2] <= Cardinality({r \in records : r.ref = h.ref})
Known(records, keys) == \A r \in records : \E k \in keys : k.ref = r.ref /\ k.val = r.val.key
Verifies(val, caKey) == val = ExternalCaKey \/ \E k \in caKey : k.val = val
Verified(heads, caKey) == \A h \in heads : Verifies(h.val, caKey)

Sound(d) ==
  /\ \A t \in Tables : /\ Keyed(t) => Unique(d[t])
                       /\ Parent(t) # t => Rooted(d[t], d[Parent(t)])
  /\ Numbered(d["records"]) /\ Numbered(d["signed_tree_heads"])
  /\ IsFiniteSet(d["records"])
  /\ \A k \in d["keys"] : k.id = k.ref
  /\ \A k \in d["keys_history"] : k.id \in 1 .. 2
  /\ Covered(d["records"], d["signed_tree_heads"])
  /\ Within(d["signed_tree_heads"], d["records"])
  /\ Known(d["records"], d["keys"] \cup d["keys_history"])
  /\ Verified(d["signed_tree_heads"], d["ca_key"])

\* The database a behaviour begins with was left by servers that generated 1 .. 2.
ASSUME DatabasesAssumption == \A d \in Databases : Sound(d)

RowsOf(c, t) == {r \in db[t] : r.ref = c}
SizesOf(c) == {r.id[2] : r \in RowsOf(c, "signed_tree_heads")}
Latest(S) == IF S = {} THEN 0 ELSE CHOOSE n \in S : \A m \in S : m <= n

-----------------------------------------------------------------------------
Restoring == restore.pc \in {"create", "insert", "count"}

Init ==
  /\ schema \in BOOLEAN
  /\ db \in IF schema THEN Databases ELSE {[t \in Tables |-> {}]}
  /\ fresh = 2 /\ writes = 0
  /\ mode = [s \in Servers |-> "down"]
  /\ caKeys = [s \in Servers |-> NoKey]
  /\ tenants = [s \in Servers |-> [c \in Companies |-> NoTenant]]
  /\ dump = [at |-> 0, tables |-> [t \in Tables |-> {}]]
  /\ file = [status |-> "none", tables |-> [t \in Tables |-> {}]]
  /\ restore = [pc |-> "idle", at |-> 1, rows |-> {}]
  /\ attempts = 0
  /\ during = {} /\ mixed = FALSE /\ raced = FALSE

-----------------------------------------------------------------------------
(* Servers                                                                 *)

\* store.init(): creates what is missing.
Start(s) ==
  /\ mode[s] = "down"
  /\ schema' = TRUE
  /\ mode' = [mode EXCEPT ![s] = "init"]
  /\ mixed' = (mixed \/ Restoring)
  /\ UNCHANGED <<db, fresh, writes, caKeys, tenants, scripts, during, raced>>

\* initCaKey takes the key of the environment: no row is read, none is written.
UseEnvCaKey(s) ==
  /\ mode[s] = "init" /\ s \in Provisioned
  /\ caKeys' = [caKeys EXCEPT ![s] = ExternalCaKey]
  /\ mode' = [mode EXCEPT ![s] = "up"]
  /\ UNCHANGED <<database, tenants, scripts, history>>

\* Without one (a server may be started with and without), it finds the row.
LoadCaKey(s) ==
  /\ mode[s] = "init"
  /\ \E row \in db["ca_key"] : caKeys' = [caKeys EXCEPT ![s] = row.val]
  /\ mode' = [mode EXCEPT ![s] = "up"]
  /\ UNCHANGED <<database, tenants, scripts, history>>

\* initCaKey finds none and generates one ...
MissCaKey(s) ==
  /\ mode[s] = "init" /\ schema /\ db["ca_key"] = {} /\ fresh < MaxFresh
  /\ fresh' = fresh + 1
  /\ caKeys' = [caKeys EXCEPT ![s] = fresh + 1]
  /\ mode' = [mode EXCEPT ![s] = "mint"]
  /\ UNCHANGED <<schema, db, writes, tenants, scripts, history>>

\* ... and saves it, over whatever is there by now.
SaveCaKey(s) ==
  /\ mode[s] = "mint" /\ schema
  /\ db' = Upsert(db, "ca_key", Row(1, 1, caKeys[s]))
  /\ mode' = [mode EXCEPT ![s] = "up"]
  /\ raced' = (raced \/ db["ca_key"] # {})
  /\ during' = IF dump.at > 0 THEN during \cup {"ca"} ELSE during
  /\ UNCHANGED <<schema, fresh, writes, caKeys, tenants, scripts, mixed>>

Stop(s) ==
  /\ mode[s] # "down"
  /\ mode' = [mode EXCEPT ![s] = "down"]
  /\ caKeys' = [caKeys EXCEPT ![s] = NoKey]
  /\ tenants' = [tenants EXCEPT ![s] = [c \in Companies |-> NoTenant]]
  /\ UNCHANGED <<database, scripts, history>>

\* A handler of server s that commits; kinds: what the dump should not have missed.
Commits(s, kinds) ==
  /\ s \in Serving /\ mode[s] = "up" /\ schema /\ writes < MaxWrites
  /\ writes' = writes + 1
  /\ during' = IF dump.at > 0 THEN during \cup kinds ELSE during
  /\ UNCHANGED <<schema, mode, caKeys, scripts, mixed, raced>>

\* initTenant: keys, chain and latest tree head, with a backfilled one where
\* the records go beyond it.
Hydrate(s, c) ==
  LET row == CHOOSE r \in RowsOf(c, "keys") : TRUE
      new == RowsOf(c, "keys") = {}
      keys == IF new THEN fresh + 1 ELSE row.val
      length == Cardinality(RowsOf(c, "records"))
      behind == length > Latest(SizesOf(c))
      saved == IF new THEN Upsert(db, "keys", Row(c, c, keys)) ELSE db
  IN /\ s \in Serving /\ mode[s] = "up" /\ tenants[s][c] = NoTenant
     /\ \E r \in db["companies"] : r.id = c
     /\ new => fresh < MaxFresh
     /\ fresh' = IF new THEN fresh + 1 ELSE fresh
     /\ db' = IF behind
              THEN With(saved, "signed_tree_heads", Row(<<c, length>>, c, caKeys[s]))
              ELSE saved
     /\ tenants' = [tenants EXCEPT ![s][c] =
          [keys |-> keys, length |-> length,
           latestSth |-> IF behind THEN length ELSE Latest(SizesOf(c))]]
     /\ during' = IF new /\ dump.at > 0 THEN during \cup {"key"} ELSE during
     /\ UNCHANGED <<schema, writes, mode, caKeys, scripts, mixed, raced>>

CreateCompany(s, c) ==
  /\ Commits(s, {"company"})
  /\ Inserts(db, "companies", Row(c, c, 0))
  /\ db' = With(db, "companies", Row(c, c, 0))
  /\ UNCHANGED <<fresh, tenants>>

\* POST /v1/attest: the record and the tree head over it in one transaction.
Attest(s, c) ==
  LET tenant == tenants[s][c]
      size == tenant.length + 1
      record == Row(<<c, size>>, c, [key |-> tenant.keys, payload |-> writes + 1])
      sth == Row(<<c, size>>, c, caKeys[s])
  IN /\ tenant # NoTenant
     /\ Commits(s, {"attest"})
     /\ Inserts(db, "records", record) /\ Inserts(db, "signed_tree_heads", sth)
     /\ db' = With(With(db, "records", record), "signed_tree_heads", sth)
     /\ tenants' = [tenants EXCEPT ![s][c].length = size, ![s][c].latestSth = size]
     /\ UNCHANGED fresh

\* rotate-keys: the row of keys goes to keys_history, a new one takes its place.
RotateKeys(s, c) ==
  /\ tenants[s][c] # NoTenant /\ fresh + 1 < MaxFresh
  /\ Commits(s, {"rotate"})
  /\ \E r \in RowsOf(c, "keys") :
       db' = Upsert(With(db, "keys_history", Row(fresh + 1, c, r.val)),
                    "keys", Row(c, c, fresh + 2))
  /\ tenants' = [tenants EXCEPT ![s][c].keys = fresh + 2]
  /\ fresh' = fresh + 2

CreateWebhook(s, c) ==
  /\ fresh < MaxFresh
  /\ Commits(s, {"webhook"})
  /\ Inserts(db, "webhooks", Row(fresh + 1, c, 0))
  /\ db' = With(db, "webhooks", Row(fresh + 1, c, 0))
  /\ fresh' = fresh + 1
  /\ UNCHANGED tenants

CreateDelivery(s, hook) ==
  /\ fresh < MaxFresh
  /\ Commits(s, {})
  /\ Inserts(db, "webhook_deliveries", Row(fresh + 1, hook.id, 0))
  /\ db' = With(db, "webhook_deliveries", Row(fresh + 1, hook.id, 0))
  /\ fresh' = fresh + 1
  /\ UNCHANGED tenants

\* DELETE FROM webhooks: ON DELETE CASCADE takes its deliveries along.
DeleteWebhook(s, hook) ==
  /\ Commits(s, {})
  /\ db' = [db EXCEPT !["webhooks"] = @ \ {hook},
                      !["webhook_deliveries"] = {d \in @ : d.ref # hook.id}]
  /\ UNCHANGED <<fresh, tenants>>

\* The other tables: rows of a company that are inserted and, some, deleted.
InsertOther(s, c, t) ==
  LET row == Row(c, c, writes + 1)
  IN /\ Commits(s, {})
     /\ Inserts(db, t, row)
     /\ db' = With(db, t, row)
     /\ UNCHANGED <<fresh, tenants>>

DeleteOther(s, c, t) ==
  /\ t \in {"api_keys", "oauth_tokens", "issuance_rate_limit_events"}
  /\ Commits(s, {})
  /\ \E row \in RowsOf(c, t) : db' = [db EXCEPT ![t] = @ \ {row}]
  /\ UNCHANGED <<fresh, tenants>>

ServerStep ==
  \E s \in Servers :
    \/ Start(s) \/ UseEnvCaKey(s) \/ LoadCaKey(s) \/ MissCaKey(s) \/ SaveCaKey(s) \/ Stop(s)
    \/ \E c \in Companies :
         \/ Hydrate(s, c) \/ CreateCompany(s, c) \/ Attest(s, c) \/ RotateKeys(s, c)
         \/ CreateWebhook(s, c)
         \/ \E t \in OtherTables : InsertOther(s, c, t) \/ DeleteOther(s, c, t)
    \/ \E hook \in db["webhooks"] : CreateDelivery(s, hook) \/ DeleteWebhook(s, hook)

-----------------------------------------------------------------------------
(* backup-db.ts                                                            *)

WriteStage == NTables + 1
SealStage  == NTables + 2

\* The operator starts a dump: one backup per behaviour.  The dump that every
\* restore runs as well is in ImportedDumpExits.
BeginDump ==
  /\ dump.at = 0 /\ schema
  /\ file.status # "sealed"
  /\ dump' = [dump EXCEPT !.at = 1]
  /\ during' = {}
  /\ UNCHANGED <<database, servers, file, restore, attempts, mixed, raced>>

\* One iteration of dumpTables: SELECT * FROM a table.
DumpTable ==
  /\ dump.at \in 1 .. NTables
  /\ LET t == ALL_TABLES[dump.at]
     IN dump' = [at |-> dump.at + 1, tables |-> [dump.tables EXCEPT ![t] = db[t]]]
  /\ UNCHANGED <<database, servers, file, restore, attempts, history>>

\* writeBackupFiles: the JSON ...
WriteBackup ==
  /\ dump.at = WriteStage
  /\ file' = [status |-> "written", tables |-> dump.tables]
  /\ dump' = [at |-> SealStage, tables |-> [t \in Tables |-> {}]]
  /\ UNCHANGED <<database, servers, restore, attempts, history>>

\* ... and its checksum, without which nothing reads it.
WriteChecksum ==
  /\ dump.at = SealStage
  /\ file' = [file EXCEPT !.status = "sealed"]
  /\ dump' = [dump EXCEPT !.at = 0]
  /\ UNCHANGED <<database, servers, restore, attempts, history>>

DumpDies ==
  /\ dump.at > 0
  /\ dump' = [at |-> 0, tables |-> [t \in Tables |-> {}]]
  /\ UNCHANGED <<database, servers, file, restore, attempts, history>>

-----------------------------------------------------------------------------
(* restore-db.ts                                                           *)

\* readAndVerifyBackup, then DROP TABLE.  The stages "create" to "done" are those
\* of restoreDatabase: "done" is "Restore complete", not an exit status of 0.
BeginRestore ==
  /\ ~Restoring /\ attempts < MaxRestores
  /\ file.status = "sealed"
  /\ schema' = FALSE
  /\ db' = [t \in Tables |-> {}]
  /\ restore' = [pc |-> "create", at |-> 1, rows |-> {}]
  /\ attempts' = attempts + 1
  /\ mixed' = (\E s \in Servers : mode[s] # "down")
  /\ UNCHANGED <<fresh, writes, servers, dump, file, during, raced>>

\* The next table with rows in the backup, from position n on: then insert
\* them; when none is left, count.
Onward(n) ==
  LET left == {i \in n .. NTables : file.tables[INSERT_ORDER[i]] # {}}
      next == CHOOSE i \in left : \A j \in left : i <= j
  IN IF left = {} THEN [pc |-> "count", at |-> 1, rows |-> {}]
     ELSE [pc |-> "insert", at |-> next, rows |-> file.tables[INSERT_ORDER[next]]]

RecreateSchema ==
  /\ restore.pc = "create"
  /\ schema' = TRUE
  /\ restore' = Onward(1)
  /\ UNCHANGED <<db, fresh, writes, servers, dump, file, attempts, history>>

\* Mutant of InsertRow: the column list of one row, without an optional
\* column, serves the next.
InsertRowFewerColumns ==
  /\ restore.pc = "insert"
  /\ LET t == INSERT_ORDER[restore.at]
     IN \E row \in restore.rows :
          /\ Inserts(db, t, row)
          /\ db' = With(db, t, Row(row.id, row.ref, NoKey))
          /\ restore' = IF restore.rows = {row} THEN Onward(restore.at + 1)
                        ELSE [restore EXCEPT !.rows = @ \ {row}]
  /\ UNCHANGED <<schema, fresh, writes, servers, dump, file, attempts, history>>

\* Mutant of InsertRow: INSERT ... ON CONFLICT DO NOTHING.
InsertRowUnlessThere ==
  /\ restore.pc = "insert"
  /\ LET t == INSERT_ORDER[restore.at]
     IN \E row \in restore.rows :
          /\ db' = IF Inserts(db, t, row) THEN With(db, t, row) ELSE db
          /\ restore' = IF restore.rows = {row} THEN Onward(restore.at + 1)
                        ELSE [restore EXCEPT !.rows = @ \ {row}]
  /\ UNCHANGED <<schema, fresh, writes, servers, dump, file, attempts, history>>

\* One INSERT of writeRows.
InsertRow ==
  /\ restore.pc = "insert"
  /\ LET t == INSERT_ORDER[restore.at]
     IN \E row \in restore.rows :
          /\ Inserts(db, t, row)
          /\ db' = With(db, t, row)
          /\ restore' = IF restore.rows = {row} THEN Onward(restore.at + 1)
                        ELSE [restore EXCEPT !.rows = @ \ {row}]
  /\ UNCHANGED <<schema, fresh, writes, servers, dump, file, attempts, history>>

InsertRowFails ==
  /\ restore.pc = "insert"
  /\ \E row \in restore.rows : ~Inserts(db, INSERT_ORDER[restore.at], row)
  /\ restore' = [restore EXCEPT !.pc = "failed", !.rows = {}]
  /\ UNCHANGED <<database, servers, dump, file, attempts, history>>

\* One COUNT of applyBackup and its comparison; after the last, the success.
CountTable ==
  /\ restore.pc = "count"
  /\ LET t == ALL_TABLES[restore.at]
         equal == Cardinality(db[t]) = Cardinality(file.tables[t])
     IN restore' = IF ~equal THEN [restore EXCEPT !.pc = "failed"]
                   ELSE IF restore.at = NTables THEN [restore EXCEPT !.pc = "done"]
                   ELSE [restore EXCEPT !.at = @ + 1]
  /\ UNCHANGED <<database, servers, dump, file, attempts, history>>

RestoreDies ==
  /\ Restoring
  /\ restore' = [pc |-> "interrupted", at |-> 1, rows |-> {}]
  /\ UNCHANGED <<database, servers, dump, file, attempts, history>>

\* Importing backup-db.ts starts a dump in the restore's own process, as its
\* entrypoint guard looks at the module's own URL; its output directory is the
\* backup file.  It writes nothing, and it cannot succeed: a SELECT meets a
\* dropped table, or mkdirSync the backup file.  So it ends in process.exit(1), at
\* any point of the restore; after "done", only the exit status tells.
ImportedDumpExits ==
  /\ Restoring
  /\ restore' = [pc |-> "interrupted", at |-> 1, rows |-> {}]
  /\ UNCHANGED <<database, servers, dump, file, attempts, history>>

-----------------------------------------------------------------------------
Next ==
  \/ ServerStep
  \/ BeginDump \/ DumpTable \/ WriteBackup \/ WriteChecksum \/ DumpDies
  \/ BeginRestore \/ RecreateSchema \/ InsertRow \/ InsertRowFails \/ CountTable
  \/ RestoreDies \/ ImportedDumpExits

Spec == Init /\ [][Next]_vars

-----------------------------------------------------------------------------
(* Properties                                                              *)

TablesOK(d) == d = [t \in Tables |-> d[t]]

\* Where the scripts and the servers stand.
TypeOK ==
  /\ schema \in BOOLEAN
  /\ TablesOK(db) /\ TablesOK(dump.tables) /\ TablesOK(file.tables)
  /\ mode \in [Servers -> {"down", "init", "mint", "up"}]
  /\ dump = [at |-> dump.at, tables |-> dump.tables] /\ dump.at \in 0 .. SealStage
  /\ file = [status |-> file.status, tables |-> file.tables]
  /\ file.status \in {"none", "written", "sealed"}
  /\ restore = [pc |-> restore.pc, at |-> restore.at, rows |-> restore.rows]
  /\ restore.pc \in {"idle", "create", "insert", "count", "failed", "interrupted", "done"}
  /\ restore.at \in 1 .. NTables
  /\ mixed \in BOOLEAN /\ raced \in BOOLEAN

\* The database is that of a restore that has not got to its counts.
Partial == restore.pc \in {"create", "insert", "failed", "interrupted"}
Completes == restore.pc # "done" /\ restore'.pc = "done"

\* A restore that reports success and had the database to itself leaves
\* exactly what the backup holds (restoreDatabase; applyBackup compares counts,
\* not rows).  What an earlier restore left, failed or cut short, is gone: with
\* MaxRestores = 1 that part is the theorem's, not the run's.
CompleteIsExact ==
  [][Completes /\ ~mixed => db' = file.tables]_vars

\* The tables servers only insert into.
AppendOnly == {"companies", "records", "keys_history", "revoked_passports", "signed_tree_heads"}

\* With servers writing all the while, a restore that reports success still
\* has every row of the backup's append-only tables: whatever collides with
\* one makes it fail (INSERT without ON CONFLICT in writeRows).
CompleteHasTheLog ==
  [][Completes => \A t \in AppendOnly : file.tables[t] \subseteq db'[t]]_vars

\* A restore into a database of its own has an INSERT refused or a count differ
\* only on a backup during which a company or a webhook was created: the dump has
\* rows of a later table that refer to it and not the parent (dumpTables, the
\* foreign keys).  Whatever the backup, it may besides be cut short: by its death,
\* or by the exit of the dump that it imports.
RefusedOnlyOnLateParents ==
  restore.pc = "failed" => mixed \/ during \cap {"company", "webhook"} # {}

\* However the dump was cut through by appends, what is restored never has a
\* record beyond the tree heads: they are dumped last (ALL_TABLES).  And what
\* /v1/checkpoint then serves covers exactly the hydrated chain, unless an
\* action was attested during the dump or a server ran during the restore: only
\* then can the backup have tree heads beyond its records, which initTenant,
\* looking for records beyond the tree head, does not notice.
HeadsFitRecords ==
  /\ ~Partial /\ ~mixed => Covered(db["records"], db["signed_tree_heads"])
  /\ \A s \in Servers, c \in Companies :
       tenants[s][c] # NoTenant /\ tenants[s][c].latestSth # tenants[s][c].length
         => mixed \/ "attest" \in during

\* After a restore the key of every record is still stored, as the company's
\* current or a retired one, unless a key was made during the dump.
SignersAreKnown ==
  ~Partial /\ ~mixed /\ during \cap {"rotate", "key"} = {} =>
    Known(db["records"], db["keys"] \cup db["keys_history"])

\* After a restore every tree head verifies under the stored CA key or the one
\* that the operator keeps in the environment, unless the stored one was saved
\* during the dump or by two servers (initCaKey).  A backup has no copy of the
\* operator's key: whoever loses it with the database cannot verify these heads.
HeadsVerify ==
  ~Partial /\ ~mixed /\ ~raced /\ "ca" \notin during =>
    Verified(db["signed_tree_heads"], db["ca_key"])
=============================================================================

# Vane in TLA+

A TLA+ development of Vane: the attestation log and what an auditor can check
of it, the keys and passports of a company, webhook deliveries, the limit on
issuing passports, the middleware that guards MCP tools, the sidecar proxy, the
way into the API, and backup and restore. Every module is translated from the code under `src/`; `PROJECT.json` maps each
definition to the lines it stands for, and lists the hazards of the code with
the properties that watch over them.

## The system

Vane gives AI agents short-lived *passports* (signed JWTs) and keeps a
tamper-evident *attestation log* of what they did. One Node process
(`src/src/api/app.ts`) serves the HTTP interface over one Postgres database
(`src/src/db/store.ts`). It keeps each company's keys and log in memory
(`tenants`) and writes through to the database. Several processes may run over
one database, during a rolling deploy for example; they share nothing else.
Clients are a sidecar proxy, a middleware for MCP servers, SDKs and
integrations.

| part | state | operations | met by |
|---|---|---|---|
| attestation log | `records`, `signed_tree_heads`; per process `tenants` -> `chain`, `latestSth`; the append queue | hydration (`initTenant`), `POST /v1/attest`, `GET /v1/checkpoint` | keys (same `tenants` object), audit routes, webhooks |
| audit routes | none of their own | chain, verify, proof, inclusion, consistency | log, keys |
| Merkle trees | none (pure functions) | root, inclusion and consistency proofs | log, audit routes, offline verifiers |
| key custody | `keys`, `keys_history`; `tenant.keys` | hydration, `rotate-keys`, `getCandidatePublicKeys` | passports, `GET /v1/verify` |
| passports | `revoked_passports` | issue, rotate, verify, revoke, OCSP | keys, webhooks, issuance limit |
| passport verifiers | none (pure functions), four copies | `verifyPassport`, `matchScope` | passports, middleware, conformance tests |
| webhooks | `webhooks`, `webhook_deliveries`; the timer | create, delete, fire, test, retry | every handler that fires an event |
| issuance limit | `issuance_rate_limit_events` | `checkAndIncrement` in three windows | issue and rotate |
| MCP middleware | none but its configuration | wrap a tool, resolve a key, check revocation | verifiers, the HTTP interface |
| sidecar | a cached passport and CA key, leaf certificates | forward, refresh, verify locally, attest | the HTTP interface |
| API keys, OAuth | `companies`, `api_keys`, `oauth_*` | register, create, delete, recover, authenticate | every route |
| general rate limit | `buckets` in memory | one check per request, a purge | every route |
| backup, restore | two files per backup | dump, verify, recreate schema, load, count | all tables, running servers |
| CA key | `ca_key` or the environment; a module variable | `initCaKey` | tree heads, backups |
| delegation | none of its own | token exchange, cross-organisation credentials | keys, passports |

What makes it hard: every `await` lets other requests run, and a handler goes
on with what it read before it (a `Tenant` object, a row, a time stamp); several
statements that belong together are mostly separate transactions; a statement
may take effect although its acknowledgement is lost; a process may die at any
`await`; several processes have each their own memory and clock. The tests of
the repository use in-memory stand-ins for the database and run one request at
a time, so little of this is tested (`HANDOFF.md` says so for the HTTP handlers,
the store, webhook delivery and OAuth).

What makes each part correct, in a sentence: the log an auditor sees is one
growing sequence, on disk before it is shown; a proof that is served verifies,
and one of a rewritten log does not; a passport can be verified until it expires
and no longer than it is not revoked; a passport has one successor at most; all
verifiers give one verdict, and a tool runs only for whom the passport entitles;
a webhook event is tried until it is accepted or has had its attempts; no key
gets more passports in a window than the limit; a sidecar attaches no passport
that is about to end and refuses none that is good; every admission to the API
and every refusal has its cause; a restore that reports success has restored.

## The modules

| module | what it is |
|---|---|
| `AppendOnlyLog` | what the log promises: a sequence that grows, and tree heads that are prefixes of it |
| `AttestationLog` | tables, chains, hydration, the append pipeline and checkpoints of one company |
| `MerkleTree` | the RFC 6962 tree and its proofs, and the padded tree of `merkle.ts`, as functions |
| `LogAudit` (extends `MerkleTree`) | an auditor against the routes that answer proofs |
| `LogProofs` | the proofs about the last three |
| `KeyCustody`, `KeyCustodyProofs` | the keys of one company, in the tables and in memory, through rotations |
| `PassportRegistry` | what revocation and rotation promise: single steps on a set of passports |
| `PassportLifecycle`, `PassportLifecycleProofs` | the handlers that issue, rotate, verify and revoke |
| `PassportVerifier` | the checks of the four verifiers, in their order |
| `McpMiddleware`, `McpMiddlewareProofs` (extend `PassportVerifier`) | calls of tools behind the middleware |
| `SidecarProxy`, `SidecarProxyProofs` (extend `PassportVerifier`) | the sidecars of one company and the calls between them |
| `WebhookDelivery`, `WebhookDeliveryProofs` | one delivery and every call that works on it |
| `IssuanceRateLimit` | the three sliding windows |
| `CompanyAccess` | registration, API keys, OAuth, the general limit and the authentication, on several servers |
| `AccessProofs` | the proofs about the last two |
| `BackupRestore`, `BackupRestoreProofs` | dump and restore, statement by statement, under servers that use the database |
| `MC...` | constants for TLC |

An action is the stretch of code between two `await`s, with everything it
assigns. What a handler holds across an `await` is a variable of that request
(`object`, `leaves`, `oldKey`, `carried`, `stamp`, `passport`). Rejected queries,
crashes and lost acknowledgements are actions of their own, in some modules
switched on by the constant `Faults`. Mutants, definitions introduced by a
comment that says so, are plausible bugs; no specification uses them. For each
property there is one that breaks it.

### AttestationLog

`rows` and `sths` are the tables, keyed by position and tree size: a second
`INSERT` under a key fails, or waits if the first is in an open transaction.
`tenant[i]` is the map entry of instance `i`, `chain[l]` and `head[l]` the object
it points to. Objects are reused once nothing reaches them. A leaf is the
request it came from, a tree head the sequence of leaves it commits to: two
heads are consistent iff one is a prefix of the other.

| code | actions |
|---|---|
| `initTenant` and its callers | `StartKnown`, `StartUnknown`, `CreateCompany`, `EnsureTenant`, then `ReadRecords`, `ReadLatestSth` (with the decision to backfill), `InsertBackfill`, `InstallTenant`; `LoadError` |
| `POST /v1/attest` up to the queue | `ReceiveAttest`, `AttestWithoutTenant`, `Enqueue` |
| `appendWithCheckpoint` | `ComputeRecord`, then the transaction of `appendRecordWithSTH`: `InsertRecord`, `InsertSth`, `Commit`; then `Acknowledge`, which moves chain and head; `AbortAppend`, `LoseAck` |
| `GET /v1/checkpoint` | `GetCheckpoint` |
| process death | `Crash` |

### MerkleTree and LogAudit

Hashes are symbolic: `<<"leaf", d>>` and `<<"node", l, r>>` are equal only for
equal arguments, which is what the routes need of SHA-256. The recursions of the
code are recursive functions: of `merkleTreeHash`, `auditPath` and `subproof` over
the size and the first leaf of a slice where the code copies the slice, of
`subverify` (`Rebuild`) over the two sizes and the place in the proof. That the
subtree at hand is the whole old tree, which the code passes down as `b`, is that
it has the size of the old tree. `PaddedRoot` and `PaddedProof` are the older tree
of `crypto/merkle.ts`, whose last leaf is repeated up to a power of two; `Level` is
the array of `buildLevels`, `IndexAt` the halved index of `buildProof`.

In `LogAudit` `records` and `treeHeads` are the tables, `tenantChain` and
`latestHead` the memory of the server, `saved` and `query` the auditor's heads and
its request. An append is one step and a hydration installs whatever
`ServedIsCovered` of `AttestationLog` allows: how records get into the database
is settled there. The auditor saves heads (`SaveCheckpoint`), asks for inclusion
(`AskInclusion`, `FindHead`, `ReplyInclusion`: two awaits, between which
appends happen) and consistency (`AskConsistency`). `Alter` is somebody who
writes to the database past the server: a row with another payload, with or
without its hash computed anew.

### KeyCustody

`stored` and `history` are the rows of `keys` and `keys_history`. `rotate-keys`
is `BeginRotation`, `SelectCurrentKey`, `RetireCurrentKey`, `SaveNewKeys`,
`SwitchKeys`: the five stretches between its awaits. `Issue` signs with what the
captured object holds then, `Attest` signs a record (`sealed` is the keys records
are signed with). `BeginVerify` reads the retired keys of the grace window,
`FinishVerify` tries them with the key the object holds by then. Nothing
tells a server of a rotation through another: `Outdated` is an object that has
another key than the saved one while a second server has served the company, and
`SignedOutdated` a passport such an object signed too late for the grace window.
With one server both are false, and the properties say what `rotate-keys`
promises; with two they say that the harm stays with the outdated server.

### PassportLifecycle

Rotation is `BeginRotate` (the passport verifies), `CheckRotated`
(`isPassportRevoked`), `RevokeRotated` (the `INSERT` under its primary key),
`IssueSuccessor` (the new passport and the 200). Revocation is `BeginRevoke`,
`CheckTarget`, `RevokeTarget`, `AnswerRevoke`. Verification is `BeginCheck`, and
`FinishCheck` after the look at `revoked_passports`. `dead` collects the
passports whose end has been answered to somebody. `PassportRegistry` is refined
with the passports between the two halves of a rotation counted as live.

### PassportVerifier and McpMiddleware

Four verifiers exist: the server's (`src/src/passport/verify.ts`), the reference
one of `conformance/`, the middleware's, and the one for cross-organisation
tokens. Each is an operator that returns the code of the first check that fails,
over a token with the fields the checks look at; a malformed part is a member of
`flaws`, which one check finds. A signature is the key it verifies under.

A call goes from `Arrive` through `Resolve` (the key of another organisation) and
`ReadList`, `CheckList` (the revocation list) to a run of the handler or a
refusal. `options` is the configuration, chosen in `Init`, so one run covers all
of them. Calls share nothing but the token they show, which is why one call at a
time is enough in the run; the theorem is for any number.

### SidecarProxy

A sidecar keeps one `VaneClient`: `cache[s]`. An outgoing call begins (`Begin`)
with the cached passport if it is fresh, or waits for a refresh: `Issue` by
Vane, `Store` when the answer has arrived, `Attach` when the waiting call goes
on. Refreshes of one sidecar overlap and may be answered in any order. A call to
the sidecar of another agent ends in `Accept` or `Refuse`. Each sidecar has a
clock that may be ahead of or behind Vane's by as much as the leeway. Two
assumptions about the environment are constants: an answer takes at most
`MaxLatency`, a forwarded call arrives within `Transit` or not at all. The first is
not enforced by the code: `vane.ts` gives its `fetch` no timeout, so a refresh that
hangs for longer than the early-refresh time is outside what the properties say.

### WebhookDelivery

`status`, `attempts`, `retry` are the row; `retry` is `next_retry_at` as null,
in the future or due. A call (`deliverToWebhook`, `processRetry` or the test
endpoint) goes from `found` through `CreateDelivery`, or from a `Tick` that reads
the due row, to `Post`, to `Accepted` (a 2xx in time), `Refused` (another status, or
the request never got there) or `NoAnswer` (aborted after 10 s, or a broken
connection), and writes back with `MarkDelivered`, `MarkFailed` or `ScheduleRetry`,
always by id and from the count it carried. `taken` is the subscriber's side: a
request it answered in time (`"heard"`), or one that Vane no longer waited for and
that it took all the same (`"unheard"`), which a timeout and a crash leave open. Ticks overlap calls in flight because the tick interval and the
request timeout are both 10 s. `overlapped` remembers whether that has happened,
`mishaps` counts crashes and failed updates.

### IssuanceRateLimit

A request is stamped in `Enter` and asks window after window in `Check`, one
transaction each: `Kept` is what the `DELETE` leaves, `Allowed` the count,
`LetThrough` and `Refuse` its two outcomes, `CheckFails` an error in it, with or
without its row. `SeenCompany` is the `''` the limiter reads for every company.

### CompanyAccess

A request is a record: its stage `pc`, its operation, the server it reached, the
certificate and the key or token it carries (either or both), its company once it is
known. `Arrive` is the limiter
(`Room`, with the timestamps in `buckets`) and the first look of the
authentication, up to its first query; `CheckCertificate`, `CheckApiKey` and
`CheckToken` are the queries of the middleware, after which the request runs or
is refused. `CertificateFails` is the `catch` around the first: an error in it is
swallowed, and the request goes on to its key or token, or to a 401 if it has none. Registration is `GetCompany`, `CreateCompany`, `InitTenant`,
`CreateBootstrapKey`; the others (`NewKey`, `DeleteKey`, `NewClient`,
`CheckClient`, `CreateToken`, `Recover`, `Attest`) are one query after the
authentication. `Fail` is any other query that is rejected, `Purge` the timer of the
limiter, `Start`, `EnsureTenant` and `Crash` what a process knows of the
companies. `held` is who has what: a credential is used only once it was answered
to somebody. `dead` marks a request whose key or token was gone when it arrived,
`unproven` one whose certificate was no registered company's or could not be looked
up, `admitted` the requests a limiter let in; they exist for the properties.

### BackupRestore

`db` maps each table of the schema to its rows; a row is its primary key, the
parent it refers to, and what a restored server depends on (keys, signers). The
dump is `DumpTable` once per table in the order of `ALL_TABLES`, then
`WriteBackup` and `WriteChecksum`; the restore `BeginRestore` (verify, `DROP`),
`RecreateSchema`, `InsertRow` in `INSERT_ORDER` or `InsertRowFails` where a
constraint refuses it, and `CountTable`. Between any two of these a server may
start (`Start`, then `initCaKey` as `UseEnvCaKey` with `VANE_CA_PRIVATE_KEY` and
`VANE_CA_PUBLIC_KEY` set, or else as `LoadCaKey`, or `MissCaKey` and `SaveCaKey`),
hydrate a company, or commit a handler, and either script may die. `restore-db.ts`
imports `backup-db.ts`, whose entrypoint then runs as well: a dump in the restore's
own process, with the backup file as its output directory. It reads, it cannot write
(`mkdirSync` refuses the file) and it ends the process: `ImportedDumpExits`, at any
moment of the restore. `"done"` is therefore that the counts agreed and "Restore
complete" was printed, not an exit status of 0. `during` is
what was written while the dump ran, `mixed` whether a server ran during the
restore, `raced` whether a CA key was saved over another: the properties say what
holds without these, and which of them is to blame.

## The runs

| run | shows |
|---|---|
| `Log_restart` | one server, two records older than checkpoints, two appends, every fault, any number of restarts: a served chain is covered by a head, an acknowledged record is durable, memory equals disk between appends, the database and the heads implement `AppendOnlyLog`, every attest is answered |
| `Log_rolling` | two servers over one database, the company known at their start or created while they run: heads shown lie on one log and are on disk |
| `Audit_proofs` | every log of up to five records: proofs that are answered verify, rewritten records and histories are noticed, the padded tree proves its leaves and binds the log |
| `Keys_serial` | two servers, rotations in turn: nothing is signed with an unsaved key, no key is lost, passports verify until they expire, but for what a rotation through the other server outdates |
| `Keys_concurrent` | *violation*: two rotations at once lose a key that has signed |
| `Passport_races` | two rotations, a revocation and a verification of any of three passports, with faults: no successor after a revocation, no late acceptance, and `PassportRegistry` is implemented |
| `Gate_calls` | each token of the conformance vectors under each configuration, while passports are revoked, keys rotated and time passes: the handler runs for those entitled, and for no other |
| `Sidecar_calls` | two sidecars with clocks apart, overlapping refreshes, a rotation, restarts: attached passports have time left, and a rotation is the only cause of a refusal |
| `Webhook_faults` | three calls at once, a crash or a failed update: no event is given up before its four requests, none called delivered that was not, every delivery settles; no outcome is reopened; until calls overlap, outcomes are not exchanged, requests are counted and, without faults, failed means that the subscriber answered no request in time |
| `RateLimit_delays` | four requests of two keys, checked out of order: the limit holds |
| `Access_calls` | two servers, two requests at a time in every interleaving, from an empty database or one with a company, a key and a client: the limit holds, admissions and refusals have their causes, a company is without a key only after a failure or by its own doing |
| `Backup_restore` | two server processes around a dump and a restore that die anywhere or are cut short, with the CA key in the table or in the environment: a restore that reports success is exact, or at least has the log; what refuses a backup; what a torn backup does to the heads, the signers and the CA key |

Why the bounds are enough. One company stands for all, since companies share no
row, object or queue (two are used where registrations and restores are at
stake), and the wrong interleavings of this code need two or three requests.
Two attests and two old records let an append fail before one that succeeds, on
top of a backfill; two chain objects are what one process can have reachable at
a time, or two processes one each. Five records give trees of every shape up to
depth three, and consistency between any two sizes; one of the records is older
than tree heads and two heads are kept by the auditor. Two rotations and three
keys give a rotation over a rotation; the clock runs past lifetime and grace
window (1 and 2 ticks, each action's place within a tick free), and two objects
are one per server, or two of one that restarted. Three passports
are a chain of two rotations. The gate's clock runs past the end of every token
by more than the leeway. For the sidecars a tick is about two minutes of slack:
lifetime 5, early refresh 3, latency 2, transit and leeway 1, so that a passport
becomes stale, is refreshed late and can end within the six ticks; two slots are
used again for later calls. The webhook run uses the real four attempts;
`MaxPosts` is 40, which three calls and one mishap cannot reach. The limiter's
windows are 1, 2 and 3 ticks with limits of 2, so rows are pruned within the
clock's bound. In `Access_calls` two requests suffice for every pair of handlers
that meet in a row, because what came before them is in the initial database;
limits of 1 and 2 are reached by them, the window is 2 of the 3 instants, two
credentials can be made besides those two, and `setup` is left out since it is the handler of `register` under another tier. In
`Backup_restore` two commits make any two writes fall on two sides of a `SELECT`,
one company is in the database or registered into an empty one, its server finds the
CA key in the table or in its environment, and one restore is enough:
the next begins with `DROP`, and that it may follow any number of failed ones is
proved. One table without a role of its own stands for six. Symmetry is used only
in runs without liveness.

`CHECK_DEADLOCK FALSE` stands in runs whose bounded requests, clock or keys can
be used up, after which the system rightly rests.

Fairness. `AttestationLog` and `WebhookDelivery` assume that a stretch of code
whose `await` has settled runs, and that queries and requests settle: Node does
the first, Postgres and the 10 s abort the second. `WebhookDelivery` further
assumes that time passes and that `setInterval` ticks. Nothing is assumed of
clients, faults or crashes.

Where a module states a type invariant it is proved, so the runs do not check it;
`LogAudit`, `CompanyAccess` and `McpMiddleware` state none.

## The disagreements

The *violation* run `Keys_concurrent` shows where a comment says more than the
code keeps: `rotate-keys` needs a lock or one transaction. `PROJECT.json` quotes
the lines.

Known from the models without a run of their own:

- The issuance limiter is mounted before the middleware that sets `companyId`
  (`app.ts:182-192`, whose comment says after): all companies share one bucket,
  and one uses up the day of another. `SeenCompany` models it.
- After a rotation `GET /v1/verify` checks every record against the new key
  alone, so genuine records are reported; `src/docs/disaster-recovery.md:48` uses
  it to find forged ones.
- A rotation through one server is unknown to the others (`app.ts:1292`), though
  `apps/docs/deployment/railway.mdx:121` describes replicas: they sign with the
  retired key and refuse passports signed with the new one until they restart.
- A company registered through one server is unknown to a replica that started
  before: its key is admitted there and `tenants.get(companyId)!` throws
  (`app.ts:1186`), which `AnsweredForCause` isolates.
- A live client certificate is answered 401 when the database errs while its company
  is looked up: the `catch` that is there for sockets without TLS ("Socket may not be
  a TLS socket in test contexts; fall through to token auth", `app.ts:323`) catches
  that error too. `AnsweredForCause` names it as the one cause of such a 401.
- Nothing asks whether a client certificate was verified: the server is started with
  `rejectUnauthorized: false` (`server.ts:54`), while `app.ts:301` says "from a verified
  client certificate". In the model a certificate is a company's name and no more.
- A registration that breaks off after `createCompany` locks the company out:
  registering again is a 409, `recover-key` a 404. `KeylessOnlyAfterFailure` says
  that nothing else does, but the company itself.
- `POST /v1/companies` is in the tier `standard` of the general limit and its
  alias `/v1/setup` in `sensitive` (`rate-limit.ts:31`).
- `purgeExpiredOAuthTokens` ("Call periodically", `store.ts:691`) is called by
  nothing.
- A backup taken while actions are attested can have tree heads beyond its
  records. A restored server then serves such a head with a shorter chain, against
  `app.ts:91` ("so /v1/checkpoint is always consistent with the persisted log"),
  and its next appends fail on the primary key. A backup taken while a company or
  a webhook is created may not be restorable at all, for its foreign keys;
  nothing says so when it is taken. One snapshot would mend both.
- Two servers started on an empty database keep a CA key each, of which one is
  saved (`app.ts:63`); the tree heads of the other do not verify after a restart.
- Every restore that is run as the script starts a dump in its own process, though
  `backup-db.ts:186` says "Only run when executed directly, not when imported.": the
  guard looks at that module's own URL. The dump fails and ends the process with
  status 1, mostly in the middle of the restore, and also after one that has printed
  "Restore complete". The tests run with `NODE_ENV=test` and do not see it.
- With the CA key in the environment, tree heads verify under a key that is in no table
  and in no backup. `HeadsVerify` counts on the operator to keep it.
- A rotation whose `saveKeys` commits but loses its acknowledgement leaves the object
  with the retired key until a restart: what it signs outlives the grace window. No run
  of `KeyCustody` has this fault, and `GraceLongEnough` excludes it.
- A restart forgets the window of the general limit (`rate-limit.ts:24`), so a caller
  gets up to twice the limit through around one; `AdmittedWithinLimit` is about a
  running process.
- A rotation that dies or fails between the revocation and the answer leaves the
  client without a passport (`app.ts:848`; `apps/docs/security/revocation.mdx:49`
  says it rotates atomically). `HalfRotated` is the passports in that gap.
- A subscriber may have taken an event whose row ends `failed`: a request that is
  answered after 10 s is aborted (`delivery.ts:21`) and counts as refused, as do
  those after it. `OutcomeIsTrue` says that, without overlap and faults, such
  requests are all it may have taken.
- A crash between `createDelivery` and the first update leaves a pending row without
  `next_retry_at`, which no tick finds: the exception in `EveryDeliverySettles`.
- Calls that overlap may exchange outcomes, `failed` over `delivered` or the reverse
  (`store.ts:813`, by id alone); `OutcomeIsFinal` excludes only that one is reopened.
- Overlapping ticks send more than the four requests that
  `webhooks/types.ts:29` allows: `getPendingRetries` claims no row.
  `RequestsBounded` therefore counts only until `overlapped`.
- Two hydrations that race may install an older log (`app.ts:101`); appends then
  fail on the primary key until a restart. `MemoryMatchesLog` is stated for the
  settings in which hydrations do not race.
- A verification that a rotation overtakes finds the old key nowhere
  (`app.ts:138`), which `RefusedOnlyAcrossRotation` of `KeyCustody` isolates.
- A request that is checked late makes a burst beyond the limit possible in
  retrospect; `BurstsBounded` says by how much.
- The middleware's `verifyPassport` does not look at `vane.requestHash`, which
  `passport/verify.ts:246` and the conformance text demand of a verifier.
  `SameVerdictAsVane` is stated for passports that are not bound to a request.
- The lifetime cap of cross-organisation tokens (`cross-org.ts:14`) holds when
  they are issued and is not looked at when they are verified.
- A sidecar that forwards nothing keeps its CA key through a rotation and refuses
  the passports signed with the new key, although
  `src/docs/disaster-recovery.md:109` has in-flight passports verify throughout.
- The sidecar attests a call before it forwards it, and also when it then fails;
  `apps/docs/sdk/sidecar.mdx` lists it last.

## The proofs

All theorems are of the specifications without fairness, for any values of the
constants that satisfy the named `ASSUME`s, any number of requests, processes
and restarts; those about the trees are of all sequences of leaves. Four of the others
have hypotheses of their own, which are what the property is
about and which the run that checks it satisfies: rotations of one company in
turn (`Serial`), in time (`GraceLongEnough`), and a single instance.

- `LogProofs`, of `AttestationLog`: it proves that tree heads lie on one log (`NoSplitView`),
  that shown heads, acknowledged records and served chains are on disk, and that
  `AttestationLog` implements `AppendOnlyLog`. The invariant says of every piece
  of memory, in a chain, in a request or in a load, which rows of the table it is
  a copy of; the only writes are `INSERT`s whose primary key is one past what was
  copied, so a stale copy cannot write beside the log, only fail. Memory is never
  ahead of the table; that it is not behind either (`OneInstanceServesTheLog`)
  holds of one instance (`Instances = {i}`) of a company it knew when it started
  (`Registered = {TRUE}`): then there is one chain object, whose queue lets one
  append at a time through to the table.
- `LogProofs`, of `MerkleTree`, for logs of any length. One root is the root of one
  log of each length (`RootBinds`). The path that is handed out takes the leaf at its
  place to the root and no other leaf (`InclusionBinds`), and no path of any kind
  takes up something that was never logged (`OnlyLeavesAreIncluded`). A consistency
  proof that is handed out verifies (`ConsistencyAccepts`), and whatever proof
  verifies, the older head is that of a prefix (`ConsistencyBinds`). In the padded
  tree proofs climb to the root (`PaddedProofClimbs`), and a log with distinct leaves
  shares its root with no shorter prefix, in spite of the copies
  (`PaddedRootBinds`): equal nodes are equally high, so two such trees have as many
  leaves, of which the first that is a copy in the one is another leaf in the other.
  A recursive function is defined only if some function satisfies its equation; such
  a function is built size by size, and what it computes is shown from each size to
  the next. For that the natural numbers are counted through as a set (`Counting`,
  from the well-foundedness of the order), since the library's induction theorems
  take an operator. The fold of a path has the same treatment (`FoldClimbs`).
- `LogProofs`, of `LogAudit`: the four properties of the run, for logs of any length
  and any number of agents and heads. The invariant (`AuditInv`): whatever is
  rewritten, rows and hashes carry their places (`LogsShaped`) and a reply is built
  over as many leaves as its head has, the leaves it was asked for or others
  (`QueryShaped`); until a row is altered there is one log, and tables, memory, heads
  and replies are its prefixes (`LogsOriginal`, `QueryOriginal`). The first part gives
  `AcceptedIsSigned`, `RewritesAreNoticed` and `PaddedRootCommits`, because a root
  binds its leaves however it came about; `HonestProofsVerify` needs both.
- `KeyCustodyProofs`: no passport and no record is signed with a key that was not
  committed, for any races. The invariant ties each object's and each rotation's
  key to `backedUp` by the stage it is in. With `Serial` rotations no key is lost
  (`KeysAreKept`), whatever fails: every key that was current is the row, a
  retired key, or about to be retired by the one rotation under way. With
  `GraceLongEnough` (also `TTL + MaxRotation <= GRACE`, and no lost
  acknowledgement) passports stay verifiable until they expire and a refusal means
  that a rotation came between the two reads: a passport is signed with the row's
  key or one whose retirement ends later than the passport.
- `PassportLifecycleProofs`: one successor, no successor after a revocation, no
  acceptance after the answer, and the refinement of `PassportRegistry`. The
  invariant says that at most one of all rotations and revocations of a passport
  ever got past the `INSERT`.
- `McpMiddlewareProofs`: with a revocation list, no token revoked before its call
  arrived runs the handler. The invariant: what is revoked stays revoked
  (`Remembered`), and a call that is past the list has seen it (`Settled`); it
  needs nothing about what the verifier decides. Then about that: the handler runs
  only for a token that entitles its caller (`OnlyTheEntitledRun`), the
  middleware's verdict on a passport is the server's and the reference verifier's
  (`VerdictsAgree`), and a refusal has a cause (`RefusalsHaveACause`). A verdict
  is the first of a sequence of failures, so it is `OK` only if every check
  passed; that the scope found covers the tool is the minimum of the positions
  that do. From `TokensAssumption`: what a parsed token can look like.
- `SidecarProxyProofs`: both properties of the run, from
  `Buffer + MaxLatency <= TTL` (a passport that arrives late is still fresh) and,
  for the second, clocks within the leeway and calls that arrive in the time by
  which sidecars refresh early. The invariant: no call waits longer than the
  latency (`Patient`), a cached passport ends at most the latency before the
  sidecar thinks it does (`Kept`), one that was stored for a waiting call is still
  nearly new (`Renewed`), and one under way can still arrive in time (`OnItsWay`).
- `WebhookDeliveryProofs`: no event is given up early and no outcome is reopened, for
  any number of overlapping calls; until calls overlap, requests exceed the maximum by
  the mishaps at most, and no outcome is exchanged (`OutcomesAreFinal`). Delivered is
  always true; failed means, until calls overlap or something fails, that no request
  was answered 2xx in time (`OutcomesAreTrue`). The invariant: no count, in the row or
  in a call, is larger than the requests sent, and, of one call at a time, no smaller
  than the requests less the mishaps; a row with an outcome is left without a call
  (`Settled`).
- `BackupRestoreProofs`: a restore that reports success and had the database to
  itself leaves exactly the backup, and one that had not still has every row of
  the append-only tables. The invariant says how far the restore is: every table
  before the current one in `INSERT_ORDER` has all rows of the backup, the current
  one those that are not left to insert. It needs that no server deletes from the
  append-only tables, and no assumption on what else they write. About the content
  there is a second one (`DataInv`), of database, running dump, file and restore
  alike: heads cover records, records are signed with known keys, and heads with
  the CA key or the operator's, each unless something of that kind was written between the two tables
  it is about, or by a server during the restore. It gives `HeadsFit`,
  `SignersKnown`, `HeadsStayVerifiable` and that a restore into a database of its own is
  refused a row or a count only on late parents (`RefusesOnlyLateParents`), from
  `DatabasesAssumption`: the databases a behaviour begins with are sound.
- `AccessProofs`, of `IssuanceRateLimit`: the limit holds at every moment, and in
  retrospect over the window less the longest wait. The invariant: a bucket never
  has more rows than its limit and has the row of every request let through in the
  last window.
- `AccessProofs`, of `CompanyAccess`: the general limit holds over any window of a
  running process (`AdmissionsAreLimited`), a company without a key can name the
  request that left it so (`KeylessIsExplained`), and every admission, 401, 429 and
  missing tenant has its cause (`AnswersHaveACause`), for any number of servers,
  companies and requests, with certificates for any of them: a 401 needs a dead key or
  token and a certificate that is nobody's or could not be looked up. The invariant
  (`AccessInv`): a limiter remembers whatever it let in within the last window, and
  a live process knows the companies it listed and registered (`Remembered`); no
  burst of any window exceeds its limit (`WithinLimits`); what was dead when its
  request arrived still is (`Authenticating`), since numbers are given out once and
  time does not go back; a company's excuse stays one (`Keyed`). It needs
  `DatabasesAssumption`: in the database a behaviour begins with every credential
  has a number that was given out and every company a key. The proofs share a
  module and nothing else.

`PROJECT.json` names each theorem. Where an operator chooses a largest or smallest
number (`Latest`, `MatchScope`), its lemma (`LatestIsLargest`, `MinIsThere`) gets it
from the well-foundedness of the order on naturals, stated of sets. Every invariant
and every action property of the runs is proved. Only model-checked is liveness
(`EveryAttestAnswered`, `EveryDeliverySettles`), which is out of the prover's reach.

## What is assumed and what is left out

- Hashes do not collide and signatures verify under their own key only: leaves,
  roots and keys are values that are equal or not.
- A statement sent by a process that dies takes effect before the death or not
  at all.
- Each Postgres statement and transaction is atomic and isolated as its
  primary keys and locks make it.
- Request parsing, formatting, logging and the content of payloads are left out.
- Of the sidecar: the cache of leaf certificates behind `CONNECT`, and the
  attestation it sends and never awaits.

- Of backups: that JSON and the driver give back the values of a column, and
  `verifyBackup`, which makes the checks of a restore and writes nothing. The
  triggers that keep records and tree heads from being changed are not needed: no
  statement of the server does either.
- Of authentication: secrets and their hashes (who has a credential has its
  secret), and the address of callers without one, who share a bucket.

Not modelled, by component (the status is in `PROJECT.json`):

- Delegation: a token exchange reads two tokens, checks them and signs a third in
  one stretch of code without an `await`, and nothing is stored. How
  cross-organisation tokens are verified is in `PassportVerifier`; how they are
  issued is not.
- Certificates and TLS (SVIDs, mTLS, the sidecar's leaf certificates) are library
  code around a cache; the event stream broadcasts and keeps nothing.
- The SDK, integrations, the Terraform provider and the audit CLI format requests
  and output; the pages and the documentation are text.

## The plan

Done, in this order: `AttestationLog` over `AppendOnlyLog`, `KeyCustody`,
`PassportLifecycle` over `PassportRegistry`, `WebhookDelivery`,
`IssuanceRateLimit`, `MerkleTree` with `LogAudit`, `PassportVerifier` with
`McpMiddleware`, `SidecarProxy`, `BackupRestore` with the start-up race on the CA
key, `CompanyAccess` with the general limit, `KeyCustody` with two servers. What
is left:

1. Delegation: chains only grow along exchanges, and what a rotation does to them.
2. The sidecar's leaf certificates.

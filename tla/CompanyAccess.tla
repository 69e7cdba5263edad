---------------------------- MODULE CompanyAccess ----------------------------
(***************************************************************************)
(* Who gets into the API: the registration of a company, its API keys,     *)
(* OAuth clients and tokens, the general rate limit and the authentication *)
(* middleware (src/api/app.ts, src/api/rate-limit.ts, src/db/store.ts).    *)
(*                                                                         *)
(* Server processes share the database and nothing else: each counts       *)
(* requests in a map of its own, and knows the companies it found when it  *)
(* started and those it has hydrated since.  A request passes the limiter  *)
(* at once when it arrives; every query after that is an await, where      *)
(* other requests come in, the query fails or the process dies.            *)
(* A request carries a client certificate, which is the company it names,  *)
(* a key or token, which is a number in the order of creation, or both.    *)
(***************************************************************************)
EXTENDS Naturals, FiniteSets

CONSTANTS
  Servers, Companies,
  Certified,       \* the companies certificates name: none without VANE_MTLS_CA_CERT
  Requests,        \* HTTP requests
  Databases,       \* the databases a behaviour may begin with
  Operations,      \* the operations that are called
  LIMITS,           \* per tier: LIMITS
  WINDOW_MS,
  TTL,             \* lifetime of an OAuth token
  MaxCredential,   \* bound on credentials
  MaxTime,         \* bound on the clock
  None

Registrations == {"register", "setup"}
Public == Registrations \cup {"recover", "token"}

ASSUME ParametersAssumption ==
  /\ Certified \subseteq Companies
  /\ Operations \subseteq Public \cup {"newKey", "deleteKey", "newClient", "attest"}
  /\ LIMITS \in [{"sensitive", "attest", "standard"} -> Nat \ {0}]
  /\ WINDOW_MS \in Nat \ {0} /\ TTL \in Nat
  /\ MaxCredential \in Nat /\ MaxTime \in Nat

\* A behaviour begins with a database in which every credential was given out and
\* every company still has a key.
ASSUME DatabasesAssumption ==
  /\ None \notin Companies \cup 1 .. MaxCredential
  /\ \A d \in Databases :
       /\ DOMAIN d = {"companies", "keys", "clients", "tokens", "made"}
       /\ d.companies \subseteq Companies /\ d.made \in 0 .. MaxCredential
       /\ \A row \in d.keys \cup d.clients \cup d.tokens : row.id \in 1 .. d.made
       /\ \A t \in d.tokens : t.expires \in Nat
       /\ \A c \in d.companies : \E k \in d.keys : k.company = c

VARIABLES
  now,
  db,              \* [companies, keys, clients: sets of [id, company]; tokens: and expiry; made]
  held,            \* credentials that were answered to somebody
  up,              \* per server: it takes requests
  listed,          \* per server: the companies listCompanies returned
  tenants,         \* per server: the companies with an entry in the map
  buckets,         \* per server: the requests whose timestamps it holds
  request,         \* per request: where it stands
  admitted         \* history, per server: the requests its limiter let in since it started

servers == <<up, listed, tenants>>
vars == <<now, db, held, servers, buckets, request, admitted>>

\* The history of a request: its key or token was dead when it arrived; its certificate
\* named no company then, or the look-up of the company has failed since.
NoRequest == [pc |-> "new", op |-> None, server |-> None, cert |-> None, cred |-> None,
              target |-> None, company |-> None, at |-> 0,
              dead |-> FALSE, unproven |-> FALSE]

InFlight(r) ==
  request[r].pc \in {"cert?", "key?", "token?", "run", "checked", "created", "hydrated"}

Init ==
  /\ now = 0
  /\ db \in Databases
  /\ held = 1 .. db.made
  /\ up = [s \in Servers |-> FALSE]
  /\ listed = [s \in Servers |-> {}]
  /\ tenants = [s \in Servers |-> {}]
  /\ buckets = [s \in Servers |-> {}]
  /\ request = [r \in Requests |-> NoRequest]
  /\ admitted = [s \in Servers |-> {}]

-----------------------------------------------------------------------------
(* The database                                                            *)

Owned(id, c) == [id |-> id, company |-> c]
KeysOf(d, c) == {k \in d.keys : k.company = c}

\* The rows that let a key or a token in.
KeyRows(cred) == {k \in db.keys : k.id = cred}
TokenRows(cred) == {t \in db.tokens : t.id = cred}
Live(cred) ==
  \/ KeyRows(cred) # {}
  \/ \E t \in TokenRows(cred) : now <= t.expires

-----------------------------------------------------------------------------
(* Requests arrive at the rate limiter.                                    *)

Tier(op) ==
  CASE op = "attest" -> "attest"
    [] op \in {"setup", "token"} -> "sensitive"
    [] OTHER -> "standard"

\* getRateLimitKey: the bearer token, or the address (of which there is one).
Bucket(q) == <<Tier(q.op), q.cred>>

\* t > cutoff
InWindow(q) == q.at + WINDOW_MS > now

\* What arrives: the certificate and the key or token it carries, that was handed
\* out, and what it is about.
Ids(rows) == {row.id : row \in rows}
Bearers == held \ Ids(db.clients)
Callers == ({None} \X Bearers) \cup (Certified \X (Bearers \cup {None}))

Inputs(op) ==
  CASE op \in Registrations \cup {"recover"} -> {<<None, None>>} \X Companies
    [] op = "token" -> {<<None, None>>} \X held
    [] op = "deleteKey" -> Callers \X (held \cap Ids(db.keys))
    [] OTHER -> Callers \X {None}

Arriving(s, op, cert, cred, target) ==
  [pc |-> IF op \in Public THEN "run" ELSE IF cert = None THEN "key?" ELSE "cert?",
   op |-> op, server |-> s, cert |-> cert, cred |-> cred, target |-> target,
   company |-> None, at |-> now,
   dead |-> ~Live(cred), unproven |-> cert \notin db.companies]

Crowd(s, b) == {q \in buckets[s] : Bucket(request[q]) = b /\ InWindow(request[q])}

\* Mutant of Room: an off-by-one.
RoomForOneMore(s, b) == Cardinality(Crowd(s, b)) <= LIMITS[b[1]]
Room(s, b) == Cardinality(Crowd(s, b)) < LIMITS[b[1]]

\* rateLimitMiddleware, in one go.  A request that is let in is counted,
\* whatever becomes of it; one that is not, is not.
Arrive(r, s, op) ==
  \E input \in Inputs(op) :
    LET q == Arriving(s, op, input[1][1], input[1][2], input[2])
        b == Bucket(q)
        kept == {p \in buckets[s] : Bucket(request[p]) = b => InWindow(request[p])}
    IN /\ up[s] /\ request[r].pc = "new"
       /\ IF Room(s, b)
          THEN /\ request' = [request EXCEPT ![r] = q]
               /\ buckets' = [buckets EXCEPT ![s] = kept \cup {r}]
               /\ admitted' = [admitted EXCEPT ![s] = @ \cup {r}]
          ELSE /\ request' = [request EXCEPT ![r] = [q EXCEPT !.pc = "429"]]
               /\ buckets' = [buckets EXCEPT ![s] = kept]
               /\ UNCHANGED admitted
       /\ UNCHANGED <<now, db, held, servers>>

\* The interval that keeps the map from growing.
Purge(s) ==
  /\ up[s]
  /\ buckets' = [buckets EXCEPT ![s] = {q \in @ : InWindow(request[q])}]
  /\ UNCHANGED <<now, db, held, servers, request, admitted>>

-----------------------------------------------------------------------------
(* Authentication                                                          *)

Goto(r, pc) == request' = [request EXCEPT ![r].pc = pc]
Admit(r, c) == request' = [request EXCEPT ![r].pc = "run", ![r].company = c]

\* A client certificate of a registered company: its tenant is hydrated if it is
\* not there.  Nothing asks who signed it.  Otherwise the key or token decides.
OnToToken(r) == IF request[r].cred = None THEN "401" ELSE "key?"

CheckCertificate(r) ==
  LET q == request[r]
  IN /\ q.pc = "cert?"
     /\ \/ /\ q.cert \in db.companies
           /\ Admit(r, q.cert)
           /\ tenants' = [tenants EXCEPT ![q.server] = @ \cup {q.cert}]
        \/ /\ q.cert \notin db.companies
           /\ Goto(r, OnToToken(r))
           /\ UNCHANGED tenants
     /\ UNCHANGED <<now, db, held, up, listed, buckets, admitted>>

\* A query of the look-up or of initTenant rejects: the error is swallowed, and the
\* request goes on as if it had no certificate.
CertificateFails(r) ==
  /\ request[r].pc = "cert?"
  /\ request' = [request EXCEPT ![r].pc = OnToToken(r), ![r].unproven = TRUE]
  /\ UNCHANGED <<now, db, held, servers, buckets, admitted>>

\* validateApiKey
CheckApiKey(r) ==
  LET q == request[r]
  IN /\ q.pc = "key?"
     /\ \/ \E k \in KeyRows(q.cred) : Admit(r, k.company)
        \/ KeyRows(q.cred) = {} /\ Goto(r, "token?")
     /\ UNCHANGED <<now, db, held, servers, buckets, admitted>>

\* validateOAuthToken: refused if Date.now() > expires_at.
Valid(cred) == {t \in TokenRows(cred) : now <= t.expires}

CheckToken(r) ==
  LET valid == Valid(request[r].cred)
  IN /\ request[r].pc = "token?"
     /\ \/ \E t \in valid : Admit(r, t.company)
        \/ valid = {} /\ Goto(r, "401")
     /\ UNCHANGED <<now, db, held, servers, buckets, admitted>>

-----------------------------------------------------------------------------
(* Handlers                                                                *)

\* The query commits.  The credential it made, if any, is answered, unless
\* the acknowledgement is lost on the way back to the handler.
Commit(r, d, pc) ==
  /\ db' = d
  /\ \/ Goto(r, pc) /\ held' = IF pc = "done" THEN held \cup (db.made + 1 .. d.made) ELSE held
     \/ Goto(r, "500") /\ UNCHANGED held
  /\ UNCHANGED <<now, up, listed, tenants, buckets, admitted>>

Making == db.made < MaxCredential

\* POST /v1/keys, and the bootstrap key of a registration.
WithKey(c) == [db EXCEPT !.keys = @ \cup {Owned(db.made + 1, c)}, !.made = @ + 1]

NewKey(r) ==
  /\ request[r].pc = "run" /\ request[r].op = "newKey" /\ Making
  /\ Commit(r, WithKey(request[r].company), "done")

\* Mutant of Deleted: DELETE without AND company_id = $2.
DeletedOfAny(q) == {k \in db.keys : k.id = q.target}
\* DELETE /v1/keys/:key, of the company's own keys, the last one too.
Deleted(q) == {k \in db.keys : k.id = q.target /\ k.company = q.company}

DeleteKey(r) ==
  /\ request[r].pc = "run" /\ request[r].op = "deleteKey"
  /\ LET rows == Deleted(request[r])
     IN Commit(r, [db EXCEPT !.keys = @ \ rows], IF rows = {} THEN "404" ELSE "done")

\* POST /v1/oauth/clients
NewClient(r) ==
  /\ request[r].pc = "run" /\ request[r].op = "newClient" /\ Making
  /\ Commit(r, [db EXCEPT !.clients = @ \cup {Owned(db.made + 1, request[r].company)},
                          !.made = @ + 1], "done")

\* POST /v1/oauth/token: the client is looked up, then the token made.
CheckClient(r) ==
  LET clients == {k \in db.clients : k.id = request[r].target}
  IN /\ request[r].pc = "run" /\ request[r].op = "token"
     /\ \/ \E k \in clients :
             request' = [request EXCEPT ![r].pc = "checked", ![r].company = k.company]
        \/ clients = {} /\ Goto(r, "401")
     /\ UNCHANGED <<now, db, held, servers, buckets, admitted>>

CreateToken(r) ==
  /\ request[r].pc = "checked" /\ request[r].op = "token" /\ Making
  /\ LET token == [id |-> db.made + 1, company |-> request[r].company, expires |-> now + TTL]
     IN Commit(r, [db EXCEPT !.tokens = @ \cup {token}, !.made = @ + 1], "done")

\* POST /v1/recover-key, from the machine itself: the company's oldest key.
Recover(r) ==
  LET keys == KeysOf(db, request[r].target)
      oldest == {k \in keys : \A other \in keys : k.id <= other.id}
  IN /\ request[r].pc = "run" /\ request[r].op = "recover"
     /\ Goto(r, IF keys = {} THEN "404" ELSE "done")
     /\ held' = held \cup {k.id : k \in oldest}
     /\ UNCHANGED <<now, db, servers, buckets, admitted>>

\* Every handler that reads the tenant: tenants.get(companyId)!
Attest(r) ==
  LET q == request[r]
  IN /\ q.pc = "run" /\ q.op = "attest"
     /\ Goto(r, IF q.company \in tenants[q.server] THEN "done" ELSE "no tenant")
     /\ UNCHANGED <<now, db, held, servers, buckets, admitted>>

-----------------------------------------------------------------------------
(* POST /v1/companies, and /v1/setup: four queries without a transaction.  *)

GetCompany(r) ==
  LET q == request[r]
  IN /\ q.pc = "run" /\ q.op \in Registrations
     /\ Goto(r, IF q.target \in db.companies THEN "409" ELSE "checked")
     /\ UNCHANGED <<now, db, held, servers, buckets, admitted>>

\* The INSERT: the primary key lets one of several through.  From then on the
\* request is the one that made the company.
CreateCompany(r) ==
  LET q == request[r]
  IN /\ q.pc = "checked" /\ q.op \in Registrations
     /\ q.target \notin db.companies
     /\ db' = [db EXCEPT !.companies = @ \cup {q.target}]
     /\ \E pc \in {"created", "500"} :
          request' = [request EXCEPT ![r].pc = pc, ![r].company = q.target]
     /\ UNCHANGED <<now, held, servers, buckets, admitted>>

InitTenant(r) ==
  LET q == request[r]
  IN /\ q.pc = "created"
     /\ tenants' = [tenants EXCEPT ![q.server] = @ \cup {q.target}]
     /\ Goto(r, "hydrated")
     /\ UNCHANGED <<now, db, held, up, listed, buckets, admitted>>

CreateBootstrapKey(r) ==
  /\ request[r].pc = "hydrated" /\ Making
  /\ Commit(r, WithKey(request[r].company), "done")

\* A query of the request rejects, a colliding INSERT among them, anywhere but in the
\* look-up of a certificate.
Fail(r) ==
  /\ InFlight(r) /\ request[r].pc # "cert?"
  /\ Goto(r, "500")
  /\ UNCHANGED <<now, db, held, servers, buckets, admitted>>

-----------------------------------------------------------------------------
(* Processes                                                               *)

\* Mutant of Start: tenants are hydrated when a route asks for them.
StartLazily(s) ==
  /\ ~up[s]
  /\ up' = [up EXCEPT ![s] = TRUE]
  /\ listed' = [listed EXCEPT ![s] = db.companies]
  /\ UNCHANGED <<now, db, held, tenants, buckets, request, admitted>>

\* A server that starts lists the companies and hydrates them, and only then
\* takes requests.  A company registered meanwhile is as unknown to it as one
\* registered later.
Start(s) ==
  /\ ~up[s]
  /\ up' = [up EXCEPT ![s] = TRUE]
  /\ listed' = [listed EXCEPT ![s] = db.companies]
  /\ tenants' = [tenants EXCEPT ![s] = db.companies]
  /\ UNCHANGED <<now, db, held, buckets, request, admitted>>

\* ensureTenant, for a public checkpoint.
EnsureTenant(s, c) ==
  /\ up[s] /\ c \in db.companies
  /\ tenants' = [tenants EXCEPT ![s] = @ \cup {c}]
  /\ UNCHANGED <<now, db, held, up, listed, buckets, request, admitted>>

\* The process dies, with its requests and its maps.
Crash(s) ==
  /\ up[s]
  /\ up' = [up EXCEPT ![s] = FALSE]
  /\ listed' = [listed EXCEPT ![s] = {}]
  /\ tenants' = [tenants EXCEPT ![s] = {}]
  /\ buckets' = [buckets EXCEPT ![s] = {}]
  /\ admitted' = [admitted EXCEPT ![s] = {}]
  /\ request' = [r \in Requests |->
       IF InFlight(r) /\ request[r].server = s THEN [request[r] EXCEPT !.pc = "lost"]
       ELSE request[r]]
  /\ UNCHANGED <<now, db, held>>

Tick ==
  /\ now < MaxTime
  /\ now' = now + 1
  /\ UNCHANGED <<db, held, servers, buckets, request, admitted>>

RequestStep(r) ==
  \/ CheckCertificate(r) \/ CertificateFails(r) \/ CheckApiKey(r) \/ CheckToken(r)
  \/ NewKey(r) \/ DeleteKey(r) \/ NewClient(r) \/ CheckClient(r) \/ CreateToken(r)
  \/ Recover(r) \/ Attest(r)
  \/ GetCompany(r) \/ CreateCompany(r) \/ InitTenant(r) \/ CreateBootstrapKey(r)
  \/ Fail(r)

Next ==
  \/ Tick
  \/ \E r \in Requests :
       RequestStep(r) \/ \E s \in Servers, op \in Operations : Arrive(r, s, op)
  \/ \E s \in Servers :
       Start(s) \/ Crash(s) \/ Purge(s) \/ \E c \in Companies : EnsureTenant(s, c)

Spec == Init /\ [][Next]_vars

-----------------------------------------------------------------------------
(* Properties                                                              *)

Becomes(r, pc) == request[r].pc # pc /\ request'[r].pc = pc

\* However requests, purges and restarts follow each other: what the limiter
\* of a running process let into a bucket within any window is within LIMITS.
AdmittedWithinLimit ==
  \A s \in Servers : \A r \in admitted[s] :
    LET b == Bucket(request[r])
        together == {q \in admitted[s] : /\ Bucket(request[q]) = b
                                         /\ request[q].at \in request[r].at ..
                                                 request[r].at + WINDOW_MS - 1}
    IN Cardinality(together) <= LIMITS[b[1]]

\* The companies a process must know: those it found when it started and
\* those registered through it.
KnownTo(s) ==
  listed[s] \cup {request[r].company : r \in {p \in admitted[s] :
                    request[p].op \in Registrations /\ request[p].pc = "done"}}

\* Whatever happens between the awaits, a request gets in or not for a cause: no
\* key or token that was deleted, through whatever server, or had expired before
\* it arrived runs a handler, unless a certificate beside it does; 429 means that the
\* limit is used up, 401 that the key or token is gone or expired and the certificate
\* was no company's or could not be looked up.  And a handler lacks its tenant only for
\* a company that another server registered since this one started: the credential is
\* as good here as there.
AnsweredForCause ==
  [][\A r \in Requests :
       LET q == request'[r]
           authenticated == q.op \notin Public
       IN /\ Becomes(r, "run") /\ authenticated =>
               \/ ~q.dead
               \/ request[r].pc = "cert?" /\ q.company = q.cert
          /\ Becomes(r, "429") =>
               Cardinality({p \in admitted[q.server] :
                              Bucket(request[p]) = Bucket(q) /\ InWindow(request[p])})
                 >= LIMITS[Tier(q.op)]
          /\ Becomes(r, "401") /\ authenticated => ~Live(q.cred) /\ q.unproven
          /\ Becomes(r, "no tenant") => q.company \notin KnownTo(q.server)]_vars

\* A registered company has a key, unless the one request that made it broke
\* off before it was answered, or the company deleted a key of its own.  Then
\* registering again is a 409 and recover-key a 404; only a certificate or what
\* OAuth clients it has lets it in.
KeylessOnlyAfterFailure ==
  \A c \in db.companies :
    KeysOf(db, c) = {} =>
      \E r \in Requests :
        /\ request[r].company = c
        /\ \/ request[r].op \in Registrations /\ request[r].pc # "done"
           \/ request[r].op = "deleteKey" /\ request[r].pc \in {"done", "500"}
=============================================================================

------------------------------ MODULE KeyCustody ------------------------------
(***************************************************************************)
(* The signing keys of one company: the rows it has in keys and            *)
(* keys_history, the key pair every server instance keeps in its tenants   *)
(* map, POST /v1/companies/rotate-keys between the two, and the passports  *)
(* and records that are signed with one and verified against the other     *)
(* (src/api/app.ts, src/db/store.ts, src/crypto/chain.ts).                 *)
(*                                                                         *)
(* Every await is a point where others run.  A passport is the key that    *)
(* signed it and the time it expires; a signature verifies under the key   *)
(* that made it and no other.                                              *)
(***************************************************************************)
EXTENDS Naturals, FiniteSets

CONSTANTS
  Instances,       \* server processes over one database
  Tenants,         \* Tenant objects; one hydration makes one (bound: hydrations)
  Keys,            \* key pairs (bound: generateKeyPair calls)
  Rotations,       \* rotate-keys requests
  Passports,       \* passport requests
  Verifications,   \* passport verifications in flight at once
  TTL,             \* lifetime of a passport
  GRACE,           \* GRACE_PERIOD_HOURS
  MaxRotation,     \* bound: how long a rotate-keys request takes
  MaxTime,         \* bound: the clock
  Known,           \* may the company be in the database, with a key, at the start: a set of answers
  Serial,          \* do its requests wait for each other's hydrations and rotations
  Faults,          \* a subset of FaultKinds
  NoKey, NoTenant

\* "queryError": a query of a rotation fails and has had no effect;
\* "ackLoss": the upsert of the new key took effect, but the query fails.
FaultKinds == {"crash", "queryError", "ackLoss"}

ASSUME ParametersAssumption ==
  /\ TTL \in Nat /\ GRACE \in Nat /\ MaxRotation \in Nat /\ MaxTime \in Nat
  /\ Known \subseteq BOOLEAN /\ Serial \in BOOLEAN
  /\ Faults \subseteq FaultKinds
  /\ NoKey \notin Keys
  /\ NoTenant \notin Tenants
  /\ Keys # {}

VARIABLES
  time,
  registered,      \* the company has a row in companies
  stored,          \* the row in keys, NoKey if there is none
  history,         \* the rows in keys_history: [key, at]
  generated,       \* the key pairs generated so far
  backedUp,        \* every key that was ever committed to keys
  mode,            \* per instance: "down", "starting" or "serving"
  tenant,          \* per instance: the object in the tenants map
  keys,            \* per object: its key pair
  loading,         \* per object: how far the initTenant that made it is
  owner,           \* per object: the instance it lives in
  rotation,        \* per rotation: how far it is
  rotates,         \* per rotation: the object it captured
  oldKey,          \* per rotation: the key retireCurrentKey selected
  newKey,          \* per rotation: the key it generated
  began,           \* per rotation in progress: when it started
  issuing,         \* per passport: how far its request is
  issuer,          \* per passport: the object its handler captured
  signedBy,        \* per passport: the key that signed it
  expires,         \* per passport: when it expires
  verifying,       \* per verification: "idle" or "reading"
  verifier,        \* per verification: the object its handler captured
  subject,         \* per verification: the passport presented
  retired,         \* per verification: the retired keys it read
  offered,         \* per verification: its object's key when it read them
  refusals,        \* SIGNATURE_INVALIDs before expiry: [passport, across, outdated], across a
                   \* change of the object's key, or of what an outdated object signs or checks
  sealed           \* the keys that records of the log are signed with

database == <<registered, stored, history, generated, backedUp>>
memory   == <<mode, tenant, keys, loading, owner>>
rotating == <<rotation, rotates, oldKey, newKey, began>>
issuance == <<issuing, issuer, signedBy, expires>>
checks   == <<verifying, verifier, subject, retired, offered, refusals>>
vars     == <<time, database, memory, rotating, issuance, checks, sealed>>

Init ==
  /\ time = 0
  /\ registered \in Known
  /\ stored \in (IF registered THEN Keys ELSE {NoKey})
  /\ history = {}
  /\ generated = {stored} \ {NoKey}
  /\ backedUp = {stored} \ {NoKey}
  /\ mode = [i \in Instances |-> "down"]
  /\ tenant = [i \in Instances |-> NoTenant]
  /\ keys = [t \in Tenants |-> NoKey]
  /\ loading = [t \in Tenants |-> "free"]
  /\ owner \in [Tenants -> Instances]
  /\ rotation = [r \in Rotations |-> "idle"]
  /\ rotates = [r \in Rotations |-> NoTenant]
  /\ oldKey = [r \in Rotations |-> NoKey]
  /\ newKey = [r \in Rotations |-> NoKey]
  /\ began = [r \in Rotations |-> 0]
  /\ issuing = [p \in Passports |-> "idle"]
  /\ issuer = [p \in Passports |-> NoTenant]
  /\ signedBy = [p \in Passports |-> NoKey]
  /\ expires = [p \in Passports |-> 0]
  /\ verifying = [v \in Verifications |-> "idle"]
  /\ verifier = [v \in Verifications |-> NoTenant]
  /\ subject \in [Verifications -> Passports]
  /\ retired = [v \in Verifications |-> {}]
  /\ offered = [v \in Verifications |-> NoKey]
  /\ refusals = {}
  /\ sealed = {}

-----------------------------------------------------------------------------
(* initTenant                                                              *)

InHydration == {t \in Tenants : loading[t] \in {"reading", "saving", "hydrating"}}

\* A process starts and hydrates the company; ensureTenant finds nothing
\* cached; or POST /v1/companies has just inserted the row.
Hydrate(i, t) ==
  /\ loading[t] = "free"
  /\ Serial => InHydration = {}
  /\ \/ /\ mode[i] = "down" /\ registered
        /\ mode' = [mode EXCEPT ![i] = "starting"]
        /\ UNCHANGED registered
     \/ /\ mode[i] = "serving" /\ registered /\ tenant[i] = NoTenant
        /\ UNCHANGED <<mode, registered>>
     \/ /\ mode[i] = "serving" /\ ~registered
        /\ registered' = TRUE
        /\ UNCHANGED mode
  /\ loading' = [loading EXCEPT ![t] = "reading"]
  /\ owner' = [owner EXCEPT ![t] = i]
  /\ UNCHANGED <<time, stored, history, generated, backedUp, tenant, keys>>
  /\ UNCHANGED <<rotating, issuance, checks, sealed>>

StartUnknown(i) ==
  /\ mode[i] = "down"
  /\ ~registered
  /\ mode' = [mode EXCEPT ![i] = "serving"]
  /\ UNCHANGED <<time, database, tenant, keys, loading, owner, rotating, issuance, checks, sealed>>

\* Mutant of ReadKeys: the new key pair is used without being saved.
ReadKeysUnsaved(t) ==
  /\ loading[t] = "reading"
  /\ loading' = [loading EXCEPT ![t] = "hydrating"]
  /\ \/ /\ stored # NoKey
        /\ keys' = [keys EXCEPT ![t] = stored]
        /\ UNCHANGED generated
     \/ /\ stored = NoKey
        /\ \E k \in Keys \ generated :
             keys' = [keys EXCEPT ![t] = k] /\ generated' = generated \cup {k}
  /\ UNCHANGED <<time, registered, stored, history, backedUp, mode, tenant, owner>>
  /\ UNCHANGED <<rotating, issuance, checks, sealed>>

\* getKeys; without a row, a new key pair.
ReadKeys(t) ==
  /\ loading[t] = "reading"
  /\ \/ /\ stored # NoKey
        /\ keys' = [keys EXCEPT ![t] = stored]
        /\ loading' = [loading EXCEPT ![t] = "hydrating"]
        /\ UNCHANGED generated
     \/ /\ stored = NoKey
        /\ \E k \in Keys \ generated :
             keys' = [keys EXCEPT ![t] = k] /\ generated' = generated \cup {k}
        /\ loading' = [loading EXCEPT ![t] = "saving"]
  /\ UNCHANGED <<time, registered, stored, history, backedUp, mode, tenant, owner>>
  /\ UNCHANGED <<rotating, issuance, checks, sealed>>

\* saveKeys is an upsert: a key somebody else saved meanwhile is replaced.
Save(k) ==
  /\ stored' = k
  /\ backedUp' = backedUp \cup {k}
  /\ UNCHANGED <<registered, history, generated>>

SaveFirstKeys(t) ==
  /\ loading[t] = "saving"
  /\ Save(keys[t])
  /\ loading' = [loading EXCEPT ![t] = "hydrating"]
  /\ UNCHANGED <<time, mode, tenant, keys, owner, rotating, issuance, checks, sealed>>

\* The log is hydrated (module AttestationLog); tenants.set.
InstallTenant(t) ==
  /\ loading[t] = "hydrating"
  /\ loading' = [loading EXCEPT ![t] = "done"]
  /\ tenant' = [tenant EXCEPT ![owner[t]] = t]
  /\ mode' = [mode EXCEPT ![owner[t]] = "serving"]
  /\ UNCHANGED <<time, database, keys, owner, rotating, issuance, checks, sealed>>

-----------------------------------------------------------------------------
(* POST /v1/companies/rotate-keys                                          *)

InRotation == {r \in Rotations : rotation[r] \in {"selecting", "retiring", "saving", "switching"}}

BeginRotation(i, r) ==
  /\ mode[i] = "serving"
  /\ tenant[i] # NoTenant
  /\ rotation[r] = "idle"
  /\ Serial => InRotation = {}
  /\ rotation' = [rotation EXCEPT ![r] = "selecting"]
  /\ rotates' = [rotates EXCEPT ![r] = tenant[i]]
  /\ began' = [began EXCEPT ![r] = time]
  /\ UNCHANGED <<time, database, memory, oldKey, newKey, issuance, checks, sealed>>

\* retireCurrentKey reads the row of keys ...
SelectCurrentKey(r) ==
  /\ rotation[r] = "selecting"
  /\ oldKey' = [oldKey EXCEPT ![r] = stored]
  /\ rotation' = [rotation EXCEPT ![r] = "retiring"]
  /\ UNCHANGED <<time, database, memory, rotates, newKey, began, issuance, checks, sealed>>

\* Mutant of RetireCurrentKey: the key that is copied is the new one.
RetireNewKey(r) ==
  /\ rotation[r] = "retiring"
  /\ \E k \in Keys \ generated :
       /\ newKey' = [newKey EXCEPT ![r] = k]
       /\ generated' = generated \cup {k}
       /\ history' = history \cup {[key |-> k, at |-> time]}
  /\ rotation' = [rotation EXCEPT ![r] = "saving"]
  /\ UNCHANGED <<time, registered, stored, backedUp, memory, rotates, oldKey, began>>
  /\ UNCHANGED <<issuance, checks, sealed>>

\* ... and copies what it read into keys_history; then a new key is generated.
RetireCurrentKey(r) ==
  /\ rotation[r] = "retiring"
  /\ history' = history \cup {[key |-> oldKey[r], at |-> time]}
  /\ \E k \in Keys \ generated :
       newKey' = [newKey EXCEPT ![r] = k] /\ generated' = generated \cup {k}
  /\ rotation' = [rotation EXCEPT ![r] = "saving"]
  /\ UNCHANGED <<time, registered, stored, backedUp, memory, rotates, oldKey, began>>
  /\ UNCHANGED <<issuance, checks, sealed>>

SaveNewKeys(r) ==
  /\ rotation[r] = "saving"
  /\ Save(newKey[r])
  /\ rotation' = [rotation EXCEPT ![r] = "switching"]
  /\ UNCHANGED <<time, memory, rotates, oldKey, newKey, began, issuance, checks, sealed>>

\* tenant.keys = newKeys, on the object captured at the start.
SwitchKeys(r) ==
  /\ rotation[r] = "switching"
  /\ keys' = [keys EXCEPT ![rotates[r]] = newKey[r]]
  /\ rotation' = [rotation EXCEPT ![r] = "done"]
  /\ began' = [began EXCEPT ![r] = 0]
  /\ UNCHANGED <<time, database, mode, tenant, loading, owner, rotates, oldKey, newKey>>
  /\ UNCHANGED <<issuance, checks, sealed>>

RotationFails(r) ==
  /\ \/ "queryError" \in Faults /\ rotation[r] \in {"selecting", "retiring", "saving"}
     \/ "ackLoss" \in Faults /\ rotation[r] = "switching"
  /\ rotation' = [rotation EXCEPT ![r] = "failed"]
  /\ began' = [began EXCEPT ![r] = 0]
  /\ UNCHANGED <<time, database, memory, rotates, oldKey, newKey, issuance, checks, sealed>>

-----------------------------------------------------------------------------
(* Passports                                                               *)

\* POST /v1/agents/:agentId/passport captures the tenant, then awaits getAgent.
BeginIssue(i, p) ==
  /\ mode[i] = "serving"
  /\ tenant[i] # NoTenant
  /\ issuing[p] = "idle"
  /\ issuing' = [issuing EXCEPT ![p] = "checking"]
  /\ issuer' = [issuer EXCEPT ![p] = tenant[i]]
  /\ UNCHANGED <<time, database, memory, rotating, signedBy, expires, checks, sealed>>

\* issuePassport signs with the key the captured object has now.
Issue(p) ==
  /\ issuing[p] = "checking"
  /\ issuing' = [issuing EXCEPT ![p] = "issued"]
  /\ signedBy' = [signedBy EXCEPT ![p] = keys[issuer[p]]]
  /\ expires' = [expires EXCEPT ![p] = time + TTL]
  /\ UNCHANGED <<time, database, memory, rotating, issuer, checks, sealed>>

\* Mutant of RecentlyRetired: the boundary is excluded.
RetiredStrictlyAfter == {h.key : h \in {g \in history : g.at + GRACE > time}}

\* getRetiredKeys: retired_at >= now - grace period.
RecentlyRetired == {h.key : h \in {g \in history : g.at + GRACE >= time}}

\* getCandidatePublicKeys captures the tenant and reads the retired keys ...
BeginVerify(i, v, p) ==
  /\ mode[i] = "serving"
  /\ tenant[i] # NoTenant
  /\ issuing[p] = "issued"
  /\ verifying[v] = "idle"
  /\ verifying' = [verifying EXCEPT ![v] = "reading"]
  /\ verifier' = [verifier EXCEPT ![v] = tenant[i]]
  /\ subject' = [subject EXCEPT ![v] = p]
  /\ retired' = [retired EXCEPT ![v] = RecentlyRetired]
  /\ offered' = [offered EXCEPT ![v] = keys[tenant[i]]]
  /\ UNCHANGED <<time, database, memory, rotating, issuance, refusals, sealed>>

\* Another server has served the company too, and the object no longer has, or does
\* not have yet, the key a rotation saved: nothing tells one server of the other.
ServedElsewhere(t) == \E u \in Tenants : loading[u] # "free" /\ owner[u] # owner[t]
Outdated(t) == ServedElsewhere(t) /\ keys[t] # stored

\* Such an object signed the passport later after the retirement of its key than
\* the server that rotates would have.
SignedOutdated(p) ==
  LET retirements == {h.at : h \in {g \in history : g.key = signedBy[p]}} IN
  /\ ServedElsewhere(issuer[p])
  /\ retirements # {}
  /\ \A at \in retirements : at + MaxRotation + TTL < expires[p]

\* ... and when the answer is there, tries the captured object's key and those.
FinishVerify(v) ==
  LET p == subject[v] IN
  /\ verifying[v] = "reading"
  /\ verifying' = [verifying EXCEPT ![v] = "idle"]
  /\ verifier' = [verifier EXCEPT ![v] = NoTenant]
  /\ refusals' = IF /\ signedBy[p] \notin {keys[verifier[v]]} \cup retired[v]
                    /\ time <= expires[p]
                 THEN refusals \cup
                        {[passport |-> p, across |-> keys[verifier[v]] # offered[v],
                          outdated |-> Outdated(verifier[v]) \/ SignedOutdated(p)]}
                 ELSE refusals
  /\ retired' = [retired EXCEPT ![v] = {}]
  /\ offered' = [offered EXCEPT ![v] = NoKey]
  /\ UNCHANGED <<time, database, memory, rotating, issuance, subject, sealed>>

-----------------------------------------------------------------------------
(* Records *)

\* POST /v1/attest appends to the log with the captured object's key of that moment.
Attest(t) ==
  /\ loading[t] = "done"
  /\ sealed' = sealed \cup {keys[t]}
  /\ UNCHANGED <<time, database, memory, rotating, issuance, checks>>

-----------------------------------------------------------------------------

\* The process dies with the requests it serves.
Crash(i) ==
  LET gone(t) == t # NoTenant /\ owner[t] = i IN
  /\ "crash" \in Faults
  /\ mode[i] # "down"
  /\ mode' = [mode EXCEPT ![i] = "down"]
  /\ tenant' = [tenant EXCEPT ![i] = NoTenant]
  /\ loading' = [t \in Tenants |->
                   IF owner[t] = i /\ loading[t] # "free" THEN "dead" ELSE loading[t]]
  /\ rotation' = [r \in Rotations |->
                    IF r \in InRotation /\ gone(rotates[r]) THEN "failed" ELSE rotation[r]]
  /\ began' = [r \in Rotations |->
                 IF r \in InRotation /\ gone(rotates[r]) THEN 0 ELSE began[r]]
  /\ issuing' = [p \in Passports |->
                   IF issuing[p] = "checking" /\ gone(issuer[p]) THEN "failed" ELSE issuing[p]]
  /\ verifying' = [v \in Verifications |->
                     IF gone(verifier[v]) THEN "idle" ELSE verifying[v]]
  /\ UNCHANGED <<time, database, keys, owner, rotates, oldKey, newKey>>
  /\ UNCHANGED <<issuer, signedBy, expires, verifier, subject, retired, offered, refusals, sealed>>

Tick ==
  /\ time < MaxTime
  /\ \A r \in InRotation : time < began[r] + MaxRotation
  /\ time' = time + 1
  /\ UNCHANGED <<database, memory, rotating, issuance, checks, sealed>>

RotationStep(r) ==
  \/ SelectCurrentKey(r) \/ RetireCurrentKey(r) \/ SaveNewKeys(r) \/ SwitchKeys(r)
  \/ RotationFails(r)

InstanceStep(i) ==
  \/ StartUnknown(i) \/ Crash(i)
  \/ \E t \in Tenants : Hydrate(i, t)
  \/ \E r \in Rotations : BeginRotation(i, r)
  \/ \E p \in Passports : BeginIssue(i, p) \/ \E v \in Verifications : BeginVerify(i, v, p)

Next ==
  \/ Tick
  \/ \E i \in Instances : InstanceStep(i)
  \/ \E t \in Tenants : ReadKeys(t) \/ SaveFirstKeys(t) \/ InstallTenant(t) \/ Attest(t)
  \/ \E r \in Rotations : RotationStep(r)
  \/ \E p \in Passports : Issue(p)
  \/ \E v \in Verifications : FinishVerify(v)

Spec == Init /\ [][Next]_vars

-----------------------------------------------------------------------------
(* Properties                                                              *)

TypeOK ==
  /\ time \in Nat
  /\ registered \in BOOLEAN
  /\ stored \in Keys \cup {NoKey}
  /\ history \subseteq [key : Keys, at : Nat]
  /\ generated \subseteq Keys
  /\ backedUp \subseteq generated
  /\ mode \in [Instances -> {"down", "starting", "serving"}]
  /\ tenant \in [Instances -> Tenants \cup {NoTenant}]
  /\ keys \in [Tenants -> Keys \cup {NoKey}]
  /\ loading \in [Tenants -> {"free", "reading", "saving", "hydrating", "done", "dead"}]
  /\ owner \in [Tenants -> Instances]
  /\ rotation \in [Rotations -> {"idle", "selecting", "retiring", "saving", "switching",
                                 "done", "failed"}]
  /\ rotates \in [Rotations -> Tenants \cup {NoTenant}]
  /\ oldKey \in [Rotations -> Keys \cup {NoKey}]
  /\ newKey \in [Rotations -> Keys \cup {NoKey}]
  /\ began \in [Rotations -> Nat]
  /\ issuing \in [Passports -> {"idle", "checking", "issued", "failed"}]
  /\ issuer \in [Passports -> Tenants \cup {NoTenant}]
  /\ signedBy \in [Passports -> Keys \cup {NoKey}]
  /\ expires \in [Passports -> Nat]
  /\ verifying \in [Verifications -> {"idle", "reading"}]
  /\ verifier \in [Verifications -> Tenants \cup {NoTenant}]
  /\ subject \in [Verifications -> Passports]
  /\ retired \in [Verifications -> SUBSET Keys]
  /\ offered \in [Verifications -> Keys \cup {NoKey}]
  /\ refusals \subseteq [passport : Passports, across : BOOLEAN, outdated : BOOLEAN]
  /\ sealed \subseteq Keys

\* Whatever races, fails or dies: no passport and no record is signed with a key
\* that has not been committed to the database before.
SignedWithSavedKey ==
  /\ \A p \in Passports : issuing[p] = "issued" => signedBy[p] \in backedUp
  /\ sealed \subseteq backedUp

\* One server, one hydration or rotation at a time: no key that was ever current
\* is lost, whatever fails or dies half way.
NoKeyIsLost == backedUp \subseteq {stored} \cup {h.key : h \in history}

\* rotate-keys: "The old key is moved to keys_history and remains valid for
\* verifying passports it signed": until it expires, every passport verifies
\* wherever the company is served; and if a rotation through one server leaves
\* another with the old key, then only there, or if it was signed there too late.
StaysVerifiable ==
  \A p \in Passports, i \in Instances :
    /\ issuing[p] = "issued" /\ time <= expires[p] /\ ~SignedOutdated(p)
    /\ tenant[i] # NoTenant /\ ~Outdated(tenant[i])
    => signedBy[p] \in {keys[tenant[i]]} \cup RecentlyRetired

\* getCandidatePublicKeys "Returns the current key followed by all retired keys
\* within the grace window", but reads the two at different times: it only misses
\* the key of a passport if a rotation switched keys between the two, or if a
\* rotation through another server had outdated the object that signs or verifies.
RefusedOnlyAcrossRotation == \A x \in refusals : x.across \/ x.outdated

=============================================================================

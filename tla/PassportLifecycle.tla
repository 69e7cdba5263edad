-------------------------- MODULE PassportLifecycle --------------------------
(***************************************************************************)
(* The passports of one company between issuance, rotation, revocation and *)
(* online verification: POST passport, passport/rotate, passports/:jti/    *)
(* revoke and passport/verify (src/api/app.ts) over the revoked_passports  *)
(* table (src/db/store.ts), the only state the server keeps of a passport. *)
(*                                                                         *)
(* Every await is a point where others run.  A passport is its jti; that   *)
(* its signature verifies is the subject of module KeyCustody.             *)
(***************************************************************************)
CONSTANTS
  Passports,       \* jtis (bound: passports issued)
  Rotates,         \* rotate requests
  Revokes,         \* revoke requests
  Checks,          \* verify requests in flight at once
  Faults,          \* a subset of FaultKinds
  NoPassport

\* "crash": the process dies with its requests; "queryError": a query fails
\* without effect; "ackLoss": an INSERT takes effect and its query fails.
FaultKinds == {"crash", "queryError", "ackLoss"}

ASSUME ParametersAssumption ==
  /\ Faults \subseteq FaultKinds
  /\ NoPassport \notin Passports

VARIABLES
  issued,          \* passports handed out, or about to be
  expired,         \* those past exp and the clock-skew leeway
  parent,          \* per passport: the one it replaces, or NoPassport
  revoked,         \* the primary keys in revoked_passports
  rotate,          \* per rotate request: how far it is
  rotated,         \* per rotate request: the passport presented
  revoke,          \* per revoke request: how far it is
  target,          \* per revoke request: the jti named
  check,           \* per verify request: "idle" or "verified"
  subject,         \* per verify request: the passport presented
  tooLate,         \* per verify request: had its revocation been answered by then
  dead,            \* passports whose revocation or rotation has been answered
  acceptedDead     \* passports accepted by a request that came after that

passports == <<issued, expired, parent, revoked>>
rotating  == <<rotate, rotated>>
revoking  == <<revoke, target>>
checking  == <<check, subject, tooLate, acceptedDead>>
vars == <<passports, rotating, revoking, checking, dead>>

Init ==
  /\ issued = {}
  /\ expired = {}
  /\ parent = [p \in Passports |-> NoPassport]
  /\ revoked = {}
  /\ rotate = [r \in Rotates |-> "idle"]
  /\ rotated = [r \in Rotates |-> NoPassport]
  /\ revoke = [v \in Revokes |-> "idle"]
  /\ target = [v \in Revokes |-> NoPassport]
  /\ check = [c \in Checks |-> "idle"]
  /\ subject = [c \in Checks |-> NoPassport]
  /\ tooLate = [c \in Checks |-> FALSE]
  /\ dead = {}
  /\ acceptedDead = {}

-----------------------------------------------------------------------------

\* POST /v1/agents/:agentId/passport.
Issue(p) ==
  /\ p \notin issued
  /\ issued' = issued \cup {p}
  /\ UNCHANGED <<expired, parent, revoked, rotating, revoking, checking, dead>>

Expire(p) ==
  /\ p \in issued \ expired
  /\ expired' = expired \cup {p}
  /\ UNCHANGED <<issued, parent, revoked, rotating, revoking, checking, dead>>

\* Mutant of InsertRevocation: ON CONFLICT DO NOTHING.
InsertOnConflictDoNothing(p) ==
  /\ revoked' = revoked \cup {p}
  /\ UNCHANGED <<issued, expired, parent>>

\* revokePassport: INSERT INTO revoked_passports, primary key (jti, company_id).
InsertRevocation(p) ==
  /\ p \notin revoked
  /\ revoked' = revoked \cup {p}
  /\ UNCHANGED <<issued, expired, parent>>

-----------------------------------------------------------------------------
(* POST /v1/agents/:agentId/passport/rotate                                *)

RotateTo(r, stage) == rotate' = [rotate EXCEPT ![r] = stage] /\ UNCHANGED rotated

\* The passport presented verifies, is the agent's own, and the agent exists.
BeginRotate(r, p) ==
  /\ rotate[r] = "idle"
  /\ p \in issued \ expired
  /\ rotate' = [rotate EXCEPT ![r] = "verified"]
  /\ rotated' = [rotated EXCEPT ![r] = p]
  /\ UNCHANGED <<passports, revoking, checking, dead>>

\* isPassportRevoked, 409 if it is.
CheckRotated(r) ==
  /\ rotate[r] = "verified"
  /\ RotateTo(r, IF rotated[r] \in revoked THEN "refused" ELSE "checked")
  /\ UNCHANGED <<passports, revoking, checking, dead>>

\* Mutant of RevokeRotated: the old passport is left to expire.
RevokeRotatedLater(r) ==
  /\ rotate[r] = "checked"
  /\ RotateTo(r, "revoked")
  /\ UNCHANGED <<passports, revoking, checking, dead>>

\* revokePassport(jti, 'rotated'); the primary key refuses a second row.
RevokeRotated(r) ==
  /\ rotate[r] = "checked"
  /\ \/ InsertRevocation(rotated[r]) /\ RotateTo(r, "revoked")
     \/ rotated[r] \in revoked /\ RotateTo(r, "failed") /\ UNCHANGED passports
  /\ UNCHANGED <<revoking, checking, dead>>

\* issuePassport with the claims of the old one, and the 200.
IssueSuccessor(r) ==
  /\ rotate[r] = "revoked"
  /\ \E q \in Passports \ issued :
       /\ issued' = issued \cup {q}
       /\ parent' = [parent EXCEPT ![q] = rotated[r]]
  /\ dead' = dead \cup {rotated[r]}
  /\ RotateTo(r, "answered")
  /\ UNCHANGED <<expired, revoked, revoking, checking>>

\* A query rejects; the request is answered 500.
RotateFails(r) ==
  /\ \/ "queryError" \in Faults /\ rotate[r] \in {"verified", "checked"}
     \/ "ackLoss" \in Faults /\ rotate[r] = "revoked"
  /\ RotateTo(r, "failed")
  /\ UNCHANGED <<passports, revoking, checking, dead>>

-----------------------------------------------------------------------------
(* POST /v1/passports/:jti/revoke                                          *)

\* A jti is a random UUID: the only ones a request can name are of issued passports.
RevokeTo(v, stage) == revoke' = [revoke EXCEPT ![v] = stage] /\ UNCHANGED target

BeginRevoke(v, p) ==
  /\ revoke[v] = "idle"
  /\ p \in issued
  /\ revoke' = [revoke EXCEPT ![v] = "received"]
  /\ target' = [target EXCEPT ![v] = p]
  /\ UNCHANGED <<passports, rotating, checking, dead>>

\* isPassportRevoked, 409 if it is.
CheckTarget(v) ==
  /\ revoke[v] = "received"
  /\ \/ /\ target[v] \in revoked
        /\ dead' = dead \cup {target[v]}
        /\ RevokeTo(v, "refused")
     \/ /\ target[v] \notin revoked
        /\ RevokeTo(v, "checked")
        /\ UNCHANGED dead
  /\ UNCHANGED <<passports, rotating, checking>>

\* revokePassport; the primary key refuses a second row.
RevokeTarget(v) ==
  /\ revoke[v] = "checked"
  /\ \/ InsertRevocation(target[v]) /\ RevokeTo(v, "revoked")
     \/ target[v] \in revoked /\ RevokeTo(v, "failed") /\ UNCHANGED passports
  /\ UNCHANGED <<rotating, checking, dead>>

\* Mutant of AnswerRevoke: it does not wait for the INSERT.
AnswerRevokeEarly(v) ==
  /\ revoke[v] = "checked"
  /\ dead' = dead \cup {target[v]}
  /\ RevokeTo(v, "answered")
  /\ UNCHANGED <<passports, rotating, checking>>

AnswerRevoke(v) ==
  /\ revoke[v] = "revoked"
  /\ dead' = dead \cup {target[v]}
  /\ RevokeTo(v, "answered")
  /\ UNCHANGED <<passports, rotating, checking>>

RevokeFails(v) ==
  /\ \/ "queryError" \in Faults /\ revoke[v] \in {"received", "checked"}
     \/ "ackLoss" \in Faults /\ revoke[v] = "revoked"
  /\ RevokeTo(v, "failed")
  /\ UNCHANGED <<passports, rotating, checking, dead>>

-----------------------------------------------------------------------------
(* POST /v1/passport/verify                                                *)

\* Signature, expiry and scope are checked first, without the database.
BeginCheck(c, p) ==
  /\ check[c] = "idle"
  /\ p \in issued \ expired
  /\ check' = [check EXCEPT ![c] = "verified"]
  /\ subject' = [subject EXCEPT ![c] = p]
  /\ tooLate' = [tooLate EXCEPT ![c] = p \in dead]
  /\ UNCHANGED <<passports, rotating, revoking, acceptedDead, dead>>

\* isPassportRevoked decides.
FinishCheck(c) ==
  /\ check[c] = "verified"
  /\ check' = [check EXCEPT ![c] = "idle"]
  /\ acceptedDead' = IF subject[c] \notin revoked /\ tooLate[c]
                     THEN acceptedDead \cup {subject[c]} ELSE acceptedDead
  /\ UNCHANGED <<passports, rotating, revoking, subject, tooLate, dead>>

-----------------------------------------------------------------------------

\* The process dies: whatever was in flight is never answered.
Crash ==
  /\ "crash" \in Faults
  /\ rotate' = [r \in Rotates |->
       IF rotate[r] \in {"verified", "checked", "revoked"} THEN "failed" ELSE rotate[r]]
  /\ revoke' = [v \in Revokes |->
       IF revoke[v] \in {"received", "checked", "revoked"} THEN "failed" ELSE revoke[v]]
  /\ check' = [c \in Checks |-> "idle"]
  /\ UNCHANGED <<passports, rotated, target, subject, tooLate, acceptedDead, dead>>

RotateStep(r) ==
  \/ CheckRotated(r) \/ RevokeRotated(r) \/ IssueSuccessor(r) \/ RotateFails(r)
  \/ \E p \in Passports : BeginRotate(r, p)

RevokeStep(v) ==
  \/ CheckTarget(v) \/ RevokeTarget(v) \/ AnswerRevoke(v) \/ RevokeFails(v)
  \/ \E p \in Passports : BeginRevoke(v, p)

Next ==
  \/ Crash
  \/ \E p \in Passports : Issue(p) \/ Expire(p)
  \/ \E r \in Rotates : RotateStep(r)
  \/ \E v \in Revokes : RevokeStep(v)
  \/ \E c \in Checks : FinishCheck(c) \/ \E p \in Passports : BeginCheck(c, p)

Spec == Init /\ [][Next]_vars

-----------------------------------------------------------------------------
(* Properties                                                              *)

TypeOK ==
  /\ issued \subseteq Passports
  /\ expired \subseteq issued
  /\ parent \in [Passports -> issued \cup {NoPassport}]
  /\ revoked \subseteq issued
  /\ rotate \in [Rotates -> {"idle", "verified", "checked", "revoked", "refused",
                             "failed", "answered"}]
  /\ rotated \in [Rotates -> issued \cup {NoPassport}]
  /\ revoke \in [Revokes -> {"idle", "received", "checked", "revoked", "refused",
                             "failed", "answered"}]
  /\ target \in [Revokes -> issued \cup {NoPassport}]
  /\ check \in [Checks -> {"idle", "verified"}]
  /\ subject \in [Checks -> issued \cup {NoPassport}]
  /\ tooLate \in [Checks -> BOOLEAN]
  /\ dead \subseteq issued
  /\ acceptedDead \subseteq issued

\* However many rotations and revocations of it race, a passport is replaced at
\* most once, and only when it can no longer be used itself.
OneSuccessor ==
  \A q \in Passports :
    parent[q] # NoPassport =>
      /\ parent[q] \in revoked
      /\ \A p \in Passports : parent[p] = parent[q] => p = q

\* A revocation that is answered 200 leaves no successor behind: a rotation
\* racing it did not issue one, and never will.
RevokedHasNoSuccessor ==
  \A v \in Revokes :
    revoke[v] = "answered" => \A q \in Passports : parent[q] # target[v]

\* "After this, POST /v1/passport/verify returns PASSPORT_REVOKED": a request
\* that comes after the answer to a revocation or rotation is never accepted.
NeverAcceptedAfterRevocation == acceptedDead = {}

\* Revoked by a rotation that has not issued the successor yet.
HalfRotated == {rotated[r] : r \in {s \in Rotates : rotate[s] = "revoked"}}

\* With the moment between the two halves of a rotation counted to the old
\* passport, rotations and revocations are the atomic steps of PassportRegistry.
Live == (issued \ revoked) \cup HalfRotated
Registry == INSTANCE PassportRegistry WITH live <- Live, spent <- revoked \ HalfRotated
AtomicRegistry == Registry!Spec
=============================================================================

----------------------- MODULE PassportLifecycleProofs -----------------------
(***************************************************************************)
(* Rotations and revocations of passports, any number of them at once and  *)
(* whatever fails, are the atomic steps of PassportRegistry.  The primary  *)
(* key of revoked_passports is what the argument rests on: the row of a    *)
(* passport is inserted by one request only, so at most one rotation gets  *)
(* to issue a successor (HalfRotated is claimed by one rotation) and a     *)
(* revocation that inserted it knows that no rotation did.                 *)
(***************************************************************************)
EXTENDS PassportLifecycle, TLAPS

\* A request in flight names a passport that was issued.
RequestsNamed ==
  /\ \A r \in Rotates : rotate[r] \in {"verified", "checked", "revoked"} => rotated[r] \in issued
  /\ \A v \in Revokes : revoke[v] \in {"received", "checked", "revoked", "answered"}
       => target[v] \in issued
  /\ \A c \in Checks : check[c] = "verified" => subject[c] \in issued

\* Whoever inserted the row of a passport is alone in having done so: one
\* rotation that has not issued yet, a successor, or one revocation.
OneClaim ==
  /\ \A r \in Rotates : rotate[r] = "revoked" =>
       /\ rotated[r] \in revoked
       /\ \A s \in Rotates : rotate[s] = "revoked" /\ rotated[s] = rotated[r] => s = r
       /\ \A q \in Passports : parent[q] # rotated[r]
       /\ \A v \in Revokes : revoke[v] \in {"revoked", "answered"} => target[v] # rotated[r]
  /\ \A v \in Revokes : revoke[v] \in {"revoked", "answered"} =>
       /\ target[v] \in revoked
       /\ \A q \in Passports : parent[q] # target[v]

\* Only issued passports have a parent.
ParentsIssued == \A q \in Passports : parent[q] # NoPassport => q \in issued

\* What was answered is in the table, and a request that came later sees it.
DeadSound ==
  /\ dead \subseteq revoked
  /\ \A c \in Checks : check[c] = "verified" /\ tooLate[c] => subject[c] \in revoked

IInv ==
  /\ TypeOK
  /\ RequestsNamed /\ OneClaim /\ ParentsIssued /\ DeadSound
  /\ OneSuccessor /\ NeverAcceptedAfterRevocation

\* At first nothing is issued, revoked or under way.
LEMMA InitInvariant == Init => IInv
BY ParametersAssumption
   DEF Init, IInv, TypeOK, RequestsNamed, OneClaim, ParentsIssued, DeadSound, OneSuccessor,
       NeverAcceptedAfterRevocation

\* A rotation keeps the invariant.
LEMMA RotateStepInvariant ==
  ASSUME IInv, NEW r \in Rotates, RotateStep(r)
  PROVE  IInv'
<1> USE ParametersAssumption
        DEF IInv, TypeOK, RequestsNamed, OneClaim, ParentsIssued, DeadSound, OneSuccessor,
            NeverAcceptedAfterRevocation, passports, rotating, revoking, checking, RotateTo
<1>1. CASE CheckRotated(r)
  BY <1>1 DEF CheckRotated
<1>2. CASE RevokeRotated(r)
  BY <1>2 DEF RevokeRotated, InsertRevocation
<1>3. CASE IssueSuccessor(r)
  BY <1>3 DEF IssueSuccessor
<1>4. CASE RotateFails(r)
  BY <1>4 DEF RotateFails
<1>5. ASSUME NEW p \in Passports, BeginRotate(r, p) PROVE IInv'
  BY <1>5 DEF BeginRotate
<1> QED
  BY <1>1, <1>2, <1>3, <1>4, <1>5 DEF RotateStep

\* A revocation keeps it.
LEMMA RevokeStepInvariant ==
  ASSUME IInv, NEW v \in Revokes, RevokeStep(v)
  PROVE  IInv'
<1> USE ParametersAssumption
        DEF IInv, TypeOK, RequestsNamed, OneClaim, ParentsIssued, DeadSound, OneSuccessor,
            NeverAcceptedAfterRevocation, passports, rotating, revoking, checking, RevokeTo
<1>1. CASE CheckTarget(v)
  BY <1>1 DEF CheckTarget
<1>2. CASE RevokeTarget(v)
  BY <1>2 DEF RevokeTarget, InsertRevocation
<1>3. CASE AnswerRevoke(v)
  BY <1>3 DEF AnswerRevoke
<1>4. CASE RevokeFails(v)
  BY <1>4 DEF RevokeFails
<1>5. ASSUME NEW p \in Passports, BeginRevoke(v, p) PROVE IInv'
  BY <1>5 DEF BeginRevoke
<1> QED
  BY <1>1, <1>2, <1>3, <1>4, <1>5 DEF RevokeStep

\* So does every step.
LEMMA StepInvariant == IInv /\ [Next]_vars => IInv'
<1> SUFFICES ASSUME IInv, [Next]_vars PROVE IInv'
  OBVIOUS
<1> USE ParametersAssumption
        DEF IInv, TypeOK, RequestsNamed, OneClaim, ParentsIssued, DeadSound, OneSuccessor,
            NeverAcceptedAfterRevocation, passports, rotating, revoking, checking
<1>1. CASE Crash
  BY <1>1 DEF Crash
<1>2. ASSUME NEW p \in Passports, Issue(p) PROVE IInv'
  BY <1>2 DEF Issue
<1>3. ASSUME NEW p \in Passports, Expire(p) PROVE IInv'
  BY <1>3 DEF Expire
<1>4. ASSUME NEW c \in Checks, FinishCheck(c) PROVE IInv'
  <2> USE <1>4 DEF FinishCheck
  <2>1. acceptedDead' = acceptedDead
    OBVIOUS
  <2> QED
    BY <2>1
<1>5. ASSUME NEW c \in Checks, NEW p \in Passports, BeginCheck(c, p) PROVE IInv'
  <2> USE <1>5 DEF BeginCheck
  <2>1. tooLate' \in [Checks -> BOOLEAN]
    <3>1. (p \in dead) \in BOOLEAN
      OBVIOUS
    <3> QED
      BY <3>1, Zenon
  <2>2. TypeOK'
    BY <2>1
  <2>3. DeadSound'
    OBVIOUS
  <2> QED
    BY <2>2, <2>3
<1>6. CASE UNCHANGED vars
  BY <1>6 DEF vars
<1> HIDE DEF IInv
<1> QED
  BY <1>1, <1>2, <1>3, <1>4, <1>5, <1>6, RotateStepInvariant, RevokeStepInvariant,
     Zenon DEF Next

\* Every row of revoked_passports has one claimant, always.
THEOREM Invariance == Spec => []IInv
BY InitInvariant, StepInvariant, PTL DEF Spec

\* Every variable keeps its type: only issued passports are ever rotated,
\* revoked, answered for or accepted.
THEOREM TypeCorrect == Spec => []TypeOK
<1>1. IInv => TypeOK
  BY DEF IInv
<1> QED
  BY <1>1, Invariance, PTL

\* A passport is replaced at most once, and only when it is revoked.
THEOREM ReplacedOnce == Spec => []OneSuccessor
<1>1. IInv => OneSuccessor
  BY DEF IInv
<1> QED
  BY <1>1, Invariance, PTL

\* A revocation answered 200 leaves no successor.
THEOREM RevocationEndsIt == Spec => []RevokedHasNoSuccessor
<1>1. IInv => RevokedHasNoSuccessor
  BY DEF IInv, OneClaim, RevokedHasNoSuccessor
<1> QED
  BY <1>1, Invariance, PTL

\* No verification that starts after a revocation was answered accepts.
THEOREM RevocationIsImmediate == Spec => []NeverAcceptedAfterRevocation
<1>1. IInv => NeverAcceptedAfterRevocation
  BY DEF IInv
<1> QED
  BY <1>1, Invariance, PTL

-----------------------------------------------------------------------------
(* The refinement                                                          *)

\* Passports claimed by a rotation are issued and revoked.
LEMMA HalfRotatedRevoked ==
  ASSUME IInv
  PROVE  HalfRotated \subseteq revoked /\ revoked \subseteq issued
BY DEF IInv, TypeOK, OneClaim, HalfRotated

\* A step that leaves issued, revoked and the claims alone shows nothing.
LEMMA Stutter ==
  ASSUME UNCHANGED <<issued, revoked>>, HalfRotated' = HalfRotated
  PROVE  UNCHANGED Registry!vars
BY DEF Live, Registry!vars

\* One rotation's step is a step of the registry, or none.
LEMMA RotateStepRefines ==
  ASSUME IInv, NEW r \in Rotates, RotateStep(r)
  PROVE  [Registry!Next]_Registry!vars
<1> DEFINE p == rotated[r]
<1>1. TypeOK /\ RequestsNamed /\ OneClaim /\ HalfRotated \subseteq revoked /\ revoked \subseteq issued
  BY HalfRotatedRevoked DEF IInv
<1>2. CASE CheckRotated(r)
  <2>1. HalfRotated' = HalfRotated
    BY <1>1, <1>2 DEF CheckRotated, RotateTo, HalfRotated, TypeOK
  <2> QED
    BY <1>2, <2>1, Stutter DEF CheckRotated, passports
<1>3. CASE RevokeRotated(r)
  <2>1. CASE rotate' = [rotate EXCEPT ![r] = "revoked"] /\ InsertRevocation(p)
    <3>1. UNCHANGED rotated
      BY <1>3 DEF RevokeRotated, RotateTo
    <3>2. HalfRotated' = HalfRotated \cup {p}
      BY <1>1, <2>1, <3>1, <1>3 DEF HalfRotated, TypeOK, RevokeRotated
    <3>3. p \in issued /\ p \notin revoked /\ revoked' = revoked \cup {p} /\ issued' = issued
      BY <1>1, <1>3, <2>1 DEF InsertRevocation, RequestsNamed, RevokeRotated
    <3> QED
      BY <1>1, <3>2, <3>3 DEF Live, Registry!vars
  <2>2. CASE rotate' = [rotate EXCEPT ![r] = "failed"] /\ UNCHANGED passports
    <3>1. HalfRotated' = HalfRotated
      BY <1>1, <1>3, <2>2 DEF RevokeRotated, RotateTo, HalfRotated, TypeOK
    <3> QED
      BY <2>2, <3>1, Stutter DEF passports
  <2> QED
    BY <1>3, <2>1, <2>2 DEF RevokeRotated, RotateTo
<1>4. CASE IssueSuccessor(r)
  <2> USE <1>4 DEF IssueSuccessor
  <2>1. PICK q \in Passports \ issued : issued' = issued \cup {q}
    OBVIOUS
  <2>2. HalfRotated' = HalfRotated \ {p}
    BY <1>1 DEF RotateTo, HalfRotated, TypeOK, OneClaim
  <2>3. p \in HalfRotated /\ p \in Passports
    BY <1>1 DEF HalfRotated, RequestsNamed, TypeOK
  <2>4. Live' = (Live \ {p}) \cup {q} /\ q \notin Live \cup (revoked \ HalfRotated)
    BY <1>1, <2>1, <2>2, <2>3 DEF Live
  <2>5. (revoked \ HalfRotated)' = (revoked \ HalfRotated) \cup {p} /\ p \in Live
    BY <1>1, <2>2, <2>3 DEF Live
  <2> QED
    BY <2>1, <2>3, <2>4, <2>5 DEF Registry!Next, Registry!Replace
<1>5. CASE RotateFails(r)
  <2> USE <1>5 DEF RotateFails
  <2>1. CASE rotate[r] = "revoked"
    <3>1. HalfRotated' = HalfRotated \ {p}
      BY <1>1, <2>1 DEF RotateTo, HalfRotated, TypeOK, OneClaim
    <3>2. p \in HalfRotated
      BY <2>1 DEF HalfRotated
    <3>3. UNCHANGED <<issued, revoked>>
      BY DEF passports
    <3>4. Registry!Revoke({p}) /\ {p} \in SUBSET Live
      BY <1>1, <3>1, <3>2, <3>3 DEF Registry!Revoke, Live
    <3> QED
      BY <3>4 DEF Registry!Next
  <2>2. CASE rotate[r] # "revoked"
    <3>1. HalfRotated' = HalfRotated
      BY <1>1, <2>2 DEF RotateTo, HalfRotated, TypeOK
    <3> QED
      BY <3>1, Stutter DEF passports
  <2> QED
    BY <2>1, <2>2
<1>6. ASSUME NEW new \in Passports, BeginRotate(r, new) PROVE [Registry!Next]_Registry!vars
  <2>1. HalfRotated' = HalfRotated
    BY <1>1, <1>6 DEF BeginRotate, HalfRotated, TypeOK
  <2> QED
    BY <1>6, <2>1, Stutter DEF BeginRotate, passports
<1> QED
  BY <1>2, <1>3, <1>4, <1>5, <1>6 DEF RotateStep

\* So is every step.
LEMMA StepRefines ==
  ASSUME IInv, [Next]_vars
  PROVE  [Registry!Next]_Registry!vars
<1>1. TypeOK /\ RequestsNamed /\ HalfRotated \subseteq revoked /\ revoked \subseteq issued
  BY HalfRotatedRevoked DEF IInv
<1>2. CASE Crash
  <2>1. HalfRotated' = {} /\ UNCHANGED <<issued, revoked>>
    BY <1>2, <1>1 DEF Crash, HalfRotated, passports, TypeOK
  <2>2. CASE HalfRotated = {}
    BY <2>1, <2>2, Stutter
  <2>3. CASE HalfRotated # {}
    <3>1. Registry!Revoke(HalfRotated) /\ HalfRotated \in SUBSET Live
      BY <1>1, <2>1, <2>3 DEF Registry!Revoke, Live
    <3> QED
      BY <3>1 DEF Registry!Next
  <2> QED
    BY <2>2, <2>3
<1>3. ASSUME NEW p \in Passports, Issue(p) PROVE [Registry!Next]_Registry!vars
  <2>1. HalfRotated' = HalfRotated /\ revoked' = revoked /\ issued' = issued \cup {p} /\ p \notin issued
    BY <1>3 DEF Issue, HalfRotated, rotating
  <2>2. Registry!Grant(p)
    BY <1>1, <2>1 DEF Registry!Grant, Live
  <2> QED
    BY <2>2 DEF Registry!Next
<1>4. ASSUME NEW v \in Revokes, RevokeStep(v) PROVE [Registry!Next]_Registry!vars
  <2>1. HalfRotated' = HalfRotated
    BY <1>4 DEF RevokeStep, CheckTarget, RevokeTarget, AnswerRevoke, RevokeFails, BeginRevoke,
                HalfRotated, rotating
  <2>2. issued' = issued /\ (revoked' = revoked \/ (InsertRevocation(target[v]) /\ RevokeTarget(v)))
    BY <1>4 DEF RevokeStep, CheckTarget, RevokeTarget, AnswerRevoke, RevokeFails, BeginRevoke,
                InsertRevocation, passports
  <2>3. CASE revoked' = revoked
    BY <2>1, <2>2, <2>3, Stutter
  <2>4. CASE InsertRevocation(target[v]) /\ RevokeTarget(v)
    <3>1. /\ revoked' = revoked \cup {target[v]} /\ target[v] \notin revoked
          /\ target[v] \in issued
      BY <1>1, <2>4 DEF InsertRevocation, RevokeTarget, RequestsNamed
    <3>2. Registry!Revoke({target[v]}) /\ {target[v]} \in SUBSET Live
      BY <1>1, <2>1, <2>2, <3>1 DEF Registry!Revoke, Live
    <3> QED
      BY <3>2 DEF Registry!Next
  <2> QED
    BY <2>2, <2>3, <2>4
<1>5. ASSUME NEW p \in Passports, Expire(p) PROVE [Registry!Next]_Registry!vars
  BY <1>5, Stutter DEF Expire, HalfRotated, rotating
<1>6. ASSUME NEW c \in Checks, FinishCheck(c) \/ (\E p \in Passports : BeginCheck(c, p))
      PROVE  [Registry!Next]_Registry!vars
  BY <1>6, Stutter DEF FinishCheck, BeginCheck, HalfRotated, rotating, passports
<1>7. CASE UNCHANGED vars
  BY <1>7, Stutter DEF vars, HalfRotated, rotating, passports
<1> QED
  BY <1>2, <1>3, <1>4, <1>5, <1>6, <1>7, RotateStepRefines, Zenon DEF Next

\* Rotation and revocation, split over their awaits, are atomic to whoever counts
\* a half-rotated passport as the old one; a failure between the halves is a
\* revocation.
THEOREM ImplementsRegistry == Spec => AtomicRegistry
<1>1. Init => Registry!Init
  BY DEF Init, Registry!Init, Live, HalfRotated
<1>2. IInv /\ [Next]_vars => [Registry!Next]_Registry!vars
  BY StepRefines
<1> QED
  BY <1>1, <1>2, Invariance, PTL DEF Spec, AtomicRegistry, Registry!Spec
=============================================================================

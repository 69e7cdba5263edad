--------------------------- MODULE KeyCustodyProofs ---------------------------
(***************************************************************************)
(* What holds of a company's keys for any number of instances, hydrations  *)
(* and rotations at once, and whatever fails.  SignedWithSavedKey is not   *)
(* inductive: a handler signs with the key of an object it captured        *)
(* earlier, so the invariant follows the saved key through hydration, the  *)
(* tenants map, the objects captured by requests and the rotations that    *)
(* will replace their keys.                                                *)
(*                                                                         *)
(* And what holds in addition while one rotation runs at a time: then the  *)
(* row, the retired keys and the memory of a process can be told from the  *)
(* step of the one rotation under way.  No key is lost by any fault; with  *)
(* a grace period that is long enough, and no acknowledgement lost, no     *)
(* passport outlives the keys it is verified under.                        *)
(***************************************************************************)
EXTENDS KeyCustody, TLAPS

\* The row of keys holds a key that was committed, and is never emptied.
RowSound ==
  /\ stored \in backedUp \cup {NoKey}
  /\ backedUp # {} => stored # NoKey

\* A hydration past saveKeys has a saved key.
LoadsSound ==
  \A t \in Tenants :
    /\ loading[t] = "saving" => keys[t] \in generated
    /\ loading[t] \in {"hydrating", "done"} => keys[t] \in backedUp

\* Only hydrated objects of the instance itself are in its tenants map.
MapSound ==
  \A i \in Instances :
    tenant[i] # NoTenant => loading[tenant[i]] = "done" /\ owner[tenant[i]] = i

\* A rotation in flight works on such an object, and saves its key before it
\* switches to it.
RotationsSound ==
  \A r \in Rotations :
    /\ r \in InRotation => rotates[r] \in Tenants /\ loading[rotates[r]] = "done"
    /\ rotation[r] = "retiring" => oldKey[r] \in Keys
    /\ rotation[r] = "saving" => newKey[r] \in generated
    /\ rotation[r] = "switching" => newKey[r] \in backedUp

\* So does the request of a passport.
IssuanceSound ==
  \A p \in Passports :
    issuing[p] = "checking" => issuer[p] \in Tenants /\ loading[issuer[p]] = "done"

IInv ==
  /\ TypeOK
  /\ RowSound /\ LoadsSound /\ MapSound /\ RotationsSound /\ IssuanceSound
  /\ SignedWithSavedKey

\* At first there is the key of a registered company or none, and no server runs.
LEMMA InitInvariant == Init => IInv
<1> SUFFICES ASSUME Init PROVE IInv
  OBVIOUS
<1> USE ParametersAssumption DEF Init
<1>1. stored \in Keys \cup {NoKey}
  OBVIOUS
<1>2. TypeOK
  BY <1>1 DEF TypeOK
<1>3. RowSound /\ LoadsSound /\ MapSound
  BY <1>1 DEF RowSound, LoadsSound, MapSound
<1>4. RotationsSound /\ IssuanceSound /\ SignedWithSavedKey
  BY DEF RotationsSound, IssuanceSound, SignedWithSavedKey, InRotation
<1> QED
  BY <1>2, <1>3, <1>4 DEF IInv

\* Hydration keeps the invariant.
LEMMA LoadStepInvariant ==
  ASSUME IInv, NEW t \in Tenants, ReadKeys(t) \/ SaveFirstKeys(t) \/ InstallTenant(t)
  PROVE  IInv'
<1> USE ParametersAssumption
        DEF IInv, TypeOK, RowSound, LoadsSound, MapSound, RotationsSound, IssuanceSound,
            SignedWithSavedKey, InRotation,
            database, memory, rotating, issuance, checks
<1>1. CASE ReadKeys(t)
  BY <1>1, SMTT(40) DEF ReadKeys
<1>2. CASE SaveFirstKeys(t)
  BY <1>2 DEF SaveFirstKeys, Save
<1>3. CASE InstallTenant(t)
  BY <1>3 DEF InstallTenant
<1> QED
  BY <1>1, <1>2, <1>3

\* A rotation keeps it.
LEMMA RotationStepInvariant ==
  ASSUME IInv, NEW r \in Rotations, RotationStep(r)
  PROVE  IInv'
<1> USE ParametersAssumption
        DEF IInv, TypeOK, RowSound, LoadsSound, MapSound, RotationsSound, IssuanceSound,
            SignedWithSavedKey, InRotation,
            database, memory, rotating, issuance, checks
<1>1. CASE SelectCurrentKey(r)
  <2>1. stored \in Keys
    BY <1>1 DEF SelectCurrentKey
  <2> QED
    BY <1>1, <2>1 DEF SelectCurrentKey
<1>2. CASE RetireCurrentKey(r)
  BY <1>2 DEF RetireCurrentKey
<1>3. CASE SaveNewKeys(r)
  BY <1>3 DEF SaveNewKeys, Save
<1>4. CASE SwitchKeys(r)
  BY <1>4 DEF SwitchKeys
<1>5. CASE RotationFails(r)
  BY <1>5 DEF RotationFails
<1> QED
  BY <1>1, <1>2, <1>3, <1>4, <1>5 DEF RotationStep

\* What an instance does of its own keeps it.
LEMMA InstanceStepInvariant ==
  ASSUME IInv, NEW i \in Instances, InstanceStep(i)
  PROVE  IInv'
<1> USE ParametersAssumption
        DEF IInv, TypeOK, RowSound, LoadsSound, MapSound, RotationsSound, IssuanceSound,
            SignedWithSavedKey, InRotation,
            database, memory, rotating, issuance, checks
<1>1. CASE StartUnknown(i)
  BY <1>1 DEF StartUnknown
<1>2. CASE Crash(i)
  BY <1>2 DEF Crash
<1>3. ASSUME NEW t \in Tenants, Hydrate(i, t) PROVE IInv'
  <2> USE <1>3 DEF Hydrate
  <2>1. /\ mode' \in [Instances -> {"down", "starting", "serving"}]
        /\ registered' \in BOOLEAN
    <3>1. mode' \in [Instances -> {"down", "starting", "serving"}]
      OBVIOUS
    <3>2. registered' \in {TRUE, registered}
      BY Zenon
    <3> QED
      BY <3>1, <3>2
  <2>2. TypeOK'
    BY <2>1
  <2>3. RowSound' /\ LoadsSound' /\ MapSound'
    OBVIOUS
  <2>4. RotationsSound' /\ IssuanceSound' /\ SignedWithSavedKey'
    OBVIOUS
  <2> QED
    BY <2>2, <2>3, <2>4
<1>4. ASSUME NEW r \in Rotations, BeginRotation(i, r) PROVE IInv'
  BY <1>4 DEF BeginRotation
<1>5. ASSUME NEW p \in Passports, BeginIssue(i, p) PROVE IInv'
  BY <1>5 DEF BeginIssue
<1>6. ASSUME NEW p \in Passports, NEW v \in Verifications, BeginVerify(i, v, p) PROVE IInv'
  <2>1. RecentlyRetired \in SUBSET Keys
    BY DEF RecentlyRetired
  <2> QED
    BY <1>6, <2>1 DEF BeginVerify
<1> QED
  BY <1>1, <1>2, <1>3, <1>4, <1>5, <1>6 DEF InstanceStep

\* So does every step.
LEMMA StepInvariant == IInv /\ [Next]_vars => IInv'
<1> SUFFICES ASSUME IInv, [Next]_vars PROVE IInv'
  OBVIOUS
<1> USE ParametersAssumption
        DEF IInv, TypeOK, RowSound, LoadsSound, MapSound, RotationsSound, IssuanceSound,
            SignedWithSavedKey, InRotation,
            database, memory, rotating, issuance, checks
<1>1. CASE Tick
  BY <1>1 DEF Tick
<1>2. ASSUME NEW p \in Passports, Issue(p) PROVE IInv'
  BY <1>2 DEF Issue
<1>3. ASSUME NEW v \in Verifications, FinishVerify(v) PROVE IInv'
  <2>1. refusals' \subseteq [passport : Passports, across : BOOLEAN, outdated : BOOLEAN]
    <3> DEFINE seen == keys[verifier[v]] # offered[v]
               old == Outdated(verifier[v]) \/ SignedOutdated(subject[v])
               refusal == [passport |-> subject[v], across |-> seen, outdated |-> old]
    <3>1. refusal \in [passport : Passports, across : BOOLEAN, outdated : BOOLEAN]
      <4>1. subject[v] \in Passports /\ seen \in BOOLEAN
        OBVIOUS
      <4>2. old \in BOOLEAN
        BY DEF Outdated, SignedOutdated, ServedElsewhere
      <4> HIDE DEF seen, old
      <4> QED
        BY <4>1, <4>2, Zenon
    <3>2. refusals' \in {refusals, refusals \cup {refusal}}
      BY <1>3, Zenon DEF FinishVerify
    <3> HIDE DEF refusal
    <3> QED
      BY <3>1, <3>2
  <2> QED
    BY <1>3, <2>1 DEF FinishVerify
<1>4. CASE UNCHANGED vars
  BY <1>4 DEF vars
<1>5. ASSUME NEW t \in Tenants, Attest(t) PROVE IInv'
  <2>1. keys[t] \in backedUp
    BY <1>5 DEF Attest
  <2> QED
    BY <1>5, <2>1 DEF Attest
<1> QED
  BY <1>1, <1>2, <1>3, <1>4, <1>5, InstanceStepInvariant, LoadStepInvariant,
     RotationStepInvariant, Zenon DEF Next

\* A saved key is behind every object, request and rotation, always.
THEOREM Invariance == Spec => []IInv
BY InitInvariant, StepInvariant, PTL DEF Spec

\* Every variable keeps its type; in particular keys_history only holds keys.
THEOREM TypeCorrect == Spec => []TypeOK
<1>1. IInv => TypeOK
  BY DEF IInv
<1> QED
  BY <1>1, Invariance, PTL

\* No passport and no record is ever signed with a key that was not committed before.
THEOREM SigningKeysAreSaved == Spec => []SignedWithSavedKey
<1>1. IInv => SignedWithSavedKey
  BY DEF IInv
<1> QED
  BY <1>1, Invariance, PTL

-----------------------------------------------------------------------------
(* One hydration and one rotation at a time.                               *)

\* What Serial buys: no two of them are ever in flight together.
OneAtATime ==
  /\ \A t, u \in InHydration : t = u
  /\ \A r, s \in InRotation : r = s

\* An instance has one hydrated object, the one in its tenants map, and hydrates
\* only while it has none; an unknown company has never been loaded.
MapExact ==
  /\ \A i \in Instances : mode[i] = "down" => tenant[i] = NoTenant
  /\ \A t \in Tenants : loading[t] = "done" => tenant[owner[t]] = t
  /\ \A t \in InHydration : tenant[owner[t]] = NoTenant
  /\ ~registered => \A t \in Tenants : loading[t] = "free"

\* A retirement of key k at or after a time.
RetiredSince(k, begin) == \E h \in history : h.key = k /\ h.at >= begin

\* A rotation knows the row it is about to replace: nobody else writes it, its key
\* is in the history before it is replaced, and the new one is new.
RowHeld ==
  /\ \A t \in Tenants : loading[t] = "saving" => stored = NoKey
  /\ \A r \in Rotations :
       /\ rotation[r] = "retiring" => oldKey[r] = stored
       /\ rotation[r] = "saving" =>
            /\ RetiredSince(stored, began[r])
            /\ newKey[r] \notin backedUp
       /\ rotation[r] = "switching" => newKey[r] = stored

\* A rotation takes no longer than it may.
OnTime ==
  \A r \in InRotation : began[r] <= time /\ time <= began[r] + MaxRotation

SerialInv == IInv /\ OneAtATime /\ MapExact /\ RowHeld /\ OnTime /\ NoKeyIsLost

\* The stronger invariant of a single request at a time holds at first.
LEMMA SerialInit == Init => SerialInv
<1> SUFFICES ASSUME Init PROVE SerialInv
  OBVIOUS
<1>1. IInv
  BY InitInvariant
<1>2. OneAtATime /\ MapExact /\ RowHeld /\ OnTime
  BY DEF Init, OneAtATime, MapExact, RowHeld, OnTime, InHydration, InRotation
<1>3. NoKeyIsLost
  BY DEF Init, NoKeyIsLost
<1> QED
  BY <1>1, <1>2, <1>3 DEF SerialInv

\* While an object is there or a rotation is in flight, the row of keys has a key, so
\* no hydration is about to write it.
LEMMA RowWritten ==
  ASSUME SerialInv
  PROVE  /\ \A t \in Tenants : loading[t] \in {"hydrating", "done"} =>
              stored # NoKey /\ \A u \in Tenants : loading[u] # "saving"
         /\ \A r \in InRotation : stored # NoKey /\ \A u \in Tenants : loading[u] # "saving"
<1> USE DEF SerialInv, IInv, TypeOK, RowSound, LoadsSound, RowHeld
<1>1. \A t \in Tenants : loading[t] \in {"hydrating", "done"} =>
        stored # NoKey /\ \A u \in Tenants : loading[u] # "saving"
  OBVIOUS
<1>2. \A r \in InRotation : rotates[r] \in Tenants /\ loading[rotates[r]] = "done"
  BY DEF RotationsSound, InRotation
<1> QED
  BY <1>1, <1>2

\* Hydration keeps the serial invariant.
LEMMA SerialLoadStep ==
  ASSUME SerialInv, NEW t \in Tenants, ReadKeys(t) \/ SaveFirstKeys(t) \/ InstallTenant(t)
  PROVE  SerialInv'
<1>1. IInv'
  BY LoadStepInvariant DEF SerialInv
<1> USE RowWritten, ParametersAssumption
        DEF SerialInv, IInv, TypeOK, database, memory, rotating, issuance, checks
<1>2. CASE ReadKeys(t)
  <2> USE <1>2 DEF ReadKeys
  <2>1. OneAtATime' /\ MapExact'
    BY DEF OneAtATime, MapExact, InHydration, InRotation
  <2>2. RowHeld' /\ OnTime' /\ NoKeyIsLost'
    BY DEF RowHeld, RetiredSince, OnTime, InRotation, NoKeyIsLost
  <2> QED
    BY <1>1, <2>1, <2>2
<1>3. CASE SaveFirstKeys(t)
  <2> USE <1>3 DEF SaveFirstKeys, Save
  <2>1. OneAtATime' /\ MapExact'
    BY DEF OneAtATime, MapExact, InHydration, InRotation
  <2>2. InRotation = {} /\ stored = NoKey /\ backedUp = {}
    BY DEF RowHeld, RowSound
  <2>3. RowHeld' /\ OnTime'
    BY <2>1, <2>2 DEF RowHeld, OneAtATime, InHydration, OnTime, InRotation
  <2>4. NoKeyIsLost'
    BY <2>2 DEF NoKeyIsLost
  <2> QED
    BY <1>1, <2>1, <2>3, <2>4
<1>4. CASE InstallTenant(t)
  <2> USE <1>4 DEF InstallTenant
  <2>1. OneAtATime'
    BY DEF OneAtATime, InHydration, InRotation
  <2>2. MapExact'
    BY DEF MapExact, OneAtATime, InHydration, MapSound
  <2>3. RowHeld' /\ OnTime' /\ NoKeyIsLost'
    BY DEF RowHeld, RetiredSince, OnTime, InRotation, NoKeyIsLost
  <2> QED
    BY <1>1, <2>1, <2>2, <2>3
<1> QED
  BY <1>2, <1>3, <1>4

\* So does a rotation.
LEMMA SerialRotationStep ==
  ASSUME SerialInv, NEW r \in Rotations, RotationStep(r)
  PROVE  SerialInv'
<1>1. IInv'
  BY RotationStepInvariant DEF SerialInv
<1> USE RowWritten, ParametersAssumption
        DEF SerialInv, IInv, TypeOK, database, memory, rotating, issuance, checks
<1>2. OneAtATime'
  BY DEF OneAtATime, InHydration, InRotation, RotationStep, SelectCurrentKey,
         RetireCurrentKey, SaveNewKeys, SwitchKeys, RotationFails
<1>3. MapExact'
  BY DEF MapExact, InHydration, RotationStep, SelectCurrentKey,
         RetireCurrentKey, SaveNewKeys, SwitchKeys, RotationFails, Save
<1>4. OnTime'
  BY DEF OnTime, InRotation, RotationStep, SelectCurrentKey,
         RetireCurrentKey, SaveNewKeys, SwitchKeys, RotationFails, Save
<1>5. CASE SelectCurrentKey(r)
  BY <1>5, <1>1, <1>2, <1>3, <1>4
     DEF SelectCurrentKey, RowHeld, RetiredSince, OneAtATime, InRotation, NoKeyIsLost
<1>6. CASE RetireCurrentKey(r)
  <2> USE <1>6 DEF RetireCurrentKey
  <2>1. NoKeyIsLost'
    BY DEF NoKeyIsLost
  <2>2. RetiredSince(stored, began[r])'
    <3>1. oldKey[r] = stored /\ time >= began[r]
      BY DEF RowHeld, OnTime, InRotation
    <3>2. [key |-> stored, at |-> time] \in history'
      BY <3>1
    <3> QED
      BY <3>1, <3>2 DEF RetiredSince
  <2>3. newKey'[r] \notin backedUp'
    OBVIOUS
  <2>4. RowHeld'
    BY <2>2, <2>3 DEF RowHeld, OneAtATime, InRotation
  <2> QED
    BY <1>1, <1>2, <1>3, <1>4, <2>1, <2>4
<1>7. CASE SaveNewKeys(r)
  <2> USE <1>7 DEF SaveNewKeys, Save
  <2>1. NoKeyIsLost'
    BY DEF NoKeyIsLost, RowHeld, RetiredSince
  <2>2. RowHeld'
    BY DEF RowHeld, OneAtATime, InRotation
  <2> QED
    BY <1>1, <1>2, <1>3, <1>4, <2>1, <2>2
<1>8. CASE SwitchKeys(r)
  BY <1>8, <1>1, <1>2, <1>3, <1>4
     DEF SwitchKeys, RowHeld, RetiredSince, OneAtATime, InRotation, NoKeyIsLost
<1>9. CASE RotationFails(r)
  BY <1>9, <1>1, <1>2, <1>3, <1>4
     DEF RotationFails, RowHeld, RetiredSince, OneAtATime, InRotation, NoKeyIsLost
<1> QED
  BY <1>5, <1>6, <1>7, <1>8, <1>9 DEF RotationStep

\* So does what an instance does of its own, when it waits for its turn.
LEMMA SerialInstanceStep ==
  ASSUME Serial, SerialInv, NEW i \in Instances, InstanceStep(i)
  PROVE  SerialInv'
<1>1. IInv'
  BY InstanceStepInvariant DEF SerialInv
<1> USE RowWritten, ParametersAssumption
        DEF SerialInv, IInv, TypeOK, database, memory, rotating, issuance, checks
<1>2. CASE StartUnknown(i)
  BY <1>1, <1>2 DEF StartUnknown, OneAtATime, MapExact, InHydration, InRotation,
     RowHeld, RetiredSince, OnTime, NoKeyIsLost
<1>3. CASE Crash(i)
  <2> USE <1>3 DEF Crash
  <2>1. OneAtATime'
    BY DEF OneAtATime, InHydration, InRotation
  <2>2. MapExact'
    BY DEF MapExact, InHydration
  <2>3. RowHeld'
    BY DEF RowHeld, RetiredSince, InRotation
  <2>4. OnTime' /\ NoKeyIsLost'
    BY DEF OnTime, InRotation, NoKeyIsLost
  <2> QED
    BY <1>1, <2>1, <2>2, <2>3, <2>4
<1>4. ASSUME NEW t \in Tenants, Hydrate(i, t) PROVE SerialInv'
  <2> USE <1>4 DEF Hydrate
  <2>1. OneAtATime'
    BY DEF OneAtATime, InHydration, InRotation
  <2>2. tenant[i] = NoTenant
    BY DEF MapExact, MapSound
  <2>3. MapExact'
    BY <2>2 DEF MapExact, MapSound, InHydration
  <2>4. RowHeld' /\ OnTime' /\ NoKeyIsLost'
    BY DEF RowHeld, RetiredSince, OnTime, InRotation, NoKeyIsLost
  <2> QED
    BY <1>1, <2>1, <2>3, <2>4
<1>5. ASSUME NEW r \in Rotations, BeginRotation(i, r) PROVE SerialInv'
  BY <1>1, <1>5 DEF BeginRotation, OneAtATime, MapExact, InHydration, InRotation,
     RowHeld, RetiredSince, OnTime, NoKeyIsLost
<1>6. ASSUME NEW p \in Passports, BeginIssue(i, p) PROVE SerialInv'
  BY <1>1, <1>6 DEF BeginIssue, OneAtATime, MapExact, InHydration, InRotation,
     RowHeld, RetiredSince, OnTime, NoKeyIsLost
<1>7. ASSUME NEW p \in Passports, NEW v \in Verifications, BeginVerify(i, v, p) PROVE SerialInv'
  BY <1>1, <1>7 DEF BeginVerify, OneAtATime, MapExact, InHydration, InRotation,
     RowHeld, RetiredSince, OnTime, NoKeyIsLost
<1> QED
  BY <1>2, <1>3, <1>4, <1>5, <1>6, <1>7 DEF InstanceStep

\* So does every step.
LEMMA SerialStep ==
  ASSUME Serial, SerialInv, [Next]_vars
  PROVE  SerialInv'
<1>1. IInv'
  BY StepInvariant DEF SerialInv
<1> USE ParametersAssumption
        DEF SerialInv, IInv, TypeOK, OneAtATime, MapExact, InHydration, InRotation,
            RowHeld, RetiredSince, OnTime, NoKeyIsLost,
            database, memory, rotating, issuance, checks
<1>2. CASE Tick
  BY <1>1, <1>2 DEF Tick
<1>3. ASSUME NEW p \in Passports, Issue(p) PROVE SerialInv'
  BY <1>1, <1>3 DEF Issue
<1>4. ASSUME NEW v \in Verifications, FinishVerify(v) PROVE SerialInv'
  BY <1>1, <1>4 DEF FinishVerify
<1>5. ASSUME NEW t \in Tenants, Attest(t) PROVE SerialInv'
  BY <1>1, <1>5 DEF Attest
<1>6. CASE UNCHANGED vars
  BY <1>1, <1>6 DEF vars
<1> QED
  BY <1>2, <1>3, <1>4, <1>5, <1>6, SerialLoadStep, SerialRotationStep, SerialInstanceStep,
     Zenon DEF Next

\* One request at a time: rotations hold the key that is stored, take no longer than
\* they may, and no key is lost.
THEOREM SerialInvariance ==
  ASSUME Serial
  PROVE  Spec => []SerialInv
<1>1. SerialInv /\ [Next]_vars => SerialInv'
  BY SerialStep
<1> QED
  BY <1>1, SerialInit, PTL DEF Spec

\* Hydrations and rotations in turn: no key that was ever current is lost from keys and
\* keys_history together, whatever query fails or process dies half way.
THEOREM KeysAreKept ==
  ASSUME Serial
  PROVE  Spec => []NoKeyIsLost
<1>1. SerialInv => NoKeyIsLost
  BY DEF SerialInv
<1> QED
  BY <1>1, SerialInvariance, PTL

-----------------------------------------------------------------------------
(* Retired keys stay for the grace period, which is longer than a passport *)
(* lives and a rotation takes, and no query of a rotation loses its answer *)

GraceLongEnough == Serial /\ "ackLoss" \notin Faults /\ TTL + MaxRotation <= GRACE

\* The objects of a server that has been the only one to load the company.
Sole == {t \in Tenants : ~ServedElsewhere(t)}

\* A retirement of the passport's key from which the grace period lasts as long as it.
Covers(h, p) == h.key = signedBy[p] /\ h.at + MaxRotation + TTL >= expires[p]

\* What ~SignedOutdated says of an issued passport.
InTime(p) ==
  \/ issuer[p] \in Sole
  \/ \A h \in history : h.key # signedBy[p]
  \/ \E h \in history : Covers(h, p)

\* A passport was signed by an object that was loaded, no longer than TTL before it expires.
IssuedSound ==
  \A p \in Passports : issuing[p] = "issued" =>
    /\ issuer[p] \in Tenants /\ loading[issuer[p]] # "free"
    /\ expires[p] <= time + TTL

\* A verification in flight captured an object that is still there.
VerifierSound ==
  \A v \in Verifications : verifying[v] = "reading" =>
    /\ verifier[v] \in Tenants /\ loading[verifier[v]] = "done"
    /\ issuing[subject[v]] = "issued"
    /\ offered[v] \in backedUp

\* Where no other server is, an object has the current key, or the key that the rotation
\* about to switch it has just retired.
ObjectsCurrent ==
  \A t \in Tenants :
    loading[t] \in {"hydrating", "done"} /\ t \in Sole /\ keys[t] # stored =>
      \E r \in Rotations :
        rotation[r] = "switching" /\ rotates[r] = t /\ RetiredSince(keys[t], began[r])

\* Before the switch nobody has the new key: not the object, nor a verification that read
\* the object's key, nor, where no other server is, a passport.
NotYetUsed ==
  \A r \in Rotations : rotation[r] = "switching" =>
    /\ keys[rotates[r]] # newKey[r]
    /\ \A v \in Verifications :
         verifying[v] = "reading" /\ verifier[v] = rotates[r] => offered[v] # newKey[r]
    /\ \A p \in Passports :
         issuing[p] = "issued" /\ rotates[r] \in Sole => signedBy[p] # newKey[r]

\* Where no other server is, a passport was signed with the current key, or with one
\* that was retired late enough.
SignedInTime ==
  \A p \in Passports : issuing[p] = "issued" /\ issuer[p] \in Sole =>
    signedBy[p] = stored \/ \E h \in history : Covers(h, p)

\* A verification in flight has read the key it needs, unless the object's key was
\* switched after it read the others.
ReadEnough ==
  \A v \in Verifications :
    /\ verifying[v] = "reading" /\ time <= expires[subject[v]] /\ InTime(subject[v])
    /\ keys[verifier[v]] = offered[v]
    /\ verifier[v] \in Sole \/ keys[verifier[v]] = stored
    => signedBy[subject[v]] \in {keys[verifier[v]]} \cup retired[v]

GraceInv ==
  /\ SerialInv
  /\ IssuedSound /\ VerifierSound /\ ObjectsCurrent /\ NotYetUsed /\ SignedInTime /\ ReadEnough
  /\ RefusedOnlyAcrossRotation

\* What is loaded beside an object of the only server is on that server.
LEMMA SoleOwner ==
  ASSUME NEW t \in Sole, NEW u \in Tenants, loading[t] # "free", loading[u] # "free"
  PROVE  owner[u] = owner[t] /\ u \in Sole
BY DEF Sole, ServedElsewhere

\* The only server stays the only one if nothing is loaded or dropped.
LEMMA SoleSame ==
  ASSUME owner' = owner, \A u \in Tenants : loading'[u] = "free" <=> loading[u] = "free"
  PROVE  Sole' = Sole
BY DEF Sole, ServedElsewhere

\* Its hydrated objects are one, and there is none while it hydrates.
LEMMA SoleObject ==
  ASSUME SerialInv, NEW t \in Sole, NEW u \in Tenants,
         loading[t] \in {"hydrating", "done"}, loading[u] = "done"
  PROVE  t = u
<1>1. owner[u] = owner[t] /\ t \in Tenants
  BY SoleOwner DEF Sole
<1>2. tenant[owner[u]] = u
  BY DEF SerialInv, MapExact
<1>3. CASE loading[t] = "done"
  BY <1>1, <1>2, <1>3 DEF SerialInv, MapExact
<1>4. CASE loading[t] = "hydrating"
  <2>1. tenant[owner[t]] = NoTenant
    BY <1>1, <1>4 DEF SerialInv, MapExact, InHydration
  <2> QED
    BY <1>1, <1>2, <2>1, ParametersAssumption
<1> QED
  BY <1>3, <1>4

\* What getCandidatePublicKeys would return now contains the key of a passport.
LEMMA CandidatesSuffice ==
  ASSUME GraceLongEnough, GraceInv, NEW p \in Passports, NEW u \in Tenants,
         issuing[p] = "issued", time <= expires[p], InTime(p), loading[u] = "done",
         u \in Sole \/ keys[u] = stored
  PROVE  signedBy[p] \in {keys[u]} \cup RecentlyRetired
<1> USE DEF GraceInv, SerialInv, IInv
<1>1. (\E h \in history : Covers(h, p)) => signedBy[p] \in RecentlyRetired
  <2> SUFFICES ASSUME NEW h \in history, Covers(h, p) PROVE h.at + GRACE >= time
    BY DEF Covers, RecentlyRetired
  <2> QED
    BY ParametersAssumption DEF Covers, GraceLongEnough, TypeOK
<1>2. signedBy[p] = stored \/ \E h \in history : Covers(h, p)
  <2>1. CASE issuer[p] \in Sole
    BY <2>1 DEF SignedInTime
  <2>2. CASE \A h \in history : h.key # signedBy[p]
    BY <2>2 DEF SignedWithSavedKey, NoKeyIsLost
  <2> QED
    BY <2>1, <2>2 DEF InTime
<1>3. CASE keys[u] = stored
  BY <1>1, <1>2, <1>3
<1>4. CASE u \in Sole /\ keys[u] # stored
  <2>1. PICK r \in Rotations : rotation[r] = "switching" /\ rotates[r] = u
    BY <1>4 DEF ObjectsCurrent
  <2>2. signedBy[p] # stored
    BY <1>4, <2>1 DEF NotYetUsed, RowHeld
  <2> QED
    BY <1>1, <1>2, <2>2
<1> QED
  BY <1>3, <1>4

\* The invariant of retired keys holds at first: none is retired.
LEMMA GraceInit == Init => GraceInv
<1> SUFFICES ASSUME Init PROVE GraceInv
  OBVIOUS
<1>1. SerialInv
  BY SerialInit
<1>2. IssuedSound /\ VerifierSound /\ SignedInTime /\ ReadEnough
  BY DEF Init, IssuedSound, VerifierSound, SignedInTime, ReadEnough
<1>3. ObjectsCurrent /\ NotYetUsed /\ RefusedOnlyAcrossRotation
  BY DEF Init, ObjectsCurrent, NotYetUsed, RefusedOnlyAcrossRotation
<1> QED
  BY <1>1, <1>2, <1>3 DEF GraceInv

\* Hydration keeps the grace period's invariant.
LEMMA GraceLoadStep ==
  ASSUME GraceInv, NEW t \in Tenants, ReadKeys(t) \/ SaveFirstKeys(t) \/ InstallTenant(t)
  PROVE  GraceInv'
<1>1. SerialInv'
  BY SerialLoadStep DEF GraceInv
<1>2. Sole' = Sole
  BY SoleSame DEF ReadKeys, SaveFirstKeys, InstallTenant, GraceInv, SerialInv, IInv, TypeOK
<1> USE <1>2, ParametersAssumption
        DEF GraceInv, SerialInv, IInv, TypeOK, database, memory, rotating, issuance, checks
<1>3. IssuedSound' /\ VerifierSound' /\ RefusedOnlyAcrossRotation'
  BY DEF ReadKeys, SaveFirstKeys, Save, InstallTenant, IssuedSound, VerifierSound,
         RefusedOnlyAcrossRotation
<1>4. CASE ReadKeys(t)
  <2> USE <1>4 DEF ReadKeys
  <2>1. ObjectsCurrent'
    BY DEF ObjectsCurrent, RetiredSince
  <2>2. NotYetUsed'
    BY DEF NotYetUsed, RotationsSound, InRotation
  <2>3. SignedInTime' /\ ReadEnough'
    BY DEF SignedInTime, ReadEnough, InTime, Covers, VerifierSound
  <2> QED
    BY <1>1, <1>3, <2>1, <2>2, <2>3
<1>5. CASE SaveFirstKeys(t)
  <2> USE <1>5 DEF SaveFirstKeys, Save
  <2>1. InRotation = {} /\ \A u \in Tenants : loading[u] \notin {"hydrating", "done"}
    BY RowWritten
  <2>2. backedUp = {}
    BY DEF RowHeld, RowSound
  <2>3. ObjectsCurrent' /\ NotYetUsed'
    BY <2>1 DEF ObjectsCurrent, NotYetUsed, InRotation
  <2>4. SignedInTime' /\ ReadEnough'
    BY <2>1, <2>2 DEF SignedInTime, ReadEnough, SignedWithSavedKey, VerifierSound
  <2> QED
    BY <1>1, <1>3, <2>3, <2>4
<1>6. CASE InstallTenant(t)
  <2> USE <1>6 DEF InstallTenant
  <2>1. ObjectsCurrent' /\ NotYetUsed'
    BY DEF ObjectsCurrent, RetiredSince, NotYetUsed
  <2>2. SignedInTime' /\ ReadEnough'
    BY DEF SignedInTime, ReadEnough, InTime, Covers
  <2> QED
    BY <1>1, <1>3, <2>1, <2>2
<1> QED
  BY <1>4, <1>5, <1>6

\* So does a rotation none of whose answers is lost.
LEMMA GraceRotationStep ==
  ASSUME GraceLongEnough, GraceInv, NEW r \in Rotations, RotationStep(r)
  PROVE  GraceInv'
<1>1. SerialInv'
  BY SerialRotationStep DEF GraceInv
<1>2. Sole' = Sole
  BY SoleSame DEF RotationStep, SelectCurrentKey, RetireCurrentKey, SaveNewKeys, SwitchKeys,
     RotationFails, memory
<1> USE <1>2, ParametersAssumption
        DEF GraceInv, SerialInv, IInv, TypeOK, database, memory, rotating, issuance, checks
<1>3. IssuedSound' /\ VerifierSound' /\ RefusedOnlyAcrossRotation'
  BY DEF RotationStep, SelectCurrentKey, RetireCurrentKey, SaveNewKeys, SwitchKeys,
         RotationFails, Save, IssuedSound, VerifierSound, RefusedOnlyAcrossRotation
<1>4. CASE SelectCurrentKey(r)
  BY <1>1, <1>3, <1>4 DEF SelectCurrentKey, ObjectsCurrent, RetiredSince, NotYetUsed,
     SignedInTime, ReadEnough, InTime, Covers
<1>5. CASE RetireCurrentKey(r)
  <2> USE <1>5 DEF RetireCurrentKey
  <2>1. ObjectsCurrent'
    BY DEF ObjectsCurrent, RetiredSince
  <2>2. NotYetUsed'
    BY DEF NotYetUsed, OneAtATime, InRotation
  <2>3. SignedInTime'
    BY DEF SignedInTime, Covers
  <2>4. ReadEnough'
    <3> SUFFICES ASSUME NEW v \in Verifications,
                        verifying[v] = "reading", time <= expires[subject[v]],
                        InTime(subject[v])', keys[verifier[v]] = offered[v],
                        verifier[v] \in Sole \/ keys[verifier[v]] = stored
                 PROVE  signedBy[subject[v]] \in {keys[verifier[v]]} \cup retired[v]
      BY DEF ReadEnough
    <3>1. CASE InTime(subject[v])
      BY <3>1 DEF ReadEnough
    <3>2. CASE ~InTime(subject[v])
      <4>1. issuer[subject[v]] \notin Sole
        BY <3>2 DEF InTime
      <4>2. keys[verifier[v]] = stored
        BY <4>1, SoleOwner DEF VerifierSound, IssuedSound
      <4>3. oldKey[r] = stored
        BY DEF RowHeld
      <4>4. signedBy[subject[v]] = stored
        BY <3>2, <4>3 DEF InTime, Covers
      <4> QED
        BY <4>2, <4>4
    <3> QED
      BY <3>1, <3>2
  <2> QED
    BY <1>1, <1>3, <2>1, <2>2, <2>3, <2>4
<1>6. CASE SaveNewKeys(r)
  <2> USE <1>6 DEF SaveNewKeys, Save
  <2>1. /\ newKey[r] \notin backedUp
        /\ \A s \in Rotations : rotation[s] # "switching"
        /\ rotates[r] \in Tenants /\ loading[rotates[r]] = "done"
        /\ \A s \in Rotations \ {r} : rotation'[s] # "switching"
    BY DEF RowHeld, OneAtATime, InRotation, RotationsSound
  <2>2. PICK h \in history : h.key = stored /\ h.at >= began[r]
    BY DEF RowHeld, RetiredSince
  <2>3. ObjectsCurrent'
    <3> SUFFICES ASSUME NEW t \in Tenants, loading[t] \in {"hydrating", "done"}, t \in Sole
                 PROVE  rotates[r] = t /\ RetiredSince(keys[t], began[r])'
      BY DEF ObjectsCurrent
    <3>1. rotates[r] = t
      BY <2>1, SoleObject
    <3>2. keys[t] = stored
      BY <2>1 DEF ObjectsCurrent
    <3> QED
      BY <2>2, <3>1, <3>2 DEF RetiredSince
  <2>4. NotYetUsed'
    BY <2>1 DEF NotYetUsed, LoadsSound, VerifierSound, SignedWithSavedKey
  <2>5. SignedInTime'
    <3> SUFFICES ASSUME NEW p \in Passports, issuing[p] = "issued", signedBy[p] = stored
                 PROVE  Covers(h, p)
      BY DEF SignedInTime, Covers
    <3>1. expires[p] <= time + TTL /\ time <= began[r] + MaxRotation
      BY DEF IssuedSound, OnTime, InRotation
    <3> QED
      BY <2>2, <3>1 DEF Covers
  <2>6. ReadEnough'
    BY <2>1 DEF ReadEnough, InTime, Covers, LoadsSound, VerifierSound
  <2> QED
    BY <1>1, <1>3, <2>3, <2>4, <2>5, <2>6
<1>7. CASE SwitchKeys(r)
  <2> USE <1>7 DEF SwitchKeys
  <2>1. /\ rotates[r] \in Tenants /\ newKey[r] = stored
        /\ \A s \in Rotations \ {r} : rotation[s] # "switching"
    BY DEF RowHeld, OneAtATime, InRotation, RotationsSound
  <2>2. ObjectsCurrent' /\ NotYetUsed'
    BY <2>1 DEF ObjectsCurrent, NotYetUsed
  <2>3. SignedInTime' /\ ReadEnough'
    BY <2>1 DEF SignedInTime, ReadEnough, InTime, Covers, NotYetUsed
  <2> QED
    BY <1>1, <1>3, <2>2, <2>3
<1>8. CASE RotationFails(r)
  BY <1>1, <1>3, <1>8 DEF RotationFails, GraceLongEnough, ObjectsCurrent, RetiredSince,
     NotYetUsed, SignedInTime, ReadEnough, InTime, Covers
<1> QED
  BY <1>4, <1>5, <1>6, <1>7, <1>8 DEF RotationStep

\* So does what an instance does of its own.
LEMMA GraceInstanceStep ==
  ASSUME GraceLongEnough, GraceInv, NEW i \in Instances, InstanceStep(i)
  PROVE  GraceInv'
<1>1. SerialInv'
  BY SerialInstanceStep DEF GraceInv, GraceLongEnough
<1> USE ParametersAssumption
        DEF GraceInv, SerialInv, IInv, TypeOK, database, memory, rotating, issuance, checks
<1>2. CASE StartUnknown(i)
  <2>1. Sole' = Sole
    BY <1>2, SoleSame DEF StartUnknown
  <2> QED
    BY <1>1, <1>2, <2>1 DEF StartUnknown, IssuedSound, VerifierSound, ObjectsCurrent,
       RetiredSince, NotYetUsed, SignedInTime, ReadEnough, InTime, Covers,
       RefusedOnlyAcrossRotation
<1>3. CASE Crash(i)
  <2> USE <1>3 DEF Crash
  <2>1. Sole' = Sole
    BY SoleSame
  <2>2. IssuedSound' /\ VerifierSound' /\ RefusedOnlyAcrossRotation'
    BY DEF IssuedSound, VerifierSound, RefusedOnlyAcrossRotation
  <2>3. ObjectsCurrent'
    BY <2>1 DEF ObjectsCurrent, RetiredSince, InRotation
  <2>4. NotYetUsed'
    BY <2>1 DEF NotYetUsed
  <2>5. SignedInTime' /\ ReadEnough'
    BY <2>1 DEF SignedInTime, ReadEnough, InTime, Covers
  <2> QED
    BY <1>1, <2>2, <2>3, <2>4, <2>5
<1>4. ASSUME NEW t \in Tenants, Hydrate(i, t) PROVE GraceInv'
  <2> USE <1>4 DEF Hydrate
  <2>1. /\ \A u \in Tenants \ {t} : loading'[u] = loading[u] /\ owner'[u] = owner[u]
        /\ loading[t] = "free" /\ loading'[t] = "reading"
    OBVIOUS
  <2>2. \A u \in Tenants : loading[u] # "free" /\ u \in Sole' => u \in Sole
    BY <2>1 DEF Sole, ServedElsewhere
  <2>3. IssuedSound' /\ VerifierSound' /\ RefusedOnlyAcrossRotation'
    BY <2>1 DEF IssuedSound, VerifierSound, RefusedOnlyAcrossRotation
  <2>4. ObjectsCurrent'
    BY <2>1, <2>2 DEF ObjectsCurrent, RetiredSince
  <2>5. NotYetUsed'
    BY <2>1, <2>2 DEF NotYetUsed, RotationsSound, InRotation
  <2>6. SignedInTime'
    BY <2>1, <2>2 DEF SignedInTime, Covers, IssuedSound
  <2>7. ReadEnough'
    BY <2>1, <2>2 DEF ReadEnough, InTime, Covers, IssuedSound, VerifierSound
  <2> QED
    BY <1>1, <2>3, <2>4, <2>5, <2>6, <2>7
<1>5. ASSUME NEW r \in Rotations, BeginRotation(i, r) PROVE GraceInv'
  <2>1. Sole' = Sole
    BY <1>5, SoleSame DEF BeginRotation
  <2> QED
    BY <1>1, <1>5, <2>1 DEF BeginRotation, IssuedSound, VerifierSound, ObjectsCurrent,
       RetiredSince, NotYetUsed, SignedInTime, ReadEnough, InTime, Covers,
       RefusedOnlyAcrossRotation
<1>6. ASSUME NEW p \in Passports, BeginIssue(i, p) PROVE GraceInv'
  <2> USE <1>6 DEF BeginIssue
  <2>1. Sole' = Sole
    BY SoleSame
  <2>2. IssuedSound' /\ VerifierSound' /\ RefusedOnlyAcrossRotation'
    BY DEF IssuedSound, VerifierSound, RefusedOnlyAcrossRotation
  <2>3. ObjectsCurrent' /\ NotYetUsed'
    BY <2>1 DEF ObjectsCurrent, RetiredSince, NotYetUsed
  <2>4. SignedInTime' /\ ReadEnough'
    BY <2>1 DEF SignedInTime, ReadEnough, InTime, Covers, VerifierSound
  <2> QED
    BY <1>1, <2>2, <2>3, <2>4
<1>7. ASSUME NEW p \in Passports, NEW v \in Verifications, BeginVerify(i, v, p) PROVE GraceInv'
  <2> USE <1>7 DEF BeginVerify
  <2>1. Sole' = Sole
    BY SoleSame
  <2>2. tenant[i] \in Tenants /\ loading[tenant[i]] = "done"
    BY DEF MapSound
  <2>3. IssuedSound' /\ VerifierSound' /\ RefusedOnlyAcrossRotation'
    BY <2>2 DEF IssuedSound, VerifierSound, LoadsSound, RefusedOnlyAcrossRotation
  <2>4. ObjectsCurrent' /\ NotYetUsed'
    BY <2>1 DEF ObjectsCurrent, RetiredSince, NotYetUsed
  <2>5. SignedInTime'
    BY <2>1 DEF SignedInTime, Covers
  <2>6. ReadEnough'
    <3>1. InTime(p) /\ time <= expires[p] /\ (tenant[i] \in Sole \/ keys[tenant[i]] = stored)
            => signedBy[p] \in {keys[tenant[i]]} \cup RecentlyRetired
      BY <2>2, CandidatesSuffice
    <3> QED
      BY <2>1, <3>1 DEF ReadEnough, InTime, Covers
  <2> QED
    BY <1>1, <2>3, <2>4, <2>5, <2>6
<1> QED
  BY <1>2, <1>3, <1>4, <1>5, <1>6, <1>7 DEF InstanceStep

\* Of an issued passport and a loaded object, the properties say what the invariant says.
LEMMA OutdatedMeans ==
  ASSUME GraceInv
  PROVE  /\ \A t \in Tenants : ~Outdated(t) => t \in Sole \/ keys[t] = stored
         /\ \A p \in Passports : issuing[p] = "issued" /\ ~SignedOutdated(p) => InTime(p)
<1> USE DEF GraceInv, SerialInv, IInv, TypeOK
<1>1. \A t \in Tenants : ~Outdated(t) => t \in Sole \/ keys[t] = stored
  BY DEF Outdated, Sole
<1>2. ASSUME NEW p \in Passports, issuing[p] = "issued", ~SignedOutdated(p) PROVE InTime(p)
  <2>1. CASE ~ServedElsewhere(issuer[p])
    BY <1>2, <2>1 DEF InTime, Sole, IssuedSound
  <2>2. CASE \A h \in history : h.key # signedBy[p]
    BY <2>2 DEF InTime
  <2>3. CASE \E h \in history : h.key = signedBy[p] /\ ~(h.at + MaxRotation + TTL < expires[p])
    BY <2>3, ParametersAssumption DEF InTime, Covers
  <2> QED
    BY <1>2, <2>1, <2>2, <2>3 DEF SignedOutdated
<1> QED
  BY <1>1, <1>2

\* So does every step.
LEMMA GraceStep ==
  ASSUME GraceLongEnough, GraceInv, [Next]_vars
  PROVE  GraceInv'
<1>1. SerialInv'
  BY SerialStep DEF GraceInv, GraceLongEnough
<1> USE ParametersAssumption
        DEF GraceInv, SerialInv, IInv, TypeOK, database, memory, rotating, issuance, checks
<1>2. CASE Tick
  <2> USE <1>2 DEF Tick
  <2>1. Sole' = Sole
    BY SoleSame
  <2> QED
    BY <1>1, <2>1 DEF IssuedSound, VerifierSound, ObjectsCurrent, RetiredSince, NotYetUsed,
       SignedInTime, ReadEnough, InTime, Covers, RefusedOnlyAcrossRotation
<1>3. ASSUME NEW p \in Passports, Issue(p) PROVE GraceInv'
  <2> USE <1>3 DEF Issue
  <2>1. Sole' = Sole
    BY SoleSame
  <2>2. issuer[p] \in Tenants /\ loading[issuer[p]] = "done"
    BY DEF IssuanceSound
  <2>3. IssuedSound' /\ VerifierSound' /\ RefusedOnlyAcrossRotation'
    BY <2>2 DEF IssuedSound, VerifierSound, RefusedOnlyAcrossRotation
  <2>4. ObjectsCurrent'
    BY <2>1 DEF ObjectsCurrent, RetiredSince
  <2>5. NotYetUsed'
    <3>1. \A r \in Rotations : rotation[r] = "switching" /\ rotates[r] \in Sole =>
            keys[issuer[p]] # newKey[r]
      BY <2>2, SoleObject DEF NotYetUsed, RotationsSound, InRotation
    <3> QED
      BY <2>1, <3>1 DEF NotYetUsed
  <2>6. SignedInTime'
    <3>1. ASSUME issuer[p] \in Sole, keys[issuer[p]] # stored
          PROVE  \E h \in history : Covers(h, p)'
      <4>1. PICK r \in Rotations :
              rotation[r] = "switching" /\ RetiredSince(keys[issuer[p]], began[r])
        BY <2>2, <3>1 DEF ObjectsCurrent
      <4>2. PICK h \in history : h.key = keys[issuer[p]] /\ h.at >= began[r]
        BY <4>1 DEF RetiredSince
      <4>3. time <= began[r] + MaxRotation
        BY <4>1 DEF OnTime, InRotation
      <4> QED
        BY <4>2, <4>3 DEF Covers
    <3> QED
      BY <2>1, <3>1 DEF SignedInTime, Covers
  <2>7. ReadEnough'
    BY <2>1 DEF ReadEnough, InTime, Covers, VerifierSound
  <2> QED
    BY <1>1, <2>3, <2>4, <2>5, <2>6, <2>7
<1>4. ASSUME NEW v \in Verifications, FinishVerify(v) PROVE GraceInv'
  <2> USE <1>4 DEF FinishVerify
  <2>1. Sole' = Sole
    BY SoleSame
  <2>2. IssuedSound' /\ VerifierSound'
    BY DEF IssuedSound, VerifierSound
  <2>3. ObjectsCurrent' /\ NotYetUsed'
    BY <2>1 DEF ObjectsCurrent, RetiredSince, NotYetUsed
  <2>4. SignedInTime' /\ ReadEnough'
    BY <2>1 DEF SignedInTime, ReadEnough, InTime, Covers
  <2>5. RefusedOnlyAcrossRotation'
    <3> DEFINE p == subject[v]
               refusal == [passport |-> p, across |-> keys[verifier[v]] # offered[v],
                           outdated |-> Outdated(verifier[v]) \/ SignedOutdated(p)]
    <3>1. CASE signedBy[p] \notin {keys[verifier[v]]} \cup retired[v] /\ time <= expires[p]
      <4>1. \/ keys[verifier[v]] # offered[v]
            \/ Outdated(verifier[v]) \/ SignedOutdated(p)
        BY <3>1, OutdatedMeans DEF ReadEnough, VerifierSound
      <4>2. refusal.across \/ refusal.outdated
        BY <4>1, Zenon
      <4>3. refusals' = refusals \cup {refusal}
        BY <3>1, Zenon
      <4> HIDE DEF refusal
      <4> QED
        BY <4>2, <4>3, Zenon DEF RefusedOnlyAcrossRotation
    <3>2. CASE ~(signedBy[p] \notin {keys[verifier[v]]} \cup retired[v] /\ time <= expires[p])
      <4>1. refusals' = refusals
        BY <3>2, Zenon
      <4> QED
        BY <4>1 DEF RefusedOnlyAcrossRotation
    <3> QED
      BY <3>1, <3>2
  <2> QED
    BY <1>1, <2>2, <2>3, <2>4, <2>5
<1>5. CASE UNCHANGED vars \/ \E t \in Tenants : Attest(t)
  <2> USE <1>5 DEF vars, Attest
  <2>1. Sole' = Sole
    BY SoleSame
  <2> QED
    BY <1>1, <2>1 DEF IssuedSound, VerifierSound, ObjectsCurrent, RetiredSince, NotYetUsed,
       SignedInTime, ReadEnough, InTime, Covers, RefusedOnlyAcrossRotation
<1> QED
  BY <1>2, <1>3, <1>4, <1>5, GraceLoadStep, GraceRotationStep, GraceInstanceStep, Zenon DEF Next

\* One request at a time, and a grace period no shorter than a passport's life and a
\* rotation together: what an object verifies with covers every passport that lives.
THEOREM GraceInvariance ==
  ASSUME GraceLongEnough
  PROVE  Spec => []GraceInv
<1>1. GraceInv /\ [Next]_vars => GraceInv'
  BY GraceStep
<1> QED
  BY <1>1, GraceInit, PTL DEF Spec

\* With a grace period as long as a passport lives and a rotation takes, and rotations in
\* turn: until it expires a passport verifies wherever the company is served, but for
\* what the two servers' ignorance of each other costs.
THEOREM PassportsStayVerifiable ==
  ASSUME GraceLongEnough
  PROVE  Spec => []StaysVerifiable
<1>1. ASSUME GraceInv PROVE StaysVerifiable
  <2> SUFFICES ASSUME NEW p \in Passports, NEW i \in Instances,
                      issuing[p] = "issued", time <= expires[p], ~SignedOutdated(p),
                      tenant[i] # NoTenant, ~Outdated(tenant[i])
               PROVE  signedBy[p] \in {keys[tenant[i]]} \cup RecentlyRetired
    BY DEF StaysVerifiable
  <2>1. tenant[i] \in Tenants /\ loading[tenant[i]] = "done"
    BY <1>1 DEF GraceInv, SerialInv, IInv, TypeOK, MapSound
  <2>2. InTime(p) /\ (tenant[i] \in Sole \/ keys[tenant[i]] = stored)
    BY <1>1, <2>1, OutdatedMeans
  <2> QED
    BY <1>1, <2>1, <2>2, CandidatesSuffice
<1> QED
  BY <1>1, GraceInvariance, PTL

\* So the keys getCandidatePublicKeys offers miss the key of a passport only if a rotation
\* switched keys after it read the retired ones, or came through another server.
THEOREM RefusalsExplained ==
  ASSUME GraceLongEnough
  PROVE  Spec => []RefusedOnlyAcrossRotation
<1>1. GraceInv => RefusedOnlyAcrossRotation
  BY DEF GraceInv
<1> QED
  BY <1>1, GraceInvariance, PTL
=============================================================================

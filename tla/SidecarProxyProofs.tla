--------------------------- MODULE SidecarProxyProofs ---------------------------
(***************************************************************************)
(* What the sidecar's early refresh is worth, for any number of sidecars   *)
(* and calls and any times.  passportExp counts from the arrival of an     *)
(* answer, so it is at most MaxLatency too late (Kept); a call that waited *)
(* for its own refresh gets something stored since it asked (Renewed); so  *)
(* what is forwarded has Buffer - MaxLatency left (OnItsWay).              *)
(***************************************************************************)
EXTENDS SidecarProxy, TLAPS

\* The cached passport of a started sidecar, against the sidecar's idea of its end.
Kept(s) ==
  cache[s] # Empty =>
    /\ cache[s].passport.exp = cache[s].passport.nbf + TTL
    /\ cache[s].passport.nbf <= now
    /\ cache[s].passportExp - ahead[s] <= cache[s].passport.exp + MaxLatency

\* A call that waits does so for MaxLatency at most, and what Vane answered is newer.
Patient(c) ==
  stage[c] \in Waiting =>
    /\ from[c] \in Sidecars
    /\ since[c] <= now /\ now <= since[c] + MaxLatency
    /\ stage[c] = "answered" =>
         /\ passport[c] \in Issued
         /\ passport[c].exp = passport[c].nbf + TTL
         /\ since[c] <= passport[c].nbf /\ passport[c].nbf <= now

\* After its own refresh a call finds something that was stored since it asked.
Renewed(c) ==
  stage[c] = "stored" =>
    /\ to[c] \in Sidecars /\ cache[from[c]] # Empty
    /\ cache[from[c]].passportExp - ahead[from[c]] >= since[c] + TTL

\* A forwarded call is young, and its passport had time left when it was attached.
OnItsWay(c) ==
  stage[c] = "forwarded" =>
    /\ to[c] \in Sidecars /\ passport[c] \in Issued
    /\ since[c] <= now /\ now <= since[c] + Transit
    /\ passport[c].nbf <= now
    /\ passport[c].exp - since[c] >= Buffer - MaxLatency

Timely(c) == Patient(c) /\ Renewed(c) /\ OnItsWay(c)

IInv ==
  /\ TypeOK
  /\ \A s \in Sidecars : Kept(s)
  /\ \A c \in Calls : Timely(c)

USE TimesAssumption, NoValueAssumption, LeewayAssumption

-----------------------------------------------------------------------------

\* At first nothing is cached and no call is under way.
LEMMA InitIInv == Init => IInv
  <1> SUFFICES ASSUME Init PROVE IInv
    OBVIOUS
  <1>1. TypeOK
    BY DEF Init, TypeOK
  <1>2. \A s \in Sidecars : Kept(s)
    BY DEF Init, Kept
  <1>3. \A c \in Calls : Timely(c)
    BY DEF Init, Timely, Patient, Renewed, OnItsWay, Waiting
  <1> QED
    BY <1>1, <1>2, <1>3 DEF IInv

\* What is cached is no marker for an empty cache.
LEMMA StoredIsSomething ==
  ASSUME NEW p \in Issued, NEW e
  PROVE  [passport |-> p, caPublicKey |-> p.signer, passportExp |-> e] # Empty
  BY DEF Issued, Empty

\* The clock: no waiting or forwarded call outlives its time.
LEMMA TickIInv == IInv /\ Tick => IInv'
  <1> SUFFICES ASSUME IInv, Tick PROVE IInv'
    OBVIOUS
  <1>1. TypeOK /\ now \in Int
    BY DEF IInv, TypeOK
  <1>2. TypeOK'
    BY <1>1 DEF TypeOK, Tick, call
  <1>3. ASSUME NEW s \in Sidecars PROVE Kept(s)'
    <2>1. cache[s] # Empty => cache[s].passport \in Issued
      BY <1>1 DEF TypeOK
    <2> QED
      BY <1>1, <2>1 DEF IInv, Kept, Tick, call, Issued
  <1>4. ASSUME NEW c \in Calls PROVE Timely(c)'
    <2>1. since[c] \in Int
      BY <1>1 DEF TypeOK
    <2>2. Timely(c)
      BY DEF IInv
    <2>3. Patient(c)'
      BY <1>1, <2>1, <2>2 DEF Timely, Patient, Tick, call, Waiting, Issued
    <2>4. Renewed(c)'
      BY <2>2 DEF Timely, Renewed, Tick, call
    <2>5. OnItsWay(c)'
      BY <1>1, <2>1, <2>2 DEF Timely, OnItsWay, Tick, call, Issued
    <2> QED
      BY <2>3, <2>4, <2>5 DEF Timely
  <1> QED
    BY <1>2, <1>3, <1>4 DEF IInv

\* A step that leaves clock and caches alone keeps every call it does not name.
LEMMA OtherCalls ==
  ASSUME IInv, UNCHANGED <<now, ahead, cache>>, NEW c \in Calls,
         /\ stage'[c] = stage[c] /\ from'[c] = from[c] /\ to'[c] = to[c]
         /\ passport'[c] = passport[c] /\ since'[c] = since[c]
  PROVE  Timely(c)'
  BY DEF IInv, Timely, Patient, Renewed, OnItsWay

\* A rotation of the company's keys concerns no cached passport and no call.
LEMMA RotateIInv == IInv /\ RotateKeys => IInv'
  <1> SUFFICES ASSUME IInv, RotateKeys PROVE IInv'
    OBVIOUS
  <1>1. TypeOK'
    BY DEF IInv, TypeOK, RotateKeys, call
  <1>2. \A s \in Sidecars : Kept(s)'
    BY DEF IInv, Kept, RotateKeys
  <1>3. \A c \in Calls : Timely(c)'
    BY OtherCalls DEF RotateKeys, call
  <1> QED
    BY <1>1, <1>2, <1>3 DEF IInv

\* A step of one call that leaves clock, key and caches alone: the call's own part and
\* the types are all there is to show.
LEMMA OneCall ==
  ASSUME IInv, UNCHANGED <<now, ahead, key, cache>>, TypeOK',
         NEW c \in Calls, Timely(c)',
         \A d \in Calls \ {c} :
           /\ stage'[d] = stage[d] /\ from'[d] = from[d] /\ to'[d] = to[d]
           /\ passport'[d] = passport[d] /\ since'[d] = since[d]
  PROVE  IInv'
  <1>1. \A s \in Sidecars : Kept(s)'
    BY DEF IInv, Kept
  <1>2. ASSUME NEW d \in Calls PROVE Timely(d)'
    <2>1. CASE d = c
      BY <2>1
    <2>2. CASE d # c
      BY <2>2, OtherCalls
    <2> QED
      BY <2>1, <2>2
  <1> QED
    BY <1>1, <1>2 DEF IInv

\* Vane's answer is newer than the question.
LEMMA IssueIInv ==
  ASSUME IInv, NEW c \in Calls, Issue(c)
  PROVE  IInv'
  <1>1. TypeOK /\ Timely(c) /\ now \in Int /\ key \in Int
    BY DEF IInv, TypeOK
  <1> DEFINE p == [signer |-> key, nbf |-> now, exp |-> now + TTL]
  <1>2. p \in Issued
    BY <1>1 DEF TypeOK, Issued
  <1>3. /\ stage[c] = "asking" /\ stage' = [stage EXCEPT ![c] = "answered"]
        /\ passport' = [passport EXCEPT ![c] = p]
        /\ UNCHANGED <<now, ahead, key, cache, from, to, since>>
    BY DEF Issue
  <1>4. p.exp = p.nbf + TTL /\ p.nbf = now
    OBVIOUS
  <1> HIDE DEF p
  <1>5. TypeOK'
    BY <1>1, <1>2, <1>3 DEF TypeOK, Waiting
  <1>6. stage'[c] = "answered" /\ passport'[c] = p
    BY <1>1, <1>3 DEF TypeOK
  <1>7. Timely(c)'
    BY <1>1, <1>2, <1>3, <1>4, <1>6 DEF Timely, Patient, Renewed, OnItsWay, Waiting, TypeOK
  <1> QED
    BY <1>3, <1>5, <1>7, OneCall

\* A call that is over leaves nothing behind.
LEMMA EndIInv ==
  ASSUME IInv, NEW c \in Calls, End(c), UNCHANGED <<now, ahead, key, cache>>
  PROVE  IInv'
  <1>1. TypeOK
    BY DEF IInv
  <1>2. TypeOK'
    BY <1>1 DEF TypeOK, End, Waiting
  <1>3. stage'[c] = "free"
    BY <1>1 DEF End, TypeOK
  <1>4. Timely(c)'
    BY <1>3 DEF Timely, Patient, Renewed, OnItsWay, Waiting
  <1> QED
    BY <1>2, <1>4, OneCall DEF End

\* A passport with Buffer - MaxLatency left keeps it on its way.
LEMMA ForwardIInv ==
  ASSUME IInv, UNCHANGED <<now, ahead, key, cache>>, NEW c \in Calls, NEW p \in Issued,
         Forward(c, p), p.nbf <= now, p.exp - now >= Buffer - MaxLatency,
         NEW d \in Sidecars, to'[c] = d, from' \in [Calls -> Sidecars \cup {NoValue}],
         to' \in [Calls -> Sidecars \cup {NoValue}],
         \A e \in Calls \ {c} : from'[e] = from[e] /\ to'[e] = to[e]
  PROVE  IInv'
  <1>1. TypeOK /\ now \in Int
    BY DEF IInv, TypeOK
  <1>2. TypeOK'
    BY <1>1 DEF TypeOK, Forward, Waiting
  <1>3. stage'[c] = "forwarded" /\ passport'[c] = p /\ since'[c] = now
    BY <1>1 DEF Forward, TypeOK
  <1>4. Timely(c)'
    BY <1>1, <1>3 DEF Timely, Patient, Renewed, OnItsWay, Waiting
  <1> QED
    BY <1>2, <1>4, OneCall DEF Forward

\* What a started sidecar has cached.
LEMMA CachedIsIssued ==
  ASSUME TypeOK, NEW s \in Sidecars, cache[s] # Empty
  PROVE  /\ cache[s].passport \in Issued /\ cache[s].passportExp \in Int /\ ahead[s] \in Int
         /\ cache[s].caPublicKey = cache[s].passport.signer
         /\ cache[s].passport.signer \in Int
         /\ cache[s].passport.nbf \in Int /\ cache[s].passport.exp \in Int
  BY DEF TypeOK, Issued

\* getPassport without a refresh: passportExp is at most MaxLatency too late.
LEMMA FreshHasTimeLeft ==
  ASSUME IInv, NEW s \in Sidecars, cache[s] # Empty, Fresh(s)
  PROVE  cache[s].passport.exp - now >= Buffer - MaxLatency
  <1>1. TypeOK /\ Kept(s) /\ now \in Int
    BY DEF IInv, TypeOK
  <1> QED
    BY <1>1, CachedIsIssued DEF Kept, Fresh, Local

\* getPassport after a refresh: what is cached was stored since the call asked.
LEMMA RenewedHasTimeLeft ==
  ASSUME IInv, NEW c \in Calls, stage[c] = "stored"
  PROVE  /\ from[c] \in Sidecars /\ cache[from[c]] # Empty
         /\ cache[from[c]].passport.exp - now >= Buffer - MaxLatency
  <1>1. /\ TypeOK /\ Timely(c) /\ now \in Int /\ since[c] \in Int
    BY DEF IInv, TypeOK
  <1>2. from[c] \in Sidecars /\ cache[from[c]] # Empty
    BY <1>1 DEF Timely, Patient, Renewed, Waiting
  <1>3. Kept(from[c])
    BY <1>2 DEF IInv
  <1>4. /\ now <= since[c] + MaxLatency
        /\ cache[from[c]].passportExp - ahead[from[c]] >= since[c] + TTL
    BY <1>1 DEF Timely, Patient, Renewed, Waiting
  <1>5. cache[from[c]].passportExp - ahead[from[c]] <= cache[from[c]].passport.exp + MaxLatency
    BY <1>2, <1>3 DEF Kept
  <1> QED
    BY <1>1, <1>2, <1>4, <1>5, CachedIsIssued

\* A call that waited for a passport gets one with time left.
LEMMA AttachIInv ==
  ASSUME IInv, NEW c \in Calls, Attach(c)
  PROVE  IInv'
  <1>1. /\ from[c] \in Sidecars /\ cache[from[c]] # Empty
        /\ cache[from[c]].passport.exp - now >= Buffer - MaxLatency
    BY RenewedHasTimeLeft DEF Attach
  <1>2. cache[from[c]].passport \in Issued /\ cache[from[c]].passport.nbf <= now
    BY <1>1, CachedIsIssued DEF IInv, Kept
  <1>3. to[c] \in Sidecars
    BY DEF IInv, Timely, Renewed, Attach
  <1> QED
    BY <1>1, <1>2, <1>3, ForwardIInv DEF Attach, IInv, TypeOK

\* A start or a refresh begins.
LEMMA AskIInv ==
  ASSUME IInv, UNCHANGED <<now, ahead, key, cache, passport>>, NEW c \in Calls,
         stage' = [stage EXCEPT ![c] = "asking"], since' = [since EXCEPT ![c] = now],
         NEW s \in Sidecars, from' = [from EXCEPT ![c] = s],
         to' \in [Calls -> Sidecars \cup {NoValue}], \A d \in Calls \ {c} : to'[d] = to[d]
  PROVE  IInv'
  <1>1. TypeOK /\ now \in Int
    BY DEF IInv, TypeOK
  <1>2. TypeOK'
    BY <1>1 DEF TypeOK, Waiting
  <1>3. stage'[c] = "asking" /\ from'[c] = s /\ since'[c] = now
    BY <1>1 DEF TypeOK
  <1>4. Timely(c)'
    BY <1>1, <1>3 DEF Timely, Patient, Renewed, OnItsWay, Waiting
  <1> QED
    BY <1>2, <1>4, OneCall

\* A sidecar starts, or a call begins with a fresh passport or asks for one.
LEMMA StartIInv ==
  ASSUME IInv, NEW c \in Calls, NEW s \in Sidecars, Start(c, s)
  PROVE  IInv'
  BY AskIInv DEF Start, IInv, TypeOK

LEMMA BeginIInv ==
  ASSUME IInv, NEW c \in Calls, NEW s \in Sidecars, NEW d \in Sidecars, Begin(c, s, d)
  PROVE  IInv'
  <1>1. /\ TypeOK /\ cache[s] # Empty
        /\ from' = [from EXCEPT ![c] = s] /\ to' = [to EXCEPT ![c] = d]
        /\ UNCHANGED <<now, ahead, key, cache>>
    BY DEF IInv, Begin
  <1>2. /\ from' \in [Calls -> Sidecars \cup {NoValue}] /\ to' \in [Calls -> Sidecars \cup {NoValue}]
        /\ to'[c] = d
        /\ \A e \in Calls \ {c} : from'[e] = from[e] /\ to'[e] = to[e]
    BY <1>1 DEF TypeOK
  <1>3. CASE Fresh(s)
    <2>1. cache[s].passport.exp - now >= Buffer - MaxLatency
      BY <1>1, <1>3, FreshHasTimeLeft
    <2>2. cache[s].passport \in Issued /\ cache[s].passport.nbf <= now
      BY <1>1, CachedIsIssued DEF IInv, Kept
    <2>3. Forward(c, cache[s].passport)
      BY <1>3 DEF Begin
    <2> QED
      BY <1>1, <1>2, <2>1, <2>2, <2>3, ForwardIInv
  <1>4. CASE ~Fresh(s)
    <2>1. /\ stage' = [stage EXCEPT ![c] = "asking"] /\ since' = [since EXCEPT ![c] = now]
          /\ passport' = passport
      BY <1>4 DEF Begin
    <2> QED
      BY <1>1, <1>2, <2>1, AskIInv
  <1> QED
    BY <1>3, <1>4

\* An answer is stored: it was formed at most MaxLatency ago, and it is newer than what
\* any waiting call asked for.
LEMMA StoreIInv ==
  ASSUME IInv, NEW c \in Calls, Store(c)
  PROVE  IInv'
  <1> DEFINE s == from[c]
             p == passport[c]
             kept == [passport |-> p, caPublicKey |-> p.signer, passportExp |-> Local(s) + TTL]
  <1>1. TypeOK /\ now \in Int /\ Timely(c) /\ stage[c] = "answered"
    BY DEF IInv, TypeOK, Store
  <1>2. /\ s \in Sidecars /\ p \in Issued /\ p.exp = p.nbf + TTL
        /\ since[c] <= now /\ now <= since[c] + MaxLatency
        /\ since[c] <= p.nbf /\ p.nbf <= now
    BY <1>1 DEF Timely, Patient, Waiting
  <1>3. ahead[s] \in Int /\ since[c] \in Int /\ p.nbf \in Int
    BY <1>1, <1>2 DEF TypeOK, Issued
  <1>4. Local(s) = now + ahead[s]
    BY DEF Local
  <1>5. cache' = [cache EXCEPT ![s] = kept] /\ UNCHANGED <<now, ahead, key>>
    BY DEF Store, Remember
  <1>6. /\ kept # Empty /\ kept.passport = p /\ kept.passportExp = now + ahead[s] + TTL
        /\ kept.caPublicKey = p.signer
    BY <1>2, <1>4, StoredIsSomething
  <1> HIDE DEF kept
  <1>7. \A d \in Calls \ {c} :
          /\ stage'[d] = stage[d] /\ from'[d] = from[d] /\ to'[d] = to[d]
          /\ passport'[d] = passport[d] /\ since'[d] = since[d]
    <2>1. CASE to[c] = NoValue
      BY <1>1, <2>1 DEF Store, End, TypeOK
    <2>2. CASE to[c] # NoValue
      BY <1>1, <2>2 DEF Store, TypeOK
    <2> QED
      BY <2>1, <2>2
  <1>8. \/ stage'[c] = "free"
        \/ stage'[c] = "stored" /\ UNCHANGED <<from, to, since>> /\ to[c] \in Sidecars
    BY <1>1 DEF Store, End, TypeOK
  <1>9. TypeOK'
    <2>1. \A t \in Sidecars : cache'[t] = IF t = s THEN kept ELSE cache[t]
      <3>1. DOMAIN cache = Sidecars
        BY DEF IInv, TypeOK
      <3> QED
        BY <1>5, <3>1
    <2>2. /\ stage' \in [Calls -> Waiting \cup {"free", "forwarded"}]
          /\ from' \in [Calls -> Sidecars \cup {NoValue}] /\ to' \in [Calls -> Sidecars \cup {NoValue}]
          /\ since' \in [Calls -> 0 .. MaxTime]
          /\ passport' \in [Calls -> Issued \cup {NoValue}]
      BY <1>1 DEF TypeOK, Store, End, Waiting
    <2>3. now + ahead[s] + TTL \in Int
      BY <1>1, <1>3
    <2> QED
      BY <1>1, <1>2, <1>5, <1>6, <2>1, <2>2, <2>3 DEF TypeOK
  <1>10. \A t \in Sidecars : cache'[t] = IF t = s THEN kept ELSE cache[t]
    <2>1. DOMAIN cache = Sidecars
      BY <1>1 DEF TypeOK
    <2> QED
      BY <1>5, <2>1
  <1>11. ASSUME NEW t \in Sidecars PROVE Kept(t)'
    <2>1. CASE t = s
      BY <1>1, <1>2, <1>3, <1>5, <1>6, <1>10, <2>1 DEF Kept, Issued
    <2>2. CASE t # s
      <3>1. cache'[t] = cache[t] /\ Kept(t)
        BY <1>10, <2>2 DEF IInv
      <3> QED
        BY <1>5, <3>1 DEF Kept
    <2> QED
      BY <2>1, <2>2
  <1>12. ASSUME NEW d \in Calls PROVE Timely(d)'
    <2>1. CASE d = c
      <3>1. CASE stage'[c] = "free"
        BY <2>1, <3>1 DEF Timely, Patient, Renewed, OnItsWay, Waiting
      <3>2. CASE stage'[c] = "stored" /\ UNCHANGED <<from, to, since>> /\ to[c] \in Sidecars
        <4>1. cache'[s] = kept
          BY <1>2, <1>10
        <4>2. Patient(c)'
          BY <1>2, <1>5, <3>2 DEF Patient
        <4>3. Renewed(c)'
          BY <1>1, <1>2, <1>3, <1>5, <1>6, <3>2, <4>1 DEF Renewed
        <4>4. OnItsWay(c)'
          BY <3>2 DEF OnItsWay
        <4> QED
          BY <2>1, <4>2, <4>3, <4>4 DEF Timely
      <3> QED
        BY <1>8, <3>1, <3>2
    <2>2. CASE d # c
      <3>1. /\ stage'[d] = stage[d] /\ from'[d] = from[d] /\ to'[d] = to[d]
            /\ passport'[d] = passport[d] /\ since'[d] = since[d]
        BY <1>7, <2>2
      <3>2. Timely(d) /\ since[d] \in Int
        BY <1>1 DEF IInv, TypeOK
      <3>3. Patient(d)' /\ OnItsWay(d)'
        BY <1>5, <3>1, <3>2 DEF Timely, Patient, OnItsWay
      <3>4. Renewed(d)'
        <4>1. CASE from[d] = s
          <5>1. stage[d] = "stored" => since[d] <= now /\ to[d] \in Sidecars
            BY <3>2 DEF Timely, Patient, Renewed, Waiting
          <5>2. cache'[s] = kept
            BY <1>2, <1>10
          <5> QED
            BY <1>1, <1>3, <1>5, <1>6, <3>1, <3>2, <4>1, <5>1, <5>2 DEF Renewed
        <4>2. CASE from[d] # s
          <5>1. stage[d] = "stored" => cache'[from[d]] = cache[from[d]]
            BY <1>10, <3>2, <4>2 DEF Timely, Patient, Waiting
          <5> QED
            BY <1>5, <3>1, <3>2, <5>1 DEF Timely, Renewed
        <4> QED
          BY <4>1, <4>2
      <3> QED
        BY <3>3, <3>4 DEF Timely
    <2> QED
      BY <2>1, <2>2
  <1> QED
    BY <1>9, <1>11, <1>12 DEF IInv

\* A crash frees the calls that wait in the sidecar, so none is left to find nothing.
LEMMA CrashIInv ==
  ASSUME IInv, NEW s \in Sidecars, Crash(s)
  PROVE  IInv'
  <1> DEFINE lost == {c \in Calls : from[c] = s /\ stage[c] \in Waiting}
  <1>1. TypeOK /\ UNCHANGED <<now, ahead, key>>
    BY DEF IInv, Crash
  <1>2. /\ stage' = [c \in Calls |-> IF c \in lost THEN "free" ELSE stage[c]]
        /\ from' = [c \in Calls |-> IF c \in lost THEN NoValue ELSE from[c]]
        /\ to' = [c \in Calls |-> IF c \in lost THEN NoValue ELSE to[c]]
        /\ passport' = [c \in Calls |-> IF c \in lost THEN NoValue ELSE passport[c]]
        /\ since' = [c \in Calls |-> IF c \in lost THEN 0 ELSE since[c]]
    BY DEF Crash
  <1>3. DOMAIN cache' = Sidecars /\ \A t \in Sidecars : cache'[t] = IF t = s THEN Empty ELSE cache[t]
    BY <1>1 DEF Crash, TypeOK
  <1>4. TypeOK'
    <2>1. stage' \in [Calls -> Waiting \cup {"free", "forwarded"}]
      BY <1>1, <1>2 DEF TypeOK
    <2>2. from' \in [Calls -> Sidecars \cup {NoValue}] /\ to' \in [Calls -> Sidecars \cup {NoValue}]
      BY <1>1, <1>2 DEF TypeOK
    <2>3. since' \in [Calls -> 0 .. MaxTime] /\ passport' \in [Calls -> Issued \cup {NoValue}]
      BY <1>1, <1>2 DEF TypeOK
    <2>4. \A t \in Sidecars :
            \/ cache'[t] = Empty
            \/ /\ cache'[t].passport \in Issued /\ cache'[t].passportExp \in Int
               /\ cache'[t].caPublicKey = cache'[t].passport.signer
      BY <1>1, <1>3 DEF TypeOK
    <2> QED
      BY <1>1, <1>3, <2>1, <2>2, <2>3, <2>4 DEF TypeOK
  <1>5. ASSUME NEW t \in Sidecars PROVE Kept(t)'
    BY <1>1, <1>3 DEF IInv, Kept
  <1>6. ASSUME NEW c \in Calls PROVE Timely(c)'
    <2>1. CASE c \in lost
      BY <1>2, <2>1 DEF Timely, Patient, Renewed, OnItsWay, Waiting
    <2>2. CASE c \notin lost
      <3>1. /\ stage'[c] = stage[c] /\ from'[c] = from[c] /\ to'[c] = to[c]
            /\ passport'[c] = passport[c] /\ since'[c] = since[c]
        BY <1>2, <2>2
      <3>2. Timely(c)
        BY DEF IInv
      <3>3. stage[c] = "stored" => from[c] \in Sidecars /\ from[c] # s
        BY <2>2, <3>2 DEF Timely, Patient, Waiting
      <3> QED
        BY <1>1, <1>3, <3>1, <3>2, <3>3 DEF Timely, Patient, Renewed, OnItsWay
    <2> QED
      BY <2>1, <2>2
  <1> QED
    BY <1>4, <1>5, <1>6 DEF IInv

-----------------------------------------------------------------------------

\* IInv is inductive.
LEMMA NextIInv == IInv /\ [Next]_vars => IInv'
  <1> SUFFICES ASSUME IInv, [Next]_vars PROVE IInv'
    OBVIOUS
  <1>1. CASE Tick
    BY <1>1, TickIInv
  <1>2. CASE RotateKeys
    BY <1>2, RotateIInv
  <1>3. ASSUME NEW c \in Calls, CallStep(c) PROVE IInv'
    <2>1. CASE Issue(c)
      BY <2>1, IssueIInv
    <2>2. CASE Store(c)
      BY <2>2, StoreIInv
    <2>3. CASE Attach(c)
      BY <2>3, AttachIInv
    <2>4. CASE RefreshFails(c) \/ Unreachable(c) \/ Accept(c) \/ Refuse(c)
      BY <2>4, EndIInv DEF RefreshFails, Unreachable, Accept, Refuse
    <2> QED
      BY <1>3, <2>1, <2>2, <2>3, <2>4 DEF CallStep
  <1>4. ASSUME NEW c \in Calls, NEW s \in Sidecars, Start(c, s) PROVE IInv'
    BY <1>4, StartIInv
  <1>5. ASSUME NEW c \in Calls, NEW s \in Sidecars, NEW d \in Sidecars, Begin(c, s, d) PROVE IInv'
    BY <1>5, BeginIInv
  <1>6. ASSUME NEW s \in Sidecars, Crash(s) PROVE IInv'
    BY <1>6, CrashIInv
  <1>7. CASE UNCHANGED vars
    <2>1. UNCHANGED <<now, ahead, key, cache, stage, from, to, passport, since>>
      BY <1>7 DEF vars, call
    <2>2. TypeOK'
      BY <2>1 DEF IInv, TypeOK
    <2>3. \A s \in Sidecars : Kept(s)'
      BY <2>1 DEF IInv, Kept
    <2>4. \A c \in Calls : Timely(c)'
      BY <2>1, OtherCalls
    <2> QED
      BY <2>2, <2>3, <2>4 DEF IInv
  <1> QED
    BY <1>1, <1>2, <1>3, <1>4, <1>5, <1>6, <1>7 DEF Next

\* The invariant holds throughout: caches and calls are as old as they may be.
LEMMA SpecIInv == Spec => []IInv
  BY InitIInv, NextIInv, PTL DEF Spec

\* The variables keep their types, and a sidecar the key its passport is signed with.
THEOREM TypeCorrect == Spec => []TypeOK
  <1>1. IInv => TypeOK
    BY DEF IInv
  <1> QED
    BY <1>1, SpecIInv, PTL

\* Whatever is forwarded has Buffer - MaxLatency left, whatever the sidecar's clock says.
THEOREM ForwardedInTime == Spec => AttachedHasTimeLeft
  <1>1. ASSUME IInv, IInv', NEW c \in Calls, [Next]_vars,
               stage[c] # "forwarded", stage'[c] = "forwarded"
        PROVE  passport'[c].exp - now >= Buffer - MaxLatency
    <2>1. now' = now /\ since'[c] = now
      <3>1. TypeOK
        BY <1>1 DEF IInv
      <3>2. CASE UNCHANGED vars
        BY <1>1, <3>2 DEF vars, call
      <3>3. CASE Tick \/ RotateKeys
        BY <1>1, <3>3 DEF Tick, RotateKeys, call
      <3>4. ASSUME NEW d \in Calls, CallStep(d) PROVE now' = now /\ since'[c] = now
        BY <1>1, <3>1, <3>4 DEF CallStep, Issue, Store, Attach, RefreshFails, Unreachable,
             Accept, Refuse, End, Forward, TypeOK
      <3>5. ASSUME NEW d \in Calls, NEW s \in Sidecars, Start(d, s)
            PROVE  now' = now /\ since'[c] = now
        BY <1>1, <3>1, <3>5 DEF Start, TypeOK
      <3>6. ASSUME NEW d \in Calls, NEW s \in Sidecars, NEW e \in Sidecars, Begin(d, s, e)
            PROVE  now' = now /\ since'[c] = now
        BY <1>1, <3>1, <3>6 DEF Begin, Forward, TypeOK
      <3>7. ASSUME NEW s \in Sidecars, Crash(s) PROVE now' = now /\ since'[c] = now
        BY <1>1, <3>1, <3>7 DEF Crash, TypeOK
      <3> QED
        BY <1>1, <3>2, <3>3, <3>4, <3>5, <3>6, <3>7 DEF Next
    <2>2. OnItsWay(c)'
      BY <1>1 DEF IInv, Timely
    <2> QED
      BY <1>1, <2>1, <2>2 DEF OnItsWay
  <1>2. IInv /\ IInv' /\ [Next]_vars =>
          [\A c \in Calls : (stage[c] # "forwarded" /\ stage'[c] = "forwarded") =>
             passport'[c].exp - now >= Buffer - MaxLatency]_vars
    BY <1>1
  <1> QED
    BY <1>2, SpecIInv, PTL DEF Spec, AttachedHasTimeLeft

\* Between sidecars, only a rotation of the company's key lets a call be refused.
THEOREM OnlyRotationRefuses == Spec => RefusedOnlyAcrossRotation
  <1>1. ASSUME IInv, NEW c \in Calls, Refuse(c), MaxLatency + Transit <= Buffer,
               passport[c].signer = cache[to[c]].passport.signer
        PROVE  FALSE
    <2> DEFINE p == passport[c]
               s == to[c]
    <2>1. /\ TypeOK /\ OnItsWay(c) /\ now \in Int /\ since[c] \in Int
          /\ stage[c] = "forwarded" /\ cache[s] # Empty
      BY <1>1 DEF IInv, Timely, TypeOK, Refuse
    <2>2. /\ s \in Sidecars /\ p \in Issued /\ now <= since[c] + Transit
          /\ p.nbf <= now /\ p.exp - since[c] >= Buffer - MaxLatency
      BY <2>1 DEF OnItsWay
    <2>3. /\ ahead[s] \in -Leeway .. Leeway
          /\ p.nbf \in Int /\ p.exp \in Int /\ p.signer \in Int
      BY <2>1, <2>2 DEF TypeOK, Issued
    <2>4. p.exp >= now
      BY <1>1, <2>1, <2>2, <2>3
    <2>5. NotExpired(p, Local(s)) /\ HasBegun(p, Local(s))
      BY <2>1, <2>2, <2>3, <2>4 DEF NotExpired, HasBegun, Local
    <2>6. cache[s].caPublicKey = p.signer /\ cache[s].caPublicKey # NoValue
      BY <1>1, <2>1, <2>2, <2>3, CachedIsIssued
    <2> QED
      BY <1>1, <2>5, <2>6 DEF Refuse, VerifyPassportLocal
  <1>2. IInv =>
          [\A c \in Calls : (Refuse(c) /\ MaxLatency + Transit <= Buffer) =>
             passport[c].signer # cache[to[c]].passport.signer]_vars
    BY <1>1
  <1> QED
    BY <1>2, SpecIInv, PTL DEF RefusedOnlyAcrossRotation
=============================================================================

------------------------------ MODULE SidecarProxy ------------------------------
(***************************************************************************)
(* The sidecars of one company (src/packages/sidecar): each keeps one      *)
(* passport and one CA key in memory, attaches the passport to the calls   *)
(* of its own agent and checks those of the calls that come in, against    *)
(* its own clock.  Calls wait for refreshes, which overlap and are         *)
(* answered in any order; Vane issues, refuses and rotates its key;        *)
(* sidecars die and start again.                                           *)
(*                                                                         *)
(* Calls are slots, each used again when its call is over.  CONNECT        *)
(* tunnels and plain proxy requests get their passport in the same way.    *)
(***************************************************************************)
EXTENDS PassportVerifier, Integers

CONSTANTS
  Sidecars,
  Calls,
  TTL,             \* PASSPORT_TTL_DEFAULT
  Buffer,          \* the 300 s of getPassport
  MaxLatency,      \* environment: fetch gives up on an answer after this time
  Transit,         \* environment: a forwarded call arrives within this time, or never
  MaxTime,         \* bound: the clock
  MaxKeys          \* bound: keys of the company

ASSUME TimesAssumption ==
  /\ {TTL, Buffer, MaxLatency, Transit, MaxTime, MaxKeys} \subseteq Nat
  /\ Buffer + MaxLatency <= TTL
  /\ MaxKeys > 0

ASSUME NoValueAssumption == NoValue \notin Int /\ NoValue \notin Sidecars

VARIABLES
  now,             \* Vane's clock
  ahead,           \* per sidecar: how far its clock is ahead of Vane's
  key,             \* which key the company signs with
  cache,           \* per sidecar: passport, caPublicKey and passportExp of VaneClient
  stage,           \* per call: how far it is
  from, to,        \* per call: its sidecar and the callee's; no callee: a start
  passport,        \* per call: the one in Vane's answer, then the one attached
  since            \* per call: when it asked Vane, then when it was forwarded

call == <<stage, from, to, passport, since>>
vars == <<now, ahead, key, cache, call>>

\* A VaneClient that has not been answered yet.
Empty == [passport |-> NoValue, caPublicKey |-> NoValue, passportExp |-> 0]

Local(s) == now + ahead[s]

Init ==
  /\ now = 0
  /\ ahead \in [Sidecars -> -Leeway .. Leeway]
  /\ key = 1
  /\ cache = [s \in Sidecars |-> Empty]
  /\ stage = [c \in Calls |-> "free"]
  /\ from = [c \in Calls |-> NoValue] /\ to = [c \in Calls |-> NoValue]
  /\ passport = [c \in Calls |-> NoValue]
  /\ since = [c \in Calls |-> 0]

-----------------------------------------------------------------------------
(* The clock and Vane *)

Waiting == {"asking", "answered", "stored"}

Tick ==
  /\ now < MaxTime
  /\ \A c \in Calls : stage[c] \in Waiting => now < since[c] + MaxLatency
  /\ \A c \in Calls : stage[c] = "forwarded" => now < since[c] + Transit
  /\ now' = now + 1
  /\ UNCHANGED <<ahead, key, cache, call>>

RotateKeys ==
  /\ key < MaxKeys
  /\ key' = key + 1
  /\ UNCHANGED <<now, ahead, cache, call>>

\* POST /v1/agents/:agentId/passport: signed with the key that is answered with it.
Issue(c) ==
  /\ stage[c] = "asking"
  /\ stage' = [stage EXCEPT ![c] = "answered"]
  /\ passport' = [passport EXCEPT ![c] = [signer |-> key, nbf |-> now, exp |-> now + TTL]]
  /\ UNCHANGED <<now, ahead, key, cache, from, to, since>>

-----------------------------------------------------------------------------
(* Outbound *)

End(c) ==
  /\ stage' = [stage EXCEPT ![c] = "free"]
  /\ from' = [from EXCEPT ![c] = NoValue] /\ to' = [to EXCEPT ![c] = NoValue]
  /\ passport' = [passport EXCEPT ![c] = NoValue]
  /\ since' = [since EXCEPT ![c] = 0]

\* The request goes out with a passport in its headers.
Forward(c, p) ==
  /\ stage' = [stage EXCEPT ![c] = "forwarded"]
  /\ passport' = [passport EXCEPT ![c] = p]
  /\ since' = [since EXCEPT ![c] = now]

\* initialize: the first refresh; the proxy starts when it is answered.
Start(c, s) ==
  /\ stage[c] = "free" /\ cache[s] = Empty
  /\ \A d \in Calls : ~(from[d] = s /\ to[d] = NoValue)
  /\ stage' = [stage EXCEPT ![c] = "asking"]
  /\ from' = [from EXCEPT ![c] = s]
  /\ since' = [since EXCEPT ![c] = now]
  /\ UNCHANGED <<now, ahead, key, cache, to, passport>>

\* Mutant of Fresh: anything that has not ended is good enough.
FreshEnough(s) == Local(s) < cache[s].passportExp

\* getPassport: at least 5 minutes remain, by the sidecar's clock.
Fresh(s) == cache[s].passportExp - Local(s) >= Buffer

\* handleOutbound, handleMitmRequest up to the end of getPassport.
Begin(c, s, d) ==
  /\ stage[c] = "free" /\ cache[s] # Empty /\ d # s
  /\ from' = [from EXCEPT ![c] = s] /\ to' = [to EXCEPT ![c] = d]
  /\ IF Fresh(s)
     THEN Forward(c, cache[s].passport)
     ELSE /\ stage' = [stage EXCEPT ![c] = "asking"]
          /\ since' = [since EXCEPT ![c] = now]
          /\ UNCHANGED passport
  /\ UNCHANGED <<now, ahead, key, cache>>

\* Mutant of Remember: the CA key is kept from the first answer.
RememberFirstKey(s, p) ==
  cache' = [cache EXCEPT ![s] =
              [passport |-> p, passportExp |-> Local(s) + TTL,
               caPublicKey |-> IF cache[s] = Empty THEN p.signer ELSE cache[s].caPublicKey]]

\* refreshPassport, answered: expiresIn counts from the arrival of the answer.
Remember(s, p) ==
  cache' = [cache EXCEPT ![s] =
              [passport |-> p, caPublicKey |-> p.signer, passportExp |-> Local(s) + TTL]]

Store(c) ==
  /\ stage[c] = "answered"
  /\ Remember(from[c], passport[c])
  /\ IF to[c] = NoValue
     THEN End(c)
     ELSE /\ stage' = [stage EXCEPT ![c] = "stored"]
          /\ passport' = [passport EXCEPT ![c] = NoValue]
          /\ UNCHANGED <<from, to, since>>
  /\ UNCHANGED <<now, ahead, key>>

\* getPassport goes on: it returns what is cached by now, and the call is forwarded.
Attach(c) ==
  /\ stage[c] = "stored"
  /\ Forward(c, cache[from[c]].passport)
  /\ UNCHANGED <<now, ahead, key, cache, from, to>>

\* Vane refuses, or does not answer in time: 502, whatever is cached; a start ends.
RefreshFails(c) ==
  /\ stage[c] \in {"asking", "answered"}
  /\ End(c)
  /\ UNCHANGED <<now, ahead, key, cache>>

\* The callee cannot be reached, 502.
Unreachable(c) ==
  /\ stage[c] = "forwarded"
  /\ End(c)
  /\ UNCHANGED <<now, ahead, key, cache>>

-----------------------------------------------------------------------------
(* Inbound *)

\* verifyPassportLocal, of a token that Vane has issued.
VerifyPassportLocal(s, p) ==
  /\ cache[s].caPublicKey # NoValue
  /\ p.signer = cache[s].caPublicKey
  /\ NotExpired(p, Local(s))
  /\ HasBegun(p, Local(s))

\* handleInbound of the callee's sidecar: 401, or on to the agent.
Accept(c) ==
  /\ stage[c] = "forwarded" /\ cache[to[c]] # Empty
  /\ VerifyPassportLocal(to[c], passport[c])
  /\ End(c)
  /\ UNCHANGED <<now, ahead, key, cache>>

Refuse(c) ==
  /\ stage[c] = "forwarded" /\ cache[to[c]] # Empty
  /\ ~VerifyPassportLocal(to[c], passport[c])
  /\ End(c)
  /\ UNCHANGED <<now, ahead, key, cache>>

-----------------------------------------------------------------------------

\* A sidecar dies: what it kept is gone, and so are the calls that wait in it.
Crash(s) ==
  /\ cache[s] # Empty
  /\ cache' = [cache EXCEPT ![s] = Empty]
  /\ LET lost == {c \in Calls : from[c] = s /\ stage[c] \in Waiting}
         Without(f, none) == [c \in Calls |-> IF c \in lost THEN none ELSE f[c]]
     IN  /\ stage' = Without(stage, "free")
         /\ from' = Without(from, NoValue) /\ to' = Without(to, NoValue)
         /\ passport' = Without(passport, NoValue)
         /\ since' = Without(since, 0)
  /\ UNCHANGED <<now, ahead, key>>

CallStep(c) ==
  \/ Issue(c) \/ Store(c) \/ Attach(c) \/ RefreshFails(c)
  \/ Unreachable(c) \/ Accept(c) \/ Refuse(c)

Next ==
  \/ Tick \/ RotateKeys
  \/ \E c \in Calls : CallStep(c)
  \/ \E c \in Calls, s \in Sidecars : Start(c, s)
  \/ \E c \in Calls, s, d \in Sidecars : Begin(c, s, d)
  \/ \E s \in Sidecars : Crash(s)

Spec == Init /\ [][Next]_vars

-----------------------------------------------------------------------------
(* Properties *)

Issued == [signer : 1 .. MaxKeys, nbf : 0 .. MaxTime, exp : 0 .. MaxTime + TTL]

\* What the variables range over; a started sidecar keeps the key its passport is
\* signed with.
TypeOK ==
  /\ now \in 0 .. MaxTime /\ key \in 1 .. MaxKeys
  /\ ahead \in [Sidecars -> -Leeway .. Leeway]
  /\ DOMAIN cache = Sidecars
  /\ \A s \in Sidecars :
       \/ cache[s] = Empty
       \/ /\ cache[s].passport \in Issued /\ cache[s].passportExp \in Int
          /\ cache[s].caPublicKey = cache[s].passport.signer
  /\ stage \in [Calls -> Waiting \cup {"free", "forwarded"}]
  /\ from \in [Calls -> Sidecars \cup {NoValue}] /\ to \in [Calls -> Sidecars \cup {NoValue}]
  /\ since \in [Calls -> 0 .. MaxTime]
  /\ passport \in [Calls -> Issued \cup {NoValue}]

\* When a call is forwarded, its passport has the 5 minutes left for which sidecars
\* refresh early, but for the time an answer of Vane may take: whatever the clock of the
\* sidecar says, and in whichever order overlapping refreshes are answered.
AttachedHasTimeLeft ==
  [][\A c \in Calls : (stage[c] # "forwarded" /\ stage'[c] = "forwarded") =>
       passport'[c].exp - now >= Buffer - MaxLatency]_vars

\* As long as clocks are within the leeway, and answers and calls within the time by
\* which sidecars refresh early, a call from sidecar to sidecar is refused for one cause
\* only: the company rotated its key between the last answers of Vane to the two.
RefusedOnlyAcrossRotation ==
  [][\A c \in Calls : (Refuse(c) /\ MaxLatency + Transit <= Buffer) =>
       passport[c].signer # cache[to[c]].passport.signer]_vars
=============================================================================

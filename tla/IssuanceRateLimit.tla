-------------------------- MODULE IssuanceRateLimit --------------------------
(***************************************************************************)
(* The limit on issuing and rotating passports: the middleware of          *)
(* src/api/issuance-rate-limit.ts as src/api/app.ts mounts it, over        *)
(* Store.checkAndIncrement of src/db/store.ts.                             *)
(*                                                                         *)
(* A request is stamped when it arrives (nowMs) and then asks one window   *)
(* after the other, each in a transaction that holds the lock of its key.  *)
(* Between the stamp and a transaction it waits for a connection and for   *)
(* the lock, so transactions need not come in the order of the stamps.     *)
(* A row of issuance_rate_limit_events is named by the request that wrote  *)
(* it: its ts is that request's stamp.                                     *)
(***************************************************************************)
EXTENDS Integers, FiniteSets

CONSTANTS
  Issuances,              \* requests: POST .../passport and .../passport/rotate
  Keys,                   \* API keys
  Length,                 \* windowMs of the minute, hour and day windows
  Limit,                  \* and their limits
  MaxDelay,               \* bound: ticks a request waits for its transactions
  MaxClock                \* bound: ticks

Windows == 1 .. 3         \* rl:min, rl:hr, rl:day
Day     == 3

ASSUME WindowsAssumption ==
  /\ IsFiniteSet(Issuances)
  /\ Length \in [Windows -> Nat]
  /\ Limit \in [Windows -> Nat \ {0}]
  /\ MaxDelay \in Nat
  /\ MaxClock \in Nat

VARIABLES
  clock,
  rows,                   \* per bucket: the requests with a row in the table
  stage,                  \* per request: "new", "asking", "through", "refused" or "failed"
  key,                    \* per request: the API key it carries
  stamp,                  \* per request: its nowMs
  passed                  \* per request: the windows that have let it through

issuanceVars == <<clock, rows, stage, key, stamp, passed>>

\* The company of a request as the limiter sees it.  The limiter is mounted
\* before the middleware that sets companyId, so it always reads ''.
NoCompany == "no company"
SeenCompany(k) == NoCompany

\* The rate_key of a window: an API key's, or for days that of the company seen.
RateKeys == Windows \X (Keys \cup {NoCompany})
RateKey(r, w) == <<w, IF w = Day THEN SeenCompany(key[r]) ELSE key[r]>>

IssuanceInit ==
  /\ clock = 0
  /\ rows = [b \in RateKeys |-> {}]
  /\ stage = [r \in Issuances |-> "new"]
  /\ key \in [Issuances -> Keys]
  /\ stamp = [r \in Issuances |-> 0]
  /\ passed = [r \in Issuances |-> 0]

-----------------------------------------------------------------------------
(* The handler.                                                            *)

Enter(r) ==
  /\ stage[r] = "new"
  /\ stage' = [stage EXCEPT ![r] = "asking"]
  /\ stamp' = [stamp EXCEPT ![r] = clock]
  /\ UNCHANGED <<clock, rows, key, passed>>

\* Mutant: the DELETE takes rows of exactly nowMs - windowMs too.
KeptInsideWindow(r, w) ==
  {q \in rows[RateKey(r, w)] : stamp[q] > stamp[r] - Length[w]}

\* What the DELETE leaves of a bucket: rows with ts < nowMs - windowMs go.
Kept(r, w) == {q \in rows[RateKey(r, w)] : stamp[q] >= stamp[r] - Length[w]}

\* Mutant: an off-by-one in count < limit.
AllowedOneMore(r, w) == Cardinality(Kept(r, w)) <= Limit[w]

Allowed(r, w) == Cardinality(Kept(r, w)) < Limit[w]

\* The transaction commits with room: the events of the window and this one.
LetThrough(r, w) ==
  /\ Allowed(r, w)
  /\ rows' = [rows EXCEPT ![RateKey(r, w)] = Kept(r, w) \cup {r}]
  /\ passed' = [passed EXCEPT ![r] = w]
  /\ stage' = [stage EXCEPT ![r] = IF w = Day THEN "through" ELSE "asking"]

\* It commits without room: only the pruning.  The request gets a 429; the rows
\* it has in the windows before this one stay.
Refuse(r, w) ==
  /\ ~Allowed(r, w)
  /\ rows' = [rows EXCEPT ![RateKey(r, w)] = Kept(r, w)]
  /\ stage' = [stage EXCEPT ![r] = "refused"]
  /\ UNCHANGED passed

Check(r) ==
  /\ stage[r] = "asking"
  /\ \/ LetThrough(r, passed[r] + 1)
     \/ Refuse(r, passed[r] + 1)
  /\ UNCHANGED <<clock, key, stamp>>

\* The transaction throws or the process dies: it may have committed all the
\* same.  The request gets a 500, or no answer.
CheckFails(r) ==
  /\ stage[r] = "asking"
  /\ stage' = [stage EXCEPT ![r] = "failed"]
  /\ LET w == passed[r] + 1 IN
       \/ UNCHANGED rows
       \/ rows' = [rows EXCEPT ![RateKey(r, w)] =
                     Kept(r, w) \cup (IF Allowed(r, w) THEN {r} ELSE {})]
  /\ UNCHANGED <<clock, key, stamp, passed>>

ClockTick ==
  /\ clock < MaxClock
  /\ \A r \in Issuances : stage[r] = "asking" => clock < stamp[r] + MaxDelay
  /\ clock' = clock + 1
  /\ UNCHANGED <<rows, stage, key, stamp, passed>>

IssuanceNext ==
  \/ ClockTick
  \/ \E r \in Issuances : Enter(r) \/ Check(r) \/ CheckFails(r)

IssuanceSpec == IssuanceInit /\ [][IssuanceNext]_issuanceVars

-----------------------------------------------------------------------------
(* Properties.                                                             *)

\* The requests that the window of bucket b has let through.
Through(b) == {r \in Issuances : passed[r] >= b[1] /\ RateKey(r, b[1]) = b}

\* A row is in the bucket of a window that let its request through, or of the
\* one it failed at.
TypeOK ==
  /\ clock \in Nat
  /\ rows \in [RateKeys -> SUBSET Issuances]
  /\ stage \in [Issuances -> {"new", "asking", "through", "refused", "failed"}]
  /\ key \in [Issuances -> Keys]
  /\ stamp \in [Issuances -> Nat]
  /\ passed \in [Issuances -> {0} \cup Windows]
  /\ \A r \in Issuances : stage[r] = "asking" => passed[r] < Day
  /\ \A b \in RateKeys : \A r \in rows[b] :
       /\ b = RateKey(r, b[1])
       /\ b[1] <= passed[r] \/ (stage[r] = "failed" /\ b[1] = passed[r] + 1)

\* At every moment no bucket has let through more requests stamped within the
\* last window than its limit, although every check prunes the rows it counts,
\* by its own stamp and not by the time.
NeverOverLimitNow ==
  \A b \in RateKeys :
    Cardinality({r \in Through(b) : stamp[r] >= clock - Length[b[1]]}) <= Limit[b[1]]

\* Looking back, a burst is held to the limit over any window shorter than the
\* configured one by as much as a request may wait for its transactions: a check
\* that came late may have missed the rows an earlier one with a later stamp pruned.
\* The advisory lock of checkAndIncrement orders the transactions, not the stamps:
\* with MaxDelay > 0 the limit does not hold for the whole window in retrospect.
BurstsBounded ==
  \A b \in RateKeys, t \in 0 .. clock :
    Cardinality({r \in Through(b) : stamp[r] \in t .. t + Length[b[1]] - MaxDelay})
      <= Limit[b[1]]

\* The inductive invariant.

\* No stamp is of the future, a request that is still asking is not older than
\* MaxDelay, and a new one has asked nothing.
Timely ==
  \A r \in Issuances :
    /\ stamp[r] <= clock
    /\ stage[r] = "asking" => clock <= stamp[r] + MaxDelay
    /\ stage[r] = "new" => passed[r] = 0

RowsWithinLimit == \A b \in RateKeys : Cardinality(rows[b]) <= Limit[b[1]]

\* Pruning never takes the row of a request stamped within the last window.
RecentAreCounted ==
  \A b \in RateKeys : \A r \in Through(b) :
    stamp[r] >= clock - Length[b[1]] => r \in rows[b]

Burst(b, t) == {r \in Through(b) : stamp[r] \in t .. t + Length[b[1]] - MaxDelay}

BurstsWithinLimit ==
  \A b \in RateKeys, t \in Nat : Cardinality(Burst(b, t)) <= Limit[b[1]]

IInv == TypeOK /\ Timely /\ RowsWithinLimit /\ RecentAreCounted /\ BurstsWithinLimit

=============================================================================

---------------------------- MODULE AccessProofs ----------------------------
(***************************************************************************)
(* Who gets into the API, proved for any number of requests, companies,    *)
(* servers, keys, windows and limits: first the issuance limit, then the   *)
(* registration, the general limit and the authentication of               *)
(* CompanyAccess.  The two specifications have no name in common.          *)
(***************************************************************************)
EXTENDS CompanyAccess, IssuanceRateLimit, FiniteSetTheorems, TLAPS

-----------------------------------------------------------------------------
(* The issuance limit.  A bucket never has more rows than its limit, and a *)
(* check prunes by its own stamp, which is never later than now: so the    *)
(* rows hold every request of the last window, and a check that waited at  *)
(* most MaxDelay has them all before it when it counts, but for those      *)
(* older than its stamp by the window less MaxDelay.                       *)

USE WindowsAssumption

\* A bucket of a request is a bucket, and says which window it is of.
LEMMA RateKeysOfIssuances ==
  ASSUME key \in [Issuances -> Keys], NEW r \in Issuances, NEW w \in Windows
  PROVE  RateKey(r, w) \in RateKeys /\ RateKey(r, w)[1] = w
BY DEF RateKey, RateKeys, SeenCompany, NoCompany

\* Sets of requests are finite: a subset is no larger, and one more request
\* makes a set larger by one at most.
LEMMA SmallerSet ==
  ASSUME NEW T \in SUBSET Issuances, NEW S \in SUBSET T
  PROVE  /\ Cardinality(S) \in Nat /\ Cardinality(T) \in Nat
         /\ Cardinality(S) <= Cardinality(T)
BY FS_Subset, FS_CardinalityType, IsFiniteSet(T)

\* One more request makes a set of requests larger by one at most.
LEMMA OneMore ==
  ASSUME NEW T \in SUBSET Issuances, NEW r \in Issuances
  PROVE  /\ Cardinality(T) \in Nat
         /\ Cardinality(T \cup {r}) \in Nat
         /\ Cardinality(T \cup {r}) <= Cardinality(T) + 1
<1>1. IsFiniteSet(T)
  BY FS_Subset
<1>2. /\ IsFiniteSet(T \cup {r})
      /\ \/ Cardinality(T \cup {r}) = Cardinality(T)
         \/ Cardinality(T \cup {r}) = Cardinality(T) + 1
  BY <1>1, FS_AddElement, Zenon
<1>3. Cardinality(T) \in Nat /\ Cardinality(T \cup {r}) \in Nat
  BY <1>1, <1>2, FS_CardinalityType, Zenon
<1> QED
  BY <1>2, <1>3

\* What a check leaves of its bucket: the window's rows, at most its limit, with
\* or without the request's own.
LEMMA Pruned ==
  ASSUME TypeOK, RowsWithinLimit, NEW r \in Issuances, NEW w \in Windows
  PROVE  /\ Kept(r, w) \subseteq rows[RateKey(r, w)]
         /\ Kept(r, w) \in SUBSET Issuances
         /\ Cardinality(Kept(r, w)) <= Limit[w]
         /\ Allowed(r, w) => Cardinality(Kept(r, w) \cup {r}) <= Limit[w]
<1>1. RateKey(r, w) \in RateKeys /\ RateKey(r, w)[1] = w
  BY RateKeysOfIssuances DEF TypeOK
<1>2. /\ rows[RateKey(r, w)] \in SUBSET Issuances
      /\ Kept(r, w) \in SUBSET rows[RateKey(r, w)]
  BY <1>1 DEF TypeOK, Kept
<1>3. Cardinality(rows[RateKey(r, w)]) <= Limit[w]
  BY <1>1 DEF RowsWithinLimit
<1>4. Limit[w] \in Nat
  OBVIOUS
<1>5. /\ Cardinality(Kept(r, w)) \in Nat
      /\ Cardinality(rows[RateKey(r, w)]) \in Nat
      /\ Cardinality(Kept(r, w)) <= Cardinality(rows[RateKey(r, w)])
  BY <1>2, SmallerSet
<1>6. Cardinality(Kept(r, w)) <= Limit[w]
  BY <1>3, <1>4, <1>5
<1>7. ASSUME Allowed(r, w)
      PROVE  Cardinality(Kept(r, w) \cup {r}) <= Limit[w]
  BY <1>2, <1>4, <1>5, <1>7, OneMore DEF Allowed
<1> QED
  BY <1>2, <1>6, <1>7

\* The invariant, step by step: at first no bucket has a row and nothing was let through.
LEMMA IssuanceInitInv == IssuanceInit => IInv
<1> SUFFICES ASSUME IssuanceInit PROVE IInv
  OBVIOUS
<1>1. TypeOK
  BY DEF IssuanceInit, TypeOK, Windows, Day
<1>2. Timely
  BY DEF IssuanceInit, Timely
<1>3. Cardinality({}) = 0
  BY FS_EmptySet
<1>4. \A b \in RateKeys : b[1] \in Windows
  BY DEF RateKeys
<1>5. \A b \in RateKeys : Limit[b[1]] \in Nat /\ Through(b) = {}
  BY <1>4 DEF IssuanceInit, Through, Windows
<1>6. RowsWithinLimit
  BY <1>3, <1>5 DEF IssuanceInit, RowsWithinLimit
<1>7. RecentAreCounted
  BY <1>5 DEF RecentAreCounted
<1>8. ASSUME NEW b \in RateKeys, NEW t \in Nat PROVE Cardinality(Burst(b, t)) <= Limit[b[1]]
  <2>1. Burst(b, t) = {}
    BY <1>5 DEF Burst
  <2> QED
    BY <2>1, <1>3, <1>5
<1> QED
  BY <1>1, <1>2, <1>6, <1>7, <1>8 DEF IInv, BurstsWithinLimit

\* A transaction leaves a bucket with the window's rows and perhaps the request's
\* own: still within the limit, and still with every recent request.
LEMMA RowsAfterCheck ==
  ASSUME IInv, NEW r \in Issuances, NEW w \in Windows,
         NEW X \in {Kept(r, w), Kept(r, w) \cup {r}},
         Allowed(r, w) \/ X = Kept(r, w),
         rows' = [rows EXCEPT ![RateKey(r, w)] = X]
  PROVE  /\ rows' \in [RateKeys -> SUBSET Issuances]
         /\ \A b \in RateKeys : Cardinality(rows'[b]) <= Limit[b[1]]
         /\ \A b \in RateKeys : \A q \in Through(b) :
              stamp[q] >= clock - Length[b[1]] => q \in rows'[b]
         /\ r \in X => r \in rows'[RateKey(r, w)]
<1>1. RateKey(r, w) \in RateKeys /\ RateKey(r, w)[1] = w
  BY RateKeysOfIssuances DEF IInv, TypeOK
<1>2. /\ X \in SUBSET Issuances
      /\ Cardinality(X) <= Limit[w]
  BY Pruned DEF IInv
<1>3. rows \in [RateKeys -> SUBSET Issuances]
  BY DEF IInv, TypeOK
<1>4. \A b \in RateKeys : rows'[b] = IF b = RateKey(r, w) THEN X ELSE rows[b]
  BY <1>1, <1>3
<1>5. rows' \in [RateKeys -> SUBSET Issuances]
  BY <1>1, <1>2, <1>3
<1>6. \A b \in RateKeys : Cardinality(rows'[b]) <= Limit[b[1]]
  BY <1>1, <1>2, <1>4 DEF IInv, RowsWithinLimit
<1>7. ASSUME NEW b \in RateKeys, NEW q \in Through(b), stamp[q] >= clock - Length[b[1]]
      PROVE  q \in rows'[b]
  <2>1. q \in rows[b] /\ q \in Issuances
    BY <1>7 DEF IInv, RecentAreCounted, Through
  <2>2. CASE b # RateKey(r, w)
    BY <2>1, <2>2, <1>4
  <2>3. CASE b = RateKey(r, w)
    <3>1. stamp[q] >= clock - Length[w]
      BY <1>1, <1>7, <2>3
    <3>2. /\ stamp[r] <= clock /\ clock \in Nat
          /\ stamp[r] \in Nat /\ stamp[q] \in Nat /\ Length[w] \in Nat
      BY <2>1 DEF IInv, TypeOK, Timely
    <3>3. stamp[q] >= stamp[r] - Length[w]
      BY <3>1, <3>2
    <3>4. q \in Kept(r, w)
      BY <3>3, <2>1, <2>3 DEF Kept
    <3> QED
      BY <3>4, <1>4, <2>3
  <2> QED
    BY <2>2, <2>3
<1> QED
  BY <1>1, <1>4, <1>5, <1>6, <1>7

\* Only a window that lets a request through adds to what it has let through.
LEMMA ThroughAfterPass ==
  ASSUME TypeOK, NEW r \in Issuances, NEW w \in Windows, w = passed[r] + 1,
         passed' = [passed EXCEPT ![r] = w], UNCHANGED key
  PROVE  \A b \in RateKeys :
           Through(b)' = IF b = RateKey(r, w) THEN Through(b) \cup {r} ELSE Through(b)
<1>1. \A q \in Issuances, v \in Windows : RateKey(q, v)' = RateKey(q, v)
  BY DEF RateKey
<1>2. passed[r] \in Nat /\ \A q \in Issuances \ {r} : passed'[q] = passed[q]
  BY DEF TypeOK, Windows
<1>3. passed'[r] = w
  BY DEF TypeOK
<1>4. RateKey(r, w)[1] = w
  BY RateKeysOfIssuances DEF TypeOK
<1> SUFFICES ASSUME NEW b \in RateKeys
             PROVE  Through(b)' = IF b = RateKey(r, w) THEN Through(b) \cup {r}
                                                      ELSE Through(b)
  OBVIOUS
<1>5. b[1] \in Windows /\ b[1] \in Nat
  BY DEF RateKeys, Windows
<1>6. \A q \in Issuances : RateKey(q, b[1])' = RateKey(q, b[1])
  BY <1>1, <1>5
<1>7. \A q \in Issuances \ {r} : q \in Through(b)' <=> q \in Through(b)
  BY <1>2, <1>6 DEF Through
<1>8. r \in Through(b)' <=> (w >= b[1] /\ RateKey(r, b[1]) = b)
  BY <1>3, <1>6 DEF Through
<1>9. r \in Through(b) <=> (passed[r] >= b[1] /\ RateKey(r, b[1]) = b)
  BY DEF Through
<1>10. w >= b[1] <=> (w = b[1] \/ passed[r] >= b[1])
  BY <1>2, <1>5
<1>11. b = RateKey(r, w) => w = b[1]
  BY <1>4
<1>12. Through(b)' \subseteq Issuances /\ Through(b) \subseteq Issuances
  BY DEF Through
<1>13. r \in Through(b)' <=> (r \in Through(b) \/ b = RateKey(r, w))
  BY <1>8, <1>9, <1>10, <1>11
<1>14. \A q : q \in Through(b)' <=> (q \in Through(b) \/ (q = r /\ b = RateKey(r, w)))
  BY <1>7, <1>12, <1>13, Zenon
<1> QED
  BY <1>14, Zenon

\* What a check that lets its request through does to bursts: every request of
\* a burst the new one belongs to is young enough to be among the rows it counts.
LEMMA BurstsAfterPass ==
  ASSUME IInv, NEW r \in Issuances, stage[r] = "asking",
         NEW w \in Windows, w = passed[r] + 1, Allowed(r, w),
         passed' = [passed EXCEPT ![r] = w], UNCHANGED <<key, stamp>>
  PROVE  BurstsWithinLimit'
<1> SUFFICES ASSUME NEW b \in RateKeys, NEW t \in Nat
             PROVE  Cardinality(Burst(b, t)') <= Limit[b[1]]
  BY DEF BurstsWithinLimit
<1>1. b[1] \in Windows /\ Length[b[1]] \in Nat /\ Limit[b[1]] \in Nat
  BY DEF RateKeys
<1>2. Through(b)' = IF b = RateKey(r, w) THEN Through(b) \cup {r} ELSE Through(b)
  BY ThroughAfterPass DEF IInv
<1>3. Cardinality(Burst(b, t)) <= Limit[b[1]]
  BY DEF IInv, BurstsWithinLimit
<1>4. CASE b # RateKey(r, w) \/ ~(stamp[r] \in t .. t + Length[b[1]] - MaxDelay)
  <2>1. Burst(b, t)' = Burst(b, t)
    BY <1>2, <1>4 DEF Burst
  <2> QED
    BY <2>1, <1>3
<1>5. CASE b = RateKey(r, w) /\ stamp[r] \in t .. t + Length[b[1]] - MaxDelay
  <2>1. b[1] = w
    BY <1>5, RateKeysOfIssuances DEF IInv, TypeOK
  <2>2. ASSUME NEW q \in Burst(b, t), q # r
        PROVE  q \in Kept(r, w)
    <3>1. q \in Issuances /\ stamp[q] \in t .. t + Length[w] - MaxDelay
      BY <2>1, <2>2 DEF Burst, Through
    <3>2. /\ stamp[q] \in Nat /\ stamp[r] \in Nat /\ clock \in Nat
          /\ clock <= stamp[r] + MaxDelay
      BY <3>1 DEF IInv, TypeOK, Timely
    <3>3. /\ stamp[q] >= clock - Length[w]
          /\ stamp[q] >= stamp[r] - Length[w]
      BY <1>1, <1>5, <2>1, <3>1, <3>2
    <3>4. q \in rows[b]
      BY <2>1, <2>2, <3>3 DEF IInv, RecentAreCounted, Burst
    <3> QED
      BY <1>5, <3>3, <3>4 DEF Kept
  <2>3. /\ Kept(r, w) \cup {r} \in SUBSET Issuances
        /\ Cardinality(Kept(r, w) \cup {r}) <= Limit[w]
    BY Pruned DEF IInv
  <2>4. Burst(b, t)' \in SUBSET (Kept(r, w) \cup {r})
    BY <1>2, <2>2 DEF Burst
  <2>5. /\ Cardinality(Burst(b, t)') \in Nat
        /\ Cardinality(Kept(r, w) \cup {r}) \in Nat
        /\ Cardinality(Burst(b, t)') <= Cardinality(Kept(r, w) \cup {r})
    BY <2>3, <2>4, SmallerSet
  <2> QED
    BY <1>1, <2>1, <2>3, <2>5
<1> QED
  BY <1>4, <1>5

\* A request that is stamped now has asked nothing: no bucket and no burst changes.
LEMMA EnterInv ==
  ASSUME IInv, NEW r \in Issuances, Enter(r)
  PROVE  IInv'
<1> USE DEF Enter
<1>2. Timely'
  BY DEF IInv, TypeOK, Timely
<1>3. passed[r] = 0
  BY DEF IInv, Timely
<1>4. \A q \in Issuances, v \in Windows : RateKey(q, v)' = RateKey(q, v)
  BY DEF RateKey
<1>1. TypeOK'
  <2>1. /\ stage' \in [Issuances -> {"new", "asking", "through", "refused", "failed"}]
        /\ stamp' \in [Issuances -> Nat]
        /\ \A q \in Issuances : stage'[q] = "asking" => passed[q] < Day
    BY <1>3 DEF IInv, TypeOK, Day
  <2>2. ASSUME NEW b \in RateKeys, NEW q \in rows[b]
        PROVE  /\ b = RateKey(q, b[1])'
               /\ b[1] <= passed[q] \/ (stage'[q] = "failed" /\ b[1] = passed[q] + 1)
    <3>1. /\ q \in Issuances /\ b[1] \in Windows
          /\ b = RateKey(q, b[1])
          /\ b[1] <= passed[q] \/ (stage[q] = "failed" /\ b[1] = passed[q] + 1)
      BY DEF IInv, TypeOK, RateKeys
    <3>2. q # r
      BY <1>3, <3>1 DEF Windows
    <3> QED
      BY <1>4, <3>1, <3>2 DEF IInv, TypeOK
  <2> QED
    BY <2>1, <2>2 DEF IInv, TypeOK
<1>5. \A b \in RateKeys : Through(b)' = Through(b) /\ r \notin Through(b)
  BY <1>3, <1>4 DEF Through, RateKeys, Windows
<1>6. \A b \in RateKeys : \A q \in Through(b) : stamp'[q] = stamp[q]
  BY <1>5 DEF IInv, TypeOK, Through
<1>7. RowsWithinLimit'
  BY DEF IInv, RowsWithinLimit
<1>8. RecentAreCounted'
  BY <1>5, <1>6 DEF IInv, RecentAreCounted
<1>9. \A b \in RateKeys, t \in Nat : Burst(b, t)' = Burst(b, t)
  BY <1>5, <1>6 DEF Burst
<1>10. BurstsWithinLimit'
  BY <1>9 DEF IInv, BurstsWithinLimit
<1> QED
  BY <1>1, <1>2, <1>7, <1>8, <1>10 DEF IInv

\* When time passes, requests leave the last window and none comes into it.
LEMMA ClockTickInv ==
  ASSUME IInv, ClockTick
  PROVE  IInv'
<1> USE DEF ClockTick
<1>1. TypeOK'
  BY DEF IInv, TypeOK, RateKey
<1>2. Timely'
  BY DEF IInv, TypeOK, Timely
<1>3. \A b \in RateKeys : Through(b)' = Through(b)
  BY DEF Through, RateKey
<1>4. RowsWithinLimit'
  BY DEF IInv, RowsWithinLimit
<1>5. ASSUME NEW b \in RateKeys, NEW q \in Through(b), stamp[q] >= clock' - Length[b[1]]
      PROVE  q \in rows[b]
  <2>1. /\ clock' = clock + 1 /\ clock \in Nat
        /\ stamp[q] \in Nat /\ Length[b[1]] \in Nat
    BY DEF IInv, TypeOK, Through, RateKeys
  <2>2. stamp[q] >= clock - Length[b[1]]
    BY <1>5, <2>1
  <2> QED
    BY <2>2 DEF IInv, RecentAreCounted
<1>6. RecentAreCounted'
  BY <1>3, <1>5 DEF RecentAreCounted
<1>7. \A b \in RateKeys, t \in Nat : Burst(b, t)' = Burst(b, t)
  BY <1>3 DEF Burst
<1>8. BurstsWithinLimit'
  BY <1>7 DEF IInv, BurstsWithinLimit
<1> QED
  BY <1>1, <1>2, <1>4, <1>6, <1>8 DEF IInv

\* A request that ends at a window, refused or failed.
LEMMA EndInv ==
  ASSUME IInv, NEW r \in Issuances, stage[r] = "asking",
         NEW e \in {"refused", "failed"}, stage' = [stage EXCEPT ![r] = e],
         UNCHANGED <<clock, key, stamp, passed>>,
         rows' \in [RateKeys -> SUBSET Issuances],
         \A b \in RateKeys : Cardinality(rows'[b]) <= Limit[b[1]],
         \A b \in RateKeys : \A q \in Through(b) :
           stamp[q] >= clock - Length[b[1]] => q \in rows'[b],
         \A b \in RateKeys : \A q \in rows'[b] :
           \/ q \in rows[b]
           \/ q = r /\ b = RateKey(r, passed[r] + 1) /\ e = "failed"
  PROVE  IInv'
<1>1. \A q \in Issuances, v \in Windows : RateKey(q, v)' = RateKey(q, v)
  BY DEF RateKey
<1>2. \A b \in RateKeys : Through(b)' = Through(b)
  BY DEF Through, RateKey
<1>3. ASSUME NEW b \in RateKeys, NEW q \in rows'[b]
      PROVE  /\ b = RateKey(q, b[1])'
             /\ b[1] <= passed[q] \/ (stage'[q] = "failed" /\ b[1] = passed[q] + 1)
  <2>1. q \in Issuances /\ b[1] \in Windows
    BY DEF RateKeys
  <2>2. CASE q = r /\ b = RateKey(r, passed[r] + 1) /\ e = "failed"
    <3>1. passed[r] + 1 \in Windows
      BY DEF IInv, TypeOK, Windows, Day
    <3>2. b[1] = passed[r] + 1
      BY <2>2, <3>1, RateKeysOfIssuances DEF IInv, TypeOK
    <3> QED
      BY <1>1, <2>1, <2>2, <3>2 DEF IInv, TypeOK
  <2>3. CASE q \in rows[b]
    <3>1. /\ b = RateKey(q, b[1])
          /\ b[1] <= passed[q] \/ (stage[q] = "failed" /\ b[1] = passed[q] + 1)
      BY <2>3 DEF IInv, TypeOK
    <3>2. stage[q] = "failed" => stage'[q] = "failed"
      BY <2>1 DEF IInv, TypeOK
    <3> QED
      BY <1>1, <2>1, <3>1, <3>2
  <2> QED
    BY <2>2, <2>3
<1>4. TypeOK'
  <2>1. /\ stage' \in [Issuances -> {"new", "asking", "through", "refused", "failed"}]
        /\ \A q \in Issuances : stage'[q] = "asking" => passed'[q] < Day
    BY DEF IInv, TypeOK
  <2> QED
    BY <1>3, <2>1 DEF IInv, TypeOK
<1>5. Timely'
  BY DEF IInv, TypeOK, Timely
<1>6. RowsWithinLimit'
  BY DEF RowsWithinLimit
<1>7. RecentAreCounted'
  BY <1>2 DEF RecentAreCounted
<1>8. \A b \in RateKeys, t \in Nat : Burst(b, t)' = Burst(b, t)
  BY <1>2 DEF Burst
<1>9. BurstsWithinLimit'
  BY <1>8 DEF IInv, BurstsWithinLimit
<1> QED
  BY <1>4, <1>5, <1>6, <1>7, <1>9 DEF IInv

\* A check writes its bucket (RowsAfterCheck), and may let one more request through.
LEMMA CheckInv ==
  ASSUME IInv, NEW r \in Issuances, Check(r)
  PROVE  IInv'
<1> DEFINE w == passed[r] + 1
<1>1. w \in Windows /\ stage[r] = "asking" /\ UNCHANGED <<clock, key, stamp>>
  BY DEF Check, IInv, TypeOK, Windows, Day
<1>2. RateKey(r, w) \in RateKeys /\ RateKey(r, w)[1] = w
  BY <1>1, RateKeysOfIssuances DEF IInv, TypeOK
<1>3. \A q \in Issuances, v \in Windows : RateKey(q, v)' = RateKey(q, v)
  BY <1>1 DEF RateKey
<1> HIDE DEF w
<1>4. CASE LetThrough(r, w)
  <2>1. /\ rows' = [rows EXCEPT ![RateKey(r, w)] = Kept(r, w) \cup {r}]
        /\ passed' = [passed EXCEPT ![r] = w]
        /\ stage' = [stage EXCEPT ![r] = IF w = Day THEN "through" ELSE "asking"]
        /\ Allowed(r, w)
    BY <1>4 DEF LetThrough
  <2>2. /\ rows' \in [RateKeys -> SUBSET Issuances]
        /\ \A b \in RateKeys : Cardinality(rows'[b]) <= Limit[b[1]]
        /\ \A b \in RateKeys : \A q \in Through(b) :
             stamp[q] >= clock - Length[b[1]] => q \in rows'[b]
        /\ r \in rows'[RateKey(r, w)]
    BY <1>1, <2>1, RowsAfterCheck
  <2>3. \A b \in RateKeys :
          Through(b)' = IF b = RateKey(r, w) THEN Through(b) \cup {r} ELSE Through(b)
    BY <1>1, <2>1, ThroughAfterPass DEF IInv, w
  <2>4. \A b \in RateKeys : \A q \in rows'[b] : q \in rows[b] \/ (q = r /\ b = RateKey(r, w))
    BY <1>2, <2>1 DEF IInv, TypeOK, Kept
  <2>5. passed[r] \in Nat /\ passed[r] = w - 1 /\ passed'[r] = w /\ stage[r] # "failed"
    BY <1>1, <2>1 DEF IInv, TypeOK, w, Windows
  <2>6. ASSUME NEW b \in RateKeys, NEW q \in rows'[b]
        PROVE  /\ b = RateKey(q, b[1])'
               /\ b[1] <= passed'[q] \/ (stage'[q] = "failed" /\ b[1] = passed'[q] + 1)
    <3>1. q \in Issuances /\ b[1] \in Windows /\ b[1] \in Nat
      BY <2>2 DEF RateKeys, Windows
    <3>2. CASE q = r /\ b = RateKey(r, w)
      <4>1. b[1] = w /\ w \in Windows /\ b[1] <= passed'[q]
        BY <1>1, <1>2, <2>5, <3>1, <3>2
      <4>2. RateKey(q, b[1])' = RateKey(q, b[1])
        BY <1>3, <3>1
      <4> QED
        BY <3>2, <4>1, <4>2
    <3>3. CASE q \in rows[b]
      <4>1. /\ b = RateKey(q, b[1])
            /\ b[1] <= passed[q] \/ (stage[q] = "failed" /\ b[1] = passed[q] + 1)
        BY <3>3 DEF IInv, TypeOK
      <4>2. CASE q = r
        <5>1. b[1] <= passed'[q]
          BY <1>1, <2>5, <3>1, <4>1, <4>2 DEF Windows
        <5> QED
          BY <1>3, <3>1, <4>1, <5>1
      <4>3. CASE q # r
        BY <1>3, <2>1, <3>1, <4>1, <4>3 DEF IInv, TypeOK
      <4> QED
        BY <4>2, <4>3
    <3> QED
      BY <2>4, <3>2, <3>3
  <2>7. TypeOK'
    <3>1. /\ stage' \in [Issuances -> {"new", "asking", "through", "refused", "failed"}]
          /\ passed' \in [Issuances -> {0} \cup Windows]
          /\ clock' \in Nat /\ key' \in [Issuances -> Keys] /\ stamp' \in [Issuances -> Nat]
      BY <1>1, <2>1 DEF IInv, TypeOK
    <3>2. \A q \in Issuances : stage'[q] = "asking" => passed'[q] < Day
      BY <1>1, <2>1, <2>5 DEF IInv, TypeOK, Windows, Day
    <3> QED
      BY <2>2, <2>6, <3>1, <3>2 DEF TypeOK
  <2>8. Timely'
    BY <1>1, <2>1 DEF IInv, TypeOK, Timely, Day
  <2>9. RowsWithinLimit'
    BY <2>2 DEF RowsWithinLimit
  <2>10. RecentAreCounted'
    BY <1>1, <2>2, <2>3 DEF RecentAreCounted
  <2>11. BurstsWithinLimit'
    BY <1>1, <2>1, BurstsAfterPass DEF w
  <2> QED
    BY <2>7, <2>8, <2>9, <2>10, <2>11 DEF IInv
<1>5. CASE Refuse(r, w)
  <2>1. /\ rows' = [rows EXCEPT ![RateKey(r, w)] = Kept(r, w)]
        /\ stage' = [stage EXCEPT ![r] = "refused"]
        /\ passed' = passed
    BY <1>5 DEF Refuse
  <2>2. /\ rows' \in [RateKeys -> SUBSET Issuances]
        /\ \A b \in RateKeys : Cardinality(rows'[b]) <= Limit[b[1]]
        /\ \A b \in RateKeys : \A q \in Through(b) :
             stamp[q] >= clock - Length[b[1]] => q \in rows'[b]
    BY <1>1, <2>1, RowsAfterCheck
  <2>3. \A b \in RateKeys : \A q \in rows'[b] : q \in rows[b]
    BY <1>2, <2>1 DEF IInv, TypeOK, Kept
  <2> QED
    BY <1>1, <2>1, <2>2, <2>3, EndInv
<1> QED
  BY <1>4, <1>5 DEF Check, w

\* A check that fails may leave its row, as if it had let the request through.
LEMMA CheckFailsInv ==
  ASSUME IInv, NEW r \in Issuances, CheckFails(r)
  PROVE  IInv'
<1> DEFINE w == passed[r] + 1
<1>1. /\ w \in Windows /\ stage[r] = "asking"
      /\ UNCHANGED <<clock, key, stamp, passed>>
      /\ stage' = [stage EXCEPT ![r] = "failed"]
  BY DEF CheckFails, IInv, TypeOK, Windows, Day
<1>2. RateKey(r, w) \in RateKeys
  BY <1>1, RateKeysOfIssuances DEF IInv, TypeOK
<1>3. CASE UNCHANGED rows
  BY <1>1, <1>3, EndInv DEF IInv, TypeOK, RowsWithinLimit, RecentAreCounted
<1>4. CASE rows' = [rows EXCEPT ![RateKey(r, w)] =
                      Kept(r, w) \cup (IF Allowed(r, w) THEN {r} ELSE {})]
  <2> DEFINE X == Kept(r, w) \cup (IF Allowed(r, w) THEN {r} ELSE {})
  <2>1. /\ X \in {Kept(r, w), Kept(r, w) \cup {r}}
        /\ Allowed(r, w) \/ X = Kept(r, w)
    OBVIOUS
  <2>2. /\ rows' \in [RateKeys -> SUBSET Issuances]
        /\ \A b \in RateKeys : Cardinality(rows'[b]) <= Limit[b[1]]
        /\ \A b \in RateKeys : \A q \in Through(b) :
             stamp[q] >= clock - Length[b[1]] => q \in rows'[b]
    <3> HIDE DEF X, w
    <3> QED
      BY <1>1, <1>4, <2>1, RowsAfterCheck DEF X
  <2>3. \A b \in RateKeys : \A q \in rows'[b] :
          q \in rows[b] \/ (q = r /\ b = RateKey(r, w) /\ "failed" = "failed")
    BY <1>2, <1>4 DEF IInv, TypeOK, Kept
  <2> QED
    BY <1>1, <2>2, <2>3, EndInv
<1> QED
  BY <1>3, <1>4 DEF CheckFails

\* Every step of the issuance limit keeps the invariant.
LEMMA IssuanceStepInv == IInv /\ [IssuanceNext]_issuanceVars => IInv'
<1> SUFFICES ASSUME IInv, [IssuanceNext]_issuanceVars PROVE IInv'
  OBVIOUS
<1>1. CASE ClockTick
  BY <1>1, ClockTickInv
<1>2. ASSUME NEW r \in Issuances, Enter(r) \/ Check(r) \/ CheckFails(r) PROVE IInv'
  BY <1>2, EnterInv, CheckInv, CheckFailsInv
<1>3. CASE UNCHANGED issuanceVars
  BY <1>3 DEF issuanceVars, IInv, TypeOK, Timely, RowsWithinLimit, RecentAreCounted,
              BurstsWithinLimit, Burst, Through, RateKey
<1> QED
  BY <1>1, <1>2, <1>3 DEF IssuanceNext

\* The inductive invariant of the issuance limit holds throughout: buckets are within
\* their limits and hold every request let through in the last window.
THEOREM Invariance == IssuanceSpec => []IInv
BY IssuanceInitInv, IssuanceStepInv, PTL DEF IssuanceSpec

\* Rows are where the requests that wrote them left them.
THEOREM TypeCorrect == IssuanceSpec => []TypeOK
<1>1. IInv => TypeOK
  BY DEF IInv
<1> QED
  BY <1>1, Invariance, PTL

\* At every moment, whatever waited and however late: no more requests of the
\* last window than the limit.
THEOREM LimitHoldsNow == IssuanceSpec => []NeverOverLimitNow
<1>1. IInv => NeverOverLimitNow
  <2> SUFFICES ASSUME IInv, NEW b \in RateKeys
               PROVE  Cardinality({r \in Through(b) : stamp[r] >= clock - Length[b[1]]})
                        <= Limit[b[1]]
    BY DEF NeverOverLimitNow
  <2> DEFINE S == {r \in Through(b) : stamp[r] >= clock - Length[b[1]]}
  <2>1. S \in SUBSET rows[b] /\ rows[b] \in SUBSET Issuances
    BY DEF IInv, TypeOK, RecentAreCounted
  <2>2. Cardinality(rows[b]) <= Limit[b[1]] /\ Limit[b[1]] \in Nat
    BY DEF IInv, RowsWithinLimit, RateKeys
  <2> HIDE DEF S
  <2>3. /\ Cardinality(S) \in Nat /\ Cardinality(rows[b]) \in Nat
        /\ Cardinality(S) <= Cardinality(rows[b])
    BY <2>1, SmallerSet
  <2>4. Cardinality(S) <= Limit[b[1]]
    BY <2>2, <2>3
  <2> QED
    BY <2>4 DEF S
<1> QED
  BY <1>1, Invariance, PTL

\* Looking back, no burst beyond the limit over the window less the longest wait.
THEOREM BurstsHeld == IssuanceSpec => []BurstsBounded
<1>1. IInv => BurstsBounded
  BY DEF IInv, TypeOK, BurstsWithinLimit, BurstsBounded, Burst
<1> QED
  BY <1>1, Invariance, PTL

HIDE WindowsAssumption

-----------------------------------------------------------------------------
(* Registration, the general limit and the authentication.  A limiter      *)
(* remembers every request of the last window that it let in, and counts   *)
(* them all before it lets in one more.  A credential that was deleted or  *)
(* had expired when its request arrived stays so, since numbers are given  *)
(* out once and time does not go back.  A company without a key names the  *)
(* request that left it so: the registration on its way or broken off, or  *)
(* the deletion.                                                           *)

USE ParametersAssumption

Handed == 1 .. db.made

\* The database: every row has a number that was given out.
Numbered ==
  /\ db.made \in 0 .. MaxCredential /\ db.companies \subseteq Companies
  /\ Ids(db.keys) \cup Ids(db.clients) \cup Ids(db.tokens) \subseteq Handed
  /\ held \subseteq Handed
  /\ \A t \in db.tokens : t.expires \in Nat
  /\ DOMAIN db = {"companies", "keys", "clients", "tokens", "made"}

Shapes ==
  /\ now \in Nat
  /\ tenants \in [Servers -> SUBSET Companies]
  /\ DOMAIN up = Servers /\ listed \in [Servers -> SUBSET Companies]
  /\ buckets \in [Servers -> SUBSET Requests]
  /\ admitted \in [Servers -> SUBSET Requests]
  /\ DOMAIN request = Requests
  /\ \A r \in Requests : 
       /\ DOMAIN request[r] = DOMAIN NoRequest
       /\ request[r].at \in Nat
       /\ request[r].pc # "new" => request[r].server \in Servers

\* What a server's limiter remembers.
Remembered(s) ==
  /\ IsFiniteSet(admitted[s])
  /\ buckets[s] \subseteq admitted[s]
  /\ listed[s] \subseteq tenants[s]
  /\ ~up[s] => tenants[s] = {}
  /\ \A r \in admitted[s] :
       /\ request[r].pc # "new" /\ request[r].server = s /\ request[r].at <= now
       /\ request[r].op \in Operations
       /\ InWindow(request[r]) => r \in buckets[s]
       /\ request[r].op \in Registrations /\ request[r].pc \in {"hydrated", "done"} =>
            request[r].company \in tenants[s]

\* Those of a bucket that came within a window from t on.
Admissions(s, b, t) ==
  {q \in admitted[s] : /\ Bucket(request[q]) = b
                       /\ request[q].at \in t .. t + WINDOW_MS - 1}

WithinLimits(s) ==
  \A r \in admitted[s], t \in Nat :
    Cardinality(Admissions(s, Bucket(request[r]), t)) <= LIMITS[Tier(request[r].op)]

\* A request at the authentication middleware: its key or token was given out, and if
\* it was dead on arrival it still is.  A certificate that names no company now named
\* none then; past the certificate there is none, or it was of no help.
Authenticating(r) ==
  LET q == request[r] IN
  /\ q.pc \in {"cert?", "key?", "token?"} =>
       /\ q.op \notin Public
       /\ q.cred \in Handed \cup {None}
       /\ q.dead /\ q.cred # None => KeyRows(q.cred) = {} /\ Valid(q.cred) = {}
  /\ q.pc = "cert?" => q.cert \in db.companies \/ q.unproven
  /\ q.pc \in {"key?", "token?"} => q.cred # None /\ q.unproven
  /\ q.pc = "token?" => KeyRows(q.cred) = {}

\* A request dies with its server.
Served(r) == InFlight(r) => up[request[r].server]

\* A registration on its way.
Registering(r) ==
  LET q == request[r] IN
  /\ q.op \in Registrations /\ q.pc # "new" => q.target \in Companies
  /\ q.pc \in {"created", "hydrated"} => q.op \in Registrations /\ q.company = q.target
  /\ q.pc = "hydrated" => q.company \in tenants[q.server]

Excuse(r, c) ==
  LET q == request[r] IN
  /\ q.company = c /\ q.pc # "new"
  /\ \/ q.op \in Registrations /\ q.pc # "done" /\ q.target = c
     \/ q.op = "deleteKey" /\ q.pc \in {"done", "500"}

Keyed == \A c \in db.companies : KeysOf(db, c) = {} => \E r \in Requests : Excuse(r, c)

AccessInv ==
  /\ Shapes /\ Numbered
  /\ \A s \in Servers : Remembered(s) /\ WithinLimits(s)
  /\ \A r \in Requests : Served(r) /\ Authenticating(r) /\ Registering(r)
  /\ Keyed

-----------------------------------------------------------------------------

\* At first no limiter remembers anything, and the database is one of the given ones.
LEMMA AccessInitInv == Init => AccessInv
<1> SUFFICES ASSUME Init PROVE AccessInv
  OBVIOUS
<1>1. Shapes
  BY DEF Init, Shapes, NoRequest
<1>2. Numbered
  BY DatabasesAssumption DEF Init, Numbered, Handed, Ids
<1>3. ASSUME NEW s \in Servers PROVE Remembered(s) /\ WithinLimits(s)
  <2>1. admitted[s] = {} /\ buckets[s] = {} /\ listed[s] = {} /\ tenants[s] = {}
    BY DEF Init
  <2> QED
    BY <2>1, FS_EmptySet DEF Remembered, WithinLimits
<1>4. ASSUME NEW r \in Requests PROVE Served(r) /\ Authenticating(r) /\ Registering(r)
  <2>1. request[r].pc = "new"
    BY DEF Init, NoRequest
  <2> QED
    BY <2>1 DEF Served, InFlight, Authenticating, Registering
<1>5. Keyed
  BY DatabasesAssumption DEF Init, Keyed, KeysOf
<1> QED
  BY <1>1, <1>2, <1>3, <1>4, <1>5 DEF AccessInv

\* What no step of a request changes: the other requests, and what it came with.
OnlyAdvances(r) ==
  /\ DOMAIN request' = Requests
  /\ \A p \in Requests \ {r} : request'[p] = request[p]
  /\ DOMAIN request'[r] = DOMAIN NoRequest
  /\ request'[r].op = request[r].op /\ request'[r].server = request[r].server
  /\ request'[r].cert = request[r].cert
  /\ request'[r].cred = request[r].cred /\ request'[r].target = request[r].target
  /\ request'[r].at = request[r].at /\ request'[r].dead = request[r].dead

\* The two ways in which handlers move a request on.
LEMMA GotoAdvances ==
  ASSUME Shapes, NEW r \in Requests, NEW pc, Goto(r, pc)
  PROVE  /\ OnlyAdvances(r) /\ request'[r].pc = pc
         /\ request'[r].company = request[r].company
         /\ request'[r].unproven = request[r].unproven
BY DEF Shapes, Goto, OnlyAdvances, NoRequest

LEMMA AdmitAdvances ==
  ASSUME Shapes, NEW r \in Requests, NEW pc, NEW c,
         request' = [request EXCEPT ![r].pc = pc, ![r].company = c]
  PROVE  OnlyAdvances(r) /\ request'[r].pc = pc /\ request'[r].company = c
BY DEF Shapes, OnlyAdvances, NoRequest

\* The limiter does not notice what becomes of a request it has let in.
LEMMA LimiterKept ==
  ASSUME AccessInv, NEW r \in Requests, OnlyAdvances(r), UNCHANGED <<now, up, listed, buckets, admitted>>,
         request'[r].pc # "new", \A s \in Servers : tenants[s] \subseteq tenants'[s],
         \A s \in Servers : ~up[s] => tenants'[s] = tenants[s],
         request[r].op \in Registrations /\ request'[r].pc \in {"hydrated", "done"} =>
           request'[r].company \in tenants'[request[r].server]
  PROVE  \A s \in Servers : Remembered(s)' /\ WithinLimits(s)'
<1> SUFFICES ASSUME NEW s \in Servers PROVE Remembered(s)' /\ WithinLimits(s)'
  OBVIOUS
<1>1. admitted[s] \subseteq Requests
  BY DEF AccessInv, Shapes
<1>2. \A q \in Requests : /\ Bucket(request[q])' = Bucket(request[q])
                          /\ InWindow(request[q])' = InWindow(request[q])
                          /\ request'[q].at = request[q].at /\ request'[q].op = request[q].op
                          /\ request'[q].server = request[q].server
  BY DEF OnlyAdvances, Bucket, InWindow
<1>3. Remembered(s)'
  <2>1. Remembered(s)
    BY DEF AccessInv
  <2>2. \A q \in admitted[s] \ {r} : request'[q] = request[q]
    BY <1>1 DEF OnlyAdvances
  <2>3. \A q \in admitted[s] :
          /\ request'[q].pc # "new" /\ request'[q].server = s /\ request'[q].at <= now
          /\ request'[q].op \in Operations
          /\ InWindow(request[q])' => q \in buckets[s]
    BY <1>1, <1>2, <2>1, <2>2 DEF Remembered
  <2>4. \A q \in admitted[s] :
          request'[q].op \in Registrations /\ request'[q].pc \in {"hydrated", "done"} =>
            request'[q].company \in tenants'[s]
    BY <1>1, <1>2, <2>1, <2>2 DEF Remembered
  <2> QED
    BY <2>1, <2>3, <2>4 DEF Remembered
<1>4. \A b, t : Admissions(s, b, t)' = Admissions(s, b, t)
  BY <1>1, <1>2 DEF Admissions
<1>5. WithinLimits(s)'
  BY <1>1, <1>2, <1>4 DEF AccessInv, WithinLimits
<1> QED
  BY <1>3, <1>5

\* No credential that was given out comes to life again, and no company goes.
NoneRevived ==
  /\ Handed \subseteq Handed' /\ db.companies \subseteq db'.companies
  /\ \A cred \in Handed : /\ KeyRows(cred)' \subseteq KeyRows(cred)
                          /\ TokenRows(cred)' \subseteq TokenRows(cred)

\* What a step of one request owes for the whole invariant to hold again.
LEMMA Assemble ==
  ASSUME AccessInv, NEW r \in Requests, OnlyAdvances(r),
         UNCHANGED <<now, up, listed, buckets, admitted>>,
         InFlight(r), request'[r].pc # "new",
         tenants' \in [Servers -> SUBSET Companies],
         \A s \in Servers : ~up[s] => tenants'[s] = tenants[s],
         \A s \in Servers : tenants[s] \subseteq tenants'[s],
         request[r].op \in Registrations /\ request'[r].pc \in {"hydrated", "done"} =>
           request'[r].company \in tenants'[request[r].server],
         Numbered', NoneRevived, Authenticating(r)', Registering(r)', Keyed'
  PROVE  AccessInv'
<1>1. Shapes'
  BY DEF AccessInv, Shapes, OnlyAdvances, InFlight
<1>2. \A s \in Servers : Remembered(s)' /\ WithinLimits(s)'
  BY LimiterKept
<1>3. ASSUME NEW p \in Requests, p # r PROVE Served(p)' /\ Authenticating(p)' /\ Registering(p)'
  <2>1. /\ request'[p] = request[p]
        /\ Served(p) /\ Authenticating(p) /\ Registering(p)
    BY <1>3 DEF AccessInv, OnlyAdvances
  <2>2. \A cred \in Handed : Valid(cred)' \subseteq Valid(cred)
    BY DEF NoneRevived, Valid
  <2>3. Authenticating(p)'
    BY <2>1, <2>2 DEF Authenticating, NoneRevived
  <2>4. request[p].server \in Servers => tenants[request[p].server] \subseteq tenants'[request[p].server]
    OBVIOUS
  <2>5. Registering(p)'
    BY <2>1, <2>4 DEF Registering, AccessInv, Shapes
  <2> QED
    BY <2>1, <2>3, <2>5 DEF Served, InFlight
<1>4. Served(r)'
  BY DEF AccessInv, Served, OnlyAdvances
<1> QED
  BY <1>1, <1>2, <1>3, <1>4 DEF AccessInv

\* A company keeps its key or its excuse.
LEMMA KeyedKept ==
  ASSUME AccessInv, NEW r \in Requests, OnlyAdvances(r), db'.companies \subseteq db.companies,
         \A c \in db.companies : KeysOf(db, c) # {} => KeysOf(db, c)' # {} \/ Excuse(r, c)',
         \A c \in db.companies : Excuse(r, c) => KeysOf(db, c)' # {} \/ Excuse(r, c)'
  PROVE  Keyed'
<1>1. \A p \in Requests \ {r} : \A c : Excuse(p, c)' = Excuse(p, c)
  BY DEF OnlyAdvances, Excuse
<1> QED
  BY <1>1 DEF AccessInv, Keyed

\* Steps that write no table.
LEMMA QuietStep ==
  ASSUME AccessInv, NEW r \in Requests, OnlyAdvances(r), UNCHANGED <<now, db, up, listed, buckets, admitted>>,
         InFlight(r), request'[r].pc \notin {"new", "cert?"}, held' \subseteq Handed,
         tenants' \in [Servers -> SUBSET Companies],
         \A s \in Servers : ~up[s] => tenants'[s] = tenants[s],
         \A s \in Servers : tenants[s] \subseteq tenants'[s],
         request'[r].pc \in {"key?", "token?"} => Authenticating(r)',
         request'[r].company = request[r].company \/ request[r].op \notin Registrations,
         request[r].op \in Registrations =>
           \/ request'[r].pc \notin {"created", "hydrated", "done"}
           \/ /\ request'[r].pc = "hydrated" /\ request[r].pc = "created"
              /\ request[r].target \in tenants'[request[r].server],
         request[r].op = "deleteKey" => request[r].pc \notin {"done", "500"},
         request[r].op \notin Registrations => request'[r].pc \notin {"created", "hydrated"}
  PROVE  AccessInv'
<1>1. Numbered' /\ NoneRevived
  BY DEF AccessInv, Numbered, NoneRevived, Handed, KeyRows, TokenRows
<1>2. Authenticating(r)'
  BY DEF Authenticating
<1>3. Registering(r)'
  BY DEF AccessInv, Registering, OnlyAdvances, InFlight
<1>4. Keyed'
  <2>1. \A c \in db.companies : Excuse(r, c) => Excuse(r, c)'
    BY DEF Excuse, OnlyAdvances, Registrations
  <2>2. \A c \in db.companies : KeysOf(db, c)' = KeysOf(db, c)
    BY DEF KeysOf
  <2> QED
    BY <2>1, <2>2, KeyedKept
<1>5. request[r].op \in Registrations /\ request'[r].pc \in {"hydrated", "done"} =>
        request'[r].company \in tenants'[request[r].server]
  BY DEF AccessInv, Registering
<1> QED
  BY <1>1, <1>2, <1>3, <1>4, <1>5, Assemble

\* A certificate admits its company's request; if it does not, the key or token is
\* asked, and there is a cause why it does not.
LEMMA WithoutCertificate ==
  ASSUME Shapes, Numbered, NEW r \in Requests, Authenticating(r),
         CheckCertificate(r) \/ CertificateFails(r)
  PROVE  /\ OnlyAdvances(r) /\ request[r].pc = "cert?"
         /\ request'[r].pc \in {"run", "401", "key?"}
         /\ request'[r].pc = "run" => request'[r].company = request[r].cert
         /\ request'[r].pc # "run" => request'[r].unproven
         /\ request'[r].pc = "401" => request[r].cred = None
         /\ request'[r].pc = "key?" => request'[r].cred # None
<1>0. /\ request[r].pc = "cert?"
      /\ OnToToken(r) = IF request[r].cred = None THEN "401" ELSE "key?"
  BY DEF CheckCertificate, CertificateFails, OnToToken
<1>1. CASE Admit(r, request[r].cert)
  <2>1. OnlyAdvances(r)
    BY <1>1 DEF Admit, Shapes, OnlyAdvances, NoRequest
  <2>2. request'[r].pc = "run" /\ request'[r].company = request[r].cert
    BY <1>1 DEF Admit, Shapes
  <2> QED
    BY <1>0, <2>1, <2>2, Zenon
<1>2. CASE request[r].cert \notin db.companies /\ Goto(r, OnToToken(r))
  <2>1. request[r].unproven
    BY <1>0, <1>2 DEF Authenticating
  <2>2. /\ OnlyAdvances(r) /\ request'[r].pc = OnToToken(r)
        /\ request'[r].unproven = request[r].unproven
    BY <1>2, GotoAdvances
  <2> QED
    BY <1>0, <2>1, <2>2, Zenon DEF OnlyAdvances
<1>3. CASE CertificateFails(r)
  <2>1. OnlyAdvances(r) /\ request'[r].pc = OnToToken(r) /\ request'[r].unproven = TRUE
    BY <1>3 DEF CertificateFails, Shapes, OnlyAdvances, NoRequest
  <2> QED
    BY <1>0, <2>1, Zenon DEF OnlyAdvances
<1> QED
  BY <1>1, <1>2, <1>3 DEF CheckCertificate

\* The queries of the authentication middleware admit or refuse, and write nothing.
LEMMA AuthenticationInv ==
  ASSUME AccessInv, NEW r \in Requests,
         CheckCertificate(r) \/ CertificateFails(r) \/ CheckApiKey(r) \/ CheckToken(r)
  PROVE  AccessInv'
<1>0. /\ Shapes /\ Numbered /\ Authenticating(r)
      /\ request[r].pc \in {"cert?", "key?", "token?"}
      /\ request[r].op \notin Registrations
      /\ UNCHANGED <<now, db, held, up, listed, buckets, admitted>>
  BY DEF AccessInv, CheckCertificate, CertificateFails, CheckApiKey, CheckToken,
         Authenticating, Public, servers
<1>1. CASE CheckCertificate(r) \/ CertificateFails(r)
  <2>1. /\ OnlyAdvances(r) /\ request'[r].pc \in {"run", "401", "key?"}
        /\ request'[r].pc = "key?" => request'[r].cred # None /\ request'[r].unproven
    BY <1>0, <1>1, WithoutCertificate
  <2>2. /\ tenants' \in [Servers -> SUBSET Companies]
        /\ \A s \in Servers : tenants[s] \subseteq tenants'[s]
        /\ \A s \in Servers : ~up[s] => tenants'[s] = tenants[s]
    BY <1>0, <1>1 DEF CheckCertificate, CertificateFails, servers, Shapes, AccessInv, Served,
                      Numbered, InFlight
  <2>3. \A cred : KeyRows(cred)' = KeyRows(cred) /\ Valid(cred)' = Valid(cred)
    BY <1>0 DEF KeyRows, Valid, TokenRows
  <2>4. request'[r].pc = "key?" => Authenticating(r)'
    BY <1>0, <2>1, <2>3 DEF Authenticating, OnlyAdvances, Handed
  <2> QED
    BY <1>0, <2>1, <2>2, <2>4, QuietStep DEF Numbered, InFlight
<1>2. CASE CheckApiKey(r)
  <2>1. CASE \E k \in KeyRows(request[r].cred) : Admit(r, k.company)
    <3>1. OnlyAdvances(r) /\ request'[r].pc = "run"
      BY <1>0, <2>1, AdmitAdvances DEF Admit
    <3> QED
      BY <1>0, <1>2, <3>1, QuietStep DEF Numbered, CheckApiKey, servers, Shapes, InFlight
  <2>2. CASE KeyRows(request[r].cred) = {} /\ Goto(r, "token?")
    <3>1. /\ OnlyAdvances(r) /\ request'[r].pc = "token?"
          /\ request'[r].unproven = request[r].unproven
      BY <1>0, <2>2, GotoAdvances
    <3>2. \A cred : KeyRows(cred)' = KeyRows(cred) /\ Valid(cred)' = Valid(cred)
      BY <1>0 DEF KeyRows, Valid, TokenRows
    <3>3. Authenticating(r)'
      BY <1>0, <1>2, <2>2, <3>1, <3>2 DEF Authenticating, OnlyAdvances, CheckApiKey, Handed
    <3> QED
      BY <1>0, <1>2, <3>1, <3>3, QuietStep DEF Numbered, CheckApiKey, servers, Shapes, InFlight
  <2> QED
    BY <1>2, <2>1, <2>2 DEF CheckApiKey
<1>3. CASE CheckToken(r)
  <2>0. (\E c : Admit(r, c)) \/ Goto(r, "401")
    BY <1>3 DEF CheckToken
  <2>1. OnlyAdvances(r) /\ request'[r].pc \in {"run", "401"}
    <3>1. CASE \E c : Admit(r, c)
      BY <1>0, <3>1, AdmitAdvances DEF Admit
    <3>2. CASE Goto(r, "401")
      BY <1>0, <3>2, GotoAdvances
    <3> QED
      BY <2>0, <3>1, <3>2
  <2> QED
    BY <1>0, <1>3, <2>1, QuietStep DEF Numbered, CheckToken, servers, Shapes, InFlight
<1> QED
  BY <1>1, <1>2, <1>3

\* The handlers that read.
LEMMA ReadersInv ==
  ASSUME AccessInv, NEW r \in Requests,
         CheckClient(r) \/ Attest(r) \/ GetCompany(r) \/ InitTenant(r) \/ Recover(r) \/ Fail(r)
  PROVE  AccessInv'
<1>0. Shapes /\ Numbered /\ Authenticating(r) /\ Registering(r)
  BY DEF AccessInv
<1>1. CASE CheckClient(r)
  <2>1. request[r].pc = "run" /\ request[r].op = "token"
    BY <1>1 DEF CheckClient
  <2>2. OnlyAdvances(r) /\ request'[r].pc \in {"checked", "401"}
    <3>1. CASE Goto(r, "401")
      BY <1>0, <3>1, GotoAdvances
    <3>2. CASE \E c : request' = [request EXCEPT ![r].pc = "checked", ![r].company = c]
      BY <1>0, <3>2, AdmitAdvances
    <3> QED
      BY <1>1, <3>1, <3>2 DEF CheckClient
  <2> QED
    BY <1>0, <1>1, <2>1, <2>2, QuietStep DEF Numbered, CheckClient, servers, Shapes, Registrations, InFlight
<1>2. CASE Attest(r)
  <2>1. request[r].pc = "run" /\ request[r].op = "attest"
    BY <1>2 DEF Attest
  <2>2. OnlyAdvances(r) /\ request'[r].pc \in {"done", "no tenant"}
    BY <1>0, <1>2, GotoAdvances DEF Attest
  <2> QED
    BY <1>0, <1>2, <2>1, <2>2, QuietStep DEF Numbered, Attest, servers, Shapes, Registrations, InFlight
<1>3. CASE GetCompany(r)
  <2>1. request[r].pc = "run" /\ request[r].op \in Registrations
    BY <1>3 DEF GetCompany
  <2>2. /\ OnlyAdvances(r) /\ request'[r].pc \in {"checked", "409"}
        /\ request'[r].company = request[r].company
    BY <1>0, <1>3, GotoAdvances DEF GetCompany
  <2> QED
    BY <1>0, <1>3, <2>1, <2>2, QuietStep DEF Numbered, GetCompany, servers, Shapes, Registrations, InFlight
<1>4. CASE InitTenant(r)
  <2>1. request[r].pc = "created" /\ request[r].op \in Registrations
    BY <1>0, <1>4 DEF InitTenant, Registering
  <2>2. /\ OnlyAdvances(r) /\ request'[r].pc = "hydrated"
        /\ request'[r].company = request[r].company
    BY <1>0, <1>4, GotoAdvances DEF InitTenant
  <2>3. /\ request[r].target \in Companies /\ request[r].server \in Servers
        /\ tenants' \in [Servers -> SUBSET Companies]
        /\ \A s \in Servers : tenants[s] \subseteq tenants'[s]
        /\ \A s \in Servers : ~up[s] => tenants'[s] = tenants[s]
        /\ request[r].target \in tenants'[request[r].server]
    BY <1>0, <1>4, <2>1 DEF InitTenant, Shapes, Registering, AccessInv, Served, InFlight
  <2> QED
    BY <1>0, <1>4, <2>1, <2>2, <2>3, QuietStep DEF Numbered, InitTenant, Registrations, InFlight
<1>5. CASE Recover(r)
  <2>1. request[r].pc = "run" /\ request[r].op = "recover"
    BY <1>5 DEF Recover
  <2>2. OnlyAdvances(r) /\ request'[r].pc \in {"done", "404"}
    BY <1>0, <1>5, GotoAdvances DEF Recover
  <2>3. held' \subseteq Handed
    BY <1>0, <1>5 DEF Recover, Numbered, KeysOf, Ids
  <2> QED
    BY <1>0, <1>5, <2>1, <2>2, <2>3, QuietStep DEF Recover, servers, Shapes, Registrations, InFlight
<1>6. CASE Fail(r)
  <2>1. request[r].pc \notin {"new", "done", "500"}
    BY <1>6 DEF Fail, InFlight
  <2>2. /\ OnlyAdvances(r) /\ request'[r].pc = "500"
        /\ request'[r].company = request[r].company
    BY <1>0, <1>6, GotoAdvances DEF Fail
  <2> QED
    BY <1>0, <1>6, <2>1, <2>2, QuietStep DEF Numbered, Fail, servers, Shapes, InFlight
<1> QED
  BY <1>1, <1>2, <1>3, <1>4, <1>5, <1>6

\* A query that gives out the next credential: no row of an older one is added.
LEMMA MakingStep ==
  ASSUME AccessInv, NEW r \in Requests, NEW d, Commit(r, d, "done"), Making,
         DOMAIN d = {"companies", "keys", "clients", "tokens", "made"},
         d.made = db.made + 1, d.companies = db.companies, db.keys \subseteq d.keys,
         \A row \in (d.keys \ db.keys) \cup (d.clients \ db.clients) \cup (d.tokens \ db.tokens) :
           row.id = db.made + 1,
         \A t \in d.tokens \ db.tokens : t.expires \in Nat,
         request[r].pc \in {"run", "checked", "hydrated"},
         request[r].op \in Registrations =>
           /\ request[r].pc = "hydrated"
           /\ \E k \in d.keys : k.company = request[r].company
  PROVE  AccessInv'
<1>0. Shapes /\ Numbered /\ Authenticating(r) /\ Registering(r)
  BY DEF AccessInv
<1>1. /\ OnlyAdvances(r) /\ request'[r].pc \in {"done", "500"}
      /\ request'[r].company = request[r].company
  BY <1>0, GotoAdvances DEF Commit
<1>2. db' = d /\ UNCHANGED <<now, up, listed, tenants, buckets, admitted>>
  BY DEF Commit
<1>3. db.made \in Nat /\ db.made + 1 \in 0 .. MaxCredential
  BY <1>0 DEF Numbered, Making
<1>4. Handed' = Handed \cup {db.made + 1} /\ db.made + 1 \notin Handed
  BY <1>2, <1>3 DEF Handed
<1>5. held' \subseteq Handed'
  BY <1>0, <1>3, <1>4 DEF Commit, Numbered
<1>6. Numbered'
  <2>1. \A row \in d.keys \cup d.clients \cup d.tokens : row.id \in Handed'
    BY <1>0, <1>4 DEF Numbered, Ids
  <2>2. (Ids(db.keys) \cup Ids(db.clients) \cup Ids(db.tokens))' \subseteq Handed'
    BY <1>2, <2>1 DEF Ids
  <2> QED
    BY <1>0, <1>2, <1>3, <1>5, <2>2 DEF Numbered
<1>7. NoneRevived
  BY <1>2, <1>4 DEF NoneRevived, KeyRows, TokenRows
<1>8. Authenticating(r)'
  BY <1>1 DEF Authenticating
<1>9. Registering(r)'
  BY <1>0, <1>1 DEF Registering, OnlyAdvances
<1>10. Keyed'
  <2>1. \A c \in db.companies : Excuse(r, c) => KeysOf(db, c)' # {} \/ Excuse(r, c)'
    BY <1>1, <1>2 DEF Excuse, OnlyAdvances, KeysOf, Registrations
  <2>2. \A c \in db.companies : KeysOf(db, c) # {} => KeysOf(db, c)' # {}
    BY <1>2 DEF KeysOf
  <2> QED
    BY <1>1, <1>2, <2>1, <2>2, KeyedKept
<1>11. tenants' \in [Servers -> SUBSET Companies]
  BY <1>0, <1>2 DEF Shapes
<1>12. request[r].op \in Registrations /\ request'[r].pc \in {"hydrated", "done"} =>
         request'[r].company \in tenants'[request[r].server]
  BY <1>0, <1>1, <1>2 DEF Registering
<1> QED
  BY <1>1, <1>2, <1>6, <1>7, <1>8, <1>9, <1>10, <1>11, <1>12, Assemble DEF InFlight

\* The handlers that make a credential: it takes the next number.
LEMMA MakersInv ==
  ASSUME AccessInv, NEW r \in Requests,
         NewKey(r) \/ NewClient(r) \/ CreateToken(r) \/ CreateBootstrapKey(r)
  PROVE  AccessInv'
<1>0. /\ DOMAIN db = {"companies", "keys", "clients", "tokens", "made"}
      /\ now + TTL \in Nat
  BY DEF AccessInv, Numbered, Shapes
<1>1. \A c : /\ WithKey(c).made = db.made + 1 /\ WithKey(c).companies = db.companies
             /\ WithKey(c).keys = db.keys \cup {Owned(db.made + 1, c)}
             /\ WithKey(c).clients = db.clients /\ WithKey(c).tokens = db.tokens
             /\ DOMAIN WithKey(c) = DOMAIN db
  BY <1>0 DEF WithKey
<1>2. CASE NewKey(r)
  BY <1>0, <1>1, <1>2, MakingStep DEF NewKey, Owned, Registrations
<1>3. CASE CreateBootstrapKey(r)
  <2> DEFINE c == request[r].company
  <2>1. /\ request[r].pc = "hydrated" /\ Making /\ Commit(r, WithKey(c), "done")
        /\ Owned(db.made + 1, c).id = db.made + 1 /\ Owned(db.made + 1, c).company = c
    BY <1>3 DEF CreateBootstrapKey, Owned
  <2> HIDE DEF c
  <2>2. \E k \in WithKey(c).keys : k.company = c
    BY <1>1, <2>1
  <2> QED
    BY <1>0, <1>1, <2>1, <2>2, MakingStep DEF c
<1>4. CASE NewClient(r)
  <2> DEFINE d == [db EXCEPT !.clients = @ \cup {Owned(db.made + 1, request[r].company)},
                             !.made = @ + 1]
  <2>1. /\ d.made = db.made + 1 /\ d.companies = db.companies /\ d.keys = db.keys
        /\ d.clients = db.clients \cup {Owned(db.made + 1, request[r].company)}
        /\ d.tokens = db.tokens /\ DOMAIN d = DOMAIN db
    BY <1>0
  <2>2. Commit(r, d, "done")
    BY <1>4 DEF NewClient
  <2> HIDE DEF d
  <2> QED
    BY <1>0, <1>4, <2>1, <2>2, MakingStep DEF NewClient, Owned, Registrations
<1>5. CASE CreateToken(r)
  <2> DEFINE token == [id |-> db.made + 1, company |-> request[r].company, expires |-> now + TTL]
             d == [db EXCEPT !.tokens = @ \cup {token}, !.made = @ + 1]
  <2>1. /\ d.made = db.made + 1 /\ d.companies = db.companies /\ d.keys = db.keys
        /\ d.tokens = db.tokens \cup {token}
        /\ d.clients = db.clients /\ DOMAIN d = DOMAIN db
    BY <1>0
  <2>2. Commit(r, d, "done")
    BY <1>5 DEF CreateToken
  <2>3. token.id = db.made + 1 /\ token.expires = now + TTL
    OBVIOUS
  <2> HIDE DEF d, token
  <2> QED
    BY <1>0, <1>5, <2>1, <2>2, <2>3, MakingStep DEF CreateToken, Registrations
<1> QED
  BY <1>2, <1>3, <1>4, <1>5

\* The company whose key it was deleted it.
LEMMA DeleteKeyInv ==
  ASSUME AccessInv, NEW r \in Requests, DeleteKey(r)
  PROVE  AccessInv'
<1>0. Shapes /\ Numbered /\ Authenticating(r) /\ Registering(r)
  BY DEF AccessInv
<1> DEFINE gone == Deleted(request[r])
           d == [db EXCEPT !.keys = @ \ gone]
           pc == IF gone = {} THEN "404" ELSE "done"
<1>1. /\ d.keys = db.keys \ gone /\ d.made = db.made /\ d.companies = db.companies
      /\ d.clients = db.clients /\ d.tokens = db.tokens /\ DOMAIN d = DOMAIN db
  BY <1>0 DEF Numbered
<1>2. request[r].pc = "run" /\ request[r].op = "deleteKey" /\ Commit(r, d, pc)
  BY DEF DeleteKey
<1>3. /\ gone \subseteq {k \in db.keys : k.company = request[r].company}
      /\ pc \in {"404", "done"} /\ (gone # {} => pc = "done")
  BY DEF Deleted
<1> HIDE DEF gone, d, pc
<1>4. /\ OnlyAdvances(r) /\ request'[r].pc \in {pc, "500"}
      /\ request'[r].company = request[r].company
  BY <1>0, <1>2, GotoAdvances DEF Commit
<1>5. db' = d /\ UNCHANGED <<now, up, listed, tenants, buckets, admitted>> /\ held' \subseteq Handed
  <2>1. db.made + 1 .. db.made = {}
    BY <1>0 DEF Numbered
  <2> QED
    BY <1>0, <1>1, <1>2, <2>1 DEF Commit, Numbered
<1>6. Numbered' /\ NoneRevived
  BY <1>0, <1>1, <1>5 DEF Numbered, NoneRevived, Handed, KeyRows, TokenRows, Ids
<1>7. Authenticating(r)' /\ Registering(r)'
  BY <1>0, <1>2, <1>3, <1>4 DEF Authenticating, Registering, OnlyAdvances, Registrations
<1>8. Keyed'
  <2>1. ASSUME NEW c \in db.companies, KeysOf(db, c) # {}
        PROVE  KeysOf(db, c)' # {} \/ Excuse(r, c)'
    <3>1. CASE gone = {} \/ c # request[r].company
      BY <1>1, <1>3, <1>5, <2>1, <3>1 DEF KeysOf
    <3>2. CASE gone # {} /\ c = request[r].company
      BY <1>2, <1>3, <1>4, <3>2 DEF Excuse, OnlyAdvances
    <3> QED
      BY <3>1, <3>2
  <2>2. \A c \in db.companies : ~Excuse(r, c)
    BY <1>2 DEF Excuse, Registrations
  <2> QED
    BY <1>1, <1>4, <1>5, <2>1, <2>2, KeyedKept
<1>9. tenants' \in [Servers -> SUBSET Companies]
  BY <1>0, <1>5 DEF Shapes
<1> QED
  BY <1>2, <1>3, <1>4, <1>5, <1>6, <1>7, <1>8, <1>9, Assemble DEF Registrations, InFlight

\* The INSERT makes the company, and its request the one to blame.
LEMMA CreateCompanyInv ==
  ASSUME AccessInv, NEW r \in Requests, CreateCompany(r)
  PROVE  AccessInv'
<1>0. Shapes /\ Numbered /\ Authenticating(r) /\ Registering(r)
  BY DEF AccessInv
<1>1. /\ request[r].pc = "checked" /\ request[r].op \in Registrations
      /\ request[r].target \in Companies
      /\ UNCHANGED <<now, held, up, listed, tenants, buckets, admitted>>
  BY <1>0 DEF CreateCompany, Registering, servers
<1>2. /\ OnlyAdvances(r) /\ request'[r].pc \in {"created", "500"}
      /\ request'[r].company = request[r].target
  BY <1>0, AdmitAdvances DEF CreateCompany
<1>3. /\ db'.companies = db.companies \cup {request[r].target} /\ db'.keys = db.keys
      /\ db'.clients = db.clients /\ db'.tokens = db.tokens /\ db'.made = db.made
      /\ DOMAIN db' = DOMAIN db
  BY <1>0 DEF CreateCompany, Numbered
<1>4. Numbered' /\ NoneRevived
  BY <1>0, <1>1, <1>3 DEF Numbered, NoneRevived, Handed, KeyRows, TokenRows, Ids
<1>5. Authenticating(r)' /\ Registering(r)'
  BY <1>0, <1>1, <1>2 DEF Authenticating, Registering, OnlyAdvances
<1>6. Keyed'
  <2>1. ASSUME NEW c, c = request[r].target PROVE Excuse(r, c)'
    BY <1>1, <1>2, <2>1 DEF Excuse, OnlyAdvances
  <2>2. ASSUME NEW c \in db.companies, c # request[r].target, KeysOf(db, c)' = {}
        PROVE  \E p \in Requests : Excuse(p, c)'
    <3>1. KeysOf(db, c) = {}
      BY <1>3, <2>2 DEF KeysOf
    <3>2. PICK p \in Requests : Excuse(p, c)
      BY <3>1 DEF AccessInv, Keyed
    <3>3. CASE p # r
      BY <1>2, <3>2, <3>3 DEF Excuse, OnlyAdvances
    <3>4. p # r
      BY <1>1, <2>2, <3>2 DEF Excuse, Registrations
    <3> QED
      BY <3>3, <3>4
  <2>3. \A c \in db'.companies : c = request[r].target \/ c \in db.companies
    BY <1>3
  <2>4. ASSUME NEW c \in db'.companies, KeysOf(db, c)' = {}
        PROVE  \E p \in Requests : Excuse(p, c)'
    <3>1. CASE c = request[r].target
      BY <2>1, <3>1
    <3>2. CASE c # request[r].target
      BY <2>2, <2>3, <2>4, <3>2
    <3> QED
      BY <3>1, <3>2
  <2> QED
    BY <2>4 DEF Keyed
<1>7. tenants' \in [Servers -> SUBSET Companies]
  BY <1>0, <1>1 DEF Shapes
<1> QED
  BY <1>1, <1>2, <1>4, <1>5, <1>6, <1>7, Assemble DEF InFlight

\* Every operation has a limit.
LEMMA TierHasLimit ==
  ASSUME NEW op
  PROVE  LIMITS[Tier(op)] \in Nat \ {0}
BY DEF Tier

\* What is new about a request that arrives.
LEMMA ArrivingFacts ==
  ASSUME AccessInv, NEW s \in Servers, NEW op \in Operations, NEW input \in Inputs(op)
  PROVE  LET q == Arriving(s, op, input[1][1], input[1][2], input[2]) IN
         /\ DOMAIN q = DOMAIN NoRequest /\ DOMAIN [q EXCEPT !.pc = "429"] = DOMAIN NoRequest
         /\ q.op = op /\ q.server = s /\ q.at = now /\ q.pc \in {"run", "cert?", "key?"}
         /\ op \in Registrations => q.target \in Companies
         /\ q.pc \in {"cert?", "key?"} =>
              /\ op \notin Public /\ q.cred \in Handed \cup {None}
              /\ q.dead => KeyRows(q.cred) = {} /\ Valid(q.cred) = {}
         /\ q.cert \in db.companies \/ q.unproven
         /\ q.pc = "key?" => q.cred # None /\ q.unproven
<1> DEFINE cert == input[1][1]
           cred == input[1][2]
           q == Arriving(s, op, cert, cred, input[2])
<1>1. /\ DOMAIN q = DOMAIN NoRequest /\ DOMAIN [q EXCEPT !.pc = "429"] = DOMAIN NoRequest
      /\ q.op = op /\ q.server = s /\ q.at = now /\ q.target = input[2]
      /\ q.cert = cert /\ q.cred = cred
      /\ q.pc = (IF op \in Public THEN "run" ELSE IF cert = None THEN "key?" ELSE "cert?")
      /\ q.dead = ~Live(cred) /\ q.unproven = (cert \notin db.companies)
  BY DEF Arriving, NoRequest
<1>2. op \in Registrations => input[2] \in Companies
  BY DEF Inputs, Registrations
<1>3. None \notin Handed /\ None \notin db.companies
  BY DatabasesAssumption DEF Handed, AccessInv, Numbered
<1>4. op \notin Public => cred \in Handed \cup {None} /\ (cert = None => cred # None)
  <2>1. Bearers \subseteq Handed
    BY DEF Bearers, AccessInv, Numbered
  <2>2. op \notin Public => input[1] \in Callers
    BY DEF Inputs, Public
  <2>3. input[1] \in Callers =>
          \/ cert = None /\ cred \in Bearers
          \/ cert \in Certified /\ cred \in Bearers \cup {None}
    BY DEF Callers
  <2>4. None \notin Certified
    BY DatabasesAssumption
  <2> QED
    BY <1>3, <2>1, <2>2, <2>3, <2>4
<1>5. ~Live(cred) => KeyRows(cred) = {} /\ Valid(cred) = {}
  BY DEF Live, Valid
<1> HIDE DEF q, cert, cred
<1>6. q.cert \in db.companies \/ q.unproven
  BY <1>1, Zenon
<1>7. q.dead => KeyRows(q.cred) = {} /\ Valid(q.cred) = {}
  BY <1>1, <1>5, Zenon
<1>8. q.pc \in {"run", "cert?", "key?"}
  BY <1>1
<1>9. q.pc = "key?" => q.cred # None /\ q.unproven
  <2>1. q.pc = "key?" => op \notin Public /\ cert = None
    BY <1>1
  <2> QED
    BY <1>1, <1>3, <1>4, <2>1, Zenon
<1>10. q.pc \in {"cert?", "key?"} => op \notin Public /\ q.cred \in Handed \cup {None}
  BY <1>1, <1>4
<1> QED
  BY <1>1, <1>2, <1>6, <1>7, <1>8, <1>9, <1>10 DEF q, cert, cred

\* A request that is let in finds room: whoever came in a window that reaches to now is
\* in the crowd.
LEMMA BurstHasRoom ==
  ASSUME AccessInv, NEW s \in Servers, NEW b, NEW t \in Nat, now \in t .. t + WINDOW_MS - 1
  PROVE  Admissions(s, b, t) \subseteq Crowd(s, b)
<1> SUFFICES ASSUME NEW q \in Admissions(s, b, t) PROVE q \in Crowd(s, b)
  OBVIOUS
<1>1. q \in admitted[s] /\ Bucket(request[q]) = b /\ request[q].at \in t .. t + WINDOW_MS - 1
  BY DEF Admissions
<1>2. now \in Nat
  BY DEF AccessInv, Shapes
<1>3. InWindow(request[q])
  BY <1>1, <1>2 DEF InWindow
<1> QED
  BY <1>1, <1>3 DEF Crowd, AccessInv, Remembered

\* What a limiter let in is finite, so that a burst within the crowd is no larger.
LEMMA BurstSizes ==
  ASSUME AccessInv, NEW s \in Servers, NEW b, NEW t
  PROVE  /\ IsFiniteSet(Admissions(s, b, t)) /\ IsFiniteSet(Crowd(s, b))
         /\ Cardinality(Admissions(s, b, t)) \in Nat /\ Cardinality(Crowd(s, b)) \in Nat
         /\ Admissions(s, b, t) \subseteq Crowd(s, b) =>
              Cardinality(Admissions(s, b, t)) <= Cardinality(Crowd(s, b))
<1>1. IsFiniteSet(admitted[s]) /\ Crowd(s, b) \subseteq admitted[s]
  BY DEF AccessInv, Remembered, Crowd
<1>2. IsFiniteSet(Admissions(s, b, t)) /\ IsFiniteSet(Crowd(s, b))
  BY <1>1, FS_Subset DEF Admissions
<1> QED
  BY <1>2, FS_Subset, FS_CardinalityType

\* A request arrives: if it is let in, every burst it joins was in the crowd counted.
LEMMA AccessArriveInv ==
  ASSUME AccessInv, NEW r \in Requests, NEW s \in Servers, NEW op \in Operations, Arrive(r, s, op)
  PROVE  AccessInv'
<1>0. Shapes /\ Numbered
  BY DEF AccessInv
<1>1. PICK input \in Inputs(op) :
        LET q == Arriving(s, op, input[1][1], input[1][2], input[2])
            b == Bucket(q)
            kept == {p \in buckets[s] : Bucket(request[p]) = b => InWindow(request[p])}
        IN IF Room(s, b)
           THEN /\ request' = [request EXCEPT ![r] = q]
                /\ buckets' = [buckets EXCEPT ![s] = kept \cup {r}]
                /\ admitted' = [admitted EXCEPT ![s] = @ \cup {r}]
           ELSE /\ request' = [request EXCEPT ![r] = [q EXCEPT !.pc = "429"]]
                /\ buckets' = [buckets EXCEPT ![s] = kept]
                /\ UNCHANGED admitted
  BY DEF Arrive
<1>2. /\ up[s] /\ request[r].pc = "new"
      /\ UNCHANGED <<now, db, held, up, listed, tenants>>
  BY DEF Arrive, servers
<1> DEFINE q == Arriving(s, op, input[1][1], input[1][2], input[2])
           b == Bucket(q)
           kept == {p \in buckets[s] : Bucket(request[p]) = b => InWindow(request[p])}
           q429 == [q EXCEPT !.pc = "429"]
<1>3. /\ DOMAIN q = DOMAIN NoRequest
      /\ q.op = op /\ q.server = s /\ q.at = now /\ q.pc \in {"run", "cert?", "key?"}
      /\ op \in Registrations => q.target \in Companies
      /\ q.pc \in {"cert?", "key?"} =>
           /\ op \notin Public /\ q.cred \in Handed \cup {None}
           /\ q.dead => KeyRows(q.cred) = {} /\ Valid(q.cred) = {}
      /\ q.cert \in db.companies \/ q.unproven
      /\ q.pc = "key?" => q.cred # None /\ q.unproven
  BY ArrivingFacts
<1>4. /\ DOMAIN q429 = DOMAIN NoRequest /\ q429.pc = "429" /\ q429.op = op
      /\ q429.server = s /\ q429.at = now /\ q429.target = q.target
  BY <1>3 DEF NoRequest
<1>5. b[1] = Tier(op)
  BY <1>3 DEF Bucket
<1>6. \/ /\ Room(s, b) /\ request' = [request EXCEPT ![r] = q]
         /\ buckets' = [buckets EXCEPT ![s] = kept \cup {r}]
         /\ admitted' = [admitted EXCEPT ![s] = @ \cup {r}]
      \/ /\ ~Room(s, b) /\ request' = [request EXCEPT ![r] = q429]
         /\ buckets' = [buckets EXCEPT ![s] = kept]
         /\ UNCHANGED admitted
  BY <1>1
<1>7. \A u \in Servers : r \notin admitted[u]
  BY <1>2 DEF AccessInv, Remembered
<1>8. \A u \in Servers : admitted[u] \subseteq Requests /\ buckets[u] \subseteq admitted[u]
  BY <1>0 DEF AccessInv, Shapes, Remembered
<1>9. kept \subseteq buckets[s] /\ now \in Nat
  BY <1>0 DEF Shapes
<1>10. \A p \in Requests \ {r} : request'[p] = request[p]
  BY <1>0, <1>6 DEF Shapes
<1>11. /\ DOMAIN request' = Requests /\ request'[r] \in {q, q429}
       /\ Room(s, b) => request'[r] = q
       /\ ~Room(s, b) => request'[r] = q429
  BY <1>0, <1>6 DEF Shapes
<1>12. \A p \in kept : Bucket(request[p]) = b => InWindow(request[p])
  OBVIOUS
<1>13. \A p \in buckets[s] : InWindow(request[p]) => p \in kept
  OBVIOUS
<1>14. \A u \in Servers \ {s} : admitted'[u] = admitted[u] /\ buckets'[u] = buckets[u]
  BY <1>0, <1>6 DEF Shapes
<1>15. /\ Room(s, b) => admitted'[s] = admitted[s] \cup {r} /\ buckets'[s] = kept \cup {r}
       /\ ~Room(s, b) => admitted'[s] = admitted[s] /\ buckets'[s] = kept
  BY <1>0, <1>6 DEF Shapes
<1>16. /\ buckets' \in [Servers -> SUBSET Requests]
       /\ admitted' \in [Servers -> SUBSET Requests]
  BY <1>0, <1>6, <1>8, <1>9 DEF Shapes
<1> HIDE DEF q, q429, b, kept
<1>17. Shapes'
  BY <1>0, <1>2, <1>3, <1>4, <1>9, <1>10, <1>11, <1>16 DEF Shapes
<1>18. Numbered'
  BY <1>0, <1>2 DEF Numbered, Handed, Ids
<1>19. ASSUME NEW u \in Servers PROVE Remembered(u)'
  <2>1. Remembered(u)
    BY DEF AccessInv
  <2>2. \A p \in admitted[u] : request'[p] = request[p]
    BY <1>7, <1>8, <1>10
  <2>3. CASE admitted'[u] = admitted[u]
    <3>1. \A p \in admitted[u] : InWindow(request[p]) => p \in buckets'[u]
      BY <1>7, <1>13, <1>14, <1>15, <2>1, <2>3 DEF Remembered
    <3>2. buckets'[u] \subseteq admitted'[u]
      BY <1>7, <1>8, <1>9, <1>14, <1>15, <2>3
    <3> QED
      BY <1>2, <2>1, <2>2, <2>3, <3>1, <3>2 DEF Remembered, InWindow
  <2>4. CASE u = s /\ Room(s, b)
    <3>1. IsFiniteSet(admitted'[s])
      <4>1. IsFiniteSet(admitted[s] \cup {r})
        BY <2>1, <2>4, FS_AddElement DEF Remembered
      <4> QED
        BY <1>15, <2>4, <4>1
    <3>2. buckets'[s] \subseteq admitted'[s] /\ listed'[s] \subseteq tenants'[s]
      BY <1>2, <1>8, <1>9, <1>15, <2>1, <2>4 DEF Remembered
    <3>3. \A p \in admitted[s] :
            /\ request'[p].pc # "new" /\ request'[p].server = s /\ request'[p].at <= now'
            /\ request'[p].op \in Operations
            /\ InWindow(request[p])' => p \in buckets'[s]
            /\ request'[p].op \in Registrations /\ request'[p].pc \in {"hydrated", "done"} =>
                 request'[p].company \in tenants'[s]
      BY <1>2, <1>13, <1>15, <2>1, <2>2, <2>4 DEF Remembered, InWindow
    <3>4. /\ request'[r].pc \in {"run", "cert?", "key?"} /\ request'[r].server = s
          /\ request'[r].at <= now' /\ request'[r].op \in Operations /\ r \in buckets'[s]
      BY <1>2, <1>3, <1>9, <1>11, <1>15, <2>4
    <3> QED
      BY <1>2, <1>15, <2>4, <3>1, <3>2, <3>3, <3>4 DEF Remembered
  <2> QED
    BY <1>14, <1>15, <2>3, <2>4
<1>20. ASSUME NEW u \in Servers PROVE WithinLimits(u)'
  <2> SUFFICES ASSUME NEW p \in admitted'[u], NEW t \in Nat
               PROVE  Cardinality(Admissions(u, Bucket(request[p]), t)') <= LIMITS[Tier(request'[p].op)]
    BY DEF WithinLimits
  <2> DEFINE a == Bucket(request'[p])
  <2>1. \A m \in admitted[u] : request'[m] = request[m] /\ m # r
    BY <1>7, <1>8, <1>10
  <2>2. Bucket(request[p])' = a /\ a[1] = Tier(request'[p].op)
    BY DEF Bucket
  <2>3. LIMITS[a[1]] \in Nat \ {0}
    BY <2>2, TierHasLimit
  <2>4. Admissions(u, Bucket(request[p]), t)' =
          {m \in admitted'[u] : /\ Bucket(request'[m]) = a
                                /\ request'[m].at \in t .. t + WINDOW_MS - 1}
    BY DEF Admissions, Bucket
  <2>5. \A m \in admitted[u] : Bucket(request'[m]) = Bucket(request[m])
    BY <2>1
  <2> HIDE DEF a
  <2>6. CASE admitted'[u] = admitted[u]
    <3>1. Admissions(u, Bucket(request[p]), t)' = Admissions(u, a, t)
      BY <2>1, <2>4, <2>5, <2>6 DEF Admissions
    <3>2. a = Bucket(request[p]) /\ request'[p] = request[p]
      BY <2>1, <2>5, <2>6 DEF a
    <3> QED
      BY <2>6, <3>1, <3>2 DEF AccessInv, WithinLimits
  <2>7. CASE u = s /\ Room(s, b)
    <3>1. Bucket(request'[r]) = b /\ request'[r].at = now
      BY <1>3, <1>11, <2>7 DEF b
    <3>2. CASE b = a /\ now \in t .. t + WINDOW_MS - 1
      <4>1. Admissions(u, Bucket(request[p]), t)' = Admissions(s, b, t) \cup {r}
        BY <1>15, <2>1, <2>4, <2>5, <2>7, <3>1, <3>2 DEF Admissions
      <4>2. Cardinality(Admissions(s, b, t)) <= Cardinality(Crowd(s, b))
        BY <3>2, BurstHasRoom, BurstSizes
      <4>3. Cardinality(Crowd(s, b)) < LIMITS[a[1]]
        BY <2>7, <3>2 DEF Room
      <4>4. r \notin Admissions(s, b, t)
        BY <2>1, <2>7 DEF Admissions
      <4>5. Cardinality(Admissions(s, b, t) \cup {r}) = Cardinality(Admissions(s, b, t)) + 1
        BY <4>4, BurstSizes, FS_AddElement
      <4>6. Cardinality(Admissions(s, b, t)) \in Nat /\ Cardinality(Crowd(s, b)) \in Nat
        BY BurstSizes
      <4> QED
        BY <2>2, <2>3, <4>1, <4>2, <4>3, <4>5, <4>6
    <3>3. CASE ~(b = a /\ now \in t .. t + WINDOW_MS - 1)
      <4>1. Admissions(u, Bucket(request[p]), t)' = Admissions(s, a, t)
        BY <1>15, <2>1, <2>4, <2>5, <2>7, <3>1, <3>3 DEF Admissions
      <4>2. CASE Admissions(s, a, t) # {}
        <5>1. PICK m \in admitted[s] : Bucket(request[m]) = a
          BY <4>2 DEF Admissions
        <5>2. Tier(request[m].op) = a[1]
          BY <5>1 DEF Bucket
        <5> QED
          BY <2>2, <4>1, <5>1, <5>2 DEF AccessInv, WithinLimits
      <4>3. CASE Admissions(s, a, t) = {}
        BY <2>2, <2>3, <4>1, <4>3, FS_EmptySet
      <4> QED
        BY <4>2, <4>3
    <3> QED
      BY <3>2, <3>3
  <2> QED
    BY <1>14, <1>15, <2>6, <2>7
<1>21. ASSUME NEW p \in Requests PROVE Served(p)' /\ Authenticating(p)' /\ Registering(p)'
  <2>1. \A cred : KeyRows(cred)' = KeyRows(cred) /\ Valid(cred)' = Valid(cred)
    BY <1>2 DEF KeyRows, Valid, TokenRows
  <2>2. Handed' = Handed
    BY <1>2 DEF Handed
  <2>3. CASE p = r
    BY <1>2, <1>3, <1>4, <1>11, <2>1, <2>2, <2>3 DEF Served, Authenticating, Registering
  <2>4. CASE p # r
    <3>1. request'[p] = request[p] /\ Served(p) /\ Authenticating(p) /\ Registering(p)
      BY <1>10, <2>4 DEF AccessInv
    <3> QED
      BY <1>2, <2>1, <2>2, <3>1 DEF Served, InFlight, Authenticating, Registering
  <2> QED
    BY <2>3, <2>4
<1>22. Keyed'
  <2>1. \A p \in Requests : \A c : Excuse(p, c) => Excuse(p, c)'
    BY <1>2, <1>10 DEF Excuse
  <2>2. \A c : KeysOf(db, c)' = KeysOf(db, c)
    BY <1>2 DEF KeysOf
  <2> QED
    BY <1>2, <2>1, <2>2 DEF AccessInv, Keyed
<1> QED
  BY <1>17, <1>18, <1>19, <1>20, <1>21, <1>22 DEF AccessInv

\* Time passes: windows and tokens only end.
LEMMA AccessTickInv ==
  ASSUME AccessInv, Tick
  PROVE  AccessInv'
<1>0. Shapes /\ Numbered
  BY DEF AccessInv
<1>1. /\ now' = now + 1 /\ now \in Nat
      /\ UNCHANGED <<db, held, up, listed, tenants, buckets, request, admitted>>
  BY <1>0 DEF Tick, servers, Shapes
<1>2. Shapes' /\ Numbered'
  BY <1>0, <1>1 DEF Shapes, Numbered, Handed, Ids
<1>3. ASSUME NEW s \in Servers PROVE Remembered(s)' /\ WithinLimits(s)'
  <2>1. Remembered(s) /\ WithinLimits(s)
    BY DEF AccessInv
  <2>2. \A r \in admitted[s] : request[r].at \in Nat
    BY <1>0 DEF Shapes
  <2>3. Remembered(s)'
    BY <1>1, <2>1, <2>2 DEF Remembered, InWindow
  <2>4. \A b, t : Admissions(s, b, t)' = Admissions(s, b, t)
    BY <1>1 DEF Admissions, Bucket
  <2>5. \A r : Bucket(request[r])' = Bucket(request[r])
    BY <1>1 DEF Bucket
  <2>6. WithinLimits(s)'
    BY <1>1, <2>1, <2>4, <2>5 DEF WithinLimits
  <2> QED
    BY <2>3, <2>6
<1>4. ASSUME NEW r \in Requests PROVE Served(r)' /\ Authenticating(r)' /\ Registering(r)'
  <2>1. \A cred : KeyRows(cred)' = KeyRows(cred)
    BY <1>1 DEF KeyRows
  <2>2. \A cred : Valid(cred)' \subseteq Valid(cred)
    BY <1>0, <1>1 DEF Valid, TokenRows, Numbered
  <2> QED
    BY <1>1, <2>1, <2>2 DEF AccessInv, Served, InFlight, Authenticating, Registering, Handed
<1>5. Keyed'
  BY <1>1 DEF AccessInv, Keyed, KeysOf, Excuse
<1> QED
  BY <1>2, <1>3, <1>4, <1>5 DEF AccessInv

\* Steps of a server process that answer no request.
LEMMA ServerStepInv ==
  ASSUME AccessInv, NEW s \in Servers, UNCHANGED <<now, db, held>>,
         DOMAIN up' = Servers, listed' \in [Servers -> SUBSET Companies],
         tenants' \in [Servers -> SUBSET Companies],
         buckets' \in [Servers -> SUBSET Requests], admitted' \in [Servers -> SUBSET Requests],
         DOMAIN request' = Requests,
         \A r \in Requests :
           \/ request'[r] = request[r]
           \/ InFlight(r) /\ request[r].server = s /\ request'[r] = [request[r] EXCEPT !.pc = "lost"],
         \A u \in Servers \ {s} :
           /\ listed'[u] = listed[u] /\ tenants'[u] = tenants[u] /\ up'[u] = up[u]
           /\ buckets'[u] = buckets[u] /\ admitted'[u] = admitted[u],
         \/ /\ admitted'[s] = {} /\ buckets'[s] = {} /\ listed'[s] = {} /\ tenants'[s] = {}
            /\ \A r \in Requests : ~(InFlight(r) /\ request[r].server = s)'
         \/ /\ up'[s] /\ tenants[s] \subseteq tenants'[s] /\ listed'[s] \subseteq tenants'[s]
            /\ admitted'[s] = admitted[s] /\ buckets'[s] \subseteq buckets[s]
            /\ \A r \in buckets[s] : InWindow(request[r]) => r \in buckets'[s]
            /\ request' = request
  PROVE  AccessInv'
<1>0. Shapes /\ Numbered
  BY DEF AccessInv
<1>1. \A r \in Requests :
        /\ DOMAIN request'[r] = DOMAIN NoRequest
        /\ request'[r].op = request[r].op /\ request'[r].server = request[r].server
        /\ request'[r].cert = request[r].cert /\ request'[r].unproven = request[r].unproven
        /\ request'[r].cred = request[r].cred /\ request'[r].target = request[r].target
        /\ request'[r].at = request[r].at /\ request'[r].dead = request[r].dead
        /\ request'[r].company = request[r].company
        /\ \/ request'[r].pc = request[r].pc
           \/ request[r].pc \notin {"new", "done", "500"} /\ request'[r].pc = "lost"
  BY <1>0 DEF Shapes, NoRequest, InFlight
<1>2. Shapes' /\ Numbered'
  BY <1>0, <1>1 DEF Shapes, Numbered, Handed, Ids
<1>3. ASSUME NEW u \in Servers PROVE Remembered(u)' /\ WithinLimits(u)'
  <2>1. Remembered(u) /\ WithinLimits(u) /\ admitted[u] \subseteq Requests
    BY <1>0 DEF AccessInv, Shapes
  <2>2. CASE admitted'[u] = {} /\ buckets'[u] = {} /\ listed'[u] = {} /\ tenants'[u] = {}
    BY <2>2, FS_EmptySet DEF Remembered, WithinLimits
  <2>3. CASE /\ admitted'[u] = admitted[u] /\ buckets'[u] \subseteq buckets[u]
             /\ \A r \in buckets[u] : InWindow(request[r]) => r \in buckets'[u]
             /\ listed'[u] \subseteq tenants'[u] /\ tenants[u] \subseteq tenants'[u]
             /\ up'[u] \/ (~up[u] /\ tenants'[u] = tenants[u])
    <3>1. \A r \in admitted[u] : /\ InWindow(request[r])' = InWindow(request[r])
                                 /\ Bucket(request[r])' = Bucket(request[r])
      BY <1>1, <2>1 DEF InWindow, Bucket
    <3>2. Remembered(u)'
      BY <1>1, <2>1, <2>3, <3>1 DEF Remembered
    <3>3. \A b, t : Admissions(u, b, t)' = Admissions(u, b, t)
      BY <1>1, <2>1, <2>3, <3>1 DEF Admissions
    <3>4. WithinLimits(u)'
      BY <1>1, <2>1, <2>3, <3>1, <3>3 DEF WithinLimits
    <3> QED
      BY <3>2, <3>4
  <2> QED
    BY <2>1, <2>2, <2>3 DEF Remembered
<1>4. ASSUME NEW r \in Requests PROVE Served(r)' /\ Authenticating(r)' /\ Registering(r)'
  <2>1. \A cred : KeyRows(cred)' = KeyRows(cred) /\ Valid(cred)' = Valid(cred)
    BY DEF KeyRows, Valid, TokenRows
  <2>2. Authenticating(r) /\ Registering(r)
    BY DEF AccessInv
  <2>3. Authenticating(r)'
    BY <1>1, <2>1, <2>2 DEF Authenticating, Handed
  <2>4. request'[r].pc = "hydrated" => request'[r].company \in tenants'[request'[r].server]
    BY <1>0, <1>1, <2>2 DEF Registering, InFlight, Shapes
  <2>5. Served(r)'
    BY <1>0, <1>1 DEF AccessInv, Served, InFlight, Shapes
  <2> QED
    BY <1>1, <2>2, <2>3, <2>4, <2>5 DEF Registering
<1>5. Keyed'
  <2>1. \A r \in Requests : \A c : Excuse(r, c) => Excuse(r, c)'
    BY <1>1 DEF Excuse
  <2>2. \A c : KeysOf(db, c)' = KeysOf(db, c)
    BY DEF KeysOf
  <2> QED
    BY <2>1, <2>2 DEF AccessInv, Keyed
<1> QED
  BY <1>2, <1>3, <1>4, <1>5 DEF AccessInv

\* Processes start and die, purge their timestamps and hydrate companies.
LEMMA ServersInv ==
  ASSUME AccessInv, NEW s \in Servers,
         Start(s) \/ Crash(s) \/ Purge(s) \/ \E c \in Companies : EnsureTenant(s, c)
  PROVE  AccessInv'
<1>0. Shapes /\ Numbered /\ Remembered(s)
  BY DEF AccessInv
<1> USE DEF servers
<1>1. CASE Start(s)
  BY <1>0, <1>1, ServerStepInv DEF Start, Shapes, Numbered, Remembered
<1>2. CASE Crash(s)
  <2>1. ASSUME NEW r \in Requests PROVE ~(InFlight(r) /\ request[r].server = s)'
    BY <1>0, <1>2, <2>1 DEF Crash, InFlight, Shapes, NoRequest
  <2> QED
    BY <1>0, <1>2, <2>1, ServerStepInv DEF Crash, Shapes
<1>3. CASE Purge(s)
  BY <1>0, <1>3, ServerStepInv DEF Purge, Shapes, Remembered
<1>4. ASSUME NEW c \in Companies, EnsureTenant(s, c) PROVE AccessInv'
  BY <1>0, <1>4, ServerStepInv DEF EnsureTenant, Shapes, Remembered
<1> QED
  BY <1>1, <1>2, <1>3, <1>4

\* Every step of registration, limiter and authentication keeps the invariant.
LEMMA AccessStepInv == AccessInv /\ [Next]_vars => AccessInv'
<1> SUFFICES ASSUME AccessInv, [Next]_vars PROVE AccessInv'
  OBVIOUS
<1>1. CASE Tick
  BY <1>1, AccessTickInv
<1>2. ASSUME NEW r \in Requests, RequestStep(r) PROVE AccessInv'
  BY <1>2, AuthenticationInv, ReadersInv, MakersInv, DeleteKeyInv, CreateCompanyInv DEF RequestStep
<1>3. ASSUME NEW r \in Requests, NEW s \in Servers, NEW op \in Operations, Arrive(r, s, op)
      PROVE  AccessInv'
  BY <1>3, AccessArriveInv
<1>4. ASSUME NEW s \in Servers,
             Start(s) \/ Crash(s) \/ Purge(s) \/ \E c \in Companies : EnsureTenant(s, c)
      PROVE  AccessInv'
  BY <1>4, ServersInv
<1>5. CASE UNCHANGED vars
  BY <1>5 DEF vars, servers, AccessInv, Shapes, Numbered, Handed, Ids, Remembered, InWindow,
              WithinLimits, Admissions, Bucket, Served, InFlight, Authenticating, KeyRows, Valid,
              TokenRows, Registering, Keyed, KeysOf, Excuse
<1> QED
  BY <1>1, <1>2, <1>3, <1>4, <1>5 DEF Next

\* The inductive invariant holds throughout: limiters remember the last window, dead
\* credentials stay dead, companies without a key keep their excuse.
THEOREM AccessInvariance == Spec => []AccessInv
BY AccessInitInv, AccessStepInv, PTL DEF Spec

\* However requests, purges and restarts follow each other.
THEOREM AdmissionsAreLimited == Spec => []AdmittedWithinLimit
<1>1. AccessInv => AdmittedWithinLimit
  <2> SUFFICES ASSUME AccessInv, NEW s \in Servers, NEW r \in admitted[s]
               PROVE  Cardinality(Admissions(s, Bucket(request[r]), request[r].at))
                        <= LIMITS[Bucket(request[r])[1]]
    BY DEF AdmittedWithinLimit, Admissions
  <2>1. r \in Requests /\ request[r].at \in Nat
    BY DEF AccessInv, Shapes
  <2>2. Bucket(request[r])[1] = Tier(request[r].op)
    BY DEF Bucket
  <2> QED
    BY <2>1, <2>2 DEF AccessInv, WithinLimits
<1> QED
  BY <1>1, AccessInvariance, PTL

\* A company without a key names a registration on its way or broken off, or a
\* deletion of its own.
THEOREM KeylessIsExplained == Spec => []KeylessOnlyAfterFailure
<1>1. AccessInv => KeylessOnlyAfterFailure
  BY DEF AccessInv, Keyed, Excuse, KeylessOnlyAfterFailure
<1> QED
  BY <1>1, AccessInvariance, PTL

\* Where a step can take its request.
LEMMA StepsOfARequest ==
  ASSUME AccessInv, NEW r \in Requests, RequestStep(r)
  PROVE  /\ OnlyAdvances(r)
         /\ \/ CheckCertificate(r) \/ CertificateFails(r) \/ CheckApiKey(r) \/ CheckToken(r)
            \/ Attest(r)
            \/ /\ request'[r].pc \notin {"run", "429", "no tenant"}
               /\ request'[r].pc = "401" => request[r].op \in Public
<1> USE DEF Public
<1>0. Shapes
  BY DEF AccessInv
<1>1. CASE CheckCertificate(r) \/ CertificateFails(r) \/ CheckApiKey(r) \/ CheckToken(r)
  <2>1. CASE CheckCertificate(r) \/ CertificateFails(r)
    BY <2>1, WithoutCertificate DEF AccessInv
  <2>2. CASE CheckApiKey(r) \/ CheckToken(r)
    BY <1>0, <2>2, GotoAdvances, AdmitAdvances DEF CheckApiKey, CheckToken, Admit
  <2> QED
    BY <1>1, <2>1, <2>2
<1>2. CASE Attest(r)
  BY <1>0, <1>2, GotoAdvances DEF Attest
<1>3. ASSUME NEW d, NEW pc \in {"404", "done"}, Commit(r, d, pc)
      PROVE  OnlyAdvances(r) /\ request'[r].pc \in {"404", "done", "500"}
  BY <1>0, <1>3, GotoAdvances DEF Commit
<1>4. CASE NewKey(r) \/ DeleteKey(r) \/ NewClient(r) \/ CreateToken(r) \/ CreateBootstrapKey(r)
  BY <1>3, <1>4 DEF NewKey, DeleteKey, NewClient, CreateToken, CreateBootstrapKey
<1>5. CASE CheckClient(r)
  <2>1. OnlyAdvances(r) /\ request'[r].pc \in {"checked", "401"}
    BY <1>0, <1>5, GotoAdvances, AdmitAdvances DEF CheckClient
  <2>2. request[r].op \in Public
    BY <1>5 DEF CheckClient
  <2> QED
    BY <2>1, <2>2
<1>6. CASE Recover(r) \/ GetCompany(r) \/ InitTenant(r) \/ Fail(r)
  <2>1. \E pc \in {"404", "409", "done", "checked", "hydrated", "500"} : Goto(r, pc)
    BY <1>6 DEF Recover, GetCompany, InitTenant, Fail
  <2> QED
    BY <1>0, <2>1, GotoAdvances
<1>7. CASE CreateCompany(r)
  BY <1>0, <1>7, AdmitAdvances DEF CreateCompany
<1> QED
  BY <1>1, <1>2, <1>4, <1>5, <1>6, <1>7 DEF RequestStep

\* Nobody is admitted with a key or token that was dead, unless by a certificate, or
\* refused with a live one; and a certificate is only passed over for a cause.
LEMMA AuthenticatedForCause ==
  ASSUME AccessInv, NEW r \in Requests,
         CheckCertificate(r) \/ CertificateFails(r) \/ CheckApiKey(r) \/ CheckToken(r)
  PROVE  /\ request'[r].pc = "run" =>
              \/ ~request[r].dead
              \/ request[r].pc = "cert?" /\ request'[r].company = request[r].cert
         /\ request'[r].pc = "401" => ~Live(request[r].cred) /\ request'[r].unproven
         /\ request'[r].pc \in {"run", "401", "key?", "token?"}
<1>0. /\ Shapes /\ Numbered /\ Authenticating(r)
      /\ request[r].pc \in {"cert?", "key?", "token?"}
  BY DEF AccessInv, CheckCertificate, CertificateFails, CheckApiKey, CheckToken
<1>1. CASE CheckCertificate(r) \/ CertificateFails(r)
  <2>1. /\ request[r].pc = "cert?" /\ request'[r].pc \in {"run", "401", "key?"}
        /\ request'[r].pc = "run" => request'[r].company = request[r].cert
        /\ request'[r].pc # "run" => request'[r].unproven
        /\ request'[r].pc = "401" => request[r].cred = None
    BY <1>0, <1>1, WithoutCertificate
  <2>2. None \notin Handed
    BY <1>0, DatabasesAssumption DEF Handed, Numbered
  <2>3. KeyRows(None) = {} /\ TokenRows(None) = {}
    BY <1>0, <2>2 DEF KeyRows, TokenRows, Numbered, Ids
  <2>4. ~Live(None)
    BY <2>3 DEF Live
  <2> QED
    BY <2>1, <2>4, Zenon
<1>2. CASE CheckApiKey(r)
  <2>0. request[r].cred # None
    BY <1>0, <1>2 DEF CheckApiKey, Authenticating
  <2>1. CASE \E k \in KeyRows(request[r].cred) : Admit(r, k.company)
    <3>1. request'[r].pc = "run"
      BY <1>0, <2>1, AdmitAdvances DEF Admit
    <3>2. KeyRows(request[r].cred) # {}
      BY <2>1
    <3> QED
      BY <1>0, <2>0, <3>1, <3>2, Zenon DEF Authenticating
  <2>2. CASE Goto(r, "token?")
    BY <1>0, <2>2, GotoAdvances
  <2> QED
    BY <1>2, <2>1, <2>2 DEF CheckApiKey
<1>3. CASE CheckToken(r)
  <2>0. request[r].cred # None /\ request[r].unproven
    BY <1>0, <1>3 DEF CheckToken, Authenticating
  <2>1. CASE \E t \in Valid(request[r].cred) : Admit(r, t.company)
    <3>1. request'[r].pc = "run"
      BY <1>0, <2>1, AdmitAdvances DEF Admit
    <3>2. Valid(request[r].cred) # {}
      BY <2>1
    <3> QED
      BY <1>0, <2>0, <3>1, <3>2, Zenon DEF Authenticating
  <2>2. CASE Valid(request[r].cred) = {} /\ Goto(r, "401")
    <3>1. request'[r].pc = "401" /\ request'[r].unproven = request[r].unproven
      BY <1>0, <2>2, GotoAdvances
    <3>2. KeyRows(request[r].cred) = {}
      BY <1>0, <1>3 DEF Authenticating, CheckToken
    <3>3. ~Live(request[r].cred)
      BY <2>2, <3>2 DEF Live, Valid
    <3> QED
      BY <2>0, <3>1, <3>3, Zenon
  <2> QED
    BY <1>3, <2>1, <2>2 DEF CheckToken
<1> QED
  BY <1>1, <1>2, <1>3

\* A server has the tenants it must know.
LEMMA KnownHaveTenants ==
  ASSUME AccessInv, NEW s \in Servers
  PROVE  KnownTo(s) \subseteq tenants[s]
BY DEF AccessInv, Remembered, KnownTo

\* A refusal by the limiter has the limit's worth of admitted requests before it.
LEMMA RefusedWithoutRoom ==
  ASSUME AccessInv, NEW r \in Requests, NEW s \in Servers, NEW op \in Operations, Arrive(r, s, op)
  PROVE  LET q == request'[r] IN
         /\ q.op = op /\ q.server = s /\ q.pc \in {"run", "cert?", "key?", "429"}
         /\ q.pc = "run" => op \in Public
         /\ q.pc = "429" =>
              Cardinality({p \in admitted[s] : Bucket(request[p]) = Bucket(q) /\ InWindow(request[p])})
                >= LIMITS[Tier(op)]
<1>1. PICK input \in Inputs(op) :
        LET q == Arriving(s, op, input[1][1], input[1][2], input[2])
        IN \/ Room(s, Bucket(q)) /\ request' = [request EXCEPT ![r] = q]
           \/ ~Room(s, Bucket(q)) /\ request' = [request EXCEPT ![r] = [q EXCEPT !.pc = "429"]]
  BY DEF Arrive
<1> DEFINE q == Arriving(s, op, input[1][1], input[1][2], input[2])
           q429 == [q EXCEPT !.pc = "429"]
<1>2. \/ Room(s, Bucket(q)) /\ request'[r] = q
      \/ ~Room(s, Bucket(q)) /\ request'[r] = q429
  BY <1>1 DEF AccessInv, Shapes
<1>3. /\ q.op = op /\ q.server = s /\ q.pc \in {"run", "cert?", "key?"}
      /\ q.pc = "run" => op \in Public
      /\ q429.op = op /\ q429.server = s /\ q429.pc = "429" /\ q429.cred = q.cred
  BY DEF Arriving
<1>4. Bucket(q429) = Bucket(q) /\ Bucket(q)[1] = Tier(op)
  BY <1>3 DEF Bucket
<1> HIDE DEF q, q429
<1>5. ASSUME ~Room(s, Bucket(q))
      PROVE  Cardinality({p \in admitted[s] : Bucket(request[p]) = Bucket(q) /\ InWindow(request[p])})
               >= LIMITS[Tier(op)]
  <2> DEFINE crowd == {p \in admitted[s] : Bucket(request[p]) = Bucket(q) /\ InWindow(request[p])}
  <2>1. Crowd(s, Bucket(q)) \subseteq crowd /\ crowd \subseteq admitted[s] /\ IsFiniteSet(admitted[s])
    BY DEF AccessInv, Remembered, Crowd
  <2>2. IsFiniteSet(crowd)
    BY <2>1, FS_Subset
  <2> HIDE DEF crowd
  <2>3. /\ Cardinality(Crowd(s, Bucket(q))) <= Cardinality(crowd) /\ Cardinality(crowd) \in Nat
        /\ Cardinality(Crowd(s, Bucket(q))) \in Nat
    BY <2>1, <2>2, FS_Subset, FS_CardinalityType
  <2>4. LIMITS[Tier(op)] \in Nat /\ ~(Cardinality(Crowd(s, Bucket(q))) < LIMITS[Tier(op)])
    BY <1>4, <1>5, TierHasLimit DEF Room
  <2>5. Cardinality(crowd) >= LIMITS[Tier(op)]
    BY <2>3, <2>4
  <2> QED
    BY <2>5 DEF crowd
<1> QED
  BY <1>2, <1>3, <1>4, <1>5

\* Whatever happens between the awaits, a request is admitted, refused with 401 or
\* 429, or misses its tenant only for a cause.
THEOREM AnswersHaveACause == Spec => AnsweredForCause
<1> DEFINE Caused(r) ==
             LET q == request'[r]
                 authenticated == q.op \notin Public
             IN /\ Becomes(r, "run") /\ authenticated =>
                     \/ ~q.dead
                     \/ request[r].pc = "cert?" /\ q.company = q.cert
                /\ Becomes(r, "429") =>
                     Cardinality({p \in admitted[q.server] :
                                    Bucket(request[p]) = Bucket(q) /\ InWindow(request[p])})
                       >= LIMITS[Tier(q.op)]
                /\ Becomes(r, "401") /\ authenticated => ~Live(q.cred) /\ q.unproven
                /\ Becomes(r, "no tenant") => q.company \notin KnownTo(q.server)
<1>1. AccessInv /\ [Next]_vars => [\A r \in Requests : Caused(r)]_vars
  <2> SUFFICES ASSUME AccessInv, Next, NEW r \in Requests PROVE Caused(r)
    OBVIOUS
  <2>1. CASE request'[r].pc = request[r].pc
    BY <2>1 DEF Becomes
  <2>2. CASE RequestStep(r)
    <3>1. OnlyAdvances(r)
      BY <2>2, StepsOfARequest
    <3>2. CASE \/ CheckCertificate(r) \/ CertificateFails(r)
               \/ CheckApiKey(r) \/ CheckToken(r)
      BY <3>1, <3>2, AuthenticatedForCause DEF Becomes, OnlyAdvances
    <3>3. CASE Attest(r)
      <4>1. /\ request'[r].pc \in {"done", "no tenant"}
            /\ request'[r].pc = "no tenant" => request[r].company \notin tenants[request[r].server]
            /\ request'[r].company = request[r].company /\ request[r].server \in Servers
        <5>1. Shapes /\ request[r].pc = "run"
          BY <3>3 DEF Attest, AccessInv
        <5>2. \/ Goto(r, "done")
              \/ request[r].company \notin tenants[request[r].server] /\ Goto(r, "no tenant")
          BY <3>3 DEF Attest
        <5>3. request[r].server \in Servers
          BY <5>1 DEF Shapes
        <5>4. Goto(r, "done") => request'[r].pc = "done"
          BY <5>1, GotoAdvances
        <5>5. Goto(r, "no tenant") => request'[r].pc = "no tenant"
          BY <5>1, GotoAdvances
        <5>6. request'[r].company = request[r].company
          BY <5>1, <5>2, GotoAdvances
        <5> QED
          BY <5>2, <5>3, <5>4, <5>5, <5>6
      <4> QED
        BY <3>1, <4>1, KnownHaveTenants DEF Becomes, OnlyAdvances
    <3>4. CASE /\ request'[r].pc \notin {"run", "429", "no tenant"}
               /\ request'[r].pc = "401" => request[r].op \in Public
      BY <3>1, <3>4 DEF Becomes, OnlyAdvances
    <3> QED
      BY <2>2, <3>2, <3>3, <3>4, StepsOfARequest
  <2>3. ASSUME NEW s \in Servers, NEW op \in Operations, Arrive(r, s, op) PROVE Caused(r)
    BY <2>3, RefusedWithoutRoom DEF Becomes
  <2>4. ASSUME NEW p \in Requests, p # r, RequestStep(p) PROVE request'[r] = request[r]
    BY <2>4, StepsOfARequest DEF OnlyAdvances
  <2>5. ASSUME NEW p \in Requests, p # r, NEW s \in Servers, NEW op \in Operations, Arrive(p, s, op)
        PROVE  request'[r] = request[r]
    BY <2>5 DEF Arrive, AccessInv, Shapes
  <2>6. ASSUME NEW s \in Servers, Crash(s)
        PROVE  request'[r].pc \in {request[r].pc, "lost"}
    BY <2>6 DEF Crash, AccessInv, Shapes, NoRequest
  <2>7. CASE request'[r].pc = "lost"
    BY <2>7 DEF Becomes
  <2>8. ASSUME NEW s \in Servers, Start(s) \/ Purge(s) \/ \E c \in Companies : EnsureTenant(s, c)
        PROVE  request' = request
    BY <2>8 DEF Start, Purge, EnsureTenant
  <2>9. Tick => request' = request
    BY DEF Tick
  <2> HIDE DEF Caused
  <2> QED
    BY <2>1, <2>2, <2>3, <2>4, <2>5, <2>6, <2>7, <2>8, <2>9 DEF Next
<1> QED
  BY <1>1, AccessInvariance, PTL DEF Spec, AnsweredForCause
=============================================================================

--------------------------- MODULE McpMiddlewareProofs ---------------------------
(***************************************************************************)
(* First, that a revocation reaches every call that arrives after it, for  *)
(* any tokens, tools, keys and number of calls.  The content of the tokens *)
(* and of the verdicts does not matter there: Decide is looked into only   *)
(* for where it sends the call.                                            *)
(*                                                                         *)
(* Then, who gets through at all.  The checks of PassportVerifier make a   *)
(* sequence of failures, of which the first is the verdict: it is OK only  *)
(* if none failed, so each check may be relied on, and the scope the last  *)
(* one matched covers the tool.  VInv carries the verdict from the         *)
(* verification to the handler.                                            *)
(***************************************************************************)
EXTENDS McpMiddleware, FiniteSetTheorems, WellFoundedInduction, TLAPS

\* The shapes the steps rely on.
Shapes ==
  /\ options \in Options
  /\ stage \in [Calls -> Stages] /\ failed \in [Calls -> BOOLEAN]
  /\ DOMAIN token = Calls /\ DOMAIN list = Calls /\ DOMAIN revokedBefore = Calls

\* What was revoked when a call arrived still is, so it is on the list the call was given.
Remembered(c) ==
  /\ revokedBefore[c] \subseteq revoked
  /\ stage[c] = "checking" => revokedBefore[c] \subseteq list[c]

\* A failed call is over, and one that ran with the list configured had passed it.
Settled(c) ==
  /\ failed[c] => stage[c] = "denied"
  /\ stage[c] = "ran" /\ options.fetchesList => token[c].jti \notin revokedBefore[c]

IInv == Shapes /\ \A c \in Calls : Remembered(c) /\ Settled(c)

-----------------------------------------------------------------------------

\* Every variable starts in its shape, and no call has begun.
LEMMA InitIInv == Init => IInv
  <1> SUFFICES ASSUME Init PROVE IInv
    OBVIOUS
  <1>1. Shapes
    BY DEF Init, Shapes, Options, Stages
  <1>2. \A c \in Calls : Remembered(c) /\ Settled(c)
    BY DEF Init, Remembered, Settled
  <1> QED
    BY <1>1, <1>2 DEF IInv

\* Vane revokes more, never less; the clock and the other organisation touch no call.
LEMMA VaneIInv ==
  ASSUME IInv, \/ Tick \/ RotateOrigin \/ \E t \in Tokens : Revoke(t)
  PROVE  IInv'
  <1>1. /\ UNCHANGED <<options, stage, token, list, revokedBefore, failed>>
        /\ revoked \subseteq revoked'
    BY DEF Tick, RotateOrigin, Revoke, request
  <1>2. Shapes'
    BY <1>1 DEF IInv, Shapes
  <1>3. ASSUME NEW c \in Calls PROVE (Remembered(c) /\ Settled(c))'
    BY <1>1 DEF IInv, Remembered, Settled
  <1> QED
    BY <1>2, <1>3 DEF IInv

\* Verification sends a call to the revocation list or ends it; it never runs a call for
\* which there is a list.
LEMMA DecideSends ==
  ASSUME NEW c, NEW t, NEW asked, NEW code, options \in Options, Decide(c, t, asked, code)
  PROVE  \E s \in {"fetching", "ran", "denied"} :
           Goto(c, s) /\ (s = "ran" => ~options.fetchesList)
  BY DEF Decide, Goto, Options

\* A call that arrives remembers what is revoked now.
LEMMA ArriveIInv ==
  ASSUME IInv, NEW c \in Calls, NEW t \in Tokens, NEW asked \in Tools, Arrive(c, t, asked)
  PROVE  IInv'
  <1>1. /\ UNCHANGED <<options, revoked, list, failed>>
        /\ stage[c] = "idle"
        /\ token' = [token EXCEPT ![c] = t]
        /\ revokedBefore' = [revokedBefore EXCEPT ![c] = revoked]
    BY DEF Arrive
  <1>2. \E s \in {"resolving", "fetching", "ran", "denied"} :
          Goto(c, s) /\ (s = "ran" => ~options.fetchesList)
    BY DecideSends DEF Arrive, Deny, Goto, IInv, Shapes
  <1>3. PICK s \in {"resolving", "fetching", "ran", "denied"} :
          stage' = [stage EXCEPT ![c] = s] /\ (s = "ran" => ~options.fetchesList)
    BY <1>2 DEF Goto
  <1>4. Shapes'
    BY <1>1, <1>3 DEF IInv, Shapes, Stages
  <1>5. ~failed[c]
    BY <1>1 DEF IInv, Settled
  <1>6. ASSUME NEW d \in Calls PROVE (Remembered(d) /\ Settled(d))'
    <2>1. CASE d = c
      BY <1>1, <1>3, <1>5, <2>1 DEF IInv, Shapes, Remembered, Settled
    <2>2. CASE d # c
      BY <1>1, <1>3, <2>2 DEF IInv, Shapes, Remembered, Settled
    <2> QED
      BY <2>1, <2>2
  <1> QED
    BY <1>4, <1>6 DEF IInv

\* The steps of a call: only CheckList runs a call that has a list, and only a step that
\* denies the call marks it as failed.
LEMMA CallIInv ==
  ASSUME IInv, NEW c \in Calls, CallStep(c)
  PROVE  IInv'
  <1>1. UNCHANGED <<options, revoked, token, revokedBefore>>
    BY DEF CallStep, Resolve, ResolveFails, ReadList, CheckList, ListFails, request
  <1>2. \E s \in {"fetching", "checking", "ran", "denied"} :
          /\ stage' = [stage EXCEPT ![c] = s]
          /\ \/ list' = list
             \/ list' = [list EXCEPT ![c] = revoked]
          /\ \/ failed' = failed /\ ~failed[c]
             \/ failed' = [failed EXCEPT ![c] = TRUE] /\ s = "denied"
          /\ s = "checking" => list' = [list EXCEPT ![c] = revoked]
          /\ s = "ran" => (~options.fetchesList
                             \/ (stage[c] = "checking" /\ token[c].jti \notin list[c]))
    <2>1. CASE Resolve(c)
      <3>1. stage[c] = "resolving" /\ list' = list /\ failed' = failed /\ ~failed[c]
        BY <2>1 DEF Resolve, IInv, Settled
      <3>2. PICK s \in {"fetching", "ran", "denied"} :
              Goto(c, s) /\ (s = "ran" => ~options.fetchesList)
        BY <2>1, DecideSends DEF Resolve, IInv, Shapes
      <3>3. s # "checking" /\ stage' = [stage EXCEPT ![c] = s]
        BY <3>2 DEF Goto
      <3> QED
        BY <3>1, <3>2, <3>3
    <2>2. CASE ResolveFails(c)
      BY <2>2 DEF ResolveFails, Deny, Goto
    <2>3. CASE ReadList(c)
      BY <2>3 DEF ReadList, Goto, IInv, Settled
    <2>4. CASE CheckList(c)
      <3>1. stage[c] = "checking" /\ list' = list /\ failed' = failed /\ ~failed[c]
        BY <2>4 DEF CheckList, IInv, Settled
      <3>2. \/ stage' = [stage EXCEPT ![c] = "denied"]
            \/ stage' = [stage EXCEPT ![c] = "ran"] /\ token[c].jti \notin list[c]
        BY <2>4 DEF CheckList, Deny, Goto
      <3> QED
        BY <3>1, <3>2
    <2>5. CASE ListFails(c)
      BY <2>5 DEF ListFails, Deny, Goto
    <2> QED
      BY <2>1, <2>2, <2>3, <2>4, <2>5 DEF CallStep
  <1>3. Shapes'
    <2>1. stage' \in [Calls -> Stages]
      BY <1>2 DEF IInv, Shapes, Stages
    <2>2. failed' \in [Calls -> BOOLEAN]
      <3>1. failed \in [Calls -> BOOLEAN]
        BY DEF IInv, Shapes
      <3>2. failed' = failed \/ failed' = [failed EXCEPT ![c] = TRUE]
        BY <1>2
      <3> QED
        BY <3>1, <3>2, Zenon
    <2> QED
      BY <1>1, <1>2, <2>1, <2>2 DEF IInv, Shapes
  <1>4. ASSUME NEW d \in Calls PROVE (Remembered(d) /\ Settled(d))'
    <2>1. CASE d = c
      BY <1>1, <1>2, <2>1 DEF IInv, Shapes, Remembered, Settled
    <2>2. CASE d # c
      BY <1>1, <1>2, <2>2 DEF IInv, Shapes, Remembered, Settled
    <2> QED
      BY <2>1, <2>2
  <1> QED
    BY <1>3, <1>4 DEF IInv

\* IInv is inductive.
LEMMA NextIInv == IInv /\ [Next]_vars => IInv'
  <1> SUFFICES ASSUME IInv, [Next]_vars PROVE IInv'
    OBVIOUS
  <1>1. CASE Tick \/ RotateOrigin \/ \E t \in Tokens : Revoke(t)
    BY <1>1, VaneIInv
  <1>2. CASE \E c \in Calls, t \in Tokens, asked \in Tools : Arrive(c, t, asked)
    BY <1>2, ArriveIInv
  <1>3. CASE \E c \in Calls : CallStep(c)
    BY <1>3, CallIInv
  <1>4. CASE UNCHANGED vars
    BY <1>4 DEF vars, request, IInv, Shapes, Remembered, Settled
  <1> QED
    BY <1>1, <1>2, <1>3, <1>4 DEF Next

\* With a revocation list configured, no token revoked before its call arrived runs the
\* handler, and neither does a call for which a callback failed.
THEOREM RevokedNeverRuns == Spec => []NoRunAfterRevocation
  <1>1. IInv => NoRunAfterRevocation
    BY DEF IInv, Settled, NoRunAfterRevocation
  <1> QED
    BY <1>1, InitIInv, NextIInv, PTL DEF Spec

-----------------------------------------------------------------------------
(* The verifiers: the first failure, and the scope that is found *)

\* The codes a check can fail with: OK is none of them.
Codes == {"MALFORMED_TOKEN", "ALGORITHM_MISMATCH", "WRONG_TOKEN_TYPE", "SIGNATURE_INVALID",
          "TOKEN_EXPIRED", "TOKEN_NOT_YET_VALID", "AUDIENCE_MISMATCH", "INVALID_ISSUER",
          "INVALID_SUBJECT", "MALFORMED_CLAIMS", "UNSUPPORTED_VERSION", "CHAIN_INCOHERENT",
          "MISSING_NONCE", "NONCE_MISMATCH", "MISSING_AUDIENCE", "REQUEST_MISMATCH",
          "TARGET_MISMATCH", "SCOPE_DENIED", "PASSPORT_REVOKED"}

\* Sequences of one error code and of none.
LEMMA OneText ==
  ASSUME NEW T, NEW x \in T
  PROVE  <<x>> \in Seq(T) /\ Len(<<x>>) = 1 /\ <<x>> # <<>> /\ <<>> \in Seq(T)
  OBVIOUS

\* The error codes of the package.
LEMMA TheCodes ==
  /\ "MALFORMED_TOKEN" \in Codes /\ "ALGORITHM_MISMATCH" \in Codes /\ "WRONG_TOKEN_TYPE" \in Codes
  /\ "SIGNATURE_INVALID" \in Codes /\ "TOKEN_EXPIRED" \in Codes /\ "TOKEN_NOT_YET_VALID" \in Codes
  /\ "AUDIENCE_MISMATCH" \in Codes /\ "INVALID_ISSUER" \in Codes /\ "INVALID_SUBJECT" \in Codes
  /\ "MALFORMED_CLAIMS" \in Codes /\ "UNSUPPORTED_VERSION" \in Codes /\ "CHAIN_INCOHERENT" \in Codes
  /\ "MISSING_NONCE" \in Codes /\ "NONCE_MISMATCH" \in Codes /\ "MISSING_AUDIENCE" \in Codes
  /\ "REQUEST_MISMATCH" \in Codes /\ "TARGET_MISMATCH" \in Codes /\ "SCOPE_DENIED" \in Codes
  /\ "PASSPORT_REVOKED" \in Codes
  BY DEF Codes

\* The verdict is OK exactly if no check failed.
LEMMA NoFailureIsOK ==
  ASSUME NEW s \in Seq(Codes)
  PROVE  FirstFailure(s) = "OK" <=> s = <<>>
  BY DEF FirstFailure, Codes

\* The first failure of two runs of checks is that of the first one which has any.
LEMMA FirstOfTwo ==
  ASSUME NEW s \in Seq(Codes), NEW t \in Seq(Codes)
  PROVE  /\ s \o t \in Seq(Codes)
         /\ s \o t = <<>> <=> s = <<>> /\ t = <<>>
         /\ FirstFailure(s \o t) = IF s = <<>> THEN FirstFailure(t) ELSE FirstFailure(s)
  <1>1. s \o t \in Seq(Codes) /\ (s \o t = <<>> <=> s = <<>> /\ t = <<>>)
    OBVIOUS
  <1>2. CASE s = <<>>
    <2>1. s \o t = t
      BY <1>2
    <2> QED
      BY <1>1, <1>2, <2>1
  <1>3. CASE s # <<>>
    <2>1. s \o t # <<>> /\ Head(s \o t) = Head(s)
      BY <1>3
    <2> QED
      BY <1>1, <1>3, <2>1 DEF FirstFailure
  <1> QED
    BY <1>2, <1>3

\* What the common checks ask of a token.
Genuinely(t, typ, key, at) ==
  t.flaws = {} /\ t.typ = typ /\ t.signer = key /\ NotExpired(t, at) /\ HasBegun(t, at)

\* The checks common to all verifiers pass exactly for a genuine token.
LEMMA PreludePasses ==
  ASSUME NEW t, t.flaws \subseteq Flaws, NEW typ, NEW key, NEW at
  PROVE  /\ Prelude(t, typ, key, at) \in Seq(Codes)
         /\ Prelude(t, typ, key, at) = <<>> <=> Genuinely(t, typ, key, at)
  <1> DEFINE c1 == Check("MALFORMED_TOKEN", Free(t, "header") /\ Free(t, "payload"))
             c2 == Check("ALGORITHM_MISMATCH", Free(t, "alg"))
             c3 == Check("WRONG_TOKEN_TYPE", t.typ = typ)
             c4 == Check("SIGNATURE_INVALID", t.signer = key)
             c5 == Check("TOKEN_EXPIRED", NotExpired(t, at))
             c6 == Check("TOKEN_NOT_YET_VALID", HasBegun(t, at))
             c7 == Check("AUDIENCE_MISMATCH", Free(t, "audience"))
             c8 == Check("INVALID_ISSUER", Free(t, "issuer"))
             c9 == Check("INVALID_SUBJECT", Free(t, "subject"))
             c10 == Check("MALFORMED_CLAIMS", Free(t, "claims"))
             c11 == Check("UNSUPPORTED_VERSION", Free(t, "version"))
             c12 == Check("MALFORMED_CLAIMS", Free(t, "shape"))
             c13 == Check("CHAIN_INCOHERENT", Free(t, "chain"))
             p6 == c1 \o c2 \o c3 \o c4 \o c5 \o c6
             p9 == p6 \o c7 \o c8 \o c9
  <1>1. Prelude(t, typ, key, at) = p9 \o c10 \o c11 \o c12 \o c13
    BY DEF Prelude
  <1>2. /\ Free(t, "header") \in BOOLEAN /\ Free(t, "payload") \in BOOLEAN /\ Free(t, "alg") \in BOOLEAN
        /\ Free(t, "audience") \in BOOLEAN /\ Free(t, "issuer") \in BOOLEAN /\ Free(t, "subject") \in BOOLEAN
        /\ Free(t, "claims") \in BOOLEAN /\ Free(t, "version") \in BOOLEAN /\ Free(t, "shape") \in BOOLEAN
        /\ Free(t, "chain") \in BOOLEAN /\ NotExpired(t, at) \in BOOLEAN /\ HasBegun(t, at) \in BOOLEAN
    BY DEF Free, NotExpired, HasBegun
  <1>3. /\ c1 \in Seq(Codes) /\ (c1 = <<>> <=> Free(t, "header") /\ Free(t, "payload"))
        /\ c2 \in Seq(Codes) /\ (c2 = <<>> <=> Free(t, "alg"))
        /\ c3 \in Seq(Codes) /\ (c3 = <<>> <=> t.typ = typ)
        /\ c4 \in Seq(Codes) /\ (c4 = <<>> <=> t.signer = key)
        /\ c5 \in Seq(Codes) /\ (c5 = <<>> <=> NotExpired(t, at))
        /\ c6 \in Seq(Codes) /\ (c6 = <<>> <=> HasBegun(t, at))
    <2>1. c1 \in Seq(Codes) /\ (c1 = <<>> <=> Free(t, "header") /\ Free(t, "payload"))
      BY <1>2, OneText, TheCodes, Zenon DEF Check
    <2>2. c2 \in Seq(Codes) /\ (c2 = <<>> <=> Free(t, "alg"))
      BY <1>2, OneText, TheCodes, Zenon DEF Check
    <2>3. c3 \in Seq(Codes) /\ (c3 = <<>> <=> t.typ = typ)
      BY <1>2, OneText, TheCodes, Zenon DEF Check
    <2>4. c4 \in Seq(Codes) /\ (c4 = <<>> <=> t.signer = key)
      BY <1>2, OneText, TheCodes, Zenon DEF Check
    <2>5. c5 \in Seq(Codes) /\ (c5 = <<>> <=> NotExpired(t, at))
      BY <1>2, OneText, TheCodes, Zenon DEF Check
    <2>6. c6 \in Seq(Codes) /\ (c6 = <<>> <=> HasBegun(t, at))
      BY <1>2, OneText, TheCodes, Zenon DEF Check
    <2> QED
      BY <2>1, <2>2, <2>3, <2>4, <2>5, <2>6
  <1>4. /\ c7 \in Seq(Codes) /\ (c7 = <<>> <=> Free(t, "audience"))
        /\ c8 \in Seq(Codes) /\ (c8 = <<>> <=> Free(t, "issuer"))
        /\ c9 \in Seq(Codes) /\ (c9 = <<>> <=> Free(t, "subject"))
    <2>1. c7 \in Seq(Codes) /\ (c7 = <<>> <=> Free(t, "audience"))
      BY <1>2, OneText, TheCodes, Zenon DEF Check
    <2>2. c8 \in Seq(Codes) /\ (c8 = <<>> <=> Free(t, "issuer"))
      BY <1>2, OneText, TheCodes, Zenon DEF Check
    <2>3. c9 \in Seq(Codes) /\ (c9 = <<>> <=> Free(t, "subject"))
      BY <1>2, OneText, TheCodes, Zenon DEF Check
    <2> QED
      BY <2>1, <2>2, <2>3
  <1>5. /\ c10 \in Seq(Codes) /\ (c10 = <<>> <=> Free(t, "claims"))
        /\ c11 \in Seq(Codes) /\ (c11 = <<>> <=> Free(t, "version"))
        /\ c12 \in Seq(Codes) /\ (c12 = <<>> <=> Free(t, "shape"))
        /\ c13 \in Seq(Codes) /\ (c13 = <<>> <=> Free(t, "chain"))
    <2>1. c10 \in Seq(Codes) /\ (c10 = <<>> <=> Free(t, "claims"))
      BY <1>2, OneText, TheCodes, Zenon DEF Check
    <2>2. c11 \in Seq(Codes) /\ (c11 = <<>> <=> Free(t, "version"))
      BY <1>2, OneText, TheCodes, Zenon DEF Check
    <2>3. c12 \in Seq(Codes) /\ (c12 = <<>> <=> Free(t, "shape"))
      BY <1>2, OneText, TheCodes, Zenon DEF Check
    <2>4. c13 \in Seq(Codes) /\ (c13 = <<>> <=> Free(t, "chain"))
      BY <1>2, OneText, TheCodes, Zenon DEF Check
    <2> QED
      BY <2>1, <2>2, <2>3, <2>4
  <1> HIDE DEF c1, c2, c3, c4, c5, c6, c7, c8, c9, c10, c11, c12, c13
  <1>6. p6 \in Seq(Codes) /\ (p6 = <<>> <=> c1 = <<>> /\ c2 = <<>> /\ c3 = <<>>
                                          /\ c4 = <<>> /\ c5 = <<>> /\ c6 = <<>>)
    BY <1>3, FirstOfTwo
  <1> HIDE DEF p6
  <1>7. p9 \in Seq(Codes) /\ (p9 = <<>> <=> p6 = <<>> /\ c7 = <<>> /\ c8 = <<>> /\ c9 = <<>>)
    BY <1>4, <1>6, FirstOfTwo
  <1> HIDE DEF p9
  <1> DEFINE p == p9 \o c10 \o c11 \o c12 \o c13
  <1>8. p \in Seq(Codes) /\ (p = <<>> <=> p9 = <<>> /\ c10 = <<>> /\ c11 = <<>>
                                        /\ c12 = <<>> /\ c13 = <<>>)
    BY <1>5, <1>7, FirstOfTwo
  <1>9. t.flaws = {} <=>
          /\ Free(t, "header") /\ Free(t, "payload") /\ Free(t, "alg") /\ Free(t, "audience")
          /\ Free(t, "issuer") /\ Free(t, "subject") /\ Free(t, "claims") /\ Free(t, "version")
          /\ Free(t, "shape") /\ Free(t, "chain")
    BY DEF Free, Flaws
  <1> HIDE DEF p
  <1>10. Prelude(t, typ, key, at) = p
    BY <1>1 DEF p
  <1> QED
    BY <1>3, <1>4, <1>5, <1>6, <1>7, <1>8, <1>9, <1>10 DEF Genuinely

\* A set of positions has a least one, and Min is that.
LEMMA MinIsThere ==
  ASSUME NEW S \in SUBSET Nat, S # {}
  PROVE  Min(S) \in S
  <1> DEFINE below(n) == 0 .. n
             T == {below(n) : n \in S}
  <1>1. T # {} /\ T \subseteq FiniteSubsetsOf(Nat)
    <2>1. ASSUME NEW n \in S PROVE below(n) \in SUBSET Nat /\ IsFiniteSet(below(n))
      BY FS_Interval
    <2> QED
      BY <2>1 DEF FiniteSubsetsOf
  <1>2. PICK x \in T : \A y \in T : ~ (<<y, x>> \in StrictSubsetOrdering(Nat))
    <2> HIDE DEF T
    <2> QED
      BY <1>1, WFMin, FS_StrictSubsetOrderingWellFounded
  <1>3. PICK n \in S : x = below(n)
    OBVIOUS
  <1>4. ASSUME NEW m \in S PROVE n <= m
    <2> SUFFICES ASSUME m < n PROVE FALSE
      OBVIOUS
    <2>1. below(m) \subseteq below(n) /\ below(m) # below(n)
      <3>1. n \in below(n) /\ n \notin below(m)
        OBVIOUS
      <3> QED
        BY <3>1
    <2>2. below(m) \in SUBSET Nat /\ below(n) \in SUBSET Nat
      OBVIOUS
    <2>3. <<below(m), x>> \in StrictSubsetOrdering(Nat)
      BY <2>1, <2>2, <1>3 DEF StrictSubsetOrdering
    <2> QED
      BY <1>2, <2>3
  <1>5. \E k \in S : \A m \in S : k =< m
    BY <1>4
  <1> QED
    BY <1>5 DEF Min

\* MatchScope returns a granted scope that covers the tool, if there is one.
LEMMA MatchFinds ==
  ASSUME NEW granted \in Seq(Seq(STRING)), NoValue \notin ToSet(granted), NEW requested
  PROVE  /\ MatchScope(granted, requested) # NoValue
              <=> \E g \in ToSet(granted) : Covers(g, requested)
         /\ MatchScope(granted, requested) # NoValue =>
              /\ MatchScope(granted, requested) \in ToSet(granted)
              /\ Covers(MatchScope(granted, requested), requested)
  <1> DEFINE covering == {i \in DOMAIN granted : Covers(granted[i], requested)}
  <1>1. MatchScope(granted, requested) = IF covering = {} THEN NoValue ELSE granted[Min(covering)]
    BY DEF MatchScope
  <1>2. covering # {} <=> \E g \in ToSet(granted) : Covers(g, requested)
    BY DEF ToSet
  <1>3. ASSUME covering # {}
        PROVE  /\ granted[Min(covering)] \in ToSet(granted)
               /\ Covers(granted[Min(covering)], requested)
    <2>1. covering \in SUBSET Nat
      OBVIOUS
    <2>2. Min(covering) \in covering
      <3> HIDE DEF covering
      <3> QED
        BY <1>3, <2>1, MinIsThere
    <2> QED
      BY <2>2 DEF ToSet
  <1> HIDE DEF covering
  <1> QED
    BY <1>1, <1>2, <1>3

\* (The provers do not know that a literal is a STRING.)
Texts == STRING \cup {"tool", "*"}

\* A scope covers a tool exactly if it is one of those that are meant to.
LEMMA CoversIsGranting ==
  ASSUME NEW g \in Seq(Texts), NEW asked \in Seq(Texts)
  PROVE  Covers(g, <<"tool">> \o asked) <=> g \in Granting(asked)
  <1> DEFINE r == <<"tool">> \o asked
  <1>1. r \in Seq(Texts) /\ Len(r) = Len(asked) + 1
    <2>1. <<"tool">> \in Seq(Texts) /\ Len(<<"tool">>) = 1
      BY OneText DEF Texts
    <2> QED
      BY <2>1
  <1> HIDE DEF r
  <1>2. ASSUME Len(g) > 1, Last(g) = "*", Len(r) >= Len(g), IsPrefix(Front(g), r)
        PROVE  \E i \in 1 .. Len(asked) : g = SubSeq(r, 1, i) \o <<"*">>
    <2> DEFINE i == Len(g) - 1
    <2>1. i \in 1 .. Len(asked)
      BY <1>1, <1>2
    <2>2. Front(g) = SubSeq(g, 1, i) /\ Front(g) \in Seq(Texts) /\ Len(Front(g)) = i
      BY <2>1 DEF Front
    <2>3. SubSeq(r, 1, i) = SubSeq(g, 1, i)
      <3>1. SubSeq(Front(g), 1, i) = SubSeq(r, 1, i)
        BY <1>2, <2>2 DEF IsPrefix
      <3>2. SubSeq(Front(g), 1, i) = Front(g)
        BY <2>1, <2>2
      <3> QED
        BY <3>1, <3>2, <2>2
    <2>4. g = SubSeq(g, 1, i) \o <<"*">>
      BY <1>2, <2>1 DEF Last
    <2> QED
      BY <2>1, <2>3, <2>4
  <1>3. ASSUME NEW i \in 1 .. Len(asked), g = SubSeq(r, 1, i) \o <<"*">>
        PROVE  Len(g) > 1 /\ Last(g) = "*" /\ Len(r) >= Len(g) /\ IsPrefix(Front(g), r)
    <2>1. SubSeq(r, 1, i) \in Seq(Texts) /\ Len(SubSeq(r, 1, i)) = i
      BY <1>1
    <2>2. Len(g) = i + 1 /\ g[i + 1] = "*"
      BY <1>3, <2>1
    <2>3. Front(g) = SubSeq(r, 1, i)
      BY <1>1, <1>3, <2>1, <2>2 DEF Front
    <2>4. SubSeq(SubSeq(r, 1, i), 1, i) = SubSeq(r, 1, i)
      BY <2>1
    <2> QED
      BY <1>1, <2>1, <2>2, <2>3, <2>4 DEF Last, IsPrefix
  <1> QED
    BY <1>2, <1>3 DEF Covers, Granting, r

\* Scopes of tokens are sequences of texts, and of a sound token there is one.
LEMMA TokenShape ==
  ASSUME NEW t \in Tokens
  PROVE  /\ t.flaws \subseteq Flaws /\ t.scopes \in Seq(Seq(Texts)) /\ NoValue \notin ToSet(t.scopes)
         /\ t.scopes \in Seq(Seq(STRING))
         /\ t.flaws = {} => t.scopes # <<>>
  <1>1. \A w \in Seq(STRING) : w \in Seq(Texts)
    BY DEF Texts
  <1>2. ASSUME NEW T, NEW U, \A w \in T : w \in U, NEW v \in Seq(T) PROVE v \in Seq(U)
    BY <1>2
  <1>3. t.scopes \in Seq(Seq(STRING)) => t.scopes \in Seq(Seq(Texts))
    <2> DEFINE T == Seq(STRING)
               U == Seq(Texts)
    <2> HIDE DEF T, U
    <2>1. \A w \in T : w \in U
      BY <1>1 DEF T, U
    <2>2. \A v \in Seq(T) : v \in Seq(U)
      BY <1>2, <2>1
    <2> QED
      BY <2>2 DEF T, U
  <1> QED
    BY <1>3, TokensAssumption

\* The scope check passes for the scopes that are meant to allow the tool.
LEMMA ScopePasses ==
  ASSUME NEW t \in Tokens, t.flaws = {}, NEW asked \in Tools
  PROVE  /\ ScopeGranted(t, asked) # NoValue
              <=> (asked # NoValue => ToSet(t.scopes) \cap Granting(asked) # {})
         /\ asked # NoValue /\ ScopeGranted(t, asked) # NoValue =>
              ScopeGranted(t, asked) \in Granting(asked)
  <1>1. CASE asked = NoValue
    <2>1. t.scopes[1] \in ToSet(t.scopes)
      BY TokenShape DEF ToSet
    <2> QED
      BY <1>1, <2>1, TokenShape DEF ScopeGranted
  <1>2. CASE asked # NoValue
    <2> DEFINE r == <<"tool">> \o asked
    <2>1. asked \in Seq(Texts)
      BY <1>2, TokensAssumption DEF Texts
    <2>2. ASSUME NEW g \in ToSet(t.scopes) PROVE Covers(g, r) <=> g \in Granting(asked)
      <3>1. g \in Seq(Texts)
        BY TokenShape DEF ToSet
      <3> QED
        BY <2>1, <3>1, CoversIsGranting
    <2>3. ScopeGranted(t, asked) = MatchScope(t.scopes, r)
      BY <1>2 DEF ScopeGranted
    <2> HIDE DEF r
    <2>4. /\ MatchScope(t.scopes, r) # NoValue <=> \E g \in ToSet(t.scopes) : Covers(g, r)
          /\ MatchScope(t.scopes, r) # NoValue =>
               MatchScope(t.scopes, r) \in ToSet(t.scopes) /\ Covers(MatchScope(t.scopes, r), r)
      BY TokenShape, MatchFinds
    <2> QED
      BY <1>2, <2>2, <2>3, <2>4
  <1> QED
    BY <1>1, <1>2

\* The checks of scope and target pass exactly if they match.
LEMMA ScopeCheck ==
  ASSUME NEW t, NEW asked
  PROVE  /\ Scope(t, asked) \in Seq(Codes)
         /\ Scope(t, asked) = <<>> <=> ScopeGranted(t, asked) # NoValue
  BY OneText, TheCodes, Zenon DEF Scope, Check

LEMMA TargetCheck ==
  ASSUME NEW t, NEW org
  PROVE  /\ Target(t, org) \in Seq(Codes)
         /\ Target(t, org) = <<>> <=> Matches(org, t.target)
  BY OneText, TheCodes, Zenon DEF Target, Check

\* The two verifiers of the package pass a token if it is genuine and its scope passes.
LEMMA MiddlewarePasses ==
  ASSUME NEW t \in Tokens, NEW asked \in Tools, NEW key, NEW at
  PROVE  MiddlewareVerdict(t, key, asked, at) = "OK" <=>
           Genuinely(t, "CAP+JWT", key, at) /\ ScopeGranted(t, asked) # NoValue
  <1> DEFINE p == Prelude(t, "CAP+JWT", key, at)
             s == Scope(t, asked)
  <1>1. p \in Seq(Codes) /\ (p = <<>> <=> Genuinely(t, "CAP+JWT", key, at))
    BY TokenShape, PreludePasses
  <1>2. s \in Seq(Codes) /\ (s = <<>> <=> ScopeGranted(t, asked) # NoValue)
    BY ScopeCheck
  <1>3. MiddlewareVerdict(t, key, asked, at) = FirstFailure(p \o s)
    BY DEF MiddlewareVerdict
  <1> HIDE DEF p, s
  <1> QED
    BY <1>1, <1>2, <1>3, FirstOfTwo, NoFailureIsOK

\* The cross-organisation verifier passes genuine tokens for this target and tool.
LEMMA CrossOrgPasses ==
  ASSUME NEW t \in Tokens, NEW asked \in Tools, NEW key, NEW org, NEW at
  PROVE  CrossOrgVerdict(t, key, asked, org, at) = "OK" <=>
           /\ Genuinely(t, "XORG+JWT", key, at) /\ Matches(org, t.target)
           /\ ScopeGranted(t, asked) # NoValue
  <1> DEFINE p == Prelude(t, "XORG+JWT", key, at)
             g == Target(t, org)
             s == Scope(t, asked)
  <1>1. p \in Seq(Codes) /\ (p = <<>> <=> Genuinely(t, "XORG+JWT", key, at))
    BY TokenShape, PreludePasses
  <1>2. s \in Seq(Codes) /\ (s = <<>> <=> ScopeGranted(t, asked) # NoValue)
    BY ScopeCheck
  <1>3. g \in Seq(Codes) /\ (g = <<>> <=> Matches(org, t.target))
    BY TargetCheck
  <1>4. CrossOrgVerdict(t, key, asked, org, at) = FirstFailure(p \o g \o s)
    BY DEF CrossOrgVerdict
  <1> HIDE DEF p, g, s
  <1>5. p \o g \in Seq(Codes) /\ (p \o g = <<>> <=> p = <<>> /\ g = <<>>)
    BY <1>1, <1>3, FirstOfTwo
  <1>6. FirstFailure(p \o g \o s) = "OK" <=> p \o g \o s = <<>>
    BY <1>2, <1>5, FirstOfTwo, NoFailureIsOK
  <1>7. p \o g \o s = <<>> <=> p \o g = <<>> /\ s = <<>>
    BY <1>2, <1>5, FirstOfTwo
  <1> QED
    BY <1>1, <1>2, <1>3, <1>4, <1>5, <1>6, <1>7

\* What the verifiers accept is what entitles.
LEMMA PassportEntitles ==
  ASSUME NEW t \in Tokens, NEW asked \in Tools, NEW at
  PROVE  MiddlewareVerdict(t, VanePublicKey, asked, at) = "OK" <=>
           t.typ = "CAP+JWT" /\ Entitled(t, asked, at)
  <1>1. t.flaws = {} => (ScopeGranted(t, asked) # NoValue <=>
                           (asked # NoValue => ToSet(t.scopes) \cap Granting(asked) # {}))
    BY ScopePasses
  <1>2. Genuinely(t, "CAP+JWT", VanePublicKey, at) <=>
          /\ t.typ = "CAP+JWT" /\ t.flaws = {} /\ Signed(t)
          /\ t.exp # NoValue /\ at <= t.exp + Leeway
          /\ t.nbf # NoValue => t.nbf <= at + Leeway
    BY DEF Genuinely, Signed, NotExpired, HasBegun
  <1> QED
    BY <1>1, <1>2, MiddlewarePasses DEF Entitled, Genuinely

\* It accepts only what entitles, and all of it while one key is published.
LEMMA CrossOrgEntitles ==
  ASSUME NEW t \in Tokens, NEW asked \in Tools, NEW at, NEW k \in 1 .. published,
         options.resolves
  PROVE  /\ CrossOrgVerdict(t, OriginKeys[k], asked, options.targetOrg, at) = "OK" =>
              t.typ = "XORG+JWT" /\ Entitled(t, asked, at)
         /\ published = 1 /\ t.typ = "XORG+JWT" /\ Entitled(t, asked, at) =>
              CrossOrgVerdict(t, OriginKeys[k], asked, options.targetOrg, at) = "OK"
  <1>1. t.flaws = {} => (ScopeGranted(t, asked) # NoValue <=>
                           (asked # NoValue => ToSet(t.scopes) \cap Granting(asked) # {}))
    BY ScopePasses
  <1>2. Genuinely(t, "XORG+JWT", OriginKeys[k], at) <=>
          /\ t.typ = "XORG+JWT" /\ t.flaws = {} /\ t.signer = OriginKeys[k]
          /\ t.exp # NoValue /\ at <= t.exp + Leeway
          /\ t.nbf # NoValue => t.nbf <= at + Leeway
    BY DEF Genuinely, NotExpired, HasBegun
  <1>3. Matches(options.targetOrg, t.target) <=> options.targetOrg \in {NoValue, t.target}
    BY DEF Matches
  <1>4. t.typ = "XORG+JWT" =>
          (Signed(t) <=> options.targetOrg \in {NoValue, t.target}
                           /\ \E j \in 1 .. published : t.signer = OriginKeys[j])
    BY DEF Signed
  <1>5. published = 1 =>
          ((\E j \in 1 .. published : t.signer = OriginKeys[j]) => t.signer = OriginKeys[k])
    OBVIOUS
  <1> DEFINE code == CrossOrgVerdict(t, OriginKeys[k], asked, options.targetOrg, at)
  <1>6. code = "OK" <=> /\ Genuinely(t, "XORG+JWT", OriginKeys[k], at)
                        /\ Matches(options.targetOrg, t.target)
                        /\ ScopeGranted(t, asked) # NoValue
    BY CrossOrgPasses
  <1> HIDE DEF code
  <1>7. code = "OK" => t.typ = "XORG+JWT" /\ Entitled(t, asked, at)
    BY <1>1, <1>2, <1>3, <1>4, <1>6 DEF Entitled
  <1>8. published = 1 /\ t.typ = "XORG+JWT" /\ Entitled(t, asked, at) => code = "OK"
    BY <1>1, <1>2, <1>3, <1>4, <1>5, <1>6 DEF Entitled
  <1> QED
    BY <1>7, <1>8 DEF code

\* For a passport that is not bound to a request, and without demands on the sender,
\* Vane's verifier and the reference one decide as the package does.
LEMMA OneVerdict ==
  ASSUME NEW t \in Tokens, t.request = NoValue, NEW asked \in Tools, NEW key, NEW jtis, NEW at,
         NEW opts, opts = [nonce |-> NoValue, audience |-> NoValue, request |-> NoValue, tool |-> asked]
  PROVE  LET code == MiddlewareVerdict(t, key, asked, at)
             kept == IF code = "OK" /\ t.jti \in jtis THEN "PASSPORT_REVOKED" ELSE code
         IN  /\ ServerVerdict(t, key, opts, at) = code
             /\ ReferenceVerdict(t, key, opts, jtis, at) = kept
  <1> DEFINE p == Prelude(t, "CAP+JWT", key, at)
             q == Constraints(t, opts)
             s == Scope(t, asked)
             x == Check("PASSPORT_REVOKED", t.jti \notin jtis)
  <1>1. p \in Seq(Codes)
    BY TokenShape, PreludePasses
  <1>2. s \in Seq(Codes)
    BY ScopeCheck
  <1>3. q = <<>>
    <2>1. /\ Given(opts.nonce, t.nonce) /\ Matches(opts.nonce, t.nonce)
          /\ Given(opts.audience, t.recipient) /\ Matches(opts.audience, t.recipient)
          /\ Bound(t.request, opts.request)
      BY DEF Given, Matches, Bound
    <2> QED
      BY <2>1 DEF Constraints, Check
  <1>4. x \in Seq(Codes) /\ x = IF t.jti \in jtis THEN <<"PASSPORT_REVOKED">> ELSE <<>>
    BY OneText, TheCodes, Zenon DEF Check
  <1>5. FirstFailure(x) = IF t.jti \in jtis THEN "PASSPORT_REVOKED" ELSE "OK"
    <2>1. FirstFailure(<<"PASSPORT_REVOKED">>) = "PASSPORT_REVOKED" /\ FirstFailure(<<>>) = "OK"
      BY DEF FirstFailure
    <2> HIDE DEF x
    <2> QED
      BY <1>4, <2>1
  <1>6. /\ ServerVerdict(t, key, opts, at) = FirstFailure(p \o q \o s)
        /\ ReferenceVerdict(t, key, opts, jtis, at) = FirstFailure(p \o q \o s \o x)
        /\ MiddlewareVerdict(t, key, asked, at) = FirstFailure(p \o s)
    BY DEF ServerVerdict, ReferenceVerdict, MiddlewareVerdict
  <1> HIDE DEF p, q, s, x
  <1>7. p \o q = p
    BY <1>1, <1>3
  <1>8. p \o s \in Seq(Codes)
    BY <1>1, <1>2
  <1>9. FirstFailure((p \o s) \o x) =
          IF p \o s = <<>> THEN FirstFailure(x) ELSE FirstFailure(p \o s)
    BY <1>4, <1>8, FirstOfTwo
  <1>10. FirstFailure(p \o s) = "OK" <=> p \o s = <<>>
    BY <1>8, NoFailureIsOK
  <1> QED
    BY <1>5, <1>6, <1>7, <1>9, <1>10

-----------------------------------------------------------------------------
(* Which calls run, and what they are told *)

Typed ==
  /\ options \in Options
  /\ now \in Nat /\ published \in Nat /\ published >= 1
  /\ stage \in [Calls -> Stages] /\ failed \in [Calls -> BOOLEAN]
  /\ token \in [Calls -> Tokens]
  /\ DOMAIN tool = Calls /\ \A c \in Calls : stage[c] # "idle" => tool[c] \in Tools
  /\ DOMAIN verdict = Calls /\ DOMAIN list = Calls /\ DOMAIN receipt = Calls
  /\ checkedAt \in [Calls -> Nat]

\* A call gets past verification with a token that entitles it, then as now.
Verified(c) ==
  /\ stage[c] = "resolving" => token[c].typ = "XORG+JWT" /\ options.resolves
  /\ stage[c] \in {"fetching", "checking"} => options.fetchesList
  /\ stage[c] \in {"fetching", "checking", "ran"} =>
       /\ verdict[c] = "OK" /\ checkedAt[c] <= now
       /\ Entitled(token[c], tool[c], checkedAt[c])
       /\ tool[c] # NoValue => receipt[c] \in Granting(tool[c])

\* The list is empty until it is fetched, and has only what is revoked.
Listed(c) ==
  /\ list[c] \subseteq revoked
  /\ stage[c] \in {"idle", "resolving", "fetching"} => list[c] = {}
  /\ stage[c] = "ran" => token[c].jti \notin list[c]

\* The verdict on a passport that is refused is the verifier's, or the list's.
Refused(c) ==
  stage[c] = "denied" /\ ~failed[c] /\ token[c].typ # "XORG+JWT" =>
    LET code == MiddlewareVerdict(token[c], VanePublicKey, tool[c], checkedAt[c])
    IN  \/ code # "OK" /\ verdict[c] = code
        \/ code = "OK" /\ verdict[c] = "PASSPORT_REVOKED" /\ token[c].jti \in list[c]

Judged(c) == Verified(c) /\ Listed(c) /\ Refused(c)

VInv == Typed /\ \A c \in Calls : Judged(c)

\* At first no call was made.
LEMMA InitVInv == Init => VInv
  <1> SUFFICES ASSUME Init PROVE VInv
    OBVIOUS
  <1>1. AnyToken \in Tokens
    BY ConfigurationAssumption DEF AnyToken
  <1>2. Typed
    BY <1>1 DEF Init, Typed, Stages
  <1>3. ASSUME NEW c \in Calls PROVE Judged(c)
    BY <1>3 DEF Init, Judged, Verified, Listed, Refused
  <1> QED
    BY <1>2, <1>3 DEF VInv

\* What entitled once still does.
LEMMA EntitledLater ==
  ASSUME NEW c \in Calls, NEW t, NEW asked, NEW at, options' = options,
         published \in Nat, published' \in Nat, published <= published',
         token'[c] = t, tool'[c] = asked, checkedAt'[c] = at, Entitled(t, asked, at)
  PROVE  Entitled(token[c], tool[c], checkedAt[c])'
  <1>1. Signed(t) => Signed(token[c])'
    <2> SUFFICES ASSUME Signed(t) PROVE Signed(token[c])'
      OBVIOUS
    <2>1. \A k \in 1 .. published : k \in 1 .. published'
      OBVIOUS
    <2> QED
      BY <2>1 DEF Signed
  <1> QED
    BY <1>1 DEF Entitled

\* Nothing that happens elsewhere changes what is known of a call.
LEMMA Elsewhere ==
  ASSUME Typed, NEW d \in Calls, Judged(d), options' = options, now' \in Nat, now <= now',
         published' \in Nat, published <= published', revoked \subseteq revoked',
         stage'[d] = stage[d], token'[d] = token[d], tool'[d] = tool[d], failed'[d] = failed[d],
         verdict'[d] = verdict[d], list'[d] = list[d], receipt'[d] = receipt[d],
         checkedAt'[d] = checkedAt[d]
  PROVE  Judged(d)'
  <1>1. Listed(d)' /\ Refused(d)'
    BY DEF Judged, Listed, Refused
  <1>2. Entitled(token[d], tool[d], checkedAt[d]) => Entitled(token[d], tool[d], checkedAt[d])'
    BY EntitledLater DEF Typed
  <1>3. stage[d] \in {"fetching", "checking", "ran"} => checkedAt[d] <= now'
    <2> SUFFICES ASSUME stage[d] \in {"fetching", "checking", "ran"} PROVE checkedAt[d] <= now'
      OBVIOUS
    <2>1. checkedAt[d] <= now /\ now <= now'
      BY DEF Judged, Verified
    <2> QED
      BY <2>1 DEF Typed
  <1>4. Verified(d)'
    BY <1>2, <1>3 DEF Judged, Verified
  <1> QED
    BY <1>1, <1>4 DEF Judged

\* Time, revocations and rotations of the origin's key judge no call.
LEMMA VaneVInv ==
  ASSUME VInv, \/ Tick \/ RotateOrigin \/ \E t \in Tokens : Revoke(t)
  PROVE  VInv'
  <1>1. /\ UNCHANGED <<options, stage, token, tool, verdict, receipt, checkedAt, list, failed>>
        /\ now' \in Nat /\ now <= now' /\ published' \in Nat /\ published <= published'
        /\ revoked \subseteq revoked'
    BY DEF Tick, RotateOrigin, Revoke, request, answer, VInv, Typed
  <1>2. Typed'
    BY <1>1 DEF VInv, Typed
  <1>3. ASSUME NEW d \in Calls PROVE Judged(d)'
    BY <1>1, <1>3, Elsewhere DEF VInv
  <1> QED
    BY <1>2, <1>3 DEF VInv

\* What a decision makes of a call, and of no other.
LEMMA DecideSets ==
  ASSUME Typed, NEW c \in Calls, NEW t, NEW asked, NEW code, Decide(c, t, asked, code)
  PROVE  /\ stage' = [stage EXCEPT ![c] = IF code # "OK" THEN "denied"
                                          ELSE IF options.fetchesList THEN "fetching" ELSE "ran"]
         /\ verdict' = [verdict EXCEPT ![c] = code]
         /\ checkedAt' = [checkedAt EXCEPT ![c] = now]
         /\ receipt' = IF code = "OK" THEN [receipt EXCEPT ![c] = ScopeGranted(t, asked)]
                                      ELSE receipt
  BY DEF Decide, Goto

\* A decision judges its call, and keeps the types.
LEMMA DecideJudges ==
  ASSUME Typed, NEW c \in Calls, NEW t \in Tokens, NEW asked \in Tools, NEW code,
         Decide(c, t, asked, code), options' = options, published' = published, now' = now,
         token'[c] = t, tool'[c] = asked, list'[c] = {},
         code = "OK" =>
           /\ Entitled(t, asked, now)
           /\ asked # NoValue => ScopeGranted(t, asked) \in Granting(asked),
         code # "OK" /\ t.typ # "XORG+JWT" =>
           code = MiddlewareVerdict(t, VanePublicKey, asked, now)
  PROVE  Judged(c)'
  <1>1. /\ verdict'[c] = code /\ checkedAt'[c] = now /\ now <= now'
        /\ stage'[c] = IF code # "OK" THEN "denied"
                       ELSE IF options.fetchesList THEN "fetching" ELSE "ran"
    BY DecideSets DEF Typed
  <1>2. CASE code = "OK"
    <2>1. receipt'[c] = ScopeGranted(t, asked)
      BY <1>2, DecideSets DEF Typed
    <2>2. Entitled(token[c], tool[c], checkedAt[c])'
      BY <1>1, <1>2, EntitledLater DEF Typed
    <2>3. Verified(c)'
      BY <1>1, <1>2, <2>1, <2>2 DEF Verified
    <2>4. Listed(c)' /\ Refused(c)'
      BY <1>1, <1>2 DEF Listed, Refused
    <2> QED
      BY <2>3, <2>4 DEF Judged
  <1>3. CASE code # "OK"
    <2>1. stage'[c] = "denied"
      BY <1>1, <1>3
    <2> QED
      BY <1>1, <1>3, <2>1 DEF Judged, Verified, Listed, Refused
  <1> QED
    BY <1>2, <1>3

LEMMA DecideKeepsTyped ==
  ASSUME Typed, NEW c \in Calls, NEW t, NEW asked, NEW code, Decide(c, t, asked, code),
         options' = options, published' = published, now' = now, failed' = failed, list' = list,
         token' \in [Calls -> Tokens], DOMAIN tool' = Calls,
         \A d \in Calls : d = c \/ stage[d] # "idle" => tool'[d] \in Tools
  PROVE  Typed'
  <1>1. /\ stage' \in [Calls -> Stages] /\ \A d \in Calls : d # c => stage'[d] = stage[d]
        /\ DOMAIN verdict' = Calls /\ DOMAIN receipt' = Calls /\ checkedAt' \in [Calls -> Nat]
    BY DecideSets DEF Typed, Stages
  <1> QED
    BY <1>1 DEF Typed

\* A call with a passport is decided when it arrives, one with a credential of
\* another organisation waits for its key.
LEMMA ArriveVInv ==
  ASSUME VInv, NEW c \in Calls, NEW t \in Tokens, NEW asked \in Tools, Arrive(c, t, asked)
  PROVE  VInv'
  <1>1. /\ UNCHANGED <<options, now, revoked, published, list, failed>>
        /\ stage[c] = "idle"
        /\ token' = [token EXCEPT ![c] = t] /\ tool' = [tool EXCEPT ![c] = asked]
    BY DEF Arrive
  <1>2. Typed /\ list[c] = {}
    BY <1>1 DEF VInv, Judged, Listed
  <1>3. /\ token' \in [Calls -> Tokens] /\ token'[c] = t /\ tool'[c] = asked /\ list'[c] = {}
        /\ DOMAIN tool' = Calls
        /\ \A d \in Calls : d # c => token'[d] = token[d] /\ tool'[d] = tool[d]
        /\ \A d \in Calls : d = c \/ stage[d] # "idle" => tool'[d] \in Tools
    BY <1>1, <1>2 DEF Typed
  <1>4. CASE "header" \notin t.flaws /\ t.typ = "XORG+JWT"
    <2>1. /\ checkedAt' = checkedAt /\ receipt' = receipt
          /\ DOMAIN verdict' = Calls
          /\ \A d \in Calls : d # c => verdict'[d] = verdict[d]
          /\ \/ stage' = [stage EXCEPT ![c] = "denied"]
             \/ stage' = [stage EXCEPT ![c] = "resolving"] /\ options.resolves
      BY <1>1, <1>2, <1>4 DEF Arrive, Deny, Goto, answer, Typed
    <2>2. Typed'
      BY <1>1, <1>2, <1>3, <2>1 DEF Typed, Stages
    <2>3. Judged(c)'
      <3>1. stage'[c] = "denied" \/ (stage'[c] = "resolving" /\ options'.resolves)
        BY <1>1, <1>2, <2>1 DEF Typed
      <3> QED
        BY <1>3, <1>4, <3>1 DEF Judged, Verified, Listed, Refused
    <2>4. ASSUME NEW d \in Calls, d # c PROVE Judged(d)'
      <3>1. stage'[d] = stage[d]
        BY <1>2, <2>1, <2>4 DEF Typed
      <3>2. Judged(d)
        BY DEF VInv
      <3> QED
        BY <1>1, <1>2, <1>3, <2>1, <2>4, <3>1, <3>2, Elsewhere DEF Typed
    <2> QED
      BY <2>2, <2>3, <2>4 DEF VInv
  <1>5. CASE ~ ("header" \notin t.flaws /\ t.typ = "XORG+JWT")
    <2> DEFINE code == MiddlewareVerdict(t, VanePublicKey, asked, now)
    <2>1. Decide(c, t, asked, code)
      BY <1>5 DEF Arrive
    <2>2. code = "OK" => /\ Entitled(t, asked, now)
                         /\ asked # NoValue => ScopeGranted(t, asked) \in Granting(asked)
      BY PassportEntitles, MiddlewarePasses, ScopePasses DEF Genuinely
    <2>3. code # "OK" /\ t.typ # "XORG+JWT" => code = MiddlewareVerdict(t, VanePublicKey, asked, now)
      OBVIOUS
    <2> HIDE DEF code
    <2>4. Typed'
      BY <1>1, <1>2, <1>3, <2>1, DecideKeepsTyped
    <2>5. Judged(c)'
      BY <1>1, <1>2, <1>3, <2>1, <2>2, <2>3, DecideJudges
    <2>6. ASSUME NEW d \in Calls, d # c PROVE Judged(d)'
      <3>1. /\ stage'[d] = stage[d] /\ verdict'[d] = verdict[d] /\ receipt'[d] = receipt[d]
            /\ checkedAt'[d] = checkedAt[d]
        BY <1>2, <2>1, <2>6, DecideSets DEF Typed
      <3>2. Judged(d)
        BY DEF VInv
      <3> QED
        BY <1>1, <1>2, <1>3, <2>6, <3>1, <3>2, Elsewhere DEF Typed
    <2> QED
      BY <2>4, <2>5, <2>6 DEF VInv
  <1> QED
    BY <1>4, <1>5

\* The key is resolved: the call is decided with one of those published.
LEMMA ResolveVInv ==
  ASSUME VInv, NEW c \in Calls, Resolve(c)
  PROVE  VInv'
  <1>1. /\ UNCHANGED <<options, now, revoked, published, token, tool, list, failed>>
        /\ stage[c] = "resolving"
    BY DEF Resolve, request
  <1> DEFINE t == token[c]
             asked == tool[c]
             code(k) == CrossOrgVerdict(t, OriginKeys[k], asked, options.targetOrg, now)
  <1>2. PICK k \in 1 .. published : Decide(c, t, asked, code(k))
    BY DEF Resolve
  <1>3. /\ Typed /\ t \in Tokens /\ asked \in Tools /\ list[c] = {}
        /\ t.typ = "XORG+JWT" /\ options.resolves
    BY <1>1 DEF VInv, Typed, Judged, Listed, Verified
  <1>4. code(k) = "OK" => Entitled(t, asked, now)
    BY <1>3, CrossOrgEntitles
  <1>5. code(k) = "OK" => ScopeGranted(t, asked) # NoValue /\ t.flaws = {}
    BY <1>3, CrossOrgPasses DEF Genuinely
  <1>6. code(k) = "OK" /\ asked # NoValue => ScopeGranted(t, asked) \in Granting(asked)
    BY <1>3, <1>5, ScopePasses
  <1>7. /\ token' \in [Calls -> Tokens] /\ token'[c] = t /\ tool'[c] = asked /\ list'[c] = {}
        /\ DOMAIN tool' = Calls
        /\ \A d \in Calls : d = c \/ stage[d] # "idle" => tool'[d] \in Tools
    BY <1>1, <1>3 DEF Typed
  <1> HIDE DEF t, asked, code
  <1>8. Typed'
    BY <1>1, <1>2, <1>3, <1>7, DecideKeepsTyped
  <1>9. Judged(c)'
    BY <1>1, <1>2, <1>3, <1>4, <1>6, <1>7, DecideJudges
  <1>10. ASSUME NEW d \in Calls, d # c PROVE Judged(d)'
    <2>1. /\ stage'[d] = stage[d] /\ verdict'[d] = verdict[d] /\ receipt'[d] = receipt[d]
          /\ checkedAt'[d] = checkedAt[d]
      BY <1>2, <1>3, <1>10, DecideSets DEF Typed
    <2>2. Judged(d)
      BY DEF VInv
    <2> QED
      BY <1>1, <1>3, <2>1, <2>2, Elsewhere DEF Typed
  <1> QED
    BY <1>8, <1>9, <1>10 DEF VInv

\* The steps that leave verdict and stage of one call only, and nothing of the others.
LEMMA OneCall ==
  ASSUME VInv, NEW c \in Calls, UNCHANGED <<options, now, revoked, published, token, tool>>,
         receipt' = receipt, checkedAt' = checkedAt,
         \E s \in Stages \ {"idle"} : stage' = [stage EXCEPT ![c] = s],
         verdict' = verdict \/ \E v : verdict' = [verdict EXCEPT ![c] = v],
         list' = list \/ \E l : list' = [list EXCEPT ![c] = l],
         failed' = failed \/ failed' = [failed EXCEPT ![c] = TRUE],
         stage[c] # "idle", Judged(c)'
  PROVE  VInv'
  <1>1. Typed
    BY DEF VInv
  <1>2. Typed'
    <2>1. stage' \in [Calls -> Stages] /\ \A d \in Calls : d = c \/ stage'[d] = stage[d]
      BY <1>1 DEF Typed
    <2>2. DOMAIN verdict' = Calls /\ DOMAIN list' = Calls /\ failed' \in [Calls -> BOOLEAN]
      BY <1>1 DEF Typed
    <2> QED
      BY <1>1, <2>1, <2>2 DEF Typed
  <1>3. ASSUME NEW d \in Calls, d # c PROVE Judged(d)'
    <2>1. /\ stage'[d] = stage[d] /\ verdict'[d] = verdict[d] /\ list'[d] = list[d]
          /\ failed'[d] = failed[d]
      BY <1>1, <1>3 DEF Typed
    <2>2. Judged(d)
      BY DEF VInv
    <2> QED
      BY <1>1, <2>1, <2>2, Elsewhere DEF Typed
  <1> QED
    BY <1>2, <1>3 DEF VInv

\* A callback that fails denies the call.
LEMMA DenyJudges ==
  ASSUME VInv, NEW c \in Calls, NEW code, Deny(c, code), failed' = [failed EXCEPT ![c] = TRUE],
         UNCHANGED <<options, now, revoked, published, request, list>>, stage[c] # "idle"
  PROVE  VInv'
  <1>1. /\ stage' = [stage EXCEPT ![c] = "denied"] /\ verdict' = [verdict EXCEPT ![c] = code]
        /\ receipt' = receipt /\ checkedAt' = checkedAt /\ list' = list
        /\ UNCHANGED <<options, now, revoked, published, token, tool>>
    BY DEF Deny, Goto, request, VInv, Typed
  <1>2. stage'[c] = "denied" /\ failed'[c] /\ list'[c] = list[c] /\ revoked' = revoked
    BY <1>1 DEF VInv, Typed
  <1>3. Judged(c)'
    BY <1>2 DEF VInv, Judged, Verified, Listed, Refused
  <1> QED
    BY <1>1, <1>3, OneCall DEF Stages

\* The revocation list is read, and the passport is judged by it afterwards.
LEMMA ReadListVInv ==
  ASSUME VInv, NEW c \in Calls, ReadList(c)
  PROVE  VInv'
  <1>1. /\ stage' = [stage EXCEPT ![c] = "checking"] /\ list' = [list EXCEPT ![c] = revoked]
        /\ stage[c] = "fetching"
        /\ UNCHANGED <<options, now, revoked, published, token, tool, verdict, receipt,
                       checkedAt, failed>>
    BY DEF ReadList, Goto, request, answer
  <1>2. stage'[c] = "checking" /\ list'[c] = revoked
    BY <1>1 DEF VInv, Typed
  <1>3. /\ options.fetchesList /\ verdict[c] = "OK" /\ checkedAt[c] <= now
        /\ Entitled(token[c], tool[c], checkedAt[c])
        /\ tool[c] # NoValue => receipt[c] \in Granting(tool[c])
    BY <1>1 DEF VInv, Judged, Verified
  <1>4. Entitled(token[c], tool[c], checkedAt[c])'
    BY <1>1, <1>3, EntitledLater DEF VInv, Typed
  <1>5. Judged(c)'
    BY <1>1, <1>2, <1>3, <1>4 DEF Judged, Verified, Listed, Refused
  <1> QED
    BY <1>1, <1>2, <1>5, OneCall DEF Stages

LEMMA CheckListVInv ==
  ASSUME VInv, NEW c \in Calls, CheckList(c)
  PROVE  VInv'
  <1>1. /\ stage[c] = "checking"
        /\ UNCHANGED <<options, now, revoked, published, token, tool, receipt, checkedAt,
                       list, failed>>
    BY DEF CheckList, Deny, request, answer
  <1>2. token[c] \in Tokens /\ tool[c] \in Tools
    BY <1>1 DEF VInv, Typed
  <1>3. /\ verdict[c] = "OK" /\ checkedAt[c] <= now /\ list[c] \subseteq revoked
        /\ Entitled(token[c], tool[c], checkedAt[c])
        /\ tool[c] # NoValue => receipt[c] \in Granting(tool[c])
    BY <1>1 DEF VInv, Judged, Verified, Listed
  <1>4. CASE token[c].jti \in list[c]
    <2>1. /\ stage' = [stage EXCEPT ![c] = "denied"]
          /\ verdict' = [verdict EXCEPT ![c] = "PASSPORT_REVOKED"]
      BY <1>4 DEF CheckList, Deny, Goto
    <2>2. stage'[c] = "denied" /\ verdict'[c] = "PASSPORT_REVOKED"
      BY <2>1 DEF VInv, Typed
    <2>3. token[c].typ # "XORG+JWT" =>
            MiddlewareVerdict(token[c], VanePublicKey, tool[c], checkedAt[c]) = "OK"
      BY <1>2, <1>3, PassportEntitles DEF Entitled, Signed
    <2>4. Judged(c)'
      BY <1>1, <1>3, <1>4, <2>2, <2>3 DEF Judged, Verified, Listed, Refused
    <2> QED
      BY <1>1, <1>2, <2>1, <2>4, OneCall DEF Stages
  <1>5. CASE token[c].jti \notin list[c]
    <2>1. /\ stage' = [stage EXCEPT ![c] = "ran"] /\ verdict' = verdict
      BY <1>5 DEF CheckList, Goto, answer
    <2>2. stage'[c] = "ran"
      BY <2>1 DEF VInv, Typed
    <2>3. Entitled(token[c], tool[c], checkedAt[c])'
      BY <1>1, <1>3, EntitledLater DEF VInv, Typed
    <2>4. Judged(c)'
      BY <1>1, <1>3, <1>5, <2>1, <2>2, <2>3 DEF Judged, Verified, Listed, Refused
    <2> QED
      BY <1>1, <1>2, <2>1, <2>2, <2>4, OneCall DEF Stages
  <1> QED
    BY <1>4, <1>5

\* Every step keeps the invariant.
LEMMA NextVInv == VInv /\ [Next]_vars => VInv'
  <1> SUFFICES ASSUME VInv, [Next]_vars PROVE VInv'
    OBVIOUS
  <1>1. CASE Tick \/ RotateOrigin \/ \E t \in Tokens : Revoke(t)
    BY <1>1, VaneVInv
  <1>2. CASE \E c \in Calls, t \in Tokens, asked \in Tools : Arrive(c, t, asked)
    BY <1>2, ArriveVInv
  <1>3. ASSUME NEW c \in Calls, CallStep(c) PROVE VInv'
    <2>1. CASE Resolve(c)
      BY <2>1, ResolveVInv
    <2>2. CASE ResolveFails(c)
      BY <2>2, DenyJudges DEF ResolveFails
    <2>3. CASE ReadList(c)
      BY <2>3, ReadListVInv
    <2>4. CASE CheckList(c)
      BY <2>4, CheckListVInv
    <2>5. CASE ListFails(c)
      BY <2>5, DenyJudges DEF ListFails
    <2> QED
      BY <1>3, <2>1, <2>2, <2>3, <2>4, <2>5 DEF CallStep
  <1>4. CASE UNCHANGED vars
    <2>1. ASSUME NEW d \in Calls PROVE Judged(d)'
      BY <1>4, Elsewhere DEF vars, request, answer, VInv, Typed
    <2>2. Typed'
      BY <1>4 DEF vars, request, answer, VInv, Typed
    <2> QED
      BY <2>1, <2>2 DEF VInv
  <1> QED
    BY <1>1, <1>2, <1>3, <1>4 DEF Next

\* For every set of tokens and tools, any keys, any number of calls and whatever the
\* callbacks do: the wrapped handler runs only for a token that entitles its caller.
THEOREM OnlyTheEntitledRun == Spec => []RunsOnlyIfEntitled
  <1>1. VInv => RunsOnlyIfEntitled
    BY DEF VInv, Judged, Verified, RunsOnlyIfEntitled
  <1> QED
    BY <1>1, InitVInv, NextVInv, PTL DEF Spec

\* For a passport that is not bound to a request the middleware, awaits and all, comes to
\* the verdict of Vane's own verifier and of the reference one.
THEOREM VerdictsAgree == Spec => []SameVerdictAsVane
  <1>1. VInv => SameVerdictAsVane
    <2> SUFFICES ASSUME VInv, NEW c \in Calls,
                        stage[c] \in {"ran", "denied"}, ~failed[c],
                        token[c].typ # "XORG+JWT", token[c].request = NoValue,
                        NEW opts, opts = [nonce |-> NoValue, audience |-> NoValue,
                                          request |-> NoValue, tool |-> tool[c]]
                 PROVE  /\ verdict[c] = AtVane(token[c], opts, list[c], checkedAt[c])
                        /\ verdict[c] = ReferenceVerdict(token[c], VanePublicKey, opts, list[c],
                                                         checkedAt[c])
      BY DEF SameVerdictAsVane
    <2> DEFINE code == MiddlewareVerdict(token[c], VanePublicKey, tool[c], checkedAt[c])
               kept == IF code = "OK" /\ token[c].jti \in list[c] THEN "PASSPORT_REVOKED" ELSE code
    <2>1. token[c] \in Tokens /\ tool[c] \in Tools
      BY DEF VInv, Typed
    <2>2. verdict[c] = kept
      <3>1. CASE stage[c] = "ran"
        <4>1. /\ Entitled(token[c], tool[c], checkedAt[c]) /\ verdict[c] = "OK"
              /\ token[c].jti \notin list[c]
          BY <3>1 DEF VInv, Judged, Verified, Listed
        <4>2. code = "OK"
          BY <2>1, <4>1, PassportEntitles DEF Entitled, Signed
        <4> QED
          BY <4>1, <4>2
      <3>2. CASE stage[c] = "denied"
        BY <3>2 DEF VInv, Judged, Refused
      <3> QED
        BY <3>1, <3>2
    <2>3. /\ ServerVerdict(token[c], VanePublicKey, opts, checkedAt[c]) = code
          /\ ReferenceVerdict(token[c], VanePublicKey, opts, list[c], checkedAt[c]) = kept
      BY <2>1, OneVerdict
    <2> QED
      BY <2>2, <2>3 DEF AtVane
  <1> QED
    BY <1>1, InitVInv, NextVInv, PTL DEF Spec

\* A call that no callback failed is refused only for a cause: its token does not entitle
\* it at that moment, is revoked, or its organisation has rotated its key.
THEOREM RefusalsHaveACause == Spec => RefusedOnlyForCause
  <1> DEFINE Cause(c) ==
        \/ ~Entitled(token'[c], tool'[c], now)
        \/ options.fetchesList /\ token'[c].jti \in revoked
        \/ token'[c].typ = "XORG+JWT" /\ published > 1
             Refusal == \A c \in Calls :
        (stage'[c] = "denied" /\ stage[c] # "denied" /\ ~failed'[c]) => Cause(c)
  <1>1. VInv /\ [Next]_vars => Refusal
    <2> SUFFICES ASSUME VInv, [Next]_vars, NEW c \in Calls,
                        stage'[c] = "denied", stage[c] # "denied", ~failed'[c]
                 PROVE  Cause(c)
      OBVIOUS
    <2>0. Typed /\ Judged(c)
      BY DEF VInv
    <2>1. ASSUME NEW t \in Tokens, NEW asked \in Tools, Arrive(c, t, asked) PROVE Cause(c)
      <3>1. token'[c] = t /\ tool'[c] = asked
        BY <2>0, <2>1 DEF Arrive, Typed
      <3>2. CASE "header" \notin t.flaws /\ t.typ = "XORG+JWT"
        <4>1. ~options.resolves \/ t.flaws # {}
          BY <2>0, <2>1, <3>2 DEF Arrive, Goto, Typed
        <4> QED
          BY <3>1, <3>2, <4>1 DEF Entitled, Signed
      <3>3. CASE ~ ("header" \notin t.flaws /\ t.typ = "XORG+JWT")
        <4>1. MiddlewareVerdict(t, VanePublicKey, asked, now) # "OK"
          BY <2>0, <2>1, <3>3, DecideSets DEF Arrive, Typed, Options
        <4>2. Entitled(t, asked, now) => t.typ = "CAP+JWT"
          BY <3>3 DEF Entitled, Signed
        <4> QED
          BY <3>1, <4>1, <4>2, PassportEntitles
      <3> QED
        BY <3>2, <3>3
    <2>2. CASE Resolve(c)
      <3>1. token' = token /\ tool' = tool /\ stage[c] = "resolving"
        BY <2>2 DEF Resolve, request
      <3>2. PICK k \in 1 .. published :
              Decide(c, token[c], tool[c],
                     CrossOrgVerdict(token[c], OriginKeys[k], tool[c], options.targetOrg, now))
        BY <2>2 DEF Resolve
      <3>3. CrossOrgVerdict(token[c], OriginKeys[k], tool[c], options.targetOrg, now) # "OK"
        BY <2>0, <3>2, DecideSets DEF Typed, Options
      <3>4. token[c].typ = "XORG+JWT" /\ options.resolves /\ token[c] \in Tokens /\ tool[c] \in Tools
        BY <2>0, <3>1 DEF Judged, Verified, Typed
      <3>5. published = 1 \/ published > 1
        BY <2>0 DEF Typed
      <3> QED
        BY <3>1, <3>3, <3>4, <3>5, CrossOrgEntitles
    <2>3. CASE ResolveFails(c) \/ ListFails(c)
      BY <2>0, <2>3 DEF ResolveFails, ListFails, Typed
    <2>4. CASE ReadList(c)
      BY <2>0, <2>4 DEF ReadList, Goto, Typed
    <2>5. CASE CheckList(c)
      <3>1. token[c].jti \in list[c]
        BY <2>0, <2>5 DEF CheckList, Goto, Typed
      <3>2. token' = token /\ stage[c] = "checking"
        BY <2>5 DEF CheckList, request
      <3>3. options.fetchesList /\ list[c] \subseteq revoked
        BY <2>0, <3>2 DEF Judged, Verified, Listed
      <3> QED
        BY <3>1, <3>2, <3>3
    <2>6. ASSUME NEW d \in Calls, d # c,
                 CallStep(d) \/ \E t \in Tokens, asked \in Tools : Arrive(d, t, asked)
          PROVE  FALSE
      <3>1. \E s : stage' = [stage EXCEPT ![d] = s]
        BY <2>6 DEF CallStep, Arrive, Resolve, ResolveFails, ReadList, CheckList, ListFails,
                    Decide, Deny, Goto
      <3> QED
        BY <2>0, <2>6, <3>1 DEF Typed
    <2>7. CASE \/ Tick \/ RotateOrigin \/ UNCHANGED vars
               \/ \E t \in Tokens : Revoke(t)
      BY <2>7 DEF Tick, RotateOrigin, Revoke, vars
    <2> QED
      BY <2>1, <2>2, <2>3, <2>4, <2>5, <2>6, <2>7 DEF Next, CallStep
  <1>2. VInv /\ [Next]_vars => [Refusal]_vars
    BY <1>1
  <1> QED
    BY <1>2, InitVInv, NextVInv, PTL DEF Spec, RefusedOnlyForCause
=============================================================================

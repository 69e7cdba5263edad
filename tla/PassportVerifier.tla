---------------------------- MODULE PassportVerifier ----------------------------
(***************************************************************************)
(* The offline verifiers of passports (CAP+JWT) and cross-organisation     *)
(* tokens (XORG+JWT): the server's (src/passport/verify.ts,                *)
(* src/crypto/cross-org.ts), the reference one that the conformance        *)
(* vectors come with, and the copies in the package for MCP servers.        *)
(*                                                                         *)
(* A token is a record of what the verifiers look at.  What can be wrong   *)
(* with its form is a set of flaws, each the matter of one check; a        *)
(* signature verifies under the key that made it and no other.             *)
(***************************************************************************)
EXTENDS Naturals, Sequences, SequencesExt

CONSTANTS
  Leeway,          \* DEFAULT_CLOCK_SKEW_SECONDS
  NoValue          \* a claim that is absent, an option not given

ASSUME LeewayAssumption == Leeway \in Nat

Flaws == {"header", "payload", "alg", "audience", "issuer", "subject", "claims",
          "version", "shape", "chain"}

-----------------------------------------------------------------------------
(* Scopes: "cat:name" is <<"cat", "name">>, "cat:*" is <<"cat", "*">>; a tool "a:b" *)
(* is <<"a", "b">>, and calling it asks for the scope "tool:a:b". *)

\* Mutant of Covers: a wildcard also covers its bare category.
CoversCategory(granted, requested) ==
  \/ granted = <<"*">>
  \/ granted = requested
  \/ /\ Len(granted) > 1
     /\ Last(granted) = "*"
     /\ IsPrefix(Front(granted), requested)

\* "cat:*" covers what has the prefix "cat:".
Covers(granted, requested) ==
  \/ granted = <<"*">>
  \/ granted = requested
  \/ /\ Len(granted) > 1
     /\ Last(granted) = "*"
     /\ Len(requested) >= Len(granted)
     /\ IsPrefix(Front(granted), requested)

\* matchScope: the first granted scope that covers it.
MatchScope(granted, requested) ==
  LET covering == {i \in DOMAIN granted : Covers(granted[i], requested)}
  IN  IF covering = {} THEN NoValue ELSE granted[Min(covering)]

\* Without a tool, the first scope is reported, and nothing is refused.
ScopeGranted(token, tool) ==
  IF tool = NoValue THEN token.scopes[1] ELSE MatchScope(token.scopes, <<"tool">> \o tool)

-----------------------------------------------------------------------------
(* Checks *)

\* A check that fails adds its code to the failures ...
Check(code, passes) == IF passes THEN <<>> ELSE <<code>>

\* ... and the verdict is the code of the first that does.
FirstFailure(failures) == IF failures = <<>> THEN "OK" ELSE Head(failures)

Free(token, flaw) == flaw \notin token.flaws

\* Mutant of HasBegun: no leeway for a clock that is behind.
HasBegunStrictly(token, now) == token.nbf = NoValue \/ token.nbf <= now

\* The passport has not ended, or has begun, for a clock that is at most Leeway off.
NotExpired(token, now) == token.exp # NoValue /\ token.exp + Leeway >= now
HasBegun(token, now)   == token.nbf = NoValue \/ token.nbf <= now + Leeway

\* An option, if given, must be matched by the claim; a bound request always must.
Given(option, claim)   == option = NoValue \/ claim # NoValue
Matches(option, claim) == option = NoValue \/ claim = option
Bound(claim, option)   == claim = NoValue \/ claim = option

\* The checks that all of them begin with, in this order.
Prelude(token, typ, key, now) ==
  Check("MALFORMED_TOKEN", Free(token, "header") /\ Free(token, "payload"))
    \o Check("ALGORITHM_MISMATCH", Free(token, "alg"))
    \o Check("WRONG_TOKEN_TYPE", token.typ = typ)
    \o Check("SIGNATURE_INVALID", token.signer = key)
    \o Check("TOKEN_EXPIRED", NotExpired(token, now))
    \o Check("TOKEN_NOT_YET_VALID", HasBegun(token, now))
    \o Check("AUDIENCE_MISMATCH", Free(token, "audience"))
    \o Check("INVALID_ISSUER", Free(token, "issuer"))
    \o Check("INVALID_SUBJECT", Free(token, "subject"))
    \o Check("MALFORMED_CLAIMS", Free(token, "claims"))
    \o Check("UNSUPPORTED_VERSION", Free(token, "version"))
    \o Check("MALFORMED_CLAIMS", Free(token, "shape"))
    \o Check("CHAIN_INCOHERENT", Free(token, "chain"))

\* Constraints on the sender: a nonce and a recipient are checked if the caller asks
\* for them, the request a passport is bound to always.
Constraints(token, opts) ==
  Check("MISSING_NONCE", Given(opts.nonce, token.nonce))
    \o Check("NONCE_MISMATCH", Matches(opts.nonce, token.nonce))
    \o Check("MISSING_AUDIENCE", Given(opts.audience, token.recipient))
    \o Check("AUDIENCE_MISMATCH", Matches(opts.audience, token.recipient))
    \o Check("REQUEST_MISMATCH", Bound(token.request, opts.request))

Target(token, expectedTargetOrg) ==
  Check("TARGET_MISMATCH", Matches(expectedTargetOrg, token.target))

Scope(token, tool) == Check("SCOPE_DENIED", ScopeGranted(token, tool) # NoValue)

-----------------------------------------------------------------------------
(* Verifiers *)

\* verifyPassport of the server.
ServerVerdict(token, key, opts, now) ==
  FirstFailure(Prelude(token, "CAP+JWT", key, now) \o Constraints(token, opts)
                 \o Scope(token, opts.tool))

\* verifyPassportReference, of the conformance suite.
ReferenceVerdict(token, key, opts, revoked, now) ==
  FirstFailure(Prelude(token, "CAP+JWT", key, now) \o Constraints(token, opts)
                 \o Scope(token, opts.tool)
                 \o Check("PASSPORT_REVOKED", token.jti \notin revoked))

\* Mutant of MiddlewareVerdict: the scope is checked before the signature.
ScopeFirstVerdict(token, key, tool, now) ==
  FirstFailure(Scope(token, tool) \o Prelude(token, "CAP+JWT", key, now))

\* verifyPassport of the package for MCP servers.
MiddlewareVerdict(token, key, tool, now) ==
  FirstFailure(Prelude(token, "CAP+JWT", key, now) \o Scope(token, tool))

\* verifyCrossOrgToken, of the server and of the package, under the key of the organisation it comes from.
CrossOrgVerdict(token, originKey, tool, expectedTargetOrg, now) ==
  FirstFailure(Prelude(token, "XORG+JWT", originKey, now) \o Target(token, expectedTargetOrg)
                 \o Scope(token, tool))

=============================================================================

------------------------------ MODULE McpMiddleware ------------------------------
(***************************************************************************)
(* An MCP server behind createVaneMiddleware                               *)
(* (src/packages/mcp-middleware/src/middleware.ts): calls that present a   *)
(* passport or a cross-organisation token, the two callbacks the server's  *)
(* owner configures (the keys of other organisations, the revocation list) *)
(* and what happens at Vane while they are awaited.                        *)
(*                                                                         *)
(* The fetch, the Express and the MCP SDK wrapper decide alike; a call     *)
(* that is denied gets a 401 or an McpAuthError, one that is let through   *)
(* runs the wrapped handler with a receipt.                                *)
(***************************************************************************)
EXTENDS PassportVerifier, FiniteSets

CONSTANTS
  Calls,
  Tokens,          \* the tokens that callers have
  Tools,           \* tools of the server, NoValue for a request that calls none
  VanePublicKey,   \* vanePublicKey
  OriginKeys,      \* the keys the other organisation has one after the other
  OurOrg,          \* the organisation that runs the server
  MaxTime          \* bound: the clock

ASSUME ConfigurationAssumption ==
  /\ MaxTime \in Nat
  /\ Len(OriginKeys) \in Nat \ {0}
  /\ Tokens # {}

\* Scopes are texts, and so are tools; a token without scopes has not the right shape.
ASSUME TokensAssumption ==
  /\ \A t \in Tokens :
       /\ t.flaws \subseteq Flaws
       /\ t.scopes \in Seq(Seq(STRING))
       /\ "shape" \notin t.flaws => t.scopes # <<>>
       /\ NoValue \notin ToSet(t.scopes)
  /\ Tools \ {NoValue} \subseteq Seq(STRING)

VARIABLES
  options,         \* what createVaneMiddleware was given: the callbacks, expectedTargetOrg
  now,
  revoked,         \* the jtis in revoked_passports
  published,       \* how many keys the other organisation has had
  stage,           \* per call: how far it is
  token, tool,     \* per call: what it presents and asks for
  verdict,         \* per call: the code it was denied with, "OK" until then
  list,            \* per call: the revocation list it was given
  receipt,         \* per call: the scope on its receipt
  checkedAt,       \* per call: when its token was verified
  revokedBefore,   \* per call: the jtis revoked when it arrived
  failed           \* per call: did a callback throw, or answer nonsense

request == <<token, tool, revokedBefore>>
answer  == <<verdict, receipt, checkedAt>>
vars    == <<options, now, revoked, published, stage, request, answer, list, failed>>

AnyToken == CHOOSE t \in Tokens : TRUE

Options == [resolves : BOOLEAN, fetchesList : BOOLEAN, targetOrg : {NoValue, OurOrg}]

Init ==
  /\ options \in Options
  /\ now = 0
  /\ revoked = {}
  /\ published = 1
  /\ stage = [c \in Calls |-> "idle"]
  /\ token = [c \in Calls |-> AnyToken]
  /\ tool = [c \in Calls |-> NoValue]
  /\ verdict = [c \in Calls |-> "OK"]
  /\ list = [c \in Calls |-> {}]
  /\ receipt = [c \in Calls |-> NoValue]
  /\ checkedAt = [c \in Calls |-> 0]
  /\ revokedBefore = [c \in Calls |-> {}]
  /\ failed = [c \in Calls |-> FALSE]

-----------------------------------------------------------------------------
(* Vane and the clock *)

Tick ==
  /\ now < MaxTime
  /\ now' = now + 1
  /\ UNCHANGED <<options, revoked, published, stage, request, answer, list, failed>>

Revoke(t) ==
  /\ t.jti \notin revoked
  /\ revoked' = revoked \cup {t.jti}
  /\ UNCHANGED <<options, now, published, stage, request, answer, list, failed>>

\* The other organisation rotates its key.
RotateOrigin ==
  /\ published < Len(OriginKeys)
  /\ published' = published + 1
  /\ UNCHANGED <<options, now, revoked, stage, request, answer, list, failed>>

-----------------------------------------------------------------------------
(* A call *)

Goto(c, s) == stage' = [stage EXCEPT ![c] = s]

Deny(c, code) ==
  /\ Goto(c, "denied")
  /\ verdict' = [verdict EXCEPT ![c] = code]
  /\ UNCHANGED <<receipt, checkedAt>>

\* After verification: the revocation list if there is one, else the handler, with
\* the receipt either way.
Decide(c, t, asked, code) ==
  /\ verdict' = [verdict EXCEPT ![c] = code]
  /\ checkedAt' = [checkedAt EXCEPT ![c] = now]
  /\ IF code = "OK"
     THEN /\ Goto(c, IF options.fetchesList THEN "fetching" ELSE "ran")
          /\ receipt' = [receipt EXCEPT ![c] = ScopeGranted(t, asked)]
     ELSE Goto(c, "denied") /\ UNCHANGED receipt

\* verifyAsync: the type of the token is read before anything is verified; a token
\* of another organisation says itself which key to look up.  A call without a token
\* is answered as one with an unreadable header is.
Arrive(c, t, asked) ==
  /\ stage[c] = "idle"
  /\ token' = [token EXCEPT ![c] = t]
  /\ tool' = [tool EXCEPT ![c] = asked]
  /\ revokedBefore' = [revokedBefore EXCEPT ![c] = revoked]
  /\ IF "header" \notin t.flaws /\ t.typ = "XORG+JWT"
     THEN IF ~options.resolves THEN Deny(c, "CROSS_ORG_NOT_ACCEPTED")
          ELSE IF t.flaws \cap {"payload", "claims"} # {} THEN Deny(c, "MALFORMED_CLAIMS")
          ELSE Goto(c, "resolving") /\ UNCHANGED answer
     ELSE Decide(c, t, asked, MiddlewareVerdict(t, VanePublicKey, asked, now))
  /\ UNCHANGED <<options, now, revoked, published, list, failed>>

\* resolveCrossOrgPublicKey answers a key the organisation has had (it may be cached).
Resolve(c) ==
  /\ stage[c] = "resolving"
  /\ \E k \in 1 .. published :
       Decide(c, token[c], tool[c],
              CrossOrgVerdict(token[c], OriginKeys[k], tool[c], options.targetOrg, now))
  /\ UNCHANGED <<options, now, revoked, published, request, list, failed>>

\* It knows no such organisation, or throws.
ResolveFails(c) ==
  /\ stage[c] = "resolving"
  /\ \E code \in {"CROSS_ORG_UNKNOWN_ORIGIN", "VERIFICATION_ERROR"} : Deny(c, code)
  /\ failed' = [failed EXCEPT ![c] = TRUE]
  /\ UNCHANGED <<options, now, revoked, published, request, list>>

\* fetchRevocationList asks Vane ...
ReadList(c) ==
  /\ stage[c] = "fetching"
  /\ list' = [list EXCEPT ![c] = revoked]
  /\ Goto(c, "checking")
  /\ UNCHANGED <<options, now, revoked, published, request, answer, failed>>

\* Mutant of CheckList: a list that could not be had is taken for an empty one.
CheckListOpen(c) ==
  /\ \/ stage[c] = "checking" /\ UNCHANGED failed
     \/ stage[c] = "fetching" /\ failed' = [failed EXCEPT ![c] = TRUE]
  /\ IF token[c].jti \in list[c]
     THEN Deny(c, "PASSPORT_REVOKED")
     ELSE Goto(c, "ran") /\ UNCHANGED answer
  /\ UNCHANGED <<options, now, revoked, published, request, list>>

\* ... and the answer is there: the handler runs, or not.
CheckList(c) ==
  /\ stage[c] = "checking"
  /\ IF token[c].jti \in list[c]
     THEN Deny(c, "PASSPORT_REVOKED")
     ELSE Goto(c, "ran") /\ UNCHANGED answer
  /\ UNCHANGED <<options, now, revoked, published, request, list, failed>>

\* It throws, or answers something that is not a list.
ListFails(c) ==
  /\ stage[c] \in {"fetching", "checking"}
  /\ Deny(c, "VERIFICATION_ERROR")
  /\ failed' = [failed EXCEPT ![c] = TRUE]
  /\ UNCHANGED <<options, now, revoked, published, request, list>>

CallStep(c) ==
  \/ Resolve(c) \/ ResolveFails(c)
  \/ ReadList(c) \/ CheckList(c) \/ ListFails(c)

Next ==
  \/ Tick \/ RotateOrigin
  \/ \E t \in Tokens : Revoke(t)
  \/ \E c \in Calls, t \in Tokens, asked \in Tools : Arrive(c, t, asked)
  \/ \E c \in Calls : CallStep(c)

Spec == Init /\ [][Next]_vars

-----------------------------------------------------------------------------
(* Properties *)

Stages == {"idle", "resolving", "fetching", "checking", "ran", "denied"}

\* What a token is meant to allow, in the words of the protocol: a well-formed token,
\* signed by who may sign it for us, in its time, with a scope for the tool.
Granting(asked) == {<<"*">>, <<"tool">> \o asked}
                     \cup {SubSeq(<<"tool">> \o asked, 1, i) \o <<"*">> : i \in 1 .. Len(asked)}

Signed(t) ==
  \/ t.typ = "CAP+JWT" /\ t.signer = VanePublicKey
  \/ /\ t.typ = "XORG+JWT" /\ options.resolves /\ options.targetOrg \in {NoValue, t.target}
     /\ \E k \in 1 .. published : t.signer = OriginKeys[k]

Entitled(t, asked, at) ==
  /\ t.flaws = {} /\ Signed(t)
  /\ t.exp # NoValue /\ at <= t.exp + Leeway
  /\ t.nbf # NoValue => t.nbf <= at + Leeway
  /\ asked # NoValue => ToSet(t.scopes) \cap Granting(asked) # {}

\* The handler runs only for a token that entitles its caller to this tool, at a time
\* during the call, and the receipt names a scope that does.
RunsOnlyIfEntitled ==
  \A c \in Calls : stage[c] = "ran" =>
    /\ Entitled(token[c], tool[c], checkedAt[c]) /\ checkedAt[c] <= now
    /\ tool[c] # NoValue => receipt[c] \in Granting(tool[c])

\* Where the revocation list is asked for, a token revoked before the call arrived never
\* gets through, whatever the list's server answers and however late.
NoRunAfterRevocation ==
  \A c \in Calls : stage[c] = "ran" /\ options.fetchesList =>
    ~failed[c] /\ token[c].jti \notin revokedBefore[c]

\* A call that no callback failed is refused for a cause only: its token does not
\* entitle it now, is revoked, or is from an organisation that has rotated its key.
RefusedOnlyForCause ==
  [][\A c \in Calls : (stage'[c] = "denied" /\ stage[c] # "denied" /\ ~failed'[c]) =>
       \/ ~Entitled(token'[c], tool'[c], now)
       \/ options.fetchesList /\ token'[c].jti \in revoked
       \/ token'[c].typ = "XORG+JWT" /\ published > 1]_vars

\* What Vane's own POST /v1/passport/verify answers with this list of revocations.
AtVane(t, opts, revokedThen, at) ==
  LET code == ServerVerdict(t, VanePublicKey, opts, at)
  IN  IF code = "OK" /\ t.jti \in revokedThen THEN "PASSPORT_REVOKED" ELSE code

\* For a passport that is not bound to a request, the middleware, awaits and all, comes
\* to the verdict of Vane and of the reference verifier, down to the code.
SameVerdictAsVane ==
  \A c \in Calls :
    LET t == token[c]
        opts == [nonce |-> NoValue, audience |-> NoValue, request |-> NoValue, tool |-> tool[c]]
    IN  (/\ stage[c] \in {"ran", "denied"} /\ ~failed[c]
         /\ t.typ # "XORG+JWT" /\ t.request = NoValue) =>
          /\ verdict[c] = AtVane(t, opts, list[c], checkedAt[c])
          /\ verdict[c] = ReferenceVerdict(t, VanePublicKey, opts, list[c], checkedAt[c])
=============================================================================

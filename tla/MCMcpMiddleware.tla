---------------------------- MODULE MCMcpMiddleware ----------------------------
(* Instances of McpMiddleware for TLC: the tokens of the conformance vectors.     *)
EXTENDS McpMiddleware

CONSTANTS vane, other, org1, org2, us, j1, j2, nonce, hash

Read    == <<"read">>
ReadAll == <<"read", "all">>

MCTools      == {NoValue, Read, ReadAll}
MCOriginKeys == <<org1, org2>>

Genuine == [flaws |-> {}, typ |-> "CAP+JWT", signer |-> vane, jti |-> j1, nbf |-> 1, exp |-> 2,
            scopes |-> << <<"tool", "read">> >>, target |-> NoValue,
            nonce |-> NoValue, recipient |-> NoValue, request |-> NoValue]

CrossOrg == [Genuine EXCEPT !.typ = "XORG+JWT", !.signer = org1, !.target = us]

\* Every flaw, on one of two kinds of token; two flaws at once.
Flawed == {[Genuine EXCEPT !.flaws = {f}] : f \in Flaws}
            \cup {[Genuine EXCEPT !.flaws = {"alg", "chain"}, !.exp = 0],
                  [CrossOrg EXCEPT !.flaws = {"claims"}],
                  [CrossOrg EXCEPT !.flaws = {"shape"}]}

Scoped == {[Genuine EXCEPT !.jti = j2, !.scopes = s] :
             s \in {<< <<"api", "*">>, <<"*">> >>, << <<"tool", "read", "*">> >>,
                    << <<"api", "read">>, <<"tool", "*">> >>}}

Various == {Genuine,
            [Genuine EXCEPT !.nbf = NoValue, !.exp = NoValue],
            [Genuine EXCEPT !.nbf = NoValue, !.exp = 0],
            [Genuine EXCEPT !.nbf = 3, !.exp = 4],
            [Genuine EXCEPT !.signer = other],
            [Genuine EXCEPT !.typ = "JWT"],
            [Genuine EXCEPT !.nonce = nonce],
            [Genuine EXCEPT !.request = hash],
            CrossOrg,
            [CrossOrg EXCEPT !.signer = org2],
            [CrossOrg EXCEPT !.target = other]}

MCTokens == Flawed \cup Scoped \cup Various
=============================================================================

--------------------------- MODULE MC_OAuth2Auth ---------------------------
(***************************************************************************)
(* Instances of OAuth2Auth for TLC.  Tokens are built from the claims a    *)
(* client can send: the issuer signs tokens for this audience and for      *)
(* others, with and without mcp:write, expired or not; anyone can send an  *)
(* unsigned (or wrongly signed) token carrying whatever claims it likes.   *)
(***************************************************************************)
EXTENDS OAuth2Auth

MkToken(sig, aud, exp, scope) ==
    [signed |-> sig, claims |-> [aud |-> aud, exp |-> exp, scope |-> scope]]

\* Tokens the issuer signs for this server.
WriteToken     == MkToken(TRUE, Audience, "unexpired", {"mcp:read", "mcp:write"})
ReadToken      == MkToken(TRUE, Audience, "unexpired", {"mcp:read"})
WriteOnlyToken == MkToken(TRUE, Audience, "unexpired", {"mcp:write"})
ExpiredToken   == MkToken(TRUE, Audience, "expired", {"mcp:read", "mcp:write"})
EmptyScopeToken == MkToken(TRUE, Audience, "unexpired", {})
\* A token the same issuer signed for another resource server.
ForeignToken   == MkToken(TRUE, "other-audience", "unexpired", {"mcp:read", "mcp:write"})
\* Forged tokens: claims of the attacker's choice, no valid signature.
ForgedToken    == MkToken(FALSE, Audience, "unexpired", {"mcp:read", "mcp:write"})
ForgedTokens   == {[signed |-> FALSE, claims |-> c] : c \in Claims}
\* Signed tokens for this audience that lack the "scope" or the "exp" claim.
ScopelessToken == MkToken(TRUE, Audience, "unexpired", Absent)
NoExpToken     == MkToken(TRUE, Audience, Absent, {"mcp:read", "mcp:write"})

SerialTokens ==
    {WriteToken, ReadToken, WriteOnlyToken, EmptyScopeToken, ExpiredToken,
     ForeignToken} \cup ForgedTokens

PartialClaimTokens == SerialTokens \cup {ScopelessToken, NoExpToken}

ConcurrentTokens == {WriteToken, ReadToken, ForgedToken}
=============================================================================

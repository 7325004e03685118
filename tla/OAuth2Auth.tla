----------------------------- MODULE OAuth2Auth -----------------------------
(***************************************************************************)
(* Remote bearer-token authorization of systemd-mcp (remoteauth/oauth2.go) *)
(* as it is reached from the HTTP server of main (systemd-mcp.go).         *)
(*                                                                         *)
(* One Oauth2Auth value is shared by every HTTP request: VerifyJWT parses  *)
(* each token into the SAME map a.claims (jwt.ParseWithClaims with         *)
(* &a.claims decodes into the existing map, keeping keys the new token     *)
(* does not carry), then reads the "scope" claim back from that map and    *)
(* stores it in the shared slice a.scopes.  The tool handlers later ask    *)
(* IsReadAuthorized / IsWriteAuthorized, which look at a.scopes, not at    *)
(* the request's own token.                                                *)
(*                                                                         *)
(* Each element of Procs is a net/http goroutine serving one request after *)
(* another: parse (decode, then validate), extract the claims and pass the *)
(* bearer middleware, then one tool call that checks a scope.              *)
(***************************************************************************)
EXTENDS FiniteSets

CONSTANTS
    Procs,    \* goroutines serving HTTP requests concurrently
    Tokens,   \* the bearer tokens clients may present
    Absent    \* a claim missing from a token or from the map

\* remoteauth.Audience and remoteauth.ScopesSupported.
Audience == "systemd-mcp-server"
ScopesSupported == {"mcp:read", "mcp:write"}

\* systemdScopes() of main: the scopes the bearer middleware requires.  The
\* code lists "mcp:read" twice, so as a set it is {"mcp:read"}.
RequiredScopes == {"mcp:read", "mcp:read"}

\* The claims this model tells apart.  "exp" is abstracted to whether the
\* NumericDate lies in the future; "scope" to the set strings.Split yields.
AudValue   == {Audience, "other-audience"}
ExpValue   == {"unexpired", "expired"}
ScopeValue == SUBSET ScopesSupported
Claims == [aud : AudValue \cup {Absent}, exp : ExpValue \cup {Absent},
           scope : ScopeValue \cup {Absent}]

\* A token: its claims, and whether its signature verifies as RS256 under a
\* key of the issuer's JWKS (keyfunc resolves the kid).
Token == [signed : BOOLEAN, claims : Claims]

ASSUME TokensAssumption ==
    /\ Tokens \subseteq Token
    /\ Absent \notin AudValue \cup ExpValue
    /\ \A v \in ScopeValue : v # Absent

\* Seeded fault: a decode that keeps a key already in the map.
DecodeKeyKeepOld(old, new) == IF old = Absent THEN new ELSE old

\* Decoding JSON into a non-nil Go map keeps the keys the document lacks.
DecodeKey(old, new) == IF new = Absent THEN old ELSE new

MergeClaims(old, new) ==
    [aud   |-> DecodeKey(old.aud, new.aud),
     exp   |-> DecodeKey(old.exp, new.exp),
     scope |-> DecodeKey(old.scope, new.scope)]

\* The registered-claims check jwt.Parser runs on the (shared) claims map:
\* the audience must match (WithAudience makes it required) and an "exp"
\* present must not be in the past.
ClaimsValid(c) == c.aud = Audience /\ c.exp # "expired"

\* The checks auth.RequireBearerToken applies to the TokenInfo VerifyJWT
\* returns: every required scope present, expiration set and not passed.
MiddlewareAccepts(c) == RequiredScopes \subseteq c.scope /\ c.exp = "unexpired"

VARIABLES
    claims,   \* a.claims: the map every ParseWithClaims decodes into
    scopes,   \* a.scopes: the scopes of the last token VerifyJWT accepted
    pc,       \* where each request goroutine is
    tok,      \* the token of the request each goroutine serves
    granted,  \* the scopes the tool call of that request was granted
    denied,   \* the scopes that request was refused (all, if it was rejected)
    crashed   \* the Go runtime aborted the process (concurrent map access)

vars == <<claims, scopes, pc, tok, granted, denied, crashed>>

PC == {"idle", "parsed", "verified", "authed"}

TypeOK ==
    /\ claims \in Claims
    /\ scopes \in ScopeValue
    /\ pc \in [Procs -> PC]
    /\ tok \in [Procs -> Tokens \cup {Absent}]
    /\ granted \in [Procs -> ScopeValue]
    /\ denied \in [Procs -> ScopeValue]
    /\ crashed \in BOOLEAN

\* NewOauth builds Oauth2Auth by a struct literal: claims and scopes nil.
Init ==
    /\ claims = [aud |-> Absent, exp |-> Absent, scope |-> Absent]
    /\ scopes = {}
    /\ pc = [p \in Procs |-> "idle"]
    /\ tok = [p \in Procs |-> Absent]
    /\ granted = [p \in Procs |-> {}]
    /\ denied = [p \in Procs |-> {}]
    /\ crashed = FALSE
-----------------------------------------------------------------------------
\* A request arrives with token t; ParseWithClaims first decodes the token's
\* claims into a.claims, before any signature or claim check.
ParseDecode(p, t) ==
    /\ ~crashed
    /\ pc[p] = "idle"
    /\ claims' = MergeClaims(claims, t.claims)
    /\ tok' = [tok EXCEPT ![p] = t]
    /\ granted' = [granted EXCEPT ![p] = {}]
    /\ denied' = [denied EXCEPT ![p] = {}]
    /\ pc' = [pc EXCEPT ![p] = "parsed"]
    /\ UNCHANGED <<scopes, crashed>>

\* The request is answered with an error before any tool runs (401 or 403,
\* or a recovered panic): it is refused every scope.
Reject(p) ==
    /\ pc' = [pc EXCEPT ![p] = "idle"]
    /\ denied' = [denied EXCEPT ![p] = ScopesSupported]

\* Seeded fault: claims validated, signature check left out.
ParseValidateUnsigned(p) ==
    /\ ~crashed
    /\ pc[p] = "parsed"
    /\ \/ /\ ClaimsValid(claims)
          /\ pc' = [pc EXCEPT ![p] = "verified"]
          /\ UNCHANGED denied
       \/ /\ ~ClaimsValid(claims)
          /\ Reject(p)
    /\ UNCHANGED <<claims, scopes, tok, granted, crashed>>

\* ParseWithClaims then checks the signing method and signature of the
\* request's own token and validates the claims now in the shared map.  On
\* error VerifyJWT returns ErrInvalidToken and the middleware answers 401.
ParseValidate(p) ==
    /\ ~crashed
    /\ pc[p] = "parsed"
    /\ \/ /\ tok[p].signed /\ ClaimsValid(claims)
          /\ pc' = [pc EXCEPT ![p] = "verified"]
          /\ UNCHANGED denied
       \/ /\ ~(tok[p].signed /\ ClaimsValid(claims))
          /\ Reject(p)
    /\ UNCHANGED <<claims, scopes, tok, granted, crashed>>

\* token.Valid: VerifyJWT reads "exp" and "scope" back from a.claims.  A
\* scope that is not a string is ErrInvalidToken; otherwise a.scopes is set
\* before expireTime.Time is dereferenced (a nil pointer when the map has
\* no "exp": the handler panics and net/http drops the request).  The
\* middleware then checks the returned scopes and expiration.
ExtractClaims(p) ==
    /\ ~crashed
    /\ pc[p] = "verified"
    /\ \/ /\ claims.scope = Absent
          /\ Reject(p)
          /\ UNCHANGED scopes
       \/ /\ claims.scope # Absent
          /\ scopes' = claims.scope
          /\ \/ /\ MiddlewareAccepts(claims)
                /\ pc' = [pc EXCEPT ![p] = "authed"]
                /\ UNCHANGED denied
             \/ /\ ~MiddlewareAccepts(claims)
                /\ Reject(p)
    /\ UNCHANGED <<claims, tok, granted, crashed>>

\* Seeded fault: the write check tests the "mcp:read" literal, the slip
\* systemdScopes makes.
IsAuthorizedReadLiteral(p, s) ==
    /\ ~crashed
    /\ pc[p] = "authed"
    /\ \/ /\ "mcp:read" \in scopes
          /\ granted' = [granted EXCEPT ![p] = {s}]
          /\ UNCHANGED denied
       \/ /\ "mcp:read" \notin scopes
          /\ denied' = [denied EXCEPT ![p] = {s}]
          /\ UNCHANGED granted
    /\ pc' = [pc EXCEPT ![p] = "idle"]
    /\ UNCHANGED <<claims, scopes, tok, crashed>>

\* The tool handler asks AuthKeeper, in oauth2 mode, for the scope s it
\* needs (mcp:read for list_units and the log tools, mcp:write for
\* change_unit_state); Oauth2Auth answers from a.scopes.  The request ends.
IsAuthorized(p, s) ==
    /\ ~crashed
    /\ pc[p] = "authed"
    /\ \/ /\ s \in scopes
          /\ granted' = [granted EXCEPT ![p] = {s}]
          /\ UNCHANGED denied
       \/ /\ s \notin scopes
          /\ denied' = [denied EXCEPT ![p] = {s}]
          /\ UNCHANGED granted
    /\ pc' = [pc EXCEPT ![p] = "idle"]
    /\ UNCHANGED <<claims, scopes, tok, crashed>>

\* A decode into a.claims while another goroutine is still reading or
\* writing that map is a data race; the Go runtime may detect it and abort
\* the whole process ("concurrent map writes").
MapRaceAbort(p) ==
    /\ ~crashed
    /\ pc[p] = "idle"
    /\ \E q \in Procs \ {p} : pc[q] \in {"parsed", "verified"}
    /\ crashed' = TRUE
    /\ UNCHANGED <<claims, scopes, pc, tok, granted, denied>>
-----------------------------------------------------------------------------
Next ==
    \E p \in Procs :
        \/ \E t \in Tokens : ParseDecode(p, t)
        \/ ParseValidate(p)
        \/ ExtractClaims(p)
        \/ \E s \in ScopesSupported : IsAuthorized(p, s)

Spec == Init /\ [][Next]_vars

\* The same system with the runtime's abort on a racing map access.
NextRacy == Next \/ \E p \in Procs : MapRaceAbort(p)

SpecRacy == Init /\ [][NextRacy]_vars
-----------------------------------------------------------------------------
\* What the request's own token entitles it to: a verifier that looked only
\* at this token would grant scope s.
OwnTokenGrants(t, s) ==
    /\ t.signed
    /\ ClaimsValid(t.claims)
    /\ t.claims.scope # Absent
    /\ MiddlewareAccepts(t.claims)
    /\ s \in t.claims.scope

\* Every scope a tool call was granted (in particular mcp:write, which lets
\* change_unit_state start, stop or enable units) is one the caller's own
\* bearer token carries, validly signed for this audience: VerifyJWT and
\* IsWriteAuthorized never hand one request the rights of another token.
GrantMatchesOwnToken ==
    \A p \in Procs : \A s \in granted[p] : OwnTokenGrants(tok[p], s)

\* The issuer signs tokens that carry all three claims.
FullSignedTokens ==
    \A t \in Tokens : t.signed =>
        /\ t.claims.aud # Absent
        /\ t.claims.exp # Absent
        /\ t.claims.scope # Absent

\* With one request at a time and FullSignedTokens, the state VerifyJWT
\* leaves behind describes the request p in flight: once its own signed
\* token is decoded the shared map holds exactly its claims, and once the
\* middleware let it through a.scopes holds exactly its scopes; what its
\* tool call was granted or refused agrees with its own token.
SerialProcInv(p) ==
    /\ pc[p] # "idle" => tok[p] \in Tokens
    /\ pc[p] = "parsed" /\ tok[p].signed => claims = tok[p].claims
    /\ pc[p] \in {"verified", "authed"} =>
          /\ tok[p].signed
          /\ claims = tok[p].claims
          /\ ClaimsValid(claims)
    /\ pc[p] = "authed" =>
          /\ scopes = tok[p].claims.scope
          /\ MiddlewareAccepts(claims)
    /\ \A s \in granted[p] : OwnTokenGrants(tok[p], s)
    /\ \A s \in denied[p] : ~OwnTokenGrants(tok[p], s)

\* The inductive strengthening of GrantMatchesOwnToken for a server that
\* handles requests one by one.
SerialInv == TypeOK /\ \A p \in Procs : SerialProcInv(p)

\* The shared map agrees with token t on every claim t carries: the claims
\* t lacks may still hold what an earlier token left there.
ClaimsAgree(c, t) ==
    /\ t.claims.aud # Absent => c.aud = t.claims.aud
    /\ t.claims.exp # Absent => c.exp = t.claims.exp
    /\ t.claims.scope # Absent => c.scope = t.claims.scope

\* With one request at a time but tokens that may lack claims, what
\* VerifyJWT leaves behind still agrees with the request p in flight on the
\* claims its token carries, a.scopes is what the middleware checked once
\* it let the request through, and nothing p was refused is granted by its
\* own token.
PartialProcInv(p) ==
    /\ pc[p] # "idle" => tok[p] \in Tokens /\ ClaimsAgree(claims, tok[p])
    /\ pc[p] = "authed" =>
          /\ claims.scope # Absent /\ scopes = claims.scope
          /\ MiddlewareAccepts(claims)
    /\ \A s \in denied[p] : ~OwnTokenGrants(tok[p], s)

\* For a server that handles requests one by one, whatever claims the
\* issuer's tokens carry: the carried-over claims of a.claims never make
\* the middleware check a scope set that disagrees with the token, and a
\* caller is never refused a scope its own token grants.
PartialInv == TypeOK /\ \A p \in Procs : PartialProcInv(p)

\* The server process is never aborted by the runtime while verifying
\* tokens of concurrent requests.
NoRuntimeAbort == ~crashed
=============================================================================

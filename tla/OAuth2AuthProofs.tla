-------------------------- MODULE OAuth2AuthProofs --------------------------
(***************************************************************************)
(* Proofs about OAuth2Auth: type correctness for every set of goroutines   *)
(* and tokens, and, for a server that verifies one request at a time with  *)
(* an issuer whose tokens carry every claim, that each tool call is        *)
(* decided by the caller's own token.                                      *)
(***************************************************************************)
EXTENDS OAuth2Auth, TLAPS

USE TokensAssumption

\* The three claims of a decoded map keep their types.
LEMMA MergeClaimsType ==
    ASSUME NEW old \in Claims, NEW new \in Claims
    PROVE  MergeClaims(old, new) \in Claims
BY DEF MergeClaims, DecodeKey, Claims

\* A token of Tokens has claims of the right shape.
LEMMA TokenClaims ==
    ASSUME NEW t \in Tokens
    PROVE  /\ t.claims \in Claims
           /\ t.signed \in BOOLEAN
BY DEF Token

\* Every step keeps the state well typed.
LEMMA TypeStep == TypeOK /\ [Next]_vars => TypeOK'
<1> SUFFICES ASSUME TypeOK, [Next]_vars PROVE TypeOK'
  OBVIOUS
<1>1. ASSUME NEW p \in Procs, NEW t \in Tokens, ParseDecode(p, t)
      PROVE  TypeOK'
  BY <1>1, MergeClaimsType, TokenClaims DEF ParseDecode, TypeOK, PC, ScopeValue
<1>2. ASSUME NEW p \in Procs, ParseValidate(p) PROVE TypeOK'
  <2>1. ScopesSupported \in ScopeValue
    BY DEF ScopeValue
  <2>2. QED
    BY <1>2, <2>1 DEF ParseValidate, Reject, TypeOK, PC
<1>3. ASSUME NEW p \in Procs, ExtractClaims(p) PROVE TypeOK'
  BY <1>3 DEF ExtractClaims, Reject, TypeOK, PC, ScopeValue, Claims
<1>4. ASSUME NEW p \in Procs, NEW s \in ScopesSupported, IsAuthorized(p, s)
      PROVE  TypeOK'
  BY <1>4 DEF IsAuthorized, TypeOK, PC, ScopeValue
<1>5. CASE UNCHANGED vars
  BY <1>5 DEF vars, TypeOK
<1>6. QED
  BY <1>1, <1>2, <1>3, <1>4, <1>5 DEF Next

\* The initial state is well typed.
LEMMA TypeInit == Init => TypeOK
<1> SUFFICES ASSUME Init PROVE TypeOK
  OBVIOUS
<1>1. claims \in Claims
  BY DEF Init, Claims
<1>2. scopes \in ScopeValue /\ granted \in [Procs -> ScopeValue]
      /\ denied \in [Procs -> ScopeValue]
  BY DEF Init, ScopeValue
<1>3. pc \in [Procs -> PC] /\ tok \in [Procs -> Tokens \cup {Absent}]
  BY DEF Init, PC
<1>4. QED
  BY <1>1, <1>2, <1>3 DEF Init, TypeOK

\* Every state of the system is well typed: a.claims maps each claim to a
\* value or Absent, a.scopes is a set of supported scopes, and so on, for
\* any number of concurrent requests and any tokens.
THEOREM TypeCorrect == Spec => []TypeOK
BY TypeInit, TypeStep, PTL DEF Spec
-----------------------------------------------------------------------------
\* Decoding a token that carries all three claims replaces the whole map.
LEMMA MergeFull ==
    ASSUME NEW old \in Claims, NEW new \in Claims,
           new.aud # Absent, new.exp # Absent, new.scope # Absent
    PROVE  MergeClaims(old, new) = new
BY DEF MergeClaims, DecodeKey, Claims

\* A scope set held in a.scopes is never Absent.
LEMMA ScopeNotAbsent ==
    ASSUME NEW v \in ScopeValue PROVE v # Absent
OBVIOUS

\* Under the serial hypotheses, every step of the single request goroutine
\* q preserves SerialProcInv(q).
LEMMA SerialStep ==
    ASSUME NEW q, Procs = {q}, FullSignedTokens,
           TypeOK, TypeOK', SerialProcInv(q), [Next]_vars
    PROVE  SerialProcInv(q)'
<1> USE DEF TypeOK
<1>1. ASSUME NEW t \in Tokens, ParseDecode(q, t) PROVE SerialProcInv(q)'
  <2>1. t.signed => claims' = t.claims
    BY <1>1, MergeFull, TokenClaims DEF ParseDecode, FullSignedTokens
  <2>2. QED
    BY <1>1, <2>1 DEF ParseDecode, SerialProcInv
<1>2. ASSUME ParseValidate(q) PROVE SerialProcInv(q)'
  <2>1. CASE tok[q].signed /\ ClaimsValid(claims)
    BY <1>2, <2>1 DEF ParseValidate, SerialProcInv
  <2>2. CASE ~(tok[q].signed /\ ClaimsValid(claims))
    <3>1. \A s \in ScopesSupported : ~OwnTokenGrants(tok[q], s)
      BY <1>2, <2>2 DEF ParseValidate, SerialProcInv, OwnTokenGrants, ClaimsValid
    <3>2. QED
      BY <1>2, <2>2, <3>1 DEF ParseValidate, Reject, SerialProcInv
  <2>3. QED
    BY <2>1, <2>2
<1>3. ASSUME ExtractClaims(q) PROVE SerialProcInv(q)'
  <2>1. /\ tok[q] \in Tokens /\ tok[q].signed /\ claims = tok[q].claims
        /\ ClaimsValid(claims)
    BY <1>3 DEF ExtractClaims, SerialProcInv
  <2>2. claims.scope # Absent
    BY <2>1 DEF FullSignedTokens
  <2>3. CASE MiddlewareAccepts(claims)
    BY <1>3, <2>1, <2>2, <2>3 DEF ExtractClaims, SerialProcInv
  <2>4. CASE ~MiddlewareAccepts(claims)
    <3>1. \A s \in ScopesSupported : ~OwnTokenGrants(tok[q], s)
      BY <2>1, <2>4 DEF OwnTokenGrants
    <3>2. QED
      BY <1>3, <2>1, <2>2, <2>4, <3>1 DEF ExtractClaims, Reject, SerialProcInv
  <2>5. QED
    BY <2>3, <2>4
<1>4. ASSUME NEW s \in ScopesSupported, IsAuthorized(q, s)
      PROVE  SerialProcInv(q)'
  <2>1. /\ tok[q] \in Tokens /\ tok[q].signed /\ claims = tok[q].claims
        /\ ClaimsValid(claims) /\ scopes = tok[q].claims.scope
        /\ MiddlewareAccepts(claims)
    BY <1>4 DEF IsAuthorized, SerialProcInv
  <2>2. tok[q].claims.scope # Absent
    BY <2>1, ScopeNotAbsent
  <2>3. CASE s \in scopes
    <3>1. OwnTokenGrants(tok[q], s)
      BY <2>1, <2>2, <2>3 DEF OwnTokenGrants
    <3>2. QED
      BY <1>4, <2>3, <3>1 DEF IsAuthorized, SerialProcInv
  <2>4. CASE s \notin scopes
    <3>1. ~OwnTokenGrants(tok[q], s)
      BY <2>1, <2>4 DEF OwnTokenGrants
    <3>2. QED
      BY <1>4, <2>4, <3>1 DEF IsAuthorized, SerialProcInv
  <2>5. QED
    BY <2>3, <2>4
<1>5. CASE UNCHANGED vars
  BY <1>5 DEF vars, SerialProcInv, OwnTokenGrants, ClaimsValid, MiddlewareAccepts
<1>6. QED
  BY <1>1, <1>2, <1>3, <1>4, <1>5 DEF Next

\* With one request goroutine and issuer tokens that carry every claim,
\* SerialInv holds in every state: the shared a.claims and a.scopes always
\* describe the request in flight, the invariant the serial proofs share.
THEOREM SerialInvariant ==
    ASSUME NEW q, Procs = {q}, FullSignedTokens
    PROVE  Spec => []SerialInv
<1>1. Init => SerialInv
  <2> SUFFICES ASSUME Init PROVE SerialInv
    OBVIOUS
  <2>1. SerialProcInv(q)
    BY DEF Init, SerialProcInv
  <2>2. QED
    BY <2>1, TypeInit DEF SerialInv
<1>2. SerialInv /\ [Next]_vars => SerialInv'
  <2> SUFFICES ASSUME SerialInv, [Next]_vars PROVE SerialInv'
    OBVIOUS
  <2>1. TypeOK'
    BY TypeStep DEF SerialInv
  <2>2. SerialProcInv(q)'
    BY <2>1, SerialStep DEF SerialInv
  <2>3. QED
    BY <2>1, <2>2 DEF SerialInv
<1>3. QED
  BY <1>1, <1>2, PTL DEF Spec

\* When the server verifies one request at a time and the issuer signs
\* tokens with an audience, an expiry and a scope claim, every scope a tool
\* call is granted (mcp:write for change_unit_state in particular) is one
\* the caller's own token grants: the shared a.claims and a.scopes of
\* VerifyJWT then never leak one token's rights to another request.
THEOREM SerialGrantMatchesOwnToken ==
    ASSUME NEW q, Procs = {q}, FullSignedTokens
    PROVE  Spec => []GrantMatchesOwnToken
<1>1. SerialInv => GrantMatchesOwnToken
  BY DEF SerialInv, SerialProcInv, GrantMatchesOwnToken
<1>2. QED
  BY <1>1, SerialInvariant, PTL
-----------------------------------------------------------------------------
\* Decoding token t into any map leaves a map that agrees with t on every
\* claim t carries.
LEMMA MergeAgrees ==
    ASSUME NEW old \in Claims, NEW t \in Tokens
    PROVE  ClaimsAgree(MergeClaims(old, t.claims), t)
BY TokenClaims DEF ClaimsAgree, MergeClaims, DecodeKey

\* A token whose claims agree with a map the parser rejects grants nothing:
\* a claim that fails validation is either the token's own, or missing
\* from it, and OwnTokenGrants needs every claim present and valid.
LEMMA RejectedGrantsNothing ==
    ASSUME NEW c \in Claims, NEW t \in Tokens, ClaimsAgree(c, t),
           ~(t.signed /\ ClaimsValid(c))
    PROVE  \A s \in ScopesSupported : ~OwnTokenGrants(t, s)
<1> SUFFICES ASSUME NEW s \in ScopesSupported, OwnTokenGrants(t, s) PROVE FALSE
  OBVIOUS
<1>1. t.signed /\ t.claims.aud = Audience /\ t.claims.exp = "unexpired"
  BY DEF OwnTokenGrants, ClaimsValid, MiddlewareAccepts
<1>2. Audience # Absent /\ "unexpired" # Absent
  BY DEF AudValue, ExpValue
<1>3. c.aud = Audience /\ c.exp = "unexpired"
  BY <1>1, <1>2 DEF ClaimsAgree
<1>4. QED
  BY <1>1, <1>3 DEF ClaimsValid

\* The same for a map the middleware refuses, or that lacks a scope claim.
LEMMA RefusedGrantsNothing ==
    ASSUME NEW c \in Claims, NEW t \in Tokens, ClaimsAgree(c, t),
           c.scope = Absent \/ ~MiddlewareAccepts(c)
    PROVE  \A s \in ScopesSupported : ~OwnTokenGrants(t, s)
<1> SUFFICES ASSUME NEW s \in ScopesSupported, OwnTokenGrants(t, s) PROVE FALSE
  OBVIOUS
<1>1. t.claims.scope # Absent /\ t.claims.exp = "unexpired"
      /\ RequiredScopes \subseteq t.claims.scope
  BY DEF OwnTokenGrants, MiddlewareAccepts
<1>2. "unexpired" # Absent
  BY DEF ExpValue
<1>3. c.scope = t.claims.scope /\ c.exp = "unexpired"
  BY <1>1, <1>2 DEF ClaimsAgree
<1>4. QED
  BY <1>1, <1>3 DEF MiddlewareAccepts

\* With one request goroutine q, whatever claims the issuer's tokens carry,
\* every step preserves PartialProcInv(q).
LEMMA PartialStep ==
    ASSUME NEW q, Procs = {q}, TypeOK, TypeOK', PartialProcInv(q), [Next]_vars
    PROVE  PartialProcInv(q)'
<1> USE DEF TypeOK
<1>1. ASSUME NEW t \in Tokens, ParseDecode(q, t) PROVE PartialProcInv(q)'
  <2>1. ClaimsAgree(claims', t)
    BY <1>1, MergeAgrees DEF ParseDecode
  <2>2. QED
    BY <1>1, <2>1 DEF ParseDecode, PartialProcInv
<1>2. ASSUME ParseValidate(q) PROVE PartialProcInv(q)'
  <2>1. tok[q] \in Tokens /\ ClaimsAgree(claims, tok[q])
    BY <1>2 DEF ParseValidate, PartialProcInv
  <2>2. CASE tok[q].signed /\ ClaimsValid(claims)
    BY <1>2, <2>1, <2>2 DEF ParseValidate, PartialProcInv
  <2>3. CASE ~(tok[q].signed /\ ClaimsValid(claims))
    <3>1. \A s \in ScopesSupported : ~OwnTokenGrants(tok[q], s)
      BY <2>1, <2>3, RejectedGrantsNothing
    <3>2. QED
      BY <1>2, <2>1, <2>3, <3>1 DEF ParseValidate, Reject, PartialProcInv
  <2>4. QED
    BY <2>2, <2>3
<1>3. ASSUME ExtractClaims(q) PROVE PartialProcInv(q)'
  <2>1. tok[q] \in Tokens /\ ClaimsAgree(claims, tok[q])
    BY <1>3 DEF ExtractClaims, PartialProcInv
  <2>2. CASE claims.scope # Absent /\ MiddlewareAccepts(claims)
    BY <1>3, <2>1, <2>2 DEF ExtractClaims, PartialProcInv
  <2>3. CASE claims.scope = Absent \/ ~MiddlewareAccepts(claims)
    <3>1. \A s \in ScopesSupported : ~OwnTokenGrants(tok[q], s)
      BY <2>1, <2>3, RefusedGrantsNothing
    <3>2. QED
      BY <1>3, <2>1, <2>3, <3>1 DEF ExtractClaims, Reject, PartialProcInv
  <2>4. QED
    BY <2>2, <2>3
<1>4. ASSUME NEW s \in ScopesSupported, IsAuthorized(q, s)
      PROVE  PartialProcInv(q)'
  <2>1. /\ tok[q] \in Tokens /\ ClaimsAgree(claims, tok[q])
        /\ claims.scope # Absent /\ scopes = claims.scope
    BY <1>4 DEF IsAuthorized, PartialProcInv
  <2>2. CASE s \in scopes
    BY <1>4, <2>2 DEF IsAuthorized, PartialProcInv
  <2>3. CASE s \notin scopes
    <3>1. ~OwnTokenGrants(tok[q], s)
      BY <2>1, <2>3, TokenClaims DEF ClaimsAgree, OwnTokenGrants
    <3>2. QED
      BY <1>4, <2>3, <3>1 DEF IsAuthorized, PartialProcInv
  <2>4. QED
    BY <2>2, <2>3
<1>5. CASE UNCHANGED vars
  BY <1>5 DEF vars, PartialProcInv, OwnTokenGrants, ClaimsValid,
     MiddlewareAccepts, ClaimsAgree
<1>6. QED
  BY <1>1, <1>2, <1>3, <1>4, <1>5 DEF Next

\* PartialInv holds in every state of a server that verifies one request at
\* a time, for any tokens the issuer signs: a caller is never refused a
\* scope its own token grants, although a.claims carries claims over from
\* earlier tokens (those can add rights, oauth_claims_carryover, but never
\* take them away).
THEOREM PartialInvariant ==
    ASSUME NEW q, Procs = {q}
    PROVE  Spec => []PartialInv
<1>1. Init => PartialInv
  <2> SUFFICES ASSUME Init PROVE PartialInv
    OBVIOUS
  <2>1. PartialProcInv(q)
    BY DEF Init, PartialProcInv
  <2>2. QED
    BY <2>1, TypeInit DEF PartialInv
<1>2. PartialInv /\ [Next]_vars => PartialInv'
  <2> SUFFICES ASSUME PartialInv, [Next]_vars PROVE PartialInv'
    OBVIOUS
  <2>1. TypeOK'
    BY TypeStep DEF PartialInv
  <2>2. PartialProcInv(q)'
    BY <2>1, PartialStep DEF PartialInv
  <2>3. QED
    BY <2>1, <2>2 DEF PartialInv
<1>3. QED
  BY <1>1, <1>2, PTL DEF Spec

=============================================================================

-------------------------- MODULE AuthKeeperProofs --------------------------
(***************************************************************************)
(* Proof that main puts the bearer-token middleware in front of the HTTP   *)
(* handler exactly when the AuthKeeper it built is in oauth2 mode, for     *)
(* every set of flag values.                                               *)
(***************************************************************************)
EXTENDS AuthKeeper, TLAPS

\* The flags never change, the keeper is the zero AuthKeeper until main
\* leaves "start", and from then on the way the server is exposed and the
\* keeper's mode were decided by the same flags.
ServeInv ==
    /\ flags \in Flags
    /\ phase \in {"start", "running", "exited", "stopped"}
    /\ phase = "start" => ~keeper.dbus /\ ~keeper.oauth2
    /\ phase \in {"running", "stopped"} =>
          /\ served = Serve(flags)
          /\ (Mode(keeper) = "oauth2" <=> flags.http # "" /\ ~flags.noauth)

\* Which branch of main built the keeper fixes its mode.
LEMMA ModeOf ==
    /\ Mode(NewNoAuth) = "noauth"
    /\ Mode(NewOauth) = "oauth2"
    /\ \A t, r, w : Mode([NewPolkitAuth EXCEPT !.timeout = t, !.readAllowed = r,
                                             !.writeAllowed = w]) = "polkit"
BY DEF Mode, NewNoAuth, NewOauth, NewPolkitAuth

\* The middleware guards the HTTP handler (served = "http_bearer") exactly
\* when IsReadAuthorized / IsWriteAuthorized delegate to the oauth2
\* verifier, so neither runs without the other.
THEOREM BearerGuardsOauthHolds == Spec => []BearerGuardsOauth
<1>1. Init => ServeInv
  BY DEF Init, ServeInv
<1>2. ServeInv /\ [Next]_vars => ServeInv'
  <2> SUFFICES ASSUME ServeInv, [Next]_vars PROVE ServeInv'
    OBVIOUS
  <2>1. CASE StartNoAuth
    BY <2>1, ModeOf DEF StartNoAuth, ServeInv, Serve
  <2>2. ASSUME NEW r \in Responses, NEW ok \in BOOLEAN, StartOauth(r, ok)
        PROVE  ServeInv'
    BY <2>2, ModeOf DEF StartOauth, ServeInv, Serve
  <2>3. ASSUME NEW ok \in BOOLEAN, StartPolkit(ok) PROVE ServeInv'
    <3>1. CASE ok
      <4>1. keeper' = [NewPolkitAuth EXCEPT !.timeout = flags.timeout,
                                            !.readAllowed = flags.allowRead,
                                            !.writeAllowed = flags.allowWrite]
        BY <2>3, <3>1 DEF StartPolkit
      <4>2. Mode(keeper') = "polkit"
        BY <4>1, ModeOf
      <4>3. QED
        BY <2>3, <3>1, <4>2 DEF StartPolkit, ServeInv, Serve
    <3>2. CASE ~ok
      BY <2>3, <3>2 DEF StartPolkit, ServeInv
    <3>3. QED
      BY <3>1, <3>2
  <2>4. CASE IsReadAuthorized \/ IsWriteAuthorized \/ Deauthorize
    BY <2>4 DEF IsReadAuthorized, IsWriteAuthorized, Deauthorize, ServeInv
  <2>5. CASE Close
    BY <2>5 DEF Close, ServeInv
  <2>6. CASE UNCHANGED vars
    BY <2>6 DEF vars, ServeInv
  <2>7. QED
    BY <2>1, <2>2, <2>3, <2>4, <2>5, <2>6 DEF Next
<1>3. ServeInv => BearerGuardsOauth
  BY DEF ServeInv, BearerGuardsOauth, Serve
<1>4. QED
  BY <1>1, <1>2, <1>3, PTL DEF Spec
=============================================================================

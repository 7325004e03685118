----------------------------- MODULE AuthKeeper -----------------------------
(***************************************************************************)
(* The authorization arbiter of systemd-mcp (authkeeper/authkeeper.go) and *)
(* the part of main (systemd-mcp.go) that builds it from the flags and     *)
(* chooses how the MCP server is exposed.                                  *)
(*                                                                         *)
(* main runs once: it reads the flags (or SYSTEMD_MCP_* variables), builds *)
(* an AuthKeeper with NewNoAuth, NewOauth or NewPolkitAuth (or exits), and *)
(* serves on stdio, on plain HTTP, or on HTTP behind the bearer-token      *)
(* middleware.  Afterwards tool handlers call IsReadAuthorized,            *)
(* IsWriteAuthorized and Deauthorize, which delegate on Mode(); Close runs *)
(* when main returns.                                                      *)
(*                                                                         *)
(* The polkit broker (package dbus) and the oauth2 verifier are external   *)
(* here: their answers are free choices.  OAuth2Auth models the latter.    *)
(***************************************************************************)
EXTENDS Naturals

CONSTANTS
    Controllers,  \* values the "controller" flag can take ("c" is its default)
    HttpAddrs,    \* values of the "http" flag ("" selects stdio)
    Timeouts      \* values of the "timeout" flag (its default is 5)

ASSUME ConfigAssumption ==
    /\ "c" \in Controllers /\ "" \in HttpAddrs
    /\ Timeouts \subseteq Nat

\* The flags main reads through viper.
Flags == [noauth : BOOLEAN, http : HttpAddrs, controller : Controllers,
          allowRead : BOOLEAN, allowWrite : BOOLEAN, timeout : Timeouts]

\* An AuthKeeper: which backend pointers are set, and its plain fields.
Keeper == [dbus : BOOLEAN, oauth2 : BOOLEAN, timeout : Nat,
           readAllowed : BOOLEAN, writeAllowed : BOOLEAN]

\* The constructors.  NewNoAuth allows everything; NewOauth sets only the
\* Oauth2 pointer; NewPolkitAuth only the D-Bus one (main fills in the rest).
NewNoAuth == [dbus |-> FALSE, oauth2 |-> FALSE, timeout |-> 0,
              readAllowed |-> TRUE, writeAllowed |-> TRUE]
NewOauth == [dbus |-> FALSE, oauth2 |-> TRUE, timeout |-> 0,
             readAllowed |-> FALSE, writeAllowed |-> FALSE]
NewPolkitAuth == [dbus |-> TRUE, oauth2 |-> FALSE, timeout |-> 0,
                  readAllowed |-> FALSE, writeAllowed |-> FALSE]

\* Answers of the issuer's discovery endpoint: an HTTP status and whether
\* the body decodes as JSON.
Responses == [status : {200, 404, 500}, json : BOOLEAN]

\* remoteauth.GetJwksURI succeeds on a 200 whose body decodes.
GetJwksURIOk(r) == r.status = 200 /\ r.json

\* AuthKeeper.Mode: both pointers set "shouldn't happen" and means noauth.
Mode(k) ==
    CASE k.dbus /\ k.oauth2 -> "noauth"
      [] k.dbus             -> "polkit"
      [] k.oauth2           -> "oauth2"
      [] OTHER              -> "noauth"

\* How main exposes the server once the tools are registered.
Serve(f) ==
    CASE f.http = ""  -> "stdio"
      [] f.noauth     -> "http"
      [] OTHER        -> "http_bearer"

\* Answers of an authorization check.
Answer == {"allowed", "denied", "error"}

VARIABLES
    phase,   \* "start", "running", "exited" (os.Exit(1)) or "stopped"
    flags,   \* the configuration main was started with
    keeper,  \* the AuthKeeper main built
    served,  \* "none" before serving, then a value of Serve
    conn,    \* the polkit D-Bus connection: "none", "open" or "closed"
    grant,   \* the broker holds an interactive grant for this process
    lastRead,  \* answer of the last IsReadAuthorized ("none" before)
    lastWrite  \* answer of the last IsWriteAuthorized ("none" before)

vars == <<phase, flags, keeper, served, conn, grant, lastRead, lastWrite>>

TypeOK ==
    /\ phase \in {"start", "running", "exited", "stopped"}
    /\ flags \in Flags
    /\ keeper \in Keeper
    /\ served \in {"none", "stdio", "http", "http_bearer"}
    /\ conn \in {"none", "open", "closed"}
    /\ grant \in BOOLEAN
    /\ lastRead \in Answer \cup {"none"}
    /\ lastWrite \in Answer \cup {"none"}

\* main starts with &authkeeper.AuthKeeper{} and any flag values.
Init ==
    /\ phase = "start"
    /\ flags \in Flags
    /\ keeper = [dbus |-> FALSE, oauth2 |-> FALSE, timeout |-> 0,
                 readAllowed |-> FALSE, writeAllowed |-> FALSE]
    /\ served = "none"
    /\ conn = "none"
    /\ grant = FALSE
    /\ lastRead = "none"
    /\ lastWrite = "none"
-----------------------------------------------------------------------------
\* main's first branch: noauth with an empty controller takes NewNoAuth.
StartNoAuth ==
    /\ phase = "start"
    /\ flags.noauth /\ flags.controller = ""
    /\ keeper' = NewNoAuth
    /\ phase' = "running"
    /\ served' = Serve(flags)
    /\ UNCHANGED <<flags, conn, grant, lastRead, lastWrite>>

\* Seeded fault: the second branch tests the http flag but not noauth.
StartOauthIgnoringNoauth(resp, keyfOK) ==
    /\ phase = "start"
    /\ ~(flags.noauth /\ flags.controller = "")
    /\ flags.http # ""
    /\ \/ /\ flags.controller = "" \/ ~GetJwksURIOk(resp) \/ ~keyfOK
          /\ phase' = "exited"
          /\ UNCHANGED <<keeper, served>>
       \/ /\ flags.controller # "" /\ GetJwksURIOk(resp) /\ keyfOK
          /\ keeper' = NewOauth
          /\ phase' = "running"
          /\ served' = Serve(flags)
    /\ UNCHANGED <<flags, conn, grant, lastRead, lastWrite>>

\* Second branch: HTTP without noauth needs a controller; NewOauth fetches
\* the issuer's jwks_uri (GetJwksURI, answered by resp) and builds the key
\* function (keyfOK).  Either failing, or a missing controller, ends the
\* process.
StartOauth(resp, keyfOK) ==
    /\ phase = "start"
    /\ ~(flags.noauth /\ flags.controller = "")
    /\ flags.http # "" /\ ~flags.noauth
    /\ \/ /\ flags.controller = "" \/ ~GetJwksURIOk(resp) \/ ~keyfOK
          /\ phase' = "exited"
          /\ UNCHANGED <<keeper, served>>
       \/ /\ flags.controller # "" /\ GetJwksURIOk(resp) /\ keyfOK
          /\ keeper' = NewOauth
          /\ phase' = "running"
          /\ served' = Serve(flags)
    /\ UNCHANGED <<flags, conn, grant, lastRead, lastWrite>>

\* Otherwise NewPolkitAuth claims the D-Bus name; main then copies the
\* timeout and the allow-read / allow-write flags into the AuthKeeper.
StartPolkit(dbusOK) ==
    /\ phase = "start"
    /\ ~(flags.noauth /\ flags.controller = "")
    /\ ~(flags.http # "" /\ ~flags.noauth)
    /\ \/ /\ ~dbusOK
          /\ phase' = "exited"
          /\ UNCHANGED <<keeper, served, conn>>
       \/ /\ dbusOK
          /\ keeper' = [NewPolkitAuth EXCEPT !.timeout = flags.timeout,
                                              !.readAllowed = flags.allowRead,
                                              !.writeAllowed = flags.allowWrite]
          /\ conn' = "open"
          /\ phase' = "running"
          /\ served' = Serve(flags)
    /\ UNCHANGED <<flags, grant, lastRead, lastWrite>>
-----------------------------------------------------------------------------
\* What a check answers in each mode.  polkit: a held grant answers at
\* once; otherwise the broker asks for consent (granted, declined or timed
\* out) or fails on the bus.  oauth2: the scope is in a.scopes or not, a
\* miss being returned with an error.  noauth: the static flag.
CheckAnswers(allowed) ==
    CASE Mode(keeper) = "polkit" /\ grant -> {"allowed"}
      [] Mode(keeper) = "polkit"          -> Answer
      [] Mode(keeper) = "oauth2"          -> {"allowed", "error"}
      [] OTHER -> {IF allowed THEN "allowed" ELSE "denied"}

\* A consent given to the broker is kept until Deauthorize.
GrantAfter(a) == IF Mode(keeper) = "polkit" THEN grant \/ a = "allowed" ELSE grant

IsReadAuthorized ==
    /\ phase = "running"
    /\ \E a \in CheckAnswers(keeper.readAllowed) :
          /\ lastRead' = a
          /\ grant' = GrantAfter(a)
    /\ UNCHANGED <<phase, flags, keeper, served, conn, lastWrite>>

\* The permission argument is ignored: polkit is asked with "".
IsWriteAuthorized ==
    /\ phase = "running"
    /\ \E a \in CheckAnswers(keeper.writeAllowed) :
          /\ lastWrite' = a
          /\ grant' = GrantAfter(a)
    /\ UNCHANGED <<phase, flags, keeper, served, conn, lastRead>>

\* Deauthorize is a no-op without a D-Bus backend.
Deauthorize ==
    /\ phase = "running"
    /\ grant' = (grant /\ ~keeper.dbus)
    /\ UNCHANGED <<phase, flags, keeper, served, conn, lastRead, lastWrite>>

\* main returns (the transport ends): the deferred Close shuts the D-Bus
\* connection if there is one.
Close ==
    /\ phase = "running"
    /\ phase' = "stopped"
    /\ conn' = IF keeper.dbus /\ conn = "open" THEN "closed" ELSE conn
    /\ UNCHANGED <<flags, keeper, served, grant, lastRead, lastWrite>>
-----------------------------------------------------------------------------
Next ==
    \/ StartNoAuth
    \/ \E r \in Responses, ok \in BOOLEAN : StartOauth(r, ok)
    \/ \E ok \in BOOLEAN : StartPolkit(ok)
    \/ IsReadAuthorized
    \/ IsWriteAuthorized
    \/ Deauthorize
    \/ Close

Spec == Init /\ [][Next]_vars
-----------------------------------------------------------------------------
\* The server is exposed over HTTP behind the bearer middleware exactly when
\* the AuthKeeper is in oauth2 mode: the middleware's verifier
\* (authorization.Oauth2.VerifyJWT) and the resource metadata handler
\* (authorization.Oauth2.JwksUri) never dereference a nil Oauth2, and no
\* oauth2 keeper answers checks for callers that were never verified.
BearerGuardsOauth ==
    phase \in {"running", "stopped"} =>
        (served = "http_bearer" <=> Mode(keeper) = "oauth2")

\* The "noauth" flag does what its help text says: "Disable authorization
\* via dbus/ouath2 always allow read and write access".
NoauthFlagHonoured ==
    phase = "running" /\ flags.noauth =>
        /\ Mode(keeper) = "noauth"
        /\ keeper.readAllowed /\ keeper.writeAllowed

\* The timeout the unit tools wait for a job (auth.Timeout) is never the
\* implicit zero, whatever backend was chosen (spec section 5).
WaitTimeoutPositive ==
    phase = "running" => keeper.timeout > 0
=============================================================================

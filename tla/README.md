# systemd-mcp: TLA+ models, model checks and proofs

This directory holds a verification development for systemd-mcp, an MCP
server that exposes systemd unit management, the journal and man pages to
MCP clients. The scope is what decides who may do what: the authorization
arbiter, the OAuth2 bearer-token verifier, the startup code that chooses
between them and registers the tools, and the unit-operation tracker that
dispatches systemd jobs and waits for their results.

## 1. Inventory of the system

Source files. `src/systemd-mcp.go` holds `main` in lines 1-326, and
`remoteauth/oauth2.go` is appended at line 327. `src/authkeeper/authkeeper.go`
holds the arbiter. `src/internal/pkg/systemd/units_test.go` holds the tests
of the unit tools, whose implementation (`units.go`) is not in `src/`.

| Component | Code | State | Operations |
|---|---|---|---|
| Startup (`main`) | systemd-mcp.go 44-326 | flags; the `AuthKeeper` it builds; the transport | choose NewNoAuth / NewOauth / NewPolkitAuth or exit (100-122); register tools (132-276); serve on stdio, HTTP, or HTTP behind the bearer middleware (278-325) |
| AuthArbiter | authkeeper.go | `Dbus`, `Oauth2` pointers, `Timeout`, `ReadAllowed`, `WriteAllowed` | `Mode`, constructors, `IsReadAuthorized`, `IsWriteAuthorized`, `Deauthorize`, `Close` |
| RemoteTokenAuth | systemd-mcp.go 327-438 | **one** `claims` map and **one** `scopes` slice per server, shared by all requests | `GetJwksURI`, `VerifyJWT`, `IsReadAuthorized`, `IsWriteAuthorized` |
| LocalAuthority (polkit) | package dbus, not in src | grant held until Deauthorize | check and consent |
| UnitOperationTracker | units.go, not in src; tests only | one buffered completion channel `rchannel` per connection, with capacity 10 in the tests | write check, dispatch a start/stop/restart/reload job, wait with `auth.Timeout`, follow-up check |
| UnitInventory, log, file and man tools | not in src | none | read-only queries behind the read check |

**How the parts interact.** `main` turns the flags into one `AuthKeeper`,
and every tool handler asks it before acting. In oauth2 mode the HTTP
middleware first calls `Oauth2.VerifyJWT` on the bearer token. That call
stores the token's scopes in the shared `a.scopes`. The tool handler then
calls `IsWriteAuthorized`/`IsReadAuthorized`, which read `a.scopes`. net/http
serves each request on its own goroutine, so every step of verification and
checking can interleave with the same steps of other requests.

**The behaviours that make this code hard to test.** Each is listed in
`PROJECT.json` under "hazards", at the line where it bites.

- Concurrent requests share `a.claims` and `a.scopes`:
  - a scope-check may see another request's scopes;
  - concurrent writes to the Go map can abort the whole process.
- Claims survive from one token to the next, because `ParseWithClaims`
  decodes into an existing map. A token that lacks a claim inherits it from
  an earlier token, even from an unsigned token that was rejected.
- The `nil` expiry dereference at line 418 panics after `a.scopes` has
  already been overwritten.
- The startup branches in `main` and the middleware decision are taken far
  apart from the same flags, which makes the `nil` `Oauth2` pointer a risk.
- The `--controller` default `"c"` sends `--noauth` to polkit.
- `Timeout` is zero in every mode but polkit.
- In the unit tracker, one shared completion channel carries the results of
  every job:
  - a result arriving after its wait timed out goes to the wrong waiter;
  - if nobody reads it, the channel fills and the job listener blocks.

**Properties per component.**

- RemoteTokenAuth:
  - a tool call is granted a scope only if the caller's own validly signed
    token grants it;
  - with one request at a time, a call is never refused a scope its own
    token grants (with two it can be);
  - concurrent verification never aborts the server.
- AuthArbiter and startup:
  - the bearer middleware is in front exactly when the keeper delegates to
    OAuth2;
  - `--noauth` gives the allow-all keeper;
  - the wait timeout is positive.
- Tool registration: the tools registered are exactly the offered ones
  enabled-tools names, however the option is given.
- UnitOperationTracker:
  - a completion is reported only to the call that dispatched that job;
  - a completion of one of the connection's own jobs is never looked up
    before go-systemd has registered the job, even when systemd finishes
    the job before the D-Bus call that started it returns;
  - every tool call returns.

## 2. Modules and how they correspond to the code

### OAuth2Auth.tla: the token verifier and the tool scope-check

**State.** The module keeps two shared variables:

- `claims`: the `a.claims` map, one record of `aud`, `exp` and `scope`, each
  of which may be `Absent`;
- `scopes`: `a.scopes`.

Each request goroutine `p` in `Procs` has its own entries:

- `pc[p]`, where the request is: idle, parsed, verified or authed;
- `tok[p]`, its token;
- `granted[p]` and `denied[p]`, what its tool calls were answered.

`crashed` records a runtime abort.

**Data.** A token is a record of `signed` (it verifies against the issuer's
key) and its claims. Expiry is abstracted to `"unexpired"`/`"expired"`, and
the audience to the server's audience or another one.

**Actions.** `VerifyJWT` is split at every access to the shared map:

- `ParseDecode`: `ParseWithClaims` decodes into the map. The map keeps keys
  the token lacks (`MergeClaims`/`DecodeKey`), and this happens *before* the
  signature check.
- `ParseValidate`: signature, audience and expiry, read from the shared map.
- `ExtractClaims`: read scope, set `a.scopes`, read exp. This action
  includes the middleware's `RequiredScopes` check, which comes from
  `systemdScopes()` and requires `mcp:read` twice.
- `IsAuthorized`: `IsRead/IsWriteAuthorized` read `a.scopes`.

A failing step returns the goroutine to idle and records the denial
(`Reject`). `MapRaceAbort` is in `NextRacy` only. It is the runtime's
answer to a map write that overlaps another goroutine's use of the map.

### AuthKeeper.tla: the arbiter and main's choices

**State.** The module keeps:

- `flags`, the configuration main was started with;
- the `keeper` record;
- `phase`: start, running, exited or stopped;
- `served`: stdio, http or http_bearer;
- the polkit connection `conn`;
- the broker's `grant`;
- the last read and write answers.

**Actions.**

- `StartNoAuth`, `StartOauth` and `StartPolkit` are the three branches of
  systemd-mcp.go 100-122, together with the constructors they call. They
  include `os.Exit(1)` on a failing `GetJwksURI`, a failing key function or
  a missing D-Bus. The serving choice of 278-325 is folded in as `Serve`.
- `IsReadAuthorized`, `IsWriteAuthorized`, `Deauthorize` and `Close` follow
  the methods of authkeeper.go. The polkit and OAuth2 answers are free
  choices here, because OAuth2Auth models the OAuth2 side in detail.

### ToolRegistry.tla: which tools main registers

Models systemd-mcp.go 132-276 with the flags of 53-56 and viper's
environment binding of 67-70.

- **State.** `step` (the block of main being run), `config` (the
  enabled-tools flag, the `SYSTEMD_MCP_ENABLED_TOOLS` variable and
  `--list-tools`), `tools` (the names offered) and `registered`.
- **Actions.** `NewSystem(ok)` offers the three unit tools when the systemd
  connection is made; `AddLogTools(canAccess, logOK)` offers list_log and
  get_file when the journal is readable and opens; `AddManTool` always
  offers get_man_page; `ListTools` is the `--list-tools` exit;
  `RegisterEnabled` computes `enabledTools` exactly as line 266 does (all
  tools unless pflag reports the flag changed, else viper's value) and
  registers the offered tools it names.
- `ViperEnabledTools` is viper's precedence: flag, else environment, else
  the default nil.

### UnitTracker.tla: the unit-operation tracker (spec_modelled)

`units.go` is not in `src/`, so this module is written from the spec
(sections 3, 4.3, 5), and from the tests, which build a `Connection` with
one buffered `rchannel`. Every map entry is marked `spec_modelled`. The
part of go-systemd the tracker relies on (its `startJob`, the
`jobListener` lock and the signal goroutine's `jobComplete`) is modelled
with it.

- **State.** Per caller goroutine `c`: `pc[c]` (idle, dispatch, register,
  wait, checkwait), `about[c]` (the job the call is about) and `reply[c]`
  (what it returned, with the job a result belongs to). Shared: `pending`
  (the connection's pending job), `running` (this connection's jobs
  systemd executes), `signals` (JobRemoved signals not yet handled, other
  clients' jobs included as `Foreign`), `holder` (who holds the
  jobListener lock: nobody, the signal goroutine or a caller),
  `registered` (jobs in `jobListener.jobs`) and `rchan` (the completions
  in `rchannel`, as the jobs they belong to; the result strings are
  abstracted away).
- **Job paths.** systemd never reuses a live job path and hands out
  unboundedly many. The model recycles a path once nothing refers to it
  (`InUse`: running, signalled, queued, registered, pending or the subject
  of a call under way), so `Jobs` bounds the jobs alive at once, not the
  jobs of a run.
- **Actions.**
  - `ChangeUnitState`: write check, then unsupported, enable/disable, or a
    job path not in use for an asynchronous action.
  - `DispatchCall`: `startJob` takes the free jobListener lock and makes
    the D-Bus call, which fails (the call returns an error, the lock is
    released) or starts the job. `DispatchRegister`: still under the lock,
    it registers the job's channel, makes it the pending job and unlocks.
  - `CheckForRestartReloadRunning`: read check, then "no pending
    operation" or the same bounded wait.
  - `ListUnits`: read check, then a listing or an error; no state changes.
  - `WaitReceive` / `WaitTimeout` (together `WaitStep`): the select on
    `rchannel` takes the first result, whichever job it belongs to, or
    `time.After(auth.Timeout)` fires.
  - `Finish(j)`: systemd finishes one of our jobs and emits JobRemoved;
    `ForeignFinish`: another client's job does.
  - `ListenerLock` / `ListenerDeliver`: `jobComplete` takes the lock, then
    sends a registered job's result on its channel (blocking while the
    channel is full) and deletes the entry, or ignores an unknown job, and
    unlocks.

## 3. Runs

| Run | Checks | Result | What it shows |
|---|---|---|---|
| oauth_serial | GrantMatchesOwnToken, SerialInv | pass (1275 states) | with one request at a time and tokens carrying every claim, forged, expired and foreign tokens included, grants follow the caller's own token and the shared map describes the request in flight |
| oauth_serial_partial | PartialInv | pass (1406 states) | with tokens that may lack aud, scope or exp, every claim the token carries is the one in the merged map, and no caller is refused what its own token grants |
| oauth_claims_carryover | GrantMatchesOwnToken | violation | a signed scopeless token inherits an earlier token's scope, even when requests run one at a time |
| oauth_concurrent_scopes | GrantMatchesOwnToken | violation | a read-only caller gets mcp:write from a concurrent request |
| oauth_concurrent_abort | NoRuntimeAbort | violation | concurrent verification may abort the server |
| authkeeper_modes | BearerGuardsOauth | pass (1584 states) | over all flags and setup outcomes, the middleware is present iff the mode is oauth2 |
| authkeeper_noauth_flag | NoauthFlagHonoured | violation | `--noauth` alone selects polkit |
| authkeeper_wait_timeout | WaitTimeoutPositive | violation | Timeout stays 0 in noauth and oauth2 modes |
| registry_env | EnabledToolsHonoured | violation | `SYSTEMD_MCP_ENABLED_TOOLS` without the flag is ignored: every tool is registered |
| tracker_completions | OwnCompletionRegistered | pass (323310 states) | two concurrent calls, recycled job paths and other clients' signals: the signal goroutine never looks up one of our completions before startJob registered it |
| tracker_stall | CallsReturn | violation | with results left unread, jobComplete blocks on the full rchannel holding the lock, and the next change_unit_state never returns |
| tracker_misattribution | ResultToOwnJob | violation | a result arriving after its wait timed out is reported by the next change_unit_state as its own |

**Bounds.**

- The serial runs use one goroutine. The tokens are:
  - write, read, write-only, empty-scope, expired and foreign-audience
    tokens;
  - every unsigned claim combination, so a forged token can put any value
    into the shared map.
  
  The partial run adds a scopeless and an exp-less signed token.
- The concurrent runs need only two goroutines and three tokens (write,
  read, forged). Every violation takes two requests.
- `MC_AuthKeeper` enumerates:
  - every flag combination over controllers `{"", "c", issuer}` and
    addresses `{"", addr}`;
  - each discovery response (status 200/404/500, JSON or not);
  - each key-function and D-Bus outcome.

  These values cover every branch of main.
- `MC_ToolRegistry` gives enabled-tools the empty list, one tool, and a
  list with a unit tool, a log tool and an unknown name; the systemd and
  journal outcomes are all enumerated, so every offered set occurs.
- `tracker_completions` uses two callers and two live job paths with
  path recycling and foreign signals: enough for the race it asks about
  (one caller's job finishes while the other's call and the signal
  goroutine contend for the lock), and every action fires, including the
  listener blocking on a full channel of one.
- `tracker_stall` and `tracker_misattribution` need only one caller:
  three live paths and a channel of one let two timed-out results pile up
  behind the wait, which is the smallest stall and the smallest
  misattribution.

**Deadlock.** AuthKeeper's and ToolRegistry's cfgs say `CHECK_DEADLOCK FALSE`
because main really stops (exit, or serving until the transport ends).  The OAuth2 runs check deadlock, except the
abort run, where the crashed state is terminal. `tracker_stall` says
`CHECK_DEADLOCK FALSE` because the stall it looks for is a state where
the call and the signal goroutine both block for good; the liveness
property, not deadlock detection, is what it asks. `tracker_completions`
checks deadlock.

**Fairness.** Only UnitTracker assumes any, in `Fairness`. Weak fairness
of each caller's `DispatchRegister` and `WaitStep`, of every `Finish(j)`
and of `ListenerDeliver`: the Go scheduler eventually runs a runnable
goroutine, `time.After` fires, and systemd finishes the jobs it runs.
Strong fairness of the two lock acquisitions (`DispatchCall`,
`ListenerLock`): Go's `sync.Mutex` switches to starvation mode when a
waiter has waited over a millisecond and hands it the lock, so a
goroutine that keeps finding the lock free now and then gets it. What
clients call, and other clients' jobs, are not constrained:
`ChangeUnitState`, `CheckForRestartReloadRunning`, `ListUnits` and
`ForeignFinish` have no fairness. `tracker_stall` shows `CallsReturn`
fails even so.

## 4. What is proved (TLAPS)

- `OAuth2AuthProofs!TypeCorrect`: `Spec => []TypeOK`, for all goroutines
  and tokens.
- `OAuth2AuthProofs!SerialGrantMatchesOwnToken`: for a single request
  goroutine (`Procs = {q}`), and an issuer whose signed tokens carry aud,
  exp and scope (`FullSignedTokens`), `Spec => []GrantMatchesOwnToken`.
  - `GrantMatchesOwnToken` is not inductive: a grant is justified by state
    left behind by earlier steps. The proof uses `SerialInv`, which is
    checked by TLC in `oauth_serial`.
  - `SerialInv` ties `claims` to `tok[q].claims` from parse onward, and
    `scopes` to the token's scope once authed.
  - Lemma `MergeFull` says that decoding a full token replaces the whole
    map.
  - The two hypotheses are exactly what the violation runs show to be
    necessary.
- `AuthKeeperProofs!BearerGuardsOauthHolds`: `Spec => []BearerGuardsOauth`
  for all flag values. Its inductive invariant `ServeInv` says:
  - the keeper is empty before start;
  - afterwards `served = Serve(flags)`;
  - oauth2 mode holds iff `http # "" /\ ~noauth`.

- `UnitTrackerProofs!TypeCorrect`: `Spec => []TypeOK` for any callers, jobs
  and capacity. Its inductive strengthening `TypeInv` adds that a claiming
  call (dispatch or register) holds a job path, and that the signal
  goroutine holds the lock only with a signal to handle.
- `UnitTrackerProofs!OwnCompletionsNeverDropped`:
  `Spec => []OwnCompletionRegistered` for any callers, job paths and
  channel capacity. It is not inductive: the proof uses
  `LockInv == TypeInv /\ HoldsLock /\ OursRegistered /\ SignalledOnce /\ FreshClaims`.
  - `HoldsLock`: a caller is registering exactly when it holds the lock;
  - `OursRegistered`: every running or signalled job of ours is registered
    or is the job of the caller holding the lock;
  - `SignalledOnce`: a job is not both running and signalled, and no
    signal is queued twice;
  - `FreshClaims`: a call about to dispatch holds a path nobody else
    uses, and claiming calls hold distinct paths.
  - There is one lemma per action (`ClaimStep`, `DispatchCallStep`,
    `DispatchRegisterStep`, `FinishStep`, `ForeignStep`,
    `ListenerLockStep`, `DeliverStep`, and `QuietStep` for the steps
    outside startJob), with `ElemsAppend` and `ElemsHeadTail` for the
    values of a sequence after `Append` and `Tail`.
  - When the signal goroutine holds the lock, no caller does, so every
    signalled job of ours is registered. The mutant that unlocks before
    registering breaks `HoldsLock` and the property.
- `OAuth2AuthProofs!SerialInvariant`: `Spec => []SerialInv`, assuming one
  request goroutine and `FullSignedTokens`, the two hypotheses of the
  theorem above (it is its strengthening, stated on its own since
  `oauth_serial` checks it).
- `OAuth2AuthProofs!PartialInvariant`: for a single goroutine and any
  token set (claims may be missing), `Spec => []PartialInv`.
  - `PartialInv` is the inductive invariant. For the one goroutine:
    - from parse onward, every claim the token carries equals the merged
      map's (`ClaimsAgree`);
    - once authed, `scopes` is the map's scope and the middleware accepted
      the map;
    - no scope in `denied` is one the token grants.
  - Lemma `MergeAgrees` says that decoding a token makes the map agree with
    every claim it carries, whatever the map held before.
  - Lemmas `RejectedGrantsNothing` and `RefusedGrantsNothing` say that a
    token refused by the parser, or by the middleware's aud/exp checks, grants
    no scope.
  - No `FullSignedTokens` hypothesis is needed: a missing claim is carried
    over, but that can only add a grant (`oauth_claims_carryover`), never
    refuse one the token makes. The no-refusal conjunct holds only for one
    goroutine: with two, another request's verification can overwrite
    `a.scopes` between a caller's verification and its tool check and have
    it refused (the same interleaving as `oauth_concurrent_scopes`).

**Model-checked only.** The following stay with TLC:

- the concurrent behaviours, which are violations and not theorems;
- `EnabledToolsHonoured`, which fails when the environment variable is
  set (`registry_env`); without it, it would only restate
  `RegisterEnabled`;
- `CallsReturn` and any other liveness property: TLAPS cannot reason
  about fairness with `ENABLED` here. `CallsReturn` is violated
  (`tracker_stall`) in any case.

## 5. Not modelled, and why

- **UnitOperationTracker.** Modelled, but from the spec, since `units.go`
  is not in `src/`. `UnitInventory` is only its `ListUnits` action: the
  filtering is data transformation.
- **The allow-read and allow-write flags.** They are copied only in polkit
  mode (line 120), where nothing reads them; no property states an intent
  the code does not document.
- **Log, file and man tools** are stateless request/response wrappers.
- **The D-Bus broker's internals** are outside the repository.
- **Formatting, logging and the MCP protocol framing** are left out: no
  property depends on them.

## 6. Plan for the next sittings

1. Compose UnitTracker with AuthKeeper, so that the zero `Timeout` of the
   noauth and oauth2 modes drives `WaitTimeout`.
2. Prove invariants of the concurrent OAuth2 model that do hold for many
   goroutines (the type invariant is proved; which grants survive
   interleaving is not).
3. Model `NewOauth`'s controller normalisation (an `http` prefix test that
   also accepts hosts whose names start with "http").

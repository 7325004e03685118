---------------------------- MODULE UnitTracker -----------------------------
(***************************************************************************)
(* The unit-operation tracker of systemd-mcp (internal/pkg/systemd: the    *)
(* tools change_unit_state, check_restart_reload and list_units of one     *)
(* Connection), together with the part of go-systemd's D-Bus connection it *)
(* relies on.  units.go is not under src/: the tracker is modelled from    *)
(* the specification (sections 3, 4.3 and 5) and from the tests, which     *)
(* build a Connection with one buffered channel rchannel.                  *)
(*                                                                         *)
(* Every asynchronous job (start, stop, restart, restart_force, reload) is *)
(* registered with that one channel.  go-systemd keys its listener by job  *)
(* path, but since every job names the same channel, the results of all   *)
(* jobs arrive on it in completion order; the tracker waits on it bounded  *)
(* by auth.Timeout.                                                        *)
(*                                                                         *)
(* go-systemd's startJob takes the jobListener lock, makes the D-Bus call  *)
(* that creates the job, registers the job's channel and unlocks.  Its     *)
(* signal goroutine handles every JobRemoved signal on the bus, this       *)
(* connection's jobs and other clients' alike: jobComplete takes the same  *)
(* lock, sends the result on the job's channel if the job is registered    *)
(* (blocking while the channel is full), and unlocks.                      *)
(*                                                                         *)
(* systemd never reuses a job path while it is live, and hands out         *)
(* unboundedly many over a run.  The model recycles a path once nothing    *)
(* refers to it any more, so Jobs bounds only the jobs alive at once.      *)
(***************************************************************************)
EXTENDS Naturals, Sequences, FiniteSets

CONSTANTS
    Callers,  \* goroutines of MCP tool calls on the same Connection
    Jobs,     \* job paths that may be alive at the same time
    RCap,     \* capacity of the buffered channel rchannel
    Foreign,  \* a job some other D-Bus client started
    None      \* no job

ASSUME TrackerAssumption ==
    /\ IsFiniteSet(Callers) /\ IsFiniteSet(Jobs)
    /\ RCap \in Nat \ {0}
    /\ Foreign \notin Jobs /\ None \notin Jobs \cup {Foreign}
    /\ "nobody" \notin Callers /\ "listener" \notin Callers

\* The requested actions (section 4.3): asynchronous ones create a job,
\* enable/disable are answered at once, anything else is unsupported.
AsyncActions == {"start", "stop", "restart", "restart_force", "reload"}
SyncActions == {"enable", "disable"}
Requests == AsyncActions \cup SyncActions \cup {"dance"}

\* What an authorization check of the AuthKeeper answers.
AuthAnswers == {"allowed", "denied", "error"}

\* A completion on rchannel carries systemd's result string ("done",
\* "failed", ...); the model keeps only the job it belongs to (which the
\* string does not name), since no property tells results apart.

\* What a tool call returns: a job result, "still running" after the wait
\* timed out, "no pending operation", the enable/disable change list, a
\* unit list, or an error.
ReplyKinds == {"result", "running", "none", "changes", "listed",
               "unauthorized", "unsupported", "error", "nothing"}

\* Where a tool call is: not in a call, about to call startJob, inside
\* startJob after the D-Bus call, or in the bounded wait of
\* change_unit_state or of check_restart_reload.
PCs == {"idle", "dispatch", "register", "wait", "checkwait"}

VARIABLES
    pc,         \* where each tool call is
    about,      \* the job the current or last call of a caller is about
    reply,      \* what the last call of a caller returned
    pending,    \* the connection's pending job (section 3, PendingJob)
    running,    \* this connection's jobs systemd is still executing
    signals,    \* JobRemoved signals the signal goroutine has not handled
    holder,     \* who holds the jobListener lock: "nobody", "listener", a caller
    registered, \* jobs whose channel is in go-systemd's jobListener.jobs
    rchan       \* the completions in rchannel, as the jobs they belong to

vars == <<pc, about, reply, pending, running, signals, holder, registered, rchan>>

\* A reply, with the job a reported result belongs to and the job the call
\* was about.
Reply == [kind : ReplyKinds, job : Jobs \cup {None}, about : Jobs \cup {None}]

TypeOK ==
    /\ pc \in [Callers -> PCs]
    /\ about \in [Callers -> Jobs \cup {None}]
    /\ reply \in [Callers -> Reply]
    /\ pending \in Jobs \cup {None}
    /\ running \subseteq Jobs
    /\ signals \in Seq(Jobs \cup {Foreign})
    /\ holder \in Callers \cup {"nobody", "listener"}
    /\ registered \subseteq Jobs
    /\ rchan \in Seq(Jobs) /\ Len(rchan) <= RCap

\* NewSystem: an empty channel, no job, no call.
Init ==
    /\ pc = [c \in Callers |-> "idle"]
    /\ about = [c \in Callers |-> None]
    /\ reply = [c \in Callers |-> [kind |-> "nothing", job |-> None, about |-> None]]
    /\ pending = None
    /\ running = {}
    /\ signals = <<>>
    /\ holder = "nobody"
    /\ registered = {}
    /\ rchan = <<>>

\* The values a sequence holds.
SeqElems(s) == {s[i] : i \in 1..Len(s)}

\* The job paths something still refers to: a running job, an unhandled
\* signal, an unread completion, a registered channel, a call under way,
\* the pending job.  systemd hands out a path that is none of these.
InUse ==
    running \cup SeqElems(signals) \cup SeqElems(rchan) \cup registered
      \cup {about[c] : c \in {d \in Callers : pc[d] # "idle"}} \cup {pending}

\* A call ends, answering kind (and the job a result belongs to).
Return(c, kind, job) ==
    /\ pc' = [pc EXCEPT ![c] = "idle"]
    /\ reply' = [reply EXCEPT ![c] = [kind |-> kind, job |-> job, about |-> about[c]]]
-----------------------------------------------------------------------------
\* ChangeUnitState: the write check comes first; an unsupported action is
\* refused before any backend call; enable/disable return the changes the
\* backend reports (or its error); an asynchronous action goes on to
\* startJob, for the job path systemd will hand out.
ChangeUnitState(c, action, auth) ==
    /\ pc[c] = "idle"
    /\ \/ /\ auth # "allowed"
          /\ Return(c, "unauthorized", None)
          /\ UNCHANGED about
       \/ /\ auth = "allowed" /\ action \notin AsyncActions \cup SyncActions
          /\ Return(c, "unsupported", None)
          /\ UNCHANGED about
       \/ /\ auth = "allowed" /\ action \in SyncActions
          /\ \E kind \in {"changes", "error"} : Return(c, kind, None)
          /\ UNCHANGED about
       \/ /\ auth = "allowed" /\ action \in AsyncActions
          /\ \E j \in Jobs \ InUse : about' = [about EXCEPT ![c] = j]
          /\ pc' = [pc EXCEPT ![c] = "dispatch"]
          /\ UNCHANGED reply
    /\ UNCHANGED <<pending, running, signals, holder, registered, rchan>>

\* Seeded fault: startJob unlocks right after the D-Bus call, before it
\* registers the job's channel.
DispatchCallEarlyUnlock(c) ==
    /\ pc[c] = "dispatch"
    /\ holder = "nobody"
    /\ \/ /\ Return(c, "error", None)
          /\ UNCHANGED running
       \/ /\ running' = running \cup {about[c]}
          /\ pc' = [pc EXCEPT ![c] = "register"]
          /\ UNCHANGED reply
    /\ UNCHANGED <<about, pending, signals, holder, registered, rchan>>

\* startJob (StartUnitContext and its siblings with rchannel): it waits for
\* the jobListener lock, then calls systemd over D-Bus.  A failing call
\* unlocks (the deferred Unlock) and the tool returns the error; otherwise
\* systemd has created the job and runs it, and startJob still holds the
\* lock.
DispatchCall(c) ==
    /\ pc[c] = "dispatch"
    /\ holder = "nobody"
    /\ \/ /\ Return(c, "error", None)
          /\ UNCHANGED <<holder, running>>
       \/ /\ running' = running \cup {about[c]}
          /\ holder' = c
          /\ pc' = [pc EXCEPT ![c] = "register"]
          /\ UNCHANGED reply
    /\ UNCHANGED <<about, pending, signals, registered, rchan>>

\* ... registers rchannel for the job path in jobListener.jobs and unlocks;
\* the tracker records the job as the connection's pending job and waits.
DispatchRegister(c) ==
    /\ pc[c] = "register"
    /\ registered' = registered \cup {about[c]}
    /\ holder' = "nobody"
    /\ pending' = about[c]
    /\ pc' = [pc EXCEPT ![c] = "wait"]
    /\ UNCHANGED <<about, reply, running, signals, rchan>>

\* CheckForRestartReloadRunning: a read check, then "no pending operation"
\* or the same bounded wait on rchannel for the pending job.
CheckForRestartReloadRunning(c, auth) ==
    /\ pc[c] = "idle"
    /\ \/ /\ auth # "allowed"
          /\ Return(c, "unauthorized", None)
          /\ UNCHANGED about
       \/ /\ auth = "allowed" /\ pending = None
          /\ Return(c, "none", None)
          /\ UNCHANGED about
       \/ /\ auth = "allowed" /\ pending # None
          /\ about' = [about EXCEPT ![c] = pending]
          /\ pc' = [pc EXCEPT ![c] = "checkwait"]
          /\ UNCHANGED reply
    /\ UNCHANGED <<pending, running, signals, holder, registered, rchan>>

\* ListUnits (the unit inventory): a read check and read-only queries.
ListUnits(c, auth) ==
    /\ pc[c] = "idle"
    /\ \/ /\ auth # "allowed" /\ Return(c, "unauthorized", None)
       \/ /\ auth = "allowed"
          /\ \E kind \in {"listed", "error"} : Return(c, kind, None)
    /\ UNCHANGED <<about, pending, running, signals, holder, registered, rchan>>

\* The select on rchannel: the first result in the channel, whichever job
\* it belongs to, is reported and the pending job is consumed.
WaitReceive(c) ==
    /\ pc[c] \in {"wait", "checkwait"}
    /\ rchan # <<>>
    /\ Return(c, "result", Head(rchan))
    /\ rchan' = Tail(rchan)
    /\ pending' = None
    /\ UNCHANGED <<about, running, signals, holder, registered>>

\* ... or time.After(auth.Timeout) fires first: "still running".
WaitTimeout(c) ==
    /\ pc[c] \in {"wait", "checkwait"}
    /\ Return(c, "running", None)
    /\ UNCHANGED <<about, pending, running, signals, holder, registered, rchan>>

\* A tool call's bounded wait ends one way or the other.
WaitStep(c) == WaitReceive(c) \/ WaitTimeout(c)
-----------------------------------------------------------------------------
\* systemd finishes job j of this connection and emits JobRemoved.
Finish(j) ==
    /\ j \in running
    /\ running' = running \ {j}
    /\ signals' = Append(signals, j)
    /\ UNCHANGED <<pc, about, reply, pending, holder, registered, rchan>>

\* A job of another client finishes; the signal goroutine sees its
\* JobRemoved too (one such signal at a time is enough to exercise it).
ForeignFinish ==
    /\ Foreign \notin SeqElems(signals)
    /\ signals' = Append(signals, Foreign)
    /\ UNCHANGED <<pc, about, reply, pending, running, holder, registered, rchan>>

\* jobComplete for the next signal takes the jobListener lock ...
ListenerLock ==
    /\ holder = "nobody" /\ signals # <<>>
    /\ holder' = "listener"
    /\ UNCHANGED <<pc, about, reply, pending, running, signals, registered, rchan>>

\* ... looks the job up in jobListener.jobs: a registered job's result is
\* sent on its channel (blocking while rchannel is full) and the entry
\* deleted; an unknown job is ignored.  Then it unlocks.
ListenerDeliver ==
    /\ holder = "listener"
    /\ \/ /\ Head(signals) \in registered
          /\ Len(rchan) < RCap
          /\ rchan' = Append(rchan, Head(signals))
          /\ registered' = registered \ {Head(signals)}
       \/ /\ Head(signals) \notin registered
          /\ UNCHANGED <<rchan, registered>>
    /\ signals' = Tail(signals)
    /\ holder' = "nobody"
    /\ UNCHANGED <<pc, about, reply, pending, running>>
-----------------------------------------------------------------------------
Next ==
    \/ \E c \in Callers :
          \/ \E a \in Requests, auth \in AuthAnswers : ChangeUnitState(c, a, auth)
          \/ DispatchCall(c)
          \/ DispatchRegister(c)
          \/ \E auth \in AuthAnswers : CheckForRestartReloadRunning(c, auth)
          \/ \E auth \in AuthAnswers : ListUnits(c, auth)
          \/ WaitStep(c)
    \/ \E j \in Jobs : Finish(j)
    \/ ForeignFinish
    \/ ListenerLock
    \/ ListenerDeliver

\* Runnable goroutines are scheduled (tool calls, go-systemd's signal
\* goroutine), timers fire, and systemd finishes every job it runs.  A
\* goroutine waiting for the jobListener lock gets it even if the lock is
\* taken again and again: sync.Mutex hands it over to a waiter that has
\* waited over a millisecond (starvation mode), hence strong fairness on
\* the two lock acquisitions.  Which calls clients make, and other
\* clients' jobs, are not constrained.
Fairness ==
    /\ \A c \in Callers : /\ SF_vars(DispatchCall(c))
                          /\ WF_vars(DispatchRegister(c))
                          /\ WF_vars(WaitStep(c))
    /\ \A j \in Jobs : WF_vars(Finish(j))
    /\ SF_vars(ListenerLock) /\ WF_vars(ListenerDeliver)

Spec == Init /\ [][Next]_vars /\ Fairness
-----------------------------------------------------------------------------
\* A job result a tool call reports belongs to the job that call is about:
\* change_unit_state reports its own job's outcome, check_restart_reload
\* that of the pending job, never a late result of another job taken from
\* the shared rchannel (section 5: "MUST NOT silently misattribute").
ResultToOwnJob ==
    \A c \in Callers : reply[c].kind = "result" => reply[c].job = reply[c].about

\* No completion of this connection's jobs is dropped: when jobComplete
\* holds the lock for one of our jobs, startJob has already registered it,
\* although systemd may finish the job before the D-Bus call returns.
OwnCompletionRegistered ==
    holder = "listener" /\ Head(signals) # Foreign => Head(signals) \in registered

\* Every tool call returns: the wait is bounded by the timeout, and a
\* dispatch is never blocked for good on the jobListener lock of a signal
\* goroutine stuck sending on a full rchannel (section 5: "every blocking
\* wait is bounded by the configured timeout").
CallsReturn == \A c \in Callers : pc[c] # "idle" ~> pc[c] = "idle"
=============================================================================

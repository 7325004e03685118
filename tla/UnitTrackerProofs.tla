------------------------- MODULE UnitTrackerProofs --------------------------
(***************************************************************************)
(* Proofs about UnitTracker, for any callers, job paths and channel        *)
(* capacity: type correctness, and that go-systemd's jobListener lock      *)
(* keeps jobComplete from ever finding one of this connection's jobs       *)
(* unregistered, so no completion of ours is dropped.                      *)
(***************************************************************************)
EXTENDS UnitTracker, FiniteSetTheorems, SequenceTheorems, TLAPS

USE TrackerAssumption

\* The signal values: this connection's job paths and other clients' jobs.
SigVals == Jobs \cup {Foreign}

\* The type invariant, strengthened by two facts the steps rely on: a call
\* inside or about to enter startJob has been handed a job path, and the
\* signal goroutine holds the lock only with a signal to handle.
TypeInv ==
    /\ TypeOK
    /\ \A c \in Callers : pc[c] \in {"dispatch", "register"} => about[c] \in Jobs
    /\ holder = "listener" => signals # <<>>

\* No value occurs twice in a sequence.
Distinct(s) == \A i, k \in 1..Len(s) : i # k => s[i] # s[k]

\* The calls that have been handed a job path and not yet registered it.
Claiming == {c \in Callers : pc[c] \in {"dispatch", "register"}}

-----------------------------------------------------------------------------
\* A step that ends a call with Return, leaves the calls' jobs, the lock,
\* the running and registered jobs and the signals alone and keeps pending
\* and rchannel in their domains, preserves TypeInv.
LEMMA ReturnInv ==
    ASSUME TypeInv, NEW c \in Callers, NEW kind \in ReplyKinds,
           NEW job \in Jobs \cup {None}, Return(c, kind, job),
           about' = about, running' = running, signals' = signals,
           holder' = holder, registered' = registered,
           pending' \in Jobs \cup {None},
           rchan' \in Seq(Jobs), Len(rchan') <= RCap
    PROVE  TypeInv'
BY DEF Return, TypeInv, TypeOK, Reply, PCs

\* The initial state satisfies TypeInv.
LEMMA TypeInit == Init => TypeInv
BY EmptySeq DEF Init, TypeInv, TypeOK, Reply, ReplyKinds, PCs

\* Every step preserves TypeInv.
LEMMA TypeStep == TypeInv /\ [Next]_vars => TypeInv'
<1> SUFFICES ASSUME TypeInv, [Next]_vars PROVE TypeInv'
  OBVIOUS
<1> USE DEF ReplyKinds, PCs
<1>1. ASSUME NEW c \in Callers, NEW a \in Requests, NEW auth \in AuthAnswers,
             ChangeUnitState(c, a, auth)
      PROVE  TypeInv'
  <2> USE DEF TypeInv, TypeOK
  <2>1. CASE auth = "allowed" /\ a \in AsyncActions
    <3>1. PICK j \in Jobs \ InUse : about' = [about EXCEPT ![c] = j]
      BY <1>1, <2>1 DEF ChangeUnitState, AsyncActions, SyncActions
    <3>2. pc' = [pc EXCEPT ![c] = "dispatch"]
          /\ UNCHANGED <<reply, pending, running, signals, holder, registered, rchan>>
      BY <1>1, <2>1 DEF ChangeUnitState, AsyncActions, SyncActions
    <3>3. QED
      BY <3>1, <3>2
  <2>2. CASE ~(auth = "allowed" /\ a \in AsyncActions)
    <3>1. \E kind \in ReplyKinds : Return(c, kind, None)
      BY <1>1, <2>2 DEF ChangeUnitState
    <3>2. UNCHANGED <<about, pending, running, signals, holder, registered, rchan>>
      BY <1>1, <2>2 DEF ChangeUnitState
    <3>3. QED
      BY <3>1, <3>2, ReturnInv
  <2>3. QED
    BY <2>1, <2>2
<1>2. ASSUME NEW c \in Callers, DispatchCall(c) PROVE TypeInv'
  <2>1. UNCHANGED <<about, pending, signals, registered, rchan>>
    BY <1>2 DEF DispatchCall
  <2>2. CASE Return(c, "error", None) /\ UNCHANGED <<holder, running>>
    BY <2>1, <2>2, ReturnInv DEF TypeInv, TypeOK
  <2>3. CASE /\ running' = running \cup {about[c]}
             /\ holder' = c
             /\ pc' = [pc EXCEPT ![c] = "register"]
             /\ UNCHANGED reply
    BY <1>2, <2>1, <2>3 DEF DispatchCall, TypeInv, TypeOK
  <2>4. QED
    BY <1>2, <2>2, <2>3 DEF DispatchCall
<1>3. ASSUME NEW c \in Callers, DispatchRegister(c) PROVE TypeInv'
  BY <1>3 DEF DispatchRegister, TypeInv, TypeOK
<1>4. ASSUME NEW c \in Callers, NEW auth \in AuthAnswers,
             CheckForRestartReloadRunning(c, auth)
      PROVE  TypeInv'
  <2>1. CASE auth = "allowed" /\ pending # None
    BY <1>4, <2>1 DEF CheckForRestartReloadRunning, TypeInv, TypeOK
  <2>2. CASE ~(auth = "allowed" /\ pending # None)
    <3>1. \E kind \in ReplyKinds : Return(c, kind, None)
      BY <1>4, <2>2 DEF CheckForRestartReloadRunning
    <3>2. UNCHANGED <<about, pending, running, signals, holder, registered, rchan>>
      BY <1>4, <2>2 DEF CheckForRestartReloadRunning
    <3>3. QED
      BY <3>1, <3>2, ReturnInv DEF TypeInv, TypeOK
  <2>3. QED
    BY <2>1, <2>2
<1>5. ASSUME NEW c \in Callers, NEW auth \in AuthAnswers, ListUnits(c, auth)
      PROVE  TypeInv'
  <2>1. \E kind \in ReplyKinds : Return(c, kind, None)
    BY <1>5 DEF ListUnits
  <2>2. QED
    BY <1>5, <2>1, ReturnInv DEF ListUnits, TypeInv, TypeOK
<1>6. ASSUME NEW c \in Callers, WaitReceive(c) PROVE TypeInv'
  <2>1. Head(rchan) \in Jobs /\ Tail(rchan) \in Seq(Jobs)
        /\ Len(Tail(rchan)) = Len(rchan) - 1
    BY <1>6, HeadTailProperties DEF WaitReceive, TypeInv, TypeOK
  <2>2. Len(rchan') <= RCap
    BY <1>6, <2>1 DEF WaitReceive, TypeInv, TypeOK
  <2>3. QED
    BY <1>6, <2>1, <2>2, ReturnInv DEF WaitReceive
<1>7. ASSUME NEW c \in Callers, WaitTimeout(c) PROVE TypeInv'
  BY <1>7, ReturnInv DEF WaitTimeout, TypeInv, TypeOK
<1>8. ASSUME NEW j \in Jobs, Finish(j) PROVE TypeInv'
  <2>1. signals' \in Seq(SigVals) /\ signals' # <<>>
    BY <1>8, AppendProperties, EmptySeq DEF Finish, TypeInv, TypeOK, SigVals
  <2>2. QED
    BY <1>8, <2>1 DEF Finish, TypeInv, TypeOK, SigVals
<1>9. ASSUME ForeignFinish PROVE TypeInv'
  <2>1. signals' \in Seq(SigVals)
    BY <1>9, AppendProperties DEF ForeignFinish, TypeInv, TypeOK, SigVals
  <2>2. QED
    BY <1>9, <2>1 DEF ForeignFinish, TypeInv, TypeOK, SigVals
<1>10. ASSUME ListenerLock PROVE TypeInv'
  BY <1>10 DEF ListenerLock, TypeInv, TypeOK
<1>11. ASSUME ListenerDeliver PROVE TypeInv'
  <2>1. Head(signals) \in SigVals /\ Tail(signals) \in Seq(SigVals)
    BY <1>11, HeadTailProperties DEF ListenerDeliver, TypeInv, TypeOK, SigVals
  <2>2. CASE Head(signals) \in registered
    <3>1. Head(signals) \in Jobs
      BY <2>2 DEF TypeInv, TypeOK
    <3>2. rchan' = Append(rchan, Head(signals)) /\ Len(rchan) < RCap
      BY <1>11, <2>2 DEF ListenerDeliver
    <3>3. rchan' \in Seq(Jobs) /\ Len(rchan') = Len(rchan) + 1
      BY <3>1, <3>2, AppendProperties DEF TypeInv, TypeOK
    <3>4. QED
      BY <1>11, <2>1, <2>2, <3>2, <3>3 DEF ListenerDeliver, TypeInv, TypeOK, SigVals
  <2>3. CASE Head(signals) \notin registered
    BY <1>11, <2>1, <2>3 DEF ListenerDeliver, TypeInv, TypeOK, SigVals
  <2>4. QED
    BY <2>2, <2>3
<1>12. CASE UNCHANGED vars
  BY <1>12 DEF vars, TypeInv, TypeOK
<1>13. QED
  BY <1>1, <1>2, <1>3, <1>4, <1>5, <1>6, <1>7, <1>8, <1>9, <1>10, <1>11, <1>12
     DEF Next, WaitStep

\* Every reachable state of the tracker is well typed: replies, job paths,
\* the lock holder, the pending job, the signals and the contents of
\* rchannel stay within their domains.
THEOREM TypeCorrect == Spec => []TypeOK
<1>1. Spec => []TypeInv
  BY TypeInit, TypeStep, PTL DEF Spec
<1>2. QED
  BY <1>1, PTL DEF TypeInv
-----------------------------------------------------------------------------
(***************************************************************************)
(* Why no completion of ours is dropped.  A caller holds the jobListener   *)
(* lock exactly while it is between the D-Bus call and the registration   *)
(* (HoldsLock).  Every job of ours that systemd runs or has signalled is   *)
(* registered, unless it is that caller's (OursRegistered).  A job path is *)
(* signalled at most once and not while it runs (SignalledOnce), and a     *)
(* call about to dispatch holds a path nothing else refers to, distinct    *)
(* from every other claiming call's (FreshClaims): without these two,      *)
(* delivering one completion could unregister a job still to complete.     *)
(***************************************************************************)
HoldsLock == \A c \in Callers : pc[c] = "register" <=> holder = c

OursRegistered ==
    \A j \in running \cup (SeqElems(signals) \ {Foreign}) :
        j \in registered \/ (holder \in Callers /\ about[holder] = j)

SignalledOnce == running \cap SeqElems(signals) = {} /\ Distinct(signals)

FreshClaims ==
    /\ \A c \in Callers :
          pc[c] = "dispatch" =>
             about[c] \notin running \cup SeqElems(signals) \cup registered
    /\ \A c, d \in Claiming : c # d => about[c] # about[d]

\* The inductive invariant behind OwnCompletionRegistered.
LockInv == TypeInv /\ HoldsLock /\ OursRegistered /\ SignalledOnce /\ FreshClaims

\* The values of the empty sequence, and of a sequence after Append.
LEMMA ElemsEmpty == SeqElems(<<>>) = {} /\ Distinct(<<>>)
BY DEF SeqElems, Distinct

LEMMA ElemsAppend ==
    ASSUME NEW s \in Seq(SigVals), NEW x \in SigVals
    PROVE  /\ SeqElems(Append(s, x)) = SeqElems(s) \cup {x}
           /\ Distinct(s) /\ x \notin SeqElems(s) => Distinct(Append(s, x))
<1>1. /\ Len(Append(s, x)) = Len(s) + 1
      /\ \A i \in 1..Len(s) : Append(s, x)[i] = s[i]
      /\ Append(s, x)[Len(s) + 1] = x
      /\ Len(s) \in Nat
  BY AppendProperties, LenProperties
<1>2. SeqElems(Append(s, x)) = SeqElems(s) \cup {x}
  BY <1>1 DEF SeqElems
<1>3. ASSUME Distinct(s), x \notin SeqElems(s) PROVE Distinct(Append(s, x))
  BY <1>1, <1>3 DEF Distinct, SeqElems
<1>4. QED
  BY <1>2, <1>3

\* Taking the head off a sequence: the head was one of its values, the
\* rest are, and in a sequence without repetitions the head is not among
\* the rest, which have no repetitions either.
LEMMA ElemsHeadTail ==
    ASSUME NEW s \in Seq(SigVals), s # <<>>
    PROVE  /\ Head(s) \in SeqElems(s)
           /\ SeqElems(Tail(s)) \subseteq SeqElems(s)
           /\ Distinct(s) => /\ Head(s) \notin SeqElems(Tail(s))
                             /\ Distinct(Tail(s))
<1>1. /\ Len(Tail(s)) = Len(s) - 1
      /\ \A i \in 1..Len(Tail(s)) : Tail(s)[i] = s[i + 1]
      /\ Len(s) \in Nat \ {0}
  BY HeadTailProperties, EmptySeq
<1>2. Head(s) = s[1]
  OBVIOUS
<1>3. Head(s) \in SeqElems(s) /\ SeqElems(Tail(s)) \subseteq SeqElems(s)
  BY <1>1, <1>2 DEF SeqElems
<1>4. ASSUME Distinct(s) PROVE Head(s) \notin SeqElems(Tail(s))
  BY <1>1, <1>2, <1>4 DEF SeqElems, Distinct
<1>5. ASSUME Distinct(s) PROVE Distinct(Tail(s))
  BY <1>1, <1>5 DEF Distinct
<1>6. QED
  BY <1>3, <1>4, <1>5

\* The initial state satisfies LockInv.
LEMMA LockInit == Init => LockInv
BY TypeInit, ElemsEmpty
   DEF Init, LockInv, HoldsLock, OursRegistered, SignalledOnce, FreshClaims, Claiming

\* The four conjuncts of LockInv besides the type.
LockParts == HoldsLock /\ OursRegistered /\ SignalledOnce /\ FreshClaims

\* A step of a caller that is neither in nor about to enter startJob, and
\* stays out of it, touches nothing the lock conjuncts speak of.
LEMMA QuietStep ==
    ASSUME LockInv, TypeInv', NEW c \in Callers,
           pc[c] \notin {"dispatch", "register"},
           pc'[c] \notin {"dispatch", "register"},
           \A d \in Callers \ {c} : pc'[d] = pc[d] /\ about'[d] = about[d],
           UNCHANGED <<running, signals, holder, registered>>
    PROVE  LockParts'
<1> USE DEF LockInv, TypeInv, TypeOK
<1>1. holder # c
  BY DEF HoldsLock
<1>2. Claiming' = Claiming
  BY DEF Claiming
<1>3. HoldsLock'
  BY <1>1 DEF HoldsLock
<1>4. OursRegistered'
  BY <1>1 DEF OursRegistered
<1>5. SignalledOnce'
  BY DEF SignalledOnce, SeqElems, Distinct
<1>6. c \notin Claiming /\ c \notin Claiming'
  BY DEF Claiming
<1>7. \A d \in Callers : pc'[d] = "dispatch"
        => /\ d # c /\ pc[d] = "dispatch" /\ about'[d] = about[d]
  OBVIOUS
<1>8. \A d, e \in Claiming' : d # e => about'[d] # about'[e]
  <2>1. \A d \in Claiming' : d \in Callers \ {c} /\ about'[d] = about[d]
    BY <1>6 DEF Claiming
  <2>2. QED
    BY <1>2, <2>1 DEF FreshClaims
<1>9. FreshClaims'
  BY <1>7, <1>8 DEF FreshClaims
<1>10. QED
  BY <1>3, <1>4, <1>5, <1>9 DEF LockParts

\* An idle caller handed a fresh job path: the path is in no set the
\* invariant speaks of, and differs from every other claiming call's.
LEMMA ClaimStep ==
    ASSUME LockInv, TypeInv', NEW c \in Callers, NEW j \in Jobs \ InUse,
           pc[c] = "idle",
           about' = [about EXCEPT ![c] = j],
           pc' = [pc EXCEPT ![c] = "dispatch"],
           UNCHANGED <<running, signals, holder, registered>>
    PROVE  LockParts'
<1> USE DEF LockInv, TypeInv, TypeOK
<1>1. holder # c
  BY DEF HoldsLock
<1>2. j \notin running \cup SeqElems(signals) \cup registered
  BY DEF InUse
<1>3. \A d \in Claiming : about[d] # j
  BY DEF InUse, Claiming
<1>4. Claiming' = Claiming \cup {c}
  BY DEF Claiming
<1>5. HoldsLock'
  BY <1>1 DEF HoldsLock
<1>6. OursRegistered'
  BY <1>1 DEF OursRegistered
<1>7. SignalledOnce'
  BY DEF SignalledOnce, SeqElems, Distinct
<1>8. FreshClaims'
  BY <1>2, <1>3, <1>4 DEF FreshClaims, Claiming
<1>9. QED
  BY <1>5, <1>6, <1>7, <1>8 DEF LockParts

\* startJob's D-Bus call: on success the job runs and its caller holds the
\* lock, the only job of ours not registered yet; on failure nothing
\* changes but the caller's pc.
LEMMA DispatchCallStep ==
    ASSUME LockInv, TypeInv', NEW c \in Callers, DispatchCall(c)
    PROVE  LockParts'
<1> USE DEF LockInv, TypeInv, TypeOK
<1>0. pc[c] = "dispatch" /\ holder = "nobody" /\ about[c] \in Jobs
      /\ UNCHANGED <<about, signals, registered>>
  BY DEF DispatchCall
<1>1. \A d \in Callers : pc[d] # "register"
  BY <1>0 DEF HoldsLock
<1>2. CASE Return(c, "error", None) /\ UNCHANGED <<holder, running>>
  <2>1. pc' = [pc EXCEPT ![c] = "idle"]
    BY <1>2 DEF Return
  <2>2. Claiming' = Claiming \ {c}
    BY <1>0, <2>1 DEF Claiming
  <2>3. HoldsLock'
    BY <1>0, <1>1, <1>2, <2>1 DEF HoldsLock
  <2>4. OursRegistered' /\ SignalledOnce'
    BY <1>0, <1>2 DEF OursRegistered, SignalledOnce, SeqElems, Distinct
  <2>5. FreshClaims'
    BY <1>0, <1>2, <2>1, <2>2 DEF FreshClaims, Claiming
  <2>6. QED
    BY <2>3, <2>4, <2>5 DEF LockParts
<1>3. CASE /\ running' = running \cup {about[c]}
           /\ holder' = c
           /\ pc' = [pc EXCEPT ![c] = "register"]
  <2>1. about[c] \notin running \cup SeqElems(signals) \cup registered
    BY <1>0 DEF FreshClaims
  <2>2. \A d \in Claiming \ {c} : about[d] # about[c]
    BY <1>0 DEF FreshClaims, Claiming
  <2>3. Claiming' = Claiming
    BY <1>0, <1>3 DEF Claiming
  <2>4. HoldsLock'
    BY <1>1, <1>3 DEF HoldsLock
  <2>5. OursRegistered'
    BY <1>0, <1>3 DEF OursRegistered
  <2>6. SignalledOnce'
    BY <1>0, <1>3, <2>1 DEF SignalledOnce, SeqElems, Distinct
  <2>7. FreshClaims'
    BY <1>0, <1>3, <2>1, <2>2, <2>3 DEF FreshClaims, Claiming
  <2>8. QED
    BY <2>4, <2>5, <2>6, <2>7 DEF LockParts
<1>4. QED
  BY <1>2, <1>3 DEF DispatchCall

\* startJob's registration: the job the lock holder started joins the
\* registered jobs as the lock is released.
LEMMA DispatchRegisterStep ==
    ASSUME LockInv, TypeInv', NEW c \in Callers, DispatchRegister(c)
    PROVE  LockParts'
<1> USE DEF LockInv, TypeInv, TypeOK
<1>0. /\ pc[c] = "register" /\ holder = c
      /\ registered' = registered \cup {about[c]} /\ holder' = "nobody"
      /\ pc' = [pc EXCEPT ![c] = "wait"]
      /\ UNCHANGED <<about, running, signals>>
  BY DEF DispatchRegister, HoldsLock
<1>1. \A d \in Callers \ {c} : pc[d] # "register"
  BY <1>0 DEF HoldsLock
<1>2. c \in Claiming /\ Claiming' = Claiming \ {c}
  BY <1>0 DEF Claiming
<1>3. HoldsLock'
  BY <1>0, <1>1 DEF HoldsLock
<1>4. OursRegistered'
  BY <1>0 DEF OursRegistered
<1>5. SignalledOnce'
  BY <1>0 DEF SignalledOnce, SeqElems, Distinct
<1>6. \A d \in Callers : pc'[d] = "dispatch"
        => /\ d # c /\ pc[d] = "dispatch" /\ d \in Claiming
           /\ about[d] # about[c]
  BY <1>0, <1>2 DEF Claiming, FreshClaims
<1>7. FreshClaims'
  BY <1>0, <1>2, <1>6 DEF FreshClaims
<1>8. QED
  BY <1>3, <1>4, <1>5, <1>7 DEF LockParts

\* A finished job of ours moves from running to the signal queue, where it
\* was not yet.
LEMMA FinishStep ==
    ASSUME LockInv, TypeInv', NEW j \in Jobs, Finish(j)
    PROVE  LockParts'
<1> USE DEF LockInv, TypeInv, TypeOK
<1>0. /\ j \in running /\ running' = running \ {j}
      /\ signals' = Append(signals, j)
      /\ UNCHANGED <<pc, about, holder, registered>>
  BY DEF Finish
<1>1. j \notin SeqElems(signals)
  BY <1>0 DEF SignalledOnce
<1>2. /\ SeqElems(signals') = SeqElems(signals) \cup {j}
      /\ Distinct(signals) => Distinct(signals')
  BY <1>0, <1>1, ElemsAppend DEF SigVals
<1>3. running' \cup SeqElems(signals') = running \cup SeqElems(signals)
  BY <1>0, <1>2
<1>4. HoldsLock' /\ OursRegistered'
  BY <1>0, <1>3 DEF HoldsLock, OursRegistered
<1>5. SignalledOnce'
  BY <1>0, <1>2 DEF SignalledOnce
<1>6. FreshClaims'
  BY <1>0, <1>3 DEF FreshClaims, Claiming
<1>7. QED
  BY <1>4, <1>5, <1>6 DEF LockParts

\* Another client's JobRemoved joins the queue; it is none of our jobs.
LEMMA ForeignStep ==
    ASSUME LockInv, TypeInv', ForeignFinish
    PROVE  LockParts'
<1> USE DEF LockInv, TypeInv, TypeOK
<1>0. /\ Foreign \notin SeqElems(signals)
      /\ signals' = Append(signals, Foreign)
      /\ UNCHANGED <<pc, about, running, holder, registered>>
  BY DEF ForeignFinish
<1>1. /\ SeqElems(signals') = SeqElems(signals) \cup {Foreign}
      /\ Distinct(signals) => Distinct(signals')
  BY <1>0, ElemsAppend DEF SigVals
<1>2. Foreign \notin running
      /\ \A c \in Callers : pc[c] = "dispatch" => about[c] # Foreign
  OBVIOUS
<1>3. HoldsLock' /\ OursRegistered'
  BY <1>0, <1>1 DEF HoldsLock, OursRegistered
<1>4. SignalledOnce'
  BY <1>0, <1>1, <1>2 DEF SignalledOnce
<1>5. FreshClaims'
  BY <1>0, <1>1, <1>2 DEF FreshClaims, Claiming
<1>6. QED
  BY <1>3, <1>4, <1>5 DEF LockParts

\* The signal goroutine takes the free lock: no call is registering, so
\* every job of ours is registered already.
LEMMA ListenerLockStep ==
    ASSUME LockInv, TypeInv', ListenerLock
    PROVE  LockParts'
<1> USE DEF LockInv, TypeInv, TypeOK
<1>0. holder = "nobody" /\ holder' = "listener"
      /\ UNCHANGED <<pc, about, running, signals, registered>>
  BY DEF ListenerLock
<1>1. \A c \in Callers : pc[c] # "register"
  BY <1>0 DEF HoldsLock
<1>2. QED
  BY <1>0, <1>1
  DEF LockParts, HoldsLock, OursRegistered, SignalledOnce, FreshClaims,
      Claiming

\* jobComplete delivers or ignores the head signal and unlocks: the head
\* was signalled once and is no longer running, so dropping it from the
\* registered jobs leaves every other job of ours registered.
LEMMA DeliverStep ==
    ASSUME LockInv, TypeInv', ListenerDeliver
    PROVE  LockParts'
<1> USE DEF LockInv, TypeInv, TypeOK
<1>0. /\ holder = "listener" /\ signals # <<>> /\ holder' = "nobody"
      /\ signals' = Tail(signals)
      /\ registered' \subseteq registered
      /\ registered \ registered' \subseteq {Head(signals)}
      /\ UNCHANGED <<pc, about, running>>
  BY DEF ListenerDeliver
<1>1. /\ Head(signals) \in SeqElems(signals)
      /\ SeqElems(Tail(signals)) \subseteq SeqElems(signals)
      /\ Head(signals) \notin SeqElems(Tail(signals))
      /\ Distinct(Tail(signals))
  BY <1>0, ElemsHeadTail DEF SigVals, SignalledOnce
<1>2. \A c \in Callers : pc[c] # "register"
  BY <1>0 DEF HoldsLock
<1>3. Head(signals) \notin running
  BY <1>1 DEF SignalledOnce
<1>4. \A j \in running \cup (SeqElems(signals) \ {Foreign}) : j \in registered
  BY <1>0 DEF OursRegistered
<1>5. OursRegistered'
  BY <1>0, <1>1, <1>3, <1>4 DEF OursRegistered
<1>6. HoldsLock' /\ SignalledOnce'
  BY <1>0, <1>1, <1>2 DEF HoldsLock, SignalledOnce
<1>7. FreshClaims'
  BY <1>0, <1>1 DEF FreshClaims, Claiming
<1>8. QED
  BY <1>5, <1>6, <1>7 DEF LockParts

\* A return to idle of a caller outside startJob is a quiet step.
LEMMA ReturnQuiet ==
    ASSUME LockInv, TypeInv', NEW c \in Callers, NEW kind, NEW job,
           pc[c] \notin {"dispatch", "register"},
           Return(c, kind, job),
           UNCHANGED <<about, running, signals, holder, registered>>
    PROVE  LockParts'
BY QuietStep DEF Return, LockInv, TypeInv, TypeOK

LEMMA LockStep == LockInv /\ [Next]_vars => LockInv'
<1> SUFFICES ASSUME LockInv, [Next]_vars PROVE LockInv'
  OBVIOUS
<1>0. TypeInv'
  BY TypeStep DEF LockInv
<1> SUFFICES LockParts'
  BY <1>0 DEF LockInv, LockParts
<1> USE DEF ReplyKinds
<1>1. ASSUME NEW c \in Callers, NEW a \in Requests, NEW auth \in AuthAnswers,
             ChangeUnitState(c, a, auth)
      PROVE  LockParts'
  <2>1. CASE auth = "allowed" /\ a \in AsyncActions
    <3>1. PICK j \in Jobs \ InUse : about' = [about EXCEPT ![c] = j]
      BY <1>1, <2>1 DEF ChangeUnitState, AsyncActions, SyncActions
    <3>2. /\ pc[c] = "idle" /\ pc' = [pc EXCEPT ![c] = "dispatch"]
          /\ UNCHANGED <<running, signals, holder, registered>>
      BY <1>1, <2>1 DEF ChangeUnitState, AsyncActions, SyncActions
    <3>3. QED
      BY <1>0, <3>1, <3>2, ClaimStep
  <2>2. CASE ~(auth = "allowed" /\ a \in AsyncActions)
    <3>1. PICK kind \in ReplyKinds : Return(c, kind, None)
      BY <1>1, <2>2 DEF ChangeUnitState
    <3>2. pc[c] = "idle"
          /\ UNCHANGED <<about, running, signals, holder, registered>>
      BY <1>1, <2>2 DEF ChangeUnitState
    <3>3. QED
      BY <1>0, <3>1, <3>2, ReturnQuiet
  <2>3. QED
    BY <2>1, <2>2
<1>2. ASSUME NEW c \in Callers, DispatchCall(c) PROVE LockParts'
  BY <1>0, <1>2, DispatchCallStep
<1>3. ASSUME NEW c \in Callers, DispatchRegister(c) PROVE LockParts'
  BY <1>0, <1>3, DispatchRegisterStep
<1>4. ASSUME NEW c \in Callers, NEW auth \in AuthAnswers,
             CheckForRestartReloadRunning(c, auth)
      PROVE  LockParts'
  <2>1. CASE auth = "allowed" /\ pending # None
    <3>1. /\ pc[c] = "idle"
          /\ about' = [about EXCEPT ![c] = pending]
          /\ pc' = [pc EXCEPT ![c] = "checkwait"]
          /\ UNCHANGED <<running, signals, holder, registered>>
      BY <1>4, <2>1 DEF CheckForRestartReloadRunning
    <3>2. QED
      BY <1>0, <3>1, QuietStep DEF LockInv, TypeInv, TypeOK
  <2>2. CASE ~(auth = "allowed" /\ pending # None)
    <3>1. PICK kind \in ReplyKinds : Return(c, kind, None)
      BY <1>4, <2>2 DEF CheckForRestartReloadRunning
    <3>2. pc[c] = "idle"
          /\ UNCHANGED <<about, running, signals, holder, registered>>
      BY <1>4, <2>2 DEF CheckForRestartReloadRunning
    <3>3. QED
      BY <1>0, <3>1, <3>2, ReturnQuiet
  <2>3. QED
    BY <2>1, <2>2
<1>5. ASSUME NEW c \in Callers, NEW auth \in AuthAnswers, ListUnits(c, auth)
      PROVE  LockParts'
  <2>1. PICK kind \in ReplyKinds : Return(c, kind, None)
    BY <1>5 DEF ListUnits
  <2>2. pc[c] = "idle"
        /\ UNCHANGED <<about, running, signals, holder, registered>>
    BY <1>5 DEF ListUnits
  <2>3. QED
    BY <1>0, <2>1, <2>2, ReturnQuiet
<1>6. ASSUME NEW c \in Callers, WaitStep(c) PROVE LockParts'
  <2>1. PICK kind \in ReplyKinds, job \in Jobs \cup {None} : Return(c, kind, job)
    <3>1. CASE WaitReceive(c)
      <4>1. rchan # <<>> /\ Head(rchan) \in Jobs
        BY <3>1, HeadTailProperties DEF WaitReceive, LockInv, TypeInv, TypeOK
      <4>2. QED
        BY <3>1, <4>1 DEF WaitReceive
    <3>2. CASE WaitTimeout(c)
      BY <3>2 DEF WaitTimeout
    <3>3. QED
      BY <1>6, <3>1, <3>2 DEF WaitStep
  <2>2. pc[c] \in {"wait", "checkwait"}
        /\ UNCHANGED <<about, running, signals, holder, registered>>
    BY <1>6 DEF WaitStep, WaitReceive, WaitTimeout
  <2>3. QED
    BY <1>0, <2>1, <2>2, ReturnQuiet
<1>7. ASSUME NEW j \in Jobs, Finish(j) PROVE LockParts'
  BY <1>0, <1>7, FinishStep
<1>8. CASE ForeignFinish
  BY <1>0, <1>8, ForeignStep
<1>9. CASE ListenerLock
  BY <1>0, <1>9, ListenerLockStep
<1>10. CASE ListenerDeliver
  BY <1>0, <1>10, DeliverStep
<1>11. CASE UNCHANGED vars
  BY <1>11
  DEF vars, LockInv, LockParts, HoldsLock, OursRegistered, SignalledOnce,
      FreshClaims, Claiming, SeqElems, Distinct
<1>12. QED
  BY <1>1, <1>2, <1>3, <1>4, <1>5, <1>6, <1>7, <1>8, <1>9, <1>10, <1>11
  DEF Next

\* The signal goroutine never looks up a completion of this connection's
\* own job before startJob has registered it (go-systemd holds jobListener
\* across the D-Bus call and the registration), for any number of callers,
\* job paths and any rchannel capacity.
THEOREM OwnCompletionsNeverDropped == Spec => []OwnCompletionRegistered
<1>1. Init => LockInv
  BY LockInit
<1>2. LockInv /\ [Next]_vars => LockInv'
  BY LockStep
<1>3. LockInv => OwnCompletionRegistered
  <2> SUFFICES ASSUME LockInv, holder = "listener", Head(signals) # Foreign
               PROVE  Head(signals) \in registered
    BY DEF OwnCompletionRegistered
  <2>1. signals # <<>> /\ signals \in Seq(SigVals)
    BY DEF LockInv, TypeInv, TypeOK, SigVals
  <2>2. Head(signals) \in SeqElems(signals)
    BY <2>1, ElemsHeadTail
  <2>3. holder \notin Callers
    BY DEF LockInv
  <2>4. QED
    BY <2>2, <2>3 DEF LockInv, OursRegistered
<1>4. QED
  BY <1>1, <1>2, <1>3, PTL DEF Spec
=============================================================================

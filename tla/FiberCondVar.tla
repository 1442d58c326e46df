---------------------------- MODULE FiberCondVar ----------------------------
(***************************************************************************)
(* pulsar::FiberConditionVariable together with the FiberMutex its callers *)
(* hold (sync.cpp, sync.hpp).  wait() keeps the condition's own guard_     *)
(* from before it releases the mutex until it has enqueued the fiber, so   *)
(* here that guard is state: a notifier waits for it.                      *)
(***************************************************************************)
EXTENDS FiberMutex

ASSUME FiberCondVarAssumption == "cond" \in Queues

VARIABLES
  cvGuard,  \* who holds the condition's guard_
  stage,    \* where each fiber is in FiberConditionVariable::wait
  failed    \* wait_error of that call is not 0

condVars == <<cvGuard, stage, failed>>
cvVars == <<fmVars, condVars>>

\* guarded: has guard_; released: and has released the mutex; waiting: in
\* waitLocked(); relock: in mutex.lock().
Stages == {"out", "guarded", "released", "waiting", "relock"}

CVInit ==
  /\ FMInit
  /\ cvGuard = None
  /\ stage = [f \in Fibers |-> "out"]
  /\ failed = [f \in Fibers |-> FALSE]

CVTypeOK ==
  /\ FMTypeOK
  /\ cvGuard \in Fibers \cup {None}
  /\ stage \in [Fibers -> Stages]
  /\ failed \in [Fibers -> BOOLEAN]
----------------------------------------------------------------------------
\* wait() by the owner of the mutex takes guard_ (EPERM for anyone else).
\* withTimeout and now: a timeout_ms other than kFiberWaitForever, and 0.
CondEnter(f, withTimeout, now) ==
  /\ pc[f] = "idle" /\ stage[f] = "out" /\ owner = f /\ cvGuard = None
  /\ wait[f] + 1 < MaxWaits
  /\ cvGuard' = f
  /\ stage' = [stage EXCEPT ![f] = "guarded"]
  /\ timed' = [timed EXCEPT ![f] = withTimeout]
  /\ late' = [late EXCEPT ![f] = withTimeout /\ now]
  /\ UNCHANGED <<waiters, pc, where, wait, error, ret, tasks, armed, fired, mutexVars, failed>>

\* mutex.unlock() inside wait().
CondRelease(f) ==
  /\ stage[f] = "guarded"
  /\ Release
  /\ stage' = [stage EXCEPT ![f] = "released"]
  /\ UNCHANGED <<pc, where, wait, ret, timed, late, armed, fired, cvGuard, failed>>

\* waitLocked() enqueues the fiber and drops guard_ ...
CondPush(f) ==
  /\ stage[f] = "released" /\ f \notin Outsiders /\ ~late[f]
  /\ pushWaiter(f, "cond")
  /\ cvGuard' = None
  /\ stage' = [stage EXCEPT ![f] = "waiting"]
  /\ UNCHANGED <<mutexVars, failed>>

\* Mutant of relock: the lock() has the timeout of the wait().
relockTimed(f, waitFailed) ==
  /\ pc' = [pc EXCEPT ![f] = "call"]
  /\ stage' = [stage EXCEPT ![f] = "relock"]
  /\ failed' = [failed EXCEPT ![f] = waitFailed]
  /\ UNCHANGED <<waiters, where, wait, error, ret, timed, late, tasks, armed, fired, mutexVars>>

\* mutex.lock(), without a timeout, at the end of wait().
relock(f, waitFailed) ==
  /\ pc' = [pc EXCEPT ![f] = "call"]
  /\ stage' = [stage EXCEPT ![f] = "relock"]
  /\ failed' = [failed EXCEPT ![f] = waitFailed]
  /\ timed' = [timed EXCEPT ![f] = FALSE]
  /\ late' = [late EXCEPT ![f] = FALSE]
  /\ UNCHANGED <<waiters, where, wait, error, ret, tasks, armed, fired, mutexVars>>

\* ... or refuses to wait: no scheduler, or a timeout of 0.
CondRefused(f) ==
  /\ stage[f] = "released" /\ (f \in Outsiders \/ late[f])
  /\ cvGuard' = None
  /\ relock(f, TRUE)

CondWoken(f) ==
  /\ stage[f] = "waiting" /\ pc[f] = "returned" /\ where[f] = "cond"
  /\ relock(f, ret[f] # "OK")
  /\ UNCHANGED cvGuard

\* mutex.lock() has returned, with the mutex or with an error.
CondReturn(f) ==
  /\ stage[f] = "relock" /\ pc[f] = "idle"
  /\ stage' = [stage EXCEPT ![f] = "out"]
  /\ failed' = [failed EXCEPT ![f] = FALSE]
  /\ UNCHANGED <<fmVars, cvGuard>>

CondStep(f) ==
  CondRelease(f) \/ CondPush(f) \/ CondRefused(f) \/ CondWoken(f) \/ CondReturn(f)

\* Mutant of NotifyReady: notifiers do not lock guard_.
NotifyReadyUnguarded == TRUE

\* The notifiers' sections under guard_ need it free.
NotifyReady == cvGuard = None

NotifyOne ==
  /\ NotifyReady
  /\ IF waiters["cond"] # <<>>
       THEN wakeOneLocked("cond", "OK")
       ELSE UNCHANGED <<waiters, error, tasks>>
  /\ UNCHANGED <<pc, where, wait, ret, timed, late, armed, fired, mutexVars, condVars>>

\* notifyAll() with e = "OK", cancelWaiters() with e = "ECANCELED".
NotifyAll(e) ==
  /\ NotifyReady /\ waiters["cond"] # <<>>
  /\ wakeAllLocked("cond", e)
  /\ UNCHANGED <<pc, where, wait, ret, timed, late, armed, fired, mutexVars, condVars>>

\* The fiber's own calls of lock() and unlock(), outside wait().
UserLock(f) == stage[f] = "out" /\ Lock(f, FALSE) /\ UNCHANGED condVars
UserUnlock(f) == stage[f] = "out" /\ Unlock(f) /\ UNCHANGED condVars

CVInternal ==
  \/ WQStep /\ UNCHANGED <<mutexVars, condVars>>
  \/ \E f \in Fibers : CondStep(f) \/ (LockStep(f) /\ UNCHANGED condVars)

----------------------------------------------------------------------------
\* sync.hpp:64 and sync.cpp:192-193: wait() returns with the mutex held
\* again, whether it was notified, cancelled, timed out or refused to wait.
\* That needs a lock() that cannot fail: see README, deviations.
MutexReacquired ==
  [][\A f \in Fibers : stage[f] = "relock" /\ stage'[f] = "out" => owner = f]_cvVars
============================================================================

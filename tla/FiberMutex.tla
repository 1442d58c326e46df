----------------------------- MODULE FiberMutex -----------------------------
(***************************************************************************)
(* pulsar::FiberMutex (sync.cpp, sync.hpp): a mutex whose lock() parks the *)
(* fiber.  unlock() reserves the mutex (handoff_) for the waiter it wakes, *)
(* so that no fiber that arrives meanwhile can take it first.              *)
(*                                                                         *)
(* The sections under guard_ are the actions.  The local selected_waiter   *)
(* of lock() is the position in its loop: it is true exactly when the loop *)
(* is entered again after a wait that returned 0.  A try_lock() that fails *)
(* (EBUSY, EDEADLK) and an unlock() by another fiber (EPERM) change        *)
(* nothing and are not steps.                                              *)
(***************************************************************************)
EXTENDS WaitQueue

CONSTANT None   \* no owner

ASSUME FiberMutexAssumption ==
  /\ None \notin Fibers
  /\ "mutex" \in Queues

VARIABLES
  owner,    \* owner_
  handoff   \* handoff_

mutexVars == <<owner, handoff>>
fmVars == <<wqVars, mutexVars>>

MutexInit ==
  /\ owner = None
  /\ handoff = FALSE

FMInit == WQInit /\ MutexInit

FMTypeOK ==
  /\ WQTypeOK
  /\ owner \in Fibers \cup {None}
  /\ handoff \in BOOLEAN
----------------------------------------------------------------------------
\* lock(timeout_ms) is called: the deadline is computed, the loop entered.
Lock(f, withTimeout) ==
  /\ pc[f] = "idle" /\ wait[f] < MaxWaits
  /\ enterCall(f, withTimeout)
  /\ UNCHANGED mutexVars

\* The loop of lock() is entered the first time, or again after a wait.
AtLoop(f) ==
  \/ pc[f] = "call"
  \/ pc[f] = "returned" /\ where[f] = "mutex" /\ ret[f] = "OK"

SelectedWaiter(f) == pc[f] = "returned"

\* Mutant of Available: handoff_ is ignored.
AvailableBarging(f) == owner = None

\* May f take the mutex in this iteration?
Available(f) == owner = None /\ (~handoff \/ SelectedWaiter(f))

LockAcquire(f) ==
  /\ AtLoop(f) /\ Available(f)
  /\ owner' = f
  /\ handoff' = FALSE
  /\ leaveCall(f)

\* EDEADLK: the fiber owns the mutex already.
LockReentrant(f) ==
  /\ AtLoop(f) /\ ~Available(f) /\ owner = f
  /\ leaveCall(f)
  /\ UNCHANGED mutexVars

\* ETIMEDOUT: the deadline has passed before the fiber could queue.
LockExpired(f) ==
  /\ AtLoop(f) /\ ~Available(f) /\ owner # f
  /\ timed[f] /\ late[f]
  /\ leaveCall(f)
  /\ UNCHANGED mutexVars

\* EINVAL: waitLocked() does not wait on a thread without a scheduler.
LockRefused(f) ==
  /\ AtLoop(f) /\ ~Available(f) /\ owner # f
  /\ ~(timed[f] /\ late[f]) /\ f \in Outsiders
  /\ leaveCall(f)
  /\ UNCHANGED mutexVars

LockWait(f) ==
  /\ AtLoop(f) /\ ~Available(f) /\ owner # f
  /\ ~(timed[f] /\ late[f]) /\ f \notin Outsiders
  /\ wait[f] < MaxWaits
  /\ pushWaiter(f, "mutex")
  /\ UNCHANGED mutexVars

\* The wait failed: lock() returns -1 with the errno of the wait.
LockFailed(f) ==
  /\ pc[f] = "returned" /\ where[f] = "mutex" /\ ret[f] # "OK"
  /\ leaveCall(f)
  /\ UNCHANGED mutexVars

LockStep(f) ==
  \/ LockAcquire(f) \/ LockReentrant(f) \/ LockExpired(f)
  \/ LockRefused(f) \/ LockWait(f) \/ LockFailed(f)

TryLock(f) ==
  /\ pc[f] = "idle"
  /\ owner = None /\ ~handoff
  /\ owner' = f
  /\ UNCHANGED <<wqVars, handoff>>

\* Mutant of Release: the waiter is woken but the mutex not reserved for it.
ReleaseWithoutHandoff ==
  /\ owner' = None
  /\ handoff' = FALSE
  /\ IF waiters["mutex"] # <<>>
       THEN wakeOneLocked("mutex", "OK")
       ELSE UNCHANGED <<waiters, error, tasks>>

\* The effect of unlock() by the owner on the mutex and its queue.
Release ==
  /\ owner' = None
  /\ handoff' = (waiters["mutex"] # <<>>)
  /\ IF waiters["mutex"] # <<>>
       THEN wakeOneLocked("mutex", "OK")
       ELSE UNCHANGED <<waiters, error, tasks>>

Unlock(f) ==
  /\ pc[f] = "idle" /\ owner = f
  /\ Release
  /\ UNCHANGED <<pc, where, wait, ret, timed, late, armed, fired>>

\* cancelWaiters(ECANCELED), from any thread.
CancelWaiters ==
  /\ waiters["mutex"] # <<>>
  /\ wakeAllLocked("mutex", "ECANCELED")
  /\ UNCHANGED <<pc, where, wait, ret, timed, late, armed, fired, owner, handoff>>

FMNext ==
  \/ WQStep /\ UNCHANGED mutexVars
  \/ \E f \in Fibers : \/ \E t \in BOOLEAN : Lock(f, t)
                       \/ LockStep(f) \/ TryLock(f) \/ Unlock(f)
  \/ CancelWaiters

FMSpec == FMInit /\ [][FMNext]_fmVars

\* A step of f's own, on the worker that runs it.
FiberStep(f) == LockStep(f) \/ (WaitLockedStep(f) /\ UNCHANGED mutexVars)

\* Workers keep running their fibers, and an owner unlocks eventually.
FMFairness == \A f \in Fibers : WF_fmVars(FiberStep(f)) /\ SF_fmVars(Unlock(f))

FMFairSpec == FMSpec /\ FMFairness
----------------------------------------------------------------------------
\* f was woken by unlock() and has not taken the mutex yet.
Heir(f) ==
  /\ where[f] = "mutex"
  /\ \/ /\ Waiting(f) \/ pc[f] = "woken"
        /\ ~InQueue(f, "mutex") /\ error[f] = "OK"
     \/ pc[f] = "returned" /\ ret[f] = "OK"

\* Nobody waits for a mutex that is free: when the queue is not empty, the
\* mutex is owned or reserved.  lock() relies on enqueueing under guard_ and
\* unlock() on waking under it; a lost wake-up would break this.
NoIdleQueue == waiters["mutex"] # <<>> => owner # None \/ handoff

\* handoff_ is set exactly while one woken waiter is on its way to take the
\* mutex, and there is never a second one.  A handoff_ without an heir would
\* lock the mutex for ever; an heir without handoff_ could find it taken.
HandoffHasOneHeir ==
  /\ handoff <=> \E f \in Fibers : Heir(f)
  /\ handoff => owner = None
  /\ \A f, g \in Fibers : Heir(f) /\ Heir(g) => f = g

\* No barging: a mutex reserved by unlock() is taken by the waiter unlock()
\* chose, whoever calls lock() or try_lock() in between (sync.hpp:54-56).
NoBarging == [][handoff /\ owner' # owner => Heir(owner')]_fmVars

\* The comment on the defensive branch of waitLocked() (sync.cpp:81-82): a
\* wait that a worker interrupts, its waiter still queued, fails.  This is
\* not so on a plain Scheduler (README, deviations).
InterruptedWaitFails ==
  [][\A f \in Fibers : pc[f] = "woken" /\ pc'[f] = "returned" /\ InQueue(f, where[f])
                         => ret'[f] # "OK"]_fmVars

\* Seen from outside, the mutex is a fair lock with hand-over: owner_ is the
\* holder, the deque the line, and handoff_ names the heir.
ChosenHeir == IF handoff THEN CHOOSE f \in Fibers : Heir(f) ELSE None

Fair == INSTANCE FairLock
          WITH holder <- owner, line <- waiters["mutex"], heir <- ChosenHeir

\* FiberMutex implements the fair lock (refinement of FairLock!Spec).
ImplementsFairLock == Fair!Spec

\* Every lock() returns, timed or not, in spite of new arrivals, when owners
\* unlock: the hand-over serves the queue in its order.
LockReturns == \A f \in Fibers : (pc[f] # "idle") ~> (pc[f] = "idle")
============================================================================

--------------------------- MODULE FiberSemaphore ---------------------------
(***************************************************************************)
(* pulsar::FiberSemaphore (sync.cpp, sync.hpp): a counting semaphore whose *)
(* waiters may ask for different counts.  signal() wakes every waiter and  *)
(* lets them compete for the count.  wait(0) and signal(0) return at once  *)
(* and change nothing, so requests are positive.                           *)
(***************************************************************************)
EXTENDS WaitQueue

CONSTANTS
  Initial,    \* the count the semaphore is made with
  MaxNeed,    \* requests are in 1..MaxNeed
  MaxCount    \* bound: signal() is called while the count stays below it

ASSUME FiberSemaphoreAssumption ==
  /\ "sem" \in Queues
  /\ Initial \in Nat /\ MaxNeed \in Nat /\ MaxCount \in Nat

VARIABLES
  count,  \* count_
  need    \* the count each fiber asks for in its wait()

semVars == <<count, need>>
fsVars == <<wqVars, semVars>>

FSInit ==
  /\ WQInit
  /\ count = Initial
  /\ need = [f \in Fibers |-> 1]

FSTypeOK ==
  /\ WQTypeOK
  /\ count \in Nat
  /\ need \in [Fibers -> Nat]
----------------------------------------------------------------------------
\* wait(n, timeout_ms) is called: the deadline is computed, the loop entered.
Wait(f, n, withTimeout) ==
  /\ pc[f] = "idle" /\ wait[f] < MaxWaits
  /\ need' = [need EXCEPT ![f] = n]
  /\ enterCall(f, withTimeout)
  /\ UNCHANGED count

FSAtLoop(f) == pc[f] = "call" \/ (pc[f] = "returned" /\ ret[f] = "OK")

Enough(f) == count >= need[f]

\* wait() returns; the request is one of its locals.
leaveWait(f) == leaveCall(f) /\ need' = [need EXCEPT ![f] = 1]

WaitAcquire(f) ==
  /\ FSAtLoop(f) /\ Enough(f)
  /\ count' = count - need[f]
  /\ leaveWait(f)

\* ETIMEDOUT: the deadline has passed before the fiber could queue.
WaitExpired(f) ==
  /\ FSAtLoop(f) /\ ~Enough(f) /\ timed[f] /\ late[f]
  /\ leaveWait(f)
  /\ UNCHANGED count

\* EINVAL: waitLocked() does not wait on a thread without a scheduler.
WaitRefused(f) ==
  /\ FSAtLoop(f) /\ ~Enough(f) /\ ~(timed[f] /\ late[f]) /\ f \in Outsiders
  /\ leaveWait(f)
  /\ UNCHANGED count

WaitQueued(f) ==
  /\ FSAtLoop(f) /\ ~Enough(f) /\ ~(timed[f] /\ late[f]) /\ f \notin Outsiders
  /\ wait[f] < MaxWaits
  /\ pushWaiter(f, "sem")
  /\ UNCHANGED semVars

\* The wait failed: wait() returns -1 with the errno of waitLocked().
WaitFailed(f) ==
  /\ pc[f] = "returned" /\ ret[f] # "OK"
  /\ leaveWait(f)
  /\ UNCHANGED count

WaitStep(f) ==
  \/ WaitAcquire(f) \/ WaitExpired(f) \/ WaitRefused(f)
  \/ WaitQueued(f) \/ WaitFailed(f)

\* Mutant of Signal: only the front of the queue is woken.
SignalOne(n) ==
  /\ count + n <= MaxCount
  /\ count' = count + n
  /\ IF waiters["sem"] # <<>>
       THEN wakeOneLocked("sem", "OK")
       ELSE UNCHANGED <<waiters, error, tasks>>
  /\ UNCHANGED <<pc, where, wait, ret, timed, late, armed, fired, need>>

Signal(n) ==
  /\ count + n <= MaxCount
  /\ count' = count + n
  /\ wakeAllLocked("sem", "OK")
  /\ UNCHANGED <<pc, where, wait, ret, timed, late, armed, fired, need>>

\* cancelWaiters(ECANCELED), from any thread.
FSCancelWaiters ==
  /\ waiters["sem"] # <<>>
  /\ wakeAllLocked("sem", "ECANCELED")
  /\ UNCHANGED <<pc, where, wait, ret, timed, late, armed, fired, count, need>>

FSNext ==
  \/ WQStep /\ UNCHANGED semVars
  \/ \E f \in Fibers : \/ \E n \in 1..MaxNeed, t \in BOOLEAN : Wait(f, n, t)
                       \/ WaitStep(f)
  \/ \E n \in 1..MaxNeed : Signal(n)
  \/ FSCancelWaiters

FSSpec == FSInit /\ [][FSNext]_fsVars

\* A step of f's own, on the worker that runs it.
FSFiberStep(f) == WaitStep(f) \/ (WaitLockedStep(f) /\ UNCHANGED semVars)

\* Workers run the fibers and the timers; nobody has to signal.
FSFairness ==
  /\ \A f \in Fibers : /\ WF_fsVars(FSFiberStep(f))
                       /\ WF_fsVars(Expire(f) /\ UNCHANGED semVars)
  /\ WF_fsVars(TimerStep /\ UNCHANGED semVars)

FSFairSpec == FSSpec /\ FSFairness
----------------------------------------------------------------------------
\* No waiter sleeps although its request could be served: a queued waiter
\* asks for more than the count, whatever the others in front of it ask for
\* (the comment in signal(), sync.cpp:248-250).
NoHiddenWaiter == \A f \in Fibers : InQueue(f, "sem") => count < need[f]

\* A wait() whose request the count covers returns or loses the count to
\* another fiber; it does not sleep on.
CoveredWaitEnds ==
  \A f \in Fibers : (pc[f] # "idle" /\ Enough(f)) ~> (pc[f] = "idle" \/ ~Enough(f))

\* A wait() with a timeout returns, also when nobody signals and although it
\* may be woken and have to queue again several times.
TimedWaitReturns == \A f \in Fibers : (pc[f] # "idle" /\ timed[f]) ~> (pc[f] = "idle")
============================================================================

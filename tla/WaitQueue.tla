----------------------------- MODULE WaitQueue -----------------------------
(***************************************************************************)
(* pulsar::WaitQueue (sync.cpp, sync.hpp): the deque of parked fibers that *)
(* FiberMutex, FiberConditionVariable and FiberSemaphore share.            *)
(*                                                                         *)
(* A fiber has at most one Waiter object at a time, so a deque holds       *)
(* fibers, and the flag Waiter::waiting, which changes only together with  *)
(* the deque under the caller's guard, is membership in the deque.  The    *)
(* number wait[f] stands for the identity of f's latest Waiter: a timer    *)
(* keeps a weak_ptr to one particular Waiter, not to the fiber.            *)
(*                                                                         *)
(* Every section that runs under a guard is one action.  completeLocked    *)
(* pins the task to the worker that parked the fiber, so a task of a fiber *)
(* that has not yielded yet stays in the scheduler until it does.          *)
(***************************************************************************)
EXTENDS Deque

CONSTANTS
  Fibers,        \* the fibers that use the primitive
  Outsiders,     \* those of them on a thread without a Scheduler
  Plain,         \* those of them on a Scheduler that is no IOManager
  Queues,        \* the deques of the primitives in the system
  MaxWaits       \* bound on the waits of a fiber in the guards of the primitives

ASSUME WaitQueueAssumption ==
  /\ Outsiders \subseteq Fibers
  /\ Queues # {}
  /\ Plain \subseteq Fibers
  /\ MaxWaits \in Nat

VARIABLES
  waiters,  \* waiters_ of every queue
  pc,       \* where each fiber is in lock() / wait() / waitLocked()
  where,    \* the queue of the fiber's latest wait
  wait,     \* the number of the fiber's latest Waiter object
  error,    \* Waiter::error of that object
  ret,      \* what waitLocked() returned: its errno, "OK" for 0
  timed,    \* the call was given a timeout
  late,     \* the deadline of the call has passed
  tasks,    \* entries for the fiber in the scheduler's queues
  armed,    \* timers in the wheel, as <<fiber, wait number>>
  fired     \* timer callbacks taken from the wheel and not run yet

wqVars == <<waiters, pc, where, wait, error, ret, timed, late, tasks, armed, fired>>

Errors == {"OK", "ETIMEDOUT", "ECANCELED", "ENOTSUP"}

\* idle: outside; call: at the head of the loop of lock()/wait(); queued:
\* pushed, guard released; yielding: timer added; parked: yielded; woken:
\* resumed; returned: waitLocked() has returned to its caller.
Locations == {"idle", "call", "queued", "yielding", "parked", "woken", "returned"}

Waiting(f) == pc[f] \in {"queued", "yielding", "parked"}

InQueue(f, q) == Has(waiters[q], f)

WQInit ==
  /\ waiters = [q \in Queues |-> <<>>]
  /\ pc = [f \in Fibers |-> "idle"]
  /\ where = [f \in Fibers |-> CHOOSE q \in Queues : TRUE]
  /\ wait = [f \in Fibers |-> 0]
  /\ error = [f \in Fibers |-> "OK"]
  /\ ret = [f \in Fibers |-> "OK"]
  /\ timed = [f \in Fibers |-> FALSE]
  /\ late = [f \in Fibers |-> FALSE]
  /\ tasks = [f \in Fibers |-> 0]
  /\ armed = {}
  /\ fired = {}

WQTypeOK ==
  /\ waiters \in [Queues -> Seq(Fibers)]
  /\ pc \in [Fibers -> Locations]
  /\ where \in [Fibers -> Queues]
  /\ wait \in [Fibers -> Nat]
  /\ error \in [Fibers -> Errors]
  /\ ret \in [Fibers -> Errors]
  /\ timed \in [Fibers -> BOOLEAN]
  /\ late \in [Fibers -> BOOLEAN]
  /\ tasks \in [Fibers -> Nat]
  /\ armed \in SUBSET (Fibers \X Nat)
  /\ fired \in SUBSET (Fibers \X Nat)
----------------------------------------------------------------------------
(* Operations the owners of a queue call with their guard held.            *)

\* Mutants of completeLocked: the waiter is not erased; it is not scheduled.
completeLockedKeeping(f, q, e) ==
  /\ UNCHANGED waiters
  /\ error' = [error EXCEPT ![f] = e]
  /\ tasks' = [tasks EXCEPT ![f] = @ + 1]

completeLockedUnscheduled(f, q, e) ==
  /\ waiters' = [waiters EXCEPT ![q] = Erase(@, f)]
  /\ error' = [error EXCEPT ![f] = e]
  /\ UNCHANGED tasks

\* completeLocked for a waiter f that is still in queue q.
completeLocked(f, q, e) ==
  /\ waiters' = [waiters EXCEPT ![q] = Erase(@, f)]
  /\ error' = [error EXCEPT ![f] = e]
  /\ tasks' = [tasks EXCEPT ![f] = @ + 1]

\* Mutant of wakeOneLocked: the back of the queue is completed.
wakeOneLockedBack(q, e) == completeLocked(Back(waiters[q]), q, e)

\* wakeOneLocked on a queue that is not empty: the front is completed.
wakeOneLocked(q, e) == completeLocked(Head(waiters[q]), q, e)

\* Mutant of wakeAllLocked: the waiters leave the queue and are not scheduled.
wakeAllLockedUnscheduled(q, e) ==
  /\ waiters' = [waiters EXCEPT ![q] = <<>>]
  /\ error' = [f \in Fibers |-> IF InQueue(f, q) THEN e ELSE error[f]]
  /\ UNCHANGED tasks

\* wakeAllLocked: wakeOneLocked until the queue is empty.
wakeAllLocked(q, e) ==
  /\ waiters' = [waiters EXCEPT ![q] = <<>>]
  /\ error' = [f \in Fibers |-> IF InQueue(f, q) THEN e ELSE error[f]]
  /\ tasks' = [f \in Fibers |-> IF InQueue(f, q) THEN tasks[f] + 1 ELSE tasks[f]]

\* The first part of waitLocked: a new Waiter at the back, guard released.
pushWaiter(f, q) ==
  /\ waiters' = [waiters EXCEPT ![q] = Append(@, f)]
  /\ where' = [where EXCEPT ![f] = q]
  /\ wait' = [wait EXCEPT ![f] = @ + 1]
  /\ error' = [error EXCEPT ![f] = "OK"]
  /\ pc' = [pc EXCEPT ![f] = "queued"]
  /\ UNCHANGED <<ret, timed, late, tasks, armed, fired>>

\* lock() or wait() is called with or without a timeout.
enterCall(f, withTimeout) ==
  /\ pc' = [pc EXCEPT ![f] = "call"]
  /\ timed' = [timed EXCEPT ![f] = withTimeout]
  /\ UNCHANGED <<waiters, where, wait, error, ret, late, tasks, armed, fired>>

\* ... and returns, which ends the life of its locals and its last Waiter.
leaveCall(f) ==
  /\ pc' = [pc EXCEPT ![f] = "idle"]
  /\ error' = [error EXCEPT ![f] = "OK"]
  /\ ret' = [ret EXCEPT ![f] = "OK"]
  /\ timed' = [timed EXCEPT ![f] = FALSE]
  /\ late' = [late EXCEPT ![f] = FALSE]
  /\ UNCHANGED <<waiters, where, wait, tasks, armed, fired>>
----------------------------------------------------------------------------
(* The rest of waitLocked, and the timers.                                 *)

\* Mutant of AddTimer: the timer is made and not put into the wheel.
AddTimerNone(f) ==
  /\ pc[f] = "queued" /\ timed[f] /\ f \notin Plain
  /\ pc' = [pc EXCEPT ![f] = "yielding"]
  /\ UNCHANGED <<waiters, where, wait, error, ret, timed, late, tasks, armed, fired>>

\* A timed wait on an IOManager adds its timer after the guard is released.
AddTimer(f) ==
  /\ pc[f] = "queued" /\ timed[f] /\ f \notin Plain
  /\ armed' = armed \cup {<<f, wait[f]>>}
  /\ pc' = [pc EXCEPT ![f] = "yielding"]
  /\ UNCHANGED <<waiters, where, wait, error, ret, timed, late, tasks, fired>>

\* A timed wait without an IOManager completes its own waiter and gives up.
NoTimers(f) ==
  /\ pc[f] = "queued" /\ timed[f] /\ f \in Plain
  /\ IF InQueue(f, where[f])
       THEN completeLocked(f, where[f], "ENOTSUP")
       ELSE UNCHANGED <<waiters, error, tasks>>
  /\ ret' = [ret EXCEPT ![f] = "ENOTSUP"]
  /\ pc' = [pc EXCEPT ![f] = "returned"]
  /\ UNCHANGED <<where, wait, timed, late, armed, fired>>

Yield(f) ==
  /\ \/ pc[f] = "yielding"
     \/ pc[f] = "queued" /\ ~timed[f]
  /\ pc' = [pc EXCEPT ![f] = "parked"]
  /\ UNCHANGED <<waiters, where, wait, error, ret, timed, late, tasks, armed, fired>>

\* Is there a task for f that its worker can take?
Scheduled(f) == tasks[f] > 0

\* The worker takes a task of f, resumes it, and f cancels its timer.
Resume(f) ==
  /\ pc[f] = "parked" /\ Scheduled(f)
  /\ tasks' = [tasks EXCEPT ![f] = @ - 1]
  /\ armed' = armed \ {<<f, wait[f]>>}
  /\ pc' = [pc EXCEPT ![f] = "woken"]
  /\ UNCHANGED <<waiters, where, wait, error, ret, timed, late, fired>>

\* The second guarded section of waitLocked: the error is read first, and a
\* waiter that is still queued is completed with ECANCELED.
WaitReturn(f) ==
  /\ pc[f] = "woken"
  /\ ret' = [ret EXCEPT ![f] = error[f]]
  /\ IF InQueue(f, where[f])
       THEN completeLocked(f, where[f], "ECANCELED")
       ELSE UNCHANGED <<waiters, error, tasks>>
  /\ pc' = [pc EXCEPT ![f] = "returned"]
  /\ UNCHANGED <<where, wait, timed, late, armed, fired>>

\* Time passes the deadline of a timed call.
Expire(f) ==
  /\ pc[f] # "idle" /\ timed[f] /\ ~late[f]
  /\ late' = [late EXCEPT ![f] = TRUE]
  /\ UNCHANGED <<waiters, pc, where, wait, error, ret, timed, tasks, armed, fired>>

\* The IOManager extracts an expired timer and queues its callback.
FireTimer(t) ==
  /\ t \in armed /\ late[t[1]]
  /\ armed' = armed \ {t}
  /\ fired' = fired \cup {t}
  /\ UNCHANGED <<waiters, pc, where, wait, error, ret, timed, late, tasks>>

\* Mutant of TimeoutApplies: the callback keeps the fiber and times out
\* whatever wait the fiber is in.
TimeoutAppliesAnyWait(t) == InQueue(t[1], where[t[1]])

\* Does the Waiter the timer was made for still wait?
TimeoutApplies(t) == t[2] = wait[t[1]] /\ InQueue(t[1], where[t[1]])

\* The callback: weak_waiter.lock() and timeout().  It completes the Waiter
\* the timer was made for, and only while that one is in its queue.
RunTimeout(t) ==
  /\ t \in fired
  /\ fired' = fired \ {t}
  /\ IF TimeoutApplies(t)
       THEN completeLocked(t[1], where[t[1]], "ETIMEDOUT")
       ELSE UNCHANGED <<waiters, error, tasks>>
  /\ UNCHANGED <<pc, where, wait, ret, timed, late, armed>>

\* The steps of waitLocked() that f takes on its worker.
WaitLockedStep(f) ==
  AddTimer(f) \/ NoTimers(f) \/ Yield(f) \/ Resume(f) \/ WaitReturn(f)

TimerStep == (\E t \in armed : FireTimer(t)) \/ (\E t \in fired : RunTimeout(t))

WQStep == (\E f \in Fibers : WaitLockedStep(f) \/ Expire(f)) \/ TimerStep
----------------------------------------------------------------------------
\* Each wait is ended by exactly one of unlock(), the timeout, cancelWaiters()
\* and the give-up branch: a fiber inside waitLocked() is either queued, with
\* no task in the scheduler, or out of the queue with exactly one task; a
\* fiber anywhere else has none, so no worker resumes a fiber that runs.
WokenOnce ==
  \A f \in Fibers :
    /\ Waiting(f) => tasks[f] = IF InQueue(f, where[f]) THEN 0 ELSE 1
    /\ ~Waiting(f) => tasks[f] = 0 /\ \A q \in Queues : ~InQueue(f, q)

\* A wait reports ETIMEDOUT only after the deadline of its own call: the
\* callback of an earlier wait's timer, run late, does not end a later wait.
TimeoutNotEarly ==
  \A f \in Fibers : pc[f] = "returned" /\ ret[f] = "ETIMEDOUT" => timed[f] /\ late[f]
============================================================================

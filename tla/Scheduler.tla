----------------------------- MODULE Scheduler -----------------------------
(***************************************************************************)
(* pulsar::Scheduler (scheduler.cpp, scheduler.hpp): N workers, each with  *)
(* a deque of tasks anyone may steal and a deque of tasks pinned to its    *)
(* thread; the loop of run(); the test that ends it, stopping(); stop().   *)
(*                                                                         *)
(* A task is a job: a fiber, or a callback that run() gives a fiber.  What *)
(* a job does is arbitrary: it submits other jobs, it registers itself     *)
(* with something that will wake it (a WaitQueue, a timer, an fd) and then *)
(* yields, it ends.  Everything done under one lock, and every access to   *)
(* an atomic, is a step of its own.                                        *)
(*                                                                         *)
(* Workers have registered their thread ids, so a pinned task is always in *)
(* the deque of its own worker.  tickle() is virtual: with Epoll it is the *)
(* one of IOManager, which writes to a pipe.                               *)
(***************************************************************************)
EXTENDS Deque, FiniteSets

CONSTANTS
  N,          \* number of workers
  Jobs,       \* the jobs that may be submitted
  None,       \* no job, no worker
  UseCaller,  \* worker 1 is the caller of stop() and runs inside it
  Epoll,      \* the scheduler is an IOManager
  Pinning,    \* jobs may be pinned
  MaxYields   \* bound on the yields of a job

Workers == 1..N

ASSUME SchedulerAssumption ==
  /\ N \in Nat \ {0}
  /\ None \notin Jobs /\ None \notin Workers
  /\ {UseCaller, Epoll, Pinning} \subseteq BOOLEAN
  /\ MaxYields \in Nat

VARIABLES
  unpinned,  \* unpinnedTasks of every worker
  pinned,    \* pinnedTasks of every worker
  active,    \* WorkerQueue::active
  loc,       \* where each worker is in run() and idle()
  running,   \* the job it runs
  scan,      \* how far a loop over the worker queues has come
  victims,   \* the queues that trySteal() has yet to visit
  term,      \* is the worker's idle fiber TERM?
  job,       \* Fiber::state_ of a job, or new, or TIMER: held by a timer
  waker,     \* what a job is registered with to be woken: armed (a queue of
             \* fibers), io, pool; woken when that has scheduled it
  home,      \* the worker a job ran on last
  yields,    \* how often it has yielded
  idleCnt,   \* idleThreadCnt_
  ready,     \* the pipe of IOManager is ready for epoll_wait
  outside,   \* a thread that is no worker: idle, or owes a tickle
  isStopped, \* isStopped_
  stopper    \* the thread that calls stop(): its tickles left, or where it is

queueVars == <<unpinned, pinned>>
jobVars == <<job, waker, home, yields>>
workerVars == <<active, loc, running, scan, victims, term, idleCnt>>
stopVars == <<outside, isStopped, stopper>>
schedVars == <<queueVars, jobVars, workerVars, ready, stopVars>>

\* The second line is stopping(), the third IOManager::idle.
Locations == {"outside", "top", "local", "steal", "run", "runTickle", "pending", "tickle", "enter",
              "idle", "idleEvents", "idleBlocking", "scanQueues", "scanActive",
              "wait", "woke", "expire", "cbs", "cbTickle", "events", "eventTickle", "eventDone",
              "leave", "exited"}

SchedInit ==
  /\ unpinned = [w \in Workers |-> <<>>]
  /\ pinned = [w \in Workers |-> <<>>]
  /\ active = [w \in Workers |-> FALSE]
  /\ loc = [w \in Workers |-> IF UseCaller /\ w = 1 THEN "outside" ELSE "top"]
  /\ running = [w \in Workers |-> None]
  /\ scan = [w \in Workers |-> 0]
  /\ victims = [w \in Workers |-> {}]
  /\ term = [w \in Workers |-> FALSE]
  /\ job = [j \in Jobs |-> "new"]
  /\ waker = [j \in Jobs |-> "none"]
  /\ home = [j \in Jobs |-> None]
  /\ yields = [j \in Jobs |-> 0]
  /\ idleCnt = 0
  /\ ready = FALSE
  /\ outside = "idle"
  /\ isStopped = FALSE
  /\ stopper = [at |-> "before", tickles |-> N]
----------------------------------------------------------------------------
(* The queues.                                                             *)

Empty(w) == unpinned[w] = <<>> /\ pinned[w] = <<>>

\* Mutant of enqueueTask: the pin is ignored.
enqueueTaskAnywhere(j, w, pin) ==
  unpinned' = [unpinned EXCEPT ![w] = Append(@, j)] /\ UNCHANGED pinned

\* enqueueTask: j goes to the back of a deque of worker w.
enqueueTask(j, w, pin) ==
  IF pin THEN pinned' = [pinned EXCEPT ![w] = Append(@, j)] /\ UNCHANGED unpinned
         ELSE unpinned' = [unpinned EXCEPT ![w] = Append(@, j)] /\ UNCHANGED pinned

\* Worker w has taken job j and starts or resumes it.
take(w, j) ==
  /\ running' = [running EXCEPT ![w] = j]
  /\ loc' = [loc EXCEPT ![w] = "run"]
  /\ job' = [job EXCEPT ![j] = "RUNNING"]
  /\ waker' = [waker EXCEPT ![j] = "none"]
  /\ home' = [home EXCEPT ![j] = w]
  /\ UNCHANGED yields

\* The step moves worker w on to p.
goto(w, p) == loc' = [loc EXCEPT ![w] = p]

SetActive(w) ==
  /\ loc[w] = "top"
  /\ active' = [active EXCEPT ![w] = TRUE]
  /\ goto(w, "local")
  /\ UNCHANGED <<queueVars, jobVars, running, scan, victims, term, idleCnt, ready, stopVars>>

\* tryTakeLocal: pinned tasks first, then the front of its own deque.
TakeLocal(w) ==
  /\ loc[w] = "local"
  /\ IF pinned[w] # <<>>
       THEN /\ take(w, Head(pinned[w]))
            /\ pinned' = [pinned EXCEPT ![w] = Tail(@)]
            /\ UNCHANGED <<unpinned, victims>>
       ELSE IF unpinned[w] # <<>>
       THEN /\ take(w, Head(unpinned[w]))
            /\ unpinned' = [unpinned EXCEPT ![w] = Tail(@)]
            /\ UNCHANGED <<pinned, victims>>
       ELSE /\ goto(w, "steal")
            /\ victims' = [victims EXCEPT ![w] = Workers \ {w}]
            /\ UNCHANGED <<queueVars, jobVars, running>>
  /\ UNCHANGED <<active, scan, term, idleCnt, ready, stopVars>>

\* trySteal visits the victims in some order and takes from the back.  It
\* takes no pinned tasks: those in v's queue are pinned to v.
Steal(w, v) ==
  /\ loc[w] = "steal" /\ v \in victims[w]
  /\ IF unpinned[v] # <<>>
       THEN /\ take(w, Back(unpinned[v]))
            /\ unpinned' = [unpinned EXCEPT ![v] = PopBack(@)]
            /\ victims' = [victims EXCEPT ![w] = {}]
       ELSE /\ victims' = [victims EXCEPT ![w] = @ \ {v}]
            /\ UNCHANGED <<unpinned, jobVars, running, loc>>
  /\ UNCHANGED <<pinned, active, scan, term, idleCnt, ready, stopVars>>

\* No task was found: the worker is no longer active, and leaves run() if
\* its idle fiber has ended.
Inactive(w) ==
  /\ loc[w] = "steal" /\ victims[w] = {}
  /\ active' = [active EXCEPT ![w] = FALSE]
  /\ goto(w, IF term[w] THEN "exited" ELSE "pending")
  /\ scan' = [scan EXCEPT ![w] = IF term[w] THEN 0 ELSE 1]
  /\ UNCHANGED <<queueVars, jobVars, running, victims, term, idleCnt, ready, stopVars>>

\* hasPendingTasks() before the worker goes idle, one queue per step.
Pending(w) ==
  /\ loc[w] = "pending"
  /\ LET found == ~Empty(scan[w]) IN
     /\ goto(w, IF found THEN "tickle" ELSE IF scan[w] = N THEN "enter" ELSE "pending")
     /\ scan' = [scan EXCEPT ![w] = IF found \/ @ = N THEN 0 ELSE @ + 1]
  /\ UNCHANGED <<queueVars, jobVars, active, running, victims, term, idleCnt, ready, stopVars>>

\* IOManager::tickle writes to the pipe if it sees an idle worker.
tickle == ready' = (ready \/ (Epoll /\ idleCnt > 0))

PassOn(w) ==
  /\ loc[w] = "tickle"
  /\ tickle
  /\ goto(w, "enter")
  /\ UNCHANGED <<queueVars, jobVars, active, running, scan, victims, term, idleCnt, stopVars>>

EnterIdle(w) ==
  /\ loc[w] = "enter"
  /\ idleCnt' = idleCnt + 1
  /\ goto(w, "idle")
  /\ UNCHANGED <<queueVars, jobVars, active, running, scan, victims, term, ready, stopVars>>

\* Mutant of LeaveIdle: run() ends when idle() has yielded.
LeaveIdleExit(w) ==
  /\ loc[w] = "leave"
  /\ idleCnt' = idleCnt - 1
  /\ goto(w, "exited")
  /\ UNCHANGED <<queueVars, jobVars, active, running, scan, victims, term, ready, stopVars>>

LeaveIdle(w) ==
  /\ loc[w] = "leave"
  /\ idleCnt' = idleCnt - 1
  /\ goto(w, "top")
  /\ UNCHANGED <<queueVars, jobVars, active, running, scan, victims, term, ready, stopVars>>
----------------------------------------------------------------------------
(* stopping(), called from idle(): isStopped_, the queues, the flags.      *)

\* Where idle() goes when stopping() is false.
NotStopping == IF Epoll THEN "wait" ELSE "leave"

ScanStart(w) ==
  /\ goto(w, IF isStopped THEN "scanQueues" ELSE NotStopping)
  /\ scan' = [scan EXCEPT ![w] = IF isStopped THEN 1 ELSE 0]
  /\ UNCHANGED <<queueVars, jobVars, active, running, victims, term, idleCnt, ready, stopVars>>

ScanQueues(w) ==
  /\ loc[w] = "scanQueues"
  /\ IF ~Empty(scan[w])
       THEN goto(w, NotStopping) /\ scan' = [scan EXCEPT ![w] = 0]
       ELSE /\ goto(w, IF scan[w] = N THEN "scanActive" ELSE "scanQueues")
            /\ scan' = [scan EXCEPT ![w] = IF @ = N THEN 1 ELSE @ + 1]
  /\ UNCHANGED <<queueVars, jobVars, active, running, victims, term, idleCnt, ready, stopVars>>

SeenActive(w) == active[scan[w]]

\* stopping() is true: the idle fiber ends.
ScanActive(w) ==
  /\ loc[w] = "scanActive"
  /\ IF SeenActive(w)
       THEN goto(w, NotStopping) /\ scan' = [scan EXCEPT ![w] = 0] /\ UNCHANGED term
       ELSE IF scan[w] = N
       THEN /\ goto(w, "leave")
            /\ scan' = [scan EXCEPT ![w] = 0]
            /\ term' = [term EXCEPT ![w] = TRUE]
       ELSE scan' = [scan EXCEPT ![w] = @ + 1] /\ UNCHANGED <<loc, term>>
  /\ UNCHANGED <<queueVars, jobVars, active, running, victims, idleCnt, ready, stopVars>>
----------------------------------------------------------------------------
(* What a running job does.                                                *)

\* Job k is enqueued by the job that worker w runs; into an empty queue, and
\* tickle() is called.
submit(w, k, v, pin) ==
  /\ enqueueTask(k, v, pin)
  /\ goto(w, IF Empty(v) THEN "runTickle" ELSE "run")
  /\ UNCHANGED <<active, running, scan, victims, term, idleCnt, ready, stopVars>>

\* A new job: to the worker's own queue, or pinned to some worker.
Submit(w, k, pin) ==
  /\ loc[w] = "run" /\ waker[running[w]] = "none" /\ job[k] = "new"
  /\ pin => Pinning
  /\ \E v \in IF pin THEN Workers ELSE {w} : submit(w, k, v, pin)
  /\ job' = [job EXCEPT ![k] = "READY"]
  /\ UNCHANGED <<waker, home, yields>>

\* Wake a job that waits: it is pinned to the worker that parked it.
Wake(w, k) ==
  /\ loc[w] = "run" /\ waker[running[w]] = "none" /\ waker[k] = "armed"
  /\ submit(w, k, home[k], TRUE)
  /\ waker' = [waker EXCEPT ![k] = "woken"]
  /\ UNCHANGED <<job, home, yields>>

RunTickle(w) ==
  /\ loc[w] = "runTickle"
  /\ tickle
  /\ goto(w, "run")
  /\ UNCHANGED <<queueVars, jobVars, active, running, scan, victims, term, idleCnt, stopVars>>

\* The job registers itself to be woken; it will yield next.
Arm(w, kind) ==
  /\ loc[w] = "run" /\ waker[running[w]] = "none" /\ yields[running[w]] < MaxYields
  /\ waker' = [waker EXCEPT ![running[w]] = kind]
  /\ UNCHANGED <<queueVars, job, home, yields, workerVars, ready, stopVars>>

\* The job yields, and may have been woken already, or it ends.
YieldOrEnd(w) ==
  /\ loc[w] = "run"
  /\ LET j == running[w] IN
       IF waker[j] = "none"
         THEN job' = [job EXCEPT ![j] = "TERM"] /\ UNCHANGED yields
         ELSE /\ job' = [job EXCEPT ![j] = "READY"]
              /\ yields' = [yields EXCEPT ![j] = @ + 1]
  /\ running' = [running EXCEPT ![w] = None]
  /\ goto(w, "top")
  /\ UNCHANGED <<queueVars, waker, home, active, scan, victims, term, idleCnt, ready, stopVars>>
----------------------------------------------------------------------------
(* Threads that are no workers.                                            *)

\* scheduler() from outside distributes jobs over the queues.
SubmitOutside(k, v, pin) ==
  /\ outside = "idle" /\ stopper.at = "before" /\ job[k] = "new"
  /\ pin => Pinning
  /\ enqueueTask(k, v, pin)
  /\ job' = [job EXCEPT ![k] = "READY"]
  /\ outside' = IF Empty(v) THEN "tickle" ELSE "idle"
  /\ UNCHANGED <<waker, home, yields, workerVars, ready, isStopped, stopper>>

TickleOutside ==
  /\ outside = "tickle"
  /\ tickle
  /\ outside' = "idle"
  /\ UNCHANGED <<queueVars, jobVars, workerVars, isStopped, stopper>>

\* stop() sets the flag, tickles once per worker, ...
Stop ==
  /\ stopper.at = "before"
  /\ isStopped' = TRUE
  /\ stopper' = [stopper EXCEPT !.at = "tickle"]
  /\ UNCHANGED <<queueVars, jobVars, workerVars, ready, outside>>

StopTickle ==
  /\ stopper.at = "tickle" /\ stopper.tickles > 0
  /\ tickle
  /\ stopper' = [stopper EXCEPT !.tickles = @ - 1]
  /\ UNCHANGED <<queueVars, jobVars, workerVars, outside, isStopped>>

\* ... runs the caller's worker, ...
StopRoot ==
  /\ stopper.at = "tickle" /\ stopper.tickles = 0
  /\ stopper' = [stopper EXCEPT !.at = "join"]
  /\ loc' = [w \in Workers |-> IF loc[w] = "outside" THEN "top" ELSE loc[w]]
  /\ UNCHANGED <<queueVars, jobVars, active, running, scan, victims, term, idleCnt, ready, outside, isStopped>>

\* ... and joins the threads.
StopJoin ==
  /\ stopper.at = "join" /\ \A w \in Workers : loc[w] = "exited"
  /\ stopper' = [stopper EXCEPT !.at = "stopped"]
  /\ UNCHANGED <<queueVars, jobVars, workerVars, ready, outside, isStopped>>
----------------------------------------------------------------------------
\* The loop of run() on worker w, up to and after idle().
LoopStep(w) ==
  \/ SetActive(w) \/ TakeLocal(w) \/ (\E v \in Workers : Steal(w, v)) \/ Inactive(w)
  \/ Pending(w) \/ PassOn(w) \/ EnterIdle(w) \/ LeaveIdle(w)
  \/ ScanQueues(w) \/ ScanActive(w)

JobStep(w) ==
  \/ \E k \in Jobs : Wake(w, k) \/ \E pin \in BOOLEAN : Submit(w, k, pin)
  \/ RunTickle(w) \/ Arm(w, "armed") \/ YieldOrEnd(w)

OutsideStep ==
  \/ \E k \in Jobs, v \in Workers, pin \in BOOLEAN : SubmitOutside(k, v, pin)
  \/ TickleOutside \/ StopTickle \/ StopRoot \/ StopJoin

\* Scheduler::idle: it yields until stopping() is true.
Idle(w) == loc[w] = "idle" /\ ScanStart(w)

SchedNext ==
  \/ \E w \in Workers : LoopStep(w) \/ JobStep(w) \/ Idle(w)
  \/ OutsideStep \/ Stop

SchedSpec == SchedInit /\ [][SchedNext]_schedVars

\* Workers run on, and jobs yield or end.
SchedFairness ==
  /\ \A w \in Workers : WF_schedVars(LoopStep(w)) /\ WF_schedVars(Idle(w))
                        /\ WF_schedVars(RunTickle(w)) /\ SF_schedVars(YieldOrEnd(w))
  /\ WF_schedVars(TickleOutside \/ StopTickle \/ StopRoot \/ StopJoin)

SchedFairSpec == SchedSpec /\ SchedFairness
----------------------------------------------------------------------------
SchedTypeOK ==
  /\ unpinned \in [Workers -> Seq(Jobs)] /\ pinned \in [Workers -> Seq(Jobs)]
  /\ active \in [Workers -> BOOLEAN] /\ term \in [Workers -> BOOLEAN]
  /\ loc \in [Workers -> Locations]
  /\ running \in [Workers -> Jobs \cup {None}]
  /\ scan \in [Workers -> 0..N]
  /\ victims \in [Workers -> SUBSET Workers]
  /\ job \in [Jobs -> {"new", "TIMER", "READY", "RUNNING", "TERM"}]
  /\ waker \in [Jobs -> {"none", "armed", "io", "pool", "woken"}]
  /\ home \in [Jobs -> Workers \cup {None}]
  /\ yields \in [Jobs -> 0..MaxYields]
  /\ idleCnt \in 0..N
  /\ ready \in BOOLEAN /\ isStopped \in BOOLEAN
  /\ outside \in {"idle", "tickle"}
  /\ stopper \in [at : {"before", "tickle", "join", "stopped"}, tickles : 0..N]

\* The places of job j in the deques q of the workers.
Places(q, j) == {p \in UNION {{w} \X DOMAIN q[w] : w \in Workers} : q[p[1]][p[2]] = j}

Copies(j) == Cardinality(Places(unpinned, j)) + Cardinality(Places(pinned, j))

\* Stealing, pinning and waking neither lose a job nor run it twice: a READY
\* job is in exactly one queue or waits to be woken, a RUNNING one is run by
\* exactly one worker, also when it is woken before it has yielded (the test
\* for READY in run(), scheduler.cpp:302, and the comment in sync.cpp:29-31).
TasksConserved ==
  \A j \in Jobs :
    /\ Copies(j) = IF waker[j] = "woken" \/ (job[j] = "READY" /\ waker[j] = "none") THEN 1 ELSE 0
    /\ Cardinality({w \in Workers : running[w] = j}) = IF job[j] = "RUNNING" THEN 1 ELSE 0

\* A fiber that has run on a worker never runs on another one, whoever
\* wakes it and whoever steals (scheduler.hpp:107-108).
NeverMigrates ==
  [][\A j \in Jobs : home[j] # None => home'[j] = home[j]]_schedVars

\* stop() waits for all tasks (scheduler.hpp:85): when it has returned, no
\* job is queued or running.  This fails with pinned jobs (README, deviations).
StopDrains ==
  stopper.at = "stopped" => \A w \in Workers : Empty(w) /\ running[w] = None

\* While the scheduler has not been stopped, every queued job is taken by a
\* worker, also a pinned one and one woken before it has yielded.  Only a job
\* pinned to the caller's worker waits for stop().
QueuedJobRuns ==
  \A j \in Jobs :
    (Copies(j) > 0 /\ ~isStopped)
      ~> \/ Copies(j) = 0 \/ isStopped
         \/ \E w \in Workers : loc[w] = "outside" /\ \E i \in DOMAIN pinned[w] : pinned[w][i] = j
============================================================================

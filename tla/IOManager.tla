----------------------------- MODULE IOManager -----------------------------
(***************************************************************************)
(* pulsar::IOManager (iomanager.cpp, iomanager.hpp) as a Scheduler: idle() *)
(* blocks in epoll_wait, tickle() wakes it through a pipe, and timers, fd  *)
(* events and the blocking thread pool schedule jobs and keep stopping()   *)
(* false.                                                                  *)
(*                                                                         *)
(* Time is left out: any timer may have expired when the wheel is looked   *)
(* at, and epoll_wait may always return, as its timeout is 5 s at most.    *)
(* The pipe is edge-triggered: a write makes it ready for one worker.      *)
(***************************************************************************)
EXTENDS Scheduler

ASSUME IOManagerAssumption == IsFiniteSet(Jobs)

VARIABLES
  timers,        \* callbacks in the timer wheel
  nextKnown,     \* getNextTimer() is not ~0
  cbs,           \* expired callbacks a worker has collected
  evs,           \* jobs whose fd epoll_wait has reported to a worker
  pendingEventCnt,
  pendingBlockingTasks,
  pool           \* the blocking tasks of each job, in BlockingThreadPool

\* The n-th wait of a job.
Tasks == Jobs \X (0..MaxYields)

ioVars == <<timers, nextKnown, cbs, evs, pendingEventCnt, pendingBlockingTasks, pool>>
iomVars == <<schedVars, ioVars>>

IOMInit ==
  /\ SchedInit
  /\ timers = {} /\ nextKnown = FALSE
  /\ cbs = [w \in Workers |-> {}]
  /\ evs = [w \in Workers |-> {}]
  /\ pendingEventCnt = 0
  /\ pendingBlockingTasks = 0
  /\ pool = [t \in Tasks |-> "none"]

IOMTypeOK ==
  /\ SchedTypeOK
  /\ timers \subseteq Jobs /\ nextKnown \in BOOLEAN
  /\ cbs \in [Workers -> SUBSET Jobs] /\ evs \in [Workers -> SUBSET Jobs]
  /\ pendingEventCnt \in 0..Cardinality(Tasks)
  /\ pendingBlockingTasks \in 0..Cardinality(Tasks)
  /\ pool \in [Tasks -> {"none", "work", "tickle", "done"}]
----------------------------------------------------------------------------
(* What a running job may also do.                                         *)

\* addTimer, by a job or by a thread that is no worker: a timer that comes
\* first tickles.
AddTimer(k) ==
  /\ outside = "idle" /\ job[k] = "new"
  /\ stopper.at = "before" \/ \E w \in Workers : loc[w] = "run"
  /\ timers' = timers \cup {k}
  /\ nextKnown' = TRUE
  /\ job' = [job EXCEPT ![k] = "TIMER"]
  /\ outside' \in {"idle", "tickle"}
  /\ UNCHANGED <<queueVars, waker, home, yields, workerVars, ready, isStopped, stopper>>
  /\ UNCHANGED <<cbs, evs, pendingEventCnt, pendingBlockingTasks, pool>>

\* addEvent for the running fiber.
AddEvent(w) ==
  /\ Arm(w, "io")
  /\ pendingEventCnt' = pendingEventCnt + 1
  /\ UNCHANGED <<timers, nextKnown, cbs, evs, pendingBlockingTasks, pool>>

\* asyncBlocking
AsyncBlocking(w) ==
  /\ Arm(w, "pool")
  /\ pendingBlockingTasks' = pendingBlockingTasks + 1
  /\ pool' = [pool EXCEPT ![<<running[w], yields[running[w]]>>] = "work"]
  /\ UNCHANGED <<timers, nextKnown, cbs, evs, pendingEventCnt>>
----------------------------------------------------------------------------
(* A thread of BlockingThreadPool: the task is over, its fiber is          *)
(* scheduled, and only then the counter is decremented.                    *)

\* Mutant of PoolDone: the counter is decremented before.
PoolDoneFirst(t) ==
  \/ /\ pool[t] = "work"
     /\ pendingBlockingTasks' = pendingBlockingTasks - 1
     /\ pool' = [pool EXCEPT ![t] = "done"]
     /\ UNCHANGED <<queueVars, waker>>
  \/ /\ pool[t] = "done"
     /\ enqueueTask(t[1], home[t[1]], TRUE)
     /\ waker' = [waker EXCEPT ![t[1]] = "woken"]
     /\ pool' = [pool EXCEPT ![t] = "none"]
     /\ UNCHANGED pendingBlockingTasks

PoolDone(t) ==
  \/ /\ pool[t] = "work"
     /\ enqueueTask(t[1], home[t[1]], TRUE)
     /\ waker' = [waker EXCEPT ![t[1]] = "woken"]
     /\ pool' = [pool EXCEPT ![t] = IF Empty(home[t[1]]) THEN "tickle" ELSE "done"]
     /\ UNCHANGED pendingBlockingTasks
  \/ /\ pool[t] = "done"
     /\ pendingBlockingTasks' = pendingBlockingTasks - 1
     /\ pool' = [pool EXCEPT ![t] = "none"]
     /\ UNCHANGED <<queueVars, waker>>

PoolStep(t) ==
  \/ /\ PoolDone(t)
     /\ UNCHANGED <<job, home, yields, workerVars, ready, stopVars, timers, nextKnown, cbs, evs, pendingEventCnt>>
  \/ /\ pool[t] = "tickle"
     /\ tickle
     /\ pool' = [pool EXCEPT ![t] = "done"]
     /\ UNCHANGED <<queueVars, jobVars, workerVars, stopVars, timers, nextKnown, cbs, evs, pendingEventCnt, pendingBlockingTasks>>
----------------------------------------------------------------------------
(* idle()                                                                  *)

\* stopping(): the next timer, the two counters, then Scheduler::stopping.
IdleCheck(w) ==
  /\ \/ /\ loc[w] = "idle"
        /\ goto(w, IF nextKnown THEN "wait" ELSE "idleEvents")
     \/ /\ loc[w] = "idleEvents"
        /\ goto(w, IF pendingEventCnt # 0 THEN "wait" ELSE "idleBlocking")
     \/ /\ loc[w] = "idleBlocking" /\ pendingBlockingTasks # 0
        /\ goto(w, "wait")
  /\ UNCHANGED <<queueVars, jobVars, active, running, scan, victims, term, idleCnt, ready, stopVars, ioVars>>

IdleScan(w) ==
  /\ loc[w] = "idleBlocking" /\ pendingBlockingTasks = 0
  /\ ScanStart(w)
  /\ UNCHANGED ioVars

\* epoll_wait returns some events, the pipe or nothing.
EpollWait(w, fds, pipe) ==
  /\ loc[w] = "wait"
  /\ fds \subseteq {k \in Jobs : waker[k] = "io"} /\ (pipe => ready)
  /\ evs' = [evs EXCEPT ![w] = fds]
  /\ ready' = (ready /\ ~pipe)
  /\ goto(w, "woke")
  /\ UNCHANGED <<queueVars, jobVars, active, running, scan, victims, term, idleCnt, stopVars>>
  /\ UNCHANGED <<timers, nextKnown, cbs, pendingEventCnt, pendingBlockingTasks, pool>>

\* setCurrentWorkerActive around the work after epoll_wait.
IdleActive(w, on) ==
  /\ IF on THEN loc[w] = "woke" ELSE loc[w] = "events" /\ evs[w] = {}
  /\ active' = [active EXCEPT ![w] = on]
  /\ goto(w, IF on THEN "expire" ELSE "leave")
  /\ UNCHANGED <<queueVars, jobVars, running, scan, victims, term, idleCnt, ready, stopVars, ioVars>>

\* listExpiredCb takes the expired timers out of the wheel, and knows of the
\* others only if some are in the first wheel (advanceWheel in TimerWheel) ...
ListExpired(w) ==
  /\ loc[w] = "expire"
  /\ \E expired \in SUBSET timers :
       /\ timers' = timers \ expired
       /\ cbs' = [cbs EXCEPT ![w] = expired]
       /\ nextKnown' \in {b \in BOOLEAN : b => timers' # {}}
  /\ goto(w, "cbs")
  /\ UNCHANGED <<queueVars, jobVars, active, running, scan, victims, term, idleCnt, ready, stopVars>>
  /\ UNCHANGED <<evs, pendingEventCnt, pendingBlockingTasks, pool>>

\* ... and the worker schedules them one by one.
ScheduleCb(w, k) ==
  /\ loc[w] = "cbs" /\ k \in cbs[w]
  /\ enqueueTask(k, w, FALSE)
  /\ job' = [job EXCEPT ![k] = "READY"]
  /\ cbs' = [cbs EXCEPT ![w] = @ \ {k}]
  /\ goto(w, IF Empty(w) THEN "cbTickle" ELSE "cbs")
  /\ UNCHANGED <<waker, home, yields, active, running, scan, victims, term, idleCnt, ready, stopVars>>
  /\ UNCHANGED <<timers, nextKnown, evs, pendingEventCnt, pendingBlockingTasks, pool>>

IdleTickle(w) ==
  /\ \/ loc[w] = "cbTickle" /\ goto(w, "cbs")
     \/ loc[w] = "eventTickle" /\ goto(w, "eventDone")
     \/ loc[w] = "cbs" /\ cbs[w] = {} /\ goto(w, "events")
  /\ IF loc[w] = "cbs" THEN UNCHANGED ready ELSE tickle
  /\ UNCHANGED <<queueVars, jobVars, active, running, scan, victims, term, idleCnt, stopVars, ioVars>>

Registered(k) == waker[k] = "io"

\* triggerEvent for an fd whose event is still registered.
TriggerEvent(w, k) ==
  /\ loc[w] = "events" /\ k \in evs[w]
  /\ evs' = [evs EXCEPT ![w] = @ \ {k}]
  /\ IF Registered(k)
       THEN /\ enqueueTask(k, home[k], TRUE)
            /\ waker' = [waker EXCEPT ![k] = "woken"]
            /\ goto(w, IF Empty(home[k]) THEN "eventTickle" ELSE "eventDone")
       ELSE UNCHANGED <<queueVars, waker, loc>>
  /\ UNCHANGED <<job, home, yields, active, running, scan, victims, term, idleCnt, ready, stopVars>>
  /\ UNCHANGED <<timers, nextKnown, cbs, pendingEventCnt, pendingBlockingTasks, pool>>

EventDone(w) ==
  /\ loc[w] = "eventDone"
  /\ pendingEventCnt' = pendingEventCnt - 1
  /\ goto(w, "events")
  /\ UNCHANGED <<queueVars, jobVars, active, running, scan, victims, term, idleCnt, ready, stopVars>>
  /\ UNCHANGED <<timers, nextKnown, cbs, evs, pendingBlockingTasks, pool>>

IdleStep(w) ==
  \/ IdleCheck(w) \/ IdleScan(w) \/ ListExpired(w) \/ IdleTickle(w) \/ EventDone(w)
  \/ \E on \in BOOLEAN : IdleActive(w, on)
  \/ \E fds \in SUBSET Jobs, pipe \in BOOLEAN : EpollWait(w, fds, pipe)
  \/ \E k \in Jobs : ScheduleCb(w, k) \/ TriggerEvent(w, k)
----------------------------------------------------------------------------
IOMNext ==
  \/ \E w \in Workers : \/ (LoopStep(w) \/ JobStep(w)) /\ UNCHANGED ioVars
                        \/ AddEvent(w) \/ AsyncBlocking(w) \/ IdleStep(w)
  \/ \E k \in Jobs : AddTimer(k)
  \/ \E t \in Tasks : PoolStep(t)
  \/ (OutsideStep \/ Stop) /\ UNCHANGED ioVars

IOMSpec == IOMInit /\ [][IOMNext]_iomVars

----------------------------------------------------------------------------
\* stopping() ends the idle fiber of a worker only when the I/O waits and the
\* blocking tasks of all fibers of that worker are over (iomanager.cpp:452),
\* although it looks at the counters, the queues and the flags one after the
\* other and other threads complete waits meanwhile.
WaitsHoldWorker ==
  [][\A w \in Workers : term'[w] # term[w] =>
       \A k \in Jobs : home[k] = w => waker[k] \notin {"io", "pool"}]_iomVars

\* stop() waits for all tasks (scheduler.hpp:85), also for those that a timer
\* holds, a sleeping fiber for one.  This fails (README, deviations).
StopFiresTimers == stopper.at = "stopped" => timers = {}

\* A worker blocked in epoll_wait is woken when a job arrives (the comment at
\* iomanager.cpp:324-326): it is not so that all workers sleep, the pipe is
\* not ready, nobody is about to tickle, and a job is queued.  This fails
\* (README, deviations).
NoSleepOverTask ==
  (\A w \in Workers : loc[w] = "wait") /\ ~ready /\ outside = "idle"
    /\ (\A t \in Tasks : pool[t] # "tickle")
  => \A w \in Workers : Empty(w)
============================================================================

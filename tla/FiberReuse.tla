----------------------------- MODULE FiberReuse -----------------------------
(***************************************************************************)
(* Fiber objects (fiber.cpp) and the callback fibers that every worker of  *)
(* a Scheduler keeps for its next callbacks (scheduler.cpp), over a        *)
(* PooledStackAllocator: a Fiber acquires its stack when it is constructed *)
(* and releases it when its last owner drops it, on whatever thread that   *)
(* is; in between it may run many callbacks.                               *)
(*                                                                         *)
(* The threads of StackPool are the workers.  A Fiber::ptr is held by a    *)
(* worker that has taken or created the fiber, by a cache, or elsewhere: a *)
(* task queue, a timer, a wait queue, the program (`kept`).  The program   *)
(* yields only in a fiber that is kept, as ~Fiber ends the program         *)
(* otherwise.  A kept READY fiber may be resumed by any worker.            *)
(***************************************************************************)
EXTENDS StackPool, Deque

CONSTANTS Fibers,            \* Fiber objects
          DefaultSize,       \* g_fiber_stack_size
          CachePerWorker     \* callbackFiberCachePerWorker

ASSUME ReuseAssumption ==
  None \notin Fibers /\ DefaultSize \in Requests /\ CachePerWorker \in Nat

VARIABLES
  state,        \* Fiber::state_, or none
  stack,        \* stackBlock_
  origin,       \* the worker whose callback fiber it is, or None
  kept,         \* is there a Fiber::ptr elsewhere?
  cur,          \* the fiber a worker has taken or created
  ran,          \* resume() has returned to the worker
  cache,        \* callbackFiberCache
  build,        \* the fiber a thread is constructing
  dying,        \* the fiber a thread is destroying
  stopped       \* the workers have been joined

fiberVars == <<state, stack, origin, kept, cur, ran, cache, build, dying, stopped>>
reuseVars == <<vars, fiberVars>>

NoBuild == [fiber |-> None, size |-> 0, callback |-> FALSE]

ReuseInit ==
  /\ PoolInit
  /\ state = [f \in Fibers |-> "none"] /\ stack = [f \in Fibers |-> None]
  /\ origin = [f \in Fibers |-> None] /\ kept = [f \in Fibers |-> FALSE]
  /\ cur = [t \in Threads |-> None] /\ ran = [t \in Threads |-> FALSE]
  /\ cache = [t \in Threads |-> <<>>] /\ build = [t \in Threads |-> NoBuild]
  /\ dying = [t \in Threads |-> None] /\ stopped = FALSE

\* The thread is in no call of the allocator and in no constructor or destructor.
Idle(t) == call[t] = NoCall /\ build[t] = NoBuild /\ dying[t] = None

\* The worker looks for a task.
Looking(w) == Idle(w) /\ cur[w] = None /\ ~stopped
Running(w) == Idle(w) /\ cur[w] # None /\ ~ran[w]
Holders(f) == {w \in Threads : cur[w] = f}

Construct(t, n, callback) ==
  /\ \E f \in Fibers :
       /\ state[f] = "none" /\ \A u \in Threads : build[u].fiber # f
       /\ build' = [build EXCEPT ![t] = [fiber |-> f, size |-> n, callback |-> callback]]
  /\ UNCHANGED <<vars, state, stack, origin, kept, cur, ran, cache, dying, stopped>>

\* The worker takes a callback.  Its cache is empty: it constructs a fiber ...
NewCallback(w) == Looking(w) /\ cache[w] = <<>> /\ Construct(w, DefaultSize, TRUE)

\* ... or it takes one from the cache, resets and resumes it.
ReuseCallback(w) ==
  /\ Looking(w) /\ cache[w] # <<>>
  /\ LET f == Back(cache[w]) IN
     /\ cache' = [cache EXCEPT ![w] = PopBack(@)]
     /\ cur' = [cur EXCEPT ![w] = f]
     /\ state' = [state EXCEPT ![f] = "RUNNING"]
  /\ UNCHANGED <<vars, stack, origin, kept, ran, build, dying, stopped>>

\* A callback constructs a fiber of its own.
NewFiber(w, n) == Running(w) /\ Construct(w, n, FALSE)

\* The constructor: acquire(requestedStackSize) ...
Acquire(t) ==
  /\ build[t] # NoBuild
  /\ \/ call[t] = NoCall /\ (AcquireMiss(t, build[t].size) \/ \E b \in Blocks : AcquireCached(t, build[t].size, b))
     \/ (\E b \in Blocks : AllocateRaw(t, b)) \/ AcquireCount(t)
  /\ UNCHANGED fiberVars

\* ... throws, and run() drops the callback; or the fiber is there.  A callback
\* fiber is marked with its worker and resumed.
ConstructFails(t) ==
  /\ AllocateFails(t)
  /\ build' = [build EXCEPT ![t] = NoBuild]
  /\ UNCHANGED <<state, stack, origin, kept, cur, ran, cache, dying, stopped>>

Constructed(t) ==
  /\ build[t] # NoBuild /\ AcquireReturn(t)
  /\ LET f == build[t].fiber
         callback == build[t].callback IN
     /\ stack' = [stack EXCEPT ![f] = call[t].block]
     /\ state' = [state EXCEPT ![f] = IF callback THEN "RUNNING" ELSE "READY"]
     /\ origin' = [origin EXCEPT ![f] = IF callback THEN t ELSE None]
     /\ kept' = [kept EXCEPT ![f] = ~callback]
     /\ cur' = IF callback THEN [cur EXCEPT ![t] = f] ELSE cur
  /\ build' = [build EXCEPT ![t] = NoBuild]
  /\ UNCHANGED <<ran, cache, dying, stopped>>

\* The worker takes a READY fiber from a queue; others may still hold it.
RunFiber(w, f) ==
  /\ Looking(w) /\ state[f] = "READY" /\ kept[f]
  /\ cur' = [cur EXCEPT ![w] = f]
  /\ state' = [state EXCEPT ![f] = "RUNNING"]
  /\ \E other \in BOOLEAN : kept' = [kept EXCEPT ![f] = other]
  /\ UNCHANGED <<vars, stack, origin, ran, cache, build, dying, stopped>>

\* The running fiber gives a Fiber::ptr of itself away (GetThis).
Keep(w) ==
  /\ Running(w) /\ ~kept[cur[w]]
  /\ kept' = [kept EXCEPT ![cur[w]] = TRUE]
  /\ UNCHANGED <<vars, state, stack, origin, cur, ran, cache, build, dying, stopped>>

\* yield(), and the end of MainFunc().
Yield(w) ==
  /\ Running(w) /\ kept[cur[w]]
  /\ state' = [state EXCEPT ![cur[w]] = "READY"]
  /\ ran' = [ran EXCEPT ![w] = TRUE]
  /\ UNCHANGED <<vars, stack, origin, kept, cur, cache, build, dying, stopped>>

End(w) ==
  /\ Running(w)
  /\ state' = [state EXCEPT ![cur[w]] = "TERM"]
  /\ ran' = [ran EXCEPT ![w] = TRUE]
  /\ UNCHANGED <<vars, stack, origin, kept, cur, cache, build, dying, stopped>>

\* use_count() == 1
Unaliased(w, f) == ~kept[f] /\ Holders(f) = {w}

\* Mutant of Reusable: use_count() is not tested.
ReusableShared(w, f) == state[f] = "TERM" /\ origin[f] = w

\* The tests of tryCacheCallbackFiber, the size of the cache aside.
Reusable(w, f) == Unaliased(w, f) /\ state[f] = "TERM" /\ origin[f] = w

\* tryCacheCallbackFiber; and if the fiber is not cached, the worker's pointer
\* is dropped, which destroys the fiber when it was the last.
AfterRun(w) ==
  /\ Idle(w) /\ ran[w]
  /\ LET f == cur[w] IN
     IF Reusable(w, f) /\ Len(cache[w]) < CachePerWorker
       THEN cache' = [cache EXCEPT ![w] = Append(@, f)] /\ UNCHANGED dying
       ELSE /\ dying' = IF Unaliased(w, f) THEN [dying EXCEPT ![w] = f] ELSE dying
            /\ UNCHANGED cache
  /\ cur' = [cur EXCEPT ![w] = None] /\ ran' = [ran EXCEPT ![w] = FALSE]
  /\ UNCHANGED <<vars, state, stack, origin, kept, build, stopped>>

\* The last Fiber::ptr elsewhere is dropped, on any thread.
DropKept(t, f) ==
  /\ Idle(t) /\ kept[f] /\ state[f] = "TERM"
  /\ kept' = [kept EXCEPT ![f] = FALSE]
  /\ dying' = IF Holders(f) = {} THEN [dying EXCEPT ![t] = f] ELSE dying
  /\ UNCHANGED <<vars, state, stack, origin, cur, ran, cache, build, stopped>>

\* ~Fiber releases the stack.
DestroyFiber(t) ==
  /\ dying[t] # None
  /\ LET f == dying[t] IN
     /\ ReleaseToCache(t, stack[f]) \/ ReleaseToSystem(t, stack[f])
     /\ state' = [state EXCEPT ![f] = "none"]
     /\ stack' = [stack EXCEPT ![f] = None]
     /\ origin' = [origin EXCEPT ![f] = None]
  /\ dying' = [dying EXCEPT ![t] = None]
  /\ UNCHANGED <<kept, cur, ran, cache, build, stopped>>

\* stop() has joined the workers, and clearCallbackFiberCaches empties the caches.
Stop ==
  /\ ~stopped /\ \A w \in Threads : Looking(w)
  /\ stopped' = TRUE
  /\ UNCHANGED <<vars, state, stack, origin, kept, cur, ran, cache, build, dying>>

ClearCache(t, w) ==
  /\ stopped /\ Idle(t) /\ cache[w] # <<>>
  /\ dying' = [dying EXCEPT ![t] = Head(cache[w])]
  /\ cache' = [cache EXCEPT ![w] = Tail(@)]
  /\ UNCHANGED <<vars, state, stack, origin, kept, cur, ran, build, stopped>>

\* FreeRaw, trim() and resetStats() go on as in StackPool.
PoolWork(t) ==
  /\ build[t] = NoBuild /\ dying[t] = None
  /\ \/ FreeRaw(t) \/ TrimReturn(t) \/ resetStats(t)
     \/ \E n \in Requests : Trim(t, n)
     \/ \E b \in Blocks : TrimVictim(t, b)
  /\ UNCHANGED fiberVars

ReuseNext ==
  \/ \E t \in Threads :
       \/ NewCallback(t) \/ ReuseCallback(t) \/ (\E n \in Requests : NewFiber(t, n))
       \/ Acquire(t) \/ ConstructFails(t) \/ Constructed(t)
       \/ (\E f \in Fibers : RunFiber(t, f) \/ DropKept(t, f))
       \/ Keep(t) \/ Yield(t) \/ End(t) \/ AfterRun(t) \/ DestroyFiber(t)
       \/ (\E w \in Threads : ClearCache(t, w)) \/ PoolWork(t)
  \/ Stop

ReuseSpec == ReuseInit /\ [][ReuseNext]_reuseVars
----------------------------------------------------------------------------
\* A fiber in a callback cache has ended, has no other owner and is in no other
\* place of a cache, so that reset() cannot be seen through an older Fiber::ptr
\* (the comment in run(): "Only a terminal, unaliased Scheduler callback can
\* enter this Worker's bounded object cache").
CachedUnaliased ==
  \A w \in Threads : \A i \in DOMAIN cache[w] :
    LET f == cache[w][i] IN
    /\ state[f] = "TERM" /\ origin[f] = w /\ ~kept[f] /\ Holders(f) = {}
    /\ \A v \in Threads : dying[v] # f /\ \A j \in DOMAIN cache[v] : cache[v][j] = f => v = w /\ i = j

\* Every stack that the allocator has handed out belongs to exactly one fiber
\* from the end of its constructor to ~Fiber, through any number of callbacks,
\* failures and caches: none is lost, and none is released twice.
StacksOwned ==
  /\ \A b \in Blocks : Owned(b) <=> \E f \in Fibers : stack[f] = b
  /\ \A f, g \in Fibers : stack[f] = stack[g] /\ stack[f] # None => f = g
============================================================================

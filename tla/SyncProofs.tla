----------------------------- MODULE SyncProofs -----------------------------
(***************************************************************************)
(* What holds of the waits of FiberWaitQueue under every primitive that is *)
(* built on it, and from it the semaphore and the condition variable: no   *)
(* waiter is overlooked, no wait times out early, wait() returns locked,   *)
(* no item is stranded.  For any number of fibers, waits and permits.      *)
(***************************************************************************)
EXTENDS FiberMutexProofs, CondVarProtocol, FiberSemaphore, FiniteSetTheorems

\* The arithmetic of the count that ItemInv keeps.
LEMMA CountSteps ==
  ASSUME NEW i \in Nat, NEW a \in Nat, NEW b \in Nat, NEW c \in Nat, NEW d \in Nat, NEW j, i <= a + b
  PROVE  /\ (j = i /\ a <= c /\ b <= d => j <= c + d)
         /\ (j = i + 1 /\ a = c /\ d = b + 1 => j <= c + d)
         /\ (j = i - 1 /\ c = a - 1 /\ b = d => j <= c + d)
         /\ (j = i /\ c = a + 1 /\ (d = b - 1 \/ d = b) => j <= c + d)
OBVIOUS

InWait(f) == pc[f] \in {"queued", "yielding", "parked", "woken"}

\* A fiber is in the queue of its latest wait only, once, and only until it
\* leaves waitLocked().
Deques ==
  /\ \A q \in Queues : NoDuplicates(waiters[q])
  /\ \A f \in Fibers, q \in Queues : InQueue(f, q) => where[f] = q /\ InWait(f)

\* A timer of the wait that a fiber is in was made for the deadline of the
\* call that it is in, and its callback runs after that deadline.
Deadlines ==
  /\ \A t \in armed \cup fired : t[2] <= wait[t[1]]
  /\ \A t \in armed : t[2] = wait[t[1]] /\ InWait(t[1]) => timed[t[1]]
  /\ \A t \in fired : t[2] = wait[t[1]] /\ InWait(t[1]) => timed[t[1]] /\ late[t[1]]
  /\ \A f \in Fibers : InWait(f) /\ error[f] = "ETIMEDOUT" => timed[f] /\ late[f]

WQInv == WQTypeOK /\ Deques /\ Deadlines /\ TimeoutNotEarly

\* What the steps of waitLocked() and of the timers leave as it is.
WQEffect ==
  /\ where' = where /\ timed' = timed
  /\ \A f \in Fibers : pc'[f] = pc[f] \/ (InWait(f) /\ (InWait(f)' \/ pc'[f] = "returned"))
  /\ \A f \in Fibers, q \in Queues : InQueue(f, q)' => InQueue(f, q)
  /\ \A f \in Fibers : ~timed[f] /\ InWait(f)' => error'[f] = error[f]
  /\ \A f \in Fibers : ~timed[f] /\ pc'[f] = "returned" =>
       (pc[f] = "returned" /\ ret'[f] = ret[f]) \/ (InWait(f) /\ ret'[f] = error[f])

LEMMA Completed ==
  ASSUME WQInv, NEW f \in Fibers, NEW q \in Queues, NEW e \in Errors, InQueue(f, q), completeLocked(f, q, e)
  PROVE  /\ waiters' \in [Queues -> Seq(Fibers)] /\ error' \in [Fibers -> Errors] /\ tasks' \in [Fibers -> Nat]
         /\ \A p \in Queues : NoDuplicates(waiters'[p])
         /\ \A g \in Fibers, p \in Queues : InQueue(g, p)' <=> InQueue(g, p) /\ g # f
         /\ \A g \in Fibers : error'[g] = IF g = f THEN e ELSE error[g]
<1>1. WQTypeOK /\ NoDuplicates(waiters[q])
  BY Zenon DEF WQInv, Deques
<1>2. /\ waiters' \in [Queues -> Seq(Fibers)]
      /\ error' \in [Fibers -> Errors]
      /\ tasks' \in [Fibers -> Nat]
      /\ NoDuplicates(waiters'[q])
      /\ \A g : InQueue(g, q)' <=> InQueue(g, q) /\ g # f
      /\ \A p \in Queues \ {q} : waiters'[p] = waiters[p]
  BY <1>1, CompleteLemma, Zenon
<1>3. \A p \in Queues : NoDuplicates(waiters'[p])
  BY <1>2, Zenon DEF WQInv, Deques
<1>4. ASSUME NEW g \in Fibers, NEW p \in Queues PROVE InQueue(g, p)' <=> InQueue(g, p) /\ g # f
  <2>1. CASE p = q
    BY <1>2, <2>1, Zenon
  <2>2. CASE p # q
    <3>1. InQueue(g, p)' <=> InQueue(g, p)
      BY <1>2, <2>2, Zenon DEF InQueue
    <3>2. InQueue(g, p) => where[g] = p
      BY Zenon DEF WQInv, Deques
    <3>3. where[f] = q
      BY Zenon DEF WQInv, Deques
    <3>4. InQueue(g, p) => g # f
      BY <2>2, <3>2, <3>3, Zenon
    <3> QED
      BY <3>1, <3>4, Zenon
  <2> QED
    BY <2>1, <2>2, Zenon
<1>5. \A g \in Fibers : error'[g] = IF g = f THEN e ELSE error[g]
  BY <1>1, Zenon DEF completeLocked, WQTypeOK
<1> QED
  BY <1>2, <1>3, <1>4, <1>5, Zenon

\* Steps that take no fiber into a wait and end waits as the code may.
LEMMA WaitsStay ==
  ASSUME WQInv, WQTypeOK', wait' = wait, where' = where,
         \A f \in Fibers : InWait(f)' => InWait(f),
         \A f \in Fibers : InWait(f)' \/ pc'[f] = "returned" => timed'[f] = timed[f] /\ (late[f] => late'[f]),
         \A q \in Queues : NoDuplicates(waiters'[q]),
         \A f \in Fibers, q \in Queues : InQueue(f, q)' => InQueue(f, q) /\ InWait(f)',
         \A t \in armed' : t \in armed \/ (t[1] \in Fibers /\ t[2] = wait[t[1]] /\ timed[t[1]]),
         \A t \in fired' : t \in fired \/ (t \in armed /\ late[t[1]]),
         \A f \in Fibers : InWait(f)' => error'[f] = error[f] \/ error'[f] # "ETIMEDOUT" \/ (timed[f] /\ late[f]),
         \A f \in Fibers : pc'[f] = "returned" /\ ret'[f] = "ETIMEDOUT" =>
           (pc[f] = "returned" /\ ret[f] = "ETIMEDOUT") \/ (InWait(f) /\ error[f] = "ETIMEDOUT")
  PROVE  WQInv'
<1>0. \A t \in armed \cup fired : t[1] \in Fibers
  BY Zenon DEF WQInv, WQTypeOK
<1>1. ASSUME NEW t \in armed' \cup fired' PROVE t[2] <= wait'[t[1]]
  <2>1. CASE t \in armed \cup fired
    BY <2>1, Zenon DEF WQInv, Deadlines
  <2>2. CASE t[1] \in Fibers /\ t[2] = wait[t[1]]
    <3>1. wait[t[1]] \in Nat
      BY <2>2, Zenon DEF WQInv, WQTypeOK
    <3> QED
      BY <2>2, <3>1
  <2> QED
    BY <2>1, <2>2, Zenon
<1>2. ASSUME NEW t \in armed', t[2] = wait'[t[1]], InWait(t[1])' PROVE timed'[t[1]]
  <2>1. t[1] \in Fibers /\ InWait(t[1]) /\ t[2] = wait[t[1]]
    BY <1>0, <1>2, Zenon
  <2>2. timed[t[1]]
    BY <2>1, Zenon DEF WQInv, Deadlines
  <2> QED
    BY <1>2, <2>1, <2>2, Zenon
<1>3. ASSUME NEW t \in fired', t[2] = wait'[t[1]], InWait(t[1])' PROVE timed'[t[1]] /\ late'[t[1]]
  <2>1. t[1] \in Fibers /\ InWait(t[1]) /\ t[2] = wait[t[1]]
    BY <1>0, <1>3, Zenon
  <2>2. timed[t[1]] /\ late[t[1]]
    BY <2>1, Zenon DEF WQInv, Deadlines
  <2> QED
    BY <1>3, <2>1, <2>2, Zenon
<1>4. ASSUME NEW f \in Fibers, InWait(f)', error'[f] = "ETIMEDOUT" PROVE timed'[f] /\ late'[f]
  <2>1. timed[f] /\ late[f]
    BY <1>4, Zenon DEF WQInv, Deadlines
  <2> QED
    BY <1>4, <2>1, Zenon
<1>5. Deadlines'
  BY <1>1, <1>2, <1>3, <1>4, Zenon DEF Deadlines
<1>6. ASSUME NEW f \in Fibers, pc'[f] = "returned", ret'[f] = "ETIMEDOUT" PROVE timed'[f] /\ late'[f]
  <2>1. timed[f] /\ late[f]
    BY <1>6, Zenon DEF WQInv, Deadlines, TimeoutNotEarly
  <2> QED
    BY <1>6, <2>1, Zenon
<1>7. ASSUME NEW f \in Fibers, NEW q \in Queues, InQueue(f, q)' PROVE where'[f] = q /\ InWait(f)'
  BY <1>7, Zenon DEF WQInv, Deques
<1> QED
  BY <1>5, <1>6, <1>7, Zenon DEF WQInv, Deques, TimeoutNotEarly

\* waitLocked() before and after it sleeps, and time.
LEMMA QuietSteps ==
  ASSUME WQInv, NEW f \in Fibers, AddTimer(f) \/ Yield(f) \/ Resume(f) \/ Expire(f)
  PROVE  WQInv' /\ WQEffect
<1> USE DEF InWait
<1>1. /\ UNCHANGED <<waiters, where, wait, error, ret, timed>> /\ fired' = fired
      /\ armed' \subseteq armed \cup {<<f, wait[f]>>} /\ (armed' \subseteq armed \/ timed[f])
      /\ late' = late \/ late' = [late EXCEPT ![f] = TRUE]
      /\ pc' = pc \/ (InWait(f) /\ \E l \in {"yielding", "parked", "woken"} : pc' = [pc EXCEPT ![f] = l])
  BY Zenon DEF AddTimer, Yield, Resume, Expire
<1>2. WQTypeOK
  BY Zenon DEF WQInv
<1>3. /\ \A g \in Fibers : pc'[g] = pc[g] \/ (InWait(g) /\ InWait(g)')
      /\ \A g \in Fibers : late[g] => late'[g]
  BY <1>1, <1>2, Zenon DEF WQTypeOK
<1>4. tasks' \in [Fibers -> Nat]
  <2>1. CASE tasks' = tasks
    BY <1>2, <2>1, Zenon DEF WQTypeOK
  <2>2. CASE Resume(f)
    BY <1>2, <2>2 DEF Resume, Scheduled, WQTypeOK
  <2> QED
    BY <2>1, <2>2, Zenon DEF AddTimer, Yield, Expire
<1>5. WQTypeOK'
  <2>1. pc' \in [Fibers -> Locations]
    BY <1>1, <1>2, Zenon DEF WQTypeOK, Locations
  <2>2. <<f, wait[f]>> \in Fibers \X Nat
    BY <1>2, Zenon DEF WQTypeOK
  <2>3. armed' \in SUBSET (Fibers \X Nat)
    BY <1>1, <1>2, <2>2, Zenon DEF WQTypeOK
  <2>4. late' \in [Fibers -> BOOLEAN]
    BY <1>1, <1>2, Zenon DEF WQTypeOK
  <2> QED
    BY <1>1, <1>2, <1>4, <2>1, <2>3, <2>4, Zenon DEF WQTypeOK
<1>6. \A t \in armed' : t \in armed \/ (t[1] \in Fibers /\ t[2] = wait[t[1]] /\ timed[t[1]])
  <2>1. <<f, wait[f]>>[1] = f /\ <<f, wait[f]>>[2] = wait[f]
    OBVIOUS
  <2> QED
    BY <1>1, <2>1, Zenon
<1>7. \A g \in Fibers, q \in Queues : InQueue(g, q)' => InQueue(g, q) /\ InWait(g)'
  BY <1>1, <1>3, Zenon DEF WQInv, Deques, InQueue
<1>8. \A g \in Fibers : InWait(g)' => InWait(g)
  BY <1>3, Zenon
<1>9. \A g \in Fibers : pc'[g] = "returned" => pc[g] = "returned"
  BY <1>3, Zenon
<1>10. \A q \in Queues : NoDuplicates(waiters'[q])
  BY <1>1, Zenon DEF WQInv, Deques
<1>11. WQInv'
  BY <1>1, <1>3, <1>5, <1>6, <1>7, <1>8, <1>9, <1>10, WaitsStay, Zenon
<1> QED
  BY <1>1, <1>3, <1>7, <1>9, <1>11, Zenon DEF WQEffect

\* Leaving waitLocked(), by the give-up branch or after the wait.
LEMMA ReturningSteps ==
  ASSUME WQInv, NEW f \in Fibers, NoTimers(f) \/ WaitReturn(f)
  PROVE  WQInv' /\ WQEffect
<1>1. /\ UNCHANGED <<where, wait, timed, late, armed, fired>>
      /\ pc' = [pc EXCEPT ![f] = "returned"] /\ InWait(f)
  BY Zenon DEF NoTimers, WaitReturn, InWait
<1>2. PICK e \in Errors, r \in Errors :
        /\ IF InQueue(f, where[f]) THEN completeLocked(f, where[f], e) ELSE UNCHANGED <<waiters, error, tasks>>
        /\ ret' = [ret EXCEPT ![f] = r] /\ (r = error[f] \/ (timed[f] /\ r = "ENOTSUP"))
  BY Zenon DEF NoTimers, WaitReturn, WQInv, WQTypeOK, Errors
<1>3. WQTypeOK /\ where[f] \in Queues
  BY Zenon DEF WQInv, WQTypeOK
<1>4. /\ waiters' \in [Queues -> Seq(Fibers)] /\ error' \in [Fibers -> Errors] /\ tasks' \in [Fibers -> Nat]
      /\ \A p \in Queues : NoDuplicates(waiters'[p])
      /\ \A g \in Fibers, p \in Queues : InQueue(g, p)' => InQueue(g, p) /\ g # f
      /\ \A g \in Fibers : g = f \/ error'[g] = error[g]
  <2>1. CASE InQueue(f, where[f])
    <3>1. completeLocked(f, where[f], e)
      BY <1>2, <2>1, Zenon
    <3> QED
      BY <1>3, <2>1, <3>1, Completed, Zenon
  <2>2. CASE ~InQueue(f, where[f])
    <3>1. UNCHANGED <<waiters, error, tasks>>
      BY <1>2, <2>2, Zenon
    <3>2. \A p \in Queues : ~InQueue(f, p)
      BY <2>2, Zenon DEF WQInv, Deques
    <3>3. \A g \in Fibers, p \in Queues : InQueue(g, p)' => InQueue(g, p) /\ g # f
      BY <3>1, <3>2, Zenon DEF InQueue
    <3> QED
      BY <1>3, <3>1, <3>3, Zenon DEF WQInv, WQTypeOK, Deques
  <2> QED
    BY <2>1, <2>2, Zenon
<1>5. /\ pc'[f] = "returned" /\ ret'[f] = r
      /\ \A g \in Fibers \ {f} : pc'[g] = pc[g] /\ ret'[g] = ret[g]
  BY <1>1, <1>2, <1>3, Zenon DEF WQTypeOK
<1>6. WQTypeOK'
  BY <1>1, <1>2, <1>3, <1>4, Zenon DEF WQTypeOK, Locations
<1>7. ~InWait(f)' /\ \A g \in Fibers \ {f} : InWait(g)' <=> InWait(g)
  BY <1>5, Zenon DEF InWait
<1>8. \A g \in Fibers, p \in Queues : InQueue(g, p)' => InQueue(g, p) /\ InWait(g)'
  BY <1>4, <1>7, Zenon DEF WQInv, Deques
<1>9. \A g \in Fibers : InWait(g)' => InWait(g) /\ error'[g] = error[g]
  BY <1>4, <1>7, Zenon
<1>10. r # "ETIMEDOUT" \/ error[f] = "ETIMEDOUT"
  BY <1>2, Zenon
<1>11. \A g \in Fibers : pc'[g] = "returned" /\ ret'[g] = "ETIMEDOUT" =>
         (pc[g] = "returned" /\ ret[g] = "ETIMEDOUT") \/ (InWait(g) /\ error[g] = "ETIMEDOUT")
  BY <1>1, <1>5, <1>10, Zenon
<1>12. WQInv'
  BY <1>1, <1>4, <1>6, <1>8, <1>9, <1>11, WaitsStay, Zenon
<1>13. \A g \in Fibers : ~timed[g] /\ pc'[g] = "returned" =>
         (pc[g] = "returned" /\ ret'[g] = ret[g]) \/ (InWait(g) /\ ret'[g] = error[g])
  BY <1>1, <1>2, <1>5, Zenon
<1>14. \A g \in Fibers : pc'[g] = pc[g] \/ (InWait(g) /\ pc'[g] = "returned")
  BY <1>1, <1>5, Zenon
<1> QED
  BY <1>1, <1>8, <1>9, <1>12, <1>13, <1>14, Zenon DEF WQEffect

\* The IOManager takes an expired timer; its callback completes the Waiter it
\* was made for.
LEMMA TimerSteps ==
  ASSUME WQInv, TimerStep
  PROVE  WQInv' /\ WQEffect
<1>1. UNCHANGED <<pc, where, wait, ret, timed, late>>
  BY Zenon DEF TimerStep, FireTimer, RunTimeout
<1>2. WQTypeOK
  BY Zenon DEF WQInv
<1>3. \A g \in Fibers : InWait(g)' <=> InWait(g)
  BY <1>1, Zenon DEF InWait
<1>4. /\ \A t \in armed' : t \in armed
      /\ \A t \in fired' : t \in fired \/ (t \in armed /\ late[t[1]])
  BY Zenon DEF TimerStep, FireTimer, RunTimeout
<1> DEFINE Woken ==
      /\ waiters' \in [Queues -> Seq(Fibers)] /\ error' \in [Fibers -> Errors] /\ tasks' \in [Fibers -> Nat]
      /\ \A p \in Queues : NoDuplicates(waiters'[p])
      /\ \A g \in Fibers, p \in Queues : InQueue(g, p)' => InQueue(g, p)
      /\ \A g \in Fibers : error'[g] = error[g] \/ (timed[g] /\ late[g])
<1>5. Woken
  <2>1. CASE UNCHANGED <<waiters, error, tasks>>
    BY <1>2, <2>1, Zenon DEF WQInv, WQTypeOK, Deques, InQueue
  <2>2. ASSUME NEW t \in fired, TimeoutApplies(t), completeLocked(t[1], where[t[1]], "ETIMEDOUT")
        PROVE  Woken
    <3>1. t[1] \in Fibers /\ where[t[1]] \in Queues /\ "ETIMEDOUT" \in Errors
      BY <1>2, Zenon DEF WQTypeOK, Errors
    <3>2. InQueue(t[1], where[t[1]]) /\ t[2] = wait[t[1]]
      BY <2>2, Zenon DEF TimeoutApplies
    <3>3. InWait(t[1])
      BY <3>1, <3>2, Zenon DEF WQInv, Deques
    <3>4. timed[t[1]] /\ late[t[1]]
      BY <3>2, <3>3, Zenon DEF WQInv, Deadlines
    <3>5. /\ waiters' \in [Queues -> Seq(Fibers)] /\ error' \in [Fibers -> Errors] /\ tasks' \in [Fibers -> Nat]
          /\ \A p \in Queues : NoDuplicates(waiters'[p])
          /\ \A g \in Fibers, p \in Queues : InQueue(g, p)' <=> InQueue(g, p) /\ g # t[1]
          /\ \A g \in Fibers : error'[g] = IF g = t[1] THEN "ETIMEDOUT" ELSE error[g]
      <4>1. PICK h \in Fibers, q \in Queues : h = t[1] /\ q = where[t[1]]
        BY <3>1, Zenon
      <4>2. InQueue(h, q) /\ completeLocked(h, q, "ETIMEDOUT")
        BY <2>2, <3>2, <4>1, Zenon
      <4>3. /\ waiters' \in [Queues -> Seq(Fibers)] /\ error' \in [Fibers -> Errors] /\ tasks' \in [Fibers -> Nat]
            /\ \A p \in Queues : NoDuplicates(waiters'[p])
            /\ \A g \in Fibers, p \in Queues : InQueue(g, p)' <=> InQueue(g, p) /\ g # h
            /\ \A g \in Fibers : error'[g] = IF g = h THEN "ETIMEDOUT" ELSE error[g]
        BY <3>1, <4>2, Completed, Zenon
      <4> QED
        BY <4>1, <4>3, Zenon
    <3>6. \A g \in Fibers : error'[g] = error[g] \/ (timed[g] /\ late[g])
      BY <3>4, <3>5, Zenon
    <3> QED
      BY <3>5, <3>6, Zenon
  <2> HIDE DEF Woken
  <2> QED
    BY <2>1, <2>2, Zenon DEF TimerStep, FireTimer, RunTimeout
<1>6. armed' \in SUBSET (Fibers \X Nat) /\ fired' \in SUBSET (Fibers \X Nat)
  BY <1>2, <1>4, Zenon DEF WQTypeOK
<1>7. WQTypeOK'
  BY <1>1, <1>2, <1>5, <1>6, Zenon DEF WQTypeOK
<1>8. \A g \in Fibers, p \in Queues : InQueue(g, p)' => InQueue(g, p) /\ InWait(g)'
  BY <1>3, <1>5, Zenon DEF WQInv, Deques
<1>9. WQInv'
  BY <1>1, <1>3, <1>4, <1>5, <1>7, <1>8, WaitsStay, Zenon
<1> QED
  BY <1>1, <1>3, <1>5, <1>9, Zenon DEF WQEffect

LEMMA WQStepKeeps ==
  ASSUME WQInv, WQStep
  PROVE  WQInv' /\ WQEffect
BY QuietSteps, ReturningSteps, TimerSteps, Zenon DEF WQStep, WaitLockedStep

\* Waking the whole queue, as signal(), notifyAll() and cancelWaiters() do.
LEMMA WakeAllKeeps ==
  ASSUME WQInv, NEW q \in Queues, NEW e \in {"OK", "ECANCELED"}, wakeAllLocked(q, e),
         UNCHANGED <<pc, where, wait, ret, timed, late, armed, fired>>
  PROVE  /\ WQInv' /\ \A g : ~InQueue(g, q)'
         /\ \A p \in Queues \ {q} : waiters'[p] = waiters[p]
         /\ \A g \in Fibers : ~InQueue(g, q) => error'[g] = error[g]
<1>1. /\ waiters' = [waiters EXCEPT ![q] = <<>>]
      /\ error' = [f \in Fibers |-> IF InQueue(f, q) THEN e ELSE error[f]]
      /\ tasks' = [f \in Fibers |-> IF InQueue(f, q) THEN tasks[f] + 1 ELSE tasks[f]]
  BY Zenon DEF wakeAllLocked
<1>2. WQTypeOK /\ e \in Errors /\ e # "ETIMEDOUT"
  BY Zenon DEF WQInv, Errors
<1>3. waiters'[q] = <<>> /\ \A p \in Queues \ {q} : waiters'[p] = waiters[p]
  BY <1>1, <1>2, Zenon DEF WQTypeOK
<1>4. (\A g : ~InQueue(g, q)') /\ NoDuplicates(waiters'[q])
  BY <1>3 DEF InQueue, Has, NoDuplicates
<1>5. waiters' \in [Queues -> Seq(Fibers)] /\ tasks' \in [Fibers -> Nat]
  BY <1>1, <1>2 DEF WQTypeOK
<1>6. /\ error' \in [Fibers -> Errors]
      /\ \A g \in Fibers : error'[g] = error[g] \/ error'[g] # "ETIMEDOUT"
      /\ \A g \in Fibers : ~InQueue(g, q) => error'[g] = error[g]
  BY <1>1, <1>2, Zenon DEF WQTypeOK
<1>7. WQTypeOK'
  BY <1>2, <1>5, <1>6, Zenon DEF WQTypeOK
<1>8. \A g \in Fibers : InWait(g)' <=> InWait(g)
  BY Zenon DEF InWait
<1>9. ASSUME NEW g \in Fibers, NEW p \in Queues, InQueue(g, p)' PROVE InQueue(g, p) /\ InWait(g)'
  <2>1. p # q
    BY <1>4, <1>9, Zenon
  <2>2. InQueue(g, p)
    BY <1>3, <1>9, <2>1, Zenon DEF InQueue
  <2> QED
    BY <1>8, <2>2, Zenon DEF WQInv, Deques
<1>10. \A p \in Queues : NoDuplicates(waiters'[p])
  BY <1>3, <1>4, Zenon DEF WQInv, Deques
<1>11. WQInv'
  BY <1>6, <1>7, <1>8, <1>9, <1>10, WaitsStay, Zenon
<1> QED
  BY <1>3, <1>4, <1>6, <1>11, Zenon

\* Waking the front of the queue, as unlock() and notifyOne() do.
LEMMA WakeOneKeeps ==
  ASSUME WQInv, NEW q \in Queues, waiters[q] # <<>>, wakeOneLocked(q, "OK"),
         UNCHANGED <<pc, where, wait, ret, timed, late, armed, fired>>
  PROVE  /\ WQInv'
         /\ \A g \in Fibers : error'[g] = error[g] \/ error'[g] = "OK"
         /\ \E h \in Fibers : InQueue(h, q) /\ \A g \in Fibers, p \in Queues : InQueue(g, p)' <=> InQueue(g, p) /\ g # h
<1>1. WQTypeOK /\ waiters[q] \in Seq(Fibers)
  BY Zenon DEF WQInv, WQTypeOK
<1>2. PICK h \in Fibers : h = Head(waiters[q])
  BY <1>1
<1>3. InQueue(h, q)
  BY <1>1, <1>2 DEF InQueue, Has
<1>4. completeLocked(h, q, "OK") /\ "OK" \in Errors
  BY <1>2, Zenon DEF wakeOneLocked, Errors
<1>5. /\ waiters' \in [Queues -> Seq(Fibers)] /\ error' \in [Fibers -> Errors] /\ tasks' \in [Fibers -> Nat]
      /\ \A p \in Queues : NoDuplicates(waiters'[p])
      /\ \A g \in Fibers, p \in Queues : InQueue(g, p)' <=> InQueue(g, p) /\ g # h
      /\ \A g \in Fibers : error'[g] = IF g = h THEN "OK" ELSE error[g]
  BY <1>3, <1>4, Completed, Zenon
<1>6. WQTypeOK'
  BY <1>1, <1>5, Zenon DEF WQTypeOK
<1>7. \A g \in Fibers : InWait(g)' <=> InWait(g)
  BY Zenon DEF InWait
<1>8. \A g \in Fibers, p \in Queues : InQueue(g, p)' => InQueue(g, p) /\ InWait(g)'
  BY <1>5, <1>7, Zenon DEF WQInv, Deques
<1>9. \A g \in Fibers : error'[g] = error[g] \/ error'[g] = "OK"
  BY <1>5, Zenon
<1>10. \A g \in Fibers : error'[g] = error[g] \/ error'[g] # "ETIMEDOUT"
  BY <1>9, Zenon
<1>11. WQInv'
  BY <1>5, <1>6, <1>7, <1>8, <1>10, WaitsStay, Zenon
<1> QED
  BY <1>3, <1>5, <1>9, <1>11, Zenon

\* The calls and returns of lock() and wait() are outside every wait.
LEMMA CallsKeep ==
  ASSUME WQInv, NEW f \in Fibers, ~InWait(f),
         UNCHANGED <<waiters, where, wait, tasks, armed, fired>>,
         error' = error \/ error' = [error EXCEPT ![f] = "OK"],
         ret' = ret \/ ret' = [ret EXCEPT ![f] = "OK"],
         \E l \in {"idle", "call"} : pc' = [pc EXCEPT ![f] = l],
         \E b \in BOOLEAN : timed' = [timed EXCEPT ![f] = b],
         late' = late \/ \E b \in BOOLEAN : late' = [late EXCEPT ![f] = b]
  PROVE  /\ WQInv' /\ ~InWait(f)'
         /\ \A g \in Fibers \ {f} : pc'[g] = pc[g] /\ error'[g] = error[g] /\ ret'[g] = ret[g] /\ timed'[g] = timed[g]
<1>1. WQTypeOK
  BY Zenon DEF WQInv
<1>2. WQTypeOK'
  <2>1. pc' \in [Fibers -> Locations] /\ error' \in [Fibers -> Errors] /\ ret' \in [Fibers -> Errors]
    <3>1. pc \in [Fibers -> Locations] /\ error \in [Fibers -> Errors] /\ ret \in [Fibers -> Errors]
      BY <1>1, Zenon DEF WQTypeOK
    <3>2. "OK" \in Errors /\ "idle" \in Locations /\ "call" \in Locations
      BY Zenon DEF Errors, Locations
    <3>3. PICK l \in Locations : pc' = [pc EXCEPT ![f] = l]
      BY <3>2, Zenon
    <3>4. error' \in [Fibers -> Errors]
      BY <3>1, <3>2, Zenon
    <3>5. ret' \in [Fibers -> Errors]
      BY <3>1, <3>2, Zenon
    <3>6. pc' \in [Fibers -> Locations]
      BY <3>1, <3>3, Zenon
    <3> QED
      BY <3>4, <3>5, <3>6, Zenon
  <2>2. timed' \in [Fibers -> BOOLEAN]
    BY <1>1, Zenon DEF WQTypeOK
  <2>3. late' \in [Fibers -> BOOLEAN]
    BY <1>1, Zenon DEF WQTypeOK
  <2> QED
    BY <1>1, <2>1, <2>2, <2>3, Zenon DEF WQTypeOK
<1>3. /\ pc'[f] \in {"idle", "call"}
      /\ \A g \in Fibers \ {f} : pc'[g] = pc[g] /\ error'[g] = error[g] /\ ret'[g] = ret[g]
      /\ \A g \in Fibers \ {f} : timed'[g] = timed[g] /\ late'[g] = late[g]
  BY <1>1, Zenon DEF WQTypeOK
<1>4. ~InWait(f)' /\ pc'[f] # "returned"
  BY <1>3, Zenon DEF InWait
<1>5. \A g \in Fibers : InWait(g)' => InWait(g) /\ g # f
  BY <1>3, <1>4, Zenon DEF InWait
<1>6. \A g \in Fibers : InWait(g)' \/ pc'[g] = "returned" => timed'[g] = timed[g] /\ (late[g] => late'[g])
  BY <1>3, <1>4, Zenon
<1>7. \A g \in Fibers, p \in Queues : InQueue(g, p)' => InQueue(g, p) /\ InWait(g)'
  <2>1. \A g \in Fibers, p \in Queues : InQueue(g, p)' => InQueue(g, p) /\ InWait(g)
    BY Zenon DEF WQInv, Deques, InQueue
  <2>2. \A g \in Fibers : InWait(g) => InWait(g)'
    BY <1>3, Zenon DEF InWait
  <2> QED
    BY <2>1, <2>2, Zenon
<1>8. \A q \in Queues : NoDuplicates(waiters'[q])
  BY Zenon DEF WQInv, Deques
<1>9. \A g \in Fibers : InWait(g)' => error'[g] = error[g]
  BY <1>3, <1>5, Zenon
<1>10. \A g \in Fibers : pc'[g] = "returned" /\ ret'[g] = "ETIMEDOUT" => pc[g] = "returned" /\ ret[g] = "ETIMEDOUT"
  BY <1>3, <1>4, Zenon
<1>11. WQInv'
  BY <1>2, <1>5, <1>6, <1>7, <1>8, <1>9, <1>10, WaitsStay, Zenon
<1> QED
  BY <1>3, <1>4, <1>11, Zenon

\* A new wait has a Waiter of its own, which no timer knows of yet.
LEMMA PushKeeps ==
  ASSUME WQInv, NEW f \in Fibers, NEW q \in Queues, ~InWait(f), pushWaiter(f, q)
  PROVE  /\ WQInv'
         /\ \A g \in Fibers, p \in Queues : InQueue(g, p)' <=> InQueue(g, p) \/ (g = f /\ p = q)
         /\ pc'[f] = "queued" /\ where'[f] = q /\ error'[f] = "OK" /\ timed' = timed /\ ret' = ret
         /\ \A g \in Fibers \ {f} : pc'[g] = pc[g] /\ error'[g] = error[g] /\ where'[g] = where[g]
<1>1. WQTypeOK /\ waiters[q] \in Seq(Fibers) /\ NoDuplicates(waiters[q]) /\ \A p \in Queues : ~InQueue(f, p)
  BY Zenon DEF WQInv, WQTypeOK, Deques
<1>2. /\ Append(waiters[q], f) \in Seq(Fibers)
      /\ NoDuplicates(Append(waiters[q], f))
      /\ \A g : Has(Append(waiters[q], f), g) <=> InQueue(g, q) \/ g = f
  <2>1. ~Has(waiters[q], f)
    BY <1>1, Zenon DEF InQueue
  <2> HIDE DEF WQInv
  <2> QED
    BY <1>1, <2>1, PushLemma, Zenon DEF InQueue
<1>3. waiters'[q] = Append(waiters[q], f) /\ \A p \in Queues \ {q} : waiters'[p] = waiters[p]
  BY <1>1, Zenon DEF pushWaiter, WQTypeOK
<1>4. ASSUME NEW g \in Fibers, NEW p \in Queues
      PROVE  InQueue(g, p)' <=> InQueue(g, p) \/ (g = f /\ p = q)
  <2>1. CASE p = q
    BY <1>2, <1>3, <2>1, Zenon DEF InQueue
  <2>2. CASE p # q
    BY <1>3, <2>2, Zenon DEF InQueue
  <2> QED
    BY <2>1, <2>2, Zenon
<1>5. /\ pc'[f] = "queued" /\ where'[f] = q /\ error'[f] = "OK"
      /\ \A g \in Fibers \ {f} : pc'[g] = pc[g] /\ error'[g] = error[g] /\ where'[g] = where[g] /\ wait'[g] = wait[g]
      /\ UNCHANGED <<ret, timed, late, tasks, armed, fired>>
  BY <1>1, Zenon DEF pushWaiter, WQTypeOK
<1>6. wait'[f] = wait[f] + 1 /\ wait[f] \in Nat /\ wait' \in [Fibers -> Nat]
  BY <1>1 DEF pushWaiter, WQTypeOK
<1>7. WQTypeOK'
  <2>1. waiters' \in [Queues -> Seq(Fibers)]
    BY <1>1, <1>2, Zenon DEF pushWaiter, WQTypeOK
  <2> QED
    BY <1>1, <1>6, <2>1, Zenon DEF pushWaiter, WQTypeOK, Locations, Errors
<1>8. /\ InWait(f)' /\ \A g \in Fibers \ {f} : InWait(g)' <=> InWait(g)
  BY <1>5, Zenon DEF InWait
<1>9. Deques'
  <2>1. \A p \in Queues : NoDuplicates(waiters'[p])
    BY <1>2, <1>3, Zenon DEF WQInv, Deques
  <2>2. ASSUME NEW g \in Fibers, NEW p \in Queues, InQueue(g, p)' PROVE where'[g] = p /\ InWait(g)'
    <3>1. CASE g = f
      BY <1>1, <1>4, <1>5, <1>8, <2>2, <3>1, Zenon
    <3>2. CASE g # f
      <4>1. where[g] = p /\ InWait(g)
        BY <1>4, <2>2, <3>2, Zenon DEF WQInv, Deques
      <4> QED
        BY <1>5, <1>8, <3>2, <4>1, Zenon
    <3> QED
      BY <3>1, <3>2, Zenon
  <2> QED
    BY <2>1, <2>2, Zenon DEF Deques
<1>10. \A t \in armed \cup fired : t[1] \in Fibers /\ t[2] \in Nat /\ t[2] <= wait[t[1]] /\ (t[1] = f => t[2] <= wait[f])
  BY <1>1, Zenon DEF WQInv, Deadlines, WQTypeOK
<1>11. \A t \in armed \cup fired : t[1] = f => t[2] # wait'[f] /\ t[2] <= wait'[f]
  BY <1>6, <1>10
<1>12. Deadlines'
  <2>1. ASSUME NEW t \in armed \cup fired PROVE t[2] <= wait'[t[1]]
    BY <1>5, <1>10, <1>11, Zenon
  <2>2. ASSUME NEW t \in armed, t[2] = wait'[t[1]], InWait(t[1])' PROVE timed[t[1]]
    <3>1. t[1] # f /\ t[1] \in Fibers
      BY <1>10, <1>11, <2>2, Zenon
    <3> QED
      BY <1>5, <1>8, <2>2, <3>1, Zenon DEF WQInv, Deadlines
  <2>3. ASSUME NEW t \in fired, t[2] = wait'[t[1]], InWait(t[1])' PROVE timed[t[1]] /\ late[t[1]]
    <3>1. t[1] # f /\ t[1] \in Fibers
      BY <1>10, <1>11, <2>3, Zenon
    <3> QED
      BY <1>5, <1>8, <2>3, <3>1, Zenon DEF WQInv, Deadlines
  <2>4. ASSUME NEW g \in Fibers, InWait(g)', error'[g] = "ETIMEDOUT" PROVE timed[g] /\ late[g]
    <3>1. g # f
      BY <1>5, <2>4, Zenon
    <3> QED
      BY <1>5, <1>8, <2>4, <3>1, Zenon DEF WQInv, Deadlines
  <2> QED
    BY <1>5, <2>1, <2>2, <2>3, <2>4, Zenon DEF Deadlines
<1>13. TimeoutNotEarly'
  <2>1. ASSUME NEW g \in Fibers, pc'[g] = "returned", ret'[g] = "ETIMEDOUT" PROVE timed'[g] /\ late'[g]
    <3>1. pc[g] = "returned" /\ ret[g] = "ETIMEDOUT"
      <4>1. g # f
        BY <1>5, <2>1, Zenon
      <4> QED
        BY <1>5, <2>1, <4>1, Zenon
    <3> QED
      BY <1>5, <3>1, Zenon DEF WQInv, TimeoutNotEarly
  <2> QED
    BY <2>1, Zenon DEF TimeoutNotEarly
<1> QED
  BY <1>4, <1>5, <1>7, <1>9, <1>12, <1>13, Zenon DEF WQInv

\* No wait is under way when a primitive is made.
LEMMA WaitsInit ==
  ASSUME WQInit
  PROVE  WQInv
<1>1. (\A q \in Queues : waiters[q] = <<>>) /\ \A f \in Fibers : pc[f] = "idle"
  BY Zenon DEF WQInit
<1>2. waiters \in [Queues -> Seq(Fibers)] /\ tasks \in [Fibers -> Nat] /\ wait \in [Fibers -> Nat]
  BY DEF WQInit
<1>3. where \in [Fibers -> Queues]
  <2>1. (CHOOSE q \in Queues : TRUE) \in Queues
    BY WaitQueueAssumption, Zenon
  <2> QED
    BY <2>1, Zenon DEF WQInit
<1>4. WQTypeOK
  BY <1>2, <1>3, Zenon DEF WQInit, WQTypeOK, Locations, Errors
<1>5. \A q \in Queues : NoDuplicates(waiters[q]) /\ \A f : ~InQueue(f, q)
  BY <1>1 DEF NoDuplicates, InQueue, Has
<1>6. armed = {} /\ fired = {} /\ \A f \in Fibers : ~InWait(f) /\ pc[f] # "returned"
  BY <1>1, Zenon DEF WQInit, InWait
<1> QED
  BY <1>4, <1>5, <1>6, Zenon DEF WQInv, Deques, Deadlines, TimeoutNotEarly

LEMMA WaitsStutter ==
  ASSUME WQInv, UNCHANGED wqVars
  PROVE  WQInv'
BY Zenon DEF WQInv, WQTypeOK, Deques, Deadlines, TimeoutNotEarly, InWait, InQueue, wqVars
----------------------------------------------------------------------------
(* FiberSemaphore, on any scheduler.                                       *)

\* The inductive invariant.
FSInv == FSTypeOK /\ WQInv /\ NoHiddenWaiter

LEMMA FSInitInv == FSInit => FSInv
<1> SUFFICES ASSUME FSInit PROVE FSInv
  OBVIOUS
<1>1. WQInv
  BY WaitsInit, Zenon DEF FSInit
<1>2. FSTypeOK
  <2>1. 1 \in Nat
    OBVIOUS
  <2> QED
    BY <1>1, <2>1, FiberSemaphoreAssumption, Zenon DEF FSInit, FSTypeOK, WQInv
<1>3. waiters["sem"] = <<>>
  BY FiberSemaphoreAssumption, Zenon DEF FSInit, WQInit
<1>4. NoHiddenWaiter
  BY <1>3 DEF NoHiddenWaiter, InQueue, Has
<1> QED
  BY <1>1, <1>2, <1>4, Zenon DEF FSInv

\* A fiber at the loop of wait() is not queued, and leaves with or without
\* its count.
LEMMA WaitStepKeeps ==
  ASSUME FSInv, NEW f \in Fibers, WaitStep(f)
  PROVE  FSInv'
<1>0. WQInv /\ WQTypeOK /\ count \in Nat /\ need \in [Fibers -> Nat] /\ NoHiddenWaiter
  BY Zenon DEF FSInv, WQInv, FSTypeOK
<1>1. pc[f] = "call" \/ pc[f] = "returned"
  BY Zenon DEF WaitStep, WaitAcquire, WaitExpired, WaitRefused, WaitQueued, WaitFailed, FSAtLoop
<1>2. ~InWait(f)
  BY <1>1, Zenon DEF InWait
<1>3. CASE leaveWait(f)
  <2>1. WQInv' /\ waiters' = waiters
    BY <1>0, <1>2, <1>3, CallsKeep, Zenon DEF leaveWait, leaveCall
  <2>2. count' \in Nat /\ count' <= count
    <3>1. CASE WaitAcquire(f)
      <4>1. need[f] \in Nat /\ count >= need[f] /\ count' = count - need[f]
        BY <1>0, <3>1, Zenon DEF WaitAcquire, Enough
      <4> QED
        BY <1>0, <4>1
    <3>2. CASE count' = count
      BY <1>0, <3>2
    <3> QED
      BY <3>1, <3>2, Zenon DEF WaitStep, WaitExpired, WaitRefused, WaitQueued, WaitFailed, semVars
  <2>3. need' \in [Fibers -> Nat] /\ \A g \in Fibers \ {f} : need'[g] = need[g]
    <3>1. 1 \in Nat
      OBVIOUS
    <3> QED
      BY <1>0, <1>3, <3>1, Zenon DEF leaveWait
  <2>4. \A g \in Fibers : InQueue(g, "sem")' => InQueue(g, "sem") /\ g # f
    BY <1>0, <1>2, <2>1, FiberSemaphoreAssumption, Zenon DEF WQInv, Deques, InQueue
  <2>5. ASSUME NEW g \in Fibers, InQueue(g, "sem")' PROVE count' < need'[g]
    <3>1. count < need[g] /\ need'[g] = need[g] /\ need[g] \in Nat
      BY <1>0, <2>3, <2>4, <2>5, Zenon DEF NoHiddenWaiter
    <3> QED
      BY <1>0, <2>2, <3>1
  <2> QED
    BY <2>1, <2>2, <2>3, <2>5, Zenon DEF FSInv, FSTypeOK, WQInv, NoHiddenWaiter
<1>4. CASE WaitQueued(f)
  <2>1. pushWaiter(f, "sem") /\ count' = count /\ need' = need /\ ~(count >= need[f])
    BY <1>4, Zenon DEF WaitQueued, semVars, Enough
  <2>2. count < need[f]
    BY <1>0, <2>1
  <2>3. /\ WQInv'
        /\ \A g \in Fibers, p \in Queues : InQueue(g, p)' <=> InQueue(g, p) \/ (g = f /\ p = "sem")
    BY <1>0, <1>2, <2>1, FiberSemaphoreAssumption, PushKeeps, Zenon
  <2>4. NoHiddenWaiter'
    BY <1>0, <2>1, <2>2, <2>3, FiberSemaphoreAssumption, Zenon DEF NoHiddenWaiter
  <2> QED
    BY <1>0, <2>1, <2>3, <2>4, Zenon DEF FSInv, FSTypeOK, WQInv
<1> QED
  BY <1>3, <1>4, Zenon DEF WaitStep, WaitAcquire, WaitExpired, WaitRefused, WaitFailed

LEMMA FSNextInv ==
  ASSUME FSInv, [FSNext]_fsVars
  PROVE  FSInv'
<1>0. WQInv /\ WQTypeOK /\ count \in Nat /\ need \in [Fibers -> Nat] /\ NoHiddenWaiter /\ "sem" \in Queues
  BY FiberSemaphoreAssumption, Zenon DEF FSInv, WQInv, FSTypeOK
<1>1. CASE WQStep /\ UNCHANGED semVars
  <2>1. WQInv' /\ \A f \in Fibers : InQueue(f, "sem")' => InQueue(f, "sem")
    BY <1>0, <1>1, WQStepKeeps, Zenon DEF WQEffect
  <2>2. count' = count /\ need' = need
    BY <1>1, Zenon DEF semVars
  <2> QED
    BY <1>0, <2>1, <2>2, Zenon DEF FSInv, FSTypeOK, WQInv, NoHiddenWaiter
<1>2. ASSUME NEW f \in Fibers, NEW m \in 1..MaxNeed, NEW t \in BOOLEAN, Wait(f, m, t) PROVE FSInv'
  <2>1. pc[f] = "idle" /\ enterCall(f, t) /\ need' = [need EXCEPT ![f] = m] /\ count' = count
    BY <1>2, Zenon DEF Wait
  <2>2. ~InWait(f) /\ m \in Nat
    <3>1. m \in Nat
      BY FiberSemaphoreAssumption
    <3> QED
      BY <2>1, <3>1, Zenon DEF InWait
  <2>3. WQInv' /\ waiters' = waiters
    BY <1>0, <2>1, <2>2, CallsKeep, Zenon DEF enterCall
  <2>4. need' \in [Fibers -> Nat] /\ \A g \in Fibers \ {f} : need'[g] = need[g]
    BY <1>0, <2>1, <2>2, Zenon
  <2>5. \A g \in Fibers : InQueue(g, "sem")' => InQueue(g, "sem") /\ g # f
    BY <1>0, <2>2, <2>3, Zenon DEF WQInv, Deques, InQueue
  <2>6. NoHiddenWaiter'
    BY <1>0, <2>1, <2>4, <2>5, Zenon DEF NoHiddenWaiter
  <2> QED
    BY <1>0, <2>1, <2>3, <2>4, <2>6, Zenon DEF FSInv, FSTypeOK, WQInv
<1>3. ASSUME NEW f \in Fibers, WaitStep(f) PROVE FSInv'
  BY <1>3, WaitStepKeeps, Zenon
<1>4. ASSUME NEW e \in {"OK", "ECANCELED"}, wakeAllLocked("sem", e), count' \in Nat, need' = need,
             UNCHANGED <<pc, where, wait, ret, timed, late, armed, fired>>
      PROVE  FSInv'
  <2>1. WQInv' /\ \A g : ~InQueue(g, "sem")'
    BY <1>0, <1>4, WakeAllKeeps, Zenon
  <2> QED
    BY <1>0, <1>4, <2>1, Zenon DEF FSInv, FSTypeOK, WQInv, NoHiddenWaiter
<1>5. ASSUME NEW m \in 1..MaxNeed, Signal(m) PROVE FSInv'
  <2>1. m \in Nat /\ count' = count + m
    BY <1>5, FiberSemaphoreAssumption DEF Signal
  <2>2. count' \in Nat
    BY <1>0, <2>1
  <2> QED
    BY <1>4, <1>5, <2>2, Zenon DEF Signal
<1>6. CASE FSCancelWaiters
  BY <1>0, <1>4, <1>6, Zenon DEF FSCancelWaiters
<1>7. CASE UNCHANGED fsVars
  <2>1. WQInv' /\ UNCHANGED <<waiters, count, need>>
    BY <1>0, <1>7, WaitsStutter, Zenon DEF fsVars, semVars, wqVars
  <2> QED
    BY <1>0, <2>1, Zenon DEF FSInv, FSTypeOK, WQInv, NoHiddenWaiter, InQueue
<1> QED
  BY <1>1, <1>2, <1>3, <1>5, <1>6, <1>7, Zenon DEF FSNext

\* No waiter of a FiberSemaphore sleeps although the count covers what it asks
\* for, whatever the waiters in front of it ask for: signal() wakes them all.
THEOREM NoWaiterHidden == FSSpec => []NoHiddenWaiter
<1>1. FSInit => FSInv
  BY FSInitInv, Zenon
<1>2. FSInv /\ [FSNext]_fsVars => FSInv'
  BY FSNextInv, Zenon
<1>3. FSInv => NoHiddenWaiter
  BY Zenon DEF FSInv
<1> QED
  BY <1>1, <1>2, <1>3, PTL DEF FSSpec

\* sync.cpp:70-73: the wait of a semaphore reports ETIMEDOUT only after the
\* deadline of its own call.
THEOREM SemaphoreTimeoutsInTime == FSSpec => []TimeoutNotEarly
<1>1. FSInit => FSInv
  BY FSInitInv, Zenon
<1>2. FSInv /\ [FSNext]_fsVars => FSInv'
  BY FSNextInv, Zenon
<1>3. FSInv => TimeoutNotEarly
  BY Zenon DEF FSInv, WQInv
<1> QED
  BY <1>1, <1>2, <1>3, PTL DEF FSSpec

----------------------------------------------------------------------------
(* FiberConditionVariable with its mutex, used as CondVarProtocol uses it.  *)

\* Where wait() and lock() of one fiber can be.  A wait for the mutex has no
\* deadline, so nothing but unlock() ends it, and lock() takes the mutex.
StageOK(f) ==
  /\ stage[f] \in {"guarded", "released"} => pc[f] = "idle" /\ cvGuard = f
  /\ stage[f] = "guarded" => owner = f
  /\ stage[f] = "waiting" => pc[f] \notin {"idle", "call"} /\ where[f] = "cond"
  /\ stage[f] # "waiting" /\ pc[f] \notin {"idle", "call"} => where[f] = "mutex"
  /\ stage[f] \in {"out", "relock"} /\ pc[f] # "idle" => ~timed[f]
  /\ where[f] = "mutex" /\ InWait(f) => error[f] = "OK"
  /\ where[f] = "mutex" /\ pc[f] = "returned" => ret[f] = "OK"
  /\ Outsiders = {} /\ stage[f] = "relock" /\ pc[f] = "idle" => owner = f

CVInv == CVTypeOK /\ WQInv /\ \A f \in Fibers : StageOK(f)

\* No step but wait() itself puts anybody to sleep.
SleepersStay == \A f \in Fibers : Asleep(f)' => Asleep(f)

USE FiberMutexAssumption, FiberCondVarAssumption

\* A step of another fiber.
LEMMA OtherStage ==
  ASSUME NEW g \in Fibers, StageOK(g),
         pc'[g] = pc[g], where'[g] = where[g], timed'[g] = timed[g], ret'[g] = ret[g], stage'[g] = stage[g],
         error'[g] = error[g] \/ error'[g] = "OK" \/ where[g] # "mutex",
         cvGuard = g => cvGuard' = g,
         owner = g => owner' = g
  PROVE  StageOK(g)'
<1>1. InWait(g)' <=> InWait(g)
  BY Zenon DEF InWait
<1> QED
  BY <1>1, Zenon DEF StageOK

LEMMA CVWaitStep ==
  ASSUME CVInv, WQStep, UNCHANGED <<mutexVars, condVars>>
  PROVE  CVInv' /\ SleepersStay
<1>1. WQInv' /\ WQEffect
  BY WQStepKeeps, Zenon DEF CVInv
<1>2. UNCHANGED <<owner, handoff, cvGuard, stage, failed>>
  BY Zenon DEF mutexVars, condVars
<1>3. CVTypeOK'
  BY <1>1, <1>2, Zenon DEF CVInv, CVTypeOK, FMTypeOK, WQInv
<1>4. ASSUME NEW f \in Fibers PROVE StageOK(f)'
  <2>1. StageOK(f) /\ stage[f] \in Stages
    BY Zenon DEF CVInv, CVTypeOK
  <2>2. /\ where'[f] = where[f] /\ timed'[f] = timed[f]
        /\ pc'[f] = pc[f] \/ (InWait(f) /\ (InWait(f)' \/ pc'[f] = "returned"))
        /\ ~timed[f] /\ InWait(f)' => error'[f] = error[f]
        /\ ~timed[f] /\ pc'[f] = "returned" =>
             (pc[f] = "returned" /\ ret'[f] = ret[f]) \/ (InWait(f) /\ ret'[f] = error[f])
    BY <1>1, Zenon DEF WQEffect
  <2>3. InWait(f)' => InWait(f)
    BY <2>2, Zenon DEF InWait
  <2>4. where[f] = "mutex" /\ (InWait(f) \/ pc[f] = "returned") => ~timed[f]
    <3>1. where[f] = "mutex" => stage[f] # "waiting"
      BY <2>1, Zenon DEF StageOK
    <3>2. InWait(f) \/ pc[f] = "returned" => pc[f] # "idle"
      BY Zenon DEF InWait
    <3> QED
      BY <2>1, <3>1, <3>2, Zenon DEF StageOK, Stages
  <2>5. where'[f] = "mutex" /\ InWait(f)' => error'[f] = "OK"
    BY <2>1, <2>2, <2>3, <2>4, Zenon DEF StageOK
  <2>6. where'[f] = "mutex" /\ pc'[f] = "returned" => ret'[f] = "OK"
    BY <2>1, <2>2, <2>4, Zenon DEF StageOK
  <2>7. /\ pc'[f] = "idle" <=> pc[f] = "idle"
        /\ pc'[f] = "call" <=> pc[f] = "call"
    BY <2>2, Zenon DEF InWait
  <2> QED
    BY <1>2, <2>1, <2>2, <2>5, <2>6, <2>7, Zenon DEF StageOK
<1>5. SleepersStay
  BY <1>1, <1>2, Zenon DEF WQEffect, SleepersStay, Asleep
<1> QED
  BY <1>1, <1>3, <1>4, <1>5, Zenon DEF CVInv

\* unlock(), by the owner or inside wait(), wakes the front of the mutex's
\* queue with no error.
LEMMA ReleaseKeeps ==
  ASSUME CVInv, Release, UNCHANGED <<pc, where, wait, ret, timed, late, armed, fired>>
  PROVE  /\ WQInv' /\ FMTypeOK' /\ owner' = None
         /\ \A g \in Fibers : error'[g] = error[g] \/ error'[g] = "OK"
         /\ \A g \in Fibers : InQueue(g, "cond")' => InQueue(g, "cond")
<1>1. WQInv /\ FMTypeOK /\ owner' = None /\ handoff' \in BOOLEAN
  BY Zenon DEF CVInv, CVTypeOK, Release
<1>2. CASE waiters["mutex"] # <<>>
  <2>1. wakeOneLocked("mutex", "OK")
    BY <1>2, Zenon DEF Release
  <2>2. /\ WQInv' /\ \A g \in Fibers : error'[g] = error[g] \/ error'[g] = "OK"
        /\ \E h \in Fibers : InQueue(h, "mutex")
             /\ \A g \in Fibers, p \in Queues : InQueue(g, p)' <=> InQueue(g, p) /\ g # h
    BY <1>1, <1>2, <2>1, WakeOneKeeps, Zenon
  <2>3. \A g \in Fibers : InQueue(g, "cond")' => InQueue(g, "cond")
    BY <2>2, Zenon
  <2> QED
    BY <1>1, <2>2, <2>3, Zenon DEF FMTypeOK, WQInv
<1>3. CASE waiters["mutex"] = <<>>
  <2>1. UNCHANGED wqVars
    <3>1. UNCHANGED <<waiters, error, tasks>>
      BY <1>3, Zenon DEF Release
    <3> QED
      BY <3>1, Zenon DEF wqVars
  <2>2. WQInv'
    BY <1>1, <2>1, WaitsStutter, Zenon
  <2> QED
    BY <1>1, <2>1, <2>2, Zenon DEF FMTypeOK, WQInv, wqVars, InQueue
<1> QED
  BY <1>2, <1>3, Zenon

LEMMA CondReleaseKeeps ==
  ASSUME CVInv, NEW f \in Fibers, CondRelease(f)
  PROVE  CVInv' /\ SleepersStay
<1>1. /\ stage[f] = "guarded" /\ Release /\ stage' = [stage EXCEPT ![f] = "released"]
      /\ UNCHANGED <<pc, where, wait, ret, timed, late, armed, fired, cvGuard, failed>>
  BY Zenon DEF CondRelease
<1>2. /\ WQInv' /\ FMTypeOK' /\ owner' = None
      /\ \A g \in Fibers : error'[g] = error[g] \/ error'[g] = "OK"
      /\ \A g \in Fibers : InQueue(g, "cond")' => InQueue(g, "cond")
  BY <1>1, ReleaseKeeps, Zenon
<1>3. StageOK(f) /\ cvGuard = f /\ owner = f /\ pc[f] = "idle"
  BY <1>1, Zenon DEF CVInv, StageOK
<1>4. stage'[f] = "released" /\ \A g \in Fibers \ {f} : stage'[g] = stage[g]
  BY <1>1, Zenon DEF CVInv, CVTypeOK
<1>5. ASSUME NEW g \in Fibers PROVE StageOK(g)'
  <2>1. CASE g = f
    BY <1>1, <1>3, <1>4, <2>1, Zenon DEF StageOK, InWait
  <2>2. CASE g # f
    <3>1. StageOK(g) /\ owner # g
      BY <1>3, <2>2, Zenon DEF CVInv
    <3> QED
      BY <1>1, <1>2, <1>4, <2>2, <3>1, OtherStage, Zenon
  <2> QED
    BY <2>1, <2>2, Zenon
<1>6. CVTypeOK'
  BY <1>1, <1>2, Zenon DEF CVInv, CVTypeOK, Stages
<1>7. SleepersStay
  BY <1>1, <1>2, <1>4, Zenon DEF SleepersStay, Asleep
<1> QED
  BY <1>2, <1>5, <1>6, <1>7, Zenon DEF CVInv

LEMMA CondPushKeeps ==
  ASSUME CVInv, NEW f \in Fibers, CondPush(f)
  PROVE  CVInv' /\ SleepersStay
<1>1. /\ stage[f] = "released" /\ pushWaiter(f, "cond") /\ stage' = [stage EXCEPT ![f] = "waiting"]
      /\ cvGuard' = None /\ UNCHANGED <<owner, handoff, failed>>
  BY Zenon DEF CondPush, mutexVars
<1>2. WQInv /\ StageOK(f) /\ cvGuard = f /\ ~InWait(f)
  BY <1>1, Zenon DEF CVInv, StageOK, InWait
<1>3. /\ WQInv'
      /\ \A g \in Fibers, p \in Queues : InQueue(g, p)' <=> InQueue(g, p) \/ (g = f /\ p = "cond")
      /\ pc'[f] = "queued" /\ where'[f] = "cond" /\ error'[f] = "OK" /\ timed' = timed /\ ret' = ret
      /\ \A g \in Fibers \ {f} : pc'[g] = pc[g] /\ error'[g] = error[g] /\ where'[g] = where[g]
  BY <1>1, <1>2, PushKeeps, Zenon
<1>4. stage'[f] = "waiting" /\ \A g \in Fibers \ {f} : stage'[g] = stage[g]
  BY <1>1, Zenon DEF CVInv, CVTypeOK
<1>5. ASSUME NEW g \in Fibers PROVE StageOK(g)'
  <2>1. CASE g = f
    BY <1>3, <1>4, <2>1, Zenon DEF StageOK
  <2>2. CASE g # f
    <3>1. StageOK(g) /\ cvGuard # g
      BY <1>2, <2>2, Zenon DEF CVInv
    <3> QED
      BY <1>1, <1>3, <1>4, <2>2, <3>1, OtherStage, Zenon
  <2> QED
    BY <2>1, <2>2, Zenon
<1>6. CVTypeOK'
  BY <1>1, <1>3, Zenon DEF CVInv, CVTypeOK, FMTypeOK, WQInv, Stages
<1>7. SleepersStay
  BY <1>1, <1>3, <1>4, Zenon DEF SleepersStay, Asleep
<1> QED
  BY <1>3, <1>5, <1>6, <1>7, Zenon DEF CVInv

\* mutex.lock() at the end of wait(), after a refusal or a wait.
LEMMA RelockKeeps ==
  ASSUME CVInv, NEW f \in Fibers, CondRefused(f) \/ CondWoken(f)
  PROVE  CVInv' /\ SleepersStay
<1>1. PICK b \in BOOLEAN : relock(f, b)
  BY Zenon DEF CondRefused, CondWoken
<1>2. /\ stage[f] = "released" \/ (stage[f] = "waiting" /\ pc[f] = "returned")
      /\ cvGuard' = cvGuard \/ (cvGuard' = None /\ stage[f] = "released")
  BY Zenon DEF CondRefused, CondWoken
<1>3. WQInv /\ StageOK(f) /\ ~InWait(f) /\ (stage[f] = "released" => cvGuard = f)
  BY <1>2, Zenon DEF CVInv, StageOK, InWait
<1>4. /\ UNCHANGED <<waiters, where, wait, error, ret, tasks, armed, fired, owner, handoff>>
      /\ pc' = [pc EXCEPT ![f] = "call"] /\ stage' = [stage EXCEPT ![f] = "relock"]
      /\ failed' = [failed EXCEPT ![f] = b]
      /\ timed' = [timed EXCEPT ![f] = FALSE] /\ late' = [late EXCEPT ![f] = FALSE]
  BY <1>1, Zenon DEF relock, mutexVars
<1>5. \A g \in Fibers \ {f} : pc'[g] = pc[g] /\ timed'[g] = timed[g] /\ stage'[g] = stage[g]
  BY <1>4, Zenon DEF CVInv, CVTypeOK, FMTypeOK, WQTypeOK
<1>6. pc'[f] = "call" /\ stage'[f] = "relock" /\ ~timed'[f]
  BY <1>4, Zenon DEF CVInv, CVTypeOK, FMTypeOK, WQTypeOK
<1>7. WQInv'
  BY <1>3, <1>4, CallsKeep, Zenon
<1>8. ASSUME NEW g \in Fibers PROVE StageOK(g)'
  <2>1. CASE g = f
    BY <1>6, <2>1, Zenon DEF StageOK, InWait
  <2>2. CASE g # f
    <3>1. StageOK(g) /\ (cvGuard = g => cvGuard' = g)
      BY <1>2, <1>3, <2>2, Zenon DEF CVInv
    <3> QED
      BY <1>4, <1>5, <2>2, <3>1, OtherStage, Zenon
  <2> QED
    BY <2>1, <2>2, Zenon
<1>9. CVTypeOK'
  <2>1. cvGuard' \in Fibers \cup {None} /\ owner' \in Fibers \cup {None} /\ handoff' \in BOOLEAN
    BY <1>2, <1>4, Zenon DEF CVInv, CVTypeOK, FMTypeOK
  <2>2. stage' \in [Fibers -> Stages] /\ failed' \in [Fibers -> BOOLEAN]
    BY <1>4, Zenon DEF CVInv, CVTypeOK, Stages
  <2> QED
    BY <1>7, <2>1, <2>2, Zenon DEF CVTypeOK, FMTypeOK, WQInv
<1>10. SleepersStay
  BY <1>4, <1>5, <1>6, Zenon DEF SleepersStay, Asleep, InQueue
<1> QED
  BY <1>7, <1>8, <1>9, <1>10, Zenon DEF CVInv

LEMMA CondReturnKeeps ==
  ASSUME CVInv, NEW f \in Fibers, CondReturn(f)
  PROVE  CVInv' /\ SleepersStay
<1>1. /\ stage[f] = "relock" /\ pc[f] = "idle" /\ stage' = [stage EXCEPT ![f] = "out"]
      /\ failed' = [failed EXCEPT ![f] = FALSE] /\ cvGuard' = cvGuard /\ UNCHANGED wqVars /\ UNCHANGED <<owner, handoff>>
  BY Zenon DEF CondReturn, fmVars, mutexVars
<1>2. WQInv' /\ UNCHANGED <<waiters, pc, where, timed, ret, error>>
  BY <1>1, WaitsStutter, Zenon DEF CVInv, wqVars
<1>3. stage'[f] = "out" /\ \A g \in Fibers \ {f} : stage'[g] = stage[g]
  BY <1>1, Zenon DEF CVInv, CVTypeOK
<1>4. ASSUME NEW g \in Fibers PROVE StageOK(g)'
  <2>0. StageOK(g)
    BY Zenon DEF CVInv
  <2>1. CASE g = f
    BY <1>1, <1>2, <1>3, <2>0, <2>1, Zenon DEF StageOK, InWait
  <2>2. CASE g # f
    BY <1>1, <1>2, <1>3, <2>0, <2>2, OtherStage, Zenon
  <2> QED
    BY <2>1, <2>2, Zenon
<1>5. CVTypeOK'
  BY <1>1, <1>2, Zenon DEF CVInv, CVTypeOK, FMTypeOK, WQInv, Stages
<1>6. SleepersStay
  BY <1>1, <1>2, <1>3, Zenon DEF SleepersStay, Asleep, InQueue
<1> QED
  BY <1>2, <1>4, <1>5, <1>6, Zenon DEF CVInv

\* lock() by a fiber, outside wait() or at its end, cannot fail: it has no
\* deadline, and cancelWaiters() is not called on the mutex.
LEMMA CVLockStep ==
  ASSUME CVInv, NEW f \in Fibers, LockStep(f), UNCHANGED condVars
  PROVE  CVInv' /\ SleepersStay
<1>0. WQInv /\ StageOK(f) /\ stage[f] \in Stages /\ UNCHANGED <<cvGuard, stage, failed>>
  BY Zenon DEF CVInv, CVTypeOK, condVars
<1>1. pc[f] = "call" \/ (pc[f] = "returned" /\ where[f] = "mutex")
  BY Zenon DEF LockStep, LockAcquire, LockReentrant, LockExpired, LockRefused, LockWait, LockFailed, AtLoop
<1>2. ~InWait(f) /\ stage[f] \in {"out", "relock"} /\ ~timed[f] /\ (pc[f] = "returned" => ret[f] = "OK")
  <2>1. stage[f] \notin {"guarded", "released", "waiting"}
    BY <1>0, <1>1, Zenon DEF StageOK
  <2> QED
    BY <1>0, <1>1, <2>1, Zenon DEF StageOK, Stages, InWait
<1>3. CASE leaveCall(f) /\ ~LockWait(f)
  <2>1. \/ owner = None /\ owner' = f /\ handoff' = FALSE
        \/ owner' = owner /\ handoff' = handoff /\ (owner = f \/ f \in Outsiders)
    BY <1>2, <1>3, Zenon DEF LockStep, LockAcquire, Available, LockReentrant, LockExpired, LockRefused, LockFailed, mutexVars
  <2>2. /\ pc' = [pc EXCEPT ![f] = "idle"] /\ error' = [error EXCEPT ![f] = "OK"] /\ ret' = [ret EXCEPT ![f] = "OK"]
        /\ timed' = [timed EXCEPT ![f] = FALSE] /\ late' = [late EXCEPT ![f] = FALSE]
        /\ UNCHANGED <<waiters, where, wait, tasks, armed, fired>>
    BY <1>3, Zenon DEF leaveCall
  <2>3. /\ WQInv'
        /\ \A g \in Fibers \ {f} : pc'[g] = pc[g] /\ error'[g] = error[g] /\ ret'[g] = ret[g] /\ timed'[g] = timed[g]
    BY <1>0, <1>2, <2>2, CallsKeep, Zenon
  <2>4. pc'[f] = "idle"
    BY <2>2, Zenon DEF CVInv, CVTypeOK, FMTypeOK, WQTypeOK
  <2>5. ASSUME NEW g \in Fibers PROVE StageOK(g)'
    <3>1. CASE g = f
      BY <1>0, <1>2, <2>1, <2>4, <3>1, Zenon DEF StageOK, InWait
    <3>2. CASE g # f
      <4>1. StageOK(g) /\ (owner = g => owner' = g)
        BY <2>1, <3>2, FiberMutexAssumption, Zenon DEF CVInv
      <4> QED
        BY <1>0, <2>2, <2>3, <3>2, <4>1, OtherStage, Zenon
    <3> QED
      BY <3>1, <3>2, Zenon
  <2>6. CVTypeOK'
    <3>1. owner' \in Fibers \cup {None} /\ handoff' \in BOOLEAN
      BY <2>1, Zenon DEF CVInv, CVTypeOK, FMTypeOK
    <3> QED
      BY <1>0, <2>3, <3>1, Zenon DEF CVInv, CVTypeOK, FMTypeOK, WQInv
  <2>7. SleepersStay
    BY <1>0, <2>2, Zenon DEF SleepersStay, Asleep, InQueue
  <2> QED
    BY <2>3, <2>5, <2>6, <2>7, Zenon DEF CVInv
<1>4. CASE LockWait(f)
  <2>1. pushWaiter(f, "mutex") /\ UNCHANGED <<owner, handoff>>
    BY <1>4, Zenon DEF LockWait, mutexVars
  <2>2. /\ WQInv'
        /\ \A g \in Fibers, p \in Queues : InQueue(g, p)' <=> InQueue(g, p) \/ (g = f /\ p = "mutex")
        /\ pc'[f] = "queued" /\ where'[f] = "mutex" /\ error'[f] = "OK" /\ timed' = timed /\ ret' = ret
        /\ \A g \in Fibers \ {f} : pc'[g] = pc[g] /\ error'[g] = error[g] /\ where'[g] = where[g]
    BY <1>0, <1>2, <2>1, PushKeeps, Zenon
  <2>3. ASSUME NEW g \in Fibers PROVE StageOK(g)'
    <3>1. CASE g = f
      BY <1>0, <1>2, <2>2, <3>1, Zenon DEF StageOK
    <3>2. CASE g # f
      <4>1. StageOK(g)
        BY Zenon DEF CVInv
      <4> QED
        BY <1>0, <2>1, <2>2, <3>2, <4>1, OtherStage, Zenon
    <3> QED
      BY <3>1, <3>2, Zenon
  <2>4. CVTypeOK'
    BY <1>0, <2>1, <2>2, Zenon DEF CVInv, CVTypeOK, FMTypeOK, WQInv
  <2>5. SleepersStay
    BY <1>0, <2>2, Zenon DEF SleepersStay, Asleep
  <2> QED
    BY <2>2, <2>3, <2>4, <2>5, Zenon DEF CVInv
<1> QED
  BY <1>3, <1>4, Zenon DEF LockStep, LockAcquire, LockReentrant, LockExpired, LockRefused, LockFailed

LEMMA UserLockKeeps ==
  ASSUME CVInv, NEW f \in Fibers, UserLock(f)
  PROVE  CVInv' /\ SleepersStay
<1>1. /\ stage[f] = "out" /\ pc[f] = "idle" /\ pc' = [pc EXCEPT ![f] = "call"] /\ timed' = [timed EXCEPT ![f] = FALSE]
      /\ UNCHANGED <<waiters, where, wait, error, ret, late, tasks, armed, fired>>
      /\ UNCHANGED <<owner, handoff, cvGuard, stage, failed>>
  BY Zenon DEF UserLock, Lock, enterCall, mutexVars, condVars
<1>2. WQInv /\ StageOK(f) /\ ~InWait(f)
  BY <1>1, Zenon DEF CVInv, InWait
<1>3. WQInv' /\ \A g \in Fibers \ {f} : pc'[g] = pc[g] /\ timed'[g] = timed[g]
  BY <1>1, <1>2, CallsKeep, Zenon
<1>4. pc'[f] = "call" /\ ~timed'[f]
  BY <1>1, Zenon DEF CVInv, CVTypeOK, FMTypeOK, WQTypeOK
<1>5. ASSUME NEW g \in Fibers PROVE StageOK(g)'
  <2>1. CASE g = f
    BY <1>1, <1>4, <2>1, Zenon DEF StageOK, InWait
  <2>2. CASE g # f
    <3>1. StageOK(g)
      BY Zenon DEF CVInv
    <3> QED
      BY <1>1, <1>3, <2>2, <3>1, OtherStage, Zenon
  <2> QED
    BY <2>1, <2>2, Zenon
<1>6. CVTypeOK'
  BY <1>1, <1>3, Zenon DEF CVInv, CVTypeOK, FMTypeOK, WQInv
<1>7. SleepersStay
  BY <1>1, Zenon DEF SleepersStay, Asleep, InQueue
<1> QED
  BY <1>3, <1>5, <1>6, <1>7, Zenon DEF CVInv

LEMMA UserUnlockKeeps ==
  ASSUME CVInv, NEW f \in Fibers, UserUnlock(f)
  PROVE  CVInv' /\ SleepersStay
<1>1. /\ stage[f] = "out" /\ owner = f /\ Release /\ UNCHANGED <<pc, where, wait, ret, timed, late, armed, fired>>
      /\ UNCHANGED <<cvGuard, stage, failed>>
  BY Zenon DEF UserUnlock, Unlock, condVars
<1>2. /\ WQInv' /\ FMTypeOK' /\ owner' = None
      /\ \A g \in Fibers : error'[g] = error[g] \/ error'[g] = "OK"
      /\ \A g \in Fibers : InQueue(g, "cond")' => InQueue(g, "cond")
  BY <1>1, ReleaseKeeps, Zenon
<1>3. ASSUME NEW g \in Fibers PROVE StageOK(g)'
  <2>0. StageOK(g)
    BY Zenon DEF CVInv
  <2>1. CASE g = f
    <3>1. error'[f] = error[f] \/ error'[f] = "OK"
      BY <1>2, Zenon
    <3> QED
      BY <1>1, <2>0, <2>1, <3>1, Zenon DEF StageOK, InWait
  <2>2. CASE g # f
    <3>1. owner # g
      BY <1>1, <2>2, Zenon
    <3> QED
      BY <1>1, <1>2, <2>0, <2>2, <3>1, OtherStage, Zenon
  <2> QED
    BY <2>1, <2>2, Zenon
<1>4. CVTypeOK'
  BY <1>1, <1>2, Zenon DEF CVInv, CVTypeOK
<1>5. SleepersStay
  BY <1>1, <1>2, Zenon DEF SleepersStay, Asleep
<1> QED
  BY <1>2, <1>3, <1>4, <1>5, Zenon DEF CVInv

LEMMA CondEnterKeeps ==
  ASSUME CVInv, NEW f \in Fibers, NEW t \in BOOLEAN, NEW now \in BOOLEAN, CondEnter(f, t, now)
  PROVE  /\ CVInv' /\ UNCHANGED <<waiters, owner>> /\ stage[f] = "out" /\ stage'[f] = "guarded"
         /\ \A g \in Fibers \ {f} : stage'[g] = stage[g]
<1>1. /\ stage[f] = "out" /\ pc[f] = "idle" /\ owner = f /\ cvGuard = None /\ cvGuard' = f
      /\ stage' = [stage EXCEPT ![f] = "guarded"] /\ timed' = [timed EXCEPT ![f] = t]
      /\ late' = [late EXCEPT ![f] = t /\ now]
      /\ UNCHANGED <<waiters, pc, where, wait, error, ret, tasks, armed, fired>>
      /\ UNCHANGED <<owner, handoff, failed>>
  BY Zenon DEF CondEnter, mutexVars
<1>2. WQInv /\ StageOK(f) /\ ~InWait(f)
  BY <1>1, Zenon DEF CVInv, InWait
<1>3. pc' = [pc EXCEPT ![f] = "idle"] /\ (t /\ now) \in BOOLEAN
  BY <1>1, Zenon DEF CVInv, CVTypeOK, FMTypeOK, WQTypeOK
<1>4. WQInv' /\ \A g \in Fibers \ {f} : timed'[g] = timed[g]
  BY <1>1, <1>2, <1>3, CallsKeep, Zenon
<1>5. stage'[f] = "guarded" /\ \A g \in Fibers \ {f} : stage'[g] = stage[g]
  BY <1>1, Zenon DEF CVInv, CVTypeOK
<1>6. ASSUME NEW g \in Fibers PROVE StageOK(g)'
  <2>0. StageOK(g) /\ g # None
    BY Zenon DEF CVInv
  <2>1. CASE g = f
    BY <1>1, <1>5, <2>1, Zenon DEF StageOK, InWait
  <2>2. CASE g # f
    BY <1>1, <1>4, <1>5, <2>0, <2>2, OtherStage, Zenon
  <2> QED
    BY <2>1, <2>2, Zenon
<1>7. CVTypeOK'
  BY <1>1, <1>4, Zenon DEF CVInv, CVTypeOK, FMTypeOK, WQInv, Stages
<1> QED
  BY <1>1, <1>4, <1>5, <1>6, <1>7, Zenon DEF CVInv

\* notifyOne(): one sleeper is woken, or there is none, the condition's guard_
\* being free.
LEMMA NotifyOneKeeps ==
  ASSUME CVInv, NotifyOne
  PROVE  /\ CVInv' /\ SleepersStay
         /\ \/ \A g \in Fibers : ~Asleep(g)
            \/ \E h \in Fibers : Asleep(h) /\ ~Asleep(h)' /\ \A g \in Fibers \ {h} : Asleep(g)' <=> Asleep(g)
<1>1. /\ cvGuard = None /\ UNCHANGED <<pc, where, wait, ret, timed, late, armed, fired>>
      /\ UNCHANGED <<owner, handoff, cvGuard, stage, failed>>
  BY Zenon DEF NotifyOne, NotifyReady, mutexVars, condVars
<1>2. WQInv /\ \A g \in Fibers : StageOK(g) /\ g # None
  BY Zenon DEF CVInv
<1>3. \A g \in Fibers : stage[g] \notin {"guarded", "released"}
  BY <1>1, <1>2, Zenon DEF StageOK
<1>4. CASE waiters["cond"] # <<>>
  <2>1. wakeOneLocked("cond", "OK")
    BY <1>4, Zenon DEF NotifyOne
  <2>2. WQInv' /\ \A g \in Fibers : error'[g] = error[g] \/ error'[g] = "OK"
    BY <1>1, <1>2, <1>4, <2>1, WakeOneKeeps, Zenon
  <2>3. PICK h \in Fibers : InQueue(h, "cond")
          /\ \A g \in Fibers, p \in Queues : InQueue(g, p)' <=> InQueue(g, p) /\ g # h
    BY <1>1, <1>2, <1>4, <2>1, WakeOneKeeps, Zenon
  <2>4. \A g \in Fibers : StageOK(g)'
    BY <1>1, <1>2, <2>2, OtherStage, Zenon
  <2>5. CVTypeOK'
    BY <1>1, <2>2, Zenon DEF CVInv, CVTypeOK, FMTypeOK, WQInv
  <2>6. \A g \in Fibers : Asleep(g)' <=> Asleep(g) /\ g # h
    BY <1>1, <1>3, <2>3, Zenon DEF Asleep
  <2>7. Asleep(h)
    BY <2>3, Zenon DEF Asleep
  <2> QED
    BY <2>2, <2>4, <2>5, <2>6, <2>7, Zenon DEF CVInv, SleepersStay
<1>5. CASE waiters["cond"] = <<>>
  <2>1. UNCHANGED <<waiters, error, tasks>>
    BY <1>5, Zenon DEF NotifyOne
  <2>2. WQInv'
    BY <1>1, <1>2, <2>1, WaitsStutter, Zenon DEF wqVars
  <2>3. \A g \in Fibers : StageOK(g)'
    BY <1>1, <1>2, <2>1, OtherStage, Zenon
  <2>4. CVTypeOK'
    BY <1>1, <2>2, Zenon DEF CVInv, CVTypeOK, FMTypeOK, WQInv
  <2>5. \A g : ~InQueue(g, "cond")
    BY <1>5 DEF InQueue, Has
  <2>6. \A g \in Fibers : ~Asleep(g)
    BY <1>3, <2>5, Zenon DEF Asleep
  <2>7. SleepersStay
    BY <1>1, <2>1, Zenon DEF SleepersStay, Asleep, InQueue
  <2> QED
    BY <2>2, <2>3, <2>4, <2>6, <2>7, Zenon DEF CVInv
<1> QED
  BY <1>4, <1>5, Zenon

\* notifyAll() and cancelWaiters() leave nobody asleep.
LEMMA NotifyAllKeeps ==
  ASSUME CVInv, NEW e \in {"OK", "ECANCELED"}, NotifyAll(e)
  PROVE  CVInv' /\ \A g \in Fibers : ~Asleep(g)'
<1>1. /\ cvGuard = None /\ UNCHANGED <<pc, where, wait, ret, timed, late, armed, fired>>
      /\ wakeAllLocked("cond", e) /\ UNCHANGED <<owner, handoff, cvGuard, stage, failed>>
  BY Zenon DEF NotifyAll, NotifyReady, mutexVars, condVars
<1>2. WQInv /\ \A g \in Fibers : StageOK(g) /\ g # None
  BY Zenon DEF CVInv
<1>3. /\ WQInv' /\ (\A g : ~InQueue(g, "cond")')
      /\ \A g \in Fibers : ~InQueue(g, "cond") => error'[g] = error[g]
  BY <1>1, <1>2, WakeAllKeeps, Zenon
<1>4. \A g \in Fibers : error'[g] = error[g] \/ where[g] # "mutex"
  BY <1>2, <1>3, Zenon DEF WQInv, Deques
<1>5. \A g \in Fibers : StageOK(g)'
  BY <1>1, <1>2, <1>4, OtherStage, Zenon
<1>6. CVTypeOK'
  BY <1>1, <1>3, Zenon DEF CVInv, CVTypeOK, FMTypeOK, WQInv
<1>7. \A g \in Fibers : stage'[g] \notin {"guarded", "released"}
  BY <1>1, <1>2, Zenon DEF StageOK
<1> QED
  BY <1>3, <1>5, <1>6, <1>7, Zenon DEF CVInv, Asleep

LEMMA CVInitInv ==
  ASSUME CVInit
  PROVE  CVInv /\ \A f \in Fibers : ~Asleep(f)
<1>1. WQInv /\ owner = None /\ handoff = FALSE /\ cvGuard = None
  BY WaitsInit, Zenon DEF CVInit, FMInit, MutexInit
<1>2. \A f \in Fibers : stage[f] = "out" /\ pc[f] = "idle"
  BY Zenon DEF CVInit, FMInit, WQInit
<1>3. CVTypeOK
  BY <1>1, Zenon DEF CVInit, CVTypeOK, FMTypeOK, WQInv, Stages
<1>4. \A f \in Fibers : StageOK(f)
  BY <1>2, Zenon DEF StageOK, InWait
<1>5. \A f \in Fibers : ~InQueue(f, "cond")
  BY <1>1, <1>2, Zenon DEF WQInv, Deques, InWait
<1> QED
  BY <1>1, <1>2, <1>3, <1>4, <1>5, Zenon DEF CVInv, Asleep

LEMMA CVInternalKeeps ==
  ASSUME CVInv, CVInternal
  PROVE  CVInv' /\ SleepersStay
BY CVWaitStep, CVLockStep, CondReleaseKeeps, CondPushKeeps, RelockKeeps, CondReturnKeeps, Zenon DEF CVInternal, CondStep

LEMMA CVStutter ==
  ASSUME CVInv, UNCHANGED cvVars
  PROVE  CVInv' /\ SleepersStay
<1>1. UNCHANGED wqVars /\ UNCHANGED <<owner, handoff, cvGuard, stage, failed>>
  BY Zenon DEF cvVars, fmVars, mutexVars, condVars
<1>2. WQInv' /\ UNCHANGED <<waiters, pc, where, timed, ret, error>>
  BY <1>1, WaitsStutter, Zenon DEF CVInv, wqVars
<1>3. \A g \in Fibers : StageOK(g)'
  BY <1>1, <1>2, OtherStage, Zenon DEF CVInv
<1>4. CVTypeOK'
  BY <1>1, <1>2, Zenon DEF CVInv, CVTypeOK, FMTypeOK, WQInv
<1>5. SleepersStay
  BY <1>1, <1>2, Zenon DEF SleepersStay, Asleep, InQueue
<1> QED
  BY <1>2, <1>3, <1>4, <1>5, Zenon DEF CVInv

LEMMA CVNextInv ==
  ASSUME CVInv, [Next]_allVars
  PROVE  CVInv'
<1>1. CASE CVInternal
  BY <1>1, CVInternalKeeps, Zenon
<1>2. ASSUME NEW f \in Fibers, Begin(f) PROVE CVInv'
  BY <1>2, UserLockKeeps, Zenon DEF Begin
<1>3. ASSUME NEW f \in Fibers, Produce(f) \/ Consume(f) \/ GiveUp(f) PROVE CVInv'
  BY <1>3, CVStutter, Zenon DEF Produce, Consume, GiveUp
<1>4. ASSUME NEW f \in Fibers, WaitForItem(f) PROVE CVInv'
  BY <1>4, CondEnterKeeps, Zenon DEF WaitForItem
<1>5. ASSUME NEW f \in Fibers, End(f) PROVE CVInv'
  BY <1>5, UserUnlockKeeps, Zenon DEF End
<1>6. ASSUME NEW f \in Fibers, Notify(f) PROVE CVInv'
  BY <1>6, NotifyOneKeeps, NotifyAllKeeps, Zenon DEF Notify
<1>7. CASE NotifyAll("ECANCELED")
  BY <1>7, NotifyAllKeeps, Zenon
<1>8. CASE UNCHANGED allVars
  BY <1>8, CVStutter, Zenon DEF allVars
<1> QED
  BY <1>1, <1>2, <1>3, <1>4, <1>5, <1>6, <1>7, <1>8, Zenon DEF Next

\* Whoever is inside wait() is at one place of it, holds guard_ from before
\* mutex.unlock() until it is queued, and is in the one queue it waits in.
THEOREM CondVarInvariance == Spec => []CVInv
<1>1. Init => CVInv
  BY CVInitInv, Zenon DEF Init
<1>2. CVInv /\ [Next]_allVars => CVInv'
  BY CVNextInv, Zenon
<1> QED
  BY <1>1, <1>2, PTL DEF Spec

\* A wait on the condition or the mutex reports ETIMEDOUT only after the
\* deadline of its own call, however late an earlier wait's timer runs.
THEOREM TimeoutsInTime == Spec => []TimeoutNotEarly
<1>1. CVInv => TimeoutNotEarly
  BY Zenon DEF CVInv, WQInv
<1> QED
  BY <1>1, CondVarInvariance, PTL

\* sync.cpp:192-201: wait() returns with the mutex held again, whether it was
\* notified, cancelled or timed out, on threads that have a scheduler. Without
\* one lock() fails and the hypothesis is needed (README, deviations).
THEOREM WaitReturnsLocked ==
  ASSUME Outsiders = {}
  PROVE  Spec => MutexReacquired
<1>1. ASSUME CVInv, [Next]_allVars, NEW f \in Fibers, stage[f] = "relock", stage'[f] = "out"
      PROVE  owner = f
  <2>1. \E g \in Fibers : CondStep(g)
    <3>1. stage' # stage
      BY <1>1, Zenon
    <3>2. \A g \in Fibers : ~WaitForItem(g)
      <4>1. ASSUME NEW g \in Fibers, WaitForItem(g) PROVE FALSE
        <5>1. PICK t \in BOOLEAN, now \in BOOLEAN : CondEnter(g, t, now)
          BY <4>1, Zenon DEF WaitForItem
        <5>2. stage[g] = "out" /\ stage'[g] = "guarded" /\ \A h \in Fibers \ {g} : stage'[h] = stage[h]
          BY <1>1, <5>1, CondEnterKeeps, Zenon
        <5> QED
          BY <1>1, <5>2, Zenon
      <4> QED
        BY <4>1, Zenon
    <3> QED
      BY <1>1, <3>1, <3>2, Zenon DEF Next, CVInternal, condVars, allVars, cvVars, Begin, UserLock, Produce, Consume,
           GiveUp, End, UserUnlock, Notify, NotifyOne, NotifyAll
  <2>2. PICK g \in Fibers : CondStep(g)
    BY <2>1, Zenon
  <2>3. stage \in [Fibers -> Stages]
    BY <1>1, Zenon DEF CVInv, CVTypeOK
  <2>4. PICK s \in {"released", "waiting", "relock", "out"} : stage' = [stage EXCEPT ![g] = s] /\ (s = "out" => CondReturn(g))
    BY <2>2, Zenon DEF CondStep, CondRelease, CondPush, CondRefused, CondWoken, CondReturn, relock
  <2>5. g = f /\ s = "out"
    BY <1>1, <2>3, <2>4, Zenon
  <2>6. CondReturn(f) /\ pc[f] = "idle"
    BY <2>4, <2>5, Zenon DEF CondReturn
  <2> QED
    BY <1>1, <2>6, Zenon DEF CVInv, StageOK
<1>2. CVInv /\ [Next]_allVars => [\A f \in Fibers : stage[f] = "relock" /\ stage'[f] = "out" => owner = f]_cvVars
  BY <1>1, Zenon
<1> QED
  BY <1>2, CondVarInvariance, PTL DEF Spec, MutexReacquired

-----------------------------------------------------------------------------
(* No stranded item: the items a sleeper could miss are counted against the *)
(* consumers that are awake and the producers that have yet to notify.      *)

AwakeSet == {f \in Consumers : Awake(f)}
Pending == {f \in Producers : prog[f] \in {"leaving", "notify"}}

ItemInv ==
  /\ \A f \in Fibers : Asleep(f) => f \in Consumers /\ prog[f] = "active"
  /\ (\E f \in Fibers : Asleep(f)) => items <= Cardinality(AwakeSet) + Cardinality(Pending)

ProtocolInv == TypeOK /\ CVInv /\ ItemInv

LEMMA Sizes ==
  /\ IsFiniteSet(AwakeSet) /\ IsFiniteSet(Pending) /\ IsFiniteSet(AwakeSet') /\ IsFiniteSet(Pending')
  /\ Cardinality(AwakeSet) \in Nat /\ Cardinality(Pending) \in Nat
  /\ Cardinality(AwakeSet') \in Nat /\ Cardinality(Pending') \in Nat
<1>1. AwakeSet \in SUBSET Fibers /\ Pending \in SUBSET Fibers /\ AwakeSet' \in SUBSET Fibers /\ Pending' \in SUBSET Fibers
  BY CondVarProtocolAssumption, Zenon DEF AwakeSet, Pending
<1>2. IsFiniteSet(AwakeSet) /\ IsFiniteSet(Pending) /\ IsFiniteSet(AwakeSet') /\ IsFiniteSet(Pending')
  BY <1>1, CondVarProtocolAssumption, FS_Subset, Zenon
<1> QED
  BY <1>2, FS_CardinalityType, Zenon

\* Consumers only wake up and no item appears: the count still suffices.
LEMMA WakingKeepsItems ==
  ASSUME ItemInv, TypeOK, SleepersStay, UNCHANGED items, Pending \subseteq Pending',
         \A f \in Fibers : prog[f] = "active" => prog'[f] = "active"
  PROVE  ItemInv'
<1>1. \A f \in Fibers : Asleep(f)' => f \in Consumers /\ prog'[f] = "active"
  BY Zenon DEF ItemInv, SleepersStay
<1>2. AwakeSet \in SUBSET AwakeSet' /\ Pending \in SUBSET Pending'
  BY CondVarProtocolAssumption, Zenon DEF AwakeSet, Awake, SleepersStay
<1>3. Cardinality(AwakeSet) <= Cardinality(AwakeSet') /\ Cardinality(Pending) <= Cardinality(Pending')
  BY <1>2, Sizes, FS_Subset, Zenon
<1>4. ASSUME \E f \in Fibers : Asleep(f)' PROVE items' <= Cardinality(AwakeSet') + Cardinality(Pending')
  <2>1. items <= Cardinality(AwakeSet) + Cardinality(Pending)
    BY <1>4, Zenon DEF ItemInv, SleepersStay
  <2>2. items \in Nat
    BY Zenon DEF TypeOK
  <2> QED
    BY <1>3, <2>1, <2>2, Sizes, CountSteps, Zenon
<1> QED
  BY <1>1, <1>4, Zenon DEF ItemInv

LEMMA ProduceKeeps ==
  ASSUME ProtocolInv, NEW f \in Fibers, Produce(f)
  PROVE  ItemInv'
<1>1. /\ f \in Producers /\ f \notin Consumers /\ prog[f] = "active" /\ items' = items + 1 /\ prog' = [prog EXCEPT ![f] = "leaving"]
      /\ \A g \in Fibers : Asleep(g)' <=> Asleep(g)
  BY CondVarProtocolAssumption, CVStutter, Zenon
     DEF Produce, Inside, goto, Asleep, InQueue, cvVars, fmVars, wqVars, condVars
<1>2. prog \in [Fibers -> {"start", "active", "leaving", "notify", "done"}] /\ items \in Nat
  BY Zenon DEF ProtocolInv, TypeOK
<1>3. prog'[f] = "leaving" /\ \A g \in Fibers \ {f} : prog'[g] = prog[g]
  BY <1>1, <1>2, Zenon
<1>4. \A g \in Fibers : Asleep(g)' => g \in Consumers /\ prog'[g] = "active"
  BY <1>1, <1>3, Zenon DEF ProtocolInv, ItemInv
<1>5. AwakeSet' = AwakeSet
  BY <1>1, <1>3, CondVarProtocolAssumption, Zenon DEF AwakeSet, Awake
<1>6. Pending' = Pending \cup {f} /\ f \notin Pending
  BY <1>1, <1>3, CondVarProtocolAssumption, Zenon DEF Pending
<1>7. Cardinality(Pending') = Cardinality(Pending) + 1
  BY <1>6, Sizes, FS_AddElement, Zenon
<1>8. ASSUME \E g \in Fibers : Asleep(g)' PROVE items' <= Cardinality(AwakeSet') + Cardinality(Pending')
  <2>1. items <= Cardinality(AwakeSet) + Cardinality(Pending)
    BY <1>1, <1>8, Zenon DEF ProtocolInv, ItemInv
  <2> QED
    BY <1>1, <1>2, <1>5, <1>7, <2>1, Sizes, CountSteps, Zenon
<1> QED
  BY <1>4, <1>8, Zenon DEF ItemInv

LEMMA ConsumeKeeps ==
  ASSUME ProtocolInv, NEW f \in Fibers, Consume(f)
  PROVE  ItemInv'
<1>1. /\ f \in Consumers /\ f \notin Producers /\ prog[f] = "active" /\ pc[f] = "idle" /\ stage[f] = "out"
      /\ items' = items - 1 /\ items > 0 /\ prog' = [prog EXCEPT ![f] = "leaving"]
      /\ \A g \in Fibers : Asleep(g)' <=> Asleep(g)
  BY CondVarProtocolAssumption, Zenon
     DEF Consume, Inside, goto, Asleep, InQueue, cvVars, fmVars, wqVars, condVars
<1>2. prog \in [Fibers -> {"start", "active", "leaving", "notify", "done"}] /\ items \in Nat
  BY Zenon DEF ProtocolInv, TypeOK
<1>3. prog'[f] = "leaving" /\ \A g \in Fibers \ {f} : prog'[g] = prog[g]
  BY <1>1, <1>2, Zenon
<1>4. ~Asleep(f)
  BY <1>1, Zenon DEF ProtocolInv, CVInv, WQInv, Deques, InWait, Asleep
<1>5. \A g \in Fibers : Asleep(g)' => g \in Consumers /\ prog'[g] = "active"
  BY <1>1, <1>3, <1>4, Zenon DEF ProtocolInv, ItemInv
<1>6. AwakeSet' = AwakeSet \ {f} /\ f \in AwakeSet
  BY <1>1, <1>3, <1>4, CondVarProtocolAssumption, Zenon DEF AwakeSet, Awake
<1>7. Pending' = Pending
  BY <1>1, <1>3, CondVarProtocolAssumption, Zenon DEF Pending
<1>8. Cardinality(AwakeSet') = Cardinality(AwakeSet) - 1
  BY <1>6, Sizes, FS_RemoveElement, Zenon
<1>9. ASSUME \E g \in Fibers : Asleep(g)' PROVE items' <= Cardinality(AwakeSet') + Cardinality(Pending')
  <2>1. items <= Cardinality(AwakeSet) + Cardinality(Pending)
    BY <1>1, <1>9, Zenon DEF ProtocolInv, ItemInv
  <2> QED
    BY <1>1, <1>2, <1>7, <1>8, <2>1, Sizes, CountSteps, Zenon
<1> QED
  BY <1>5, <1>9, Zenon DEF ItemInv

LEMMA NotifyKeepsItems ==
  ASSUME ProtocolInv, NEW f \in Fibers, Notify(f)
  PROVE  ItemInv'
<1>1. prog[f] = "notify" /\ (NotifyOne \/ NotifyAll("OK")) /\ prog' = [prog EXCEPT ![f] = "done"] /\ items' = items
  BY Zenon DEF Notify, goto
<1>2. prog \in [Fibers -> {"start", "active", "leaving", "notify", "done"}] /\ items \in Nat /\ CVInv
  BY Zenon DEF ProtocolInv, TypeOK
<1>3. prog'[f] = "done" /\ \A g \in Fibers \ {f} : prog'[g] = prog[g]
  BY <1>1, <1>2, Zenon
<1>4. CASE \A g \in Fibers : ~Asleep(g)'
  BY <1>4, Zenon DEF ItemInv
<1>5. CASE \E h \in Fibers : Asleep(h) /\ ~Asleep(h)' /\ \A g \in Fibers \ {h} : Asleep(g)' <=> Asleep(g)
  <2>1. PICK h \in Fibers : Asleep(h) /\ ~Asleep(h)' /\ \A g \in Fibers \ {h} : Asleep(g)' <=> Asleep(g)
    BY <1>5, Zenon
  <2>2. h \in Consumers /\ prog[h] = "active" /\ h # f
    BY <1>1, <2>1, Zenon DEF ProtocolInv, ItemInv
  <2>3. \A g \in Fibers : Asleep(g)' => g \in Consumers /\ prog'[g] = "active"
    <3>1. \A g \in Fibers : Asleep(g) => g \in Consumers /\ prog[g] = "active" /\ g # f
      BY <1>1, Zenon DEF ProtocolInv, ItemInv
    <3> QED
      BY <1>3, <2>1, <3>1, Zenon
  <2>4. AwakeSet' = AwakeSet \cup {h} /\ h \notin AwakeSet
    BY <1>1, <1>3, <2>1, <2>2, CondVarProtocolAssumption, Zenon DEF AwakeSet, Awake
  <2>5. Cardinality(AwakeSet') = Cardinality(AwakeSet) + 1
    BY <2>4, Sizes, FS_AddElement, Zenon
  <2>6. Pending' = Pending \ {f}
    BY <1>1, <1>3, CondVarProtocolAssumption, Zenon DEF Pending
  <2>7. Cardinality(Pending') = Cardinality(Pending) - 1 \/ Cardinality(Pending') = Cardinality(Pending)
    BY <2>6, Sizes, FS_RemoveElement, Zenon
  <2>8. items <= Cardinality(AwakeSet) + Cardinality(Pending)
    BY <2>1, Zenon DEF ProtocolInv, ItemInv
  <2>9. items' <= Cardinality(AwakeSet') + Cardinality(Pending')
    BY <1>1, <1>2, <2>5, <2>7, <2>8, Sizes, CountSteps, Zenon
  <2> QED
    BY <2>3, <2>9, Zenon DEF ItemInv
<1>6. CASE NotifyAll("OK")
  BY <1>2, <1>4, <1>6, NotifyAllKeeps, Zenon
<1>7. CASE NotifyOne
  BY <1>2, <1>4, <1>5, <1>7, NotifyOneKeeps, Zenon DEF SleepersStay
<1> QED
  BY <1>1, <1>6, <1>7, Zenon

\* With no item left to take the count holds whoever goes to sleep.
LEMMA NoItemNoDebt ==
  ASSUME items' = 0, \A f \in Fibers : Asleep(f)' => f \in Consumers /\ prog'[f] = "active"
  PROVE  ItemInv'
<1>1. items' <= Cardinality(AwakeSet') + Cardinality(Pending')
  BY Sizes
<1> QED
  BY <1>1, Zenon DEF ItemInv

LEMMA WaitForItemKeeps ==
  ASSUME ProtocolInv, NEW f \in Fibers, WaitForItem(f)
  PROVE  ItemInv'
<1>1. PICK t \in BOOLEAN, now \in BOOLEAN : CondEnter(f, t, now)
  BY Zenon DEF WaitForItem
<1>2. f \in Consumers /\ prog[f] = "active" /\ items' = 0 /\ prog' = prog /\ CVInv
  BY Zenon DEF WaitForItem, Inside, protocolVars, ProtocolInv
<1>3. UNCHANGED waiters /\ \A g \in Fibers \ {f} : stage'[g] = stage[g]
  BY <1>1, <1>2, CondEnterKeeps, Zenon
<1>4. \A g \in Fibers \ {f} : Asleep(g)' => Asleep(g)
  BY <1>3, Zenon DEF Asleep, InQueue
<1> QED
  BY <1>2, <1>4, NoItemNoDebt, Zenon DEF ProtocolInv, ItemInv

LEMMA GiveUpKeeps ==
  ASSUME ProtocolInv, NEW f \in Fibers, GiveUp(f)
  PROVE  ItemInv'
<1>1. /\ f \in Consumers /\ pc[f] = "idle" /\ stage[f] = "out" /\ items' = 0
      /\ prog' = [prog EXCEPT ![f] = "leaving"] /\ UNCHANGED cvVars
  BY Zenon DEF GiveUp, Inside, goto
<1>2. \A g \in Fibers : Asleep(g)' => Asleep(g)
  BY <1>1, CVStutter, Zenon DEF ProtocolInv, SleepersStay
<1>3. ~Asleep(f)
  BY <1>1, Zenon DEF ProtocolInv, CVInv, WQInv, Deques, InWait, Asleep
<1>4. \A g \in Fibers \ {f} : prog'[g] = prog[g]
  BY <1>1, Zenon DEF ProtocolInv, TypeOK
<1>5. \A g \in Fibers : Asleep(g)' => g \in Consumers /\ prog'[g] = "active"
  BY <1>2, <1>3, <1>4, Zenon DEF ProtocolInv, ItemInv
<1> QED
  BY <1>1, <1>5, NoItemNoDebt, Zenon

LEMMA BeginKeeps ==
  ASSUME ProtocolInv, NEW f \in Fibers, Begin(f)
  PROVE  ItemInv'
<1>1. /\ prog[f] = "start" /\ prog' = [prog EXCEPT ![f] = "active"] /\ items' = items /\ SleepersStay
      /\ prog \in [Fibers -> {"start", "active", "leaving", "notify", "done"}]
  BY UserLockKeeps, Zenon DEF Begin, goto, ProtocolInv, TypeOK
<1>2. prog'[f] = "active" /\ \A g \in Fibers \ {f} : prog'[g] = prog[g]
  BY <1>1, Zenon
<1>3. Pending \subseteq Pending'
  BY <1>1, <1>2, CondVarProtocolAssumption, Zenon DEF Pending
<1>4. \A g \in Fibers : prog[g] = "active" => prog'[g] = "active"
  BY <1>2, Zenon
<1> QED
  BY <1>1, <1>3, <1>4, WakingKeepsItems, Zenon DEF ProtocolInv

LEMMA EndKeeps ==
  ASSUME ProtocolInv, NEW f \in Fibers, End(f)
  PROVE  ItemInv'
<1>1. /\ prog[f] = "leaving" /\ items' = items /\ SleepersStay
      /\ prog' = [prog EXCEPT ![f] = IF f \in Producers THEN "notify" ELSE "done"]
      /\ prog \in [Fibers -> {"start", "active", "leaving", "notify", "done"}]
  BY UserUnlockKeeps, Zenon DEF End, goto, ProtocolInv, TypeOK
<1>2. (f \in Producers => prog'[f] = "notify") /\ \A g \in Fibers \ {f} : prog'[g] = prog[g]
  BY <1>1, Zenon
<1>3. Pending \subseteq Pending'
  BY <1>1, <1>2, CondVarProtocolAssumption, Zenon DEF Pending
<1>4. \A g \in Fibers : prog[g] = "active" => prog'[g] = "active"
  BY <1>1, <1>2, Zenon
<1> QED
  BY <1>1, <1>3, <1>4, WakingKeepsItems, Zenon DEF ProtocolInv

LEMMA ProtocolTypeKeeps ==
  ASSUME ProtocolInv, [Next]_allVars
  PROVE  TypeOK'
<1> DEFINE Prog == [Fibers -> {"start", "active", "leaving", "notify", "done"}]
<1>1. CVInv' /\ prog \in Prog /\ items \in Nat
  BY CVNextInv, Zenon DEF ProtocolInv, TypeOK
<1>2. ASSUME NEW f \in Fibers, NEW p \in {"active", "leaving", "notify", "done"}, goto(f, p) PROVE prog' \in Prog
  BY <1>1, <1>2, Zenon DEF goto
<1>3. ASSUME NEW f \in Fibers, Begin(f) \/ GiveUp(f) \/ Notify(f) PROVE prog' \in Prog /\ items' \in Nat
  BY <1>1, <1>2, <1>3, Zenon DEF Begin, GiveUp, Notify
<1>4. ASSUME NEW f \in Fibers, End(f) PROVE prog' \in Prog /\ items' \in Nat
  <2>1. (IF f \in Producers THEN "notify" ELSE "done") \in {"active", "leaving", "notify", "done"}
    BY Zenon
  <2> QED
    BY <1>1, <1>2, <1>4, <2>1, Zenon DEF End
<1>5. ASSUME NEW f \in Fibers, Produce(f) \/ Consume(f) PROVE prog' \in Prog /\ items' \in Nat
  <2>1. prog' \in Prog
    BY <1>2, <1>5, Zenon DEF Produce, Consume
  <2>2. items' = items + 1 \/ (items > 0 /\ items' = items - 1)
    BY <1>5, Zenon DEF Produce, Consume
  <2> QED
    BY <1>1, <2>1, <2>2
<1>6. ASSUME UNCHANGED protocolVars PROVE prog' \in Prog /\ items' \in Nat
  BY <1>1, <1>6, Zenon DEF protocolVars
<1>7. prog' \in Prog /\ items' \in Nat
  BY <1>3, <1>4, <1>5, <1>6, Zenon DEF Next, WaitForItem, allVars
<1> QED
  BY <1>1, <1>7, Zenon DEF TypeOK, CVInv

LEMMA ItemNextInv ==
  ASSUME ProtocolInv, [Next]_allVars
  PROVE  ItemInv'
<1>1. ASSUME SleepersStay, UNCHANGED protocolVars PROVE ItemInv'
  <2>1. items' = items /\ prog' = prog
    BY <1>1, Zenon DEF protocolVars
  <2>2. Pending \subseteq Pending'
    BY <2>1, Zenon DEF Pending
  <2> QED
    BY <1>1, <2>1, <2>2, WakingKeepsItems, Zenon DEF ProtocolInv
<1>2. CASE CVInternal /\ UNCHANGED protocolVars
  BY <1>1, <1>2, CVInternalKeeps, Zenon DEF ProtocolInv
<1>3. CASE UNCHANGED allVars
  BY <1>1, <1>3, CVStutter, Zenon DEF ProtocolInv, allVars
<1>4. CASE NotifyAll("ECANCELED")
  BY <1>4, NotifyAllKeeps, Zenon DEF ProtocolInv, ItemInv
<1> QED
  BY <1>2, <1>3, <1>4, BeginKeeps, ProduceKeeps, ConsumeKeeps, WaitForItemKeeps, GiveUpKeeps, EndKeeps,
     NotifyKeepsItems, Zenon DEF Next

LEMMA ProtocolInitInv ==
  ASSUME Init
  PROVE  ProtocolInv
<1>1. CVInv /\ \A f \in Fibers : ~Asleep(f)
  BY CVInitInv, Zenon DEF Init
<1>2. items = 0 /\ items \in Nat /\ prog \in [Fibers -> {"start", "active", "leaving", "notify", "done"}]
  BY Zenon DEF Init
<1>3. TypeOK
  BY <1>1, <1>2, Zenon DEF TypeOK, CVInv
<1> QED
  BY <1>1, <1>3, Zenon DEF ProtocolInv, ItemInv

\* sync.cpp:185-186: no lost wake-up. While there is an item and a consumer is
\* asleep in wait() or about to be, a consumer is awake or a producer has yet
\* to notify, for any number of fibers, timeouts and cancellations.
THEOREM NoItemStranded == Spec => []NoStrandedItem
<1>1. Init => ProtocolInv
  BY ProtocolInitInv, Zenon
<1>2. ProtocolInv /\ [Next]_allVars => ProtocolInv'
  BY ProtocolTypeKeeps, ItemNextInv, CVNextInv, Zenon DEF ProtocolInv
<1>3. ProtocolInv => NoStrandedItem
  <2> SUFFICES ASSUME ProtocolInv, items > 0, \E f \in Consumers : Asleep(f), AwakeSet = {}, Pending = {}
               PROVE  FALSE
    BY Zenon DEF NoStrandedItem, AwakeSet, Pending
  <2>1. items <= Cardinality(AwakeSet) + Cardinality(Pending)
    BY CondVarProtocolAssumption, Zenon DEF ProtocolInv, ItemInv
  <2>2. Cardinality(AwakeSet) = 0 /\ Cardinality(Pending) = 0
    BY FS_EmptySet, Zenon
  <2>3. items \in Nat
    BY Zenon DEF ProtocolInv, TypeOK
  <2> QED
    BY <2>1, <2>2, <2>3
<1> QED
  BY <1>1, <1>2, <1>3, PTL DEF Spec
=============================================================================

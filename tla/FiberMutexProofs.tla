-------------------------- MODULE FiberMutexProofs --------------------------
(***************************************************************************)
(* FiberMutex is correct for every number of fibers and waits when the     *)
(* scheduler is an IOManager, and implements FairLock.  Without one the    *)
(* give-up branch of waitLocked() breaks HandoffHasOneHeir, so Plain = {}  *)
(* is a hypothesis of the theorems and not an assumption of the modules.   *)
(***************************************************************************)
EXTENDS FiberMutex, SequenceTheorems, TLAPS

(* Facts about the deque operations WaitQueue is built from.               *)

NoDuplicates(s) == \A i, j \in DOMAIN s : s[i] = s[j] => i = j

\* Erasing the one occurrence of e, as completeLocked() does, leaves a
\* sequence that is shorter by one, free of duplicates, and has every other
\* element.
LEMMA EraseLemma ==
  ASSUME NEW S, NEW s \in Seq(S), NEW e \in S, NoDuplicates(s), Has(s, e)
  PROVE  LET r == Erase(s, e) IN
           /\ r \in Seq(S)
           /\ Len(r) = Len(s) - 1
           /\ NoDuplicates(r)
           /\ \A x : Has(r, x) <=> Has(s, x) /\ x # e
<1> DEFINE r == Erase(s, e)
<1>1. PICK k \in 1..Len(s) : s[k] = e
  BY DEF Has
<1>2. \A i \in DOMAIN s : s[i] = e => i = k
  BY <1>1 DEF NoDuplicates
<1>3. (CHOOSE i \in DOMAIN s : s[i] = e) = k
  BY <1>1, <1>2
<1>4. r = EraseAt(s, k)
  BY <1>3, Zenon DEF Erase
<1>5. /\ r \in Seq(S)
      /\ Len(r) = Len(s) - 1
      /\ \A i \in 1..Len(r) : r[i] = IF i < k THEN s[i] ELSE s[i + 1]
  <2> DEFINE a == SubSeq(s, 1, k - 1)
             b == SubSeq(s, k + 1, Len(s))
  <2>1. /\ a \in Seq(S) /\ Len(a) = k - 1
        /\ \A i \in 1..k - 1 : a[i] = s[i]
    BY <1>1, SubSeqProperties
  <2>2. /\ b \in Seq(S) /\ Len(b) = Len(s) - k
        /\ \A i \in 1..Len(s) - k : b[i] = s[k + i]
    BY <1>1, SubSeqProperties
  <2> HIDE DEF a, b
  <2>3. r = a \o b
    BY <1>4, Zenon DEF EraseAt, a, b
  <2> HIDE DEF r
  <2>4. /\ r \in Seq(S)
        /\ Len(r) = (k - 1) + (Len(s) - k)
        /\ \A i \in 1..Len(r) : r[i] = IF i <= k - 1 THEN a[i] ELSE b[i - (k - 1)]
    <3>1. /\ a \o b \in Seq(S)
          /\ Len(a \o b) = Len(a) + Len(b)
          /\ \A i \in 1..Len(a) + Len(b) :
               (a \o b)[i] = IF i <= Len(a) THEN a[i] ELSE b[i - Len(a)]
      BY <2>1, <2>2, ConcatProperties, Zenon
    <3> QED
      BY <3>1, <2>1, <2>2, <2>3, Zenon
  <2>5. Len(s) \in Nat /\ k \in Nat /\ k <= Len(s)
    BY <1>1
  <2>6. ASSUME NEW i \in 1..Len(r)
        PROVE  r[i] = IF i < k THEN s[i] ELSE s[i + 1]
    <3>1. CASE i < k
      <4>1. i \in 1..k - 1 /\ r[i] = a[i]
        BY <3>1, <2>4, <2>5
      <4> QED
        BY <3>1, <4>1, <2>1, Zenon
    <3>2. CASE ~(i < k)
      <4>1. i - (k - 1) \in 1..Len(s) - k /\ k + (i - (k - 1)) = i + 1
        BY <3>2, <2>4, <2>5
      <4>2. r[i] = b[i - (k - 1)]
        BY <3>2, <2>4, <2>5
      <4> QED
        BY <3>2, <4>1, <4>2, <2>2, Zenon
    <3> QED
      BY <3>1, <3>2, Zenon
  <2> QED
    BY <2>4, <2>5, <2>6
<1> HIDE DEF r
<1> DEFINE pos(i) == IF i < k THEN i ELSE i + 1
<1>6. \A i \in 1..Len(r) : pos(i) \in DOMAIN s /\ r[i] = s[pos(i)]
  BY <1>1, <1>5
<1>7. NoDuplicates(r)
  <2> SUFFICES ASSUME NEW i \in 1..Len(r), NEW j \in 1..Len(r), r[i] = r[j]
               PROVE  i = j
    BY <1>5 DEF NoDuplicates
  <2>1. pos(i) = pos(j)
    BY <1>6, Zenon DEF NoDuplicates
  <2> QED
    BY <2>1, <1>1
<1>8. ASSUME NEW x PROVE Has(r, x) <=> Has(s, x) /\ x # e
  <2>1. ASSUME NEW i \in DOMAIN r, r[i] = x PROVE Has(s, x) /\ x # e
    <3>1. pos(i) \in DOMAIN s /\ s[pos(i)] = x /\ pos(i) # k
      BY <2>1, <1>1, <1>5, <1>6
    <3> QED
      BY <3>1, <1>2, Zenon DEF Has
  <2>2. ASSUME NEW i \in DOMAIN s, s[i] = x, x # e PROVE Has(r, x)
    <3>1. CASE i < k
      BY <3>1, <2>2, <1>5, <1>1 DEF Has
    <3>2. CASE i > k
      <4>1. i - 1 \in 1..Len(r) /\ r[i - 1] = s[i]
        BY <3>2, <1>5, <1>1
      <4> QED
        BY <4>1, <1>5, <2>2 DEF Has
    <3> QED
      BY <3>1, <3>2, <2>2, <1>1
  <2> QED
    BY <2>1, <2>2, Zenon DEF Has
<1> QED
  BY <1>5, <1>7, <1>8, Zenon DEF r

\* Pushing a fiber that is not in the deque.
LEMMA PushLemma ==
  ASSUME NEW S, NEW s \in Seq(S), NEW e \in S, NoDuplicates(s), ~Has(s, e)
  PROVE  /\ Append(s, e) \in Seq(S)
         /\ NoDuplicates(Append(s, e))
         /\ \A x : Has(Append(s, e), x) <=> Has(s, x) \/ x = e
<1> DEFINE r == Append(s, e)
<1>1. /\ r \in Seq(S) /\ Len(r) = Len(s) + 1
      /\ \A i \in 1..Len(s) : r[i] = s[i]
      /\ r[Len(s) + 1] = e
  BY AppendProperties
<1> HIDE DEF r
<1>2. NoDuplicates(r)
  BY <1>1 DEF NoDuplicates, Has
<1>3. ASSUME NEW x PROVE Has(r, x) <=> Has(s, x) \/ x = e
  BY <1>1 DEF Has
<1> QED
  BY <1>1, <1>2, <1>3, Zenon DEF r

\* completeLocked() on a queued waiter takes it, and nobody else, out of its
\* queue, and leaves the other queues alone.
LEMMA CompleteLemma ==
  ASSUME WQTypeOK, NEW q \in Queues, NEW f \in Fibers, NEW e \in Errors,
         NoDuplicates(waiters[q]), InQueue(f, q), completeLocked(f, q, e)
  PROVE  /\ waiters' \in [Queues -> Seq(Fibers)]
         /\ error' \in [Fibers -> Errors]
         /\ tasks' \in [Fibers -> Nat]
         /\ NoDuplicates(waiters'[q])
         /\ \A g : InQueue(g, q)' <=> InQueue(g, q) /\ g # f
         /\ \A p \in Queues \ {q} : waiters'[p] = waiters[p]
<1>1. waiters[q] \in Seq(Fibers) /\ Has(waiters[q], f)
  BY Zenon DEF WQTypeOK, InQueue
<1>2. LET r == Erase(waiters[q], f) IN
        /\ r \in Seq(Fibers)
        /\ NoDuplicates(r)
        /\ \A x : Has(r, x) <=> Has(waiters[q], x) /\ x # f
  BY <1>1, EraseLemma, Zenon
<1>3. /\ waiters'[q] = Erase(waiters[q], f)
      /\ \A p \in Queues \ {q} : waiters'[p] = waiters[p]
  BY Zenon DEF completeLocked, WQTypeOK
<1>4. waiters' \in [Queues -> Seq(Fibers)]
  BY <1>2, Zenon DEF completeLocked, WQTypeOK
<1>5. error' \in [Fibers -> Errors] /\ tasks' \in [Fibers -> Nat]
  BY DEF completeLocked, WQTypeOK
<1> QED
  BY <1>2, <1>3, <1>4, <1>5, Zenon DEF InQueue

-----------------------------------------------------------------------------
(* The invariant of FiberMutex.                                            *)

\* What holds of one fiber: inside waitLocked() it is on the mutex's queue
\* or has been completed, and then it has the one task it will be resumed by.
FiberInv(f) ==
  /\ pc[f] \notin {"idle", "call"} => where[f] = "mutex"
  /\ InQueue(f, "mutex") => Waiting(f) /\ error[f] = "OK"
  /\ tasks[f] = IF Waiting(f) /\ ~InQueue(f, "mutex") THEN 1 ELSE 0

QueueInv ==
  /\ NoDuplicates(waiters["mutex"])
  /\ \A q \in Queues \ {"mutex"} : waiters[q] = <<>>
  /\ \A f \in Fibers : FiberInv(f)

\* The inductive invariant.
FMInv ==
  /\ FMTypeOK
  /\ QueueInv
  /\ NoIdleQueue
  /\ HandoffHasOneHeir

USE FiberMutexAssumption

LEMMA InitInv == FMInit => FMInv
<1> SUFFICES ASSUME FMInit PROVE FMInv
  BY Zenon
<1>1. waiters["mutex"] = <<>> /\ waiters \in [Queues -> Seq(Fibers)]
  BY DEF FMInit, WQInit
<1>2. FMTypeOK
  BY <1>1, Zenon DEF FMInit, WQInit, MutexInit, FMTypeOK, WQTypeOK, Locations, Errors
<1>3. \A f \in Fibers : ~InQueue(f, "mutex") /\ ~Waiting(f) /\ pc[f] = "idle"
  BY <1>1 DEF FMInit, WQInit, InQueue, Has, Waiting
<1>4. QueueInv
  BY <1>1, <1>3 DEF QueueInv, FiberInv, NoDuplicates, FMInit, WQInit
<1>5. HandoffHasOneHeir
  BY <1>3, Zenon DEF HandoffHasOneHeir, Heir, FMInit, MutexInit
<1> QED
  BY <1>1, <1>2, <1>4, <1>5, Zenon DEF FMInv, NoIdleQueue

\* Facts about one state that the steps below use again and again.
LEMMA StateFacts ==
  ASSUME FMInv
  PROVE  /\ waiters["mutex"] \in Seq(Fibers)
         /\ \A f \in Fibers : InQueue(f, where[f]) => where[f] = "mutex"
         /\ \A f \in Fibers : pc[f] \in {"idle", "call", "woken", "returned"}
              => ~InQueue(f, "mutex") /\ tasks[f] = 0
         /\ \A f \in Fibers : AtLoop(f) /\ pc[f] # "call" => Heir(f)
         /\ owner # None => ~handoff /\ \A f \in Fibers : ~Heir(f)
         /\ ~handoff => \A f \in Fibers : ~Heir(f)
<1>1. waiters["mutex"] \in Seq(Fibers)
  BY Zenon DEF FMInv, FMTypeOK, WQTypeOK
<1>2. ASSUME NEW f \in Fibers, InQueue(f, where[f]) PROVE where[f] = "mutex"
  <2>1. where[f] \in Queues
    BY Zenon DEF FMInv, FMTypeOK, WQTypeOK
  <2>2. waiters[where[f]] # <<>>
    BY <1>2 DEF InQueue, Has
  <2> QED
    BY <2>1, <2>2, Zenon DEF FMInv, QueueInv
<1>3. \A f \in Fibers : pc[f] \in {"idle", "call", "woken", "returned"}
        => ~InQueue(f, "mutex") /\ tasks[f] = 0
  BY Zenon DEF FMInv, QueueInv, FiberInv, Waiting
<1>4. \A f \in Fibers : AtLoop(f) /\ pc[f] # "call" => Heir(f)
  BY Zenon DEF AtLoop, Heir
<1>5. /\ owner # None => ~handoff /\ \A f \in Fibers : ~Heir(f)
      /\ ~handoff => \A f \in Fibers : ~Heir(f)
  BY Zenon DEF FMInv, HandoffHasOneHeir
<1> QED
  BY <1>1, <1>2, <1>3, <1>4, <1>5, Zenon

\* A step that leaves the mutex alone and makes nobody an heir or stops
\* anyone being one preserves the hand-over.
LEMMA SameHeirs ==
  ASSUME FMInv, UNCHANGED mutexVars, \A g \in Fibers : Heir(g)' <=> Heir(g)
  PROVE  HandoffHasOneHeir'
BY Zenon DEF FMInv, HandoffHasOneHeir, mutexVars

\* What a step may do to the heir and to the queue.
HeirsKept == \A g \in Fibers : Heir(g)' <=> Heir(g)
LineShrinks ==
  \/ waiters' = waiters
  \/ \E f \in Fibers : InQueue(f, "mutex") /\ waiters'["mutex"] = Erase(waiters["mutex"], f)

LEMMA WaitStepInv ==
  ASSUME Plain = {}, FMInv, WQStep, UNCHANGED mutexVars
  PROVE  FMInv' /\ HeirsKept /\ LineShrinks
<1> USE DEF FMInv
<1>0. owner' = owner /\ handoff' = handoff
  BY Zenon DEF mutexVars
<1>1. ASSUME NEW f \in Fibers, AddTimer(f) \/ Yield(f) PROVE FMInv' /\ HeirsKept /\ LineShrinks
  <2>1. FMTypeOK'
    <3>1. pc' \in [Fibers -> Locations]
      BY <1>1, Zenon DEF AddTimer, Yield, FMTypeOK, WQTypeOK, Locations
    <3>2. <<f, wait[f]>> \in Fibers \X Nat
      BY Zenon DEF FMTypeOK, WQTypeOK
    <3>3. armed' \in SUBSET (Fibers \X Nat)
      BY <1>1, <3>2, Zenon DEF AddTimer, Yield, FMTypeOK, WQTypeOK
    <3> QED
      BY <1>0, <1>1, <3>1, <3>3, Zenon DEF AddTimer, Yield, FMTypeOK, WQTypeOK
  <2>2. /\ waiters' = waiters /\ where' = where /\ error' = error
        /\ tasks' = tasks /\ ret' = ret
        /\ \A g \in Fibers : Waiting(g)' <=> Waiting(g)
        /\ \A g \in Fibers : pc'[g] = pc[g] \/ (Waiting(g) /\ Waiting(g)')
    BY <1>1, Zenon DEF AddTimer, Yield, FMTypeOK, WQTypeOK, Waiting
  <2>3. \A g : InQueue(g, "mutex")' <=> InQueue(g, "mutex")
    BY <2>2, Zenon DEF InQueue
  <2>4. \A g \in Fibers : Heir(g)' <=> Heir(g)
    BY <2>2, <2>3, Zenon DEF Heir, Waiting
  <2>5. QueueInv'
    BY <2>2, <2>3, Zenon DEF QueueInv, FiberInv, Waiting
  <2>6. NoIdleQueue'
    BY <1>0, <2>2, Zenon DEF NoIdleQueue
  <2> QED
    BY <2>1, <2>2, <2>4, <2>5, <2>6, SameHeirs, Zenon DEF HeirsKept, LineShrinks
<1>2. ASSUME NEW f \in Fibers, Resume(f) PROVE FMInv' /\ HeirsKept /\ LineShrinks
  <2>1. pc[f] = "parked" /\ tasks[f] = 1 /\ ~InQueue(f, "mutex")
    BY <1>2 DEF Resume, Scheduled, QueueInv, FiberInv, FMTypeOK, WQTypeOK
  <2>2. FMTypeOK'
    BY <1>0, <1>2, <2>1 DEF Resume, FMTypeOK, WQTypeOK, Locations
  <2>3. /\ waiters' = waiters /\ where' = where /\ error' = error /\ ret' = ret
        /\ \A g \in Fibers \ {f} : pc'[g] = pc[g] /\ tasks'[g] = tasks[g]
        /\ pc'[f] = "woken" /\ tasks'[f] = 0
    BY <1>2, <2>1 DEF Resume, FMTypeOK, WQTypeOK
  <2>4. \A g : InQueue(g, "mutex")' <=> InQueue(g, "mutex")
    BY <2>3, Zenon DEF InQueue
  <2>5. \A g \in Fibers : Heir(g)' <=> Heir(g)
    BY <2>1, <2>3, <2>4, Zenon DEF Heir, Waiting
  <2>6. QueueInv'
    BY <2>1, <2>3, <2>4 DEF QueueInv, FiberInv, Waiting
  <2>7. NoIdleQueue'
    BY <1>0, <2>3, Zenon DEF NoIdleQueue
  <2> QED
    BY <2>2, <2>3, <2>5, <2>6, <2>7, SameHeirs, Zenon DEF HeirsKept, LineShrinks
<1>3. ASSUME NEW f \in Fibers, WaitReturn(f) PROVE FMInv' /\ HeirsKept /\ LineShrinks
  <2>1. pc[f] = "woken" /\ where[f] = "mutex" /\ ~InQueue(f, "mutex")
    BY <1>3, Zenon DEF WaitReturn, QueueInv, FiberInv, Waiting
  <2>2. UNCHANGED <<waiters, error, tasks, where, wait, timed, late, armed, fired>>
    BY <1>3, <2>1, Zenon DEF WaitReturn
  <2>3. /\ pc' = [pc EXCEPT ![f] = "returned"]
        /\ ret' = [ret EXCEPT ![f] = error[f]]
    BY <1>3, Zenon DEF WaitReturn
  <2>4. FMTypeOK'
    BY <1>0, <2>2, <2>3, Zenon DEF FMTypeOK, WQTypeOK, Locations
  <2>5. \A g : InQueue(g, "mutex")' <=> InQueue(g, "mutex")
    BY <2>2, Zenon DEF InQueue
  <2>6. \A g \in Fibers \ {f} : pc'[g] = pc[g] /\ ret'[g] = ret[g]
    BY <2>3, Zenon DEF FMTypeOK, WQTypeOK
  <2>7. pc'[f] = "returned" /\ ret'[f] = error[f]
    BY <2>3, Zenon DEF FMTypeOK, WQTypeOK
  <2>8. \A g \in Fibers : Heir(g)' <=> Heir(g)
    BY <2>1, <2>2, <2>5, <2>6, <2>7, Zenon DEF Heir, Waiting
  <2>9. QueueInv'
    BY <2>1, <2>2, <2>5, <2>6, <2>7, Zenon DEF QueueInv, FiberInv, Waiting
  <2>10. NoIdleQueue'
    BY <1>0, <2>2, Zenon DEF NoIdleQueue
  <2> QED
    BY <2>2, <2>4, <2>8, <2>9, <2>10, SameHeirs, Zenon DEF HeirsKept, LineShrinks
<1>4. ASSUME NEW f \in Fibers, Expire(f) PROVE FMInv' /\ HeirsKept /\ LineShrinks
  <2>1. FMTypeOK'
    BY <1>0, <1>4, Zenon DEF Expire, FMTypeOK, WQTypeOK
  <2>2. UNCHANGED <<waiters, where, error, tasks, ret, pc>>
    BY <1>4, Zenon DEF Expire
  <2>3. \A g \in Fibers : Heir(g)' <=> Heir(g)
    BY <2>2, Zenon DEF Heir, Waiting, InQueue
  <2>4. QueueInv' /\ NoIdleQueue'
    BY <1>0, <2>2, Zenon DEF QueueInv, FiberInv, Waiting, InQueue, NoIdleQueue
  <2> QED
    BY <2>1, <2>2, <2>3, <2>4, SameHeirs, Zenon DEF HeirsKept, LineShrinks
<1>5. ASSUME NEW t \in armed, FireTimer(t) PROVE FMInv' /\ HeirsKept /\ LineShrinks
  <2>1. FMTypeOK'
    BY <1>0, <1>5, Zenon DEF FireTimer, FMTypeOK, WQTypeOK
  <2>2. UNCHANGED <<waiters, where, error, tasks, ret, pc>>
    BY <1>5, Zenon DEF FireTimer
  <2>3. \A g \in Fibers : Heir(g)' <=> Heir(g)
    BY <2>2, Zenon DEF Heir, Waiting, InQueue
  <2>4. QueueInv' /\ NoIdleQueue'
    BY <1>0, <2>2, Zenon DEF QueueInv, FiberInv, Waiting, InQueue, NoIdleQueue
  <2> QED
    BY <2>1, <2>2, <2>3, <2>4, SameHeirs, Zenon DEF HeirsKept, LineShrinks
<1>6. ASSUME NEW t \in fired, RunTimeout(t) PROVE FMInv' /\ HeirsKept /\ LineShrinks
  <2>1. t[1] \in Fibers /\ t[2] \in Nat
    BY Zenon DEF FMTypeOK, WQTypeOK
  <2> DEFINE f == t[1]
  <2>2. UNCHANGED <<pc, where, wait, ret, timed, late, armed>> /\ fired' \subseteq fired
    BY <1>6, Zenon DEF RunTimeout
  <2>3. CASE ~TimeoutApplies(t)
    <3>1. UNCHANGED <<waiters, error, tasks>>
      BY <1>6, <2>3, Zenon DEF RunTimeout
    <3>2. FMTypeOK'
      BY <1>0, <2>2, <3>1, Zenon DEF FMTypeOK, WQTypeOK
    <3>3. \A g \in Fibers : Heir(g)' <=> Heir(g)
      BY <2>2, <3>1, Zenon DEF Heir, Waiting, InQueue
    <3>4. QueueInv' /\ NoIdleQueue'
      BY <1>0, <2>2, <3>1, Zenon DEF QueueInv, FiberInv, Waiting, InQueue, NoIdleQueue
    <3> QED
      BY <3>1, <3>2, <3>3, <3>4, SameHeirs, Zenon DEF HeirsKept, LineShrinks
  <2>4. CASE TimeoutApplies(t)
    <3>1. InQueue(f, "mutex") /\ where[f] = "mutex"
      BY <2>1, <2>4, StateFacts, Zenon DEF TimeoutApplies
    <3>2. completeLocked(f, "mutex", "ETIMEDOUT")
      BY <1>6, <2>4, <3>1, Zenon DEF RunTimeout
    <3>3. /\ waiters' \in [Queues -> Seq(Fibers)]
          /\ error' \in [Fibers -> Errors]
          /\ tasks' \in [Fibers -> Nat]
          /\ NoDuplicates(waiters'["mutex"])
          /\ \A g : InQueue(g, "mutex")' <=> InQueue(g, "mutex") /\ g # f
          /\ \A p \in Queues \ {"mutex"} : waiters'[p] = waiters[p]
      BY <2>1, <3>1, <3>2, CompleteLemma, Zenon DEF FMTypeOK, QueueInv, Errors
    <3>4. /\ \A g \in Fibers \ {f} : error'[g] = error[g] /\ tasks'[g] = tasks[g]
          /\ error'[f] = "ETIMEDOUT" /\ tasks'[f] = 1
      BY <2>1, <3>1, <3>2 DEF completeLocked, FMTypeOK, WQTypeOK, QueueInv, FiberInv
    <3>5. Waiting(f) /\ ~Heir(f)
      BY <2>1, <3>1, Zenon DEF QueueInv, FiberInv, Heir, Waiting
    <3> HIDE DEF f
    <3>6. FMTypeOK'
      BY <1>0, <2>2, <3>3, Zenon DEF FMTypeOK, WQTypeOK
    <3>7. \A g \in Fibers : Heir(g)' <=> Heir(g)
      <4>1. \A g \in Fibers \ {f} : Heir(g)' <=> Heir(g)
        BY <2>2, <3>3, <3>4, Zenon DEF Heir, Waiting
      <4>2. ~Heir(f)'
        BY <2>2, <3>4, <3>5, Zenon DEF Heir, Waiting
      <4> QED
        BY <4>1, <4>2, <3>5, Zenon
    <3>8. QueueInv'
      <4>1. ASSUME NEW g \in Fibers \ {f} PROVE FiberInv(g)'
        <5>1. FiberInv(g)
          BY Zenon DEF QueueInv
        <5>2. InQueue(g, "mutex")' <=> InQueue(g, "mutex")
          BY <3>3, Zenon
        <5>3. error'[g] = error[g] /\ tasks'[g] = tasks[g]
          BY <3>4, Zenon
        <5>4. Waiting(g)' <=> Waiting(g)
          BY <2>2, Zenon DEF Waiting
        <5> QED
          BY <2>2, <5>1, <5>2, <5>3, <5>4, Zenon DEF FiberInv
      <4>2. FiberInv(f)'
        <5>1. Waiting(f)' /\ where'[f] = "mutex" /\ ~InQueue(f, "mutex")'
          BY <2>2, <3>1, <3>3, <3>5, Zenon DEF Waiting
        <5> QED
          BY <3>4, <5>1, Zenon DEF FiberInv
      <4> QED
        BY <3>3, <4>1, <4>2, Zenon DEF QueueInv
    <3>9. waiters["mutex"] # <<>>
      BY <3>1 DEF InQueue, Has
    <3>10. NoIdleQueue'
      BY <1>0, <3>9, Zenon DEF NoIdleQueue
    <3>11. LineShrinks
      BY <2>1, <3>1, <3>2, Zenon DEF completeLocked, FMTypeOK, WQTypeOK, LineShrinks, f
    <3> QED
      BY <3>6, <3>7, <3>8, <3>10, <3>11, SameHeirs, Zenon DEF HeirsKept
  <2> QED
    BY <2>3, <2>4, Zenon
<1>7. ASSUME NEW f \in Fibers PROVE ~NoTimers(f)
  BY Zenon DEF NoTimers
<1> QED
  BY <1>1, <1>2, <1>3, <1>4, <1>5, <1>6, <1>7, Zenon DEF WQStep, WaitLockedStep, TimerStep

\* A fiber that is neither queued nor the heir can leave lock().
LEMMA LeaveInv ==
  ASSUME FMInv, NEW f \in Fibers, leaveCall(f), UNCHANGED mutexVars,
         pc[f] = "call" \/ (pc[f] = "returned" /\ ret[f] # "OK")
  PROVE  FMInv' /\ HeirsKept
<1> USE DEF FMInv
<1>1. /\ UNCHANGED <<waiters, where, wait, tasks, armed, fired, owner, handoff>>
      /\ pc' = [pc EXCEPT ![f] = "idle"] /\ error' = [error EXCEPT ![f] = "OK"]
      /\ ret' = [ret EXCEPT ![f] = "OK"]
      /\ timed' = [timed EXCEPT ![f] = FALSE] /\ late' = [late EXCEPT ![f] = FALSE]
  BY Zenon DEF leaveCall, mutexVars
<1>2. FMTypeOK'
  BY <1>1, Zenon DEF FMTypeOK, WQTypeOK, Locations, Errors
<1>3. /\ pc'[f] = "idle"
      /\ \A g \in Fibers \ {f} : pc'[g] = pc[g] /\ error'[g] = error[g] /\ ret'[g] = ret[g]
  BY <1>1, Zenon DEF FMTypeOK, WQTypeOK
<1>4. \A g : InQueue(g, "mutex")' <=> InQueue(g, "mutex")
  BY <1>1, Zenon DEF InQueue
<1>5. ~InQueue(f, "mutex") /\ tasks[f] = 0
  BY StateFacts, Zenon
<1>6. \A g \in Fibers : Heir(g)' <=> Heir(g)
  BY <1>1, <1>3, <1>4 DEF Heir, Waiting
<1>7. QueueInv'
  BY <1>1, <1>3, <1>4, <1>5 DEF QueueInv, FiberInv, Waiting
<1>8. NoIdleQueue'
  BY <1>1, Zenon DEF NoIdleQueue
<1> QED
  BY <1>2, <1>6, <1>7, <1>8, SameHeirs, Zenon DEF HeirsKept

LEMMA LockStepInv ==
  ASSUME FMInv, NEW f \in Fibers, LockStep(f)
  PROVE  /\ FMInv'
         /\ \/ LockAcquire(f)
            \/ HeirsKept /\ waiters' = waiters /\ UNCHANGED mutexVars
            \/ pc[f] = "call" /\ LockWait(f) /\ HeirsKept /\ waiters'["mutex"] = Append(waiters["mutex"], f)
<1> USE DEF FMInv
<1>1. AtLoop(f) /\ ~Available(f) => pc[f] = "call"
  BY StateFacts, Zenon DEF Available, AtLoop, SelectedWaiter, HandoffHasOneHeir
<1>2. CASE LockAcquire(f)
  <2>1. /\ UNCHANGED <<waiters, where, wait, tasks, armed, fired>>
        /\ pc' = [pc EXCEPT ![f] = "idle"] /\ error' = [error EXCEPT ![f] = "OK"]
        /\ ret' = [ret EXCEPT ![f] = "OK"]
        /\ timed' = [timed EXCEPT ![f] = FALSE] /\ late' = [late EXCEPT ![f] = FALSE]
        /\ owner' = f /\ handoff' = FALSE
        /\ AtLoop(f) /\ Available(f)
    BY <1>2, Zenon DEF LockAcquire, leaveCall
  <2>2. FMTypeOK'
    BY <2>1, Zenon DEF FMTypeOK, WQTypeOK, Locations, Errors
  <2>3. /\ pc'[f] = "idle"
        /\ \A g \in Fibers \ {f} : pc'[g] = pc[g] /\ error'[g] = error[g] /\ ret'[g] = ret[g]
    BY <2>1, Zenon DEF FMTypeOK, WQTypeOK
  <2>4. \A g : InQueue(g, "mutex")' <=> InQueue(g, "mutex")
    BY <2>1, Zenon DEF InQueue
  <2>5. ~InQueue(f, "mutex") /\ tasks[f] = 0
    BY <2>1, StateFacts, Zenon DEF AtLoop
  <2>6. \A g \in Fibers \ {f} : ~Heir(g)
    BY <2>1, StateFacts, Zenon DEF Available, AtLoop, SelectedWaiter, HandoffHasOneHeir
  <2>7. \A g \in Fibers : ~Heir(g)'
    BY <2>1, <2>3, <2>4, <2>6 DEF Heir, Waiting
  <2>8. QueueInv'
    BY <2>1, <2>3, <2>4, <2>5, Zenon DEF QueueInv, FiberInv, Waiting
  <2>9. NoIdleQueue' /\ HandoffHasOneHeir'
    BY <2>1, <2>7, Zenon DEF NoIdleQueue, HandoffHasOneHeir
  <2> QED
    BY <1>2, <2>2, <2>8, <2>9, Zenon
<1>3. CASE LockReentrant(f) \/ LockExpired(f) \/ LockRefused(f)
  BY <1>1, <1>3, LeaveInv, Zenon DEF LockReentrant, LockExpired, LockRefused, leaveCall
<1>4. CASE LockFailed(f)
  BY <1>4, LeaveInv, Zenon DEF LockFailed, leaveCall
<1>5. CASE LockWait(f)
  <2>1. /\ pc[f] = "call" /\ ~Available(f)
        /\ waiters' = [waiters EXCEPT !["mutex"] = Append(@, f)]
        /\ where' = [where EXCEPT ![f] = "mutex"]
        /\ wait' = [wait EXCEPT ![f] = @ + 1]
        /\ error' = [error EXCEPT ![f] = "OK"]
        /\ pc' = [pc EXCEPT ![f] = "queued"]
        /\ UNCHANGED <<ret, timed, late, tasks, armed, fired, owner, handoff>>
    BY <1>1, <1>5, Zenon DEF LockWait, pushWaiter, mutexVars
  <2>2. ~InQueue(f, "mutex") /\ tasks[f] = 0
    BY <2>1, StateFacts, Zenon
  <2>3. /\ Append(waiters["mutex"], f) \in Seq(Fibers)
        /\ NoDuplicates(Append(waiters["mutex"], f))
        /\ \A g : Has(Append(waiters["mutex"], f), g) <=> InQueue(g, "mutex") \/ g = f
    <3>1. waiters["mutex"] \in Seq(Fibers) /\ NoDuplicates(waiters["mutex"]) /\ ~Has(waiters["mutex"], f)
      BY <2>2, StateFacts, Zenon DEF QueueInv, InQueue
    <3> HIDE DEF FMInv
    <3> QED
      BY <3>1, PushLemma, Zenon DEF InQueue
  <2>4. waiters'["mutex"] = Append(waiters["mutex"], f)
    BY <2>1, Zenon DEF FMTypeOK, WQTypeOK
  <2>5. \A g : InQueue(g, "mutex")' <=> InQueue(g, "mutex") \/ g = f
    BY <2>3, <2>4, Zenon DEF InQueue
  <2>6. FMTypeOK'
    BY <2>1, <2>3, SMTT(30) DEF FMTypeOK, WQTypeOK, Locations, Errors
  <2>7. /\ \A g \in Fibers \ {f} : pc'[g] = pc[g] /\ error'[g] = error[g] /\ where'[g] = where[g]
        /\ pc'[f] = "queued" /\ error'[f] = "OK" /\ where'[f] = "mutex"
        /\ \A q \in Queues \ {"mutex"} : waiters'[q] = waiters[q]
    BY <2>1, Zenon DEF FMTypeOK, WQTypeOK
  <2>8. \A g \in Fibers : Heir(g)' <=> Heir(g)
    BY <2>1, <2>5, <2>7, SMTT(30) DEF Heir, Waiting
  <2>9. QueueInv'
    <3>1. ASSUME NEW g \in Fibers \ {f} PROVE FiberInv(g)'
      <4>1. FiberInv(g)
        BY Zenon DEF QueueInv
      <4>2. InQueue(g, "mutex")' <=> InQueue(g, "mutex")
        BY <2>5, Zenon
      <4>3. Waiting(g)' <=> Waiting(g)
        BY <2>7, Zenon DEF Waiting
      <4> QED
        BY <2>1, <2>7, <4>1, <4>2, <4>3, Zenon DEF FiberInv
    <3>2. FiberInv(f)'
      BY <2>1, <2>2, <2>5, <2>7, Zenon DEF FiberInv, Waiting
    <3> QED
      BY <2>3, <2>4, <2>7, <3>1, <3>2, Zenon DEF QueueInv
  <2>10. NoIdleQueue'
    BY <2>1, Zenon DEF NoIdleQueue, Available
  <2> QED
    BY <1>5, <2>1, <2>4, <2>6, <2>8, <2>9, <2>10, SameHeirs, Zenon DEF mutexVars, HeirsKept
<1> QED
  BY <1>2, <1>3, <1>4, <1>5, Zenon DEF LockStep

LEMMA CallInv ==
  ASSUME FMInv, NEW f \in Fibers, NEW t \in BOOLEAN, Lock(f, t)
  PROVE  FMInv' /\ HeirsKept /\ waiters' = waiters /\ UNCHANGED mutexVars
<1> USE DEF FMInv
<1>1. /\ UNCHANGED <<waiters, where, wait, error, ret, late, tasks, armed, fired, owner, handoff>>
      /\ pc[f] = "idle"
      /\ pc' = [pc EXCEPT ![f] = "call"] /\ timed' = [timed EXCEPT ![f] = t]
  BY Zenon DEF Lock, enterCall, mutexVars
<1>2. FMTypeOK'
  BY <1>1, Zenon DEF FMTypeOK, WQTypeOK, Locations
<1>3. pc'[f] = "call" /\ \A g \in Fibers \ {f} : pc'[g] = pc[g]
  BY <1>1, Zenon DEF FMTypeOK, WQTypeOK
<1>4. \A g : InQueue(g, "mutex")' <=> InQueue(g, "mutex")
  BY <1>1, Zenon DEF InQueue
<1>5. \A g \in Fibers : Heir(g)' <=> Heir(g)
  BY <1>1, <1>3, <1>4, Zenon DEF Heir, Waiting
<1>6. QueueInv'
  BY <1>1, <1>3, <1>4, Zenon DEF QueueInv, FiberInv, Waiting
<1>7. NoIdleQueue'
  BY <1>1, Zenon DEF NoIdleQueue
<1> QED
  BY <1>1, <1>2, <1>5, <1>6, <1>7, SameHeirs, Zenon DEF mutexVars, HeirsKept

LEMMA TryLockInv ==
  ASSUME FMInv, NEW f \in Fibers, TryLock(f)
  PROVE  FMInv'
<1> USE DEF FMInv
<1>1. UNCHANGED wqVars /\ owner = None /\ ~handoff /\ owner' = f /\ handoff' = handoff
  BY Zenon DEF TryLock
<1>2. FMTypeOK' /\ QueueInv'
  BY <1>1, Zenon DEF FMTypeOK, WQTypeOK, QueueInv, FiberInv, Waiting, InQueue, wqVars
<1>3. \A g \in Fibers : ~Heir(g)'
  BY <1>1, StateFacts, Zenon DEF Heir, Waiting, InQueue, wqVars
<1>4. NoIdleQueue' /\ HandoffHasOneHeir'
  BY <1>1, <1>3, Zenon DEF NoIdleQueue, HandoffHasOneHeir
<1> QED
  BY <1>2, <1>4, Zenon

LEMMA UnlockInv ==
  ASSUME FMInv, NEW f \in Fibers, Unlock(f)
  PROVE  /\ FMInv' /\ owner = f /\ owner' = None
         /\ waiters["mutex"] = <<>> => ~handoff' /\ waiters' = waiters
         /\ waiters["mutex"] # <<>> =>
              \E h \in Fibers : /\ h = Head(waiters["mutex"]) /\ Heir(h)'
                               /\ waiters'["mutex"] = Erase(waiters["mutex"], h)
<1> USE DEF FMInv
<1>1. /\ UNCHANGED <<pc, where, wait, ret, timed, late, armed, fired>>
      /\ owner = f /\ owner' = None /\ handoff' = (waiters["mutex"] # <<>>)
  BY Zenon DEF Unlock, Release
<1>2. \A g \in Fibers : ~Heir(g)
  BY <1>1, StateFacts, Zenon
<1>3. CASE waiters["mutex"] = <<>>
  <2>1. UNCHANGED <<waiters, error, tasks>>
    BY <1>3, Zenon DEF Unlock, Release
  <2>2. FMTypeOK' /\ QueueInv'
    BY <1>1, <2>1, <1>3, Zenon DEF FMTypeOK, WQTypeOK, QueueInv, FiberInv, Waiting, InQueue
  <2>3. \A g \in Fibers : ~Heir(g)'
    BY <1>1, <1>2, <2>1, Zenon DEF Heir, Waiting, InQueue
  <2>4. NoIdleQueue' /\ HandoffHasOneHeir'
    BY <1>1, <1>3, <2>1, <2>3, Zenon DEF NoIdleQueue, HandoffHasOneHeir
  <2> QED
    BY <1>1, <1>3, <2>1, <2>2, <2>4, Zenon
<1>4. CASE waiters["mutex"] # <<>>
  <2>0. PICK h \in Fibers : h = Head(waiters["mutex"])
    BY <1>4, StateFacts
  <2>1. InQueue(h, "mutex")
    BY <1>4, <2>0, StateFacts DEF InQueue, Has
  <2>2. completeLocked(h, "mutex", "OK")
    BY <1>4, <2>0, Zenon DEF Unlock, Release, wakeOneLocked
  <2>3. /\ waiters' \in [Queues -> Seq(Fibers)]
        /\ error' \in [Fibers -> Errors]
        /\ tasks' \in [Fibers -> Nat]
        /\ NoDuplicates(waiters'["mutex"])
        /\ \A g : InQueue(g, "mutex")' <=> InQueue(g, "mutex") /\ g # h
        /\ \A p \in Queues \ {"mutex"} : waiters'[p] = waiters[p]
    BY <2>1, <2>2, CompleteLemma, Zenon DEF FMTypeOK, QueueInv, Errors
  <2>4. /\ \A g \in Fibers \ {h} : error'[g] = error[g] /\ tasks'[g] = tasks[g]
        /\ error'[h] = "OK" /\ tasks'[h] = 1
    BY <2>1, <2>2, SMTT(30) DEF completeLocked, FMTypeOK, WQTypeOK, QueueInv, FiberInv
  <2>5. Waiting(h) /\ where[h] = "mutex"
    BY <2>1, Zenon DEF QueueInv, FiberInv, Waiting
  <2>6. FMTypeOK'
    BY <1>1, <1>4, <2>3, Zenon DEF FMTypeOK, WQTypeOK
  <2>7. \A g \in Fibers : Heir(g)' <=> g = h
    <3>1. \A g \in Fibers \ {h} : ~Heir(g)'
      BY <1>1, <1>2, <2>3, <2>4, Zenon DEF Heir, Waiting
    <3>2. Heir(h)'
      BY <1>1, <2>3, <2>4, <2>5, Zenon DEF Heir, Waiting
    <3> QED
      BY <3>1, <3>2, Zenon
  <2>8. QueueInv'
    <3>1. ASSUME NEW g \in Fibers \ {h} PROVE FiberInv(g)'
      <4>1. FiberInv(g)
        BY Zenon DEF QueueInv
      <4>2. InQueue(g, "mutex")' <=> InQueue(g, "mutex")
        BY <2>3, Zenon
      <4>3. error'[g] = error[g] /\ tasks'[g] = tasks[g]
        BY <2>4, Zenon
      <4>4. Waiting(g)' <=> Waiting(g)
        BY <1>1, Zenon DEF Waiting
      <4> QED
        BY <1>1, <4>1, <4>2, <4>3, <4>4, Zenon DEF FiberInv
    <3>2. FiberInv(h)'
      BY <1>1, <2>3, <2>4, <2>5, Zenon DEF FiberInv, Waiting
    <3> QED
      BY <2>3, <3>1, <3>2, Zenon DEF QueueInv
  <2>9. NoIdleQueue' /\ HandoffHasOneHeir'
    BY <1>1, <1>4, <2>1, <2>7, Zenon DEF NoIdleQueue, HandoffHasOneHeir
  <2>10. waiters'["mutex"] = Erase(waiters["mutex"], h)
    BY <2>2, Zenon DEF completeLocked, FMTypeOK, WQTypeOK
  <2>11. owner = f /\ owner' = None /\ Heir(h)' /\ h = Head(waiters["mutex"])
    BY <1>1, <2>0, <2>7, Zenon
  <2> QED
    BY <1>4, <2>6, <2>8, <2>9, <2>10, <2>11, Zenon
<1> QED
  BY <1>3, <1>4, Zenon

LEMMA CancelInv ==
  ASSUME FMInv, CancelWaiters
  PROVE  FMInv' /\ HeirsKept /\ waiters'["mutex"] = <<>> /\ UNCHANGED mutexVars
<1> USE DEF FMInv
<1>1. /\ UNCHANGED <<pc, where, wait, ret, timed, late, armed, fired, owner, handoff>>
      /\ waiters' = [waiters EXCEPT !["mutex"] = <<>>]
      /\ error' = [f \in Fibers |-> IF InQueue(f, "mutex") THEN "ECANCELED" ELSE error[f]]
      /\ tasks' = [f \in Fibers |-> IF InQueue(f, "mutex") THEN tasks[f] + 1 ELSE tasks[f]]
  BY Zenon DEF CancelWaiters, wakeAllLocked
<1>2. /\ waiters'["mutex"] = <<>>
      /\ \A q \in Queues \ {"mutex"} : waiters'[q] = waiters[q]
      /\ \A g : ~InQueue(g, "mutex")'
  BY <1>1, SMTT(30) DEF FMTypeOK, WQTypeOK, InQueue, Has
<1>3. FMTypeOK'
  <2>1. waiters' \in [Queues -> Seq(Fibers)]
    BY <1>1 DEF FMTypeOK, WQTypeOK
  <2>2. error' \in [Fibers -> Errors] /\ tasks' \in [Fibers -> Nat]
    BY <1>1, SMTT(30) DEF FMTypeOK, WQTypeOK, Errors
  <2> QED
    BY <1>1, <2>1, <2>2, Zenon DEF FMTypeOK, WQTypeOK
<1>4. \A g \in Fibers : Heir(g)' <=> Heir(g)
  BY <1>1, <1>2, Zenon DEF Heir, Waiting, QueueInv, FiberInv
<1>5. \A g \in Fibers : FiberInv(g)'
  BY <1>1, <1>2, SMTT(30) DEF QueueInv, FiberInv, Waiting, FMTypeOK, WQTypeOK
<1>6. QueueInv' /\ NoIdleQueue'
  BY <1>2, <1>5 DEF QueueInv, NoIdleQueue, NoDuplicates
<1> QED
  BY <1>1, <1>2, <1>3, <1>4, <1>6, SameHeirs, Zenon DEF mutexVars, HeirsKept

LEMMA NextInv ==
  ASSUME Plain = {}, FMInv, [FMNext]_fmVars
  PROVE  FMInv'
<1>1. CASE FMNext
  BY <1>1, WaitStepInv, LockStepInv, CallInv, TryLockInv, UnlockInv, CancelInv, Zenon DEF FMNext
<1>2. CASE UNCHANGED fmVars
  <2>1. FMTypeOK' /\ NoIdleQueue'
    BY <1>2, Zenon DEF fmVars, wqVars, mutexVars, FMInv, FMTypeOK, WQTypeOK, NoIdleQueue
  <2>2. QueueInv'
    BY <1>2, Zenon DEF fmVars, wqVars, FMInv, QueueInv, FiberInv, Waiting, InQueue
  <2>3. \A g \in Fibers : Heir(g)' <=> Heir(g)
    BY <1>2, Zenon DEF fmVars, wqVars, Heir, Waiting, InQueue
  <2> QED
    BY <1>2, <2>1, <2>2, <2>3, SameHeirs, Zenon DEF FMInv, fmVars
<1> QED
  BY <1>1, <1>2, Zenon

\* The invariant that the theorems below are read off.
THEOREM Invariance ==
  ASSUME Plain = {}
  PROVE  FMSpec => []FMInv
<1>1. FMInit => FMInv
  BY InitInv, Zenon
<1>2. FMInv /\ [FMNext]_fmVars => FMInv'
  BY NextInv, Zenon
<1> QED
  BY <1>1, <1>2, PTL DEF FMSpec

\* Every variable of FiberMutex and its queue keeps its type.
THEOREM TypeCorrect ==
  ASSUME Plain = {}
  PROVE  FMSpec => []FMTypeOK
<1>1. FMInv => FMTypeOK
  BY Zenon DEF FMInv
<1> QED
  BY <1>1, Invariance, PTL

\* No wake-up is lost: whoever queues for the mutex, with any number of
\* fibers, timeouts and cancellations, does so while it is owned or reserved.
THEOREM NoLostWakeup ==
  ASSUME Plain = {}
  PROVE  FMSpec => []NoIdleQueue
<1>1. FMInv => NoIdleQueue
  BY Zenon DEF FMInv
<1> QED
  BY <1>1, Invariance, PTL

\* handoff_ is set exactly while there is one chosen waiter on its way.
THEOREM OneHeir ==
  ASSUME Plain = {}
  PROVE  FMSpec => []HandoffHasOneHeir
<1>1. FMInv => HandoffHasOneHeir
  BY Zenon DEF FMInv
<1> QED
  BY <1>1, Invariance, PTL

\* unlock(), the timeout and cancelWaiters() end each wait exactly once.
THEOREM EveryWaitWokenOnce ==
  ASSUME Plain = {}
  PROVE  FMSpec => []WokenOnce
<1>1. FMInv => WokenOnce
  <2> SUFFICES ASSUME FMInv, NEW f \in Fibers
               PROVE  /\ Waiting(f) => tasks[f] = IF InQueue(f, where[f]) THEN 0 ELSE 1
                      /\ ~Waiting(f) => tasks[f] = 0 /\ \A q \in Queues : ~InQueue(f, q)
    BY Zenon DEF WokenOnce
  <2>1. FiberInv(f)
    BY Zenon DEF FMInv, QueueInv
  <2>2. \A q \in Queues \ {"mutex"} : ~InQueue(f, q)
    BY DEF FMInv, QueueInv, InQueue, Has
  <2>3. Waiting(f) => where[f] = "mutex"
    BY <2>1, Zenon DEF FiberInv, Waiting
  <2> QED
    BY <2>1, <2>2, <2>3, Zenon DEF FiberInv
<1> QED
  BY <1>1, Invariance, PTL

\* A reserved mutex is taken by nobody but the waiter unlock() chose.
THEOREM ReservedForHeir ==
  ASSUME Plain = {}
  PROVE  FMSpec => NoBarging
<1>1. ASSUME FMInv, [FMNext]_fmVars, handoff, owner' # owner PROVE Heir(owner')
  <2>1. owner = None
    BY <1>1, Zenon DEF FMInv, HandoffHasOneHeir
  <2>2. PICK f \in Fibers : LockAcquire(f)
    BY <1>1, <2>1, Zenon DEF FMNext, fmVars, mutexVars, LockStep, LockReentrant, LockExpired,
         LockRefused, LockWait, LockFailed, Lock, TryLock, Unlock, CancelWaiters
  <2>3. AtLoop(f) /\ pc[f] # "call" /\ owner' = f
    BY <1>1, <2>2, Zenon DEF LockAcquire, Available, SelectedWaiter
  <2> QED
    BY <1>1, <2>3, StateFacts, Zenon
<1>2. FMInv /\ [FMNext]_fmVars => [handoff /\ owner' # owner => Heir(owner')]_fmVars
  BY <1>1, Zenon
<1> QED
  BY <1>2, Invariance, PTL DEF FMSpec, NoBarging
----------------------------------------------------------------------------
(* The refinement: every step of the mutex is a step of FairLock.          *)

\* handoff_ names its heir, and only when it is set.
LEMMA HeirNamed ==
  ASSUME FMInv
  PROVE  /\ handoff => ChosenHeir \in Fibers /\ Heir(ChosenHeir)
         /\ ~handoff => ChosenHeir = None
         /\ \A f \in Fibers : Heir(f) => handoff /\ ChosenHeir = f
  BY Zenon DEF FMInv, HandoffHasOneHeir, ChosenHeir

LEMMA HeirNamedNext ==
  ASSUME FMInv'
  PROVE  /\ handoff' => ChosenHeir' \in Fibers /\ Heir(ChosenHeir)'
         /\ ~handoff' => ChosenHeir' = None
         /\ \A f \in Fibers : Heir(f)' => handoff' /\ ChosenHeir' = f
  BY Zenon DEF FMInv, HandoffHasOneHeir, ChosenHeir

LEMMA HeirStays ==
  ASSUME FMInv, FMInv', HeirsKept, handoff' = handoff
  PROVE  ChosenHeir' = ChosenHeir
  BY HeirNamed, HeirNamedNext, Zenon DEF HeirsKept

\* Erasing the front of a deque without duplicates leaves its tail.
LEMMA EraseHead ==
  ASSUME NEW S, NEW s \in Seq(S), s # <<>>, NoDuplicates(s)
  PROVE  Erase(s, Head(s)) = Tail(s)
<1>1. 1 \in DOMAIN s /\ s[1] = Head(s) /\ Len(s) \in Nat /\ Len(s) >= 1
  OBVIOUS
<1>2. (CHOOSE i \in DOMAIN s : s[i] = Head(s)) = 1
  BY <1>1, Zenon DEF NoDuplicates
<1>3. Erase(s, Head(s)) = SubSeq(s, 1, 1 - 1) \o SubSeq(s, 1 + 1, Len(s))
  BY <1>2, Zenon DEF Erase, EraseAt
<1>4. 1 - 1 = 0 /\ 1 + 1 = 2
  OBVIOUS
<1>5. SubSeq(s, 1, 1 - 1) = <<>> /\ SubSeq(s, 1 + 1, Len(s)) = Tail(s)
  BY <1>1, <1>4
<1>6. Tail(s) \in Seq(S)
  BY <1>1
<1>7. <<>> \o Tail(s) = Tail(s)
  BY <1>6, ConcatEmptySeq, Zenon
<1> QED
  BY <1>3, <1>5, <1>7, Zenon

LEMMA FairStep ==
  ASSUME Plain = {}, FMInv, FMInv', FMNext
  PROVE  Fair!Next \/ UNCHANGED <<owner, ChosenHeir, waiters["mutex"]>>
<1>0. waiters["mutex"] \in Seq(Fibers) /\ NoDuplicates(waiters["mutex"])
  BY FiberMutexAssumption, Zenon DEF FMInv, FMTypeOK, WQTypeOK, QueueInv
<1>1. CASE WQStep /\ UNCHANGED mutexVars
  <2>1. HeirsKept /\ LineShrinks /\ owner' = owner /\ handoff' = handoff
    BY <1>1, WaitStepInv, Zenon DEF mutexVars
  <2>2. ChosenHeir' = ChosenHeir
    BY <2>1, HeirStays, Zenon
  <2>3. CASE waiters' = waiters
    BY <2>1, <2>2, <2>3, Zenon
  <2>4. ASSUME NEW f \in Fibers, InQueue(f, "mutex"), waiters'["mutex"] = Erase(waiters["mutex"], f)
        PROVE  Fair!Next
    BY <2>1, <2>2, <2>4, Zenon DEF Fair!Next, Fair!Leave, Fair!Has, Fair!Erase, Fair!EraseAt, Has, Erase, EraseAt, InQueue
  <2> QED
    BY <2>1, <2>3, <2>4, Zenon DEF LineShrinks
<1>2. ASSUME NEW f \in Fibers, NEW t \in BOOLEAN, Lock(f, t)
      PROVE  UNCHANGED <<owner, ChosenHeir, waiters["mutex"]>>
  BY <1>2, CallInv, HeirStays, Zenon DEF mutexVars
<1>3. ASSUME NEW f \in Fibers, LockAcquire(f) PROVE Fair!Next
  <2>1. /\ AtLoop(f) /\ owner = None /\ owner' = f /\ handoff' = FALSE /\ waiters' = waiters
        /\ ~handoff \/ pc[f] = "returned"
    BY <1>3, Zenon DEF LockAcquire, Available, SelectedWaiter, leaveCall
  <2>2. ChosenHeir' = None
    BY <2>1, HeirNamedNext, Zenon
  <2>3. CASE pc[f] = "call"
    <3>1. ~handoff /\ waiters["mutex"] = <<>>
      BY <2>1, <2>3, Zenon DEF FMInv, NoIdleQueue
    <3> QED
      BY <2>1, <2>2, <3>1, HeirNamed, Zenon DEF Fair!Next, Fair!Take
  <2>4. CASE pc[f] # "call"
    <3>1. Heir(f)
      BY <2>1, <2>4, Zenon DEF AtLoop, Heir
    <3>2. ChosenHeir = f /\ f # None
      BY <3>1, HeirNamed, FiberMutexAssumption, Zenon
    <3> QED
      BY <2>1, <2>2, <3>2, Zenon DEF Fair!Next, Fair!Inherit
  <2> QED
    BY <2>3, <2>4, Zenon
<1>4. ASSUME NEW f \in Fibers, LockStep(f), ~LockAcquire(f)
      PROVE  Fair!Next \/ UNCHANGED <<owner, ChosenHeir, waiters["mutex"]>>
  <2>1. CASE HeirsKept /\ waiters' = waiters /\ UNCHANGED mutexVars
    BY <2>1, HeirStays, Zenon DEF mutexVars
  <2>2. CASE pc[f] = "call" /\ LockWait(f) /\ HeirsKept
               /\ waiters'["mutex"] = Append(waiters["mutex"], f)
    <3>1. owner' = owner /\ handoff' = handoff /\ owner # f /\ (owner # None \/ handoff)
      BY <2>2, Zenon DEF LockWait, mutexVars, Available, SelectedWaiter
    <3>2. ChosenHeir' = ChosenHeir
      BY <2>2, <3>1, HeirStays, Zenon
    <3>3. ~InQueue(f, "mutex") /\ ~Heir(f)
      BY <2>2, Zenon DEF FMInv, QueueInv, FiberInv, Heir, Waiting
    <3>4. ChosenHeir # f /\ (handoff => ChosenHeir # None)
      BY <3>3, HeirNamed, FiberMutexAssumption, Zenon
    <3> QED
      BY <2>2, <3>1, <3>2, <3>3, <3>4, Zenon DEF Fair!Next, Fair!Join, Fair!Has, Has, InQueue
  <2> QED
    BY <1>4, <2>1, <2>2, LockStepInv, Zenon
<1>5. ASSUME NEW f \in Fibers, TryLock(f) PROVE Fair!Next
  <2>1. owner = None /\ ~handoff /\ owner' = f /\ handoff' = handoff /\ waiters' = waiters
    BY <1>5, Zenon DEF TryLock, wqVars
  <2>2. ChosenHeir = None /\ ChosenHeir' = None
    BY <2>1, HeirNamed, HeirNamedNext, Zenon
  <2>3. waiters["mutex"] = <<>>
    BY <2>1, Zenon DEF FMInv, NoIdleQueue
  <2> QED
    BY <2>1, <2>2, <2>3, Zenon DEF Fair!Next, Fair!Take
<1>6. ASSUME NEW f \in Fibers, Unlock(f) PROVE Fair!Next
  <2>1. owner = f /\ owner' = None /\ f # None /\ ~handoff
    BY <1>6, UnlockInv, FiberMutexAssumption, Zenon DEF FMInv, HandoffHasOneHeir
  <2>2. CASE waiters["mutex"] = <<>>
    <3>1. ~handoff' /\ waiters' = waiters
      BY <1>6, <2>2, UnlockInv, Zenon
    <3>2. ChosenHeir' = ChosenHeir
      BY <2>1, <3>1, HeirNamed, HeirNamedNext, Zenon
    <3> QED
      BY <2>1, <2>2, <3>1, <3>2, Zenon DEF Fair!Next, Fair!Release
  <2>3. CASE waiters["mutex"] # <<>>
    <3>1. PICK h \in Fibers : /\ h = Head(waiters["mutex"]) /\ Heir(h)'
                              /\ waiters'["mutex"] = Erase(waiters["mutex"], h)
      BY <1>6, <2>3, UnlockInv, Zenon
    <3>2. ChosenHeir' = Head(waiters["mutex"])
      BY <3>1, HeirNamedNext, Zenon
    <3>3. waiters'["mutex"] = Tail(waiters["mutex"])
      BY <1>0, <2>3, <3>1, EraseHead, Zenon
    <3> QED
      BY <2>1, <2>3, <3>2, <3>3, Zenon DEF Fair!Next, Fair!Release
  <2> QED
    BY <2>2, <2>3, Zenon
<1>7. CASE CancelWaiters
  <2>1. HeirsKept /\ waiters'["mutex"] = <<>> /\ owner' = owner /\ handoff' = handoff
    BY <1>7, CancelInv, Zenon DEF mutexVars
  <2> QED
    BY <2>1, HeirStays, Zenon DEF Fair!Next, Fair!LeaveAll
<1> QED
  BY <1>1, <1>2, <1>3, <1>4, <1>5, <1>6, <1>7, Zenon DEF FMNext

\* FiberMutex implements the fair lock: with any number of fibers on
\* IOManagers, timeouts and cancellations, lock(), try_lock(), unlock() and
\* cancelWaiters() do to the owner, the heir and the line only what FairLock
\* allows, in the order it prescribes.
THEOREM MutexIsFairLock ==
  ASSUME Plain = {}
  PROVE  FMSpec => ImplementsFairLock
<1>1. FMInit => Fair!Init
  BY FiberMutexAssumption DEF FMInit, MutexInit, WQInit, Fair!Init, ChosenHeir
<1>2. FMInv /\ FMInv' /\ [FMNext]_fmVars => [Fair!Next]_(Fair!lockVars)
  <2>1. CASE FMNext
    BY <2>1, FairStep, Zenon DEF Fair!lockVars
  <2>2. CASE UNCHANGED fmVars
    <3>1. ASSUME FMInv, FMInv' PROVE ChosenHeir' = ChosenHeir
      <4>1. HeirsKept /\ handoff' = handoff
        BY <2>2, Zenon DEF fmVars, wqVars, mutexVars, HeirsKept, Heir, Waiting, InQueue
      <4> QED
        BY <3>1, <4>1, HeirStays, Zenon
    <3> QED
      BY <2>2, <3>1, Zenon DEF fmVars, wqVars, mutexVars, Fair!lockVars
  <2> QED
    BY <2>1, <2>2, Zenon
<1> QED
  BY <1>1, <1>2, Invariance, PTL DEF FMSpec, ImplementsFairLock, Fair!Spec
=============================================================================

-------------------------- MODULE SchedulerProofs --------------------------
(***************************************************************************)
(* Proofs about Scheduler and IOManager, for every number of workers and   *)
(* jobs.  One inductive invariant, SchedInv, is kept by the steps of both: *)
(* a job is queued once, exactly while it is due, and a fiber that has run *)
(* is queued for, and run by, its own worker only.  For IOManager, WaitInv *)
(* adds what its counters count and what an idle worker has seen of them.  *)
(***************************************************************************)
EXTENDS IOManager, FiniteSetTheorems, SequenceTheorems, TLAPS

NoDuplicates(s) == \A i, j \in DOMAIN s : s[i] = s[j] => i = j

RunLocs == {"run", "runTickle"}

JobTypes ==
  /\ loc \in [Workers -> Locations]
  /\ running \in [Workers -> Jobs \cup {None}]
  /\ job \in [Jobs -> {"new", "TIMER", "READY", "RUNNING", "TERM"}]
  /\ waker \in [Jobs -> {"none", "armed", "io", "pool", "woken"}]
  /\ home \in [Jobs -> Workers \cup {None}]

\* A worker in run() runs a RUNNING job at home, and every RUNNING job is
\* run at home; what waits to be woken has a home.
JobInv ==
  /\ \A w \in Workers : running[w] # None <=> loc[w] \in RunLocs
  /\ \A w \in Workers : running[w] # None => job[running[w]] = "RUNNING" /\ home[running[w]] = w
  /\ \A j \in Jobs : job[j] = "RUNNING" => home[j] \in Workers /\ running[home[j]] = j
  /\ \A j \in Jobs : waker[j] # "none" => home[j] \in Workers /\ job[j] \in {"READY", "RUNNING"}
  /\ \A j \in Jobs : job[j] \in {"new", "TIMER"} => home[j] = None

QueueTypes ==
  /\ unpinned \in [Workers -> Seq(Jobs)] /\ pinned \in [Workers -> Seq(Jobs)]
  /\ \A w \in Workers : NoDuplicates(unpinned[w]) /\ NoDuplicates(pinned[w])

InU(w, j) == Has(unpinned[w], j)
InP(w, j) == Has(pinned[w], j)

Queued(j) == \E w \in Workers : InU(w, j) \/ InP(w, j)

\* j has been scheduled and not taken.
Due(j) == waker[j] = "woken" \/ (job[j] = "READY" /\ waker[j] = "none")

\* A job is in one deque exactly while it is due; only one that has not run
\* may be stolen, and a pinned one that has run is at home.
QueueInv ==
  /\ \A j \in Jobs, w, v \in Workers :
       /\ InU(w, j) /\ InU(v, j) => w = v
       /\ InP(w, j) /\ InP(v, j) => w = v
       /\ ~(InU(w, j) /\ InP(v, j))
  /\ \A j \in Jobs : Queued(j) <=> Due(j)
  /\ \A j \in Jobs, w \in Workers :
       /\ InU(w, j) => home[j] = None
       /\ InP(w, j) => home[j] \in {None, w}

SchedInv == JobTypes /\ JobInv /\ QueueTypes /\ QueueInv
----------------------------------------------------------------------------
(* What IOManager adds.                                                    *)

IoTypes ==
  /\ timers \subseteq Jobs
  /\ cbs \in [Workers -> SUBSET Jobs] /\ evs \in [Workers -> SUBSET Jobs]
  /\ yields \in [Jobs -> Nat] /\ term \in [Workers -> BOOLEAN]
  /\ pool \in [Tasks -> {"none", "work", "tickle", "done"}]

\* A job held by a timer is in the wheel, or with one worker that collected it.
TimerInv ==
  /\ \A k \in timers : job[k] = "TIMER"
  /\ \A w \in Workers : \A k \in cbs[w] : job[k] = "TIMER" /\ k \notin timers
  /\ \A w, v \in Workers : cbs[w] \cap cbs[v] # {} => w = v

\* A blocking task at work belongs to the wait its job is in, and to no other.
PoolInv ==
  /\ \A k \in Jobs : job[k] = "RUNNING" /\ waker[k] # "none" => yields[k] < MaxYields
  /\ \A t \in Tasks : pool[t] # "none" =>
       \/ t[2] < yields[t[1]]
       \/ t[2] = yields[t[1]] /\ job[t[1]] = "RUNNING" /\ waker[t[1]] # "none"
  /\ \A t \in Tasks : pool[t] = "work" => waker[t[1]] = "pool"
  /\ \A k \in Jobs : waker[k] = "pool" => \E t \in Tasks : t[1] = k /\ pool[t] = "work"
  /\ \A t, u \in Tasks : pool[t] = "work" /\ pool[u] = "work" /\ t[1] = u[1] => t = u

IoJobs == {k \in Jobs : waker[k] = "io"}
Counting == {w \in Workers : loc[w] \in {"eventTickle", "eventDone"}}
Blocking == {t \in Tasks : pool[t] # "none"}

\* The counters of stopping() are exact up to the wake-ups on their way.
CountInv ==
  /\ pendingEventCnt = Cardinality(IoJobs) + Cardinality(Counting)
  /\ pendingBlockingTasks = Cardinality(Blocking)

\* What a worker inside stopping() has seen stays true: nobody but itself
\* runs the fibers that could start a wait that holds it.
IdleInv ==
  \A w \in Workers, k \in Jobs : home[k] = w =>
    /\ loc[w] \in {"idleBlocking", "scanQueues", "scanActive"} => waker[k] # "io"
    /\ loc[w] \in {"scanQueues", "scanActive"} => waker[k] # "pool"

WaitInv == SchedInv /\ IoTypes /\ TimerInv /\ PoolInv /\ CountInv /\ IdleInv
----------------------------------------------------------------------------
(* The deques.                                                             *)

\* push_back of a job that is not in the deque.
LEMMA PushLemma ==
  ASSUME NEW S, NEW s \in Seq(S), NEW e \in S, NoDuplicates(s), ~Has(s, e)
  PROVE  /\ Append(s, e) \in Seq(S)
         /\ NoDuplicates(Append(s, e))
         /\ \A x : Has(Append(s, e), x) <=> Has(s, x) \/ x = e
<1> DEFINE r == Append(s, e)
<1>1. /\ r \in Seq(S) /\ Len(r) = Len(s) + 1
      /\ \A i \in 1..Len(s) : r[i] = s[i]
      /\ r[Len(s) + 1] = e
  BY AppendProperties
<1> HIDE DEF r
<1>2. NoDuplicates(r)
  BY <1>1 DEF NoDuplicates, Has
<1>3. ASSUME NEW x PROVE Has(r, x) <=> Has(s, x) \/ x = e
  BY <1>1 DEF Has
<1> QED
  BY <1>1, <1>2, <1>3, Zenon DEF r

\* pop_front, as tryTakeLocal() does.
LEMMA TailLemma ==
  ASSUME NEW S, NEW s \in Seq(S), s # <<>>, NoDuplicates(s)
  PROVE  /\ Head(s) \in S /\ Has(s, Head(s))
         /\ Tail(s) \in Seq(S)
         /\ NoDuplicates(Tail(s))
         /\ \A x : Has(Tail(s), x) <=> Has(s, x) /\ x # Head(s)
<1> DEFINE r == Tail(s)
<1>1. /\ r \in Seq(S) /\ Len(s) \in Nat /\ Len(s) > 0 /\ Len(r) = Len(s) - 1
      /\ \A i \in 1..Len(r) : r[i] = s[i + 1]
      /\ Head(s) = s[1] /\ s[1] \in S
  OBVIOUS
<1> HIDE DEF r
<1>2. NoDuplicates(r)
  <2> SUFFICES ASSUME NEW i \in 1..Len(r), NEW k \in 1..Len(r), r[i] = r[k] PROVE i = k
    BY <1>1 DEF NoDuplicates
  <2>1. i + 1 \in DOMAIN s /\ k + 1 \in DOMAIN s /\ s[i + 1] = s[k + 1]
    BY <1>1
  <2> QED
    BY <2>1 DEF NoDuplicates
<1>3. ASSUME NEW x PROVE Has(r, x) <=> Has(s, x) /\ x # s[1]
  <2>1. ASSUME NEW i \in DOMAIN s, s[i] = x, x # s[1] PROVE Has(r, x)
    <3>1. i - 1 \in 1..Len(r) /\ r[i - 1] = x
      BY <2>1, <1>1
    <3> QED
      BY <3>1, <1>1 DEF Has
  <2>2. ASSUME NEW i \in DOMAIN r, r[i] = x PROVE Has(s, x) /\ x # s[1]
    BY <2>2, <1>1, SMTT(30) DEF Has, NoDuplicates
  <2> QED
    BY <2>1, <2>2, Zenon DEF Has
<1>4. 1 \in DOMAIN s /\ Has(s, s[1])
  BY <1>1 DEF Has
<1> QED
  BY <1>1, <1>2, <1>3, <1>4, Zenon DEF r

\* pop_back, as trySteal() does.
LEMMA PopLemma ==
  ASSUME NEW S, NEW s \in Seq(S), s # <<>>, NoDuplicates(s)
  PROVE  /\ Back(s) \in S /\ Has(s, Back(s))
         /\ PopBack(s) \in Seq(S)
         /\ NoDuplicates(PopBack(s))
         /\ \A x : Has(PopBack(s), x) <=> Has(s, x) /\ x # Back(s)
<1> DEFINE r == PopBack(s)
<1>1. Len(s) \in Nat /\ Len(s) > 0 /\ s[Len(s)] \in S
  OBVIOUS
<1>2. /\ r \in Seq(S) /\ Len(r) = Len(s) - 1
      /\ \A i \in 1..Len(r) : r[i] = s[i]
  <2> DEFINE m == Len(s) - 1
  <2>1. m \in Int /\ m >= 0 /\ \A i \in 1..m : s[i] \in S
    BY <1>1
  <2>2. /\ SubSeq(s, 1, m) \in Seq(S)
        /\ Len(SubSeq(s, 1, m)) = IF 1 <= m THEN m - 1 + 1 ELSE 0
        /\ \A i \in 1..m - 1 + 1 : SubSeq(s, 1, m)[i] = s[1 + i - 1]
    BY <2>1, SubSeqProperties
  <2>3. r = SubSeq(s, 1, m)
    BY Zenon DEF PopBack
  <2> HIDE DEF m, r
  <2>4. r \in Seq(S) /\ Len(r) = m /\ \A i \in 1..m : r[i] = s[i]
    BY <2>1, <2>2, <2>3
  <2> QED
    BY <2>4, Zenon DEF m
<1> HIDE DEF r
<1>3. NoDuplicates(r)
  BY <1>1, <1>2 DEF NoDuplicates
<1>4. ASSUME NEW x PROVE Has(r, x) <=> Has(s, x) /\ x # s[Len(s)]
  BY <1>1, <1>2 DEF Has, NoDuplicates
<1>5. Has(s, s[Len(s)])
  BY <1>1 DEF Has
<1> QED
  BY <1>1, <1>2, <1>3, <1>4, <1>5, Zenon DEF r, Back

\* enqueueTask of a job that is in no deque.
LEMMA EnqueueEffect ==
  ASSUME QueueTypes, NEW j \in Jobs, NEW v \in Workers, NEW pin \in BOOLEAN,
         ~Queued(j), enqueueTask(j, v, pin)
  PROVE  /\ QueueTypes'
         /\ \A w \in Workers, x \in Jobs :
              /\ InU(w, x)' <=> InU(w, x) \/ (~pin /\ w = v /\ x = j)
              /\ InP(w, x)' <=> InP(w, x) \/ (pin /\ w = v /\ x = j)
<1>1. ~Has(unpinned[v], j) /\ ~Has(pinned[v], j)
  BY Zenon DEF Queued, InU, InP
<1>2. CASE pin
  <2> DEFINE s == pinned[v]
  <2>1. s \in Seq(Jobs) /\ NoDuplicates(s) /\ ~Has(s, j)
    BY <1>1, Zenon DEF QueueTypes
  <2>2. /\ Append(s, j) \in Seq(Jobs) /\ NoDuplicates(Append(s, j))
        /\ \A x : Has(Append(s, j), x) <=> Has(s, x) \/ x = j
    BY <2>1, PushLemma, Zenon
  <2>3. /\ unpinned' = unpinned /\ pinned' \in [Workers -> Seq(Jobs)]
        /\ pinned'[v] = Append(s, j) /\ \A w \in Workers \ {v} : pinned'[w] = pinned[w]
    BY <1>2, <2>2, Zenon DEF enqueueTask, QueueTypes
  <2> HIDE DEF s
  <2>4. QueueTypes'
    BY <2>2, <2>3, Zenon DEF QueueTypes
  <2> QED
    BY <1>2, <2>2, <2>3, <2>4, Zenon DEF InU, InP, s
<1>3. CASE ~pin
  <2> DEFINE s == unpinned[v]
  <2>1. s \in Seq(Jobs) /\ NoDuplicates(s) /\ ~Has(s, j)
    BY <1>1, Zenon DEF QueueTypes
  <2>2. /\ Append(s, j) \in Seq(Jobs) /\ NoDuplicates(Append(s, j))
        /\ \A x : Has(Append(s, j), x) <=> Has(s, x) \/ x = j
    BY <2>1, PushLemma, Zenon
  <2>3. /\ pinned' = pinned /\ unpinned' \in [Workers -> Seq(Jobs)]
        /\ unpinned'[v] = Append(s, j) /\ \A w \in Workers \ {v} : unpinned'[w] = unpinned[w]
    BY <1>3, <2>2, Zenon DEF enqueueTask, QueueTypes
  <2> HIDE DEF s
  <2>4. QueueTypes'
    BY <2>2, <2>3, Zenon DEF QueueTypes
  <2> QED
    BY <1>3, <2>2, <2>3, <2>4, Zenon DEF InU, InP, s
<1> QED
  BY <1>2, <1>3, Zenon
----------------------------------------------------------------------------
(* What keeps SchedInv.                                                    *)

\* No fiber that has run changes its worker.
HomesKept == \A j \in Jobs : home[j] # None => home'[j] = home[j]

\* A step that only moves workers about, none into or out of a job.
LEMMA QuietKeeps ==
  ASSUME SchedInv, UNCHANGED <<unpinned, pinned, job, waker, home, running>>,
         loc' \in [Workers -> Locations],
         \A w \in Workers : loc'[w] \in RunLocs <=> loc[w] \in RunLocs
  PROVE  SchedInv' /\ HomesKept
<1>1. JobTypes'
  BY Zenon DEF SchedInv, JobTypes
<1>2. JobInv'
  BY Zenon DEF SchedInv, JobInv
<1>3. QueueTypes'
  BY Zenon DEF SchedInv, QueueTypes
<1>4. \A w \in Workers, x \in Jobs : (InU(w, x)' <=> InU(w, x)) /\ (InP(w, x)' <=> InP(w, x))
  BY Zenon DEF InU, InP
<1>5. QueueInv'
  BY <1>4, Zenon DEF SchedInv, QueueInv, Queued, Due
<1> QED
  BY <1>1, <1>2, <1>3, <1>5, Zenon DEF SchedInv, HomesKept

\* A job that becomes due is enqueued, where it may run.
LEMMA EnqueueKeeps ==
  ASSUME SchedInv, JobTypes', JobInv',
         NEW j \in Jobs, NEW v \in Workers, NEW pin \in BOOLEAN, enqueueTask(j, v, pin),
         ~Due(j), Due(j)', \A x \in Jobs \ {j} : Due(x)' <=> Due(x), home' = home,
         home[j] = None \/ (pin /\ home[j] = v)
  PROVE  SchedInv' /\ HomesKept
<1>1. ~Queued(j)
  BY Zenon DEF SchedInv, QueueInv
<1>2. /\ QueueTypes'
      /\ \A w \in Workers, x \in Jobs :
           /\ InU(w, x)' <=> InU(w, x) \/ (~pin /\ w = v /\ x = j)
           /\ InP(w, x)' <=> InP(w, x) \/ (pin /\ w = v /\ x = j)
  BY <1>1, EnqueueEffect DEF SchedInv
<1>3. \A x \in Jobs : Queued(x)' <=> Queued(x) \/ x = j
  BY <1>2, Zenon DEF Queued
<1>4. \A w \in Workers : ~InU(w, j) /\ ~InP(w, j)
  BY <1>1, Zenon DEF Queued
<1>5. QueueInv'
  BY <1>2, <1>3, <1>4, SMTT(30) DEF SchedInv, QueueInv
<1> QED
  BY <1>2, <1>5, Zenon DEF SchedInv, HomesKept

\* Worker w has taken j out of the deque it was in.
LEMMA TakeKeeps ==
  ASSUME SchedInv, NEW w \in Workers, NEW j \in Jobs, loc[w] \notin RunLocs, take(w, j),
         Queued(j), home[j] \in {None, w}, QueueTypes',
         \A v \in Workers, x \in Jobs : /\ InU(v, x)' <=> InU(v, x) /\ x # j
                                        /\ InP(v, x)' <=> InP(v, x) /\ x # j
  PROVE  SchedInv' /\ HomesKept
<1>1. /\ \A v \in Workers \ {w} : running'[v] = running[v] /\ loc'[v] = loc[v]
      /\ \A x \in Jobs \ {j} : job'[x] = job[x] /\ waker'[x] = waker[x] /\ home'[x] = home[x]
      /\ running'[w] = j /\ loc'[w] = "run"
      /\ job'[j] = "RUNNING" /\ waker'[j] = "none" /\ home'[j] = w
  BY Zenon DEF take, SchedInv, JobTypes
<1>2. JobTypes'
  BY Zenon DEF take, SchedInv, JobTypes, Locations
<1>3. running[w] = None /\ job[j] # "RUNNING" /\ \A v \in Workers : running[v] # j
  BY SchedulerAssumption, SMTT(30) DEF SchedInv, JobInv, JobTypes
<1>4. JobInv'
  BY <1>1, <1>3, SchedulerAssumption, SMTT(30) DEF SchedInv, JobInv, JobTypes, RunLocs
<1>5. \A x \in Jobs : Queued(x)' <=> Queued(x) /\ x # j
  BY Zenon DEF Queued
<1>6. \A x \in Jobs : Due(x)' <=> Due(x) /\ x # j
  BY <1>1, Zenon DEF Due
<1>7. QueueInv'
  BY <1>1, <1>5, <1>6, Zenon DEF SchedInv, QueueInv
<1> QED
  BY <1>1, <1>2, <1>4, <1>7, Zenon DEF SchedInv, HomesKept

LEMMA InitKeeps == SchedInit => SchedInv
<1> SUFFICES ASSUME SchedInit PROVE SchedInv
  BY Zenon
<1>1. JobTypes /\ JobInv
  BY Zenon DEF SchedInit, JobTypes, JobInv, Locations, RunLocs
<1>2. QueueTypes
  BY DEF SchedInit, QueueTypes, NoDuplicates
<1>3. \A w \in Workers, x \in Jobs : ~InU(w, x) /\ ~InP(w, x)
  BY DEF SchedInit, InU, InP, Has
<1>4. QueueInv
  BY <1>3, Zenon DEF SchedInit, QueueInv, Queued, Due
<1> QED
  BY <1>1, <1>2, <1>4, Zenon DEF SchedInv

\* The steps of the loop that take no job.
LEMMA MoveKeeps ==
  ASSUME SchedInv, NEW w \in Workers, NEW p \in Locations \ RunLocs, loc[w] \notin RunLocs,
         goto(w, p), UNCHANGED <<unpinned, pinned, job, waker, home, running>>
  PROVE  SchedInv' /\ HomesKept
<1>1. /\ loc' \in [Workers -> Locations]
      /\ \A v \in Workers : loc'[v] \in RunLocs <=> loc[v] \in RunLocs
  BY Zenon DEF goto, SchedInv, JobTypes
<1> QED
  BY <1>1, QuietKeeps, Zenon

LEMMA TakeLocalKeeps ==
  ASSUME SchedInv, NEW w \in Workers, TakeLocal(w)
  PROVE  SchedInv' /\ HomesKept
<1>0. loc[w] = "local" /\ loc[w] \notin RunLocs
  BY Zenon DEF TakeLocal, RunLocs
<1>1. CASE pinned[w] # <<>>
  <2> DEFINE s == pinned[w]
             j == Head(s)
  <2>1. take(w, j) /\ pinned' = [pinned EXCEPT ![w] = Tail(@)] /\ unpinned' = unpinned
    BY <1>1, Zenon DEF TakeLocal
  <2>2. s \in Seq(Jobs) /\ s # <<>> /\ NoDuplicates(s)
    BY <1>1, Zenon DEF SchedInv, QueueTypes
  <2>3. /\ j \in Jobs /\ Has(s, j) /\ Tail(s) \in Seq(Jobs) /\ NoDuplicates(Tail(s))
        /\ \A x : Has(Tail(s), x) <=> Has(s, x) /\ x # j
    BY <2>2, TailLemma, Zenon
  <2>4. /\ pinned' \in [Workers -> Seq(Jobs)] /\ pinned'[w] = Tail(s)
        /\ \A v \in Workers \ {w} : pinned'[v] = pinned[v]
    BY <2>1, <2>3, Zenon DEF SchedInv, QueueTypes
  <2> HIDE DEF j
  <2>5. QueueTypes'
    BY <2>1, <2>3, <2>4, Zenon DEF SchedInv, QueueTypes
  <2>6. InP(w, j)
    BY <2>3, Zenon DEF InP
  <2>7. \A v \in Workers : ~InU(v, j) /\ (InP(v, j) => v = w)
    BY <2>3, <2>6, Zenon DEF SchedInv, QueueInv
  <2>8. \A v \in Workers, x \in Jobs : /\ InU(v, x)' <=> InU(v, x) /\ x # j
                                       /\ InP(v, x)' <=> InP(v, x) /\ x # j
    BY <2>1, <2>3, <2>4, <2>7, Zenon DEF InU, InP
  <2>9. Queued(j) /\ home[j] \in {None, w}
    BY <2>3, <2>6, Zenon DEF SchedInv, QueueInv, Queued
  <2> QED
    BY <1>0, <2>1, <2>3, <2>5, <2>8, <2>9, TakeKeeps, Zenon
<1>2. CASE pinned[w] = <<>> /\ unpinned[w] # <<>>
  <2> DEFINE s == unpinned[w]
             j == Head(s)
  <2>1. take(w, j) /\ unpinned' = [unpinned EXCEPT ![w] = Tail(@)] /\ pinned' = pinned
    BY <1>2, Zenon DEF TakeLocal
  <2>2. s \in Seq(Jobs) /\ s # <<>> /\ NoDuplicates(s)
    BY <1>2, Zenon DEF SchedInv, QueueTypes
  <2>3. /\ j \in Jobs /\ Has(s, j) /\ Tail(s) \in Seq(Jobs) /\ NoDuplicates(Tail(s))
        /\ \A x : Has(Tail(s), x) <=> Has(s, x) /\ x # j
    BY <2>2, TailLemma, Zenon
  <2>4. /\ unpinned' \in [Workers -> Seq(Jobs)] /\ unpinned'[w] = Tail(s)
        /\ \A v \in Workers \ {w} : unpinned'[v] = unpinned[v]
    BY <2>1, <2>3, Zenon DEF SchedInv, QueueTypes
  <2> HIDE DEF j
  <2>5. QueueTypes'
    BY <2>1, <2>3, <2>4, Zenon DEF SchedInv, QueueTypes
  <2>6. InU(w, j)
    BY <2>3, Zenon DEF InU
  <2>7. \A v \in Workers : ~InP(v, j) /\ (InU(v, j) => v = w)
    BY <2>3, <2>6, Zenon DEF SchedInv, QueueInv
  <2>8. \A v \in Workers, x \in Jobs : /\ InU(v, x)' <=> InU(v, x) /\ x # j
                                       /\ InP(v, x)' <=> InP(v, x) /\ x # j
    BY <2>1, <2>3, <2>4, <2>7, Zenon DEF InU, InP
  <2>9. Queued(j) /\ home[j] \in {None, w}
    BY <2>3, <2>6, Zenon DEF SchedInv, QueueInv, Queued
  <2> QED
    BY <1>0, <2>1, <2>3, <2>5, <2>8, <2>9, TakeKeeps, Zenon
<1>3. CASE pinned[w] = <<>> /\ unpinned[w] = <<>>
  <2>1. goto(w, "steal") /\ UNCHANGED <<unpinned, pinned, job, waker, home, running>>
    BY <1>3, Zenon DEF TakeLocal, queueVars, jobVars
  <2>2. "steal" \in Locations \ RunLocs
    BY Zenon DEF Locations, RunLocs
  <2> QED
    BY <1>0, <2>1, <2>2, MoveKeeps, Zenon
<1> QED
  BY <1>1, <1>2, <1>3, Zenon

LEMMA StealKeeps ==
  ASSUME SchedInv, NEW w \in Workers, NEW u \in Workers, Steal(w, u)
  PROVE  SchedInv' /\ HomesKept
<1>0. loc[w] = "steal" /\ loc[w] \notin RunLocs
  BY Zenon DEF Steal, RunLocs
<1>1. CASE unpinned[u] # <<>>
  <2> DEFINE s == unpinned[u]
             j == Back(s)
  <2>1. take(w, j) /\ unpinned' = [unpinned EXCEPT ![u] = PopBack(@)] /\ pinned' = pinned
    BY <1>1, Zenon DEF Steal
  <2>2. s \in Seq(Jobs) /\ s # <<>> /\ NoDuplicates(s)
    BY <1>1, Zenon DEF SchedInv, QueueTypes
  <2>3. /\ j \in Jobs /\ Has(s, j) /\ PopBack(s) \in Seq(Jobs) /\ NoDuplicates(PopBack(s))
        /\ \A x : Has(PopBack(s), x) <=> Has(s, x) /\ x # j
    BY <2>2, PopLemma, Zenon
  <2>4. /\ unpinned' \in [Workers -> Seq(Jobs)] /\ unpinned'[u] = PopBack(s)
        /\ \A v \in Workers \ {u} : unpinned'[v] = unpinned[v]
    BY <2>1, <2>3, Zenon DEF SchedInv, QueueTypes
  <2> HIDE DEF j
  <2>5. QueueTypes'
    BY <2>1, <2>3, <2>4, Zenon DEF SchedInv, QueueTypes
  <2>6. InU(u, j)
    BY <2>3, Zenon DEF InU
  <2>7. \A v \in Workers : ~InP(v, j) /\ (InU(v, j) => v = u)
    BY <2>3, <2>6, Zenon DEF SchedInv, QueueInv
  <2>8. \A v \in Workers, x \in Jobs : /\ InU(v, x)' <=> InU(v, x) /\ x # j
                                       /\ InP(v, x)' <=> InP(v, x) /\ x # j
    BY <2>1, <2>3, <2>4, <2>7, Zenon DEF InU, InP
  <2>9. Queued(j) /\ home[j] \in {None, w}
    BY <2>3, <2>6, Zenon DEF SchedInv, QueueInv, Queued
  <2> QED
    BY <1>0, <2>1, <2>3, <2>5, <2>8, <2>9, TakeKeeps, Zenon
<1>2. CASE unpinned[u] = <<>>
  BY <1>2, QuietKeeps, Zenon DEF Steal, jobVars, SchedInv, JobTypes
<1> QED
  BY <1>1, <1>2, Zenon

LEMMA LoopKeeps ==
  ASSUME SchedInv, NEW w \in Workers, LoopStep(w)
  PROVE  SchedInv' /\ HomesKept
<1>1. CASE \/ SetActive(w) \/ Inactive(w) \/ Pending(w) \/ PassOn(w) \/ EnterIdle(w)
           \/ LeaveIdle(w) \/ ScanQueues(w)
  <2>1. PICK p \in Locations \ RunLocs : goto(w, p)
    BY <1>1, Zenon DEF SetActive, Inactive, Pending, PassOn, EnterIdle, LeaveIdle, ScanQueues,
         Locations, RunLocs, NotStopping
  <2>2. loc[w] \notin RunLocs /\ UNCHANGED <<unpinned, pinned, job, waker, home, running>>
    BY <1>1, Zenon DEF SetActive, Inactive, Pending, PassOn, EnterIdle, LeaveIdle, ScanQueues,
         RunLocs, queueVars, jobVars
  <2> QED
    BY <2>1, <2>2, MoveKeeps, Zenon
<1>2. CASE ScanActive(w)
  <2>1. loc[w] \notin RunLocs /\ UNCHANGED <<unpinned, pinned, job, waker, home, running>>
    BY <1>2, Zenon DEF ScanActive, RunLocs, queueVars, jobVars
  <2>2. CASE loc' = loc
    BY <2>1, <2>2, QuietKeeps, Zenon DEF SchedInv, JobTypes
  <2>3. CASE loc' # loc
    <3>1. PICK p \in Locations \ RunLocs : goto(w, p)
      BY <1>2, <2>3, Zenon DEF ScanActive, Locations, RunLocs, NotStopping
    <3> QED
      BY <2>1, <3>1, MoveKeeps, Zenon
  <2> QED
    BY <2>2, <2>3, Zenon
<1> QED
  BY <1>1, <1>2, TakeLocalKeeps, StealKeeps, Zenon DEF LoopStep

\* A job that has not run, or is held by a timer, becomes READY.
LEMMA ReadyKeeps ==
  ASSUME SchedInv, NEW j \in Jobs, NEW v \in Workers, NEW pin \in BOOLEAN,
         job[j] \in {"new", "TIMER"}, enqueueTask(j, v, pin),
         job' = [job EXCEPT ![j] = "READY"], UNCHANGED <<waker, home, running>>,
         loc' \in [Workers -> Locations],
         \A w \in Workers : loc'[w] \in RunLocs <=> loc[w] \in RunLocs
  PROVE  SchedInv' /\ HomesKept
<1>1. job'[j] = "READY" /\ \A x \in Jobs \ {j} : job'[x] = job[x]
  BY Zenon DEF SchedInv, JobTypes
<1>2. JobTypes'
  BY Zenon DEF SchedInv, JobTypes
<1>3. home[j] = None /\ waker[j] = "none" /\ \A w \in Workers : running[w] # j
  BY SchedulerAssumption, Zenon DEF SchedInv, JobInv
<1>4. JobInv'
  BY <1>1, <1>3, SMTT(30) DEF SchedInv, JobInv, JobTypes
<1>5. ~Due(j) /\ Due(j)' /\ \A x \in Jobs \ {j} : Due(x)' <=> Due(x)
  BY <1>1, <1>3, Zenon DEF Due
<1> QED
  BY <1>2, <1>3, <1>4, <1>5, EnqueueKeeps, Zenon

\* A job that waits is woken: it is pinned to the worker that parked it.
LEMMA WakeKeeps ==
  ASSUME SchedInv, NEW j \in Jobs, waker[j] \in {"armed", "io", "pool"},
         enqueueTask(j, home[j], TRUE),
         waker' = [waker EXCEPT ![j] = "woken"], UNCHANGED <<job, home, running>>,
         loc' \in [Workers -> Locations],
         \A w \in Workers : loc'[w] \in RunLocs <=> loc[w] \in RunLocs
  PROVE  SchedInv' /\ HomesKept
<1>1. waker'[j] = "woken" /\ \A x \in Jobs \ {j} : waker'[x] = waker[x]
  BY Zenon DEF SchedInv, JobTypes
<1>2. JobTypes'
  BY Zenon DEF SchedInv, JobTypes
<1>3. home[j] \in Workers
  BY Zenon DEF SchedInv, JobInv
<1>4. JobInv'
  BY <1>1, Zenon DEF SchedInv, JobInv, JobTypes
<1>5. ~Due(j) /\ Due(j)' /\ \A x \in Jobs \ {j} : Due(x)' <=> Due(x)
  BY <1>1, Zenon DEF Due
<1> QED
  BY <1>2, <1>3, <1>4, <1>5, EnqueueKeeps, Zenon

LEMMA RunsJob ==
  ASSUME SchedInv, NEW w \in Workers, loc[w] \in RunLocs
  PROVE  running[w] \in Jobs /\ job[running[w]] = "RUNNING" /\ home[running[w]] = w
  BY SMTT(30) DEF SchedInv, JobInv, JobTypes

LEMMA ArmKeeps ==
  ASSUME SchedInv, NEW w \in Workers, NEW kind \in {"armed", "io", "pool"}, Arm(w, kind)
  PROVE  SchedInv' /\ HomesKept
<1>0. PICK j \in Jobs : j = running[w]
  BY RunsJob, Zenon DEF Arm, RunLocs
<1>1. /\ job[j] = "RUNNING" /\ home[j] = w /\ waker[j] = "none"
      /\ waker' = [waker EXCEPT ![j] = kind]
      /\ UNCHANGED <<unpinned, pinned, job, home, running, loc>>
  BY <1>0, RunsJob, Zenon DEF Arm, RunLocs, queueVars, workerVars
<1>2. waker'[j] = kind /\ \A x \in Jobs \ {j} : waker'[x] = waker[x]
  BY <1>1, Zenon DEF SchedInv, JobTypes
<1>3. JobTypes' /\ QueueTypes'
  BY <1>1, Zenon DEF SchedInv, JobTypes, QueueTypes
<1>4. JobInv'
  BY <1>1, <1>2, Zenon DEF SchedInv, JobInv, JobTypes
<1>5. \A x \in Jobs : Due(x)' <=> Due(x)
  BY <1>1, <1>2, Zenon DEF Due
<1>6. \A v \in Workers, x \in Jobs : (InU(v, x)' <=> InU(v, x)) /\ (InP(v, x)' <=> InP(v, x))
  BY <1>1, Zenon DEF InU, InP
<1>7. QueueInv'
  BY <1>1, <1>5, <1>6, Zenon DEF SchedInv, QueueInv, Queued
<1> QED
  BY <1>1, <1>3, <1>4, <1>7, Zenon DEF SchedInv, HomesKept

LEMMA YieldKeeps ==
  ASSUME SchedInv, NEW w \in Workers, YieldOrEnd(w)
  PROVE  SchedInv' /\ HomesKept
<1>0. PICK j \in Jobs : j = running[w]
  BY RunsJob, Zenon DEF YieldOrEnd, RunLocs
<1>1. /\ job[j] = "RUNNING" /\ home[j] = w
      /\ running' = [running EXCEPT ![w] = None] /\ goto(w, "top")
      /\ UNCHANGED <<unpinned, pinned, waker, home>>
  BY <1>0, RunsJob, Zenon DEF YieldOrEnd, RunLocs, queueVars
<1>2. job' = [job EXCEPT ![j] = IF waker[j] = "none" THEN "TERM" ELSE "READY"]
  BY <1>0, Zenon DEF YieldOrEnd
<1>3. /\ job'[j] = IF waker[j] = "none" THEN "TERM" ELSE "READY"
      /\ \A x \in Jobs \ {j} : job'[x] = job[x]
      /\ running'[w] = None /\ loc'[w] = "top"
      /\ \A v \in Workers \ {w} : running'[v] = running[v] /\ loc'[v] = loc[v]
  BY <1>1, <1>2, Zenon DEF SchedInv, JobTypes, goto
<1>4. JobTypes' /\ QueueTypes'
  BY <1>1, <1>2, Zenon DEF SchedInv, JobTypes, QueueTypes, goto, Locations
<1>5. \A v \in Workers \ {w} : running[v] # j
  BY <1>1, SchedulerAssumption, SMTT(30) DEF SchedInv, JobInv
<1>6. JobInv'
  BY <1>0, <1>1, <1>3, <1>5, SchedulerAssumption, SMTT(30) DEF SchedInv, JobInv, JobTypes, RunLocs
<1>7. \A x \in Jobs : Due(x)' <=> Due(x)
  BY <1>1, <1>3, Zenon DEF Due
<1>8. \A v \in Workers, x \in Jobs : (InU(v, x)' <=> InU(v, x)) /\ (InP(v, x)' <=> InP(v, x))
  BY <1>1, Zenon DEF InU, InP
<1>9. QueueInv'
  BY <1>1, <1>7, <1>8, Zenon DEF SchedInv, QueueInv, Queued
<1> QED
  BY <1>1, <1>4, <1>6, <1>9, Zenon DEF SchedInv, HomesKept

LEMMA JobKeeps ==
  ASSUME SchedInv, NEW w \in Workers, JobStep(w)
  PROVE  SchedInv' /\ HomesKept
<1>1. ASSUME NEW k \in Jobs, Wake(w, k) PROVE SchedInv' /\ HomesKept
  <2>1. /\ waker[k] = "armed" /\ enqueueTask(k, home[k], TRUE)
        /\ waker' = [waker EXCEPT ![k] = "woken"] /\ UNCHANGED <<job, home, running>>
        /\ loc[w] = "run" /\ \E p \in RunLocs : goto(w, p)
    BY <1>1, Zenon DEF Wake, submit, RunLocs
  <2>2. /\ loc' \in [Workers -> Locations]
        /\ \A v \in Workers : loc'[v] \in RunLocs <=> loc[v] \in RunLocs
    BY <2>1 DEF goto, SchedInv, JobTypes, RunLocs, Locations
  <2> QED
    BY <2>1, <2>2, WakeKeeps, Zenon
<1>2. ASSUME NEW k \in Jobs, NEW pin \in BOOLEAN, Submit(w, k, pin) PROVE SchedInv' /\ HomesKept
  <2>1. /\ job[k] = "new" /\ job' = [job EXCEPT ![k] = "READY"]
        /\ UNCHANGED <<waker, home, running>>
        /\ loc[w] = "run" /\ \E p \in RunLocs : goto(w, p)
        /\ \E v \in Workers : enqueueTask(k, v, pin)
    BY <1>2, Zenon DEF Submit, submit, RunLocs
  <2>2. /\ loc' \in [Workers -> Locations]
        /\ \A v \in Workers : loc'[v] \in RunLocs <=> loc[v] \in RunLocs
    BY <2>1, SMTT(30) DEF goto, SchedInv, JobTypes, RunLocs, Locations
  <2> QED
    BY <2>1, <2>2, ReadyKeeps, Zenon
<1>3. CASE RunTickle(w)
  BY <1>3, QuietKeeps, Zenon DEF RunTickle, goto, queueVars, jobVars, SchedInv, JobTypes, RunLocs, Locations
<1> QED
  BY <1>1, <1>2, <1>3, ArmKeeps, YieldKeeps, Zenon DEF JobStep

LEMMA OutsideKeeps ==
  ASSUME SchedInv, OutsideStep \/ Stop
  PROVE  SchedInv' /\ HomesKept
<1>1. ASSUME NEW k \in Jobs, NEW v \in Workers, NEW pin \in BOOLEAN, SubmitOutside(k, v, pin)
      PROVE  SchedInv' /\ HomesKept
  BY <1>1, ReadyKeeps, Zenon DEF SubmitOutside, workerVars, SchedInv, JobTypes
<1>2. CASE TickleOutside \/ StopTickle \/ StopJoin \/ Stop
  BY <1>2, QuietKeeps, Zenon DEF TickleOutside, StopTickle, StopJoin, Stop, queueVars, jobVars,
       workerVars, SchedInv, JobTypes
<1>3. CASE StopRoot
  <2>1. /\ loc' \in [Workers -> Locations]
        /\ \A w \in Workers : loc'[w] \in RunLocs <=> loc[w] \in RunLocs
    BY <1>3, Zenon DEF StopRoot, SchedInv, JobTypes, Locations, RunLocs
  <2> QED
    BY <1>3, <2>1, QuietKeeps, Zenon DEF StopRoot, queueVars, jobVars
<1> QED
  BY <1>1, <1>2, <1>3, Zenon DEF OutsideStep

LEMMA ScanStartKeeps ==
  ASSUME SchedInv, NEW w \in Workers, loc[w] \notin RunLocs, ScanStart(w)
  PROVE  SchedInv' /\ HomesKept
<1>1. PICK p \in Locations \ RunLocs : goto(w, p)
  BY Zenon DEF ScanStart, NotStopping, Locations, RunLocs
<1> QED
  BY <1>1, MoveKeeps, Zenon DEF ScanStart, queueVars, jobVars

LEMMA SchedNextKeeps ==
  ASSUME SchedInv, [SchedNext]_schedVars
  PROVE  SchedInv' /\ HomesKept
<1>1. ASSUME NEW w \in Workers, Idle(w) PROVE SchedInv' /\ HomesKept
  BY <1>1, ScanStartKeeps, Zenon DEF Idle, RunLocs
<1>2. CASE UNCHANGED schedVars
  BY <1>2, QuietKeeps, Zenon DEF schedVars, queueVars, jobVars, workerVars, SchedInv, JobTypes
<1> QED
  BY <1>1, <1>2, LoopKeeps, JobKeeps, OutsideKeeps, Zenon DEF SchedNext
----------------------------------------------------------------------------
(* The properties, from SchedInv.                                          *)

\* A job that is in one deque only is in one place of it.
LEMMA OnePlace ==
  ASSUME NEW q \in [Workers -> Seq(Jobs)], NEW j \in Jobs,
         \A w \in Workers : NoDuplicates(q[w]),
         \A w, v \in Workers : Has(q[w], j) /\ Has(q[v], j) => w = v
  PROVE  Cardinality(Places(q, j)) = IF \E w \in Workers : Has(q[w], j) THEN 1 ELSE 0
<1> DEFINE S == Places(q, j)
<1>1. CASE ~\E w \in Workers : Has(q[w], j)
  <2>1. S = {}
    BY <1>1 DEF Places, Has
  <2> QED
    BY <1>1, <2>1, FS_EmptySet, Zenon
<1>2. CASE \E w \in Workers : Has(q[w], j)
  <2>0. PICK w \in Workers : Has(q[w], j)
    BY <1>2, Zenon
  <2>1. PICK i \in DOMAIN q[w] : q[w][i] = j
    BY <2>0, Zenon DEF Has
  <2>2. <<w, i>> \in S
    BY <2>1 DEF Places
  <2>3. ASSUME NEW p \in S PROVE p = <<w, i>>
    <3>0. PICK v \in Workers : p \in {v} \X DOMAIN q[v] /\ q[p[1]][p[2]] = j
      BY <2>3, Zenon DEF Places
    <3>1. PICK k \in DOMAIN q[v] : p = <<v, k>> /\ q[v][k] = j
      BY <3>0, SMTT(30)
    <3>2. v = w
      BY <2>1, <3>1, Zenon DEF Has
    <3>3. k = i
      BY <2>1, <3>1, <3>2, Zenon DEF NoDuplicates
    <3> QED
      BY <3>1, <3>2, <3>3, Zenon
  <2>4. S = {<<w, i>>}
    BY <2>2, <2>3, Zenon
  <2>5. Cardinality(S) = 1
    BY <2>4, FS_Singleton, Zenon
  <2> QED
    BY <1>2, <2>5, Zenon
<1> QED
  BY <1>1, <1>2, Zenon

LEMMA Conserved == SchedInv => TasksConserved
<1> SUFFICES ASSUME SchedInv, NEW j \in Jobs
             PROVE  /\ Copies(j) = IF Due(j) THEN 1 ELSE 0
                    /\ Cardinality({w \in Workers : running[w] = j})
                         = IF job[j] = "RUNNING" THEN 1 ELSE 0
  BY Zenon DEF TasksConserved, Due
<1>1. Cardinality(Places(unpinned, j)) = IF \E w \in Workers : InU(w, j) THEN 1 ELSE 0
  BY OnePlace, Zenon DEF SchedInv, QueueTypes, QueueInv, InU
<1>2. Cardinality(Places(pinned, j)) = IF \E w \in Workers : InP(w, j) THEN 1 ELSE 0
  BY OnePlace, Zenon DEF SchedInv, QueueTypes, QueueInv, InP
<1>3. ~((\E w \in Workers : InU(w, j)) /\ (\E w \in Workers : InP(w, j)))
  BY Zenon DEF SchedInv, QueueInv
<1>4. (\E w \in Workers : InU(w, j)) \/ (\E w \in Workers : InP(w, j)) <=> Due(j)
  BY Zenon DEF SchedInv, QueueInv, Queued
<1>5. Copies(j) = IF Due(j) THEN 1 ELSE 0
  BY <1>1, <1>2, <1>3, <1>4 DEF Copies
<1> DEFINE R == {w \in Workers : running[w] = j}
<1>6. CASE job[j] = "RUNNING"
  <2>1. R = {home[j]}
    BY <1>6, SchedulerAssumption DEF SchedInv, JobInv
  <2>2. Cardinality(R) = 1
    BY <2>1, FS_Singleton, Zenon
  <2> QED
    BY <1>5, <1>6, <2>2, Zenon
<1>7. CASE job[j] # "RUNNING"
  <2>1. R = {}
    BY <1>7, SchedulerAssumption DEF SchedInv, JobInv
  <2>2. Cardinality(R) = 0
    BY <2>1, FS_EmptySet, Zenon
  <2> QED
    BY <1>5, <1>7, <2>2, Zenon
<1> QED
  BY <1>6, <1>7, Zenon

\* The invariant of the scheduler alone, under an idle() that only yields.
THEOREM SchedInvariance == SchedSpec => []SchedInv
<1>1. SchedInv /\ [SchedNext]_schedVars => SchedInv'
  BY SchedNextKeeps, Zenon
<1> QED
  BY <1>1, InitKeeps, PTL DEF SchedSpec

\* Every job that is to run is in one deque once or in the hands of one
\* worker, whatever workers take, steal and pass on at the same time.
THEOREM NoTaskLost == SchedSpec => []TasksConserved
  BY SchedInvariance, Conserved, PTL

\* A fiber that has run on a worker is never run by another.
THEOREM FibersStayHome == SchedSpec => NeverMigrates
<1>1. SchedInv /\ [SchedNext]_schedVars
        => [\A j \in Jobs : home[j] # None => home'[j] = home[j]]_schedVars
  BY SchedNextKeeps, Zenon DEF HomesKept
<1> QED
  BY <1>1, SchedInvariance, PTL DEF SchedSpec, NeverMigrates
----------------------------------------------------------------------------
(* The steps of IOManager keep SchedInv as well.                           *)

Scanning == {"scanQueues", "scanActive"}
CountLocs == {"eventTickle", "eventDone"}

\* Worker w takes job j.
Taken(w, j) ==
  /\ job[j] = "READY" /\ waker[j] \in {"none", "woken"} /\ loc'[w] = "run"
  /\ job' = [job EXCEPT ![j] = "RUNNING"] /\ waker' = [waker EXCEPT ![j] = "none"]
  /\ home' = [home EXCEPT ![j] = w]

\* What a step of the loop of worker w does to the jobs: nothing, or it
\* takes one.
LoopEffect(w) ==
  /\ yields' = yields
  /\ loc' \in [Workers -> Locations] /\ \A v \in Workers \ {w} : loc'[v] = loc[v]
  /\ loc'[w] \in Scanning => loc[w] \in Scanning
  /\ loc'[w] # "idleBlocking" /\ loc[w] \notin CountLocs /\ loc'[w] \notin CountLocs
  /\ UNCHANGED <<job, waker, home>> \/ \E j \in Jobs : Taken(w, j)

LEMMA LoopShape ==
  ASSUME SchedInv, NEW w \in Workers, LoopStep(w)
  PROVE  LoopEffect(w)
<1>1. CASE \/ SetActive(w) \/ Inactive(w) \/ Pending(w) \/ PassOn(w) \/ EnterIdle(w)
           \/ LeaveIdle(w) \/ ScanQueues(w)
  <2>1. PICK p \in Locations : /\ goto(w, p) /\ p # "idleBlocking" /\ p \notin CountLocs
                               /\ p \in Scanning => loc[w] \in Scanning
    BY <1>1, Zenon DEF SetActive, Inactive, Pending, PassOn, EnterIdle, LeaveIdle, ScanQueues,
         Locations, Scanning, CountLocs, NotStopping
  <2>2. loc[w] \notin CountLocs /\ UNCHANGED <<job, waker, home, yields>>
    BY <1>1, Zenon DEF SetActive, Inactive, Pending, PassOn, EnterIdle, LeaveIdle, ScanQueues,
         CountLocs, jobVars
  <2> QED
    BY <2>1, <2>2, Zenon DEF goto, SchedInv, JobTypes, LoopEffect
<1>2. CASE ScanActive(w)
  <2>1. loc[w] = "scanActive" /\ UNCHANGED <<job, waker, home, yields>>
    BY <1>2, Zenon DEF ScanActive, jobVars
  <2>2. loc' = loc \/ \E p \in {"wait", "leave"} : goto(w, p)
    BY <1>2, Zenon DEF ScanActive, NotStopping
  <2> QED
    BY <2>1, <2>2, Zenon DEF goto, SchedInv, JobTypes, Scanning, CountLocs, Locations, LoopEffect
<1>3. ASSUME NEW j \in Jobs, take(w, j), Queued(j), home[j] \in {None, w},
             loc[w] \in {"local", "steal"}
      PROVE  LoopEffect(w)
  <2>1. running[w] = None
    BY <1>3, Zenon DEF SchedInv, JobInv, RunLocs
  <2>2. job[j] # "RUNNING"
    BY <1>3, <2>1, SchedulerAssumption, SMTT(30) DEF SchedInv, JobInv
  <2>3. Due(j)
    BY <1>3, Zenon DEF SchedInv, QueueInv
  <2>4. job[j] = "READY" /\ waker[j] \in {"none", "woken"}
    BY <2>2, <2>3, Zenon DEF Due, SchedInv, JobInv
  <2>5. Taken(w, j)
    BY <1>3, <2>4, Zenon DEF take, SchedInv, JobTypes, Taken
  <2> QED
    BY <1>3, <2>5, Zenon DEF take, SchedInv, JobTypes, Locations, LoopEffect, Scanning, CountLocs
<1>4. CASE TakeLocal(w)
  <2>1. CASE pinned[w] # <<>>
    <3>1. Head(pinned[w]) \in Jobs /\ InP(w, Head(pinned[w]))
      BY <2>1, TailLemma, Zenon DEF SchedInv, QueueTypes, InP
    <3>2. Queued(Head(pinned[w])) /\ home[Head(pinned[w])] \in {None, w}
      BY <3>1, Zenon DEF SchedInv, QueueInv, Queued
    <3> QED
      BY <1>3, <1>4, <2>1, <3>1, <3>2, Zenon DEF TakeLocal
  <2>2. CASE pinned[w] = <<>> /\ unpinned[w] # <<>>
    <3>1. Head(unpinned[w]) \in Jobs /\ InU(w, Head(unpinned[w]))
      BY <2>2, TailLemma, Zenon DEF SchedInv, QueueTypes, InU
    <3>2. Queued(Head(unpinned[w])) /\ home[Head(unpinned[w])] \in {None, w}
      BY <3>1, Zenon DEF SchedInv, QueueInv, Queued
    <3> QED
      BY <1>3, <1>4, <2>2, <3>1, <3>2, Zenon DEF TakeLocal
  <2>3. CASE pinned[w] = <<>> /\ unpinned[w] = <<>>
    BY <1>4, <2>3, Zenon DEF TakeLocal, goto, jobVars, SchedInv, JobTypes,
         Scanning, CountLocs, Locations, LoopEffect
  <2> QED
    BY <2>1, <2>2, <2>3, Zenon
<1>5. ASSUME NEW u \in Workers, Steal(w, u), unpinned[u] # <<>>
      PROVE  \E j \in Jobs : take(w, j) /\ Queued(j) /\ home[j] \in {None, w} /\ loc[w] = "steal"
  <2>1. Back(unpinned[u]) \in Jobs /\ InU(u, Back(unpinned[u]))
    BY <1>5, PopLemma, Zenon DEF SchedInv, QueueTypes, InU
  <2>2. Queued(Back(unpinned[u])) /\ home[Back(unpinned[u])] = None
    BY <2>1, Zenon DEF SchedInv, QueueInv, Queued
  <2> QED
    BY <1>5, <2>1, <2>2, Zenon DEF Steal
<1>6. ASSUME NEW u \in Workers, Steal(w, u), unpinned[u] = <<>>
      PROVE  UNCHANGED <<job, waker, home, yields, loc>> /\ loc[w] = "steal"
  BY <1>6, Zenon DEF Steal, jobVars
<1>7. ASSUME NEW u \in Workers, Steal(w, u)
      PROVE  \/ UNCHANGED <<job, waker, home, yields, loc>> /\ loc[w] = "steal"
             \/ \E j \in Jobs : take(w, j) /\ Queued(j) /\ home[j] \in {None, w} /\ loc[w] = "steal"
  BY <1>5, <1>6, <1>7, Zenon
<1>8. CASE \E u \in Workers : Steal(w, u)
  <2>1. CASE UNCHANGED <<job, waker, home, yields, loc>> /\ loc[w] = "steal"
    BY <2>1, Zenon DEF SchedInv, JobTypes, Scanning, CountLocs, LoopEffect
  <2>2. ASSUME NEW j \in Jobs, take(w, j), Queued(j), home[j] \in {None, w}, loc[w] = "steal"
        PROVE  LoopEffect(w)
    BY <1>3, <2>2, Zenon
  <2> QED
    BY <1>7, <1>8, <2>1, <2>2, Zenon
<1> QED
  BY <1>1, <1>2, <1>4, <1>8, Zenon DEF LoopStep
----------------------------------------------------------------------------
(* The steps of the workers and their jobs keep the rest of WaitInv.       *)

RestInv == IoTypes /\ TimerInv /\ PoolInv /\ CountInv /\ IdleInv

LEMMA SameCounts ==
  ASSUME CountInv, \A k \in Jobs : waker'[k] = "io" <=> waker[k] = "io",
         \A w \in Workers : loc'[w] \in CountLocs <=> loc[w] \in CountLocs,
         \A t \in Tasks : pool'[t] # "none" <=> pool[t] # "none",
         UNCHANGED <<pendingEventCnt, pendingBlockingTasks>>
  PROVE  CountInv'
<1>1. IoJobs' = IoJobs /\ Counting' = Counting /\ Blocking' = Blocking
  BY Zenon DEF IoJobs, Counting, Blocking, CountLocs
<1> QED
  BY <1>1, Zenon DEF CountInv

LEMMA LoopRest ==
  ASSUME WaitInv, NEW w \in Workers, LoopStep(w), UNCHANGED ioVars
  PROVE  RestInv'
<1>0. LoopEffect(w)
  BY LoopShape, Zenon DEF WaitInv
<1>1. term' \in [Workers -> BOOLEAN]
  <2>1. term' = term \/ term' = [term EXCEPT ![w] = TRUE]
    BY Zenon DEF LoopStep, SetActive, TakeLocal, Steal, Inactive, Pending, PassOn, EnterIdle,
         LeaveIdle, ScanQueues, ScanActive
  <2> QED
    BY <2>1, Zenon DEF WaitInv, IoTypes
<1>2. IoTypes'
  BY <1>0, <1>1, Zenon DEF WaitInv, IoTypes, ioVars, LoopEffect
<1>3. CASE UNCHANGED <<job, waker, home>>
  <2>1. TimerInv' /\ PoolInv'
    BY <1>0, <1>3, SMTT(30) DEF WaitInv, TimerInv, PoolInv, ioVars, LoopEffect
  <2>2. CountInv'
    BY <1>0, <1>3, SameCounts, Zenon DEF WaitInv, ioVars, LoopEffect
  <2>3. IdleInv'
    BY <1>0, <1>3, Zenon DEF WaitInv, IdleInv, LoopEffect, Scanning
  <2> QED
    BY <1>2, <2>1, <2>2, <2>3, Zenon DEF RestInv
<1>4. ASSUME NEW j \in Jobs, Taken(w, j) PROVE RestInv'
  <2>1. /\ job[j] = "READY" /\ waker[j] \in {"none", "woken"} /\ loc'[w] = "run"
        /\ job'[j] = "RUNNING" /\ waker'[j] = "none" /\ home'[j] = w
        /\ \A x \in Jobs \ {j} : job'[x] = job[x] /\ waker'[x] = waker[x] /\ home'[x] = home[x]
    BY <1>4, Zenon DEF Taken, WaitInv, SchedInv, JobTypes
  <2>2. TimerInv'
    BY <2>1, SMTT(30) DEF WaitInv, TimerInv, ioVars, IoTypes
  <2>3. PoolInv'
    <3>1. UNCHANGED <<pool, yields>> /\ \A t \in Tasks : t[1] \in Jobs
      BY <1>0, Zenon DEF ioVars, LoopEffect, Tasks
    <3> QED
      BY <2>1, <3>1 DEF WaitInv, PoolInv
  <2>4. CountInv'
    BY <1>0, <2>1, SameCounts, Zenon DEF WaitInv, ioVars, LoopEffect
  <2>5. IdleInv'
    BY <1>0, <2>1, SMTT(30) DEF WaitInv, IdleInv, LoopEffect, Scanning
  <2> QED
    BY <1>2, <2>2, <2>3, <2>4, <2>5, Zenon DEF RestInv
<1> QED
  BY <1>0, <1>3, <1>4, Zenon DEF LoopEffect

LEMMA JobRest ==
  ASSUME WaitInv, NEW w \in Workers, JobStep(w), UNCHANGED ioVars
  PROVE  RestInv'
<1>0. \A t \in Tasks : t[1] \in Jobs
  BY Zenon DEF Tasks
<1>1. term' = term
  BY Zenon DEF JobStep, Wake, Submit, submit, RunTickle, Arm, YieldOrEnd, workerVars
<1>2. /\ loc[w] \in RunLocs /\ loc'[w] \in RunLocs \cup {"top"}
      /\ \A v \in Workers \ {w} : loc'[v] = loc[v]
      /\ home' = home
  <2>1. loc[w] \in RunLocs /\ home' = home
    BY Zenon DEF JobStep, Wake, Submit, RunTickle, Arm, YieldOrEnd, jobVars, RunLocs
  <2>2. loc' = loc \/ loc' = [loc EXCEPT ![w] = "run"] \/ loc' = [loc EXCEPT ![w] = "runTickle"]
        \/ loc' = [loc EXCEPT ![w] = "top"]
    BY Zenon DEF JobStep, Wake, Submit, submit, RunTickle, Arm, YieldOrEnd, workerVars, goto
  <2>3. loc \in [Workers -> Locations]
    BY Zenon DEF WaitInv, SchedInv, JobTypes
  <2> QED
    BY <2>1, <2>2, <2>3, Zenon DEF RunLocs
<1>3. \A v \in Workers : loc'[v] \in CountLocs <=> loc[v] \in CountLocs
  BY <1>2, Zenon DEF CountLocs, RunLocs
<1>4. ASSUME NEW k \in Jobs, Wake(w, k) PROVE RestInv'
  <2>1. /\ waker[k] = "armed" /\ waker'[k] = "woken"
        /\ \A x \in Jobs \ {k} : waker'[x] = waker[x]
        /\ UNCHANGED <<job, yields>>
    BY <1>4, Zenon DEF Wake, WaitInv, SchedInv, JobTypes
  <2>2. IoTypes' /\ TimerInv'
    BY <1>1, <2>1, Zenon DEF WaitInv, IoTypes, TimerInv, ioVars
  <2>3. PoolInv'
    BY <1>0, <2>1, SMTT(30) DEF WaitInv, PoolInv, ioVars
  <2>4. CountInv'
    BY <1>3, <2>1, SameCounts, Zenon DEF WaitInv, ioVars
  <2>5. IdleInv'
    BY <1>2, <2>1, Zenon DEF WaitInv, IdleInv, RunLocs
  <2> QED
    BY <2>2, <2>3, <2>4, <2>5, Zenon DEF RestInv
<1>5. ASSUME NEW k \in Jobs, NEW pin \in BOOLEAN, Submit(w, k, pin) PROVE RestInv'
  <2>1. /\ job[k] = "new" /\ job'[k] = "READY"
        /\ \A x \in Jobs \ {k} : job'[x] = job[x]
        /\ UNCHANGED <<waker, yields>>
    BY <1>5, Zenon DEF Submit, WaitInv, SchedInv, JobTypes
  <2>2. IoTypes' /\ TimerInv'
    BY <1>1, <2>1, Zenon DEF WaitInv, IoTypes, TimerInv, ioVars
  <2>3. PoolInv'
    BY <1>0, <2>1, SMTT(30) DEF WaitInv, PoolInv, ioVars
  <2>4. CountInv'
    BY <1>3, <2>1, SameCounts, Zenon DEF WaitInv, ioVars
  <2>5. IdleInv'
    BY <1>2, <2>1, Zenon DEF WaitInv, IdleInv, RunLocs
  <2> QED
    BY <2>2, <2>3, <2>4, <2>5, Zenon DEF RestInv
<1>6. CASE RunTickle(w)
  <2>1. UNCHANGED <<job, waker, yields>>
    BY <1>6, Zenon DEF RunTickle, jobVars
  <2>2. IoTypes' /\ TimerInv' /\ PoolInv'
    BY <1>1, <2>1, SMTT(30) DEF WaitInv, IoTypes, TimerInv, PoolInv, ioVars
  <2>4. CountInv'
    BY <1>3, <2>1, SameCounts, Zenon DEF WaitInv, ioVars
  <2>5. IdleInv'
    BY <1>2, <2>1, Zenon DEF WaitInv, IdleInv, RunLocs
  <2> QED
    BY <2>2, <2>4, <2>5, Zenon DEF RestInv
<1>7. CASE Arm(w, "armed")
  <2>0. PICK k \in Jobs : k = running[w] /\ job[k] = "RUNNING"
    BY <1>2, RunsJob, Zenon DEF WaitInv
  <2>1. /\ waker[k] = "none" /\ waker'[k] = "armed" /\ yields[k] < MaxYields
        /\ \A x \in Jobs \ {k} : waker'[x] = waker[x]
        /\ UNCHANGED <<job, yields>>
    BY <1>7, <2>0, Zenon DEF Arm, WaitInv, SchedInv, JobTypes
  <2>2. IoTypes' /\ TimerInv'
    BY <1>1, <2>1, Zenon DEF WaitInv, IoTypes, TimerInv, ioVars
  <2>3. PoolInv'
    BY <1>0, <2>1, SMTT(30) DEF WaitInv, PoolInv, ioVars
  <2>4. CountInv'
    BY <1>3, <2>1, SameCounts, Zenon DEF WaitInv, ioVars
  <2>5. IdleInv'
    BY <1>2, <2>1, Zenon DEF WaitInv, IdleInv, RunLocs
  <2> QED
    BY <2>2, <2>3, <2>4, <2>5, Zenon DEF RestInv
<1>8. CASE YieldOrEnd(w)
  <2>0. PICK k \in Jobs : k = running[w] /\ job[k] = "RUNNING"
    BY <1>2, RunsJob, Zenon DEF WaitInv
  <2>1. /\ job'[k] = IF waker[k] = "none" THEN "TERM" ELSE "READY"
        /\ yields'[k] = IF waker[k] = "none" THEN yields[k] ELSE yields[k] + 1
        /\ \A x \in Jobs \ {k} : job'[x] = job[x] /\ yields'[x] = yields[x]
        /\ yields' \in [Jobs -> Nat] /\ UNCHANGED waker
    BY <1>8, <2>0, SMTT(30) DEF YieldOrEnd, WaitInv, SchedInv, JobTypes, IoTypes
  <2>2. IoTypes' /\ TimerInv'
    BY <1>1, <2>0, <2>1, SMTT(30) DEF WaitInv, IoTypes, TimerInv, ioVars
  <2>3. PoolInv'
    <3>1. \A t \in Tasks : t[2] \in Nat /\ t[2] \in Int
      BY SchedulerAssumption DEF Tasks
    <3>2. \A x \in Jobs : yields[x] \in Nat
      BY Zenon DEF WaitInv, IoTypes
    <3> QED
      BY <1>0, <2>0, <2>1, <3>1, <3>2, SMTT(30) DEF WaitInv, PoolInv, ioVars
  <2>4. CountInv'
    BY <1>3, <2>1, SameCounts, Zenon DEF WaitInv, ioVars
  <2>5. IdleInv'
    BY <1>2, <2>1, Zenon DEF WaitInv, IdleInv, RunLocs
  <2> QED
    BY <2>2, <2>3, <2>4, <2>5, Zenon DEF RestInv
<1> QED
  BY <1>4, <1>5, <1>6, <1>7, <1>8, Zenon DEF JobStep

LEMMA OutsideRest ==
  ASSUME WaitInv, OutsideStep \/ Stop, UNCHANGED ioVars
  PROVE  RestInv'
<1>1. /\ UNCHANGED <<waker, home, yields, term>>
      /\ \A w \in Workers : loc'[w] = loc[w] \/ (loc[w] = "outside" /\ loc'[w] = "top")
  BY Zenon DEF OutsideStep, Stop, SubmitOutside, TickleOutside, StopTickle, StopRoot, StopJoin,
       workerVars, jobVars
<1>2. \/ UNCHANGED job
      \/ \E k \in Jobs : /\ job[k] = "new" /\ job'[k] = "READY"
                         /\ \A x \in Jobs \ {k} : job'[x] = job[x]
  BY Zenon DEF OutsideStep, Stop, SubmitOutside, TickleOutside, StopTickle, StopRoot, StopJoin,
       jobVars, WaitInv, SchedInv, JobTypes
<1>3. IoTypes' /\ TimerInv'
  BY <1>1, <1>2, SMTT(30) DEF WaitInv, IoTypes, TimerInv, ioVars
<1>4. PoolInv'
  <2>1. \A x \in Jobs : job'[x] = "RUNNING" <=> job[x] = "RUNNING"
    BY <1>2, Zenon
  <2>2. \A t \in Tasks : t[1] \in Jobs
    BY Zenon DEF Tasks
  <2> QED
    BY <1>1, <2>1, <2>2, SMTT(30) DEF WaitInv, PoolInv, ioVars
<1>5. CountInv'
  BY <1>1, SameCounts, Zenon DEF WaitInv, ioVars, CountLocs
<1>6. IdleInv'
  BY <1>1, Zenon DEF WaitInv, IdleInv
<1> QED
  BY <1>3, <1>4, <1>5, <1>6, Zenon DEF RestInv
----------------------------------------------------------------------------
(* The steps that IOManager adds.                                          *)

LEMMA CountedFinite == /\ IsFiniteSet(Workers) /\ IsFiniteSet(Jobs) /\ IsFiniteSet(Tasks)
                    /\ IsFiniteSet(IoJobs) /\ IsFiniteSet(Counting) /\ IsFiniteSet(Blocking)
<1>1. IsFiniteSet(Workers)
  BY SchedulerAssumption, FS_Interval, SMTT(30) DEF Workers
<1>2. IsFiniteSet(0..MaxYields)
  BY SchedulerAssumption, FS_Interval, SMTT(30)
<1>3. IsFiniteSet(Tasks)
  BY <1>2, IOManagerAssumption, FS_Product, Zenon DEF Tasks
<1>4. IoJobs \subseteq Jobs /\ Counting \subseteq Workers /\ Blocking \subseteq Tasks
  BY Zenon DEF IoJobs, Counting, Blocking
<1> QED
  BY <1>1, <1>3, <1>4, IOManagerAssumption, FS_Subset, Zenon

LEMMA AddTimerKeeps ==
  ASSUME WaitInv, NEW k \in Jobs, AddTimer(k)
  PROVE  SchedInv' /\ HomesKept /\ RestInv'
<1>1. /\ job[k] = "new" /\ job' = [job EXCEPT ![k] = "TIMER"] /\ timers' = timers \cup {k}
      /\ UNCHANGED <<unpinned, pinned, waker, home, yields, loc, running, term>>
      /\ UNCHANGED <<cbs, evs, pendingEventCnt, pendingBlockingTasks, pool>>
  BY Zenon DEF AddTimer, queueVars, workerVars
<1>2. job'[k] = "TIMER" /\ \A x \in Jobs \ {k} : job'[x] = job[x]
  BY <1>1, Zenon DEF WaitInv, SchedInv, JobTypes
<1>3. JobTypes' /\ QueueTypes'
  BY <1>1, Zenon DEF WaitInv, SchedInv, JobTypes, QueueTypes
<1>4. JobInv'
  BY <1>1, <1>2, SchedulerAssumption, SMTT(30) DEF WaitInv, SchedInv, JobInv, JobTypes
<1>5. \A x \in Jobs : Due(x)' <=> Due(x)
  BY <1>1, <1>2, Zenon DEF Due
<1>6. \A v \in Workers, x \in Jobs : (InU(v, x)' <=> InU(v, x)) /\ (InP(v, x)' <=> InP(v, x))
  BY <1>1, Zenon DEF InU, InP
<1>7. QueueInv'
  BY <1>1, <1>5, <1>6, Zenon DEF WaitInv, SchedInv, QueueInv, Queued
<1>8. IoTypes' /\ TimerInv'
  BY <1>1, <1>2, Zenon DEF WaitInv, IoTypes, TimerInv
<1>9. PoolInv'
  <2>1. \A t \in Tasks : t[1] \in Jobs
    BY Zenon DEF Tasks
  <2> QED
    BY <1>1, <1>2, <2>1, SMTT(30) DEF WaitInv, PoolInv
<1>10. CountInv' /\ IdleInv'
  BY <1>1, SameCounts, Zenon DEF WaitInv, IdleInv
<1> QED
  BY <1>1, <1>3, <1>4, <1>7, <1>8, <1>9, <1>10, Zenon DEF SchedInv, HomesKept, RestInv

LEMMA AddEventKeeps ==
  ASSUME WaitInv, NEW w \in Workers, AddEvent(w)
  PROVE  SchedInv' /\ HomesKept /\ RestInv'
<1>1. SchedInv' /\ HomesKept
  BY ArmKeeps, Zenon DEF AddEvent, WaitInv
<1>2. PICK k \in Jobs : k = running[w] /\ job[k] = "RUNNING" /\ home[k] = w
  BY RunsJob, Zenon DEF AddEvent, Arm, WaitInv, RunLocs
<1>3. /\ loc[w] = "run" /\ waker[k] = "none" /\ waker'[k] = "io" /\ yields[k] < MaxYields
      /\ \A x \in Jobs \ {k} : waker'[x] = waker[x]
      /\ UNCHANGED <<job, home, yields, loc, term>>
      /\ pendingEventCnt' = pendingEventCnt + 1
      /\ UNCHANGED <<timers, cbs, evs, pendingBlockingTasks, pool>>
  BY <1>2, Zenon DEF AddEvent, Arm, WaitInv, SchedInv, JobTypes, workerVars
<1>4. IoTypes' /\ TimerInv'
  BY <1>3, Zenon DEF WaitInv, IoTypes, TimerInv
<1>5. PoolInv'
  <2>1. \A t \in Tasks : t[1] \in Jobs
    BY Zenon DEF Tasks
  <2> QED
    BY <1>3, <2>1, SMTT(30) DEF WaitInv, PoolInv
<1>6. CountInv'
  <2>1. IoJobs' = IoJobs \cup {k} /\ k \notin IoJobs /\ Counting' = Counting /\ Blocking' = Blocking
    BY <1>3, Zenon DEF IoJobs, Counting, Blocking
  <2>2. Cardinality(IoJobs \cup {k}) = Cardinality(IoJobs) + 1
    BY <2>1, CountedFinite, FS_AddElement, Zenon
  <2>3. Cardinality(IoJobs) \in Nat /\ Cardinality(Counting) \in Nat
    BY CountedFinite, FS_CardinalityType, Zenon
  <2> QED
    BY <1>3, <2>1, <2>2, <2>3, SMTT(30) DEF WaitInv, CountInv
<1>7. IdleInv'
  BY <1>2, <1>3, SMTT(30) DEF WaitInv, IdleInv
<1> QED
  BY <1>1, <1>4, <1>5, <1>6, <1>7, Zenon DEF RestInv

LEMMA AsyncBlockingKeeps ==
  ASSUME WaitInv, NEW w \in Workers, AsyncBlocking(w)
  PROVE  SchedInv' /\ HomesKept /\ RestInv'
<1>1. SchedInv' /\ HomesKept
  BY ArmKeeps, Zenon DEF AsyncBlocking, WaitInv
<1>2. PICK k \in Jobs : k = running[w] /\ job[k] = "RUNNING" /\ home[k] = w
  BY RunsJob, Zenon DEF AsyncBlocking, Arm, WaitInv, RunLocs
<1> DEFINE t == <<k, yields[k]>>
<1>3. /\ loc[w] = "run" /\ waker[k] = "none" /\ waker'[k] = "pool" /\ yields[k] < MaxYields
      /\ \A x \in Jobs \ {k} : waker'[x] = waker[x]
      /\ UNCHANGED <<job, home, yields, loc, term>>
      /\ pendingBlockingTasks' = pendingBlockingTasks + 1
      /\ pool' = [pool EXCEPT ![t] = "work"]
      /\ UNCHANGED <<timers, cbs, evs, pendingEventCnt>>
  BY <1>2, Zenon DEF AsyncBlocking, Arm, WaitInv, SchedInv, JobTypes, workerVars
<1>4. t \in Tasks /\ \A u \in Tasks : u[1] \in Jobs /\ u[2] \in Nat /\ u = <<u[1], u[2]>>
  BY <1>3, SchedulerAssumption, SMTT(30) DEF Tasks, WaitInv, IoTypes
<1>5. t[1] = k /\ t[2] = yields[k] /\ yields[k] \in Nat
  BY Zenon DEF WaitInv, IoTypes
<1> HIDE DEF t
<1>6. pool'[t] = "work" /\ \A u \in Tasks \ {t} : pool'[u] = pool[u]
  BY <1>3, <1>4, Zenon DEF WaitInv, IoTypes
<1>7. pool[t] = "none"
  BY <1>3, <1>4, <1>5, SMTT(30) DEF WaitInv, PoolInv
<1>8. IoTypes' /\ TimerInv'
  BY <1>3, <1>4, Zenon DEF WaitInv, IoTypes, TimerInv
<1>9. PoolInv'
  BY <1>2, <1>3, <1>4, <1>5, <1>6, SMTT(30) DEF WaitInv, PoolInv
<1>10. CountInv'
  <2>1. IoJobs' = IoJobs /\ Counting' = Counting
    BY <1>3, Zenon DEF IoJobs, Counting
  <2>2. Blocking' = Blocking \cup {t} /\ t \notin Blocking
    BY <1>4, <1>6, <1>7, Zenon DEF Blocking
  <2>3. Cardinality(Blocking \cup {t}) = Cardinality(Blocking) + 1
    BY <2>2, CountedFinite, FS_AddElement, Zenon
  <2> QED
    BY <1>3, <2>1, <2>2, <2>3, Zenon DEF WaitInv, CountInv
<1>11. IdleInv'
  BY <1>2, <1>3, SMTT(30) DEF WaitInv, IdleInv
<1> QED
  BY <1>1, <1>8, <1>9, <1>10, <1>11, Zenon DEF RestInv

LEMMA PoolStepKeeps ==
  ASSUME WaitInv, NEW t \in Tasks, PoolStep(t)
  PROVE  SchedInv' /\ HomesKept /\ RestInv'
<1>0. t[1] \in Jobs /\ \A u \in Tasks : u[1] \in Jobs
  BY Zenon DEF Tasks
<1>1. /\ UNCHANGED <<job, home, yields, loc, running, term, timers, cbs, evs, pendingEventCnt>>
  BY Zenon DEF PoolStep, workerVars, jobVars
<1>2. TimerInv'
  BY <1>1, Zenon DEF WaitInv, TimerInv
<1>3. CASE pool[t] = "work"
  <2>1. /\ enqueueTask(t[1], home[t[1]], TRUE) /\ waker' = [waker EXCEPT ![t[1]] = "woken"]
        /\ pendingBlockingTasks' = pendingBlockingTasks
        /\ \E s \in {"tickle", "done"} : pool' = [pool EXCEPT ![t] = s]
    BY <1>3, Zenon DEF PoolStep, PoolDone
  <2>2. waker[t[1]] = "pool" /\ waker'[t[1]] = "woken" /\ \A x \in Jobs \ {t[1]} : waker'[x] = waker[x]
    BY <1>0, <1>3, <2>1, SMTT(30) DEF WaitInv, PoolInv, SchedInv, JobTypes
  <2>3. SchedInv' /\ HomesKept
    BY <1>0, <1>1, <2>1, <2>2, WakeKeeps, Zenon DEF WaitInv, SchedInv, JobTypes
  <2>4. /\ pool'[t] \in {"tickle", "done"} /\ \A u \in Tasks \ {t} : pool'[u] = pool[u]
        /\ pool' \in [Tasks -> {"none", "work", "tickle", "done"}]
    BY <2>1, Zenon DEF WaitInv, IoTypes
  <2>5. IoTypes'
    BY <1>1, <2>4, Zenon DEF WaitInv, IoTypes
  <2>6. PoolInv'
    BY <1>0, <1>1, <1>3, <2>2, <2>4, SMTT(30) DEF WaitInv, PoolInv
  <2>7. CountInv'
    BY <1>1, <1>3, <2>1, <2>2, <2>4, SameCounts, Zenon DEF WaitInv
  <2>8. IdleInv'
    BY <1>0, <1>1, <2>2, Zenon DEF WaitInv, IdleInv
  <2> QED
    BY <1>2, <2>3, <2>5, <2>6, <2>7, <2>8, Zenon DEF RestInv
<1>4. CASE pool[t] # "work"
  <2>1. UNCHANGED <<unpinned, pinned, waker>>
    BY <1>4, Zenon DEF PoolStep, PoolDone, queueVars, jobVars
  <2>2. SchedInv' /\ HomesKept
    BY <1>1, <2>1, QuietKeeps, Zenon DEF WaitInv, SchedInv, JobTypes
  <2>3. IdleInv'
    BY <1>1, <2>1, Zenon DEF WaitInv, IdleInv
  <2>4. CASE pool[t] = "tickle"
    <3>1. pool' = [pool EXCEPT ![t] = "done"] /\ pendingBlockingTasks' = pendingBlockingTasks
      BY <2>4, Zenon DEF PoolStep, PoolDone
    <3>2. pool'[t] = "done" /\ \A u \in Tasks \ {t} : pool'[u] = pool[u]
      BY <3>1, Zenon DEF WaitInv, IoTypes
    <3>3. IoTypes'
      BY <1>1, <3>1, Zenon DEF WaitInv, IoTypes
    <3>4. PoolInv'
      BY <1>1, <2>1, <2>4, <3>2, SMTT(30) DEF WaitInv, PoolInv
    <3>5. CountInv'
      BY <1>1, <2>1, <2>4, <3>1, <3>2, SameCounts, Zenon DEF WaitInv
    <3> QED
      BY <1>2, <2>2, <2>3, <3>3, <3>4, <3>5, Zenon DEF RestInv
  <2>5. CASE pool[t] = "done"
    <3>1. pool' = [pool EXCEPT ![t] = "none"] /\ pendingBlockingTasks' = pendingBlockingTasks - 1
      BY <2>5, Zenon DEF PoolStep, PoolDone
    <3>2. pool'[t] = "none" /\ \A u \in Tasks \ {t} : pool'[u] = pool[u]
      BY <3>1, Zenon DEF WaitInv, IoTypes
    <3>3. IoTypes'
      BY <1>1, <3>1, Zenon DEF WaitInv, IoTypes
    <3>4. PoolInv'
      BY <1>1, <2>1, <2>5, <3>2, SMTT(30) DEF WaitInv, PoolInv
    <3>5. CountInv'
      <4>1. IoJobs' = IoJobs /\ Counting' = Counting
        BY <1>1, <2>1, Zenon DEF IoJobs, Counting
      <4>2. Blocking' = Blocking \ {t} /\ t \in Blocking
        BY <2>5, <3>2, Zenon DEF Blocking
      <4>3. Cardinality(Blocking \ {t}) = Cardinality(Blocking) - 1
        BY <4>2, CountedFinite, FS_RemoveElement, Zenon
      <4> QED
        BY <1>1, <3>1, <4>1, <4>2, <4>3, Zenon DEF WaitInv, CountInv
    <3> QED
      BY <1>2, <2>2, <2>3, <3>3, <3>4, <3>5, Zenon DEF RestInv
  <2> QED
    BY <1>4, <2>4, <2>5, Zenon DEF PoolStep, PoolDone
<1> QED
  BY <1>3, <1>4, Zenon

\* Worker w moves inside idle() and nothing happens to the jobs.
LEMMA IdleMoveKeeps ==
  ASSUME WaitInv, NEW w \in Workers, NEW p \in Locations \ RunLocs, loc[w] \notin RunLocs,
         goto(w, p), UNCHANGED <<unpinned, pinned, job, waker, home, running>>
  PROVE  /\ SchedInv' /\ HomesKept
         /\ loc'[w] = p /\ \A v \in Workers \ {w} : loc'[v] = loc[v]
<1>1. SchedInv' /\ HomesKept
  BY MoveKeeps, Zenon DEF WaitInv
<1> QED
  BY <1>1, Zenon DEF goto, WaitInv, SchedInv, JobTypes

\* ... and neither to the timers, the events, the pool and the counters.
LEMMA IdleQuietKeeps ==
  ASSUME WaitInv, NEW w \in Workers, NEW p \in Locations \ RunLocs, loc[w] \notin RunLocs,
         goto(w, p), UNCHANGED <<unpinned, pinned, job, waker, home, running, yields, term>>,
         UNCHANGED <<timers, cbs, pool, pendingEventCnt, pendingBlockingTasks>>,
         evs' \in [Workers -> SUBSET Jobs],
         p \in CountLocs <=> loc[w] \in CountLocs,
         p \in Scanning \cup {"idleBlocking"} /\ loc[w] \notin Scanning \cup {"idleBlocking"}
           => \A k \in Jobs : waker[k] # "io",
         p \in Scanning /\ loc[w] \notin Scanning => \A k \in Jobs : waker[k] # "pool"
  PROVE  SchedInv' /\ HomesKept /\ RestInv'
<1>1. /\ SchedInv' /\ HomesKept
      /\ loc'[w] = p /\ \A v \in Workers \ {w} : loc'[v] = loc[v]
  BY IdleMoveKeeps, Zenon
<1>2. IoTypes' /\ TimerInv' /\ PoolInv'
  BY SMTT(30) DEF WaitInv, IoTypes, TimerInv, PoolInv
<1>3. CountInv'
  BY <1>1, SameCounts, Zenon DEF WaitInv
<1>4. IdleInv'
  BY <1>1, Zenon DEF WaitInv, IdleInv, Scanning
<1> QED
  BY <1>1, <1>2, <1>3, <1>4, Zenon DEF RestInv

\* A counter that is zero says that there is nothing to count.
LEMMA ZeroCounts ==
  ASSUME WaitInv
  PROVE  /\ pendingEventCnt = 0 => \A k \in Jobs : waker[k] # "io"
         /\ pendingBlockingTasks = 0 => \A k \in Jobs : waker[k] # "pool"
<1>1. /\ Cardinality(IoJobs) \in Nat /\ Cardinality(Counting) \in Nat
      /\ Cardinality(IoJobs) = 0 <=> IoJobs = {}
      /\ Cardinality(Blocking) = 0 <=> Blocking = {}
  BY CountedFinite, FS_CardinalityType, FS_EmptySet, Zenon
<1>2. pendingEventCnt = 0 => IoJobs = {}
  BY <1>1, SMTT(30) DEF WaitInv, CountInv
<1>3. pendingBlockingTasks = 0 => Blocking = {}
  BY <1>1, Zenon DEF WaitInv, CountInv
<1> QED
  BY <1>2, <1>3, Zenon DEF IoJobs, Blocking, WaitInv, PoolInv

LEMMA IdleLookKeeps ==
  ASSUME WaitInv, NEW w \in Workers, IdleCheck(w) \/ IdleScan(w)
  PROVE  SchedInv' /\ HomesKept /\ RestInv'
<1>1. /\ UNCHANGED <<unpinned, pinned, job, waker, home, running, yields, term>>
      /\ UNCHANGED <<timers, cbs, evs, pool, pendingEventCnt, pendingBlockingTasks>>
  BY Zenon DEF IdleCheck, IdleScan, ScanStart, queueVars, jobVars, ioVars
<1>2. evs' \in [Workers -> SUBSET Jobs]
  BY <1>1, Zenon DEF WaitInv, IoTypes
<1>3. PICK p \in Locations \ RunLocs :
        /\ goto(w, p) /\ p \notin CountLocs /\ loc[w] \notin CountLocs \cup RunLocs
        /\ p = "idleBlocking" => pendingEventCnt = 0
        /\ p \in Scanning => loc[w] = "idleBlocking" /\ pendingBlockingTasks = 0
  BY SMTT(30) DEF IdleCheck, IdleScan, ScanStart, NotStopping, Locations, RunLocs, CountLocs, Scanning
<1> QED
  BY <1>1, <1>2, <1>3, ZeroCounts, IdleQuietKeeps, Zenon DEF Scanning

LEMMA IdleWakeKeeps ==
  ASSUME WaitInv, NEW w \in Workers,
         \/ \E fds \in SUBSET Jobs, pipe \in BOOLEAN : EpollWait(w, fds, pipe)
         \/ \E on \in BOOLEAN : IdleActive(w, on)
         \/ IdleTickle(w)
  PROVE  SchedInv' /\ HomesKept /\ RestInv'
<1>1. /\ UNCHANGED <<unpinned, pinned, job, waker, home, running, yields, term>>
      /\ UNCHANGED <<timers, cbs, pool, pendingEventCnt, pendingBlockingTasks>>
  BY Zenon DEF EpollWait, IdleActive, IdleTickle, queueVars, jobVars, ioVars
<1>2. evs' \in [Workers -> SUBSET Jobs]
  BY Zenon DEF EpollWait, IdleActive, IdleTickle, ioVars, WaitInv, IoTypes
<1>3. PICK p \in Locations \ RunLocs :
        /\ goto(w, p) /\ (p \in CountLocs <=> loc[w] \in CountLocs)
        /\ loc[w] \notin RunLocs /\ p \notin Scanning \cup {"idleBlocking"}
  <2>1. CASE IdleTickle(w)
    BY <2>1, SMTT(30) DEF IdleTickle, Locations, RunLocs, CountLocs, Scanning
  <2>2. ASSUME NEW on \in BOOLEAN, IdleActive(w, on)
        PROVE  /\ goto(w, IF on THEN "expire" ELSE "leave")
               /\ loc[w] \in {"woke", "events"}
    BY <2>2, Zenon DEF IdleActive
  <2>3. CASE \E on \in BOOLEAN : IdleActive(w, on)
    BY <2>2, <2>3 DEF Locations, RunLocs, CountLocs, Scanning
  <2>4. CASE \E fds \in SUBSET Jobs, pipe \in BOOLEAN : EpollWait(w, fds, pipe)
    BY <2>4, SMTT(30) DEF EpollWait, Locations, RunLocs, CountLocs, Scanning
  <2> QED
    BY <2>1, <2>3, <2>4, Zenon
<1> QED
  BY <1>1, <1>2, <1>3, IdleQuietKeeps, Zenon DEF Scanning

LEMMA ListExpiredKeeps ==
  ASSUME WaitInv, NEW w \in Workers, ListExpired(w)
  PROVE  SchedInv' /\ HomesKept /\ RestInv'
<1>1. /\ loc[w] = "expire" /\ goto(w, "cbs")
      /\ UNCHANGED <<unpinned, pinned, job, waker, home, running, yields, term>>
      /\ UNCHANGED <<evs, pool, pendingEventCnt, pendingBlockingTasks>>
  BY Zenon DEF ListExpired, queueVars, jobVars
<1>2. "cbs" \in Locations \ RunLocs /\ "expire" \notin RunLocs
  BY Zenon DEF Locations, RunLocs
<1>3. /\ SchedInv' /\ HomesKept
      /\ loc'[w] = "cbs" /\ \A v \in Workers \ {w} : loc'[v] = loc[v]
  BY <1>1, <1>2, IdleMoveKeeps, Zenon
<1>4. PICK expired \in SUBSET timers :
        timers' = timers \ expired /\ cbs' = [cbs EXCEPT ![w] = expired]
  BY Zenon DEF ListExpired
<1>5. cbs'[w] = expired /\ \A v \in Workers \ {w} : cbs'[v] = cbs[v]
  BY <1>4, Zenon DEF WaitInv, IoTypes
<1>6. IoTypes' /\ PoolInv'
  BY <1>1, <1>4 DEF WaitInv, IoTypes, PoolInv
<1>7. TimerInv'
  BY <1>1, <1>4, <1>5, Zenon DEF WaitInv, TimerInv
<1>8. CountInv'
  BY <1>1, <1>3, SameCounts, Zenon DEF WaitInv, CountLocs
<1>9. IdleInv'
  BY <1>1, <1>3, Zenon DEF WaitInv, IdleInv
<1> QED
  BY <1>3, <1>6, <1>7, <1>8, <1>9, Zenon DEF RestInv

LEMMA ScheduleCbKeeps ==
  ASSUME WaitInv, NEW w \in Workers, NEW k \in Jobs, ScheduleCb(w, k)
  PROVE  SchedInv' /\ HomesKept /\ RestInv'
<1>1. /\ loc[w] = "cbs" /\ k \in cbs[w] /\ \E p \in {"cbTickle", "cbs"} : goto(w, p)
      /\ enqueueTask(k, w, FALSE) /\ job' = [job EXCEPT ![k] = "READY"]
      /\ cbs' = [cbs EXCEPT ![w] = @ \ {k}]
      /\ UNCHANGED <<waker, home, running, yields, term>>
      /\ UNCHANGED <<timers, evs, pool, pendingEventCnt, pendingBlockingTasks>>
  BY Zenon DEF ScheduleCb
<1>2. /\ loc'[w] \in {"cbTickle", "cbs"} /\ \A v \in Workers \ {w} : loc'[v] = loc[v]
      /\ loc' \in [Workers -> Locations]
  BY <1>1 DEF goto, WaitInv, SchedInv, JobTypes, Locations
<1>3. job[k] = "TIMER" /\ k \notin timers /\ \A v \in Workers \ {w} : k \notin cbs[v]
  BY <1>1, Zenon DEF WaitInv, TimerInv
<1>4. SchedInv' /\ HomesKept
  BY <1>1, <1>2, <1>3, ReadyKeeps, Zenon DEF WaitInv, RunLocs
<1>5. /\ job'[k] = "READY" /\ \A x \in Jobs \ {k} : job'[x] = job[x]
      /\ cbs'[w] = cbs[w] \ {k} /\ \A v \in Workers \ {w} : cbs'[v] = cbs[v]
      /\ cbs' \in [Workers -> SUBSET Jobs]
  BY <1>1, Zenon DEF WaitInv, SchedInv, JobTypes, IoTypes
<1>6. IoTypes'
  BY <1>1, <1>5, Zenon DEF WaitInv, IoTypes
<1>7. TimerInv'
  BY <1>1, <1>3, <1>5, SMTT(30) DEF WaitInv, TimerInv, IoTypes
<1>8. PoolInv'
  <2>1. \A t \in Tasks : t[1] \in Jobs
    BY Zenon DEF Tasks
  <2> QED
    BY <1>1, <1>3, <1>5, <2>1, SMTT(30) DEF WaitInv, PoolInv
<1>9. CountInv'
  BY <1>1, <1>2, SameCounts, Zenon DEF WaitInv, CountLocs
<1>10. IdleInv'
  BY <1>1, <1>2, Zenon DEF WaitInv, IdleInv
<1> QED
  BY <1>4, <1>6, <1>7, <1>8, <1>9, <1>10, Zenon DEF RestInv

LEMMA TriggerEventKeeps ==
  ASSUME WaitInv, NEW w \in Workers, NEW k \in Jobs, TriggerEvent(w, k)
  PROVE  SchedInv' /\ HomesKept /\ RestInv'
<1>1. /\ loc[w] = "events" /\ evs' = [evs EXCEPT ![w] = @ \ {k}]
      /\ UNCHANGED <<job, home, running, yields, term>>
      /\ UNCHANGED <<timers, cbs, pool, pendingEventCnt, pendingBlockingTasks>>
  BY Zenon DEF TriggerEvent
<1>2. IoTypes' /\ TimerInv'
  BY <1>1, Zenon DEF WaitInv, IoTypes, TimerInv
<1>3. CASE waker[k] = "io"
  <2>1. /\ enqueueTask(k, home[k], TRUE) /\ waker' = [waker EXCEPT ![k] = "woken"]
        /\ \E p \in CountLocs : goto(w, p)
    BY <1>3, Zenon DEF TriggerEvent, Registered, CountLocs
  <2>2. /\ loc'[w] \in CountLocs /\ \A v \in Workers \ {w} : loc'[v] = loc[v]
        /\ loc' \in [Workers -> Locations]
    BY <2>1 DEF goto, WaitInv, SchedInv, JobTypes, Locations, CountLocs
  <2>3. SchedInv' /\ HomesKept
    BY <1>1, <1>3, <2>1, <2>2, WakeKeeps, ZenonT(30) DEF WaitInv, RunLocs, CountLocs
  <2>4. waker'[k] = "woken" /\ \A x \in Jobs \ {k} : waker'[x] = waker[x]
    BY <2>1, Zenon DEF WaitInv, SchedInv, JobTypes
  <2>5. PoolInv'
    <3>1. \A t \in Tasks : t[1] \in Jobs
      BY Zenon DEF Tasks
    <3> QED
      BY <1>1, <1>3, <2>4, <3>1, SMTT(30) DEF WaitInv, PoolInv
  <2>6. CountInv'
    <3>1. IoJobs' = IoJobs \ {k} /\ k \in IoJobs /\ Blocking' = Blocking
      BY <1>1, <1>3, <2>4, Zenon DEF IoJobs, Blocking
    <3>2. Counting' = Counting \cup {w} /\ w \notin Counting
      BY <1>1, <2>2, Zenon DEF Counting, CountLocs
    <3>3. Cardinality(IoJobs \ {k}) = Cardinality(IoJobs) - 1
      BY <3>1, CountedFinite, FS_RemoveElement, Zenon
    <3>4. Cardinality(Counting \cup {w}) = Cardinality(Counting) + 1
      BY <3>2, CountedFinite, FS_AddElement, Zenon
    <3>5. Cardinality(IoJobs) \in Nat /\ Cardinality(Counting) \in Nat
      BY CountedFinite, FS_CardinalityType, Zenon
    <3> QED
      BY <1>1, <3>1, <3>2, <3>3, <3>4, <3>5, SMTT(30) DEF WaitInv, CountInv
  <2>7. IdleInv'
    BY <1>1, <2>2, <2>4, Zenon DEF WaitInv, IdleInv, CountLocs
  <2> QED
    BY <1>2, <2>3, <2>5, <2>6, <2>7, Zenon DEF RestInv
<1>4. CASE waker[k] # "io"
  <2>1. UNCHANGED <<unpinned, pinned, waker, loc>>
    BY <1>4, Zenon DEF TriggerEvent, Registered, queueVars
  <2>2. SchedInv' /\ HomesKept
    BY <1>1, <2>1, QuietKeeps, Zenon DEF WaitInv, SchedInv, JobTypes
  <2>3. PoolInv' /\ IdleInv'
    BY <1>1, <2>1, SMTT(30) DEF WaitInv, PoolInv, IdleInv
  <2>4. CountInv'
    BY <1>1, <2>1, SameCounts, Zenon DEF WaitInv
  <2> QED
    BY <1>2, <2>2, <2>3, <2>4, Zenon DEF RestInv
<1> QED
  BY <1>3, <1>4, Zenon

LEMMA EventDoneKeeps ==
  ASSUME WaitInv, NEW w \in Workers, EventDone(w)
  PROVE  SchedInv' /\ HomesKept /\ RestInv'
<1>1. /\ loc[w] = "eventDone" /\ goto(w, "events") /\ pendingEventCnt' = pendingEventCnt - 1
      /\ UNCHANGED <<unpinned, pinned, job, waker, home, running, yields, term>>
      /\ UNCHANGED <<timers, cbs, evs, pool, pendingBlockingTasks>>
  BY Zenon DEF EventDone, queueVars, jobVars
<1>2. "events" \in Locations \ RunLocs /\ "eventDone" \notin RunLocs
  BY Zenon DEF Locations, RunLocs
<1>3. /\ SchedInv' /\ HomesKept
      /\ loc'[w] = "events" /\ \A v \in Workers \ {w} : loc'[v] = loc[v]
  BY <1>1, <1>2, IdleMoveKeeps, Zenon
<1>4. IoTypes' /\ TimerInv' /\ PoolInv'
  BY <1>1, SMTT(30) DEF WaitInv, IoTypes, TimerInv, PoolInv
<1>5. CountInv'
  <2>1. IoJobs' = IoJobs /\ Blocking' = Blocking /\ Counting' = Counting \ {w} /\ w \in Counting
    BY <1>1, <1>3, Zenon DEF IoJobs, Blocking, Counting
  <2>2. Cardinality(Counting \ {w}) = Cardinality(Counting) - 1
    BY <2>1, CountedFinite, FS_RemoveElement, Zenon
  <2>3. Cardinality(IoJobs) \in Nat /\ Cardinality(Counting) \in Nat
    BY CountedFinite, FS_CardinalityType, Zenon
  <2> QED
    BY <1>1, <2>1, <2>2, <2>3, SMTT(30) DEF WaitInv, CountInv
<1>6. IdleInv'
  BY <1>1, <1>3, Zenon DEF WaitInv, IdleInv
<1> QED
  BY <1>3, <1>4, <1>5, <1>6, Zenon DEF RestInv

LEMMA IOMInitInv == IOMInit => WaitInv
<1> SUFFICES ASSUME IOMInit PROVE WaitInv
  BY Zenon
<1>1. SchedInit
  BY Zenon DEF IOMInit
<1>2. IoTypes /\ TimerInv
  BY <1>1, SMTT(30) DEF IOMInit, SchedInit, IoTypes, TimerInv
<1>3. PoolInv
  BY <1>1, Zenon DEF IOMInit, SchedInit, PoolInv
<1>4. CountInv
  <2>1. IoJobs = {} /\ Counting = {} /\ Blocking = {}
    BY <1>1 DEF IOMInit, SchedInit, IoJobs, Counting, Blocking
  <2>2. Cardinality(IoJobs) = 0 /\ Cardinality(Counting) = 0 /\ Cardinality(Blocking) = 0
    BY <2>1, FS_EmptySet, Zenon
  <2> QED
    BY <2>2, SMTT(30) DEF CountInv, IOMInit
<1>5. IdleInv
  BY <1>1, Zenon DEF SchedInit, IdleInv
<1> QED
  BY <1>1, <1>2, <1>3, <1>4, <1>5, InitKeeps, Zenon DEF WaitInv

LEMMA IOMNextInv ==
  ASSUME WaitInv, [IOMNext]_iomVars
  PROVE  WaitInv' /\ HomesKept
<1>1. ASSUME NEW w \in Workers, LoopStep(w) \/ JobStep(w), UNCHANGED ioVars
      PROVE  SchedInv' /\ HomesKept /\ RestInv'
  BY <1>1, LoopKeeps, JobKeeps, LoopRest, JobRest, Zenon DEF WaitInv
<1>2. ASSUME NEW w \in Workers, IdleStep(w)
      PROVE  SchedInv' /\ HomesKept /\ RestInv'
  BY <1>2, IdleLookKeeps, IdleWakeKeeps, ListExpiredKeeps, ScheduleCbKeeps, TriggerEventKeeps,
     EventDoneKeeps, Zenon DEF IdleStep
<1>3. CASE (OutsideStep \/ Stop) /\ UNCHANGED ioVars
  BY <1>3, OutsideKeeps, OutsideRest, Zenon DEF WaitInv, RestInv
<1>4. CASE UNCHANGED iomVars
  <2>1. /\ UNCHANGED <<unpinned, pinned, job, waker, home, running, yields, term, loc>>
        /\ UNCHANGED <<timers, cbs, evs, pool, pendingEventCnt, pendingBlockingTasks>>
    BY <1>4, Zenon DEF iomVars, schedVars, queueVars, jobVars, workerVars, ioVars
  <2>2. SchedInv' /\ HomesKept
    BY <2>1, QuietKeeps, Zenon DEF WaitInv, SchedInv, JobTypes
  <2>3. IoTypes' /\ TimerInv' /\ PoolInv' /\ IdleInv'
    BY <2>1, SMTT(30) DEF WaitInv, IoTypes, TimerInv, PoolInv, IdleInv
  <2>4. CountInv'
    BY <2>1, SameCounts, Zenon DEF WaitInv
  <2> QED
    BY <2>2, <2>3, <2>4, Zenon DEF WaitInv
<1> QED
  BY <1>1, <1>2, <1>3, <1>4, AddTimerKeeps, AddEventKeeps, AsyncBlockingKeeps, PoolStepKeeps, ZenonT(30)
  DEF IOMNext, WaitInv, RestInv

\* The invariant of the scheduler under IOManager::idle(), with its timers,
\* its events and asyncBlocking().
THEOREM IOMInvariance == IOMSpec => []WaitInv
<1>1. WaitInv /\ [IOMNext]_iomVars => WaitInv'
  BY IOMNextInv, Zenon
<1> QED
  BY <1>1, IOMInitInv, PTL DEF IOMSpec

\* No job is lost or run twice when timers, events and the blocking pool
\* schedule it too.
THEOREM IOMNoTaskLost == IOMSpec => []TasksConserved
<1>1. WaitInv => TasksConserved
  BY Conserved, Zenon DEF WaitInv
<1> QED
  BY <1>1, IOMInvariance, PTL

\* ... nor does a fiber wake up on another worker than it parked on.
THEOREM IOMFibersStayHome == IOMSpec => NeverMigrates
<1>1. WaitInv /\ [IOMNext]_iomVars
        => [\A j \in Jobs : home[j] # None => home'[j] = home[j]]_schedVars
  BY IOMNextInv, Zenon DEF HomesKept
<1> QED
  BY <1>1, IOMInvariance, PTL DEF IOMSpec, NeverMigrates

\* A worker ends only when no fiber that waits for an event or for the
\* blocking pool is pinned to it: stopping() holds it up.
THEOREM WaitsHoldTheirWorker == IOMSpec => WaitsHoldWorker
<1>1. ASSUME WaitInv, [IOMNext]_iomVars, NEW w \in Workers, term'[w] # term[w],
             NEW k \in Jobs, home[k] = w
      PROVE  waker[k] \notin {"io", "pool"}
  <2>1. loc[w] = "scanActive"
    <3>1. ASSUME NEW v \in Workers, LoopStep(v), ~ScanActive(v) PROVE term' = term
      BY <3>1, Zenon DEF LoopStep, SetActive, TakeLocal, Steal, Inactive, Pending, PassOn, EnterIdle,
           LeaveIdle, ScanQueues
    <3>2. ASSUME NEW v \in Workers, JobStep(v) \/ AddEvent(v) \/ AsyncBlocking(v) PROVE term' = term
      BY <3>2, Zenon DEF JobStep, Wake, Submit, submit, RunTickle, Arm, YieldOrEnd, AddEvent,
           AsyncBlocking, workerVars
    <3>3. ASSUME NEW v \in Workers, IdleStep(v) PROVE term' = term
      BY <3>3, Zenon DEF IdleStep, IdleCheck, IdleScan, ScanStart, ListExpired, IdleTickle, EventDone,
           IdleActive, EpollWait, ScheduleCb, TriggerEvent
    <3>4. ASSUME \/ \E j \in Jobs : AddTimer(j)
                 \/ \E t \in Tasks : PoolStep(t)
                 \/ OutsideStep \/ Stop \/ UNCHANGED iomVars
          PROVE  term' = term
      BY <3>4, Zenon DEF AddTimer, PoolStep, OutsideStep, SubmitOutside, TickleOutside, StopTickle,
           StopRoot, StopJoin, Stop, iomVars, schedVars, workerVars
    <3>5. PICK v \in Workers : ScanActive(v)
      BY <1>1, <3>1, <3>2, <3>3, <3>4, ZenonT(30) DEF IOMNext
    <3> QED
      BY <1>1, <3>5, Zenon DEF ScanActive, WaitInv, IoTypes
  <2> QED
    BY <1>1, <2>1, Zenon DEF WaitInv, IdleInv
<1>2. WaitInv /\ [IOMNext]_iomVars =>
        [\A w \in Workers : term'[w] # term[w] =>
           \A k \in Jobs : home[k] = w => waker[k] \notin {"io", "pool"}]_iomVars
  BY <1>1, Zenon
<1> QED
  BY <1>2, IOMInvariance, PTL DEF IOMSpec, WaitsHoldWorker
============================================================================

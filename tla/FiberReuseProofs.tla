-------------------------- MODULE FiberReuseProofs --------------------------
(***************************************************************************)
(* The stack pool keeps its books for any number of threads, addresses and *)
(* sizes; cached callback fibers have no other owner, every stack belongs  *)
(* to one fiber, and the fibers use the pool as its own model allows, for  *)
(* any number of workers, fibers and stacks.                               *)
(***************************************************************************)
EXTENDS FiberReuse, WellFoundedInduction, TLAPS

(* The invariants of StackPool that need no sums over the blocks.  The     *)
(* gauges are integers here; that they never go below zero rests on what   *)
(* the blocks add up to, which is left to TLC.                             *)

Holding == {"allocated", "acquired", "free", "trimFree"}

PoolTyped ==
  /\ place \in [Blocks -> {"system", "raw", "out", "cached"}]
  /\ usable \in [Blocks -> Nat]
  /\ call \in [Threads -> [at : {"none", "allocate", "allocated", "acquired", "free", "trim", "trimFree"},
                           size : Nat, block : Blocks \cup {None}]]
  /\ cachedBytes \in Int /\ checkedOutBytes \in Int /\ peakCheckedOutBytes \in Int

\* A call holds a block exactly while it says so, asks for a size that may
\* be asked for, and the block it allocates is large enough.
Holds ==
  \A t \in Threads :
    /\ call[t].at \in Holding <=> call[t].block # None
    /\ call[t].at \in {"allocate", "allocated", "acquired"} => call[t].size \in Requests
    /\ call[t].at \in {"allocated", "acquired"} => usable[call[t].block] >= call[t].size

PoolInv == PoolTyped /\ Holds /\ OneOwner /\ CacheBounded /\ PeakCovers
----------------------------------------------------------------------------
\* NextPowerOfTwo returns a power of two that is not below its argument, if
\* there is one (stack_allocator.cpp:29-38).
LEMMA PowerAbove ==
  ASSUME NEW n \in Nat, \E p \in Powers : n <= p
  PROVE  NextPowerOfTwo(n) \in Powers /\ n <= NextPowerOfTwo(n)
<1> DEFINE T == {p \in Powers : n <= p}
<1>1. T \subseteq Nat /\ T # {}
  BY PoolAssumption, Zenon
<1>2. PICK p \in T : \A q \in T : ~(<<q, p>> \in OpToRel(<, Nat))
  <2> HIDE DEF T
  <2> DEFINE R == OpToRel(<, Nat)
  <2>1. IsWellFoundedOn(R, Nat)
    BY NatLessThanWellFounded, Zenon
  <2> HIDE DEF R
  <2>2. \E p \in T : \A q \in T : ~(<<q, p>> \in R)
    BY <1>1, <2>1, WFMin, Zenon
  <2> QED
    BY <2>2, Zenon DEF R
<1>3. ASSUME NEW q \in T PROVE p <= q
  <2>1. p \in Nat /\ q \in Nat
    BY <1>1, Zenon
  <2>2. <<q, p>> \in Nat \X Nat /\ <<q, p>>[1] = q /\ <<q, p>>[2] = p
    BY <2>1, Zenon
  <2>3. q < p => <<q, p>> \in OpToRel(<, Nat)
    BY <2>2, Zenon DEF OpToRel
  <2>4. ~(q < p)
    BY <1>2, <2>3, Zenon
  <2> QED
    BY <2>1, <2>4
<1> QED
  BY <1>2, <1>3, Zenon DEF NextPowerOfTwo

\* The class of a request is a natural number that is not below it.
LEMMA ClassFits ==
  ASSUME NEW n \in Requests
  PROVE  /\ pooledSizeFor(n) \in Nat /\ n <= pooledSizeFor(n)
         /\ NormalizeMinimum(n) \in Nat /\ n <= NormalizeMinimum(n)
<1>1. n \in Nat /\ Minimum \in Nat
  BY PoolAssumption, Zenon
<1>2. NormalizeMinimum(n) \in Nat /\ n <= NormalizeMinimum(n)
  BY <1>1 DEF NormalizeMinimum
<1>3. \E p \in Powers : NormalizeMinimum(n) <= p
  BY PoolAssumption, Zenon DEF NormalizeMinimum
<1>4. NextPowerOfTwo(NormalizeMinimum(n)) \in Powers /\ NormalizeMinimum(n) <= NextPowerOfTwo(NormalizeMinimum(n))
  BY <1>2, <1>3, PowerAbove, Zenon
<1>5. PICK p \in Nat : p = NextPowerOfTwo(NormalizeMinimum(n)) /\ NormalizeMinimum(n) <= p
  BY <1>4, PoolAssumption, Zenon
<1>6. n <= p
  BY <1>1, <1>2, <1>5
<1> QED
  BY <1>2, <1>5, <1>6, Zenon DEF pooledSizeFor

\* Whole pages are not less than what is put in them.
LEMMA AlignedFits ==
  ASSUME NEW n \in Nat
  PROVE  AlignUp(n) \in Nat /\ n <= AlignUp(n)
<1>1. Guard \in Nat
  BY PoolAssumption, Zenon
<1>2. CASE Guard = 0
  BY <1>2 DEF AlignUp
<1>3. CASE Guard # 0
  <2>1. n % Guard \in 0..(Guard - 1)
    BY <1>1, <1>3
  <2> QED
    BY <2>1, <1>1, <1>3 DEF AlignUp
<1> QED
  BY <1>2, <1>3, Zenon

\* A block has a natural size, its guard page included.
LEMMA SizeNat ==
  ASSUME PoolTyped, NEW b \in Blocks
  PROVE  allocationSize(b) \in Nat
  BY PoolAssumption DEF PoolTyped, allocationSize

\* Nothing is held and nothing cached in the beginning.
LEMMA InitInv == PoolInit => PoolInv
<1> SUFFICES ASSUME PoolInit PROVE PoolInv
  BY Zenon
<1> USE PoolAssumption DEF PoolInit, NoCall
<1>1. PoolTyped
  BY DEF PoolTyped
<1>2. Holds
  BY Zenon DEF Holds, Holding
<1>3. OneOwner
  BY Zenon DEF OneOwner
<1>4. CacheBounded /\ PeakCovers
  BY DEF CacheBounded, PeakCovers
<1> QED
  BY <1>1, <1>2, <1>3, <1>4, Zenon DEF PoolInv
----------------------------------------------------------------------------
\* The sections of acquire keep the invariant: a block from a list or from
\* the system is held by nobody else.
LEMMA AcquireInv ==
  ASSUME PoolInv, NEW t \in Threads,
         \/ \E n \in Requests : AcquireMiss(t, n) \/ \E b \in Blocks : AcquireCached(t, n, b)
         \/ \E b \in Blocks : AllocateRaw(t, b)
         \/ AllocateFails(t) \/ AcquireCount(t) \/ AcquireReturn(t)
  PROVE  PoolInv'
<1> USE PoolAssumption DEF PoolInv
<1>1. ASSUME NEW n \in Requests, AcquireMiss(t, n) PROVE PoolInv'
  <2> USE <1>1 DEF AcquireMiss, enter
  <2>1. PoolTyped'
    BY Zenon DEF PoolTyped
  <2>2. Holds'
    BY Zenon DEF Holds, Holding, PoolTyped, NoCall
  <2>3. OneOwner'
    BY Zenon DEF OneOwner, PoolTyped, NoCall
  <2> QED
    BY <2>1, <2>2, <2>3, Zenon DEF CacheBounded, PeakCovers
<1>2. ASSUME NEW n \in Requests, NEW b \in Blocks, AcquireCached(t, n, b) PROVE PoolInv'
  <2> USE <1>2 DEF AcquireCached, enter
  <2>0. allocationSize(b) \in Nat /\ usable[b] >= n
    BY SizeNat, ClassFits, Zenon DEF Fits
  <2>1. PoolTyped'
    <3>1. n \in Nat
      BY Zenon
    <3>2. cachedBytes' \in Int /\ checkedOutBytes' \in Int /\ peakCheckedOutBytes' \in Int
      BY <2>0 DEF PoolTyped, checkOut, Larger
    <3> QED
      BY <3>1, <3>2, Zenon DEF PoolTyped
  <2>2. Holds'
    BY <2>0, Zenon DEF Holds, Holding, PoolTyped, NoCall
  <2>3. OneOwner'
    BY Zenon DEF OneOwner, PoolTyped, NoCall
  <2>4. CacheBounded' /\ PeakCovers'
    BY <2>0 DEF CacheBounded, PeakCovers, PoolTyped, checkOut, Larger
  <2> QED
    BY <2>1, <2>2, <2>3, <2>4, Zenon
<1>3. ASSUME NEW b \in Blocks, AllocateRaw(t, b) PROVE PoolInv'
  <2> USE <1>3 DEF AllocateRaw, enter
  <2> DEFINE n == call[t].size
             size == AlignUp(IF Cacheable(n) THEN pooledSizeFor(n) ELSE NormalizeMinimum(n))
  <2>0. n \in Requests /\ size \in Nat /\ n <= size
    <3>1. n \in Requests
      BY Zenon DEF Holds
    <3>2. pooledSizeFor(n) \in Nat /\ n <= pooledSizeFor(n) /\ NormalizeMinimum(n) \in Nat /\ n <= NormalizeMinimum(n)
      BY <3>1, ClassFits, Zenon
    <3>3. PICK m \in Nat : m = IF Cacheable(n) THEN pooledSizeFor(n) ELSE NormalizeMinimum(n)
      BY <3>2, Zenon
    <3>4. AlignUp(m) \in Nat /\ m <= AlignUp(m)
      BY AlignedFits, Zenon
    <3> QED
      BY <3>1, <3>2, <3>3, <3>4
  <2> HIDE DEF size
  <2>1. /\ usable' = [usable EXCEPT ![b] = size]
        /\ call' = [call EXCEPT ![t] = [at |-> "allocated", size |-> n, block |-> b]]
        /\ place' = [place EXCEPT ![b] = "raw"]
    BY Zenon DEF size
  <2>2. PoolTyped'
    BY <2>0, <2>1 DEF PoolTyped
  <2>3. Holds'
    <3>1. /\ call'[t] = [at |-> "allocated", size |-> n, block |-> b] /\ usable'[b] = size
          /\ \A u \in Threads \ {t} : call'[u] = call[u]
      BY <2>1, Zenon DEF PoolTyped
    <3>2. ASSUME NEW u \in Threads \ {t}, call[u].block # None
          PROVE  usable'[call[u].block] = usable[call[u].block]
      BY <2>1, <3>2, Zenon DEF PoolTyped, OneOwner
    <3>3. b # None
      BY PoolAssumption, Zenon
    <3> SUFFICES ASSUME NEW u \in Threads
                 PROVE  /\ call'[u].at \in Holding <=> call'[u].block # None
                        /\ call'[u].at \in {"allocate", "allocated", "acquired"} => call'[u].size \in Requests
                        /\ call'[u].at \in {"allocated", "acquired"} => usable'[call'[u].block] >= call'[u].size
      BY Zenon DEF Holds
    <3> HIDE <1>3
    <3>4. CASE u = t
      BY <2>0, <3>1, <3>3, <3>4, PoolAssumption DEF Holding
    <3>5. CASE u # t
      <4>1. call'[u] = call[u]
        BY <3>1, <3>5, Zenon
      <4>2. CASE call[u].block = None
        BY <4>1, <4>2, Zenon DEF Holds, Holding
      <4>3. CASE call[u].block # None
        BY <3>2, <3>5, <4>1, <4>3, Zenon DEF Holds
      <4> QED
        BY <4>2, <4>3, Zenon
    <3> QED
      BY <3>4, <3>5, Zenon
  <2>4. OneOwner'
    BY <2>1 DEF OneOwner, PoolTyped
  <2> QED
    BY <2>2, <2>3, <2>4, Zenon DEF CacheBounded, PeakCovers
<1>4. ASSUME AllocateFails(t) \/ AcquireReturn(t) PROVE PoolInv'
  <2> USE <1>4 DEF AllocateFails, AcquireReturn, leave, NoCall
  <2>1. PoolTyped'
    BY DEF PoolTyped
  <2>2. Holds'
    BY DEF Holds, Holding, PoolTyped
  <2>3. OneOwner'
    BY DEF OneOwner, PoolTyped
  <2> QED
    BY <2>1, <2>2, <2>3, Zenon DEF CacheBounded, PeakCovers
<1>5. ASSUME AcquireCount(t) PROVE PoolInv'
  <2> USE <1>5 DEF AcquireCount, enter
  <2>0. call[t].block \in Blocks /\ allocationSize(call[t].block) \in Nat
    <3>1. call[t].block \in Blocks
      BY Zenon DEF Holds, Holding, PoolTyped
    <3> QED
      BY <3>1, SizeNat, Zenon
  <2>1. PoolTyped'
    BY <2>0 DEF PoolTyped, checkOut, Larger
  <2>2. Holds'
    BY <2>0, Zenon DEF Holds, Holding, PoolTyped
  <2>3. OneOwner'
    BY <2>0, Zenon DEF OneOwner, PoolTyped
  <2>4. CacheBounded' /\ PeakCovers'
    BY <2>0 DEF CacheBounded, PeakCovers, PoolTyped, checkOut, Larger
  <2> QED
    BY <2>1, <2>2, <2>3, <2>4, Zenon
<1> QED
  BY <1>1, <1>2, <1>3, <1>4, <1>5, Zenon

\* release, trim and resetStats keep it: a block is cached only where there
\* is room for it.
LEMMA ReleaseInv ==
  ASSUME PoolInv, NEW t \in Threads,
         \/ \E b \in Blocks : ReleaseToCache(t, b) \/ ReleaseToSystem(t, b) \/ TrimVictim(t, b)
         \/ \E n \in Requests : Trim(t, n)
         \/ FreeRaw(t) \/ TrimReturn(t) \/ resetStats(t)
  PROVE  PoolInv'
<1> USE PoolAssumption DEF PoolInv
<1>1. ASSUME NEW b \in Blocks, ReleaseToCache(t, b) PROVE PoolInv'
  <2> USE <1>1 DEF ReleaseToCache
  <2>0. allocationSize(b) \in Nat
    BY SizeNat, Zenon
  <2>1. PoolTyped'
    BY <2>0 DEF PoolTyped
  <2>2. Holds'
    BY Zenon DEF Holds
  <2>3. OneOwner'
    BY Zenon DEF OneOwner, PoolTyped, Owned
  <2>4. CacheBounded' /\ PeakCovers'
    BY <2>0 DEF CacheBounded, PeakCovers, PoolTyped, Room
  <2> QED
    BY <2>1, <2>2, <2>3, <2>4, Zenon
<1>2. ASSUME NEW b \in Blocks, ReleaseToSystem(t, b) PROVE PoolInv'
  <2> USE <1>2 DEF ReleaseToSystem, enter
  <2>0. allocationSize(b) \in Nat
    BY SizeNat, Zenon
  <2>1. PoolTyped'
    BY <2>0 DEF PoolTyped
  <2>2. Holds'
    BY Zenon DEF Holds, Holding, PoolTyped
  <2>3. OneOwner'
    BY Zenon DEF OneOwner, PoolTyped, Owned
  <2>4. CacheBounded' /\ PeakCovers'
    BY <2>0 DEF CacheBounded, PeakCovers, PoolTyped
  <2> QED
    BY <2>1, <2>2, <2>3, <2>4, Zenon
<1>3. ASSUME NEW b \in Blocks, TrimVictim(t, b) PROVE PoolInv'
  <2> USE <1>3 DEF TrimVictim, enter
  <2>0. allocationSize(b) \in Nat
    BY SizeNat, Zenon
  <2>1. PoolTyped'
    BY <2>0 DEF PoolTyped
  <2>2. Holds'
    BY Zenon DEF Holds, Holding, PoolTyped
  <2>3. OneOwner'
    BY Zenon DEF OneOwner, PoolTyped
  <2>4. CacheBounded' /\ PeakCovers'
    BY <2>0, SMTT(30) DEF CacheBounded, PeakCovers, PoolTyped
  <2> QED
    BY <2>1, <2>2, <2>3, <2>4, Zenon
<1>4. ASSUME NEW n \in Requests, Trim(t, n) PROVE PoolInv'
  <2> USE <1>4 DEF Trim, enter
  <2>1. PoolTyped'
    BY Zenon DEF PoolTyped
  <2>2. Holds'
    BY Zenon DEF Holds, Holding, PoolTyped
  <2>3. OneOwner'
    BY Zenon DEF OneOwner, PoolTyped
  <2> QED
    BY <2>1, <2>2, <2>3, Zenon DEF CacheBounded, PeakCovers
<1>5. ASSUME FreeRaw(t) PROVE PoolInv'
  <2>1. PICK b \in Blocks : b = call[t].block
    BY <1>5, Zenon DEF FreeRaw, Holds, Holding, PoolTyped
  <2>2. PICK r \in [at : {"none", "trim"}, size : Nat, block : {None}] : call' = [call EXCEPT ![t] = r]
    <3>1. CASE call[t].at = "free"
      BY <1>5, <3>1, Zenon DEF FreeRaw, leave, NoCall
    <3>2. CASE call[t].at # "free"
      BY <1>5, <3>2, Zenon DEF FreeRaw, enter, PoolTyped
    <3> QED
      BY <3>1, <3>2, Zenon
  <2>3. /\ place' = [place EXCEPT ![b] = "system"]
        /\ usable' = [usable EXCEPT ![b] = 0]
        /\ UNCHANGED <<cachedBytes, checkedOutBytes, peakCheckedOutBytes>>
    BY <1>5, <2>1, Zenon DEF FreeRaw
  <2>4. /\ \A u \in Threads \ {t} : call'[u] = call[u] /\ call[u].block # b
        /\ call'[t].at \in {"none", "trim"} /\ call'[t].block = None
    BY <2>1, <2>2, Zenon DEF PoolTyped, OneOwner
  <2>5. PoolTyped'
    BY <2>2, <2>3, Zenon DEF PoolTyped
  <2>6. ASSUME NEW u \in Threads \ {t}, call[u].block # None
        PROVE  place'[call[u].block] = place[call[u].block] /\ usable'[call[u].block] = usable[call[u].block]
    BY <2>3, <2>4, <2>6, Zenon DEF PoolTyped
  <2>7. Holds'
    <3> SUFFICES ASSUME NEW u \in Threads
                 PROVE  /\ call'[u].at \in Holding <=> call'[u].block # None
                        /\ call'[u].at \in {"allocate", "allocated", "acquired"} => call'[u].size \in Requests
                        /\ call'[u].at \in {"allocated", "acquired"} => usable'[call'[u].block] >= call'[u].size
      BY Zenon DEF Holds
    <3>1. CASE u = t
      BY <2>4, <3>1, Zenon DEF Holding
    <3>2. CASE u # t
      <4>1. call'[u] = call[u]
        BY <2>4, <3>2, Zenon
      <4>2. CASE call[u].block = None
        BY <4>1, <4>2, Zenon DEF Holds, Holding
      <4>3. CASE call[u].block # None
        BY <2>6, <3>2, <4>1, <4>3, Zenon DEF Holds
      <4> QED
        BY <4>2, <4>3, Zenon
    <3> QED
      BY <3>1, <3>2, Zenon
  <2>8. OneOwner'
    <3> SUFFICES ASSUME NEW u \in Threads, NEW v \in Threads, call'[u].block # None
                 PROVE  /\ u # v => call'[v].block # call'[u].block
                        /\ place'[call'[u].block] = IF call'[u].at = "acquired" THEN "out" ELSE "raw"
      BY Zenon DEF OneOwner
    <3>1. u # t /\ call'[u] = call[u]
      BY <2>4, Zenon
    <3>2. place'[call[u].block] = place[call[u].block]
      BY <2>6, <3>1, Zenon
    <3>3. /\ u # v => call[v].block # call[u].block
          /\ place[call[u].block] = IF call[u].at = "acquired" THEN "out" ELSE "raw"
      BY <3>1, Zenon DEF OneOwner
    <3>4. call'[v].block = call[v].block \/ call'[v].block = None
      BY <2>4, Zenon
    <3> QED
      BY <3>1, <3>2, <3>3, <3>4, Zenon
  <2> QED
    BY <2>3, <2>5, <2>7, <2>8, Zenon DEF CacheBounded, PeakCovers
<1>6. ASSUME TrimReturn(t) PROVE PoolInv'
  <2> USE <1>6 DEF TrimReturn, leave, NoCall
  <2>1. PoolTyped'
    BY Zenon DEF PoolTyped
  <2>2. Holds'
    BY Zenon DEF Holds, Holding, PoolTyped
  <2>3. OneOwner'
    BY Zenon DEF OneOwner, PoolTyped
  <2> QED
    BY <2>1, <2>2, <2>3, Zenon DEF CacheBounded, PeakCovers
<1>7. ASSUME resetStats(t) PROVE PoolInv'
  BY <1>7 DEF resetStats, PoolTyped, Holds, OneOwner, CacheBounded, PeakCovers
<1> QED
  BY <1>1, <1>2, <1>3, <1>4, <1>5, <1>6, <1>7, Zenon

\* Every step keeps it.
LEMMA NextInv == PoolInv /\ [PoolNext]_vars => PoolInv'
<1> SUFFICES ASSUME PoolInv, [PoolNext]_vars PROVE PoolInv'
  BY Zenon
<1>1. CASE PoolNext
  BY <1>1, AcquireInv, ReleaseInv, Zenon DEF PoolNext
<1>2. CASE UNCHANGED vars
  BY <1>2, Zenon DEF vars, PoolInv, PoolTyped, Holds, OneOwner, CacheBounded, PeakCovers
<1> QED
  BY <1>1, <1>2, Zenon
----------------------------------------------------------------------------
\* The invariant holds in every reachable state of the allocator.
THEOREM Invariance == PoolSpec => []PoolInv
  BY InitInv, NextInv, PTL DEF PoolSpec

\* The free lists never hold more than maxCachedBytes.
THEOREM CacheStaysBounded == PoolSpec => []CacheBounded
<1>1. PoolInv => CacheBounded
  BY Zenon DEF PoolInv
<1> QED
  BY <1>1, Invariance, PTL

\* No stack ever has two owners.
THEOREM StackHasOneOwner == PoolSpec => []OneOwner
<1>1. PoolInv => OneOwner
  BY Zenon DEF PoolInv
<1> QED
  BY <1>1, Invariance, PTL

\* A stack that acquire() returns is at least as large as was asked for.
THEOREM StackLargeEnough == PoolSpec => []StackFits
<1>1. PoolInv => StackFits
  BY Zenon DEF PoolInv, Holds, StackFits
<1> QED
  BY <1>1, Invariance, PTL

\* The peak is never below what is checked out.
THEOREM PeakIsPeak == PoolSpec => []PeakCovers
<1>1. PoolInv => PeakCovers
  BY Zenon DEF PoolInv
<1> QED
  BY <1>1, Invariance, PTL

-----------------------------------------------------------------------------
(* The invariant of the fibers and their stacks, and the steps in which a  *)
(* fiber gets its stack from the allocator or gives it back.               *)

FiberTyped ==
  /\ state \in [Fibers -> {"none", "READY", "RUNNING", "TERM"}]
  /\ stack \in [Fibers -> Blocks \cup {None}]
  /\ origin \in [Fibers -> Threads \cup {None}]
  /\ kept \in [Fibers -> BOOLEAN]
  /\ cur \in [Threads -> Fibers \cup {None}] /\ ran \in [Threads -> BOOLEAN]
  /\ cache \in [Threads -> Seq(Fibers)]
  /\ build \in [Threads -> [fiber : Fibers \cup {None}, size : Nat, callback : BOOLEAN]]
  /\ dying \in [Threads -> Fibers \cup {None}]
  /\ stopped \in BOOLEAN

\* A fiber has a stack exactly while it exists, and nobody holds one that
\* does not.  A READY fiber is kept; one runs on exactly one worker.
Lives ==
  /\ \A f \in Fibers :
       /\ state[f] = "none" <=> stack[f] = None
       /\ state[f] = "none" => ~kept[f]
       /\ state[f] = "READY" => kept[f]
       /\ state[f] = "RUNNING" => \E t \in Threads : cur[t] = f /\ ~ran[t]
  /\ \A t \in Threads :
       /\ ran[t] => cur[t] # None
       /\ cur[t] # None => state[cur[t]] # "none"
       /\ cur[t] # None /\ ~ran[t] => state[cur[t]] = "RUNNING"
       /\ \A u \in Threads : cur[t] # None /\ cur[t] = cur[u] /\ ~ran[t] /\ ~ran[u] => t = u

\* A fiber under construction is nobody else's; the thread is in acquire().
Builds ==
  \A t \in Threads :
    /\ build[t] = NoBuild => call[t].at \in {"none", "free", "trim", "trimFree"}
    /\ build[t] # NoBuild =>
         /\ build[t].fiber \in Fibers /\ build[t].size \in Requests
         /\ state[build[t].fiber] = "none" /\ dying[t] = None
         /\ build[t].callback => cur[t] = None
         /\ call[t].at \in {"none", "allocate", "allocated", "acquired"}
         /\ \A u \in Threads : build[u].fiber = build[t].fiber => t = u

\* A fiber that is being destroyed has ended (~Fiber insists on it) and has
\* no owner.
Dies ==
  \A t \in Threads : dying[t] # None =>
    /\ state[dying[t]] = "TERM" /\ ~kept[dying[t]] /\ call[t] = NoCall
    /\ \A u \in Threads : cur[u] # dying[t] /\ (dying[u] = dying[t] => t = u)

\* CachedUnaliased, by fibers.
Unshared ==
  \A w \in Threads : \A i \in DOMAIN cache[w] : \A f \in Fibers : cache[w][i] = f =>
    /\ state[f] = "TERM" /\ origin[f] = w /\ ~kept[f]
    /\ \A v \in Threads :
         /\ cur[v] # f /\ dying[v] # f
         /\ \A j \in DOMAIN cache[v] : cache[v][j] = f => v = w /\ i = j

FiberInv == FiberTyped /\ Lives /\ Builds /\ Dies /\ Unshared /\ StacksOwned

ReuseInv == PoolInv /\ FiberInv
----------------------------------------------------------------------------
LEMMA ReuseInvInit ==
  ASSUME ReuseInit
  PROVE  ReuseInv
<1> USE PoolAssumption, ReuseAssumption DEF ReuseInit
<1>1. PoolInv
  <2>1. PoolInit
    BY Zenon
  <2> HIDE DEF ReuseInit
  <2> QED
    BY <2>1, InitInv, Zenon
<1>2. FiberTyped
  <2>1. <<>> \in Seq(Fibers) /\ NoBuild \in [fiber : Fibers \cup {None}, size : Nat, callback : BOOLEAN]
    BY DEF NoBuild
  <2> QED
    BY <2>1, Zenon DEF FiberTyped
<1>3. Lives
  BY Zenon DEF Lives
<1>4. Builds /\ Dies
  BY Zenon DEF Builds, Dies, PoolInit, NoCall
<1>5. Unshared
  BY DEF Unshared
<1>6. StacksOwned
  BY Zenon DEF StacksOwned, Owned, PoolInit
<1> QED
  BY <1>1, <1>2, <1>3, <1>4, <1>5, <1>6, Zenon DEF ReuseInv, FiberInv

\* A fiber that is being destroyed has a stack, and the allocator knows it as
\* handed out.
LEMMA DyingHasStack ==
  ASSUME FiberInv, NEW t \in Threads, dying[t] # None
  PROVE  dying[t] \in Fibers /\ stack[dying[t]] \in Blocks
BY DEF FiberInv, FiberTyped, Dies, Lives

\* The entries of a cache with one fiber pushed.
LEMMA PushedCache ==
  ASSUME NEW c \in Seq(Fibers), NEW f \in Fibers
  PROVE  /\ Append(c, f) \in Seq(Fibers) /\ Len(c) \in Nat
         /\ \A i \in DOMAIN Append(c, f) :
              (i \in DOMAIN c /\ Append(c, f)[i] = c[i]) \/ (i = Len(c) + 1 /\ Append(c, f)[i] = f)
OBVIOUS

\* A step that leaves the fibers, their owners and the caches alone.
LEMMA SameFibers ==
  ASSUME Lives, Unshared, UNCHANGED <<state, stack, origin, kept, cur, ran, cache, dying>>
  PROVE  Lives' /\ Unshared'
BY DEF Lives, Unshared

\* A step that touches one fiber, in no cache, or its pointers.
LEMMA UnsharedStays ==
  ASSUME Unshared, NEW f \in Fibers, cache' = cache,
         \A u \in Threads : \A i \in DOMAIN cache[u] : cache[u][i] # f,
         \A g \in Fibers \ {f} : state'[g] = state[g] /\ origin'[g] = origin[g] /\ kept'[g] = kept[g],
         \A u \in Threads : cur'[u] = cur[u] \/ cur'[u] = None \/ cur'[u] = f,
         \A u \in Threads : dying'[u] = dying[u] \/ dying'[u] = None \/ dying'[u] = f
  PROVE  Unshared'
<1> USE ReuseAssumption
<1>1. ASSUME NEW w \in Threads, NEW i \in DOMAIN cache[w], NEW g \in Fibers, cache[w][i] = g
      PROVE  /\ state'[g] = "TERM" /\ origin'[g] = w /\ ~kept'[g]
             /\ \A v \in Threads : /\ cur'[v] # g /\ dying'[v] # g
                                   /\ \A j \in DOMAIN cache[v] : cache[v][j] = g => v = w /\ i = j
  <2>1. g # f /\ g # None
    BY <1>1, Zenon
  <2>2. /\ state[g] = "TERM" /\ origin[g] = w /\ ~kept[g]
        /\ \A v \in Threads : /\ cur[v] # g /\ dying[v] # g
                              /\ \A j \in DOMAIN cache[v] : cache[v][j] = g => v = w /\ i = j
    BY <1>1 DEF Unshared
  <2>3. state'[g] = state[g] /\ origin'[g] = origin[g] /\ kept'[g] = kept[g]
    BY <2>1, Zenon
  <2> QED
    BY <2>1, <2>2, <2>3, Zenon
<1> QED
  BY <1>1 DEF Unshared

\* A step that keeps a fiber or drops the last keeper of one that has ended.
LEMMA LivesStays ==
  ASSUME Lives, UNCHANGED <<state, stack, cur, ran>>,
         \A f \in Fibers : kept'[f] = kept[f] \/ (state[f] # "none" /\ (kept'[f] \/ state[f] # "READY"))
  PROVE  Lives'
BY DEF Lives

\* A step that builds nothing leaves what others build alone.
LEMMA BuildsStay ==
  ASSUME Builds, call' = call, build' = build,
         \A f \in Fibers : state[f] = "none" => state'[f] = "none",
         \A u \in Threads : build[u] # NoBuild => dying'[u] = dying[u] /\ (cur[u] = None => cur'[u] = None)
  PROVE  Builds'
BY DEF Builds

\* A step that touches one fiber, which nobody destroys yet.
LEMMA DiesStay ==
  ASSUME Dies, FiberTyped, call' = call, NEW f \in Fibers, \A u \in Threads : dying[u] # f,
         \A g \in Fibers \ {f} : state'[g] = state[g] /\ kept'[g] = kept[g],
         \A u \in Threads : cur'[u] = cur[u] \/ cur'[u] = None \/ cur'[u] = f,
         \A u \in Threads : dying'[u] = dying[u] \/ dying'[u] = None
                            \/ (dying'[u] = f /\ call[u] = NoCall /\ state'[f] = "TERM" /\ ~kept'[f]),
         \A u, v \in Threads : dying'[u] = f => cur'[v] # f /\ (dying'[v] = f => u = v)
  PROVE  Dies'
<1> USE ReuseAssumption
<1>1. ASSUME NEW t \in Threads, dying'[t] # None, dying'[t] # f
      PROVE  /\ state'[dying'[t]] = "TERM" /\ ~kept'[dying'[t]] /\ call'[t] = NoCall
             /\ \A u \in Threads : cur'[u] # dying'[t] /\ (dying'[u] = dying'[t] => t = u)
  <2>1. PICK g \in Fibers \ {f} : g = dying[t] /\ dying'[t] = g /\ g # None
    BY <1>1, Zenon DEF FiberTyped
  <2>2. state[g] = "TERM" /\ ~kept[g] /\ call[t] = NoCall
        /\ \A u \in Threads : cur[u] # g /\ (dying[u] = g => t = u)
    BY <2>1 DEF Dies
  <2>3. state'[g] = state[g] /\ kept'[g] = kept[g]
    BY <2>1, Zenon
  <2>4. \A u \in Threads : cur'[u] # g /\ (dying'[u] = g => t = u)
    BY <2>1, <2>2, Zenon
  <2> QED
    BY <2>1, <2>2, <2>3, <2>4, Zenon
<1>2. ASSUME NEW t \in Threads, dying'[t] = f
      PROVE  /\ state'[f] = "TERM" /\ ~kept'[f] /\ call'[t] = NoCall
             /\ \A u \in Threads : cur'[u] # f /\ (dying'[u] = f => t = u)
  BY <1>2, Zenon
<1> QED
  BY <1>1, <1>2 DEF Dies

\* Every step is a step of the allocator or leaves it alone.
LEMMA StepOfPool ==
  ASSUME ReuseInv, [ReuseNext]_reuseVars
  PROVE  [PoolNext]_vars
<1>1. CASE UNCHANGED reuseVars
  BY <1>1, Zenon DEF reuseVars
<1>2. CASE Stop
  BY <1>2, Zenon DEF Stop
<1>3. ASSUME NEW t \in Threads,
             \/ NewCallback(t) \/ ReuseCallback(t) \/ (\E n \in Requests : NewFiber(t, n))
             \/ (\E f \in Fibers : RunFiber(t, f) \/ DropKept(t, f))
             \/ Keep(t) \/ Yield(t) \/ End(t) \/ AfterRun(t) \/ (\E w \in Threads : ClearCache(t, w))
      PROVE  UNCHANGED vars
  BY <1>3, Zenon DEF NewCallback, Construct, ReuseCallback, NewFiber, RunFiber, DropKept, Keep, Yield, End, AfterRun,
              ClearCache
<1>4. ASSUME NEW t \in Threads, Acquire(t) PROVE PoolNext
  <2>1. build[t].size \in Requests
    BY <1>4, Zenon DEF Acquire, ReuseInv, FiberInv, Builds
  <2> QED
    BY <1>4, <2>1, Zenon DEF Acquire, PoolNext
<1>5. ASSUME NEW t \in Threads, ConstructFails(t) \/ Constructed(t) PROVE PoolNext
  BY <1>5, Zenon DEF ConstructFails, Constructed, PoolNext
<1>6. ASSUME NEW t \in Threads, DestroyFiber(t) PROVE PoolNext
  <2>1. stack[dying[t]] \in Blocks
    BY <1>6, DyingHasStack, Zenon DEF DestroyFiber, ReuseInv
  <2> QED
    BY <1>6, <2>1, Zenon DEF DestroyFiber, PoolNext
<1>7. ASSUME NEW t \in Threads, PoolWork(t) PROVE PoolNext
  BY <1>7, Zenon DEF PoolWork, PoolNext
<1> QED
  BY <1>1, <1>2, <1>3, <1>4, <1>5, <1>6, <1>7, Zenon DEF ReuseNext
----------------------------------------------------------------------------
\* Until acquire() returns, and in FreeRaw and trim(), no stack becomes or
\* ceases to be a fiber's.
LEMMA OwnedKept ==
  ASSUME PoolInv, NEW t \in Threads,
         \/ \E n \in Requests : AcquireMiss(t, n) \/ Trim(t, n) \/ \E b \in Blocks : AcquireCached(t, n, b)
         \/ \E b \in Blocks : AllocateRaw(t, b) \/ TrimVictim(t, b)
         \/ AllocateFails(t) \/ AcquireCount(t) \/ FreeRaw(t) \/ TrimReturn(t) \/ resetStats(t),
         NEW b \in Blocks
  PROVE  Owned(b)' <=> Owned(b)
<1> USE PoolAssumption DEF PoolInv
<1>1. ASSUME UNCHANGED place, \E r : call' = [call EXCEPT ![t] = r] /\ r.block = None, call[t].block = None
      PROVE  Owned(b)' <=> Owned(b)
  BY <1>1, Zenon DEF Owned, PoolTyped
<1>2. ASSUME NEW c \in Blocks, NEW l, l # "out" \/ call'[t].block = c, ~Owned(c),
             place' = [place EXCEPT ![c] = l],
             \E r : call' = [call EXCEPT ![t] = r] /\ r.block \in {c, None}, call[t].block \in {c, None}
      PROVE  Owned(b)' <=> Owned(b)
  BY <1>2, Zenon DEF Owned, PoolTyped
<1>3. call[t] = NoCall => call[t].block = None
  BY DEF NoCall
<1>4. \A n \in Requests : AcquireMiss(t, n) \/ Trim(t, n) => Owned(b)' <=> Owned(b)
  BY <1>1, <1>3, Zenon DEF AcquireMiss, Trim, enter
<1>5. ASSUME AllocateFails(t) \/ TrimReturn(t) PROVE Owned(b)' <=> Owned(b)
  <2>1. call[t].block = None
    BY <1>5, Zenon DEF AllocateFails, TrimReturn, Holds, Holding
  <2> QED
    BY <1>1, <1>5, <2>1, Zenon DEF AllocateFails, TrimReturn, leave, NoCall
<1>6. ASSUME NEW n \in Requests, NEW c \in Blocks, AcquireCached(t, n, c) PROVE Owned(b)' <=> Owned(b)
  <2>1. call' = [call EXCEPT ![t] = [at |-> "acquired", size |-> n, block |-> c]] /\ place[c] = "cached"
        /\ place' = [place EXCEPT ![c] = "out"] /\ call[t] = NoCall
    BY <1>6, Zenon DEF AcquireCached, enter
  <2>2. call'[t].block = c
    BY <2>1, Zenon DEF PoolTyped
  <2> QED
    BY <1>2, <1>3, <2>1, <2>2 DEF Owned
<1>7. ASSUME NEW c \in Blocks, AllocateRaw(t, c) \/ TrimVictim(t, c) PROVE Owned(b)' <=> Owned(b)
  <2>1. place[c] # "out" /\ place' = [place EXCEPT ![c] = "raw"]
    BY <1>7, Zenon DEF AllocateRaw, TrimVictim
  <2>2. PICK l, n : call' = [call EXCEPT ![t] = [at |-> l, size |-> n, block |-> c]]
    BY <1>7, Zenon DEF AllocateRaw, TrimVictim, enter
  <2>3. call[t].block = None
    BY <1>7, Zenon DEF AllocateRaw, TrimVictim, Holds, Holding
  <2> QED
    BY <1>2, <2>1, <2>2, <2>3 DEF Owned
<1>8. ASSUME AcquireCount(t) PROVE Owned(b)' <=> Owned(b)
  <2>1. PICK c \in Blocks : c = call[t].block
    BY <1>8, Zenon DEF AcquireCount, Holds, Holding, PoolTyped
  <2>2. place' = [place EXCEPT ![c] = "out"]
        /\ call' = [call EXCEPT ![t] = [at |-> "acquired", size |-> call[t].size, block |-> c]]
    BY <1>8, <2>1, Zenon DEF AcquireCount, enter
  <2>3. call'[t].block = c
    BY <2>2, Zenon DEF PoolTyped
  <2> QED
    BY <1>2, <2>1, <2>2, <2>3 DEF Owned
<1>9. ASSUME FreeRaw(t) PROVE Owned(b)' <=> Owned(b)
  <2>1. PICK c \in Blocks : c = call[t].block
    BY <1>9, Zenon DEF FreeRaw, Holds, Holding, PoolTyped
  <2>2. PICK l, n : call' = [call EXCEPT ![t] = [at |-> l, size |-> n, block |-> None]]
    <3>1. CASE call[t].at = "free"
      BY <1>9, <3>1, Zenon DEF FreeRaw, leave, NoCall
    <3>2. CASE call[t].at # "free"
      BY <1>9, <3>2, Zenon DEF FreeRaw, enter
    <3> QED
      BY <3>1, <3>2, Zenon
  <2>3. place' = [place EXCEPT ![c] = "system"]
    BY <1>9, <2>1, Zenon DEF FreeRaw
  <2> QED
    <3>1. ~Owned(c)
      BY <2>1, Zenon DEF Owned
    <3>2. call'[t].block = None /\ \A u \in Threads \ {t} : call'[u] = call[u]
      BY <2>2, Zenon DEF PoolTyped
    <3> QED
      BY <2>1, <2>3, <3>1, <3>2, Zenon DEF Owned, PoolTyped
<1>10. ASSUME resetStats(t) PROVE Owned(b)' <=> Owned(b)
  BY <1>10, Zenon DEF resetStats, Owned
<1> QED
  BY <1>4, <1>5, <1>6, <1>7, <1>8, <1>9, <1>10, Zenon
----------------------------------------------------------------------------
(* The steps keep FiberInv.                                                *)

LEMMA SameStacks ==
  ASSUME FiberInv, UNCHANGED <<vars, stack>>
  PROVE  StacksOwned'
BY Zenon DEF FiberInv, StacksOwned, Owned, vars

\* acquire(), FreeRaw, trim() and resetStats().
LEMMA PoolOnlyKeeps ==
  ASSUME ReuseInv, NEW t \in Threads, Acquire(t) \/ PoolWork(t)
  PROVE  FiberInv'
<1> USE DEF ReuseInv, FiberInv
<1>1. UNCHANGED fiberVars /\ dying[t] = None
  BY Zenon DEF Acquire, PoolWork, Builds
<1>2. ASSUME Acquire(t) PROVE build[t] # NoBuild /\ build[t].size \in Requests
  BY <1>2, Zenon DEF Acquire, Builds
<1>3. ASSUME NEW u \in Threads, u # t PROVE call'[u] = call[u]
  BY <1>3, Zenon DEF Acquire, PoolWork, AcquireMiss, AcquireCached, AllocateRaw, AcquireCount, FreeRaw, TrimReturn,
              resetStats, Trim, TrimVictim, enter, leave, PoolInv, PoolTyped
<1>4. build[t] = NoBuild => call'[t].at \in {"none", "free", "trim", "trimFree"}
  <2>1. CASE PoolWork(t)
    BY <2>1 DEF PoolWork, FreeRaw, TrimReturn, resetStats, Trim, TrimVictim, enter, leave, NoCall, PoolInv, PoolTyped
  <2> QED
    BY <1>2, <2>1, Zenon
<1>5. build[t] # NoBuild => call'[t].at \in {"none", "allocate", "allocated", "acquired"}
  <2>1. CASE Acquire(t)
    BY <2>1 DEF Acquire, AcquireMiss, AcquireCached, AllocateRaw, AcquireCount, enter, PoolInv, PoolTyped
  <2> QED
    BY <2>1, Zenon DEF PoolWork
<1>6. \A b \in Blocks : Owned(b)' <=> Owned(b)
  BY <1>2, OwnedKept, Zenon DEF Acquire, PoolWork
<1>7. FiberTyped'
  BY <1>1, Zenon DEF fiberVars, FiberTyped
<1>8. Builds'
  BY <1>1, <1>3, <1>4, <1>5, Zenon DEF fiberVars, Builds
<1>9. Dies'
  BY <1>1, <1>3, Zenon DEF fiberVars, Dies
<1>10. Lives' /\ Unshared'
  BY <1>1, SameFibers, Zenon DEF fiberVars
<1>11. StacksOwned'
  BY <1>1, <1>6, Zenon DEF fiberVars, StacksOwned
<1> QED
  BY <1>7, <1>8, <1>9, <1>10, <1>11, Zenon

\* A thread begins to construct a fiber.
LEMMA ConstructKeeps ==
  ASSUME ReuseInv, NEW t \in Threads, NEW n \in Requests, NEW callback \in BOOLEAN,
         Idle(t), callback => cur[t] = None, Construct(t, n, callback)
  PROVE  FiberInv'
<1> USE PoolAssumption DEF ReuseInv, FiberInv
<1>1. PICK f \in Fibers :
        /\ state[f] = "none" /\ \A u \in Threads : build[u].fiber # f
        /\ build' = [build EXCEPT ![t] = [fiber |-> f, size |-> n, callback |-> callback]]
  BY Zenon DEF Construct
<1>2. UNCHANGED <<vars, state, stack, origin, kept, cur, ran, cache, dying, stopped>> /\ call' = call
  BY Zenon DEF Construct, vars
<1>3. FiberTyped'
  BY <1>1, <1>2, Zenon DEF FiberTyped
<1>4. Lives' /\ Dies' /\ Unshared'
  <2>1. Dies'
    BY <1>2, Zenon DEF Dies
  <2>2. UNCHANGED <<state, stack, origin, kept, cur, ran, cache, dying>>
    BY <1>2, Zenon
  <2> QED
    BY <2>1, <2>2, SameFibers, Zenon
<1>5. Builds'
  <2>1. call[t].at = "none" /\ dying[t] = None
    BY DEF Idle, NoCall
  <2>2. build'[t] = [fiber |-> f, size |-> n, callback |-> callback] /\ \A u \in Threads \ {t} : build'[u] = build[u]
    BY <1>1, Zenon DEF FiberTyped
  <2>3. build'[t].fiber = f /\ build'[t].size = n /\ build'[t].callback = callback
    BY <2>2
  <2>4. f # None
    BY ReuseAssumption, Zenon
  <2>5. build'[t] # NoBuild
    BY <2>3, <2>4 DEF NoBuild
  <2> QED
    BY <1>1, <1>2, <2>1, <2>2, <2>3, <2>5 DEF Builds
<1> QED
  BY <1>2, <1>3, <1>4, <1>5, SameStacks, Zenon

LEMMA ConstructFailsKeeps ==
  ASSUME ReuseInv, NEW t \in Threads, ConstructFails(t)
  PROVE  FiberInv'
<1> USE DEF ReuseInv, FiberInv
<1>1. /\ call' = [call EXCEPT ![t] = NoCall] /\ build' = [build EXCEPT ![t] = NoBuild] /\ UNCHANGED place
      /\ UNCHANGED <<state, stack, origin, kept, cur, ran, cache, dying, stopped>>
  BY Zenon DEF ConstructFails, AllocateFails, leave
<1>2. NoBuild \in [fiber : Fibers \cup {None}, size : Nat, callback : BOOLEAN] /\ NoBuild.fiber \notin Fibers
  BY ReuseAssumption, Zenon DEF NoBuild
<1>3. FiberTyped'
  BY <1>1, <1>2, Zenon DEF FiberTyped
<1>4. Lives' /\ Unshared'
  <2>1. UNCHANGED <<state, stack, origin, kept, cur, ran, cache, dying>>
    BY <1>1, Zenon
  <2> QED
    BY <2>1, SameFibers, Zenon
<1>5. Builds'
  <2>1. build'[t] = NoBuild /\ call'[t] = NoCall
        /\ \A u \in Threads \ {t} : build'[u] = build[u] /\ call'[u] = call[u]
    BY <1>1, Zenon DEF FiberTyped, PoolInv, PoolTyped
  <2>2. NoCall.at = "none"
    BY Zenon DEF NoCall
  <2> QED
    BY <1>1, <1>2, <2>1, <2>2 DEF Builds
<1>6. Dies'
  BY <1>1, Zenon DEF Dies, PoolInv, PoolTyped
<1>7. StacksOwned'
  <2>1. \A b \in Blocks : Owned(b)' <=> Owned(b)
    BY OwnedKept, Zenon DEF ConstructFails
  <2> QED
    BY <1>1, <2>1, Zenon DEF StacksOwned
<1> QED
  BY <1>3, <1>4, <1>5, <1>6, <1>7, Zenon

\* The new fiber has a stack nobody else has, and nobody else has the fiber.
LEMMA ConstructedKeeps ==
  ASSUME ReuseInv, NEW t \in Threads, Constructed(t)
  PROVE  FiberInv'
<1> USE ReuseAssumption, PoolAssumption DEF ReuseInv, FiberInv
<1>0. PICK f, b, callback : f = build[t].fiber /\ b = call[t].block /\ callback = build[t].callback
  BY Zenon
<1>1. /\ f \in Fibers /\ state[f] = "none" /\ dying[t] = None /\ callback \in BOOLEAN
      /\ callback => cur[t] = None /\ ~ran[t]
      /\ \A u \in Threads \ {t} : build[u].fiber # f
  BY <1>0 DEF Constructed, Builds, FiberTyped, Lives
<1>2. b \in Blocks /\ place[b] = "out" /\ \A u \in Threads \ {t} : call[u].block # b
  <2>1. b \in Blocks
    BY <1>0, Zenon DEF Constructed, AcquireReturn, PoolInv, PoolTyped, Holds, Holding
  <2> QED
    BY <1>0, <2>1, Zenon DEF Constructed, AcquireReturn, PoolInv, OneOwner
<1>3. /\ call' = [call EXCEPT ![t] = NoCall] /\ UNCHANGED place
      /\ stack' = [stack EXCEPT ![f] = b]
      /\ state' = [state EXCEPT ![f] = IF callback THEN "RUNNING" ELSE "READY"]
      /\ origin' = [origin EXCEPT ![f] = IF callback THEN t ELSE None]
      /\ kept' = [kept EXCEPT ![f] = ~callback]
      /\ cur' = IF callback THEN [cur EXCEPT ![t] = f] ELSE cur
      /\ build' = [build EXCEPT ![t] = NoBuild]
      /\ UNCHANGED <<ran, cache, dying, stopped>>
  BY <1>0, Zenon DEF Constructed, AcquireReturn, leave
<1>4. NoBuild \in [fiber : Fibers \cup {None}, size : Nat, callback : BOOLEAN] /\ NoBuild.fiber = None
  BY Zenon DEF NoBuild
<1>5. NoCall.at = "none" /\ NoCall.block = None
  BY Zenon DEF NoCall
<1>6. /\ call'[t] = NoCall /\ build'[t] = NoBuild
      /\ \A u \in Threads \ {t} : call'[u] = call[u] /\ build'[u] = build[u] /\ cur'[u] = cur[u]
  BY <1>3, Zenon DEF FiberTyped, PoolInv, PoolTyped
<1>7. /\ stack'[f] = b /\ state'[f] = (IF callback THEN "RUNNING" ELSE "READY") /\ kept'[f] = ~callback
      /\ \A g \in Fibers \ {f} : state'[g] = state[g] /\ stack'[g] = stack[g]
                                 /\ origin'[g] = origin[g] /\ kept'[g] = kept[g]
      /\ cur'[t] = IF callback THEN f ELSE cur[t]
  BY <1>1, <1>3, Zenon DEF FiberTyped
<1>8. \A u \in Threads : cur[u] # f /\ dying[u] # f /\ \A i \in DOMAIN cache[u] : cache[u][i] # f
  BY <1>1 DEF Lives, Dies, Unshared
<1>9. FiberTyped'
  BY <1>1, <1>2, <1>3, <1>4, Zenon DEF FiberTyped
<1>10. Lives'
  <2>1. ASSUME NEW g \in Fibers
        PROVE  /\ (state[g] = "none" <=> stack[g] = None)'
               /\ (state[g] = "none" => ~kept[g])'
               /\ (state[g] = "READY" => kept[g])'
               /\ (state[g] = "RUNNING" => \E u \in Threads : cur[u] = g /\ ~ran[u])'
    <3>1. CASE g = f
      <4>1. CASE callback
        <5>1. state'[f] = "RUNNING" /\ stack'[f] = b /\ cur'[t] = f /\ ~kept'[f] /\ ~ran'[t]
          BY <1>1, <1>3, <1>7, <4>1, Zenon
        <5> QED
          BY <1>2, <3>1, <5>1, Zenon
      <4>2. CASE ~callback
        <5>1. state'[f] = "READY" /\ stack'[f] = b /\ kept'[f]
          BY <1>1, <1>3, <1>7, <4>2, Zenon
        <5> QED
          BY <1>2, <3>1, <5>1, Zenon
      <4> QED
        BY <1>1, <4>1, <4>2, Zenon
    <3>2. CASE g # f
      BY <1>1, <1>3, <1>6, <1>7, <3>2, SMTT(30) DEF Lives
    <3> QED
      BY <3>1, <3>2, Zenon
  <2>2. ASSUME NEW u \in Threads
        PROVE  /\ (ran[u] => cur[u] # None)'
               /\ (cur[u] # None => state[cur[u]] # "none")'
               /\ (cur[u] # None /\ ~ran[u] => state[cur[u]] = "RUNNING")'
    BY <1>1, <1>3, <1>6, <1>7, <1>8, SMTT(30) DEF Lives, FiberTyped
  <2>3. ASSUME NEW u \in Threads, NEW v \in Threads
        PROVE  (cur[u] # None /\ cur[u] = cur[v] /\ ~ran[u] /\ ~ran[v] => u = v)'
    BY <1>1, <1>3, <1>6, <1>7, <1>8, SMTT(30) DEF Lives
  <2> QED
    BY <2>1, <2>2, <2>3, Zenon DEF Lives
<1>11. Builds'
  BY <1>1, <1>3, <1>4, <1>5, <1>6, <1>7, SMTT(30) DEF Builds
<1>12. Dies'
  BY <1>1, <1>3, <1>6, <1>7, <1>8, SMTT(30) DEF Dies, FiberTyped
<1>13. Unshared'
  BY <1>1, <1>3, <1>6, <1>7, <1>8 DEF Unshared
<1>14. StacksOwned'
  <2>1. \A g \in Fibers : stack[g] # b
    BY <1>0, <1>2, Zenon DEF StacksOwned, Owned
  <2>2. Owned(b)'
    BY <1>2, <1>3, <1>5, <1>6, SMTT(30) DEF Owned
  <2>3. \A c \in Blocks \ {b} : Owned(c)' <=> Owned(c)
    BY <1>0, <1>3, <1>5, <1>6 DEF Owned
  <2>4. stack[f] = None
    BY <1>1, Zenon DEF Lives
  <2>5. \A c \in Blocks : Owned(c)' <=> \E g \in Fibers : stack'[g] = c
    BY <1>1, <1>7, <2>1, <2>2, <2>3, <2>4 DEF StacksOwned
  <2>6. \A g, h \in Fibers : stack'[g] = stack'[h] /\ stack'[g] # None => g = h
    BY <1>7, <2>1 DEF StacksOwned
  <2> QED
    BY <2>5, <2>6, Zenon DEF StacksOwned
<1> QED
  BY <1>9, <1>10, <1>11, <1>12, <1>13, <1>14, Zenon

\* ~Fiber: the stack goes back, and nobody holds the fiber or the stack.
LEMMA DestroyFiberKeeps ==
  ASSUME ReuseInv, NEW t \in Threads, DestroyFiber(t)
  PROVE  FiberInv'
<1> USE ReuseAssumption, PoolAssumption DEF ReuseInv, FiberInv
<1>1. PICK f \in Fibers, b \in Blocks : f = dying[t] /\ b = stack[f]
  BY DyingHasStack, Zenon DEF DestroyFiber
<1>2. /\ state' = [state EXCEPT ![f] = "none"] /\ stack' = [stack EXCEPT ![f] = None]
      /\ origin' = [origin EXCEPT ![f] = None] /\ dying' = [dying EXCEPT ![t] = None]
      /\ UNCHANGED <<kept, cur, ran, cache, build, stopped>>
      /\ ReleaseToCache(t, b) \/ ReleaseToSystem(t, b)
  BY <1>1, Zenon DEF DestroyFiber
<1>3. PICK p \in {"cached", "raw"} : place' = [place EXCEPT ![b] = p]
  BY <1>2, Zenon DEF ReleaseToCache, ReleaseToSystem
<1>4. /\ call'[t] = NoCall \/ (call'[t].at = "free" /\ call'[t].block = b)
      /\ \A u \in Threads \ {t} : call'[u] = call[u]
      /\ call[t] = NoCall
  BY <1>2 DEF ReleaseToCache, ReleaseToSystem, enter, PoolInv, PoolTyped
<1>5. NoCall.at = "none" /\ NoCall.block = None
  BY Zenon DEF NoCall
<1>6. /\ state'[f] = "none" /\ stack'[f] = None /\ dying'[t] = None
      /\ \A g \in Fibers \ {f} : state'[g] = state[g] /\ stack'[g] = stack[g] /\ origin'[g] = origin[g]
      /\ \A u \in Threads \ {t} : dying'[u] = dying[u]
  BY <1>2, Zenon DEF FiberTyped
<1>7. /\ ~kept[f] /\ state[f] = "TERM" /\ build[t] = NoBuild
      /\ \A u \in Threads : cur[u] # f /\ (u # t => dying[u] # f) /\ \A i \in DOMAIN cache[u] : cache[u][i] # f
  BY <1>1 DEF Dies, Unshared, Builds
<1>8. FiberTyped'
  BY <1>2, Zenon DEF FiberTyped
<1>9. Lives'
  BY <1>2, <1>6, <1>7, SMTT(30) DEF Lives, FiberTyped
<1>10. Builds'
  BY <1>2, <1>4, <1>5, <1>6, <1>7, SMTT(30) DEF Builds, FiberTyped
<1>11. Dies'
  <2>1. ASSUME NEW u \in Threads, dying'[u] # None
        PROVE  u # t /\ dying'[u] = dying[u] /\ dying[u] \in Fibers \ {f} /\ call'[u] = call[u]
    BY <1>4, <1>6, <1>7, <2>1, Zenon DEF FiberTyped
  <2> QED
    BY <1>2, <1>6, <2>1 DEF Dies
<1>12. Unshared'
  BY <1>2, <1>6, <1>7 DEF Unshared
<1>13. StacksOwned'
  <2>1. ~Owned(b)'
    BY <1>3, Zenon DEF Owned, PoolInv, PoolTyped
  <2>2. \A c \in Blocks \ {b} : Owned(c)' <=> Owned(c)
    BY <1>3, <1>4, <1>5 DEF Owned, PoolInv, PoolTyped
  <2>3. \A g \in Fibers \ {f} : stack[g] # b
    BY <1>1, Zenon DEF StacksOwned
  <2>4. \A c \in Blocks : Owned(c)' <=> \E g \in Fibers : stack'[g] = c
    BY <1>1, <1>6, <2>1, <2>2, <2>3, SMTT(30) DEF StacksOwned
  <2>5. \A g, h \in Fibers : stack'[g] = stack'[h] /\ stack'[g] # None => g = h
    BY <1>6 DEF StacksOwned
  <2> QED
    BY <2>4, <2>5, Zenon DEF StacksOwned
<1> QED
  BY <1>8, <1>9, <1>10, <1>11, <1>12, <1>13, Zenon

-----------------------------------------------------------------------------
(* The other steps keep FiberInv.                                          *)

\* A cached fiber leaves its cache and runs again.
LEMMA ReuseCallbackKeeps ==
  ASSUME ReuseInv, NEW w \in Threads, ReuseCallback(w)
  PROVE  FiberInv'
<1> USE ReuseAssumption DEF ReuseInv, FiberInv
<1>1. PICK c \in Seq(Fibers) : c = cache[w]
  BY Zenon DEF FiberTyped
<1>2. Len(c) \in Nat \ {0} /\ DOMAIN c = 1 .. Len(c)
  BY <1>1 DEF ReuseCallback
<1>3. PICK f \in Fibers : f = c[Len(c)]
  BY <1>2
<1>4. /\ cache' = [cache EXCEPT ![w] = PopBack(c)] /\ cur' = [cur EXCEPT ![w] = f]
      /\ state' = [state EXCEPT ![f] = "RUNNING"]
      /\ UNCHANGED <<vars, stack, origin, kept, ran, build, dying, stopped>>
  BY <1>1, <1>3, Zenon DEF ReuseCallback, Back
<1>5. /\ PopBack(c) \in Seq(Fibers) /\ DOMAIN PopBack(c) = 1 .. Len(c) - 1
      /\ \A i \in 1 .. Len(c) - 1 : PopBack(c)[i] = c[i]
  BY <1>2 DEF PopBack
<1>6. call' = call /\ stack' = stack /\ origin' = origin /\ kept' = kept /\ ran' = ran /\ build' = build /\ dying' = dying
  BY <1>4, Zenon DEF vars
<1>7. /\ cache'[w] = PopBack(c) /\ cur'[w] = f /\ state'[f] = "RUNNING"
      /\ \A u \in Threads \ {w} : cache'[u] = cache[u] /\ cur'[u] = cur[u]
      /\ \A g \in Fibers \ {f} : state'[g] = state[g]
  BY <1>4, Zenon DEF FiberTyped
<1>8. /\ state[f] = "TERM" /\ ~kept[f] /\ cur[w] = None /\ ~ran[w] /\ build[w] = NoBuild
      /\ \A u \in Threads : /\ cur[u] # f /\ dying[u] # f
                            /\ \A j \in DOMAIN cache[u] : cache[u][j] = f => u = w /\ j = Len(c)
  BY <1>1, <1>2, <1>3 DEF Unshared, ReuseCallback, Looking, Idle, Lives, FiberTyped
<1>9. FiberTyped'
  BY <1>4, <1>5, Zenon DEF FiberTyped
<1>10. Lives'
  <2>1. ASSUME NEW g \in Fibers
        PROVE  /\ (state[g] = "none" <=> stack[g] = None)' /\ (state[g] = "none" => ~kept[g])'
               /\ (state[g] = "READY" => kept[g])'
    BY <1>6, <1>7, <1>8 DEF Lives
  <2>2. ASSUME NEW g \in Fibers, state'[g] = "RUNNING"
        PROVE  \E u \in Threads : cur'[u] = g /\ ~ran'[u]
    <3>1. CASE g = f
      BY <1>6, <1>7, <1>8, <3>1, Zenon
    <3>2. CASE g # f
      <4>1. PICK u \in Threads : cur[u] = g /\ ~ran[u]
        BY <1>7, <2>2, <3>2, Zenon DEF Lives
      <4> QED
        BY <1>6, <1>7, <1>8, <4>1, Zenon
    <3> QED
      BY <3>1, <3>2, Zenon
  <2>3. ASSUME NEW u \in Threads
        PROVE  /\ (ran[u] => cur[u] # None)' /\ (cur[u] # None => state[cur[u]] # "none")'
               /\ (cur[u] # None /\ ~ran[u] => state[cur[u]] = "RUNNING")'
    <3>1. /\ ran[u] => cur[u] # None
          /\ cur[u] # None => cur[u] \in Fibers \ {f} /\ state[cur[u]] # "none"
          /\ cur[u] # None /\ ~ran[u] => state[cur[u]] = "RUNNING"
      BY <1>8, SMTT(30) DEF Lives, FiberTyped
    <3> QED
      BY <1>6, <1>7, <1>8, <3>1, Zenon
  <2>4. ASSUME NEW u \in Threads, NEW v \in Threads
        PROVE  (cur[u] # None /\ cur[u] = cur[v] /\ ~ran[u] /\ ~ran[v] => u = v)'
    BY <1>6, <1>7, <1>8 DEF Lives
  <2> QED
    BY <2>1, <2>2, <2>3, <2>4, Zenon DEF Lives
<1>11. Builds' /\ Dies'
  <2>1. Builds'
    BY <1>6, <1>7, <1>8, Zenon DEF Builds
  <2>2. Dies'
    BY <1>6, <1>7, <1>8, DiesStay, Zenon
  <2> QED
    BY <2>1, <2>2, Zenon
<1>12. Unshared'
  <2>1. \A u \in Threads : \A i \in DOMAIN cache'[u] : i \in DOMAIN cache[u] /\ cache'[u][i] = cache[u][i] /\ cache[u][i] # f
    BY <1>1, <1>2, <1>5, <1>7, <1>8, SMTT(30)
  <2> QED
    BY <1>6, <1>7, <2>1, SMTT(30) DEF Unshared
<1> QED
  BY <1>4, <1>9, <1>10, <1>11, <1>12, SameStacks, Zenon

LEMMA RunFiberKeeps ==
  ASSUME ReuseInv, NEW w \in Threads, NEW f \in Fibers, RunFiber(w, f)
  PROVE  FiberInv'
<1> USE ReuseAssumption DEF ReuseInv, FiberInv
<1>1. PICK other \in BOOLEAN : kept' = [kept EXCEPT ![f] = other]
  BY Zenon DEF RunFiber
<1>2. /\ cur' = [cur EXCEPT ![w] = f] /\ state' = [state EXCEPT ![f] = "RUNNING"]
      /\ UNCHANGED <<vars, stack, origin, ran, cache, build, dying, stopped>>
      /\ state[f] = "READY" /\ cur[w] = None /\ build[w] = NoBuild
  BY Zenon DEF RunFiber, Looking, Idle
<1>3. call' = call /\ stack' = stack /\ origin' = origin /\ ran' = ran /\ build' = build /\ dying' = dying /\ cache' = cache
  BY <1>2, Zenon DEF vars
<1>4. /\ cur'[w] = f /\ state'[f] = "RUNNING" /\ ~ran[w]
      /\ \A u \in Threads \ {w} : cur'[u] = cur[u]
      /\ \A g \in Fibers \ {f} : state'[g] = state[g] /\ kept'[g] = kept[g]
  BY <1>1, <1>2 DEF FiberTyped, Lives
<1>5. \A u \in Threads : (cur[u] = f => ran[u]) /\ dying[u] # f /\ \A i \in DOMAIN cache[u] : cache[u][i] # f
  BY <1>2 DEF Lives, Dies, Unshared
<1>6. FiberTyped'
  BY <1>1, <1>2, Zenon DEF FiberTyped
<1>7. Lives'
  <2>1. ASSUME NEW g \in Fibers
        PROVE  /\ (state[g] = "none" <=> stack[g] = None)' /\ (state[g] = "none" => ~kept[g])'
               /\ (state[g] = "READY" => kept[g])'
    BY <1>2, <1>3, <1>4, <1>5 DEF Lives
  <2>2. ASSUME NEW g \in Fibers, state'[g] = "RUNNING"
        PROVE  \E u \in Threads : cur'[u] = g /\ ~ran'[u]
    <3>1. CASE g = f
      BY <1>3, <1>4, <3>1, Zenon
    <3>2. CASE g # f
      <4>1. PICK u \in Threads : cur[u] = g /\ ~ran[u]
        BY <1>4, <2>2, <3>2, Zenon DEF Lives
      <4> QED
        BY <1>2, <1>3, <1>4, <4>1, Zenon
    <3> QED
      BY <3>1, <3>2, Zenon
  <2>3. ASSUME NEW u \in Threads
        PROVE  /\ (ran[u] => cur[u] # None)' /\ (cur[u] # None => state[cur[u]] # "none")'
               /\ (cur[u] # None /\ ~ran[u] => state[cur[u]] = "RUNNING")'
    BY <1>2, <1>3, <1>4, <1>5, SMTT(30) DEF Lives, FiberTyped
  <2>4. ASSUME NEW u \in Threads, NEW v \in Threads
        PROVE  (cur[u] # None /\ cur[u] = cur[v] /\ ~ran[u] /\ ~ran[v] => u = v)'
    BY <1>2, <1>3, <1>4, <1>5, SMTT(30) DEF Lives
  <2> QED
    BY <2>1, <2>2, <2>3, <2>4, Zenon DEF Lives
<1>8. Builds' /\ Dies'
  <2>1. \A g \in Fibers : state[g] = "none" => state'[g] = "none"
    BY <1>2, <1>4, Zenon
  <2>2. Builds'
    BY <1>2, <1>3, <1>4, <2>1, BuildsStay, Zenon
  <2>3. Dies'
    BY <1>3, <1>4, <1>5, DiesStay, Zenon
  <2> QED
    BY <2>2, <2>3, Zenon
<1>9. Unshared'
  BY <1>3, <1>4, <1>5, UnsharedStays, Zenon
<1> QED
  BY <1>2, <1>6, <1>7, <1>8, <1>9, SameStacks, Zenon

LEMMA KeepKeeps ==
  ASSUME ReuseInv, NEW w \in Threads, Keep(w)
  PROVE  FiberInv'
<1> USE ReuseAssumption DEF ReuseInv, FiberInv
<1>1. PICK f \in Fibers : f = cur[w]
  BY Zenon DEF Keep, Running, FiberTyped
<1>2. /\ kept' = [kept EXCEPT ![f] = TRUE] /\ state[f] = "RUNNING"
      /\ UNCHANGED <<vars, state, stack, origin, cur, ran, cache, build, dying, stopped>>
  BY <1>1, Zenon DEF Keep, Running, Lives
<1>3. call' = call /\ UNCHANGED <<state, stack, origin, cur, ran, cache, build, dying>>
  BY <1>2, Zenon DEF vars
<1>4. kept'[f] /\ \A g \in Fibers \ {f} : kept'[g] = kept[g]
  BY <1>2, Zenon DEF FiberTyped
<1>5. \A u \in Threads : dying[u] # f /\ \A i \in DOMAIN cache[u] : cache[u][i] # f
  BY <1>2 DEF Dies, Unshared
<1>6. FiberTyped'
  BY <1>2, Zenon DEF FiberTyped
<1>7. Lives'
  BY <1>2, <1>3, <1>4, LivesStays, Zenon
<1>8. Builds' /\ Dies'
  <2>1. Builds'
    BY <1>3, <1>4, BuildsStay, Zenon
  <2>2. Dies'
    BY <1>3, <1>4, <1>5, DiesStay, Zenon
  <2> QED
    BY <2>1, <2>2, Zenon
<1>9. Unshared'
  BY <1>3, <1>4, <1>5, UnsharedStays, Zenon
<1> QED
  BY <1>2, <1>6, <1>7, <1>8, <1>9, SameStacks, Zenon

\* resume() returns: the fiber is READY and kept, or TERM.
LEMMA ReturnsKeeps ==
  ASSUME ReuseInv, NEW w \in Threads, Yield(w) \/ End(w)
  PROVE  FiberInv'
<1> USE ReuseAssumption DEF ReuseInv, FiberInv
<1>1. PICK f \in Fibers : f = cur[w]
  BY Zenon DEF Yield, End, Running, FiberTyped
<1>2. PICK s \in {"READY", "TERM"} : state' = [state EXCEPT ![f] = s] /\ (s = "READY" => kept[f])
  BY <1>1, Zenon DEF Yield, End
<1>3. /\ ran' = [ran EXCEPT ![w] = TRUE] /\ ~ran[w]
      /\ UNCHANGED <<vars, stack, origin, kept, cur, cache, build, dying, stopped>>
  BY Zenon DEF Yield, End, Running
<1>4. call' = call /\ UNCHANGED <<stack, origin, kept, cur, cache, build, dying>>
  BY <1>3, Zenon DEF vars
<1>5. /\ state'[f] = s /\ ran'[w] /\ \A g \in Fibers \ {f} : state'[g] = state[g]
      /\ \A u \in Threads \ {w} : ran'[u] = ran[u]
  BY <1>2, <1>3, Zenon DEF FiberTyped
<1>6. /\ state[f] = "RUNNING"
      /\ \A u \in Threads : dying[u] # f /\ \A i \in DOMAIN cache[u] : cache[u][i] # f
      /\ \A u \in Threads \ {w} : cur[u] = f => ran[u]
  BY <1>1, <1>3 DEF Lives, Dies, Unshared
<1>7. FiberTyped'
  BY <1>2, <1>3, Zenon DEF FiberTyped
<1>8. Lives'
  <2>1. ASSUME NEW g \in Fibers
        PROVE  /\ (state[g] = "none" <=> stack[g] = None)' /\ (state[g] = "none" => ~kept[g])'
               /\ (state[g] = "READY" => kept[g])'
    BY <1>1, <1>2, <1>4, <1>5, <1>6 DEF Lives
  <2>2. ASSUME NEW g \in Fibers, state'[g] = "RUNNING"
        PROVE  \E u \in Threads : cur'[u] = g /\ ~ran'[u]
    <3>1. g # f
      BY <1>2, <1>5, <2>2, Zenon
    <3>2. PICK u \in Threads : cur[u] = g /\ ~ran[u]
      BY <1>5, <2>2, <3>1 DEF Lives
    <3> QED
      BY <1>1, <1>4, <1>5, <3>1, <3>2, Zenon
  <2>3. ASSUME NEW u \in Threads
        PROVE  /\ (ran[u] => cur[u] # None)' /\ (cur[u] # None => state[cur[u]] # "none")'
               /\ (cur[u] # None /\ ~ran[u] => state[cur[u]] = "RUNNING")'
    <3>1. CASE cur[u] = f
      BY <1>1, <1>2, <1>4, <1>5, <1>6, <3>1, Zenon
    <3>2. CASE cur[u] # f
      <4>1. /\ ran[u] => cur[u] # None
            /\ cur[u] # None => cur[u] \in Fibers \ {f} /\ state[cur[u]] # "none"
            /\ cur[u] # None /\ ~ran[u] => state[cur[u]] = "RUNNING"
        BY <3>2, SMTT(30) DEF Lives, FiberTyped
      <4> QED
        BY <1>1, <1>4, <1>5, <3>2, <4>1, Zenon
    <3> QED
      BY <3>1, <3>2, Zenon
  <2>4. ASSUME NEW u \in Threads, NEW v \in Threads
        PROVE  (cur[u] # None /\ cur[u] = cur[v] /\ ~ran[u] /\ ~ran[v] => u = v)'
    BY <1>1, <1>2, <1>4, <1>5, <1>6, SMTT(30) DEF Lives
  <2> QED
    BY <2>1, <2>2, <2>3, <2>4, Zenon DEF Lives
<1>9. Builds' /\ Dies'
  <2>1. \A g \in Fibers : state[g] = "none" => state'[g] = "none"
    BY <1>5, <1>6, Zenon
  <2>2. Builds'
    BY <1>4, <2>1, BuildsStay, Zenon
  <2>3. Dies'
    BY <1>4, <1>5, <1>6, DiesStay, Zenon
  <2> QED
    BY <2>2, <2>3, Zenon
<1>10. Unshared'
  BY <1>4, <1>5, <1>6, UnsharedStays, Zenon
<1> QED
  BY <1>3, <1>7, <1>8, <1>9, <1>10, SameStacks, Zenon

\* A fiber whose only pointer is the worker's has ended when resume() returns:
\* READY, it would be kept; RUNNING, another worker would hold it.
LEMMA AfterRunKeeps ==
  ASSUME ReuseInv, NEW w \in Threads, AfterRun(w)
  PROVE  FiberInv'
<1> USE ReuseAssumption DEF ReuseInv, FiberInv
<1>1. PICK f \in Fibers : f = cur[w]
  BY DEF AfterRun, FiberTyped, Lives
<1>2. /\ cur' = [cur EXCEPT ![w] = None] /\ ran' = [ran EXCEPT ![w] = FALSE]
      /\ UNCHANGED <<vars, state, stack, origin, kept, build, stopped>>
      /\ ran[w] /\ call[w] = NoCall /\ build[w] = NoBuild /\ dying[w] = None
  BY Zenon DEF AfterRun, Idle
<1>3. call' = call /\ state' = state /\ stack' = stack /\ origin' = origin /\ kept' = kept /\ build' = build
  BY <1>2, Zenon DEF vars
<1>4. cur'[w] = None /\ ran'[w] = FALSE /\ \A u \in Threads \ {w} : cur'[u] = cur[u] /\ ran'[u] = ran[u]
  BY <1>2, Zenon DEF FiberTyped
<1>5. \A u \in Threads : dying[u] # f /\ \A i \in DOMAIN cache[u] : cache[u][i] # f
  BY <1>1 DEF Dies, Unshared
<1>6. ASSUME Unaliased(w, f)
      PROVE  state[f] = "TERM" /\ ~kept[f] /\ \A u \in Threads \ {w} : cur[u] # f
  <2>1. ~kept[f] /\ \A u \in Threads \ {w} : cur[u] # f
    BY <1>6, Zenon DEF Unaliased, Holders
  <2> QED
    BY <1>1, <1>2, <2>1 DEF Lives, FiberTyped
<1>7. Lives'
  <2>1. ASSUME NEW g \in Fibers, state'[g] = "RUNNING"
        PROVE  \E u \in Threads : cur'[u] = g /\ ~ran'[u]
    <3>1. PICK u \in Threads : cur[u] = g /\ ~ran[u]
      BY <1>3, <2>1, Zenon DEF Lives
    <3> QED
      BY <1>2, <1>4, <3>1, Zenon
  <2> QED
    BY <1>3, <1>4, <2>1 DEF Lives
<1>8. CASE Reusable(w, f) /\ Len(cache[w]) < CachePerWorker
  <2>1. cache' = [cache EXCEPT ![w] = Append(@, f)] /\ dying' = dying
    BY <1>1, <1>8, Zenon DEF AfterRun
  <2>2. PICK c \in Seq(Fibers) : c = cache[w]
    BY Zenon DEF FiberTyped
  <2>3. /\ Append(c, f) \in Seq(Fibers) /\ Len(c) \in Nat
        /\ \A i \in DOMAIN Append(c, f) :
             (i \in DOMAIN c /\ Append(c, f)[i] = c[i]) \/ (i = Len(c) + 1 /\ Append(c, f)[i] = f)
    BY PushedCache, Zenon
  <2>4. cache'[w] = Append(c, f) /\ \A u \in Threads \ {w} : cache'[u] = cache[u]
    BY <2>1, <2>2, Zenon DEF FiberTyped
  <2>5. FiberTyped'
    BY <1>2, <2>1, <2>2, <2>3, Zenon DEF FiberTyped
  <2>6. Builds' /\ Dies'
    <3>1. Builds'
      BY <1>2, <1>3, <1>4, <2>1, BuildsStay, Zenon
    <3>2. Dies'
      BY <1>3, <1>4, <2>1, ReuseAssumption, ZenonT(30) DEF Dies
    <3> QED
      BY <3>1, <3>2, Zenon
  <2>7. origin[f] = w /\ state[f] = "TERM" /\ ~kept[f] /\ \A u \in Threads : cur'[u] # f
    BY <1>4, <1>6, <1>8, Zenon DEF Reusable
  <2>8. \A u \in Threads : \A i \in DOMAIN cache'[u] :
          \/ i \in DOMAIN cache[u] /\ cache'[u][i] = cache[u][i]
          \/ u = w /\ i = Len(c) + 1 /\ cache'[u][i] = f
    <3>1. \A i \in DOMAIN cache'[w] :
            (i \in DOMAIN cache[w] /\ cache'[w][i] = cache[w][i]) \/ (i = Len(c) + 1 /\ cache'[w][i] = f)
      BY <2>2, <2>3, <2>4, Zenon
    <3>2. \A u \in Threads \ {w} : \A i \in DOMAIN cache'[u] : i \in DOMAIN cache[u] /\ cache'[u][i] = cache[u][i]
      BY <2>4, Zenon
    <3> QED
      BY <3>1, <3>2, Zenon
  <2>9. Unshared'
    <3>1. ASSUME NEW u \in Threads, NEW i \in DOMAIN cache'[u], cache'[u][i] = f
          PROVE  /\ state'[f] = "TERM" /\ origin'[f] = u /\ ~kept'[f]
                 /\ \A v \in Threads : /\ cur'[v] # f /\ dying'[v] # f
                                       /\ \A j \in DOMAIN cache'[v] : cache'[v][j] = f => v = u /\ i = j
      BY <1>3, <1>5, <2>1, <2>7, <2>8, <3>1, SMTT(30)
    <3>2. ASSUME NEW u \in Threads, NEW i \in DOMAIN cache'[u], NEW g \in Fibers \ {f}, cache'[u][i] = g
          PROVE  /\ state'[g] = "TERM" /\ origin'[g] = u /\ ~kept'[g]
                 /\ \A v \in Threads : /\ cur'[v] # g /\ dying'[v] # g
                                       /\ \A j \in DOMAIN cache'[v] : cache'[v][j] = g => v = u /\ i = j
      <4>1. i \in DOMAIN cache[u] /\ cache[u][i] = g
        BY <2>8, <3>2, Zenon
      <4>2. \A v \in Threads : \A j \in DOMAIN cache'[v] : cache'[v][j] = g => j \in DOMAIN cache[v] /\ cache[v][j] = g
        BY <2>8, Zenon
      <4>3. \A v \in Threads : cur'[v] = cur[v] \/ cur'[v] = None
        BY <1>4, Zenon
      <4> QED
        BY <1>3, <2>1, <4>1, <4>2, <4>3 DEF Unshared
    <3> QED
      BY <3>1, <3>2, SMTT(30) DEF Unshared
  <2> QED
    BY <1>2, <1>7, <2>5, <2>6, <2>9, SameStacks, Zenon
<1>9. CASE ~(Reusable(w, f) /\ Len(cache[w]) < CachePerWorker)
  <2>1. cache' = cache /\ dying' = IF Unaliased(w, f) THEN [dying EXCEPT ![w] = f] ELSE dying
    BY <1>1, <1>9, Zenon DEF AfterRun
  <2>2. /\ dying'[w] = IF Unaliased(w, f) THEN f ELSE None
        /\ \A u \in Threads \ {w} : dying'[u] = dying[u]
    BY <1>2, <2>1, Zenon DEF FiberTyped
  <2>3. FiberTyped'
    BY <1>2, <2>1, Zenon DEF FiberTyped
  <2>4. Builds'
    BY <1>2, <1>3, <1>4, <2>2, BuildsStay, Zenon
  <2>5. Dies'
    <3>1. \A u \in Threads : dying'[u] = f => u = w /\ Unaliased(w, f)
      BY <1>5, <2>2, Zenon
    <3>2. \A u, v \in Threads : dying'[u] = f => cur'[v] # f /\ (dying'[v] = f => u = v)
      BY <1>4, <1>6, <3>1, Zenon
    <3>3. \A u \in Threads : dying'[u] = dying[u] \/ dying'[u] = None
                            \/ (dying'[u] = f /\ call[u] = NoCall /\ state'[f] = "TERM" /\ ~kept'[f])
      BY <1>2, <1>3, <1>6, <2>2, Zenon
    <3> QED
      BY <1>3, <1>4, <1>5, <3>2, <3>3, DiesStay, Zenon
  <2>6. Unshared'
    BY <1>3, <1>4, <1>5, <2>1, <2>2, UnsharedStays, Zenon
  <2> QED
    BY <1>2, <1>7, <2>3, <2>4, <2>5, <2>6, SameStacks, Zenon
<1> QED
  BY <1>8, <1>9, Zenon

LEMMA DropKeptKeeps ==
  ASSUME ReuseInv, NEW t \in Threads, NEW f \in Fibers, DropKept(t, f)
  PROVE  FiberInv'
<1> USE ReuseAssumption DEF ReuseInv, FiberInv
<1>1. /\ kept' = [kept EXCEPT ![f] = FALSE] /\ kept[f] /\ state[f] = "TERM"
      /\ dying' = IF Holders(f) = {} THEN [dying EXCEPT ![t] = f] ELSE dying
      /\ UNCHANGED <<vars, state, stack, origin, cur, ran, cache, build, stopped>>
      /\ call[t] = NoCall /\ build[t] = NoBuild /\ dying[t] = None
  BY Zenon DEF DropKept, Idle
<1>2. call' = call /\ state' = state /\ stack' = stack /\ origin' = origin /\ cur' = cur /\ ran' = ran /\ cache' = cache /\ build' = build
  BY <1>1, Zenon DEF vars
<1>3. /\ ~kept'[f] /\ \A g \in Fibers \ {f} : kept'[g] = kept[g]
      /\ dying'[t] = IF Holders(f) = {} THEN f ELSE None
      /\ \A u \in Threads \ {t} : dying'[u] = dying[u]
  BY <1>1, Zenon DEF FiberTyped
<1>4. \A u \in Threads : dying[u] # f /\ \A i \in DOMAIN cache[u] : cache[u][i] # f
  BY <1>1 DEF Dies, Unshared
<1>5. Holders(f) = {} => \A u \in Threads : cur[u] # f
  BY Zenon DEF Holders
<1>6. FiberTyped'
  BY <1>1, Zenon DEF FiberTyped
<1>7. Lives'
  BY <1>1, <1>2, <1>3, LivesStays, Zenon
<1>8. Builds'
  BY <1>1, <1>2, <1>3, BuildsStay, Zenon
<1>9. Dies'
  <2>1. \A u \in Threads : dying'[u] = f => u = t /\ Holders(f) = {}
    BY <1>3, <1>4, Zenon
  <2>2. \A u, v \in Threads : dying'[u] = f => cur'[v] # f /\ (dying'[v] = f => u = v)
    BY <1>2, <1>5, <2>1, Zenon
  <2>3. \A u \in Threads : dying'[u] = dying[u] \/ dying'[u] = None
                          \/ (dying'[u] = f /\ call[u] = NoCall /\ state'[f] = "TERM" /\ ~kept'[f])
    BY <1>1, <1>2, <1>3, Zenon
  <2> QED
    BY <1>2, <1>3, <1>4, <2>2, <2>3, DiesStay, Zenon
<1>10. Unshared'
  BY <1>2, <1>3, <1>4, UnsharedStays, Zenon
<1> QED
  BY <1>1, <1>6, <1>7, <1>8, <1>9, <1>10, SameStacks, Zenon

LEMMA StopKeeps ==
  ASSUME ReuseInv, Stop
  PROVE  FiberInv'
<1> USE DEF ReuseInv, FiberInv
<1>1. UNCHANGED <<vars, call, state, stack, origin, kept, cur, ran, cache, build, dying>> /\ stopped' = TRUE
  BY Zenon DEF Stop, vars
<1>2. FiberTyped' /\ Builds' /\ Dies'
  BY <1>1, Zenon DEF FiberTyped, Builds, Dies
<1>3. Lives' /\ Unshared'
  BY <1>1, SameFibers, Zenon
<1> QED
  BY <1>1, <1>2, <1>3, SameStacks, Zenon

LEMMA ClearCacheKeeps ==
  ASSUME ReuseInv, NEW t \in Threads, NEW w \in Threads, ClearCache(t, w)
  PROVE  FiberInv'
<1> USE ReuseAssumption DEF ReuseInv, FiberInv
<1>1. PICK c \in Seq(Fibers) : c = cache[w]
  BY Zenon DEF FiberTyped
<1>2. Len(c) \in Nat \ {0} /\ DOMAIN c = 1 .. Len(c)
  BY <1>1 DEF ClearCache
<1>3. PICK f \in Fibers : f = c[1]
  BY <1>2
<1>4. /\ cache' = [cache EXCEPT ![w] = Tail(c)] /\ dying' = [dying EXCEPT ![t] = f]
      /\ UNCHANGED <<vars, state, stack, origin, kept, cur, ran, build, stopped>>
      /\ call[t] = NoCall /\ build[t] = NoBuild /\ dying[t] = None
  BY <1>1, <1>2, <1>3 DEF ClearCache, Idle
<1>5. Tail(c) \in Seq(Fibers) /\ DOMAIN Tail(c) = 1 .. Len(c) - 1 /\ \A i \in 1 .. Len(c) - 1 : Tail(c)[i] = c[i + 1]
  BY <1>1, <1>2 DEF ClearCache
<1>6. call' = call /\ state' = state /\ stack' = stack /\ origin' = origin /\ kept' = kept /\ cur' = cur /\ ran' = ran /\ build' = build
  BY <1>4, Zenon DEF vars
<1>7. /\ cache'[w] = Tail(c) /\ dying'[t] = f
      /\ \A u \in Threads \ {w} : cache'[u] = cache[u]
      /\ \A u \in Threads \ {t} : dying'[u] = dying[u]
  BY <1>4, Zenon DEF FiberTyped
<1>8. /\ state[f] = "TERM" /\ ~kept[f]
      /\ \A u \in Threads : /\ cur[u] # f /\ dying[u] # f
                            /\ \A j \in DOMAIN cache[u] : cache[u][j] = f => u = w /\ j = 1
  BY <1>1, <1>2, <1>3 DEF Unshared
<1>9. FiberTyped'
  BY <1>4, <1>5, Zenon DEF FiberTyped
<1>10. Lives'
  BY <1>6, LivesStays, Zenon
<1>11. Builds'
  BY <1>4, <1>6, <1>7, BuildsStay, Zenon
<1>12. Dies'
  <2>1. \A u, v \in Threads : dying'[u] = f => cur'[v] # f /\ (dying'[v] = f => u = v)
    BY <1>6, <1>7, <1>8, Zenon
  <2>2. \A u \in Threads : dying'[u] = dying[u] \/ dying'[u] = None
                          \/ (dying'[u] = f /\ call[u] = NoCall /\ state'[f] = "TERM" /\ ~kept'[f])
    BY <1>4, <1>6, <1>7, <1>8, Zenon
  <2> QED
    BY <1>6, <1>8, <2>1, <2>2, DiesStay, Zenon
<1>13. Unshared'
  <2> DEFINE old(u, i) == IF u = w THEN i + 1 ELSE i
  <2>1. \A u \in Threads : \A i \in DOMAIN cache'[u] :
          old(u, i) \in DOMAIN cache[u] /\ cache'[u][i] = cache[u][old(u, i)] /\ cache'[u][i] # f
    <3>1. \A i \in DOMAIN cache'[w] : i + 1 \in 1 .. Len(c) /\ cache'[w][i] = c[i + 1] /\ i + 1 # 1
      BY <1>2, <1>5, <1>7, SMTT(30)
    <3>2. \A i \in DOMAIN cache'[w] : i + 1 \in DOMAIN cache[w] /\ cache'[w][i] = cache[w][i + 1] /\ cache'[w][i] # f
      BY <1>1, <1>2, <1>8, <3>1
    <3>3. \A u \in Threads \ {w} : \A i \in DOMAIN cache'[u] : i \in DOMAIN cache[u] /\ cache'[u][i] = cache[u][i] /\ cache[u][i] # f
      BY <1>7, <1>8, Zenon
    <3> QED
      BY <3>2, <3>3, Zenon
  <2>2. \A u \in Threads : \A i, j \in DOMAIN cache'[u] : old(u, i) = old(u, j) => i = j
    BY <1>5, <1>7, SMTT(30)
  <2> HIDE DEF old
  <2>3. ASSUME NEW u \in Threads, NEW i \in DOMAIN cache'[u], NEW g \in Fibers, cache'[u][i] = g
        PROVE  /\ state'[g] = "TERM" /\ origin'[g] = u /\ ~kept'[g]
               /\ \A v \in Threads : /\ cur'[v] # g /\ dying'[v] # g
                                     /\ \A j \in DOMAIN cache'[v] : cache'[v][j] = g => v = u /\ i = j
    <3>1. old(u, i) \in DOMAIN cache[u] /\ cache[u][old(u, i)] = g /\ g # f
      BY <2>1, <2>3, Zenon
    <3>2. /\ state[g] = "TERM" /\ origin[g] = u /\ ~kept[g]
          /\ \A v \in Threads : /\ cur[v] # g /\ dying[v] # g
                                /\ \A k \in DOMAIN cache[v] : cache[v][k] = g => v = u /\ old(u, i) = k
      BY <3>1 DEF Unshared
    <3> QED
      BY <1>6, <1>7, <2>1, <2>2, <3>1, <3>2, SMTT(30)
  <2> QED
    BY <2>3, Zenon DEF Unshared
<1> QED
  BY <1>4, <1>9, <1>10, <1>11, <1>12, <1>13, SameStacks, Zenon

LEMMA StutterKeeps ==
  ASSUME ReuseInv, UNCHANGED reuseVars
  PROVE  FiberInv'
<1> USE DEF ReuseInv, FiberInv
<1>1. UNCHANGED <<vars, call, state, stack, origin, kept, cur, ran, cache, build, dying, stopped>>
  BY Zenon DEF reuseVars, fiberVars, vars
<1>2. FiberTyped' /\ Builds' /\ Dies'
  BY <1>1, Zenon DEF FiberTyped, Builds, Dies
<1>3. Lives' /\ Unshared'
  BY <1>1, SameFibers, Zenon
<1> QED
  BY <1>1, <1>2, <1>3, SameStacks, Zenon
----------------------------------------------------------------------------
LEMMA ReuseInvNext == ReuseInv /\ [ReuseNext]_reuseVars => ReuseInv'
<1> SUFFICES ASSUME ReuseInv, [ReuseNext]_reuseVars PROVE ReuseInv'
  BY Zenon
<1>1. PoolInv'
  <2>1. PoolInv
    BY Zenon DEF ReuseInv
  <2>2. [PoolNext]_vars
    BY StepOfPool, Zenon
  <2> QED
    BY <2>1, <2>2, NextInv, Zenon
<1>2. FiberInv'
  <2>1. ASSUME NEW t \in Threads, NewCallback(t) PROVE FiberInv'
    <3>1. Idle(t) /\ cur[t] = None /\ Construct(t, DefaultSize, TRUE) /\ DefaultSize \in Requests
      BY <2>1, ReuseAssumption, Zenon DEF NewCallback, Looking
    <3> QED
      BY <3>1, ConstructKeeps, Zenon
  <2>2. ASSUME NEW t \in Threads, NEW n \in Requests, NewFiber(t, n) PROVE FiberInv'
    <3>1. Idle(t) /\ Construct(t, n, FALSE)
      BY <2>2, Zenon DEF NewFiber, Running
    <3> QED
      BY <3>1, ConstructKeeps, Zenon
  <2>3. CASE UNCHANGED reuseVars
    BY <2>3, StutterKeeps, Zenon
  <2>4. CASE Stop
    BY <2>4, StopKeeps, Zenon
  <2>5. ASSUME NEW t \in Threads,
               \/ ReuseCallback(t) \/ Acquire(t) \/ ConstructFails(t) \/ Constructed(t)
               \/ (\E f \in Fibers : RunFiber(t, f) \/ DropKept(t, f))
               \/ Keep(t) \/ Yield(t) \/ End(t) \/ AfterRun(t) \/ DestroyFiber(t)
               \/ (\E w \in Threads : ClearCache(t, w)) \/ PoolWork(t)
        PROVE  FiberInv'
    BY <2>5, ReuseCallbackKeeps, PoolOnlyKeeps, ConstructFailsKeeps, ConstructedKeeps, RunFiberKeeps, DropKeptKeeps,
       KeepKeeps, ReturnsKeeps, AfterRunKeeps, DestroyFiberKeeps, ClearCacheKeeps, Zenon
  <2> QED
    BY <2>1, <2>2, <2>3, <2>4, <2>5, Zenon DEF ReuseNext
<1> QED
  BY <1>1, <1>2, Zenon DEF ReuseInv

\* The invariant that the theorems below rest on: what is true of the fibers and
\* what is true of the stacks need each other.
THEOREM ReuseInvariance == ReuseSpec => []ReuseInv
<1>1. ReuseInit => ReuseInv
  BY ReuseInvInit, Zenon
<1> QED
  BY <1>1, ReuseInvNext, PTL DEF ReuseSpec

\* A fiber that tryCacheCallbackFiber (scheduler.cpp) puts in a cache has ended
\* and has no other owner, as long as it is there.
THEOREM CachedFibersUnaliased == ReuseSpec => []CachedUnaliased
<1>1. ReuseInv => CachedUnaliased
  BY DEF ReuseInv, FiberInv, FiberTyped, Unshared, CachedUnaliased, Holders
<1> QED
  BY <1>1, ReuseInvariance, PTL

\* A stack that acquire() has handed out belongs to one fiber, until ~Fiber
\* (fiber.cpp) releases it.
THEOREM StacksAreOwned == ReuseSpec => []StacksOwned
<1>1. ReuseInv => StacksOwned
  BY Zenon DEF ReuseInv, FiberInv
<1> QED
  BY <1>1, ReuseInvariance, PTL

\* Fibers use the allocator as StackPool allows: ~Fiber releases only a stack
\* that is owned, and acquire() is never left halfway.  So every theorem of
\* StackPoolProofs holds of the stacks of fibers.
THEOREM FibersUsePool == ReuseSpec => PoolSpec
<1>1. ReuseInit => PoolInit
  BY Zenon DEF ReuseInit
<1>2. ReuseInv /\ [ReuseNext]_reuseVars => [PoolNext]_vars
  BY StepOfPool, Zenon
<1> QED
  BY <1>1, <1>2, ReuseInvariance, PTL DEF ReuseSpec, PoolSpec

\* The free lists stay within maxCachedBytes whatever fibers come and go.
THEOREM FiberStacksBounded == ReuseSpec => []CacheBounded
  BY FibersUsePool, CacheStaysBounded, PTL
=============================================================================

----------------------------- MODULE StackPool -----------------------------
(***************************************************************************)
(* pulsar::PooledStackAllocator (stack_allocator.cpp): threads acquire and *)
(* release fiber stacks, which are kept in free lists by size class up to  *)
(* maxCachedBytes, and trim the lists.  The system calls are made without  *)
(* the lock, so acquire and release of a block that is not cached and each *)
(* turn of trim have two locked sections.                                  *)
(*                                                                         *)
(* A block is an address: FreeRaw gives it back to the system, which may   *)
(* hand it out again.  Cumulative counters are left out, gauges are not.   *)
(***************************************************************************)
EXTENDS Integers, FiniteSets

CONSTANTS
  Threads,
  Blocks,              \* the addresses the system has
  None,                \* no block
  Requests,            \* the sizes threads ask for
  Powers,              \* the powers of two
  Minimum,             \* stack_traits::minimum_size()
  Guard,               \* size of a page, and of the guard page; 0 without
  MaxCachedBytes,
  MaxPooledStackSize   \* as given; rounded up to a power of two

ASSUME PoolAssumption ==
  /\ None \notin Blocks
  /\ Requests \subseteq Nat /\ Powers \subseteq Nat \ {0}
  /\ {Minimum, Guard, MaxCachedBytes, MaxPooledStackSize} \subseteq Nat
  /\ \A r \in Requests \cup {Minimum, MaxPooledStackSize} : \E p \in Powers : r <= p

VARIABLES
  place,               \* where a block is: system, free list, a thread
  usable,              \* its usableSize while it is not the system's
  call,                \* the call a thread is in
  cachedBytes,
  checkedOutBytes,
  peakCheckedOutBytes

vars == <<place, usable, call, cachedBytes, checkedOutBytes, peakCheckedOutBytes>>

NoCall == [at |-> "none", size |-> 0, block |-> None]

PoolInit ==
  /\ place = [b \in Blocks |-> "system"]
  /\ usable = [b \in Blocks |-> 0]
  /\ call = [t \in Threads |-> NoCall]
  /\ cachedBytes = 0
  /\ checkedOutBytes = 0
  /\ peakCheckedOutBytes = 0
----------------------------------------------------------------------------
NormalizeMinimum(n) == IF n < Minimum THEN Minimum ELSE n

NextPowerOfTwo(n) == CHOOSE p \in Powers : n <= p /\ \A q \in Powers : n <= q => p <= q

pooledSizeFor(n) == NextPowerOfTwo(NormalizeMinimum(n))

MaxPooled == IF MaxPooledStackSize = 0 THEN 0 ELSE pooledSizeFor(MaxPooledStackSize)

\* May a request of this size be served from the lists?
Cacheable(n) == MaxCachedBytes # 0 /\ MaxPooled # 0 /\ pooledSizeFor(n) <= MaxPooled

\* With guard pages a stack is a whole number of pages.
AlignUp(n) == IF Guard = 0 \/ n % Guard = 0 THEN n ELSE n + Guard - (n % Guard)

allocationSize(b) == usable[b] + Guard

Cached(n) == {b \in Blocks : place[b] = "cached" /\ usable[b] = n}

Larger(a, b) == IF a < b THEN b ELSE a

enter(t, at, n, b) == call' = [call EXCEPT ![t] = [at |-> at, size |-> n, block |-> b]]
leave(t) == call' = [call EXCEPT ![t] = NoCall]

\* bytes are handed out, and the peak follows.
checkOut(bytes) ==
  /\ checkedOutBytes' = checkedOutBytes + bytes
  /\ peakCheckedOutBytes' = Larger(peakCheckedOutBytes, checkedOutBytes + bytes)
----------------------------------------------------------------------------
(* acquire                                                                 *)

Fits(b, n) == usable[b] = pooledSizeFor(n)

\* Mutant of AcquireCached: the block stays in its list.
AcquireCachedShared(t, n, b) ==
  /\ call[t] = NoCall /\ Cacheable(n)
  /\ place[b] = "cached" /\ Fits(b, n)
  /\ enter(t, "acquired", n, b)
  /\ checkOut(allocationSize(b))
  /\ UNCHANGED <<place, usable, cachedBytes>>

AcquireCached(t, n, b) ==
  /\ call[t] = NoCall /\ Cacheable(n)
  /\ place[b] = "cached" /\ Fits(b, n)
  /\ place' = [place EXCEPT ![b] = "out"]
  /\ enter(t, "acquired", n, b)
  /\ cachedBytes' = cachedBytes - allocationSize(b)
  /\ checkOut(allocationSize(b))
  /\ UNCHANGED usable

\* The first section has found nothing.
AcquireMiss(t, n) ==
  /\ call[t] = NoCall
  /\ Cacheable(n) => Cached(pooledSizeFor(n)) = {}
  /\ enter(t, "allocate", n, None)
  /\ UNCHANGED <<place, usable, cachedBytes, checkedOutBytes, peakCheckedOutBytes>>

\* AllocateRaw: it returns some block, or throws.
AllocateRaw(t, b) ==
  /\ call[t].at = "allocate" /\ place[b] = "system"
  /\ LET n == call[t].size IN
     /\ usable' = [usable EXCEPT ![b] = AlignUp(IF Cacheable(n) THEN pooledSizeFor(n) ELSE NormalizeMinimum(n))]
     /\ enter(t, "allocated", n, b)
  /\ place' = [place EXCEPT ![b] = "raw"]
  /\ UNCHANGED <<cachedBytes, checkedOutBytes, peakCheckedOutBytes>>

AllocateFails(t) ==
  /\ call[t].at = "allocate"
  /\ leave(t)
  /\ UNCHANGED <<place, usable, cachedBytes, checkedOutBytes, peakCheckedOutBytes>>

AcquireCount(t) ==
  /\ call[t].at = "allocated"
  /\ place' = [place EXCEPT ![call[t].block] = "out"]
  /\ enter(t, "acquired", call[t].size, call[t].block)
  /\ checkOut(allocationSize(call[t].block))
  /\ UNCHANGED <<usable, cachedBytes>>

\* The fiber has its stack; it may be released by any thread.
AcquireReturn(t) ==
  /\ call[t].at = "acquired"
  /\ leave(t)
  /\ UNCHANGED <<place, usable, cachedBytes, checkedOutBytes, peakCheckedOutBytes>>
----------------------------------------------------------------------------
(* release, trim, resetStats                                               *)

\* Mutant of Room: the block that is released is not counted.
RoomFor(b) == MaxCachedBytes # 0 /\ usable[b] \in Powers /\ usable[b] <= MaxPooled /\ cachedBytes <= MaxCachedBytes

\* The test for a free list.
Room(b) ==
  /\ MaxCachedBytes # 0
  /\ usable[b] \in Powers /\ usable[b] <= MaxPooled
  /\ cachedBytes <= MaxCachedBytes
  /\ allocationSize(b) <= MaxCachedBytes - cachedBytes

\* A block some fiber owns: nobody else holds it.
Owned(b) == place[b] = "out" /\ \A t \in Threads : call[t].block # b

ReleaseToCache(t, b) ==
  /\ call[t] = NoCall /\ Owned(b) /\ Room(b)
  /\ place' = [place EXCEPT ![b] = "cached"]
  /\ checkedOutBytes' = checkedOutBytes - allocationSize(b)
  /\ cachedBytes' = cachedBytes + allocationSize(b)
  /\ UNCHANGED <<usable, call, peakCheckedOutBytes>>

\* No room, or push_back has thrown: the block is freed without the lock.
ReleaseToSystem(t, b) ==
  /\ call[t] = NoCall /\ Owned(b)
  /\ place' = [place EXCEPT ![b] = "raw"]
  /\ checkedOutBytes' = checkedOutBytes - allocationSize(b)
  /\ enter(t, "free", 0, b)
  /\ UNCHANGED <<usable, cachedBytes, peakCheckedOutBytes>>

FreeRaw(t) ==
  /\ call[t].at \in {"free", "trimFree"}
  /\ place' = [place EXCEPT ![call[t].block] = "system"]
  /\ usable' = [usable EXCEPT ![call[t].block] = 0]
  /\ IF call[t].at = "free" THEN leave(t) ELSE enter(t, "trim", call[t].size, None)
  /\ UNCHANGED <<cachedBytes, checkedOutBytes, peakCheckedOutBytes>>

Trim(t, keepBytes) ==
  /\ call[t] = NoCall
  /\ enter(t, "trim", keepBytes, None)
  /\ UNCHANGED <<place, usable, cachedBytes, checkedOutBytes, peakCheckedOutBytes>>

\* Mutant of TrimVictim: cachedBytes is not reduced.
TrimVictimUncounted(t, b) ==
  /\ call[t].at = "trim" /\ cachedBytes > call[t].size
  /\ place[b] = "cached" /\ \A c \in Blocks : place[c] = "cached" => usable[c] <= usable[b]
  /\ place' = [place EXCEPT ![b] = "raw"]
  /\ enter(t, "trimFree", call[t].size, b)
  /\ UNCHANGED <<usable, cachedBytes, checkedOutBytes, peakCheckedOutBytes>>

\* One victim from the largest class that has blocks.
TrimVictim(t, b) ==
  /\ call[t].at = "trim" /\ cachedBytes > call[t].size
  /\ place[b] = "cached" /\ \A c \in Blocks : place[c] = "cached" => usable[c] <= usable[b]
  /\ place' = [place EXCEPT ![b] = "raw"]
  /\ cachedBytes' = cachedBytes - allocationSize(b)
  /\ enter(t, "trimFree", call[t].size, b)
  /\ UNCHANGED <<usable, checkedOutBytes, peakCheckedOutBytes>>

TrimReturn(t) ==
  /\ call[t].at = "trim"
  /\ cachedBytes <= call[t].size \/ \A b \in Blocks : place[b] # "cached"
  /\ leave(t)
  /\ UNCHANGED <<place, usable, cachedBytes, checkedOutBytes, peakCheckedOutBytes>>

resetStats(t) ==
  /\ call[t] = NoCall
  /\ peakCheckedOutBytes' = checkedOutBytes
  /\ UNCHANGED <<place, usable, call, cachedBytes, checkedOutBytes>>
----------------------------------------------------------------------------
PoolNext ==
  \E t \in Threads :
    \/ \E n \in Requests : \/ AcquireMiss(t, n) \/ Trim(t, n)
                           \/ \E b \in Blocks : AcquireCached(t, n, b)
    \/ \E b \in Blocks : \/ AllocateRaw(t, b) \/ ReleaseToCache(t, b)
                         \/ ReleaseToSystem(t, b) \/ TrimVictim(t, b)
    \/ AllocateFails(t) \/ AcquireCount(t) \/ AcquireReturn(t) \/ FreeRaw(t)
    \/ TrimReturn(t) \/ resetStats(t)

PoolSpec == PoolInit /\ [][PoolNext]_vars
----------------------------------------------------------------------------
PoolTypeOK ==
  /\ place \in [Blocks -> {"system", "raw", "out", "cached"}]
  /\ usable \in [Blocks -> Nat]
  /\ call \in [Threads -> [at : {"none", "allocate", "allocated", "acquired", "free", "trim", "trimFree"},
                           size : Nat, block : Blocks \cup {None}]]
  /\ cachedBytes \in Nat /\ checkedOutBytes \in Nat /\ peakCheckedOutBytes \in Nat

\* The lists never hold more than maxCachedBytes, guard pages included,
\* however many threads release at once (stack_allocator.cpp:279-283).
CacheBounded == cachedBytes <= MaxCachedBytes

\* A stack has one owner (stack_allocator.hpp:16): two calls never hold the
\* same block, and a block in a list or with the system is held by none.
OneOwner ==
  \A t, u \in Threads : call[t].block # None =>
    /\ t # u => call[u].block # call[t].block
    /\ place[call[t].block] = IF call[t].at = "acquired" THEN "out" ELSE "raw"

\* A stack is large enough for the request it answers, from a list or not,
\* which the constructor of Fiber insists on (fiber.cpp:88-91).
StackFits == \A t \in Threads : call[t].at = "acquired" => usable[call[t].block] >= call[t].size

\* The peak is never below what is out, also after resetStats()
\* (stack_allocator.hpp:69-70).
PeakCovers == checkedOutBytes <= peakCheckedOutBytes
============================================================================

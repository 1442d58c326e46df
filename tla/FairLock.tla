------------------------------ MODULE FairLock ------------------------------
(***************************************************************************)
(* What FiberMutex promises its callers (sync.hpp:40-59): one holder, a    *)
(* line of waiters served from the front, and a released lock that belongs *)
(* to the waiter it was passed to, the heir, before that waiter has run.   *)
(***************************************************************************)
EXTENDS Deque

CONSTANTS Fibers, None

VARIABLES
  holder,  \* who holds the lock
  heir,    \* for whom a free lock is reserved
  line     \* who waits, in the order of arrival

lockVars == <<holder, heir, line>>

Init == holder = None /\ heir = None /\ line = <<>>

\* A free lock that nobody has been promised is taken.
Take(f) ==
  /\ holder = None /\ heir = None /\ line = <<>>
  /\ holder' = f
  /\ UNCHANGED <<heir, line>>

\* The heir takes the lock.
Inherit ==
  /\ holder = None /\ heir # None
  /\ holder' = heir /\ heir' = None
  /\ UNCHANGED line

\* A fiber that finds the lock held or promised joins the line.
Join(f) ==
  /\ holder # None \/ heir # None
  /\ f # holder /\ f # heir /\ ~Has(line, f)
  /\ line' = Append(line, f)
  /\ UNCHANGED <<holder, heir>>

\* A waiter that is not the heir gives up, alone or with all the others.
Leave(f) ==
  /\ Has(line, f)
  /\ line' = Erase(line, f)
  /\ UNCHANGED <<holder, heir>>

LeaveAll == line' = <<>> /\ UNCHANGED <<holder, heir>>

\* The holder passes the lock to the front of the line, or frees it.
Release ==
  /\ holder # None
  /\ holder' = None
  /\ IF line = <<>>
       THEN UNCHANGED <<heir, line>>
       ELSE heir' = Head(line) /\ line' = Tail(line)

Next ==
  \/ \E f \in Fibers : Take(f) \/ Join(f) \/ Leave(f)
  \/ Inherit \/ LeaveAll \/ Release

Spec == Init /\ [][Next]_lockVars
============================================================================

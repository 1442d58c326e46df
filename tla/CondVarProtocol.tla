-------------------------- MODULE CondVarProtocol --------------------------
(***************************************************************************)
(* The use FiberConditionVariable is made for: producers add an item under *)
(* a FiberMutex and notify one or all waiters after they have released it, *)
(* and consumers wait, with or without a timeout, while there is no item.  *)
(***************************************************************************)
EXTENDS FiberCondVar, FiniteSets

CONSTANTS Producers, Consumers

ASSUME CondVarProtocolAssumption ==
  /\ Producers \cup Consumers = Fibers /\ Producers \cap Consumers = {}
  /\ IsFiniteSet(Fibers)

VARIABLES
  items,  \* the predicate: number of items, guarded by the mutex
  prog    \* start, active (has called lock()), leaving, notify, done

protocolVars == <<items, prog>>
allVars == <<cvVars, protocolVars>>

Init ==
  /\ CVInit
  /\ items = 0
  /\ prog = [f \in Fibers |-> "start"]

TypeOK ==
  /\ CVTypeOK
  /\ items \in Nat
  /\ prog \in [Fibers -> {"start", "active", "leaving", "notify", "done"}]

goto(f, p) == prog' = [prog EXCEPT ![f] = p]

Begin(f) == prog[f] = "start" /\ UserLock(f) /\ goto(f, "active") /\ UNCHANGED items

\* f has the mutex and runs its own code.
Inside(f) == prog[f] = "active" /\ pc[f] = "idle" /\ stage[f] = "out" /\ owner = f

Produce(f) ==
  /\ f \in Producers /\ Inside(f)
  /\ items' = items + 1 /\ goto(f, "leaving")
  /\ UNCHANGED cvVars

Consume(f) ==
  /\ f \in Consumers /\ Inside(f) /\ items > 0
  /\ items' = items - 1 /\ goto(f, "leaving")
  /\ UNCHANGED cvVars

WaitForItem(f) ==
  /\ f \in Consumers /\ Inside(f) /\ items = 0
  /\ \E t, now \in BOOLEAN : CondEnter(f, t, now)
  /\ UNCHANGED protocolVars

GiveUp(f) ==
  /\ f \in Consumers /\ Inside(f) /\ items = 0
  /\ goto(f, "leaving")
  /\ UNCHANGED <<cvVars, items>>

End(f) ==
  /\ prog[f] = "leaving" /\ UserUnlock(f)
  /\ goto(f, IF f \in Producers THEN "notify" ELSE "done")
  /\ UNCHANGED items

Notify(f) == prog[f] = "notify" /\ (NotifyOne \/ NotifyAll("OK")) /\ goto(f, "done") /\ UNCHANGED items

Next ==
  \/ CVInternal /\ UNCHANGED protocolVars
  \/ \E f \in Fibers : \/ Begin(f) \/ Produce(f) \/ Consume(f) \/ WaitForItem(f)
                       \/ GiveUp(f) \/ End(f) \/ Notify(f)
  \/ NotifyAll("ECANCELED") /\ UNCHANGED protocolVars

Spec == Init /\ [][Next]_allVars

\* Asleep for an item, or past the test and on the way to sleep.
Asleep(f) == InQueue(f, "cond") \/ stage[f] \in {"guarded", "released"}

\* Will test for an item again.
Awake(f) == f \in Consumers /\ prog[f] = "active" /\ ~Asleep(f)

\* No lost wake-up: while there is an item and a consumer sleeps or is about
\* to, some consumer is awake to take it or some producer has yet to notify.
\* wait() keeps guard_ from before mutex.unlock() until the fiber is queued
\* for this (sync.cpp:185-186); timeouts and cancellations must not eat a
\* notification.
NoStrandedItem ==
  items > 0 /\ (\E f \in Consumers : Asleep(f)) =>
    \/ \E f \in Consumers : Awake(f)
    \/ \E f \in Producers : prog[f] \in {"leaving", "notify"}
============================================================================

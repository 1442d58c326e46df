----------------------------- MODULE TimerWheel -----------------------------
(***************************************************************************)
(* pulsar::TimerManager and Timer (timer.cpp, timer.hpp): four wheels and  *)
(* a tree of timers, the cached earliestNext_, and cancel(), which sets    *)
(* its flag without the manager's lock.                                    *)
(*                                                                         *)
(* A timer is in one wheel at most, and its slot there follows from next_, *)
(* so `where' says all.  advanceWheel holds the lock, but the clock goes   *)
(* on and flags are set meanwhile: it is one step per timer and per read   *)
(* of its flag.  The wheels' reaches 2^8, 2^14, 2^20, 2^26 ms are scaled.  *)
(***************************************************************************)
EXTENDS Integers, FiniteSets

CONSTANTS
  Timers,     \* the timers that may be created
  None,       \* no timer
  Reach,      \* the diff below which a timer goes to wheel 0, 1, 2, 3
  MaxTime,    \* bound on the clock
  Delays,     \* the ms a timer may be created with
  Recurring   \* the values of recurring_ it may have

Levels == 1..4
Tree == 5
Slots == Reach[1]        \* wheel0_.size()
Never == MaxTime * 10    \* ~0ull
MaxFired == 2            \* firings are counted up to this

ASSUME TimerAssumption ==
  /\ None \notin Timers
  /\ Reach \in [Levels -> Nat \ {0}] /\ \A l \in 1..3 : Reach[l] < Reach[l + 1]
  /\ MaxTime \in Nat \ {0}
  /\ Delays \subseteq 0..MaxTime /\ Recurring \subseteq BOOLEAN

VARIABLES
  clock,      \* GetElapsedMS()
  where,      \* the wheel of each timer, Tree, or 0 if it is in none
  timer,      \* the fields of each Timer
  fired,      \* how often its callback was collected
  canceller,  \* a call of its cancel(): none, lock: flag set, done: true returned
  earliestNext,
  pass        \* the call of listExpiredCb that holds the lock

wheelVars == <<clock, where, timer, fired, canceller, earliestNext, pass>>

NoPass == [slot |-> -1, todo |-> {}, seen |-> None, now |-> 0, next |-> Never]
Unlocked == pass = NoPass

TimerInit ==
  /\ clock = 0
  /\ where = [t \in Timers |-> 0]
  /\ timer = [t \in Timers |-> [next |-> Never, ms |-> 0, recurring |-> FALSE, cancelled |-> FALSE, cb |-> FALSE]]
  /\ fired = [t \in Timers |-> 0]
  /\ canceller = [t \in Timers |-> "none"]
  /\ earliestNext = Never
  /\ pass = NoPass

Least(a, b) == IF a < b THEN a ELSE b
earliest(S) == CHOOSE e \in S : \A f \in S : e <= f
Diff(next) == IF next > clock THEN next - clock ELSE 0

\* The wheel insertToWheel puts a timer in, by the time left.
wheelFor(next) ==
  IF \E l \in Levels : Diff(next) < Reach[l]
    THEN CHOOSE l \in Levels : Diff(next) < Reach[l] /\ \A k \in 1..(l - 1) : Diff(next) >= Reach[k]
    ELSE Tree

Tick == clock < MaxTime /\ clock' = clock + 1 /\ UNCHANGED <<where, timer, fired, canceller, earliestNext, pass>>

addTimer(t, ms, recurring) ==
  /\ Unlocked /\ timer[t].next = Never
  /\ timer' = [timer EXCEPT ![t] = [next |-> clock + ms, ms |-> ms, recurring |-> recurring, cancelled |-> FALSE, cb |-> TRUE]]
  /\ where' = [where EXCEPT ![t] = wheelFor(clock + ms)]
  /\ earliestNext' = Least(earliestNext, clock + ms)
  /\ UNCHANGED <<clock, fired, canceller, pass>>
----------------------------------------------------------------------------
(* Timer::cancel: cancelled_.exchange(true), then cb_ under the lock.      *)

CancelFlag(t) ==
  /\ timer[t].next # Never /\ canceller[t] = "none" /\ ~timer[t].cancelled
  /\ timer' = [timer EXCEPT ![t].cancelled = TRUE]
  /\ canceller' = [canceller EXCEPT ![t] = "lock"]
  /\ UNCHANGED <<clock, where, fired, earliestNext, pass>>

\* Mutant of CancelLock: the callback is kept.
CancelLockKeeping(t) ==
  /\ Unlocked /\ canceller[t] = "lock"
  /\ canceller' = [canceller EXCEPT ![t] = "done"]
  /\ UNCHANGED <<clock, timer, where, fired, earliestNext, pass>>

CancelLock(t) ==
  /\ Unlocked /\ canceller[t] = "lock"
  /\ timer' = [timer EXCEPT ![t].cb = FALSE]
  /\ canceller' = [canceller EXCEPT ![t] = "done"]
  /\ UNCHANGED <<clock, where, fired, earliestNext, pass>>
----------------------------------------------------------------------------
(* listExpiredCb and advanceWheel.  The slots 0 .. Slots - 1 of wheel 0    *)
(* come first, then the cascades of wheels 1, 2, 3, then the tree.         *)

TreeSlot == Slots + 3

InSlot(s) ==
  IF s = TreeSlot THEN {t \in Timers : where[t] = Tree /\ timer[t].next <= pass.now}
                  ELSE {t \in Timers : where[t] = 1 /\ timer[t].next % Slots = s}

listExpiredCb ==
  /\ Unlocked
  /\ pass' = [NoPass EXCEPT !.slot = 0, !.todo = InSlot(0), !.now = clock]
  /\ UNCHANGED <<clock, where, timer, fired, canceller, earliestNext>>

\* cancelled_ is read: a cancelled timer is dropped.
Look(t) ==
  /\ pass.seen = None /\ t \in pass.todo
  /\ pass' = [pass EXCEPT !.todo = @ \ {t}, !.seen = IF timer[t].cancelled THEN None ELSE t]
  /\ where' = [where EXCEPT ![t] = IF timer[t].cancelled THEN 0 ELSE @]
  /\ UNCHANGED <<clock, timer, fired, canceller, earliestNext>>

Due(t) == timer[t].next <= pass.now

collect(t) == fired' = [fired EXCEPT ![t] = IF timer[t].cb THEN Least(@ + 1, MaxFired) ELSE @]

\* Mutant of ExpireOnce: the timer stays in its slot.
ExpireOnceKeeping(t) ==
  /\ pass.seen = t /\ Due(t) /\ ~timer[t].recurring
  /\ collect(t)
  /\ pass' = [pass EXCEPT !.seen = None]
  /\ UNCHANGED <<clock, timer, where, canceller, earliestNext>>

ExpireOnce(t) ==
  /\ pass.seen = t /\ Due(t) /\ ~timer[t].recurring
  /\ collect(t)
  /\ timer' = [timer EXCEPT ![t].cb = FALSE, ![t].cancelled = TRUE]
  /\ where' = [where EXCEPT ![t] = 0]
  /\ pass' = [pass EXCEPT !.seen = None]
  /\ UNCHANGED <<clock, canceller, earliestNext>>

\* A recurring timer is inserted again.  In the slot that is being visited
\* it falls victim to slot.swap(remaining).
ExpireRecurring(t) ==
  /\ pass.seen = t /\ Due(t) /\ timer[t].recurring
  /\ collect(t)
  /\ LET next == pass.now + timer[t].ms
         swapped == wheelFor(next) = 1 /\ next % Slots = pass.slot
     IN  /\ timer' = [timer EXCEPT ![t].next = next, ![t].cancelled = FALSE]
         /\ where' = [where EXCEPT ![t] = IF swapped THEN 0 ELSE wheelFor(next)]
         /\ earliestNext' = Least(earliestNext, next)
  /\ pass' = [pass EXCEPT !.seen = None]
  /\ UNCHANGED <<clock, canceller>>

Remain(t) ==
  /\ pass.seen = t /\ ~Due(t)
  /\ pass' = [pass EXCEPT !.seen = None, !.next = Least(@, timer[t].next)]
  /\ UNCHANGED <<clock, where, timer, fired, canceller, earliestNext>>

\* Mutant of cascadeTo: a timer that is due is not moved but forgotten.
cascadeToNone(t) == IF timer[t].cancelled \/ Diff(timer[t].next) = 0 THEN 0 ELSE wheelFor(timer[t].next)

cascadeTo(t) == IF timer[t].cancelled THEN 0 ELSE wheelFor(timer[t].next)

SlotDone == pass.slot \in 0..(TreeSlot - 1) /\ pass.todo = {} /\ pass.seen = None

\* The slot is done: on to the next slot, wheel or the tree.
NextSlot ==
  /\ SlotDone
  /\ LET level == pass.slot - Slots + 2
         moved == IF pass.slot < Slots THEN {} ELSE {t \in Timers : where[t] = level}
         nexts == {timer[t].next : t \in {u \in moved : ~timer[u].cancelled}}
     IN  /\ where' = [t \in Timers |-> IF t \in moved THEN cascadeTo(t) ELSE where[t]]
         /\ earliestNext' = earliest({earliestNext} \cup nexts)
  /\ pass' = [pass EXCEPT !.slot = @ + 1, !.todo = IF pass.slot + 1 < Slots \/ pass.slot + 1 = TreeSlot
                                                     THEN InSlot(pass.slot + 1) ELSE {}]
  /\ UNCHANGED <<clock, timer, fired, canceller>>

\* earliestNext_ becomes what was found in wheel 0 and in the tree.
Finish ==
  /\ pass.slot = TreeSlot /\ pass.todo = {} /\ pass.seen = None
  /\ earliestNext' = earliest({pass.next} \cup {timer[t].next : t \in {u \in Timers : where[u] = Tree}})
  /\ pass' = NoPass
  /\ UNCHANGED <<clock, where, timer, fired, canceller>>

Advance ==
  \/ listExpiredCb \/ NextSlot \/ Finish
  \/ \E t \in Timers : Look(t) \/ ExpireOnce(t) \/ ExpireRecurring(t) \/ Remain(t)
----------------------------------------------------------------------------
TimerNext ==
  \/ Tick \/ Advance
  \/ \E t \in Timers : \/ CancelFlag(t) \/ CancelLock(t)
                       \/ \E ms \in Delays, recurring \in Recurring : addTimer(t, ms, recurring)

TimerSpec == TimerInit /\ [][TimerNext]_wheelVars

\* Time passes, and some worker calls listExpiredCb again and again.
TimerFairSpec == TimerSpec /\ WF_wheelVars(Tick) /\ WF_wheelVars(Advance)
----------------------------------------------------------------------------
TimerTypeOK ==
  /\ clock \in 0..MaxTime
  /\ where \in [Timers -> 0..Tree]
  /\ timer \in [Timers -> [next : 0..(2 * MaxTime) \cup {Never}, ms : 0..MaxTime, recurring : BOOLEAN,
                           cancelled : BOOLEAN, cb : BOOLEAN]]
  /\ fired \in [Timers -> 0..MaxFired]
  /\ canceller \in [Timers -> {"none", "lock", "done"}]
  /\ earliestNext \in 0..Never
  /\ pass \in [slot : -1..TreeSlot, todo : SUBSET Timers, seen : Timers \cup {None}, now : 0..MaxTime, next : 0..Never]

\* A timer that is to fire: created, neither cancelled nor fired for good.
Live(t) == timer[t].cb /\ ~timer[t].cancelled

\* A recurring timer (timer.hpp:24) that is not cancelled stays in a wheel or
\* in the tree.  This fails (README, deviations).
RecurringStays == \A t \in Timers : Live(t) /\ timer[t].recurring => where[t] # 0

\* A timer that is not recurring fires at most once, also when it meets
\* several calls of listExpiredCb and a cancel().
FiresOnce == \A t \in Timers : ~timer[t].recurring => fired[t] < 2

\* When cancel() has returned true the callback is not collected any more,
\* even if a recurring timer was inserted again under it.
CancelledSilent == [][\A t \in Timers : canceller[t] = "done" => fired'[t] = fired[t]]_wheelVars

\* getNextTimer() is never more than the time to the nearest timer
\* (timer.hpp:51): earliestNext_ is not later than any timer that is to fire.
\* This fails (README, deviations).
NextTimerCovers == Unlocked => \A t \in Timers : Live(t) /\ where[t] # 0 => earliestNext <= timer[t].next

\* listExpiredCb collects every callback that is due when it is called
\* (timer.hpp:53).  This fails (README, deviations).
ExpiredCollected ==
  [][pass # NoPass /\ pass' = NoPass => \A t \in Timers : Live(t) /\ where[t] # 0 => timer[t].next > pass.now]_wheelVars

\* A timer fires or is cancelled when time passes and listExpiredCb is
\* called again and again, from whatever wheel it started in.
TimerFires == \A t \in Timers : (Live(t) /\ timer[t].next < MaxTime) ~> (fired[t] > 0 \/ timer[t].cancelled)
============================================================================

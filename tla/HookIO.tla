------------------------------ MODULE HookIO ------------------------------
(***************************************************************************)
(* The hooked calls that wait (hook.cpp): do_io, behind read, recv, send,  *)
(* accept and the others, and connect_with_timeout.  One fiber makes one   *)
(* call after another on one fd and one event; the callbacks of its        *)
(* timers run on other workers, the peer makes the fd ready, and another   *)
(* fiber closes it.                                                        *)
(*                                                                         *)
(* The timer wheel and the fd table are models of their own (TimerWheel,   *)
(* FdEvents): here a timer is pending until it expires or is cancelled,    *)
(* and an event is registered or not.                                      *)
(***************************************************************************)
EXTENDS Integers

CONSTANTS
  Kinds,      \* a subset of {"io", "connect"}: do_io, connect_with_timeout
  MaxCalls,   \* bound on the calls
  MaxWaits    \* bound on the waits of one call

ASSUME HookAssumption ==
  Kinds \subseteq {"io", "connect"} /\ MaxCalls \in Nat /\ MaxWaits \in Nat

Calls == 1..MaxCalls
Timers == Calls \X (1..MaxWaits)

VARIABLES
  pc,         \* where the fiber is
  call, kind, wait,   \* its call, what it calls, the waits it has begun
  timed,      \* the call has a timeout: to != -1
  timer,      \* the timer of each wait: "none", "set", "due" (expired, its
              \* callback scheduled), "cancelling" (in it), "over"
  cnacelled,  \* timer_info::cnacelled of each call
  registered, \* the fd has the fiber's event
  queued,     \* the fiber is in the scheduler's queue
  ready,      \* the call would succeed now
  fd,         \* "open", "closing" (cancelAll() is done), "closed"
  outcome     \* what each call has returned

fiberVars == <<pc, call, kind, wait, timed, outcome>>
hookVars == <<fiberVars, timer, cnacelled, registered, queued, ready, fd>>

HookInit ==
  /\ pc = "idle" /\ call = 0 /\ kind = "io" /\ wait = 0 /\ timed = FALSE
  /\ timer = [t \in Timers |-> "none"]
  /\ cnacelled = [c \in Calls |-> FALSE]
  /\ registered = FALSE /\ queued = FALSE /\ ready = FALSE
  /\ fd = "open"
  /\ outcome = [c \in Calls |-> "none"]
----------------------------------------------------------------------------
(* The fiber.                                                              *)

goto(l) == pc' = l /\ UNCHANGED <<call, kind, wait, timed, outcome>>

return(r) ==
  /\ pc' = "idle"
  /\ outcome' = [outcome EXCEPT ![call] = r]
  /\ UNCHANGED <<call, kind, wait, timed>>

\* A socket is connected once, before anything else.
Call(k, to) ==
  /\ pc = "idle" /\ call < MaxCalls
  /\ k = "connect" => call = 0
  /\ pc' = "try" /\ call' = call + 1 /\ kind' = k /\ timed' = to /\ wait' = 0
  /\ UNCHANGED <<timer, cnacelled, registered, queued, ready, fd, outcome>>

\* The system call succeeds, or fails: with an error that is not EAGAIN or
\* EINPROGRESS, or with any on an fd that is not hooked or that its user has
\* made non-blocking.
TryReturn ==
  /\ pc = "try"
  /\ \/ ready /\ fd # "closed" /\ return("ok") /\ ready' = (kind = "connect")
     \/ return("failed") /\ UNCHANGED ready
  /\ UNCHANGED <<timer, cnacelled, registered, queued, fd>>

\* EAGAIN or EINPROGRESS: a timer is set if there is a timeout.
Arm ==
  /\ pc = "try" /\ ~ready /\ fd # "closed" /\ wait < MaxWaits
  /\ pc' = "add" /\ wait' = wait + 1
  /\ timer' = IF timed THEN [timer EXCEPT ![<<call, wait + 1>>] = "set"] ELSE timer
  /\ UNCHANGED <<call, kind, timed, outcome, cnacelled, registered, queued, ready, fd>>

\* timer->cancel(): it comes too late for a timer that has expired.
cancelTimer == timer' = [timer EXCEPT ![<<call, wait>>] = IF @ = "set" THEN "none" ELSE @]

\* addEvent() fails for an fd that is closed: epoll_ctl does.
AddEvent ==
  /\ pc = "add"
  /\ IF fd = "closed" THEN return("failed") /\ cancelTimer /\ UNCHANGED registered
                      ELSE goto("yield") /\ registered' = TRUE /\ UNCHANGED timer
  /\ UNCHANGED <<cnacelled, queued, ready, fd>>

Yield == pc = "yield" /\ goto("parked") /\ UNCHANGED <<timer, cnacelled, registered, queued, ready, fd>>

\* A worker takes the fiber from its queue.
Resume ==
  /\ pc = "parked" /\ queued
  /\ goto("woken") /\ queued' = FALSE
  /\ UNCHANGED <<timer, cnacelled, registered, ready, fd>>

CancelTimer == pc = "woken" /\ cancelTimer /\ goto("check") /\ UNCHANGED <<cnacelled, registered, queued, ready, fd>>

\* Mutant of Check: connect_with_timeout does not look at the flag.
CheckConnectUnflagged ==
  /\ pc = "check"
  /\ IF kind = "io" THEN IF cnacelled[call] THEN return("timedout") ELSE goto("try")
                    ELSE return(IF fd = "closed" THEN "failed" ELSE "ok")
  /\ UNCHANGED <<timer, cnacelled, registered, queued, ready, fd>>

\* The wait is over: the call has timed out, do_io tries again, and
\* connect_with_timeout asks the socket for its error, which is 0 while the
\* connection is still being made.
Check ==
  /\ pc = "check"
  /\ IF cnacelled[call] THEN return("timedout")
     ELSE IF kind = "io" THEN goto("try")
     ELSE return(IF fd = "closed" THEN "failed" ELSE "ok")
  /\ UNCHANGED <<timer, cnacelled, registered, queued, ready, fd>>
----------------------------------------------------------------------------
(* The other actors.                                                       *)

\* Mutant of wake: the event stays registered.
wakeRegistered == queued' = TRUE /\ UNCHANGED registered

\* triggerEvent(): the event is taken away and its fiber scheduled.
wake == registered' = FALSE /\ queued' = TRUE

\* epoll_wait reports the event.
Report ==
  /\ registered /\ ready /\ fd # "closed"
  /\ wake
  /\ UNCHANGED <<fiberVars, timer, cnacelled, ready, fd>>

\* The wheel finds the timer expired and schedules its callback.
Expire(t) ==
  /\ timer[t] = "set"
  /\ timer' = [timer EXCEPT ![t] = "due"]
  /\ UNCHANGED <<fiberVars, cnacelled, registered, queued, ready, fd>>

\* Mutant of CallbackMark: one timer_info serves all calls.
CallbackMarkShared(t) ==
  /\ timer[t] = "due"
  /\ timer' = [timer EXCEPT ![t] = "cancelling"]
  /\ cnacelled' = [cnacelled EXCEPT ![call] = TRUE]
  /\ UNCHANGED <<fiberVars, registered, queued, ready, fd>>

\* The callback does nothing if the call has returned (winfo has expired) or
\* another timer of it has marked it.
CallbackMark(t) ==
  /\ timer[t] = "due"
  /\ IF t[1] = call /\ pc # "idle" /\ ~cnacelled[call]
       THEN /\ timer' = [timer EXCEPT ![t] = "cancelling"]
            /\ cnacelled' = [cnacelled EXCEPT ![call] = TRUE]
       ELSE timer' = [timer EXCEPT ![t] = "over"] /\ UNCHANGED cnacelled
  /\ UNCHANGED <<fiberVars, registered, queued, ready, fd>>

\* Mutant of CallbackCancel: the flag is all that the callback sets.
CallbackCancelNothing(t) ==
  /\ timer[t] = "cancelling"
  /\ timer' = [timer EXCEPT ![t] = "over"]
  /\ UNCHANGED <<fiberVars, cnacelled, registered, queued, ready, fd>>

\* cancelEvent(): no event, or an fd that epoll_ctl refuses, and it fails.
CallbackCancel(t) ==
  /\ timer[t] = "cancelling"
  /\ timer' = [timer EXCEPT ![t] = "over"]
  /\ IF registered /\ fd # "closed" THEN wake ELSE UNCHANGED <<registered, queued>>
  /\ UNCHANGED <<fiberVars, cnacelled, ready, fd>>

\* The peer sends, reads or accepts; another reader takes what there is.
Peer ==
  /\ ~ready \/ kind = "io"
  /\ ready' = ~ready
  /\ UNCHANGED <<fiberVars, timer, cnacelled, registered, queued, fd>>

\* close() cancels what is registered ...
CancelAll ==
  /\ fd = "open"
  /\ fd' = "closing"
  /\ IF registered THEN wake ELSE UNCHANGED <<registered, queued>>
  /\ UNCHANGED <<fiberVars, timer, cnacelled, ready>>

\* ... and closes the fd.
CloseFd ==
  /\ fd = "closing"
  /\ fd' = "closed"
  /\ UNCHANGED <<fiberVars, timer, cnacelled, registered, queued, ready>>
----------------------------------------------------------------------------
fiberStep == TryReturn \/ Arm \/ AddEvent \/ Yield \/ Resume \/ CancelTimer \/ Check
timerStep == \E t \in Timers : Expire(t) \/ CallbackMark(t) \/ CallbackCancel(t)

HookNext ==
  \/ \E k \in Kinds, to \in BOOLEAN : Call(k, to)
  \/ fiberStep \/ timerStep \/ Report \/ Peer \/ CancelAll \/ CloseFd

HookSpec == HookInit /\ [][HookNext]_hookVars

\* The workers run what is queued, and their idle loops fire the timers and
\* handle what epoll reports.
HookFairSpec ==
  /\ HookSpec
  /\ WF_hookVars(fiberStep) /\ WF_hookVars(Report) /\ WF_hookVars(CloseFd)
  /\ \A t \in Timers : WF_hookVars(Expire(t) \/ CallbackMark(t) \/ CallbackCancel(t))
----------------------------------------------------------------------------
HookTypeOK ==
  /\ pc \in {"idle", "try", "add", "yield", "parked", "woken", "check"}
  /\ call \in 0..MaxCalls /\ kind \in {"io", "connect"} /\ wait \in 0..MaxWaits /\ timed \in BOOLEAN
  /\ timer \in [Timers -> {"none", "set", "due", "cancelling", "over"}]
  /\ cnacelled \in [Calls -> BOOLEAN]
  /\ registered \in BOOLEAN /\ queued \in BOOLEAN /\ ready \in BOOLEAN
  /\ fd \in {"open", "closing", "closed"}
  /\ outcome \in [Calls -> {"none", "ok", "failed", "timedout"}]

\* A call fails with ETIMEDOUT only if a timer of that same call expired: a
\* late callback of an earlier call on the fd may wake the fiber, but the
\* call it meets tries again.
TimeoutEarned ==
  \A c \in Calls : outcome[c] = "timedout" =>
    \E w \in 1..MaxWaits : timer[<<c, w>>] \in {"due", "cancelling", "over"}

\* The fiber is scheduled only for a wait it has begun and only once for it,
\* whoever wakes it: the event, the timer or close().  A second entry in the
\* queue would resume it in the middle of something else.
WakeForWait ==
  /\ queued \/ registered => pc \in {"yield", "parked"}
  /\ ~(queued /\ registered)

\* connect_with_timeout returns 0 only when the socket is connected, or to a
\* fiber that close() has woken and whose socket it has yet to close.
ConnectTruthful ==
  [][kind = "connect" /\ pc # "idle" /\ outcome'[call] = "ok" => ready \/ fd = "closing"]_hookVars

\* A wait with a timeout ends, by the event, the timer or close(), when it was
\* begun on an open fd and before the callback of a timer has marked the call.
TimedWaitEnds ==
  timed /\ pc = "parked" /\ ~cnacelled[call] /\ fd = "open" ~> pc # "parked"

\* A call with a timeout returns: "wait for the timeout or for the socket to
\* be writable, the coroutine returns" (hook.cpp:270).  This fails (README,
\* deviations).
TimeoutReturns == timed /\ pc # "idle" ~> pc = "idle"
============================================================================

----------------------------- MODULE Connection -----------------------------
(***************************************************************************)
(* pulsar::net::Connection (net.cpp): a fiber waits for an event of a      *)
(* connection, and three parties race to end the wait: the event, whose    *)
(* callback a worker runs, the timer of the deadline, and Close(), which   *)
(* cancels the events.  The first to set WaitState::outcome schedules the  *)
(* fiber.                                                                  *)
(*                                                                         *)
(* A WaitState is a number of its fiber: while somebody holds it the next  *)
(* wait of the fiber gets another.  A callback that will find the outcome  *)
(* set does nothing and is not kept.  The fd table and the timer wheel are *)
(* models of their own (FdEvents, TimerWheel).                             *)
(***************************************************************************)
EXTENDS Integers

CONSTANTS
  Conns,      \* the connections
  Fibers,     \* the fibers that use them
  States      \* numbers for the WaitStates of one fiber

ASSUME ConnAssumption == Conns # {} /\ States # {} /\ States \subseteq Nat

Events == {"READ", "WRITE"}
Waits == Fibers \X States

VARIABLES
  closed,     \* closed_; the fd is open until then
  wait,       \* the WaitStates
  cur,        \* the state of the wait each fiber is in or was last in
  inWait,     \* the fiber has yielded in Wait()
  tasks       \* entries for the fiber in the scheduler's queues

connVars == <<closed, wait, cur, inWait, tasks>>

\* reg: the event is registered with this callback; cb: it has been triggered
\* and the callback is queued; timer: "set", "due" (expired, its callback
\* queued), "cancel" (in the callback, the outcome set), "off".
NoWait == [conn |-> CHOOSE c \in Conns : TRUE, event |-> "READ", outcome |-> 0,
           used |-> FALSE, reg |-> FALSE, cb |-> FALSE, timer |-> "off"]

ConnInit ==
  /\ closed = [c \in Conns |-> FALSE]
  /\ wait = [w \in Waits |-> NoWait]
  /\ cur \in [Fibers -> {CHOOSE n \in States : TRUE}]
  /\ inWait = [f \in Fibers |-> FALSE]
  /\ tasks = [f \in Fibers |-> 0]

Current(f) == <<f, cur[f]>>

\* The fiber is still in the wait: Wait() has not returned.
Live(w) == inWait[w[1]] /\ cur[w[1]] = w[2]

Registered(w, c, e) == wait[w].reg /\ wait[w].conn = c /\ wait[w].event = e

schedule(f) == tasks' = [tasks EXCEPT ![f] = @ + 1]

\* Mutant of triggered: the event is taken away and its callback is not run.
triggeredSilently(r) == [r EXCEPT !.reg = FALSE]

\* IOManager takes the event away and queues the callback.
triggered(r) == [r EXCEPT !.reg = FALSE, !.cb = (r.outcome = 0)]

\* The event's callback and the timer's have set the outcome: what the other
\* would still do comes to nothing.
finished(r) == [r EXCEPT !.outcome = 1, !.cb = FALSE, !.timer = IF r.timer = "due" THEN "off" ELSE r.timer]
timedOut(r) == [r EXCEPT !.outcome = 2, !.cb = FALSE, !.timer = "cancel"]

\* Whoever set the outcome has scheduled the fiber.
Over(r) == r.outcome # 0 /\ r.timer # "cancel"

timerCancelled(r) == [r EXCEPT !.timer = IF r.timer = "set" THEN "off" ELSE r.timer]
----------------------------------------------------------------------------
(* Wait().                                                                 *)

\* On an open connection the event is registered, a timer is set if there is
\* a deadline, and the fiber yields.  A second registration of the event
\* would be the end of the program (iomanager.cpp:173).
BeginWait(f, c, e, timed) ==
  /\ ~inWait[f] /\ ~closed[c]
  /\ \E n \in States :
       /\ ~wait[<<f, n>>].used /\ \A m \in States : m < n => wait[<<f, m>>].used
       /\ wait' = [wait EXCEPT ![<<f, n>>] =
                     [conn |-> c, event |-> e, outcome |-> 0, used |-> TRUE, reg |-> TRUE, cb |-> FALSE,
                      timer |-> IF timed THEN "set" ELSE "off"]]
       /\ cur' = [cur EXCEPT ![f] = n]
  /\ inWait' = [inWait EXCEPT ![f] = TRUE]
  /\ UNCHANGED <<closed, tasks>>

\* What Wait() returns to the fiber that has been resumed.
Result(f) ==
  IF wait[Current(f)].outcome = 2 THEN "ETIMEDOUT"
  ELSE IF closed[wait[Current(f)].conn] THEN "EBADF" ELSE "ready"

\* Resumed, whoever has scheduled the fiber: the timer is cancelled, which
\* comes too late if it is due.  The state is free unless its wait was not
\* over yet.
EndWait(f) ==
  /\ inWait[f] /\ tasks[f] > 0
  /\ inWait' = [inWait EXCEPT ![f] = FALSE]
  /\ tasks' = [tasks EXCEPT ![f] = @ - 1]
  /\ wait' = [wait EXCEPT ![Current(f)] =
                IF Over(@) THEN NoWait ELSE timerCancelled(@)]
  /\ UNCHANGED <<closed, cur>>
----------------------------------------------------------------------------
(* The wakers.                                                             *)

\* epoll_wait reports the event.
Report(w) ==
  /\ wait[w].reg
  /\ wait' = [wait EXCEPT ![w] = triggered(@)]
  /\ UNCHANGED <<closed, cur, inWait, tasks>>

\* Finish(1).
EventCallback(w) ==
  /\ wait[w].cb
  /\ wait' = [wait EXCEPT ![w] =
                IF Live(w) THEN finished(@) ELSE NoWait]
  /\ schedule(w[1])
  /\ UNCHANGED <<closed, cur, inWait>>

\* The wheel finds the timer expired and schedules its callback.
Expire(w) ==
  /\ wait[w].timer = "set" /\ wait[w].outcome = 0
  /\ wait' = [wait EXCEPT ![w].timer = "due"]
  /\ UNCHANGED <<closed, cur, inWait, tasks>>

\* The callback sets the outcome ...
TimerCallback(w) ==
  /\ wait[w].timer = "due"
  /\ wait' = [wait EXCEPT ![w] = timedOut(@)]
  /\ UNCHANGED <<closed, cur, inWait, tasks>>

\* ... and, on a connection that is open, cancels the event, whosever it is,
\* and schedules the fiber.
TimerCancel(w) ==
  /\ wait[w].timer = "cancel"
  /\ wait' = [v \in Waits |->
       LET r == IF ~closed[wait[w].conn] /\ Registered(v, wait[w].conn, wait[w].event)
                  THEN triggered(wait[v]) ELSE wait[v] IN
       IF v # w THEN r ELSE IF Live(w) THEN [r EXCEPT !.timer = "off"] ELSE NoWait]
  /\ schedule(w[1])
  /\ UNCHANGED <<closed, cur, inWait>>

\* Close() of the connections cs.  Under one lock: the flag, cancelAll(),
\* shutdown and close.
Close(cs) ==
  /\ closed' = [c \in Conns |-> closed[c] \/ c \in cs]
  /\ wait' = [w \in Waits |-> IF wait[w].reg /\ wait[w].conn \in cs THEN triggered(wait[w]) ELSE wait[w]]
  /\ UNCHANGED <<cur, inWait, tasks>>
----------------------------------------------------------------------------
wakerStep(w) == Report(w) \/ EventCallback(w) \/ Expire(w) \/ TimerCallback(w) \/ TimerCancel(w)

\* Fibers that wait for whatever they like; at most one reader and one writer
\* per connection (net.hpp:21), so no event is registered twice.
ConnNext ==
  \/ \E f \in Fibers : \/ EndWait(f)
                       \/ \E c \in Conns, e \in Events, timed \in BOOLEAN :
                            /\ \A w \in Waits : ~Registered(w, c, e)
                            /\ BeginWait(f, c, e, timed)
  \/ \E w \in Waits : wakerStep(w)
  \/ \E c \in Conns : Close({c})

ConnSpec == ConnInit /\ [][ConnNext]_connVars
----------------------------------------------------------------------------
WaitStates ==
  [conn : Conns, event : Events, outcome : {0, 1, 2}, used : BOOLEAN, reg : BOOLEAN, cb : BOOLEAN,
   timer : {"off", "set", "due", "cancel"}]

ConnTypeOK ==
  /\ closed \in [Conns -> BOOLEAN]
  /\ wait \in [Waits -> WaitStates]
  /\ cur \in [Fibers -> States]
  /\ inWait \in [Fibers -> BOOLEAN]
  /\ tasks \in [Fibers -> Nat]

\* A fiber that waits will be woken: its event is registered on an open
\* connection, or a callback of it is queued or running, or the fiber is
\* scheduled; however readiness, timeout and Close() interleave (net.cpp:118-137).
NoLostWait ==
  \A f \in Fibers : inWait[f] =>
    LET r == wait[Current(f)] IN
    \/ r.reg /\ ~closed[r.conn]
    \/ r.cb \/ r.timer = "cancel" \/ tasks[f] > 0

\* Without a stray task the fiber is scheduled once per wait: when Wait()
\* returns nobody is left who would schedule it again.
WaitEndsOnce ==
  \A f \in Fibers :
    /\ tasks[f] > 0 => inWait[f] /\ wait[Current(f)].outcome # 0 /\ wait[Current(f)].timer # "cancel" /\ tasks[f] = 1
    /\ \A n \in States : wait[<<f, n>>].used => Live(<<f, n>>)
============================================================================

-------------------------- MODULE RpcChannelProofs --------------------------
(***************************************************************************)
(* No wait on a connection is lost, whoever else schedules the fiber; and  *)
(* if nobody else does, every wait is ended once.  The same in a channel,  *)
(* pooled or multiplexed: calls, answers, timeouts, readers that give up   *)
(* and ~Channel schedule fibers and close connections in any order.  For   *)
(* any number of callers, calls, connections, slots and workers.           *)
(***************************************************************************)
EXTENDS RpcChannel, FiniteSetTheorems, TLAPS

(* Connection: Wait() and its wakers.                                      *)

\* A wait whose outcome is set has scheduled its fiber or is about to.
Decided ==
  \A f \in Fibers : inWait[f] /\ wait[Current(f)].outcome # 0 =>
    wait[Current(f)].timer = "cancel" \/ tasks[f] > 0

WaitInv == ConnTypeOK /\ NoLostWait /\ Decided
----------------------------------------------------------------------------
\* What triggerEvent leaves of a WaitState.
LEMMA TriggeredRecord ==
  ASSUME NEW r \in WaitStates
  PROVE  /\ triggered(r) \in WaitStates
         /\ triggered(r).reg = FALSE /\ triggered(r).cb = (r.outcome = 0)
         /\ triggered(r).outcome = r.outcome /\ triggered(r).timer = r.timer
         /\ triggered(r).used = r.used /\ triggered(r).conn = r.conn /\ triggered(r).event = r.event
BY Zenon DEF triggered, WaitStates

LEMMA NoWaitRecord ==
  /\ NoWait \in WaitStates
  /\ NoWait.outcome = 0 /\ ~NoWait.used /\ ~NoWait.reg /\ ~NoWait.cb /\ NoWait.timer = "off"
<1>1. (CHOOSE c \in Conns : TRUE) \in Conns
  BY ConnAssumption, Zenon
<1> QED
  BY <1>1, Zenon DEF NoWait, WaitStates, Events

LEMMA CurrentIsWait ==
  ASSUME ConnTypeOK, NEW f \in Fibers
  PROVE  Current(f) \in Waits /\ Current(f)[1] = f /\ Current(f)[2] = cur[f] /\ wait[Current(f)] \in WaitStates
BY Zenon DEF ConnTypeOK, Current, Waits

\* A wait that was not lost is not lost either when its event is triggered.
LEMMA TriggeredKept ==
  ASSUME WaitInv, NEW f \in Fibers, inWait[f]
  PROVE  LET r == triggered(wait[Current(f)]) IN
         /\ r.cb \/ r.timer = "cancel" \/ tasks[f] > 0
         /\ r.outcome # 0 => r.timer = "cancel" \/ tasks[f] > 0
<1> DEFINE r == wait[Current(f)]
<1>1. r \in WaitStates
  BY CurrentIsWait, Zenon DEF WaitInv
<1>2. /\ triggered(r).cb = (r.outcome = 0)
      /\ triggered(r).outcome = r.outcome /\ triggered(r).timer = r.timer
  BY <1>1, TriggeredRecord, Zenon
<1>3. r.outcome # 0 => r.timer = "cancel" \/ tasks[f] > 0
  BY Zenon DEF WaitInv, Decided
<1> QED
  BY <1>2, <1>3, Zenon
----------------------------------------------------------------------------
(* The steps.  Each keeps WaitInv.                                         *)

LEMMA BeginWaitKeeps ==
  ASSUME WaitInv, NEW f \in Fibers, NEW c \in Conns, NEW e \in Events, NEW timed \in BOOLEAN,
         BeginWait(f, c, e, timed)
  PROVE  WaitInv'
<1> USE DEF WaitInv
<1>1. PICK n \in States :
        /\ wait' = [wait EXCEPT ![<<f, n>>] =
                      [conn |-> c, event |-> e, outcome |-> 0, used |-> TRUE, reg |-> TRUE, cb |-> FALSE,
                       timer |-> IF timed THEN "set" ELSE "off"]]
        /\ cur' = [cur EXCEPT ![f] = n]
  BY Zenon DEF BeginWait
<1> DEFINE s == [conn |-> c, event |-> e, outcome |-> 0, used |-> TRUE, reg |-> TRUE, cb |-> FALSE,
                 timer |-> IF timed THEN "set" ELSE "off"]
<1>2. s \in WaitStates /\ s.reg /\ s.conn = c /\ s.outcome = 0
  BY Zenon DEF WaitStates
<1>3. <<f, n>> \in Waits
  BY Zenon DEF Waits
<1>4. /\ ~closed[c] /\ closed' = closed /\ tasks' = tasks
      /\ inWait' = [inWait EXCEPT ![f] = TRUE]
      /\ wait' = [wait EXCEPT ![<<f, n>>] = s]
  BY <1>1, Zenon DEF BeginWait
<1> HIDE DEF s
<1>5. ConnTypeOK'
  BY <1>1, <1>2, <1>3, <1>4 DEF ConnTypeOK
<1>6. Current(f)' = <<f, n>> /\ wait'[<<f, n>>] = s
  BY <1>1, <1>3, <1>4, Zenon DEF Current, ConnTypeOK
<1>7. ASSUME NEW g \in Fibers, g # f
      PROVE  /\ Current(g)' = Current(g) /\ wait'[Current(g)] = wait[Current(g)] /\ inWait'[g] = inWait[g]
  <2>1. Current(g)' = Current(g)
    BY <1>1, <1>7, Zenon DEF Current, ConnTypeOK
  <2>2. Current(g) \in Waits /\ Current(g) # <<f, n>>
    BY <1>7, CurrentIsWait, Zenon DEF Current
  <2> QED
    BY <1>4, <1>7, <2>1, <2>2, Zenon DEF ConnTypeOK
<1>8. NoLostWait'
  BY <1>2, <1>4, <1>6, <1>7 DEF NoLostWait
<1>9. Decided'
  BY <1>2, <1>4, <1>6, <1>7 DEF Decided
<1> QED
  BY <1>5, <1>8, <1>9, Zenon

LEMMA EndWaitKeeps ==
  ASSUME WaitInv, NEW f \in Fibers, EndWait(f)
  PROVE  WaitInv'
<1> USE DEF WaitInv
<1> DEFINE r == wait[Current(f)]
           s == IF Over(r) THEN NoWait ELSE timerCancelled(r)
<1>1. r \in WaitStates /\ Current(f) \in Waits
  BY CurrentIsWait, Zenon
<1>2. s \in WaitStates
  BY <1>1, NoWaitRecord, Zenon DEF WaitStates, timerCancelled
<1>3. /\ wait' = [wait EXCEPT ![Current(f)] = s]
      /\ inWait' = [inWait EXCEPT ![f] = FALSE] /\ tasks' = [tasks EXCEPT ![f] = @ - 1]
      /\ closed' = closed /\ cur' = cur /\ tasks[f] > 0
  BY Zenon DEF EndWait
<1> HIDE DEF s, r
<1>4. ConnTypeOK'
  BY <1>1, <1>2, <1>3 DEF ConnTypeOK
<1>5. ~inWait'[f]
  BY <1>3, Zenon DEF ConnTypeOK
<1>6. ASSUME NEW g \in Fibers, g # f
      PROVE  /\ Current(g)' = Current(g) /\ wait'[Current(g)] = wait[Current(g)] /\ inWait'[g] = inWait[g]
             /\ tasks'[g] = tasks[g]
  <2>1. Current(g) \in Waits /\ Current(g) # Current(f) /\ Current(g)' = Current(g)
    BY <1>3, <1>6, CurrentIsWait, Zenon DEF Current
  <2> QED
    BY <1>3, <1>6, <2>1, Zenon DEF ConnTypeOK
<1> QED
  BY <1>3, <1>4, <1>5, <1>6 DEF NoLostWait, Decided

\* A step that changes the WaitStates, keeps the fibers where they are and
\* drops no task keeps WaitInv if no wait that is open is lost.
LEMMA WakerKeeps ==
  ASSUME WaitInv, ConnTypeOK', UNCHANGED <<cur, inWait>>,
         \A f \in Fibers : tasks[f] > 0 => tasks'[f] > 0,
         \A f \in Fibers : inWait[f] =>
           \/ tasks'[f] > 0
           \/ wait'[Current(f)] = triggered(wait[Current(f)])
           \/ /\ wait'[Current(f)] = wait[Current(f)]
              /\ wait[Current(f)].reg => closed'[wait[Current(f)].conn] = closed[wait[Current(f)].conn]
           \/ wait'[Current(f)].timer = "cancel"
           \/ /\ wait'[Current(f)] = [wait[Current(f)] EXCEPT !.timer = "due"]
              /\ closed' = closed /\ wait[Current(f)].timer # "cancel"
  PROVE  WaitInv'
<1> SUFFICES ASSUME NEW f \in Fibers, inWait[f]
             PROVE  LET r == wait'[Current(f)] IN
                    /\ (r.reg /\ ~closed'[r.conn]) \/ r.cb \/ r.timer = "cancel" \/ tasks'[f] > 0
                    /\ r.outcome # 0 => r.timer = "cancel" \/ tasks'[f] > 0
  BY Zenon DEF WaitInv, NoLostWait, Decided, Current
<1> DEFINE r == wait[Current(f)]
<1>1. r \in WaitStates
  BY CurrentIsWait, Zenon DEF WaitInv
<1>2. /\ (r.reg /\ ~closed[r.conn]) \/ r.cb \/ r.timer = "cancel" \/ tasks[f] > 0
      /\ r.outcome # 0 => r.timer = "cancel" \/ tasks[f] > 0
  BY Zenon DEF WaitInv, NoLostWait, Decided
<1>3. CASE tasks'[f] > 0
  BY <1>3, Zenon
<1>4. CASE wait'[Current(f)] = triggered(r)
  BY <1>4, TriggeredKept, Zenon
<1>5. CASE wait'[Current(f)] = r /\ (r.reg => closed'[r.conn] = closed[r.conn])
  BY <1>2, <1>5, Zenon
<1>6. CASE wait'[Current(f)].timer = "cancel"
  BY <1>6, Zenon
<1>7. CASE wait'[Current(f)] = [r EXCEPT !.timer = "due"] /\ closed' = closed /\ r.timer # "cancel"
  <2>1. LET s == wait'[Current(f)] IN s.reg = r.reg /\ s.conn = r.conn /\ s.cb = r.cb /\ s.outcome = r.outcome
    BY <1>1, <1>7, Zenon DEF WaitStates
  <2> QED
    BY <1>2, <1>7, <2>1, Zenon
<1> QED
  BY <1>3, <1>4, <1>5, <1>6, <1>7, Zenon

LEMMA TasksKeep ==
  ASSUME WaitInv, UNCHANGED <<closed, wait, cur, inWait>>, tasks' \in [Fibers -> Nat],
         \A f \in Fibers : inWait[f] /\ tasks[f] > 0 => tasks'[f] > 0
  PROVE  WaitInv'
BY Zenon DEF WaitInv, ConnTypeOK, NoLostWait, Decided, Current

LEMMA ReportKeeps ==
  ASSUME WaitInv, NEW w \in Waits, Report(w)
  PROVE  WaitInv'
<1>1. wait[w] \in WaitStates /\ triggered(wait[w]) \in WaitStates
  BY TriggeredRecord, Zenon DEF WaitInv, ConnTypeOK
<1>2. ConnTypeOK'
  BY <1>1, Zenon DEF Report, WaitInv, ConnTypeOK
<1>3. ASSUME NEW f \in Fibers
      PROVE  wait'[Current(f)] = triggered(wait[Current(f)]) \/ wait'[Current(f)] = wait[Current(f)]
  BY CurrentIsWait, Zenon DEF Report, WaitInv, ConnTypeOK
<1> QED
  BY <1>2, <1>3, WakerKeeps, Zenon DEF Report

LEMMA EventCallbackKeeps ==
  ASSUME WaitInv, NEW w \in Waits, EventCallback(w)
  PROVE  WaitInv'
<1>1. wait[w] \in WaitStates /\ w[1] \in Fibers
  BY Zenon DEF WaitInv, ConnTypeOK, Waits
<1>2. finished(wait[w]) \in WaitStates
  BY <1>1, Zenon DEF finished, WaitStates
<1>3. ConnTypeOK'
  BY <1>1, <1>2, NoWaitRecord DEF EventCallback, schedule, WaitInv, ConnTypeOK
<1>4. tasks' = [tasks EXCEPT ![w[1]] = @ + 1]
  BY Zenon DEF EventCallback, schedule
<1>5. ASSUME NEW f \in Fibers
      PROVE  /\ tasks[f] > 0 => tasks'[f] > 0
             /\ f = w[1] => tasks'[f] > 0
  BY <1>1, <1>4 DEF WaitInv, ConnTypeOK
<1>6. ASSUME NEW f \in Fibers, f # w[1]
      PROVE  wait'[Current(f)] = wait[Current(f)]
  BY <1>6, CurrentIsWait, Zenon DEF EventCallback, WaitInv, ConnTypeOK
<1> QED
  BY <1>3, <1>5, <1>6, WakerKeeps, Zenon DEF EventCallback

LEMMA ExpireKeeps ==
  ASSUME WaitInv, NEW w \in Waits, Expire(w)
  PROVE  WaitInv'
<1>1. wait[w] \in WaitStates
  BY Zenon DEF WaitInv, ConnTypeOK
<1>2. wait' = [wait EXCEPT ![w] = [wait[w] EXCEPT !.timer = "due"]]
  BY <1>1, Zenon DEF Expire, WaitInv, ConnTypeOK, WaitStates
<1>3. [wait[w] EXCEPT !.timer = "due"] \in WaitStates
  BY <1>1, Zenon DEF WaitStates
<1>4. ConnTypeOK'
  BY <1>2, <1>3, Zenon DEF Expire, WaitInv, ConnTypeOK
<1>5. ASSUME NEW f \in Fibers
      PROVE  \/ wait'[Current(f)] = wait[Current(f)]
             \/ wait'[Current(f)] = [wait[Current(f)] EXCEPT !.timer = "due"] /\ wait[Current(f)].timer # "cancel"
  BY <1>2, CurrentIsWait DEF Expire, WaitInv, ConnTypeOK
<1> QED
  BY <1>4, <1>5, WakerKeeps, Zenon DEF Expire

LEMMA TimerCallbackKeeps ==
  ASSUME WaitInv, NEW w \in Waits, TimerCallback(w)
  PROVE  WaitInv'
<1>1. wait[w] \in WaitStates
  BY Zenon DEF WaitInv, ConnTypeOK
<1>2. timedOut(wait[w]) \in WaitStates /\ timedOut(wait[w]).timer = "cancel"
  BY <1>1, Zenon DEF timedOut, WaitStates
<1>3. wait' = [wait EXCEPT ![w] = timedOut(wait[w])]
  BY Zenon DEF TimerCallback
<1>4. ConnTypeOK'
  BY <1>2, <1>3, Zenon DEF TimerCallback, WaitInv, ConnTypeOK
<1>5. ASSUME NEW f \in Fibers
      PROVE  wait'[Current(f)] = wait[Current(f)] \/ wait'[Current(f)].timer = "cancel"
  BY <1>2, <1>3, CurrentIsWait, Zenon DEF WaitInv, ConnTypeOK
<1> QED
  BY <1>4, <1>5, WakerKeeps, Zenon DEF TimerCallback

\* What TimerCancel makes of every WaitState.
LEMMA TimerCancelRecords ==
  ASSUME ConnTypeOK, NEW w \in Waits, TimerCancel(w), NEW v \in Waits
  PROVE  /\ wait'[v] \in WaitStates
         /\ v # w => (wait[v].reg /\ wait'[v] = triggered(wait[v])) \/ wait'[v] = wait[v]
         /\ v = w => \/ wait'[v] = [wait[v] EXCEPT !.timer = "off"]
                     \/ wait'[v] = [triggered(wait[v]) EXCEPT !.timer = "off"]
                     \/ ~Live(w) /\ wait'[v] = NoWait
<1> DEFINE r == IF ~closed[wait[w].conn] /\ Registered(v, wait[w].conn, wait[w].event)
                  THEN triggered(wait[v]) ELSE wait[v]
<1>1. wait[v] \in WaitStates
  BY Zenon DEF ConnTypeOK
<1>2. r \in WaitStates /\ ((wait[v].reg /\ r = triggered(wait[v])) \/ r = wait[v])
  BY <1>1, TriggeredRecord, Zenon DEF Registered
<1>3. wait'[v] = IF v # w THEN r ELSE IF Live(w) THEN [r EXCEPT !.timer = "off"] ELSE NoWait
  BY Zenon DEF TimerCancel
<1> HIDE DEF r
<1>4. [r EXCEPT !.timer = "off"] \in WaitStates
  BY <1>2, Zenon DEF WaitStates
<1> QED
  BY <1>2, <1>3, <1>4, NoWaitRecord, Zenon

LEMMA TimerCancelKeeps ==
  ASSUME WaitInv, NEW w \in Waits, TimerCancel(w)
  PROVE  WaitInv'
<1> USE DEF WaitInv
<1>1. w[1] \in Fibers
  BY Zenon DEF Waits
<1>2. /\ tasks' = [tasks EXCEPT ![w[1]] = @ + 1] /\ UNCHANGED <<closed, cur, inWait>>
      /\ DOMAIN wait' = Waits /\ wait' = [v \in Waits |-> wait'[v]]
  BY Zenon DEF TimerCancel, schedule
<1>3. wait' \in [Waits -> WaitStates]
  BY <1>2, TimerCancelRecords, Zenon
<1>4. ConnTypeOK'
  BY <1>1, <1>2, <1>3 DEF ConnTypeOK
<1>5. ASSUME NEW f \in Fibers
      PROVE  /\ tasks[f] > 0 => tasks'[f] > 0
             /\ f = w[1] => tasks'[f] > 0
  BY <1>1, <1>2 DEF ConnTypeOK
<1>6. ASSUME NEW f \in Fibers, f # w[1]
      PROVE  wait'[Current(f)] = triggered(wait[Current(f)]) \/ wait'[Current(f)] = wait[Current(f)]
  BY <1>6, CurrentIsWait, TimerCancelRecords, Zenon
<1> QED
  BY <1>2, <1>4, <1>5, <1>6, WakerKeeps, Zenon

LEMMA CloseKeeps ==
  ASSUME WaitInv, NEW cs, Close(cs)
  PROVE  WaitInv'
<1> USE DEF WaitInv
<1>1. ASSUME NEW w \in Waits
      PROVE  wait[w] \in WaitStates /\ triggered(wait[w]) \in WaitStates
  BY TriggeredRecord, Zenon DEF ConnTypeOK
<1>2. ConnTypeOK'
  BY <1>1, Zenon DEF Close, ConnTypeOK
<1>3. ASSUME NEW f \in Fibers
      PROVE  \/ wait'[Current(f)] = triggered(wait[Current(f)])
             \/ /\ wait'[Current(f)] = wait[Current(f)]
                /\ wait[Current(f)].reg => wait[Current(f)].conn \notin cs
  BY CurrentIsWait, Zenon DEF Close
<1>4. ASSUME NEW f \in Fibers, wait[Current(f)].conn \notin cs
      PROVE  closed'[wait[Current(f)].conn] = closed[wait[Current(f)].conn]
  <2>1. wait[Current(f)].conn \in Conns
    BY CurrentIsWait, Zenon DEF WaitStates
  <2> QED
    BY <1>4, <2>1, Zenon DEF Close, ConnTypeOK
<1> QED
  BY <1>2, <1>3, <1>4, WakerKeeps, Zenon DEF Close

LEMMA WaitInvInit ==
  ASSUME ConnInit
  PROVE  WaitInv
<1>1. (CHOOSE n \in States : TRUE) \in States
  BY ConnAssumption, Zenon
<1>2. ConnTypeOK
  BY <1>1, NoWaitRecord, Zenon DEF ConnInit, ConnTypeOK
<1> QED
  BY <1>2, Zenon DEF WaitInv, ConnInit, NoLostWait, Decided
----------------------------------------------------------------------------
(* The theorems.                                                           *)

LEMMA WaitInvStep ==
  ASSUME WaitInv, [ConnNext]_connVars
  PROVE  WaitInv'
<1>1. CASE UNCHANGED connVars
  BY <1>1, Zenon DEF connVars, WaitInv, ConnTypeOK, NoLostWait, Decided, Current
<1>2. CASE ConnNext
  <2>1. ASSUME NEW f \in Fibers, EndWait(f) PROVE WaitInv'
    BY <2>1, EndWaitKeeps, Zenon
  <2>2. ASSUME NEW f \in Fibers, NEW c \in Conns, NEW e \in Events, NEW timed \in BOOLEAN,
               BeginWait(f, c, e, timed)
        PROVE  WaitInv'
    BY <2>2, BeginWaitKeeps, Zenon
  <2>3. ASSUME NEW w \in Waits, wakerStep(w) PROVE WaitInv'
    BY <2>3, ReportKeeps, EventCallbackKeeps, ExpireKeeps, TimerCallbackKeeps, TimerCancelKeeps, Zenon DEF wakerStep
  <2>4. ASSUME NEW c \in Conns, Close({c}) PROVE WaitInv'
    BY <2>4, CloseKeeps, Zenon
  <2> QED
    BY <1>2, <2>1, <2>2, <2>3, <2>4, Zenon DEF ConnNext
<1> QED
  BY <1>1, <1>2, Zenon

\* No wait on a connection is lost: while the fiber is in Wait() something is
\* left that will schedule it.
THEOREM WaitsAreEnded == ConnSpec => []NoLostWait
<1>1. ConnInit => WaitInv
  BY WaitInvInit, Zenon
<1>2. WaitInv /\ [ConnNext]_connVars => WaitInv'
  BY WaitInvStep, Zenon
<1>3. WaitInv => NoLostWait
  BY Zenon DEF WaitInv
<1> QED
  BY <1>1, <1>2, <1>3, PTL DEF ConnSpec
----------------------------------------------------------------------------
\* The strengthening of WaitEndsOnce: a WaitState is used exactly while its
\* fiber waits, and a callback is only left while the outcome is not set.
OnceState(w) ==
  LET r == wait[w] IN
  /\ r.used <=> Live(w)
  /\ ~r.used => ~r.reg /\ ~r.cb /\ r.timer = "off"
  /\ r.cb \/ r.timer = "due" => r.outcome = 0
  /\ r.timer = "cancel" => r.outcome # 0

OnceTask(f) ==
  tasks[f] > 0 => inWait[f] /\ wait[Current(f)].outcome # 0 /\ wait[Current(f)].timer # "cancel" /\ tasks[f] = 1

OnceInv == ConnTypeOK /\ (\A w \in Waits : OnceState(w)) /\ (\A f \in Fibers : OnceTask(f))

LEMMA OnceInvEnough ==
  ASSUME OnceInv
  PROVE  WaitEndsOnce
BY Zenon DEF OnceInv, OnceState, OnceTask, WaitEndsOnce, Waits

\* A waker that leaves the fibers where they are: it is enough to look at the
\* WaitStates and the tasks.
LEMMA OnceWaker ==
  ASSUME OnceInv, ConnTypeOK', UNCHANGED <<cur, inWait>>,
         \A v \in Waits : \/ OnceState(v)'
                          \/ wait'[v] = wait[v]
                          \/ wait[v].reg /\ wait'[v] = triggered(wait[v]),
         \A f \in Fibers : \/ OnceTask(f)'
                           \/ /\ tasks'[f] = tasks[f]
                              /\ \/ wait'[Current(f)] = wait[Current(f)]
                                 \/ wait'[Current(f)] = triggered(wait[Current(f)])
  PROVE  OnceInv'
<1>1. ASSUME NEW v \in Waits PROVE OnceState(v)'
  <2>1. wait[v] \in WaitStates /\ OnceState(v) /\ Live(v)' = Live(v)
    BY Zenon DEF OnceInv, ConnTypeOK, Live
  <2>2. CASE wait'[v] = wait[v]
    BY <2>1, <2>2, Zenon DEF OnceState
  <2>3. CASE wait[v].reg /\ wait'[v] = triggered(wait[v])
    <3>1. /\ triggered(wait[v]).reg = FALSE /\ triggered(wait[v]).cb = (wait[v].outcome = 0)
          /\ triggered(wait[v]).outcome = wait[v].outcome /\ triggered(wait[v]).timer = wait[v].timer
          /\ triggered(wait[v]).used = wait[v].used
      BY <2>1, TriggeredRecord, Zenon
    <3> QED
      BY <2>1, <2>3, <3>1, Zenon DEF OnceState
  <2> QED
    BY <2>2, <2>3, Zenon
<1>2. ASSUME NEW f \in Fibers PROVE OnceTask(f)'
  <2> DEFINE r == wait[Current(f)]
  <2>1. r \in WaitStates /\ Current(f)' = Current(f)
    BY CurrentIsWait, Zenon DEF OnceInv, Current
  <2>2. triggered(r).outcome = r.outcome /\ triggered(r).timer = r.timer
    BY <2>1, TriggeredRecord, Zenon
  <2>3. CASE tasks'[f] = tasks[f] /\ (wait'[Current(f)] = r \/ wait'[Current(f)] = triggered(r))
    BY <2>1, <2>2, <2>3 DEF OnceInv, OnceTask
  <2> QED
    BY <2>3, Zenon
<1> QED
  BY <1>1, <1>2, Zenon DEF OnceInv

LEMMA OnceBegin ==
  ASSUME OnceInv, NEW f \in Fibers, NEW c \in Conns, NEW e \in Events, NEW timed \in BOOLEAN,
         BeginWait(f, c, e, timed)
  PROVE  OnceInv'
<1> DEFINE s == [conn |-> c, event |-> e, outcome |-> 0, used |-> TRUE, reg |-> TRUE, cb |-> FALSE,
                 timer |-> IF timed THEN "set" ELSE "off"]
<1>1. PICK n \in States : wait' = [wait EXCEPT ![<<f, n>>] = s] /\ cur' = [cur EXCEPT ![f] = n]
  BY Zenon DEF BeginWait
<1>2. /\ s \in WaitStates /\ s.used /\ s.reg /\ ~s.cb /\ s.outcome = 0 /\ s.timer \in {"set", "off"}
  BY Zenon DEF WaitStates
<1> HIDE DEF s
<1>3. <<f, n>> \in Waits /\ tasks' = tasks /\ inWait' = [inWait EXCEPT ![f] = TRUE] /\ closed' = closed /\ ~inWait[f]
  BY Zenon DEF Waits, BeginWait
<1>4. ConnTypeOK'
  BY <1>1, <1>2, <1>3, Zenon DEF OnceInv, ConnTypeOK
<1>5. ASSUME NEW v \in Waits PROVE OnceState(v)'
  <2>1. PICK g \in Fibers, m \in States : v = <<g, m>> /\ v[1] = g /\ v[2] = m
    BY DEF Waits
  <2>2. CASE v = <<f, n>>
    <3>1. wait'[v] = s /\ Live(v)'
      BY <1>1, <1>3, <2>1, <2>2, SMTT(30) DEF Live, OnceInv, ConnTypeOK
    <3> QED
      BY <1>2, <3>1, Zenon DEF OnceState
  <2>3. CASE v # <<f, n>> /\ g = f
    <3>1. wait'[v] = wait[v] /\ ~Live(v) /\ ~Live(v)'
      BY <1>1, <1>3, <2>1, <2>3, Zenon DEF Live, OnceInv, ConnTypeOK
    <3> QED
      BY <3>1, Zenon DEF OnceInv, OnceState
  <2>4. CASE g # f
    <3>1. wait'[v] = wait[v] /\ Live(v)' = Live(v)
      BY <1>1, <1>3, <2>1, <2>4, Zenon DEF Live, OnceInv, ConnTypeOK
    <3> QED
      BY <3>1, Zenon DEF OnceInv, OnceState
  <2> QED
    BY <2>2, <2>3, <2>4, Zenon
<1>6. ASSUME NEW g \in Fibers PROVE OnceTask(g)'
  <2>1. CASE g = f
    BY <1>3, <2>1, Zenon DEF OnceInv, OnceTask
  <2>2. CASE g # f
    <3>1. Current(g) \in Waits /\ Current(g)' = Current(g) /\ Current(g) # <<f, n>> /\ inWait'[g] = inWait[g]
      BY <1>1, <1>3, <2>2, CurrentIsWait, Zenon DEF Current, OnceInv, ConnTypeOK
    <3>2. wait'[Current(g)] = wait[Current(g)]
      BY <1>1, <3>1, Zenon DEF OnceInv, ConnTypeOK
    <3> QED
      BY <1>3, <3>1, <3>2, Zenon DEF OnceInv, OnceTask
  <2> QED
    BY <2>1, <2>2, Zenon
<1> QED
  BY <1>4, <1>5, <1>6, Zenon DEF OnceInv

LEMMA OnceEnd ==
  ASSUME OnceInv, NEW f \in Fibers, EndWait(f)
  PROVE  OnceInv'
<1>1. /\ inWait[f] /\ tasks[f] = 1 /\ Over(wait[Current(f)])
  BY Zenon DEF OnceInv, OnceTask, EndWait, Over
<1>2. Current(f) \in Waits /\ Current(f)[1] = f /\ Current(f)[2] = cur[f]
  BY CurrentIsWait, Zenon DEF OnceInv
<1>3. /\ wait' = [wait EXCEPT ![Current(f)] = NoWait] /\ inWait' = [inWait EXCEPT ![f] = FALSE]
      /\ tasks' = [tasks EXCEPT ![f] = 0] /\ cur' = cur /\ closed' = closed
  BY <1>1 DEF EndWait, OnceInv, ConnTypeOK
<1>4. ConnTypeOK'
  BY <1>2, <1>3, NoWaitRecord, Zenon DEF OnceInv, ConnTypeOK
<1>5. ASSUME NEW v \in Waits PROVE OnceState(v)'
  <2>1. CASE v = Current(f)
    <3>1. wait'[v] = NoWait /\ ~Live(v)'
      BY <1>2, <1>3, <2>1, Zenon DEF Live, OnceInv, ConnTypeOK
    <3> QED
      BY <3>1, NoWaitRecord, Zenon DEF OnceState
  <2>2. CASE v # Current(f)
    <3>1. v[1] = f => v[2] # cur[f]
      BY <2>2 DEF Waits, Current
    <3>2. wait'[v] = wait[v] /\ v[1] \in Fibers
      BY <1>3, <2>2, Zenon DEF OnceInv, ConnTypeOK, Waits
    <3>3. Live(v)' = Live(v)
      BY <1>3, <3>1, <3>2, Zenon DEF Live, OnceInv, ConnTypeOK
    <3> QED
      BY <3>2, <3>3, Zenon DEF OnceInv, OnceState
  <2> QED
    BY <2>1, <2>2, Zenon
<1>6. ASSUME NEW g \in Fibers PROVE OnceTask(g)'
  <2>1. CASE g = f
    BY <1>3, <2>1 DEF OnceTask, OnceInv, ConnTypeOK
  <2>2. CASE g # f
    <3>1. Current(g) \in Waits /\ Current(g)' = Current(g) /\ Current(g) # Current(f)
      BY <1>3, <2>2, CurrentIsWait, Zenon DEF Current, OnceInv
    <3>2. wait'[Current(g)] = wait[Current(g)] /\ inWait'[g] = inWait[g] /\ tasks'[g] = tasks[g]
      BY <1>3, <2>2, <3>1, Zenon DEF OnceInv, ConnTypeOK
    <3> QED
      BY <3>1, <3>2, Zenon DEF OnceInv, OnceTask
  <2> QED
    BY <2>1, <2>2, Zenon
<1> QED
  BY <1>4, <1>5, <1>6, Zenon DEF OnceInv

\* A WaitState that somebody may still end is that of a fiber which waits
\* and is not scheduled.
LEMMA OnceLive ==
  ASSUME OnceInv, NEW w \in Waits
  PROVE  /\ wait[w] \in WaitStates /\ OnceState(w) /\ w[1] \in Fibers /\ OnceTask(w[1]) /\ tasks[w[1]] \in Nat
         /\ wait[w].used => Live(w) /\ Current(w[1]) = w
         /\ wait[w].used /\ (wait[w].outcome = 0 \/ wait[w].timer = "cancel") => tasks[w[1]] = 0
<1>1. /\ wait[w] \in WaitStates /\ OnceState(w) /\ w[1] \in Fibers /\ OnceTask(w[1]) /\ tasks[w[1]] \in Nat
  BY Zenon DEF OnceInv, ConnTypeOK, Waits
<1>2. wait[w].used => Live(w) /\ Current(w[1]) = w
  BY <1>1 DEF OnceState, Live, Current, Waits
<1> QED
  BY <1>1, <1>2 DEF OnceTask

LEMMA OnceQuiet ==
  ASSUME OnceInv, ConnTypeOK', NEW w \in Waits, Report(w) \/ Expire(w)
  PROVE  OnceInv'
<1>0. wait[w] \in WaitStates /\ OnceState(w) /\ w[1] \in Fibers
  BY OnceLive, Zenon
<1>1. CASE Report(w)
  <2>1. \A v \in Waits : wait'[v] = wait[v] \/ (wait[v].reg /\ wait'[v] = triggered(wait[v]))
    BY <1>1, Zenon DEF Report, OnceInv, ConnTypeOK
  <2>2. \A f \in Fibers : Current(f) \in Waits
    BY CurrentIsWait, Zenon DEF OnceInv
  <2> QED
    BY <1>1, <2>1, <2>2, OnceWaker, Zenon DEF Report
<1>2. CASE Expire(w)
  <2> DEFINE s == [wait[w] EXCEPT !.timer = "due"]
  <2>1. /\ s.used = wait[w].used /\ s.reg = wait[w].reg /\ s.cb = wait[w].cb /\ s.outcome = wait[w].outcome
        /\ s.timer = "due" /\ wait' = [wait EXCEPT ![w] = s] /\ wait'[w] = s
    BY <1>0, <1>2, Zenon DEF Expire, WaitStates, OnceInv, ConnTypeOK
  <2> HIDE DEF s
  <2>2. wait[w].timer = "set" /\ wait[w].outcome = 0 /\ UNCHANGED <<cur, inWait, tasks>> /\ Live(w)' = Live(w)
    BY <1>2, Zenon DEF Expire, Live
  <2>3. OnceState(w)'
    BY <1>0, <2>1, <2>2, Zenon DEF OnceState
  <2>4. wait[w].used
    BY <1>0, <2>2, Zenon DEF OnceState
  <2>5. OnceTask(w[1])'
    BY <2>2, <2>4, OnceLive, Zenon DEF OnceTask
  <2>6. ASSUME NEW f \in Fibers, f # w[1] PROVE wait'[Current(f)] = wait[Current(f)]
    BY <2>1, <2>6, CurrentIsWait, Zenon DEF OnceInv, ConnTypeOK
  <2>7. \A v \in Waits : v # w => wait'[v] = wait[v]
    BY <2>1, Zenon DEF OnceInv, ConnTypeOK
  <2> QED
    BY <2>2, <2>3, <2>5, <2>6, <2>7, OnceWaker, Zenon
<1> QED
  BY <1>1, <1>2, Zenon

\* The callbacks: the first to set the outcome schedules the fiber, once.
LEMMA OnceCallback ==
  ASSUME OnceInv, ConnTypeOK', NEW w \in Waits,
         EventCallback(w) \/ TimerCallback(w) \/ TimerCancel(w)
  PROVE  OnceInv'
<1>0. wait[w] \in WaitStates /\ OnceState(w) /\ w[1] \in Fibers /\ tasks[w[1]] \in Nat
  BY OnceLive, Zenon
<1>1. wait[w].used /\ Live(w) /\ Current(w[1]) = w /\ tasks[w[1]] = 0
  <2>1. wait[w].used
    BY <1>0, Zenon DEF EventCallback, TimerCallback, TimerCancel, OnceState
  <2>2. wait[w].outcome = 0 \/ wait[w].timer = "cancel"
    BY <1>0, Zenon DEF EventCallback, TimerCallback, TimerCancel, OnceState
  <2> QED
    BY <2>1, <2>2, OnceLive, Zenon
<1>2. UNCHANGED <<cur, inWait>> /\ Live(w)' /\ Current(w[1])' = w
  BY <1>1, Zenon DEF EventCallback, TimerCallback, TimerCancel, Live, Current
<1>3. ASSUME NEW f \in Fibers, f # w[1]
      PROVE  tasks'[f] = tasks[f] /\ Current(f) \in Waits /\ Current(f) # w
  <2>1. Current(f) \in Waits /\ Current(f) # w
    BY <1>3, CurrentIsWait, Zenon DEF OnceInv
  <2>2. tasks'[f] = tasks[f]
    BY <1>3, Zenon DEF EventCallback, TimerCallback, TimerCancel, schedule, OnceInv, ConnTypeOK
  <2> QED
    BY <2>1, <2>2, Zenon
<1>4. ASSUME OnceState(w)', OnceTask(w[1])',
             \A v \in Waits : v # w => wait'[v] = wait[v] \/ (wait[v].reg /\ wait'[v] = triggered(wait[v]))
      PROVE  OnceInv'
  BY <1>2, <1>3, <1>4, OnceWaker, Zenon
<1>5. CASE EventCallback(w)
  <2> DEFINE s == finished(wait[w])
  <2>1. wait[w].timer # "cancel"
    BY <1>0, <1>5, Zenon DEF EventCallback, OnceState
  <2>2. s.used /\ ~s.cb /\ s.outcome # 0 /\ s.timer \notin {"due", "cancel"}
    BY <1>0, <1>1, <2>1, SMTT(30) DEF finished, WaitStates
  <2>3. wait' = [wait EXCEPT ![w] = s] /\ tasks' = [tasks EXCEPT ![w[1]] = @ + 1]
    BY <1>1, <1>5, Zenon DEF EventCallback, schedule
  <2> HIDE DEF s
  <2>4. wait'[w] = s /\ tasks'[w[1]] = 1
    BY <1>0, <1>1, <2>3, SMTT(30) DEF OnceInv, ConnTypeOK
  <2>5. OnceState(w)'
    BY <1>2, <2>2, <2>4, Zenon DEF OnceState
  <2>6. OnceTask(w[1])'
    BY <1>2, <2>2, <2>4, Zenon DEF OnceTask, Live
  <2>7. \A v \in Waits : v # w => wait'[v] = wait[v]
    BY <2>3, Zenon DEF OnceInv, ConnTypeOK
  <2> QED
    BY <1>4, <2>5, <2>6, <2>7, Zenon
<1>6. CASE TimerCallback(w)
  <2> DEFINE s == timedOut(wait[w])
  <2>1. s.used /\ ~s.cb /\ s.outcome # 0 /\ s.timer = "cancel"
    BY <1>0, <1>1 DEF timedOut, WaitStates
  <2>2. wait' = [wait EXCEPT ![w] = s] /\ wait'[w] = s /\ tasks' = tasks
    BY <1>6, Zenon DEF TimerCallback, OnceInv, ConnTypeOK
  <2> HIDE DEF s
  <2>3. OnceState(w)' /\ OnceTask(w[1])'
    <3>1. OnceState(w)'
      BY <1>1, <1>2, <2>1, <2>2, Zenon DEF OnceState
    <3>2. OnceTask(w[1])'
      BY <1>1, <2>2 DEF OnceTask
    <3> QED
      BY <3>1, <3>2, Zenon
  <2>4. \A v \in Waits : v # w => wait'[v] = wait[v]
    BY <2>2, Zenon DEF OnceInv, ConnTypeOK
  <2> QED
    BY <1>4, <2>3, <2>4, Zenon
<1>7. CASE TimerCancel(w)
  <2>1. wait[w].outcome # 0
    BY <1>0, <1>7, Zenon DEF TimerCancel, OnceState
  <2>2. \/ wait'[w] = [wait[w] EXCEPT !.timer = "off"]
        \/ wait'[w] = [triggered(wait[w]) EXCEPT !.timer = "off"]
    BY <1>1, <1>7, TimerCancelRecords, Zenon DEF OnceInv
  <2>3. /\ triggered(wait[w]) \in WaitStates /\ triggered(wait[w]).used = wait[w].used
        /\ triggered(wait[w]).cb = (wait[w].outcome = 0) /\ triggered(wait[w]).outcome = wait[w].outcome
    BY <1>0, TriggeredRecord, Zenon
  <2>4. wait'[w].used /\ ~wait'[w].cb /\ wait'[w].outcome # 0 /\ wait'[w].timer = "off"
    BY <1>0, <1>1, <2>1, <2>2, <2>3, Zenon DEF WaitStates, OnceState
  <2>5. tasks'[w[1]] = 1
    BY <1>0, <1>1, <1>7, SMTT(30) DEF TimerCancel, schedule, OnceInv, ConnTypeOK
  <2>6. OnceState(w)' /\ OnceTask(w[1])'
    <3>1. OnceState(w)'
      BY <1>2, <2>4, Zenon DEF OnceState
    <3>2. OnceTask(w[1])'
      BY <1>2, <2>4, <2>5, Zenon DEF OnceTask, Live
    <3> QED
      BY <3>1, <3>2, Zenon
  <2>7. \A v \in Waits : v # w => wait'[v] = wait[v] \/ (wait[v].reg /\ wait'[v] = triggered(wait[v]))
    BY <1>7, TimerCancelRecords, Zenon DEF OnceInv
  <2> QED
    BY <1>4, <2>6, <2>7, Zenon
<1> QED
  BY <1>5, <1>6, <1>7, Zenon

LEMMA OnceClose ==
  ASSUME OnceInv, ConnTypeOK', NEW cs, Close(cs)
  PROVE  OnceInv'
<1>1. \A v \in Waits : wait'[v] = wait[v] \/ (wait[v].reg /\ wait'[v] = triggered(wait[v]))
  BY Zenon DEF Close
<1>2. \A f \in Fibers : Current(f) \in Waits
  BY CurrentIsWait, Zenon DEF OnceInv
<1> QED
  BY <1>1, <1>2, OnceWaker, Zenon DEF Close

\* If only the connections schedule the fibers, every wait is ended once: the
\* event, the timer and Close() race, one of them schedules the fiber, and
\* when Wait() has returned nothing is left of the wait.
THEOREM WaitsEndOnce == ConnSpec => []WaitEndsOnce
<1>1. ConnInit => WaitInv /\ OnceInv
  <2> SUFFICES ASSUME ConnInit PROVE OnceInv
    BY WaitInvInit, Zenon
  <2>1. ConnTypeOK
    BY WaitInvInit, Zenon DEF WaitInv
  <2>2. \A w \in Waits : OnceState(w)
    BY NoWaitRecord, Zenon DEF ConnInit, OnceState, Live, Waits
  <2> QED
    BY <2>1, <2>2 DEF ConnInit, OnceInv, OnceTask
<1>2. WaitInv /\ OnceInv /\ [ConnNext]_connVars => WaitInv' /\ OnceInv'
  <2> SUFFICES ASSUME OnceInv, WaitInv', [ConnNext]_connVars PROVE OnceInv'
    BY WaitInvStep, Zenon
  <2>1. ConnTypeOK'
    BY Zenon DEF WaitInv
  <2>2. CASE UNCHANGED connVars
    BY <2>1, <2>2, Zenon DEF connVars, OnceInv, OnceState, OnceTask, Live, Current
  <2>3. CASE ConnNext
    BY <2>1, <2>3, OnceBegin, OnceEnd, OnceQuiet, OnceCallback, OnceClose, Zenon DEF ConnNext, wakerStep
  <2> QED
    BY <2>2, <2>3, Zenon
<1>3. OnceInv => WaitEndsOnce
  BY OnceInvEnough, Zenon
<1> QED
  BY <1>1, <1>2, <1>3, PTL DEF ConnSpec

-----------------------------------------------------------------------------
(* RpcChannel.                                                             *)

Labels ==
  {"idle", "lock", "take", "connect", "refused", "connected", "register", "write", "sent", "unsent", "waiting",
   "read", "keep", "drop", "off", "top", "head", "body", "find", "deliver", "end", "close", "swap", "fail"}

Links == Conns \cup {None}

Wires == [sent : SUBSET Calls, answers : Seq(Calls), down : BOOLEAN, partial : BOOLEAN]

\* Where every fiber is, and on which connection.
RouteOK ==
  /\ mode \in [multiplex : BOOLEAN, timed : BOOLEAN]
  /\ made \in Nat /\ conn \in Links
  /\ slot \in [Slots -> [owner : Callers \cup {None}, conn : Links]]
  /\ pc \in [Fibers -> Labels]
  /\ use \in [Fibers -> Links]
  /\ \A f \in Fibers : pc[f] \in {"connected", "register", "write", "sent", "read", "head", "body"} => use[f] \in Conns

\* What is pending, in hand and on the wire are calls; a caller has one.
CarriedOK ==
  /\ nth \in [Callers -> 0..MaxCalls]
  /\ \A f \in Callers : pc[f] # "idle" => nth[f] # 0
  /\ pending \subseteq Calls
  /\ hand \in [Conns -> SUBSET Calls]
  /\ wire \in [Conns -> Wires]

\* A caller waits only where it makes, writes to or reads from a connection.
CallerWaits == \A f \in Callers : inWait[f] => pc[f] \in {"connect", "write", "read"} /\ use[f] \in Conns

ChanInv == RouteOK /\ CarriedOK /\ CallerWaits
----------------------------------------------------------------------------
LEMMA NoneIsNoConn == None \notin Conns /\ Conns \subseteq Fibers /\ Callers \subseteq Fibers
BY ChannelAssumption, Zenon

LEMMA CallInCalls ==
  ASSUME ChanInv, NEW f \in Callers, pc[f] # "idle"
  PROVE  Call(f) \in Calls
<1>1. nth[f] \in 1..MaxCalls
  BY ChannelAssumption DEF ChanInv, CarriedOK
<1> QED
  BY <1>1, Zenon DEF Call, Calls

\* A fiber has finitely many calls, so complete() adds a number of tasks.
LEMMA TasksAdded ==
  ASSUME NEW ks \in SUBSET Calls, NEW f
  PROVE  Cardinality({k \in ks : k[1] = f}) \in Nat
<1>1. IsFiniteSet({f} \X (1..MaxCalls))
  <2>1. MaxCalls \in Int /\ 1 \in Int
    BY ChannelAssumption
  <2>2. IsFiniteSet(1..MaxCalls)
    BY <2>1, FS_Interval, Zenon
  <2>3. IsFiniteSet({f})
    BY FS_Singleton, Zenon
  <2> QED
    BY <2>2, <2>3, FS_Product, Zenon
<1>2. {k \in ks : k[1] = f} \in SUBSET ({f} \X (1..MaxCalls))
  BY Zenon DEF Calls
<1> QED
  BY <1>1, <1>2, FS_Subset, FS_CardinalityType, Zenon

LEMMA ChanInvInit ==
  ASSUME ChannelInit
  PROVE  ChanInv
<1>1. RouteOK
  BY ChannelAssumption, Zenon DEF ChannelInit, RouteOK, Links, Labels
<1>2. NoWire \in Wires
  BY SMTT(30) DEF NoWire, Wires
<1>3. CarriedOK
  BY <1>2, ChannelAssumption DEF ChannelInit, CarriedOK
<1>4. CallerWaits
  BY NoneIsNoConn, Zenon DEF ChannelInit, ConnInit, CallerWaits
<1> QED
  BY <1>1, <1>3, <1>4, Zenon DEF ChanInv
----------------------------------------------------------------------------
(* Steps of a channel are steps of its connections, or schedule fibers.    *)

LEMMA SameConns ==
  ASSUME WaitInv, UNCHANGED connVars
  PROVE  WaitInv'
BY Zenon DEF connVars, WaitInv, ConnTypeOK, NoLostWait, Decided, Current

LEMMA CompleteKeeps ==
  ASSUME WaitInv, NEW ks \in SUBSET Calls, NEW failed, NEW answer, complete(ks, failed, answer)
  PROVE  WaitInv'
<1>1. \A f \in Fibers : tasks[f] \in Nat /\ Cardinality({k \in ks : k[1] = f}) \in Nat
  BY TasksAdded, Zenon DEF WaitInv, ConnTypeOK
<1>2. tasks' = [f \in Fibers |-> tasks[f] + Cardinality({k \in ks : k[1] = f})] /\ UNCHANGED <<closed, wait, cur, inWait>>
  BY Zenon DEF complete
<1> HIDE DEF complete
<1>3. tasks' \in [Fibers -> Nat] /\ \A f \in Fibers : tasks[f] > 0 => tasks'[f] > 0
  BY <1>1, <1>2, SMTT(30)
<1> QED
  BY <1>2, <1>3, TasksKeep, Zenon

\* The steps of a caller.
LEMMA CallerConns ==
  ASSUME WaitInv, ChanInv, NEW f \in Callers, Begin(f) \/ callerStep(f)
  PROVE  WaitInv'
<1>1. f \in Fibers /\ mode.timed \in BOOLEAN
  BY NoneIsNoConn, Zenon DEF ChanInv, RouteOK
<1>2. CASE UNCHANGED connVars
  BY <1>2, SameConns, Zenon
<1>3. CASE EndWait(f)
  BY <1>1, <1>3, EndWaitKeeps, Zenon
<1>4. ASSUME NEW cs, Close(cs) PROVE WaitInv'
  BY <1>4, CloseKeeps, Zenon
<1>5. ASSUME NEW c \in Conns, NEW e \in Events, BeginWait(f, c, e, mode.timed) PROVE WaitInv'
  BY <1>1, <1>5, BeginWaitKeeps, Zenon
<1>6. CASE Answered(f)
  <2>1. ~inWait[f] /\ tasks[f] > 0
    BY <1>6, Zenon DEF Answered, ChanInv, CallerWaits
  <2>2. tasks' = [tasks EXCEPT ![f] = @ - 1] /\ UNCHANGED <<closed, wait, cur, inWait>>
    BY <1>6, Zenon DEF Answered
  <2>3. tasks' \in [Fibers -> Nat] /\ \A g \in Fibers : inWait[g] /\ tasks[g] > 0 => tasks'[g] > 0
    BY <1>1, <2>1, <2>2, SMTT(30) DEF WaitInv, ConnTypeOK
  <2> QED
    BY <2>2, <2>3, TasksKeep, Zenon
<1>7. CASE Connect(f)
  BY <1>2, <1>5, <1>7, Zenon DEF Connect, Events
<1>8. CASE Write(f)
  <2>1. use[f] \in Conns
    BY <1>1, <1>8, Zenon DEF Write, ChanInv, RouteOK
  <2> QED
    BY <1>2, <1>5, <1>8, <2>1, Zenon DEF Write, Events
<1>9. CASE Read(f)
  <2>1. use[f] \in Conns
    BY <1>1, <1>9, Zenon DEF Read, ChanInv, RouteOK
  <2> QED
    BY <1>2, <1>5, <1>9, <2>1, Zenon DEF Read, Events
<1>10. CASE ConnectWaited(f) \/ WriteWaited(f) \/ ReadWaited(f)
  BY <1>3, <1>10, Zenon DEF ConnectWaited, WriteWaited, ReadWaited, resume
<1>11. CASE Refused(f) \/ Leave(f)
  BY <1>2, <1>4, <1>11, Zenon DEF Refused, Leave, closeConns
<1>12. CASE Begin(f) \/ Lock(f) \/ Take(f) \/ Adopt(f) \/ Register(f) \/ Sent(f) \/ Unsent(f)
  BY <1>2, <1>12, Zenon DEF Begin, Lock, Take, Adopt, Register, Sent, Unsent
<1> QED
  BY <1>6, <1>7, <1>8, <1>9, <1>10, <1>11, <1>12, Zenon DEF callerStep

\* The steps of a reader.
LEMMA ReaderConns ==
  ASSUME WaitInv, ChanInv, NEW r \in Conns, readerStep(r)
  PROVE  WaitInv'
<1>1. r \in Fibers /\ hand[r] \in SUBSET Calls
  BY NoneIsNoConn, Zenon DEF ChanInv, CarriedOK
<1>2. CASE UNCHANGED connVars
  BY <1>2, SameConns, Zenon
<1>3. CASE EndWait(r)
  BY <1>1, <1>3, EndWaitKeeps, Zenon
<1>4. ASSUME NEW c \in Conns, BeginWait(r, c, "READ", TRUE) PROVE WaitInv'
  BY <1>1, <1>4, BeginWaitKeeps, Zenon DEF Events
<1>5. CASE ReadHead(r)
  <2>1. use[r] \in Conns
    BY <1>1, <1>5, Zenon DEF ReadHead, ChanInv, RouteOK
  <2> QED
    BY <1>2, <1>4, <1>5, <2>1, Zenon DEF ReadHead
<1>6. CASE ReadBody(r)
  <2>1. use[r] \in Conns
    BY <1>1, <1>6, Zenon DEF ReadBody, ChanInv, RouteOK
  <2> QED
    BY <1>2, <1>4, <1>6, <2>1, Zenon DEF ReadBody
<1>7. CASE HeadWaited(r) \/ BodyWaited(r)
  BY <1>3, <1>7, Zenon DEF HeadWaited, BodyWaited, resume
<1>8. CASE Deliver(r)
  <2>1. PICK k \in hand[r] : complete({k}, FALSE, k) \/ complete({k}, TRUE, None)
    BY <1>8, Zenon DEF Deliver
  <2>2. {k} \in SUBSET Calls
    BY <1>1, <2>1, Zenon
  <2> QED
    BY <2>1, <2>2, CompleteKeeps, Zenon
<1>9. CASE FailRemaining(r)
  <2>1. {k \in hand[r] : ~rec[k].done} \in SUBSET Calls
    BY <1>1, Zenon
  <2> QED
    BY <1>9, <2>1, CompleteKeeps, Zenon DEF FailRemaining
<1>10. CASE CloseConn(r)
  BY <1>10, CloseKeeps, Zenon DEF CloseConn, closeConns
<1>11. CASE Top(r) \/ Find(r) \/ EndLoop(r) \/ Swap(r)
  BY <1>2, <1>11, Zenon DEF Top, Find, EndLoop, Swap
<1> QED
  BY <1>5, <1>6, <1>7, <1>8, <1>9, <1>10, <1>11, Zenon DEF readerStep
----------------------------------------------------------------------------
(* The steps keep ChanInv.                                                 *)

LEMMA CallerRoute ==
  ASSUME ChanInv, NEW f \in Callers, Begin(f) \/ callerStep(f)
  PROVE  RouteOK'
<1> USE NoneIsNoConn DEF ChanInv, Links, Labels, goto, chan, mux
<1>1. CASE Begin(f)
  BY <1>1 DEF Begin, RouteOK
<1>2. CASE Lock(f)
  BY <1>2, Zenon DEF Lock, RouteOK, Open
<1>3. CASE Take(f)
  BY <1>3, SMTT(30) DEF Take, RouteOK, Open, end
<1>4. CASE Connect(f)
  BY <1>4, SMTT(30) DEF Connect, RouteOK
<1>5. CASE ConnectWaited(f)
  BY <1>5 DEF ConnectWaited, RouteOK, CallerWaits, resume, EndWait
<1>6. CASE Refused(f)
  BY <1>6 DEF Refused, RouteOK, end
<1>7. CASE Adopt(f)
  BY <1>7, SMTT(30) DEF Adopt, RouteOK
<1>8. CASE Register(f)
  BY <1>8, Zenon DEF Register, RouteOK
<1>9. CASE Write(f)
  BY <1>9 DEF Write, RouteOK
<1>10. CASE WriteWaited(f)
  BY <1>10, SMTT(30) DEF WriteWaited, RouteOK, resume
<1>11. CASE Sent(f)
  BY <1>11 DEF Sent, RouteOK
<1>12. CASE Unsent(f)
  BY <1>12 DEF Unsent, RouteOK, end
<1>13. CASE Answered(f)
  BY <1>13, Zenon DEF Answered, RouteOK, end
<1>14. CASE Read(f)
  BY <1>14 DEF Read, RouteOK
<1>15. CASE ReadWaited(f)
  BY <1>15, Zenon DEF ReadWaited, RouteOK, resume
<1>16. CASE Leave(f)
  BY <1>16, SMTT(30) DEF Leave, RouteOK, end
<1> QED
  BY <1>1, <1>2, <1>3, <1>4, <1>5, <1>6, <1>7, <1>8, <1>9, <1>10, <1>11, <1>12, <1>13, <1>14, <1>15, <1>16, Zenon
     DEF callerStep

LEMMA ReaderRoute ==
  ASSUME ChanInv, NEW r \in Conns, readerStep(r)
  PROVE  RouteOK'
<1> USE NoneIsNoConn DEF ChanInv, Links, Labels, goto, chan, mux
<1>1. CASE Top(r)
  BY <1>1, Zenon DEF Top, RouteOK, Open
<1>2. CASE ReadHead(r)
  <2>1. /\ pc[r] = "head" /\ UNCHANGED <<mode, made, conn, slot, use>>
        /\ pc' = pc \/ pc' = [pc EXCEPT ![r] = "body"] \/ pc' = [pc EXCEPT ![r] = "end"]
    BY <1>2, Zenon DEF ReadHead
  <2> QED
    BY <2>1, Zenon DEF RouteOK
<1>3. CASE HeadWaited(r)
  BY <1>3, Zenon DEF HeadWaited, RouteOK, resume
<1>4. CASE ReadBody(r)
  BY <1>4, Zenon DEF ReadBody, RouteOK
<1>5. CASE BodyWaited(r)
  BY <1>5, Zenon DEF BodyWaited, RouteOK, resume
<1>6. CASE Find(r)
  BY <1>6, Zenon DEF Find, RouteOK
<1>7. CASE Deliver(r)
  BY <1>7, Zenon DEF Deliver, RouteOK
<1>8. CASE EndLoop(r)
  BY <1>8, Zenon DEF EndLoop, RouteOK
<1>9. CASE CloseConn(r)
  BY <1>9, Zenon DEF CloseConn, RouteOK
<1>10. CASE Swap(r)
  BY <1>10, Zenon DEF Swap, RouteOK
<1>11. CASE FailRemaining(r)
  BY <1>11, Zenon DEF FailRemaining, RouteOK
<1> QED
  BY <1>1, <1>2, <1>3, <1>4, <1>5, <1>6, <1>7, <1>8, <1>9, <1>10, <1>11, Zenon DEF readerStep

\* What happens to the wire of a connection.
LEMMA WireKept ==
  ASSUME wire \in [Conns -> Wires], NEW c \in Conns
  PROVE  /\ \A k \in Calls : /\ [wire EXCEPT ![c].sent = @ \cup {k}] \in [Conns -> Wires]
                            /\ [wire EXCEPT ![c].sent = @ \ {k}, ![c].answers = Append(@, k)] \in [Conns -> Wires]
         /\ [wire EXCEPT ![c].partial = TRUE] \in [Conns -> Wires]
         /\ [wire EXCEPT ![c].down = TRUE] \in [Conns -> Wires]
         /\ wire[c].answers # <<>> => /\ [wire EXCEPT ![c].answers = Tail(@)] \in [Conns -> Wires]
                                      /\ Head(wire[c].answers) \in Calls
<1>1. wire[c] \in Wires
  BY Zenon
<1>2. \A k \in Calls : [wire[c] EXCEPT !.sent = @ \cup {k}] \in Wires
  BY <1>1, Zenon DEF Wires
<1>3. \A k \in Calls : [wire[c] EXCEPT !.sent = @ \ {k}, !.answers = Append(@, k)] \in Wires
  <2> DEFINE q == wire[c].answers
  <2>1. q \in Seq(Calls) /\ wire[c].sent \in SUBSET Calls
    BY <1>1, Zenon DEF Wires
  <2>2. \A k \in Calls : Append(q, k) \in Seq(Calls) /\ wire[c].sent \ {k} \in SUBSET Calls
    BY <2>1
  <2> HIDE DEF q
  <2>3. ASSUME NEW k \in Calls, NEW a \in Seq(Calls), NEW b \in SUBSET Calls
        PROVE  [wire[c] EXCEPT !.sent = b, !.answers = a] \in Wires
    BY <1>1, <2>3, Zenon DEF Wires
  <2> QED
    BY <2>2, <2>3, Zenon DEF q
<1>4. [wire[c] EXCEPT !.partial = TRUE] \in Wires /\ [wire[c] EXCEPT !.down = TRUE] \in Wires
  BY <1>1, Zenon DEF Wires
<1>5. wire[c].answers # <<>> => /\ [wire[c] EXCEPT !.answers = Tail(@)] \in Wires
                                /\ Head(wire[c].answers) \in Calls
  <2> DEFINE q == wire[c].answers
  <2>1. q \in Seq(Calls)
    BY <1>1, Zenon DEF Wires
  <2>2. q # <<>> => Tail(q) \in Seq(Calls) /\ Head(q) \in Calls
    BY <2>1
  <2>3. ASSUME NEW a \in Seq(Calls)
        PROVE  [wire[c] EXCEPT !.answers = a] \in Wires
    BY <1>1, <2>3, Zenon DEF Wires
  <2> QED
    BY <2>2, <2>3, Zenon
<1> QED
  BY <1>1, <1>2, <1>3, <1>4, <1>5, Zenon

LEMMA ClosedWires ==
  ASSUME wire \in [Conns -> Wires], NEW cs, closeConns(cs)
  PROVE  wire' \in [Conns -> Wires]
<1>1. NoWire \in Wires
  BY SMTT(30) DEF NoWire, Wires
<1> QED
  BY <1>1, Zenon DEF closeConns

\* A caller other than f is where it was; f has a call when it leaves "idle".
LEMMA CallerCarried ==
  ASSUME ChanInv, NEW f \in Callers, Begin(f) \/ callerStep(f)
  PROVE  CarriedOK'
<1> USE NoneIsNoConn, ChannelAssumption DEF ChanInv
<1>0. wire \in [Conns -> Wires]
  BY Zenon DEF CarriedOK
<1>1. CASE Begin(f)
  <2>1. nth[f] \in 0..MaxCalls /\ nth[f] < MaxCalls /\ nth' = [nth EXCEPT ![f] = @ + 1]
    BY <1>1, Zenon DEF Begin, CarriedOK
  <2>2. nth' \in [Callers -> 0..MaxCalls] /\ nth'[f] # 0 /\ \A g \in Callers : g # f => nth'[g] = nth[g]
    BY <2>1 DEF CarriedOK
  <2>3. \A g \in Callers : g # f => pc'[g] = pc[g]
    BY <1>1, Zenon DEF Begin, goto, RouteOK
  <2> QED
    BY <1>1, <2>2, <2>3, Zenon DEF Begin, CarriedOK, mux
<1>2. ASSUME ~Begin(f)
      PROVE  nth' = nth /\ pc[f] # "idle" /\ nth[f] # 0 /\ \A g \in Callers : pc'[g] # "idle" => nth'[g] # 0
  <2>1. nth' = nth /\ pc[f] # "idle"
    BY <1>2, Zenon DEF callerStep, Lock, Take, Connect, ConnectWaited, Refused, Adopt, Register, Write, WriteWaited,
                Sent, Unsent, Answered, Read, ReadWaited, Leave
  <2>2. \A g \in Callers : g # f => pc'[g] = pc[g]
    <3>1. CASE Adopt(f)
      BY <3>1 DEF Adopt, goto, RouteOK
    <3>2. CASE ~Adopt(f)
      BY <1>2, <3>2, Zenon DEF callerStep, Lock, Take, Connect, ConnectWaited, Refused, Register, Write, WriteWaited,
                  Sent, Unsent, Answered, Read, ReadWaited, Leave, goto, end, resume, RouteOK
    <3> QED
      BY <3>1, <3>2, Zenon
  <2> QED
    BY <2>1, <2>2, Zenon DEF CarriedOK
<1>3. ASSUME ~Begin(f), pending' \subseteq Calls, UNCHANGED hand, wire' \in [Conns -> Wires]
      PROVE  CarriedOK'
  BY <1>2, <1>3, Zenon DEF CarriedOK
<1>4. ASSUME ~Begin(f), UNCHANGED <<pending, hand, wire>>
      PROVE  CarriedOK'
  BY <1>2, <1>4, Zenon DEF CarriedOK
<1>5. CASE ~Begin(f) /\ (Refused(f) \/ Leave(f))
  BY <1>3, <1>4, <1>5, ClosedWires, Zenon DEF Refused, Leave, CarriedOK, mux
<1>6. CASE ~Begin(f) /\ Register(f)
  <2>1. Call(f) \in Calls
    BY <1>2, <1>6, CallInCalls, Zenon
  <2> QED
    BY <1>3, <1>6, <2>1, Zenon DEF Register, CarriedOK
<1>7. CASE ~Begin(f) /\ Unsent(f)
  BY <1>3, <1>7, Zenon DEF Unsent, CarriedOK
<1>8. CASE ~Begin(f) /\ Write(f)
  <2>1. PICK k \in Calls, c \in Conns : k = Call(f) /\ c = use[f]
    BY <1>2, <1>8, CallInCalls, Zenon DEF Write, RouteOK
  <2>2. wire' = wire \/ wire' = [wire EXCEPT ![c].sent = @ \cup {k}]
    BY <1>8, <2>1, Zenon DEF Write
  <2>3. [wire EXCEPT ![c].sent = @ \cup {k}] \in [Conns -> Wires]
    BY <1>0, WireKept, Zenon
  <2>4. wire' \in [Conns -> Wires]
    BY <1>0, <2>2, <2>3, Zenon
  <2> QED
    BY <1>3, <1>8, <2>4, Zenon DEF Write, CarriedOK, mux
<1>9. CASE ~Begin(f) /\ WriteWaited(f)
  <2>1. PICK c \in Conns : c = use[f]
    BY <1>9, Zenon DEF WriteWaited, RouteOK
  <2>2. wire' = wire \/ wire' = [wire EXCEPT ![c].partial = TRUE]
    BY <1>9, <2>1, Zenon DEF WriteWaited
  <2>3. [wire EXCEPT ![c].partial = TRUE] \in [Conns -> Wires]
    BY <1>0, WireKept, Zenon
  <2>4. wire' \in [Conns -> Wires]
    BY <1>0, <2>2, <2>3, Zenon
  <2> QED
    BY <1>3, <1>9, <2>4, Zenon DEF WriteWaited, CarriedOK, mux
<1>10. CASE ~Begin(f) /\ Read(f)
  <2>1. PICK c \in Conns : c = use[f]
    BY <1>10, Zenon DEF Read, RouteOK
  <2>2. wire' = wire \/ (wire[c].answers # <<>> /\ wire' = [wire EXCEPT ![c].answers = Tail(@)])
    BY <1>10, <2>1, Zenon DEF Read
  <2>3. wire[c].answers # <<>> => [wire EXCEPT ![c].answers = Tail(@)] \in [Conns -> Wires]
    BY <1>0, WireKept, Zenon
  <2>4. wire' \in [Conns -> Wires]
    BY <1>0, <2>2, <2>3, Zenon
  <2> QED
    BY <1>3, <1>10, <2>4, Zenon DEF Read, CarriedOK, mux
<1>11. CASE ~Begin(f) /\ (Lock(f) \/ Take(f) \/ Connect(f) \/ ConnectWaited(f) \/ Adopt(f) \/ Sent(f)
                         \/ Answered(f) \/ ReadWaited(f))
  BY <1>4, <1>11, Zenon DEF Lock, Take, Connect, ConnectWaited, Adopt, Sent, Answered, ReadWaited, mux
<1> QED
  BY <1>1, <1>5, <1>6, <1>7, <1>8, <1>9, <1>10, <1>11, Zenon DEF callerStep

LEMMA ReaderCarried ==
  ASSUME ChanInv, NEW r \in Conns, readerStep(r)
  PROVE  CarriedOK'
<1> USE NoneIsNoConn, ChannelAssumption DEF ChanInv
<1>1. nth' = nth /\ \A g \in Callers : pc'[g] = pc[g]
  <2>1. nth' = nth
    BY Zenon DEF readerStep, Top, ReadHead, HeadWaited, ReadBody, BodyWaited, Find, Deliver, EndLoop, CloseConn, Swap,
           FailRemaining
  <2>2. pc' = pc \/ \E l : pc' = [pc EXCEPT ![r] = l]
    BY Zenon DEF readerStep, Top, ReadHead, HeadWaited, ReadBody, BodyWaited, Find, Deliver, EndLoop, CloseConn, Swap,
           FailRemaining, goto, resume
  <2> QED
    BY <2>1, <2>2 DEF RouteOK
<1>2. ASSUME pending' \subseteq Calls, hand' \in [Conns -> SUBSET Calls], wire' \in [Conns -> Wires]
      PROVE  CarriedOK'
  BY <1>1, <1>2, Zenon DEF CarriedOK
<1>3. hand \in [Conns -> SUBSET Calls] /\ pending \subseteq Calls /\ wire \in [Conns -> Wires]
  BY Zenon DEF CarriedOK
<1>4. CASE ReadHead(r)
  <2>1. PICK c \in Conns : c = use[r]
    BY <1>4, Zenon DEF ReadHead, RouteOK
  <2>2. \/ UNCHANGED <<wire, hand>>
        \/ /\ wire[c].answers # <<>> /\ wire' = [wire EXCEPT ![c].answers = Tail(@)]
           /\ hand' = [hand EXCEPT ![r] = {Head(wire[c].answers)}]
    BY <1>4, <2>1, Zenon DEF ReadHead
  <2>3. wire[c].answers # <<>> => [wire EXCEPT ![c].answers = Tail(@)] \in [Conns -> Wires]
    BY <1>3, WireKept, Zenon
  <2>4. wire[c].answers # <<>> => Head(wire[c].answers) \in Calls
    BY <1>3, WireKept, Zenon
  <2>5. wire' \in [Conns -> Wires]
    BY <1>3, <2>2, <2>3, Zenon
  <2>6. hand' \in [Conns -> SUBSET Calls]
    BY <1>3, <2>2, <2>4, SMTT(30)
  <2> QED
    BY <1>2, <1>3, <1>4, <2>5, <2>6, Zenon DEF ReadHead, mux
<1>5. CASE CloseConn(r)
  BY <1>2, <1>3, <1>5, ClosedWires, Zenon DEF CloseConn, mux
<1>6. CASE ReadBody(r) \/ BodyWaited(r)
  <2>1. UNCHANGED <<pending, wire>> /\ (hand' = hand \/ hand' = [hand EXCEPT ![r] = {}])
    BY <1>6, Zenon DEF ReadBody, BodyWaited, mux
  <2> QED
    BY <1>2, <1>3, <2>1, Zenon
<1>7. CASE Find(r) \/ Swap(r)
  BY <1>2, <1>3, <1>7 DEF Find, Swap
<1>8. CASE Deliver(r) \/ FailRemaining(r)
  BY <1>2, <1>3, <1>8, Zenon DEF Deliver, FailRemaining, mux
<1>9. CASE Top(r) \/ HeadWaited(r) \/ EndLoop(r)
  BY <1>2, <1>3, <1>9, Zenon DEF Top, HeadWaited, EndLoop, mux
<1> QED
  BY <1>4, <1>5, <1>6, <1>7, <1>8, <1>9, Zenon DEF readerStep

LEMMA CallerPlaces ==
  ASSUME ChanInv, ConnTypeOK, NEW f \in Callers, Begin(f) \/ callerStep(f)
  PROVE  CallerWaits'
<1>0. f \in Fibers /\ f \notin Conns /\ Callers \subseteq Fibers /\ inWait \in [Fibers -> BOOLEAN]
  BY ChannelAssumption, Zenon DEF ConnTypeOK
<1>1. ASSUME NEW g \in Callers, g # f
      PROVE  pc'[g] = pc[g] /\ use'[g] = use[g]
  <2>1. CASE Adopt(f)
    BY <1>0, <1>1, <2>1, ChannelAssumption, SMTT(30) DEF Adopt, goto, ChanInv, RouteOK
  <2>2. CASE ~Adopt(f)
    <3>1. pc' = pc \/ \E l : pc' = [pc EXCEPT ![f] = l]
      BY <2>2, Zenon DEF Begin, callerStep, Lock, Take, Connect, ConnectWaited, Refused, Register, Write, WriteWaited,
                  Sent, Unsent, Answered, Read, ReadWaited, Leave, goto, end, resume
    <3>2. use' = use \/ \E c : use' = [use EXCEPT ![f] = c]
      BY <2>2, Zenon DEF Begin, callerStep, Lock, Take, Connect, ConnectWaited, Refused, Register, Write, WriteWaited,
                  Sent, Unsent, Answered, Read, ReadWaited, Leave
    <3> QED
      BY <1>1, <3>1, <3>2, <1>0, Zenon DEF ChanInv, RouteOK
  <2> QED
    BY <2>1, <2>2, Zenon
<1>2. ASSUME inWait' = inWait \/ inWait' = [inWait EXCEPT ![f] = FALSE]
             \/ (inWait' = [inWait EXCEPT ![f] = TRUE] /\ pc'[f] \in {"connect", "write", "read"} /\ use'[f] \in Conns),
             inWait' = inWait => ~inWait[f]
      PROVE  CallerWaits'
  BY <1>0, <1>1, <1>2, Zenon DEF ChanInv, CallerWaits
<1>3. CASE Connect(f)
  <2>1. CASE UNCHANGED connVars
    BY <1>2, <1>3, <2>1, Zenon DEF Connect, connVars
  <2>2. CASE ~UNCHANGED connVars
    <3>1. /\ inWait' = [inWait EXCEPT ![f] = TRUE] /\ pc' = pc /\ pc[f] = "connect"
          /\ made + 1 \in Conns /\ use' = [use EXCEPT ![f] = made + 1] /\ ~inWait[f]
      BY <1>3, <2>2, Zenon DEF Connect, BeginWait
    <3> QED
      BY <1>0, <1>2, <3>1, Zenon DEF ChanInv, RouteOK
  <2> QED
    BY <2>1, <2>2, Zenon
<1>4. CASE Write(f) \/ Read(f)
  <2>1. use[f] \in Conns /\ use' = use /\ ~inWait[f] /\ pc[f] \in {"write", "read"}
    BY <1>0, <1>4, Zenon DEF Write, Read, ChanInv, RouteOK
  <2>2. inWait' = inWait \/ (inWait' = [inWait EXCEPT ![f] = TRUE] /\ pc' = pc)
    BY <1>4, Zenon DEF Write, Read, BeginWait, connVars
  <2> QED
    BY <1>0, <1>2, <2>1, <2>2, Zenon
<1>5. CASE ConnectWaited(f) \/ WriteWaited(f) \/ ReadWaited(f)
  <2>1. inWait' = [inWait EXCEPT ![f] = FALSE] /\ inWait[f]
    BY <1>5, Zenon DEF ConnectWaited, WriteWaited, ReadWaited, resume, EndWait
  <2> QED
    BY <1>0, <1>2, <2>1, Zenon
<1>6. CASE Begin(f) \/ Lock(f) \/ Take(f) \/ Refused(f) \/ Adopt(f) \/ Register(f) \/ Sent(f) \/ Unsent(f)
           \/ Answered(f) \/ Leave(f)
  <2>1. inWait' = inWait
    BY <1>6, Zenon DEF Begin, Lock, Take, Refused, Adopt, Register, Sent, Unsent, Answered, Leave, closeConns, Close,
                connVars
  <2>2. pc[f] \notin {"connect", "write", "read"}
    BY <1>6, Zenon DEF Begin, Lock, Take, Refused, Adopt, Register, Sent, Unsent, Answered, Leave
  <2> QED
    BY <1>2, <2>1, <2>2, Zenon DEF ChanInv, CallerWaits
<1> QED
  BY <1>3, <1>4, <1>5, <1>6, Zenon DEF callerStep

LEMMA ReaderPlaces ==
  ASSUME ChanInv, ConnTypeOK, NEW r \in Conns, readerStep(r)
  PROVE  CallerWaits'
<1>1. ASSUME NEW g \in Callers
      PROVE  pc'[g] = pc[g] /\ use'[g] = use[g] /\ inWait'[g] = inWait[g]
  <2>1. g # r /\ g \in Fibers
    BY ChannelAssumption, Zenon
  <2>2. pc' = pc \/ \E l : pc' = [pc EXCEPT ![r] = l]
    BY Zenon DEF readerStep, Top, ReadHead, HeadWaited, ReadBody, BodyWaited, Find, Deliver, EndLoop, CloseConn, Swap,
           FailRemaining, goto, resume
  <2>3. use' = use \/ use' = [use EXCEPT ![r] = conn]
    BY Zenon DEF readerStep, Top, ReadHead, HeadWaited, ReadBody, BodyWaited, Find, Deliver, EndLoop, CloseConn, Swap,
           FailRemaining
  <2>4. inWait' = inWait \/ \E l : inWait' = [inWait EXCEPT ![r] = l]
    BY Zenon DEF readerStep, Top, ReadHead, HeadWaited, ReadBody, BodyWaited, Find, Deliver, EndLoop, CloseConn, Swap,
           FailRemaining, resume, EndWait, BeginWait, closeConns, Close, complete, connVars
  <2> QED
    BY <2>1, <2>2, <2>3, <2>4, Zenon DEF ChanInv, RouteOK, ConnTypeOK
<1> QED
  BY <1>1, Zenon DEF ChanInv, CallerWaits

\* The timers, the wakers, the peer and ~Channel move no fiber.
LEMMA OthersKeep ==
  ASSUME WaitInv, ChanInv,
         \/ \E k \in Calls : ExpireCall(k) \/ Timeout(k)
         \/ \E w \in Waits : Waker(w)
         \/ \E c \in Conns : PeerGone(c) \/ \E k \in Calls : PeerAnswers(c, k)
         \/ Destroy
  PROVE  WaitInv' /\ ChanInv'
<1>1. ASSUME UNCHANGED <<mode, made, conn, slot, pc, use, nth, hand, inWait>>,
             pending' \subseteq Calls, wire' \in [Conns -> Wires]
      PROVE  ChanInv'
  BY <1>1, Zenon DEF ChanInv, RouteOK, CarriedOK, CallerWaits
<1>2. pending \subseteq Calls /\ wire \in [Conns -> Wires]
  BY Zenon DEF ChanInv, CarriedOK
<1>3. ASSUME NEW k \in Calls, ExpireCall(k) PROVE WaitInv' /\ ChanInv'
  BY <1>1, <1>2, <1>3, SameConns, Zenon DEF ExpireCall, connVars, chan, mux
<1>4. ASSUME NEW k \in Calls, Timeout(k) PROVE WaitInv' /\ ChanInv'
  <2>1. UNCHANGED connVars \/ complete({k}, TRUE, None)
    BY <1>4, Zenon DEF Timeout
  <2>2. {k} \in SUBSET Calls
    BY Zenon
  <2>3. WaitInv'
    BY <2>1, <2>2, SameConns, CompleteKeeps, Zenon
  <2>4. UNCHANGED <<mode, made, conn, slot, pc, use, nth, hand, inWait, wire>> /\ pending' \subseteq pending
    BY <1>4, Zenon DEF Timeout, complete, connVars, chan
  <2> QED
    BY <1>1, <1>2, <2>3, <2>4, Zenon
<1>5. ASSUME NEW w \in Waits, Waker(w) PROVE WaitInv' /\ ChanInv'
  <2>1. wakerStep(w)
    BY <1>5, Zenon DEF Waker, wakerStep
  <2>2. WaitInv'
    BY <2>1, ReportKeeps, EventCallbackKeeps, ExpireKeeps, TimerCallbackKeeps, TimerCancelKeeps, Zenon DEF wakerStep
  <2>3. inWait' = inWait
    BY <2>1, Zenon DEF wakerStep, Report, EventCallback, Expire, TimerCallback, TimerCancel
  <2> QED
    BY <1>1, <1>2, <1>5, <2>2, <2>3, Zenon DEF Waker, chan, mux
<1>6. ASSUME NEW c \in Conns, PeerGone(c) PROVE WaitInv' /\ ChanInv'
  <2>1. [wire EXCEPT ![c].down = TRUE] \in [Conns -> Wires]
    BY <1>2, WireKept, Zenon
  <2>2. wire' \in [Conns -> Wires]
    BY <1>6, <2>1, Zenon DEF PeerGone
  <2> QED
    BY <1>1, <1>2, <1>6, <2>2, SameConns, Zenon DEF PeerGone, connVars, chan, mux
<1>7. ASSUME NEW c \in Conns, NEW k \in Calls, PeerAnswers(c, k) PROVE WaitInv' /\ ChanInv'
  <2>1. [wire EXCEPT ![c].sent = @ \ {k}, ![c].answers = Append(@, k)] \in [Conns -> Wires]
    BY <1>2, WireKept, Zenon
  <2>2. wire' \in [Conns -> Wires]
    BY <1>7, <2>1, Zenon DEF PeerAnswers
  <2> QED
    BY <1>1, <1>2, <1>7, <2>2, SameConns, Zenon DEF PeerAnswers, connVars, chan, mux
<1>8. CASE Destroy
  <2>1. PICK cs : closeConns(cs)
    BY <1>8, Zenon DEF Destroy
  <2>2. WaitInv' /\ wire' \in [Conns -> Wires] /\ inWait' = inWait
    BY <1>2, <2>1, CloseKeeps, ClosedWires, Zenon DEF closeConns, Close
  <2> QED
    BY <1>1, <1>2, <1>8, <2>2, Zenon DEF Destroy, mux
<1> QED
  BY <1>3, <1>4, <1>5, <1>6, <1>7, <1>8, Zenon
----------------------------------------------------------------------------
\* No wait on a connection is lost in a channel: a fiber that is in Wait() of
\* a connection, whether it connects, sends a request or reads an answer, has
\* its event registered on an open connection, or a callback of its wait is
\* left, or it is scheduled (net.cpp:101-148, rpc.cpp:163-463).
THEOREM ChannelWaitsEnd == ChannelSpec => []NoLostWait
<1>1. ChannelInit => WaitInv /\ ChanInv
  BY WaitInvInit, ChanInvInit, Zenon DEF ChannelInit
<1>2. WaitInv /\ ChanInv /\ [ChannelNext]_vars => WaitInv' /\ ChanInv'
  <2> SUFFICES ASSUME WaitInv, ChanInv, [ChannelNext]_vars PROVE WaitInv' /\ ChanInv'
    BY Zenon
  <2>0. ConnTypeOK
    BY Zenon DEF WaitInv
  <2>1. CASE UNCHANGED vars
    <3>1. UNCHANGED connVars
      BY <2>1, Zenon DEF vars
    <3> QED
      BY <2>1, <3>1, SameConns, Zenon DEF vars, connVars, chan, mux, ChanInv, RouteOK, CarriedOK, CallerWaits
  <2>2. ASSUME NEW f \in Callers, Begin(f) \/ callerStep(f) PROVE WaitInv' /\ ChanInv'
    BY <2>0, <2>2, CallerConns, CallerRoute, CallerCarried, CallerPlaces, Zenon DEF ChanInv
  <2>3. ASSUME NEW r \in Conns, readerStep(r) PROVE WaitInv' /\ ChanInv'
    BY <2>0, <2>3, ReaderConns, ReaderRoute, ReaderCarried, ReaderPlaces, Zenon DEF ChanInv
  <2>4. CASE ChannelNext
    BY <2>2, <2>3, <2>4, OthersKeep, Zenon DEF ChannelNext
  <2> QED
    BY <2>1, <2>4, Zenon
<1>3. WaitInv => NoLostWait
  BY Zenon DEF WaitInv
<1> QED
  BY <1>1, <1>2, <1>3, PTL DEF ChannelSpec
=============================================================================

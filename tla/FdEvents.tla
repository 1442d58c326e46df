----------------------------- MODULE FdEvents -----------------------------
(***************************************************************************)
(* The fd side of pulsar::IOManager (iomanager.cpp): the table of          *)
(* FdContexts, addEvent, delEvent, cancelEvent, cancelAll and the loop in  *)
(* idle() over what epoll_wait has reported.  The table's lock is released *)
(* before the lock of the context is taken, and a report is handled some   *)
(* time after the kernel made it, so every call has two steps.             *)
(*                                                                         *)
(* A context is the n-th that was made for its fd: shrinking the vector    *)
(* drops contexts, growing it makes new ones.                              *)
(***************************************************************************)
EXTENDS Integers, FiniteSets

CONSTANTS
  Fds,        \* file descriptors
  Events,     \* READ, WRITE
  Callers,    \* threads that call the API
  Workers,    \* workers in idle()
  InitSize,   \* contextResize(32) in the constructor
  MaxMade     \* bound on the contexts made for an fd

ASSUME FdAssumption ==
  Fds \subseteq Nat /\ IsFiniteSet(Events) /\ InitSize \in Nat /\ InitSize > 1 /\ MaxMade \in Nat \ {0}

Absent == 0
Contexts == Fds \X (1..MaxMade)

VARIABLES
  size,       \* fdContexts_.size()
  table,      \* the number of the context in each place of it, or Absent
  made,       \* how many contexts an fd has had
  events,     \* FdContext::events
  interest,   \* the kernel's: the context given to epoll_ctl for an fd, or none
  pendingEventCnt,
  call,       \* the call a thread is in
  reports,    \* what a worker still has to handle
  panic       \* a CondPanic has ended the program

tableVars == <<size, table, made>>
eventVars == <<tableVars, events, interest, pendingEventCnt, call, reports, panic>>

NoCall == [op |-> "none", fd |-> 0, event |-> {}, ctx |-> <<0, Absent>>]
Nothing == [ctx |-> <<0, Absent>>, events |-> {}]

FdInit ==
  /\ size = InitSize
  /\ table = [f \in Fds |-> IF f < InitSize THEN 1 ELSE Absent]
  /\ made = [f \in Fds |-> IF f < InitSize THEN 1 ELSE 0]
  /\ events = [c \in Contexts |-> {}]
  /\ interest = [f \in Fds |-> Nothing]
  /\ pendingEventCnt = 0
  /\ call = [t \in Callers |-> NoCall]
  /\ reports = [w \in Workers |-> {}]
  /\ panic = FALSE
----------------------------------------------------------------------------
(* The kernel.  An fd has interest in some events, in the name of a        *)
(* context; ADD fails if it has one, MOD and DEL if it has none.           *)

Added(f) == interest[f] # Nothing
setInterest(c, evs) == interest' = [interest EXCEPT ![c[1]] = IF evs = {} THEN Nothing ELSE [ctx |-> c, events |-> evs]]
----------------------------------------------------------------------------
(* The table.                                                              *)

\* What contextResize(fd * 1.5) makes of it.
contextResize(n) ==
  /\ \A f \in Fds : f < n /\ table[f] = Absent => made[f] < MaxMade
  /\ size' = n
  /\ table' = [f \in Fds |-> IF f >= n THEN Absent ELSE IF table[f] = Absent THEN made[f] + 1 ELSE table[f]]
  /\ made' = [f \in Fds |-> IF f < n /\ table[f] = Absent THEN made[f] + 1 ELSE made[f]]

\* A thread begins a call.  A caller never adds an event that is registered
\* or being registered: that is the contract of addEvent.
Begin(t, op, f, evs) ==
  /\ call[t] = NoCall
  /\ op = "add" => /\ \A c \in Contexts : c[1] = f => evs \cap events[c] = {}
                   /\ \A u \in Callers : call[u].op = "add" /\ call[u].fd = f => call[u].event \cap evs = {}
  /\ f < size \/ op = "add"
  /\ call' = [call EXCEPT ![t] = [op |-> op, fd |-> f, event |-> evs,
                                  ctx |-> IF f < size THEN <<f, table[f]>> ELSE NoCall.ctx]]
  /\ UNCHANGED <<tableVars, events, interest, pendingEventCnt, reports, panic>>

\* addEvent takes the write lock and resizes: the size may have changed.
Resize(t) ==
  /\ call[t].op = "add" /\ call[t].ctx = NoCall.ctx
  /\ contextResize((call[t].fd * 3) \div 2)
  /\ call' = [call EXCEPT ![t].ctx = <<call[t].fd, table'[call[t].fd]>>]
  /\ UNCHANGED <<events, interest, pendingEventCnt, reports, panic>>
----------------------------------------------------------------------------
(* The second steps, under the lock of the context.                        *)

\* A call returns and has changed nothing.
return(t) == call' = [call EXCEPT ![t] = NoCall] /\ UNCHANGED <<events, interest, pendingEventCnt, panic>>

\* The events of context c become evs, and the counter follows.
register(c, evs, delta) ==
  /\ events' = [events EXCEPT ![c] = evs]
  /\ pendingEventCnt' = pendingEventCnt + delta

AddEvent(t) ==
  /\ call[t].op = "add" /\ call[t].ctx # NoCall.ctx
  /\ LET c == call[t].ctx
         evs == events[c] \cup call[t].event
     IN  IF (events[c] = {}) = Added(c[1])
           THEN return(t)
           ELSE /\ setInterest(c, evs)
                /\ register(c, evs, 1)
                /\ call' = [call EXCEPT ![t] = NoCall]
                /\ UNCHANGED panic
  /\ UNCHANGED <<tableVars, reports>>

\* Mutant of remove: the counter is left alone.
removeUncounted(c, evs) ==
  events' = [events EXCEPT ![c] = @ \ evs] /\ UNCHANGED pendingEventCnt

\* The registered events evs are taken away, to wake their fibers or not.
remove(c, evs) == register(c, events[c] \ evs, -Cardinality(evs))

\* delEvent, cancelEvent, cancelAll.
RemoveEvent(t) ==
  /\ call[t].op = "remove"
  /\ LET c == call[t].ctx
         evs == events[c] \cap call[t].event
     IN  IF evs = {} \/ ~Added(c[1])
           THEN return(t)
           ELSE /\ setInterest(c, events[c] \ evs)
                /\ remove(c, evs)
                /\ call' = [call EXCEPT ![t] = NoCall]
                /\ UNCHANGED panic
  /\ UNCHANGED <<tableVars, reports>>
----------------------------------------------------------------------------
(* idle()                                                                  *)

\* epoll_wait reports some fds with some of the events they have interest
\* in; an error or a hang-up comes with any of them.
EpollWait(w, f, evs, err) ==
  /\ reports[w] = {} /\ Added(f)
  /\ evs \subseteq interest[f].events /\ (evs # {} \/ err)
  /\ reports' = [reports EXCEPT ![w] = {[ctx |-> interest[f].ctx, events |-> evs, err |-> err]}]
  /\ UNCHANGED <<tableVars, events, interest, pendingEventCnt, call, panic>>

\* The events a report stands for when it is handled.
realEvents(r) == r.events \cup (IF r.err THEN events[r.ctx] ELSE {})

\* Mutant of handled: a report that meets no registered event is not skipped.
handledAlways(r) == TRUE

handled(r) == realEvents(r) \cap events[r.ctx] # {} /\ Added(r.ctx[1])

\* triggerEvent for each of them, which panics on one that is not registered.
Handle(w) ==
  /\ reports[w] # {}
  /\ reports' = [reports EXCEPT ![w] = {}]
  /\ \E r \in reports[w] :
       IF ~handled(r)
         THEN UNCHANGED <<events, interest, pendingEventCnt, panic>>
         ELSE /\ setInterest(r.ctx, events[r.ctx] \ realEvents(r))
              /\ remove(r.ctx, realEvents(r) \cap events[r.ctx])
              /\ panic' = ~(realEvents(r) \subseteq events[r.ctx])
  /\ UNCHANGED <<tableVars, call>>
----------------------------------------------------------------------------
FdNext ==
  /\ ~panic
  /\ \/ \E t \in Callers : \/ Resize(t) \/ AddEvent(t) \/ RemoveEvent(t)
                           \/ \E f \in Fds, e \in Events : Begin(t, "add", f, {e}) \/ Begin(t, "remove", f, {e})
                           \/ \E f \in Fds : Begin(t, "remove", f, Events)
     \/ \E w \in Workers : \/ Handle(w)
                           \/ \E f \in Fds, evs \in SUBSET Events, err \in BOOLEAN : EpollWait(w, f, evs, err)

FdSpec == FdInit /\ [][FdNext]_eventVars
----------------------------------------------------------------------------
FdTypeOK ==
  /\ size \in Nat
  /\ table \in [Fds -> 0..MaxMade] /\ made \in [Fds -> 0..MaxMade]
  /\ events \in [Contexts -> SUBSET Events]
  /\ interest \in [Fds -> [ctx : Contexts \cup {NoCall.ctx}, events : SUBSET Events]]
  /\ pendingEventCnt \in Int
  /\ call \in [Callers -> [op : {"none", "add", "remove"}, fd : Fds \cup {0}, event : SUBSET Events,
                           ctx : Contexts \cup {NoCall.ctx}]]
  /\ reports \in [Workers -> SUBSET [ctx : Contexts, events : SUBSET Events, err : BOOLEAN]]
  /\ panic \in BOOLEAN

Registered == {p \in Contexts \X Events : p[2] \in events[p[1]]}

\* pendingEventCnt_ is the number of registered events, whatever adds,
\* cancels and reports meet: else stop() would hang or leave a fiber behind.
CountExact == pendingEventCnt = Cardinality(Registered)

\* The kernel watches exactly what the contexts have registered, also for a
\* context the table has lost, so no registered event goes unreported.
InterestExact ==
  \A f \in Fds :
    /\ Added(f) => interest[f].events = events[interest[f].ctx]
    /\ \A c \in Contexts : c[1] = f /\ events[c] # {} => Added(f) /\ interest[f].ctx = c

\* triggerEvent meets only registered events, as it asserts
\* (iomanager.cpp:93).
NoPanic == ~panic

\* A registered event can be cancelled (iomanager.cpp:243): its context is
\* the one that the table has for the fd.  This fails (README, deviations).
Cancellable == \A c \in Contexts : events[c] # {} => table[c[1]] = c[2]
============================================================================

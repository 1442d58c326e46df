------------------------------ MODULE IoProofs ------------------------------
(***************************************************************************)
(* What an IOManager waits for: the events registered with epoll, counted  *)
(* and in the kernel as they are in the contexts, and the timers of its    *)
(* wheel, which fire once and not after cancel().  For any number of fds,  *)
(* events, callers and timers.                                             *)
(***************************************************************************)
EXTENDS FdEvents, TimerWheel, FiniteSetTheorems, TLAPS

(* FdEvents: addEvent, removeEvent and what epoll_wait reports.            *)

\* The table never gets smaller than it was made, and has a context for
\* every fd below its size.
TableInv ==
  /\ size >= InitSize
  /\ \A f \in Fds : f < size => table[f] \in 1..MaxMade

\* The calls under way: one that adds is for one event, which no context of
\* the fd has and no other call adds; one without a context is for an fd
\* that was beyond the table.
CallsInv ==
  /\ \A t \in Callers : call[t].op = "add" =>
       /\ call[t].fd \in Fds /\ \E e \in Events : call[t].event = {e}
       /\ call[t].ctx = NoCall.ctx => call[t].fd >= InitSize
       /\ call[t].ctx # NoCall.ctx => call[t].ctx \in Contexts /\ call[t].ctx[1] = call[t].fd
       /\ \A c \in Contexts : c[1] = call[t].fd => call[t].event \cap events[c] = {}
  /\ \A t, u \in Callers : t # u /\ call[t].op = "add" /\ call[u].op = "add" /\ call[t].fd = call[u].fd =>
       call[t].event \cap call[u].event = {}
  /\ \A t \in Callers : call[t].op = "remove" => call[t].ctx \in Contexts

\* What the kernel has for an fd is in the name of a context of it.
KernelInv ==
  \A f \in Fds : Added(f) => interest[f].ctx \in Contexts /\ interest[f].ctx[1] = f /\ interest[f].events # {}

FdEventsInv ==
  FdTypeOK /\ TableInv /\ CallsInv /\ KernelInv /\ InterestExact /\ IsFiniteSet(Registered) /\ CountExact

LEMMA ContextPair ==
  ASSUME NEW c \in Contexts
  PROVE  c[1] \in Fds /\ c[2] \in 1..MaxMade /\ c # NoCall.ctx
  BY DEF Contexts, NoCall, Absent

\* The registered events when those of one context change.
LEMMA RegisteredChange ==
  ASSUME NEW c \in Contexts, NEW S \in SUBSET Events, events \in [Contexts -> SUBSET Events],
         events' = [events EXCEPT ![c] = S]
  PROVE  Registered' = (Registered \ ({c} \X events[c])) \cup ({c} \X S)
  <1>1. \A p \in Contexts \X Events : p[1] \in Contexts /\ p[2] \in Events /\ p = <<p[1], p[2]>>
    OBVIOUS
  <1>2. events'[c] = S /\ \A d \in Contexts : d # c => events'[d] = events[d]
    BY Zenon
  <1>3. \A p : p \in Registered' <=> p \in Contexts \X Events /\ p[2] \in events'[p[1]]
    BY Zenon DEF Registered
  <1>4. \A p : p \in Registered <=> p \in Contexts \X Events /\ p[2] \in events[p[1]]
    BY Zenon DEF Registered
  <1>5. \A T \in SUBSET Events : \A p : p \in {c} \X T <=> p \in Contexts \X Events /\ p[1] = c /\ p[2] \in T
    BY Zenon
  <1>6. events[c] \in SUBSET Events
    BY Zenon
  <1>7. \A p : p \in {c} \X S <=> p \in Contexts \X Events /\ p[1] = c /\ p[2] \in S
    BY <1>5, Zenon
  <1>8. \A p : p \in {c} \X events[c] <=> p \in Contexts \X Events /\ p[1] = c /\ p[2] \in events[c]
    BY <1>5, <1>6, Zenon
  <1> HIDE DEF Registered
  <1>9. \A p : p \in Registered' <=> p \in (Registered \ ({c} \X events[c])) \cup ({c} \X S)
    <2> SUFFICES ASSUME NEW p PROVE p \in Registered' <=> (p \in Registered /\ p \notin {c} \X events[c]) \/ p \in {c} \X S
      BY Zenon
    <2>1. CASE p \notin Contexts \X Events
      BY <2>1, <1>3, <1>4, <1>7, Zenon
    <2>2. CASE p \in Contexts \X Events /\ p[1] = c
      BY <2>2, <1>2, <1>3, <1>4, <1>7, <1>8, Zenon
    <2>3. CASE p \in Contexts \X Events /\ p[1] # c
      BY <2>3, <1>1, <1>2, <1>3, <1>4, <1>7, <1>8, Zenon
    <2> QED
      BY <2>1, <2>2, <2>3, Zenon
  <1> QED
    BY <1>9, Zenon

\* What the counter and the set of registered events do when events of one
\* context are taken away, and when one is added.
LEMMA CountRemoved ==
  ASSUME NEW c \in Contexts, NEW evs \in SUBSET events[c], FdTypeOK, IsFiniteSet(Registered), CountExact,
         events' = [events EXCEPT ![c] = events[c] \ evs],
         pendingEventCnt' = pendingEventCnt + (-Cardinality(evs))
  PROVE  IsFiniteSet(Registered') /\ CountExact' /\ pendingEventCnt' \in Int
  <1>1. events \in [Contexts -> SUBSET Events] /\ pendingEventCnt \in Int
    BY Zenon DEF FdTypeOK
  <1>2. evs \in SUBSET Events /\ events[c] \in SUBSET Events
    BY <1>1, Zenon
  <1>3. Registered' = (Registered \ ({c} \X events[c])) \cup ({c} \X (events[c] \ evs))
    <2>1. events[c] \ evs \in SUBSET Events
      BY <1>2, Zenon
    <2> QED
      BY <1>1, <2>1, RegisteredChange, Zenon
  <1>4. {c} \X events[c] \subseteq Registered
    BY <1>1, <1>2, Zenon DEF Registered
  <1>5. {c} \X evs \subseteq {c} \X events[c]
    BY Zenon
  <1>6. Registered' = Registered \ ({c} \X evs)
    <2>1. \A p : p \in {c} \X (events[c] \ evs) <=> p \in {c} \X events[c] /\ p \notin {c} \X evs
      BY Zenon
    <2> QED
      BY <1>3, <1>4, <1>5, <2>1, Zenon
  <1>7. IsFiniteSet(evs) /\ Cardinality(evs) \in Nat
    BY <1>2, FdAssumption, FS_Subset, FS_CardinalityType, Zenon
  <1>8. IsFiniteSet({c} \X evs) /\ Cardinality({c} \X evs) = Cardinality(evs)
    <2>1. IsFiniteSet({c}) /\ Cardinality({c}) = 1
      BY FS_Singleton, Zenon
    <2>2. Cardinality({c} \X evs) = Cardinality({c}) * Cardinality(evs) /\ IsFiniteSet({c} \X evs)
      BY <2>1, <1>7, FS_Product, Zenon
    <2> QED
      BY <2>1, <2>2, <1>7
  <1>9. Registered \cap ({c} \X evs) = {c} \X evs
    BY <1>4, <1>5, Zenon
  <1>10. IsFiniteSet(Registered') /\ Cardinality(Registered') = Cardinality(Registered) - Cardinality({c} \X evs)
    <2> DEFINE T == {c} \X evs
    <2>1. IsFiniteSet(Registered \ T) /\ Cardinality(Registered \ T) = Cardinality(Registered) - Cardinality(Registered \cap T)
      BY FS_Difference, Zenon
    <2> QED
      BY <1>6, <1>9, <2>1, Zenon
  <1>11. Cardinality(Registered) \in Nat
    BY FS_CardinalityType, Zenon
  <1> QED
    BY <1>1, <1>7, <1>8, <1>10, <1>11 DEF CountExact

LEMMA CountAdded ==
  ASSUME NEW c \in Contexts, NEW e \in Events, e \notin events[c], FdTypeOK, IsFiniteSet(Registered), CountExact,
         events' = [events EXCEPT ![c] = events[c] \cup {e}],
         pendingEventCnt' = pendingEventCnt + 1
  PROVE  IsFiniteSet(Registered') /\ CountExact' /\ pendingEventCnt' \in Int
  <1>1. events \in [Contexts -> SUBSET Events] /\ pendingEventCnt \in Int
    BY Zenon DEF FdTypeOK
  <1>2. Registered' = (Registered \ ({c} \X events[c])) \cup ({c} \X (events[c] \cup {e}))
    <2>1. events[c] \cup {e} \in SUBSET Events
      BY <1>1, Zenon
    <2> QED
      BY <1>1, <2>1, RegisteredChange, Zenon
  <1>3. {c} \X events[c] \subseteq Registered
    BY <1>1, Zenon DEF Registered
  <1>4. Registered' = Registered \cup {<<c, e>>}
    <2>1. \A p : p \in {c} \X (events[c] \cup {e}) <=> p \in {c} \X events[c] \/ p = <<c, e>>
      OBVIOUS
    <2> QED
      BY <1>2, <1>3, <2>1, Zenon
  <1>5. <<c, e>> \notin Registered
    BY Zenon DEF Registered
  <1>6. IsFiniteSet(Registered') /\ Cardinality(Registered') = Cardinality(Registered) + 1
    BY <1>4, <1>5, FS_AddElement, Zenon
  <1> QED
    BY <1>1, <1>6 DEF CountExact

\* The kernel's interest in an fd when the events of its context change.
LEMMA InterestSet ==
  ASSUME NEW c \in Contexts, NEW evs \in SUBSET Events, FdTypeOK, KernelInv, InterestExact,
         Added(c[1]) => interest[c[1]].ctx = c,
         ~Added(c[1]) => events[c] = {},
         setInterest(c, evs), events' = [events EXCEPT ![c] = evs]
  PROVE  /\ KernelInv' /\ InterestExact'
         /\ interest' \in [Fds -> [ctx : Contexts \cup {NoCall.ctx}, events : SUBSET Events]]
         /\ events' \in [Contexts -> SUBSET Events]
  <1> DEFINE f == c[1]
  <1>0. /\ f \in Fds
        /\ interest \in [Fds -> [ctx : Contexts \cup {NoCall.ctx}, events : SUBSET Events]]
        /\ events \in [Contexts -> SUBSET Events]
    BY ContextPair, Zenon DEF FdTypeOK
  <1>1. /\ \A g \in Fds : g # f => interest'[g] = interest[g]
        /\ interest'[f] = IF evs = {} THEN Nothing ELSE [ctx |-> c, events |-> evs]
    BY <1>0, Zenon DEF setInterest
  <1>2. Nothing \in [ctx : Contexts \cup {NoCall.ctx}, events : SUBSET Events]
    BY Zenon DEF Nothing, NoCall
  <1>3. [ctx |-> c, events |-> evs] \in [ctx : Contexts \cup {NoCall.ctx}, events : SUBSET Events]
    BY Zenon
  <1>4. interest' \in [Fds -> [ctx : Contexts \cup {NoCall.ctx}, events : SUBSET Events]]
    BY <1>0, <1>2, <1>3, Zenon DEF setInterest
  <1>5. evs # {} => Added(f)' /\ interest'[f].ctx = c /\ interest'[f].events = evs
    BY <1>1 DEF Added, Nothing
  <1>6. evs = {} => ~Added(f)'
    BY <1>1, Zenon DEF Added
  <1>7. \A g \in Fds : g # f => (Added(g)' <=> Added(g))
    BY <1>1, Zenon DEF Added
  <1>8. events'[c] = evs /\ \A d \in Contexts : d # c => events'[d] = events[d]
    BY <1>0, Zenon
  <1>9. \A d \in Contexts : d[1] = f /\ d # c => events[d] = {}
    BY <1>0, Zenon DEF InterestExact
  <1>10. KernelInv'
    BY <1>1, <1>5, <1>6, <1>7 DEF KernelInv
  <1>11. InterestExact'
    <2> SUFFICES ASSUME NEW g \in Fds
                 PROVE  /\ Added(g)' => interest'[g].events = events'[interest'[g].ctx]
                        /\ \A d \in Contexts : d[1] = g /\ events'[d] # {} => Added(g)' /\ interest'[g].ctx = d
      BY Zenon DEF InterestExact
    <2>1. CASE g = f
      BY <2>1, <1>5, <1>6, <1>8, <1>9, Zenon
    <2>2. CASE g # f
      <3>1. \A d \in Contexts : d[1] = g => events'[d] = events[d]
        BY <2>2, <1>8, Zenon
      <3>2. Added(g) => interest[g].ctx \in Contexts /\ interest[g].ctx[1] = g
        BY Zenon DEF KernelInv
      <3> QED
        BY <2>2, <1>1, <1>7, <3>1, <3>2 DEF InterestExact
    <2> QED
      BY <2>1, <2>2, Zenon
  <1> QED
    BY <1>0, <1>4, <1>10, <1>11, Zenon

\* A call that has returned.
LEMMA CallEnds ==
  ASSUME NEW t \in Callers, FdTypeOK, CallsInv, call' = [call EXCEPT ![t] = NoCall],
         \A u \in Callers : u # t /\ call[u].op = "add" =>
           \A c \in Contexts : c[1] = call[u].fd => call[u].event \cap events'[c] = {}
  PROVE  /\ CallsInv'
         /\ call' \in [Callers -> [op : {"none", "add", "remove"}, fd : Fds \cup {0}, event : SUBSET Events,
                                   ctx : Contexts \cup {NoCall.ctx}]]
  <1>1. NoCall \in [op : {"none", "add", "remove"}, fd : Fds \cup {0}, event : SUBSET Events, ctx : Contexts \cup {NoCall.ctx}]
    BY Zenon DEF NoCall
  <1>2. /\ \A u \in Callers : u # t => call'[u] = call[u]
        /\ call'[t].op = "none"
    BY Zenon DEF FdTypeOK, NoCall
  <1>3. call' \in [Callers -> [op : {"none", "add", "remove"}, fd : Fds \cup {0}, event : SUBSET Events,
                               ctx : Contexts \cup {NoCall.ctx}]]
    BY <1>1, Zenon DEF FdTypeOK
  <1>4. CallsInv'
    BY <1>2 DEF CallsInv
  <1> QED
    BY <1>3, <1>4, Zenon

LEMMA FdEventsInitially == FdInit => FdEventsInv
  <1> SUFFICES ASSUME FdInit PROVE FdEventsInv
    BY Zenon
  <1>1. 1 \in 1..MaxMade /\ 0 \in 0..MaxMade /\ 1 \in 0..MaxMade /\ size \in Nat
    BY FdAssumption DEF FdInit
  <1>2. NoCall \in [op : {"none", "add", "remove"}, fd : Fds \cup {0}, event : SUBSET Events, ctx : Contexts \cup {NoCall.ctx}]
    BY Zenon DEF NoCall
  <1>3. Nothing \in [ctx : Contexts \cup {NoCall.ctx}, events : SUBSET Events]
    BY Zenon DEF Nothing, NoCall
  <1>4. FdTypeOK
    <2>1. size \in Nat /\ table \in [Fds -> 0..MaxMade] /\ made \in [Fds -> 0..MaxMade]
      BY <1>1, Zenon DEF FdInit, Absent
    <2>2. interest \in [Fds -> [ctx : Contexts \cup {NoCall.ctx}, events : SUBSET Events]]
      BY <1>3, Zenon DEF FdInit
    <2>3. call \in [Callers -> [op : {"none", "add", "remove"}, fd : Fds \cup {0}, event : SUBSET Events,
                                ctx : Contexts \cup {NoCall.ctx}]]
      BY <1>2, Zenon DEF FdInit
    <2>4. events \in [Contexts -> SUBSET Events] /\ pendingEventCnt \in Int /\ panic \in BOOLEAN
      <3>1. {} \in SUBSET Events /\ 0 \in Int
        OBVIOUS
      <3> QED
        BY <3>1, Zenon DEF FdInit
    <2>5. reports \in [Workers -> SUBSET [ctx : Contexts, events : SUBSET Events, err : BOOLEAN]]
      <3> DEFINE R == SUBSET [ctx : Contexts, events : SUBSET Events, err : BOOLEAN]
      <3>1. {} \in R
        BY Zenon
      <3> HIDE DEF R
      <3>2. reports \in [Workers -> R]
        BY <3>1, Zenon DEF FdInit
      <3> QED
        BY <3>2, Zenon DEF R
    <2> QED
      BY <2>1, <2>2, <2>3, <2>4, <2>5, Zenon DEF FdTypeOK
  <1>5. TableInv
    BY <1>1, FdAssumption DEF FdInit, TableInv
  <1>6. CallsInv
    BY Zenon DEF FdInit, CallsInv, NoCall
  <1>7. KernelInv /\ InterestExact
    BY Zenon DEF FdInit, KernelInv, InterestExact, Added
  <1>8. Registered = {}
    BY Zenon DEF FdInit, Registered
  <1>9. IsFiniteSet(Registered) /\ CountExact
    BY <1>8, FS_EmptySet, Zenon DEF FdInit, CountExact
  <1> QED
    BY <1>4, <1>5, <1>6, <1>7, <1>9, Zenon DEF FdEventsInv

LEMMA BeginFd ==
  ASSUME NEW t \in Callers, NEW op \in {"add", "remove"}, NEW f \in Fds, NEW evs \in SUBSET Events,
         op = "add" => \E e \in Events : evs = {e}, FdEventsInv, Begin(t, op, f, evs)
  PROVE  FdEventsInv'
  <1> DEFINE new == call'[t]
  <1>0. /\ call[t] = NoCall /\ UNCHANGED <<size, table, made, events, interest, pendingEventCnt, reports, panic>>
        /\ op = "add" => /\ \A c \in Contexts : c[1] = f => evs \cap events[c] = {}
                         /\ \A u \in Callers : call[u].op = "add" /\ call[u].fd = f => call[u].event \cap evs = {}
    BY Zenon DEF Begin, tableVars
  <1>1. /\ call' = [call EXCEPT ![t] = new] /\ new.op = op /\ new.fd = f /\ new.event = evs
        /\ new \in [op : {"none", "add", "remove"}, fd : Fds \cup {0}, event : SUBSET Events, ctx : Contexts \cup {NoCall.ctx}]
        /\ \/ new.ctx \in Contexts /\ new.ctx[1] = f
           \/ op = "add" /\ new.ctx = NoCall.ctx /\ f >= InitSize
    <2>1. CASE f < size
      <3>1. <<f, table[f]>> \in Contexts
        BY <2>1, Zenon DEF FdEventsInv, TableInv, Contexts
      <3>2. call' = [call EXCEPT ![t] = [op |-> op, fd |-> f, event |-> evs, ctx |-> <<f, table[f]>>]]
        BY <2>1, Zenon DEF Begin
      <3> QED
        BY <3>1, <3>2, Zenon DEF FdEventsInv, FdTypeOK
    <2>2. CASE ~(f < size)
      <3>1. f >= InitSize
        BY <2>2, FdAssumption, SMTT(30) DEF FdEventsInv, FdTypeOK, TableInv
      <3>2. op = "add" /\ call' = [call EXCEPT ![t] = [op |-> op, fd |-> f, event |-> evs, ctx |-> NoCall.ctx]]
        BY <2>2, Zenon DEF Begin
      <3> QED
        BY <3>1, <3>2, Zenon DEF FdEventsInv, FdTypeOK
    <2> QED
      BY <2>1, <2>2, Zenon
  <1>2. \A u \in Callers : u # t => call'[u] = call[u]
    BY <1>1, Zenon DEF FdEventsInv, FdTypeOK
  <1>3. CallsInv'
    <2>1. \A u \in Callers : call'[u].op = "add" =>
             /\ call'[u].fd \in Fds /\ \E e \in Events : call'[u].event = {e}
             /\ call'[u].ctx = NoCall.ctx => call'[u].fd >= InitSize
             /\ call'[u].ctx # NoCall.ctx => call'[u].ctx \in Contexts /\ call'[u].ctx[1] = call'[u].fd
             /\ \A c \in Contexts : c[1] = call'[u].fd => call'[u].event \cap events'[c] = {}
      <3> SUFFICES ASSUME NEW u \in Callers, call'[u].op = "add"
                   PROVE  /\ call'[u].fd \in Fds /\ \E e \in Events : call'[u].event = {e}
                          /\ call'[u].ctx = NoCall.ctx => call'[u].fd >= InitSize
                          /\ call'[u].ctx # NoCall.ctx => call'[u].ctx \in Contexts /\ call'[u].ctx[1] = call'[u].fd
                          /\ \A c \in Contexts : c[1] = call'[u].fd => call'[u].event \cap events[c] = {}
        BY <1>0, Zenon
      <3>1. CASE u # t
        BY <3>1, <1>2, SMTT(30) DEF FdEventsInv, CallsInv
      <3>2. CASE u = t
        BY <3>2, <1>0, <1>1, ContextPair, Zenon
      <3> QED
        BY <3>1, <3>2, Zenon
    <2>2. \A u, v \in Callers : u # v /\ call'[u].op = "add" /\ call'[v].op = "add" /\ call'[u].fd = call'[v].fd =>
            call'[u].event \cap call'[v].event = {}
      BY <1>0, <1>1, <1>2, SMTT(30) DEF FdEventsInv, CallsInv
    <2>3. \A u \in Callers : call'[u].op = "remove" => call'[u].ctx \in Contexts
      BY <1>0, <1>1, <1>2, Zenon DEF FdEventsInv, CallsInv
    <2> QED
      BY <2>1, <2>2, <2>3, Zenon DEF CallsInv
  <1>4. FdTypeOK'
    BY <1>0, <1>1, SMTT(30) DEF FdEventsInv, FdTypeOK
  <1>5. TableInv' /\ KernelInv' /\ InterestExact' /\ IsFiniteSet(Registered)' /\ CountExact'
    BY <1>0 DEF FdEventsInv, TableInv, KernelInv, InterestExact, Added, CountExact, Registered
  <1> QED
    BY <1>3, <1>4, <1>5, Zenon DEF FdEventsInv

LEMMA ResizeFd ==
  ASSUME NEW t \in Callers, FdEventsInv, Resize(t)
  PROVE  FdEventsInv'
  <1> DEFINE f == call[t].fd
             n == (f * 3) \div 2
  <1>0. /\ call[t].op = "add" /\ call[t].ctx = NoCall.ctx
        /\ call' = [call EXCEPT ![t].ctx = <<f, table'[f]>>]
        /\ UNCHANGED <<events, interest, pendingEventCnt, reports, panic>>
    BY Zenon DEF Resize
  <1>1. f \in Fds /\ f \in Nat /\ f >= InitSize
    BY <1>0, FdAssumption, Zenon DEF FdEventsInv, CallsInv
  <1>2. n \in Nat /\ f < n /\ n >= InitSize
    BY <1>1, FdAssumption
  <1>3. /\ size' = n
        /\ \A g \in Fds : g < n /\ table[g] = Absent => made[g] < MaxMade
        /\ table' = [g \in Fds |-> IF g >= n THEN Absent ELSE IF table[g] = Absent THEN made[g] + 1 ELSE table[g]]
        /\ made' = [g \in Fds |-> IF g < n /\ table[g] = Absent THEN made[g] + 1 ELSE made[g]]
    BY Zenon DEF Resize, contextResize
  <1>4. \A g \in Fds : /\ table'[g] \in 0..MaxMade /\ made'[g] \in 0..MaxMade
                       /\ g < n => table'[g] \in 1..MaxMade
    <2> SUFFICES ASSUME NEW g \in Fds
                 PROVE  /\ table'[g] \in 0..MaxMade /\ made'[g] \in 0..MaxMade
                        /\ g < n => table'[g] \in 1..MaxMade
      BY Zenon
    <2>1. g \in Nat /\ table[g] \in 0..MaxMade /\ made[g] \in 0..MaxMade /\ MaxMade \in Nat
      BY FdAssumption, Zenon DEF FdEventsInv, FdTypeOK
    <2>2. /\ table'[g] = IF g >= n THEN 0 ELSE IF table[g] = 0 THEN made[g] + 1 ELSE table[g]
          /\ made'[g] = IF g < n /\ table[g] = 0 THEN made[g] + 1 ELSE made[g]
          /\ g < n /\ table[g] = 0 => made[g] < MaxMade
      BY <1>3, Zenon DEF Absent
    <2> HIDE DEF n
    <2> QED
      BY <1>2, <2>1, <2>2
  <1> HIDE DEF n
  <1>5. table' \in [Fds -> 0..MaxMade] /\ made' \in [Fds -> 0..MaxMade]
    BY <1>3, <1>4, Zenon
  <1>6. <<f, table'[f]>> \in Contexts /\ <<f, table'[f]>>[1] = f
    BY <1>1, <1>2, <1>4, Zenon DEF Contexts
  <1>7. /\ \A u \in Callers : u # t => call'[u] = call[u]
        /\ call'[t].op = "add" /\ call'[t].fd = f /\ call'[t].event = call[t].event /\ call'[t].ctx = <<f, table'[f]>>
        /\ call' \in [Callers -> [op : {"none", "add", "remove"}, fd : Fds \cup {0}, event : SUBSET Events,
                                  ctx : Contexts \cup {NoCall.ctx}]]
    BY <1>0, <1>6, ZenonT(30) DEF FdEventsInv, FdTypeOK
  <1>8. FdTypeOK'
    BY <1>0, <1>2, <1>3, <1>5, <1>7, Zenon DEF FdEventsInv, FdTypeOK
  <1>9. TableInv'
    BY <1>2, <1>3, <1>4, Zenon DEF TableInv
  <1>10. CallsInv'
    BY <1>0, <1>6, <1>7, ContextPair DEF FdEventsInv, CallsInv
  <1>11. KernelInv' /\ InterestExact' /\ IsFiniteSet(Registered)' /\ CountExact'
    BY <1>0, Zenon DEF FdEventsInv, KernelInv, InterestExact, Added, CountExact, Registered
  <1> QED
    BY <1>8, <1>9, <1>10, <1>11, Zenon DEF FdEventsInv

LEMMA ReturnFd ==
  ASSUME NEW t \in Callers, FdEventsInv, return(t), UNCHANGED <<tableVars, reports>>
  PROVE  FdEventsInv'
  <1>1. call' = [call EXCEPT ![t] = NoCall] /\ UNCHANGED <<size, table, made, events, interest, pendingEventCnt, reports, panic>>
    BY Zenon DEF return, tableVars
  <1>2. CallsInv' /\ FdTypeOK'
    <2>1. \A u \in Callers : u # t /\ call[u].op = "add" =>
            \A c \in Contexts : c[1] = call[u].fd => call[u].event \cap events'[c] = {}
      BY <1>1, Zenon DEF FdEventsInv, CallsInv
    <2>2. FdTypeOK /\ CallsInv /\ call' = [call EXCEPT ![t] = NoCall]
      BY <1>1, Zenon DEF FdEventsInv
    <2>3. /\ CallsInv'
          /\ call' \in [Callers -> [op : {"none", "add", "remove"}, fd : Fds \cup {0}, event : SUBSET Events,
                                    ctx : Contexts \cup {NoCall.ctx}]]
      BY <2>1, <2>2, CallEnds, Zenon
    <2> QED
      BY <1>1, <2>2, <2>3, Zenon DEF FdTypeOK
  <1>3. TableInv' /\ KernelInv' /\ InterestExact' /\ IsFiniteSet(Registered)' /\ CountExact'
    BY <1>1, Zenon DEF FdEventsInv, TableInv, KernelInv, InterestExact, Added, CountExact, Registered
  <1> QED
    BY <1>2, <1>3, Zenon DEF FdEventsInv

LEMMA AddEventFd ==
  ASSUME NEW t \in Callers, FdEventsInv, AddEvent(t)
  PROVE  FdEventsInv'
  <1> DEFINE c == call[t].ctx
             evs == events[c] \cup call[t].event
  <1>0. call[t].op = "add" /\ c # NoCall.ctx /\ UNCHANGED <<tableVars, reports>>
    BY Zenon DEF AddEvent
  <1>1. c \in Contexts /\ c[1] = call[t].fd /\ c[1] \in Fds
    BY <1>0, ContextPair, Zenon DEF FdEventsInv, CallsInv
  <1>2. PICK e \in Events : call[t].event = {e}
    BY <1>0, Zenon DEF FdEventsInv, CallsInv
  <1>3. e \notin events[c]
    BY <1>0, <1>1, <1>2, Zenon DEF FdEventsInv, CallsInv
  <1>4. CASE (events[c] = {}) = Added(c[1])
    <2>1. return(t)
      BY <1>4, Zenon DEF AddEvent
    <2> QED
      BY <1>0, <2>1, ReturnFd, Zenon
  <1>5. CASE ~((events[c] = {}) = Added(c[1]))
    <2>1. /\ setInterest(c, evs) /\ events' = [events EXCEPT ![c] = evs] /\ pendingEventCnt' = pendingEventCnt + 1
          /\ call' = [call EXCEPT ![t] = NoCall] /\ UNCHANGED <<size, table, made, reports, panic>>
      BY <1>5, Zenon DEF AddEvent, register, tableVars
    <2>2. events \in [Contexts -> SUBSET Events]
      BY Zenon DEF FdEventsInv, FdTypeOK
    <2>3. evs = events[c] \cup {e} /\ evs \in SUBSET Events
      BY <1>1, <1>2, <2>2, Zenon
    <2>4. IsFiniteSet(Registered') /\ CountExact' /\ pendingEventCnt' \in Int
      BY <1>1, <1>3, <2>1, <2>3, CountAdded, Zenon DEF FdEventsInv
    <2>5. (Added(c[1]) => interest[c[1]].ctx = c) /\ (~Added(c[1]) => events[c] = {})
      <3>1. Added(c[1]) <=> events[c] # {}
        BY <1>5, Zenon DEF Added
      <3> QED
        BY <1>1, <3>1, Zenon DEF FdEventsInv, InterestExact
    <2>6. /\ KernelInv' /\ InterestExact'
          /\ interest' \in [Fds -> [ctx : Contexts \cup {NoCall.ctx}, events : SUBSET Events]]
          /\ events' \in [Contexts -> SUBSET Events]
      BY <1>1, <2>1, <2>3, <2>5, InterestSet, Zenon DEF FdEventsInv
    <2>7. \A u \in Callers : u # t /\ call[u].op = "add" =>
            \A d \in Contexts : d[1] = call[u].fd => call[u].event \cap events'[d] = {}
      <3> SUFFICES ASSUME NEW u \in Callers, u # t, call[u].op = "add", NEW d \in Contexts, d[1] = call[u].fd
                   PROVE  call[u].event \cap events'[d] = {}
        BY Zenon
      <3>1. call[u].event \cap events[d] = {}
        BY Zenon DEF FdEventsInv, CallsInv
      <3>2. CASE d # c
        BY <2>1, <2>2, <3>1, <3>2, Zenon
      <3>3. CASE d = c
        <4>1. call[u].event \cap call[t].event = {}
          BY <1>0, <1>1, <3>3, Zenon DEF FdEventsInv, CallsInv
        <4>2. events'[d] = events[d] \cup call[t].event
          BY <1>1, <2>1, <2>2, <3>3, Zenon
        <4> QED
          BY <3>1, <4>1, <4>2, Zenon
      <3> QED
        BY <3>2, <3>3, Zenon
    <2>8. CallsInv' /\ FdTypeOK'
      <3>1. /\ CallsInv'
            /\ call' \in [Callers -> [op : {"none", "add", "remove"}, fd : Fds \cup {0}, event : SUBSET Events,
                                      ctx : Contexts \cup {NoCall.ctx}]]
        BY <2>1, <2>7, CallEnds, Zenon DEF FdEventsInv
      <3> QED
        BY <2>1, <2>4, <2>6, <3>1, Zenon DEF FdEventsInv, FdTypeOK
    <2>9. TableInv'
      BY <2>1, Zenon DEF FdEventsInv, TableInv
    <2> QED
      BY <2>4, <2>6, <2>8, <2>9, Zenon DEF FdEventsInv
  <1> QED
    BY <1>4, <1>5, Zenon

\* Events evs of context c are taken away, for whatever reason.
LEMMA Taken ==
  ASSUME NEW c \in Contexts, NEW evs \in SUBSET events[c], evs # {}, Added(c[1]), FdEventsInv,
         setInterest(c, events[c] \ evs), remove(c, evs)
  PROVE  /\ KernelInv' /\ InterestExact' /\ IsFiniteSet(Registered') /\ CountExact' /\ pendingEventCnt' \in Int
         /\ interest' \in [Fds -> [ctx : Contexts \cup {NoCall.ctx}, events : SUBSET Events]]
         /\ events' \in [Contexts -> SUBSET Events]
         /\ \A d \in Contexts : events'[d] \subseteq events[d]
  <1>1. events' = [events EXCEPT ![c] = events[c] \ evs] /\ pendingEventCnt' = pendingEventCnt + (-Cardinality(evs))
    BY Zenon DEF remove, register
  <1>2. events \in [Contexts -> SUBSET Events]
    BY Zenon DEF FdEventsInv, FdTypeOK
  <1>3. IsFiniteSet(Registered') /\ CountExact' /\ pendingEventCnt' \in Int
    BY <1>1, CountRemoved, Zenon DEF FdEventsInv
  <1>4. interest[c[1]].ctx = c
    BY ContextPair, Zenon DEF FdEventsInv, InterestExact
  <1>5. events[c] \ evs \in SUBSET Events
    BY <1>2, Zenon
  <1>6. /\ KernelInv' /\ InterestExact'
        /\ interest' \in [Fds -> [ctx : Contexts \cup {NoCall.ctx}, events : SUBSET Events]]
        /\ events' \in [Contexts -> SUBSET Events]
    BY <1>1, <1>4, <1>5, InterestSet, Zenon DEF FdEventsInv
  <1>7. \A d \in Contexts : events'[d] \subseteq events[d]
    BY <1>1, <1>2, Zenon
  <1> QED
    BY <1>3, <1>6, <1>7, Zenon

LEMMA RemoveEventFd ==
  ASSUME NEW t \in Callers, FdEventsInv, RemoveEvent(t)
  PROVE  FdEventsInv'
  <1> DEFINE c == call[t].ctx
             evs == events[c] \cap call[t].event
  <1>0. call[t].op = "remove" /\ c \in Contexts /\ UNCHANGED <<tableVars, reports>>
    BY Zenon DEF RemoveEvent, FdEventsInv, CallsInv
  <1>1. CASE evs = {} \/ ~Added(c[1])
    <2>1. return(t)
      BY <1>1, Zenon DEF RemoveEvent
    <2> QED
      BY <1>0, <2>1, ReturnFd, Zenon
  <1>2. CASE ~(evs = {} \/ ~Added(c[1]))
    <2>1. /\ setInterest(c, events[c] \ evs) /\ remove(c, evs)
          /\ call' = [call EXCEPT ![t] = NoCall] /\ UNCHANGED <<size, table, made, reports, panic>>
      BY <1>2, Zenon DEF RemoveEvent, tableVars
    <2>2. evs \in SUBSET events[c] /\ evs # {} /\ Added(c[1])
      BY <1>2, Zenon
    <2> HIDE DEF evs
    <2>3. /\ KernelInv' /\ InterestExact' /\ IsFiniteSet(Registered') /\ CountExact' /\ pendingEventCnt' \in Int
          /\ interest' \in [Fds -> [ctx : Contexts \cup {NoCall.ctx}, events : SUBSET Events]]
          /\ events' \in [Contexts -> SUBSET Events]
          /\ \A d \in Contexts : events'[d] \subseteq events[d]
      BY <1>0, <2>1, <2>2, Taken, Zenon
    <2>4. \A u \in Callers : u # t /\ call[u].op = "add" =>
            \A d \in Contexts : d[1] = call[u].fd => call[u].event \cap events'[d] = {}
      BY <2>3, Zenon DEF FdEventsInv, CallsInv
    <2>5. CallsInv' /\ FdTypeOK'
      <3>1. /\ CallsInv'
            /\ call' \in [Callers -> [op : {"none", "add", "remove"}, fd : Fds \cup {0}, event : SUBSET Events,
                                      ctx : Contexts \cup {NoCall.ctx}]]
        BY <2>1, <2>4, CallEnds, Zenon DEF FdEventsInv
      <3> QED
        BY <2>1, <2>3, <3>1, Zenon DEF FdEventsInv, FdTypeOK
    <2>6. TableInv'
      BY <2>1, Zenon DEF FdEventsInv, TableInv
    <2> QED
      BY <2>3, <2>5, <2>6, Zenon DEF FdEventsInv
  <1> QED
    BY <1>1, <1>2, Zenon

LEMMA EpollWaitFd ==
  ASSUME NEW w \in Workers, NEW f \in Fds, NEW evs \in SUBSET Events, NEW err \in BOOLEAN, FdEventsInv, EpollWait(w, f, evs, err)
  PROVE  FdEventsInv'
  <1>1. interest[f].ctx \in Contexts
    BY Zenon DEF EpollWait, FdEventsInv, KernelInv
  <1>2. /\ reports' = [reports EXCEPT ![w] = {[ctx |-> interest[f].ctx, events |-> evs, err |-> err]}]
        /\ UNCHANGED <<size, table, made, events, interest, pendingEventCnt, call, panic>>
    BY Zenon DEF EpollWait, tableVars
  <1>3. FdTypeOK'
    BY <1>1, <1>2, SMTT(30) DEF FdEventsInv, FdTypeOK
  <1>4. TableInv' /\ KernelInv' /\ InterestExact' /\ IsFiniteSet(Registered)' /\ CountExact' /\ CallsInv'
    BY <1>2, SMTT(30) DEF FdEventsInv, TableInv, KernelInv, InterestExact, Added, CountExact, Registered, CallsInv
  <1> QED
    BY <1>3, <1>4, Zenon DEF FdEventsInv

LEMMA HandleFd ==
  ASSUME NEW w \in Workers, FdEventsInv, Handle(w)
  PROVE  FdEventsInv'
  <1>1. PICK r \in reports[w] :
          IF ~handled(r)
            THEN UNCHANGED <<events, interest, pendingEventCnt, panic>>
            ELSE /\ setInterest(r.ctx, events[r.ctx] \ realEvents(r))
                 /\ remove(r.ctx, realEvents(r) \cap events[r.ctx])
                 /\ panic' = ~(realEvents(r) \subseteq events[r.ctx])
    BY Zenon DEF Handle
  <1>2. r.ctx \in Contexts
    BY DEF FdEventsInv, FdTypeOK
  <1>3. reports' = [reports EXCEPT ![w] = {}] /\ UNCHANGED <<size, table, made, call>>
    BY Zenon DEF Handle, tableVars
  <1>4. reports' \in [Workers -> SUBSET [ctx : Contexts, events : SUBSET Events, err : BOOLEAN]]
    BY <1>3, Zenon DEF FdEventsInv, FdTypeOK
  <1>5. CASE ~handled(r)
    <2>1. FdTypeOK'
      BY <1>1, <1>3, <1>4, <1>5, Zenon DEF FdEventsInv, FdTypeOK
    <2>2. TableInv' /\ KernelInv' /\ InterestExact' /\ IsFiniteSet(Registered)' /\ CountExact' /\ CallsInv'
      BY <1>1, <1>3, <1>5, SMTT(30) DEF FdEventsInv, TableInv, KernelInv, InterestExact, Added, CountExact, Registered, CallsInv
    <2> QED
      BY <2>1, <2>2, Zenon DEF FdEventsInv
  <1>6. CASE handled(r)
    <2> DEFINE c == r.ctx
               evs == realEvents(r) \cap events[c]
    <2>1. /\ setInterest(c, events[c] \ evs) /\ remove(c, evs) /\ panic' \in BOOLEAN
      <3>1. events[c] \ evs = events[c] \ realEvents(r)
        BY Zenon
      <3> QED
        BY <1>1, <1>6, <3>1, Zenon
    <2>2. evs \in SUBSET events[c] /\ evs # {} /\ Added(c[1])
      BY <1>6, Zenon DEF handled
    <2> HIDE DEF evs
    <2>3. /\ KernelInv' /\ InterestExact' /\ IsFiniteSet(Registered') /\ CountExact' /\ pendingEventCnt' \in Int
          /\ interest' \in [Fds -> [ctx : Contexts \cup {NoCall.ctx}, events : SUBSET Events]]
          /\ events' \in [Contexts -> SUBSET Events]
          /\ \A d \in Contexts : events'[d] \subseteq events[d]
      BY <1>2, <2>1, <2>2, Taken, Zenon
    <2>4. CallsInv'
      BY <1>3, <2>3, Zenon DEF FdEventsInv, CallsInv
    <2>5. FdTypeOK' /\ TableInv'
      BY <1>3, <1>4, <2>1, <2>3, Zenon DEF FdEventsInv, FdTypeOK, TableInv
    <2> QED
      BY <2>3, <2>4, <2>5, Zenon DEF FdEventsInv
  <1> QED
    BY <1>5, <1>6, Zenon

LEMMA FdEventsStep == FdEventsInv /\ [FdNext]_eventVars => FdEventsInv'
  <1> SUFFICES ASSUME FdEventsInv, [FdNext]_eventVars PROVE FdEventsInv'
    BY Zenon
  <1>1. ASSUME NEW t \in Callers, Resize(t) \/ AddEvent(t) \/ RemoveEvent(t) PROVE FdEventsInv'
    BY <1>1, ResizeFd, AddEventFd, RemoveEventFd, Zenon
  <1>2. ASSUME NEW t \in Callers, NEW f \in Fds, NEW e \in Events, Begin(t, "add", f, {e}) \/ Begin(t, "remove", f, {e})
        PROVE  FdEventsInv'
    <2>1. {e} \in SUBSET Events /\ "add" \in {"add", "remove"} /\ "remove" \in {"add", "remove"}
      BY Zenon
    <2> QED
      BY <1>2, <2>1, BeginFd, Zenon
  <1>3. ASSUME NEW t \in Callers, NEW f \in Fds, Begin(t, "remove", f, Events) PROVE FdEventsInv'
    <2>1. Events \in SUBSET Events /\ "remove" \in {"add", "remove"} /\ "remove" # "add"
      BY Zenon
    <2> QED
      BY <1>3, <2>1, BeginFd, Zenon
  <1>4. ASSUME NEW w \in Workers, Handle(w) PROVE FdEventsInv'
    BY <1>4, HandleFd, Zenon
  <1>5. ASSUME NEW w \in Workers, NEW f \in Fds, NEW evs \in SUBSET Events, NEW err \in BOOLEAN, EpollWait(w, f, evs, err)
        PROVE  FdEventsInv'
    BY <1>5, EpollWaitFd, Zenon
  <1>6. CASE UNCHANGED eventVars
    BY <1>6, SMTT(30) DEF eventVars, tableVars, FdEventsInv, FdTypeOK, TableInv, KernelInv, InterestExact, Added, CountExact, Registered, CallsInv
  <1> QED
    BY <1>1, <1>2, <1>3, <1>4, <1>5, <1>6, Zenon DEF FdNext

\* The invariant that the theorems on the registered events are read off.
THEOREM FdEventsInvariance == FdSpec => []FdEventsInv
  BY FdEventsInitially, FdEventsStep, PTL DEF FdSpec

\* pendingEventCnt_ is the number of events registered in the contexts:
\* idle() and stopping() may rely on it.
THEOREM FdCountExact == FdSpec => []CountExact
  <1>1. FdEventsInv => CountExact
    BY Zenon DEF FdEventsInv
  <1> QED
    BY FdEventsInvariance, <1>1, PTL

\* What the kernel is asked to report for an fd is what its context has,
\* whatever addEvent, removeEvent and reports interleave.
THEOREM FdInterestExact == FdSpec => []InterestExact
  <1>1. FdEventsInv => InterestExact
    BY Zenon DEF FdEventsInv
  <1> QED
    BY FdEventsInvariance, <1>1, PTL

-----------------------------------------------------------------------------
(* TimerWheel: addTimer, cancel and listExpiredCb.                         *)

\* The fields of a timer, and of the call that holds the lock.
Fields == [next : Nat, ms : 0..MaxTime, recurring : BOOLEAN, cancelled : BOOLEAN, cb : BOOLEAN]
Passes == [slot : Int, todo : SUBSET Timers, seen : Timers \cup {None}, now : 0..MaxTime, next : Int]

WheelTypes ==
  /\ clock \in 0..MaxTime
  /\ timer \in [Timers -> Fields]
  /\ fired \in [Timers -> 0..MaxFired]
  /\ canceller \in [Timers -> {"none", "lock", "done"}]
  /\ pass \in Passes

\* What fires a timer is its callback: a timer not created has none, one that
\* is not recurring loses it when it fires, and cancel() takes it away.
CallbackInv ==
  \A t \in Timers :
    /\ timer[t].next = Never => ~timer[t].cb /\ fired[t] = 0 /\ canceller[t] = "none"
    /\ ~timer[t].recurring /\ timer[t].cb => fired[t] = 0
    /\ canceller[t] = "done" => ~timer[t].cb

WheelInv == WheelTypes /\ CallbackInv /\ FiresOnce

LEMMA WheelInit == TimerInit => WheelInv
  <1> SUFFICES ASSUME TimerInit PROVE WheelInv
    BY Zenon
  <1>1. Never \in Nat /\ 0 \in 0..MaxTime
    BY TimerAssumption DEF Never
  <1>2. WheelTypes
    BY <1>1, SMTT(30) DEF TimerInit, WheelTypes, Fields, Passes, NoPass, MaxFired
  <1>3. CallbackInv /\ FiresOnce
    BY DEF TimerInit, CallbackInv, FiresOnce
  <1> QED
    BY <1>2, <1>3, Zenon DEF WheelInv

LEMMA NeverBeyond == Never \in Nat /\ Never > 2 * MaxTime
  BY TimerAssumption, SMTT(30) DEF Never

LEMMA NoPassTyped == NoPass \in Passes
  BY NeverBeyond, TimerAssumption, SMTT(30) DEF NoPass, Passes

\* A pass goes on to a slot, and a timer has one field changed.
LEMMA PassMoves ==
  ASSUME NEW p \in Passes, NEW s \in Int, NEW S \in SUBSET Timers
  PROVE  /\ [p EXCEPT !.slot = s, !.todo = S] \in Passes
         /\ \A n \in 0..MaxTime : [p EXCEPT !.slot = s, !.todo = S, !.now = n] \in Passes
         /\ [p EXCEPT !.seen = None] \in Passes
         /\ [p EXCEPT !.seen = None, !.next = s] \in Passes
         /\ \A u \in Timers \cup {None} : [p EXCEPT !.todo = S, !.seen = u] \in Passes
  BY Zenon DEF Passes

LEMMA FieldsChange ==
  ASSUME NEW r \in Fields, NEW n \in Nat
  PROVE  /\ [r EXCEPT !.cb = FALSE] \in Fields
         /\ [r EXCEPT !.cancelled = TRUE] \in Fields
         /\ [r EXCEPT !.cb = FALSE, !.cancelled = TRUE] \in Fields
         /\ [r EXCEPT !.next = n, !.cancelled = FALSE] \in Fields
  BY Zenon DEF Fields

LEMMA SlotTimers == \A s : InSlot(s) \subseteq Timers
  BY Zenon DEF InSlot

LEMMA TickWheel ==
  ASSUME WheelInv, Tick
  PROVE  WheelInv'
  <1>1. WheelTypes'
    BY TimerAssumption DEF WheelInv, WheelTypes, Fields, MaxFired, Tick
  <1>2. CallbackInv'
    BY TimerAssumption, Zenon DEF WheelInv, WheelTypes, Fields, MaxFired, CallbackInv, Tick
  <1>3. FiresOnce'
    BY TimerAssumption, Zenon DEF WheelInv, WheelTypes, Fields, MaxFired, CallbackInv, FiresOnce, Tick
  <1> QED
    BY <1>1, <1>2, <1>3, Zenon DEF WheelInv

LEMMA BeginWheel ==
  ASSUME WheelInv, listExpiredCb
  PROVE  WheelInv'
  <1>1. WheelTypes'
    <2>1. pass' = [NoPass EXCEPT !.slot = 0, !.todo = InSlot(0), !.now = clock]
      BY Zenon DEF listExpiredCb
    <2>2. pass' \in Passes
      <3>1. InSlot(0) \in SUBSET Timers /\ clock \in 0..MaxTime /\ 0 \in Int
        BY SlotTimers DEF WheelInv, WheelTypes
      <3>2. [NoPass EXCEPT !.slot = 0, !.todo = InSlot(0), !.now = clock] \in Passes
        BY <3>1, NoPassTyped, PassMoves, Zenon
      <3> QED
        BY <2>1, <3>2, Zenon
    <2> QED
      BY <2>2, Zenon DEF WheelInv, WheelTypes, listExpiredCb
  <1>2. CallbackInv'
    BY TimerAssumption, Zenon DEF WheelInv, WheelTypes, Fields, MaxFired, CallbackInv, listExpiredCb, InSlot, NoPass
  <1>3. FiresOnce'
    BY TimerAssumption, Zenon DEF WheelInv, WheelTypes, Fields, MaxFired, CallbackInv, FiresOnce, listExpiredCb, InSlot, NoPass
  <1> QED
    BY <1>1, <1>2, <1>3, Zenon DEF WheelInv

LEMMA NextSlotWheel ==
  ASSUME WheelInv, NextSlot
  PROVE  WheelInv'
  <1>1. WheelTypes'
    <2>1. PICK S \in SUBSET Timers : pass' = [pass EXCEPT !.slot = pass.slot + 1, !.todo = S]
      <3>1. InSlot(pass.slot + 1) \in SUBSET Timers /\ {} \in SUBSET Timers
        BY SlotTimers, Zenon
      <3> QED
        BY <3>1, Zenon DEF NextSlot
    <2>2. pass' \in Passes
      <3>1. pass \in Passes /\ pass.slot + 1 \in Int
        BY DEF WheelInv, WheelTypes, Passes
      <3> QED
        BY <2>1, <3>1, PassMoves, Zenon
    <2> QED
      BY <2>2, Zenon DEF WheelInv, WheelTypes, NextSlot
  <1>2. CallbackInv'
    BY TimerAssumption, Zenon DEF WheelInv, WheelTypes, Fields, MaxFired, CallbackInv, NextSlot, InSlot
  <1>3. FiresOnce'
    BY TimerAssumption, Zenon DEF WheelInv, WheelTypes, Fields, MaxFired, CallbackInv, FiresOnce, NextSlot, InSlot
  <1> QED
    BY <1>1, <1>2, <1>3, Zenon DEF WheelInv

LEMMA FinishWheel ==
  ASSUME WheelInv, Finish
  PROVE  WheelInv'
  <1>1. WheelTypes'
    BY NoPassTyped, Zenon DEF WheelInv, WheelTypes, Finish
  <1>2. CallbackInv'
    BY TimerAssumption, Zenon DEF WheelInv, WheelTypes, Fields, MaxFired, CallbackInv, Finish, NoPass
  <1>3. FiresOnce'
    BY TimerAssumption, Zenon DEF WheelInv, WheelTypes, Fields, MaxFired, CallbackInv, FiresOnce, Finish, NoPass
  <1> QED
    BY <1>1, <1>2, <1>3, Zenon DEF WheelInv

LEMMA LookWheel ==
  ASSUME NEW t \in Timers, WheelInv, Look(t)
  PROVE  WheelInv'
  <1>1. WheelTypes'
    <2>1. PICK u \in Timers \cup {None} : pass' = [pass EXCEPT !.todo = pass.todo \ {t}, !.seen = u]
      BY Zenon DEF Look, WheelInv, WheelTypes, Passes
    <2>2. pass \in Passes /\ pass.todo \ {t} \in SUBSET Timers /\ 0 \in Int
      BY SMTT(30) DEF WheelInv, WheelTypes, Passes
    <2>3. pass' \in Passes
      BY <2>1, <2>2, PassMoves, Zenon
    <2> QED
      BY <2>3, Zenon DEF WheelInv, WheelTypes, Look
  <1>2. CallbackInv'
    BY TimerAssumption, Zenon DEF WheelInv, WheelTypes, Fields, MaxFired, CallbackInv, Look
  <1>3. FiresOnce'
    BY TimerAssumption, Zenon DEF WheelInv, WheelTypes, Fields, MaxFired, CallbackInv, FiresOnce, Look
  <1> QED
    BY <1>1, <1>2, <1>3, Zenon DEF WheelInv

LEMMA ExpireOnceWheel ==
  ASSUME NEW t \in Timers, WheelInv, ExpireOnce(t)
  PROVE  WheelInv'
  <1>0. /\ pass' \in Passes
        /\ fired' \in [Timers -> 0..MaxFired]
        /\ fired'[t] = IF timer[t].cb THEN IF fired[t] + 1 < 2 THEN fired[t] + 1 ELSE 2 ELSE fired[t]
        /\ \A u \in Timers : u # t => fired'[u] = fired[u]
    <2>1. pass' \in Passes
      <3>1. pass \in Passes /\ {} \in SUBSET Timers /\ 0 \in Int
        BY DEF WheelInv, WheelTypes
      <3> QED
        BY <3>1, PassMoves, Zenon DEF ExpireOnce
    <2>2. fired' = [fired EXCEPT ![t] = IF timer[t].cb THEN IF fired[t] + 1 < 2 THEN fired[t] + 1 ELSE 2 ELSE fired[t]]
      BY Zenon DEF ExpireOnce, collect, Least, MaxFired, WheelInv, WheelTypes
    <2>3. fired \in [Timers -> 0..MaxFired]
      BY Zenon DEF WheelInv, WheelTypes
    <2> QED
      BY <2>1, <2>2, <2>3 DEF MaxFired
  <1>a. timer' = [timer EXCEPT ![t] = [timer[t] EXCEPT !.cb = FALSE, !.cancelled = TRUE]]
    BY Zenon DEF WheelInv, WheelTypes, ExpireOnce, Fields
  <1>b. timer' \in [Timers -> Fields]
    BY <1>a, FieldsChange, Zenon DEF WheelInv, WheelTypes
  <1>1. WheelTypes'
    BY <1>0, <1>b, Zenon DEF WheelInv, WheelTypes, ExpireOnce
  <1>2. CallbackInv'
    BY TimerAssumption DEF WheelInv, WheelTypes, Fields, MaxFired, CallbackInv, ExpireOnce, collect, Least
  <1>3. FiresOnce'
    BY TimerAssumption DEF WheelInv, WheelTypes, Fields, MaxFired, CallbackInv, FiresOnce, ExpireOnce, collect, Least
  <1> QED
    BY <1>1, <1>2, <1>3, Zenon DEF WheelInv

LEMMA ExpireRecurringWheel ==
  ASSUME NEW t \in Timers, WheelInv, ExpireRecurring(t)
  PROVE  WheelInv'
  <1>0. /\ pass' \in Passes
        /\ fired' \in [Timers -> 0..MaxFired]
        /\ fired'[t] = IF timer[t].cb THEN IF fired[t] + 1 < 2 THEN fired[t] + 1 ELSE 2 ELSE fired[t]
        /\ \A u \in Timers : u # t => fired'[u] = fired[u]
    <2>1. pass' \in Passes
      <3>1. pass \in Passes /\ {} \in SUBSET Timers /\ 0 \in Int
        BY DEF WheelInv, WheelTypes
      <3> QED
        BY <3>1, PassMoves, Zenon DEF ExpireRecurring
    <2>2. fired' = [fired EXCEPT ![t] = IF timer[t].cb THEN IF fired[t] + 1 < 2 THEN fired[t] + 1 ELSE 2 ELSE fired[t]]
      BY Zenon DEF ExpireRecurring, collect, Least, MaxFired, WheelInv, WheelTypes
    <2>3. fired \in [Timers -> 0..MaxFired]
      BY Zenon DEF WheelInv, WheelTypes
    <2> QED
      BY <2>1, <2>2, <2>3 DEF MaxFired
  <1>a. timer' = [timer EXCEPT ![t] = [timer[t] EXCEPT !.next = pass.now + timer[t].ms, !.cancelled = FALSE]]
    BY Zenon DEF WheelInv, WheelTypes, ExpireRecurring, Fields
  <1>b. pass.now + timer[t].ms \in Nat /\ pass.now + timer[t].ms # Never
    BY NeverBeyond, TimerAssumption DEF WheelInv, WheelTypes, Passes, Fields
  <1>c. timer' \in [Timers -> Fields]
    BY <1>a, <1>b, FieldsChange, Zenon DEF WheelInv, WheelTypes
  <1>d. /\ \A u \in Timers : u # t => timer'[u] = timer[u]
        /\ timer'[t].next # Never /\ timer'[t].recurring = timer[t].recurring /\ timer'[t].cb = timer[t].cb
    BY <1>a, <1>b, Zenon DEF WheelInv, WheelTypes, Fields
  <1>1. WheelTypes'
    BY <1>0, <1>c, Zenon DEF WheelInv, WheelTypes, ExpireRecurring
  <1>2. CallbackInv'
    <2>1. timer[t].recurring /\ UNCHANGED canceller
      BY Zenon DEF ExpireRecurring
    <2>2. ASSUME NEW u \in Timers
          PROVE  /\ timer'[u].next = Never => ~timer'[u].cb /\ fired'[u] = 0 /\ canceller'[u] = "none"
                 /\ ~timer'[u].recurring /\ timer'[u].cb => fired'[u] = 0
                 /\ canceller'[u] = "done" => ~timer'[u].cb
      <3>1. CASE u # t
        BY <1>0, <1>d, <2>1, <3>1, Zenon DEF WheelInv, CallbackInv
      <3>2. CASE u = t
        BY <1>d, <2>1, <3>2, Zenon DEF WheelInv, CallbackInv
      <3> QED
        BY <3>1, <3>2, Zenon
    <2> QED
      BY <2>2, Zenon DEF CallbackInv
  <1>3. FiresOnce'
    BY TimerAssumption DEF WheelInv, WheelTypes, Fields, MaxFired, CallbackInv, FiresOnce, ExpireRecurring, collect, Least, Never
  <1> QED
    BY <1>1, <1>2, <1>3, Zenon DEF WheelInv

LEMMA RemainWheel ==
  ASSUME NEW t \in Timers, WheelInv, Remain(t)
  PROVE  WheelInv'
  <1>1. WheelTypes'
    <2>1. pass' = [pass EXCEPT !.seen = None, !.next = Least(pass.next, timer[t].next)]
      BY Zenon DEF WheelInv, WheelTypes, Passes, Remain
    <2>2. Least(pass.next, timer[t].next) \in Int
      BY DEF WheelInv, WheelTypes, Passes, Fields, Least
    <2>3. pass' \in Passes
      BY <2>1, <2>2, PassMoves, Zenon DEF WheelInv, WheelTypes
    <2> QED
      BY <2>3, Zenon DEF WheelInv, WheelTypes, Remain
  <1>2. CallbackInv'
    BY TimerAssumption, Zenon DEF WheelInv, WheelTypes, Fields, MaxFired, CallbackInv, Remain, Least
  <1>3. FiresOnce'
    BY TimerAssumption, Zenon DEF WheelInv, WheelTypes, Fields, MaxFired, CallbackInv, FiresOnce, Remain, Least
  <1> QED
    BY <1>1, <1>2, <1>3, Zenon DEF WheelInv

LEMMA CancelFlagWheel ==
  ASSUME NEW t \in Timers, WheelInv, CancelFlag(t)
  PROVE  WheelInv'
  <1>0. timer' = [timer EXCEPT ![t] = [timer[t] EXCEPT !.cancelled = TRUE]]
    BY Zenon DEF WheelInv, WheelTypes, Fields, CancelFlag
  <1>a. timer' \in [Timers -> Fields]
    BY <1>0, FieldsChange, Zenon DEF WheelInv, WheelTypes
  <1>1. WheelTypes'
    BY <1>a, Zenon DEF WheelInv, WheelTypes, CancelFlag
  <1>2. CallbackInv'
    BY TimerAssumption DEF WheelInv, WheelTypes, Fields, MaxFired, CallbackInv, CancelFlag
  <1>3. FiresOnce'
    BY TimerAssumption, Zenon DEF WheelInv, WheelTypes, Fields, MaxFired, CallbackInv, FiresOnce, CancelFlag
  <1> QED
    BY <1>1, <1>2, <1>3, Zenon DEF WheelInv

LEMMA CancelLockWheel ==
  ASSUME NEW t \in Timers, WheelInv, CancelLock(t)
  PROVE  WheelInv'
  <1>0. timer' = [timer EXCEPT ![t] = [timer[t] EXCEPT !.cb = FALSE]]
    BY Zenon DEF WheelInv, WheelTypes, Fields, CancelLock
  <1>a. timer' \in [Timers -> Fields]
    BY <1>0, FieldsChange, Zenon DEF WheelInv, WheelTypes
  <1>1. WheelTypes'
    BY <1>a, Zenon DEF WheelInv, WheelTypes, CancelLock
  <1>2. CallbackInv'
    BY TimerAssumption DEF WheelInv, WheelTypes, Fields, MaxFired, CallbackInv, CancelLock
  <1>3. FiresOnce'
    BY TimerAssumption, Zenon DEF WheelInv, WheelTypes, Fields, MaxFired, CallbackInv, FiresOnce, CancelLock
  <1> QED
    BY <1>1, <1>2, <1>3, Zenon DEF WheelInv

LEMMA AddTimerWheel ==
  ASSUME NEW t \in Timers, NEW ms \in Delays, NEW recurring \in Recurring, WheelInv, addTimer(t, ms, recurring)
  PROVE  WheelInv'
  <1>1. WheelTypes'
    BY TimerAssumption, SMTT(30) DEF WheelInv, WheelTypes, Fields, MaxFired, addTimer, Never
  <1>2. CallbackInv'
    BY TimerAssumption, SMTT(30) DEF WheelInv, WheelTypes, Fields, MaxFired, CallbackInv, addTimer, Never
  <1>3. FiresOnce'
    BY TimerAssumption DEF WheelInv, WheelTypes, Fields, MaxFired, CallbackInv, FiresOnce, addTimer, Never
  <1> QED
    BY <1>1, <1>2, <1>3, Zenon DEF WheelInv

LEMMA WheelStep == WheelInv /\ [TimerNext]_wheelVars => WheelInv'
  <1> SUFFICES ASSUME WheelInv, [TimerNext]_wheelVars PROVE WheelInv'
    BY Zenon
  <1>1. CASE Tick \/ listExpiredCb \/ NextSlot \/ Finish
    BY <1>1, TickWheel, BeginWheel, NextSlotWheel, FinishWheel, Zenon
  <1>2. ASSUME NEW t \in Timers, Look(t) \/ ExpireOnce(t) \/ ExpireRecurring(t) \/ Remain(t) PROVE WheelInv'
    BY <1>2, LookWheel, ExpireOnceWheel, ExpireRecurringWheel, RemainWheel, Zenon
  <1>3. ASSUME NEW t \in Timers, CancelFlag(t) \/ CancelLock(t) PROVE WheelInv'
    BY <1>3, CancelFlagWheel, CancelLockWheel, Zenon
  <1>4. ASSUME NEW t \in Timers, NEW ms \in Delays, NEW recurring \in Recurring, addTimer(t, ms, recurring) PROVE WheelInv'
    BY <1>4, AddTimerWheel, Zenon
  <1>5. CASE UNCHANGED wheelVars
    BY <1>5, Zenon DEF wheelVars, WheelInv, WheelTypes, CallbackInv, FiresOnce
  <1> QED
    BY <1>1, <1>2, <1>3, <1>4, <1>5, Zenon DEF TimerNext, Advance

\* The invariant that the theorems on the timers are read off.
THEOREM WheelInvariance == TimerSpec => []WheelInv
  BY WheelInit, WheelStep, PTL DEF TimerSpec

\* A timer that is not recurring is collected by at most one call of
\* listExpiredCb.
THEOREM TimerFiresOnce == TimerSpec => []FiresOnce
  <1>1. WheelInv => FiresOnce
    BY Zenon DEF WheelInv
  <1> QED
    BY WheelInvariance, <1>1, PTL

\* When cancel() has returned true, no call of listExpiredCb collects the
\* timer's callback any more.
THEOREM TimerCancelledSilent == TimerSpec => CancelledSilent
  <1>1. ASSUME WheelInv, TimerNext, NEW t \in Timers, canceller[t] = "done"
        PROVE  fired'[t] = fired[t]
    <2>1. ~timer[t].cb /\ fired \in [Timers -> 0..MaxFired]
      BY <1>1, Zenon DEF WheelInv, WheelTypes, CallbackInv
    <2>2. fired' = fired \/ \E u \in Timers : collect(u)
      BY <1>1, Zenon DEF TimerNext, Advance, Tick, listExpiredCb, NextSlot, Finish, Look, ExpireOnce, ExpireRecurring, Remain,
        CancelFlag, CancelLock, addTimer
    <2> QED
      BY <2>1, <2>2, Zenon DEF collect
  <1>2. WheelInv /\ [TimerNext]_wheelVars => [\A t \in Timers : canceller[t] = "done" => fired'[t] = fired[t]]_wheelVars
    BY <1>1, Zenon
  <1> QED
    BY WheelInvariance, <1>2, PTL DEF TimerSpec, CancelledSilent
=============================================================================

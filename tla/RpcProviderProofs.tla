------------------------- MODULE RpcProviderProofs -------------------------
(***************************************************************************)
(* The handler of a connection is woken exactly once for each plain call,  *)
(* an answer is sent only for a call whose done has been run in time, the  *)
(* counts Stop() waits for are exact, and when it returns true no call is  *)
(* left.  For any number of clients, requests and threads.                 *)
(***************************************************************************)
EXTENDS RpcProvider, FiniteSetTheorems, TLAPS

Asking == {"args", "admit"}
Admitted == {"submit", "refuse"}
Waiting == {"arm", "yield"}
Woken == {"resumed", "reply", "write"}
Outside == {"none", "queued", "loop", "end", "count", "over"}

Phases == {"none", "admitted", "queued", "called", "ran", "over", "answer", "write", "written"}

CallRecords ==
  [kind : {"plain", "mux"}, phase : Phases,
   outcome : {0, 1, 2}, timer : {"off", "armed", "due"}, reply : {"none", "ok", "part", "error"}]

ProvTyped ==
  /\ task \in [Clients -> Outside \cup Asking \cup Admitted \cup Waiting \cup Woken]
  /\ n \in [Clients -> 0 .. MaxRequests]
  /\ call \in [Calls -> CallRecords]
  /\ wakes \in [Clients -> Nat]
  /\ queue \in Seq(Calls) /\ thread \in [Threads -> Calls \cup {None}]
  /\ pending \subseteq Calls /\ todo \subseteq Calls

\* How far call k, whose record is r, is when the fiber of its connection has
\* read m requests and is at p.  The fiber's place tells it of the latest call.
\* A plain call that nobody has finished is the latest of its connection, and
\* the fiber waits for it; only a done that has run gives outcome 1.
Fine(k, r, m, p, listed) ==
  /\ k[2] = m =>
       /\ p \in Asking => r.phase = "none"
       /\ p \in Admitted => r.phase = "admitted"
       /\ p \in Waiting \cup Woken => r.kind = "plain" /\ r.phase # "none"
       /\ p \in Woken => r.outcome # 0
       /\ p \in {"reply", "write"} => r.outcome = 1
  /\ r.phase = "none" => r.outcome = 0 /\ r.timer = "off" /\ r.reply = "none" /\ k \notin listed
  /\ r.phase = "admitted" => k[2] = m /\ p \in Admitted
  /\ r.kind = "plain" =>
       /\ r.phase # "none" /\ r.outcome = 0 => k[2] = m /\ p \in Admitted \cup Waiting
       /\ r.outcome = 1 => r.phase = "over"
       /\ r.phase \notin {"answer", "write", "written"}
  /\ r.kind = "mux" =>
       /\ r.phase # "ran" /\ r.timer = "off" /\ k \notin listed
       /\ r.phase \in {"admitted", "queued", "called"} => r.outcome = 0
       /\ r.reply # "none" => r.phase \in {"written", "over"}

Follows ==
  /\ \A c \in Clients : task[c] \notin Outside => n[c] >= 1
  /\ \A k \in Calls : k[2] > n[k[1]] => call[k].phase = "none"
  /\ \A k \in Calls : Fine(k, call[k], n[k[1]], task[k[1]], pending \cup todo)

\* The executor has a call once, and begins it once.
Queued ==
  /\ \A i \in DOMAIN queue : call[queue[i]].phase = "queued" /\ \A j \in DOMAIN queue : queue[i] = queue[j] => i = j
  /\ \A t \in Threads : thread[t] # None => call[thread[t]].phase \notin {"none", "admitted", "queued"}

CoreInv == ProvTyped /\ Follows /\ Queued /\ HandlerWokenOnce
----------------------------------------------------------------------------
LEMMA CallParts ==
  ASSUME NEW k \in Calls
  PROVE  k[1] \in Clients /\ k[2] \in 1 .. MaxRequests /\ k = <<k[1], k[2]>>
BY DEF Calls

\* The latest call of a connection.
LEMMA LatestCall ==
  ASSUME ProvTyped, Follows, NEW c \in Clients, task[c] \notin Outside
  PROVE  Cur(c) \in Calls /\ Cur(c)[1] = c /\ Cur(c)[2] = n[c]
BY ProviderAssumption DEF ProvTyped, Follows, Cur, Calls

LEMMA CoreInit ==
  ASSUME ProviderInit
  PROVE  CoreInv
<1> USE DEF ProviderInit, ServerInit
<1>1. ProvTyped
  <2>1. NoCall \in CallRecords
    BY Zenon DEF NoCall, CallRecords, Phases
  <2>2. 0 \in 0 .. MaxRequests /\ <<>> \in Seq(Calls)
    BY ProviderAssumption
  <2> QED
    BY <2>1, <2>2, Zenon DEF ProvTyped, Outside
<1>2. Follows
  BY CallParts DEF Follows, Fine, NoCall, Outside, Asking, Admitted, Waiting, Woken
<1>4. Queued
  BY DEF Queued
<1>5. HandlerWokenOnce
  BY Zenon DEF HandlerWokenOnce
<1> QED
  BY <1>1, <1>2, <1>4, <1>5, Zenon DEF CoreInv

----------------------------------------------------------------------------
LEMMA FollowsAt ==
  ASSUME Follows, NEW k \in Calls
  PROVE  /\ k[2] > n[k[1]] => call[k].phase = "none"
         /\ Fine(k, call[k], n[k[1]], task[k[1]], pending \cup todo)
BY Zenon DEF Follows

LEMMA SameAt ==
  ASSUME ProvTyped, NEW k \in Calls
  PROVE  /\ task = [task EXCEPT ![k[1]] = task[k[1]]] /\ call = [call EXCEPT ![k] = call[k]]
         /\ wakes = [wakes EXCEPT ![k[1]] = wakes[k[1]]] /\ wakes[k[1]] \in Nat
         /\ call[k] \in CallRecords /\ n[k[1]] \in Nat /\ k[2] \in Nat
BY CallParts DEF ProvTyped

LEMMA PhaseSet ==
  ASSUME NEW q \in CallRecords, NEW phase \in Phases
  PROVE  \E r \in CallRecords :
           /\ r = [q EXCEPT !.phase = phase] /\ r.phase = phase /\ r.kind = q.kind
           /\ r.outcome = q.outcome /\ r.timer = q.timer /\ r.reply = q.reply
<1>1. PICK r : r = [q EXCEPT !.phase = phase]
  BY Zenon
<1>2. /\ r \in CallRecords /\ r.phase = phase /\ r.kind = q.kind
      /\ r.outcome = q.outcome /\ r.timer = q.timer /\ r.reply = q.reply
  BY <1>1, Zenon DEF CallRecords
<1> QED
  BY <1>1, <1>2, Zenon

LEMMA TimerSet ==
  ASSUME NEW q \in CallRecords, NEW timer \in {"off", "armed", "due"}
  PROVE  \E r \in CallRecords :
           /\ r = [q EXCEPT !.timer = timer] /\ r.timer = timer /\ r.kind = q.kind
           /\ r.outcome = q.outcome /\ r.phase = q.phase /\ r.reply = q.reply
<1>1. PICK r : r = [q EXCEPT !.timer = timer]
  BY Zenon
<1>2. /\ r \in CallRecords /\ r.timer = timer /\ r.kind = q.kind
      /\ r.outcome = q.outcome /\ r.phase = q.phase /\ r.reply = q.reply
  BY <1>1, Zenon DEF CallRecords
<1> QED
  BY <1>1, <1>2, Zenon

\* A step that changes one call, to r, and brings the fiber of its connection to
\* p and the number of its wake-ups to w.
Changes(k, r, p, w) ==
  /\ r \in CallRecords /\ w \in Nat
  /\ p \in Outside \cup Asking \cup Admitted \cup Waiting \cup Woken
  /\ n' = n /\ k[2] <= n[k[1]]
  /\ call' = [call EXCEPT ![k] = r]
  /\ task' = [task EXCEPT ![k[1]] = p] /\ (p = task[k[1]] \/ k[2] = n[k[1]])
  /\ wakes' = [wakes EXCEPT ![k[1]] = w]
  /\ k[2] = n[k[1]] => w = IF p \in Admitted \cup Waiting /\ r.outcome # 0 THEN 1 ELSE 0
  /\ k[2] # n[k[1]] => w = wakes[k[1]]
  /\ pending' \cup todo' \subseteq pending \cup todo \cup {k} /\ pending' \subseteq Calls /\ todo' \subseteq Calls

\* The executor's side of such a step.
Executes == queue' \in Seq(Calls) /\ thread' \in [Threads -> Calls \cup {None}] /\ Queued'

LEMMA OneCall ==
  ASSUME CoreInv, NEW k \in Calls, NEW r, NEW p, NEW w, Changes(k, r, p, w),
         Fine(k, r, n[k[1]], p, pending' \cup todo'), Executes
  PROVE  CoreInv'
<1> USE DEF CoreInv, Changes, Executes
<1>1. k[1] \in Clients /\ k[2] \in 1 .. MaxRequests /\ k = <<k[1], k[2]>>
  BY CallParts, Zenon
<1>2. /\ task' \in [Clients -> Outside \cup Asking \cup Admitted \cup Waiting \cup Woken]
      /\ call' \in [Calls -> CallRecords] /\ wakes' \in [Clients -> Nat]
  BY <1>1, Zenon DEF ProvTyped
<1>3. /\ call'[k] = r /\ task'[k[1]] = p /\ wakes'[k[1]] = w
      /\ \A j \in Calls \ {k} : call'[j] = call[j]
      /\ \A c \in Clients \ {k[1]} : task'[c] = task[c] /\ wakes'[c] = wakes[c]
  BY <1>1, Zenon DEF ProvTyped
<1>4. Follows'
  <2>1. ASSUME NEW c \in Clients, task'[c] \notin Outside PROVE n'[c] >= 1
    BY <1>1, <1>3, <2>1 DEF Follows, ProvTyped
  <2>2. ASSUME NEW j \in Calls, j # k
        PROVE  /\ j[2] > n'[j[1]] => call'[j].phase = "none"
               /\ Fine(j, call'[j], n'[j[1]], task'[j[1]], pending' \cup todo')
    <3>1. j[1] \in Clients /\ j = <<j[1], j[2]>>
      BY CallParts, Zenon
    <3>2. call'[j] = call[j] /\ (j \in pending' \cup todo' => j \in pending \cup todo)
      BY <1>3, <2>2, Zenon
    <3>0. (j[2] > n[j[1]] => call[j].phase = "none") /\ Fine(j, call[j], n[j[1]], task[j[1]], pending \cup todo)
      BY FollowsAt, Zenon
    <3>3. CASE task'[j[1]] = task[j[1]]
      BY <3>2, <3>3, <3>0, Zenon DEF Fine
    <3>4. CASE task'[j[1]] # task[j[1]]
      <4>1. j[1] = k[1] /\ k[2] = n[k[1]] /\ j[2] # n[j[1]]
        BY <1>1, <1>3, <3>1, <3>4, <2>2
      <4> QED
        BY <3>2, <3>0, <4>1, Zenon DEF Fine
    <3> QED
      BY <3>3, <3>4, Zenon
  <2>3. /\ k[2] > n'[k[1]] => call'[k].phase = "none"
        /\ Fine(k, call'[k], n'[k[1]], task'[k[1]], pending' \cup todo')
    BY <1>1, <1>3 DEF ProvTyped
  <2> QED
    BY <2>1, <2>2, <2>3, Zenon DEF Follows
<1>5. HandlerWokenOnce'
  <2>1. Admitted \cup Waiting = {"submit", "refuse", "arm", "yield"}
    BY Zenon DEF Admitted, Waiting
  <2>2. ASSUME NEW c \in Clients
        PROVE  wakes'[c] = IF task'[c] \in Admitted \cup Waiting /\ call'[<<c, n[c]>>].outcome # 0 THEN 1 ELSE 0
    <3>1. wakes[c] = IF task[c] \in Admitted \cup Waiting /\ call[<<c, n[c]>>].outcome # 0 THEN 1 ELSE 0
      BY <2>1, Zenon DEF HandlerWokenOnce, Cur
    <3>2. CASE c # k[1] /\ task[c] \in Admitted \cup Waiting
      <4>1. <<c, n[c]>> \in Calls /\ <<c, n[c]>> # k
        BY <1>1, <3>2, LatestCall, Zenon DEF Cur, Outside, Admitted, Waiting
      <4> QED
        BY <1>3, <3>1, <3>2, <4>1
    <3>3. CASE c # k[1] /\ task[c] \notin Admitted \cup Waiting
      BY <1>3, <3>1, <3>3, Zenon
    <3>4. CASE c = k[1] /\ k[2] = n[k[1]]
      BY <1>1, <1>3, <3>4
    <3>5. CASE c = k[1] /\ k[2] # n[k[1]]
      <4>1. task'[c] = task[c] /\ wakes'[c] = wakes[c]
        BY <1>3, <3>5, Zenon
      <4>2. CASE task[c] \in Admitted \cup Waiting
        <5>1. <<c, n[c]>> \in Calls /\ <<c, n[c]>> # k
          BY <1>1, <3>5, <4>2, LatestCall, Zenon DEF Cur, Outside, Admitted, Waiting
        <5> QED
          BY <1>3, <3>1, <4>1, <5>1
      <4> QED
        BY <3>1, <4>1, <4>2, Zenon
    <3> QED
      BY <3>2, <3>3, <3>4, <3>5, Zenon
  <2> QED
    BY <2>1, <2>2 DEF HandlerWokenOnce, Cur
<1>6. ProvTyped'
  BY <1>2, Zenon DEF ProvTyped
<1> QED
  BY <1>4, <1>5, <1>6, Zenon

\* A thread is done with its call, or none is; call k goes on without entering
\* the executor.
LEMMA QueueAfter ==
  ASSUME CoreInv, NEW k \in Calls, NEW r, call' = [call EXCEPT ![k] = r], queue' = queue,
         thread' \in [Threads -> Calls \cup {None}], \A t \in Threads : thread'[t] \in {thread[t], None},
         \/ r.phase = call[k].phase
         \/ call[k].phase = "none" /\ r.phase = "admitted"
         \/ call[k].phase # "queued" /\ r.phase \notin {"none", "admitted", "queued"}
  PROVE  Executes
<1> USE DEF CoreInv
<1>1. queue \in Seq(Calls) /\ thread \in [Threads -> Calls \cup {None}]
  BY Zenon DEF ProvTyped
<1>2. call'[k] = r /\ \A j \in Calls \ {k} : call'[j] = call[j]
  BY Zenon DEF ProvTyped
<1>3. \A i \in DOMAIN queue : queue[i] \in Calls
  BY <1>1
<1>4. ASSUME NEW i \in DOMAIN queue PROVE call'[queue[i]].phase = "queued"
  BY <1>2, <1>3, Zenon DEF Queued
<1>5. ASSUME NEW t \in Threads, thread'[t] # None
      PROVE  call'[thread'[t]].phase \notin {"none", "admitted", "queued"}
  <2>1. thread'[t] = thread[t] /\ thread[t] \in Calls /\ call[thread[t]].phase \notin {"none", "admitted", "queued"}
    BY <1>1, <1>5, Zenon DEF Queued
  <2> QED
    BY <1>2, <2>1, Zenon
<1> QED
  BY <1>1, <1>4, <1>5, Zenon DEF Queued, Executes

LEMMA SameQueue ==
  ASSUME CoreInv, NEW k \in Calls, NEW r, UNCHANGED executor, call' = [call EXCEPT ![k] = r],
         \/ r.phase = call[k].phase
         \/ call[k].phase = "none" /\ r.phase = "admitted"
         \/ call[k].phase # "queued" /\ r.phase \notin {"none", "admitted", "queued"}
  PROVE  Executes
<1>1. /\ queue' = queue /\ thread' \in [Threads -> Calls \cup {None}]
      /\ \A t \in Threads : thread'[t] \in {thread[t], None}
  BY Zenon DEF executor, CoreInv, ProvTyped
<1> QED
  BY <1>1, QueueAfter, Zenon

\* A step of which the calls, the fibers and the executor see nothing, except
\* that calls may leave the lists of Stop().
LEMMA CoreSame ==
  ASSUME CoreInv, UNCHANGED <<n, call, task, wakes, executor>>,
         pending' \cup todo' \subseteq pending \cup todo, pending' \subseteq Calls, todo' \subseteq Calls
  PROVE  CoreInv'
<1> USE DEF CoreInv, executor
<1>1. ProvTyped' /\ Queued'
  BY Zenon DEF ProvTyped, Queued
<1>2. HandlerWokenOnce'
  BY Zenon DEF HandlerWokenOnce, Cur
<1>3. ASSUME NEW k \in Calls PROVE Fine(k, call[k], n[k[1]], task[k[1]], pending' \cup todo')
  <2>1. Fine(k, call[k], n[k[1]], task[k[1]], pending \cup todo)
    BY FollowsAt, Zenon
  <2> QED
    BY <2>1, Zenon DEF Fine
<1>4. Follows'
  BY <1>3, Zenon DEF Follows
<1> QED
  BY <1>1, <1>2, <1>4, Zenon

\* The fiber of a connection, which has no call to wait for, goes on.
LEMMA LeavesCall ==
  ASSUME CoreInv, NEW c \in Clients, NEW p \in Outside, task[c] \notin Admitted \cup Waiting,
         task' = [task EXCEPT ![c] = p], UNCHANGED <<n, call, wakes, executor, pending, todo>>
  PROVE  CoreInv'
<1> USE DEF CoreInv, executor
<1>1. task'[c] = p /\ \A d \in Clients \ {c} : task'[d] = task[d]
  BY Zenon DEF ProvTyped
<1>2. ProvTyped' /\ Queued'
  BY Zenon DEF ProvTyped, Queued
<1>3. {"submit", "refuse", "arm", "yield"} = Admitted \cup Waiting /\ p \notin Admitted \cup Waiting \cup Asking \cup Woken
  BY Zenon DEF Admitted, Waiting, Outside, Asking, Woken
<1>4. HandlerWokenOnce'
  BY <1>1, <1>3, Zenon DEF HandlerWokenOnce, Cur
<1>5. ASSUME NEW k \in Calls PROVE Fine(k, call[k], n[k[1]], task'[k[1]], pending \cup todo)
  <2>1. Fine(k, call[k], n[k[1]], task[k[1]], pending \cup todo) /\ k[1] \in Clients
    BY FollowsAt, CallParts, Zenon
  <2>2. CASE k[1] # c
    BY <1>1, <2>1, <2>2, Zenon
  <2>3. CASE k[1] = c
    <3>1. p \notin Asking /\ p \notin Admitted /\ p \notin Waiting \cup Woken /\ p \notin {"reply", "write"}
      BY <1>3, Zenon DEF Woken
    <3>2. task'[k[1]] = p /\ task[k[1]] = task[c]
      BY <1>1, <2>3, Zenon
    <3> QED
      BY <2>1, <3>1, <3>2, Zenon DEF Fine
  <2> QED
    BY <2>2, <2>3, Zenon
<1>6. ASSUME NEW d \in Clients, task'[d] \notin Outside PROVE n[d] >= 1
  BY <1>1, <1>6, Zenon DEF Follows
<1>7. Follows'
  BY <1>5, <1>6, Zenon DEF Follows
<1> QED
  BY <1>2, <1>4, <1>7, Zenon

----------------------------------------------------------------------------
(* The steps of a connection's fiber.                                      *)

LEMMA ReadHeaderKeeps ==
  ASSUME CoreInv, NEW c \in Clients, ReadHeader(c)
  PROVE  CoreInv'
<1> USE DEF CoreInv
<1>1. /\ task[c] = "loop" /\ <<c, n[c] + 1>> \in Calls /\ n' = [n EXCEPT ![c] = n[c] + 1]
      /\ UNCHANGED <<call, wakes, executor, pending, todo>>
  BY Zenon DEF ReadHeader
<1>2. PICK p \in {"args", "end"} : task' = [task EXCEPT ![c] = p]
  BY Zenon DEF ReadHeader, goto, leave
<1>3. /\ task'[c] = p /\ n'[c] = n[c] + 1 /\ n[c] \in Nat /\ n[c] + 1 \in 0 .. MaxRequests
      /\ \A d \in Clients \ {c} : task'[d] = task[d] /\ n'[d] = n[d]
  BY <1>1, <1>2, ProviderAssumption DEF ProvTyped, Calls
<1>4. ProvTyped' /\ Queued'
  <2>1. task' \in [Clients -> Outside \cup Asking \cup Admitted \cup Waiting \cup Woken]
    BY <1>2, Zenon DEF ProvTyped, Outside, Asking
  <2>2. n' \in [Clients -> 0 .. MaxRequests]
    BY <1>1, <1>3, Zenon DEF ProvTyped
  <2> QED
    BY <1>1, <2>1, <2>2, Zenon DEF ProvTyped, Queued, executor
<1>5. HandlerWokenOnce'
  <2>1. wakes[c] = 0 /\ p \notin {"submit", "refuse", "arm", "yield"}
    BY <1>1, Zenon DEF HandlerWokenOnce
  <2> QED
    BY <1>1, <1>3, <2>1 DEF HandlerWokenOnce, Cur
<1>6. ASSUME NEW k \in Calls
      PROVE  /\ k[2] > n'[k[1]] => call'[k].phase = "none"
             /\ Fine(k, call[k], n'[k[1]], task'[k[1]], pending \cup todo)
  <2>1. /\ k[2] > n[k[1]] => call[k].phase = "none"
        /\ Fine(k, call[k], n[k[1]], task[k[1]], pending \cup todo)
        /\ k[1] \in Clients /\ k[2] \in Nat
    BY FollowsAt, CallParts
  <2>2. CASE k[1] # c
    BY <1>1, <1>3, <2>1, <2>2, Zenon
  <2>3. CASE k[1] = c
    <3>1. task[k[1]] = "loop" /\ task'[k[1]] = p /\ n'[k[1]] = n[c] + 1
      BY <1>1, <1>3, <2>3, Zenon
    <3>2. k[2] = n[c] + 1 => call[k].phase = "none" /\ k[2] # n[c]
      BY <1>3, <2>1, <2>3
    <3>3. "loop" \notin Admitted /\ "loop" \notin Admitted \cup Waiting
      BY Zenon DEF Admitted, Waiting
    <3>4. p \notin Admitted /\ p \notin Waiting \cup Woken /\ p \notin Woken /\ p \notin {"reply", "write"}
      BY Zenon DEF Admitted, Waiting, Woken
    <3>5. Fine(k, call[k], n'[k[1]], task'[k[1]], pending \cup todo)
      BY <2>1, <3>1, <3>2, <3>3, <3>4, Zenon DEF Fine
    <3>6. k[2] > n'[k[1]] => call'[k].phase = "none"
      BY <1>1, <1>3, <2>1, <2>3, <3>1
    <3> QED
      BY <3>5, <3>6, Zenon
  <2> QED
    BY <2>2, <2>3, Zenon
<1>7. ASSUME NEW d \in Clients, task'[d] \notin Outside PROVE n'[d] >= 1
  BY <1>3, <1>7 DEF Follows
<1>8. Follows'
  BY <1>1, <1>6, <1>7, Zenon DEF Follows
<1> QED
  BY <1>4, <1>5, <1>8, Zenon

LEMMA ReadArgsKeeps ==
  ASSUME CoreInv, NEW c \in Clients, ReadArgs(c)
  PROVE  CoreInv'
<1> USE DEF CoreInv
<1>1. CASE ~Fits
  BY <1>1, LeavesCall, Zenon DEF ReadArgs, leave, goto, Outside, Admitted, Waiting
<1>2. CASE Fits
  <2>1. PICK k \in Calls : k = Cur(c) /\ k[1] = c /\ k[2] = n[c]
    BY LatestCall, Zenon DEF ReadArgs, Outside
  <2>2. /\ task[c] = "args" /\ task' = [task EXCEPT ![k[1]] = "admit"]
        /\ UNCHANGED <<n, wakes, executor, pending, todo>>
    BY <1>2, <2>1, Zenon DEF ReadArgs, goto
  <2>3. PICK r \in CallRecords :
          /\ call' = [call EXCEPT ![k] = r] /\ r.phase = call[k].phase /\ r.outcome = call[k].outcome
          /\ r.timer = call[k].timer /\ r.reply = call[k].reply
    BY <1>2, <2>1 DEF ReadArgs, ProvTyped, CallRecords
  <2>4. Fine(k, call[k], n[k[1]], task[k[1]], pending \cup todo)
    BY FollowsAt, Zenon
  <2>5. call[k].phase = "none" /\ wakes[k[1]] = 0
    BY <2>1, <2>2, <2>4, Zenon DEF Fine, Asking, HandlerWokenOnce
  <2>6. Fine(k, r, n[k[1]], "admit", pending' \cup todo')
    BY <2>2, <2>3, <2>4, <2>5 DEF Fine, Asking, Admitted, Waiting, Woken
  <2>7. Executes
    BY <2>2, <2>3, SameQueue, Zenon
  <2>8. Changes(k, r, "admit", 0)
    BY <2>1, <2>2, <2>3, <2>5 DEF Changes, ProvTyped, Asking, Admitted, Waiting
  <2> QED
    BY <2>6, <2>7, <2>8, OneCall, Zenon
<1> QED
  BY <1>1, <1>2, Zenon

LEMMA AdmitKeeps ==
  ASSUME CoreInv, NEW c \in Clients, Admit(c)
  PROVE  CoreInv'
<1> USE DEF CoreInv
<1>1. CASE ~Admissible(c)
  BY <1>1, LeavesCall, Zenon DEF Admit, leave, goto, Outside, Admitted, Waiting
<1>2. CASE Admissible(c)
  <2>1. PICK k \in Calls : k = Cur(c) /\ k[1] = c /\ k[2] = n[c]
    BY LatestCall, Zenon DEF Admit, Outside
  <2>2. /\ task[c] = "admit" /\ task' = [task EXCEPT ![k[1]] = "submit"]
        /\ UNCHANGED <<n, wakes, executor, todo>>
        /\ pending' \subseteq pending \cup {k} /\ (call[k].kind # "plain" => pending' = pending)
    BY <1>2, <2>1, Zenon DEF Admit, goto
  <2>3. PICK r \in CallRecords :
          /\ call' = [call EXCEPT ![k] = r] /\ r.phase = "admitted" /\ r.outcome = call[k].outcome
          /\ r.timer = call[k].timer /\ r.reply = call[k].reply /\ r.kind = call[k].kind
    BY <1>2, <2>1 DEF Admit, ProvTyped, CallRecords, Phases
  <2>4. Fine(k, call[k], n[k[1]], task[k[1]], pending \cup todo)
    BY FollowsAt, Zenon
  <2>5. call[k].phase = "none" /\ call[k].outcome = 0 /\ wakes[k[1]] = 0
    BY <2>1, <2>2, <2>4, Zenon DEF Fine, Asking, HandlerWokenOnce
  <2>6. Fine(k, r, n[k[1]], "submit", pending' \cup todo')
    BY <2>1, <2>2, <2>3, <2>4, <2>5, Zenon DEF Fine, Asking, Admitted, Waiting, Woken
  <2>7. Executes
    BY <2>2, <2>3, <2>5, SameQueue, Zenon
  <2>8. Changes(k, r, "submit", 0)
    BY <2>1, <2>2, <2>3, <2>5 DEF Changes, ProvTyped, Asking, Admitted, Waiting
  <2> QED
    BY <2>6, <2>7, <2>8, OneCall, Zenon
<1> QED
  BY <1>1, <1>2, Zenon

\* Executor::Submit puts a call that it has not had into its queue.
LEMMA SubmitKeeps ==
  ASSUME CoreInv, NEW c \in Clients, Submit(c)
  PROVE  CoreInv'
<1> USE DEF CoreInv
<1>1. PICK k \in Calls : k = Cur(c) /\ k[1] = c /\ k[2] = n[c]
  BY LatestCall, Zenon DEF Submit, Outside
<1>2. task[c] = "submit" /\ UNCHANGED <<n, wakes, pending, todo, thread>>
  BY Zenon DEF Submit
<1>3. /\ Fine(k, call[k], n[k[1]], task[k[1]], pending \cup todo)
      /\ call[k] \in CallRecords
  BY FollowsAt, Zenon DEF ProvTyped
<1>4. call[k].phase = "admitted"
  BY <1>1, <1>2, <1>3, Zenon DEF Fine, Admitted
<1>5. wakes[k[1]] = (IF call[k].outcome # 0 THEN 1 ELSE 0) /\ wakes[k[1]] \in Nat
  BY <1>1, <1>2, Zenon DEF HandlerWokenOnce, ProvTyped
<1>6. CASE ~(Len(queue) < capacity)
  <2>1. UNCHANGED <<call, executor>> /\ task' = [task EXCEPT ![k[1]] = "refuse"]
    BY <1>1, <1>2, <1>6, Zenon DEF Submit, goto, executor
  <2>2. Fine(k, call[k], n[k[1]], "refuse", pending' \cup todo')
    BY <1>2, <1>3, <1>4, Zenon DEF Fine, Asking, Admitted, Waiting, Woken
  <2>3. call' = [call EXCEPT ![k] = call[k]] /\ wakes' = [wakes EXCEPT ![k[1]] = wakes[k[1]]]
    BY <1>2, <2>1, SameAt, Zenon
  <2>4. Executes
    BY <2>1, <2>3, SameQueue, Zenon
  <2>5. Changes(k, call[k], "refuse", wakes[k[1]])
    <3>1. n' = n /\ k[2] <= n[k[1]] /\ k[2] = n[k[1]]
      BY <1>1, <1>2, SameAt
    <3>2. "refuse" \in Outside \cup Asking \cup Admitted \cup Waiting \cup Woken
      BY Zenon DEF Admitted
    <3>3. wakes[k[1]] = IF "refuse" \in Admitted \cup Waiting /\ call[k].outcome # 0 THEN 1 ELSE 0
      BY <1>5, Zenon DEF Admitted
    <3>4. pending' \cup todo' \subseteq pending \cup todo \cup {k} /\ pending' \subseteq Calls /\ todo' \subseteq Calls
      BY <1>2, Zenon DEF ProvTyped
    <3> QED
      BY <1>3, <1>5, <2>1, <2>3, <3>1, <3>2, <3>3, <3>4, Zenon DEF Changes
  <2> QED
    BY <2>2, <2>4, <2>5, OneCall, Zenon
<1>7. CASE Len(queue) < capacity
  <2>1. PICK p \in {"arm", "loop"} :
          task' = [task EXCEPT ![k[1]] = p] /\ (p = "arm" <=> call[k].kind = "plain")
    BY <1>1, <1>7, Zenon DEF Submit, goto
  <2>2. queue' = Append(queue, k) /\ queue \in Seq(Calls)
    BY <1>1, <1>7, Zenon DEF Submit, ProvTyped
  <2>3. PICK r \in CallRecords :
          /\ call' = [call EXCEPT ![k] = r] /\ r.phase = "queued" /\ r.outcome = call[k].outcome
          /\ r.timer = call[k].timer /\ r.reply = call[k].reply /\ r.kind = call[k].kind
    BY <1>1, <1>7 DEF Submit, ProvTyped, CallRecords, Phases
  <2>4. p = "loop" => call[k].kind = "mux" /\ call[k].outcome = 0
    BY <1>3, <1>4, <2>1, Zenon DEF Fine, CallRecords
  <2>5. Fine(k, r, n[k[1]], p, pending' \cup todo')
    BY <1>1, <1>2, <1>3, <1>4, <2>1, <2>3, <2>4, Zenon DEF Fine, Asking, Admitted, Waiting, Woken
  <2>6. Executes
    <3>1. call'[k].phase = "queued" /\ \A j \in Calls \ {k} : call'[j] = call[j]
      BY <2>3, Zenon DEF ProvTyped
    <3>2. /\ queue' \in Seq(Calls) /\ Len(queue') = Len(queue) + 1 /\ queue'[Len(queue) + 1] = k
          /\ \A i \in 1 .. Len(queue) : queue'[i] = queue[i] /\ queue[i] \in Calls
          /\ DOMAIN queue = 1 .. Len(queue) /\ DOMAIN queue' = 1 .. Len(queue) + 1 /\ Len(queue) \in Nat
      BY <2>2
    <3>3. \A i \in 1 .. Len(queue) : queue[i] # k
      BY <1>4, <3>2, Zenon DEF Queued
    <3>4. ASSUME NEW i \in DOMAIN queue'
          PROVE  call'[queue'[i]].phase = "queued" /\ \A j \in DOMAIN queue' : queue'[i] = queue'[j] => i = j
      BY <3>1, <3>2, <3>3 DEF Queued
    <3>5. ASSUME NEW t \in Threads, thread'[t] # None
          PROVE  call'[thread'[t]].phase \notin {"none", "admitted", "queued"}
      BY <1>2, <1>4, <3>1, <3>5, Zenon DEF Queued, ProvTyped
    <3> QED
      BY <1>2, <3>2, <3>4, <3>5, Zenon DEF Executes, Queued, ProvTyped
  <2>7. Changes(k, r, p, wakes[k[1]])
    BY <1>1, <1>2, <1>5, <2>1, <2>3, <2>4 DEF Changes, ProvTyped, Outside, Admitted, Waiting
  <2> QED
    BY <2>5, <2>6, <2>7, OneCall, Zenon
<1> QED
  BY <1>6, <1>7, Zenon

----------------------------------------------------------------------------
(* The end of a plain call.                                                *)

\* What finish() leaves: the first verdict, and one wake-up for it.
FinishEffect(k, v, next) ==
  \E r \in CallRecords, w \in Nat :
    /\ call' = [call EXCEPT ![k] = r] /\ wakes' = [wakes EXCEPT ![k[1]] = w]
    /\ r.kind = next.kind /\ r.phase = next.phase /\ r.timer = next.timer /\ r.reply = next.reply
    /\ next.outcome = 0 => r.outcome = v /\ w = wakes[k[1]] + 1
    /\ next.outcome # 0 => r.outcome = next.outcome /\ w = wakes[k[1]]

LEMMA FinishSets ==
  ASSUME ProvTyped, NEW k \in Calls, NEW v \in {1, 2}, NEW next \in CallRecords, Finish(k, v, next)
  PROVE  FinishEffect(k, v, next)
<1>1. CASE next.outcome = 0
  <2>1. PICK r : r = [next EXCEPT !.outcome = v]
    BY Zenon
  <2>2. r \in CallRecords /\ r.kind = next.kind /\ r.phase = next.phase /\ r.timer = next.timer
        /\ r.reply = next.reply /\ r.outcome = v
    BY <2>1, Zenon DEF CallRecords
  <2>3. PICK w \in Nat : w = wakes[k[1]] + 1
    BY SameAt
  <2>4. call' = [call EXCEPT ![k] = r] /\ wakes' = [wakes EXCEPT ![k[1]] = w]
    BY <1>1, <2>1, <2>3, Zenon DEF Finish
  <2> QED
    BY <1>1, <2>2, <2>3, <2>4, Zenon DEF FinishEffect
<1>2. CASE next.outcome # 0
  <2>1. call' = [call EXCEPT ![k] = next] /\ wakes' = wakes
    BY <1>2, Zenon DEF Finish
  <2>2. PICK w \in Nat : w = wakes[k[1]] /\ wakes' = [wakes EXCEPT ![k[1]] = w]
    BY <2>1, SameAt, Zenon
  <2> QED
    BY <1>2, <2>1, <2>2, Zenon DEF FinishEffect
<1> QED
  BY <1>1, <1>2, Zenon

\* Whoever ends a plain call: the fiber is woken if it has not been, and a call
\* that is over stays as it was.
LEMMA FinishKeeps ==
  ASSUME CoreInv, NEW k \in Calls, NEW v \in {1, 2}, NEW next \in CallRecords, Finish(k, v, next),
         next.kind = "plain", call[k].kind = "plain", next.phase # "none", call[k].phase # "none",
         next.phase = call[k].phase \/ (call[k].phase = "ran" /\ next.phase = "over"), v = 1 => next.phase = "over",
         next.outcome = call[k].outcome, next.reply = call[k].reply,
         UNCHANGED <<n, task>>, pending' \cup todo' \subseteq pending \cup todo,
         pending' \subseteq Calls, todo' \subseteq Calls, Executes
  PROVE  CoreInv'
<1> USE DEF CoreInv
<1>1. PICK r \in CallRecords, w \in Nat :
        /\ call' = [call EXCEPT ![k] = r] /\ wakes' = [wakes EXCEPT ![k[1]] = w]
        /\ r.kind = next.kind /\ r.phase = next.phase /\ r.timer = next.timer /\ r.reply = next.reply
        /\ next.outcome = 0 => r.outcome = v /\ w = wakes[k[1]] + 1
        /\ next.outcome # 0 => r.outcome = next.outcome /\ w = wakes[k[1]]
  <2>1. FinishEffect(k, v, next)
    BY FinishSets, Zenon
  <2> QED
    BY <2>1, Zenon DEF FinishEffect
<1>2. /\ Fine(k, call[k], n[k[1]], task[k[1]], pending \cup todo)
      /\ k[2] > n[k[1]] => call[k].phase = "none"
  BY FollowsAt, Zenon
<1>3. /\ task = [task EXCEPT ![k[1]] = task[k[1]]] /\ n[k[1]] \in Nat /\ k[2] \in Nat
      /\ k[1] \in Clients /\ k = <<k[1], k[2]>> /\ call[k] \in CallRecords
  BY SameAt, CallParts, Zenon
<1>4. r.outcome # 0
  BY <1>1
<1>5. call[k].outcome = 0 => k[2] = n[k[1]] /\ task[k[1]] \in Admitted \cup Waiting
  BY <1>2, Zenon DEF Fine
<1>6. Fine(k, r, n[k[1]], task[k[1]], pending' \cup todo')
  <2>1. CASE call[k].outcome # 0
    <3>1. r.outcome = call[k].outcome /\ r.kind = "plain" /\ r.phase # "none" /\ r.reply = call[k].reply
          /\ (r.phase = call[k].phase \/ (call[k].phase = "ran" /\ r.phase = "over"))
      BY <1>1, <2>1, Zenon
    <3> QED
      BY <1>2, <2>1, <3>1, Zenon DEF Fine
  <2>2. CASE call[k].outcome = 0
    <3>1. r.outcome = v /\ r.kind = "plain" /\ r.phase # "none" /\ r.reply = call[k].reply
          /\ (r.phase = call[k].phase \/ (call[k].phase = "ran" /\ r.phase = "over"))
          /\ (r.outcome = 1 => r.phase = "over")
      BY <1>1, <2>2, Zenon
    <3>2. task[k[1]] \notin Asking /\ task[k[1]] \notin Woken /\ task[k[1]] \notin {"reply", "write"}
      BY <1>5, <2>2, Zenon DEF Asking, Admitted, Waiting, Woken
    <3> QED
      BY <1>2, <1>4, <1>5, <2>2, <3>1, <3>2, Zenon DEF Fine, Admitted, Waiting
  <2> QED
    BY <2>1, <2>2, Zenon
<1>7. Changes(k, r, task[k[1]], w)
  <2>1. k[2] = n[k[1]] => w = IF task[k[1]] \in Admitted \cup Waiting /\ r.outcome # 0 THEN 1 ELSE 0
    <3>1. ASSUME k[2] = n[k[1]]
          PROVE  wakes[k[1]] = IF task[k[1]] \in Admitted \cup Waiting /\ call[k].outcome # 0 THEN 1 ELSE 0
      BY <1>3, <3>1 DEF HandlerWokenOnce, Cur, Admitted, Waiting
    <3> QED
      BY <1>1, <1>4, <1>5, <3>1
  <2>2. k[2] # n[k[1]] => w = wakes[k[1]]
    BY <1>1, <1>5, Zenon
  <2>3. k[2] <= n[k[1]]
    BY <1>2, <1>3
  <2>4. task[k[1]] \in Outside \cup Asking \cup Admitted \cup Waiting \cup Woken
    BY <1>3, Zenon DEF ProvTyped
  <2>5. pending' \cup todo' \subseteq pending \cup todo \cup {k}
    BY Zenon
  <2> QED
    BY <1>1, <1>3, <2>1, <2>2, <2>3, <2>4, <2>5, Zenon DEF Changes
<1> QED
  BY <1>6, <1>7, OneCall, Zenon

----------------------------------------------------------------------------
(* A plain call's fiber, from the submission of its call on.               *)

LEMMA FiberStep ==
  ASSUME CoreInv, NEW k \in Calls, k[2] = n[k[1]], NEW r \in CallRecords,
         NEW p \in Outside \cup Asking \cup Admitted \cup Waiting \cup Woken,
         NEW w, w = IF p \in Admitted \cup Waiting /\ r.outcome # 0 THEN 1 ELSE 0,
         call' = [call EXCEPT ![k] = r], task' = [task EXCEPT ![k[1]] = p],
         wakes' = [wakes EXCEPT ![k[1]] = w], UNCHANGED <<n, pending, todo>>,
         Fine(k, r, n[k[1]], p, pending \cup todo), Executes
  PROVE  CoreInv'
<1>1. w \in Nat /\ k[2] <= n[k[1]] /\ pending \subseteq Calls /\ todo \subseteq Calls
  BY SameAt DEF CoreInv, ProvTyped
<1>2. pending' = pending /\ todo' = todo /\ n' = n
  BY Zenon
<1>3. Changes(k, r, p, w)
  BY <1>1, <1>2, Zenon DEF Changes
<1>4. Fine(k, r, n[k[1]], p, pending' \cup todo')
  BY <1>2, Zenon
<1> QED
  BY <1>3, <1>4, OneCall, Zenon

LEMMA RefuseKeeps ==
  ASSUME CoreInv, NEW c \in Clients, Refuse(c)
  PROVE  CoreInv'
<1> USE DEF CoreInv
<1>1. PICK k \in Calls : k = Cur(c) /\ k[1] = c /\ k[2] = n[c]
  BY LatestCall, Zenon DEF Refuse, Outside
<1>2. task[c] = "refuse" /\ UNCHANGED <<n, executor, pending, todo>>
  BY Zenon DEF Refuse
<1>3. /\ Fine(k, call[k], n[k[1]], task[k[1]], pending \cup todo) /\ call[k] \in CallRecords
      /\ wakes[k[1]] \in Nat
  BY FollowsAt, SameAt, Zenon
<1>4. call[k].phase = "admitted"
  BY <1>1, <1>2, <1>3, Zenon DEF Fine, Admitted
<1>5. wakes[k[1]] = IF call[k].outcome # 0 THEN 1 ELSE 0
  BY <1>1, <1>2, Zenon DEF HandlerWokenOnce
<1>6. PICK next \in CallRecords :
        /\ next = [call[k] EXCEPT !.phase = "over"] /\ next.phase = "over" /\ next.kind = call[k].kind
        /\ next.outcome = call[k].outcome /\ next.timer = call[k].timer /\ next.reply = call[k].reply
  BY <1>3, PhaseSet, Zenon DEF Phases
<1>7. CASE call[k].kind = "plain"
  <2>1. Finish(k, 2, next) /\ task' = [task EXCEPT ![k[1]] = "arm"]
    BY <1>1, <1>6, <1>7, Zenon DEF Refuse, goto
  <2>2. PICK r \in CallRecords, w \in Nat :
          /\ call' = [call EXCEPT ![k] = r] /\ wakes' = [wakes EXCEPT ![k[1]] = w]
          /\ r.kind = next.kind /\ r.phase = next.phase /\ r.timer = next.timer /\ r.reply = next.reply
          /\ next.outcome = 0 => r.outcome = 2 /\ w = wakes[k[1]] + 1
          /\ next.outcome # 0 => r.outcome = next.outcome /\ w = wakes[k[1]]
    <3>1. FinishEffect(k, 2, next)
      BY <2>1, FinishSets, Zenon
    <3> QED
      BY <3>1, Zenon DEF FinishEffect
  <2>3. r.outcome # 0 /\ w = 1 /\ r.phase = "over"
    BY <1>5, <1>6, <2>2
  <2>4. Fine(k, r, n[k[1]], "arm", pending \cup todo)
    BY <1>1, <1>3, <1>4, <1>6, <1>7, <2>2, <2>3, Zenon DEF Fine, Asking, Admitted, Waiting, Woken
  <2>5. Executes
    BY <1>2, <1>4, <2>2, <2>3, SameQueue, Zenon
  <2>6. "arm" \in Waiting /\ w = IF "arm" \in Admitted \cup Waiting /\ r.outcome # 0 THEN 1 ELSE 0
    BY <2>3, Zenon DEF Waiting
  <2>7. k[2] = n[k[1]] /\ "arm" \in Outside \cup Asking \cup Admitted \cup Waiting \cup Woken
    BY <1>1, <2>6, Zenon
  <2> QED
    BY <1>2, <2>1, <2>2, <2>4, <2>5, <2>6, <2>7, FiberStep, Zenon
<1>8. CASE call[k].kind # "plain"
  <2>1. /\ task' = [task EXCEPT ![k[1]] = "end"] /\ call' = [call EXCEPT ![k] = next] /\ wakes' = wakes
    BY <1>1, <1>6, <1>8, Zenon DEF Refuse, leave, goto
  <2>2. call[k].kind = "mux" /\ call[k].outcome = 0 /\ wakes[k[1]] = 0
    BY <1>3, <1>4, <1>5, <1>8, Zenon DEF Fine, CallRecords
  <2>3. Fine(k, next, n[k[1]], "end", pending \cup todo)
    BY <1>3, <1>4, <1>6, <2>2, Zenon DEF Fine, Asking, Admitted, Waiting, Woken
  <2>4. Executes
    BY <1>2, <1>4, <1>6, <2>1, SameQueue, Zenon
  <2>5. /\ k[2] = n[k[1]] /\ "end" \in Outside \cup Asking \cup Admitted \cup Waiting \cup Woken
        /\ 0 = IF "end" \in Admitted \cup Waiting /\ next.outcome # 0 THEN 1 ELSE 0
    BY <1>1, <1>6, <2>2, Zenon DEF Outside
  <2>6. wakes' = [wakes EXCEPT ![k[1]] = 0]
    BY <2>1, <2>2, SameAt
  <2> QED
    BY <1>2, <1>6, <2>1, <2>3, <2>4, <2>5, <2>6, FiberStep, Zenon
<1> QED
  BY <1>7, <1>8, Zenon

LEMMA YieldKeeps ==
  ASSUME CoreInv, NEW c \in Clients, Yield(c)
  PROVE  CoreInv'
<1> USE DEF CoreInv
<1>1. PICK k \in Calls : k = Cur(c) /\ k[1] = c /\ k[2] = n[c]
  BY LatestCall, Zenon DEF Yield, Outside
<1>2. /\ task[c] = "arm" /\ UNCHANGED <<n, wakes, executor, pending, todo>>
      /\ task' = [task EXCEPT ![k[1]] = "yield"]
  BY <1>1, Zenon DEF Yield, goto
<1>3. Fine(k, call[k], n[k[1]], task[k[1]], pending \cup todo) /\ wakes' = [wakes EXCEPT ![k[1]] = wakes[k[1]]]
  BY <1>2, FollowsAt, SameAt, Zenon
<1>4. PICK r \in CallRecords :
        /\ call' = [call EXCEPT ![k] = r] /\ r.phase = call[k].phase /\ r.outcome = call[k].outcome
        /\ r.kind = call[k].kind /\ r.reply = call[k].reply /\ r.timer = "armed"
  <2>1. call[k] \in CallRecords /\ call' = [call EXCEPT ![k] = [call[k] EXCEPT !.timer = "armed"]]
    BY <1>1, SameAt, Zenon DEF Yield
  <2> QED
    BY <2>1, TimerSet, Zenon
<1>5. Fine(k, r, n[k[1]], "yield", pending \cup todo)
  BY <1>1, <1>2, <1>3, <1>4, Zenon DEF Fine, Asking, Admitted, Waiting, Woken
<1>6. Executes
  BY <1>2, <1>4, SameQueue, Zenon
<1>7. wakes[k[1]] = IF "yield" \in Admitted \cup Waiting /\ r.outcome # 0 THEN 1 ELSE 0
  BY <1>1, <1>2, <1>4, Zenon DEF HandlerWokenOnce, Waiting
<1>8. k[2] = n[k[1]] /\ "yield" \in Outside \cup Asking \cup Admitted \cup Waiting \cup Woken
  BY <1>1, Zenon DEF Waiting
<1> QED
  BY <1>2, <1>3, <1>4, <1>5, <1>6, <1>7, <1>8, FiberStep, Zenon

\* The fiber that is resumed has been finished, and nothing else will wake it.
LEMMA ResumeKeeps ==
  ASSUME CoreInv, NEW c \in Clients, Resume(c)
  PROVE  CoreInv'
<1> USE DEF CoreInv
<1>1. PICK k \in Calls : k = Cur(c) /\ k[1] = c /\ k[2] = n[c]
  BY LatestCall, Zenon DEF Resume, Outside
<1>2. /\ task[c] = "yield" /\ wakes[k[1]] > 0 /\ wakes' = [wakes EXCEPT ![k[1]] = wakes[k[1]] - 1]
      /\ UNCHANGED <<n, executor, pending, todo>> /\ task' = [task EXCEPT ![k[1]] = "resumed"]
  BY <1>1, Zenon DEF Resume, goto
<1>3. Fine(k, call[k], n[k[1]], task[k[1]], pending \cup todo) /\ call[k] \in CallRecords
  BY FollowsAt, SameAt, Zenon
<1>4. call[k].outcome # 0 /\ wakes[k[1]] = 1
  BY <1>1, <1>2 DEF HandlerWokenOnce
<1>5. PICK r \in CallRecords :
        /\ call' = [call EXCEPT ![k] = r] /\ r.phase = call[k].phase /\ r.outcome = call[k].outcome
        /\ r.kind = call[k].kind /\ r.reply = call[k].reply
  <2>1. PICK timer \in {"off", "armed", "due"} :
          call' = [call EXCEPT ![k] = [call[k] EXCEPT !.timer = timer]]
    BY <1>1, <1>3, Zenon DEF Resume, CallRecords
  <2>2. PICK r \in CallRecords :
          /\ r = [call[k] EXCEPT !.timer = timer] /\ r.timer = timer /\ r.kind = call[k].kind
          /\ r.outcome = call[k].outcome /\ r.phase = call[k].phase /\ r.reply = call[k].reply
    BY <1>3, TimerSet, Zenon
  <2> QED
    BY <2>1, <2>2, Zenon
<1>6. Fine(k, r, n[k[1]], "resumed", pending \cup todo)
  BY <1>1, <1>2, <1>3, <1>4, <1>5, Zenon DEF Fine, Asking, Admitted, Waiting, Woken
<1>7. Executes
  BY <1>2, <1>5, SameQueue, Zenon
<1>8. /\ 0 = IF "resumed" \in Admitted \cup Waiting /\ r.outcome # 0 THEN 1 ELSE 0
      /\ k[2] = n[k[1]] /\ "resumed" \in Outside \cup Asking \cup Admitted \cup Waiting \cup Woken
  BY <1>1, Zenon DEF Admitted, Waiting, Woken
<1>9. wakes' = [wakes EXCEPT ![k[1]] = 0]
  BY <1>2, <1>4
<1> QED
  BY <1>2, <1>5, <1>6, <1>7, <1>8, <1>9, FiberStep, Zenon

\* An answer, from the fiber's resumption to the end of the write.
LEMMA AnswerKeeps ==
  ASSUME CoreInv, NEW c \in Clients, NEW p \in {"reply", "write", "loop", "end"},
         task[c] \in Woken, task' = [task EXCEPT ![c] = p],
         p \in {"reply", "write"} => call[Cur(c)].outcome = 1,
         \/ UNCHANGED call
         \/ \E reply \in {"ok", "part"} : call' = [call EXCEPT ![Cur(c)].reply = reply],
         UNCHANGED <<n, wakes, executor, pending, todo>>
  PROVE  CoreInv'
<1> USE DEF CoreInv
<1>1. PICK k \in Calls : k = Cur(c) /\ k[1] = c /\ k[2] = n[c]
  BY LatestCall, Zenon DEF Woken, Outside
<1>2. Fine(k, call[k], n[k[1]], task[k[1]], pending \cup todo) /\ call[k] \in CallRecords
  BY FollowsAt, SameAt, Zenon
<1>3. wakes[k[1]] = 0
  BY <1>1, Zenon DEF HandlerWokenOnce, Woken
<1>4. PICK r \in CallRecords :
        /\ call' = [call EXCEPT ![k] = r] /\ r.phase = call[k].phase /\ r.outcome = call[k].outcome
        /\ r.kind = call[k].kind /\ r.timer = call[k].timer
  <2>1. CASE UNCHANGED call
    BY <1>2, <2>1, SameAt, Zenon
  <2>2. CASE \E reply \in {"ok", "part"} : call' = [call EXCEPT ![Cur(c)].reply = reply]
    BY <1>1, <1>2, <2>2, Zenon DEF ProvTyped, CallRecords
  <2> QED
    BY <2>1, <2>2, Zenon
<1>5. call[k].kind = "plain" /\ call[k].phase # "none" /\ call[k].outcome # 0
  BY <1>1, <1>2, Zenon DEF Fine
<1>6. Fine(k, r, n[k[1]], p, pending \cup todo)
  BY <1>1, <1>2, <1>4, <1>5, Zenon DEF Fine, Asking, Admitted, Waiting, Woken
<1>7. Executes
  BY <1>4, SameQueue, Zenon
<1>8. /\ 0 = IF p \in Admitted \cup Waiting /\ r.outcome # 0 THEN 1 ELSE 0
      /\ k[2] = n[k[1]] /\ p \in Outside \cup Asking \cup Admitted \cup Waiting \cup Woken
  BY <1>1, Zenon DEF Admitted, Waiting, Woken, Outside
<1>9. wakes' = [wakes EXCEPT ![k[1]] = 0] /\ task' = [task EXCEPT ![k[1]] = p]
  BY <1>1, <1>3, SameAt, Zenon
<1> QED
  BY <1>4, <1>6, <1>7, <1>8, <1>9, FiberStep, Zenon

----------------------------------------------------------------------------
(* The executor, the closures and the timers.                              *)

\* A call goes on while the fiber of its connection stays where it is.
LEMMA InPlace ==
  ASSUME CoreInv, NEW k \in Calls, NEW r \in CallRecords, call' = [call EXCEPT ![k] = r],
         UNCHANGED <<n, task, wakes, pending, todo>>, call[k].phase # "none",
         r.outcome = call[k].outcome \/ (call[k].kind = "mux" /\ call[k].phase = "called"),
         Fine(k, r, n[k[1]], task[k[1]], pending \cup todo), Executes
  PROVE  CoreInv'
<1> USE DEF CoreInv
<1>1. PICK p : p = task[k[1]]
  BY Zenon
<1>2. PICK w : w = wakes[k[1]]
  BY Zenon
<1>3. /\ task' = [task EXCEPT ![k[1]] = p] /\ wakes' = [wakes EXCEPT ![k[1]] = w] /\ w \in Nat
      /\ p \in Outside \cup Asking \cup Admitted \cup Waiting \cup Woken
      /\ k[1] \in Clients /\ k[2] <= n[k[1]]
  <2>1. k[2] > n[k[1]] => call[k].phase = "none"
    BY FollowsAt, Zenon
  <2> QED
    BY <1>1, <1>2, <2>1, SameAt, CallParts DEF ProvTyped
<1>4. k[2] = n[k[1]] => w = IF p \in Admitted \cup Waiting /\ r.outcome # 0 THEN 1 ELSE 0
  <2>1. Fine(k, call[k], n[k[1]], task[k[1]], pending \cup todo) /\ k = <<k[1], k[2]>>
    BY FollowsAt, CallParts, Zenon
  <2>2. Admitted \cup Waiting = {"submit", "refuse", "arm", "yield"}
    BY Zenon DEF Admitted, Waiting
  <2>3. wakes[k[1]] = IF task[k[1]] \in Admitted \cup Waiting /\ call[<<k[1], n[k[1]]>>].outcome # 0 THEN 1 ELSE 0
    BY <1>3, <2>2, Zenon DEF HandlerWokenOnce, Cur
  <2>4. CASE r.outcome = call[k].outcome
    BY <1>1, <1>2, <2>1, <2>3, <2>4, Zenon
  <2>5. CASE call[k].kind = "mux" /\ call[k].phase = "called" /\ k[2] = n[k[1]]
    <3>1. p \notin Admitted \cup Waiting
      BY <1>1, <2>1, <2>5, Zenon DEF Fine
    <3> QED
      BY <1>1, <1>2, <2>3, <3>1, Zenon
  <2> QED
    BY <2>4, <2>5, Zenon
<1>5. Changes(k, r, p, w)
  BY <1>1, <1>2, <1>3, <1>4, Zenon DEF Changes, ProvTyped
<1>6. Fine(k, r, n[k[1]], p, pending' \cup todo')
  BY <1>1, Zenon
<1> QED
  BY <1>5, <1>6, OneCall, Zenon

LEMMA CallServiceKeeps ==
  ASSUME CoreInv, NEW t \in Threads, CallService(t)
  PROVE  CoreInv'
<1> USE DEF CoreInv
<1>1. PICK k \in Calls : k = Head(queue) /\ call[k].phase = "queued" /\ queue # <<>> /\ queue \in Seq(Calls)
  BY DEF CallService, ProvTyped, Queued
<1>2. /\ queue' = Tail(queue) /\ thread' = [thread EXCEPT ![t] = k]
      /\ UNCHANGED <<n, task, wakes, pending, todo>>
  BY <1>1, Zenon DEF CallService, serverVars
<1>3. Fine(k, call[k], n[k[1]], task[k[1]], pending \cup todo) /\ call[k] \in CallRecords /\ "called" \in Phases
  BY FollowsAt, SameAt, Zenon DEF Phases
<1>4. PICK r \in CallRecords :
        /\ call' = [call EXCEPT ![k] = r] /\ r.phase = "called" /\ r.outcome = call[k].outcome
        /\ r.kind = call[k].kind /\ r.timer = call[k].timer /\ r.reply = call[k].reply
  <2>1. call' = [call EXCEPT ![k] = [call[k] EXCEPT !.phase = "called"]]
    BY <1>1, Zenon DEF CallService
  <2>2. PICK r \in CallRecords :
          /\ r = [call[k] EXCEPT !.phase = "called"] /\ r.phase = "called" /\ r.kind = call[k].kind
          /\ r.outcome = call[k].outcome /\ r.timer = call[k].timer /\ r.reply = call[k].reply
    BY <1>3, PhaseSet, Zenon
  <2> QED
    BY <2>1, <2>2, Zenon
<1>5. Fine(k, r, n[k[1]], task[k[1]], pending \cup todo)
  BY <1>1, <1>3, <1>4, Zenon DEF Fine, Asking, Admitted, Waiting, Woken
<1>6. call'[k] = r /\ \A j \in Calls \ {k} : call'[j] = call[j]
  BY <1>4, Zenon DEF ProvTyped
<1>7. queue' \in Seq(Calls) /\ thread' \in [Threads -> Calls \cup {None}]
  BY <1>1, <1>2 DEF ProvTyped
<1>8. ASSUME NEW i \in DOMAIN queue'
      PROVE  call'[queue'[i]].phase = "queued" /\ \A j \in DOMAIN queue' : queue'[i] = queue'[j] => i = j
  <2>1. ASSUME NEW j \in DOMAIN queue'
        PROVE  j \in Nat /\ j # 0 /\ j + 1 \in DOMAIN queue /\ queue'[j] = queue[j + 1] /\ queue[j + 1] \in Calls
    <3>1. queue' \in Seq(Calls) /\ Len(queue') = Len(queue) - 1 /\ Len(queue) \in Nat
      BY <1>1, <1>2
    <3>2. j \in 1 .. Len(queue')
      BY <3>1
    <3> QED
      BY <1>1, <1>2, <3>1, <3>2
  <2>2. 1 \in DOMAIN queue /\ queue[1] = k
    BY <1>1
  <2>3. queue'[i] # k /\ call[queue'[i]].phase = "queued"
    BY <2>1, <2>2 DEF Queued
  <2> QED
    BY <1>6, <2>1, <2>3 DEF Queued
<1>9. ASSUME NEW u \in Threads, thread'[u] # None
      PROVE  call'[thread'[u]].phase \notin {"none", "admitted", "queued"}
  <2>1. CASE thread'[u] = k
    BY <1>4, <1>6, <2>1, Zenon
  <2>2. CASE thread'[u] # k
    <3>1. thread'[u] = thread[u] /\ thread[u] \in Calls
      BY <1>2, <1>9, <2>2, Zenon DEF ProvTyped
    <3> QED
      BY <1>6, <1>9, <2>2, <3>1, Zenon DEF Queued
  <2> QED
    BY <2>1, <2>2, Zenon
<1>10. Executes
  BY <1>7, <1>8, <1>9, Zenon DEF Executes, Queued
<1>11. call[k].phase # "none"
  BY <1>1, Zenon
<1> QED
  BY <1>2, <1>4, <1>5, <1>10, <1>11, InPlace, Zenon

LEMMA ServiceReturnsKeeps ==
  ASSUME CoreInv, NEW t \in Threads, ServiceReturns(t)
  PROVE  CoreInv'
<1> USE DEF CoreInv
<1>1. UNCHANGED <<n, call, task, wakes, queue, pending, todo>> /\ thread' = [thread EXCEPT ![t] = None]
  BY Zenon DEF ServiceReturns, serverVars
<1>2. ProvTyped' /\ Queued'
  BY <1>1, Zenon DEF ProvTyped, Queued
<1>3. Follows' /\ HandlerWokenOnce'
  BY <1>1, Zenon DEF Follows, HandlerWokenOnce, Cur
<1> QED
  BY <1>2, <1>3, Zenon

\* A service that throws ends its plain call, and answers its mux call.
LEMMA ServiceThrowsKeeps ==
  ASSUME CoreInv, NEW t \in Threads, ServiceThrows(t)
  PROVE  CoreInv'
<1> USE DEF CoreInv
<1>1. PICK k \in Calls : k = thread[t] /\ call[k].phase \notin {"none", "admitted", "queued"}
  BY Zenon DEF ServiceThrows, ProvTyped, Queued
<1>2. /\ queue' = queue /\ thread' \in [Threads -> Calls \cup {None}]
      /\ \A u \in Threads : thread'[u] \in {thread[u], None}
      /\ UNCHANGED <<n, task, pending, todo>> /\ pending \subseteq Calls /\ todo \subseteq Calls
  BY Zenon DEF ServiceThrows, ProvTyped, serverVars
<1>3. Fine(k, call[k], n[k[1]], task[k[1]], pending \cup todo) /\ call[k] \in CallRecords
  BY FollowsAt, SameAt, Zenon
<1>4. CASE call[k].kind = "plain"
  <2>1. Finish(k, 2, call[k])
    BY <1>1, <1>4, Zenon DEF ServiceThrows
  <2>2. PICK r \in CallRecords, w \in Nat :
          /\ call' = [call EXCEPT ![k] = r] /\ wakes' = [wakes EXCEPT ![k[1]] = w] /\ r.phase = call[k].phase
    <3>1. FinishEffect(k, 2, call[k])
      BY <1>3, <2>1, FinishSets, Zenon
    <3> QED
      BY <3>1, Zenon DEF FinishEffect
  <2>3. Executes
    BY <1>2, <2>2, QueueAfter, Zenon
  <2> QED
    BY <1>1, <1>2, <1>3, <1>4, <2>1, <2>3, FinishKeeps
<1>5. CASE call[k].kind = "mux"
  <2>1. /\ call[k].phase = "called" /\ UNCHANGED wakes
        /\ call' = [call EXCEPT ![k] = [[call[k] EXCEPT !.phase = "answer"] EXCEPT !.outcome = 2]]
    BY <1>1, <1>5, Zenon DEF ServiceThrows, ProvTyped
  <2>2. PICK q \in CallRecords :
          /\ q = [call[k] EXCEPT !.phase = "answer"] /\ q.phase = "answer" /\ q.kind = call[k].kind
          /\ q.outcome = call[k].outcome /\ q.timer = call[k].timer /\ q.reply = call[k].reply
    BY <1>3, PhaseSet, Zenon DEF Phases
  <2>3. PICK r \in CallRecords :
          /\ call' = [call EXCEPT ![k] = r] /\ r.phase = "answer" /\ r.kind = "mux"
          /\ r.timer = call[k].timer /\ r.reply = call[k].reply
    <3>1. PICK r : r = [q EXCEPT !.outcome = 2]
      BY Zenon
    <3>2. r \in CallRecords /\ r.phase = q.phase /\ r.kind = q.kind /\ r.timer = q.timer /\ r.reply = q.reply
      BY <3>1, Zenon DEF CallRecords
    <3> QED
      BY <1>5, <2>1, <2>2, <3>1, <3>2, Zenon
  <2>4. Executes
    BY <1>1, <1>2, <2>1, <2>3, QueueAfter, Zenon
  <2>5. Fine(k, r, n[k[1]], task[k[1]], pending \cup todo)
    BY <1>3, <1>5, <2>1, <2>3, Zenon DEF Fine, Asking, Admitted, Waiting, Woken
  <2>6. call[k].phase # "none"
    BY <1>1, Zenon
  <2> QED
    BY <1>2, <1>5, <2>1, <2>3, <2>4, <2>5, <2>6, InPlace, Zenon
<1> QED
  BY <1>3, <1>4, <1>5, Zenon DEF CallRecords

\* A call's phase changes, and nothing else of what the fibers see.
LEMMA PhaseKeeps ==
  ASSUME CoreInv, NEW k \in Calls, NEW phase \in Phases,
         call' = [call EXCEPT ![k] = [call[k] EXCEPT !.phase = phase]],
         UNCHANGED <<n, task, wakes, executor, pending, todo>>,
         \/ call[k].kind = "plain" /\ call[k].phase = "called" /\ phase = "ran"
         \/ call[k].kind = "mux" /\ call[k].phase = "called" /\ phase = "answer"
         \/ call[k].phase = "answer" /\ phase = "write"
         \/ call[k].phase = "written" /\ phase = "over"
  PROVE  CoreInv'
<1> USE DEF CoreInv
<1>1. Fine(k, call[k], n[k[1]], task[k[1]], pending \cup todo) /\ call[k] \in CallRecords
  BY FollowsAt, SameAt, Zenon
<1>2. PICK r \in CallRecords :
        /\ r = [call[k] EXCEPT !.phase = phase] /\ r.phase = phase /\ r.kind = call[k].kind
        /\ r.outcome = call[k].outcome /\ r.timer = call[k].timer /\ r.reply = call[k].reply
  BY <1>1, PhaseSet, Zenon
<1>3. call' = [call EXCEPT ![k] = r]
  BY <1>2, Zenon
<1>4. Executes
  BY <1>2, <1>3, SameQueue, Zenon
<1>5. Fine(k, r, n[k[1]], task[k[1]], pending \cup todo)
  BY <1>1, <1>2, Zenon DEF Fine, Asking, Admitted, Waiting, Woken, CallRecords
<1>6. call[k].phase # "none"
  BY Zenon
<1> QED
  BY <1>2, <1>3, <1>4, <1>5, <1>6, InPlace, Zenon

\* done, the request timer and Stop() end a plain call.
LEMMA EndingKeeps ==
  ASSUME CoreInv, NEW k \in Calls, DoneFinishes(k) \/ TimerCallback(k) \/ StopFinish(k)
  PROVE  CoreInv'
<1> USE DEF CoreInv
<1>1. /\ UNCHANGED <<n, task, executor, pending>> /\ todo' \subseteq todo
      /\ pending \subseteq Calls /\ todo \subseteq Calls
  BY Zenon DEF DoneFinishes, TimerCallback, StopFinish, ProvTyped, serverVars
<1>2. Fine(k, call[k], n[k[1]], task[k[1]], pending \cup todo) /\ call[k] \in CallRecords
  BY FollowsAt, SameAt, Zenon
<1>3. \E v \in {1, 2}, next \in CallRecords :
        /\ Finish(k, v, next) /\ next.kind = call[k].kind /\ next.outcome = call[k].outcome
        /\ next.reply = call[k].reply /\ call[k].kind = "plain" /\ call[k].phase # "none" /\ next.phase # "none"
        /\ (next.phase = call[k].phase \/ (call[k].phase = "ran" /\ next.phase = "over"))
        /\ (v = 1 => next.phase = "over")
  <2>1. CASE DoneFinishes(k)
    <3>1. call[k].phase = "ran" /\ call[k].kind = "plain"
      BY <1>2, <2>1, Zenon DEF DoneFinishes, Fine, CallRecords
    <3>2. PICK next \in CallRecords :
            /\ next = [call[k] EXCEPT !.phase = "over"] /\ next.phase = "over" /\ next.kind = call[k].kind
            /\ next.outcome = call[k].outcome /\ next.timer = call[k].timer /\ next.reply = call[k].reply
      BY <1>2, PhaseSet, Zenon DEF Phases
    <3>3. Finish(k, 1, next) /\ 1 \in {1, 2}
      BY <2>1, <3>2, Zenon DEF DoneFinishes
    <3>4. next.phase # "none" /\ call[k].phase # "none"
      BY <3>1, <3>2, Zenon
    <3> QED
      BY <3>1, <3>2, <3>3, <3>4, Zenon
  <2>2. CASE TimerCallback(k)
    <3>1. call[k].phase # "none" /\ call[k].kind = "plain"
      BY <1>2, <2>2, Zenon DEF TimerCallback, Fine, CallRecords
    <3>2. PICK next \in CallRecords :
            /\ next = [call[k] EXCEPT !.timer = "off"] /\ next.timer = "off" /\ next.kind = call[k].kind
            /\ next.outcome = call[k].outcome /\ next.phase = call[k].phase /\ next.reply = call[k].reply
      BY <1>2, TimerSet, Zenon
    <3>3. Finish(k, 2, next) /\ 2 \in {1, 2} /\ 2 # 1
      BY <2>2, <3>2 DEF TimerCallback
    <3> QED
      BY <3>1, <3>2, <3>3, Zenon
  <2>3. CASE StopFinish(k)
    <3>1. call[k].phase # "none" /\ call[k].kind = "plain"
      BY <1>2, <2>3, Zenon DEF StopFinish, Fine, CallRecords
    <3>2. Finish(k, 2, call[k]) /\ 2 \in {1, 2} /\ 2 # 1
      BY <2>3 DEF StopFinish
    <3> QED
      BY <1>2, <3>1, <3>2, Zenon
  <2> QED
    BY <2>1, <2>2, <2>3, Zenon
<1>4. PICK v \in {1, 2}, next \in CallRecords :
        /\ Finish(k, v, next) /\ next.kind = call[k].kind /\ next.outcome = call[k].outcome
        /\ next.reply = call[k].reply /\ call[k].kind = "plain" /\ call[k].phase # "none" /\ next.phase # "none"
        /\ (next.phase = call[k].phase \/ (call[k].phase = "ran" /\ next.phase = "over"))
        /\ (v = 1 => next.phase = "over")
  BY <1>3, Zenon
<1>5. PICK r \in CallRecords, w \in Nat :
        call' = [call EXCEPT ![k] = r] /\ wakes' = [wakes EXCEPT ![k[1]] = w] /\ r.phase = next.phase
  <2>1. FinishEffect(k, v, next)
    BY <1>4, FinishSets, Zenon
  <2> QED
    BY <2>1, Zenon DEF FinishEffect
<1>6. Executes
  BY <1>1, <1>4, <1>5, SameQueue, Zenon
<1>7. pending' \cup todo' \subseteq pending \cup todo /\ pending' \subseteq Calls /\ todo' \subseteq Calls
  BY <1>1, Zenon
<1>8. next.kind = "plain"
  BY <1>4, Zenon
<1> QED
  BY <1>1, <1>4, <1>6, <1>7, <1>8, FinishKeeps, Zenon

LEMMA ExpireKeeps ==
  ASSUME CoreInv, NEW k \in Calls, Expire(k)
  PROVE  CoreInv'
<1> USE DEF CoreInv
<1>1. /\ call[k].timer = "armed" /\ call' = [call EXCEPT ![k] = [call[k] EXCEPT !.timer = "due"]]
      /\ UNCHANGED <<n, task, wakes, executor, pending, todo>>
  BY Zenon DEF Expire, serverVars
<1>2. Fine(k, call[k], n[k[1]], task[k[1]], pending \cup todo) /\ call[k] \in CallRecords
  BY FollowsAt, SameAt, Zenon
<1>3. PICK r \in CallRecords :
        /\ r = [call[k] EXCEPT !.timer = "due"] /\ r.timer = "due" /\ r.kind = call[k].kind
        /\ r.outcome = call[k].outcome /\ r.phase = call[k].phase /\ r.reply = call[k].reply
  BY <1>2, TimerSet, Zenon
<1>4. call' = [call EXCEPT ![k] = r]
  BY <1>1, <1>3, Zenon
<1>5. Executes
  BY <1>1, <1>3, <1>4, SameQueue, Zenon
<1>6. call[k].phase # "none" /\ call[k].kind = "plain"
  BY <1>1, <1>2, Zenon DEF Fine, CallRecords
<1>7. Fine(k, r, n[k[1]], task[k[1]], pending \cup todo)
  BY <1>2, <1>3, <1>6, Zenon DEF Fine
<1> QED
  BY <1>1, <1>3, <1>4, <1>5, <1>6, <1>7, InPlace, Zenon

LEMMA WriteMuxKeeps ==
  ASSUME CoreInv, NEW k \in Calls, WriteMux(k)
  PROVE  CoreInv'
<1> USE DEF CoreInv
<1>1. Fine(k, call[k], n[k[1]], task[k[1]], pending \cup todo) /\ call[k] \in CallRecords
  BY FollowsAt, SameAt, Zenon
<1>2. call[k].phase = "write" /\ call[k].kind = "mux" /\ UNCHANGED <<n, task, wakes, executor, pending, todo>>
  BY <1>1, Zenon DEF WriteMux, serverVars, Fine, CallRecords
<1>3. PICK reply \in {"none", "ok", "part", "error"} :
        call' = [call EXCEPT ![k] = [[call[k] EXCEPT !.phase = "written"] EXCEPT !.reply = reply]]
  BY Zenon DEF WriteMux, ProvTyped
<1>4. PICK q \in CallRecords :
        /\ q = [call[k] EXCEPT !.phase = "written"] /\ q.phase = "written" /\ q.kind = call[k].kind
        /\ q.outcome = call[k].outcome /\ q.timer = call[k].timer /\ q.reply = call[k].reply
  BY <1>1, PhaseSet, Zenon DEF Phases
<1>5. PICK r \in CallRecords :
        /\ call' = [call EXCEPT ![k] = r] /\ r.phase = "written" /\ r.kind = "mux"
        /\ r.outcome = call[k].outcome /\ r.timer = call[k].timer
  <2>1. PICK r : r = [q EXCEPT !.reply = reply]
    BY Zenon
  <2>2. r \in CallRecords /\ r.phase = q.phase /\ r.kind = q.kind /\ r.timer = q.timer /\ r.outcome = q.outcome
    BY <2>1, Zenon DEF CallRecords
  <2> QED
    BY <1>2, <1>3, <1>4, <2>1, <2>2, Zenon
<1>6. Executes
  BY <1>2, <1>5, SameQueue, Zenon
<1>7. Fine(k, r, n[k[1]], task[k[1]], pending \cup todo)
  BY <1>1, <1>2, <1>5, Zenon DEF Fine, Asking, Admitted, Waiting, Woken
<1>8. call[k].phase # "none"
  BY <1>2, Zenon
<1> QED
  BY <1>2, <1>5, <1>6, <1>7, <1>8, InPlace, Zenon

LEMMA CallStepKeeps ==
  ASSUME CoreInv, NEW k \in Calls, CallStep(k)
  PROVE  CoreInv'
<1> USE DEF CoreInv
<1>1. CASE \/ DoneCounts(k) \/ DoneSchedules(k) \/ LockMux(k) \/ MuxCounts(k)
  <2>1. UNCHANGED <<n, task, wakes, executor, pending, todo>>
    BY <1>1, Zenon DEF DoneCounts, DoneSchedules, LockMux, MuxCounts, serverVars
  <2>2. PICK phase \in Phases :
          /\ call' = [call EXCEPT ![k] = [call[k] EXCEPT !.phase = phase]]
          /\ \/ call[k].kind = "plain" /\ call[k].phase = "called" /\ phase = "ran"
             \/ call[k].kind = "mux" /\ call[k].phase = "called" /\ phase = "answer"
             \/ call[k].phase = "answer" /\ phase = "write"
             \/ call[k].phase = "written" /\ phase = "over"
    BY <1>1, Zenon DEF DoneCounts, DoneSchedules, LockMux, MuxCounts, Phases
  <2> QED
    BY <2>1, <2>2, PhaseKeeps, Zenon
<1> QED
  BY <1>1, EndingKeeps, ExpireKeeps, WriteMuxKeeps, Zenon DEF CallStep

----------------------------------------------------------------------------
(* The server, and the whole specification.                                *)

\* The handler task of a connection is scheduled when the connection is listed.
Served ==
  /\ sock \in [Clients -> {"none", "backlog", "fresh", "open", "closed"}]
  /\ \A c \in Clients : sock[c] \in {"none", "backlog", "fresh"} => task[c] = "none"

LEMMA HandleKeeps ==
  ASSUME CoreInv, NEW c \in Clients, HandleStep(c)
  PROVE  CoreInv'
<1> USE DEF CoreInv
<1>1. CASE Enter(c) \/ LoopEnds(c) \/ ReadFails(c)
  <2>1. /\ task[c] \in {"queued", "loop", "args"} /\ UNCHANGED <<n, call, wakes, executor, pending, todo>>
        /\ \E p \in {"loop", "end"} : task' = [task EXCEPT ![c] = p]
    BY <1>1, Zenon DEF Enter, LoopEnds, ReadFails, leave, goto
  <2>2. PICK p \in Outside : task' = [task EXCEPT ![c] = p]
    BY <2>1, Zenon DEF Outside
  <2>3. task[c] \notin Admitted \cup Waiting
    BY <2>1, Zenon DEF Admitted, Waiting
  <2> QED
    BY <2>1, <2>2, <2>3, LeavesCall, Zenon
<1>2. CASE Resumed(c) \/ LockPlain(c) \/ WritePlain(c) \/ WritePlainFails(c)
  <2>0. Cur(c) \in Calls /\ Fine(Cur(c), call[Cur(c)], n[c], task[c], pending \cup todo) /\ Cur(c)[2] = n[c]
    <3>1. task[c] \notin Outside
      BY <1>2, Zenon DEF Resumed, LockPlain, WritePlain, WritePlainFails, Outside
    <3>2. Cur(c) \in Calls /\ Cur(c)[1] = c /\ Cur(c)[2] = n[c]
      BY <3>1, LatestCall, Zenon
    <3> QED
      BY <3>2, FollowsAt, Zenon
  <2>1. /\ task[c] \in Woken /\ UNCHANGED <<n, wakes, executor, pending, todo>>
        /\ \/ UNCHANGED call
           \/ \E reply \in {"ok", "part"} : call' = [call EXCEPT ![Cur(c)].reply = reply]
    BY <1>2, Zenon DEF Resumed, LockPlain, WritePlain, WritePlainFails, Woken
  <2>2. PICK p \in {"reply", "write", "loop", "end"} :
          task' = [task EXCEPT ![c] = p] /\ (p \in {"reply", "write"} => call[Cur(c)].outcome = 1)
    <3>1. task[c] = "reply" => call[Cur(c)].outcome = 1
      BY <2>0, Zenon DEF Fine
    <3> QED
      BY <1>2, <3>1, Zenon DEF Resumed, LockPlain, WritePlain, WritePlainFails, leave, goto
  <2> QED
    BY <2>1, <2>2, AnswerKeeps, Zenon
<1> QED
  BY <1>1, <1>2, ReadHeaderKeeps, ReadArgsKeeps, AdmitKeeps, SubmitKeeps, RefuseKeeps, YieldKeeps, ResumeKeeps, Zenon
     DEF HandleStep

LEMMA ServerKeeps ==
  ASSUME CoreInv, Served, Start \/ StartAccepting \/ Serve \/ Destroy
  PROVE  CoreInv'
<1> USE DEF CoreInv
<1>1. UNCHANGED <<n, call, wakes, executor, pending, todo>> /\ pending \subseteq Calls /\ todo \subseteq Calls
  BY Zenon DEF Start, StartAccepting, Serve, Destroy, client, ProvTyped
<1>2. CASE UNCHANGED task
  BY <1>1, <1>2, CoreSame, Zenon
<1>3. CASE \E c \in Clients : List(c) \/ TaskCloses(c) \/ TaskEnds(c)
  <2>1. PICK c \in Clients : List(c) \/ TaskCloses(c) \/ TaskEnds(c)
    BY <1>3, Zenon
  <2>2. task[c] \notin Admitted \cup Waiting
    BY <2>1, Zenon DEF List, TaskCloses, TaskEnds, Served, Admitted, Waiting
  <2>3. PICK p \in Outside : task' = [task EXCEPT ![c] = p]
    BY <2>1, Zenon DEF List, TaskCloses, TaskEnds, Outside
  <2> QED
    BY <1>1, <2>2, <2>3, LeavesCall, Zenon
<1> QED
  BY <1>2, <1>3, Zenon DEF Start, StartServer, StartAccepting, Serve, Destroy, acceptStep, Accept, AcceptEnds,
                    ClientConnects, serverVars

LEMMA StopKeeps ==
  ASSUME CoreInv, StopStep
  PROVE  CoreInv'
<1> USE DEF CoreInv
<1>1. CASE StopMark \/ StopServer \/ StopWaits \/ StopReturns
  <2>1. /\ UNCHANGED <<n, call, task, wakes, executor>>
        /\ pending' \cup todo' \subseteq pending \cup todo /\ pending' \subseteq Calls /\ todo' \subseteq Calls
    BY <1>1, Zenon DEF StopMark, StopServer, stopStep, StopExchange, StopTake, StopClose, StopWaits, StopReturns, ProvTyped
  <2> QED
    BY <2>1, CoreSame, Zenon
<1> QED
  BY <1>1, EndingKeeps, Zenon DEF StopStep

LEMMA ServedKeeps ==
  ASSUME ProvTyped, Served, ProviderNext
  PROVE  Served'
<1>1. CASE /\ UNCHANGED sock
           /\ \/ UNCHANGED task
              \/ \E c \in Clients : task[c] # "none" /\ \E p : task' = [task EXCEPT ![c] = p]
  BY <1>1, Zenon DEF Served, ProvTyped
<1>2. CASE Serve
  <2>1. CASE \E c \in Clients : ClientConnects(c)
    BY <2>1, Zenon DEF ClientConnects, Served
  <2>2. CASE Accept
    BY <2>2, Zenon DEF Accept, Backlog, Served
  <2>3. CASE AcceptEnds
    BY <2>3, Zenon DEF AcceptEnds, Served
  <2>4. CASE \E c \in Clients : List(c) \/ TaskCloses(c) \/ TaskEnds(c)
    <3>1. PICK c \in Clients : List(c) \/ TaskCloses(c) \/ TaskEnds(c)
      BY <2>4, Zenon
    <3>2. /\ sock' \in [Clients -> {"none", "backlog", "fresh", "open", "closed"}]
          /\ \A d \in Clients \ {c} : sock'[d] = sock[d] /\ task'[d] = task[d]
      BY <3>1, Zenon DEF List, TaskCloses, TaskEnds, Served, ProvTyped
    <3>3. sock'[c] \notin {"none", "backlog", "fresh"}
      BY <3>1, Zenon DEF List, TaskCloses, TaskEnds, Served
    <3> QED
      BY <3>2, <3>3, Zenon DEF Served
  <2> QED
    BY <1>2, <2>1, <2>2, <2>3, <2>4, Zenon DEF Serve, acceptStep
<1>3. CASE StopServer
  BY <1>3, Zenon DEF StopServer, stopStep, StopExchange, StopTake, StopClose, Served
<1>4. CASE \E c \in Clients : HandleStep(c)
  <2>1. PICK c \in Clients : HandleStep(c)
    BY <1>4, Zenon
  <2>2. UNCHANGED sock /\ task[c] # "none" /\ \E p : task' = [task EXCEPT ![c] = p]
    <3>1. CASE Enter(c) \/ LoopEnds(c) \/ ReadFails(c) \/ ReadHeader(c) \/ ReadArgs(c) \/ Admit(c)
      BY <3>1, Zenon DEF Enter, LoopEnds, ReadFails, ReadHeader, ReadArgs, Admit, leave, goto, sockets
    <3>2. CASE Submit(c) \/ Refuse(c) \/ Yield(c) \/ Resume(c)
      BY <3>2, Zenon DEF Submit, Refuse, Yield, Resume, leave, goto, sockets
    <3>3. CASE Resumed(c) \/ LockPlain(c) \/ WritePlain(c) \/ WritePlainFails(c)
      BY <3>3, Zenon DEF Resumed, LockPlain, WritePlain, WritePlainFails, leave, goto, sockets
    <3> QED
      BY <2>1, <3>1, <3>2, <3>3, Zenon DEF HandleStep
  <2> QED
    BY <1>1, <2>2, Zenon
<1>5. CASE \E k \in Calls : CallStep(k)
  <2>1. UNCHANGED serverVars
    BY <1>5, Zenon DEF CallStep, DoneCounts, DoneFinishes, DoneSchedules, Expire, TimerCallback, LockMux, WriteMux, MuxCounts
  <2> QED
    BY <1>1, <2>1, Zenon DEF serverVars
<1>6. CASE \E t \in Threads : CallService(t) \/ ServiceReturns(t) \/ ServiceThrows(t)
  <2>1. UNCHANGED serverVars
    BY <1>6, Zenon DEF CallService, ServiceReturns, ServiceThrows
  <2> QED
    BY <1>1, <2>1, Zenon DEF serverVars
<1>7. CASE Start \/ StartAccepting \/ Destroy
  BY <1>1, <1>7, Zenon DEF Start, StartServer, StartAccepting, Destroy, serverVars
<1>8. CASE StopStep /\ ~StopServer
  BY <1>1, <1>8, Zenon DEF StopStep, StopMark, StopFinish, StopWaits, StopReturns, serverVars
<1> QED
  BY <1>2, <1>3, <1>4, <1>5, <1>6, <1>7, <1>8, Zenon DEF ProviderNext

LEMMA CoreNext ==
  ASSUME CoreInv, Served, [ProviderNext]_vars
  PROVE  CoreInv' /\ Served'
<1>1. CASE UNCHANGED vars
  <2>1. UNCHANGED <<n, call, task, wakes, executor, pending, todo, sock>> /\ pending \subseteq Calls /\ todo \subseteq Calls
    BY <1>1, Zenon DEF vars, serverVars, CoreInv, ProvTyped
  <2> QED
    BY <2>1, CoreSame, Zenon DEF Served
<1>2. CASE ProviderNext
  <2>1. CoreInv'
    BY <1>2, ServerKeeps, StopKeeps, HandleKeeps, CallStepKeeps, CallServiceKeeps, ServiceReturnsKeeps, ServiceThrowsKeeps, Zenon
       DEF ProviderNext
  <2> QED
    BY <1>2, <2>1, ServedKeeps, Zenon DEF CoreInv
<1> QED
  BY <1>1, <1>2, Zenon

\* The invariant behind the theorems below holds in every behaviour of the
\* provider (rpc.cpp: Handle, the closures, the timer, Stop).
THEOREM ProviderInvariance == ProviderSpec => [](CoreInv /\ Served)
<1>1. ProviderInit => CoreInv /\ Served
  BY CoreInit, Zenon DEF ProviderInit, ServerInit, Served
<1>2. CoreInv /\ Served /\ [ProviderNext]_vars => (CoreInv /\ Served)'
  BY CoreNext, Zenon
<1> QED
  BY <1>1, <1>2, PTL DEF ProviderSpec

\* Whichever of done, the request timer, a throwing service, a full queue and
\* Stop() ends a plain call, its fiber is scheduled exactly once.
THEOREM HandlersWokenOnce == ProviderSpec => []HandlerWokenOnce
<1>1. CoreInv /\ Served => HandlerWokenOnce
  BY Zenon DEF CoreInv
<1> QED
  BY <1>1, ProviderInvariance, PTL

----------------------------------------------------------------------------
(* What is sent for a call.                                                *)

Silent == \A k \in Calls : call'[k].reply = call[k].reply

LEMMA SilentSet ==
  ASSUME ProvTyped, NEW j \in Calls, NEW r, r.reply = call[j].reply, call' = [call EXCEPT ![j] = r]
  PROVE  Silent
BY Zenon DEF ProvTyped, Silent

LEMMA SilentFinish ==
  ASSUME ProvTyped, NEW j \in Calls, NEW v \in {1, 2}, NEW next \in CallRecords, Finish(j, v, next),
         next.reply = call[j].reply
  PROVE  Silent
<1>1. PICK r \in CallRecords : call' = [call EXCEPT ![j] = r] /\ r.reply = call[j].reply
  <2>1. FinishEffect(j, v, next)
    BY FinishSets, Zenon
  <2> QED
    BY <2>1, Zenon DEF FinishEffect
<1> QED
  BY <1>1, SilentSet, Zenon

LEMMA SilentPhase ==
  ASSUME ProvTyped, NEW j \in Calls, NEW phase \in Phases, call' = [call EXCEPT ![j] = [call[j] EXCEPT !.phase = phase]]
  PROVE  Silent
<1>1. call[j] \in CallRecords
  BY SameAt, Zenon
<1>2. PICK r \in CallRecords :
          /\ r = [call[j] EXCEPT !.phase = phase] /\ r.phase = phase /\ r.kind = call[j].kind
          /\ r.outcome = call[j].outcome /\ r.timer = call[j].timer /\ r.reply = call[j].reply
  BY <1>1, PhaseSet, Zenon
<1>3. call' = [call EXCEPT ![j] = r]
  BY <1>2, Zenon
<1> QED
  BY <1>2, <1>3, SilentSet, Zenon

LEMMA SilentTimer ==
  ASSUME ProvTyped, NEW j \in Calls, NEW timer \in {"off", "armed", "due"},
         call' = [call EXCEPT ![j] = [call[j] EXCEPT !.timer = timer]]
  PROVE  Silent
<1>1. call[j] \in CallRecords
  BY SameAt, Zenon
<1>2. PICK r \in CallRecords :
          /\ r = [call[j] EXCEPT !.timer = timer] /\ r.timer = timer /\ r.kind = call[j].kind
          /\ r.outcome = call[j].outcome /\ r.phase = call[j].phase /\ r.reply = call[j].reply
  BY <1>1, TimerSet, Zenon
<1>3. call' = [call EXCEPT ![j] = r]
  BY <1>2, Zenon
<1> QED
  BY <1>2, <1>3, SilentSet, Zenon

LEMMA SilentHandle ==
  ASSUME CoreInv, NEW c \in Clients, HandleStep(c), ~WritePlain(c), ~WritePlainFails(c)
  PROVE  Silent
<1> USE DEF CoreInv
<1>1. CASE UNCHANGED call
  BY <1>1, Zenon DEF Silent
<1>2. CASE ReadArgs(c) \/ Admit(c) \/ Submit(c) \/ Refuse(c) \/ Yield(c) \/ Resume(c)
  <2>1. task[c] \notin Outside
    BY <1>2, Zenon DEF ReadArgs, Admit, Submit, Refuse, Yield, Resume, Outside
  <2>2. PICK k \in Calls : k = Cur(c) /\ call[k] \in CallRecords
    BY <2>1, LatestCall, SameAt, Zenon
  <2>3. CASE ReadArgs(c) /\ ~UNCHANGED call
    <3>1. PICK kind : call' = [call EXCEPT ![k] = [call[k] EXCEPT !.kind = kind]]
      BY <2>2, <2>3, Zenon DEF ReadArgs
    <3>2. [call[k] EXCEPT !.kind = kind].reply = call[k].reply
      BY <2>2, Zenon DEF CallRecords
    <3> QED
      BY <3>1, <3>2, SilentSet, Zenon
  <2>4. CASE Admit(c) \/ Submit(c)
    <3>1. CASE ~UNCHANGED call
      <4>1. PICK phase \in Phases : call' = [call EXCEPT ![k] = [call[k] EXCEPT !.phase = phase]]
        BY <2>2, <2>4, <3>1, Zenon DEF Admit, Submit, Phases
      <4> QED
        BY <4>1, SilentPhase, Zenon
    <3> QED
      BY <1>1, <3>1, Zenon
  <2>5. CASE Refuse(c)
    <3>1. PICK next \in CallRecords :
              /\ next = [call[k] EXCEPT !.phase = "over"] /\ next.phase = "over" /\ next.kind = call[k].kind
              /\ next.outcome = call[k].outcome /\ next.timer = call[k].timer /\ next.reply = call[k].reply
      BY <2>2, PhaseSet, Zenon DEF Phases
    <3>2. Finish(k, 2, next) \/ call' = [call EXCEPT ![k] = next]
      BY <2>2, <2>5, <3>1, Zenon DEF Refuse
    <3>3. 2 \in {1, 2}
      BY Zenon
    <3> QED
      BY <3>1, <3>2, <3>3, SilentFinish, SilentSet, Zenon
  <2>6. CASE Yield(c) \/ Resume(c)
    <3>1. PICK timer \in {"off", "armed", "due"} : call' = [call EXCEPT ![k] = [call[k] EXCEPT !.timer = timer]]
      BY <2>2, <2>6, Zenon DEF Yield, Resume, CallRecords
    <3> QED
      BY <3>1, SilentTimer, Zenon
  <2> QED
    BY <1>1, <1>2, <2>3, <2>4, <2>5, <2>6, Zenon
<1> QED
  BY <1>1, <1>2, Zenon DEF HandleStep, Enter, LoopEnds, ReadFails, ReadHeader, Resumed, LockPlain

LEMMA SilentCall ==
  ASSUME CoreInv, NEW k \in Calls, CallStep(k) \/ StopFinish(k), ~WriteMux(k)
  PROVE  Silent
<1> USE DEF CoreInv
<1>1. call[k] \in CallRecords
  BY SameAt, Zenon
<1>2. CASE DoneCounts(k) \/ DoneSchedules(k) \/ LockMux(k) \/ MuxCounts(k)
  <2>1. PICK phase \in Phases : call' = [call EXCEPT ![k] = [call[k] EXCEPT !.phase = phase]]
    BY <1>2, Zenon DEF DoneCounts, DoneSchedules, LockMux, MuxCounts, Phases
  <2> QED
    BY <2>1, SilentPhase, Zenon
<1>3. CASE DoneFinishes(k)
  <2>1. PICK next \in CallRecords :
            /\ next = [call[k] EXCEPT !.phase = "over"] /\ next.phase = "over" /\ next.kind = call[k].kind
            /\ next.outcome = call[k].outcome /\ next.timer = call[k].timer /\ next.reply = call[k].reply
    BY <1>1, PhaseSet, Zenon DEF Phases
  <2>2. Finish(k, 1, next) /\ 1 \in {1, 2}
    BY <1>3, <2>1, Zenon DEF DoneFinishes
  <2> QED
    BY <2>1, <2>2, SilentFinish, Zenon
<1>4. CASE Expire(k)
  BY <1>4, SilentTimer, Zenon DEF Expire
<1>5. CASE TimerCallback(k)
  <2>1. PICK next \in CallRecords :
            /\ next = [call[k] EXCEPT !.timer = "off"] /\ next.timer = "off" /\ next.kind = call[k].kind
            /\ next.outcome = call[k].outcome /\ next.phase = call[k].phase /\ next.reply = call[k].reply
    BY <1>1, TimerSet, Zenon
  <2>2. Finish(k, 2, next) /\ 2 \in {1, 2}
    BY <1>5, <2>1, Zenon DEF TimerCallback
  <2> QED
    BY <2>1, <2>2, SilentFinish, Zenon
<1>6. CASE StopFinish(k)
  BY <1>1, <1>6, SilentFinish, Zenon DEF StopFinish
<1> QED
  BY <1>2, <1>3, <1>4, <1>5, <1>6, Zenon DEF CallStep

LEMMA SilentService ==
  ASSUME CoreInv, NEW t \in Threads, CallService(t) \/ ServiceReturns(t) \/ ServiceThrows(t)
  PROVE  Silent
<1> USE DEF CoreInv
<1>1. CASE CallService(t)
  <2>1. PICK k \in Calls : k = Head(queue)
    BY <1>1 DEF CallService, ProvTyped
  <2>2. call' = [call EXCEPT ![k] = [call[k] EXCEPT !.phase = "called"]] /\ "called" \in Phases
    BY <1>1, <2>1, Zenon DEF CallService, Phases
  <2> QED
    BY <2>2, SilentPhase, Zenon
<1>2. CASE ServiceReturns(t)
  BY <1>2, Zenon DEF ServiceReturns, Silent
<1>3. CASE ServiceThrows(t)
  <2>1. PICK k \in Calls : k = thread[t] /\ call[k] \in CallRecords
    BY <1>3, Zenon DEF ServiceThrows, ProvTyped
  <2>2. CASE call[k].kind = "plain"
    <3>1. Finish(k, 2, call[k]) /\ 2 \in {1, 2}
      BY <1>3, <2>1, <2>2, Zenon DEF ServiceThrows
    <3> QED
      BY <2>1, <3>1, SilentFinish, Zenon
  <2>3. CASE call[k].kind # "plain"
    <3>1. call' = [call EXCEPT ![k] = [[call[k] EXCEPT !.phase = "answer"] EXCEPT !.outcome = 2]]
      BY <1>3, <2>1, <2>3, Zenon DEF ServiceThrows, ProvTyped
    <3>2. PICK r : r = [[call[k] EXCEPT !.phase = "answer"] EXCEPT !.outcome = 2]
      BY Zenon
    <3>3. r.reply = call[k].reply
      BY <2>1, <3>2, Zenon DEF CallRecords
    <3> QED
      BY <3>1, <3>2, <3>3, SilentSet, Zenon
  <2> QED
    BY <2>2, <2>3, Zenon
<1> QED
  BY <1>1, <1>2, <1>3, Zenon

\* A step that sends something for call k sends it on an open connection; for a
\* plain call, done has been run in time and the call is the latest.
LEMMA SendsEarned ==
  ASSUME CoreInv, ProviderNext, NEW k \in Calls, call'[k].reply # call[k].reply
  PROVE  /\ Open(k[1]) /\ call[k].phase \in {"over", "write"}
         /\ call[k].kind = "plain" => call[k].outcome = 1 /\ Cur(k[1]) = k
<1> USE DEF CoreInv
<1>1. ASSUME NEW c \in Clients, WritePlain(c) \/ WritePlainFails(c)
      PROVE  /\ Open(k[1]) /\ call[k].phase \in {"over", "write"}
             /\ call[k].kind = "plain" => call[k].outcome = 1 /\ Cur(k[1]) = k
  <2>1. task[c] = "write" /\ task[c] \notin Outside
    BY <1>1, Zenon DEF WritePlain, WritePlainFails, Outside
  <2>2. PICK j \in Calls : j = Cur(c) /\ j[1] = c /\ j[2] = n[c]
    BY <2>1, LatestCall, Zenon
  <2>3. Fine(j, call[j], n[j[1]], task[j[1]], pending \cup todo) /\ call[j] \in CallRecords
    BY FollowsAt, SameAt, Zenon
  <2>4. j = k /\ Open(c)
    BY <1>1, <2>2, Zenon DEF WritePlain, WritePlainFails, ProvTyped
  <2>5. call[j].outcome = 1 /\ call[j].phase = "over"
    BY <2>1, <2>2, <2>3, Zenon DEF Fine, Waiting, Woken
  <2> QED
    BY <2>2, <2>4, <2>5, Zenon
<1>2. ASSUME NEW j \in Calls, WriteMux(j)
      PROVE  /\ Open(k[1]) /\ call[k].phase \in {"over", "write"}
             /\ call[k].kind = "plain" => call[k].outcome = 1 /\ Cur(k[1]) = k
  <2>1. Fine(j, call[j], n[j[1]], task[j[1]], pending \cup todo) /\ call[j] \in CallRecords
    BY FollowsAt, SameAt, Zenon
  <2>2. j = k /\ call[j].phase = "write"
    BY <1>2, Zenon DEF WriteMux, ProvTyped
  <2>3. call[j].kind = "mux" /\ call[j].reply = "none"
    BY <2>1, <2>2, Zenon DEF Fine, CallRecords
  <2>4. Open(j[1])
    <3>1. ASSUME ~Open(j[1]) PROVE FALSE
      <4>1. call' = [call EXCEPT ![j] = [[call[j] EXCEPT !.phase = "written"] EXCEPT !.reply = "none"]]
        BY <1>2, <3>1, Zenon DEF WriteMux, ProvTyped
      <4>2. PICK r : r = [[call[j] EXCEPT !.phase = "written"] EXCEPT !.reply = "none"]
        BY Zenon
      <4>3. r.reply = call[j].reply
        BY <2>1, <2>3, <4>2, Zenon DEF CallRecords
      <4>4. Silent
        BY <4>1, <4>2, <4>3, SilentSet, Zenon
      <4> QED
        BY <4>4, Zenon DEF Silent
    <3> QED
      BY <3>1, Zenon
  <2> QED
    BY <2>2, <2>3, <2>4, Zenon
<1>3. ~Silent
  BY Zenon DEF Silent
<1>4. ~UNCHANGED call
  BY Zenon
<1>5. CASE \E c \in Clients : HandleStep(c)
  BY <1>1, <1>3, <1>5, SilentHandle, Zenon
<1>6. CASE \E j \in Calls : CallStep(j) \/ StopFinish(j)
  BY <1>2, <1>3, <1>6, SilentCall, Zenon
<1>7. CASE \E t \in Threads : CallService(t) \/ ServiceReturns(t) \/ ServiceThrows(t)
  BY <1>3, <1>7, SilentService, Zenon
<1>8. CASE Start \/ StartAccepting \/ Serve \/ Destroy \/ StopMark \/ StopServer \/ StopWaits \/ StopReturns
  BY <1>4, <1>8, Zenon DEF Start, StartAccepting, Serve, client, Destroy, StopMark, StopServer, StopWaits, StopReturns
<1> QED
  BY <1>5, <1>6, <1>7, <1>8, Zenon DEF ProviderNext, StopStep

\* An answer is sent only for a call whose done has been run in time, and on its
\* own, open connection.
THEOREM AnswersAreEarned == ProviderSpec => AnswerEarned
<1>1. ASSUME CoreInv, [ProviderNext]_vars
      PROVE  [\A k \in Calls : call'[k].reply # call[k].reply =>
                /\ Open(k[1])
                /\ call[k].phase \in {"over", "write"}
                /\ call[k].kind = "plain" => call[k].outcome = 1 /\ Cur(k[1]) = k]_vars
  BY <1>1, SendsEarned, Zenon
<1> QED
  BY <1>1, ProviderInvariance, PTL DEF ProviderSpec, AnswerEarned
----------------------------------------------------------------------------
(* The counts, and what Stop() makes of them.                              *)

Counting == {"admitted", "queued", "called", "answer", "write", "written"}
Holds(p, kind) == p \in {"arm", "yield", "resumed"} \/ (p \in {"submit", "refuse"} /\ kind = "plain")
MuxUnfinished == {k \in Unfinished : call[k].kind = "mux"}
Held == {c \in Clients : Holds(task[c], call[Cur(c)].kind)}

Exact ==
  /\ outstanding = Cardinality(Unfinished)
  /\ pendingCount = Cardinality(MuxUnfinished) + Cardinality(Held)

\* Stop() has ended the admission of calls, and ~Provider comes after it.
StopInv ==
  /\ stop # "off" => started /\ ~accepting
  /\ gone => stop \in {"true", "false"}

CountInv == (Alive => Exact) /\ StopInv /\ DrainTrue

LEMMA ExactSays == CountsExact <=> (Alive => Exact)
<1>1. MuxUnfinished = {k \in Unfinished : call[k].kind = "mux"}
  BY Zenon DEF MuxUnfinished
<1>2. Held = {c \in Clients :
             \/ task[c] \in {"arm", "yield", "resumed"}
             \/ task[c] \in {"submit", "refuse"} /\ call[Cur(c)].kind = "plain"}
  BY Zenon DEF Held, Holds
<1> QED
  BY <1>1, <1>2, Zenon DEF CountsExact, Exact

LEMMA CountedFinite ==
  /\ IsFiniteSet(Unfinished) /\ Cardinality(Unfinished) \in Nat
  /\ IsFiniteSet(MuxUnfinished) /\ Cardinality(MuxUnfinished) \in Nat
  /\ IsFiniteSet(Held) /\ Cardinality(Held) \in Nat
<1>1. IsFiniteSet(1 .. MaxRequests)
  BY FS_Interval, ProviderAssumption
<1>2. IsFiniteSet(Clients)
  BY ServerAssumption, Zenon
<1>3. IsFiniteSet(Calls)
  BY <1>1, <1>2, FS_Product, Zenon DEF Calls
<1>4. Unfinished \subseteq Calls /\ MuxUnfinished \subseteq Calls /\ Held \subseteq Clients
  BY Zenon DEF Unfinished, MuxUnfinished, Held
<1>5. IsFiniteSet(Unfinished) /\ IsFiniteSet(MuxUnfinished) /\ IsFiniteSet(Held)
  BY <1>2, <1>3, <1>4, FS_Subset, Zenon
<1> QED
  BY <1>5, FS_CardinalityType, Zenon

\* A step, as the counts see it.
KindsKept == \A k \in Calls : call[k].phase # "none" => call'[k].kind = call[k].kind
PhasesKept == \A k \in Calls : call'[k].phase \in Counting <=> call[k].phase \in Counting

NothingRevives ==
  /\ ~gone' => ~gone
  /\ \A c \in Clients : task'[c] \in InHandle => task[c] \in InHandle \/ Alive
  /\ \A k \in Calls : call'[k].phase \notin {"none", "over"} => call[k].phase \notin {"none", "over"} \/ Alive
  /\ \A t \in Threads : thread'[t] # None => thread'[t] = thread[t] \/ call[thread'[t]].phase = "queued"

CountStep ==
  /\ Alive' => Alive
  /\ Alive /\ Exact => Exact'
  /\ Unfinished' \subseteq Unfinished \/ accepting

LEMMA AliveBefore ==
  ASSUME CoreInv, KindsKept, NothingRevives, Alive'
  PROVE  Alive
<1>1. CASE ~gone'
  BY <1>1, Zenon DEF NothingRevives, Alive
<1>2. CASE \E c \in Clients : task'[c] \in InHandle
  BY <1>2, Zenon DEF NothingRevives, Alive
<1>3. ASSUME NEW k \in Calls, call'[k].kind = "mux", call'[k].phase \notin {"none", "over"}
      PROVE  Alive
  BY <1>3, Zenon DEF NothingRevives, KindsKept, Alive
<1>4. ASSUME NEW k \in Calls, call'[k].kind = "mux", NEW t \in Threads, thread'[t] = k
      PROVE  Alive
  <2>0. k # None
    BY ProviderAssumption, Zenon DEF Calls
  <2>1. CASE thread[t] = k
    <3>1. call[k].phase # "none"
      BY <2>0, <2>1, Zenon DEF CoreInv, Queued
    <3> QED
      BY <1>4, <2>1, <3>1, Zenon DEF KindsKept, Alive
  <2>2. CASE call[k].phase = "queued"
    BY <1>4, <2>2, Zenon DEF KindsKept, Alive
  <2> QED
    BY <1>4, <2>0, <2>1, <2>2, Zenon DEF NothingRevives
<1> QED
  BY <1>1, <1>2, <1>3, <1>4, Zenon DEF Alive

LEMMA SetsKept ==
  ASSUME KindsKept, PhasesKept
  PROVE  Unfinished' = Unfinished /\ MuxUnfinished' = MuxUnfinished
<1>1. Unfinished = {k \in Calls : call[k].phase \in Counting}
  BY Zenon DEF Unfinished, Counting
<1>2. Unfinished' = {k \in Calls : call'[k].phase \in Counting}
  BY Zenon DEF Unfinished, Counting
<1>3. Unfinished' = Unfinished
  BY <1>1, <1>2, Zenon DEF PhasesKept
<1>4. \A k \in Unfinished : call'[k].kind = call[k].kind
  BY Zenon DEF Unfinished, KindsKept
<1> QED
  BY <1>3, <1>4, Zenon DEF MuxUnfinished

\* A connection's fiber goes from one place to another, with or without a change
\* of its latest call.
LEMMA HeldMoves ==
  ASSUME CoreInv, NEW c \in Clients, NEW p, task' = [task EXCEPT ![c] = p], n' = n, KindsKept,
         task[c] \notin Outside \/ p \notin {"submit", "refuse"}, NEW kind,
         Cur(c) \in Calls => call'[Cur(c)].kind = kind,
         NEW S, S = IF Holds(p, kind) THEN Held \cup {c} ELSE Held \ {c}
  PROVE  Held' = S
<1> USE DEF CoreInv
<1>1. task'[c] = p /\ \A d \in Clients \ {c} : task'[d] = task[d]
  BY Zenon DEF ProvTyped
<1>2. ASSUME NEW d \in Clients, d # c
      PROVE  Holds(task'[d], call'[<<d, n'[d]>>].kind) <=> Holds(task[d], call[<<d, n[d]>>].kind)
  <2>1. CASE task[d] \in {"submit", "refuse"}
    <3>1. Cur(d) \in Calls /\ Cur(d)[1] = d /\ Cur(d)[2] = n[d]
      BY <2>1, LatestCall, Zenon DEF Outside
    <3>2. Fine(Cur(d), call[Cur(d)], n[d], task[d], pending \cup todo)
      BY <3>1, FollowsAt, Zenon
    <3>3. call[Cur(d)].phase = "admitted"
      BY <2>1, <3>1, <3>2, Zenon DEF Fine, Admitted
    <3> QED
      BY <1>1, <1>2, <3>1, <3>3, Zenon DEF KindsKept, Cur
  <2> QED
    BY <1>1, <1>2, <2>1, Zenon DEF Holds
<1>3. Holds(task'[c], call'[<<c, n'[c]>>].kind) <=> Holds(p, kind)
  <2>1. CASE p \in {"submit", "refuse"}
    BY <1>1, <2>1, LatestCall, Zenon DEF Cur
  <2> QED
    BY <1>1, <2>1, Zenon DEF Holds
<1>4. Held' = {d \in Clients : Holds(task'[d], call'[<<d, n'[d]>>].kind)}
      /\ Held = {d \in Clients : Holds(task[d], call[<<d, n[d]>>].kind)}
  BY Zenon DEF Held, Cur
<1> QED
  BY <1>2, <1>3, <1>4, Zenon

LEMMA HeldKept ==
  ASSUME CoreInv, UNCHANGED <<task, n>>, KindsKept
  PROVE  Held' = Held
<1> USE DEF CoreInv
<1>1. ASSUME NEW d \in Clients
      PROVE  Holds(task'[d], call'[<<d, n'[d]>>].kind) <=> Holds(task[d], call[<<d, n[d]>>].kind)
  <2>1. CASE task[d] \in {"submit", "refuse"}
    <3>1. Cur(d) \in Calls /\ Cur(d)[1] = d /\ Cur(d)[2] = n[d]
      BY <2>1, LatestCall, Zenon DEF Outside
    <3>2. Fine(Cur(d), call[Cur(d)], n[d], task[d], pending \cup todo)
      BY <3>1, FollowsAt, Zenon
    <3>3. call[Cur(d)].phase = "admitted"
      BY <2>1, <3>1, <3>2, Zenon DEF Fine, Admitted
    <3> QED
      BY <3>1, <3>3, Zenon DEF KindsKept, Cur
  <2> QED
    BY <2>1, Zenon DEF Holds
<1>2. Held' = {d \in Clients : Holds(task'[d], call'[<<d, n'[d]>>].kind)}
      /\ Held = {d \in Clients : Holds(task[d], call[<<d, n[d]>>].kind)}
  BY Zenon DEF Held, Cur
<1> QED
  BY <1>1, <1>2, Zenon

\* One call changes, and keeps its kind.
LEMMA OneKept ==
  ASSUME CoreInv, NEW k \in Calls, NEW r, call' = [call EXCEPT ![k] = r], r.kind = call[k].kind
  PROVE  /\ KindsKept
         /\ (r.phase \in Counting <=> call[k].phase \in Counting) => PhasesKept
         /\ r.phase \notin Counting /\ call[k].phase \in Counting =>
              /\ k \in Unfinished /\ Unfinished' = Unfinished \ {k}
              /\ k \in MuxUnfinished <=> r.kind = "mux"
              /\ MuxUnfinished' = MuxUnfinished \ {k}
         /\ r.phase \in Counting /\ call[k].phase \notin Counting =>
              /\ k \notin Unfinished /\ Unfinished' = Unfinished \cup {k}
              /\ k \notin MuxUnfinished
              /\ MuxUnfinished' = IF r.kind = "mux" THEN MuxUnfinished \cup {k} ELSE MuxUnfinished
<1>1. call'[k] = r /\ \A j \in Calls \ {k} : call'[j] = call[j]
  BY Zenon DEF CoreInv, ProvTyped
<1>2. KindsKept
  BY <1>1, Zenon DEF KindsKept
<1>3. (r.phase \in Counting <=> call[k].phase \in Counting) => PhasesKept
  BY <1>1, Zenon DEF PhasesKept
<1>4. /\ Unfinished = {j \in Calls : call[j].phase \in Counting}
      /\ Unfinished' = {j \in Calls : call'[j].phase \in Counting}
  BY Zenon DEF Unfinished, Counting
<1>5. ASSUME r.phase \notin Counting, call[k].phase \in Counting
      PROVE  /\ k \in Unfinished /\ Unfinished' = Unfinished \ {k}
             /\ k \in MuxUnfinished <=> r.kind = "mux"
             /\ MuxUnfinished' = MuxUnfinished \ {k}
  <2>1. k \in Unfinished /\ Unfinished' = Unfinished \ {k}
    BY <1>1, <1>4, <1>5, Zenon
  <2>2. \A j \in Unfinished' : call'[j].kind = call[j].kind
    BY <1>1, <1>4, <2>1, Zenon
  <2>3. k \in MuxUnfinished <=> r.kind = "mux"
    BY <2>1, Zenon DEF MuxUnfinished
  <2>4. MuxUnfinished' = MuxUnfinished \ {k}
    BY <2>1, <2>2, Zenon DEF MuxUnfinished
  <2> QED
    BY <2>1, <2>3, <2>4, Zenon
<1>6. ASSUME r.phase \in Counting, call[k].phase \notin Counting
      PROVE  /\ k \notin Unfinished /\ Unfinished' = Unfinished \cup {k}
             /\ k \notin MuxUnfinished
             /\ MuxUnfinished' = IF r.kind = "mux" THEN MuxUnfinished \cup {k} ELSE MuxUnfinished
  <2>1. k \notin Unfinished /\ Unfinished' = Unfinished \cup {k}
    BY <1>1, <1>4, <1>6, Zenon
  <2>2. \A j \in Unfinished : call'[j].kind = call[j].kind
    BY <1>1, <1>4, <2>1, Zenon
  <2>3. k \notin MuxUnfinished
    BY <2>1, Zenon DEF MuxUnfinished
  <2>4. MuxUnfinished' = IF r.kind = "mux" THEN MuxUnfinished \cup {k} ELSE MuxUnfinished
    BY <1>1, <2>1, <2>2, Zenon DEF MuxUnfinished
  <2> QED
    BY <2>1, <2>3, <2>4, Zenon
<1> QED
  BY <1>2, <1>3, <1>5, <1>6, Zenon

\* A step that the counts need not see.
LEMMA CountsQuiet ==
  ASSUME CoreInv, KindsKept, PhasesKept, NothingRevives, UNCHANGED counts, Held' = Held
  PROVE  CountStep
<1>1. Unfinished' = Unfinished /\ MuxUnfinished' = MuxUnfinished
  BY SetsKept, Zenon
<1>2. Exact => Exact'
  BY <1>1, Zenon DEF Exact, counts
<1>3. Alive' => Alive
  BY AliveBefore, Zenon
<1> QED
  BY <1>1, <1>2, <1>3, Zenon DEF CountStep

\* A step of a call or of the executor.
LEMMA QuietCall ==
  ASSUME CoreInv, NEW k \in Calls, NEW r, call' = [call EXCEPT ![k] = r], r.kind = call[k].kind,
         r.phase \in Counting <=> call[k].phase \in Counting,
         r.phase \notin {"none", "over"} => call[k].phase \notin {"none", "over"},
         \A t \in Threads : thread'[t] # None => thread'[t] = thread[t] \/ call[thread'[t]].phase = "queued",
         UNCHANGED <<task, n, gone, counts>>
  PROVE  CountStep
<1>1. KindsKept /\ PhasesKept
  BY OneKept, Zenon
<1>2. Held' = Held
  BY <1>1, HeldKept, Zenon
<1>3. call'[k] = r /\ \A j \in Calls \ {k} : call'[j] = call[j]
  BY Zenon DEF CoreInv, ProvTyped
<1>4. NothingRevives
  BY <1>3, Zenon DEF NothingRevives
<1> QED
  BY <1>1, <1>2, <1>4, CountsQuiet, Zenon

\* A step of a connection's fiber, which is in Handle(), and of its latest call.
LEMMA QuietFiber ==
  ASSUME CoreInv, NEW c \in Clients, task[c] \in InHandle, NEW p, task' = [task EXCEPT ![c] = p],
         NEW k \in Calls, k = Cur(c), task[c] # "loop", NEW r, call' = [call EXCEPT ![k] = r], r.kind = call[k].kind,
         r.phase \in Counting <=> call[k].phase \in Counting,
         Holds(p, r.kind) <=> Holds(task[c], r.kind),
         UNCHANGED <<n, gone, counts, thread>>
  PROVE  CountStep
<1>1. KindsKept /\ PhasesKept
  BY OneKept, Zenon
<1>2. call'[k] = r /\ \A j \in Calls \ {k} : call'[j] = call[j]
  BY Zenon DEF CoreInv, ProvTyped
<1>3. c \in Held <=> Holds(p, r.kind)
  BY Zenon DEF Held
<1>4. Held' = Held
  <2>1. PICK S : S = IF Holds(p, r.kind) THEN Held \cup {c} ELSE Held \ {c}
    BY Zenon
  <2>2. S = Held
    BY <1>3, <2>1, Zenon
  <2>3. task[c] \notin Outside
    BY Zenon DEF InHandle, Outside
  <2>4. PICK kind : kind = r.kind
    BY Zenon
  <2>5. (task[c] \notin Outside \/ p \notin {"submit", "refuse"}) /\ (Cur(c) \in Calls => call'[Cur(c)].kind = kind)
        /\ S = IF Holds(p, kind) THEN Held \cup {c} ELSE Held \ {c}
    BY <1>2, <2>1, <2>3, <2>4, Zenon
  <2>6. Held' = S
    BY <1>1, <2>5, HeldMoves, Zenon
  <2> QED
    BY <2>2, <2>6, Zenon
<1>5. Alive
  BY Zenon DEF Alive
<1>6. NothingRevives
  BY <1>5, Zenon DEF NothingRevives
<1> QED
  BY <1>1, <1>4, <1>6, CountsQuiet, Zenon

\* A step of a connection's fiber that has no call to wait for.
LEMMA QuietTask ==
  ASSUME CoreInv, NEW c \in Clients, NEW p, task' = [task EXCEPT ![c] = p],
         task[c] \in Outside \cup Asking, p \in Outside, p \in InHandle => task[c] \in InHandle \/ Alive,
         UNCHANGED <<call, n, thread, counts>>, gone' = gone
  PROVE  CountStep
<1>1. KindsKept /\ PhasesKept
  BY Zenon DEF KindsKept, PhasesKept
<1>2. \A kind : ~Holds(p, kind) /\ ~Holds(task[c], kind)
  BY Zenon DEF Holds, Outside, Asking
<1>3. Held' = Held
  <2>1. PICK S : S = Held \ {c}
    BY Zenon
  <2>2. S = Held
    BY <1>2, <2>1, Zenon DEF Held
  <2>3. PICK kind : kind = call[Cur(c)].kind
    BY Zenon
  <2>4. S = IF Holds(p, kind) THEN Held \cup {c} ELSE Held \ {c}
    BY <1>2, <2>1, Zenon
  <2>5. p \notin {"submit", "refuse"}
    BY Zenon DEF Outside
  <2>6. Cur(c) \in Calls => call'[Cur(c)].kind = kind
    BY <2>3, Zenon
  <2>7. Held' = S
    BY <1>1, <2>4, <2>5, <2>6, HeldMoves, Zenon
  <2> QED
    BY <2>2, <2>7, Zenon
<1>4. task'[c] = p /\ \A d \in Clients \ {c} : task'[d] = task[d]
  BY Zenon DEF CoreInv, ProvTyped
<1>5. NothingRevives
  BY <1>4, Zenon DEF NothingRevives
<1> QED
  BY <1>1, <1>3, <1>5, CountsQuiet, Zenon
----------------------------------------------------------------------------
LEMMA ServerCounts ==
  ASSUME CoreInv, Served, Start \/ StartAccepting \/ Serve \/ Destroy \/ StopMark \/ StopServer \/ StopWaits \/ StopReturns
  PROVE  CountStep
<1>1. UNCHANGED <<n, call, thread, counts>> /\ (~gone' => ~gone)
  <2>1. CASE Start \/ StartAccepting \/ Serve
    <3>1. UNCHANGED <<n, call, thread, counts>> /\ gone' = gone
      BY <2>1, Zenon DEF Start, StartAccepting, Serve, client, executor, life
    <3> QED
      BY <3>1, Zenon
  <2>2. CASE Destroy
    BY <2>2, Zenon DEF Destroy, executor
  <2>3. CASE StopMark \/ StopServer \/ StopWaits \/ StopReturns
    <3>1. UNCHANGED <<n, call, thread, counts>> /\ gone' = gone
      BY <2>3, Zenon DEF StopMark, StopServer, StopWaits, StopReturns, executor, life
    <3> QED
      BY <3>1, Zenon
  <2> QED
    BY <2>1, <2>2, <2>3, Zenon
<1>2. CASE UNCHANGED task
  <2>1. KindsKept /\ PhasesKept /\ NothingRevives
    BY <1>1, <1>2, Zenon DEF KindsKept, PhasesKept, NothingRevives
  <2> QED
    BY <1>1, <1>2, <2>1, HeldKept, CountsQuiet, Zenon
<1>3. CASE Serve /\ \E c \in Clients : List(c) \/ TaskCloses(c) \/ TaskEnds(c)
  <2>1. PICK c \in Clients : List(c) \/ TaskCloses(c) \/ TaskEnds(c)
    BY <1>3, Zenon
  <2>2. task[c] \in Outside \cup Asking
    BY <2>1, Zenon DEF List, TaskCloses, TaskEnds, Served, Outside
  <2>3. PICK p \in Outside : task' = [task EXCEPT ![c] = p] /\ p \notin InHandle
    BY <2>1, Zenon DEF List, TaskCloses, TaskEnds, Outside, InHandle
  <2>4. gone' = gone
    BY <1>3, Zenon DEF Serve, client, life
  <2> QED
    BY <1>1, <2>2, <2>3, <2>4, QuietTask, Zenon
<1> QED
  BY <1>2, <1>3, Zenon DEF Start, StartServer, StartAccepting, Serve, Destroy, acceptStep, Accept, AcceptEnds,
     ClientConnects, serverVars, StopMark, StopServer, stopStep, StopExchange, StopTake, StopClose, StopWaits, StopReturns

\* A fiber that has read a request finds it refused, or was only told of it.
LEMMA LeavesCounts ==
  ASSUME CoreInv, NEW c \in Clients, 
         Enter(c) \/ LoopEnds(c) \/ ReadFails(c) \/ (ReadArgs(c) /\ ~Fits) \/ (Admit(c) /\ ~Admissible(c))
  PROVE  CountStep
<1>1. /\ task[c] \in Outside \cup Asking /\ UNCHANGED <<call, n, thread, counts, gone>>
      /\ \E p \in {"loop", "end"} : task' = [task EXCEPT ![c] = p] /\ (p = "loop" => Alive)
  <2>1. CASE Enter(c) \/ LoopEnds(c) \/ ReadFails(c)
    BY <2>1, Zenon DEF Enter, LoopEnds, ReadFails, leave, goto, executor, life, Outside, Asking
  <2>2. CASE (ReadArgs(c) /\ ~Fits) \/ (Admit(c) /\ ~Admissible(c))
    BY <2>2, Zenon DEF ReadArgs, Admit, leave, goto, executor, life, Asking
  <2> QED
    BY <2>1, <2>2, Zenon
<1>2. PICK p \in {"loop", "end"} : task' = [task EXCEPT ![c] = p] /\ (p = "loop" => Alive)
  BY <1>1, Zenon
<1>3. p \in Outside /\ (p \in InHandle => task[c] \in InHandle \/ Alive)
  BY <1>2, Zenon DEF Outside, InHandle
<1> QED
  BY <1>1, <1>2, <1>3, QuietTask, Zenon

LEMMA ReadHeaderCounts ==
  ASSUME CoreInv, NEW c \in Clients, ReadHeader(c)
  PROVE  CountStep
<1> USE DEF CoreInv
<1>1. /\ task[c] = "loop" /\ n' = [n EXCEPT ![c] = n[c] + 1]
      /\ UNCHANGED <<call, thread, counts, gone>>
  BY Zenon DEF ReadHeader, executor, life
<1>2. PICK p \in {"args", "end"} : task' = [task EXCEPT ![c] = p]
  BY Zenon DEF ReadHeader, goto, leave
<1>3. task'[c] = p /\ \A d \in Clients \ {c} : task'[d] = task[d] /\ n'[d] = n[d]
  BY <1>1, <1>2, Zenon DEF ProvTyped
<1>4. Held' = Held
  <2>1. ASSUME NEW d \in Clients
        PROVE  Holds(task'[d], call'[<<d, n'[d]>>].kind) <=> Holds(task[d], call[<<d, n[d]>>].kind)
    <3>1. CASE d = c
      BY <1>1, <1>3, <3>1, Zenon DEF Holds
    <3>2. CASE d # c
      BY <1>1, <1>3, <3>2, Zenon
    <3> QED
      BY <3>1, <3>2, Zenon
  <2>2. Held' = {d \in Clients : Holds(task'[d], call'[<<d, n'[d]>>].kind)}
        /\ Held = {d \in Clients : Holds(task[d], call[<<d, n[d]>>].kind)}
    BY Zenon DEF Held, Cur
  <2> QED
    BY <2>1, <2>2, Zenon
<1>5. Alive
  BY <1>1, Zenon DEF Alive, InHandle
<1>6. KindsKept /\ PhasesKept /\ NothingRevives
  BY <1>1, <1>5, Zenon DEF KindsKept, PhasesKept, NothingRevives
<1> QED
  BY <1>1, <1>4, <1>6, CountsQuiet, Zenon

LEMMA ReadArgsCounts ==
  ASSUME CoreInv, NEW c \in Clients, ReadArgs(c), Fits
  PROVE  CountStep
<1> USE DEF CoreInv
<1>1. PICK k \in Calls : k = Cur(c) /\ k[1] = c /\ k[2] = n[c]
  BY LatestCall, Zenon DEF ReadArgs, Outside
<1>2. /\ task[c] = "args" /\ task' = [task EXCEPT ![c] = "admit"]
      /\ UNCHANGED <<n, thread, counts, gone>>
  BY Zenon DEF ReadArgs, goto, executor, life
<1>3. PICK r : call' = [call EXCEPT ![k] = r] /\ r.phase = call[k].phase
  <2>1. PICK kind : call' = [call EXCEPT ![k].kind = kind]
    BY <1>1, Zenon DEF ReadArgs
  <2>2. PICK r : r = [call[k] EXCEPT !.kind = kind]
    BY Zenon
  <2>3. r.phase = call[k].phase
    BY <2>2, Zenon DEF ProvTyped, CallRecords
  <2> QED
    BY <2>1, <2>2, <2>3, Zenon
<1>4. Fine(k, call[k], n[c], task[c], pending \cup todo)
  BY <1>1, FollowsAt, Zenon
<1>5. call[k].phase = "none"
  BY <1>1, <1>2, <1>4, Zenon DEF Fine, Asking
<1>6. call'[k] = r /\ \A j \in Calls \ {k} : call'[j] = call[j]
  BY <1>3, Zenon DEF ProvTyped
<1>7. Alive
  BY <1>2, Zenon DEF Alive, InHandle
<1>8. KindsKept /\ PhasesKept /\ NothingRevives
  BY <1>2, <1>3, <1>5, <1>6, <1>7, Zenon DEF KindsKept, PhasesKept, NothingRevives
<1>9. Held' = Held
  <2>1. PICK S : S = Held \ {c}
    BY Zenon
  <2>2. S = Held
    BY <1>2, <2>1, Zenon DEF Held, Holds
  <2>3. PICK kind : kind = r.kind
    BY Zenon
  <2>4. /\ S = IF Holds("admit", kind) THEN Held \cup {c} ELSE Held \ {c}
        /\ Cur(c) \in Calls => call'[Cur(c)].kind = kind
        /\ "admit" \notin {"submit", "refuse"}
    BY <1>1, <1>6, <2>1, <2>3, Zenon DEF Holds
  <2>5. Held' = S
    BY <1>2, <1>8, <2>4, HeldMoves, Zenon
  <2> QED
    BY <2>2, <2>5, Zenon
<1> QED
  BY <1>2, <1>8, <1>9, CountsQuiet, Zenon
----------------------------------------------------------------------------
\* The latest call of a fiber that has one, with its record.
LEMMA LatestRecord ==
  ASSUME CoreInv, NEW c \in Clients, task[c] \notin Outside
  PROVE  \E k \in Calls : /\ k = Cur(c) /\ k[1] = c /\ k[2] = n[c] /\ call[k] \in CallRecords
                          /\ Fine(k, call[k], n[c], task[c], pending \cup todo)
<1>1. PICK k \in Calls : k = Cur(c) /\ k[1] = c /\ k[2] = n[c]
  BY LatestCall, Zenon DEF CoreInv
<1>2. call[k] \in CallRecords /\ Fine(k, call[k], n[c], task[c], pending \cup todo)
  BY <1>1, FollowsAt, Zenon DEF CoreInv, ProvTyped
<1> QED
  BY <1>1, <1>2, Zenon

LEMMA SubmitCounts ==
  ASSUME CoreInv, NEW c \in Clients, Submit(c)
  PROVE  CountStep
<1>1. task[c] = "submit" /\ UNCHANGED <<n, thread, counts, gone>>
  BY Zenon DEF Submit, life
<1>2. PICK k \in Calls : /\ k = Cur(c) /\ k[1] = c /\ k[2] = n[c] /\ call[k] \in CallRecords
                         /\ Fine(k, call[k], n[c], task[c], pending \cup todo)
  BY <1>1, LatestRecord, Zenon DEF Outside
<1>3. call[k].phase = "admitted" /\ task[c] \in InHandle /\ task[c] # "loop" /\ call[k].kind \in {"plain", "mux"}
  BY <1>1, <1>2, Zenon DEF Fine, Admitted, InHandle, CallRecords
<1>0. k = Cur(c) /\ task[c] \in InHandle /\ task[c] # "loop"
  BY <1>2, <1>3, Zenon
<1>4. CASE Len(queue) < capacity
  <2>1. PICK r : r = [call[k] EXCEPT !.phase = "queued"]
    BY Zenon
  <2>6. r.phase = "queued" /\ r.kind = call[k].kind
    BY <1>2, <2>1, Zenon DEF CallRecords
  <2>2. call' = [call EXCEPT ![k] = r]
    BY <1>2, <1>4, <2>1, Zenon DEF Submit
  <2>3. PICK p : task' = [task EXCEPT ![c] = p] /\ p = IF call[k].kind = "plain" THEN "arm" ELSE "loop"
    BY <1>2, <1>4, Zenon DEF Submit, goto
  <2>4. Holds(p, r.kind) <=> Holds(task[c], r.kind)
    BY <1>1, <1>3, <2>6, <2>3, Zenon DEF Holds
  <2>5. r.phase \in Counting <=> call[k].phase \in Counting
    BY <1>3, <2>6, Zenon DEF Counting
  <2> QED
    BY <1>0, <1>1, <2>2, <2>3, <2>4, <2>5, <2>6, QuietFiber, Zenon
<1>5. CASE ~(Len(queue) < capacity)
  <2>1. PICK p : task' = [task EXCEPT ![c] = p] /\ p = "refuse"
    BY <1>5, Zenon DEF Submit, goto
  <2>2. call' = call
    BY <1>5, Zenon DEF Submit
  <2>3. PICK r : r = call[k] /\ call' = [call EXCEPT ![k] = r]
    BY <2>2, SameAt, Zenon DEF CoreInv
  <2>4. Holds(p, r.kind) <=> Holds(task[c], r.kind)
    BY <1>1, <2>1, Zenon DEF Holds
  <2>5. r.phase \in Counting <=> call[k].phase \in Counting
    BY <2>3, Zenon
  <2>6. r.kind = call[k].kind
    BY <2>3, Zenon
  <2> QED
    BY <1>0, <1>1, <2>1, <2>3, <2>4, <2>5, <2>6, QuietFiber, Zenon
<1> QED
  BY <1>4, <1>5, Zenon

\* The fiber of a plain call before and after its wait, and when it answers.
LEMMA WaitCounts ==
  ASSUME CoreInv, NEW c \in Clients, Yield(c) \/ Resume(c) \/ LockPlain(c) \/ WritePlain(c) \/ WritePlainFails(c)
  PROVE  CountStep
<1>1. task[c] \in {"arm", "yield", "reply", "write"} /\ UNCHANGED <<n, thread, counts, gone>>
  BY Zenon DEF Yield, Resume, LockPlain, WritePlain, WritePlainFails, life, executor
<1>2. PICK k \in Calls : k = Cur(c) /\ call[k] \in CallRecords
  BY <1>1, LatestRecord, Zenon DEF Outside
<1>3. task[c] \in InHandle /\ task[c] # "loop"
  BY <1>1, Zenon DEF InHandle
<1>4. \E r : /\ call' = [call EXCEPT ![k] = r] /\ r.kind = call[k].kind /\ r.phase = call[k].phase
  <2>1. CASE UNCHANGED call
    BY <2>1, SameAt, Zenon DEF CoreInv
  <2>2. ASSUME NEW v, call' = [call EXCEPT ![k].timer = v] PROVE \E r : /\ call' = [call EXCEPT ![k] = r] /\ r.kind = call[k].kind /\ r.phase = call[k].phase
    <3>1. PICK r : r = [call[k] EXCEPT !.timer = v]
      BY Zenon
    <3>2. r.kind = call[k].kind /\ r.phase = call[k].phase
      BY <1>2, <3>1, Zenon DEF CallRecords
    <3> QED
      BY <2>2, <3>1, <3>2, Zenon
  <2>3. ASSUME NEW v, call' = [call EXCEPT ![k].reply = v] PROVE \E r : /\ call' = [call EXCEPT ![k] = r] /\ r.kind = call[k].kind /\ r.phase = call[k].phase
    <3>1. PICK r : r = [call[k] EXCEPT !.reply = v]
      BY Zenon
    <3>2. r.kind = call[k].kind /\ r.phase = call[k].phase
      BY <1>2, <3>1, Zenon DEF CallRecords
    <3> QED
      BY <2>3, <3>1, <3>2, Zenon
  <2> QED
    BY <1>2, <2>1, <2>2, <2>3, Zenon DEF Yield, Resume, LockPlain, WritePlain, WritePlainFails
<1>5. PICK r : /\ call' = [call EXCEPT ![k] = r] /\ r.kind = call[k].kind /\ r.phase = call[k].phase
  BY <1>4, Zenon
<1>6. \E p : task' = [task EXCEPT ![c] = p] /\ \A kind : Holds(p, kind) <=> Holds(task[c], kind)
  <2>1. CASE Yield(c)
    BY <2>1, Zenon DEF Yield, goto, Holds
  <2>2. CASE Resume(c)
    BY <2>2, Zenon DEF Resume, goto, Holds
  <2>3. CASE LockPlain(c) \/ WritePlain(c) \/ WritePlainFails(c)
    BY <2>3, Zenon DEF LockPlain, WritePlain, WritePlainFails, leave, goto, Holds
  <2> QED
    BY <2>1, <2>2, <2>3, Zenon
<1>7. PICK p : task' = [task EXCEPT ![c] = p] /\ \A kind : Holds(p, kind) <=> Holds(task[c], kind)
  BY <1>6, Zenon
<1> QED
  BY <1>1, <1>2, <1>3, <1>5, <1>7, QuietFiber, Zenon
----------------------------------------------------------------------------
LEMMA PhaseMoves ==
  ASSUME CoreInv, NEW k \in Calls, NEW phase \in Phases, call' = [call EXCEPT ![k] = [call[k] EXCEPT !.phase = phase]]
  PROVE  \E r : call' = [call EXCEPT ![k] = r] /\ r.kind = call[k].kind /\ r.phase = phase
<1>1. PICK r : r = [call[k] EXCEPT !.phase = phase]
  BY Zenon
<1>2. call[k] \in CallRecords
  BY Zenon DEF CoreInv, ProvTyped
<1>3. r.kind = call[k].kind /\ r.phase = phase
  BY <1>1, <1>2, Zenon DEF CallRecords
<1> QED
  BY <1>1, <1>3, Zenon

LEMMA ServiceCounts ==
  ASSUME CoreInv, NEW t \in Threads, CallService(t) \/ ServiceReturns(t)
  PROVE  CountStep
<1> USE DEF CoreInv
<1>1. CASE CallService(t)
  <2>1. /\ queue # <<>> /\ thread' = [thread EXCEPT ![t] = Head(queue)]
        /\ call' = [call EXCEPT ![Head(queue)].phase = "called"] /\ UNCHANGED <<task, n, gone, counts>>
    BY <1>1, Zenon DEF CallService, serverVars, life
  <2>2. PICK k \in Calls : k = Head(queue) /\ call[k].phase = "queued" /\ call[k] \in CallRecords
    <3>1. queue \in Seq(Calls) /\ 1 \in DOMAIN queue /\ Head(queue) = queue[1] /\ Head(queue) \in Calls
      BY <2>1 DEF ProvTyped
    <3>2. call[queue[1]].phase = "queued"
      BY <3>1, Zenon DEF Queued
    <3> QED
      BY <3>1, <3>2, Zenon DEF ProvTyped
  <2>3. "called" \in Phases
    BY Zenon DEF Phases
  <2>4. call' = [call EXCEPT ![k] = [call[k] EXCEPT !.phase = "called"]]
    BY <2>1, <2>2, Zenon
  <2>5. PICK r : call' = [call EXCEPT ![k] = r] /\ r.kind = call[k].kind /\ r.phase = "called"
    BY <2>3, <2>4, PhaseMoves, Zenon
  <2>6. \A u \in Threads : thread'[u] = thread[u] \/ thread'[u] = k
    BY <2>1, <2>2, Zenon DEF ProvTyped
  <2>7. /\ r.phase \in Counting <=> call[k].phase \in Counting
        /\ r.phase \notin {"none", "over"} => call[k].phase \notin {"none", "over"}
    BY <2>2, <2>5, Zenon DEF Counting
  <2>8. \A u \in Threads : thread'[u] # None => thread'[u] = thread[u] \/ call[thread'[u]].phase = "queued"
    BY <2>2, <2>6, Zenon
  <2> QED
    BY <2>1, <2>5, <2>7, <2>8, QuietCall, Zenon
<1>2. CASE ServiceReturns(t)
  <2>1. thread' = [thread EXCEPT ![t] = None] /\ UNCHANGED <<call, task, n, gone, counts>>
    BY <1>2, Zenon DEF ServiceReturns, serverVars, life
  <2>2. \A u \in Threads : thread'[u] # None => thread'[u] = thread[u]
    BY <2>1, Zenon DEF ProvTyped
  <2>3. KindsKept /\ PhasesKept /\ NothingRevives
    BY <2>1, <2>2, Zenon DEF KindsKept, PhasesKept, NothingRevives
  <2> QED
    BY <2>1, <2>3, HeldKept, CountsQuiet, Zenon
<1> QED
  BY <1>1, <1>2, Zenon

\* A call is finished by somebody, or takes a step that is not counted.
LEMMA FinishCounts ==
  ASSUME CoreInv, NEW k \in Calls, NEW v \in {1, 2}, NEW next \in CallRecords, Finish(k, v, next),
         next.kind = call[k].kind, next.phase \in Counting <=> call[k].phase \in Counting,
         next.phase \notin {"none", "over"} => call[k].phase \notin {"none", "over"},
         \A t \in Threads : thread'[t] # None => thread'[t] = thread[t],
         UNCHANGED <<task, n, gone, counts>>
  PROVE  CountStep
<1>0. ProvTyped
  BY Zenon DEF CoreInv
<1>1. PICK r \in CallRecords, w \in Nat :
        /\ call' = [call EXCEPT ![k] = r] /\ wakes' = [wakes EXCEPT ![k[1]] = w]
        /\ r.kind = next.kind /\ r.phase = next.phase /\ r.timer = next.timer /\ r.reply = next.reply
        /\ next.outcome = 0 => r.outcome = v /\ w = wakes[k[1]] + 1
        /\ next.outcome # 0 => r.outcome = next.outcome /\ w = wakes[k[1]]
  <2>1. FinishEffect(k, v, next)
    BY <1>0, FinishSets, Zenon
  <2> QED
    BY <2>1, Zenon DEF FinishEffect
<1>2. /\ r.kind = call[k].kind
      /\ r.phase \in Counting <=> call[k].phase \in Counting
      /\ r.phase \notin {"none", "over"} => call[k].phase \notin {"none", "over"}
  BY <1>1, Zenon
<1>3. \A u \in Threads : thread'[u] # None => thread'[u] = thread[u] \/ call[thread'[u]].phase = "queued"
  BY Zenon
<1> QED
  BY <1>1, <1>2, <1>3, QuietCall, Zenon

LEMMA ThrowCounts ==
  ASSUME CoreInv, NEW t \in Threads, ServiceThrows(t)
  PROVE  CountStep
<1> USE DEF CoreInv
<1>1. /\ thread[t] # None /\ thread' = [thread EXCEPT ![t] = None] /\ UNCHANGED <<task, n, gone, counts>>
  BY Zenon DEF ServiceThrows, serverVars, life
<1>2. PICK k \in Calls : k = thread[t] /\ call[k] \in CallRecords
  BY <1>1, Zenon DEF ProvTyped
<1>3. \A u \in Threads : thread'[u] # None => thread'[u] = thread[u]
  BY <1>1, Zenon DEF ProvTyped
<1>4. CASE call[k].kind = "plain"
  <2>1. PICK next \in CallRecords : next = call[k]
    BY <1>2, Zenon
  <2>2. Finish(k, 2, next)
    BY <1>2, <1>4, <2>1, Zenon DEF ServiceThrows
  <2>3. /\ next.kind = call[k].kind
        /\ next.phase \in Counting <=> call[k].phase \in Counting
        /\ next.phase \notin {"none", "over"} => call[k].phase \notin {"none", "over"}
    BY <2>1, Zenon
  <2>4. 2 \in {1, 2}
    BY Zenon
  <2> QED
    BY <1>1, <1>3, <2>2, <2>3, <2>4, FinishCounts, Zenon
<1>5. CASE call[k].kind # "plain"
  <2>1. call[k].phase = "called" /\ call' = [call EXCEPT ![k].phase = "answer", ![k].outcome = 2]
    BY <1>2, <1>5, Zenon DEF ServiceThrows
  <2>2. PICK r : r = [[call[k] EXCEPT !.phase = "answer"] EXCEPT !.outcome = 2]
    BY Zenon
  <2>3. r.kind = call[k].kind /\ r.phase = "answer"
    BY <1>2, <2>2, Zenon DEF CallRecords
  <2>4. call' = [call EXCEPT ![k] = r]
    BY <1>2, <2>1, <2>2, Zenon DEF ProvTyped
  <2>5. /\ r.phase \in Counting <=> call[k].phase \in Counting
        /\ r.phase \notin {"none", "over"} => call[k].phase \notin {"none", "over"}
    BY <2>1, <2>3, Zenon DEF Counting
  <2>6. \A u \in Threads : thread'[u] # None => thread'[u] = thread[u] \/ call[thread'[u]].phase = "queued"
    BY <1>3, Zenon
  <2> QED
    BY <1>1, <2>3, <2>4, <2>5, <2>6, QuietCall, Zenon
<1> QED
  BY <1>4, <1>5, Zenon

\* done, the request timer and Stop() finish a plain call.
LEMMA EndingCounts ==
  ASSUME CoreInv, NEW k \in Calls, DoneFinishes(k) \/ TimerCallback(k) \/ StopFinish(k)
  PROVE  CountStep
<1>1. UNCHANGED <<task, n, gone, counts, thread>>
  BY Zenon DEF DoneFinishes, TimerCallback, StopFinish, serverVars, life, executor
<1>2. call[k] \in CallRecords
  BY Zenon DEF CoreInv, ProvTyped
<1>3. \E v \in {1, 2}, next \in CallRecords :
        /\ Finish(k, v, next) /\ next.kind = call[k].kind
        /\ (next.phase = call[k].phase \/ (call[k].phase = "ran" /\ next.phase = "over"))
  <2>1. CASE DoneFinishes(k)
    <3>1. PICK next : next = [call[k] EXCEPT !.phase = "over"]
      BY Zenon
    <3>2. next \in CallRecords /\ next.kind = call[k].kind /\ next.phase = "over"
      BY <1>2, <3>1, Zenon DEF CallRecords, Phases
    <3>3. call[k].phase = "ran" /\ Finish(k, 1, next) /\ 1 \in {1, 2}
      BY <2>1, <3>1, Zenon DEF DoneFinishes
    <3> QED
      BY <3>2, <3>3, Zenon
  <2>2. CASE TimerCallback(k)
    <3>1. PICK next : next = [call[k] EXCEPT !.timer = "off"]
      BY Zenon
    <3>2. next \in CallRecords /\ next.kind = call[k].kind /\ next.phase = call[k].phase
      BY <1>2, <3>1, Zenon DEF CallRecords
    <3>3. Finish(k, 2, next) /\ 2 \in {1, 2}
      BY <2>2, <3>1, Zenon DEF TimerCallback
    <3> QED
      BY <3>2, <3>3, Zenon
  <2>3. CASE StopFinish(k)
    <3>1. Finish(k, 2, call[k]) /\ 2 \in {1, 2}
      BY <2>3, Zenon DEF StopFinish
    <3> QED
      BY <1>2, <3>1, Zenon
  <2> QED
    BY <2>1, <2>2, <2>3, Zenon
<1>4. PICK v \in {1, 2}, next \in CallRecords :
        /\ Finish(k, v, next) /\ next.kind = call[k].kind
        /\ (next.phase = call[k].phase \/ (call[k].phase = "ran" /\ next.phase = "over"))
  BY <1>3, Zenon
<1>5. /\ next.phase \in Counting <=> call[k].phase \in Counting
      /\ next.phase \notin {"none", "over"} => call[k].phase \notin {"none", "over"}
  BY <1>4, Zenon DEF Counting
<1>6. \A t \in Threads : thread'[t] # None => thread'[t] = thread[t]
  BY <1>1, Zenon
<1> QED
  BY <1>1, <1>4, <1>5, <1>6, FinishCounts, Zenon

\* The steps of a mux call up to its answer, and the expiry of a timer.
LEMMA AnswerCounts ==
  ASSUME CoreInv, NEW k \in Calls, DoneSchedules(k) \/ LockMux(k) \/ WriteMux(k) \/ Expire(k)
  PROVE  CountStep
<1>1. UNCHANGED <<task, n, gone, counts, thread>>
  BY Zenon DEF DoneSchedules, LockMux, WriteMux, Expire, serverVars, life, executor
<1>2. call[k] \in CallRecords
  BY Zenon DEF CoreInv, ProvTyped
<1>3. \E r : /\ call' = [call EXCEPT ![k] = r] /\ r.kind = call[k].kind
             /\ \/ r.phase = call[k].phase
                \/ r.phase \in Counting /\ call[k].phase \in {"called", "answer", "write"}
  <2>1. CASE DoneSchedules(k) \/ LockMux(k)
    <3>1. PICK phase \in Phases :
            /\ call' = [call EXCEPT ![k] = [call[k] EXCEPT !.phase = phase]] /\ phase \in {"answer", "write"}
            /\ call[k].phase \in {"called", "answer"}
      BY <2>1, Zenon DEF DoneSchedules, LockMux, Phases
    <3>2. phase \in Counting
      BY <3>1, Zenon DEF Counting
    <3> QED
      <4>1. PICK r : call' = [call EXCEPT ![k] = r] /\ r.kind = call[k].kind /\ r.phase = phase
        BY <3>1, PhaseMoves, Zenon
      <4> QED
        BY <3>1, <3>2, <4>1, Zenon
  <2>2. CASE WriteMux(k)
    <3>1. PICK reply : call' = [call EXCEPT ![k] = [[call[k] EXCEPT !.phase = "written"] EXCEPT !.reply = reply]]
      BY <2>2, Zenon DEF WriteMux, CoreInv, ProvTyped
    <3>2. PICK r : r = [[call[k] EXCEPT !.phase = "written"] EXCEPT !.reply = reply]
      BY Zenon
    <3>3. r.kind = call[k].kind /\ r.phase = "written"
      BY <1>2, <3>2, Zenon DEF CallRecords
    <3>4. call' = [call EXCEPT ![k] = r]
      BY <3>1, <3>2, Zenon
    <3>5. call[k].phase = "write" /\ r.phase \in Counting
      BY <2>2, <3>3, Zenon DEF WriteMux, Counting
    <3> QED
      BY <3>3, <3>4, <3>5, Zenon
  <2>3. CASE Expire(k)
    <3>1. PICK r : r = [call[k] EXCEPT !.timer = "due"]
      BY Zenon
    <3>2. r.kind = call[k].kind /\ r.phase = call[k].phase
      BY <1>2, <3>1, Zenon DEF CallRecords
    <3> QED
      BY <2>3, <3>1, <3>2, Zenon DEF Expire
  <2> QED
    BY <2>1, <2>2, <2>3, Zenon
<1>4. PICK r : /\ call' = [call EXCEPT ![k] = r] /\ r.kind = call[k].kind
               /\ \/ r.phase = call[k].phase
                  \/ r.phase \in Counting /\ call[k].phase \in {"called", "answer", "write"}
  BY <1>3, Zenon
<1>5. /\ r.phase \in Counting <=> call[k].phase \in Counting
      /\ r.phase \notin {"none", "over"} => call[k].phase \notin {"none", "over"}
  BY <1>4, Zenon DEF Counting
<1>6. \A t \in Threads : thread'[t] # None => thread'[t] = thread[t] \/ call[thread'[t]].phase = "queued"
  BY <1>1, Zenon
<1> QED
  BY <1>1, <1>4, <1>5, <1>6, QuietCall, Zenon
----------------------------------------------------------------------------
(* The steps that count.                                                   *)

LEMMA CardOneMore ==
  ASSUME NEW S, NEW T, NEW x, IsFiniteSet(S), x \notin S, T = S \cup {x}
  PROVE  Cardinality(T) = Cardinality(S) + 1 /\ Cardinality(S) \in Nat
BY FS_AddElement, FS_CardinalityType, Zenon

LEMMA CardOneLess ==
  ASSUME NEW S, NEW T, NEW x, IsFiniteSet(S), x \in S, T = S \ {x}
  PROVE  Cardinality(T) = Cardinality(S) - 1 /\ Cardinality(S) \in Nat
BY FS_RemoveElement, FS_CardinalityType, Zenon

LEMMA AdmitCounts ==
  ASSUME CoreInv, NEW c \in Clients, Admit(c), Admissible(c)
  PROVE  CountStep
<1>1. /\ task[c] = "admit" /\ task' = [task EXCEPT ![c] = "submit"] /\ UNCHANGED <<n, thread, gone>>
      /\ outstanding' = outstanding + 1 /\ pendingCount' = pendingCount + 1 /\ accepting
  BY Zenon DEF Admit, goto, executor, life, Admissible
<1>2. PICK k \in Calls : /\ k = Cur(c) /\ k[1] = c /\ k[2] = n[c] /\ call[k] \in CallRecords
                         /\ Fine(k, call[k], n[c], task[c], pending \cup todo)
  BY <1>1, LatestRecord, Zenon DEF Outside
<1>3. call[k].phase = "none" /\ call[k].kind \in {"plain", "mux"}
  BY <1>1, <1>2, Zenon DEF Fine, Asking, CallRecords
<1>4. PICK r : r = [call[k] EXCEPT !.phase = "admitted"]
  BY Zenon
<1>5. r.phase = "admitted" /\ r.kind = call[k].kind
  BY <1>2, <1>4, Zenon DEF CallRecords
<1>6. call' = [call EXCEPT ![k] = r]
  BY <1>2, <1>4, Zenon DEF Admit
<1>7. r.phase \in Counting /\ call[k].phase \notin Counting
  BY <1>3, <1>5, Zenon DEF Counting
<1>8. /\ KindsKept /\ k \notin Unfinished /\ Unfinished' = Unfinished \cup {k} /\ k \notin MuxUnfinished
      /\ MuxUnfinished' = IF r.kind = "mux" THEN MuxUnfinished \cup {k} ELSE MuxUnfinished
  BY <1>5, <1>6, <1>7, OneKept, Zenon
<1>9. c \notin Held
  BY <1>1, Zenon DEF Held, Holds
<1>10. PICK S : S = IF Holds("submit", r.kind) THEN Held \cup {c} ELSE Held \ {c}
  BY Zenon
<1>11. Held' = S
  <2>1. PICK kind : kind = r.kind
    BY Zenon
  <2>2. call'[k] = r
    BY <1>6, Zenon DEF CoreInv, ProvTyped
  <2>3. /\ task[c] \notin Outside \/ "submit" \notin {"submit", "refuse"}
        /\ Cur(c) \in Calls => call'[Cur(c)].kind = kind
        /\ S = IF Holds("submit", kind) THEN Held \cup {c} ELSE Held \ {c}
    BY <1>1, <1>2, <1>10, <2>1, <2>2, Zenon DEF Outside
  <2> QED
    BY <1>1, <1>8, <2>3, HeldMoves, Zenon
<1>12. /\ Cardinality(Unfinished') = Cardinality(Unfinished) + 1
       /\ Cardinality(MuxUnfinished') + Cardinality(Held') = Cardinality(MuxUnfinished) + Cardinality(Held) + 1
  <2>1. Cardinality(Unfinished') = Cardinality(Unfinished) + 1
    BY <1>8, CountedFinite, CardOneMore, Zenon
  <2>2. CASE r.kind = "mux"
    <3>1. Held' = Held
      BY <1>9, <1>10, <1>11, <2>2, Zenon DEF Holds
    <3>2. MuxUnfinished' = MuxUnfinished \cup {k}
      BY <1>8, <2>2, Zenon
    <3>3. Cardinality(MuxUnfinished') = Cardinality(MuxUnfinished) + 1
      BY <1>8, <3>2, CountedFinite, CardOneMore, Zenon
    <3> QED
      BY <2>1, <3>1, <3>3, CountedFinite
  <2>3. CASE r.kind = "plain"
    <3>1. Held' = Held \cup {c}
      BY <1>10, <1>11, <2>3, Zenon DEF Holds
    <3>2. MuxUnfinished' = MuxUnfinished
      BY <1>8, <2>3, Zenon
    <3>3. Cardinality(Held') = Cardinality(Held) + 1
      BY <1>9, <3>1, CountedFinite, CardOneMore, Zenon
    <3> QED
      BY <2>1, <3>2, <3>3, CountedFinite
  <2> QED
    BY <1>3, <1>5, <2>2, <2>3, Zenon
<1>13. Exact => Exact'
  BY <1>1, <1>12, Zenon DEF Exact
<1>14. Alive
  BY <1>1, Zenon DEF Alive, InHandle
<1> QED
  BY <1>1, <1>13, <1>14, Zenon DEF CountStep

\* The end of a counted call, as the counts see it.
LEMMA CallUncounted ==
  ASSUME CoreInv, NEW k \in Calls, NEW r, call' = [call EXCEPT ![k] = r], r.kind = call[k].kind,
         r.phase \notin Counting, call[k].phase \in Counting, r.kind \in {"plain", "mux"}
  PROVE  /\ KindsKept /\ Unfinished' \subseteq Unfinished
         /\ Cardinality(Unfinished') = Cardinality(Unfinished) - 1
         /\ r.kind = "plain" => Cardinality(MuxUnfinished') = Cardinality(MuxUnfinished)
         /\ r.kind = "mux" => Cardinality(MuxUnfinished') = Cardinality(MuxUnfinished) - 1
<1>1. /\ KindsKept /\ k \in Unfinished /\ Unfinished' = Unfinished \ {k}
      /\ (k \in MuxUnfinished <=> r.kind = "mux") /\ MuxUnfinished' = MuxUnfinished \ {k}
  BY OneKept, Zenon
<1>2. Cardinality(Unfinished') = Cardinality(Unfinished) - 1
  BY <1>1, CountedFinite, CardOneLess, Zenon
<1>3. CASE r.kind = "mux"
  <2>1. Cardinality(MuxUnfinished') = Cardinality(MuxUnfinished) - 1
    BY <1>1, <1>3, CountedFinite, CardOneLess, Zenon
  <2> QED
    BY <1>1, <1>2, <1>3, <2>1, Zenon
<1>4. CASE r.kind = "plain"
  <2>1. MuxUnfinished' = MuxUnfinished
    BY <1>1, <1>4, Zenon
  <2> QED
    BY <1>1, <1>2, <1>4, <2>1, Zenon
<1> QED
  BY <1>3, <1>4, Zenon

LEMMA DoneCountsStep ==
  ASSUME CoreInv, NEW k \in Calls, DoneCounts(k)
  PROVE  CountStep
<1>1. /\ call[k].kind = "plain" /\ call[k].phase = "called" /\ call' = [call EXCEPT ![k] = [call[k] EXCEPT !.phase = "ran"]]
      /\ UNCHANGED <<task, n, gone, thread, pendingCount>> /\ (Alive => outstanding' = outstanding - 1)
  BY Zenon DEF DoneCounts, serverVars, life, executor
<1>2. "ran" \in Phases
  BY Zenon DEF Phases
<1>3. PICK r : call' = [call EXCEPT ![k] = r] /\ r.kind = call[k].kind /\ r.phase = "ran"
  BY <1>1, <1>2, PhaseMoves, Zenon
<1>4. r.phase \notin Counting /\ call[k].phase \in Counting /\ r.kind \in {"plain", "mux"} /\ r.kind = "plain"
  BY <1>1, <1>3, Zenon DEF Counting
<1>5. /\ KindsKept /\ Unfinished' \subseteq Unfinished
      /\ Cardinality(Unfinished') = Cardinality(Unfinished) - 1
      /\ Cardinality(MuxUnfinished') = Cardinality(MuxUnfinished)
  BY <1>3, <1>4, CallUncounted, Zenon
<1>6. Held' = Held
  BY <1>1, <1>5, HeldKept, Zenon
<1>7. \A j \in Calls \ {k} : call'[j] = call[j]
  BY <1>3, Zenon DEF CoreInv, ProvTyped
<1>8. NothingRevives
  BY <1>1, <1>7, Zenon DEF NothingRevives
<1>9. Alive' => Alive
  BY <1>5, <1>8, AliveBefore, Zenon
<1>10. Alive /\ Exact => Exact'
  <2> HAVE Alive /\ Exact
  <2>1. outstanding' = outstanding - 1 /\ pendingCount' = pendingCount
    BY <1>1, Zenon
  <2>2. outstanding' = Cardinality(Unfinished')
    BY <1>5, <2>1, Zenon DEF Exact
  <2>3. pendingCount' = Cardinality(MuxUnfinished') + Cardinality(Held')
    BY <1>5, <1>6, <2>1, Zenon DEF Exact
  <2> QED
    BY <2>2, <2>3, Zenon DEF Exact
<1> QED
  BY <1>5, <1>9, <1>10, Zenon DEF CountStep

LEMMA MuxCountsStep ==
  ASSUME CoreInv, NEW k \in Calls, MuxCounts(k)
  PROVE  CountStep
<1>1. /\ call[k].phase = "written" /\ call' = [call EXCEPT ![k] = [call[k] EXCEPT !.phase = "over"]]
      /\ UNCHANGED <<task, n, gone, thread>> /\ outstanding' = outstanding - 1 /\ pendingCount' = pendingCount - 1
  BY Zenon DEF MuxCounts, serverVars, life, executor
<1>2. call[k] \in CallRecords /\ Fine(k, call[k], n[k[1]], task[k[1]], pending \cup todo)
  BY FollowsAt, Zenon DEF CoreInv, ProvTyped
<1>3. call[k].kind = "mux" /\ "over" \in Phases
  BY <1>1, <1>2, Zenon DEF Fine, CallRecords, Phases
<1>4. PICK r : call' = [call EXCEPT ![k] = r] /\ r.kind = call[k].kind /\ r.phase = "over"
  BY <1>1, <1>3, PhaseMoves, Zenon
<1>5. r.phase \notin Counting /\ call[k].phase \in Counting /\ r.kind \in {"plain", "mux"} /\ r.kind = "mux"
  BY <1>1, <1>3, <1>4, Zenon DEF Counting
<1>6. /\ KindsKept /\ Unfinished' \subseteq Unfinished
      /\ Cardinality(Unfinished') = Cardinality(Unfinished) - 1
      /\ Cardinality(MuxUnfinished') = Cardinality(MuxUnfinished) - 1
  BY <1>4, <1>5, CallUncounted, Zenon
<1>7. Held' = Held
  BY <1>1, <1>6, HeldKept, Zenon
<1>8. call'[k] = r /\ \A j \in Calls \ {k} : call'[j] = call[j]
  BY <1>4, Zenon DEF CoreInv, ProvTyped
<1>9. NothingRevives
  BY <1>1, <1>4, <1>8, Zenon DEF NothingRevives
<1>10. Alive' => Alive
  BY <1>6, <1>9, AliveBefore, Zenon
<1>11. Exact => Exact'
  BY <1>1, <1>6, <1>7, CountedFinite DEF Exact
<1> QED
  BY <1>6, <1>10, <1>11, Zenon DEF CountStep

LEMMA ResumedCounts ==
  ASSUME CoreInv, NEW c \in Clients, Resumed(c)
  PROVE  CountStep
<1>1. /\ task[c] = "resumed" /\ UNCHANGED <<n, call, outstanding>> /\ pendingCount' = pendingCount - 1
      /\ \E p \in {"reply", "end"} : task' = [task EXCEPT ![c] = p]
  BY Zenon DEF Resumed, leave, goto
<1>2. PICK p \in {"reply", "end"} : task' = [task EXCEPT ![c] = p]
  BY <1>1, Zenon
<1>3. KindsKept /\ PhasesKept
  BY <1>1, Zenon DEF KindsKept, PhasesKept
<1>4. c \in Held
  BY <1>1, Zenon DEF Held, Holds
<1>5. PICK S : S = Held \ {c}
  BY Zenon
<1>6. Held' = S
  <2>1. PICK kind : kind = call'[Cur(c)].kind
    BY Zenon
  <2>2. p \notin {"submit", "refuse"}
    BY Zenon
  <2>3. S = IF Holds(p, kind) THEN Held \cup {c} ELSE Held \ {c}
    BY <1>5, Zenon DEF Holds
  <2>4. Cur(c) \in Calls => call'[Cur(c)].kind = kind
    BY <2>1, Zenon
  <2>5. n' = n /\ KindsKept /\ task' = [task EXCEPT ![c] = p]
    BY <1>1, <1>2, <1>3, Zenon
  <2> QED
    BY <2>2, <2>3, <2>4, <2>5, HeldMoves, Zenon
<1>7. Cardinality(Held') = Cardinality(Held) - 1
  BY <1>4, <1>5, <1>6, CountedFinite, CardOneLess, Zenon
<1>8. Unfinished' = Unfinished /\ MuxUnfinished' = MuxUnfinished
  BY <1>3, SetsKept, Zenon
<1>9. Exact => Exact'
  BY <1>1, <1>7, <1>8, CountedFinite DEF Exact
<1>10. Alive
  BY <1>1, Zenon DEF Alive, InHandle
<1> QED
  BY <1>8, <1>9, <1>10, Zenon DEF CountStep

LEMMA RefuseCounts ==
  ASSUME CoreInv, NEW c \in Clients, Refuse(c)
  PROVE  CountStep
<1>1. /\ task[c] = "refuse" /\ UNCHANGED n /\ outstanding' = outstanding - 1
  BY Zenon DEF Refuse
<1>2. PICK k \in Calls : /\ k = Cur(c) /\ k[1] = c /\ k[2] = n[c] /\ call[k] \in CallRecords
                         /\ Fine(k, call[k], n[c], task[c], pending \cup todo)
  BY <1>1, LatestRecord, Zenon DEF Outside
<1>3. call[k].phase = "admitted" /\ call[k].kind \in {"plain", "mux"}
  BY <1>1, <1>2, Zenon DEF Fine, Admitted, CallRecords
<1>4. PICK next : next = [call[k] EXCEPT !.phase = "over"]
  BY Zenon
<1>5. next \in CallRecords /\ next.kind = call[k].kind /\ next.phase = "over"
  BY <1>2, <1>4, Zenon DEF CallRecords, Phases
<1>6. Alive
  BY <1>1, Zenon DEF Alive, InHandle
<1>7. CASE call[k].kind = "plain"
  <2>1. task' = [task EXCEPT ![c] = "arm"] /\ Finish(k, 2, next) /\ pendingCount' = pendingCount
    BY <1>2, <1>4, <1>7, Zenon DEF Refuse, goto
  <2>2. ProvTyped /\ 2 \in {1, 2}
    BY Zenon DEF CoreInv
  <2>3. PICK r \in CallRecords, w \in Nat :
          /\ call' = [call EXCEPT ![k] = r] /\ wakes' = [wakes EXCEPT ![k[1]] = w]
          /\ r.kind = next.kind /\ r.phase = next.phase /\ r.timer = next.timer /\ r.reply = next.reply
          /\ next.outcome = 0 => r.outcome = 2 /\ w = wakes[k[1]] + 1
          /\ next.outcome # 0 => r.outcome = next.outcome /\ w = wakes[k[1]]
    <3>1. FinishEffect(k, 2, next)
      BY <1>5, <2>1, <2>2, FinishSets, Zenon
    <3> QED
      BY <3>1, Zenon DEF FinishEffect
  <2>4. /\ r.kind = call[k].kind /\ r.phase \notin Counting /\ call[k].phase \in Counting
        /\ r.kind \in {"plain", "mux"} /\ r.kind = "plain"
    BY <1>3, <1>5, <1>7, <2>3, Zenon DEF Counting
  <2>5. /\ KindsKept /\ Unfinished' \subseteq Unfinished
        /\ Cardinality(Unfinished') = Cardinality(Unfinished) - 1
        /\ Cardinality(MuxUnfinished') = Cardinality(MuxUnfinished)
    BY <2>3, <2>4, CallUncounted, Zenon
  <2>6. c \in Held
    <3>1. Holds(task[c], call[Cur(c)].kind)
      BY <1>1, <1>2, <1>7, Zenon DEF Holds
    <3> QED
      BY <3>1, Zenon DEF Held
  <2>7. PICK S : S = Held \cup {c}
    BY Zenon
  <2>8. Held' = S
    <3>1. PICK kind : kind = call'[Cur(c)].kind
      BY Zenon
    <3>2. "arm" \notin {"submit", "refuse"}
      BY Zenon
    <3>3. S = IF Holds("arm", kind) THEN Held \cup {c} ELSE Held \ {c}
      BY <2>7, Zenon DEF Holds
    <3>4. Cur(c) \in Calls => call'[Cur(c)].kind = kind
      BY <3>1, Zenon
    <3> QED
      BY <1>1, <2>1, <2>5, <3>2, <3>3, <3>4, HeldMoves, Zenon
  <2>9. Held' = Held
    BY <2>6, <2>7, <2>8, Zenon
  <2>10. Exact => Exact'
    BY <1>1, <2>1, <2>5, <2>9, CountedFinite, Zenon DEF Exact
  <2> QED
    BY <1>6, <2>5, <2>10, Zenon DEF CountStep
<1>8. CASE call[k].kind = "mux"
  <2>1. task' = [task EXCEPT ![c] = "end"] /\ call' = [call EXCEPT ![k] = next] /\ pendingCount' = pendingCount - 1
    BY <1>2, <1>4, <1>8, Zenon DEF Refuse, leave, goto
  <2>2. /\ next.phase \notin Counting /\ call[k].phase \in Counting
        /\ next.kind \in {"plain", "mux"} /\ next.kind = "mux"
    BY <1>3, <1>5, <1>8, Zenon DEF Counting
  <2>3. /\ KindsKept /\ Unfinished' \subseteq Unfinished
        /\ Cardinality(Unfinished') = Cardinality(Unfinished) - 1
        /\ Cardinality(MuxUnfinished') = Cardinality(MuxUnfinished) - 1
    BY <1>5, <2>1, <2>2, CallUncounted, Zenon
  <2>4. c \notin Held
    <3>1. ~Holds(task[c], call[Cur(c)].kind)
      BY <1>1, <1>2, <1>8, Zenon DEF Holds
    <3> QED
      BY <3>1, Zenon DEF Held
  <2>5. PICK S : S = Held \ {c}
    BY Zenon
  <2>6. Held' = S
    <3>1. PICK kind : kind = call'[Cur(c)].kind
      BY Zenon
    <3>2. "end" \notin {"submit", "refuse"}
      BY Zenon
    <3>3. S = IF Holds("end", kind) THEN Held \cup {c} ELSE Held \ {c}
      BY <2>5, Zenon DEF Holds
    <3>4. Cur(c) \in Calls => call'[Cur(c)].kind = kind
      BY <3>1, Zenon
    <3> QED
      BY <1>1, <2>1, <2>3, <3>2, <3>3, <3>4, HeldMoves, Zenon
  <2>7. Held' = Held
    BY <2>4, <2>5, <2>6, Zenon
  <2>8. Exact => Exact'
    BY <1>1, <2>1, <2>3, <2>7, CountedFinite DEF Exact
  <2> QED
    BY <1>6, <2>3, <2>8, Zenon DEF CountStep
<1> QED
  BY <1>3, <1>7, <1>8, Zenon
----------------------------------------------------------------------------
LEMMA CountNext ==
  ASSUME CoreInv, Served, ProviderNext
  PROVE  CountStep
<1>1. CASE \E c \in Clients : HandleStep(c)
  <2>1. PICK c \in Clients : HandleStep(c)
    BY <1>1, Zenon
  <2>2. CASE Enter(c) \/ LoopEnds(c) \/ ReadFails(c) \/ ReadHeader(c) \/ ReadArgs(c) \/ Admit(c)
    BY <2>2, LeavesCounts, ReadHeaderCounts, ReadArgsCounts, AdmitCounts, Zenon
  <2>3. CASE Submit(c) \/ Refuse(c) \/ Resumed(c)
    BY <2>3, SubmitCounts, RefuseCounts, ResumedCounts, Zenon
  <2>4. CASE Yield(c) \/ Resume(c) \/ LockPlain(c) \/ WritePlain(c) \/ WritePlainFails(c)
    BY <2>4, WaitCounts, Zenon
  <2> QED
    BY <2>1, <2>2, <2>3, <2>4, Zenon DEF HandleStep
<1>2. CASE \E k \in Calls : CallStep(k) \/ StopFinish(k)
  BY <1>2, DoneCountsStep, MuxCountsStep, EndingCounts, AnswerCounts, Zenon DEF CallStep
<1>3. CASE \E t \in Threads : CallService(t) \/ ServiceReturns(t) \/ ServiceThrows(t)
  BY <1>3, ServiceCounts, ThrowCounts, Zenon
<1>4. CASE Start \/ StartAccepting \/ Serve \/ Destroy \/ StopMark \/ StopServer \/ StopWaits \/ StopReturns
  BY <1>4, ServerCounts, Zenon
<1> QED
  BY <1>1, <1>2, <1>3, <1>4, Zenon DEF ProviderNext, StopStep

LEMMA StopMoves ==
  ASSUME ProviderNext
  PROVE  \/ UNCHANGED <<stop, started, accepting, gone>>
         \/ StartAccepting \/ StopMark \/ StopServer \/ StopWaits \/ StopReturns \/ Destroy
<1>1. CASE \E c \in Clients : HandleStep(c)
  <2>1. PICK c \in Clients : HandleStep(c)
    BY <1>1, Zenon
  <2>2. CASE Enter(c) \/ LoopEnds(c) \/ ReadFails(c) \/ ReadHeader(c) \/ ReadArgs(c) \/ Admit(c)
    BY <2>2, Zenon DEF Enter, LoopEnds, ReadFails, ReadHeader, ReadArgs, Admit, sockets, life
  <2>3. CASE Submit(c) \/ Refuse(c) \/ Resumed(c) \/ Yield(c) \/ Resume(c)
    BY <2>3, Zenon DEF Submit, Refuse, Resumed, Yield, Resume, sockets, life
  <2>4. CASE LockPlain(c) \/ WritePlain(c) \/ WritePlainFails(c)
    BY <2>4, Zenon DEF LockPlain, WritePlain, WritePlainFails, sockets, life
  <2> QED
    BY <2>1, <2>2, <2>3, <2>4, Zenon DEF HandleStep
<1>2. CASE \E k \in Calls : CallStep(k) \/ StopFinish(k)
  BY <1>2, Zenon DEF CallStep, DoneCounts, DoneFinishes, DoneSchedules, Expire, TimerCallback, LockMux, WriteMux, MuxCounts,
     StopFinish, serverVars, life
<1>3. CASE \E t \in Threads : CallService(t) \/ ServiceReturns(t) \/ ServiceThrows(t)
  BY <1>3, Zenon DEF CallService, ServiceReturns, ServiceThrows, serverVars, life
<1>4. CASE Start
  BY <1>4, Zenon DEF Start, StartServer, life
<1>5. CASE Serve
  BY <1>5, Zenon DEF Serve, acceptStep, Accept, AcceptEnds, List, ClientConnects, TaskCloses, TaskEnds, client, life
<1> QED
  BY <1>1, <1>2, <1>3, <1>4, <1>5, Zenon DEF ProviderNext, StopStep

LEMMA StopKeepsInv ==
  ASSUME StopInv, ProviderNext
  PROVE  StopInv'
<1>1. CASE UNCHANGED <<stop, started, accepting, gone>>
  BY <1>1, Zenon DEF StopInv
<1>2. CASE StartAccepting
  <2>1. ~started /\ started' = TRUE /\ stop' = stop /\ gone' = gone
    BY <1>2, Zenon DEF StartAccepting, serverVars
  <2> QED
    BY <2>1, Zenon DEF StopInv
<1>3. CASE StopMark
  <2>1. started /\ stop = "off" /\ started' = started /\ accepting' = FALSE /\ gone' = gone
    BY <1>3, Zenon DEF StopMark
  <2> QED
    BY <2>1, Zenon DEF StopInv
<1>4. CASE StopServer
  <2>1. stop \in {"server", "take", "close"} /\ started' = started /\ accepting' = accepting /\ gone' = gone
    BY <1>4, Zenon DEF StopServer, stopStep, StopExchange, StopTake, StopClose, life
  <2> QED
    BY <2>1, Zenon DEF StopInv
<1>5. CASE StopWaits
  <2>1. /\ stop = "stopped" \/ (stop = "false" /\ ~gone)
        /\ started' = started /\ accepting' = accepting /\ gone' = gone
    BY <1>5, Zenon DEF StopWaits, life
  <2> QED
    BY <2>1, Zenon DEF StopInv
<1>6. CASE StopReturns
  <2>1. stop = "drain" /\ stop' \in {"true", "false"} /\ started' = started /\ accepting' = accepting /\ gone' = gone
    BY <1>6, Zenon DEF StopReturns, life
  <2> QED
    BY <2>1, Zenon DEF StopInv
<1>7. CASE Destroy
  <2>1. stop \in {"true", "false"} /\ stop' = stop /\ started' = started /\ accepting' = accepting
    BY <1>7, Zenon DEF Destroy, serverVars
  <2> QED
    BY <2>1, Zenon DEF StopInv
<1> QED
  BY <1>1, <1>2, <1>3, <1>4, <1>5, <1>6, <1>7, StopMoves, Zenon

LEMMA DrainKept ==
  ASSUME CountInv, CountStep, ProviderNext, stop' = "true"
  PROVE  Unfinished' = {}
<1>1. CASE stop = "true"
  <2>1. Unfinished = {} /\ ~accepting
    BY <1>1, Zenon DEF CountInv, StopInv, DrainTrue
  <2> QED
    BY <2>1, Zenon DEF CountStep
<1>2. CASE stop # "true"
  <2>1. StopReturns
    BY <1>2, StopMoves, Zenon DEF StartAccepting, StopMark, StopServer, stopStep, StopExchange, StopTake, StopClose, StopWaits,
       Destroy, serverVars
  <2>2. stop = "drain" /\ outstanding = 0 /\ call' = call
    BY <2>1, Zenon DEF StopReturns
  <2>3. Exact
    BY <2>2, Zenon DEF CountInv, StopInv, Alive
  <2>4. Unfinished = {}
    <3>1. Cardinality(Unfinished) = 0
      BY <2>2, <2>3, Zenon DEF Exact
    <3> QED
      BY <3>1, CountedFinite, FS_EmptySet, Zenon
  <2>5. Unfinished' = Unfinished
    BY <2>2, Zenon DEF Unfinished
  <2> QED
    BY <2>4, <2>5, Zenon
<1> QED
  BY <1>1, <1>2, Zenon

LEMMA CountKept ==
  ASSUME CoreInv, Served, CountInv, [ProviderNext]_vars
  PROVE  CountInv'
<1>1. CASE UNCHANGED vars
  <2>1. UNCHANGED <<call, task, thread, n, gone, outstanding, pendingCount, stop, started, accepting>>
    BY <1>1, Zenon DEF vars, serverVars, life, executor, counts
  <2>2. Unfinished' = Unfinished
    BY <2>1, Zenon DEF Unfinished
  <2>3. MuxUnfinished' = MuxUnfinished /\ Held' = Held
    BY <2>1, <2>2, Zenon DEF MuxUnfinished, Held, Cur
  <2>4. Exact => Exact'
    BY <2>1, <2>2, <2>3, Zenon DEF Exact
  <2>5. gone' = gone
    BY <2>1, Zenon
  <2>6. Alive' => Alive
    BY <2>1, <2>5 DEF Alive
  <2>7. StopInv'
    BY <2>1, Zenon DEF CountInv, StopInv
  <2>8. DrainTrue'
    BY <2>1, <2>2, Zenon DEF CountInv, DrainTrue
  <2> QED
    BY <2>4, <2>6, <2>7, <2>8, Zenon DEF CountInv
<1>2. CASE ProviderNext
  <2>1. CountStep
    BY <1>2, CountNext, Zenon
  <2>2. (Alive => Exact)'
    BY <2>1, Zenon DEF CountInv, CountStep
  <2>3. StopInv'
    BY <1>2, StopKeepsInv, Zenon DEF CountInv
  <2>4. DrainTrue'
    BY <1>2, <2>1, DrainKept, Zenon DEF DrainTrue
  <2> QED
    BY <2>2, <2>3, <2>4, Zenon DEF CountInv
<1> QED
  BY <1>1, <1>2, Zenon

LEMMA CountInit ==
  ASSUME ProviderInit
  PROVE  CountInv
<1>1. /\ call = [k \in Calls |-> NoCall] /\ task = [c \in Clients |-> "none"] /\ stop = "off" /\ gone = FALSE
      /\ outstanding = 0 /\ pendingCount = 0
  BY Zenon DEF ProviderInit, ServerInit
<1>2. \A k \in Calls : call[k].phase = "none"
  BY <1>1, Zenon DEF NoCall
<1>3. Unfinished = {} /\ MuxUnfinished = {} /\ Held = {}
  BY <1>1, <1>2, Zenon DEF Unfinished, MuxUnfinished, Held, Holds
<1>4. Exact
  BY <1>1, <1>3, FS_EmptySet DEF Exact
<1>5. StopInv /\ DrainTrue
  BY <1>1, Zenon DEF StopInv, DrainTrue
<1> QED
  BY <1>4, <1>5, Zenon DEF CountInv

\* The counts are exact and what Stop() says of them is true, in every behaviour
\* of the provider.
THEOREM CountInvariance == ProviderSpec => []CountInv
<1>1. ProviderInit => CountInv
  BY CountInit, Zenon
<1>2. CoreInv /\ Served /\ CountInv /\ [ProviderNext]_vars => CountInv'
  BY CountKept, Zenon
<1> QED
  BY <1>1, <1>2, ProviderInvariance, PTL DEF ProviderSpec

\* `outstanding` and `pending_count`, which handlers, closures, answering fibers
\* and refusals change each in its own way, are exact while the State exists.
THEOREM CountsAreExact == ProviderSpec => []CountsExact
<1>1. CountInv => CountsExact
  BY ExactSays, Zenon DEF CountInv
<1> QED
  BY <1>1, CountInvariance, PTL

\* When Stop() has returned true, every admitted call has ended: none is queued,
\* none runs without having run its done and none is being answered.
THEOREM DrainIsTrue == ProviderSpec => []DrainTrue
<1>1. CountInv => DrainTrue
  BY Zenon DEF CountInv
<1> QED
  BY <1>1, CountInvariance, PTL
=============================================================================

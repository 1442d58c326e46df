---------------------------- MODULE RpcProvider ----------------------------
(***************************************************************************)
(* rpc::Provider (src/src/rpc.cpp) on a net::Server: Handle(), the handler *)
(* of each connection; the Executor, whose threads run the services; the   *)
(* two closures a service completes a call with; Reservation, the bound on *)
(* buffered bytes; and Stop(), which ends the connections and waits for    *)
(* the calls to drain.                                                     *)
(*                                                                         *)
(* A request with request_id 0 ("plain") holds its connection's fiber      *)
(* until the call ends, by done, by the request timer or by Stop().  Any   *)
(* other ("mux") is answered by a fiber of its own once done has run.  A   *)
(* service runs done exactly once, while it is called or at any time       *)
(* later.  If it throws, a plain call's done is run later by whoever kept  *)
(* it, and a mux call's done has not been run nor kept.                    *)
(***************************************************************************)
EXTENDS Server, Sequences, Functions

CONSTANTS None,
          MuxClients,       \* the clients whose Channel multiplexes
          MaxRequests,      \* bound: requests, on all connections together
          Threads,          \* the executor's threads
          Capacities,       \* values of queued_handlers to choose from
          MuxLimit,         \* max_connections * 64
          MaxBuffered       \* max_buffered_bytes, where every part has size 1

ASSUME ProviderAssumption ==
  /\ MuxClients \subseteq Clients
  /\ MaxRequests \in Nat /\ Capacities \subseteq Nat /\ MuxLimit \in Nat /\ MaxBuffered \in Nat
  /\ None \notin Clients \X (1..MaxRequests)

VARIABLES started, accepting, gone,
          capacity,         \* queued_handlers
          n,                \* requests read on each connection
          call,             \* CallContext and closure of each call
          wakes,            \* queued scheduler tasks for a connection's fiber
          held, buffered,   \* Reservation::bytes and buffered_bytes
          writeMutex,       \* owner of each connection's write_mutex
          queue, thread,    \* the executor
          outstanding, pendingCount, pending,
          todo              \* the contexts Stop() took

life == <<started, accepting, gone, capacity>>
buffers == <<held, buffered>>
counts == <<outstanding, pendingCount>>
executor == <<queue, thread>>
vars == <<serverVars, life, n, call, wakes, buffers, writeMutex, executor, counts, pending, todo>>

Calls == Clients \X (1..MaxRequests)
NoCall == [kind |-> "plain", phase |-> "none", outcome |-> 0, timer |-> "off", reply |-> "none"]

ProviderInit ==
  /\ ServerInit
  /\ started = FALSE /\ accepting = FALSE /\ gone = FALSE /\ capacity \in Capacities
  /\ n = [c \in Clients |-> 0]
  /\ call = [k \in Calls |-> NoCall]
  /\ wakes = [c \in Clients |-> 0]
  /\ held = [c \in Clients |-> 0] /\ buffered = 0
  /\ writeMutex = [c \in Clients |-> None]
  /\ queue = <<>> /\ thread = [t \in Threads |-> None]
  /\ outstanding = 0 /\ pendingCount = 0 /\ pending = {} /\ todo = {}

Sum(f) == FoldFunction(LAMBDA a, b : a + b, 0, f)
Cur(c) == <<c, n[c]>>
InHandle == {"loop", "args", "admit", "submit", "refuse", "arm", "yield", "resumed", "reply", "write"}

\* What keeps Provider::State: the Provider, a running Handle(), and the
\* executor task, the closure and the answering fiber of a mux call.
Alive ==
  \/ ~gone
  \/ \E c \in Clients : task[c] \in InHandle
  \/ \E k \in Calls : call[k].kind = "mux"
       /\ (call[k].phase \notin {"none", "over"} \/ \E t \in Threads : thread[t] = k)

\* A context nobody refers to any more: its weak_ptr has expired.
Expired(k) ==
  /\ call[k].phase = "over" /\ call[k].timer = "off"
  /\ \A t \in Threads : thread[t] # k
  /\ Cur(k[1]) # k \/ task[k[1]] \notin {"arm", "yield", "resumed", "reply", "write"}

goto(c, pc) == task' = [task EXCEPT ![c] = pc]
sockets == <<running, listener, loop, sock, connections, active, stop, closing>>

\* Reservation::Add(1), or its refusal.
Fits == buffered < MaxBuffered
Reserve(c) == held' = [held EXCEPT ![c] = @ + 1] /\ buffered' = buffered + 1
\* ~Reservation
Release(c) == held' = [held EXCEPT ![c] = 0] /\ buffered' = buffered - held[c]

\* Mutant of Finish: the outcome is overwritten and the fiber scheduled again.
FinishAgain(k, value, next) ==
  /\ call' = [call EXCEPT ![k] = [next EXCEPT !.outcome = value]]
  /\ wakes' = [wakes EXCEPT ![k[1]] = @ + 1]

\* CallContext::Finish(value): the first outcome schedules the waiting fiber.
\* `next` is the context with the caller's other changes.
Finish(k, value, next) ==
  IF next.outcome = 0
    THEN /\ call' = [call EXCEPT ![k] = [next EXCEPT !.outcome = value]]
         /\ wakes' = [wakes EXCEPT ![k[1]] = @ + 1]
    ELSE /\ call' = [call EXCEPT ![k] = next]
         /\ UNCHANGED wakes

-----------------------------------------------------------------------------
(* Start(), and Handle() up to the admission of a request.                 *)

\* Provider::Start: the server starts, under the mutex, before `accepting`.
Start == ~started /\ StartServer /\ UNCHANGED <<life, n, call, wakes, buffers, writeMutex, executor, counts, pending, todo>>

StartAccepting ==
  /\ running /\ ~started
  /\ started' = TRUE /\ accepting' = TRUE
  /\ UNCHANGED <<serverVars, gone, capacity, n, call, wakes, buffers, writeMutex, executor, counts, pending, todo>>

\* The handler task starts: Handle() runs if the State still exists.
Enter(c) ==
  /\ task[c] = "queued"
  /\ goto(c, IF Alive THEN "loop" ELSE "end")
  /\ UNCHANGED <<sockets, life, n, call, wakes, buffers, writeMutex, executor, counts, pending, todo>>

\* `break`: the iteration's Reservation is released and Handle() returns.
leave(c) == goto(c, "end") /\ Release(c)

\* while (accepting && !conn->closed()), and a read that fails because the
\* connection was closed.
LoopEnds(c) ==
  /\ \/ task[c] = "loop" /\ (~accepting \/ ~Open(c))
     \/ task[c] = "args" /\ ~Open(c)
  /\ leave(c)
  /\ UNCHANGED <<sockets, life, n, call, wakes, writeMutex, executor, counts, pending, todo>>

\* A read times out or fails, or what was read is malformed or names no method.
ReadFails(c) ==
  /\ task[c] \in {"loop", "args"}
  /\ leave(c)
  /\ UNCHANGED <<sockets, life, n, call, wakes, writeMutex, executor, counts, pending, todo>>

\* A header's length arrives, and its bytes are reserved.
ReadHeader(c) ==
  /\ task[c] = "loop" /\ accepting /\ Open(c)
  /\ <<c, n[c] + 1>> \in Calls /\ Sum(n) < MaxRequests
  /\ n' = [n EXCEPT ![c] = @ + 1]
  /\ IF Fits THEN goto(c, "args") /\ Reserve(c) ELSE leave(c)
  /\ UNCHANGED <<sockets, life, call, wakes, writeMutex, executor, counts, pending, todo>>

\* The header, then the arguments, whose bytes are reserved too; the method is
\* found and the request parsed.
ReadArgs(c) ==
  /\ task[c] = "args" /\ Open(c)
  /\ IF Fits
       THEN /\ goto(c, "admit") /\ Reserve(c)
            /\ call' = [call EXCEPT ![Cur(c)].kind = IF c \in MuxClients THEN "mux" ELSE "plain"]
       ELSE leave(c) /\ UNCHANGED call
  /\ UNCHANGED <<sockets, life, n, wakes, writeMutex, executor, counts, pending, todo>>

InLimit(c) == outstanding < IF call[Cur(c)].kind = "plain" THEN MaxConnections ELSE MuxLimit

\* Mutant of Admissible: `accepting` is not tested again under the mutex.
AdmissibleLate(c) == InLimit(c)

Admissible(c) == accepting /\ InLimit(c)

\* Under the mutex, the call is counted, unless Stop() came or there are too
\* many.  A plain call is also listed, for Stop() to end.
Admit(c) ==
  /\ task[c] = "admit"
  /\ IF Admissible(c)
       THEN /\ goto(c, "submit") /\ UNCHANGED buffers
            /\ outstanding' = outstanding + 1 /\ pendingCount' = pendingCount + 1
            /\ call' = [call EXCEPT ![Cur(c)].phase = "admitted"]
            /\ pending' = IF call[Cur(c)].kind = "plain"
                            THEN {k \in pending : ~Expired(k)} \cup {Cur(c)} ELSE pending
       ELSE leave(c) /\ UNCHANGED <<counts, call, pending>>
  /\ UNCHANGED <<sockets, life, n, wakes, writeMutex, executor, todo>>

-----------------------------------------------------------------------------
(* The executor, the services and the two closures.                        *)

\* Executor::Submit.  A mux call leaves the fiber free for the next request.
Submit(c) ==
  LET k == Cur(c) IN
  /\ task[c] = "submit"
  /\ IF Len(queue) < capacity
       THEN /\ queue' = Append(queue, k)
            /\ call' = [call EXCEPT ![k].phase = "queued"]
            /\ IF call[k].kind = "plain"
                 THEN goto(c, "arm") /\ UNCHANGED buffers
                 ELSE goto(c, "loop") /\ Release(c)
       ELSE goto(c, "refuse") /\ UNCHANGED <<queue, call, buffers>>
  /\ UNCHANGED <<sockets, life, n, wakes, writeMutex, thread, counts, pending, todo>>

\* Mutant of Refuse: the refused call stays counted as outstanding.
RefuseKeeping(c) ==
  LET k == Cur(c)
      refused == [call[k] EXCEPT !.phase = "over"] IN
  /\ task[c] = "refuse"
  /\ IF call[k].kind = "plain"
       THEN /\ goto(c, "arm") /\ Finish(k, 2, refused)
            /\ UNCHANGED <<pendingCount, buffers>>
       ELSE /\ leave(c) /\ call' = [call EXCEPT ![k] = refused]
            /\ pendingCount' = pendingCount - 1 /\ UNCHANGED wakes
  /\ UNCHANGED <<sockets, life, n, writeMutex, executor, outstanding, pending, todo>>

\* The queue was full.  A plain call is finished here, and its fiber waits for
\* the wake-up it has scheduled itself; on a mux connection Handle() returns.
Refuse(c) ==
  LET k == Cur(c)
      refused == [call[k] EXCEPT !.phase = "over"] IN
  /\ task[c] = "refuse"
  /\ outstanding' = outstanding - 1
  /\ IF call[k].kind = "plain"
       THEN /\ goto(c, "arm") /\ Finish(k, 2, refused)
            /\ UNCHANGED <<pendingCount, buffers>>
       ELSE /\ leave(c) /\ call' = [call EXCEPT ![k] = refused]
            /\ pendingCount' = pendingCount - 1 /\ UNCHANGED wakes
  /\ UNCHANGED <<sockets, life, n, writeMutex, executor, pending, todo>>

\* A thread takes the next task and calls the service.
CallService(t) ==
  /\ thread[t] = None /\ queue # <<>>
  /\ thread' = [thread EXCEPT ![t] = Head(queue)]
  /\ queue' = Tail(queue)
  /\ call' = [call EXCEPT ![Head(queue)].phase = "called"]
  /\ UNCHANGED <<serverVars, life, n, wakes, buffers, writeMutex, counts, pending, todo>>

\* The service returns, having run done or kept it for later.
ServiceReturns(t) ==
  /\ thread[t] # None
  /\ thread' = [thread EXCEPT ![t] = None]
  /\ UNCHANGED <<serverVars, life, n, call, wakes, buffers, writeMutex, queue, counts, pending, todo>>

\* The service throws: a plain call is finished, a mux call answered with an error.
ServiceThrows(t) ==
  /\ thread[t] # None
  /\ LET k == thread[t] IN
     IF call[k].kind = "plain"
       THEN Finish(k, 2, call[k])
       ELSE /\ call[k].phase = "called"
            /\ call' = [call EXCEPT ![k].phase = "answer", ![k].outcome = 2]
            /\ UNCHANGED wakes
  /\ thread' = [thread EXCEPT ![t] = None]
  /\ UNCHANGED <<serverVars, life, n, buffers, writeMutex, queue, counts, pending, todo>>

\* DoneClosure::Run counts the call as over if the State still exists ...
DoneCounts(k) ==
  /\ call[k].kind = "plain" /\ call[k].phase = "called"
  /\ call' = [call EXCEPT ![k].phase = "ran"]
  /\ outstanding' = IF Alive THEN outstanding - 1 ELSE outstanding
  /\ UNCHANGED <<serverVars, life, n, wakes, buffers, writeMutex, executor, pendingCount, pending, todo>>

\* ... and finishes it.
DoneFinishes(k) ==
  /\ call[k].phase = "ran"
  /\ Finish(k, 1, [call[k] EXCEPT !.phase = "over"])
  /\ UNCHANGED <<serverVars, life, n, buffers, writeMutex, executor, counts, pending, todo>>

\* MultiplexDoneClosure::Run schedules the fiber that answers.
DoneSchedules(k) ==
  /\ call[k].kind = "mux" /\ call[k].phase = "called"
  /\ call' = [call EXCEPT ![k].phase = "answer"]
  /\ UNCHANGED <<serverVars, life, n, wakes, buffers, writeMutex, executor, counts, pending, todo>>

-----------------------------------------------------------------------------
(* The end of a call.                                                      *)

\* The plain call's fiber arms the request timer and yields.
Yield(c) ==
  /\ task[c] = "arm"
  /\ call' = [call EXCEPT ![Cur(c)].timer = "armed"]
  /\ goto(c, "yield")
  /\ UNCHANGED <<sockets, life, n, wakes, buffers, writeMutex, executor, counts, pending, todo>>

\* The request timer expires: its callback is queued ...
Expire(k) ==
  /\ call[k].timer = "armed"
  /\ call' = [call EXCEPT ![k].timer = "due"]
  /\ UNCHANGED <<serverVars, life, n, wakes, buffers, writeMutex, executor, counts, pending, todo>>

\* ... and runs, whatever happened in between.
TimerCallback(k) ==
  /\ call[k].timer = "due"
  /\ Finish(k, 2, [call[k] EXCEPT !.timer = "off"])
  /\ UNCHANGED <<serverVars, life, n, buffers, writeMutex, executor, counts, pending, todo>>

\* The fiber is resumed, and cancels the timer.
Resume(c) ==
  /\ task[c] = "yield" /\ wakes[c] > 0
  /\ wakes' = [wakes EXCEPT ![c] = @ - 1]
  /\ goto(c, "resumed")
  /\ call' = [call EXCEPT ![Cur(c)].timer = IF call[Cur(c)].timer = "armed" THEN "off" ELSE call[Cur(c)].timer]
  /\ UNCHANGED <<sockets, life, n, buffers, writeMutex, executor, counts, pending, todo>>

\* Mutant of Resumed: the outcome is not looked at.
ResumedAny(c) ==
  /\ task[c] = "resumed"
  /\ pendingCount' = pendingCount - 1
  /\ IF Open(c) /\ accepting /\ Fits THEN goto(c, "reply") /\ Reserve(c) ELSE leave(c)
  /\ UNCHANGED <<sockets, life, n, call, wakes, writeMutex, executor, outstanding, pending, todo>>

\* The call is no longer pending.  It is answered if done came first, the
\* connection is open, Stop() has not come and the response can be reserved.
Resumed(c) ==
  /\ task[c] = "resumed"
  /\ pendingCount' = pendingCount - 1
  /\ IF call[Cur(c)].outcome = 1 /\ Open(c) /\ accepting /\ Fits
       THEN goto(c, "reply") /\ Reserve(c) ELSE leave(c)
  /\ UNCHANGED <<sockets, life, n, call, wakes, writeMutex, executor, outstanding, pending, todo>>

\* write_mutex->lock() of a plain call's fiber and of a mux call's.
LockPlain(c) ==
  /\ task[c] = "reply" /\ writeMutex[c] = None
  /\ writeMutex' = [writeMutex EXCEPT ![c] = Cur(c)]
  /\ goto(c, "write")
  /\ UNCHANGED <<sockets, life, n, call, wakes, buffers, executor, counts, pending, todo>>

LockMux(k) ==
  /\ call[k].phase = "answer" /\ writeMutex[k[1]] = None
  /\ writeMutex' = [writeMutex EXCEPT ![k[1]] = k]
  /\ call' = [call EXCEPT ![k].phase = "write"]
  /\ UNCHANGED <<serverVars, life, n, wakes, buffers, executor, counts, pending, todo>>

\* WriteAll sends the whole response ...
WritePlain(c) ==
  /\ task[c] = "write" /\ Open(c)
  /\ call' = [call EXCEPT ![Cur(c)].reply = "ok"]
  /\ writeMutex' = [writeMutex EXCEPT ![c] = None]
  /\ goto(c, "loop") /\ Release(c)
  /\ UNCHANGED <<sockets, life, n, wakes, executor, counts, pending, todo>>

\* ... or fails, on a closed connection or after sending a part of it.
WritePlainFails(c) ==
  /\ task[c] = "write"
  /\ \/ ~Open(c) /\ UNCHANGED call
     \/ Open(c) /\ call' = [call EXCEPT ![Cur(c)].reply = "part"]
  /\ writeMutex' = [writeMutex EXCEPT ![c] = None]
  /\ leave(c)
  /\ UNCHANGED <<sockets, life, n, wakes, executor, counts, pending, todo>>

\* The same for a mux call, whose fiber goes on to count the call as over
\* whatever WriteAll returned.
WriteMux(k) ==
  /\ call[k].phase = "write"
  /\ \E reply \in IF Open(k[1]) THEN {"part", IF call[k].outcome = 2 THEN "error" ELSE "ok"}
                               ELSE {"none"} :
       call' = [call EXCEPT ![k].phase = "written", ![k].reply = reply]
  /\ writeMutex' = [writeMutex EXCEPT ![k[1]] = None]
  /\ UNCHANGED <<serverVars, life, n, wakes, buffers, executor, counts, pending, todo>>

MuxCounts(k) ==
  /\ call[k].phase = "written"
  /\ call' = [call EXCEPT ![k].phase = "over"]
  /\ outstanding' = outstanding - 1 /\ pendingCount' = pendingCount - 1
  /\ UNCHANGED <<serverVars, life, n, wakes, buffers, writeMutex, executor, pending, todo>>

-----------------------------------------------------------------------------
(* Provider::Stop() and the destructor.                                    *)

\* Under the mutex: no more requests; the server and the contexts are taken.
StopMark ==
  /\ started /\ stop = "off"
  /\ accepting' = FALSE
  /\ stop' = "server"
  /\ todo' = {k \in pending : ~Expired(k)} /\ pending' = {}
  /\ UNCHANGED <<running, listener, loop, sock, connections, active, task, closing>>
  /\ UNCHANGED <<started, gone, capacity, n, call, wakes, buffers, writeMutex, executor, counts>>

\* server->Stop()
StopServer == stopStep /\ UNCHANGED <<life, n, call, wakes, buffers, writeMutex, executor, counts, pending, todo>>

\* ctx->Finish(2) of each of them
StopFinish(k) ==
  /\ stop = "stopped" /\ k \in todo
  /\ todo' = todo \ {k}
  /\ Finish(k, 2, call[k])
  /\ UNCHANGED <<serverVars, life, n, buffers, writeMutex, executor, counts, pending>>

\* drained.wait_for; a later Stop() finds no server and no contexts, and waits
\* again.
StopWaits ==
  /\ (stop = "stopped" /\ todo = {}) \/ (stop = "false" /\ ~gone)
  /\ stop' = "drain"
  /\ UNCHANGED <<running, listener, loop, sock, connections, active, task, closing>>
  /\ UNCHANGED <<life, n, call, wakes, buffers, writeMutex, executor, counts, pending, todo>>

\* It returns true once nothing is counted, false after the time.
StopReturns ==
  /\ stop = "drain"
  /\ stop' = IF pendingCount = 0 /\ outstanding = 0 THEN "true" ELSE "false"
  /\ UNCHANGED <<running, listener, loop, sock, connections, active, task, closing>>
  /\ UNCHANGED <<life, n, call, wakes, buffers, writeMutex, executor, counts, pending, todo>>

\* ~Provider has called Stop(), and gives the State up.
Destroy ==
  /\ stop \in {"true", "false"} /\ ~gone /\ gone' = TRUE
  /\ UNCHANGED <<serverVars, started, accepting, capacity, n, call, wakes, buffers, writeMutex, executor, counts, pending, todo>>

-----------------------------------------------------------------------------
client == <<life, n, call, wakes, buffers, writeMutex, executor, counts, pending, todo>>

Serve ==
  /\ \/ acceptStep \/ AcceptEnds
     \/ \E c \in Clients : ClientConnects(c) \/ TaskCloses(c) \/ TaskEnds(c)
  /\ UNCHANGED client

\* The steps a connection's fiber takes by itself.
fiberStep(c) ==
  \/ (TaskCloses(c) \/ TaskEnds(c)) /\ UNCHANGED client
  \/ Enter(c) \/ LoopEnds(c) \/ Admit(c) \/ Submit(c) \/ Refuse(c) \/ Yield(c) \/ Resume(c)
  \/ Resumed(c) \/ LockPlain(c) \/ (WritePlainFails(c) /\ ~Open(c))

HandleStep(c) ==
  \/ Enter(c) \/ LoopEnds(c) \/ ReadFails(c) \/ ReadHeader(c) \/ ReadArgs(c)
  \/ Admit(c) \/ Submit(c) \/ Refuse(c) \/ Yield(c) \/ Resume(c) \/ Resumed(c)
  \/ LockPlain(c) \/ WritePlain(c) \/ WritePlainFails(c)

CallStep(k) ==
  \/ DoneCounts(k) \/ DoneFinishes(k) \/ DoneSchedules(k)
  \/ Expire(k) \/ TimerCallback(k)
  \/ LockMux(k) \/ WriteMux(k) \/ MuxCounts(k)

StopStep == StopMark \/ StopServer \/ (\E k \in Calls : StopFinish(k)) \/ StopWaits \/ StopReturns

ProviderNext ==
  \/ Start \/ StartAccepting \/ Serve \/ StopStep \/ Destroy
  \/ \E c \in Clients : HandleStep(c)
  \/ \E k \in Calls : CallStep(k)
  \/ \E t \in Threads : CallService(t) \/ ServiceReturns(t) \/ ServiceThrows(t)

ProviderSpec == ProviderInit /\ [][ProviderNext]_vars

\* Fibers, threads and Stop() run on, services run done, and a read or a write
\* of a closed connection fails.  Nothing is assumed of clients and timers.
fairCallStep(k) ==
  \/ DoneCounts(k) \/ DoneFinishes(k) \/ DoneSchedules(k)
  \/ LockMux(k) \/ (WriteMux(k) /\ ~Open(k[1])) \/ MuxCounts(k)

ProviderFairSpec ==
  /\ ProviderSpec
  /\ WF_vars(acceptStep /\ UNCHANGED client)
  /\ WF_vars(StopServer \/ (\E k \in Calls : StopFinish(k)) \/ StopWaits)
  /\ \A c \in Clients : WF_vars(fiberStep(c))
  /\ \A k \in Calls : WF_vars(fairCallStep(k))
  /\ \A t \in Threads : WF_vars(CallService(t)) /\ WF_vars(ServiceReturns(t))
-----------------------------------------------------------------------------
\* The calls that have been admitted and whose done has not been run, or whose
\* answer is not yet over.
Unfinished == {k \in Calls : call[k].phase \in {"admitted", "queued", "called", "answer", "write", "written"}}

\* When Stop() has returned true, no handler is queued or runs without having
\* run its done, and no answer is being written; whatever raced with it between
\* reading a request and counting it (rpc.hpp: "Returns false if asynchronous
\* handlers have not called done by deadline").
DrainTrue == stop = "true" => Unfinished = {}

\* `outstanding` and `pending_count`, which handlers, closures, answering fibers
\* and refusals decrement in their own ways, are exact while the State exists:
\* they never wrap around, and neither keeps Stop() waiting for nothing.
CountsExact ==
  Alive =>
    /\ outstanding = Cardinality(Unfinished)
    /\ pendingCount =
         Cardinality({k \in Unfinished : call[k].kind = "mux"})
         + Cardinality({c \in Clients :
             \/ task[c] \in {"arm", "yield", "resumed"}
             \/ task[c] \in {"submit", "refuse"} /\ call[Cur(c)].kind = "plain"})

\* done, the request timer, a throwing service, a full queue and Stop() compete
\* to end a plain call: the waiting fiber is scheduled by exactly one of them,
\* and no wake-up is left for its later waits.
HandlerWokenOnce ==
  \A c \in Clients :
    wakes[c] = IF task[c] \in {"submit", "refuse", "arm", "yield"} /\ call[Cur(c)].outcome # 0 THEN 1 ELSE 0

\* An answer is sent only for a call whose done has been run, before the call
\* timed out and while Stop() had not ended it, and on a connection that was
\* open; a late done sends nothing (tests/rpc_fault_check.cpp: "Timed-out
\* asynchronous completion must not send to a later connection").
AnswerEarned ==
  [][\A k \in Calls : call'[k].reply # call[k].reply =>
       /\ Open(k[1])
       /\ call[k].phase \in {"over", "write"}
       /\ call[k].kind = "plain" => call[k].outcome = 1 /\ Cur(k[1]) = k]_vars

\* Once Stop() has been called on a started Provider, every connection's handler
\* ends and both counts go to zero, if the services run their done: no
\* accepted connection escapes, and no fiber waits for a wake-up that never
\* comes.
StopDrainsCalls ==
  (started /\ ~accepting)
    ~> []((Alive => outstanding = 0 /\ pendingCount = 0) /\ \A c \in Clients : task[c] \in {"none", "over"})

\* When Stop() has returned true and the Provider is destroyed, the State, whose
\* destructor joins the executor's threads, is not destroyed on one of them.
\* This fails (README, deviations).
NoSelfJoin == [][stop = "true" /\ Alive /\ ~Alive' => thread' = thread]_vars
=============================================================================

----------------------------- MODULE RpcChannel -----------------------------
(***************************************************************************)
(* pulsar::rpc::Channel (rpc.cpp) on the connections of Connection.  A     *)
(* pooled channel gives each call a connection of its own for its time; a  *)
(* multiplexed one sends the calls of all fibers over one connection,      *)
(* whose reader fiber hands the answers to the callers by request id.      *)
(*                                                                         *)
(* Callers are fibers that make one call after another; the reader started *)
(* with connection c is the fiber c.  A fiber keeps its worker until it    *)
(* yields, so with one worker the code between two yields is one piece.    *)
(* write_mutex is what FiberMutex is proved to be.  The peer answers a     *)
(* request at most once, in any order, at any time, and may go away.       *)
(***************************************************************************)
EXTENDS Connection, Sequences, FiniteSets

CONSTANTS
  Callers,    \* the fibers that call
  None,       \* no fiber, no connection, no call
  MaxCalls,   \* bound on the calls of a fiber
  Slots,      \* the pool
  Workers     \* threads of the IOManager

ASSUME ChannelAssumption ==
  /\ Fibers = Callers \cup Conns /\ Callers \cap Conns = {}
  /\ None \notin Fibers /\ {MaxCalls, Workers} \subseteq Nat \ {0}
  /\ Conns = 1..Cardinality(Conns)

Calls == Callers \X (1..MaxCalls)

VARIABLES
  mode,           \* how the channel was made: multiplex, and timeout > 0
  gone,           \* closed: the Channel is destroyed
  made,           \* the connections made so far
  slot,           \* the pool: the caller a slot is busy for, its connection
  conn,           \* the multiplexed connection
  writeOwner,     \* owner of write_mutex
  pending,        \* pending_calls, by request id
  readerRunning,
  pc,             \* where each fiber is
  nth,            \* the calls it has begun
  use,            \* the connection it uses
  rec,            \* PendingCall: done, failed and the payload; the result
  ctimer,         \* the timer of a multiplexed call: "off", "set", "due"
  hand,           \* the calls a reader has in hand: answered, or to be failed
  wire,           \* what is under way on a connection
  misled          \* history: fibers that left a wait which was not over

chan == <<mode, gone>>
mux == <<conn, writeOwner, pending, readerRunning>>
vars == <<connVars, chan, made, slot, mux, pc, nth, use, rec, ctimer, hand, wire, misled>>

NoCall == [done |-> FALSE, failed |-> FALSE, answer |-> None, result |-> "none"]

\* sent: requests the peer has; answers: what it has sent; down: it is gone;
\* partial: a part of a frame was sent and the rest was not.
NoWire == [sent |-> {}, answers |-> <<>>, down |-> FALSE, partial |-> FALSE]

ChannelInit ==
  /\ ConnInit
  /\ mode \in [multiplex : BOOLEAN, timed : BOOLEAN]
  /\ gone = FALSE /\ made = 0 /\ conn = None /\ writeOwner = None /\ pending = {} /\ readerRunning = FALSE
  /\ slot = [s \in Slots |-> [owner |-> None, conn |-> None]]
  /\ pc = [f \in Fibers |-> IF f \in Callers THEN "idle" ELSE "off"]
  /\ nth = [f \in Callers |-> 0]
  /\ use = [f \in Fibers |-> None]
  /\ rec = [k \in Calls |-> NoCall]
  /\ ctimer = [k \in Calls |-> "off"]
  /\ hand = [c \in Conns |-> {}]
  /\ wire = [c \in Conns |-> NoWire]
  /\ misled = {}
----------------------------------------------------------------------------
Call(f) == <<f, nth[f]>>

Running(f) == ~inWait[f] /\ pc[f] \notin {"idle", "off", "lock", "waiting"}

\* Callbacks run on workers too; that of a timer has two steps.
FreeWorker ==
  Cardinality({f \in Fibers : Running(f)}) + Cardinality({w \in Waits : wait[w].timer = "cancel"}) < Workers

goto(f, l) == pc' = [pc EXCEPT ![f] = l]

\* The call ends: the closure is run, and CallMethod returns.
end(f, r) == goto(f, "idle") /\ rec' = [rec EXCEPT ![Call(f)].result = r]

Open(c) == c # None /\ ~closed[c]

slotOf(f) == CHOOSE s \in Slots : slot[s].owner = f

closeConns(cs) == Close(cs) /\ wire' = [c \in Conns |-> IF c \in cs THEN NoWire ELSE wire[c]]

\* The calls ks are over, and their fibers are scheduled.
complete(ks, failed, answer) ==
  /\ rec' = [k \in Calls |-> IF k \in ks THEN [rec[k] EXCEPT !.done = TRUE, !.failed = failed, !.answer = answer]
                                         ELSE rec[k]]
  /\ tasks' = [f \in Fibers |-> tasks[f] + Cardinality({k \in ks : k[1] = f})]
  /\ UNCHANGED <<closed, wait, cur, inWait>>

\* The wait of f is over, and f goes on at l.
resume(f, l) ==
  /\ FreeWorker
  /\ EndWait(f)
  /\ goto(f, l)
  /\ misled' = IF Over(wait[Current(f)]) THEN misled ELSE misled \cup {f}
----------------------------------------------------------------------------
(* A call, up to the connection.                                           *)

\* A request that cannot be serialized fails at once.
Begin(f) ==
  /\ pc[f] = "idle" /\ nth[f] < MaxCalls /\ ~gone /\ FreeWorker
  /\ nth' = [nth EXCEPT ![f] = @ + 1]
  /\ \/ goto(f, IF mode.multiplex THEN "lock" ELSE "take") /\ UNCHANGED rec
     \/ mode.multiplex /\ rec' = [rec EXCEPT ![<<f, nth[f] + 1>>].result = "failed"] /\ UNCHANGED pc
  /\ UNCHANGED <<connVars, chan, made, slot, mux, use, ctimer, hand, wire, misled>>

\* write_mutex.lock() returns, and the connection is looked at.
Lock(f) ==
  /\ pc[f] = "lock" /\ writeOwner = None /\ FreeWorker
  /\ writeOwner' = f
  /\ goto(f, IF Open(conn) THEN "register" ELSE "connect")
  /\ use' = [use EXCEPT ![f] = conn]
  /\ UNCHANGED <<connVars, chan, made, slot, conn, pending, readerRunning, nth, rec, ctimer, hand, wire, misled>>

\* The first slot that is not busy, or "overloaded".
Take(f) ==
  /\ pc[f] = "take"
  /\ IF \A s \in Slots : slot[s].owner # None
       THEN end(f, "failed") /\ UNCHANGED <<slot, use>>
       ELSE \E s \in Slots :
              /\ slot[s].owner = None /\ \A q \in Slots : q < s => slot[q].owner # None
              /\ slot' = [slot EXCEPT ![s].owner = f]
              /\ use' = [use EXCEPT ![f] = slot[s].conn]
              /\ goto(f, IF Open(slot[s].conn) THEN "write" ELSE "connect")
              /\ UNCHANGED rec
  /\ UNCHANGED <<connVars, chan, made, mux, nth, ctimer, hand, wire, misled>>

\* Connection::Connect: connect() succeeds, is under way, or fails.
Connect(f) ==
  /\ pc[f] = "connect" /\ ~inWait[f]
  /\ \/ /\ made + 1 \in Conns
        /\ made' = made + 1
        /\ use' = [use EXCEPT ![f] = made + 1]
        /\ \/ goto(f, "connected") /\ UNCHANGED connVars
           \/ BeginWait(f, made + 1, "WRITE", mode.timed) /\ UNCHANGED pc
     \/ goto(f, "refused") /\ UNCHANGED <<connVars, made, use>>
  /\ UNCHANGED <<chan, slot, mux, nth, rec, ctimer, hand, wire, misled>>

\* The socket is writable and has no error; or the connection is not made.
ConnectWaited(f) ==
  /\ pc[f] = "connect"
  /\ \/ Result(f) = "ready" /\ resume(f, "connected")
     \/ resume(f, "refused")
  /\ UNCHANGED <<chan, made, slot, mux, nth, use, rec, ctimer, hand, wire>>

\* The Connection object is destroyed, the pointer is null, the call fails.
Refused(f) ==
  /\ pc[f] = "refused"
  /\ closeConns({use[f]} \cap Conns)
  /\ IF mode.multiplex
       THEN conn' = None /\ writeOwner' = None /\ UNCHANGED slot
       ELSE slot' = [slot EXCEPT ![slotOf(f)] = [owner |-> None, conn |-> None]] /\ UNCHANGED <<conn, writeOwner>>
  /\ end(f, "failed")
  /\ UNCHANGED <<chan, made, pending, readerRunning, nth, use, ctimer, hand, misled>>

\* The connection is the channel's, or the slot's; a reader is started unless
\* one is running.
Adopt(f) ==
  /\ pc[f] = "connected"
  /\ IF mode.multiplex
       THEN /\ conn' = use[f] /\ readerRunning' = TRUE
            /\ pc' = [pc EXCEPT ![f] = "register", ![use[f]] = IF readerRunning THEN @ ELSE "top"]
            /\ UNCHANGED slot
       ELSE /\ slot' = [slot EXCEPT ![slotOf(f)].conn = use[f]]
            /\ goto(f, "write")
            /\ UNCHANGED <<conn, readerRunning>>
  /\ UNCHANGED <<connVars, chan, made, writeOwner, pending, nth, use, rec, ctimer, hand, wire, misled>>
----------------------------------------------------------------------------
(* Sending the request.                                                    *)

Register(f) ==
  /\ pc[f] = "register"
  /\ pending' = pending \cup {Call(f)}
  /\ goto(f, "write")
  /\ UNCHANGED <<connVars, chan, made, slot, conn, writeOwner, readerRunning, nth, use, rec, ctimer, hand, wire, misled>>

\* WriteAll: everything is sent, which a peer that is gone or out of step
\* does not see; or nothing more can be; or send() says EAGAIN.
Write(f) ==
  LET c == use[f] IN
  /\ pc[f] = "write" /\ ~inWait[f]
  /\ \/ /\ ~closed[c]
        /\ wire' = IF wire[c].down \/ wire[c].partial THEN wire ELSE [wire EXCEPT ![c].sent = @ \cup {Call(f)}]
        /\ goto(f, "sent") /\ UNCHANGED connVars
     \/ (closed[c] \/ wire[c].down) /\ goto(f, "unsent") /\ UNCHANGED <<connVars, wire>>
     \/ BeginWait(f, c, "WRITE", mode.timed) /\ UNCHANGED <<pc, wire>>
  /\ UNCHANGED <<chan, made, slot, mux, nth, use, rec, ctimer, hand, misled>>

\* A wait that fails may leave a part of the frame behind.
WriteWaited(f) ==
  /\ pc[f] = "write"
  /\ IF Result(f) = "ready"
       THEN resume(f, "write") /\ UNCHANGED wire
       ELSE /\ resume(f, "unsent")
            /\ \/ UNCHANGED wire
               \/ ~closed[use[f]] /\ wire' = [wire EXCEPT ![use[f]].partial = TRUE]
  /\ UNCHANGED <<chan, made, slot, mux, nth, use, rec, ctimer, hand>>

\* Multiplexed: write_mutex is released, the timer set, the fiber yields.
Sent(f) ==
  /\ pc[f] = "sent"
  /\ IF mode.multiplex
       THEN /\ writeOwner' = None
            /\ ctimer' = [ctimer EXCEPT ![Call(f)] = IF mode.timed THEN "set" ELSE "off"]
            /\ goto(f, "waiting")
       ELSE goto(f, "read") /\ UNCHANGED <<writeOwner, ctimer>>
  /\ UNCHANGED <<connVars, chan, made, slot, conn, pending, readerRunning, nth, use, rec, hand, wire, misled>>

\* The call is taken back, unless the reader has it already.
Unsent(f) ==
  /\ pc[f] = "unsent"
  /\ IF mode.multiplex
       THEN writeOwner' = None /\ pending' = pending \ {Call(f)} /\ end(f, "failed")
       ELSE goto(f, "drop") /\ UNCHANGED <<writeOwner, pending, rec>>
  /\ UNCHANGED <<connVars, chan, made, slot, conn, readerRunning, nth, use, ctimer, hand, wire, misled>>
----------------------------------------------------------------------------
(* The answer of a multiplexed call.                                       *)

\* The fiber is resumed, and does not ask whether the call is done: one that
\* has not failed has an answer.
Answered(f) ==
  /\ pc[f] = "waiting" /\ tasks[f] > 0 /\ FreeWorker
  /\ tasks' = [tasks EXCEPT ![f] = @ - 1]
  /\ ctimer' = [ctimer EXCEPT ![Call(f)] = IF @ = "set" THEN "off" ELSE @]
  /\ end(f, IF rec[Call(f)].failed THEN "failed" ELSE "ok")
  /\ UNCHANGED <<closed, wait, cur, inWait, chan, made, slot, mux, nth, use, hand, wire, misled>>

ExpireCall(k) ==
  /\ ctimer[k] = "set"
  /\ ctimer' = [ctimer EXCEPT ![k] = "due"]
  /\ UNCHANGED <<connVars, chan, made, slot, mux, pc, nth, use, rec, hand, wire, misled>>

\* Mutant of Timeout: it does not look whether the call is still pending.
TimeoutAnyway(k) ==
  /\ ctimer[k] = "due" /\ FreeWorker
  /\ ctimer' = [ctimer EXCEPT ![k] = "off"]
  /\ complete({k}, TRUE, None) /\ pending' = pending \ {k}
  /\ UNCHANGED <<chan, made, slot, conn, writeOwner, readerRunning, pc, nth, use, hand, wire, misled>>

\* The timer's callback: a call that is no longer pending is another's.
Timeout(k) ==
  /\ ctimer[k] = "due" /\ FreeWorker
  /\ ctimer' = [ctimer EXCEPT ![k] = "off"]
  /\ IF k \in pending THEN complete({k}, TRUE, None) /\ pending' = pending \ {k}
                      ELSE UNCHANGED <<connVars, rec, pending>>
  /\ UNCHANGED <<chan, made, slot, conn, writeOwner, readerRunning, pc, nth, use, hand, wire, misled>>
----------------------------------------------------------------------------
(* The reader of connection r.                                             *)

\* The head of the loop.
Top(r) ==
  /\ pc[r] = "top"
  /\ goto(r, IF gone \/ ~Open(conn) THEN "end" ELSE "head")
  /\ use' = [use EXCEPT ![r] = conn]
  /\ UNCHANGED <<connVars, chan, made, slot, mux, nth, rec, ctimer, hand, wire, misled>>

\* The length of the header: the beginning of the next answer.
ReadHead(r) ==
  LET c == use[r] IN
  /\ pc[r] = "head" /\ ~inWait[r]
  /\ \/ /\ ~closed[c] /\ wire[c].answers # <<>>
        /\ hand' = [hand EXCEPT ![r] = {Head(wire[c].answers)}]
        /\ wire' = [wire EXCEPT ![c].answers = Tail(@)]
        /\ goto(r, "body") /\ UNCHANGED connVars
     \/ /\ closed[c] \/ (wire[c].down /\ wire[c].answers = <<>>)
        /\ goto(r, "end") /\ UNCHANGED <<connVars, hand, wire>>
     \/ /\ ~wire[c].down /\ wire[c].answers = <<>>
        /\ BeginWait(r, c, "READ", TRUE) /\ UNCHANGED <<pc, hand, wire>>
  /\ UNCHANGED <<chan, made, slot, mux, nth, use, rec, ctimer, misled>>

\* Nothing within 60 seconds is no error; the loop goes on.
HeadWaited(r) ==
  /\ pc[r] = "head"
  /\ resume(r, CASE Result(r) = "ready" -> "head"
                 [] Result(r) = "ETIMEDOUT" /\ ~gone -> "top"
                 [] OTHER -> "end")
  /\ UNCHANGED <<chan, made, slot, mux, nth, use, rec, ctimer, hand, wire>>

\* The header and the payload: they come, are cut off or malformed, or later.
ReadBody(r) ==
  LET c == use[r] IN
  /\ pc[r] = "body" /\ ~inWait[r]
  /\ \/ ~closed[c] /\ goto(r, "find") /\ UNCHANGED <<connVars, hand>>
     \/ (closed[c] \/ wire[c].down) /\ goto(r, "end") /\ hand' = [hand EXCEPT ![r] = {}] /\ UNCHANGED connVars
     \/ BeginWait(r, c, "READ", TRUE) /\ UNCHANGED <<pc, hand>>
  /\ UNCHANGED <<chan, made, slot, mux, nth, use, rec, ctimer, wire, misled>>

BodyWaited(r) ==
  /\ pc[r] = "body"
  /\ resume(r, IF Result(r) = "ready" THEN "body" ELSE "end")
  /\ hand' = IF Result(r) = "ready" THEN hand ELSE [hand EXCEPT ![r] = {}]
  /\ UNCHANGED <<chan, made, slot, mux, nth, use, rec, ctimer, wire>>

\* The call is taken from the map, if it is there.
Find(r) ==
  /\ pc[r] = "find"
  /\ pending' = pending \ hand[r]
  /\ hand' = [hand EXCEPT ![r] = @ \cap pending]
  /\ goto(r, IF hand[r] \subseteq pending THEN "deliver" ELSE "top")
  /\ UNCHANGED <<connVars, chan, made, slot, conn, writeOwner, readerRunning, nth, use, rec, ctimer, wire, misled>>

\* It gets the answer, or the error the answer holds.
Deliver(r) ==
  /\ pc[r] = "deliver"
  /\ \E k \in hand[r] : complete({k}, FALSE, k) \/ complete({k}, TRUE, None)
  /\ hand' = [hand EXCEPT ![r] = {}]
  /\ goto(r, "top")
  /\ UNCHANGED <<chan, made, slot, mux, nth, use, ctimer, wire, misled>>

EndLoop(r) ==
  /\ pc[r] = "end"
  /\ readerRunning' = FALSE
  /\ goto(r, "close")
  /\ UNCHANGED <<connVars, chan, made, slot, conn, writeOwner, pending, nth, use, rec, ctimer, hand, wire, misled>>

CloseConn(r) ==
  /\ pc[r] = "close"
  /\ closeConns({conn} \cap Conns)
  /\ goto(r, "swap")
  /\ UNCHANGED <<chan, made, slot, mux, nth, use, rec, ctimer, hand, misled>>

\* The calls that remain, whichever connection they were sent on.
Swap(r) ==
  /\ pc[r] = "swap"
  /\ hand' = [hand EXCEPT ![r] = pending]
  /\ pending' = {}
  /\ goto(r, "fail")
  /\ UNCHANGED <<connVars, chan, made, slot, conn, writeOwner, readerRunning, nth, use, rec, ctimer, wire, misled>>

\* Mutant of FailRemaining: they are forgotten.
FailRemainingNone(r) ==
  /\ pc[r] = "fail"
  /\ hand' = [hand EXCEPT ![r] = {}]
  /\ goto(r, "off")
  /\ UNCHANGED <<connVars, chan, made, slot, mux, nth, use, rec, ctimer, wire, misled>>

FailRemaining(r) ==
  /\ pc[r] = "fail"
  /\ complete({k \in hand[r] : ~rec[k].done}, TRUE, None)
  /\ hand' = [hand EXCEPT ![r] = {}]
  /\ goto(r, "off")
  /\ UNCHANGED <<chan, made, slot, mux, nth, use, ctimer, wire, misled>>
----------------------------------------------------------------------------
(* The answer of a pooled call, and the end of the slot's use.             *)

\* ReadExact: the next answer on this connection, which has no id; or one
\* that is too long or malformed; or none.
Read(f) ==
  LET c == use[f] IN
  /\ pc[f] = "read" /\ ~inWait[f]
  /\ \/ /\ ~closed[c] /\ wire[c].answers # <<>>
        /\ wire' = [wire EXCEPT ![c].answers = Tail(@)]
        /\ \/ goto(f, "keep") /\ rec' = [rec EXCEPT ![Call(f)].answer = Head(wire[c].answers)]
           \/ goto(f, "drop") /\ UNCHANGED rec
        /\ UNCHANGED connVars
     \/ (closed[c] \/ wire[c].down) /\ goto(f, "drop") /\ UNCHANGED <<connVars, wire, rec>>
     \/ wire[c].answers = <<>> /\ BeginWait(f, c, "READ", mode.timed) /\ UNCHANGED <<pc, wire, rec>>
  /\ UNCHANGED <<chan, made, slot, mux, nth, use, ctimer, hand, misled>>

ReadWaited(f) ==
  /\ pc[f] = "read"
  /\ resume(f, IF Result(f) = "ready" THEN "read" ELSE "drop")
  /\ UNCHANGED <<chan, made, slot, mux, nth, use, rec, ctimer, hand, wire>>

\* Mutant of Leave: a connection is kept after a failure.
LeaveKeeping(f) ==
  /\ pc[f] \in {"keep", "drop"}
  /\ slot' = [slot EXCEPT ![slotOf(f)].owner = None]
  /\ end(f, IF pc[f] = "keep" THEN "ok" ELSE "failed")
  /\ UNCHANGED <<connVars, chan, made, mux, nth, use, ctimer, hand, wire, misled>>

\* A call that has failed takes its connection down.
Leave(f) ==
  /\ pc[f] \in {"keep", "drop"}
  /\ IF pc[f] = "keep"
       THEN slot' = [slot EXCEPT ![slotOf(f)].owner = None] /\ UNCHANGED <<connVars, wire>>
       ELSE slot' = [slot EXCEPT ![slotOf(f)] = [owner |-> None, conn |-> None]] /\ closeConns({use[f]})
  /\ end(f, IF pc[f] = "keep" THEN "ok" ELSE "failed")
  /\ UNCHANGED <<chan, made, mux, nth, use, ctimer, hand, misled>>
----------------------------------------------------------------------------
(* The others.                                                             *)

\* ~Channel; calls and the reader keep the state alive.
Destroy ==
  /\ ~gone
  /\ gone' = TRUE
  /\ closeConns(({conn} \cup {slot[s].conn : s \in Slots}) \cap Conns)
  /\ UNCHANGED <<mode, made, slot, mux, pc, nth, use, rec, ctimer, hand, misled>>

\* The peer answers a request it has, or goes away.
PeerAnswers(c, k) ==
  /\ k \in wire[c].sent /\ ~wire[c].down
  /\ wire' = [wire EXCEPT ![c].sent = @ \ {k}, ![c].answers = Append(@, k)]
  /\ UNCHANGED <<connVars, chan, made, slot, mux, pc, nth, use, rec, ctimer, hand, misled>>

PeerGone(c) ==
  /\ c <= made /\ ~closed[c] /\ ~wire[c].down
  /\ wire' = [wire EXCEPT ![c].down = TRUE]
  /\ UNCHANGED <<connVars, chan, made, slot, mux, pc, nth, use, rec, ctimer, hand, misled>>

\* The wakers of Connection; callbacks need a worker.
Waker(w) ==
  /\ \/ Report(w) \/ Expire(w) \/ TimerCancel(w)
     \/ FreeWorker /\ (EventCallback(w) \/ TimerCallback(w))
  /\ UNCHANGED <<chan, made, slot, mux, pc, nth, use, rec, ctimer, hand, wire, misled>>
----------------------------------------------------------------------------
callerStep(f) ==
  \/ Lock(f) \/ Take(f) \/ Connect(f) \/ ConnectWaited(f) \/ Refused(f) \/ Adopt(f) \/ Register(f) \/ Write(f)
  \/ WriteWaited(f) \/ Sent(f) \/ Unsent(f) \/ Answered(f) \/ Read(f) \/ ReadWaited(f) \/ Leave(f)

readerStep(r) ==
  \/ Top(r) \/ ReadHead(r) \/ HeadWaited(r) \/ ReadBody(r) \/ BodyWaited(r) \/ Find(r) \/ Deliver(r)
  \/ EndLoop(r) \/ CloseConn(r) \/ Swap(r) \/ FailRemaining(r)

ChannelNext ==
  \/ \E f \in Callers : Begin(f) \/ callerStep(f)
  \/ \E r \in Conns : readerStep(r)
  \/ \E k \in Calls : ExpireCall(k) \/ Timeout(k)
  \/ \E w \in Waits : Waker(w)
  \/ \E c \in Conns : PeerGone(c) \/ \E k \in Calls : PeerAnswers(c, k)
  \/ Destroy

ChannelSpec == ChannelInit /\ [][ChannelNext]_vars
----------------------------------------------------------------------------
\* An answer goes to the call it answers, on a multiplexed connection and on
\* a pooled one that an earlier call has given up (rpc.cpp:187-204, 443-455).
AnswerOwn == \A k \in Calls : rec[k].result = "ok" => rec[k].answer = k

\* A call that was sent leaves nothing behind that would resume its fiber in
\* a later wait: neither a task nor a registered event, nor is it pending.
NothingLeft ==
  \A f \in Callers : pc[f] = "idle" /\ nth[f] > 0 /\ rec[Call(f)].result = "ok" =>
    /\ tasks[f] = 0 /\ \A n \in States : ~wait[<<f, n>>].used
    /\ Call(f) \notin pending \cup UNION {hand[r] : r \in Conns}

\* A caller that waits for its answer will be woken: it is scheduled, or some
\* reader has its call in hand, or the call is pending and its timer or the
\* reader will take it (rpc.cpp:343-365).  Except for a fiber whose wake-up
\* was used up in WriteAll (README, deviations).
NoLostCall ==
  \A f \in Callers : pc[f] = "waiting" /\ f \notin misled =>
    \/ tasks[f] > 0
    \/ \E r \in Conns : Call(f) \in hand[r] /\ pc[r] \in {"deliver", "fail"}
    \/ Call(f) \in pending /\ (ctimer[Call(f)] # "off" \/ \E r \in Conns : pc[r] \notin {"off", "fail"})

\* The same for every fiber: a call with a timeout ends.  This fails.
CallEnds ==
  \A f \in Callers : pc[f] = "waiting" => tasks[f] > 0 \/ ctimer[Call(f)] # "off" \/ Call(f) \in pending
                                          \/ \E r \in Conns : Call(f) \in hand[r]

\* An event is not registered twice, which would be the end of the program
\* (iomanager.cpp:173).  This fails.
EventOnce ==
  \A v, w \in Waits : v # w /\ wait[v].reg => ~Registered(w, wait[v].conn, wait[v].event)

\* No frame follows the part of another on a connection.  This fails.
FramesWhole == \A f \in Callers : pc[f] = "write" => ~wire[use[f]].partial
============================================================================

------------------------------- MODULE Server -------------------------------
(***************************************************************************)
(* net::Server (src/src/net.cpp): the accept loop, the count of active     *)
(* connections, the task that runs the handler on each accepted connection *)
(* and Stop().  Start() is called once.  Each client connects once; its    *)
(* connection goes                                                         *)
(*   none -> backlog -> fresh -> open -> closed                            *)
(* where a fresh connection was accepted and is not yet in `connections`.  *)
(* The waits inside a Connection are module Connection's; here a wait ends *)
(* when what it waits for is there or the connection is closed.  What the  *)
(* handler does is left to the module that extends this one: it takes a    *)
(* task from "queued" to "end".                                            *)
(***************************************************************************)
EXTENDS Naturals, FiniteSets

CONSTANTS Clients,          \* each makes one connection
          MaxConnections    \* max_connections

ASSUME ServerAssumption == IsFiniteSet(Clients) /\ MaxConnections \in Nat \ {0}

VARIABLES running, listener, loop, sock, connections, active, task,
          stop,             \* how far Stop() has come
          closing           \* the connections Stop() took from the list

serverVars == <<running, listener, loop, sock, connections, active, task, stop, closing>>

ServerInit ==
  /\ running = FALSE /\ listener = "none" /\ loop = "off"
  /\ sock = [c \in Clients |-> "none"] /\ connections = {} /\ active = 0
  /\ task = [c \in Clients |-> "none"] /\ stop = "off" /\ closing = {}

Backlog == {c \in Clients : sock[c] = "backlog"}
Open(c) == sock[c] = "open"

\* Start(): the listener is open, and the accept loop is scheduled.
StartServer ==
  /\ ~running /\ listener = "none"
  /\ running' = TRUE /\ listener' = "open" /\ loop' = "accept"
  /\ UNCHANGED <<sock, connections, active, task, stop, closing>>

\* A client connects: the kernel queues its connection.
ClientConnects(c) ==
  /\ listener = "open" /\ sock[c] = "none"
  /\ sock' = [sock EXCEPT ![c] = "backlog"]
  /\ UNCHANGED <<running, listener, loop, connections, active, task, stop, closing>>

\* accept4() returns a connection, perhaps after a wait for one.  It is counted
\* in `active`, or closed when the count is at its limit.
Accept ==
  /\ loop = "accept" /\ running /\ listener = "open"
  /\ \E c \in Backlog :
       IF active < MaxConnections
         THEN /\ sock' = [sock EXCEPT ![c] = "fresh"]
              /\ active' = active + 1 /\ loop' = "list"
         ELSE /\ sock' = [sock EXCEPT ![c] = "closed"]
              /\ UNCHANGED <<active, loop>>
  /\ UNCHANGED <<running, listener, connections, task, stop, closing>>

\* The loop ends: Stop() has been called, or accept4() or the wait has failed.
AcceptEnds ==
  /\ loop = "accept" /\ loop' = "off"
  /\ UNCHANGED <<running, listener, sock, connections, active, task, stop, closing>>

\* The new connection enters the list, and its handler task is scheduled.
List(c) ==
  /\ loop = "list" /\ sock[c] = "fresh"
  /\ sock' = [sock EXCEPT ![c] = "open"]
  /\ connections' = {d \in connections : task[d] # "over"} \cup {c}
  /\ task' = [task EXCEPT ![c] = "queued"]
  /\ loop' = "accept"
  /\ UNCHANGED <<running, listener, active, stop, closing>>

\* The handler has returned: the task closes the connection ...
TaskCloses(c) ==
  /\ task[c] = "end"
  /\ sock' = [sock EXCEPT ![c] = "closed"]
  /\ task' = [task EXCEPT ![c] = "count"]
  /\ UNCHANGED <<running, listener, loop, connections, active, stop, closing>>

\* ... and takes it out of the count.
TaskEnds(c) ==
  /\ task[c] = "count"
  /\ active' = active - 1
  /\ task' = [task EXCEPT ![c] = "over"]
  /\ UNCHANGED <<running, listener, loop, sock, connections, stop, closing>>

\* Stop(): running.exchange(false)
StopExchange ==
  /\ stop = "server"
  /\ running' = FALSE
  /\ stop' = IF running THEN "take" ELSE "stopped"
  /\ UNCHANGED <<listener, loop, sock, connections, active, task, closing>>

\* Under the mutex, the connections that still exist are taken from the list.
StopTake ==
  /\ stop = "take"
  /\ closing' = {c \in connections : task[c] # "over"}
  /\ connections' = {}
  /\ stop' = "close"
  /\ UNCHANGED <<running, listener, loop, sock, active, task>>

\* Mutant of StopClose: only the listener is closed.
StopCloseListener ==
  /\ stop = "close"
  /\ listener' = "closed" /\ closing' = {} /\ stop' = "stopped"
  /\ UNCHANGED <<running, loop, sock, connections, active, task>>

\* The listener and those connections are closed.
StopClose ==
  /\ stop = "close"
  /\ listener' = "closed"
  /\ sock' = [c \in Clients |-> IF c \in closing THEN "closed" ELSE sock[c]]
  /\ closing' = {} /\ stop' = "stopped"
  /\ UNCHANGED <<running, loop, connections, active, task>>

acceptStep == Accept \/ \E c \in Clients : List(c)
stopStep == StopExchange \/ StopTake \/ StopClose

\* A server that runs accepts connections: its accept loop has not ended.  This
\* fails (README, deviations).
KeepsAccepting == running => loop # "off"
=============================================================================

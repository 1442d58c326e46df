----------------------------- MODULE FdManager -----------------------------
(***************************************************************************)
(* pulsar::FdManager (fd_manager.cpp) under the hooked calls that use it:  *)
(* socket, accept, close, fcntl, ioctl and setsockopt (hook.cpp).  Several *)
(* threads make and close sockets whose numbers the kernel gives again;    *)
(* those of Hooked run fibers, the others call the C library directly.     *)
(*                                                                         *)
(* Every FdCtx is one of a socket, for only socket() and accept() make     *)
(* them, and m_isClosed is never set; so a context is what its user has    *)
(* set, m_userNonblock and the timeouts, and m_sysNonblock is true.        *)
(***************************************************************************)
EXTENDS Integers

CONSTANTS
  Fds,         \* the numbers the kernel gives
  Threads, Hooked,
  InitSize     \* m_datas.resize(64) in the constructor

ASSUME FdManagerAssumption ==
  Fds \subseteq Nat /\ Hooked \subseteq Threads /\ InitSize \in Nat /\ InitSize > 1

Absent == [nonblock |-> FALSE, timed |-> FALSE, present |-> FALSE]
Fresh == [nonblock |-> FALSE, timed |-> FALSE, present |-> TRUE]

VARIABLES
  kernel,      \* "free", "blocking" or "nonblocking"
  m_datas,     \* the FdCtx of each fd
  size,        \* m_datas.size()
  at,          \* what a thread is about to do, and to which fd
  open,        \* the fds that users hold
  managed,     \* those made by a hooked thread
  asked,       \* what their users have asked of them
  stale,       \* history: fds an unhooked thread closed under their context
  unblocked    \* history: open fds made blocking by FIONBIO, and not reset since

history == <<stale, unblocked>>
fdVars == <<kernel, m_datas, size, at, open, managed, asked, history>>

Idle == [op |-> "idle", fd |-> 0]

FdManagerInit ==
  /\ kernel = [f \in Fds |-> "free"]
  /\ m_datas = [f \in Fds |-> Absent]
  /\ size = InitSize
  /\ at = [t \in Threads |-> Idle]
  /\ open = {} /\ managed = {}
  /\ asked = [f \in Fds |-> Absent]
  /\ stale = {} /\ unblocked = {}
----------------------------------------------------------------------------
enter(t, op, f) == at' = [at EXCEPT ![t] = [op |-> op, fd |-> f]]
has(f) == f < size /\ m_datas[f].present
setKernel(f, nonblock) == kernel' = [kernel EXCEPT ![f] = IF nonblock THEN "nonblocking" ELSE "blocking"]

\* socket_f or accept_f returns a number that is free.
Socket(t, f) ==
  /\ at[t] = Idle /\ kernel[f] = "free"
  /\ setKernel(f, FALSE)
  /\ IF t \in Hooked THEN enter(t, "get", f) /\ UNCHANGED open
                     ELSE at' = at /\ open' = open \cup {f}
  /\ UNCHANGED <<m_datas, size, managed, asked, history>>

\* The call returns to its user.
hand(t, f) ==
  /\ at' = [at EXCEPT ![t] = Idle]
  /\ open' = open \cup {f} /\ managed' = managed \cup {f}
  /\ asked' = [asked EXCEPT ![f] = Fresh]

\* get(fd, true) under the read lock: there is a context already, or not.
Get(t) ==
  LET f == at[t].fd IN
  /\ at[t].op = "get"
  /\ IF has(f) THEN hand(t, f) ELSE enter(t, "create", f) /\ UNCHANGED <<open, managed, asked>>
  /\ UNCHANGED <<kernel, m_datas, size, history>>

\* Mutant of resize: without a second look at the size.
resizeAlways(f) == (f * 3) \div 2

\* The size of the table with room for fd f.
resize(f) == IF f >= size THEN (f * 3) \div 2 ELSE size

\* get(fd, true) under the write lock: FdCtx::init() sets O_NONBLOCK.  What
\* the vector loses when it shrinks is gone.
Create(t) ==
  LET f == at[t].fd IN
  /\ at[t].op = "create"
  /\ setKernel(f, TRUE)
  /\ size' = resize(f)
  /\ m_datas' = [g \in Fds |-> IF g = f THEN Fresh ELSE IF g < size' THEN m_datas[g] ELSE Absent]
  /\ hand(t, f)
  /\ stale' = stale \ {f} /\ UNCHANGED unblocked
----------------------------------------------------------------------------
\* The user of f asks for a setting; the FdCtx records what is meant for it.
ask(f, s) == asked' = [asked EXCEPT ![f] = IF @.present THEN s ELSE @]
set(f, s) == m_datas' = [m_datas EXCEPT ![f] = IF has(f) THEN s ELSE @]

\* Mutant of SetFl: the flag is recorded after the runtime's own was added.
SetFlForced(f, nonblock) ==
  /\ f \in open
  /\ ask(f, [asked[f] EXCEPT !.nonblock = nonblock])
  /\ set(f, [m_datas[f] EXCEPT !.nonblock = TRUE])
  /\ setKernel(f, has(f) \/ nonblock)
  /\ unblocked' = unblocked \ {f}
  /\ UNCHANGED <<size, at, open, managed, stale>>

\* Mutant of SetFl: the runtime's own flag is not added.
SetFlPlain(f, nonblock) ==
  /\ f \in open
  /\ ask(f, [asked[f] EXCEPT !.nonblock = nonblock])
  /\ set(f, [m_datas[f] EXCEPT !.nonblock = nonblock])
  /\ setKernel(f, nonblock)
  /\ unblocked' = unblocked \ {f}
  /\ UNCHANGED <<size, at, open, managed, stale>>

\* fcntl(F_SETFL)
SetFl(f, nonblock) ==
  /\ f \in open
  /\ ask(f, [asked[f] EXCEPT !.nonblock = nonblock])
  /\ set(f, [m_datas[f] EXCEPT !.nonblock = nonblock])
  /\ setKernel(f, has(f) \/ nonblock)
  /\ unblocked' = unblocked \ {f}
  /\ UNCHANGED <<size, at, open, managed, stale>>

\* ioctl(FIONBIO)
Ioctl(f, nonblock) ==
  /\ f \in open
  /\ ask(f, [asked[f] EXCEPT !.nonblock = nonblock])
  /\ set(f, [m_datas[f] EXCEPT !.nonblock = nonblock])
  /\ setKernel(f, nonblock)
  /\ unblocked' = IF nonblock THEN unblocked \ {f} ELSE unblocked \cup {f}
  /\ UNCHANGED <<size, at, open, managed, stale>>

\* setsockopt(SO_RCVTIMEO or SO_SNDTIMEO) by a hooked thread.
SetSockOpt(f) ==
  /\ f \in open
  /\ ask(f, [asked[f] EXCEPT !.timed = TRUE])
  /\ set(f, [m_datas[f] EXCEPT !.timed = TRUE])
  /\ UNCHANGED <<kernel, size, at, open, managed, history>>
----------------------------------------------------------------------------
drop(f) == open' = open \ {f} /\ managed' = managed \ {f} /\ asked' = [asked EXCEPT ![f] = Absent]

\* close(): a hooked thread deletes the context first, if there is one.
Close(t, f) ==
  /\ at[t] = Idle /\ f \in open
  /\ drop(f)
  /\ enter(t, IF t \in Hooked /\ has(f) THEN "del" ELSE "close", f)
  /\ stale' = IF t \notin Hooked /\ has(f) THEN stale \cup {f} ELSE stale
  /\ unblocked' = unblocked \ {f}
  /\ UNCHANGED <<kernel, m_datas, size>>

Del(t) ==
  LET f == at[t].fd IN
  /\ at[t].op = "del"
  /\ m_datas' = [m_datas EXCEPT ![f] = Absent]
  /\ enter(t, "close", f)
  /\ stale' = stale \ {f}
  /\ UNCHANGED <<kernel, size, open, managed, asked, unblocked>>

CloseKernel(t) ==
  /\ at[t].op = "close"
  /\ kernel' = [kernel EXCEPT ![at[t].fd] = "free"]
  /\ at' = [at EXCEPT ![t] = Idle]
  /\ UNCHANGED <<m_datas, size, open, managed, asked, history>>
----------------------------------------------------------------------------
FdManagerNext ==
  \/ \E t \in Threads : Get(t) \/ Create(t) \/ Del(t) \/ CloseKernel(t)
  \/ \E t \in Threads, f \in Fds : Socket(t, f) \/ Close(t, f)
  \/ \E f \in Fds : \/ SetSockOpt(f)
                    \/ \E nonblock \in BOOLEAN : SetFl(f, nonblock) \/ Ioctl(f, nonblock)

FdManagerSpec == FdManagerInit /\ [][FdManagerNext]_fdVars
----------------------------------------------------------------------------
FdManagerTypeOK ==
  /\ kernel \in [Fds -> {"free", "blocking", "nonblocking"}]
  /\ m_datas \in [Fds -> [nonblock : BOOLEAN, timed : BOOLEAN, present : BOOLEAN]]
  /\ asked \in [Fds -> [nonblock : BOOLEAN, timed : BOOLEAN, present : BOOLEAN]]
  /\ size \in Nat
  /\ at \in [Threads -> [op : {"idle", "get", "create", "del", "close"}, fd : Fds \cup {0}]]
  /\ open \subseteq Fds /\ managed \subseteq open /\ stale \subseteq Fds /\ unblocked \subseteq open

\* A socket that socket() or accept() has returned on a hooked thread keeps
\* its FdCtx until it is closed, whatever other threads close and make and
\* however the table grows: without one its calls would not wait in a fiber.
ContextKept == \A f \in managed : has(f)

\* The FdCtx holds what the user of this socket has set, and nothing a
\* former socket of the same number was given: m_userNonblock is "whether
\* the user has actively set non-blocking" (fd_manager.hpp:26).  The one way
\* to inherit settings is a close() on a thread that is not hooked.
SettingsAsAsked == \A f \in managed \ stale : m_datas[f] = asked[f]

\* A socket with an FdCtx does not block in the kernel, as getSysNonblock()
\* says of it (fd_manager.hpp:30): a call that blocked would stop a worker.
\* Only FIONBIO with 0, and a context inherited as above, make it block.
KernelNonblocking == \A f \in managed \ (stale \cup unblocked) : kernel[f] = "nonblocking"
============================================================================

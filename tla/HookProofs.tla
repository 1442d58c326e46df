----------------------------- MODULE HookProofs -----------------------------
(***************************************************************************)
(* The hooked calls and the fd contexts they look up: a wait is woken for  *)
(* its own reason, a timeout is earned, connect() tells the truth, and the *)
(* contexts keep what the user asked for.  For any number of calls, waits, *)
(* threads and fds.                                                        *)
(***************************************************************************)
EXTENDS HookIO, FdManager, TLAPS

(* HookIO: do_io and connect_with_timeout.                                 *)

\* What is true of the call the fiber is in, of its timers and of its flag.
CallInv ==
  /\ pc # "idle" => call \in Calls /\ outcome[call] = "none"
  /\ pc \in {"add", "yield", "parked", "woken", "check"} => wait >= 1
  /\ \A c \in Calls : c > call => outcome[c] = "none" /\ ~cnacelled[c]
  /\ \A t \in Timers : timer[t] # "none" => t[1] <= call /\ (t[1] = call => t[2] <= wait)
  /\ \A c \in Calls : cnacelled[c] => \E w \in 1..MaxWaits : timer[<<c, w>>] \in {"due", "cancelling", "over"}
  /\ \A t \in Timers : timer[t] = "cancelling" => cnacelled[t[1]]

\* A fiber that connects and was woken, not by a timer, finds its socket
\* connected or being closed.
ConnectInv ==
  kind = "connect" /\ pc # "idle" =>
    /\ call = 1
    /\ (queued \/ pc \in {"woken", "check"}) /\ ~cnacelled[call] => ready \/ fd # "open"

HookInv == HookTypeOK /\ CallInv /\ ConnectInv /\ WakeForWait /\ TimeoutEarned

LEMMA HookInit0 == HookInit => HookInv
  <1> SUFFICES ASSUME HookInit PROVE HookInv
    BY Zenon
  <1>1. HookTypeOK
    <2>1. call \in 0..MaxCalls /\ wait \in 0..MaxWaits
      BY HookAssumption DEF HookInit
    <2> QED
      BY <2>1, Zenon DEF HookInit, HookTypeOK
  <1>2. CallInv
    BY HookAssumption, Zenon DEF HookInit, CallInv, Calls, Timers
  <1>3. ConnectInv /\ WakeForWait /\ TimeoutEarned
    BY Zenon DEF HookInit, ConnectInv, WakeForWait, TimeoutEarned, Calls
  <1> QED
    BY <1>1, <1>2, <1>3, Zenon DEF HookInv

LEMMA TryReturnStep ==
  ASSUME HookInv, TryReturn
  PROVE  HookInv'
  <1>1. HookTypeOK'
    BY HookAssumption, Zenon DEF HookInv, HookTypeOK, Calls, Timers, TryReturn, return
  <1>2. CallInv'
    BY HookAssumption DEF HookInv, HookTypeOK, Calls, Timers, CallInv, TryReturn, return
  <1>3. ConnectInv'
    BY HookAssumption, Zenon DEF HookInv, HookTypeOK, Calls, Timers, CallInv, ConnectInv, WakeForWait, TryReturn, return
  <1>4. WakeForWait'
    BY HookAssumption, Zenon DEF HookInv, HookTypeOK, Calls, Timers, WakeForWait, CallInv, TryReturn, return
  <1>5. TimeoutEarned'
    BY HookAssumption DEF HookInv, HookTypeOK, Calls, Timers, TimeoutEarned, CallInv, TryReturn, return
  <1> QED
    BY <1>1, <1>2, <1>3, <1>4, <1>5, Zenon DEF HookInv

LEMMA ArmStep ==
  ASSUME HookInv, Arm
  PROVE  HookInv'
  <1> DEFINE t0 == <<call, wait + 1>>
  <1>0. /\ call \in Calls /\ wait \in 0..MaxWaits /\ wait + 1 \in 1..MaxWaits
        /\ t0 \in Timers /\ t0[1] = call /\ t0[2] = wait + 1
    BY HookAssumption DEF HookInv, HookTypeOK, CallInv, Arm, Calls, Timers
  <1>a. /\ timer' \in [Timers -> {"none", "set", "due", "cancelling", "over"}]
        /\ \A t \in Timers : t # t0 => timer'[t] = timer[t]
        /\ timer'[t0] \in {timer[t0], "set"}
    BY <1>0, Zenon DEF HookInv, HookTypeOK, Arm
  <1>b. timer[t0] = "none"
    <2>1. timer[t0] # "none" => t0[2] <= wait
      BY <1>0, Zenon DEF HookInv, CallInv
    <2> QED
      BY <1>0, <2>1
  <1>1. HookTypeOK'
    <2>1. wait' \in 0..MaxWaits /\ pc' = "add"
      BY <1>0, HookAssumption DEF Arm
    <2> QED
      BY <1>a, <2>1, Zenon DEF HookInv, HookTypeOK, Arm
  <1>2. CallInv'
    <2>1. \A t \in Timers : timer'[t] # "none" => t[1] <= call /\ (t[1] = call => t[2] <= wait + 1)
      <3> SUFFICES ASSUME NEW t \in Timers, timer'[t] # "none"
                   PROVE  t[1] <= call /\ (t[1] = call => t[2] <= wait + 1)
        BY Zenon
      <3>0. t[1] \in Nat /\ t[2] \in Nat
        BY DEF Timers, Calls
      <3>1. CASE t = t0
        BY <3>1, <1>0 DEF Calls
      <3>2. CASE t # t0
        BY <3>0, <3>2, <1>0, <1>a DEF HookInv, CallInv, Calls
      <3> QED
        BY <3>1, <3>2, Zenon
    <2>2. \A c \in Calls : cnacelled[c] => \E w \in 1..MaxWaits : timer'[<<c, w>>] \in {"due", "cancelling", "over"}
      <3> SUFFICES ASSUME NEW c \in Calls, cnacelled[c]
                   PROVE  \E w \in 1..MaxWaits : timer'[<<c, w>>] \in {"due", "cancelling", "over"}
        BY Zenon
      <3>1. PICK w \in 1..MaxWaits : timer[<<c, w>>] \in {"due", "cancelling", "over"}
        BY Zenon DEF HookInv, CallInv
      <3>2. <<c, w>> \in Timers /\ <<c, w>> # t0
        BY <3>1, <1>b, Zenon DEF Timers
      <3> QED
        BY <3>1, <3>2, <1>a, Zenon
    <2>3. \A t \in Timers : timer'[t] = "cancelling" => cnacelled[t[1]]
      BY <1>0, <1>a, <1>b, Zenon DEF HookInv, CallInv
    <2> QED
      BY <1>0, <2>1, <2>2, <2>3 DEF HookInv, CallInv, Arm
  <1>3. ConnectInv'
    BY HookAssumption, Zenon DEF HookInv, HookTypeOK, Calls, Timers, CallInv, ConnectInv, WakeForWait, Arm
  <1>4. WakeForWait'
    BY Zenon DEF HookInv, HookTypeOK, WakeForWait, CallInv, Arm
  <1>5. TimeoutEarned'
    BY HookAssumption, Zenon DEF HookInv, HookTypeOK, Calls, Timers, TimeoutEarned, CallInv, Arm
  <1> QED
    BY <1>1, <1>2, <1>3, <1>4, <1>5, Zenon DEF HookInv

LEMMA AddEventStep ==
  ASSUME HookInv, AddEvent
  PROVE  HookInv'
  <1>1. CASE fd # "closed"
    <2>1. HookTypeOK'
      BY <1>1, Zenon DEF HookInv, HookTypeOK, AddEvent, goto
    <2>2. CallInv'
      BY <1>1, Zenon DEF HookInv, CallInv, AddEvent, goto
    <2>3. ConnectInv' /\ WakeForWait'
      BY <1>1, Zenon DEF HookInv, HookTypeOK, CallInv, ConnectInv, WakeForWait, AddEvent, goto
    <2>4. TimeoutEarned'
      BY <1>1, Zenon DEF HookInv, TimeoutEarned, AddEvent, goto
    <2> QED
      BY <2>1, <2>2, <2>3, <2>4, Zenon DEF HookInv
  <1>2. CASE fd = "closed"
    <2>0. /\ pc = "add" /\ pc' = "idle" /\ outcome' = [outcome EXCEPT ![call] = "failed"]
          /\ timer' = [timer EXCEPT ![<<call, wait>>] = IF @ = "set" THEN "none" ELSE @]
          /\ UNCHANGED <<call, kind, wait, timed, registered, cnacelled, queued, ready, fd>>
      BY <1>2, Zenon DEF AddEvent, return, cancelTimer
    <2>1. /\ timer' \in [Timers -> {"none", "set", "due", "cancelling", "over"}]
          /\ \A t \in Timers : timer'[t] = timer[t] \/ (timer[t] = "set" /\ timer'[t] = "none")
      <3>1. timer \in [Timers -> {"none", "set", "due", "cancelling", "over"}]
        BY Zenon DEF HookInv, HookTypeOK
      <3>2. <<call, wait>> \in Timers
        BY <2>0, HookAssumption DEF HookInv, HookTypeOK, CallInv, Timers, Calls
      <3>3. /\ \A t \in Timers : t # <<call, wait>> => timer'[t] = timer[t]
            /\ timer'[<<call, wait>>] = IF timer[<<call, wait>>] = "set" THEN "none" ELSE timer[<<call, wait>>]
            /\ timer' \in [Timers -> {"none", "set", "due", "cancelling", "over"}]
        BY <2>0, <3>1, <3>2, Zenon
      <3> QED
        BY <3>2, <3>3, Zenon
    <2>2. HookTypeOK'
      BY <2>0, <2>1, Zenon DEF HookInv, HookTypeOK
    <2>3. \A c \in Calls, w \in 1..MaxWaits : timer[<<c, w>>] \in {"due", "cancelling", "over"} => timer'[<<c, w>>] = timer[<<c, w>>]
      BY <2>1, Zenon DEF Timers
    <2>a. \A c \in Calls : c > call => outcome'[c] = outcome[c]
      BY <2>0, HookAssumption DEF HookInv, HookTypeOK, Calls
    <2>4. CallInv'
      BY <2>0, <2>1, <2>3, <2>a DEF HookInv, CallInv
    <2>5. ConnectInv' /\ WakeForWait'
      BY <2>0, Zenon DEF HookInv, HookTypeOK, ConnectInv, WakeForWait
    <2>6. TimeoutEarned'
      BY <2>0, <2>3, Zenon DEF HookInv, HookTypeOK, TimeoutEarned
    <2> QED
      BY <2>2, <2>4, <2>5, <2>6, Zenon DEF HookInv
  <1> QED
    BY <1>1, <1>2, Zenon

LEMMA YieldStep ==
  ASSUME HookInv, Yield
  PROVE  HookInv'
  <1>1. HookTypeOK'
    BY HookAssumption, Zenon DEF HookInv, HookTypeOK, Calls, Timers, Yield, goto
  <1>2. CallInv'
    BY HookAssumption, Zenon DEF HookInv, HookTypeOK, Calls, Timers, CallInv, Yield, goto
  <1>3. ConnectInv'
    BY HookAssumption, Zenon DEF HookInv, HookTypeOK, Calls, Timers, CallInv, ConnectInv, WakeForWait, Yield, goto
  <1>4. WakeForWait'
    BY HookAssumption, Zenon DEF HookInv, HookTypeOK, Calls, Timers, WakeForWait, CallInv, Yield, goto
  <1>5. TimeoutEarned'
    BY HookAssumption, Zenon DEF HookInv, HookTypeOK, Calls, Timers, TimeoutEarned, CallInv, Yield, goto
  <1> QED
    BY <1>1, <1>2, <1>3, <1>4, <1>5, Zenon DEF HookInv

LEMMA ResumeStep ==
  ASSUME HookInv, Resume
  PROVE  HookInv'
  <1>1. HookTypeOK'
    BY HookAssumption, Zenon DEF HookInv, HookTypeOK, Calls, Timers, Resume, goto
  <1>2. CallInv'
    BY HookAssumption, Zenon DEF HookInv, HookTypeOK, Calls, Timers, CallInv, Resume, goto
  <1>3. ConnectInv'
    BY HookAssumption, Zenon DEF HookInv, HookTypeOK, Calls, Timers, CallInv, ConnectInv, WakeForWait, Resume, goto
  <1>4. WakeForWait'
    BY HookAssumption, Zenon DEF HookInv, HookTypeOK, Calls, Timers, WakeForWait, CallInv, Resume, goto
  <1>5. TimeoutEarned'
    BY HookAssumption, Zenon DEF HookInv, HookTypeOK, Calls, Timers, TimeoutEarned, CallInv, Resume, goto
  <1> QED
    BY <1>1, <1>2, <1>3, <1>4, <1>5, Zenon DEF HookInv

LEMMA CancelTimerStep ==
  ASSUME HookInv, CancelTimer
  PROVE  HookInv'
  <1>1. HookTypeOK'
    BY HookAssumption, Zenon DEF HookInv, HookTypeOK, Calls, Timers, CancelTimer, cancelTimer, goto
  <1>2. CallInv'
    BY HookAssumption, Zenon DEF HookInv, HookTypeOK, Calls, Timers, CallInv, CancelTimer, cancelTimer, goto
  <1>3. ConnectInv'
    BY HookAssumption, Zenon DEF HookInv, HookTypeOK, Calls, Timers, CallInv, ConnectInv, WakeForWait, CancelTimer, cancelTimer, goto
  <1>4. WakeForWait'
    BY HookAssumption, Zenon DEF HookInv, HookTypeOK, Calls, Timers, WakeForWait, CallInv, CancelTimer, cancelTimer, goto
  <1>5. TimeoutEarned'
    BY HookAssumption, Zenon DEF HookInv, HookTypeOK, Calls, Timers, TimeoutEarned, CallInv, CancelTimer, cancelTimer, goto
  <1> QED
    BY <1>1, <1>2, <1>3, <1>4, <1>5, Zenon DEF HookInv

LEMMA CheckStep ==
  ASSUME HookInv, Check
  PROVE  HookInv'
  <1>1. HookTypeOK'
    BY HookAssumption, Zenon DEF HookInv, HookTypeOK, Calls, Timers, Check, return, goto
  <1>2. CallInv'
    BY HookAssumption DEF HookInv, HookTypeOK, Calls, Timers, CallInv, Check, return, goto
  <1>3. ConnectInv'
    BY HookAssumption, Zenon DEF HookInv, HookTypeOK, Calls, Timers, CallInv, ConnectInv, WakeForWait, Check, return, goto
  <1>4. WakeForWait'
    BY HookAssumption, Zenon DEF HookInv, HookTypeOK, Calls, Timers, WakeForWait, CallInv, Check, return, goto
  <1>5. TimeoutEarned'
    BY HookAssumption DEF HookInv, HookTypeOK, Calls, Timers, TimeoutEarned, CallInv, Check, return, goto
  <1> QED
    BY <1>1, <1>2, <1>3, <1>4, <1>5, Zenon DEF HookInv

LEMMA ReportStep ==
  ASSUME HookInv, Report
  PROVE  HookInv'
  <1>1. HookTypeOK'
    BY HookAssumption, Zenon DEF HookInv, HookTypeOK, Calls, Timers, Report, wake, fiberVars
  <1>2. CallInv'
    BY HookAssumption, Zenon DEF HookInv, HookTypeOK, Calls, Timers, CallInv, Report, wake, fiberVars
  <1>3. ConnectInv'
    BY HookAssumption, Zenon DEF HookInv, HookTypeOK, Calls, Timers, CallInv, ConnectInv, WakeForWait, Report, wake, fiberVars
  <1>4. WakeForWait'
    BY HookAssumption, Zenon DEF HookInv, HookTypeOK, Calls, Timers, WakeForWait, CallInv, Report, wake, fiberVars
  <1>5. TimeoutEarned'
    BY HookAssumption, Zenon DEF HookInv, HookTypeOK, Calls, Timers, TimeoutEarned, CallInv, Report, wake, fiberVars
  <1> QED
    BY <1>1, <1>2, <1>3, <1>4, <1>5, Zenon DEF HookInv

LEMMA PeerStep ==
  ASSUME HookInv, Peer
  PROVE  HookInv'
  <1>1. HookTypeOK'
    BY HookAssumption, Zenon DEF HookInv, HookTypeOK, Calls, Timers, Peer, fiberVars
  <1>2. CallInv'
    BY HookAssumption, Zenon DEF HookInv, HookTypeOK, Calls, Timers, CallInv, Peer, fiberVars
  <1>3. ConnectInv'
    BY HookAssumption, Zenon DEF HookInv, HookTypeOK, Calls, Timers, CallInv, ConnectInv, WakeForWait, Peer, fiberVars
  <1>4. WakeForWait'
    BY HookAssumption, Zenon DEF HookInv, HookTypeOK, Calls, Timers, WakeForWait, CallInv, Peer, fiberVars
  <1>5. TimeoutEarned'
    BY HookAssumption, Zenon DEF HookInv, HookTypeOK, Calls, Timers, TimeoutEarned, CallInv, Peer, fiberVars
  <1> QED
    BY <1>1, <1>2, <1>3, <1>4, <1>5, Zenon DEF HookInv

LEMMA CancelAllStep ==
  ASSUME HookInv, CancelAll
  PROVE  HookInv'
  <1>1. HookTypeOK'
    BY HookAssumption, Zenon DEF HookInv, HookTypeOK, Calls, Timers, CancelAll, wake, fiberVars
  <1>2. CallInv'
    BY HookAssumption, Zenon DEF HookInv, HookTypeOK, Calls, Timers, CallInv, CancelAll, wake, fiberVars
  <1>3. ConnectInv'
    BY HookAssumption, Zenon DEF HookInv, HookTypeOK, Calls, Timers, CallInv, ConnectInv, WakeForWait, CancelAll, wake, fiberVars
  <1>4. WakeForWait'
    BY HookAssumption, Zenon DEF HookInv, HookTypeOK, Calls, Timers, WakeForWait, CallInv, CancelAll, wake, fiberVars
  <1>5. TimeoutEarned'
    BY HookAssumption, Zenon DEF HookInv, HookTypeOK, Calls, Timers, TimeoutEarned, CallInv, CancelAll, wake, fiberVars
  <1> QED
    BY <1>1, <1>2, <1>3, <1>4, <1>5, Zenon DEF HookInv

LEMMA CloseFdStep ==
  ASSUME HookInv, CloseFd
  PROVE  HookInv'
  <1>1. HookTypeOK'
    BY HookAssumption, Zenon DEF HookInv, HookTypeOK, Calls, Timers, CloseFd, fiberVars
  <1>2. CallInv'
    BY HookAssumption, Zenon DEF HookInv, HookTypeOK, Calls, Timers, CallInv, CloseFd, fiberVars
  <1>3. ConnectInv'
    BY HookAssumption, Zenon DEF HookInv, HookTypeOK, Calls, Timers, CallInv, ConnectInv, WakeForWait, CloseFd, fiberVars
  <1>4. WakeForWait'
    BY HookAssumption, Zenon DEF HookInv, HookTypeOK, Calls, Timers, WakeForWait, CallInv, CloseFd, fiberVars
  <1>5. TimeoutEarned'
    BY HookAssumption, Zenon DEF HookInv, HookTypeOK, Calls, Timers, TimeoutEarned, CallInv, CloseFd, fiberVars
  <1> QED
    BY <1>1, <1>2, <1>3, <1>4, <1>5, Zenon DEF HookInv

LEMMA CallStep ==
  ASSUME NEW k \in Kinds, NEW to \in BOOLEAN, HookInv, Call(k, to)
  PROVE  HookInv'
  <1>1. HookTypeOK'
    BY HookAssumption DEF HookInv, HookTypeOK, Calls, Timers, Call
  <1>2. CallInv'
    BY HookAssumption, SMTT(30) DEF HookInv, HookTypeOK, Calls, Timers, CallInv, Call
  <1>3. ConnectInv'
    BY HookAssumption DEF HookInv, HookTypeOK, Calls, Timers, CallInv, ConnectInv, WakeForWait, Call
  <1>4. WakeForWait'
    BY HookAssumption, Zenon DEF HookInv, HookTypeOK, Calls, Timers, WakeForWait, CallInv, Call
  <1>5. TimeoutEarned'
    BY HookAssumption, Zenon DEF HookInv, HookTypeOK, Calls, Timers, TimeoutEarned, CallInv, Call
  <1> QED
    BY <1>1, <1>2, <1>3, <1>4, <1>5, Zenon DEF HookInv

LEMMA ExpireStep ==
  ASSUME NEW t \in Timers, HookInv, Expire(t)
  PROVE  HookInv'
  <1>1. HookTypeOK'
    BY HookAssumption DEF HookInv, HookTypeOK, Calls, Timers, Expire, fiberVars
  <1>2. CallInv'
    BY HookAssumption, Zenon DEF HookInv, HookTypeOK, Calls, Timers, CallInv, Expire, fiberVars
  <1>3. ConnectInv'
    BY HookAssumption, Zenon DEF HookInv, HookTypeOK, Calls, Timers, CallInv, ConnectInv, WakeForWait, Expire, fiberVars
  <1>4. WakeForWait'
    BY HookAssumption, Zenon DEF HookInv, HookTypeOK, Calls, Timers, WakeForWait, CallInv, Expire, fiberVars
  <1>5. TimeoutEarned'
    BY HookAssumption, Zenon DEF HookInv, HookTypeOK, Calls, Timers, TimeoutEarned, CallInv, Expire, fiberVars
  <1> QED
    BY <1>1, <1>2, <1>3, <1>4, <1>5, Zenon DEF HookInv

LEMMA CallbackMarkStep ==
  ASSUME NEW t \in Timers, HookInv, CallbackMark(t)
  PROVE  HookInv'
  <1>0. /\ timer[t] = "due" /\ timer'[t] \in {"cancelling", "over"}
        /\ timer' \in [Timers -> {"none", "set", "due", "cancelling", "over"}]
        /\ \A u \in Timers : u # t => timer'[u] = timer[u]
        /\ UNCHANGED <<pc, call, kind, wait, timed, outcome, registered, queued, ready, fd>>
    BY Zenon DEF HookInv, HookTypeOK, CallbackMark, fiberVars
  <1>a. \A c \in Calls, w \in 1..MaxWaits :
          timer[<<c, w>>] \in {"due", "cancelling", "over"} => timer'[<<c, w>>] \in {"due", "cancelling", "over"}
    <2> SUFFICES ASSUME NEW c \in Calls, NEW w \in 1..MaxWaits, timer[<<c, w>>] \in {"due", "cancelling", "over"}
                 PROVE  timer'[<<c, w>>] \in {"due", "cancelling", "over"}
      BY Zenon
    <2>1. <<c, w>> \in Timers
      BY Zenon DEF Timers
    <2> QED
      BY <2>1, <1>0, Zenon
  <1>b. PICK d \in Calls, v \in 1..MaxWaits : t = <<d, v>>
    BY DEF Timers
  <1>c. t[1] = d /\ t[2] = v
    BY <1>b, Zenon
  <1>1. HookTypeOK'
    BY HookAssumption, ZenonT(30) DEF HookInv, HookTypeOK, Calls, Timers, CallbackMark, fiberVars
  <1>2. CallInv'
    <2>1. \A c \in Calls : cnacelled'[c] => cnacelled[c] \/ (c = t[1] /\ c = call)
      <3>1. cnacelled' = cnacelled \/ (t[1] = call /\ cnacelled' = [cnacelled EXCEPT ![call] = TRUE])
        BY Zenon DEF CallbackMark
      <3>2. cnacelled \in [Calls -> BOOLEAN]
        BY Zenon DEF HookInv, HookTypeOK
      <3>3. ASSUME NEW c \in Calls, cnacelled'[c], c # call PROVE cnacelled[c]
        BY <3>1, <3>2, <3>3, Zenon
      <3>4. ASSUME NEW c \in Calls, cnacelled'[c], c = call PROVE cnacelled[c] \/ c = t[1]
        BY <3>1, <3>4, Zenon
      <3> QED
        BY <3>3, <3>4, Zenon
    <2>2. timer'[t] = "cancelling" => cnacelled'[t[1]]
      BY <1>b, <1>c, <1>0, Zenon DEF HookInv, HookTypeOK, CallbackMark
    <2>3. \A c \in Calls : cnacelled[c] => cnacelled'[c]
      BY Zenon DEF HookInv, HookTypeOK, CallbackMark
    <2>4. \A u \in Timers : timer'[u] = "cancelling" => cnacelled'[u[1]]
      <3> SUFFICES ASSUME NEW u \in Timers, timer'[u] = "cancelling" PROVE cnacelled'[u[1]]
        BY Zenon
      <3>1. u[1] \in Calls
        BY Zenon DEF Timers
      <3> QED
        BY <1>0, <2>2, <2>3, <3>1, Zenon DEF HookInv, CallInv
    <2>5. \A c \in Calls : cnacelled'[c] => \E w \in 1..MaxWaits : timer'[<<c, w>>] \in {"due", "cancelling", "over"}
      <3> SUFFICES ASSUME NEW c \in Calls, cnacelled'[c]
                   PROVE  \E w \in 1..MaxWaits : timer'[<<c, w>>] \in {"due", "cancelling", "over"}
        BY Zenon
      <3>1. CASE cnacelled[c]
        BY <3>1, <1>a, Zenon DEF HookInv, CallInv
      <3>2. CASE c = t[1]
        BY <3>2, <1>0, <1>b, <1>c, Zenon
      <3> QED
        BY <2>1, <3>1, <3>2, Zenon
    <2>6. \A u \in Timers : timer'[u] # "none" => timer[u] # "none"
      BY <1>0, Zenon
    <2>7. \A c \in Calls : c > call => outcome[c] = "none" /\ ~cnacelled'[c]
      BY <2>1, HookAssumption DEF HookInv, HookTypeOK, CallInv, Calls
    <2> QED
      BY <1>0, <2>4, <2>5, <2>6, <2>7, Zenon DEF HookInv, CallInv
  <1>3. ConnectInv'
    BY HookAssumption, Zenon DEF HookInv, HookTypeOK, Calls, Timers, CallInv, ConnectInv, WakeForWait, CallbackMark, fiberVars
  <1>4. WakeForWait'
    BY <1>0, Zenon DEF HookInv, WakeForWait
  <1>5. TimeoutEarned'
    BY <1>0, <1>a, Zenon DEF HookInv, TimeoutEarned
  <1> QED
    BY <1>1, <1>2, <1>3, <1>4, <1>5, Zenon DEF HookInv

LEMMA CallbackCancelStep ==
  ASSUME NEW t \in Timers, HookInv, CallbackCancel(t)
  PROVE  HookInv'
  <1>1. HookTypeOK'
    BY HookAssumption, ZenonT(30) DEF HookInv, HookTypeOK, Calls, Timers, CallbackCancel, wake, fiberVars
  <1>2. CallInv'
    BY HookAssumption, Zenon DEF HookInv, HookTypeOK, Calls, Timers, CallInv, CallbackCancel, wake, fiberVars
  <1>3. ConnectInv'
    BY HookAssumption DEF HookInv, HookTypeOK, Calls, Timers, CallInv, ConnectInv, WakeForWait, CallbackCancel, wake, fiberVars
  <1>4. WakeForWait'
    BY HookAssumption, Zenon DEF HookInv, HookTypeOK, Calls, Timers, WakeForWait, CallInv, CallbackCancel, wake, fiberVars
  <1>5. TimeoutEarned'
    BY HookAssumption, Zenon DEF HookInv, HookTypeOK, Calls, Timers, TimeoutEarned, CallInv, CallbackCancel, wake, fiberVars
  <1> QED
    BY <1>1, <1>2, <1>3, <1>4, <1>5, Zenon DEF HookInv


LEMMA HookStep == HookInv /\ [HookNext]_hookVars => HookInv'
  <1> SUFFICES ASSUME HookInv, [HookNext]_hookVars PROVE HookInv'
    BY Zenon
  <1>1. ASSUME NEW k \in Kinds, NEW to \in BOOLEAN, Call(k, to) PROVE HookInv'
    BY <1>1, CallStep, Zenon
  <1>2. CASE fiberStep
    BY <1>2, TryReturnStep, ArmStep, AddEventStep, YieldStep, ResumeStep, CancelTimerStep, CheckStep, Zenon DEF fiberStep
  <1>3. ASSUME NEW t \in Timers, Expire(t) \/ CallbackMark(t) \/ CallbackCancel(t) PROVE HookInv'
    BY <1>3, ExpireStep, CallbackMarkStep, CallbackCancelStep, Zenon
  <1>4. CASE Report \/ Peer \/ CancelAll \/ CloseFd
    BY <1>4, ReportStep, PeerStep, CancelAllStep, CloseFdStep, Zenon
  <1>5. CASE UNCHANGED hookVars
    BY <1>5 DEF hookVars, fiberVars, HookInv, HookTypeOK, CallInv, ConnectInv, WakeForWait, TimeoutEarned
  <1> QED
    BY <1>1, <1>2, <1>3, <1>4, <1>5, Zenon DEF HookNext, timerStep

\* The invariant that the theorems on the hooked calls are read off.
THEOREM HookInvariance == HookSpec => []HookInv
  BY HookInit0, HookStep, PTL DEF HookSpec

\* do_io and connect_with_timeout return ETIMEDOUT only when a timer of the
\* call expired: a timer of an earlier call, or of an earlier wait, that
\* expires late never sets the flag of this one.
THEOREM HookTimeoutEarned == HookSpec => []TimeoutEarned
  <1>1. HookInv => TimeoutEarned
    BY Zenon DEF HookInv
  <1> QED
    BY HookInvariance, <1>1, PTL

\* A fiber is scheduled only for a wait it has begun and once for it,
\* whichever of epoll, the timer's callback and close() comes first.
THEOREM HookWakeForWait == HookSpec => []WakeForWait
  <1>1. HookInv => WakeForWait
    BY Zenon DEF HookInv
  <1> QED
    BY HookInvariance, <1>1, PTL

\* connect() returns 0 only for a socket that is connected, or that another
\* thread is closing under it.
THEOREM HookConnectTruthful == HookSpec => ConnectTruthful
  <1>1. ASSUME HookInv, HookNext, kind = "connect", pc # "idle", outcome'[call] = "ok"
        PROVE  ready \/ fd = "closing"
    <2>1. call \in Calls /\ outcome[call] = "none" /\ outcome' # outcome
      BY <1>1, Zenon DEF HookInv, CallInv, HookTypeOK
    <2>2. TryReturn \/ AddEvent \/ Check
      BY <1>1, <2>1, Zenon DEF HookNext, fiberStep, timerStep, fiberVars, Call, Arm, Yield, Resume, CancelTimer, goto, Expire,
        CallbackMark, CallbackCancel, Report, Peer, CancelAll, CloseFd
    <2>3. CASE TryReturn
      BY <1>1, <2>1, <2>3, Zenon DEF TryReturn, return, HookInv, HookTypeOK
    <2>4. CASE AddEvent
      BY <1>1, <2>1, <2>4, Zenon DEF AddEvent, return, goto, HookInv, HookTypeOK
    <2>5. CASE Check
      BY <1>1, <2>1, <2>5, Zenon DEF Check, return, goto, HookInv, HookTypeOK, ConnectInv
    <2> QED
      BY <2>2, <2>3, <2>4, <2>5, Zenon
  <1>2. HookInv /\ [HookNext]_hookVars =>
          [kind = "connect" /\ pc # "idle" /\ outcome'[call] = "ok" => ready \/ fd = "closing"]_hookVars
    BY <1>1, Zenon
  <1> QED
    BY HookInvariance, <1>2, PTL DEF HookSpec, ConnectTruthful

-----------------------------------------------------------------------------
(* FdManager: the contexts of the fds, and what fcntl, ioctl and setsockopt*)
(* do to them.                                                             *)

\* A thread in the middle of a call has an fd of its own, which no user holds.
CallsApart ==
  /\ \A f \in open : kernel[f] # "free"
  /\ \A t \in Threads : at[t].op # "idle" => at[t].fd \in Fds \ open /\ kernel[at[t].fd] # "free"
  /\ \A t, u \in Threads : at[t].op # "idle" /\ at[u].op # "idle" /\ at[t].fd = at[u].fd => t = u

\* The contexts there are: those of the managed fds, those about to be
\* deleted, and the stale ones.
Contexts ==
  /\ size >= 2
  /\ \A f \in Fds : m_datas[f].present => f < size
  /\ \A f \in Fds : ~m_datas[f].present => m_datas[f] = Absent
  /\ \A f \in managed : m_datas[f].present /\ asked[f].present
  /\ \A f \in Fds : m_datas[f].present /\ f \notin managed /\ f \notin stale =>
       \E t \in Threads : at[t].op = "del" /\ at[t].fd = f

FdInv == FdManagerTypeOK /\ CallsApart /\ Contexts /\ SettingsAsAsked /\ KernelNonblocking

LEMMA FdInit == FdManagerInit => FdInv
  BY FdManagerAssumption DEF FdManagerInit, FdInv, FdManagerTypeOK, CallsApart, Contexts, SettingsAsAsked, KernelNonblocking, Idle, Absent

\* What a thread in a call knows of its fd.
LEMMA InCall ==
  ASSUME NEW t \in Threads, FdInv, at[t].op # "idle"
  PROVE  /\ at[t].fd \in Fds /\ at[t].fd \notin open /\ at[t].fd \notin managed /\ kernel[at[t].fd] # "free"
         /\ \A u \in Threads : u # t /\ at[u].op # "idle" => at[u].fd # at[t].fd
  BY Zenon DEF FdInv, FdManagerTypeOK, CallsApart

LEMMA GetKeeps ==
  ASSUME NEW t \in Threads, FdInv, Get(t)
  PROVE  FdInv'
  <1> DEFINE f == at[t].fd
  <1>0. /\ at[t].op = "get" /\ f \in Fds /\ f \notin open /\ f \notin managed
        /\ \A u \in Threads : u # t /\ at[u].op # "idle" => at[u].fd # f
    BY InCall, Zenon DEF Get
  <1>1. CASE ~has(f)
    <2>1. /\ at' = [at EXCEPT ![t] = [op |-> "create", fd |-> f]]
          /\ UNCHANGED <<open, managed, asked, kernel, m_datas, size, stale, unblocked>>
      BY <1>1, Zenon DEF Get, enter, history
    <2>2. FdManagerTypeOK'
      BY <1>0, <2>1, Zenon DEF FdInv, FdManagerTypeOK
    <2>3. CallsApart'
      BY <1>0, <2>1, Zenon DEF FdInv, FdManagerTypeOK, CallsApart
    <2>4. Contexts'
      BY <1>0, <2>1, Zenon DEF FdInv, FdManagerTypeOK, Contexts
    <2> QED
      BY <2>1, <2>2, <2>3, <2>4, Zenon DEF FdInv, SettingsAsAsked, KernelNonblocking
  <1>2. CASE has(f)
    <2>1. /\ at' = [at EXCEPT ![t] = Idle]
          /\ open' = open \cup {f} /\ managed' = managed \cup {f}
          /\ asked' = [asked EXCEPT ![f] = Fresh]
          /\ UNCHANGED <<kernel, m_datas, size, stale, unblocked>>
      BY <1>2, Zenon DEF Get, hand, history
    <2>a. f \in stale
      BY <1>0, <1>2, Zenon DEF FdInv, Contexts, has
    <2>2. FdManagerTypeOK'
      BY <1>0, <2>1, Zenon DEF FdInv, FdManagerTypeOK, Idle, Fresh
    <2>3. CallsApart'
      <3>1. \A u \in Threads : u # t => at'[u] = at[u]
        BY <2>1, Zenon DEF FdInv, FdManagerTypeOK
      <3>2. at'[t].op = "idle"
        BY <2>1, Zenon DEF FdInv, FdManagerTypeOK, Idle
      <3>3. kernel[f] # "free"
        BY <1>0, InCall, Zenon
      <3> QED
        BY <1>0, <2>1, <3>1, <3>2, <3>3 DEF FdInv, CallsApart
    <2>4. Contexts'
      BY <1>0, <1>2, <2>1 DEF FdInv, FdManagerTypeOK, Contexts, has, Idle, Fresh
    <2>5. SettingsAsAsked' /\ KernelNonblocking'
      BY <2>a, <2>1, Zenon DEF FdInv, FdManagerTypeOK, SettingsAsAsked, KernelNonblocking
    <2> QED
      BY <2>2, <2>3, <2>4, <2>5, Zenon DEF FdInv
  <1> QED
    BY <1>1, <1>2, Zenon

LEMMA CreateKeeps ==
  ASSUME NEW t \in Threads, FdInv, Create(t)
  PROVE  FdInv'
  <1> DEFINE f == at[t].fd
  <1>0. /\ at[t].op = "create" /\ f \in Fds /\ f \notin open /\ f \notin managed
        /\ \A u \in Threads : u # t /\ at[u].op # "idle" => at[u].fd # f
    BY InCall, Zenon DEF Create
  <1>1. /\ at' = [at EXCEPT ![t] = Idle]
        /\ open' = open \cup {f} /\ managed' = managed \cup {f}
        /\ asked' = [asked EXCEPT ![f] = Fresh]
        /\ kernel' = [kernel EXCEPT ![f] = "nonblocking"]
        /\ stale' = stale \ {f} /\ unblocked' = unblocked
    BY Zenon DEF Create, hand, setKernel
  <1>2. size' \in Nat /\ size' >= size /\ f < size' /\ size' >= 2
    <2>1. f \in Nat /\ size \in Nat /\ size >= 2
      BY <1>0, FdManagerAssumption, Zenon DEF FdInv, FdManagerTypeOK, Contexts
    <2>2. size' = IF f >= size THEN (f * 3) \div 2 ELSE size
      BY Zenon DEF Create, resize
    <2> QED
      BY <2>1, <2>2
  <1>3. /\ m_datas' \in [Fds -> [nonblock : BOOLEAN, timed : BOOLEAN, present : BOOLEAN]]
        /\ m_datas'[f] = Fresh
        /\ \A g \in Fds : g # f => m_datas'[g] = m_datas[g]
    <2>1. m_datas' = [g \in Fds |-> IF g = f THEN Fresh ELSE IF g < size' THEN m_datas[g] ELSE Absent]
      BY Zenon DEF Create
    <2>2. \A g \in Fds : m_datas[g] \in [nonblock : BOOLEAN, timed : BOOLEAN, present : BOOLEAN]
      BY Zenon DEF FdInv, FdManagerTypeOK
    <2>3. Fresh \in [nonblock : BOOLEAN, timed : BOOLEAN, present : BOOLEAN]
          /\ Absent \in [nonblock : BOOLEAN, timed : BOOLEAN, present : BOOLEAN]
      BY Zenon DEF Fresh, Absent
    <2>4. \A g \in Fds : ~m_datas[g].present => m_datas[g] = Absent
      BY Zenon DEF FdInv, Contexts
    <2>5. \A g \in Fds : m_datas[g].present => g < size'
      BY <1>2, FdManagerAssumption, SMTT(30) DEF FdInv, FdManagerTypeOK, Contexts
    <2> QED
      BY <1>0, <2>1, <2>2, <2>3, <2>4, <2>5, Zenon
  <1>4. FdManagerTypeOK'
    BY <1>0, <1>1, <1>2, <1>3, Zenon DEF FdInv, FdManagerTypeOK, Idle, Fresh
  <1>5. CallsApart'
    <2>1. /\ \A u \in Threads : u # t => at'[u] = at[u]
          /\ at'[t].op = "idle"
      BY <1>1, Zenon DEF FdInv, FdManagerTypeOK, Idle
    <2>2. kernel'[f] # "free" /\ \A g \in Fds : g # f => kernel'[g] = kernel[g]
      BY <1>0, <1>1, Zenon DEF FdInv, FdManagerTypeOK
    <2> QED
      BY <1>0, <1>1, <2>1, <2>2 DEF FdInv, FdManagerTypeOK, CallsApart
  <1>6. Contexts'
    <2>1. /\ \A u \in Threads : u # t => at'[u] = at[u]
          /\ \A g \in Fds : g # f => asked'[g] = asked[g]
          /\ asked'[f] = Fresh /\ Fresh.present
      BY <1>0, <1>1, Zenon DEF FdInv, FdManagerTypeOK, Fresh
    <2>2. \A g \in Fds : m_datas'[g].present => g < size'
      BY <1>2, <1>3, FdManagerAssumption, SMTT(30) DEF FdInv, FdManagerTypeOK, Contexts
    <2>3. \A g \in Fds : ~m_datas'[g].present => m_datas'[g] = Absent
      BY <1>3, <2>1, SMTT(30) DEF FdInv, Contexts
    <2>4. \A g \in managed' : m_datas'[g].present /\ asked'[g].present
      BY <1>0, <1>1, <1>3, <2>1, SMTT(30) DEF FdInv, FdManagerTypeOK, Contexts
    <2>5. \A g \in Fds : m_datas'[g].present /\ g \notin managed' /\ g \notin stale' =>
            \E u \in Threads : at'[u].op = "del" /\ at'[u].fd = g
      BY <1>0, <1>1, <1>3, <2>1 DEF FdInv, Contexts
    <2> QED
      BY <1>2, <2>2, <2>3, <2>4, <2>5, Zenon DEF Contexts
  <1>7. SettingsAsAsked'
    BY <1>0, <1>1, <1>3 DEF FdInv, FdManagerTypeOK, SettingsAsAsked
  <1>8. KernelNonblocking'
    BY <1>0, <1>1 DEF FdInv, FdManagerTypeOK, KernelNonblocking
  <1> QED
    BY <1>4, <1>5, <1>6, <1>7, <1>8, Zenon DEF FdInv

LEMMA DelKeeps ==
  ASSUME NEW t \in Threads, FdInv, Del(t)
  PROVE  FdInv'
  <1>1. FdManagerTypeOK'
    BY FdManagerAssumption, Zenon DEF FdInv, FdManagerTypeOK, history, Del, enter, Absent
  <1>2. CallsApart'
    BY FdManagerAssumption, Zenon DEF FdInv, FdManagerTypeOK, CallsApart, history, Del, enter, Absent
  <1>3. Contexts'
    <2> DEFINE f == at[t].fd
    <2>1. /\ f \in Fds /\ f \notin managed /\ at[t].op = "del"
          /\ at' = [at EXCEPT ![t] = [op |-> "close", fd |-> f]]
          /\ m_datas' = [m_datas EXCEPT ![f] = Absent]
          /\ stale' = stale \ {f} /\ UNCHANGED <<size, managed, asked>>
      BY InCall, Zenon DEF Del, enter
    <2>2. /\ m_datas'[f] = Absent /\ ~Absent.present
          /\ \A g \in Fds : g # f => m_datas'[g] = m_datas[g]
          /\ \A u \in Threads : u # t => at'[u] = at[u]
      BY <2>1, Zenon DEF FdInv, FdManagerTypeOK, Absent
    <2>3. \A g \in Fds : m_datas'[g].present /\ g \notin managed /\ g \notin stale' =>
            \E u \in Threads : at'[u].op = "del" /\ at'[u].fd = g
      <3> SUFFICES ASSUME NEW g \in Fds, m_datas'[g].present, g \notin managed, g \notin stale'
                   PROVE  \E u \in Threads : at'[u].op = "del" /\ at'[u].fd = g
        BY Zenon
      <3>1. g # f
        BY <2>2, Zenon
      <3>2. PICK u \in Threads : at[u].op = "del" /\ at[u].fd = g
        BY <2>1, <2>2, <3>1, Zenon DEF FdInv, Contexts
      <3> QED
        BY <2>2, <3>1, <3>2, Zenon
    <2> QED
      BY <2>1, <2>2, <2>3 DEF FdInv, FdManagerTypeOK, Contexts
  <1>4. SettingsAsAsked'
    BY FdManagerAssumption, SMTT(30) DEF FdInv, FdManagerTypeOK, Contexts, CallsApart, SettingsAsAsked, history, Del, enter, Absent
  <1>5. KernelNonblocking'
    BY FdManagerAssumption DEF FdInv, FdManagerTypeOK, Contexts, CallsApart, KernelNonblocking, history, Del, enter, Absent
  <1> QED
    BY <1>1, <1>2, <1>3, <1>4, <1>5, Zenon DEF FdInv

LEMMA CloseFdKeeps ==
  ASSUME NEW t \in Threads, FdInv, CloseKernel(t)
  PROVE  FdInv'
  <1>1. FdManagerTypeOK'
    BY FdManagerAssumption, Zenon DEF FdInv, FdManagerTypeOK, history, CloseKernel, Idle
  <1>2. CallsApart'
    BY FdManagerAssumption DEF FdInv, FdManagerTypeOK, CallsApart, history, CloseKernel, Idle
  <1>3. Contexts'
    BY FdManagerAssumption, Zenon DEF FdInv, FdManagerTypeOK, Contexts, CallsApart, history, CloseKernel, Idle
  <1>4. SettingsAsAsked'
    BY FdManagerAssumption, Zenon DEF FdInv, FdManagerTypeOK, Contexts, CallsApart, SettingsAsAsked, history, CloseKernel, Idle
  <1>5. KernelNonblocking'
    BY FdManagerAssumption DEF FdInv, FdManagerTypeOK, Contexts, CallsApart, KernelNonblocking, history, CloseKernel, Idle
  <1> QED
    BY <1>1, <1>2, <1>3, <1>4, <1>5, Zenon DEF FdInv

LEMMA SocketKeeps ==
  ASSUME NEW t \in Threads, NEW f \in Fds, FdInv, Socket(t, f)
  PROVE  FdInv'
  <1>0. /\ at[t] = Idle /\ kernel[f] = "free" /\ kernel' = [kernel EXCEPT ![f] = "blocking"]
        /\ UNCHANGED <<m_datas, size, managed, asked, stale, unblocked>>
    BY Zenon DEF Socket, setKernel, history
  <1>1. /\ f \notin open /\ f \notin managed
        /\ \A u \in Threads : at[u].op # "idle" => at[u].fd # f
    BY <1>0, Zenon DEF FdInv, FdManagerTypeOK, CallsApart
  <1>2. \/ at' = [at EXCEPT ![t] = [op |-> "get", fd |-> f]] /\ open' = open
        \/ at' = at /\ open' = open \cup {f}
    BY Zenon DEF Socket, enter
  <1>3. FdManagerTypeOK'
    BY <1>0, <1>2, SMTT(30) DEF FdInv, FdManagerTypeOK
  <1>4. CallsApart'
    <2>1. kernel'[f] # "free" /\ \A g \in Fds : g # f => kernel'[g] = kernel[g]
      BY <1>0, Zenon DEF FdInv, FdManagerTypeOK
    <2>2. CASE at' = at /\ open' = open \cup {f}
      BY <1>1, <2>1, <2>2, Zenon DEF FdInv, FdManagerTypeOK, CallsApart
    <2>3. CASE at' = [at EXCEPT ![t] = [op |-> "get", fd |-> f]] /\ open' = open
      <3>1. /\ \A u \in Threads : u # t => at'[u] = at[u]
            /\ at'[t].op = "get" /\ at'[t].fd = f
        BY <2>3, Zenon DEF FdInv, FdManagerTypeOK
      <3> QED
        BY <1>1, <2>1, <2>3, <3>1 DEF FdInv, FdManagerTypeOK, CallsApart
    <2> QED
      BY <1>2, <2>2, <2>3, Zenon
  <1>5. Contexts'
    BY <1>0, <1>2 DEF FdInv, FdManagerTypeOK, Contexts, Idle
  <1>6. SettingsAsAsked' /\ KernelNonblocking'
    BY <1>0, <1>1, Zenon DEF FdInv, FdManagerTypeOK, SettingsAsAsked, KernelNonblocking
  <1> QED
    BY <1>3, <1>4, <1>5, <1>6, Zenon DEF FdInv

LEMMA CloseKeeps ==
  ASSUME NEW t \in Threads, NEW f \in Fds, FdInv, Close(t, f)
  PROVE  FdInv'
  <1>1. FdManagerTypeOK'
    BY FdManagerAssumption, Zenon DEF FdInv, FdManagerTypeOK, history, Close, drop, enter, has, Idle, Absent
  <1>2. CallsApart'
    BY FdManagerAssumption, SMTT(30) DEF FdInv, FdManagerTypeOK, CallsApart, history, Close, drop, enter, has, Idle, Absent
  <1>3. Contexts'
    BY FdManagerAssumption, SMTT(30) DEF FdInv, FdManagerTypeOK, Contexts, CallsApart, history, Close, drop, enter, has, Idle, Absent
  <1>4. SettingsAsAsked'
    BY FdManagerAssumption, SMTT(30) DEF FdInv, FdManagerTypeOK, Contexts, CallsApart, SettingsAsAsked, history, Close, drop, enter, has, Idle, Absent
  <1>5. KernelNonblocking'
    BY FdManagerAssumption, Zenon DEF FdInv, FdManagerTypeOK, Contexts, CallsApart, KernelNonblocking, history, Close, drop, enter, has, Idle, Absent
  <1> QED
    BY <1>1, <1>2, <1>3, <1>4, <1>5, Zenon DEF FdInv

LEMMA SetSockOptKeeps ==
  ASSUME NEW f \in Fds, FdInv, SetSockOpt(f)
  PROVE  FdInv'
  <1>0. /\ asked' = [asked EXCEPT ![f] = IF asked[f].present THEN [asked[f] EXCEPT !.timed = TRUE] ELSE asked[f]]
        /\ m_datas' = [m_datas EXCEPT ![f] = IF has(f) THEN [m_datas[f] EXCEPT !.timed = TRUE] ELSE m_datas[f]]
        /\ UNCHANGED <<kernel, size, at, open, managed, stale, unblocked>>
    BY Zenon DEF SetSockOpt, ask, set, history, FdInv, FdManagerTypeOK
  <1>1. /\ \A g \in Fds : g # f => asked'[g] = asked[g] /\ m_datas'[g] = m_datas[g]
        /\ asked'[f] = IF asked[f].present THEN [asked[f] EXCEPT !.timed = TRUE] ELSE asked[f]
        /\ m_datas'[f] = IF has(f) THEN [m_datas[f] EXCEPT !.timed = TRUE] ELSE m_datas[f]
    BY <1>0, Zenon DEF FdInv, FdManagerTypeOK
  <1>2. FdManagerTypeOK'
    <2>1. m_datas' \in [Fds -> [nonblock : BOOLEAN, timed : BOOLEAN, present : BOOLEAN]]
      BY <1>0, Zenon DEF FdInv, FdManagerTypeOK
    <2>2. asked' \in [Fds -> [nonblock : BOOLEAN, timed : BOOLEAN, present : BOOLEAN]]
      BY <1>0, Zenon DEF FdInv, FdManagerTypeOK
    <2> QED
      BY <1>0, <2>1, <2>2, Zenon DEF FdInv, FdManagerTypeOK
  <1>3. CallsApart'
    BY <1>0, Zenon DEF FdInv, CallsApart
  <1>4. Contexts'
    BY <1>0, <1>1 DEF FdInv, FdManagerTypeOK, Contexts, has
  <1>5. SettingsAsAsked'
    <2>1. f \in managed => has(f) /\ asked[f].present
      BY Zenon DEF FdInv, Contexts, has
    <2>2. f \in managed /\ f \notin stale => m_datas'[f] = asked'[f]
      <3> SUFFICES ASSUME f \in managed, f \notin stale PROVE m_datas'[f] = asked'[f]
        BY Zenon
      <3>1. m_datas[f] = asked[f]
        BY Zenon DEF FdInv, SettingsAsAsked
      <3>2. asked'[f] = [asked[f] EXCEPT !.timed = TRUE] /\ m_datas'[f] = [m_datas[f] EXCEPT !.timed = TRUE]
        BY <1>1, <2>1, Zenon
      <3> QED
        BY <3>1, <3>2, Zenon
    <2> QED
      BY <1>0, <1>1, <2>2, Zenon DEF FdInv, FdManagerTypeOK, SettingsAsAsked
  <1>6. KernelNonblocking'
    BY <1>0, Zenon DEF FdInv, KernelNonblocking
  <1> QED
    BY <1>2, <1>3, <1>4, <1>5, <1>6, Zenon DEF FdInv

LEMMA SetFlKeeps ==
  ASSUME NEW f \in Fds, NEW nonblock \in BOOLEAN, FdInv, SetFl(f, nonblock)
  PROVE  FdInv'
  <1>1. FdManagerTypeOK'
    BY FdManagerAssumption, SMTT(30) DEF FdInv, FdManagerTypeOK, history, SetFl, ask, set, has, setKernel
  <1>2. CallsApart'
    BY FdManagerAssumption, Zenon DEF FdInv, FdManagerTypeOK, CallsApart, history, SetFl, ask, set, has, setKernel
  <1>3. Contexts'
    BY FdManagerAssumption DEF FdInv, FdManagerTypeOK, Contexts, CallsApart, history, SetFl, ask, set, has, setKernel
  <1>4. SettingsAsAsked'
    BY FdManagerAssumption DEF FdInv, FdManagerTypeOK, Contexts, CallsApart, SettingsAsAsked, history, SetFl, ask, set, has, setKernel
  <1>5. KernelNonblocking'
    BY FdManagerAssumption DEF FdInv, FdManagerTypeOK, Contexts, CallsApart, KernelNonblocking, history, SetFl, ask, set, has, setKernel
  <1> QED
    BY <1>1, <1>2, <1>3, <1>4, <1>5, Zenon DEF FdInv

LEMMA IoctlKeeps ==
  ASSUME NEW f \in Fds, NEW nonblock \in BOOLEAN, FdInv, Ioctl(f, nonblock)
  PROVE  FdInv'
  <1>1. FdManagerTypeOK'
    BY FdManagerAssumption, SMTT(30) DEF FdInv, FdManagerTypeOK, history, Ioctl, ask, set, has, setKernel
  <1>2. CallsApart'
    BY FdManagerAssumption, Zenon DEF FdInv, FdManagerTypeOK, CallsApart, history, Ioctl, ask, set, has, setKernel
  <1>3. Contexts'
    BY FdManagerAssumption DEF FdInv, FdManagerTypeOK, Contexts, CallsApart, history, Ioctl, ask, set, has, setKernel
  <1>4. SettingsAsAsked'
    BY FdManagerAssumption, SMTT(30) DEF FdInv, FdManagerTypeOK, Contexts, CallsApart, SettingsAsAsked, history, Ioctl, ask, set, has, setKernel
  <1>5. KernelNonblocking'
    BY FdManagerAssumption DEF FdInv, FdManagerTypeOK, Contexts, CallsApart, KernelNonblocking, history, Ioctl, ask, set, has, setKernel
  <1> QED
    BY <1>1, <1>2, <1>3, <1>4, <1>5, Zenon DEF FdInv

LEMMA FdStep == FdInv /\ [FdManagerNext]_fdVars => FdInv'
  <1> SUFFICES ASSUME FdInv, [FdManagerNext]_fdVars PROVE FdInv'
    BY Zenon
  <1>1. ASSUME NEW t \in Threads, Get(t) \/ Create(t) \/ Del(t) \/ CloseKernel(t) PROVE FdInv'
    BY <1>1, GetKeeps, CreateKeeps, DelKeeps, CloseFdKeeps, Zenon
  <1>2. ASSUME NEW t \in Threads, NEW f \in Fds, Socket(t, f) \/ Close(t, f) PROVE FdInv'
    BY <1>2, SocketKeeps, CloseKeeps, Zenon
  <1>3. ASSUME NEW f \in Fds, SetSockOpt(f) PROVE FdInv'
    BY <1>3, SetSockOptKeeps, Zenon
  <1>4. ASSUME NEW f \in Fds, NEW nonblock \in BOOLEAN, SetFl(f, nonblock) \/ Ioctl(f, nonblock) PROVE FdInv'
    BY <1>4, SetFlKeeps, IoctlKeeps, Zenon
  <1>5. CASE UNCHANGED fdVars
    BY <1>5 DEF fdVars, history, FdInv, FdManagerTypeOK, CallsApart, Contexts, SettingsAsAsked, KernelNonblocking
  <1> QED
    BY <1>1, <1>2, <1>3, <1>4, <1>5, Zenon DEF FdManagerNext

\* The invariant that the theorems on the fd contexts are read off.
THEOREM FdInvariance == FdManagerSpec => []FdInv
  BY FdInit, FdStep, PTL DEF FdManagerSpec

\* An fd the user holds, made by a hooked thread, has its context: no del()
\* of another thread takes it away, whatever fds the kernel reuses.
THEOREM FdContextKept == FdManagerSpec => []ContextKept
  <1>1. FdInv => ContextKept
    BY Zenon DEF FdInv, FdManagerTypeOK, Contexts, ContextKept, has
  <1> QED
    BY FdInvariance, <1>1, PTL

\* The context of such an fd says what its user asked for with fcntl, ioctl
\* and setsockopt, never what the fd's last owner did, unless that one was
\* closed by a thread that is not hooked.
THEOREM FdSettingsAsAsked == FdManagerSpec => []SettingsAsAsked
  <1>1. FdInv => SettingsAsAsked
    BY Zenon DEF FdInv
  <1> QED
    BY FdInvariance, <1>1, PTL

\* O_NONBLOCK is set in the kernel on every socket that has a context, but
\* for those FIONBIO was cleared on and those with an inherited context.
THEOREM FdKernelNonblocking == FdManagerSpec => []KernelNonblocking
  <1>1. FdInv => KernelNonblocking
    BY Zenon DEF FdInv
  <1> QED
    BY FdInvariance, <1>1, PTL
=============================================================================

---------------------------- MODULE ServerProofs ----------------------------
(***************************************************************************)
(* Theorems about Server, for any number of workers and descriptors, every *)
(* trigger mode and every bound.                                           *)
(***************************************************************************)
EXTENDS Server, SequenceTheorems, FiniteSetTheorems, TLAPS

(* The places of a Next step: the client, the main thread, a worker. *)
LEMMA NextCases ==
    [Next]_vars => \/ MainStep
                   \/ \E w \in Worker : TakeTask(w) \/ WorkerStep(w)
                   \/ Client
                   \/ UNCHANGED vars
  BY DEF Next, Killed, Blocked

-----------------------------------------------------------------------------
(* Types. *)

LEMMA TypeInit == Init => TypeOK
<1> SUFFICES ASSUME Init PROVE TypeOK
  OBVIOUS
<1>1. /\ pc \in [Thread -> MainPC \cup WorkerPC]
      /\ pc[Main] = "wait" /\ \A w \in Worker : pc[w] = "idle"
  BY ServerAssumption DEF Init, Thread, MainPC, WorkerPC
<1>2. conn \in [Fd -> Conn]
  BY ServerAssumption DEF Init, Conn
<1>3. queue \in Seq(Task)
  BY DEF Init, Pool!Init
<1>4. job = [w \in Worker |-> NoTask]
  BY DEF Init, Pool!Init
<1> QED
  <2>1. /\ epoll \in [Fd -> {"none", "off", "in", "out"}]
        /\ event \in [Fd -> {"none", "hup", "in", "out"}]
        /\ peer \in [Fd -> {"up", "fin", "rst", "pipe"}]
    BY DEF Init
  <2>2. /\ up = TRUE /\ mainFd = NoFd /\ listenEvent = FALSE /\ listenEdge = FALSE
        /\ user_count = 0 /\ open = {} /\ backlog = 0 /\ inData = {} /\ outFull = {}
        /\ failed = {} /\ connects = 0 /\ sends = 0
    BY DEF Init
  <2>3. \A w \in Worker : pc[w] \in WorkerPC /\ (pc[w] # "idle" <=> job[w] # NoTask)
    BY <1>1, <1>4 DEF WorkerPC
  <2>4. /\ backlog \in 0..MaxBacklog /\ connects \in 0..MaxConnects /\ sends \in 0..MaxSends
        /\ user_count \in Int
    BY <2>2, ServerAssumption
  <2>5. pc[Main] \in MainPC /\ (pc[Main] \in ClosePC <=> mainFd # NoFd)
    BY <1>1, <2>2 DEF MainPC, ClosePC
  <2> QED
    BY <1>1, <1>2, <1>3, <1>4, <2>1, <2>2, <2>3, <2>4, <2>5 DEF TypeOK

(* A connection in the hands of a thread is one of Fd. *)
LEMMA CurType ==
    ASSUME TypeOK
    PROVE  /\ pc[Main] \in ClosePC => Cur(Main) \in Fd
           /\ \A w \in Worker : pc[w] # "idle" => Cur(w) \in Fd
  BY ServerAssumption DEF TypeOK, Cur, Task

(* What the actions do to an HttpConn leaves it one. *)
LEMMA ConnOpened ==
    ASSUME NEW c \in Conn
    PROVE  [c EXCEPT !.is_closed = FALSE, !.lines = 0] \in Conn
<1>1. 0 \in 0..MaxLines
  BY ServerAssumption
<1> QED
  BY <1>1 DEF Conn

LEMMA ConnAnswered ==
    ASSUME NEW c \in Conn, NEW l \in 0..MaxLines, NEW o \in 0..MaxOut, NEW k \in BOOLEAN
    PROVE  [c EXCEPT !.out = o, !.lines = l, !.keep = k] \in Conn
  BY DEF Conn

LEMMA ConnUpdate ==
    ASSUME TypeOK, NEW f \in Fd, NEW r \in Conn, conn' = [conn EXCEPT ![f] = r]
    PROVE  conn' \in [Fd -> Conn]
  BY DEF TypeOK

LEMMA ConnAction ==
    ASSUME TypeOK, NEW t, Cur(t) \in Fd,
           MarkClosed(t) \/ ReadData(t) \/ ProcessNothing(t) \/ ProcessRequest(t) \/ WriteSome(t)
    PROVE  conn' \in [Fd -> Conn]
<1> DEFINE c == conn[Cur(t)]
<1>0. c \in Conn
  BY DEF TypeOK
<1>1. CASE MarkClosed(t)
  <2>1. [c EXCEPT !.is_closed = TRUE] \in Conn
    BY <1>0 DEF Conn
  <2> QED
    BY <1>1, <2>1, ConnUpdate DEF MarkClosed
<1>2. CASE ReadData(t)
  <2>1. PICK n \in 1..MaxLines : conn' = [conn EXCEPT ![Cur(t)] = [c EXCEPT !.lines = n]]
    BY <1>2 DEF ReadData
  <2>2. [c EXCEPT !.lines = n] \in Conn
    BY <1>0, ServerAssumption DEF Conn
  <2> QED
    BY <2>1, <2>2, ConnUpdate
<1>3. CASE ProcessNothing(t)
  <2>1. [c EXCEPT !.keep = FALSE] \in Conn
    BY <1>0 DEF Conn
  <2> QED
    BY <1>3, <2>1, ConnUpdate DEF ProcessNothing
<1>4. CASE ProcessRequest(t)
  <2>1. PICK size \in 1..MaxOut, rest \in 0..MaxLines, keep \in BOOLEAN :
            conn' = [conn EXCEPT ![Cur(t)] =
                        [c EXCEPT !.out = size, !.lines = rest, !.keep = keep]]
    BY <1>4 DEF ProcessRequest
  <2>2. [c EXCEPT !.out = size, !.lines = rest, !.keep = keep] \in Conn
    <3>1. size \in 0..MaxOut
      BY ServerAssumption
    <3> QED
      BY <1>0, <3>1, ConnAnswered
  <2> QED
    BY <2>1, <2>2, ConnUpdate
<1>5. CASE WriteSome(t)
  <2>1. PICK rest \in 0..(c.out - 1) : conn' = [conn EXCEPT ![Cur(t)] = [c EXCEPT !.out = rest]]
    BY <1>5 DEF WriteSome
  <2>2. [c EXCEPT !.out = rest] \in Conn
    BY <1>0, ServerAssumption DEF Conn
  <2> QED
    BY <2>1, <2>2, ConnUpdate
<1> QED
  BY <1>1, <1>2, <1>3, <1>4, <1>5

LEMMA ClientType == TypeOK /\ Client => TypeOK'
<1> SUFFICES ASSUME TypeOK, Client PROVE TypeOK'
  OBVIOUS
<1> USE ServerAssumption DEF TypeOK, poolVars, epollVars, connVars, kernelVars, boundVars
<1>1. CASE Connect
  BY <1>1 DEF Connect
<1>2. ASSUME NEW f \in Fd, Send(f) PROVE TypeOK'
  BY <1>2 DEF Send
<1>3. ASSUME NEW f \in Fd, ShutdownWrite(f) PROVE TypeOK'
  BY <1>3 DEF ShutdownWrite
<1>4. ASSUME NEW f \in Fd, Reset(f) PROVE TypeOK'
  BY <1>4 DEF Reset
<1>5. ASSUME NEW f \in Fd, Drain(f) PROVE TypeOK'
  BY <1>5 DEF Drain
<1> QED
  BY <1>1, <1>2, <1>3, <1>4, <1>5 DEF Client

(* epoll_wait reports armed connections only. *)
LEMMA ReportedArmed ==
    \A f \in Fd : /\ Reported(f) \in {"none", "hup", "in", "out"}
                  /\ Reported(f) # "none" => Armed(f)
  BY DEF Reported, Armed

LEMMA CloseType ==
    ASSUME TypeOK, NEW t \in Thread, CloseStep(t)
    PROVE  TypeOK'
<1> USE ServerAssumption, NoTaskIsNoTask
    DEF TypeOK, poolVars, epollVars, connVars, kernelVars, boundVars,
        Thread, MainPC, WorkerPC, ClosePC, Goto
<1>0. Cur(t) \in Fd /\ pc[t] \in ClosePC
  BY CurType DEF CloseStep, DelFd, TestClosed, MarkClosed, CloseFd, Quit
<1>1. CASE DelFd(t)
  BY <1>0, <1>1 DEF DelFd
<1>2. CASE TestClosed(t)
  <2>1. CASE t = Main
    BY <1>0, <1>2, <2>1 DEF TestClosed, Return
  <2>2. CASE t # Main
    BY <1>0, <1>2, <2>2 DEF TestClosed, Return, Pool!Finish
  <2> QED
    BY <2>1, <2>2
<1>3. CASE MarkClosed(t)
  <2>1. conn' \in [Fd -> Conn]
    BY <1>0, <1>3, ConnAction
  <2> QED
    BY <1>0, <1>3, <2>1, SMTT(60) DEF MarkClosed
<1>4. CASE CloseFd(t)
  BY <1>0, <1>4 DEF CloseFd
<1>5. CASE Quit(t)
  <2>1. CASE t = Main
    BY <1>0, <1>5, <2>1 DEF Quit, Return
  <2>2. CASE t \in Worker
    <3>1. t # Main
      BY <2>2
    <3>2. /\ pc' = [pc EXCEPT ![t] = "idle"]
          /\ job' = [job EXCEPT ![t] = NoTask]
          /\ mainFd' = mainFd /\ queue' = queue
      BY <1>5, <3>1 DEF Quit, Return, Pool!Finish
    <3> QED
      BY <1>0, <1>5, <2>2, <3>1, <3>2 DEF Quit
  <2> QED
    BY <2>1, <2>2
<1> QED
  BY <1>1, <1>2, <1>3, <1>4, <1>5 DEF CloseStep

LEMMA MainType == TypeOK /\ MainStep => TypeOK'
<1> SUFFICES ASSUME TypeOK, MainStep PROVE TypeOK'
  OBVIOUS
<1> USE ServerAssumption DEF TypeOK, poolVars, epollVars, connVars, kernelVars, boundVars,
                             Thread, MainPC, WorkerPC, ClosePC, Goto, Consume, InLoop
<1>1. CASE EpollWait
  <2>1. event' \in [Fd -> {"none", "hup", "in", "out"}]
    BY <1>1, ReportedArmed DEF EpollWait
  <2>2. epoll' \in [Fd -> {"none", "off", "in", "out"}]
    BY <1>1 DEF EpollWait
  <2>3. listenEvent' \in BOOLEAN
    <3>1. ListenReported \in BOOLEAN
      <4>1. CASE ListenET
        BY <4>1 DEF ListenReported
      <4>2. CASE ~ListenET
        BY <4>2 DEF ListenReported
      <4> QED
        BY <4>1, <4>2
    <3> QED
      BY <1>1, <3>1 DEF EpollWait
  <2> QED
    BY <1>1, <2>1, <2>2, <2>3 DEF EpollWait
<1>2. CASE DealListen
  BY <1>2 DEF DealListen
<1>3. CASE EndOfEvents
  BY <1>3 DEF EndOfEvents
<1>4. CASE AcceptFails
  BY <1>4 DEF AcceptFails
<1>5. CASE AcceptBusy
  BY <1>5 DEF AcceptBusy
<1>6. ASSUME NEW f \in Fd, DealHangup(f) PROVE TypeOK'
  BY <1>6 DEF DealHangup
<1>7. ASSUME NEW f \in Fd, DealRead(f) PROVE TypeOK'
  <2>1. [op |-> "read", fd |-> f] \in Task
    BY DEF Task
  <2> QED
    BY <1>7, <2>1 DEF DealRead, Pool!Submit
<1>8. ASSUME NEW f \in Fd, DealWrite(f) PROVE TypeOK'
  <2>1. [op |-> "write", fd |-> f] \in Task
    BY DEF Task
  <2> QED
    BY <1>8, <2>1 DEF DealWrite, Pool!Submit
<1>9. ASSUME NEW f \in Fd, AcceptClient(f) PROVE TypeOK'
  <2>1. conn' \in [Fd -> Conn]
    <3>1. conn[f] \in Conn
      OBVIOUS
    <3>2. [conn[f] EXCEPT !.is_closed = FALSE, !.lines = 0] \in Conn
      BY <3>1, ConnOpened
    <3> QED
      BY <1>9, <3>2, ConnUpdate DEF AcceptClient
  <2> QED
    BY <1>9, <2>1, SMTT(60) DEF AcceptClient
<1>10. CASE CloseStep(Main)
  BY <1>10, CloseType
<1> QED
  BY <1>1, <1>2, <1>3, <1>4, <1>5, <1>6, <1>7, <1>8, <1>9, <1>10 DEF MainStep

LEMMA WorkerType ==
    ASSUME TypeOK, NEW w \in Worker, TakeTask(w) \/ WorkerStep(w)
    PROVE  TypeOK'
<1> USE ServerAssumption, NoTaskIsNoTask
    DEF TypeOK, poolVars, epollVars, connVars, kernelVars, boundVars, workerFrame,
        Thread, MainPC, WorkerPC, ClosePC, Goto
<1>0. pc[w] # "idle" => Cur(w) \in Fd
  BY CurType
<1>1. CASE TakeTask(w)
  <2>1. Head(queue) \in Task /\ Tail(queue) \in Seq(Task)
    BY <1>1, HeadTailProperties DEF TakeTask, Pool!Start
  <2>2. Head(queue).op \in {"read", "write"}
    BY <2>1 DEF Task
  <2> QED
    BY <1>1, <2>1, <2>2 DEF TakeTask, Pool!Start
<1>2. CASE ReadData(w)
  <2>1. conn' \in [Fd -> Conn]
    BY <1>0, <1>2, ConnAction DEF ReadData
  <2> QED
    BY <1>0, <1>2, <2>1 DEF ReadData
<1>3. CASE ReadNothing(w)
  BY <1>0, <1>3 DEF ReadNothing
<1>4. CASE ProcessNothing(w)
  <2>1. conn' \in [Fd -> Conn]
    BY <1>0, <1>4, ConnAction DEF ProcessNothing
  <2> QED
    BY <1>0, <1>4, <2>1 DEF ProcessNothing
<1>5. CASE ProcessRequest(w)
  <2>1. conn' \in [Fd -> Conn]
    BY <1>0, <1>5, ConnAction DEF ProcessRequest
  <2> QED
    BY <1>0, <1>5, <2>1 DEF ProcessRequest
<1>6. CASE Rearm(w)
  BY <1>0, <1>6 DEF Rearm, Pool!Finish
<1>7. CASE WriteSome(w)
  <2>1. conn' \in [Fd -> Conn]
    BY <1>0, <1>7, ConnAction DEF WriteSome
  <2> QED
    BY <1>0, <1>7, <2>1, SMTT(60) DEF WriteSome, AfterWrite
<1>8. CASE WriteNothing(w)
  BY <1>0, <1>8 DEF WriteNothing, AfterWrite
<1>9. CASE WriteAgain(w)
  BY <1>0, <1>9 DEF WriteAgain
<1>10. CASE WriteError(w)
  BY <1>0, <1>10 DEF WriteError
<1>11. CASE WriteSigpipe(w)
  BY <1>0, <1>11 DEF WriteSigpipe
<1>12. CASE CloseStep(w)
  BY <1>12, CloseType DEF Thread
<1> QED
  BY <1>1, <1>2, <1>3, <1>4, <1>5, <1>6, <1>7, <1>8, <1>9, <1>10, <1>11, <1>12
     DEF WorkerStep

(* The type invariant of Server. *)
THEOREM TypeCorrect == Spec => []TypeOK
<1>1. TypeOK /\ [Next]_vars => TypeOK'
  <2>1. TypeOK /\ UNCHANGED vars => TypeOK'
    BY DEF TypeOK, vars, poolVars, epollVars, connVars, kernelVars, boundVars
  <2> QED
    BY <2>1, NextCases, ClientType, MainType, WorkerType
<1> QED
  BY TypeInit, <1>1, PTL DEF Spec

-----------------------------------------------------------------------------
(* Ownership. *)

(* Nothing that epoll_wait reported is overwritten by the next call. *)
EventsDone == pc[Main] = "wait" => \A f \in Fd : event[f] = "none"

(* An open descriptor is registered until its closing has begun. *)
Registered ==
    \A f \in open : epoll[f] = "none" =>
        \E t \in Thread : pc[t] \in {"chk", "mark", "free"} /\ Cur(t) = f

(* _is_closed tells whether the descriptor is open, but for the moment     *)
(* between close_conn's assignment and its close().                        *)
ClosedFlag ==
    \A f \in Fd : conn[f].is_closed <=>
        f \notin open \/ \E t \in Thread : pc[t] = "free" /\ Cur(t) = f

OwnInv == OneOwner /\ NoOrphan /\ EventsDone /\ Registered /\ ClosedFlag

LEMMA OwnInit == Init => OwnInv
<1> SUFFICES ASSUME Init PROVE OwnInv
  OBVIOUS
<1>1. /\ \A f \in Fd : epoll[f] = "none" /\ event[f] = "none" /\ conn[f].is_closed
      /\ \A t \in Thread : pc[t] \in {"wait", "idle"}
      /\ queue = <<>> /\ open = {}
  BY DEF Init, Pool!Init
<1>2. \A f \in Fd : ~Armed(f) /\ ~Announced(f) /\ ~Queued(f) /\ ~Held(f)
  BY <1>1 DEF Armed, Announced, Queued, Held, Holds
<1>3. OneOwner /\ NoOrphan
  BY <1>1, <1>2 DEF OneOwner, NoOrphan, Holds
<1> QED
  BY <1>1, <1>3 DEF OwnInv, EventsDone, Registered, ClosedFlag

(* A thread has a connection in hand exactly at these points. *)
Holding == (ClosePC \ {"quit"}) \cup {"read", "write", "process", "arm_in", "arm_out"}

LEMMA HoldsPC ==
    ASSUME TypeOK
    PROVE  \A t \in Thread, f \in Fd : Holds(t, f) <=> pc[t] \in Holding /\ Cur(t) = f
  BY DEF TypeOK, Holds, Holding, Thread, MainPC, WorkerPC, ClosePC

(* A thread that moves on without taking or giving up a connection. *)
LEMMA SameHands ==
    ASSUME TypeOK, TypeOK', NEW t \in Thread, NEW p, pc' = [pc EXCEPT ![t] = p],
           mainFd' = mainFd, job' = job, pc[t] \in Holding <=> p \in Holding
    PROVE  \A u \in Thread, f \in Fd : Holds(u, f)' <=> Holds(u, f)
<1>1. \A u \in Thread : Cur(u)' = Cur(u)
  BY DEF Cur
<1>2. \A u \in Thread : pc'[u] \in Holding <=> pc[u] \in Holding
  BY DEF TypeOK
<1>3. \A u \in Thread, f \in Fd : Holds(u, f)' <=> pc'[u] \in Holding /\ Cur(u)' = f
  BY DEF TypeOK, Holds, Holding, Thread, MainPC, WorkerPC, ClosePC
<1> QED
  BY <1>1, <1>2, <1>3, HoldsPC

(* Steps after which every connection is where it was. *)
LEMMA SameOwners ==
    ASSUME OneOwner, NoOrphan, open' = open, queue' = queue,
           \A f \in Fd : (Armed(f)' <=> Armed(f)) /\ (Announced(f)' <=> Announced(f)),
           \A t \in Thread, f \in Fd : Holds(t, f)' <=> Holds(t, f)
    PROVE  OneOwner' /\ NoOrphan'
<1>1. \A f \in Fd : (Queued(f)' <=> Queued(f)) /\ (Held(f)' <=> Held(f))
  BY DEF Queued, Held
<1> QED
  BY <1>1 DEF OneOwner, NoOrphan

LEMMA ClientOwn == TypeOK /\ TypeOK' /\ OwnInv /\ Client => OwnInv'
<1> SUFFICES ASSUME OwnInv,
                    UNCHANGED <<pc, mainFd, queue, job, epoll, event, conn, open>>
             PROVE  OwnInv'
  BY DEF Client, Connect, Send, ShutdownWrite, Reset, Drain,
         poolVars, epollVars, connVars
<1>1. \A t \in Thread, f \in Fd : (Holds(t, f)' <=> Holds(t, f)) /\ Cur(t)' = Cur(t)
  BY DEF Holds, Cur
<1>2. \A f \in Fd : (Armed(f)' <=> Armed(f)) /\ (Announced(f)' <=> Announced(f))
  BY DEF Armed, Announced
<1>3. OneOwner' /\ NoOrphan'
  BY <1>1, <1>2, SameOwners DEF OwnInv
<1> QED
  BY <1>1, <1>3 DEF OwnInv, EventsDone, Registered, ClosedFlag, Cur

(* _closeConn up to its close(), in the hands of the one thread that runs  *)
(* it.                                                                     *)
LEMMA CloseOwn ==
    ASSUME TypeOK, TypeOK', OwnInv, NEW t \in Thread,
           DelFd(t) \/ TestClosed(t) \/ MarkClosed(t) \/ CloseFd(t)
    PROVE  OwnInv'
<1> DEFINE g == Cur(t)
<1>0. /\ g \in Fd /\ pc[t] \in ClosePC /\ Holds(t, g)
      /\ \A u \in Thread, f \in Fd : Holds(u, f) <=> pc[u] \in Holding /\ Cur(u) = f
      /\ t = Main \/ t \in Worker
  BY CurType, HoldsPC
     DEF DelFd, TestClosed, MarkClosed, CloseFd, ClosePC, Holding, TypeOK, Thread
<1>1. /\ ~Armed(g) /\ ~Announced(g) /\ ~Queued(g) /\ g \in open
      /\ \A u \in Thread : pc[u] \in Holding /\ Cur(u) = g => u = t
  BY <1>0 DEF OwnInv, OneOwner, NoOrphan, Held
<1>2. CASE DelFd(t)
  <2>1. /\ pc' = [pc EXCEPT ![t] = "chk"] /\ pc[t] = "del"
        /\ epoll' = [epoll EXCEPT ![g] = "none"]
        /\ UNCHANGED <<mainFd, job, queue, event, conn, open>>
    BY <1>2 DEF DelFd, Goto, poolVars, connVars, kernelVars
  <2>2. \A u \in Thread, f \in Fd : Holds(u, f)' <=> Holds(u, f)
    BY <2>1, SameHands DEF Holding, ClosePC
  <2>3. \A f \in Fd : (Armed(f)' <=> Armed(f)) /\ (Announced(f)' <=> Announced(f))
    BY <1>0, <1>1, <2>1 DEF Armed, Announced, TypeOK
  <2>4. OneOwner' /\ NoOrphan'
    BY <2>1, <2>2, <2>3, SameOwners DEF OwnInv
  <2>5. \A u \in Thread : Cur(u)' = Cur(u)
    BY <2>1 DEF Cur
  <2>6. EventsDone'
    BY <1>0, <2>1 DEF OwnInv, EventsDone, TypeOK
  <2>7. Registered'
    BY <1>0, <2>1, <2>5 DEF OwnInv, Registered, TypeOK
  <2>8. ClosedFlag'
    BY <1>0, <2>1, <2>5 DEF OwnInv, ClosedFlag, TypeOK
  <2> QED
    BY <2>4, <2>6, <2>7, <2>8 DEF OwnInv
<1>3. CASE TestClosed(t)
  <2>1. pc[t] = "chk" /\ ~conn[g].is_closed
    BY <1>0, <1>1, <1>3 DEF TestClosed, OwnInv, ClosedFlag, Holding, ClosePC
  <2>2. /\ pc' = [pc EXCEPT ![t] = "mark"]
        /\ UNCHANGED <<mainFd, job, queue, epoll, event, conn, open>>
    BY <1>3, <2>1 DEF TestClosed, Goto, poolVars, epollVars, connVars, kernelVars
  <2>3. \A u \in Thread, f \in Fd : Holds(u, f)' <=> Holds(u, f)
    BY <2>1, <2>2, SameHands DEF Holding, ClosePC
  <2>4. \A f \in Fd : (Armed(f)' <=> Armed(f)) /\ (Announced(f)' <=> Announced(f))
    BY <2>2 DEF Armed, Announced
  <2>5. OneOwner' /\ NoOrphan'
    BY <2>2, <2>3, <2>4, SameOwners DEF OwnInv
  <2>6. \A u \in Thread : Cur(u)' = Cur(u)
    BY <2>2 DEF Cur
  <2>7. EventsDone'
    BY <1>0, <2>1, <2>2 DEF OwnInv, EventsDone, TypeOK
  <2>8. Registered'
    BY <1>0, <2>1, <2>2, <2>6 DEF OwnInv, Registered, TypeOK
  <2>9. ClosedFlag'
    BY <1>0, <2>1, <2>2, <2>6 DEF OwnInv, ClosedFlag, TypeOK
  <2> QED
    BY <2>5, <2>7, <2>8, <2>9 DEF OwnInv
<1>4. CASE MarkClosed(t)
  <2>1. /\ pc' = [pc EXCEPT ![t] = "free"] /\ pc[t] = "mark"
        /\ conn' = [conn EXCEPT ![g] = [@ EXCEPT !.is_closed = TRUE]]
        /\ UNCHANGED <<mainFd, job, queue, epoll, event, open>>
    BY <1>4 DEF MarkClosed, Goto, poolVars, epollVars, kernelVars
  <2>2. \A u \in Thread, f \in Fd : Holds(u, f)' <=> Holds(u, f)
    BY <2>1, SameHands DEF Holding, ClosePC
  <2>3. \A f \in Fd : (Armed(f)' <=> Armed(f)) /\ (Announced(f)' <=> Announced(f))
    BY <2>1 DEF Armed, Announced
  <2>4. OneOwner' /\ NoOrphan'
    BY <2>1, <2>2, <2>3, SameOwners DEF OwnInv
  <2>5. \A u \in Thread : Cur(u)' = Cur(u)
    BY <2>1 DEF Cur
  <2>6. EventsDone'
    BY <1>0, <2>1 DEF OwnInv, EventsDone, TypeOK
  <2>7. Registered'
    BY <1>0, <2>1, <2>5 DEF OwnInv, Registered, TypeOK
  <2>8. ClosedFlag'
    <3>1. conn[g] \in Conn
      BY <1>0 DEF TypeOK
    <3>2. conn'[g].is_closed /\ \A f \in Fd : f # g => conn'[f] = conn[f]
      BY <1>0, <2>1, <3>1 DEF TypeOK, Conn
    <3>3. pc'[t] = "free" /\ \A u \in Thread : u # t => pc'[u] = pc[u]
      BY <2>1 DEF TypeOK
    <3> QED
      BY <1>0, <2>1, <2>5, <3>2, <3>3 DEF OwnInv, ClosedFlag
  <2> QED
    BY <2>4, <2>6, <2>7, <2>8 DEF OwnInv
<1>5. CASE CloseFd(t)
  <2>1. /\ pc[t] = "free" /\ open' = open \ {g}
        /\ epoll' = [epoll EXCEPT ![g] = "none"]
        /\ UNCHANGED <<queue, event, conn>>
    BY <1>5 DEF CloseFd, poolVars, connVars
  <2>2. /\ pc'[t] = "quit"
        /\ \A u \in Thread : u # t => pc'[u] = pc[u] /\ Cur(u)' = Cur(u)
    BY <1>0, <1>5 DEF CloseFd, poolVars, Goto, Cur, TypeOK, Thread
  <2>3. \A u \in Thread, f \in Fd : Holds(u, f)' <=> Holds(u, f) /\ u # t
    BY <2>2 DEF Holds
  <2>4. \A f \in Fd : (Armed(f)' <=> Armed(f)) /\ (Announced(f)' <=> Announced(f))
    BY <1>0, <1>1, <2>1 DEF Armed, Announced, TypeOK
  <2>5. \A f \in Fd : Queued(f)' <=> Queued(f)
    BY <2>1 DEF Queued
  <2>6. \A f \in Fd : Held(f)' <=> Held(f) /\ f # g
    BY <1>0, <1>1, <2>3 DEF Held
  <2>7. OneOwner'
    BY <2>1, <2>3, <2>4, <2>5, <2>6 DEF OwnInv, OneOwner
  <2>8. NoOrphan'
    BY <1>1, <2>1, <2>4, <2>5, <2>6 DEF OwnInv, NoOrphan
  <2>9. EventsDone'
    BY <1>0, <2>1, <2>2 DEF OwnInv, EventsDone, Thread
  <2>10. Registered'
    BY <1>0, <1>1, <2>1, <2>2 DEF OwnInv, Registered, TypeOK
  <2>11. ClosedFlag'
    BY <1>0, <1>1, <2>1, <2>2 DEF OwnInv, ClosedFlag
  <2> QED
    BY <2>7, <2>8, <2>9, <2>10, <2>11 DEF OwnInv
<1> QED
  BY <1>2, <1>3, <1>4, <1>5

(* The log line after close() concerns no connection any more. *)
LEMMA QuitFacts ==
    ASSUME TypeOK, NEW t \in Thread, Quit(t)
    PROVE  /\ UNCHANGED <<queue, epoll, event, conn, open>>
           /\ pc[t] = "quit" /\ pc'[t] \in {"events", "idle"}
           /\ \A u \in Thread : u # t => pc'[u] = pc[u] /\ Cur(u)' = Cur(u)
           /\ \A u \in Thread, f \in Fd : Holds(u, f)' <=> Holds(u, f)
<1>1. UNCHANGED <<queue, epoll, event, conn, open>> /\ pc[t] = "quit"
  BY DEF Quit, Return, Pool!Finish, poolVars, epollVars, connVars, kernelVars
<1>2. /\ pc'[t] \in {"events", "idle"}
      /\ \A u \in Thread : u # t => pc'[u] = pc[u] /\ Cur(u)' = Cur(u)
  BY DEF Quit, Return, Pool!Finish, poolVars, Goto, Cur, TypeOK, Thread
<1>3. \A u \in Thread, f \in Fd : Holds(u, f)' <=> Holds(u, f)
  BY <1>1, <1>2 DEF Holds
<1> QED
  BY <1>1, <1>2, <1>3

LEMMA QuitOwn ==
    ASSUME TypeOK, OwnInv, NEW t \in Thread, Quit(t)
    PROVE  OwnInv'
<1>1. \A f \in Fd : (Armed(f)' <=> Armed(f)) /\ (Announced(f)' <=> Announced(f))
  BY QuitFacts DEF Armed, Announced
<1>2. OneOwner' /\ NoOrphan'
  BY <1>1, QuitFacts, SameOwners DEF OwnInv
<1>3. EventsDone' /\ Registered' /\ ClosedFlag'
  BY QuitFacts DEF OwnInv, EventsDone, Registered, ClosedFlag, Thread
<1> QED
  BY <1>2, <1>3 DEF OwnInv

(* Steps of the main thread between its wait, its events and its accepts, *)
(* and steps of a worker between the points where it has a connection.     *)
LEMMA QuietOwn ==
    ASSUME TypeOK, TypeOK', OwnInv, NEW t \in Thread, NEW p,
           pc' = [pc EXCEPT ![t] = p],
           pc[t] \in Holding <=> p \in Holding,
           pc[t] \notin {"chk", "mark", "free"}, p # "free",
           p = "wait" => \A f \in Fd : event[f] = "none",
           \A f \in Fd : conn'[f].is_closed <=> conn[f].is_closed,
           UNCHANGED <<mainFd, job, queue, epoll, event, open>>
    PROVE  OwnInv'
<1>1. \A u \in Thread, f \in Fd : Holds(u, f)' <=> Holds(u, f)
  BY SameHands
<1>2. \A f \in Fd : (Armed(f)' <=> Armed(f)) /\ (Announced(f)' <=> Announced(f))
  BY DEF Armed, Announced
<1>3. OneOwner' /\ NoOrphan'
  BY <1>1, <1>2, SameOwners DEF OwnInv
<1>4. \A u \in Thread : Cur(u)' = Cur(u)
  BY DEF Cur
<1>5. pc'[t] = p /\ \A u \in Thread : u # t => pc'[u] = pc[u]
  BY DEF TypeOK
<1>6. EventsDone'
  BY <1>5 DEF OwnInv, EventsDone, Thread
<1>7. Registered'
  BY <1>4, <1>5 DEF OwnInv, Registered
<1>8. ClosedFlag'
  BY <1>4, <1>5 DEF OwnInv, ClosedFlag
<1> QED
  BY <1>3, <1>6, <1>7, <1>8 DEF OwnInv

LEMMA MainOwn == TypeOK /\ TypeOK' /\ OwnInv /\ MainStep => OwnInv'
<1> SUFFICES ASSUME TypeOK, TypeOK', OwnInv, MainStep PROVE OwnInv'
  OBVIOUS
<1>0. /\ Main \in Thread
      /\ \A u \in Thread, f \in Fd : Holds(u, f) <=> pc[u] \in Holding /\ Cur(u) = f
      /\ \A u \in Thread : u # Main => u \in Worker /\ Cur(u) = job[u].fd
  BY HoldsPC DEF Thread, Cur
<1>1. CASE EpollWait
  <2>1. /\ pc[Main] = "wait" /\ pc' = [pc EXCEPT ![Main] = "events"]
        /\ event' = [f \in Fd |-> Reported(f)]
        /\ epoll' = [f \in Fd |-> IF Reported(f) # "none" THEN "off" ELSE epoll[f]]
        /\ UNCHANGED <<mainFd, job, queue, conn, open>>
    BY <1>1 DEF EpollWait, Goto, poolVars, connVars, kernelVars
  <2>2. \A u \in Thread, f \in Fd : Holds(u, f)' <=> Holds(u, f)
    BY <1>0, <2>1, SameHands DEF Holding, ClosePC
  <2>3. \A f \in Fd : ~Announced(f)
    BY <2>1 DEF OwnInv, EventsDone, Announced
  <2>4. \A f \in Fd : /\ Armed(f)' <=> Armed(f) /\ Reported(f) = "none"
                      /\ Announced(f)' <=> Armed(f) /\ Reported(f) # "none"
    BY <2>1, ReportedArmed DEF Armed, Announced
  <2>5. \A f \in Fd : (Queued(f)' <=> Queued(f)) /\ (Held(f)' <=> Held(f))
    BY <2>1, <2>2 DEF Queued, Held
  <2>6. OneOwner'
    BY <2>1, <2>2, <2>3, <2>4, <2>5 DEF OwnInv, OneOwner
  <2>7. NoOrphan'
    BY <2>1, <2>3, <2>4, <2>5 DEF OwnInv, NoOrphan
  <2>8. \A u \in Thread : Cur(u)' = Cur(u)
    BY <2>1 DEF Cur
  <2>9. EventsDone' /\ Registered' /\ ClosedFlag'
    <3>1. pc'[Main] = "events" /\ \A u \in Thread : u # Main => pc'[u] = pc[u]
      BY <1>0, <2>1 DEF TypeOK
    <3>2. \A f \in open : epoll'[f] = "none" => epoll[f] = "none"
      BY <2>1 DEF TypeOK
    <3> QED
      BY <1>0, <2>1, <2>8, <3>1, <3>2 DEF OwnInv, EventsDone, Registered, ClosedFlag
  <2> QED
    BY <2>6, <2>7, <2>9 DEF OwnInv
<1>2. CASE DealListen \/ EndOfEvents \/ AcceptFails \/ AcceptBusy
  <2>1. PICK p \in {"accept", "wait", "events"} :
            /\ pc' = [pc EXCEPT ![Main] = p]
            /\ pc[Main] \in {"events", "accept"}
            /\ p = "wait" => \A f \in Fd : event[f] = "none"
            /\ UNCHANGED <<mainFd, job, queue, epoll, event, conn, open>>
    BY <1>2 DEF DealListen, EndOfEvents, AcceptFails, AcceptBusy, Goto, InLoop,
                poolVars, epollVars, connVars, kernelVars
  <2> QED
    BY <1>0, <2>1, QuietOwn DEF Holding, ClosePC
<1>3. ASSUME NEW g \in Fd, DealHangup(g) PROVE OwnInv'
  <2>1. /\ pc[Main] = "events" /\ pc' = [pc EXCEPT ![Main] = "del"] /\ mainFd' = g
        /\ event[g] = "hup" /\ event' = [event EXCEPT ![g] = "none"]
        /\ UNCHANGED <<job, queue, epoll, conn, open>>
    BY <1>3 DEF DealHangup, Goto, Consume, InLoop, poolVars, connVars, kernelVars
  <2>2. /\ pc'[Main] = "del" /\ Cur(Main)' = g
        /\ \A u \in Thread : u # Main => pc'[u] = pc[u] /\ Cur(u)' = Cur(u)
    BY <1>0, <2>1 DEF Cur, TypeOK
  <2>3. \A u \in Thread, f \in Fd : Holds(u, f)' <=> Holds(u, f) \/ (u = Main /\ f = g)
    BY <2>1, <2>2 DEF Holds
  <2>4. \A f \in Fd : /\ Armed(f)' <=> Armed(f)
                      /\ Announced(f)' <=> Announced(f) /\ f # g
                      /\ Queued(f)' <=> Queued(f)
                      /\ Held(f)' <=> Held(f) \/ f = g
    BY <1>0, <2>1, <2>3 DEF Armed, Announced, Queued, Held, TypeOK
  <2>5. Announced(g)
    BY <2>1 DEF Announced
  <2>6. \A u \in Thread : ~Holds(u, g)
    BY <2>5 DEF OwnInv, OneOwner, Held
  <2>7. \A f \in Fd : ~Holds(Main, f)
    BY <1>0, <2>1 DEF Holding, ClosePC
  <2>8. OneOwner'
    BY <2>1, <2>3, <2>4, <2>5, <2>6, <2>7 DEF OwnInv, OneOwner
  <2>9. NoOrphan'
    BY <2>1, <2>4, <2>5 DEF OwnInv, NoOrphan
  <2>10. EventsDone' /\ Registered' /\ ClosedFlag'
    BY <1>0, <2>1, <2>2 DEF OwnInv, EventsDone, Registered, ClosedFlag
  <2> QED
    BY <2>8, <2>9, <2>10 DEF OwnInv
<1>4. ASSUME NEW g \in Fd, DealRead(g) \/ DealWrite(g) PROVE OwnInv'
  <2>1. PICK k \in Task :
            /\ k.fd = g /\ queue' = Append(queue, k) /\ pc[Main] = "events"
            /\ event[g] # "none" /\ event' = [event EXCEPT ![g] = "none"]
            /\ UNCHANGED <<pc, mainFd, job, epoll, conn, open>>
    BY <1>4 DEF DealRead, DealWrite, Consume, InLoop, Pool!Submit, Task, connVars, kernelVars
  <2>2. \A u \in Thread : Cur(u)' = Cur(u)
    BY <2>1 DEF Cur
  <2>3. \A u \in Thread, f \in Fd : Holds(u, f)' <=> Holds(u, f)
    BY <2>1, <2>2 DEF Holds
  <2>4. /\ Len(queue) \in Nat /\ Len(queue') = Len(queue) + 1
        /\ \A i \in 1..Len(queue) : queue'[i] = queue[i]
        /\ queue'[Len(queue) + 1] = k
    BY <2>1, AppendProperties, LenProperties DEF TypeOK
  <2>5. \A f \in Fd : Queued(f)' <=> Queued(f) \/ f = g
    BY <2>1, <2>4 DEF Queued
  <2>6. \A f \in Fd : /\ Armed(f)' <=> Armed(f)
                      /\ Announced(f)' <=> Announced(f) /\ f # g
                      /\ Held(f)' <=> Held(f)
    BY <2>1, <2>3 DEF Armed, Announced, Held, TypeOK
  <2>7. Announced(g) /\ ~Queued(g)
    BY <2>1 DEF Announced, OwnInv, OneOwner
  <2>8. \A i, j \in 1..Len(queue') : queue'[i].fd = queue'[j].fd => i = j
    <3>1. \A i \in 1..Len(queue) : queue[i].fd # g
      BY <2>7 DEF Queued
    <3>2. \A i, j \in 1..Len(queue) : queue[i].fd = queue[j].fd => i = j
      BY DEF OwnInv, OneOwner
    <3> QED
      BY <2>1, <2>4, <3>1, <3>2
  <2>9. OneOwner'
    BY <2>3, <2>5, <2>6, <2>7, <2>8 DEF OwnInv, OneOwner
  <2>10. NoOrphan'
    BY <2>1, <2>5, <2>6, <2>7 DEF OwnInv, NoOrphan
  <2>11. EventsDone' /\ Registered' /\ ClosedFlag'
    BY <2>1, <2>2 DEF OwnInv, EventsDone, Registered, ClosedFlag
  <2> QED
    BY <2>9, <2>10, <2>11 DEF OwnInv
<1>5. ASSUME NEW g \in Fd, AcceptClient(g) PROVE OwnInv'
  <2>1. /\ g \notin open /\ open' = open \cup {g} /\ pc[Main] = "accept"
        /\ epoll' = [epoll EXCEPT ![g] = "in"]
        /\ conn' = [conn EXCEPT ![g] = [@ EXCEPT !.is_closed = FALSE, !.lines = 0]]
        /\ UNCHANGED <<mainFd, job, queue, event>>
    BY <1>5 DEF AcceptClient, poolVars
  <2>2. PICK p \in {"accept", "events"} : pc' = [pc EXCEPT ![Main] = p]
    BY <1>5 DEF AcceptClient, Goto
  <2>3. \A u \in Thread, f \in Fd : Holds(u, f)' <=> Holds(u, f)
    BY <1>0, <2>1, <2>2, SameHands DEF Holding, ClosePC
  <2>4. /\ \A u \in Thread : Cur(u)' = Cur(u)
        /\ \A u \in Thread : u # Main => pc'[u] = pc[u]
        /\ pc'[Main] \in {"accept", "events"}
    BY <1>0, <2>1, <2>2 DEF Cur, TypeOK
  <2>5. ~Armed(g) /\ ~Announced(g) /\ ~Queued(g) /\ ~Held(g)
    BY <2>1 DEF OwnInv, NoOrphan
  <2>6. \A f \in Fd : /\ Armed(f)' <=> Armed(f) \/ f = g
                      /\ Announced(f)' <=> Announced(f)
                      /\ Queued(f)' <=> Queued(f)
                      /\ Held(f)' <=> Held(f)
    BY <2>1, <2>3 DEF Armed, Announced, Queued, Held, TypeOK
  <2>7. OneOwner'
    BY <2>1, <2>3, <2>5, <2>6 DEF OwnInv, OneOwner
  <2>8. NoOrphan'
    BY <2>1, <2>5, <2>6 DEF OwnInv, NoOrphan
  <2>9. EventsDone' /\ Registered'
    <3>1. epoll'[g] = "in" /\ \A f \in open : epoll'[f] = epoll[f]
      BY <2>1 DEF TypeOK
    <3>2. \A u \in Thread : pc[u] \in {"chk", "mark", "free"} =>
              pc'[u] = pc[u] /\ Cur(u)' = Cur(u)
      BY <2>1, <2>4
    <3> QED
      BY <2>1, <2>4, <3>1, <3>2 DEF OwnInv, EventsDone, Registered
  <2>10. ClosedFlag'
    <3>1. conn[g] \in Conn
      BY DEF TypeOK
    <3>2. ~conn'[g].is_closed /\ \A f \in Fd : f # g => conn'[f] = conn[f]
      BY <2>1, <3>1 DEF TypeOK, Conn
    <3>3. \A u \in Thread : pc'[u] = "free" => pc[u] = "free" /\ u # Main
      BY <2>4
    <3>4. \A u \in Thread : pc[u] = "free" => pc'[u] = "free" /\ Cur(u) # g
      BY <1>0, <2>1, <2>4, <2>5 DEF Held, Holding, ClosePC
    <3> QED
      BY <2>1, <2>4, <3>2, <3>3, <3>4 DEF OwnInv, ClosedFlag
  <2> QED
    BY <2>7, <2>8, <2>9, <2>10 DEF OwnInv
<1>6. CASE CloseStep(Main)
  BY <1>0, <1>6, CloseOwn, QuitOwn DEF CloseStep
<1> QED
  BY <1>1, <1>2, <1>3, <1>4, <1>5, <1>6 DEF MainStep

LEMMA WorkerOwn ==
    ASSUME TypeOK, TypeOK', OwnInv, NEW w \in Worker, TakeTask(w) \/ WorkerStep(w)
    PROVE  OwnInv'
<1>0. /\ w \in Thread /\ w # Main /\ Main \in Thread
      /\ \A u \in Thread, f \in Fd : Holds(u, f) <=> pc[u] \in Holding /\ Cur(u) = f
      /\ Cur(w) = job[w].fd
  BY HoldsPC, ServerAssumption DEF Thread, Cur
<1>1. CASE TakeTask(w)
  <2> DEFINE k == Head(queue)
             g == k.fd
  <2>1. /\ queue # <<>> /\ k \in Task /\ queue' = Tail(queue)
        /\ job[w] = NoTask /\ job' = [job EXCEPT ![w] = k]
        /\ pc' = [pc EXCEPT ![w] = k.op]
        /\ UNCHANGED <<mainFd, epoll, event, conn, open>>
    BY <1>1, HeadTailProperties
       DEF TakeTask, Goto, Pool!Start, TypeOK, epollVars, connVars, kernelVars
  <2>2. g \in Fd /\ k.op \in {"read", "write"}
    BY <2>1 DEF Task
  <2>3. /\ pc'[w] = k.op /\ Cur(w)' = g
        /\ \A u \in Thread : u # w => pc'[u] = pc[u] /\ Cur(u)' = Cur(u)
    BY <1>0, <2>1 DEF Cur, TypeOK, Thread
  <2>4. \A f \in Fd : ~Holds(w, f)
    BY <1>0, <2>1 DEF TypeOK, Holding, ClosePC
  <2>5. \A u \in Thread, f \in Fd : Holds(u, f)' <=> Holds(u, f) \/ (u = w /\ f = g)
    BY <2>2, <2>3, <2>4 DEF Holds
  <2>6. /\ Len(queue) \in Nat /\ Len(queue) > 0 /\ Len(queue') = Len(queue) - 1
        /\ queue[1] = k
        /\ \A i \in 1..Len(queue') : queue'[i] = queue[i + 1]
    BY <2>1, HeadTailProperties, LenProperties, EmptySeq DEF TypeOK
  <2>7. \A i, j \in 1..Len(queue) : queue[i].fd = queue[j].fd => i = j
    BY DEF OwnInv, OneOwner
  <2>8. \A f \in Fd : Queued(f)' <=> Queued(f) /\ f # g
    <3>1. ASSUME NEW i \in 1..Len(queue') PROVE i + 1 \in 1..Len(queue) /\ queue'[i].fd # g
      BY <2>6, <2>7
    <3>2. ASSUME NEW i \in 1..Len(queue), i # 1
          PROVE  i - 1 \in 1..Len(queue') /\ queue'[i - 1] = queue[i]
      <4>1. i - 1 \in 1..Len(queue') /\ (i - 1) + 1 = i
        BY <2>6, <3>2
      <4>2. queue'[i - 1] = queue[(i - 1) + 1]
        BY <2>6, <4>1
      <4> QED
        BY <4>1, <4>2
    <3>3. ASSUME NEW f \in Fd, Queued(f), f # g PROVE Queued(f)'
      <4>1. PICK i \in 1..Len(queue) : queue[i].fd = f
        BY <3>3 DEF Queued
      <4>2. i # 1
        BY <2>6, <3>3, <4>1
      <4> QED
        BY <3>2, <4>1, <4>2 DEF Queued
    <3>4. ASSUME NEW f \in Fd, Queued(f)' PROVE Queued(f) /\ f # g
      <4>1. PICK i \in 1..Len(queue') : queue'[i].fd = f
        BY <3>4 DEF Queued
      <4> QED
        BY <2>6, <3>1, <4>1 DEF Queued
    <3> QED
      BY <3>3, <3>4
  <2>9. \A i, j \in 1..Len(queue') : queue'[i].fd = queue'[j].fd => i = j
    <3>1. ASSUME NEW i \in 1..Len(queue'), NEW j \in 1..Len(queue'),
                 queue'[i].fd = queue'[j].fd
          PROVE  i = j
      <4>1. i + 1 \in 1..Len(queue) /\ j + 1 \in 1..Len(queue)
        BY <2>6
      <4>2. i + 1 = j + 1
        BY <2>6, <2>7, <3>1, <4>1
      <4> QED
        BY <4>2, <2>6
    <3> QED
      BY <3>1
  <2>10. Queued(g)
    BY <2>6 DEF Queued
  <2>11. \A f \in Fd : /\ Armed(f)' <=> Armed(f)
                       /\ Announced(f)' <=> Announced(f)
                       /\ Held(f)' <=> Held(f) \/ f = g
    BY <1>0, <2>1, <2>5 DEF Armed, Announced, Held
  <2>12. OneOwner'
    <3>1. \A t, u \in Thread, f \in Fd : Holds(t, f)' /\ Holds(u, f)' => t = u
      BY <2>2, <2>5, <2>10 DEF OwnInv, OneOwner, Held
    <3> QED
      BY <2>2, <2>8, <2>9, <2>10, <2>11, <3>1 DEF OwnInv, OneOwner
  <2>13. NoOrphan'
    BY <2>1, <2>8, <2>10, <2>11 DEF OwnInv, NoOrphan
  <2>14. \A u \in Thread, p \in {"chk", "mark", "free"} : pc'[u] = p <=> pc[u] = p
    BY <1>0, <2>1, <2>2, <2>3 DEF TypeOK
  <2>15. \A u \in Thread : pc[u] \in {"chk", "mark", "free"} => Cur(u)' = Cur(u)
    BY <1>0, <2>1, <2>3 DEF TypeOK
  <2>16. EventsDone' /\ Registered' /\ ClosedFlag'
    BY <1>0, <2>1, <2>3, <2>14, <2>15 DEF OwnInv, EventsDone, Registered, ClosedFlag
  <2> QED
    BY <2>12, <2>13, <2>16 DEF OwnInv
<1>2. CASE Rearm(w)
  <2> DEFINE g == Cur(w)
  <2>1. /\ pc[w] \in {"arm_in", "arm_out"} /\ pc' = [pc EXCEPT ![w] = "idle"]
        /\ job' = [job EXCEPT ![w] = NoTask] /\ queue' = queue
        /\ epoll' = [epoll EXCEPT ![g] = IF @ = "none" THEN "none"
                                        ELSE IF pc[w] = "arm_in" THEN "in" ELSE "out"]
        /\ UNCHANGED <<mainFd, event, conn, open>>
    BY <1>2 DEF Rearm, Goto, Pool!Finish, connVars, kernelVars
  <2>2. g \in Fd /\ Holds(w, g)
    BY <1>0, <2>1, CurType DEF Holding
  <2>3. /\ ~Armed(g) /\ ~Announced(g) /\ ~Queued(g) /\ g \in open
        /\ \A u \in Thread : Holds(u, g) => u = w
    BY <1>0, <2>2 DEF OwnInv, OneOwner, NoOrphan, Held
  <2>4. epoll[g] # "none"
    BY <1>0, <2>1, <2>2, <2>3 DEF OwnInv, Registered, Holding, ClosePC
  <2>5. /\ epoll'[g] \in {"in", "out"} /\ \A f \in Fd : f # g => epoll'[f] = epoll[f]
    BY <2>1, <2>2, <2>4 DEF TypeOK
  <2>6. /\ pc'[w] = "idle"
        /\ \A u \in Thread : u # w => pc'[u] = pc[u] /\ Cur(u)' = Cur(u)
    BY <1>0, <2>1 DEF Cur, TypeOK, Thread
  <2>7. \A u \in Thread, f \in Fd : Holds(u, f)' <=> Holds(u, f) /\ u # w
    BY <2>6 DEF Holds
  <2>8. \A f \in Fd : /\ Armed(f)' <=> Armed(f) \/ f = g
                      /\ Announced(f)' <=> Announced(f)
                      /\ Queued(f)' <=> Queued(f)
                      /\ Held(f)' <=> Held(f) /\ f # g
    BY <1>0, <2>1, <2>2, <2>3, <2>5, <2>7 DEF Armed, Announced, Queued, Held
  <2>9. OneOwner'
    BY <2>1, <2>3, <2>7, <2>8 DEF OwnInv, OneOwner
  <2>10. NoOrphan'
    BY <2>1, <2>3, <2>8 DEF OwnInv, NoOrphan
  <2>11. \A u \in Thread, p \in {"chk", "mark", "free"} :
             pc'[u] = p <=> pc[u] = p
    BY <2>1, <2>6
  <2>12. \A u \in Thread : pc[u] \in {"chk", "mark", "free"} => Cur(u)' = Cur(u)
    BY <2>1, <2>6
  <2>13. EventsDone' /\ Registered' /\ ClosedFlag'
    BY <1>0, <2>1, <2>5, <2>6, <2>11, <2>12 DEF OwnInv, EventsDone, Registered, ClosedFlag, TypeOK
  <2> QED
    BY <2>9, <2>10, <2>13 DEF OwnInv
<1>3. CASE ReadData(w) \/ ReadNothing(w) \/ ProcessNothing(w) \/ ProcessRequest(w)
           \/ WriteSome(w) \/ WriteNothing(w) \/ WriteAgain(w) \/ WriteError(w)
  <2>1. PICK p \in {"read", "process", "del", "arm_in", "arm_out", "write"} :
            /\ pc' = [pc EXCEPT ![w] = p]
            /\ pc[w] \in {"read", "process", "write"}
            /\ UNCHANGED <<mainFd, job, queue, epoll, event, open>>
    BY <1>3 DEF ReadData, ReadNothing, ProcessNothing, ProcessRequest, WriteSome,
                WriteNothing, WriteAgain, WriteError, AfterWrite, Goto,
                workerFrame, poolVars, epollVars
  <2>2. \A f \in Fd : conn'[f].is_closed <=> conn[f].is_closed
    <3>1. Cur(w) \in Fd /\ \A f \in Fd : conn[f] \in Conn
      BY <2>1, CurType DEF TypeOK
    <3>2. CASE ReadData(w)
      BY <3>1, <3>2, SMTT(60) DEF ReadData, Conn, TypeOK
    <3>3. CASE ProcessNothing(w)
      BY <3>1, <3>3, SMTT(60) DEF ProcessNothing, Conn, TypeOK
    <3>4. CASE ProcessRequest(w)
      BY <3>1, <3>4, SMTT(60) DEF ProcessRequest, Conn, TypeOK
    <3>5. CASE WriteSome(w)
      BY <3>1, <3>5, SMTT(60) DEF WriteSome, Conn, TypeOK
    <3>6. CASE ReadNothing(w) \/ WriteNothing(w) \/ WriteAgain(w) \/ WriteError(w)
      BY <3>6 DEF ReadNothing, WriteNothing, WriteAgain, WriteError
    <3> QED
      BY <1>3, <3>2, <3>3, <3>4, <3>5, <3>6
  <2> QED
    BY <1>0, <2>1, <2>2, QuietOwn DEF Holding, ClosePC
<1>4. CASE WriteSigpipe(w)
  <2>1. UNCHANGED <<pc, mainFd, queue, job, epoll, event, conn, open>>
    BY <1>4 DEF WriteSigpipe, poolVars, epollVars, connVars, kernelVars
  <2>2. /\ \A t \in Thread : Cur(t)' = Cur(t)
        /\ \A t \in Thread, f \in Fd : Holds(t, f)' <=> Holds(t, f)
    BY <2>1 DEF Holds, Cur
  <2>3. \A f \in Fd : (Armed(f)' <=> Armed(f)) /\ (Announced(f)' <=> Announced(f))
    BY <2>1 DEF Armed, Announced
  <2>4. OneOwner' /\ NoOrphan'
    BY <2>1, <2>2, <2>3, SameOwners DEF OwnInv
  <2>5. EventsDone'
    BY <2>1 DEF OwnInv, EventsDone
  <2>6. Registered'
    BY <2>1, <2>2 DEF OwnInv, Registered
  <2>7. ClosedFlag'
    BY <2>1, <2>2 DEF OwnInv, ClosedFlag
  <2> QED
    BY <2>4, <2>5, <2>6, <2>7 DEF OwnInv
<1>5. CASE CloseStep(w)
  BY <1>0, <1>5, CloseOwn, QuitOwn DEF CloseStep
<1> QED
  BY <1>1, <1>2, <1>3, <1>4, <1>5 DEF WorkerStep

LEMMA OwnCorrect == Spec => [](TypeOK /\ OwnInv)
<1>1. TypeOK /\ OwnInv /\ [Next]_vars => TypeOK' /\ OwnInv'
  <2>1. TypeOK /\ UNCHANGED vars => TypeOK'
    BY DEF TypeOK, vars, poolVars, epollVars, connVars, kernelVars, boundVars
  <2>2. OwnInv /\ UNCHANGED vars => OwnInv'
    BY DEF OwnInv, OneOwner, NoOrphan, EventsDone, Registered, ClosedFlag, Armed, Announced,
           Queued, Held, Holds, Cur, vars, poolVars, epollVars, connVars, kernelVars
  <2> QED
    BY <2>1, <2>2, NextCases, ClientType, MainType, WorkerType, ClientOwn, MainOwn, WorkerOwn
<1> QED
  BY TypeInit, OwnInit, <1>1, PTL DEF Spec

(* No two threads ever work on the same HttpConn, and none does while      *)
(* epoll may report it: any number of workers, in every trigger mode.      *)
THEOREM OneOwnerAlways == Spec => []OneOwner
<1>1. TypeOK /\ OwnInv => OneOwner
  BY DEF OwnInv
<1> QED
  BY OwnCorrect, <1>1, PTL

(* No open connection is ever left with nobody to serve it, and nothing    *)
(* refers to a descriptor that has been closed.                            *)
THEOREM NoOrphanAlways == Spec => []NoOrphan
<1>1. TypeOK /\ OwnInv => NoOrphan
  BY DEF OwnInv
<1> QED
  BY OwnCorrect, <1>1, PTL

-----------------------------------------------------------------------------
(* The count of clients. *)

(* The connections HttpConn::user_count is meant to count. *)
Live == {f \in Fd : ~conn[f].is_closed}

LEMMA LiveFinite == IsFiniteSet(Live) /\ Cardinality(Live) \in Nat
<1>1. IsFiniteSet(Live)
  BY ServerAssumption, FS_Subset DEF Live
<1> QED
  BY <1>1, FS_CardinalityType

LEMMA CountSame ==
    ASSUME UserCountExact, user_count' = user_count,
           \A f \in Fd : conn'[f].is_closed <=> conn[f].is_closed
    PROVE  UserCountExact'
<1>1. {f \in Fd : ~conn'[f].is_closed} = {f \in Fd : ~conn[f].is_closed}
  OBVIOUS
<1> QED
  BY <1>1 DEF UserCountExact

LEMMA CountClose ==
    ASSUME TypeOK, OwnInv, UserCountExact, NEW t \in Thread, CloseStep(t)
    PROVE  UserCountExact'
<1>1. CASE DelFd(t) \/ TestClosed(t) \/ CloseFd(t) \/ Quit(t)
  <2>1. user_count' = user_count /\ conn' = conn
    BY <1>1 DEF DelFd, TestClosed, CloseFd, Quit, connVars
  <2> QED
    BY <2>1, CountSame
<1>2. CASE MarkClosed(t)
  <2> DEFINE g == Cur(t)
  <2>1. /\ pc[t] = "mark" /\ g \in Fd /\ Holds(t, g)
        /\ conn' = [conn EXCEPT ![g] = [@ EXCEPT !.is_closed = TRUE]]
        /\ user_count' = user_count - 1
    BY <1>2, CurType, HoldsPC DEF MarkClosed, ClosePC, Holding, TypeOK, Thread
  <2>2. \A u \in Thread : pc[u] = "free" => Cur(u) # g
    BY <2>1, HoldsPC DEF OwnInv, OneOwner, Holding, ClosePC
  <2>3. g \in open /\ g \in Live
    BY <2>1, <2>2 DEF OwnInv, NoOrphan, Held, ClosedFlag, Live
  <2>4. conn[g] \in Conn
    BY <2>1 DEF TypeOK
  <2>5. conn'[g].is_closed /\ \A f \in Fd : f # g => conn'[f] = conn[f]
    BY <2>1, <2>4 DEF TypeOK, Conn
  <2>6. Live' = Live \ {g}
    BY <2>1, <2>5 DEF Live
  <2>7. Cardinality(Live') = Cardinality(Live) - 1
    BY <2>3, <2>6, LiveFinite, FS_RemoveElement
  <2>8. user_count = Cardinality(Live) /\ user_count <= MaxFd
    BY DEF UserCountExact, Live
  <2>9. user_count' = Cardinality(Live') /\ user_count' <= MaxFd
    BY <2>1, <2>7, <2>8, LiveFinite, ServerAssumption
  <2> QED
    BY <2>9 DEF UserCountExact, Live
<1> QED
  BY <1>1, <1>2 DEF CloseStep

LEMMA CountStep ==
    ASSUME TypeOK, OwnInv, UserCountExact, [Next]_vars
    PROVE  UserCountExact'
<1>1. CASE Client \/ UNCHANGED vars
  <2>1. user_count' = user_count /\ conn' = conn
    BY <1>1 DEF Client, Connect, Send, ShutdownWrite, Reset, Drain, vars, connVars
  <2> QED
    BY <2>1, CountSame
<1>2. ASSUME NEW g \in Fd, AcceptClient(g) PROVE UserCountExact'
  <2>1. /\ g \notin open /\ user_count < MaxFd /\ user_count' = user_count + 1
        /\ conn' = [conn EXCEPT ![g] = [@ EXCEPT !.is_closed = FALSE, !.lines = 0]]
    BY <1>2 DEF AcceptClient
  <2>2. g \notin Live
    BY <2>1 DEF OwnInv, ClosedFlag, Live
  <2>3. conn[g] \in Conn
    BY DEF TypeOK
  <2>4. ~conn'[g].is_closed /\ \A f \in Fd : f # g => conn'[f] = conn[f]
    BY <2>1, <2>3 DEF TypeOK, Conn
  <2>5. Live' = Live \cup {g}
    BY <2>4 DEF Live
  <2>6. Cardinality(Live') = Cardinality(Live) + 1
    BY <2>2, <2>5, LiveFinite, FS_AddElement
  <2>7. user_count = Cardinality(Live)
    BY DEF UserCountExact, Live
  <2>8. user_count' = Cardinality(Live') /\ user_count' <= MaxFd
    BY <2>1, <2>6, <2>7, LiveFinite, ServerAssumption
  <2> QED
    BY <2>8 DEF UserCountExact, Live
<1>3. CASE MainStep
  <2>1. CASE \/ EpollWait \/ DealListen \/ EndOfEvents \/ AcceptFails \/ AcceptBusy
             \/ \E f \in Fd : DealHangup(f) \/ DealRead(f) \/ DealWrite(f)
    <3>1. user_count' = user_count /\ conn' = conn
      BY <2>1 DEF EpollWait, DealListen, EndOfEvents, AcceptFails, AcceptBusy,
                  DealHangup, DealRead, DealWrite, connVars
    <3> QED
      BY <3>1, CountSame
  <2>2. CASE CloseStep(Main)
    BY <2>2, CountClose DEF Thread
  <2> QED
    BY <1>2, <1>3, <2>1, <2>2 DEF MainStep
<1>4. ASSUME NEW w \in Worker, TakeTask(w) \/ WorkerStep(w) PROVE UserCountExact'
  <2>1. CASE TakeTask(w) \/ Rearm(w) \/ ReadNothing(w) \/ WriteNothing(w) \/ WriteAgain(w)
             \/ WriteError(w) \/ WriteSigpipe(w)
    <3>1. user_count' = user_count /\ conn' = conn
      BY <2>1 DEF TakeTask, Rearm, ReadNothing, WriteNothing, WriteAgain, WriteError,
                  WriteSigpipe, connVars, workerFrame
    <3> QED
      BY <3>1, CountSame
  <2>2. CASE ReadData(w) \/ ProcessNothing(w) \/ ProcessRequest(w) \/ WriteSome(w)
    <3>1. user_count' = user_count
      BY <2>2, ZenonT(60) DEF ReadData, ProcessNothing, ProcessRequest, WriteSome, workerFrame
    <3>2. Cur(w) \in Fd /\ \A f \in Fd : conn[f] \in Conn
      BY <2>2, CurType DEF ReadData, ProcessNothing, ProcessRequest, WriteSome, TypeOK
    <3>3. CASE ReadData(w)
      BY <3>1, <3>2, <3>3, CountSame DEF ReadData, Conn, TypeOK
    <3>4. CASE ProcessNothing(w)
      BY <3>1, <3>2, <3>4, CountSame DEF ProcessNothing, Conn, TypeOK
    <3>5. CASE ProcessRequest(w)
      BY <3>1, <3>2, <3>5, CountSame DEF ProcessRequest, Conn, TypeOK
    <3>6. CASE WriteSome(w)
      BY <3>1, <3>2, <3>6, CountSame DEF WriteSome, Conn, TypeOK
    <3> QED
      BY <2>2, <3>3, <3>4, <3>5, <3>6
  <2>3. CASE CloseStep(w)
    BY <2>3, CountClose DEF Thread
  <2> QED
    BY <1>4, <2>1, <2>2, <2>3 DEF WorkerStep
<1> QED
  BY <1>1, <1>3, <1>4, NextCases

(* user_count is exact and within MAX_FD: each close, by whichever thread, *)
(* is counted once.                                                        *)
THEOREM UserCountAlwaysExact == Spec => []UserCountExact
<1>1. Init => UserCountExact
  <2> SUFFICES ASSUME Init PROVE UserCountExact
    OBVIOUS
  <2>1. {f \in Fd : ~conn[f].is_closed} = {}
    BY DEF Init
  <2> QED
    <3>1. user_count = 0
      BY DEF Init
    <3> QED
      BY <2>1, <3>1, FS_EmptySet, ServerAssumption DEF UserCountExact
<1>2. TypeOK /\ OwnInv /\ UserCountExact /\ [Next]_vars => UserCountExact'
  BY CountStep
<1> QED
  BY OwnCorrect, <1>1, <1>2, PTL DEF Spec

-----------------------------------------------------------------------------
(* Cut responses. *)

(* What the loop of HttpConn::write may leave to _onWrite unsent. *)
Slack == IF ConnET THEN 0 ELSE LTRest

(* The client has gone, or a system call on its socket has failed. *)
Excused(f) == peer[f] # "up" \/ f \in failed

(* A response is cut short by more than that only with an excuse. *)
CutAtMost == \A t \in Thread : pc[t] = "del" =>
                conn[Cur(t)].out <= Slack \/ Excused(Cur(t))

(* The main thread closes only what hung up. *)
HupGone == \A f \in Fd : event[f] = "hup" => peer[f] # "up"

CutInv == CutAtMost /\ HupGone

(* While a descriptor is open no excuse is withdrawn, so that a step keeps *)
(* the invariant when each thread that closes has begun to before, or has  *)
(* a reason.                                                               *)
LEMMA CutKept ==
    ASSUME TypeOK, OwnInv, CutInv,
           \A f \in open : peer[f] # "up" => peer'[f] # "up",
           \A f \in open : f \in failed => f \in failed',
           \A f \in Fd : event'[f] = "hup" => event[f] = "hup" \/ peer'[f] # "up",
           \A t \in Thread : pc'[t] = "del" =>
               \/ pc[t] = "del" /\ Cur(t)' = Cur(t) /\ conn'[Cur(t)].out = conn[Cur(t)].out
               \/ conn'[Cur(t)'].out <= Slack
               \/ Excused(Cur(t))'
    PROVE  CutInv'
<1>1. \A f \in Fd : Announced(f) \/ Held(f) => f \in open
  BY DEF OwnInv, NoOrphan
<1>2. HupGone'
  <2> SUFFICES ASSUME NEW f \in Fd, event'[f] = "hup" PROVE peer'[f] # "up"
    BY DEF HupGone
  <2>1. CASE event[f] = "hup"
    BY <1>1, <2>1 DEF CutInv, HupGone, Announced
  <2> QED
    BY <2>1
<1>3. CutAtMost'
  <2> SUFFICES ASSUME NEW t \in Thread, pc'[t] = "del"
               PROVE  conn'[Cur(t)'].out <= Slack \/ Excused(Cur(t))'
    BY DEF CutAtMost, Slack
  <2>1. CASE pc[t] = "del" /\ Cur(t)' = Cur(t) /\ conn'[Cur(t)].out = conn[Cur(t)].out
    <3>1. Cur(t) \in Fd
      BY <2>1, CurType DEF Thread, ClosePC
    <3>2. Cur(t) \in open
      BY <1>1, <2>1, <3>1, HoldsPC DEF Held, Holding, ClosePC
    <3>3. conn[Cur(t)].out <= Slack \/ Excused(Cur(t))
      BY <2>1 DEF CutInv, CutAtMost
    <3> QED
      BY <2>1, <3>2, <3>3 DEF Excused
  <2> QED
    BY <2>1
<1> QED
  BY <1>2, <1>3 DEF CutInv

(* What another thread is closing is not the connection in hand. *)
LEMMA OthersCur ==
    ASSUME TypeOK, OwnInv, NEW t \in Thread, pc[t] \in Holding,
           NEW u \in Thread, u # t, pc[u] = "del"
    PROVE  Cur(u) \in Fd /\ Cur(u) # Cur(t)
<1>1. Cur(u) \in Fd /\ Cur(t) \in Fd
  BY CurType DEF Thread, ClosePC, Holding, TypeOK, MainPC
<1>2. Holds(u, Cur(u)) /\ Holds(t, Cur(t))
  BY <1>1, HoldsPC DEF Holding, ClosePC
<1> QED
  BY <1>1, <1>2 DEF OwnInv, OneOwner

LEMMA ClientCut == TypeOK /\ OwnInv /\ CutInv /\ Client => CutInv'
<1> SUFFICES ASSUME TypeOK, OwnInv, CutInv, Client PROVE CutInv'
  OBVIOUS
<1>1. UNCHANGED <<pc, mainFd, job, event, conn, failed>>
  BY DEF Client, Connect, Send, ShutdownWrite, Reset, Drain,
         poolVars, epollVars, connVars
<1>2. \A f \in Fd : peer[f] # "up" => peer'[f] # "up"
  BY DEF Client, Connect, Send, ShutdownWrite, Reset, Drain, TypeOK
<1>3. \A t \in Thread : Cur(t)' = Cur(t)
  BY <1>1 DEF Cur
<1>4. open \subseteq Fd
  BY DEF TypeOK
<1> QED
  BY <1>1, <1>2, <1>3, <1>4, CutKept

LEMMA CloseCut ==
    ASSUME TypeOK, OwnInv, CutInv, NEW t \in Thread, CloseStep(t)
    PROVE  CutInv'
<1>1. /\ pc[t] \in ClosePC /\ Cur(t) \in Fd
      /\ UNCHANGED <<event, peer, failed>>
  BY CurType DEF CloseStep, DelFd, TestClosed, MarkClosed, CloseFd, Quit, ClosePC,
                 Thread, TypeOK, epollVars, kernelVars
<1>2. PICK p \in {"chk", "mark", "free", "quit", "events", "idle"} : pc' = [pc EXCEPT ![t] = p]
  BY DEF CloseStep, DelFd, TestClosed, MarkClosed, CloseFd, Quit, Return, Goto
<1>3. \A f \in Fd : conn'[f].out = conn[f].out
  <2>1. CASE MarkClosed(t)
    BY <1>1, <2>1 DEF MarkClosed, TypeOK, Conn
  <2>2. CASE DelFd(t) \/ TestClosed(t) \/ CloseFd(t) \/ Quit(t)
    BY <2>2 DEF DelFd, TestClosed, CloseFd, Quit, connVars
  <2> QED
    BY <2>1, <2>2 DEF CloseStep
<1>4. \A u \in Thread : u # t => Cur(u)' = Cur(u)
  BY DEF CloseStep, DelFd, TestClosed, MarkClosed, CloseFd, Quit, Return, Cur, TypeOK, Thread,
         Pool!Finish, poolVars
<1>5. ASSUME NEW u \in Thread, pc'[u] = "del"
      PROVE  pc[u] = "del" /\ Cur(u)' = Cur(u) /\ conn'[Cur(u)].out = conn[Cur(u)].out
  <2>1. u # t /\ pc[u] = "del"
    BY <1>2, <1>5 DEF TypeOK
  <2>2. Cur(u) \in Fd
    BY <2>1, CurType DEF Thread, ClosePC
  <2> QED
    BY <1>3, <1>4, <2>1, <2>2
<1> QED
  BY <1>1, <1>5, CutKept

LEMMA MainCut == TypeOK /\ OwnInv /\ CutInv /\ MainStep => CutInv'
<1> SUFFICES ASSUME TypeOK, OwnInv, CutInv, MainStep PROVE CutInv'
  OBVIOUS
<1>0. Main \in Thread /\ open \subseteq Fd
  BY DEF Thread, TypeOK
<1>1. CASE EpollWait \/ DealListen \/ EndOfEvents \/ AcceptFails \/ AcceptBusy
  <2>1. PICK p \in {"events", "accept", "wait"} : pc' = [pc EXCEPT ![Main] = p]
    BY <1>1 DEF EpollWait, DealListen, EndOfEvents, AcceptFails, AcceptBusy, Goto
  <2>2. UNCHANGED <<mainFd, job, conn, peer, failed>>
    BY <1>1 DEF EpollWait, DealListen, EndOfEvents, AcceptFails, AcceptBusy,
                poolVars, connVars, kernelVars
  <2>3. \A f \in Fd : event'[f] = "hup" => event[f] = "hup" \/ peer'[f] # "up"
    BY <1>1, <2>2 DEF EpollWait, Reported, DealListen, EndOfEvents, AcceptFails, AcceptBusy,
                      epollVars
  <2>4. \A u \in Thread : pc'[u] = "del" => pc[u] = "del" /\ Cur(u)' = Cur(u)
    BY <2>1, <2>2 DEF TypeOK, Cur
  <2> QED
    BY <2>2, <2>3, <2>4, CutKept
<1>2. ASSUME NEW f \in Fd, DealHangup(f) PROVE CutInv'
  <2>1. /\ event[f] = "hup" /\ event' = [event EXCEPT ![f] = "none"]
        /\ pc' = [pc EXCEPT ![Main] = "del"] /\ mainFd' = f
        /\ UNCHANGED <<job, conn, peer, failed>>
    BY <1>2 DEF DealHangup, Consume, Goto, poolVars, connVars, kernelVars
  <2>2. Excused(Cur(Main))'
    BY <2>1 DEF CutInv, HupGone, Excused, Cur
  <2>3. \A u \in Thread : u # Main => Cur(u)' = Cur(u) /\ pc'[u] = pc[u]
    BY <2>1 DEF Cur, TypeOK
  <2>4. \A g \in Fd : event'[g] = "hup" => event[g] = "hup"
    BY <2>1 DEF TypeOK
  <2> QED
    BY <2>1, <2>2, <2>3, <2>4, CutKept
<1>3. ASSUME NEW f \in Fd, DealRead(f) \/ DealWrite(f) PROVE CutInv'
  <2>1. /\ event' = [event EXCEPT ![f] = "none"]
        /\ UNCHANGED <<pc, mainFd, job, conn, peer, failed>>
    BY <1>3 DEF DealRead, DealWrite, Consume, Pool!Submit, connVars, kernelVars
  <2>2. \A u \in Thread : Cur(u)' = Cur(u)
    BY <2>1 DEF Cur
  <2>3. \A g \in Fd : event'[g] = "hup" => event[g] = "hup"
    BY <2>1 DEF TypeOK
  <2> QED
    BY <2>1, <2>2, <2>3, CutKept
<1>4. ASSUME NEW f \in Fd, AcceptClient(f) PROVE CutInv'
  <2>1. /\ pc[Main] = "accept" /\ f \notin open
        /\ peer' = [peer EXCEPT ![f] = "up"] /\ failed' = failed \ {f}
        /\ conn' = [conn EXCEPT ![f] = [@ EXCEPT !.is_closed = FALSE, !.lines = 0]]
        /\ UNCHANGED <<mainFd, job, event>>
    BY <1>4 DEF AcceptClient, poolVars
  <2>2. PICK p \in {"accept", "events"} : pc' = [pc EXCEPT ![Main] = p]
    BY <1>4 DEF AcceptClient, Goto
  <2>3. \A u \in Thread : pc'[u] = "del" => pc[u] = "del" /\ Cur(u)' = Cur(u)
    BY <2>1, <2>2 DEF TypeOK, Cur
  <2>4. \A g \in Fd : conn'[g].out = conn[g].out
    BY <2>1 DEF TypeOK, Conn
  <2>5. \A u \in Thread : pc[u] = "del" => Cur(u) \in Fd
    BY CurType DEF Thread, ClosePC
  <2>6. \A g \in open : peer'[g] = peer[g] /\ (g \in failed => g \in failed')
    BY <1>0, <2>1 DEF TypeOK
  <2> QED
    BY <2>1, <2>3, <2>4, <2>5, <2>6, CutKept
<1>5. CASE CloseStep(Main)
  BY <1>0, <1>5, CloseCut
<1> QED
  BY <1>1, <1>2, <1>3, <1>4, <1>5 DEF MainStep

(* A worker closes at the end of a response, after an error, or because    *)
(* there is nothing more to read.                                          *)
LEMMA WorkerCut ==
    ASSUME TypeOK, OwnInv, CutInv, NEW w \in Worker, TakeTask(w) \/ WorkerStep(w)
    PROVE  CutInv'
<1>0. /\ w \in Thread /\ w # Main
      /\ Cur(w) = job[w].fd /\ open \subseteq Fd
  BY ServerAssumption DEF Thread, Cur, TypeOK
<1>1. CASE TakeTask(w) \/ Rearm(w)
  <2>1. /\ UNCHANGED <<mainFd, event, conn, peer, failed>>
        /\ \A u \in Worker : u # w => job'[u] = job[u]
    BY <1>1 DEF TakeTask, Rearm, Pool!Start, Pool!Finish, TypeOK,
                epollVars, connVars, kernelVars
  <2>2. PICK p \in {"read", "write", "idle"} : pc' = [pc EXCEPT ![w] = p]
    <3>1. CASE TakeTask(w)
      <4>1. Head(queue) \in Task
        BY <3>1, HeadTailProperties DEF TakeTask, Pool!Start, TypeOK
      <4> QED
        BY <3>1, <4>1 DEF TakeTask, Goto, Task
    <3>2. CASE Rearm(w)
      BY <3>2 DEF Rearm, Goto
    <3> QED
      BY <1>1, <3>1, <3>2
  <2>3. \A u \in Thread : pc'[u] = "del" => pc[u] = "del" /\ Cur(u)' = Cur(u)
    BY <1>0, <2>1, <2>2 DEF TypeOK, Cur, Thread
  <2> QED
    BY <2>1, <2>3, CutKept
<1>2. CASE ReadData(w) \/ ReadNothing(w) \/ ProcessNothing(w) \/ ProcessRequest(w)
           \/ WriteSome(w) \/ WriteNothing(w) \/ WriteAgain(w) \/ WriteError(w)
  <2> DEFINE g == Cur(w)
  <2>1. /\ UNCHANGED <<mainFd, job, event, peer>>
        /\ failed \subseteq failed'
        /\ pc[w] \in {"read", "process", "write"}
    BY <1>2, ZenonT(60) DEF ReadData, ReadNothing, ProcessNothing, ProcessRequest, WriteSome,
                WriteNothing, WriteAgain, WriteError, workerFrame, poolVars, epollVars
  <2>2. PICK p \in {"read", "process", "del", "arm_in", "arm_out", "write"} :
            pc' = [pc EXCEPT ![w] = p]
    BY <1>2 DEF ReadData, ReadNothing, ProcessNothing, ProcessRequest, WriteSome,
                WriteNothing, WriteAgain, WriteError, AfterWrite, Goto
  <2>3. g \in Fd /\ conn[g] \in Conn
    BY <2>1, CurType DEF TypeOK
  <2>4. \A f \in Fd : f # g => conn'[f] = conn[f]
    BY <1>2, <2>3 DEF ReadData, ReadNothing, ProcessNothing, ProcessRequest, WriteSome,
                      WriteNothing, WriteAgain, WriteError, TypeOK
  <2>5. \A u \in Thread : Cur(u)' = Cur(u)
    BY <2>1 DEF Cur
  <2>6. ASSUME NEW u \in Thread, u # w, pc'[u] = "del"
        PROVE  pc[u] = "del" /\ conn'[Cur(u)] = conn[Cur(u)]
    <3>1. pc[u] = "del"
      BY <2>2, <2>6 DEF TypeOK
    <3>2. Cur(u) \in Fd /\ Cur(u) # g
      BY <1>0, <2>1, <2>6, <3>1, OthersCur DEF Holding
    <3> QED
      BY <2>4, <3>1, <3>2
  <2>7. p = "del" => conn'[g].out <= Slack \/ Excused(g)'
    <3>0. pc'[w] = p
      BY <1>0, <2>2 DEF TypeOK
    <3>1. CASE ReadData(w) \/ ProcessNothing(w) \/ ProcessRequest(w) \/ WriteAgain(w)
      <4>1. PICK q \in {"read", "process", "arm_in", "arm_out"} : pc' = [pc EXCEPT ![w] = q]
        <5>1. CASE ReadData(w)
          BY <5>1, Zenon DEF ReadData, Goto
        <5>2. CASE ProcessNothing(w) \/ ProcessRequest(w) \/ WriteAgain(w)
          BY <5>2, Zenon DEF ProcessNothing, ProcessRequest, WriteAgain, Goto
        <5> QED
          BY <3>1, <5>1, <5>2
      <4>2. p = q
        BY <1>0, <3>0, <4>1 DEF TypeOK
      <4> QED
        BY <4>2
    <3>2. CASE ReadNothing(w)
      <4>1. CASE peer[g] = "up"
        <5>1. pc' = [pc EXCEPT ![w] = "process"]
          BY <3>2, <4>1 DEF ReadNothing, Goto
        <5> QED
          BY <1>0, <3>0, <5>1 DEF TypeOK
      <4>2. CASE peer[g] # "up"
        BY <1>0, <2>1, <2>5, <4>2 DEF Excused
      <4> QED
        BY <4>1, <4>2
    <3>3. CASE WriteError(w)
      BY <1>0, <2>5, <3>3 DEF WriteError, Excused
    <3>4. CASE WriteNothing(w)
      <4>1. conn'[g].out = 0
        BY <3>4 DEF WriteNothing
      <4> QED
        BY <4>1, ServerAssumption DEF Slack
    <3>5. CASE WriteSome(w)
      <4>1. PICK rest \in 0..(conn[g].out - 1) :
                /\ conn' = [conn EXCEPT ![g] = [@ EXCEPT !.out = rest]]
                /\ Goto(w, IF ConnET \/ rest > LTRest THEN "write" ELSE AfterWrite(w, rest))
        BY <3>5 DEF WriteSome
      <4>2. conn'[g].out = rest
        BY <2>3, <4>1 DEF TypeOK, Conn
      <4>3. p = "del" => ~ConnET /\ ~(rest > LTRest)
        BY <1>0, <3>0, <4>1 DEF Goto, TypeOK
      <4>4. rest \in Int /\ LTRest \in Nat
        BY <2>3, ServerAssumption DEF Conn
      <4> QED
        BY <4>2, <4>3, <4>4 DEF Slack
    <3> QED
      BY <1>2, <3>1, <3>2, <3>3, <3>4, <3>5
  <2>8. pc'[w] = p
    BY <1>0, <2>2 DEF TypeOK
  <2>9. \A u \in Thread : pc'[u] = "del" =>
            \/ pc[u] = "del" /\ Cur(u)' = Cur(u) /\ conn'[Cur(u)].out = conn[Cur(u)].out
            \/ conn'[Cur(u)'].out <= Slack
            \/ Excused(Cur(u))'
    BY <2>5, <2>6, <2>7, <2>8 DEF Excused
  <2> QED
    BY <2>1, <2>9, CutKept, SMTT(60)
<1>3. CASE WriteSigpipe(w)
  <2>1. UNCHANGED <<pc, mainFd, job, event, conn, peer, failed>>
    BY <1>3 DEF WriteSigpipe, poolVars, epollVars, connVars, kernelVars
  <2>2. \A u \in Thread : Cur(u)' = Cur(u)
    BY <2>1 DEF Cur
  <2> QED
    BY <2>1, <2>2, CutKept
<1>4. CASE CloseStep(w)
  BY <1>0, <1>4, CloseCut
<1> QED
  BY <1>1, <1>2, <1>3, <1>4 DEF WorkerStep

LEMMA CutCorrect == Spec => [](TypeOK /\ CutInv)
<1>1. Init => CutInv
  BY ServerAssumption DEF Init, CutInv, CutAtMost, HupGone
<1>2. TypeOK /\ OwnInv /\ CutInv /\ [Next]_vars => CutInv'
  <2>1. CutInv /\ UNCHANGED vars => CutInv'
    BY DEF CutInv, CutAtMost, HupGone, Excused, Slack, Cur,
           vars, poolVars, epollVars, connVars, kernelVars
  <2> QED
    BY <2>1, NextCases, ClientCut, MainCut, WorkerCut
<1> QED
  BY OwnCorrect, <1>1, <1>2, PTL DEF Spec

(* In every trigger mode a response to a client that is there, on a socket *)
(* that works, is cut by no more than the 10240 bytes of HttpConn::write   *)
(* (http_conn.cc 58-74, server.cc 264-283); the run server_lt_cut shows    *)
(* that a level-triggered connection does lose as much.                    *)
THEOREM CutBounded == Spec => []CutAtMost
<1>1. TypeOK /\ CutInv => CutAtMost
  BY DEF CutInv
<1> QED
  BY CutCorrect, <1>1, PTL

(* And an edge-triggered connection never loses any of it: it is closed in *)
(* the middle of a response only if the client has gone or a system call   *)
(* on its socket has failed.                                               *)
THEOREM NeverTruncated == ConnET => (Spec => []NoTruncation)
<1> SUFFICES ASSUME ConnET PROVE Spec => []NoTruncation
  OBVIOUS
<1>1. TypeOK /\ CutInv => NoTruncation
  <2> SUFFICES ASSUME TypeOK, CutInv, NEW t \in Thread,
                      pc[t] = "del", conn[Cur(t)].out > 0
               PROVE  Excused(Cur(t))
    BY DEF NoTruncation, Excused
  <2>1. conn[Cur(t)].out \in Nat
    BY CurType DEF Thread, ClosePC, TypeOK, Conn
  <2> QED
    BY <2>1 DEF CutInv, CutAtMost, Slack
<1> QED
  BY CutCorrect, <1>1, PTL

-----------------------------------------------------------------------------
(* The life of a connection. *)

StageInv == TypeOK /\ OwnInv

(* One owner: so whoever has a connection tells its stage. *)
Staged ==
    /\ \A f \in Fd : Armed(f) => StageOf[f] = <<"epoll", epoll[f]>>
    /\ \A f \in Fd : Announced(f) => StageOf[f] = <<"event", event[f]>>
    /\ \A i \in 1..Len(queue) :
           queue[i].fd \in Fd /\ StageOf[queue[i].fd] = <<"task", queue[i].op>>
    /\ \A t \in Thread, f \in Fd : Holds(t, f) => StageOf[f] = <<"thread", Place(pc[t])>>
    /\ \A f \in Fd \ open : StageOf[f] = <<"nobody", "closed">>

LEMMA StageIs == StageInv => Staged
<1> SUFFICES ASSUME StageInv PROVE Staged
  OBVIOUS
<1>1. TypeOK /\ OneOwner /\ NoOrphan
  BY DEF StageInv, OwnInv
<1>2. ASSUME NEW f \in Fd, Armed(f) PROVE StageOf[f] = <<"epoll", epoll[f]>>
  BY <1>2 DEF StageOf
<1>3. ASSUME NEW f \in Fd, Announced(f) PROVE StageOf[f] = <<"event", event[f]>>
  <2>1. ~Armed(f)
    BY <1>1, <1>3 DEF OneOwner
  <2> QED
    BY <1>3, <2>1 DEF StageOf
<1>4. ASSUME NEW i \in 1..Len(queue)
      PROVE  queue[i].fd \in Fd /\ StageOf[queue[i].fd] = <<"task", queue[i].op>>
  <2> DEFINE f == queue[i].fd
             k == CHOOSE j \in 1..Len(queue) : queue[j].fd = f
  <2>1. queue[i] \in Task
    BY <1>1, ElementOfSeq DEF TypeOK
  <2>2. f \in Fd /\ Queued(f)
    BY <2>1 DEF Task, Queued
  <2>3. ~Armed(f) /\ ~Announced(f)
    BY <1>1, <2>2 DEF OneOwner
  <2>4. k = i
    <3>1. k \in 1..Len(queue) /\ queue[k].fd = f
      OBVIOUS
    <3> QED
      BY <1>1, <3>1 DEF OneOwner
  <2> QED
    BY <2>2, <2>3, <2>4 DEF StageOf
<1>5. ASSUME NEW t \in Thread, NEW f \in Fd, Holds(t, f)
      PROVE  StageOf[f] = <<"thread", Place(pc[t])>>
  <2> DEFINE u == CHOOSE v \in Thread : Holds(v, f)
  <2>1. Held(f) /\ ~Armed(f) /\ ~Announced(f) /\ ~Queued(f)
    BY <1>1, <1>5 DEF OneOwner, Held
  <2>2. u = t
    <3>1. u \in Thread /\ Holds(u, f)
      BY <1>5
    <3> QED
      BY <1>1, <1>5, <3>1 DEF OneOwner
  <2>3. StageOf[f] = <<"thread", Place(pc[u])>>
    BY <2>1 DEF StageOf
  <2> QED
    BY <2>2, <2>3
<1>6. ASSUME NEW f \in Fd \ open PROVE StageOf[f] = <<"nobody", "closed">>
  <2>1. ~Armed(f) /\ ~Announced(f) /\ ~Queued(f) /\ ~Held(f)
    BY <1>1, <1>6 DEF NoOrphan
  <2> QED
    BY <2>1 DEF StageOf
<1> QED
  BY <1>2, <1>3, <1>4, <1>5, <1>6 DEF Staged

LEMMA StageIsNext == StageInv' => Staged'
  BY StageIs, PTL

(* A connection that a step leaves where it is keeps its stage. *)
LEMMA StageKept ==
    ASSUME StageInv, StageInv', NEW f \in Fd,
           Armed(f) => epoll'[f] = epoll[f],
           Announced(f) => event'[f] = event[f],
           \A i \in 1..Len(queue) : queue[i].fd = f =>
               \E j \in 1..Len(queue') : queue'[j] = queue[i],
           \A t \in Thread : Holds(t, f) => Holds(t, f)' /\ Place(pc'[t]) = Place(pc[t]),
           f \in open' => f \in open
    PROVE  StageOf'[f] = StageOf[f]
<1>1. Staged /\ Staged'
  BY StageIs, StageIsNext
<1>2. CASE Armed(f)
  <2>1. Armed(f)'
    BY <1>2 DEF Armed
  <2> QED
    BY <1>1, <1>2, <2>1 DEF Staged
<1>3. CASE Announced(f)
  <2>1. Announced(f)'
    BY <1>3 DEF Announced
  <2> QED
    BY <1>1, <1>3, <2>1 DEF Staged
<1>4. CASE Queued(f)
  <2>1. PICK i \in 1..Len(queue) : queue[i].fd = f
    BY <1>4 DEF Queued
  <2>2. PICK j \in 1..Len(queue') : queue'[j] = queue[i]
    BY <2>1
  <2>3. StageOf[f] = <<"task", queue[i].op>>
    BY <1>1, <2>1 DEF Staged
  <2>4. StageOf'[queue'[j].fd] = <<"task", queue'[j].op>>
    BY <1>1 DEF Staged
  <2> QED
    BY <2>1, <2>2, <2>3, <2>4
<1>5. CASE Held(f)
  <2>1. PICK t \in Thread : Holds(t, f)
    BY <1>5 DEF Held
  <2> QED
    BY <1>1, <2>1 DEF Staged
<1>6. CASE f \notin open
  BY <1>1, <1>6 DEF Staged
<1> QED
  BY <1>2, <1>3, <1>4, <1>5, <1>6 DEF StageInv, OwnInv, NoOrphan

LEMMA StageType == StageInv => StageOf \in [Fd -> Life!Stages]
<1> SUFFICES ASSUME StageInv, NEW f \in Fd PROVE StageOf[f] \in Life!Stages
  BY DEF StageOf
<1> USE DEF Life!Stages, Life!Nobody, Life!Epoll, Life!Event, Life!Task, Life!Thread
<1>1. Staged /\ TypeOK
  BY StageIs DEF StageInv
<1>2. CASE Armed(f)
  BY <1>1, <1>2 DEF Staged, Armed
<1>3. CASE Announced(f)
  <2>1. event[f] \in {"in", "out", "hup"}
    BY <1>1, <1>3 DEF Announced, TypeOK
  <2> QED
    BY <1>1, <1>3, <2>1 DEF Staged
<1>4. CASE Queued(f)
  <2>1. PICK i \in 1..Len(queue) : queue[i].fd = f
    BY <1>4 DEF Queued
  <2>2. queue[i].op \in {"read", "write"}
    <3>1. queue[i] \in Task
      BY <1>1, ElementOfSeq DEF TypeOK
    <3> QED
      BY <3>1 DEF Task
  <2> QED
    <3>1. StageOf[f] = <<"task", queue[i].op>>
      BY <1>1, <2>1, Zenon DEF Staged
    <3> QED
      BY <2>2, <3>1
<1>5. CASE Held(f)
  <2>1. PICK t \in Thread : Holds(t, f)
    BY <1>5 DEF Held
  <2>2. Place(pc[t]) \in {"read", "write", "process", "arm_in", "arm_out", "close"}
    BY <1>1, <2>1, HoldsPC DEF Place, Holding
  <2> QED
    <3>1. StageOf[f] = <<"thread", Place(pc[t])>>
      BY <1>1, <2>1, Zenon DEF Staged
    <3> QED
      BY <2>2, <3>1
<1>6. CASE f \notin open
  BY <1>1, <1>6 DEF Staged
<1> QED
  BY <1>2, <1>3, <1>4, <1>5, <1>6 DEF StageInv, OwnInv, NoOrphan

LEMMA StageTypeNext == StageInv' => StageOf' \in [Fd -> Life!Stages]
<1>1. (StageInv => StageOf \in [Fd -> Life!Stages])'
  BY StageType, PTL
<1> QED
  BY <1>1 DEF Life!Stages, Life!Nobody, Life!Epoll, Life!Event, Life!Task, Life!Thread

(* A step that takes one connection along one of the ways, and no other. *)
LEMMA StageMoves ==
    ASSUME StageInv', NEW g \in Fd,
           <<StageOf[g], StageOf'[g]>> \in Life!Dispatches \cup Life!Handling,
           \A f \in Fd \ {g} : StageOf'[f] = StageOf[f]
    PROVE  Life!Next
<1>1. Life!Handle(g)
  BY DEF Life!Handle, Life!Goes, Life!Stays
<1> QED
  BY <1>1, StageTypeNext DEF Life!Next

LEMMA StageStays ==
    ASSUME StageInv, StageInv', \A f \in Fd : StageOf'[f] = StageOf[f]
    PROVE  StageOf' = StageOf
<1>1. StageOf \in [Fd -> Life!Stages] /\ StageOf' \in [Fd -> Life!Stages]
  BY StageType, StageTypeNext
<1> QED
  BY <1>1

(* A thread that goes on with the connection in its hands. *)
LEMMA ThreadGoesOn ==
    ASSUME StageInv, StageInv', NEW t \in Thread, NEW p,
           pc[t] \in Holding, p \in Holding, pc' = [pc EXCEPT ![t] = p],
           UNCHANGED <<mainFd, job, queue, event, open>>,
           \A f \in Fd \ {Cur(t)} : epoll'[f] = epoll[f]
    PROVE  /\ Cur(t) \in Fd
           /\ StageOf[Cur(t)] = <<"thread", Place(pc[t])>>
           /\ StageOf'[Cur(t)] = <<"thread", Place(p)>>
           /\ \A f \in Fd \ {Cur(t)} : StageOf'[f] = StageOf[f]
<1>1. TypeOK /\ TypeOK' /\ Staged /\ Staged'
  BY StageIs, StageIsNext DEF StageInv
<1>2. Cur(t) \in Fd
  BY <1>1, CurType DEF TypeOK, Thread, Holding, MainPC, ClosePC
<1>3. \A u \in Thread, f \in Fd : Holds(u, f)' <=> Holds(u, f)
  BY <1>1, SameHands
<1>4. Holds(t, Cur(t))
  BY <1>1, <1>2, HoldsPC
<1>5. pc'[t] = p /\ \A u \in Thread : u # t => pc'[u] = pc[u]
  BY <1>1 DEF TypeOK
<1>6. StageOf[Cur(t)] = <<"thread", Place(pc[t])>>
  BY <1>1, <1>2, <1>4 DEF Staged
<1>7. StageOf'[Cur(t)] = <<"thread", Place(p)>>
  <2>1. Holds(t, Cur(t))'
    BY <1>2, <1>3, <1>4 DEF Cur
  <2>2. Cur(t)' = Cur(t)
    BY DEF Cur
  <2> QED
    BY <1>1, <1>2, <1>5, <2>1, <2>2 DEF Staged
<1>8. ASSUME NEW f \in Fd \ {Cur(t)} PROVE StageOf'[f] = StageOf[f]
  <2>1. \A u \in Thread : Holds(u, f) => Holds(u, f)' /\ Place(pc'[u]) = Place(pc[u])
    BY <1>3, <1>5, <1>8 DEF Holds
  <2> QED
    BY <1>8, <2>1, StageKept
<1> QED
  BY <1>2, <1>6, <1>7, <1>8

LEMMA ThreadMoves ==
    ASSUME StageInv, StageInv', NEW t \in Thread, NEW p,
           pc[t] \in Holding, p \in Holding, pc' = [pc EXCEPT ![t] = p],
           UNCHANGED <<mainFd, job, queue, event, open>>,
           \A f \in Fd \ {Cur(t)} : epoll'[f] = epoll[f],
           \/ Place(pc[t]) = Place(p)
           \/ <<Life!Thread(Place(pc[t])), Life!Thread(Place(p))>> \in Life!Handling
    PROVE  Life!Next \/ StageOf' = StageOf
<1>1. /\ Cur(t) \in Fd
      /\ StageOf[Cur(t)] = <<"thread", Place(pc[t])>>
      /\ StageOf'[Cur(t)] = <<"thread", Place(p)>>
      /\ \A f \in Fd \ {Cur(t)} : StageOf'[f] = StageOf[f]
  BY ThreadGoesOn
<1>2. CASE Place(pc[t]) = Place(p)
  <2>1. \A f \in Fd : StageOf'[f] = StageOf[f]
    BY <1>1, <1>2
  <2> QED
    BY <2>1, StageStays
<1>3. CASE <<Life!Thread(Place(pc[t])), Life!Thread(Place(p))>> \in Life!Handling
  <2>1. <<StageOf[Cur(t)], StageOf'[Cur(t)]>> \in Life!Dispatches \cup Life!Handling
    BY <1>1, <1>3 DEF Life!Thread
  <2> QED
    BY <1>1, <2>1, StageMoves
<1> QED
  BY <1>2, <1>3

(* A step that touches no connection. *)
LEMMA NoneMoves ==
    ASSUME StageInv, StageInv', NEW t \in Thread, NEW p,
           pc[t] \notin Holding, p \notin Holding, pc' = [pc EXCEPT ![t] = p] \/ pc' = pc,
           UNCHANGED <<mainFd, job, queue, epoll, event, open>>
    PROVE  StageOf' = StageOf
<1>1. TypeOK
  BY DEF StageInv
<1>2. ASSUME NEW f \in Fd PROVE StageOf'[f] = StageOf[f]
  <2>1. ASSUME NEW u \in Thread, Holds(u, f)
        PROVE  Holds(u, f)' /\ Place(pc'[u]) = Place(pc[u])
    <3>1. pc'[u] = pc[u]
      BY <1>1, <2>1, HoldsPC DEF TypeOK
    <3>2. Cur(u)' = Cur(u)
      BY DEF Cur
    <3> QED
      BY <2>1, <3>1, <3>2 DEF Holds
  <2> QED
    BY <2>1, StageKept
<1> QED
  BY <1>2, StageStays

LEMMA ClientLife == StageInv /\ StageInv' /\ Client => StageOf' = StageOf
<1> SUFFICES ASSUME StageInv, StageInv',
                    UNCHANGED <<pc, mainFd, queue, job, epoll, event, conn, open>>
             PROVE  StageOf' = StageOf
  BY DEF Client, Connect, Send, ShutdownWrite, Reset, Drain,
         poolVars, epollVars, connVars
<1>1. \A t \in Thread, f \in Fd : Holds(t, f) => Holds(t, f)' /\ Place(pc'[t]) = Place(pc[t])
  BY DEF Holds, Cur
<1>2. \A f \in Fd : StageOf'[f] = StageOf[f]
  BY <1>1, StageKept
<1> QED
  BY <1>2, StageStays

LEMMA CloseLife ==
    ASSUME StageInv, StageInv', NEW t \in Thread,
           DelFd(t) \/ TestClosed(t) \/ MarkClosed(t) \/ CloseFd(t)
    PROVE  Life!Next \/ StageOf' = StageOf
<1> DEFINE g == Cur(t)
<1>1. TypeOK /\ OwnInv /\ Staged /\ Staged'
  BY StageIs, StageIsNext DEF StageInv
<1>2. /\ g \in Fd /\ pc[t] \in ClosePC /\ pc[t] \in Holding /\ Holds(t, g)
      /\ t = Main \/ t \in Worker
  BY <1>1, CurType, HoldsPC
     DEF DelFd, TestClosed, MarkClosed, CloseFd, ClosePC, Holding, TypeOK, Thread
<1>3. CASE DelFd(t) \/ TestClosed(t) \/ MarkClosed(t)
  <2>1. PICK p \in ClosePC \ {"quit"} :
            /\ pc' = [pc EXCEPT ![t] = p]
            /\ UNCHANGED <<mainFd, job, queue, event, open>>
            /\ \A f \in Fd \ {g} : epoll'[f] = epoll[f]
    <3>1. CASE DelFd(t)
      BY <1>1, <1>2, <3>1 DEF DelFd, Goto, ClosePC, TypeOK, poolVars, connVars, kernelVars
    <3>2. CASE TestClosed(t)
      <4>1. g \in open
        BY <1>1, <1>2 DEF OwnInv, NoOrphan, Held
      <4>2. pc[t] = "chk"
        BY <3>2 DEF TestClosed
      <4>3. \A u \in Thread : pc[u] = "free" => Cur(u) # g
        <5>1. \A u \in Thread : pc[u] = "free" /\ Cur(u) = g => u = t
          BY <1>1, <1>2, HoldsPC DEF OwnInv, OneOwner, Holding, ClosePC
        <5> QED
          BY <4>2, <5>1
      <4>4. ~conn[g].is_closed
        BY <1>1, <1>2, <4>1, <4>3 DEF OwnInv, ClosedFlag
      <4> QED
        BY <3>2, <4>4 DEF TestClosed, Goto, ClosePC, poolVars, epollVars, connVars, kernelVars
    <3>3. CASE MarkClosed(t)
      BY <3>3 DEF MarkClosed, Goto, ClosePC, poolVars, epollVars, kernelVars
    <3> QED
      BY <1>3, <3>1, <3>2, <3>3
  <2>2. p \in Holding /\ Place(pc[t]) = Place(p)
    BY <1>2 DEF Holding, Place
  <2> QED
    BY <1>2, <2>1, <2>2, ThreadMoves
<1>4. CASE CloseFd(t)
  <2>1. /\ open' = open \ {g} /\ pc[t] = "free"
        /\ epoll' = [epoll EXCEPT ![g] = "none"]
        /\ UNCHANGED <<queue, event>>
    BY <1>4 DEF CloseFd, poolVars
  <2>2. \A u \in Thread : u # t => pc'[u] = pc[u] /\ Cur(u)' = Cur(u)
    BY <1>1, <1>2, <1>4 DEF CloseFd, poolVars, Goto, Cur, TypeOK, Thread
  <2>3. StageOf[g] = <<"thread", "close">>
    BY <1>1, <1>2 DEF Staged, Place
  <2>4. StageOf'[g] = <<"nobody", "closed">>
    BY <1>1, <1>2, <2>1 DEF Staged
  <2>5. ASSUME NEW f \in Fd \ {g} PROVE StageOf'[f] = StageOf[f]
    <3>1. epoll'[f] = epoll[f] /\ (f \in open' => f \in open)
      BY <1>1, <2>1 DEF TypeOK
    <3>2. ASSUME NEW u \in Thread, Holds(u, f)
          PROVE  Holds(u, f)' /\ Place(pc'[u]) = Place(pc[u])
      <4>1. u # t
        BY <2>5, <3>2 DEF Holds
      <4> QED
        BY <2>2, <3>2, <4>1 DEF Holds
    <3> QED
      BY <2>1, <3>1, <3>2, StageKept
  <2>6. <<StageOf[g], StageOf'[g]>> \in Life!Dispatches \cup Life!Handling
    BY <2>3, <2>4 DEF Life!Handling, Life!Thread, Life!Nobody
  <2> QED
    BY <1>2, <2>5, <2>6, StageMoves
<1> QED
  BY <1>3, <1>4

LEMMA QuitLife ==
    ASSUME StageInv, StageInv', NEW t \in Thread, Quit(t)
    PROVE  StageOf' = StageOf
<1>1. TypeOK
  BY DEF StageInv
<1>2. \A u \in Thread, f \in Fd : Holds(u, f) => Holds(u, f)' /\ Place(pc'[u]) = Place(pc[u])
  BY <1>1, QuitFacts DEF Holds
<1>3. \A f \in Fd : StageOf'[f] = StageOf[f]
  BY <1>1, <1>2, QuitFacts, StageKept
<1> QED
  BY <1>3, StageStays

LEMMA MainLife == StageInv /\ StageInv' /\ MainStep => Life!Next \/ StageOf' = StageOf
<1> SUFFICES ASSUME StageInv, StageInv', MainStep
             PROVE  Life!Next \/ StageOf' = StageOf
  OBVIOUS
<1> USE DEF Life!Nobody, Life!Epoll, Life!Event, Life!Task, Life!Thread
<1>0. TypeOK /\ OwnInv /\ Staged /\ Staged' /\ Main \in Thread
  BY StageIs, StageIsNext DEF StageInv, Thread
<1>1. CASE EpollWait
  <2>1. /\ pc[Main] = "wait" /\ pc' = [pc EXCEPT ![Main] = "events"]
        /\ event' = [f \in Fd |-> Reported(f)]
        /\ epoll' = [f \in Fd |-> IF Reported(f) # "none" THEN "off" ELSE epoll[f]]
        /\ UNCHANGED <<mainFd, job, queue, open>>
    BY <1>1 DEF EpollWait, Goto, poolVars, kernelVars
  <2>2. \A u \in Thread, f \in Fd :
            Holds(u, f) => Holds(u, f)' /\ Place(pc'[u]) = Place(pc[u])
    BY <1>0, <2>1 DEF Holds, Cur, TypeOK
  <2>3. ASSUME NEW f \in Fd PROVE Life!Goes(f, Life!Reports) \/ Life!Stays(f)
    <3>1. ~Announced(f)
      BY <1>0, <2>1 DEF OwnInv, EventsDone, Announced
    <3>2. CASE Reported(f) = "none"
      BY <2>1, <2>2, <3>1, <3>2, StageKept DEF Life!Stays
    <3>3. CASE Reported(f) # "none"
      <4>1. StageOf[f] = <<"epoll", epoll[f]>>
        BY <1>0, <3>3, ReportedArmed DEF Staged
      <4>2. StageOf'[f] = <<"event", Reported(f)>>
        BY <1>0, <2>1, <3>3 DEF Staged, Announced
      <4>3. /\ epoll[f] \in {"in", "out"}
            /\ Reported(f) = "hup" \/ Reported(f) = epoll[f]
        BY <3>3 DEF Reported, Armed
      <4> QED
        BY <4>1, <4>2, <4>3 DEF Life!Goes, Life!Reports
    <3> QED
      BY <3>2, <3>3
  <2> QED
    BY <2>3, StageTypeNext DEF Life!Next, Life!Wait
<1>2. CASE DealListen \/ EndOfEvents \/ AcceptFails \/ AcceptBusy
  <2>1. PICK p \in {"accept", "wait", "events"} :
            /\ pc' = [pc EXCEPT ![Main] = p]
            /\ pc[Main] \in {"events", "accept"}
            /\ UNCHANGED <<mainFd, job, queue, epoll, event, open>>
    BY <1>2 DEF DealListen, EndOfEvents, AcceptFails, AcceptBusy, Goto, InLoop,
                poolVars, epollVars, kernelVars
  <2> QED
    BY <1>0, <2>1, NoneMoves DEF Holding, ClosePC
<1>3. ASSUME NEW g \in Fd, DealHangup(g) PROVE Life!Next
  <2>1. /\ pc[Main] = "events" /\ pc' = [pc EXCEPT ![Main] = "del"] /\ mainFd' = g
        /\ event[g] = "hup" /\ event' = [event EXCEPT ![g] = "none"]
        /\ UNCHANGED <<job, queue, epoll, open>>
    BY <1>3 DEF DealHangup, Goto, Consume, InLoop, poolVars, kernelVars
  <2>2. /\ pc'[Main] = "del" /\ Cur(Main)' = g
        /\ \A u \in Thread : u # Main => pc'[u] = pc[u] /\ Cur(u)' = Cur(u)
        /\ \A f \in Fd : ~Holds(Main, f)
    BY <1>0, <2>1 DEF Cur, TypeOK, Holds
  <2>3. StageOf[g] = <<"event", "hup">>
    BY <1>0, <2>1 DEF Staged, Announced
  <2>4. StageOf'[g] = <<"thread", "close">>
    <3>1. Holds(Main, g)'
      BY <2>2 DEF Holds
    <3> QED
      BY <1>0, <2>2, <3>1 DEF Staged, Place, ClosePC
  <2>5. ASSUME NEW f \in Fd \ {g} PROVE StageOf'[f] = StageOf[f]
    <3>1. ASSUME NEW u \in Thread, Holds(u, f)
          PROVE  Holds(u, f)' /\ Place(pc'[u]) = Place(pc[u])
      BY <2>2, <3>1 DEF Holds
    <3>2. event'[f] = event[f]
      BY <1>0, <2>1 DEF TypeOK
    <3> QED
      BY <2>1, <3>1, <3>2, StageKept
  <2>6. <<StageOf[g], StageOf'[g]>> \in Life!Dispatches \cup Life!Handling
    BY <2>3, <2>4 DEF Life!Dispatches
  <2> QED
    BY <2>5, <2>6, StageMoves
<1>4. ASSUME NEW g \in Fd, DealRead(g) \/ DealWrite(g) PROVE Life!Next
  <2>1. PICK k \in Task :
            /\ k.fd = g /\ queue' = Append(queue, k)
            /\ event[g] # "none" /\ event' = [event EXCEPT ![g] = "none"]
            /\ <<<<"event", event[g]>>, <<"task", k.op>>>> \in Life!Dispatches
            /\ UNCHANGED <<pc, mainFd, job, epoll, open>>
    <3>1. CASE DealRead(g)
      <4>1. [op |-> "read", fd |-> g] \in Task
        BY DEF Task
      <4>2. <<<<"event", "in">>, <<"task", "read">>>> \in Life!Dispatches
        BY DEF Life!Dispatches
      <4> QED
        BY <3>1, <4>1, <4>2 DEF DealRead, Consume, InLoop, Pool!Submit, kernelVars
    <3>2. CASE DealWrite(g)
      <4>1. [op |-> "write", fd |-> g] \in Task
        BY DEF Task
      <4>2. <<<<"event", "out">>, <<"task", "write">>>> \in Life!Dispatches
        BY DEF Life!Dispatches
      <4> QED
        BY <3>2, <4>1, <4>2 DEF DealWrite, Consume, InLoop, Pool!Submit, kernelVars
    <3> QED
      BY <1>4, <3>1, <3>2
  <2>2. /\ Len(queue) \in Nat /\ Len(queue') = Len(queue) + 1
        /\ \A i \in 1..Len(queue) : queue'[i] = queue[i]
        /\ queue'[Len(queue) + 1] = k
    BY <1>0, <2>1, AppendProperties, LenProperties DEF TypeOK
  <2>3. StageOf[g] = <<"event", event[g]>>
    BY <1>0, <2>1 DEF Staged, Announced
  <2>4. StageOf'[g] = <<"task", k.op>>
    <3>1. Len(queue) + 1 \in 1..Len(queue')
      BY <2>2
    <3>2. StageOf'[queue'[Len(queue) + 1].fd] = <<"task", queue'[Len(queue) + 1].op>>
      BY <1>0, <3>1 DEF Staged
    <3> QED
      BY <2>1, <2>2, <3>2
  <2>5. ASSUME NEW f \in Fd \ {g} PROVE StageOf'[f] = StageOf[f]
    <3>1. ASSUME NEW u \in Thread, Holds(u, f)
          PROVE  Holds(u, f)' /\ Place(pc'[u]) = Place(pc[u])
      BY <2>1, <3>1 DEF Holds, Cur
    <3>2. event'[f] = event[f]
      BY <1>0, <2>1 DEF TypeOK
    <3>3. \A i \in 1..Len(queue) : i \in 1..Len(queue') /\ queue'[i] = queue[i]
      BY <2>2
    <3> QED
      BY <2>1, <3>1, <3>2, <3>3, StageKept
  <2>6. <<StageOf[g], StageOf'[g]>> \in Life!Dispatches \cup Life!Handling
    BY <2>1, <2>3, <2>4
  <2> QED
    BY <2>5, <2>6, StageMoves
<1>5. ASSUME NEW g \in Fd, AcceptClient(g) PROVE Life!Next
  <2>1. /\ g \notin open /\ open' = open \cup {g} /\ pc[Main] = "accept"
        /\ epoll' = [epoll EXCEPT ![g] = "in"]
        /\ UNCHANGED <<mainFd, job, queue, event>>
    BY <1>5 DEF AcceptClient, poolVars
  <2>2. PICK p \in {"accept", "events"} : pc' = [pc EXCEPT ![Main] = p]
    BY <1>5 DEF AcceptClient, Goto
  <2>3. epoll'[g] = "in"
    BY <1>0, <2>1 DEF TypeOK
  <2>4. StageOf[g] = <<"nobody", "closed">> /\ StageOf'[g] = <<"epoll", "in">>
    BY <1>0, <2>1, <2>3 DEF Staged, Armed
  <2>5. ASSUME NEW f \in Fd \ {g} PROVE StageOf'[f] = StageOf[f]
    <3>1. ASSUME NEW u \in Thread, Holds(u, f)
          PROVE  Holds(u, f)' /\ Place(pc'[u]) = Place(pc[u])
      <4>1. u # Main
        BY <2>1, <3>1 DEF Holds
      <4> QED
        BY <1>0, <2>1, <2>2, <3>1, <4>1 DEF Holds, Cur, TypeOK
    <3>2. epoll'[f] = epoll[f] /\ (f \in open' => f \in open)
      BY <1>0, <2>1 DEF TypeOK
    <3> QED
      BY <2>1, <3>1, <3>2, StageKept
  <2>6. <<StageOf[g], StageOf'[g]>> \in Life!Dispatches \cup Life!Handling
    BY <2>4 DEF Life!Dispatches
  <2> QED
    BY <2>5, <2>6, StageMoves
<1>6. CASE CloseStep(Main)
  BY <1>0, <1>6, CloseLife, QuitLife DEF CloseStep
<1> QED
  BY <1>1, <1>2, <1>3, <1>4, <1>5, <1>6 DEF MainStep

LEMMA WorkerLife ==
    ASSUME StageInv, StageInv', NEW w \in Worker, TakeTask(w) \/ WorkerStep(w)
    PROVE  Life!Next \/ StageOf' = StageOf
<1> USE DEF Life!Nobody, Life!Epoll, Life!Event, Life!Task, Life!Thread
<1>0. /\ TypeOK /\ OwnInv /\ Staged /\ Staged'
      /\ w \in Thread /\ w # Main /\ Cur(w) = job[w].fd
  BY StageIs, StageIsNext, ServerAssumption DEF StageInv, Thread, Cur
<1>1. CASE TakeTask(w)
  <2>1. PICK k \in Task :
            /\ queue # <<>> /\ k = Head(queue) /\ queue' = Tail(queue)
            /\ job[w] = NoTask /\ job' = [job EXCEPT ![w] = k]
            /\ pc' = [pc EXCEPT ![w] = k.op]
            /\ UNCHANGED <<mainFd, epoll, event, open>>
    BY <1>0, <1>1, HeadTailProperties
       DEF TakeTask, Goto, Pool!Start, TypeOK, epollVars, kernelVars
  <2> DEFINE g == k.fd
  <2>2. g \in Fd /\ k.op \in {"read", "write"}
    BY DEF Task
  <2>3. /\ pc'[w] = k.op /\ Cur(w)' = g
        /\ \A u \in Thread : u # w => pc'[u] = pc[u] /\ Cur(u)' = Cur(u)
    BY <1>0, <2>1 DEF Cur, TypeOK, Thread
  <2>4. \A f \in Fd : ~Holds(w, f)
    BY <1>0, <2>1 DEF TypeOK, Holds
  <2>5. /\ Len(queue) \in Nat /\ Len(queue) > 0 /\ Len(queue') = Len(queue) - 1
        /\ queue[1] = k
        /\ \A i \in 1..Len(queue') : queue'[i] = queue[i + 1]
    BY <1>0, <2>1, HeadTailProperties, LenProperties, EmptySeq DEF TypeOK
  <2>6. StageOf[g] = <<"task", k.op>>
    <3>1. 1 \in 1..Len(queue)
      BY <2>5
    <3>2. StageOf[queue[1].fd] = <<"task", queue[1].op>>
      BY <1>0, <3>1 DEF Staged
    <3> QED
      BY <2>5, <3>2
  <2>7. StageOf'[g] = <<"thread", k.op>>
    <3>1. Holds(w, g)'
      BY <2>2, <2>3 DEF Holds
    <3>2. Place(k.op) = k.op
      BY <2>2 DEF Place, ClosePC
    <3> QED
      BY <1>0, <2>2, <2>3, <3>1, <3>2 DEF Staged
  <2>8. ASSUME NEW f \in Fd \ {g} PROVE StageOf'[f] = StageOf[f]
    <3>1. ASSUME NEW u \in Thread, Holds(u, f)
          PROVE  Holds(u, f)' /\ Place(pc'[u]) = Place(pc[u])
      BY <2>3, <2>4, <3>1 DEF Holds
    <3>2. ASSUME NEW i \in 1..Len(queue), queue[i].fd = f
          PROVE  \E j \in 1..Len(queue') : queue'[j] = queue[i]
      <4>1. i # 1
        BY <2>5, <2>8, <3>2
      <4>2. i - 1 \in 1..Len(queue') /\ (i - 1) + 1 = i
        BY <2>5, <4>1
      <4>3. queue'[i - 1] = queue[(i - 1) + 1]
        BY <2>5, <4>2
      <4> QED
        BY <4>2, <4>3
    <3> QED
      BY <2>1, <3>1, <3>2, StageKept
  <2>9. <<StageOf[g], StageOf'[g]>> \in Life!Dispatches \cup Life!Handling
    BY <2>2, <2>6, <2>7 DEF Life!Handling
  <2> QED
    BY <2>2, <2>8, <2>9, StageMoves
<1>2. CASE Rearm(w)
  <2> DEFINE g == Cur(w)
  <2>1. /\ pc[w] \in {"arm_in", "arm_out"} /\ pc' = [pc EXCEPT ![w] = "idle"]
        /\ job' = [job EXCEPT ![w] = NoTask] /\ queue' = queue
        /\ epoll' = [epoll EXCEPT ![g] = IF @ = "none" THEN "none"
                                        ELSE IF pc[w] = "arm_in" THEN "in" ELSE "out"]
        /\ UNCHANGED <<mainFd, event, open>>
    BY <1>2 DEF Rearm, Goto, Pool!Finish, kernelVars
  <2>2. g \in Fd /\ Holds(w, g)
    BY <1>0, <2>1, CurType DEF Holds
  <2>3. /\ g \in open
        /\ \A u \in Thread : Holds(u, g) => u = w
    BY <1>0, <2>2 DEF OwnInv, OneOwner, NoOrphan, Held
  <2>4. epoll[g] # "none"
    <3>1. \A u \in Thread : pc[u] \in {"chk", "mark", "free"} /\ Cur(u) = g => u = w
      BY <2>3 DEF Holds
    <3> QED
      BY <1>0, <2>1, <2>3, <3>1 DEF OwnInv, Registered
  <2>5. /\ epoll'[g] = (IF pc[w] = "arm_in" THEN "in" ELSE "out")
        /\ \A f \in Fd : f # g => epoll'[f] = epoll[f]
    BY <1>0, <2>1, <2>2, <2>4 DEF TypeOK
  <2>6. \A u \in Thread : u # w => pc'[u] = pc[u] /\ Cur(u)' = Cur(u)
    BY <1>0, <2>1 DEF Cur, TypeOK, Thread
  <2>7. StageOf[g] = <<"thread", pc[w]>>
    <3>1. Place(pc[w]) = pc[w]
      BY <2>1 DEF Place, ClosePC
    <3> QED
      BY <1>0, <2>2, <3>1 DEF Staged
  <2>8. StageOf'[g] = <<"epoll", IF pc[w] = "arm_in" THEN "in" ELSE "out">>
    BY <1>0, <2>2, <2>5 DEF Staged, Armed
  <2>9. ASSUME NEW f \in Fd \ {g} PROVE StageOf'[f] = StageOf[f]
    <3>1. ASSUME NEW u \in Thread, Holds(u, f)
          PROVE  Holds(u, f)' /\ Place(pc'[u]) = Place(pc[u])
      <4>1. u # w
        BY <2>9, <3>1 DEF Holds
      <4> QED
        BY <2>6, <3>1, <4>1 DEF Holds
    <3> QED
      BY <2>1, <2>5, <3>1, StageKept
  <2>10. <<StageOf[g], StageOf'[g]>> \in Life!Dispatches \cup Life!Handling
    BY <2>1, <2>7, <2>8 DEF Life!Handling
  <2> QED
    BY <2>2, <2>9, <2>10, StageMoves
<1>3. CASE ReadData(w) \/ ReadNothing(w) \/ ProcessNothing(w) \/ ProcessRequest(w)
           \/ WriteSome(w) \/ WriteNothing(w) \/ WriteAgain(w) \/ WriteError(w)
  <2>1. PICK p \in {"read", "process", "del", "arm_in", "arm_out", "write"} :
            /\ pc' = [pc EXCEPT ![w] = p]
            /\ \/ pc[w] = "read" /\ p \in {"read", "process", "del"}
               \/ pc[w] = "process" /\ p \in {"arm_in", "arm_out"}
               \/ pc[w] = "write" /\ p \in {"write", "process", "arm_out", "del"}
            /\ UNCHANGED <<mainFd, job, queue, epoll, event, open>>
    BY <1>3 DEF ReadData, ReadNothing, ProcessNothing, ProcessRequest, WriteSome,
                WriteNothing, WriteAgain, WriteError, AfterWrite, Goto,
                workerFrame, poolVars, epollVars
  <2>2. pc[w] \in Holding /\ p \in Holding
    BY <2>1 DEF Holding, ClosePC
  <2>3. \/ Place(pc[w]) = Place(p)
        \/ <<Life!Thread(Place(pc[w])), Life!Thread(Place(p))>> \in Life!Handling
    <3>1. /\ Place("read") = "read" /\ Place("process") = "process" /\ Place("write") = "write"
          /\ Place("arm_in") = "arm_in" /\ Place("arm_out") = "arm_out" /\ Place("del") = "close"
      BY DEF Place, ClosePC
    <3>2. CASE pc[w] = "read"
      BY <2>1, <3>1, <3>2 DEF Life!Handling
    <3>3. CASE pc[w] = "process"
      BY <2>1, <3>1, <3>3 DEF Life!Handling
    <3>4. CASE pc[w] = "write"
      BY <2>1, <3>1, <3>4 DEF Life!Handling
    <3> QED
      BY <2>1, <3>2, <3>3, <3>4
  <2> QED
    BY <1>0, <2>1, <2>2, <2>3, ThreadMoves
<1>4. CASE WriteSigpipe(w)
  <2>1. UNCHANGED <<pc, mainFd, queue, job, epoll, event, open>>
    BY <1>4 DEF WriteSigpipe, poolVars, epollVars, kernelVars
  <2> QED
    BY <2>1 DEF StageOf, Armed, Announced, Queued, Held, Holds, Cur
<1>5. CASE CloseStep(w)
  BY <1>0, <1>5, CloseLife, QuitLife DEF CloseStep
<1> QED
  BY <1>1, <1>2, <1>3, <1>4, <1>5 DEF WorkerStep

(* Every connection lives as ConnLife says, for any number of workers and  *)
(* descriptors and every trigger mode: the steps of the loop, the pool,    *)
(* the handlers and the clients, in any order, take one connection one way *)
(* further, or as many as one epoll_wait reports, or none                  *)
(* (server.cc 78-106, 128-292).                                            *)
THEOREM ServerImplementsLife == Spec => ImplementsLife
<1>1. Init => Life!Init
  <2> SUFFICES ASSUME Init PROVE StageOf = [f \in Fd |-> <<"nobody", "closed">>]
    BY DEF Life!Init, Life!Nobody
  <2>1. /\ \A f \in Fd : epoll[f] = "none" /\ event[f] = "none"
        /\ \A t \in Thread : pc[t] \in {"wait", "idle"}
        /\ queue = <<>>
    BY DEF Init, Pool!Init
  <2>2. \A f \in Fd : ~Armed(f) /\ ~Announced(f) /\ ~Queued(f) /\ ~Held(f)
    BY <2>1 DEF Armed, Announced, Queued, Held, Holds
  <2> QED
    BY <2>2 DEF StageOf
<1>2. StageInv /\ StageInv' /\ [Next]_vars => [Life!Next]_StageOf
  <2>1. UNCHANGED vars => StageOf' = StageOf
    BY DEF StageOf, Armed, Announced, Queued, Held, Holds, Cur,
           vars, poolVars, epollVars, connVars, kernelVars
  <2> QED
    BY <2>1, NextCases, ClientLife, MainLife, WorkerLife
<1> QED
  BY OwnCorrect, <1>1, <1>2, PTL DEF Spec, StageInv, ImplementsLife, Life!Spec

=============================================================================

------------------------------- MODULE Server -------------------------------
(***************************************************************************)
(* src/src/server/server.cc with the parts of epoller.cc and http_conn.cc  *)
(* it drives: the event loop of the main thread, the tasks it hands to the *)
(* thread pool, and the one-shot epoll registration that passes a          *)
(* connection back and forth between them.                                 *)
(*                                                                         *)
(* The life of one connection:                                             *)
(*   accept -> armed "in" -> event -> read task -> process -> armed "out"  *)
(*          -> event -> write task -> (again) | process (keep-alive) |     *)
(*             close -> the descriptor may be accepted again               *)
(* Any armed connection may instead report a hang-up, which the main       *)
(* thread answers by closing it.                                           *)
(*                                                                         *)
(* The server runs with _timeout_ms <= 0, so no timer is involved; the     *)
(* pool is used through TaskService; requests and responses are counts.    *)
(***************************************************************************)
EXTENDS Integers, Sequences, FiniteSets

CONSTANTS Worker,       (* the threads of _thread_pool                      *)
          Main,         (* the thread that runs start()                     *)
          Fd,           (* descriptors the kernel can give to accept        *)
          NoTask,       (* "no task"                                        *)
          NoFd,         (* "no descriptor"                                  *)
          TriggerMode,  (* the constructor's trigger_mode                   *)
          MaxFd,        (* Server::MAX_FD                                   *)
          MaxOut,       (* bound: size of a response, in chunks             *)
          LTRest,       (* the 10240 of HttpConn::write, in chunks          *)
          MaxLines,     (* bound: unparsed lines in a read buffer           *)
          MaxBacklog,   (* the 5 of listen()                                *)
          MaxConnects,  (* bound: clients that ever connect                 *)
          MaxSends      (* bound: times clients send data                   *)

ASSUME ServerAssumption ==
    /\ Worker # {} /\ IsFiniteSet(Worker) /\ Main \notin Worker
    /\ IsFiniteSet(Fd) /\ NoFd \notin Fd
    /\ TriggerMode \in Int
    /\ MaxFd \in Nat \ {0}
    /\ MaxOut \in Nat \ {0} /\ LTRest \in Nat
    /\ MaxLines \in Nat \ {0}
    /\ MaxBacklog \in Nat /\ MaxConnects \in Nat /\ MaxSends \in Nat

Thread == Worker \cup {Main}
Task == [op : {"read", "write"}, fd : Fd]

ASSUME NoTaskIsNoTask == NoTask \notin Task

(* _initEventMode: every mode but 0 and 1 makes the listening socket       *)
(* edge-triggered, every mode but 0 and 2 the connections.                 *)
ListenET == TriggerMode \notin {0, 1}
ConnET == TriggerMode \notin {0, 2}

VARIABLES
    up,          (* the process is running                                  *)
    pc,          (* where each thread is                                    *)
    mainFd,      (* the connection the main thread is closing               *)
    queue, job,  (* the thread pool: accepted tasks, task of each worker    *)
    epoll,       (* the registration of each descriptor: "none", "off"      *)
                 (* (fired once, not re-armed), armed "in" or armed "out"   *)
    event,       (* what the current epoll_wait result says of each         *)
                 (* descriptor and the loop has not yet looked at           *)
    listenEvent, (* the same for _listen_fd                                 *)
    listenEdge,  (* a connection has arrived since the last such event      *)
    conn,        (* _users[fd]: is_closed, lines in _read_buf, bytes in     *)
                 (* _iov, and the verdict of isKeepAlive                    *)
    user_count,  (* HttpConn::user_count                                    *)
    open,        (* kernel: descriptors in use                              *)
    backlog,     (* kernel: connections waiting to be accepted              *)
    inData,      (* kernel: sockets with received data                      *)
    outFull,     (* kernel: sockets with no room to send                    *)
    peer,        (* the other end: "up", "fin" (it will send no more),      *)
                 (* "rst" (reset), "pipe" (reset after fin)                 *)
    failed,      (* history: a system call on the connection failed         *)
    connects, sends

poolVars == <<queue, job>>
epollVars == <<epoll, event, listenEvent, listenEdge>>
connVars == <<conn, user_count>>
kernelVars == <<open, backlog, inData, outFull, peer>>
boundVars == <<connects, sends>>
vars == <<up, pc, mainFd, poolVars, epollVars, connVars, kernelVars, failed, boundVars>>

Pool == INSTANCE TaskService

Init ==
    /\ up = TRUE
    /\ pc = [t \in Thread |-> IF t = Main THEN "wait" ELSE "idle"]
    /\ mainFd = NoFd
    /\ Pool!Init
    /\ epoll = [f \in Fd |-> "none"]
    /\ event = [f \in Fd |-> "none"]
    /\ listenEvent = FALSE
    /\ listenEdge = FALSE
    /\ conn = [f \in Fd |-> [is_closed |-> TRUE, lines |-> 0, out |-> 0, keep |-> FALSE]]
    /\ user_count = 0
    /\ open = {}
    /\ backlog = 0
    /\ inData = {}
    /\ outFull = {}
    /\ peer = [f \in Fd |-> "up"]
    /\ failed = {}
    /\ connects = 0
    /\ sends = 0

Goto(t, p) == pc' = [pc EXCEPT ![t] = p]

(* The connection thread t is working on. *)
Cur(t) == IF t = Main THEN mainFd ELSE job[t].fd

-----------------------------------------------------------------------------
(* The clients and the network, as the kernel shows them to the server. *)

Connect == /\ connects < MaxConnects
           /\ backlog < MaxBacklog
           /\ connects' = connects + 1
           /\ backlog' = backlog + 1
           /\ listenEdge' = TRUE
           /\ UNCHANGED <<up, pc, mainFd, poolVars, epoll, event, listenEvent,
                          connVars, open, inData, outFull, peer, failed, sends>>

Send(f) == /\ f \in open
           /\ peer[f] = "up"
           /\ sends < MaxSends
           /\ sends' = sends + 1
           /\ inData' = inData \cup {f}
           /\ UNCHANGED <<up, pc, mainFd, poolVars, epollVars, connVars, open,
                          backlog, outFull, peer, failed, connects>>

ShutdownWrite(f) == /\ f \in open
                    /\ peer[f] = "up"
                    /\ peer' = [peer EXCEPT ![f] = "fin"]
                    /\ UNCHANGED <<up, pc, mainFd, poolVars, epollVars, connVars, open,
                                   backlog, inData, outFull, failed, boundVars>>

Reset(f) == /\ f \in open
            /\ peer[f] \in {"up", "fin"}
            /\ peer' = [peer EXCEPT ![f] = IF @ = "up" THEN "rst" ELSE "pipe"]
            /\ inData' = inData \ {f}
            /\ UNCHANGED <<up, pc, mainFd, poolVars, epollVars, connVars, open,
                           backlog, outFull, failed, boundVars>>

(* The client reads, which makes room in the socket's send buffer. *)
Drain(f) == /\ f \in outFull
            /\ outFull' = outFull \ {f}
            /\ UNCHANGED <<up, pc, mainFd, poolVars, epollVars, connVars, open,
                           backlog, inData, peer, failed, boundVars>>

-----------------------------------------------------------------------------
(* Epoller: epoll_ctl and epoll_wait. *)

Armed(f) == epoll[f] \in {"in", "out"}

(* What epoll_wait would report of f now, by the order in which start()   *)
(* tests the bits: hang-up and error first, then IN, then OUT.             *)
Reported(f) ==
    CASE Armed(f) /\ peer[f] # "up"               -> "hup"
      [] epoll[f] = "in" /\ peer[f] = "up" /\ f \in inData   -> "in"
      [] epoll[f] = "out" /\ peer[f] = "up" /\ f \notin outFull -> "out"
      [] OTHER                                    -> "none"

(* Mutant of ListenReported: _listen_fd edge-triggered in every mode. *)
ListenReportedByEdge == listenEdge

ListenReported == IF ListenET THEN listenEdge ELSE backlog > 0

(* Mutant of EpollWait: connections registered without EPOLLONESHOT. *)
EpollWaitNoOneShot ==
    /\ pc[Main] = "wait"
    /\ ListenReported \/ \E f \in Fd : Reported(f) # "none"
    /\ event' = [f \in Fd |-> Reported(f)]
    /\ listenEvent' = ListenReported
    /\ listenEdge' = FALSE
    /\ Goto(Main, "events")
    /\ UNCHANGED <<up, mainFd, poolVars, epoll, connVars, kernelVars, failed, boundVars>>

(* _epoller->wait(-1).  EPOLLONESHOT: what is reported is disarmed. *)
EpollWait ==
    /\ pc[Main] = "wait"
    /\ ListenReported \/ \E f \in Fd : Reported(f) # "none"
    /\ event' = [f \in Fd |-> Reported(f)]
    /\ epoll' = [f \in Fd |-> IF Reported(f) # "none" THEN "off" ELSE epoll[f]]
    /\ listenEvent' = ListenReported
    /\ listenEdge' = FALSE
    /\ Goto(Main, "events")
    /\ UNCHANGED <<up, mainFd, poolVars, connVars, kernelVars, failed, boundVars>>

-----------------------------------------------------------------------------
(* The main thread: the for loop of start() over the reported events. *)

InLoop == pc[Main] = "events"

Consume(f) == event' = [event EXCEPT ![f] = "none"]

(* EPOLLRDHUP | EPOLLHUP | EPOLLERR: _closeConn in the main thread. *)
DealHangup(f) ==
    /\ InLoop
    /\ event[f] = "hup"
    /\ Consume(f)
    /\ mainFd' = f
    /\ Goto(Main, "del")
    /\ UNCHANGED <<up, poolVars, epoll, listenEvent, listenEdge, connVars,
                   kernelVars, failed, boundVars>>

(* EPOLLIN: _dealRead. *)
DealRead(f) ==
    /\ InLoop
    /\ event[f] = "in"
    /\ Consume(f)
    /\ Pool!Submit([op |-> "read", fd |-> f])
    /\ UNCHANGED <<up, pc, mainFd, epoll, listenEvent, listenEdge, connVars,
                   kernelVars, failed, boundVars>>

(* EPOLLOUT: _dealWrite. *)
DealWrite(f) ==
    /\ InLoop
    /\ event[f] = "out"
    /\ Consume(f)
    /\ Pool!Submit([op |-> "write", fd |-> f])
    /\ UNCHANGED <<up, pc, mainFd, epoll, listenEvent, listenEdge, connVars,
                   kernelVars, failed, boundVars>>

(* fd == _listen_fd: _dealListen. *)
DealListen ==
    /\ InLoop
    /\ listenEvent
    /\ listenEvent' = FALSE
    /\ Goto(Main, "accept")
    /\ UNCHANGED <<up, mainFd, poolVars, epoll, event, listenEdge, connVars,
                   kernelVars, failed, boundVars>>

EndOfEvents ==
    /\ InLoop
    /\ ~listenEvent
    /\ \A f \in Fd : event[f] = "none"
    /\ Goto(Main, "wait")
    /\ UNCHANGED <<up, mainFd, poolVars, epollVars, connVars, kernelVars,
                   failed, boundVars>>

-----------------------------------------------------------------------------
(* _dealListen: one iteration of its do-while per action. *)

(* accept < 0: nobody is waiting, or the process is out of descriptors. *)
AcceptFails ==
    /\ pc[Main] = "accept"
    /\ backlog = 0 \/ open = Fd
    /\ Goto(Main, "events")
    /\ UNCHANGED <<up, mainFd, poolVars, epollVars, connVars, kernelVars,
                   failed, boundVars>>

(* Too many clients: the new one is told so and closed, and _dealListen    *)
(* returns, whatever else is waiting.                                      *)
AcceptBusy ==
    /\ pc[Main] = "accept"
    /\ backlog > 0 /\ open # Fd
    /\ user_count >= MaxFd
    /\ backlog' = backlog - 1
    /\ Goto(Main, "events")
    /\ UNCHANGED <<up, mainFd, poolVars, epollVars, connVars, open, inData,
                   outFull, peer, failed, boundVars>>

(* _addClient: HttpConn::init, then addFd(fd, EPOLLIN | _conn_event).      *)
(* init leaves _iov and _request as the descriptor's last user left them.  *)
AcceptClient(f) ==
    /\ pc[Main] = "accept"
    /\ backlog > 0 /\ f \notin open
    /\ user_count < MaxFd
    /\ backlog' = backlog - 1
    /\ open' = open \cup {f}
    /\ peer' = [peer EXCEPT ![f] = "up"]
    /\ failed' = failed \ {f}
    /\ user_count' = user_count + 1
    /\ conn' = [conn EXCEPT ![f] = [@ EXCEPT !.is_closed = FALSE, !.lines = 0]]
    /\ epoll' = [epoll EXCEPT ![f] = "in"]
    /\ Goto(Main, IF ListenET THEN "accept" ELSE "events")
    /\ UNCHANGED <<up, mainFd, poolVars, event, listenEvent, listenEdge,
                   inData, outFull, boundVars>>

-----------------------------------------------------------------------------
(* _closeConn, by the main thread or by a worker. *)

DelFd(t) ==
    /\ pc[t] = "del"
    /\ epoll' = [epoll EXCEPT ![Cur(t)] = "none"]
    /\ Goto(t, "chk")
    /\ UNCHANGED <<up, mainFd, poolVars, event, listenEvent, listenEdge,
                   connVars, kernelVars, failed, boundVars>>

(* After the call: the main thread goes on with the next event, a worker   *)
(* has ended its task.                                                     *)
Return(t) == IF t = Main
             THEN /\ Goto(Main, "events")
                  /\ mainFd' = NoFd
                  /\ UNCHANGED poolVars
             ELSE /\ Goto(t, "idle")
                  /\ Pool!Finish(t)
                  /\ UNCHANGED mainFd

(* close_conn: if (_is_closed == false) ... *)
TestClosed(t) ==
    /\ pc[t] = "chk"
    /\ IF conn[Cur(t)].is_closed
       THEN Return(t)
       ELSE Goto(t, "mark") /\ UNCHANGED <<mainFd, poolVars>>
    /\ UNCHANGED <<up, epollVars, connVars, kernelVars, failed, boundVars>>

(* Mutant of MarkClosed: the count is not taken back. *)
MarkClosedKeepsCount(t) ==
    /\ pc[t] = "mark"
    /\ conn' = [conn EXCEPT ![Cur(t)] = [@ EXCEPT !.is_closed = TRUE]]
    /\ Goto(t, "free")
    /\ UNCHANGED <<up, mainFd, poolVars, epollVars, user_count, kernelVars,
                   failed, boundVars>>

(* ... _is_closed = true; user_count--; ... *)
MarkClosed(t) ==
    /\ pc[t] = "mark"
    /\ conn' = [conn EXCEPT ![Cur(t)] = [@ EXCEPT !.is_closed = TRUE]]
    /\ user_count' = user_count - 1
    /\ Goto(t, "free")
    /\ UNCHANGED <<up, mainFd, poolVars, epollVars, kernelVars, failed, boundVars>>

(* ... close(_fd): the kernel may give the descriptor out again, and       *)
(* AcceptClient may run init on the same object before Quit.               *)
CloseFd(t) ==
    /\ pc[t] = "free"
    /\ open' = open \ {Cur(t)}
    /\ inData' = inData \ {Cur(t)}
    /\ outFull' = outFull \ {Cur(t)}
    /\ epoll' = [epoll EXCEPT ![Cur(t)] = "none"]
    /\ Goto(t, "quit")
    /\ UNCHANGED <<up, mainFd, poolVars, event, listenEvent, listenEdge, connVars,
                   backlog, peer, failed, boundVars>>

(* LOG_INFO(..., _fd, getIP(), getPort(), user_count): the closed          *)
(* connection's object is still read, whoever has the descriptor by now.   *)
Quit(t) ==
    /\ pc[t] = "quit"
    /\ Return(t)
    /\ UNCHANGED <<up, epollVars, connVars, kernelVars, failed, boundVars>>

CloseStep(t) == DelFd(t) \/ TestClosed(t) \/ MarkClosed(t) \/ CloseFd(t) \/ Quit(t)

-----------------------------------------------------------------------------
(* The workers: _onRead and _onWrite. *)

TakeTask(w) ==
    /\ Pool!Start(w)
    /\ Goto(w, Head(queue).op)
    /\ UNCHANGED <<up, mainFd, epollVars, connVars, kernelVars, failed, boundVars>>

workerFrame == <<up, mainFd, poolVars, epollVars, user_count, open, backlog,
                 peer, boundVars>>

(* HttpConn::read: edge-triggered connections are read until readv has     *)
(* nothing more to give, level-triggered ones once.                        *)
ReadData(w) ==
    /\ pc[w] = "read"
    /\ Cur(w) \in inData
    /\ inData' = inData \ {Cur(w)}
    /\ \E n \in 1..MaxLines :
           /\ n >= conn[Cur(w)].lines
           /\ conn' = [conn EXCEPT ![Cur(w)] = [@ EXCEPT !.lines = n]]
    /\ Goto(w, IF ConnET THEN "read" ELSE "process")
    /\ UNCHANGED <<workerFrame, outFull, failed>>

(* readv has no data: EAGAIN, the end of the stream, or an error. *)
ReadNothing(w) ==
    /\ pc[w] = "read"
    /\ Cur(w) \notin inData
    /\ Goto(w, IF peer[Cur(w)] = "up" THEN "process" ELSE "del")
    /\ failed' = IF peer[Cur(w)] \in {"rst", "pipe"} THEN failed \cup {Cur(w)} ELSE failed
    /\ UNCHANGED <<workerFrame, conn, inData, outFull>>

(* Mutant of ProcessNothing: no modFd when there is nothing to answer. *)
ProcessNothingNoRearm(w) ==
    /\ pc[w] = "process"
    /\ conn[Cur(w)].lines = 0
    /\ Goto(w, "idle")
    /\ Pool!Finish(w)
    /\ UNCHANGED <<up, mainFd, epollVars, connVars, kernelVars, failed, boundVars>>

(* _onProcess and HttpConn::process with nothing buffered: _request is     *)
(* initialised, and that is all.                                           *)
ProcessNothing(w) ==
    /\ pc[w] = "process"
    /\ conn[Cur(w)].lines = 0
    /\ conn' = [conn EXCEPT ![Cur(w)] = [@ EXCEPT !.keep = FALSE]]
    /\ Goto(w, "arm_in")
    /\ UNCHANGED <<workerFrame, inData, outFull, failed>>

(* _onProcess and HttpConn::process: a response of some size, and whether  *)
(* the connection is kept.  Only a request whose request line has been     *)
(* parsed, and so taken out of the buffer, can ask for keep-alive.         *)
ProcessRequest(w) ==
    /\ pc[w] = "process"
    /\ conn[Cur(w)].lines > 0
    /\ \E size \in 1..MaxOut, rest \in 0..MaxLines, keep \in BOOLEAN :
           /\ IF keep THEN rest < conn[Cur(w)].lines ELSE rest <= conn[Cur(w)].lines
           /\ conn' = [conn EXCEPT ![Cur(w)] =
                          [@ EXCEPT !.out = size, !.lines = rest, !.keep = keep]]
    /\ Goto(w, "arm_out")
    /\ UNCHANGED <<workerFrame, inData, outFull, failed>>

(* Mutant of Rearm: always EPOLLIN. *)
RearmForInput(w) ==
    /\ pc[w] \in {"arm_in", "arm_out"}
    /\ epoll' = [epoll EXCEPT ![Cur(w)] = IF @ = "none" THEN "none" ELSE "in"]
    /\ Goto(w, "idle")
    /\ Pool!Finish(w)
    /\ UNCHANGED <<up, mainFd, event, listenEvent, listenEdge, connVars,
                   kernelVars, failed, boundVars>>

(* modFd(fd, _conn_event | EPOLLIN or EPOLLOUT), the last thing a task     *)
(* does; EPOLL_CTL_MOD fails on a descriptor that is not registered.       *)
Rearm(w) ==
    /\ pc[w] \in {"arm_in", "arm_out"}
    /\ epoll' = [epoll EXCEPT ![Cur(w)] =
                    IF @ = "none" THEN "none"
                    ELSE IF pc[w] = "arm_in" THEN "in" ELSE "out"]
    /\ Goto(w, "idle")
    /\ Pool!Finish(w)
    /\ UNCHANGED <<up, mainFd, event, listenEvent, listenEdge, connVars,
                   kernelVars, failed, boundVars>>

(* Where _onWrite goes when HttpConn::write has returned a value >= 0 and  *)
(* left rest unsent.                                                       *)
AfterWrite(w, rest) == IF rest = 0 /\ conn[Cur(w)].keep THEN "process" ELSE "del"

(* Mutant of WriteSome: more is taken off _iov than was sent. *)
WriteSomeTooMuch(w) ==
    /\ pc[w] = "write"
    /\ conn[Cur(w)].out > 0
    /\ Cur(w) \notin outFull /\ peer[Cur(w)] \in {"up", "fin"}
    /\ conn' = [conn EXCEPT ![Cur(w)] = [@ EXCEPT !.out = 0 - 1]]
    /\ Goto(w, AfterWrite(w, 0))
    /\ UNCHANGED <<workerFrame, inData, outFull, failed>>

(* writev takes some of the response; if not all of it, the send buffer    *)
(* is full.  The loop goes on if the connection is edge-triggered or more  *)
(* than LTRest is left.                                                    *)
WriteSome(w) ==
    /\ pc[w] = "write"
    /\ conn[Cur(w)].out > 0
    /\ Cur(w) \notin outFull /\ peer[Cur(w)] \in {"up", "fin"}
    /\ \E rest \in 0..(conn[Cur(w)].out - 1), full \in BOOLEAN :
           /\ rest > 0 => full
           /\ conn' = [conn EXCEPT ![Cur(w)] = [@ EXCEPT !.out = rest]]
           /\ outFull' = IF full THEN outFull \cup {Cur(w)} ELSE outFull
           /\ Goto(w, IF ConnET \/ rest > LTRest THEN "write" ELSE AfterWrite(w, rest))
    /\ UNCHANGED <<workerFrame, inData, failed>>

(* Everything is sent and writev is called once more: it returns 0. *)
WriteNothing(w) ==
    /\ pc[w] = "write"
    /\ conn[Cur(w)].out = 0
    /\ Goto(w, AfterWrite(w, 0))
    /\ UNCHANGED <<workerFrame, conn, inData, outFull, failed>>

(* Mutant of WriteAgain: EAGAIN is taken for a failure. *)
WriteAgainCloses(w) ==
    /\ pc[w] = "write"
    /\ conn[Cur(w)].out > 0
    /\ Cur(w) \in outFull /\ peer[Cur(w)] \in {"up", "fin"}
    /\ Goto(w, "del")
    /\ UNCHANGED <<workerFrame, conn, inData, outFull, failed>>

(* EAGAIN with bytes left. *)
WriteAgain(w) ==
    /\ pc[w] = "write"
    /\ conn[Cur(w)].out > 0
    /\ Cur(w) \in outFull /\ peer[Cur(w)] \in {"up", "fin"}
    /\ Goto(w, "arm_out")
    /\ UNCHANGED <<workerFrame, conn, inData, outFull, failed>>

(* Any other error of writev with bytes left. *)
WriteError(w) ==
    /\ pc[w] = "write"
    /\ conn[Cur(w)].out > 0
    /\ failed' = failed \cup {Cur(w)}
    /\ Goto(w, "del")
    /\ UNCHANGED <<workerFrame, conn, inData, outFull>>

(* writev on a stream the client has shut down and then reset: SIGPIPE,    *)
(* for which the program installs no handler.                              *)
WriteSigpipe(w) ==
    /\ pc[w] = "write"
    /\ conn[Cur(w)].out > 0
    /\ peer[Cur(w)] = "pipe"
    /\ up' = FALSE
    /\ UNCHANGED <<pc, mainFd, poolVars, epollVars, connVars, kernelVars, failed, boundVars>>

-----------------------------------------------------------------------------

MainStep == \/ EpollWait \/ DealListen \/ EndOfEvents
            \/ AcceptFails \/ AcceptBusy
            \/ \E f \in Fd : DealHangup(f) \/ DealRead(f) \/ DealWrite(f) \/ AcceptClient(f)
            \/ CloseStep(Main)

WorkerStep(w) == \/ ReadData(w) \/ ReadNothing(w)
                 \/ ProcessNothing(w) \/ ProcessRequest(w) \/ Rearm(w)
                 \/ WriteSome(w) \/ WriteNothing(w) \/ WriteAgain(w)
                 \/ WriteError(w) \/ WriteSigpipe(w)
                 \/ CloseStep(w)

Client == \/ Connect
          \/ \E f \in Fd : Send(f) \/ ShutdownWrite(f) \/ Reset(f) \/ Drain(f)

(* start() never returns; the process ends only by a signal. *)
Killed == ~up /\ UNCHANGED vars

(* Everything is quiet: epoll_wait blocks until a client does something. *)
Blocked == /\ up
           /\ pc[Main] = "wait" /\ ~ListenReported
           /\ \A f \in Fd : Reported(f) = "none"
           /\ queue = <<>> /\ \A w \in Worker : pc[w] = "idle"
           /\ UNCHANGED vars

Next == \/ up /\ MainStep
        \/ up /\ \E w \in Worker : TakeTask(w) \/ WorkerStep(w)
        \/ up /\ Client
        \/ Killed
        \/ Blocked

(* The main thread and the workers run, somebody idle takes the front      *)
(* task (what TaskService promises), and a client that stays connected     *)
(* goes on reading what it is sent.                                        *)
Fairness == /\ WF_vars(up /\ MainStep)
            /\ WF_vars(up /\ \E w \in Worker : TakeTask(w))
            /\ \A w \in Worker : WF_vars(up /\ WorkerStep(w))
            /\ \A f \in Fd : WF_vars(up /\ Drain(f))

Spec == Init /\ [][Next]_vars /\ Fairness

-----------------------------------------------------------------------------
ClosePC == {"del", "chk", "mark", "free", "quit"}
MainPC == {"wait", "events", "accept"} \cup ClosePC
WorkerPC == {"idle", "read", "write", "process", "arm_in", "arm_out"} \cup ClosePC
Conn == [is_closed : BOOLEAN, lines : 0..MaxLines, out : 0..MaxOut, keep : BOOLEAN]

(* Type invariant.  A worker has a task exactly while it is not idle, the  *)
(* main thread a connection exactly while it closes one.                   *)
TypeOK ==
    /\ up \in BOOLEAN
    /\ pc \in [Thread -> MainPC \cup WorkerPC]
    /\ pc[Main] \in MainPC
    /\ mainFd \in Fd \cup {NoFd}
    /\ pc[Main] \in ClosePC <=> mainFd # NoFd
    /\ queue \in Seq(Task)
    /\ job \in [Worker -> Task \cup {NoTask}]
    /\ \A w \in Worker : pc[w] \in WorkerPC /\ (pc[w] # "idle" <=> job[w] # NoTask)
    /\ epoll \in [Fd -> {"none", "off", "in", "out"}]
    /\ event \in [Fd -> {"none", "hup", "in", "out"}]
    /\ listenEvent \in BOOLEAN /\ listenEdge \in BOOLEAN
    /\ conn \in [Fd -> Conn]
    /\ user_count \in Int
    /\ open \subseteq Fd
    /\ backlog \in 0..MaxBacklog
    /\ inData \subseteq Fd
    /\ outFull \subseteq Fd
    /\ peer \in [Fd -> {"up", "fin", "rst", "pipe"}]
    /\ failed \subseteq Fd
    /\ connects \in 0..MaxConnects
    /\ sends \in 0..MaxSends

-----------------------------------------------------------------------------
(* The places where a connection can be waiting for its next step. *)

Announced(f) == event[f] # "none"
Queued(f) == \E i \in 1..Len(queue) : queue[i].fd = f
Holds(t, f) == pc[t] \notin {"wait", "events", "accept", "idle", "quit"} /\ Cur(t) = f
Held(f) == \E t \in Thread : Holds(t, f)

(* One owner at most: EPOLLONESHOT (server.cc 214) and re-arming as the    *)
(* last step of a task (278, 288, 290) keep two threads from both having   *)
(* the turn on one HttpConn, which has no lock: a connection that epoll    *)
(* may report is in nobody's hands, and no second task, event or thread    *)
(* exists for one that is.  A thread's turn ends with its close(_fd): the  *)
(* log line that follows (http_conn.cc 33-34) may read the object while    *)
(* another thread has it for the descriptor's next client.                 *)
OneOwner ==
    /\ \A f \in Fd :
           /\ Armed(f) => ~Announced(f) /\ ~Queued(f) /\ ~Held(f)
           /\ Announced(f) => ~Queued(f) /\ ~Held(f)
           /\ Queued(f) => ~Held(f)
    /\ \A i, j \in 1..Len(queue) : queue[i].fd = queue[j].fd => i = j
    /\ \A t, u \in Thread, f \in Fd : Holds(t, f) /\ Holds(u, f) => t = u

(* And one owner at least, exactly as long as the descriptor is open: a    *)
(* live connection is never left disarmed with nobody to re-arm it, and    *)
(* no event, task or thread is still going to use a descriptor that has    *)
(* been closed (and that the kernel may have handed out again); all that   *)
(* comes after close(_fd) is the log line that names it.                   *)
NoOrphan ==
    \A f \in Fd : f \in open <=> Armed(f) \/ Announced(f) \/ Queued(f) \/ Held(f)

(* user_count is the number of connections that have been initialised and  *)
(* not closed, whatever threads close them; the limit of _dealListen       *)
(* (server.cc 118) rests on it.                                            *)
UserCountExact ==
    /\ user_count = Cardinality({f \in Fd : ~conn[f].is_closed})
    /\ user_count <= MaxFd

(* A response is cut short only because the client has gone or a system    *)
(* call on its socket failed (_onWrite, server.cc 264-283, and the loop of *)
(* HttpConn::write).                                                       *)
NoTruncation ==
    \A t \in Thread : pc[t] = "del" /\ conn[Cur(t)].out > 0 =>
        peer[Cur(t)] # "up" \/ Cur(t) \in failed

(* What a client sends is read, or its connection is closed: re-arming     *)
(* after "nothing to read" (EAGAIN) and before data arrives loses no       *)
(* event.  It is said of clients that pause in the end (MaxSends): the     *)
(* edge-triggered read loop (http_conn.cc 39-48) keeps its worker as long  *)
(* as data keeps coming, and the tasks behind it wait.                     *)
RequestServed == \A f \in Fd : f \in inData ~> (f \notin inData \/ ~up)

(* While there are descriptors, nobody is left waiting in the backlog of   *)
(* the listening socket: each client is accepted, or refused as one too    *)
(* many (_dealListen, server.cc 109-126).                                  *)
BacklogServed == backlog > 0 ~> (backlog = 0 \/ open = Fd \/ ~up)

-----------------------------------------------------------------------------
(* The steps of _closeConn are one place. *)
Place(p) == IF p \in ClosePC THEN "close" ELSE p

(* Who has a connection, and what for. *)
StageOf == [f \in Fd |->
    IF Armed(f) THEN <<"epoll", epoll[f]>>
    ELSE IF Announced(f) THEN <<"event", event[f]>>
    ELSE IF Queued(f) THEN <<"task", queue[CHOOSE i \in 1..Len(queue) : queue[i].fd = f].op>>
    ELSE IF Held(f) THEN <<"thread", Place(pc[CHOOSE t \in Thread : Holds(t, f)])>>
    ELSE <<"nobody", "closed">>]

(* Every connection goes from hand to hand as ConnLife says, whatever else *)
(* goes on (server.cc 78-106, 128-292): what is reported as readable is    *)
(* read, what was answered is armed for writing and nothing else is, and   *)
(* only who closes it takes it out of the cycle.                           *)
Life == INSTANCE ConnLife WITH stage <- StageOf
ImplementsLife == Life!Spec
=============================================================================

---------------------------- MODULE SqlConnPool ----------------------------
(***************************************************************************)
(* src/src/pool/sql_conn_pool.cc with the RAII guard that is the only way  *)
(* it is used (sql_conn_RAII.hpp, in HttpRequest::_userVerify and          *)
(* _userRegister) and its semaphore (sem_RAII.hpp).                        *)
(*                                                                         *)
(* A use:  idle -> test -> wait -> pop -> use -> free -> idle              *)
(*                 test finds the pool empty: assert(_mysql) aborts        *)
(*                                                                         *)
(* freeConn and close hold _m throughout and are single steps, and so is   *)
(* the locked part of getConn.  getConn tests empty() without _m: the two  *)
(* loads of that test, the end of the queue and then its front, are steps  *)
(* of their own, as what it finds depends on what happens in between.      *)
(***************************************************************************)
EXTENDS Integers, Sequences, FiniteSets

CONSTANTS User,      (* the threads that verify and register users        *)
          MaxConn    (* _MAX_CONN                                         *)

(* assert(max_size > 10) asks for more than a model needs. *)
ASSUME SqlAssumption == IsFiniteSet(User) /\ MaxConn \in Nat \ {0}

Conn == 1 .. MaxConn
NoConn == 0

VARIABLES up,        (* the process is running                            *)
          conn_que,  (* _conn_que                                         *)
          sem,       (* the value of _s                                   *)
          pc,        (* where each user is                                *)
          seen,      (* what was queued when each user's empty() loaded   *)
                     (* the end of the queue and has not been popped yet  *)
          held,      (* _mysql of each user's SqlConn                     *)
          broken,    (* the connections mysql_real_connect did not make:  *)
                     (* the pool has nullptr in their places              *)
          released,  (* the connections given to mysql_close              *)
          shut       (* close() has been called                           *)

vars == <<up, conn_que, sem, pc, seen, held, broken, released, shut>>

Queued == {conn_que[i] : i \in DOMAIN conn_que}

(* init() has returned. *)
Init == /\ up = TRUE
        /\ conn_que = [i \in Conn |-> i]
        /\ sem = MaxConn
        /\ pc = [u \in User |-> "idle"]
        /\ seen = [u \in User |-> {}]
        /\ held = [u \in User |-> NoConn]
        /\ broken \in SUBSET Conn
        /\ released = {}
        /\ shut = FALSE

Goto(u, p) == pc' = [pc EXCEPT ![u] = p]

-----------------------------------------------------------------------------
(* getConn, called by the constructor of SqlConn. *)

CallGetConn(u) == /\ pc[u] = "idle"
                  /\ seen' = [seen EXCEPT ![u] = Queued]
                  /\ Goto(u, "test")
                  /\ UNCHANGED <<up, conn_que, sem, held, broken, released, shut>>

FindsConn(u) == /\ pc[u] = "test"
                /\ seen[u] # {}
                /\ seen' = [seen EXCEPT ![u] = {}]
                /\ Goto(u, "wait")
                /\ UNCHANGED <<up, conn_que, sem, held, broken, released, shut>>

(* getConn returns nullptr and assert(_mysql) fails. *)
FindsNothing(u) == /\ pc[u] = "test"
                   /\ seen[u] = {}
                   /\ up' = FALSE
                   /\ UNCHANGED <<conn_que, sem, pc, seen, held, broken, released, shut>>

(* Mutant of SemWait: the semaphore is not waited for. *)
SemWaitSkipped(u) == /\ pc[u] = "wait"
                     /\ Goto(u, "pop")
                     /\ UNCHANGED <<up, conn_que, sem, seen, held, broken, released, shut>>

SemWait(u) == /\ pc[u] = "wait"
              /\ sem > 0
              /\ sem' = sem - 1
              /\ Goto(u, "pop")
              /\ UNCHANGED <<up, conn_que, seen, held, broken, released, shut>>

(* Mutant of PopConn: front() without pop(). *)
PopConnKeeps(u) == /\ pc[u] = "pop"
                   /\ conn_que # <<>>
                   /\ Head(conn_que) \notin broken
                   /\ held' = [held EXCEPT ![u] = Head(conn_que)]
                   /\ Goto(u, "use")
                   /\ UNCHANGED <<up, conn_que, sem, seen, broken, released, shut>>

PopConn(u) == /\ pc[u] = "pop"
              /\ conn_que # <<>>
              /\ Head(conn_que) \notin broken
              /\ held' = [held EXCEPT ![u] = Head(conn_que)]
              /\ conn_que' = Tail(conn_que)
              /\ seen' = [v \in User |-> seen[v] \ {Head(conn_que)}]
              /\ Goto(u, "use")
              /\ UNCHANGED <<up, sem, broken, released, shut>>

(* A nullptr from a failed connect, which assert(_mysql) does not accept,  *)
(* or front() of an empty queue, which is undefined: the process is lost.  *)
PopNothing(u) == /\ pc[u] = "pop"
                 /\ conn_que # <<>> => Head(conn_que) \in broken
                 /\ up' = FALSE
                 /\ UNCHANGED <<conn_que, sem, pc, seen, held, broken, released, shut>>

(* The query, with its result or its error. *)
Query(u) == /\ pc[u] = "use"
            /\ Goto(u, "free")
            /\ UNCHANGED <<up, conn_que, sem, seen, held, broken, released, shut>>

(* _userVerify reads row[1] of a name that is not in the table. *)
QueryWithoutRow(u) == /\ pc[u] = "use"
                      /\ up' = FALSE
                      /\ UNCHANGED <<conn_que, sem, pc, seen, held, broken, released, shut>>

(* Mutants of FreeConn: the guard keeps its pointer; no post. *)
FreeConnKeepsHeld(u) == /\ pc[u] = "free"
                        /\ conn_que' = Append(conn_que, held[u])
                        /\ sem' = sem + 1
                        /\ Goto(u, "idle")
                        /\ UNCHANGED <<up, seen, held, broken, released, shut>>

FreeConnSilently(u) == /\ pc[u] = "free"
                       /\ conn_que' = Append(conn_que, held[u])
                       /\ held' = [held EXCEPT ![u] = NoConn]
                       /\ Goto(u, "idle")
                       /\ UNCHANGED <<up, sem, seen, broken, released, shut>>

(* ~SqlConn: freeConn pushes the connection and posts. *)
FreeConn(u) == /\ pc[u] = "free"
               /\ conn_que' = Append(conn_que, held[u])
               /\ sem' = sem + 1
               /\ held' = [held EXCEPT ![u] = NoConn]
               /\ Goto(u, "idle")
               /\ UNCHANGED <<up, seen, broken, released, shut>>

(* Mutant of Close: the connections stay in the queue. *)
CloseKeepsQueue == /\ released' = released \cup (Queued \ broken)
                   /\ shut' = TRUE
                   /\ UNCHANGED <<up, conn_que, sem, pc, seen, held, broken>>

(* close(), called by ~Server while workers may be anywhere, and again by  *)
(* ~SqlConnPool.  The semaphore is not told.                               *)
Close == /\ released' = released \cup (Queued \ broken)
         /\ conn_que' = <<>>
         /\ seen' = [u \in User |-> {}]
         /\ shut' = TRUE
         /\ UNCHANGED <<up, sem, pc, held, broken>>

-----------------------------------------------------------------------------
UserStep(u) == \/ FindsConn(u) \/ FindsNothing(u) \/ SemWait(u)
               \/ PopConn(u) \/ PopNothing(u)
               \/ Query(u) \/ QueryWithoutRow(u) \/ FreeConn(u)

Lost == ~up /\ UNCHANGED vars

Next == \/ \E u \in User : up /\ (CallGetConn(u) \/ UserStep(u))
        \/ up /\ Close
        \/ Lost

(* A user goes on when it can, and gets past the semaphore if it is posted *)
(* again and again.                                                        *)
Fairness == \A u \in User : /\ WF_vars(up /\ UserStep(u))
                            /\ SF_vars(up /\ SemWait(u))

Spec == Init /\ [][Next]_vars /\ Fairness

-----------------------------------------------------------------------------
TypeOK == /\ up \in BOOLEAN
          /\ conn_que \in Seq(Conn)
          /\ sem \in Nat
          /\ pc \in [User -> {"idle", "test", "wait", "pop", "use", "free"}]
          /\ seen \in [User -> SUBSET Conn]
          /\ held \in [User -> Conn \cup {NoConn}]
          /\ \A u \in User : held[u] # NoConn <=> pc[u] \in {"use", "free"}
          /\ broken \subseteq Conn
          /\ released \subseteq Conn
          /\ shut \in BOOLEAN

Popping == {u \in User : pc[u] = "pop"}

(* The semaphore counts what the queue can still give: until close, the    *)
(* queue has a connection for every unit of the semaphore and every user   *)
(* that has passed it, so front() is never asked of an empty queue.        *)
SemCountsQueue == ~shut => Len(conn_que) = sem + Cardinality(Popping)

(* A connection is used by one user at a time: it is not in the pool while *)
(* somebody has it, and nowhere twice.                                     *)
OneHolder ==
    /\ \A u, v \in User : held[u] = held[v] /\ u # v => held[u] = NoConn
    /\ \A u \in User : held[u] \notin Queued
    /\ \A i, j \in DOMAIN conn_que : conn_que[i] = conn_que[j] => i = j

(* Nobody uses a connection that close() has given to mysql_close.         *)
UsedIsOpen == \A u \in User : held[u] \notin released

(* A query runs on an open connection that nobody else uses or is given    *)
(* (sql_conn_pool.cc 35-73).                                               *)
SafeUse == OneHolder /\ UsedIsOpen

(* Who waits for the semaphore gets past it, as every user gives its       *)
(* connection back.                                                        *)
WaitersServed == \A u \in User : pc[u] = "wait" ~> (~up \/ shut \/ pc[u] = "pop")

(* assert(_mysql) (sql_conn_RAII.hpp 25): the pool has a connection for    *)
(* whoever constructs a SqlConn before close.                              *)
NeverNull == ~shut => \A u \in User : pc[u] = "test" => seen[u] # {}

=============================================================================

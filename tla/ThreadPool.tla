----------------------------- MODULE ThreadPool -----------------------------
(***************************************************************************)
(* src/src/pool/thread_pool.hpp: a fixed set of detached worker threads    *)
(* that share one queue of tasks, a mutex m and a condition variable cond. *)
(*                                                                         *)
(* A thread is at one point of its code, pc[t].  A step that touches the   *)
(* shared Pool is taken by the thread that holds m; whether it really      *)
(* holds it, and for how long, is what most of the properties hang on, so  *)
(* locking, deciding, and blocking on cond are steps of their own.         *)
(*                                                                         *)
(* Worker:  lock -> loop -> run -> lock -> ...      (a task was there)     *)
(*                  loop -> exit                    (empty and closed)     *)
(*                  loop -> sleep -> wait -> lock   (empty, not closed)    *)
(* Caller:  idle -> add_lock -> emplace -> notify -> idle      (addTask)   *)
(*          idle -> close_lock -> set_closed -> notify_all -> gone         *)
(*                                                     (the destructor)    *)
(***************************************************************************)
EXTENDS Naturals, Sequences, FiniteSets

CONSTANTS Worker,    (* the threads started by the constructor            *)
          Caller,    (* the threads that own or use the ThreadPool object *)
          Task,      (* the callables; each is handed over at most once   *)
          NoTask,    (* "no task"                                         *)
          Free       (* the value of m when no thread holds it            *)

(* assert(thread_count > 0) in the constructor, and a user of the pool. *)
ASSUME PoolAssumption ==
    /\ Worker # {} /\ IsFiniteSet(Worker)
    /\ Caller # {} /\ IsFiniteSet(Caller)
    /\ Worker \cap Caller = {}
    /\ NoTask \notin Task
    /\ Free \notin Worker \cup Caller

Thread == Worker \cup Caller

VARIABLES m,          (* Pool::m, the thread that holds it, or Free        *)
          pc,         (* where each thread is                              *)
          task_que,   (* Pool::task_que                                    *)
          is_closed,  (* Pool::is_closed, false from make_shared<Pool>()   *)
          task,       (* the local variable "task" of each worker          *)
          arg,        (* the argument of the addTask call of each caller   *)
          handed,     (* history: the tasks passed to addTask so far       *)
          ran         (* history: the tasks that have been run to the end  *)

vars == <<m, pc, task_que, is_closed, task, arg, handed, ran>>

WorkerPC == {"lock", "loop", "sleep", "wait", "run", "exit"}
CallerPC == {"idle", "add_lock", "emplace", "notify",
             "close_lock", "set_closed", "notify_all", "gone"}
ClosingPC == {"close_lock", "set_closed", "notify_all", "gone"}

Init == /\ m = Free
        /\ pc = [t \in Thread |-> IF t \in Worker THEN "lock" ELSE "idle"]
        /\ task_que = <<>>
        /\ is_closed = FALSE
        /\ task = [w \in Worker |-> NoTask]
        /\ arg = [c \in Caller |-> NoTask]
        /\ handed = {}
        /\ ran = {}

Goto(t, p) == pc' = [pc EXCEPT ![t] = p]

(* lock_guard / unique_lock: thread t gets m and goes on at p. *)
Lock(t, from, p) == /\ pc[t] = from
                    /\ m = Free
                    /\ m' = t
                    /\ Goto(t, p)
                    /\ UNCHANGED <<task_que, is_closed, task, arg, handed, ran>>

-----------------------------------------------------------------------------
(* The worker's lambda. *)

(* The first lock, the lock after a task and the lock on return from      *)
(* cond.wait lead to the same place, the head of while(true).              *)
WorkerLock(w) == Lock(w, "lock", "loop")

(* Mutant of TakeTask: front() without pop() when one task is left. *)
TakeTaskLeavesLast(w) ==
    /\ pc[w] = "loop"
    /\ task_que # <<>>
    /\ task' = [task EXCEPT ![w] = Head(task_que)]
    /\ task_que' = IF Len(task_que) = 1 THEN task_que ELSE Tail(task_que)
    /\ m' = Free
    /\ Goto(w, "run")
    /\ UNCHANGED <<is_closed, arg, handed, ran>>

(* The queue is not empty: take the front task and unlock. *)
TakeTask(w) == /\ pc[w] = "loop"
               /\ task_que # <<>>
               /\ task' = [task EXCEPT ![w] = Head(task_que)]
               /\ task_que' = Tail(task_que)
               /\ m' = Free
               /\ Goto(w, "run")
               /\ UNCHANGED <<is_closed, arg, handed, ran>>

(* Mutant of RunTask: "task" outlives its call. *)
RunTaskKeepsTask(w) == /\ pc[w] = "run"
                       /\ ran' = ran \cup {task[w]}
                       /\ Goto(w, "lock")
                       /\ UNCHANGED <<m, task_que, is_closed, task, arg, handed>>

(* task() returns; next is locker.lock(). *)
RunTask(w) == /\ pc[w] = "run"
              /\ ran' = ran \cup {task[w]}
              /\ task' = [task EXCEPT ![w] = NoTask]
              /\ Goto(w, "lock")
              /\ UNCHANGED <<m, task_que, is_closed, arg, handed>>

(* Mutant of Exit: is_closed is tested before the queue. *)
ExitAtOnce(w) == /\ pc[w] = "loop"
                 /\ is_closed
                 /\ m' = Free
                 /\ Goto(w, "exit")
                 /\ UNCHANGED <<task_que, is_closed, task, arg, handed, ran>>

(* Empty and closed: break out of the loop; ~unique_lock unlocks. *)
Exit(w) == /\ pc[w] = "loop"
           /\ task_que = <<>>
           /\ is_closed
           /\ m' = Free
           /\ Goto(w, "exit")
           /\ UNCHANGED <<task_que, is_closed, task, arg, handed, ran>>

(* Empty and not closed: the worker has decided to call cond.wait. *)
DecideWait(w) == /\ pc[w] = "loop"
                 /\ task_que = <<>>
                 /\ ~is_closed
                 /\ Goto(w, "sleep")
                 /\ UNCHANGED <<m, task_que, is_closed, task, arg, handed, ran>>

(* cond.wait: release m and block, atomically. *)
CondWait(w) == /\ pc[w] = "sleep"
               /\ m' = Free
               /\ Goto(w, "wait")
               /\ UNCHANGED <<task_que, is_closed, task, arg, handed, ran>>

(* A wakeup nobody asked for, which condition_variable::wait may have. *)
SpuriousWakeup(w) == /\ pc[w] = "wait"
                     /\ Goto(w, "lock")
                     /\ UNCHANGED <<m, task_que, is_closed, task, arg, handed, ran>>

-----------------------------------------------------------------------------
(* The object's user. *)

Waiting == {w \in Worker : pc[w] = "wait"}

(* No call may begin once the destructor has begun, nor the destructor    *)
(* while a call is in progress (the lifetime of a C++ object).             *)
Alive == \A c \in Caller : pc[c] \notin ClosingPC

CallAddTask(c, t) == /\ Alive
                     /\ pc[c] = "idle"
                     /\ t \notin handed
                     /\ arg' = [arg EXCEPT ![c] = t]
                     /\ handed' = handed \cup {t}
                     /\ Goto(c, "add_lock")
                     /\ UNCHANGED <<m, task_que, is_closed, task, ran>>

AddTaskLock(c) == Lock(c, "add_lock", "emplace")

(* Mutants of Emplace: notify only when the queue was empty; a stack. *)
EmplaceNotifiesFirst(c) == /\ pc[c] = "emplace"
                           /\ task_que' = Append(task_que, arg[c])
                           /\ arg' = [arg EXCEPT ![c] = NoTask]
                           /\ m' = Free
                           /\ Goto(c, IF task_que = <<>> THEN "notify" ELSE "idle")
                           /\ UNCHANGED <<is_closed, task, handed, ran>>

EmplaceInFront(c) == /\ pc[c] = "emplace"
                     /\ task_que' = <<arg[c]>> \o task_que
                     /\ arg' = [arg EXCEPT ![c] = NoTask]
                     /\ m' = Free
                     /\ Goto(c, "notify")
                     /\ UNCHANGED <<is_closed, task, handed, ran>>

(* task_que.emplace, then the lock_guard's scope ends. *)
Emplace(c) == /\ pc[c] = "emplace"
              /\ task_que' = Append(task_que, arg[c])
              /\ arg' = [arg EXCEPT ![c] = NoTask]
              /\ m' = Free
              /\ Goto(c, "notify")
              /\ UNCHANGED <<is_closed, task, handed, ran>>

(* Mutant of NotifyOne: addTask does not notify. *)
NotifyNobody(c) == /\ pc[c] = "notify"
                   /\ Goto(c, "idle")
                   /\ UNCHANGED <<m, task_que, is_closed, task, arg, handed, ran>>

(* cond.notify_one wakes one of the waiting workers, if there is one. *)
NotifyOne(c) ==
    /\ pc[c] = "notify"
    /\ \/ \E w \in Waiting :
             pc' = [pc EXCEPT ![w] = "lock", ![c] = "idle"]
       \/ Waiting = {} /\ Goto(c, "idle")
    /\ UNCHANGED <<m, task_que, is_closed, task, arg, handed, ran>>

CallDestructor(c) == /\ \A d \in Caller : pc[d] = "idle"
                     /\ Goto(c, "close_lock")
                     /\ UNCHANGED <<m, task_que, is_closed, task, arg, handed, ran>>

DestructorLock(c) == Lock(c, "close_lock", "set_closed")

SetClosed(c) == /\ pc[c] = "set_closed"
                /\ is_closed' = TRUE
                /\ m' = Free
                /\ Goto(c, "notify_all")
                /\ UNCHANGED <<task_que, task, arg, handed, ran>>

(* Mutant of NotifyAll: the destructor calls notify_one. *)
NotifyAllWakesOne(c) ==
    /\ pc[c] = "notify_all"
    /\ \/ \E w \in Waiting : pc' = [pc EXCEPT ![w] = "lock", ![c] = "gone"]
       \/ Waiting = {} /\ Goto(c, "gone")
    /\ UNCHANGED <<m, task_que, is_closed, task, arg, handed, ran>>

NotifyAll(c) ==
    /\ pc[c] = "notify_all"
    /\ pc' = [t \in Thread |-> IF t = c THEN "gone"
                               ELSE IF t \in Waiting THEN "lock" ELSE pc[t]]
    /\ UNCHANGED <<m, task_que, is_closed, task, arg, handed, ran>>

-----------------------------------------------------------------------------

(* Everything is over: the object is destroyed and its threads are gone. *)
Terminated == /\ \E c \in Caller : pc[c] = "gone"
              /\ \A w \in Worker : pc[w] = "exit"
              /\ UNCHANGED vars

WorkerStep(w) == \/ WorkerLock(w) \/ TakeTask(w) \/ RunTask(w)
                 \/ Exit(w) \/ DecideWait(w) \/ CondWait(w)

CallerStep(c) == \/ AddTaskLock(c) \/ Emplace(c) \/ NotifyOne(c)
                 \/ DestructorLock(c) \/ SetClosed(c) \/ NotifyAll(c)

Next == \/ \E w \in Worker : WorkerStep(w) \/ SpuriousWakeup(w)
        \/ \E c \in Caller : \/ CallerStep(c)
                             \/ \E t \in Task : CallAddTask(c, t)
                             \/ CallDestructor(c)
        \/ Terminated

(* A thread that can run, runs; a thread that asks for m again and again   *)
(* while others release it gets it (no starvation on the mutex).  Nothing  *)
(* is assumed of the users' calls or of spurious wakeups.                  *)
Fairness ==
    /\ \A w \in Worker : /\ WF_vars(WorkerStep(w))
                         /\ SF_vars(WorkerLock(w))
    /\ \A c \in Caller : /\ WF_vars(CallerStep(c))
                         /\ SF_vars(AddTaskLock(c))
                         /\ SF_vars(DestructorLock(c))

Spec == Init /\ [][Next]_vars /\ Fairness

-----------------------------------------------------------------------------
(* Type invariant.  A worker has a task exactly while it runs it, a caller *)
(* an argument exactly between the call and the emplace.                   *)
TypeOK ==
    /\ m \in Thread \cup {Free}
    /\ pc \in [Thread -> WorkerPC \cup CallerPC]
    /\ \A w \in Worker : pc[w] \in WorkerPC
    /\ \A c \in Caller : pc[c] \in CallerPC
    /\ task_que \in Seq(Task)
    /\ is_closed \in BOOLEAN
    /\ task \in [Worker -> Task \cup {NoTask}]
    /\ \A w \in Worker : pc[w] = "run" <=> task[w] # NoTask
    /\ arg \in [Caller -> Task \cup {NoTask}]
    /\ \A c \in Caller : pc[c] \in {"add_lock", "emplace"} <=> arg[c] # NoTask
    /\ handed \subseteq Task
    /\ ran \subseteq Task

Awake == {w \in Worker : pc[w] \in {"lock", "loop"}}
Notifying == {c \in Caller : pc[c] = "notify"}

(* No wakeup is lost: as long as a worker sleeps in cond.wait, every       *)
(* queued task has an awake worker that will look at the queue, or a       *)
(* notify_one that is still to come (thread_pool.hpp 34-49 and 68-77,      *)
(* which notifies after it has unlocked).                                  *)
EnoughAwake ==
    Waiting # {} => Len(task_que) <= Cardinality(Awake) + Cardinality(Notifying)

(* The destructor leaves no work behind and no thread asleep: a worker     *)
(* that has left did so with the pool closed and the queue empty, nothing  *)
(* is queued after that, and once notify_all has returned nobody waits.    *)
CleanShutdown ==
    /\ (\E w \in Worker : pc[w] = "exit") => is_closed /\ task_que = <<>>
    /\ (\E c \in Caller : pc[c] = "gone") => Waiting = {}

(* Where a task is: in the call that brings it, in the queue, in a worker  *)
(* that runs it, or done.                                                  *)
Places(t) == {<<"call", c>> : c \in {c \in Caller : arg[c] = t}}
             \cup {<<"queue", i>> : i \in {i \in DOMAIN task_que : task_que[i] = t}}
             \cup {<<"worker", w>> : w \in {w \in Worker : task[w] = t}}
             \cup {<<"done", t>> : u \in {t} \cap ran}

(* No task is lost and none is run twice: what has been handed over is in  *)
(* one place and one only (the move out of front() and the pop are one     *)
(* critical section, thread_pool.hpp 41-43; each addTask emplaces once).   *)
ExactlyOnce ==
    \A t \in Task : Cardinality(Places(t)) = IF t \in handed THEN 1 ELSE 0

(* Every task handed to addTask is run to its end, the ones still queued   *)
(* when the destructor is called included.                                 *)
EveryTaskRuns == \A t \in Task : t \in handed ~> t \in ran

(* After the destructor has returned, every detached thread ends. *)
WorkersLeave ==
    (\E c \in Caller : pc[c] = "gone") ~> (\A w \in Worker : pc[w] = "exit")

(* The pool implements the FIFO task service Server relies on. *)
Service == INSTANCE TaskService WITH queue <- task_que, job <- task
ImplementsTaskService == Service!Spec

=============================================================================

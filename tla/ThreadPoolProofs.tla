-------------------------- MODULE ThreadPoolProofs --------------------------
(***************************************************************************)
(* Theorems about ThreadPool, for every set of workers, users and tasks.   *)
(* The inductive invariant is built in five layers: types, who holds m,    *)
(* who is destroying the pool, the count of awake workers, and where each  *)
(* task is.                                                                *)
(***************************************************************************)
EXTENDS ThreadPool, SequenceTheorems, FiniteSetTheorems, TLAPS

(* A step of Next by its actions: what every preservation proof splits on. *)
Step == \/ \E w \in Worker : \/ WorkerLock(w) \/ TakeTask(w) \/ RunTask(w) \/ Exit(w)
                             \/ DecideWait(w) \/ CondWait(w) \/ SpuriousWakeup(w)
        \/ \E c \in Caller : \/ AddTaskLock(c) \/ Emplace(c) \/ NotifyOne(c)
                             \/ DestructorLock(c) \/ SetClosed(c) \/ NotifyAll(c)
                             \/ CallDestructor(c)
                             \/ \E t \in Task : CallAddTask(c, t)
        \/ UNCHANGED vars

LEMMA NextIsStep == [Next]_vars => Step
  BY DEF Next, WorkerStep, CallerStep, Step, Terminated

-----------------------------------------------------------------------------
(* Types. *)

LEMMA TypeInit == Init => TypeOK
<1> SUFFICES ASSUME Init PROVE TypeOK
  OBVIOUS
<1>1. \A w \in Worker : pc[w] = "lock"
  BY DEF Init, Thread
<1>2. \A c \in Caller : pc[c] = "idle"
  BY PoolAssumption DEF Init, Thread
<1>3. pc \in [Thread -> WorkerPC \cup CallerPC]
  BY <1>1, <1>2 DEF Init, Thread, WorkerPC, CallerPC
<1>4. task_que \in Seq(Task)
  BY DEF Init
<1> QED
  BY <1>1, <1>2, <1>3, <1>4 DEF Init, TypeOK, WorkerPC, CallerPC

(* Every step keeps the types, and with them the ties between pc, task and *)
(* arg.                                                                    *)
LEMMA TypeStep == TypeOK /\ Step => TypeOK'
<1> SUFFICES ASSUME TypeOK, Step PROVE TypeOK'
  OBVIOUS
<1> USE PoolAssumption DEF TypeOK, Thread, WorkerPC, CallerPC, Goto
<1>1. ASSUME NEW w \in Worker, WorkerLock(w) PROVE TypeOK'
  BY <1>1 DEF WorkerLock, Lock
<1>2. ASSUME NEW w \in Worker, TakeTask(w) PROVE TypeOK'
  <2>1. Head(task_que) \in Task /\ Tail(task_que) \in Seq(Task)
    BY <1>2, HeadTailProperties DEF TakeTask
  <2> QED
    BY <1>2, <2>1 DEF TakeTask
<1>3. ASSUME NEW w \in Worker, RunTask(w) PROVE TypeOK'
  BY <1>3 DEF RunTask
<1>4. ASSUME NEW w \in Worker, Exit(w) PROVE TypeOK'
  BY <1>4 DEF Exit
<1>5. ASSUME NEW w \in Worker, DecideWait(w) PROVE TypeOK'
  BY <1>5 DEF DecideWait
<1>6. ASSUME NEW w \in Worker, CondWait(w) PROVE TypeOK'
  BY <1>6 DEF CondWait
<1>7. ASSUME NEW w \in Worker, SpuriousWakeup(w) PROVE TypeOK'
  BY <1>7 DEF SpuriousWakeup
<1>8. ASSUME NEW c \in Caller, AddTaskLock(c) PROVE TypeOK'
  BY <1>8 DEF AddTaskLock, Lock
<1>9. ASSUME NEW c \in Caller, Emplace(c) PROVE TypeOK'
  BY <1>9 DEF Emplace
<1>10. ASSUME NEW c \in Caller, NotifyOne(c) PROVE TypeOK'
  BY <1>10 DEF NotifyOne, Waiting
<1>11. ASSUME NEW c \in Caller, DestructorLock(c) PROVE TypeOK'
  BY <1>11 DEF DestructorLock, Lock
<1>12. ASSUME NEW c \in Caller, SetClosed(c) PROVE TypeOK'
  BY <1>12 DEF SetClosed
<1>13. ASSUME NEW c \in Caller, NotifyAll(c) PROVE TypeOK'
  BY <1>13 DEF NotifyAll, Waiting
<1>14. ASSUME NEW c \in Caller, CallDestructor(c) PROVE TypeOK'
  BY <1>14 DEF CallDestructor
<1>15. ASSUME NEW c \in Caller, NEW t \in Task, CallAddTask(c, t) PROVE TypeOK'
  BY <1>15 DEF CallAddTask
<1>16. CASE UNCHANGED vars
  BY <1>16 DEF vars
<1> QED
  BY <1>1, <1>2, <1>3, <1>4, <1>5, <1>6, <1>7, <1>8, <1>9, <1>10, <1>11,
     <1>12, <1>13, <1>14, <1>15, <1>16 DEF Step

(* The type invariant of ThreadPool holds for any number of threads. *)
THEOREM TypeCorrect == Spec => []TypeOK
<1>1. TypeOK /\ [Next]_vars => TypeOK'
  BY NextIsStep, TypeStep
<1> QED
  BY TypeInit, <1>1, PTL DEF Spec

-----------------------------------------------------------------------------
(* The mutex. *)

(* The points of the code at which a thread holds m. *)
Critical == {"loop", "sleep", "emplace", "set_closed"}

(* m names the one thread that is inside a critical section, and what a    *)
(* worker saw when it decided to wait still holds when it blocks.          *)
LockInv == /\ \A t \in Thread : pc[t] \in Critical <=> m = t
           /\ \A w \in Worker : pc[w] = "sleep" => task_que = <<>> /\ ~is_closed

LEMMA LockInit == Init => LockInv
  BY PoolAssumption DEF Init, LockInv, Thread, Critical

LEMMA LockStep == TypeOK /\ LockInv /\ Step => LockInv'
<1> SUFFICES ASSUME TypeOK, LockInv, Step PROVE LockInv'
  OBVIOUS
<1> USE PoolAssumption DEF TypeOK, LockInv, Critical, Thread, WorkerPC, CallerPC, Goto
<1>1. ASSUME NEW w \in Worker, WorkerLock(w) PROVE LockInv'
  BY <1>1 DEF WorkerLock, Lock
<1>2. ASSUME NEW w \in Worker, TakeTask(w) PROVE LockInv'
  BY <1>2 DEF TakeTask
<1>3. ASSUME NEW w \in Worker, RunTask(w) PROVE LockInv'
  BY <1>3 DEF RunTask
<1>4. ASSUME NEW w \in Worker, Exit(w) PROVE LockInv'
  BY <1>4 DEF Exit
<1>5. ASSUME NEW w \in Worker, DecideWait(w) PROVE LockInv'
  BY <1>5 DEF DecideWait
<1>6. ASSUME NEW w \in Worker, CondWait(w) PROVE LockInv'
  BY <1>6 DEF CondWait
<1>7. ASSUME NEW w \in Worker, SpuriousWakeup(w) PROVE LockInv'
  BY <1>7 DEF SpuriousWakeup
<1>8. ASSUME NEW c \in Caller, AddTaskLock(c) PROVE LockInv'
  BY <1>8 DEF AddTaskLock, Lock
<1>9. ASSUME NEW c \in Caller, Emplace(c) PROVE LockInv'
  BY <1>9 DEF Emplace
<1>10. ASSUME NEW c \in Caller, NotifyOne(c) PROVE LockInv'
  BY <1>10 DEF NotifyOne, Waiting
<1>11. ASSUME NEW c \in Caller, DestructorLock(c) PROVE LockInv'
  BY <1>11 DEF DestructorLock, Lock
<1>12. ASSUME NEW c \in Caller, SetClosed(c) PROVE LockInv'
  BY <1>12 DEF SetClosed
<1>13. ASSUME NEW c \in Caller, NotifyAll(c) PROVE LockInv'
  BY <1>13 DEF NotifyAll, Waiting
<1>14. ASSUME NEW c \in Caller, CallDestructor(c) PROVE LockInv'
  BY <1>14 DEF CallDestructor
<1>15. ASSUME NEW c \in Caller, NEW t \in Task, CallAddTask(c, t) PROVE LockInv'
  BY <1>15 DEF CallAddTask
<1>16. CASE UNCHANGED vars
  BY <1>16 DEF vars
<1> QED
  BY <1>1, <1>2, <1>3, <1>4, <1>5, <1>6, <1>7, <1>8, <1>9, <1>10, <1>11,
     <1>12, <1>13, <1>14, <1>15, <1>16 DEF Step

(* Mutual exclusion on the Pool, and no change of it between the test of   *)
(* the loop and cond.wait.                                                 *)
THEOREM LockCorrect == Spec => []LockInv
<1>1. TypeOK /\ LockInv /\ [Next]_vars => LockInv'
  BY NextIsStep, LockStep
<1> QED
  BY TypeCorrect, LockInit, <1>1, PTL DEF Spec

-----------------------------------------------------------------------------
(* Destruction. *)

(* The pool is closed by a destructor that has got as far as notify_all,   *)
(* and nobody else is using the object while one is at work.               *)
ClosingInv == /\ is_closed <=> \E c \in Caller : pc[c] \in {"notify_all", "gone"}
              /\ \A c, d \in Caller : pc[c] \in ClosingPC /\ c # d => pc[d] = "idle"

ShutdownInv == ClosingInv /\ CleanShutdown

LEMMA ShutdownInit == Init => ShutdownInv
  BY PoolAssumption
     DEF Init, ShutdownInv, ClosingInv, CleanShutdown, ClosingPC, Thread, Waiting

LEMMA ClosingStep == TypeOK /\ LockInv /\ ClosingInv /\ Step => ClosingInv'
<1> SUFFICES ASSUME TypeOK, LockInv, ClosingInv, Step PROVE ClosingInv'
  OBVIOUS
<1> USE PoolAssumption DEF TypeOK, ClosingInv, ClosingPC, Thread, CallerPC, Goto
<1>1. ASSUME NEW w \in Worker,
             \A t \in Thread : t # w => pc'[t] = pc[t], UNCHANGED is_closed
      PROVE  ClosingInv'
  BY <1>1
<1>2. ASSUME NEW w \in Worker,
             \/ WorkerLock(w) \/ TakeTask(w) \/ RunTask(w) \/ Exit(w)
             \/ DecideWait(w) \/ CondWait(w) \/ SpuriousWakeup(w)
      PROVE  ClosingInv'
  BY <1>1, <1>2 DEF WorkerLock, Lock, TakeTask, RunTask, Exit, DecideWait,
                    CondWait, SpuriousWakeup
<1>3. ASSUME NEW c \in Caller, AddTaskLock(c) PROVE ClosingInv'
  BY <1>3 DEF AddTaskLock, Lock
<1>4. ASSUME NEW c \in Caller, Emplace(c) PROVE ClosingInv'
  BY <1>4 DEF Emplace
<1>5. ASSUME NEW c \in Caller, NotifyOne(c) PROVE ClosingInv'
  BY <1>5 DEF NotifyOne, Waiting
<1>6. ASSUME NEW c \in Caller, DestructorLock(c) PROVE ClosingInv'
  BY <1>6 DEF DestructorLock, Lock
<1>7. ASSUME NEW c \in Caller, SetClosed(c) PROVE ClosingInv'
  BY <1>7 DEF SetClosed
<1>8. ASSUME NEW c \in Caller, NotifyAll(c) PROVE ClosingInv'
  BY <1>8 DEF NotifyAll, Waiting
<1>9. ASSUME NEW c \in Caller, CallDestructor(c) PROVE ClosingInv'
  BY <1>9 DEF CallDestructor
<1>10. ASSUME NEW c \in Caller, NEW t \in Task, CallAddTask(c, t) PROVE ClosingInv'
  BY <1>10 DEF CallAddTask, Alive
<1>11. CASE UNCHANGED vars
  BY <1>11 DEF vars
<1> QED
  BY <1>2, <1>3, <1>4, <1>5, <1>6, <1>7, <1>8, <1>9, <1>10, <1>11 DEF Step

LEMMA ShutdownStep == TypeOK /\ LockInv /\ ShutdownInv /\ Step => CleanShutdown'
<1> SUFFICES ASSUME TypeOK, LockInv, ShutdownInv, Step PROVE CleanShutdown'
  OBVIOUS
<1> USE PoolAssumption DEF TypeOK, ShutdownInv, CleanShutdown, ClosingInv, ClosingPC,
                           Waiting, Thread, WorkerPC, CallerPC, Goto
<1>1. ASSUME NEW w \in Worker, WorkerLock(w) PROVE CleanShutdown'
  BY <1>1 DEF WorkerLock, Lock
<1>2. ASSUME NEW w \in Worker, TakeTask(w) PROVE CleanShutdown'
  BY <1>2 DEF TakeTask
<1>3. ASSUME NEW w \in Worker, RunTask(w) PROVE CleanShutdown'
  BY <1>3 DEF RunTask
<1>4. ASSUME NEW w \in Worker, Exit(w) PROVE CleanShutdown'
  BY <1>4 DEF Exit
<1>5. ASSUME NEW w \in Worker, DecideWait(w) PROVE CleanShutdown'
  BY <1>5 DEF DecideWait
<1>6. ASSUME NEW w \in Worker, CondWait(w) PROVE CleanShutdown'
  BY <1>6 DEF CondWait, LockInv
<1>7. ASSUME NEW w \in Worker, SpuriousWakeup(w) PROVE CleanShutdown'
  BY <1>7 DEF SpuriousWakeup
<1>8. ASSUME NEW c \in Caller, AddTaskLock(c) PROVE CleanShutdown'
  BY <1>8 DEF AddTaskLock, Lock
<1>9. ASSUME NEW c \in Caller, Emplace(c) PROVE CleanShutdown'
  BY <1>9 DEF Emplace
<1>10. ASSUME NEW c \in Caller, NotifyOne(c) PROVE CleanShutdown'
  BY <1>10 DEF NotifyOne
<1>11. ASSUME NEW c \in Caller, DestructorLock(c) PROVE CleanShutdown'
  BY <1>11 DEF DestructorLock, Lock
<1>12. ASSUME NEW c \in Caller, SetClosed(c) PROVE CleanShutdown'
  BY <1>12 DEF SetClosed
<1>13. ASSUME NEW c \in Caller, NotifyAll(c) PROVE CleanShutdown'
  BY <1>13 DEF NotifyAll
<1>14. ASSUME NEW c \in Caller, CallDestructor(c) PROVE CleanShutdown'
  BY <1>14 DEF CallDestructor
<1>15. ASSUME NEW c \in Caller, NEW t \in Task, CallAddTask(c, t) PROVE CleanShutdown'
  BY <1>15 DEF CallAddTask
<1>16. CASE UNCHANGED vars
  BY <1>16 DEF vars
<1> QED
  BY <1>1, <1>2, <1>3, <1>4, <1>5, <1>6, <1>7, <1>8, <1>9, <1>10, <1>11,
     <1>12, <1>13, <1>14, <1>15, <1>16 DEF Step

(* Whatever the threads do, the destructor leaves no queued task and no    *)
(* sleeping worker behind.                                                 *)
THEOREM ShutdownIsClean == Spec => []CleanShutdown
<1>1. TypeOK /\ LockInv /\ ShutdownInv /\ [Next]_vars => ShutdownInv'
  BY NextIsStep, ClosingStep, ShutdownStep DEF ShutdownInv
<1>2. ShutdownInv => CleanShutdown
  BY DEF ShutdownInv
<1> QED
  BY TypeCorrect, LockCorrect, ShutdownInit, <1>1, <1>2, PTL DEF Spec

-----------------------------------------------------------------------------
(* Lost wakeups. *)

LEMMA CountersFinite ==
    /\ IsFiniteSet(Awake) /\ Cardinality(Awake) \in Nat
    /\ IsFiniteSet(Notifying) /\ Cardinality(Notifying) \in Nat
<1>1. IsFiniteSet(Awake) /\ IsFiniteSet(Notifying)
  BY PoolAssumption, FS_Subset DEF Awake, Notifying
<1> QED
  BY <1>1, FS_CardinalityType

(* The sum that bounds the queue, after a step that wakes worker w, puts   *)
(* it to sleep or to work, or lets caller c begin or end a notify_one.     *)
LEMMA OneMore == ASSUME NEW S, IsFiniteSet(S), NEW x, x \notin S
                 PROVE  Cardinality(S \cup {x}) = Cardinality(S) + 1
  BY FS_AddElement

LEMMA OneLess == ASSUME NEW S, IsFiniteSet(S), NEW x, x \in S
                 PROVE  Cardinality(S \ {x}) = Cardinality(S) - 1
  BY FS_RemoveElement

(* The steps that change neither the queue, nor who waits, nor the sum. *)
LEMMA AwakeFrame ==
    ASSUME EnoughAwake, task_que' = task_que, Waiting' \subseteq Waiting,
           Awake' = Awake, Notifying' = Notifying
    PROVE  EnoughAwake'
  BY DEF EnoughAwake

LEMMA AwakeStep == TypeOK /\ LockInv /\ EnoughAwake /\ Step => EnoughAwake'
<1> SUFFICES ASSUME TypeOK, LockInv, EnoughAwake, Step PROVE EnoughAwake'
  OBVIOUS
<1>0. Len(task_que) \in Nat
  BY LenProperties DEF TypeOK
<1> USE PoolAssumption DEF TypeOK, Thread, WorkerPC, CallerPC, Goto
<1>1. ASSUME NEW w \in Worker, WorkerLock(w) PROVE EnoughAwake'
  BY <1>1, AwakeFrame DEF WorkerLock, Lock, Waiting, Awake, Notifying
<1>2. ASSUME NEW w \in Worker, TakeTask(w) PROVE EnoughAwake'
  <2>1. Waiting' = Waiting /\ Notifying' = Notifying /\ Awake' = Awake \ {w} /\ w \in Awake
    BY <1>2 DEF TakeTask, Waiting, Awake, Notifying
  <2>2. Len(task_que') = Len(task_que) - 1
    BY <1>2, HeadTailProperties DEF TakeTask
  <2>3. Cardinality(Awake') = Cardinality(Awake) - 1
    BY <2>1, OneLess, CountersFinite
  <2> QED
    BY <1>0, <2>1, <2>2, <2>3, CountersFinite DEF EnoughAwake
<1>3. ASSUME NEW w \in Worker, RunTask(w) PROVE EnoughAwake'
  <2>1. /\ Waiting' = Waiting /\ Notifying' = Notifying /\ task_que' = task_que
        /\ Awake' = Awake \cup {w} /\ w \notin Awake
    BY <1>3 DEF RunTask, Waiting, Awake, Notifying
  <2> QED
    BY <1>0, <2>1, OneMore, CountersFinite DEF EnoughAwake
<1>4. ASSUME NEW w \in Worker, Exit(w) \/ DecideWait(w) \/ CondWait(w) PROVE EnoughAwake'
  <2>1. task_que' = <<>>
    BY <1>4 DEF Exit, DecideWait, CondWait, LockInv
  <2>2. /\ IsFiniteSet(Awake') /\ Cardinality(Awake') \in Nat
        /\ IsFiniteSet(Notifying') /\ Cardinality(Notifying') \in Nat
    <3>1. IsFiniteSet(Awake') /\ IsFiniteSet(Notifying')
      BY FS_Subset DEF Awake, Notifying
    <3> QED
      BY <3>1, FS_CardinalityType
  <2> QED
    BY <2>1, <2>2 DEF EnoughAwake
<1>5. ASSUME NEW w \in Worker, SpuriousWakeup(w) PROVE EnoughAwake'
  <2>1. /\ Waiting' \subseteq Waiting /\ Notifying' = Notifying /\ task_que' = task_que
        /\ Awake' = Awake \cup {w} /\ w \notin Awake
    BY <1>5 DEF SpuriousWakeup, Waiting, Awake, Notifying
  <2> QED
    BY <1>0, <2>1, OneMore, CountersFinite DEF EnoughAwake
<1>6. ASSUME NEW c \in Caller, AddTaskLock(c) \/ DestructorLock(c) \/ SetClosed(c)
                               \/ CallDestructor(c)
      PROVE  EnoughAwake'
  BY <1>6, AwakeFrame DEF AddTaskLock, DestructorLock, Lock, SetClosed, CallDestructor,
                          Waiting, Awake, Notifying
<1>7. ASSUME NEW c \in Caller, NEW t \in Task, CallAddTask(c, t) PROVE EnoughAwake'
  BY <1>7, AwakeFrame DEF CallAddTask, Waiting, Awake, Notifying
<1>8. ASSUME NEW c \in Caller, Emplace(c) PROVE EnoughAwake'
  <2>1. /\ Waiting' = Waiting /\ Awake' = Awake
        /\ Notifying' = Notifying \cup {c} /\ c \notin Notifying
    BY <1>8 DEF Emplace, Waiting, Awake, Notifying
  <2>2. arg[c] \in Task
    BY <1>8 DEF Emplace
  <2>3. Len(task_que') = Len(task_que) + 1
    BY <1>8, <2>2, AppendProperties DEF Emplace
  <2>4. Cardinality(Notifying') = Cardinality(Notifying) + 1
    BY <2>1, OneMore, CountersFinite
  <2> QED
    BY <1>0, <2>1, <2>3, <2>4, CountersFinite DEF EnoughAwake
<1>9. ASSUME NEW c \in Caller, NotifyOne(c) PROVE EnoughAwake'
  <2>1. CASE Waiting = {}
    <3>1. Waiting' = {}
      BY <1>9, <2>1 DEF NotifyOne, Waiting
    <3> QED
      BY <3>1 DEF EnoughAwake
  <2>2. ASSUME NEW w \in Waiting, pc' = [pc EXCEPT ![w] = "lock", ![c] = "idle"]
        PROVE  EnoughAwake'
    <3>1. /\ Waiting' \subseteq Waiting /\ task_que' = task_que
          /\ Awake' = Awake \cup {w} /\ w \notin Awake
          /\ Notifying' = Notifying \ {c} /\ c \in Notifying
      BY <1>9, <2>2 DEF NotifyOne, Waiting, Awake, Notifying
    <3>2. Cardinality(Awake') = Cardinality(Awake) + 1
      BY <3>1, OneMore, CountersFinite
    <3>3. Cardinality(Notifying') = Cardinality(Notifying) - 1
      BY <3>1, OneLess, CountersFinite
    <3> QED
      BY <1>0, <3>1, <3>2, <3>3, CountersFinite DEF EnoughAwake
  <2> QED
    BY <1>9, <2>1, <2>2 DEF NotifyOne
<1>10. ASSUME NEW c \in Caller, NotifyAll(c) PROVE EnoughAwake'
  <2>1. Waiting' = {}
    BY <1>10 DEF NotifyAll, Waiting
  <2> QED
    BY <2>1 DEF EnoughAwake
<1>11. CASE UNCHANGED vars
  BY <1>11, AwakeFrame DEF vars, Waiting, Awake, Notifying
<1> QED
  BY <1>1, <1>2, <1>3, <1>4, <1>5, <1>6, <1>7, <1>8, <1>9, <1>10, <1>11 DEF Step

(* No wakeup is lost: for any number of workers, while one of them sleeps  *)
(* the queued tasks are covered by awake workers and pending notifies.     *)
THEOREM NoLostWakeup == Spec => []EnoughAwake
<1>1. Init => EnoughAwake
  BY DEF Init, EnoughAwake, Waiting, Thread
<1>2. TypeOK /\ LockInv /\ EnoughAwake /\ [Next]_vars => EnoughAwake'
  BY NextIsStep, AwakeStep
<1> QED
  BY TypeCorrect, LockCorrect, <1>1, <1>2, PTL DEF Spec

-----------------------------------------------------------------------------
(* Every task is in one place. *)

Queued == 1 .. Len(task_que)

(* The task of a call is in no other call, nor further on its way ... *)
CallApart ==
    \A c \in Caller : arg[c] # NoTask =>
        /\ arg[c] \in handed \ ran
        /\ \A d \in Caller : arg[d] = arg[c] => d = c
        /\ \A i \in Queued : task_que[i] # arg[c]
        /\ \A w \in Worker : task[w] # arg[c]

(* ... nor a queued one, nor the one a worker runs ... *)
QueueApart ==
    \A i \in Queued :
        /\ task_que[i] \in handed \ ran
        /\ \A j \in Queued : task_que[j] = task_que[i] => j = i
        /\ \A w \in Worker : task[w] # task_que[i]

RunApart ==
    \A w \in Worker : task[w] # NoTask =>
        /\ task[w] \in handed \ ran
        /\ \A v \in Worker : task[v] = task[w] => v = w

(* ... and what was handed over is somewhere. *)
Somewhere ==
    /\ ran \subseteq handed
    /\ \A t \in handed : \/ t \in ran
                         \/ \E c \in Caller : arg[c] = t
                         \/ \E i \in Queued : task_que[i] = t
                         \/ \E w \in Worker : task[w] = t

PlaceInv == CallApart /\ QueueApart /\ RunApart /\ Somewhere

LEMMA PlaceInit == Init => PlaceInv
  BY DEF Init, PlaceInv, CallApart, QueueApart, RunApart, Somewhere, Queued

(* The four steps that move a task. *)
LEMMA CallMoves ==
    ASSUME TypeOK, PlaceInv, NEW c \in Caller, NEW t \in Task, CallAddTask(c, t)
    PROVE  PlaceInv'
<1>1. /\ arg' = [arg EXCEPT ![c] = t] /\ handed' = handed \cup {t} /\ t \notin handed
      /\ UNCHANGED <<task_que, task, ran>> /\ t # NoTask /\ arg[c] = NoTask
  BY PoolAssumption DEF CallAddTask, TypeOK
<1>2. arg' \in [Caller -> Task \cup {NoTask}] /\ arg'[c] = t
      /\ \A d \in Caller \ {c} : arg'[d] = arg[d]
  BY <1>1 DEF TypeOK
<1>3. Queued' = Queued
  BY <1>1 DEF Queued
<1>4. QED
  <2>1. CallApart'
    BY <1>1, <1>2, <1>3 DEF PlaceInv, CallApart, QueueApart, RunApart, Somewhere
  <2>2. QueueApart' /\ RunApart'
    BY <1>1, <1>3 DEF PlaceInv, QueueApart, RunApart
  <2>3. Somewhere'
    <3>1. \A u \in handed : u # NoTask
      BY PoolAssumption DEF TypeOK
    <3>2. QED
      BY <1>1, <1>2, <1>3, <3>1 DEF PlaceInv, Somewhere
  <2>4. QED
    BY <2>1, <2>2, <2>3 DEF PlaceInv

LEMMA EmplaceMoves ==
    ASSUME TypeOK, PlaceInv, NEW c \in Caller, Emplace(c)
    PROVE  PlaceInv'
<1>1. /\ arg[c] \in Task /\ arg[c] # NoTask
      /\ arg' = [arg EXCEPT ![c] = NoTask] /\ task_que' = Append(task_que, arg[c])
      /\ UNCHANGED <<task, handed, ran>>
  BY PoolAssumption DEF Emplace, TypeOK
<1>2. arg' \in [Caller -> Task \cup {NoTask}] /\ arg'[c] = NoTask
      /\ \A d \in Caller \ {c} : arg'[d] = arg[d]
  BY <1>1 DEF TypeOK
<1>3. /\ Len(task_que) \in Nat /\ Queued' = 1 .. Len(task_que) + 1
      /\ task_que'[Len(task_que) + 1] = arg[c]
      /\ \A i \in Queued : task_que'[i] = task_que[i]
  BY <1>1, AppendProperties, LenProperties DEF TypeOK, Queued
<1>4. /\ Queued' = Queued \cup {Len(task_que) + 1} /\ Len(task_que) + 1 \notin Queued
  BY <1>3 DEF Queued
<1>5. QED
  <2>1. CallApart'
    BY <1>1, <1>2, <1>3, <1>4 DEF PlaceInv, CallApart
  <2>2. QueueApart'
    BY <1>1, <1>3, <1>4 DEF PlaceInv, CallApart, QueueApart
  <2>3. RunApart'
    BY <1>1 DEF PlaceInv, RunApart
  <2>4. Somewhere'
    BY <1>1, <1>2, <1>3, <1>4 DEF PlaceInv, Somewhere
  <2>5. QED
    BY <2>1, <2>2, <2>3, <2>4 DEF PlaceInv

LEMMA TakeMoves ==
    ASSUME TypeOK, PlaceInv, NEW w \in Worker, TakeTask(w)
    PROVE  PlaceInv'
<1>1. /\ task_que \in Seq(Task) /\ task_que # <<>> /\ task[w] = NoTask
      /\ task' = [task EXCEPT ![w] = Head(task_que)] /\ task_que' = Tail(task_que)
      /\ UNCHANGED <<arg, handed, ran>>
  BY DEF TakeTask, TypeOK
<1>2. /\ Len(task_que) \in Nat \ {0} /\ Queued' = 1 .. Len(task_que) - 1
      /\ Head(task_que) = task_que[1] /\ task_que[1] \in Task /\ 1 \in Queued
      /\ \A i \in Queued' : task_que'[i] = task_que[i + 1]
  BY <1>1, HeadTailProperties, EmptySeq, LenProperties, ElementOfSeq DEF Queued
<1>3. /\ \A i \in Queued' : i + 1 \in Queued /\ i + 1 # 1
      /\ \A i \in Queued \ {1} : i - 1 \in Queued' /\ task_que'[i - 1] = task_que[i]
      /\ \A i, j \in Queued' : i + 1 = j + 1 => i = j
  BY <1>2 DEF Queued
<1>4. task' \in [Worker -> Task \cup {NoTask}] /\ task'[w] = task_que[1]
      /\ \A v \in Worker \ {w} : task'[v] = task[v]
  BY <1>1, <1>2 DEF TypeOK
<1>5. task_que[1] # NoTask
  BY <1>2, PoolAssumption
<1>6. QED
  <2>1. CallApart'
    BY <1>1, <1>2, <1>3, <1>4 DEF PlaceInv, CallApart
  <2>2. QueueApart'
    BY <1>1, <1>2, <1>3, <1>4 DEF PlaceInv, QueueApart
  <2>3. RunApart'
    BY <1>1, <1>2, <1>4 DEF PlaceInv, QueueApart, RunApart
  <2>4. Somewhere'
    <3> SUFFICES ASSUME NEW u \in handed, u \notin ran, \A c \in Caller : arg[c] # u
                 PROVE  \/ \E i \in Queued' : task_que'[i] = u
                        \/ \E v \in Worker : task'[v] = u
      BY <1>1 DEF PlaceInv, Somewhere
    <3>1. CASE \E i \in Queued : task_que[i] = u
      BY <1>3, <1>4, <3>1
    <3>2. CASE \E v \in Worker : task[v] = u
      BY <1>1, <1>4, <3>2, PoolAssumption DEF TypeOK
    <3>3. QED
      BY <3>1, <3>2 DEF PlaceInv, Somewhere
  <2>5. QED
    BY <2>1, <2>2, <2>3, <2>4 DEF PlaceInv

LEMMA RunMoves ==
    ASSUME TypeOK, PlaceInv, NEW w \in Worker, RunTask(w)
    PROVE  PlaceInv'
<1>1. /\ task[w] \in Task /\ task[w] # NoTask
      /\ task' = [task EXCEPT ![w] = NoTask] /\ ran' = ran \cup {task[w]}
      /\ UNCHANGED <<task_que, arg, handed>>
  BY PoolAssumption DEF RunTask, TypeOK
<1>2. task' \in [Worker -> Task \cup {NoTask}] /\ task'[w] = NoTask
      /\ \A v \in Worker \ {w} : task'[v] = task[v]
  BY <1>1 DEF TypeOK
<1>3. Queued' = Queued /\ \A i \in Queued : task_que[i] \in Task /\ task_que[i] # NoTask
  BY <1>1, PoolAssumption, ElementOfSeq DEF Queued, TypeOK
<1>4. QED
  <2>1. CallApart'
    BY <1>1, <1>2, <1>3 DEF PlaceInv, CallApart
  <2>2. QueueApart'
    BY <1>1, <1>2, <1>3 DEF PlaceInv, QueueApart
  <2>3. RunApart'
    BY <1>1, <1>2 DEF PlaceInv, RunApart
  <2>4. Somewhere'
    BY <1>1, <1>2, <1>3 DEF PlaceInv, RunApart, Somewhere
  <2>5. QED
    BY <2>1, <2>2, <2>3, <2>4 DEF PlaceInv

LEMMA PlaceStep == TypeOK /\ PlaceInv /\ Step => PlaceInv'
<1> SUFFICES ASSUME TypeOK, PlaceInv, Step PROVE PlaceInv'
  OBVIOUS
<1>1. ASSUME UNCHANGED <<task_que, task, arg, handed, ran>> PROVE PlaceInv'
  BY <1>1 DEF PlaceInv, CallApart, QueueApart, RunApart, Somewhere, Queued
<1>2. ASSUME NEW w \in Worker, \/ WorkerLock(w) \/ Exit(w) \/ DecideWait(w)
                               \/ CondWait(w) \/ SpuriousWakeup(w)
      PROVE  PlaceInv'
  BY <1>1, <1>2 DEF WorkerLock, Lock, Exit, DecideWait, CondWait, SpuriousWakeup
<1>3. ASSUME NEW c \in Caller, \/ AddTaskLock(c) \/ NotifyOne(c) \/ DestructorLock(c)
                               \/ SetClosed(c) \/ NotifyAll(c) \/ CallDestructor(c)
      PROVE  PlaceInv'
  BY <1>1, <1>3 DEF AddTaskLock, DestructorLock, Lock, NotifyOne, SetClosed, NotifyAll,
                    CallDestructor
<1>4. CASE UNCHANGED vars
  BY <1>1, <1>4 DEF vars
<1> QED
  BY <1>2, <1>3, <1>4, CallMoves, EmplaceMoves, TakeMoves, RunMoves DEF Step

(* What the invariant says of one task, in terms of Places. *)
LEMMA PlacesOfOne ==
    ASSUME TypeOK, PlaceInv, NEW t \in Task
    PROVE  Cardinality(Places(t)) = IF t \in handed THEN 1 ELSE 0
<1>1. t # NoTask /\ DOMAIN task_que = Queued
  BY PoolAssumption, LenProperties DEF TypeOK, Queued
<1>2. CASE t \notin handed
  <2>1. Places(t) = {}
    BY <1>1, <1>2 DEF PlaceInv, CallApart, QueueApart, RunApart, Somewhere, Places
  <2>2. QED
    BY <1>2, <2>1, FS_EmptySet
<1>3. CASE t \in handed
  <2>1. CASE t \in ran
    <3>1. Places(t) = {<<"done", t>>}
      BY <1>1, <2>1 DEF PlaceInv, CallApart, QueueApart, RunApart, Places
    <3>2. QED
      BY <1>3, <3>1, FS_Singleton
  <2>2. ASSUME NEW c \in Caller, arg[c] = t PROVE Cardinality(Places(t)) = 1
    <3>1. Places(t) = {<<"call", c>>}
      BY <1>1, <2>2 DEF PlaceInv, CallApart, Places
    <3>2. QED
      BY <3>1, FS_Singleton
  <2>3. ASSUME NEW i \in Queued, task_que[i] = t PROVE Cardinality(Places(t)) = 1
    <3>1. Places(t) = {<<"queue", i>>}
      BY <1>1, <2>3 DEF PlaceInv, CallApart, QueueApart, Places
    <3>2. QED
      BY <3>1, FS_Singleton
  <2>4. ASSUME NEW w \in Worker, task[w] = t PROVE Cardinality(Places(t)) = 1
    <3>1. Places(t) = {<<"worker", w>>}
      BY <1>1, <2>4 DEF PlaceInv, CallApart, QueueApart, RunApart, Places
    <3>2. QED
      BY <3>1, FS_Singleton
  <2>5. QED
    BY <1>3, <2>1, <2>2, <2>3, <2>4 DEF PlaceInv, Somewhere
<1>4. QED
  BY <1>2, <1>3

(* No task is lost and none is run twice, for any number of workers, users *)
(* and tasks (thread_pool.hpp 36-44 and 68-77).                            *)
THEOREM ExactlyOnceAlways == Spec => []ExactlyOnce
<1>1. TypeOK /\ PlaceInv /\ [Next]_vars => PlaceInv'
  BY NextIsStep, PlaceStep
<1>2. TypeOK /\ PlaceInv => ExactlyOnce
  BY PlacesOfOne DEF ExactlyOnce
<1> QED
  BY TypeCorrect, PlaceInit, <1>1, <1>2, PTL DEF Spec

-----------------------------------------------------------------------------
(* Refinement. *)

LEMMA ServiceStep == TypeOK /\ Step => [Service!Next]_(Service!serviceVars)
<1> SUFFICES ASSUME TypeOK, Step PROVE Service!Next \/ UNCHANGED <<task_que, task>>
  BY DEF Service!serviceVars
<1> USE DEF TypeOK, Service!Next
<1>1. ASSUME NEW w \in Worker, TakeTask(w) PROVE Service!Start(w)
  BY <1>1 DEF TakeTask, Service!Start
<1>2. ASSUME NEW w \in Worker, RunTask(w) PROVE Service!Finish(w)
  BY <1>2 DEF RunTask, Service!Finish
<1>3. ASSUME NEW w \in Worker, \/ WorkerLock(w) \/ Exit(w) \/ DecideWait(w)
                               \/ CondWait(w) \/ SpuriousWakeup(w)
      PROVE  UNCHANGED <<task_que, task>>
  BY <1>3 DEF WorkerLock, Lock, Exit, DecideWait, CondWait, SpuriousWakeup
<1>4. ASSUME NEW c \in Caller, Emplace(c) PROVE Service!Submit(arg[c]) /\ arg[c] \in Task
  BY <1>4 DEF Emplace, Service!Submit
<1>5. ASSUME NEW c \in Caller, \/ AddTaskLock(c) \/ NotifyOne(c) \/ DestructorLock(c)
                               \/ SetClosed(c) \/ NotifyAll(c) \/ CallDestructor(c)
                               \/ \E t \in Task : CallAddTask(c, t)
      PROVE  UNCHANGED <<task_que, task>>
  BY <1>5 DEF AddTaskLock, DestructorLock, Lock, NotifyOne, SetClosed, NotifyAll,
              CallDestructor, CallAddTask
<1>6. CASE UNCHANGED vars
  BY <1>6 DEF vars
<1> QED
  BY <1>1, <1>2, <1>3, <1>4, <1>5, <1>6 DEF Step

(* The mutex, the condition variable and the destructor are invisible to   *)
(* the pool's users: every step of the pool is a step of TaskService or    *)
(* none.  (That tasks are also started and finished is left to TLC.)       *)
THEOREM PoolImplementsService ==
    Spec => Service!Init /\ [][Service!Next]_(Service!serviceVars)
<1>1. Init => Service!Init
  BY DEF Init, Service!Init
<1>2. TypeOK /\ [Next]_vars => [Service!Next]_(Service!serviceVars)
  BY NextIsStep, ServiceStep
<1> QED
  BY TypeCorrect, <1>1, <1>2, PTL DEF Spec
=============================================================================

----------------------------- MODULE LogProofs -----------------------------
(***************************************************************************)
(* Proofs about Log, for any number of writers and any capacity: who has   *)
(* Log::_m, that nobody waits for room in the queue with it, the way every *)
(* line takes from its call to a file, and the types.                      *)
(***************************************************************************)
EXTENDS Log, SequenceTheorems, FiniteSetTheorems, TLAPS

AnyLine == Line \cup {NoLine}

PC == WriterPC \cup {"pop", "popping", "put_lock", "put", "gone"}
               \cup {"running", "drain", "closing", "join", "final_lock", "final"}

At == {"out", "push", "pop", "pop_wait", "pop_woken",
       "close", "notify_consumers", "notify_producers"}

Types ==
    /\ pc \in [Thread -> PC]
    /\ line \in [Writer -> AnyLine]
    /\ que \in Seq(AnyLine)
    /\ item \in [Thread -> AnyLine]
    /\ at \in [Thread -> At]
    /\ \A w \in Writer : at[w] \in {"out", "push"}
    /\ at[WriteThread] \in {"out", "pop", "pop_wait", "pop_woken"}
    /\ at[Main] \in {"out", "close", "notify_consumers", "notify_producers"}

(* The parts of the code that are run with m. *)
LockInv ==
    /\ \A w \in Writer :
           m = w <=> pc[w] \in {"close_file", "open_file", "line", "pushing"}
    /\ m = WriteThread <=> pc[WriteThread] = "put"
    /\ m = Main <=> pc[Main] = "final"

(* A writer inside push has m, and there is room for its line. *)
RoomInv ==
    \A w \in Writer : at[w] = "push" => pc[w] = "pushing" /\ Len(que) < Capacity

LogInv == Types /\ LockInv /\ RoomInv

-----------------------------------------------------------------------------
LEMMA ThreadsDiffer ==
    /\ WriteThread # Main
    /\ \A w \in Writer : w # WriteThread /\ w # Main /\ w # Free
    /\ WriteThread # Free /\ Main # Free
    /\ Writer \subseteq Thread /\ WriteThread \in Thread /\ Main \in Thread
<1>1. QED
  BY LogAssumption DEF Thread

LEMMA QueThreads == Que!Thread = Thread /\ Que!Taker = {WriteThread}
<1>1. QED
  BY DEF Que!Thread, Que!Taker, Thread

LEMMA LogInit == Init => LogInv
<1>1. SUFFICES ASSUME Init PROVE LogInv
  OBVIOUS
<1>2. /\ que = <<>>
      /\ at = [t \in Thread |-> "out"]
      /\ item = [t \in Thread |-> NoLine]
  BY <1>1, QueThreads DEF Init, Que!Init
<1>3. /\ \A w \in Writer : pc[w] = "idle"
      /\ pc[WriteThread] \in {"pop", "gone"} /\ pc[Main] = "running"
      /\ pc \in [Thread -> PC] /\ m = Free
  BY <1>1, ThreadsDiffer DEF Init, PC, WriterPC
<1>4. Types
  <2>1. que \in Seq(AnyLine)
    BY <1>2
  <2>2. line \in [Writer -> AnyLine] /\ item \in [Thread -> AnyLine]
    BY <1>1, <1>2 DEF Init, AnyLine
  <2>3. at \in [Thread -> At] /\ \A t \in Thread : at[t] = "out"
    BY <1>2 DEF At
  <2>4. QED
    BY <1>3, <2>1, <2>2, <2>3, ThreadsDiffer DEF Types
<1>5. LockInv
  BY <1>3, ThreadsDiffer DEF LockInv
<1>6. RoomInv
  BY <1>2, ThreadsDiffer DEF RoomInv
<1>7. QED
  BY <1>4, <1>5, <1>6 DEF LogInv

-----------------------------------------------------------------------------
(* What a step may do to the queue while it moves t alone. *)

(* notify_one, from outside or from push: a writer that waits is not among *)
(* those it can wake, and there is none.                                   *)
LEMMA NotifyConsumerKeeps ==
    ASSUME Types, NEW t \in Thread, Que!NotifyConsumer(t, "out")
    PROVE  /\ at' \in [Thread -> At] /\ at'[t] = "out"
           /\ \A u \in Thread \ {t} :
                  \/ at'[u] = at[u]
                  \/ u = WriteThread /\ at[u] = "pop_wait" /\ at'[u] = "pop_woken"
<1>1. at \in [Thread -> At]
  BY DEF Types
<1>2. CASE \E c \in Que!ConsumersWaiting : at' = [at EXCEPT ![c] = "pop_woken", ![t] = "out"]
  <2>1. /\ at' = [at EXCEPT ![WriteThread] = "pop_woken", ![t] = "out"]
        /\ at[WriteThread] = "pop_wait"
    BY <1>2, QueThreads DEF Que!ConsumersWaiting
  <2>2. QED
    BY <1>1, <2>1, ThreadsDiffer DEF At
<1>3. CASE at' = [at EXCEPT ![t] = "out"]
  BY <1>1, <1>3, ThreadsDiffer DEF At
<1>4. QED
  BY <1>2, <1>3 DEF Que!NotifyConsumer, Que!Goto

LEMMA NotifyProducerKeeps ==
    ASSUME Types, NEW t \in Thread, Que!NotifyProducer(t, "out")
    PROVE  at' = [at EXCEPT ![t] = "out"]
<1>1. Que!ProducersWaiting = {}
  BY DEF Types, Que!ProducersWaiting
<1>2. QED
  BY <1>1 DEF Que!NotifyProducer, Que!Goto

-----------------------------------------------------------------------------
(* Steps that leave the queue alone, but may wake the write thread: a      *)
(* thread goes from one part of the code to another, and m changes hands   *)
(* accordingly.                                                            *)

QueAlone ==
    /\ line' \in [Writer -> AnyLine]
    /\ UNCHANGED <<que, item>>
    /\ at' \in [Thread -> At]
    /\ \A u \in Thread \ {WriteThread} : at'[u] = at[u]
    /\ at'[WriteThread] \in {"out", "pop", "pop_wait", "pop_woken"}

LEMMA Alone ==
    ASSUME Types, UNCHANGED <<que, at, item>>, line' \in [Writer -> AnyLine]
    PROVE  QueAlone
<1>1. QED
  BY DEF Types, QueAlone

LEMMA FlushAlone ==
    ASSUME Types, NEW t \in Writer \cup {Main}, FlushQueue(t), line' = line
    PROVE  QueAlone
<1>1. CASE Async
  <2>1. /\ at[t] = "out" /\ Que!NotifyConsumer(t, "out")
        /\ UNCHANGED <<que, item>>
    BY <1>1 DEF FlushQueue, Que!Flush
  <2>2. /\ at' \in [Thread -> At] /\ at'[t] = "out"
        /\ \A u \in Thread \ {t} :
               at'[u] = at[u] \/ (u = WriteThread /\ at'[u] = "pop_woken")
    BY <2>1, NotifyConsumerKeeps, ThreadsDiffer
  <2>3. QED
    BY <2>1, <2>2, ThreadsDiffer DEF Types, QueAlone
<1>2. CASE ~Async
  BY <1>2, Alone DEF FlushQueue, queVars, Types
<1>3. QED
  BY <1>1, <1>2

LEMMA AloneKeepsTypes ==
    ASSUME LogInv, QueAlone, pc' \in [Thread -> PC],
           \A w \in Writer : at[w] = "push" => pc'[w] = "pushing"
    PROVE  Types' /\ RoomInv'
<1>1. Types'
  BY ThreadsDiffer DEF LogInv, Types, QueAlone
<1>2. RoomInv'
  BY ThreadsDiffer DEF LogInv, RoomInv, QueAlone
<1>3. QED
  BY <1>1, <1>2

(* A writer that neither takes m nor lets it go. *)
LEMMA WriterStays ==
    ASSUME LogInv, NEW w \in Writer, QueAlone,
           at[w] = "out", NEW p \in WriterPC, Goto(w, p), m' = m,
           pc[w] \in {"close_file", "open_file", "line", "pushing"}
               <=> p \in {"close_file", "open_file", "line", "pushing"}
    PROVE  LogInv'
<1>1. pc \in [Thread -> PC] /\ pc' = [pc EXCEPT ![w] = p] /\ w \in Thread
  BY ThreadsDiffer DEF LogInv, Types, Goto
<1>2. /\ pc' \in [Thread -> PC] /\ pc'[w] = p
      /\ \A u \in Thread \ {w} : pc'[u] = pc[u]
  BY <1>1 DEF PC
<1>3. Types' /\ RoomInv'
  <2>1. \A u \in Writer : at[u] = "push" => pc'[u] = "pushing"
    BY <1>2, ThreadsDiffer DEF LogInv, RoomInv
  <2>2. QED
    BY <1>2, <2>1, AloneKeepsTypes
<1>4. LockInv'
  BY <1>2, ThreadsDiffer DEF LogInv, LockInv
<1>5. QED
  BY <1>3, <1>4 DEF LogInv

(* A thread that takes m. *)
LEMMA Locks ==
    ASSUME LogInv, NEW t \in Thread, QueAlone, NEW from, NEW p, Lock(t, from, p),
           \/ t \in Writer /\ p \in {"close_file", "line"}
              /\ from \in {"roll_lock", "line_lock"}
           \/ t = WriteThread /\ p = "put" /\ from = "put_lock"
           \/ t = Main /\ p = "final" /\ from = "final_lock"
    PROVE  LogInv'
<1>1. pc \in [Thread -> PC] /\ pc' = [pc EXCEPT ![t] = p] /\ m = Free /\ m' = t /\ pc[t] = from
  BY DEF LogInv, Types, Goto, Lock
<1>2. /\ pc' \in [Thread -> PC] /\ pc'[t] = p
      /\ \A u \in Thread \ {t} : pc'[u] = pc[u]
  BY <1>1 DEF PC, WriterPC
<1>3. Types' /\ RoomInv'
  <2>1. \A u \in Writer : at[u] = "push" => pc'[u] = "pushing"
    BY <1>1, <1>2, ThreadsDiffer DEF LogInv, RoomInv
  <2>2. QED
    BY <1>2, <2>1, AloneKeepsTypes
<1>4. LockInv'
  BY <1>1, <1>2, ThreadsDiffer DEF LogInv, LockInv
<1>5. QED
  BY <1>3, <1>4 DEF LogInv

(* A thread that lets m go. *)
LEMMA Unlocks ==
    ASSUME LogInv, NEW t \in Thread, QueAlone, NEW p, Goto(t, p), m' = Free,
           \/ t \in Writer /\ p \in {"line_lock", "flush"} /\ at[t] = "out"
              /\ pc[t] \in {"close_file", "open_file", "line", "pushing"}
           \/ t = WriteThread /\ p = "pop" /\ pc[t] = "put"
           \/ t = Main /\ p = "gone" /\ pc[t] = "final"
    PROVE  LogInv'
<1>1. pc \in [Thread -> PC] /\ pc' = [pc EXCEPT ![t] = p]
  BY DEF LogInv, Types, Goto
<1>2. /\ pc' \in [Thread -> PC] /\ pc'[t] = p
      /\ \A u \in Thread \ {t} : pc'[u] = pc[u]
  BY <1>1 DEF PC, WriterPC
<1>3. m = t
  BY ThreadsDiffer DEF LogInv, LockInv
<1>4. Types' /\ RoomInv'
  <2>1. \A u \in Writer : at[u] = "push" => pc'[u] = "pushing"
    BY <1>2, ThreadsDiffer DEF LogInv, RoomInv
  <2>2. QED
    BY <1>2, <2>1, AloneKeepsTypes
<1>5. LockInv'
  BY <1>2, <1>3, ThreadsDiffer DEF LogInv, LockInv
<1>6. QED
  BY <1>4, <1>5 DEF LogInv

(* Another step of the write thread or of Main. *)
LEMMA OtherStays ==
    ASSUME LogInv, NEW t \in {WriteThread, Main}, QueAlone, NEW p \in PC, Goto(t, p), m' = m,
           pc[t] \notin {"put", "final"}, p \notin {"put", "final"}
    PROVE  LogInv'
<1>1. pc \in [Thread -> PC] /\ pc' = [pc EXCEPT ![t] = p] /\ t \in Thread
  BY ThreadsDiffer DEF LogInv, Types, Goto
<1>2. /\ pc' \in [Thread -> PC] /\ pc'[t] = p
      /\ \A u \in Thread \ {t} : pc'[u] = pc[u]
  BY <1>1
<1>3. Types' /\ RoomInv'
  <2>1. \A u \in Writer : at[u] = "push" => pc'[u] = "pushing"
    BY <1>2, ThreadsDiffer DEF LogInv, RoomInv
  <2>2. QED
    BY <1>2, <2>1, AloneKeepsTypes
<1>4. LockInv'
  BY <1>2, ThreadsDiffer DEF LogInv, LockInv
<1>5. QED
  BY <1>3, <1>4 DEF LogInv

LEMMA WriterKeeps ==
    ASSUME LogInv, NEW w \in Writer, WriterStep(w) \/ (\E l \in Line : CallLog(w, l))
    PROVE  LogInv'
<1>1. Types /\ w \in Thread /\ line \in [Writer -> AnyLine]
  BY ThreadsDiffer DEF LogInv, Types
<1>2. pc[w] # "pushing" => at[w] = "out"
  BY DEF LogInv, Types, RoomInv
<1>3. CASE \E l \in Line : CallLog(w, l)
  <2>1. PICK l \in Line : CallLog(w, l)
    BY <1>3
  <2>2. line' \in [Writer -> AnyLine] /\ UNCHANGED <<que, at, item>>
    BY <1>1, <2>1 DEF CallLog, queVars, AnyLine
  <2>3. QueAlone
    BY <1>1, <2>2, Alone
  <2>4. pc[w] = "idle" /\ Goto(w, "test") /\ m' = m
    BY <2>1 DEF CallLog
  <2>5. QED
    BY <1>2, <2>3, <2>4, WriterStays DEF WriterPC
<1>4. CASE TestRotation(w)
  <2>1. QueAlone
    BY <1>1, <1>4, Alone DEF TestRotation, queVars
  <2>2. PICK p \in {"name", "line_lock"} : pc[w] = "test" /\ Goto(w, p) /\ m' = m
    BY <1>4, Zenon DEF TestRotation
  <2>3. QED
    BY <1>2, <2>1, <2>2, WriterStays DEF WriterPC
<1>5. CASE NameFile(w)
  <2>1. QueAlone
    BY <1>1, <1>5, Alone DEF NameFile, queVars
  <2>2. pc[w] = "name" /\ Goto(w, "roll_lock") /\ m' = m
    BY <1>5 DEF NameFile
  <2>3. QED
    BY <1>2, <2>1, <2>2, WriterStays DEF WriterPC
<1>6. CASE RollLock(w)
  <2>1. QueAlone
    BY <1>1, <1>6, Alone DEF RollLock, queVars
  <2>2. QED
    BY <1>1, <1>6, <2>1, Locks DEF RollLock
<1>7. CASE CloseFile(w)
  <2>1. QueAlone
    BY <1>1, <1>7, FlushAlone DEF CloseFile
  <2>2. pc[w] = "close_file" /\ Goto(w, "open_file") /\ m' = m
    BY <1>7 DEF CloseFile
  <2>3. QED
    BY <1>2, <2>1, <2>2, WriterStays DEF WriterPC
<1>8. CASE OpenFile(w)
  <2>1. QueAlone
    BY <1>1, <1>8, Alone DEF OpenFile, queVars
  <2>2. pc[w] = "open_file" /\ Goto(w, "line_lock") /\ m' = Free
    BY <1>8 DEF OpenFile
  <2>3. QED
    BY <1>1, <1>2, <2>1, <2>2, Unlocks
<1>9. CASE LineLock(w)
  <2>1. QueAlone
    BY <1>1, <1>9, Alone DEF LineLock, queVars
  <2>2. QED
    BY <1>1, <1>9, <2>1, Locks DEF LineLock
<1>10. CASE PutLine(w)
  <2>1. /\ pc[w] = "line" /\ pc' = [pc EXCEPT ![w] = "pushing"] /\ m' = m /\ line' = line
        /\ at' = [at EXCEPT ![w] = "push"] /\ item' = [item EXCEPT ![w] = line[w]]
        /\ que' = que /\ ~ (Len(que) >= Capacity)
    BY <1>10 DEF PutLine, Queues, Que!full, Que!CallPush, Que!Goto, Goto, logVars
  <2>2. /\ pc' \in [Thread -> PC] /\ pc'[w] = "pushing"
        /\ \A u \in Thread \ {w} : pc'[u] = pc[u]
    BY <1>1, <2>1 DEF Types, PC, WriterPC
  <2>3. /\ at' \in [Thread -> At] /\ at'[w] = "push"
        /\ \A u \in Thread \ {w} : at'[u] = at[u]
    BY <1>1, <2>1 DEF Types, At
  <2>4. item' \in [Thread -> AnyLine]
    BY <1>1, <2>1 DEF Types
  <2>5. Types'
    BY <1>1, <2>1, <2>2, <2>3, <2>4, ThreadsDiffer DEF Types
  <2>6. LockInv'
    BY <2>1, <2>2, ThreadsDiffer DEF LogInv, LockInv
  <2>7. Len(que) < Capacity
    BY <1>1, <2>1, LogAssumption, LenProperties DEF Types
  <2>8. RoomInv'
    BY <2>1, <2>2, <2>3, <2>7, ThreadsDiffer DEF LogInv, RoomInv
  <2>9. QED
    BY <2>5, <2>6, <2>8 DEF LogInv
<1>11. CASE PushReturns(w)
  <2>1. line' \in [Writer -> AnyLine] /\ UNCHANGED <<que, at, item>>
    BY <1>1, <1>11 DEF PushReturns, queVars, AnyLine
  <2>2. QueAlone
    BY <1>1, <2>1, Alone
  <2>3. pc[w] = "pushing" /\ at[w] = "out" /\ Goto(w, "flush") /\ m' = Free
    BY <1>11 DEF PushReturns
  <2>4. QED
    BY <1>1, <2>2, <2>3, Unlocks
<1>12. CASE PutDirect(w)
  <2>1. line' \in [Writer -> AnyLine] /\ UNCHANGED <<que, at, item>>
    BY <1>1, <1>12 DEF PutDirect, queVars, AnyLine
  <2>2. QueAlone
    BY <1>1, <2>1, Alone
  <2>3. pc[w] = "line" /\ Goto(w, "flush") /\ m' = Free
    BY <1>12 DEF PutDirect
  <2>4. QED
    BY <1>1, <1>2, <2>2, <2>3, Unlocks
<1>13. CASE FlushNotify(w)
  <2>1. QueAlone
    BY <1>1, <1>13, FlushAlone DEF FlushNotify, logVars
  <2>2. pc[w] = "flush" /\ Goto(w, "load_fp") /\ m' = m
    BY <1>13 DEF FlushNotify, logVars
  <2>3. QED
    BY <1>2, <2>1, <2>2, WriterStays DEF WriterPC
<1>14. CASE LoadFile(w)
  <2>1. QueAlone
    BY <1>1, <1>14, Alone DEF LoadFile, queVars
  <2>2. pc[w] = "load_fp" /\ Goto(w, "fflush") /\ m' = m
    BY <1>14 DEF LoadFile
  <2>3. QED
    BY <1>2, <2>1, <2>2, WriterStays DEF WriterPC
<1>15. CASE FlushFile(w)
  <2>1. QueAlone
    BY <1>1, <1>15, Alone DEF FlushFile, queVars, logVars
  <2>2. pc[w] = "fflush" /\ Goto(w, "idle") /\ m' = m
    BY <1>15 DEF FlushFile, logVars
  <2>3. QED
    BY <1>2, <2>1, <2>2, WriterStays DEF WriterPC
<1>16. CASE CrashOnFlush(w) \/ OpenFails(w)
  <2>1. UNCHANGED <<pc, line, m, que, at, item>>
    BY <1>16 DEF CrashOnFlush, OpenFails, logVars, queVars
  <2>2. QED
    BY <2>1 DEF LogInv, Types, LockInv, RoomInv
<1>17. QED
  BY <1>3, <1>4, <1>5, <1>6, <1>7, <1>8, <1>9, <1>10, <1>11, <1>12, <1>13, <1>14, <1>15, <1>16
     DEF WriterStep

LEMMA WriteThreadKeeps ==
    ASSUME LogInv, WriteThreadStep
    PROVE  LogInv'
<1>1. Types /\ line \in [Writer -> AnyLine]
  BY DEF LogInv, Types
<1>2. CASE PopLine
  <2>1. /\ pc[WriteThread] = "pop" /\ Goto(WriteThread, "popping") /\ m' = m /\ line' = line
        /\ at' = [at EXCEPT ![WriteThread] = "pop"] /\ UNCHANGED <<que, item>>
    BY <1>2 DEF PopLine, Que!CallPop, Que!Goto, logVars
  <2>2. QueAlone
    BY <1>1, <2>1, ThreadsDiffer DEF Types, QueAlone, At
  <2>3. QED
    BY <2>1, <2>2, OtherStays DEF PC
<1>3. CASE PopReturns
  <2>1. QueAlone
    BY <1>1, <1>3, Alone DEF PopReturns, queVars, logVars
  <2>2. PICK p \in {"put_lock", "gone"} :
            pc[WriteThread] = "popping" /\ Goto(WriteThread, p) /\ m' = m
    BY <1>3, Zenon DEF PopReturns, logVars
  <2>3. QED
    BY <2>1, <2>2, OtherStays DEF PC
<1>4. CASE PutLock
  <2>1. QueAlone
    BY <1>1, <1>4, Alone DEF PutLock, queVars
  <2>2. QED
    BY <1>4, <2>1, Locks, ThreadsDiffer DEF PutLock
<1>5. CASE PutInFile
  <2>1. QueAlone
    BY <1>1, <1>5, Alone DEF PutInFile, queVars
  <2>2. pc[WriteThread] = "put" /\ Goto(WriteThread, "pop") /\ m' = Free
    BY <1>5 DEF PutInFile
  <2>3. QED
    BY <2>1, <2>2, Unlocks, ThreadsDiffer
<1>6. QED
  BY <1>2, <1>3, <1>4, <1>5 DEF WriteThreadStep

LEMMA MainKeeps ==
    ASSUME LogInv, BeginExit \/ MainStep
    PROVE  LogInv'
<1>1. Types /\ line \in [Writer -> AnyLine]
  BY DEF LogInv, Types
<1>2. CASE BeginExit
  <2>1. QueAlone
    BY <1>1, <1>2, Alone DEF BeginExit, queVars, logVars
  <2>2. PICK p \in {"drain", "final_lock"} : pc[Main] = "running" /\ Goto(Main, p) /\ m' = m
    BY <1>2, Zenon DEF BeginExit, logVars
  <2>3. QED
    BY <2>1, <2>2, OtherStays DEF PC
<1>3. CASE Drain
  <2>1. /\ UNCHANGED <<pc, m, line, que, item>>
        /\ at[Main] = "out" /\ Que!NotifyConsumer(Main, "out")
    BY <1>3 DEF Drain, logVars, Que!Flush
  <2>2. /\ at' \in [Thread -> At] /\ at'[Main] = "out"
        /\ \A u \in Thread \ {Main} :
               at'[u] = at[u] \/ (u = WriteThread /\ at'[u] = "pop_woken")
    BY <1>1, <2>1, NotifyConsumerKeeps, ThreadsDiffer
  <2>3. QueAlone
    BY <1>1, <2>1, <2>2, ThreadsDiffer DEF Types, QueAlone
  <2>4. Types' /\ RoomInv'
    <3>1. pc' \in [Thread -> PC] /\ \A w \in Writer : at[w] = "push" => pc'[w] = "pushing"
      BY <1>1, <2>1 DEF LogInv, Types, RoomInv
    <3>2. QED
      BY <2>3, <3>1, AloneKeepsTypes
  <2>5. LockInv'
    BY <2>1 DEF LogInv, LockInv
  <2>6. QED
    BY <2>4, <2>5 DEF LogInv
<1>4. CASE CloseQueue
  <2>1. /\ pc[Main] = "drain" /\ pc' = [pc EXCEPT ![Main] = "closing"]
        /\ at' = [at EXCEPT ![Main] = "close"]
        /\ UNCHANGED <<m, line, que, item>>
    BY <1>4 DEF CloseQueue, Que!CallClose, Que!Goto, Goto, logVars
  <2>2. /\ pc' \in [Thread -> PC] /\ pc'[Main] = "closing"
        /\ \A u \in Thread \ {Main} : pc'[u] = pc[u]
    BY <1>1, <2>1, ThreadsDiffer DEF Types, PC
  <2>3. /\ at' \in [Thread -> At] /\ at'[Main] = "close"
        /\ \A u \in Thread \ {Main} : at'[u] = at[u]
    BY <1>1, <2>1, ThreadsDiffer DEF Types, At
  <2>4. Types'
    BY <1>1, <2>1, <2>2, <2>3, ThreadsDiffer DEF Types
  <2>5. LockInv'
    BY <2>1, <2>2, ThreadsDiffer DEF LogInv, LockInv
  <2>6. RoomInv'
    BY <2>1, <2>2, <2>3, ThreadsDiffer DEF LogInv, RoomInv
  <2>7. QED
    BY <2>4, <2>5, <2>6 DEF LogInv
<1>5. CASE CloseReturns
  <2>1. QueAlone
    BY <1>1, <1>5, Alone DEF CloseReturns, queVars, logVars
  <2>2. pc[Main] = "closing" /\ Goto(Main, "join") /\ m' = m
    BY <1>5 DEF CloseReturns, logVars
  <2>3. QED
    BY <2>1, <2>2, OtherStays DEF PC
<1>6. CASE Join
  <2>1. QueAlone
    BY <1>1, <1>6, Alone DEF Join, queVars, logVars
  <2>2. pc[Main] = "join" /\ Goto(Main, "final_lock") /\ m' = m
    BY <1>6 DEF Join, logVars
  <2>3. QED
    BY <2>1, <2>2, OtherStays DEF PC
<1>7. CASE FinalLock
  <2>1. QueAlone
    BY <1>1, <1>7, Alone DEF FinalLock, queVars
  <2>2. QED
    BY <1>7, <2>1, Locks, ThreadsDiffer DEF FinalLock
<1>8. CASE FinalClose
  <2>1. QueAlone
    BY <1>1, <1>8, FlushAlone DEF FinalClose
  <2>2. pc[Main] = "final" /\ Goto(Main, "gone") /\ m' = Free
    BY <1>8 DEF FinalClose
  <2>3. QED
    BY <2>1, <2>2, Unlocks, ThreadsDiffer
<1>9. QED
  BY <1>2, <1>3, <1>4, <1>5, <1>6, <1>7, <1>8 DEF MainStep

-----------------------------------------------------------------------------
(* Steps inside the queue. *)

(* A step of the queue's code that moves t and, if the queue does not      *)
(* grow, leaves room for a writer that is about to push.                   *)
LEMMA QueueMoves ==
    ASSUME LogInv, NEW t \in Thread, UNCHANGED <<pc, m, line>>,
           que' \in Seq(AnyLine), item' \in [Thread -> AnyLine], at' \in [Thread -> At],
           \A w \in Writer : at'[w] = at[w] \/ (w = t /\ at'[w] = "out"),
           at'[WriteThread] \in {"out", "pop", "pop_wait", "pop_woken"},
           at'[Main] \in {"out", "close", "notify_consumers", "notify_producers"},
           \/ Len(que') <= Len(que)
           \/ t \in Writer /\ at[t] = "push" /\ at'[t] = "out"
    PROVE  LogInv'
<1>1. Types'
  BY DEF LogInv, Types
<1>2. LockInv'
  BY DEF LogInv, LockInv
<1>3. RoomInv'
  <2>1. SUFFICES ASSUME NEW w \in Writer, at'[w] = "push"
                 PROVE  pc'[w] = "pushing" /\ Len(que') < Capacity
    BY DEF RoomInv
  <2>2. at[w] = "push" /\ pc[w] = "pushing" /\ Len(que) < Capacity
    BY <2>1 DEF LogInv, RoomInv
  <2>3. CASE Len(que') <= Len(que)
    <3>1. Len(que) \in Nat /\ Len(que') \in Nat /\ Capacity \in Nat
      BY LogAssumption, LenProperties DEF LogInv, Types
    <3>2. QED
      BY <2>2, <2>3, <3>1
  <2>4. CASE t \in Writer /\ at[t] = "push" /\ at'[t] = "out"
    <3>1. t # w /\ pc[t] = "pushing"
      BY <2>1, <2>4 DEF LogInv, RoomInv
    <3>2. m = t /\ m = w
      BY <2>2, <2>4, <3>1 DEF LogInv, LockInv
    <3>3. QED
      BY <3>1, <3>2
  <2>5. QED
    BY <2>2, <2>3, <2>4
<1>4. QED
  BY <1>1, <1>2, <1>3 DEF LogInv

LEMMA QueStepKeeps ==
    ASSUME LogInv, NEW t \in Thread, QueStep(t) \/ QueWakeup(t)
    PROVE  LogInv'
<1>1. /\ que \in Seq(AnyLine) /\ item \in [Thread -> AnyLine] /\ at \in [Thread -> At]
      /\ Len(que) \in Nat /\ Types
      /\ \A w \in Writer : at[w] \in {"out", "push"}
      /\ at[WriteThread] \in {"out", "pop", "pop_wait", "pop_woken"}
      /\ at[Main] \in {"out", "close", "notify_consumers", "notify_producers"}
      /\ t \in Writer \cup {WriteThread, Main}
  BY LenProperties DEF LogInv, Types, Thread
<1>2. UNCHANGED <<pc, m, line>>
  BY DEF QueStep, QueWakeup, logVars
<1>3. CASE Que!PushBlocks(t)
  <2>1. at[t] \in {"push", "push_woken"} /\ Len(que) >= Capacity
    BY <1>3 DEF Que!PushBlocks, Que!GoesOn, Que!full
  <2>2. t \in Writer /\ Len(que) < Capacity
    BY <1>1, <2>1 DEF LogInv, RoomInv
  <2>3. QED
    BY <1>1, <2>1, <2>2, LogAssumption
<1>4. CASE Que!PushItem(t)
  <2>1. /\ at[t] \in {"push", "push_woken"}
        /\ que' = Append(que, item[t]) /\ item' = item
        /\ Que!NotifyConsumer(t, "out")
    BY <1>4 DEF Que!PushItem, Que!GoesOn
  <2>2. t \in Writer /\ at[t] = "push"
    BY <1>1, <2>1
  <2>3. /\ at' \in [Thread -> At] /\ at'[t] = "out"
        /\ \A u \in Thread \ {t} :
               at'[u] = at[u] \/ (u = WriteThread /\ at'[u] = "pop_woken")
    BY <1>1, <2>1, NotifyConsumerKeeps
  <2>4. que' \in Seq(AnyLine)
    BY <1>1, <2>1, AppendProperties
  <2>5. QED
    BY <1>1, <1>2, <2>1, <2>2, <2>3, <2>4, QueueMoves, ThreadsDiffer
<1>5. CASE Que!PopBlocks(t)
  <2>1. at[t] \in {"pop", "pop_woken"} /\ at' = [at EXCEPT ![t] = "pop_wait"]
        /\ UNCHANGED <<que, item>>
    BY <1>5 DEF Que!PopBlocks, Que!GoesOn, Que!Goto
  <2>2. t = WriteThread
    BY <1>1, <2>1
  <2>3. at' \in [Thread -> At] /\ at'[t] = "pop_wait" /\ \A u \in Thread \ {t} : at'[u] = at[u]
    BY <1>1, <2>1 DEF At
  <2>4. QED
    BY <1>1, <1>2, <2>1, <2>2, <2>3, QueueMoves, ThreadsDiffer
<1>6. CASE Que!PopItem(t)
  <2>1. /\ at[t] \in {"pop", "pop_woken"} /\ que # <<>>
        /\ item' = [item EXCEPT ![t] = Head(que)] /\ que' = Tail(que)
        /\ Que!NotifyProducer(t, "out")
    BY <1>6 DEF Que!PopItem, Que!GoesOn, Que!empty
  <2>2. t = WriteThread
    BY <1>1, <2>1
  <2>3. at' = [at EXCEPT ![t] = "out"]
    BY <1>1, <2>1, NotifyProducerKeeps
  <2>4. at' \in [Thread -> At] /\ at'[t] = "out" /\ \A u \in Thread \ {t} : at'[u] = at[u]
    BY <1>1, <2>3 DEF At
  <2>5. /\ Head(que) \in AnyLine /\ que' \in Seq(AnyLine)
        /\ Len(que') = Len(que) - 1
    BY <1>1, <2>1, HeadTailProperties
  <2>6. item' \in [Thread -> AnyLine] /\ Len(que') <= Len(que)
    BY <1>1, <2>1, <2>5
  <2>7. QED
    BY <1>1, <1>2, <2>2, <2>4, <2>5, <2>6, QueueMoves, ThreadsDiffer
<1>7. CASE Que!FoundClosed(t)
  <2>1. at[t] \in {"push_woken", "pop_woken"} /\ at' = [at EXCEPT ![t] = "out"]
        /\ UNCHANGED <<que, item>>
    BY <1>7 DEF Que!FoundClosed, Que!Goto
  <2>2. t = WriteThread
    BY <1>1, <2>1
  <2>3. at' \in [Thread -> At] /\ at'[t] = "out" /\ \A u \in Thread \ {t} : at'[u] = at[u]
    BY <1>1, <2>1 DEF At
  <2>4. QED
    BY <1>1, <1>2, <2>1, <2>2, <2>3, QueueMoves, ThreadsDiffer
<1>8. ~ Que!TimedOut(t)
  BY DEF Que!TimedOut
<1>9. CASE Que!SpuriousWakeup(t)
  <2>1. \/ at[t] = "push_wait"
        \/ at[t] = "pop_wait" /\ at' = [at EXCEPT ![t] = "pop_woken"]
    BY <1>9 DEF Que!SpuriousWakeup, Que!Goto
  <2>2. t = WriteThread /\ at' = [at EXCEPT ![t] = "pop_woken"] /\ UNCHANGED <<que, item>>
    BY <1>1, <1>9, <2>1 DEF Que!SpuriousWakeup
  <2>3. at' \in [Thread -> At] /\ at'[t] = "pop_woken" /\ \A u \in Thread \ {t} : at'[u] = at[u]
    BY <1>1, <2>2 DEF At
  <2>4. QED
    BY <1>1, <1>2, <2>2, <2>3, QueueMoves, ThreadsDiffer
<1>10. CASE Que!SetClosed(t)
  <2>1. at[t] = "close" /\ at' = [at EXCEPT ![t] = "notify_consumers"]
        /\ UNCHANGED <<que, item>>
    BY <1>10 DEF Que!SetClosed, Que!Goto
  <2>2. t = Main
    BY <1>1, <2>1
  <2>3. at' \in [Thread -> At] /\ at'[t] = "notify_consumers"
        /\ \A u \in Thread \ {t} : at'[u] = at[u]
    BY <1>1, <2>1 DEF At
  <2>4. QED
    BY <1>1, <1>2, <2>1, <2>2, <2>3, QueueMoves, ThreadsDiffer
<1>11. CASE Que!NotifyConsumers(t)
  <2>1. at[t] = "notify_consumers" /\ UNCHANGED <<que, item>>
        /\ at' = [u \in Thread |-> IF u = t THEN "notify_producers"
                                   ELSE IF u \in Que!ConsumersWaiting THEN "pop_woken"
                                   ELSE at[u]]
    BY <1>11, QueThreads DEF Que!NotifyConsumers
  <2>2. t = Main /\ Que!ConsumersWaiting \subseteq {WriteThread}
    BY <1>1, <2>1, QueThreads DEF Que!ConsumersWaiting
  <2>3. /\ at' \in [Thread -> At] /\ at'[t] = "notify_producers"
        /\ \A u \in Writer : at'[u] = at[u]
        /\ at'[WriteThread] \in {"pop_woken", at[WriteThread]}
    BY <1>1, <2>1, <2>2, ThreadsDiffer DEF At
  <2>4. QED
    BY <1>1, <1>2, <2>1, <2>2, <2>3, QueueMoves
<1>12. CASE Que!NotifyProducers(t)
  <2>1. at[t] = "notify_producers" /\ UNCHANGED <<que, item>>
        /\ at' = [u \in Thread |-> IF u = t THEN "out"
                                   ELSE IF u \in Que!ProducersWaiting THEN "push_woken"
                                   ELSE at[u]]
    BY <1>12, QueThreads DEF Que!NotifyProducers
  <2>2. t = Main /\ Que!ProducersWaiting = {}
    BY <1>1, <2>1 DEF Que!ProducersWaiting
  <2>3. /\ at' \in [Thread -> At] /\ at'[t] = "out"
        /\ \A u \in Thread \ {t} : at'[u] = at[u]
    BY <1>1, <2>1, <2>2 DEF At
  <2>4. QED
    BY <1>1, <1>2, <2>1, <2>2, <2>3, QueueMoves, ThreadsDiffer
<1>13. QED
  BY <1>3, <1>4, <1>5, <1>6, <1>7, <1>8, <1>9, <1>10, <1>11, <1>12
     DEF QueStep, QueWakeup, Que!Step

LEMMA LogStep == LogInv /\ [Next]_vars => LogInv'
<1>1. SUFFICES ASSUME LogInv, [Next]_vars PROVE LogInv'
  OBVIOUS
<1>2. CASE Midnight \/ UNCHANGED vars
  <2>1. UNCHANGED <<pc, m, line, que, at, item>>
    BY <1>2 DEF Midnight, vars, logVars, queVars
  <2>2. QED
    BY <1>1, <2>1 DEF LogInv, Types, LockInv, RoomInv
<1>3. CASE LogWriters
  BY <1>1, <1>3, WriterKeeps DEF LogWriters
<1>4. CASE WriteThreadStep
  BY <1>1, <1>4, WriteThreadKeeps
<1>5. CASE BeginExit \/ MainStep
  BY <1>1, <1>5, MainKeeps
<1>6. CASE QueSteps
  BY <1>1, <1>6, QueStepKeeps DEF QueSteps
<1>7. QED
  BY <1>1, <1>2, <1>3, <1>4, <1>5, <1>6 DEF Next

LEMMA LogAlways == Spec => []LogInv
<1>1. QED
  BY LogInit, LogStep, PTL DEF Spec

(* A writer that pushes with Log::_m in its hand never has to wait for the *)
(* write thread, which needs m itself (log.cc 111-112), for any number of  *)
(* writers and any capacity of the queue.                                  *)
THEOREM NeverWaitsWithLock == Spec => []NoWaitWithLock
<1>1. LogInv => NoWaitWithLock
  BY DEF LogInv, Types, NoWaitWithLock, Que!ProducersWaiting
<1>2. QED
  BY <1>1, LogAlways, PTL

(* One thread at a time has the FILE: it closes and opens it, writes to    *)
(* it, or pushes (log.cc 82-87, 91-117, 160-163, 184-185). *)
Using(t) == \/ t \in Writer /\ pc[t] \in {"close_file", "open_file", "line", "pushing"}
            \/ t = WriteThread /\ pc[t] = "put"
            \/ t = Main /\ pc[t] = "final"

THEOREM OneUser == Spec => [](\A t, u \in Thread : Using(t) /\ Using(u) => t = u)
<1>1. LogInv => \A t, u \in Thread : Using(t) /\ Using(u) => t = u
  BY ThreadsDiffer DEF LogInv, LockInv, Using
<1>2. QED
  BY <1>1, LogAlways, PTL

-----------------------------------------------------------------------------
(* Where the lines are.  A writer has the line of its call until push has  *)
(* queued it, the write thread what pop has given it until it is written.  *)

NoLinePC == {"idle", "flush", "load_fp", "fflush"}

Held == [w \in Writer |-> IF pc[w] # "pushing" THEN line[w]
                          ELSE IF at[w] = "push" THEN item[w] ELSE NoLine]

HasTaken == \/ pc[WriteThread] \in {"put_lock", "put"}
            \/ pc[WriteThread] = "popping" /\ at[WriteThread] = "out" /\ ok[WriteThread]

Taken == IF HasTaken THEN item[WriteThread] ELSE NoLine

Written(l) == \E e \in written : e[1] = l

Queued == 1 .. Len(que)

(* What the steps rely on when they pass a line on. *)
TieInv ==
    /\ ok \in [Thread -> BOOLEAN]
    /\ \A w \in Writer : pc[w] \in NoLinePC <=> line[w] = NoLine
    /\ \A w \in Writer : at[w] = "push" => item[w] # NoLine
    /\ at[WriteThread] # "out" => pc[WriteThread] = "popping"
    /\ HasTaken => item[WriteThread] # NoLine

HeldApart ==
    \A w \in Writer : Held[w] # NoLine =>
        /\ Held[w] \in logged /\ ~ Written(Held[w])
        /\ \A v \in Writer : Held[v] = Held[w] => v = w
        /\ \A i \in Queued : que[i] # Held[w]
        /\ Taken # Held[w]

QueueApart ==
    \A i \in Queued :
        /\ que[i] \in logged /\ ~ Written(que[i])
        /\ \A j \in Queued : que[j] = que[i] => j = i
        /\ Taken # que[i]

TakenApart == Taken # NoLine => Taken \in logged /\ ~ Written(Taken)

FilesApart == \A e \in written : /\ e[1] \in logged
                                 /\ \A f \in written : f[1] = e[1] => f = e

Somewhere == \A l \in logged : \/ Written(l)
                               \/ \E w \in Writer : Held[w] = l
                               \/ \E i \in Queued : que[i] = l
                               \/ Taken = l

FlowInv == /\ logged \subseteq Line
           /\ que \in Seq(AnyLine) /\ Held \in [Writer -> AnyLine]
           /\ HeldApart /\ QueueApart /\ TakenApart /\ FilesApart /\ Somewhere

(* The ways of a line. *)
Call(w, l) == /\ l \notin logged /\ logged' = logged \cup {l}
              /\ Held[w] = NoLine /\ Held' = [Held EXCEPT ![w] = l]
              /\ que' = que /\ Taken' = Taken /\ written' = written

Enqueue(w) == /\ Held[w] # NoLine /\ Held' = [Held EXCEPT ![w] = NoLine]
              /\ que' = Append(que, Held[w])
              /\ Taken' = Taken /\ UNCHANGED <<written, logged>>

WriteHeld(w) == /\ Held[w] # NoLine /\ Held' = [Held EXCEPT ![w] = NoLine]
                /\ \E p : written' = written \cup {<<Held[w], p>>}
                /\ Taken' = Taken /\ UNCHANGED <<que, logged>>

Dequeue == /\ que # <<>> /\ Taken = NoLine
           /\ Taken' = Head(que) /\ que' = Tail(que)
           /\ Held' = Held /\ UNCHANGED <<written, logged>>

WriteTaken == /\ Taken' = NoLine
              /\ \E p : written' = written \cup {<<Taken, p>>}
              /\ Held' = Held /\ UNCHANGED <<que, logged>>

Still == Held' = Held /\ Taken' = Taken /\ UNCHANGED <<que, written, logged>>

Flow == \/ \E w \in Writer : Enqueue(w) \/ WriteHeld(w) \/ (\E l \in Line : Call(w, l))
        \/ Dequeue
        \/ Taken # NoLine /\ WriteTaken
        \/ Still

LEMMA CallKeeps ==
    ASSUME FlowInv, NEW w \in Writer, NEW l \in Line, Call(w, l)
    PROVE  FlowInv'
<1>1. l # NoLine /\ Held' \in [Writer -> AnyLine] /\ Held'[w] = l
      /\ \A v \in Writer \ {w} : Held'[v] = Held[v]
  BY LogAssumption DEF FlowInv, Call, AnyLine
<1>2. Queued' = Queued /\ \A x : Written(x)' <=> Written(x)
  BY DEF Call, Queued, Written
<1>3. ~ Written(l)
  BY DEF FlowInv, FilesApart, Call, Written
<1>4. HeldApart'
  BY <1>1, <1>2, <1>3 DEF FlowInv, HeldApart, QueueApart, TakenApart, Call
<1>5. QueueApart' /\ TakenApart' /\ FilesApart'
  BY <1>2 DEF FlowInv, QueueApart, TakenApart, FilesApart, Call
<1>6. Somewhere'
  <2>1. \A x \in logged : x # NoLine
    BY LogAssumption DEF FlowInv
  <2>2. QED
    BY <1>1, <1>2, <2>1 DEF FlowInv, Somewhere, Call
<1>7. QED
  BY <1>1, <1>4, <1>5, <1>6 DEF FlowInv, Call

LEMMA EnqueueKeeps ==
    ASSUME FlowInv, NEW w \in Writer, Enqueue(w)
    PROVE  FlowInv'
<1>1. Held' \in [Writer -> AnyLine] /\ Held'[w] = NoLine
      /\ \A v \in Writer \ {w} : Held'[v] = Held[v]
  BY DEF FlowInv, Enqueue, AnyLine
<1>2. \A x : Written(x)' <=> Written(x)
  BY DEF Enqueue, Written
<1>3. Held[w] \in AnyLine /\ que' \in Seq(AnyLine) /\ Len(que) \in Nat
      /\ Queued' = 1 .. Len(que) + 1
      /\ que'[Len(que) + 1] = Held[w] /\ \A i \in Queued : que'[i] = que[i]
  BY AppendProperties, LenProperties DEF FlowInv, Enqueue, Queued
<1>4. Queued' = Queued \cup {Len(que) + 1} /\ Len(que) + 1 \notin Queued
  BY <1>3 DEF Queued
<1>5. HeldApart'
  BY <1>1, <1>2, <1>3, <1>4 DEF FlowInv, HeldApart, Enqueue
<1>6. QueueApart'
  BY <1>2, <1>3, <1>4 DEF FlowInv, HeldApart, QueueApart, Enqueue
<1>7. TakenApart' /\ FilesApart'
  BY <1>2 DEF FlowInv, TakenApart, FilesApart, Enqueue
<1>8. Somewhere'
  BY <1>1, <1>2, <1>3, <1>4 DEF FlowInv, Somewhere, Enqueue
<1>9. QED
  BY <1>1, <1>3, <1>5, <1>6, <1>7, <1>8 DEF FlowInv, Enqueue

LEMMA OneMoreWritten ==
    ASSUME NEW l, NEW p, written' = written \cup {<<l, p>>}
    PROVE  \A x : Written(x)' <=> Written(x) \/ x = l
<1>1. SUFFICES ASSUME NEW x PROVE Written(x)' <=> Written(x) \/ x = l
  OBVIOUS
<1>2. <<l, p>>[1] = l /\ <<l, p>> \in written' /\ \A e \in written : e \in written'
  OBVIOUS
<1>3. ASSUME Written(x)' PROVE Written(x) \/ x = l
  <2>1. PICK e \in written' : e[1] = x
    BY <1>3 DEF Written
  <2>2. e \in written \/ e = <<l, p>>
    BY <2>1
  <2>3. QED
    BY <1>2, <2>1, <2>2 DEF Written
<1>4. Written(x) \/ x = l => Written(x)'
  BY <1>2 DEF Written
<1>5. QED
  BY <1>3, <1>4

LEMMA WriteHeldKeeps ==
    ASSUME FlowInv, NEW w \in Writer, WriteHeld(w)
    PROVE  FlowInv'
<1>1. Held' \in [Writer -> AnyLine] /\ Held'[w] = NoLine
      /\ \A v \in Writer \ {w} : Held'[v] = Held[v]
  BY DEF FlowInv, WriteHeld, AnyLine
<1>2. PICK p : written' = written \cup {<<Held[w], p>>}
  BY DEF WriteHeld
<1>3. Queued' = Queued /\ \A x : Written(x)' <=> Written(x) \/ x = Held[w]
  BY <1>2, OneMoreWritten DEF WriteHeld, Queued
<1>4. HeldApart'
  BY <1>1, <1>3 DEF FlowInv, HeldApart, WriteHeld
<1>5. QueueApart' /\ TakenApart'
  BY <1>3 DEF FlowInv, HeldApart, QueueApart, TakenApart, WriteHeld
<1>6. FilesApart'
  BY <1>2 DEF FlowInv, HeldApart, FilesApart, WriteHeld, Written
<1>7. Somewhere'
  BY <1>1, <1>3 DEF FlowInv, Somewhere, WriteHeld
<1>8. QED
  BY <1>1, <1>4, <1>5, <1>6, <1>7 DEF FlowInv, WriteHeld

LEMMA DequeueKeeps ==
    ASSUME FlowInv, Dequeue
    PROVE  FlowInv'
<1>1. /\ Len(que) \in Nat \ {0} /\ Queued' = 1 .. Len(que) - 1 /\ que' \in Seq(AnyLine)
      /\ Taken' = que[1] /\ 1 \in Queued
      /\ \A i \in Queued' : que'[i] = que[i + 1]
  BY HeadTailProperties, EmptySeq, LenProperties DEF FlowInv, Dequeue, Queued
<1>2. /\ \A i \in Queued' : i + 1 \in Queued /\ i + 1 # 1
      /\ \A i \in Queued \ {1} : i - 1 \in Queued' /\ que'[i - 1] = que[i]
      /\ \A i, j \in Queued' : i + 1 = j + 1 => i = j
  BY <1>1 DEF Queued
<1>3. \A x : Written(x)' <=> Written(x)
  BY DEF Dequeue, Written
<1>4. HeldApart'
  BY <1>1, <1>2, <1>3 DEF FlowInv, HeldApart, Dequeue
<1>5. QueueApart'
  BY <1>1, <1>2, <1>3 DEF FlowInv, QueueApart, Dequeue
<1>6. TakenApart' /\ FilesApart'
  BY <1>1, <1>3 DEF FlowInv, QueueApart, FilesApart, TakenApart, Dequeue
<1>7. Somewhere'
  <2>1. SUFFICES ASSUME NEW l \in logged, ~ Written(l), \A w \in Writer : Held[w] # l
                 PROVE  (\E i \in Queued' : que'[i] = l) \/ Taken' = l
    BY <1>3 DEF Somewhere, Dequeue
  <2>2. Taken # l
    BY LogAssumption DEF FlowInv, Dequeue
  <2>3. PICK i \in Queued : que[i] = l
    BY <2>1, <2>2 DEF FlowInv, Somewhere
  <2>4. QED
    BY <1>1, <1>2, <2>3
<1>8. QED
  BY <1>1, <1>4, <1>5, <1>6, <1>7 DEF FlowInv, Dequeue

LEMMA WriteTakenKeeps ==
    ASSUME FlowInv, Taken # NoLine, WriteTaken
    PROVE  FlowInv'
<1>1. PICK p : written' = written \cup {<<Taken, p>>}
  BY DEF WriteTaken
<1>2. Queued' = Queued /\ \A x : Written(x)' <=> Written(x) \/ x = Taken
  BY <1>1, OneMoreWritten DEF WriteTaken, Queued
<1>3. \A i \in Queued : que[i] # NoLine
  BY LogAssumption DEF FlowInv, QueueApart
<1>4. HeldApart' /\ QueueApart' /\ TakenApart'
  BY <1>2, <1>3 DEF FlowInv, HeldApart, QueueApart, TakenApart, WriteTaken
<1>5. FilesApart'
  BY <1>1 DEF FlowInv, TakenApart, FilesApart, WriteTaken, Written
<1>6. Somewhere'
  BY <1>2 DEF FlowInv, Somewhere, WriteTaken
<1>7. QED
  BY <1>4, <1>5, <1>6 DEF FlowInv, WriteTaken

LEMMA FlowKeeps == ASSUME FlowInv, Flow PROVE FlowInv'
<1>1. CASE Still
  BY <1>1 DEF Still, FlowInv, HeldApart, QueueApart, TakenApart, FilesApart, Somewhere,
              Queued, Written
<1>2. QED
  BY <1>1, CallKeeps, EnqueueKeeps, WriteHeldKeeps, DequeueKeeps, WriteTakenKeeps DEF Flow

-----------------------------------------------------------------------------
(* Every step takes a line one of these ways, or moves none. *)

LineInv == LogInv /\ TieInv

LEMMA FlowInit == Init => TieInv /\ FlowInv
<1>1. SUFFICES ASSUME Init PROVE TieInv /\ FlowInv
  OBVIOUS
<1>2. /\ que = <<>>
      /\ at = [t \in Thread |-> "out"]
      /\ ok = [t \in Thread |-> TRUE]
  BY <1>1, QueThreads DEF Init, Que!Init
<1>3. /\ \A w \in Writer : pc[w] = "idle" /\ line[w] = NoLine
      /\ pc[WriteThread] \in {"pop", "gone"}
      /\ logged = {} /\ written = {}
  BY <1>1, ThreadsDiffer DEF Init
<1>4. TieInv
  BY <1>2, <1>3, ThreadsDiffer DEF TieInv, HasTaken, NoLinePC
<1>5. Held = [w \in Writer |-> NoLine] /\ Taken = NoLine /\ Queued = {}
  BY <1>2, <1>3 DEF Held, Taken, HasTaken, Queued
<1>6. FlowInv
  BY <1>2, <1>3, <1>5 DEF FlowInv, HeldApart, QueueApart, TakenApart, FilesApart, Somewhere, AnyLine
<1>7. QED
  BY <1>4, <1>6

(* The queue and the write thread as they were, or the write thread woken. *)
QueQuiet == /\ UNCHANGED <<que, item, ok>>
            /\ \A w \in Writer : at'[w] = at[w]
            /\ at'[WriteThread] = "out" <=> at[WriteThread] = "out"

LEMMA FlushQuiet ==
    ASSUME Types, NEW t \in Writer \cup {Main}, FlushQueue(t) \/ Que!Flush(t)
    PROVE  QueQuiet
<1>1. CASE Que!Flush(t)
  <2>1. /\ at[t] = "out" /\ Que!NotifyConsumer(t, "out")
        /\ UNCHANGED <<que, item, ok>>
    BY <1>1 DEF Que!Flush
  <2>2. /\ at'[t] = "out"
        /\ \A u \in Thread \ {t} :
               \/ at'[u] = at[u]
               \/ u = WriteThread /\ at[u] = "pop_wait" /\ at'[u] = "pop_woken"
    BY <2>1, NotifyConsumerKeeps, ThreadsDiffer
  <2>3. QED
    BY <2>1, <2>2, ThreadsDiffer DEF QueQuiet
<1>2. CASE UNCHANGED queVars
  BY <1>2 DEF QueQuiet, queVars
<1>3. QED
  BY <1>1, <1>2 DEF FlushQueue

(* Nobody's line moves when no thread passes a point where one would. *)
LEMMA NothingMoves ==
    ASSUME LineInv, UNCHANGED <<que, line, logged, written>>,
           ok' \in [Thread -> BOOLEAN],
           \A w \in Writer : /\ at'[w] = at[w] /\ item'[w] = item[w]
                             /\ pc'[w] = "pushing" <=> pc[w] = "pushing"
                             /\ pc'[w] \in NoLinePC <=> pc[w] \in NoLinePC,
           HasTaken' <=> HasTaken, item'[WriteThread] = item[WriteThread],
           at'[WriteThread] # "out" => pc'[WriteThread] = "popping"
    PROVE  Still /\ TieInv'
<1>1. Held' = Held
  BY DEF Held
<1>2. Taken' = Taken
  BY DEF Taken
<1>3. TieInv'
  BY DEF LineInv, TieInv
<1>4. QED
  BY <1>1, <1>2, <1>3 DEF Still

LEMMA OneGoesOn ==
    ASSUME LineInv, QueQuiet, UNCHANGED <<line, logged, written>>,
           NEW t \in Writer \cup {Main}, NEW p, Goto(t, p),
           t = Main \/ (/\ pc[t] # "pushing" /\ p # "pushing"
                        /\ p \in NoLinePC <=> pc[t] \in NoLinePC)
    PROVE  Still /\ TieInv'
<1>1. /\ \A u \in Thread \ {t} : pc'[u] = pc[u]
      /\ t \in Writer => pc'[t] = p
  BY ThreadsDiffer DEF LineInv, LogInv, Types, Goto
<1>2. \A w \in Writer : /\ pc'[w] = "pushing" <=> pc[w] = "pushing"
                        /\ pc'[w] \in NoLinePC <=> pc[w] \in NoLinePC
  BY <1>1, ThreadsDiffer
<1>3. pc'[WriteThread] = pc[WriteThread]
  BY <1>1, ThreadsDiffer
<1>4. HasTaken' <=> HasTaken
  BY <1>3 DEF HasTaken, QueQuiet
<1>5. QED
  BY <1>2, <1>3, <1>4, NothingMoves DEF QueQuiet, LineInv, TieInv

LEMMA WriterFlows ==
    ASSUME LineInv, NEW w \in Writer, WriterStep(w) \/ (\E l \in Line : CallLog(w, l))
    PROVE  Flow /\ TieInv'
<1>1. /\ Types /\ w \in Thread /\ pc \in [Thread -> PC] /\ line \in [Writer -> AnyLine]
      /\ item \in [Thread -> AnyLine] /\ at \in [Thread -> At]
      /\ pc[w] # "pushing" => at[w] = "out"
  BY ThreadsDiffer DEF LineInv, LogInv, Types, RoomInv
<1>2. UNCHANGED queVars => QueQuiet
  BY DEF QueQuiet, queVars
<1>3. CASE \E l \in Line : CallLog(w, l)
  <2>1. PICK l \in Line : CallLog(w, l)
    BY <1>3
  <2>2. /\ pc[w] = "idle" /\ pc' = [pc EXCEPT ![w] = "test"]
        /\ line' = [line EXCEPT ![w] = l] /\ l # NoLine
        /\ l \notin logged /\ logged' = logged \cup {l}
        /\ UNCHANGED <<que, at, item, ok, written>>
    BY <2>1, LogAssumption DEF CallLog, Goto, queVars
  <2>3. Held[w] = NoLine /\ Held' = [Held EXCEPT ![w] = l]
    <3>1. /\ pc'[w] = "test" /\ line'[w] = l /\ line[w] = NoLine
          /\ \A u \in Writer \ {w} : pc'[u] = pc[u] /\ line'[u] = line[u]
      BY <1>1, <2>2, ThreadsDiffer DEF LineInv, TieInv, NoLinePC
    <3>2. QED
      BY <2>2, <3>1 DEF Held
  <2>4. Taken' = Taken
    BY <1>1, <2>2, ThreadsDiffer DEF Taken, HasTaken
  <2>5. TieInv'
    BY <1>1, <2>2, ThreadsDiffer DEF LineInv, TieInv, HasTaken, NoLinePC
  <2>6. QED
    BY <2>1, <2>2, <2>3, <2>4, <2>5 DEF Flow, Call
<1>4. CASE TestRotation(w)
  <2>1. PICK p \in {"name", "line_lock"} : pc[w] = "test" /\ Goto(w, p)
    BY <1>4, Zenon DEF TestRotation
  <2>2. QED
    BY <1>2, <1>4, <2>1, OneGoesOn DEF TestRotation, NoLinePC, Flow
<1>5. CASE NameFile(w)
  BY <1>2, <1>5, OneGoesOn DEF NameFile, NoLinePC, Flow
<1>6. CASE RollLock(w)
  BY <1>2, <1>6, OneGoesOn DEF RollLock, Lock, NoLinePC, Flow
<1>7. CASE CloseFile(w)
  BY <1>1, <1>7, FlushQuiet, OneGoesOn DEF CloseFile, NoLinePC, Flow
<1>8. CASE OpenFile(w)
  BY <1>2, <1>8, OneGoesOn DEF OpenFile, NoLinePC, Flow
<1>9. CASE LineLock(w)
  BY <1>2, <1>9, OneGoesOn DEF LineLock, Lock, NoLinePC, Flow
<1>10. CASE PutLine(w)
  <2>1. /\ pc[w] = "line" /\ pc' = [pc EXCEPT ![w] = "pushing"]
        /\ at' = [at EXCEPT ![w] = "push"] /\ item' = [item EXCEPT ![w] = line[w]]
        /\ UNCHANGED <<line, que, ok, logged, written>>
    BY <1>10 DEF PutLine, Que!CallPush, Que!Goto, Goto, logVars
  <2>2. /\ pc'[w] = "pushing" /\ at'[w] = "push" /\ item'[w] = line[w]
        /\ \A u \in Thread \ {w} : pc'[u] = pc[u] /\ at'[u] = at[u] /\ item'[u] = item[u]
    BY <1>1, <2>1
  <2>3. Held' = Held
    BY <2>1, <2>2, ThreadsDiffer DEF Held
  <2>4. Taken' = Taken
    BY <2>1, <2>2, ThreadsDiffer DEF Taken, HasTaken
  <2>5. TieInv'
    BY <2>1, <2>2, ThreadsDiffer DEF LineInv, TieInv, HasTaken, NoLinePC
  <2>6. QED
    BY <2>1, <2>3, <2>4, <2>5 DEF Flow, Still
<1>11. CASE PushReturns(w)
  <2>1. /\ pc[w] = "pushing" /\ at[w] = "out" /\ pc' = [pc EXCEPT ![w] = "flush"]
        /\ line' = [line EXCEPT ![w] = NoLine]
        /\ UNCHANGED <<que, at, item, ok, logged, written>>
    BY <1>11 DEF PushReturns, Goto, queVars
  <2>2. /\ pc'[w] = "flush" /\ line'[w] = NoLine
        /\ \A u \in Thread \ {w} : pc'[u] = pc[u]
        /\ \A u \in Writer \ {w} : line'[u] = line[u]
    BY <1>1, <2>1
  <2>3. Held' = Held
    BY <2>1, <2>2, ThreadsDiffer DEF Held
  <2>4. Taken' = Taken
    BY <2>1, <2>2, ThreadsDiffer DEF Taken, HasTaken
  <2>5. TieInv'
    BY <2>1, <2>2, ThreadsDiffer DEF LineInv, TieInv, HasTaken, NoLinePC
  <2>6. QED
    BY <2>1, <2>3, <2>4, <2>5 DEF Flow, Still
<1>12. CASE PutDirect(w)
  <2>1. /\ pc[w] = "line" /\ pc' = [pc EXCEPT ![w] = "flush"]
        /\ line' = [line EXCEPT ![w] = NoLine]
        /\ written' = written \cup {<<line[w], fp.path>>}
        /\ UNCHANGED <<que, at, item, ok, logged>>
    BY <1>12 DEF PutDirect, Goto, queVars
  <2>2. /\ pc'[w] = "flush" /\ line'[w] = NoLine
        /\ \A u \in Thread \ {w} : pc'[u] = pc[u]
        /\ \A u \in Writer \ {w} : line'[u] = line[u]
    BY <1>1, <2>1
  <2>3. Held[w] = line[w] /\ line[w] # NoLine
    BY <2>1 DEF Held, LineInv, TieInv, NoLinePC
  <2>4. Held' = [Held EXCEPT ![w] = NoLine]
    BY <2>1, <2>2, ThreadsDiffer, ZenonT(60) DEF Held
  <2>5. Taken' = Taken
    BY <2>1, <2>2, ThreadsDiffer DEF Taken, HasTaken
  <2>6. TieInv'
    BY <2>1, <2>2, ThreadsDiffer DEF LineInv, TieInv, HasTaken, NoLinePC
  <2>7. QED
    BY <2>1, <2>3, <2>4, <2>5, <2>6 DEF Flow, WriteHeld
<1>13. CASE FlushNotify(w)
  BY <1>1, <1>13, FlushQuiet, OneGoesOn DEF FlushNotify, NoLinePC, Flow, logVars
<1>14. CASE LoadFile(w)
  BY <1>2, <1>14, OneGoesOn DEF LoadFile, NoLinePC, Flow
<1>15. CASE FlushFile(w)
  BY <1>2, <1>15, OneGoesOn DEF FlushFile, NoLinePC, Flow, logVars
<1>16. CASE CrashOnFlush(w) \/ OpenFails(w)
  BY <1>16, NothingMoves
     DEF CrashOnFlush, OpenFails, LineInv, TieInv, HasTaken, Flow, logVars, queVars
<1>17. QED
  BY <1>3, <1>4, <1>5, <1>6, <1>7, <1>8, <1>9, <1>10, <1>11, <1>12, <1>13, <1>14, <1>15, <1>16
     DEF WriterStep

LEMMA WriteThreadFlows ==
    ASSUME LineInv, WriteThreadStep
    PROVE  Flow /\ TieInv'
<1>1. /\ pc \in [Thread -> PC] /\ item \in [Thread -> AnyLine] /\ at \in [Thread -> At]
      /\ at[WriteThread] # "out" => pc[WriteThread] = "popping"
  BY DEF LineInv, LogInv, Types, TieInv
<1>2. CASE PopLine
  <2>1. /\ pc[WriteThread] = "pop" /\ pc' = [pc EXCEPT ![WriteThread] = "popping"]
        /\ at' = [at EXCEPT ![WriteThread] = "pop"]
        /\ UNCHANGED <<que, item, ok, line, logged, written>>
    BY <1>2 DEF PopLine, Que!CallPop, Que!Goto, Goto, logVars
  <2>2. /\ pc'[WriteThread] = "popping" /\ at'[WriteThread] = "pop"
        /\ \A w \in Writer : pc'[w] = pc[w] /\ at'[w] = at[w]
    BY <1>1, <2>1, ThreadsDiffer
  <2>3. ~ HasTaken /\ ~ HasTaken'
    BY <2>1, <2>2 DEF HasTaken
  <2>4. QED
    BY <2>1, <2>2, <2>3, NothingMoves DEF LineInv, TieInv, Flow
<1>3. CASE PopReturns
  <2>1. /\ pc[WriteThread] = "popping" /\ at[WriteThread] = "out"
        /\ UNCHANGED <<que, at, item, ok, line, logged, written>>
    BY <1>3 DEF PopReturns, queVars, logVars
  <2>2. PICK p \in {"put_lock", "gone"} : /\ Goto(WriteThread, p)
                                          /\ p = "put_lock" <=> ok[WriteThread]
    BY <1>3 DEF PopReturns
  <2>3. /\ pc'[WriteThread] = p /\ \A w \in Writer : pc'[w] = pc[w]
    BY <1>1, <2>2, ThreadsDiffer DEF Goto
  <2>4. HasTaken' <=> HasTaken
    BY <2>1, <2>2, <2>3 DEF HasTaken
  <2>5. QED
    BY <2>1, <2>3, <2>4, NothingMoves DEF LineInv, TieInv, Flow
<1>4. CASE PutLock
  <2>1. /\ pc[WriteThread] = "put_lock" /\ pc' = [pc EXCEPT ![WriteThread] = "put"]
        /\ UNCHANGED <<que, at, item, ok, line, logged, written>>
    BY <1>4 DEF PutLock, Lock, Goto, queVars
  <2>2. /\ pc'[WriteThread] = "put" /\ \A w \in Writer : pc'[w] = pc[w]
    BY <1>1, <2>1, ThreadsDiffer
  <2>3. HasTaken' <=> HasTaken
    BY <2>1, <2>2 DEF HasTaken
  <2>4. QED
    BY <1>1, <2>1, <2>2, <2>3, NothingMoves DEF LineInv, TieInv, Flow
<1>5. CASE PutInFile
  <2>1. /\ pc[WriteThread] = "put" /\ pc' = [pc EXCEPT ![WriteThread] = "pop"]
        /\ written' = written \cup {<<item[WriteThread], fp.path>>}
        /\ UNCHANGED <<que, at, item, ok, line, logged>>
    BY <1>5 DEF PutInFile, Goto, queVars
  <2>2. /\ pc'[WriteThread] = "pop" /\ \A w \in Writer : pc'[w] = pc[w]
    BY <1>1, <2>1, ThreadsDiffer
  <2>3. Taken = item[WriteThread] /\ Taken # NoLine /\ Taken' = NoLine
    BY <2>1, <2>2 DEF Taken, HasTaken, LineInv, TieInv
  <2>4. Held' = Held
    BY <2>1, <2>2 DEF Held
  <2>5. TieInv'
    BY <1>1, <2>1, <2>2 DEF LineInv, TieInv, HasTaken
  <2>6. WriteTaken
    BY <2>1, <2>3, <2>4 DEF WriteTaken
  <2>7. QED
    BY <2>3, <2>5, <2>6 DEF Flow
<1>6. QED
  BY <1>2, <1>3, <1>4, <1>5 DEF WriteThreadStep

LEMMA MainFlows ==
    ASSUME LineInv, BeginExit \/ MainStep
    PROVE  Flow /\ TieInv'
<1>1. /\ Types /\ at \in [Thread -> At] /\ pc \in [Thread -> PC]
  BY DEF LineInv, LogInv, Types
<1>2. UNCHANGED queVars => QueQuiet
  BY DEF QueQuiet, queVars
<1>3. CASE BeginExit
  <2>1. PICK p : Goto(Main, p)
    BY <1>3, Zenon DEF BeginExit
  <2>2. QED
    BY <1>2, <1>3, <2>1, OneGoesOn DEF BeginExit, logVars, Flow
<1>4. CASE Drain
  <2>1. QueQuiet /\ UNCHANGED <<pc, line, logged, written>>
    BY <1>1, <1>4, FlushQuiet DEF Drain, logVars
  <2>2. HasTaken' <=> HasTaken
    BY <2>1 DEF HasTaken, QueQuiet
  <2>3. QED
    BY <2>1, <2>2, NothingMoves DEF QueQuiet, LineInv, TieInv, Flow
<1>5. CASE CloseQueue
  <2>1. /\ Goto(Main, "closing") /\ at' = [at EXCEPT ![Main] = "close"]
        /\ UNCHANGED <<que, item, ok, line, logged, written>>
    BY <1>5 DEF CloseQueue, Que!CallClose, Que!Goto, logVars
  <2>2. QueQuiet
    BY <1>1, <2>1, ThreadsDiffer DEF QueQuiet
  <2>3. QED
    BY <2>1, <2>2, OneGoesOn DEF Flow
<1>6. CASE CloseReturns
  BY <1>2, <1>6, OneGoesOn DEF CloseReturns, logVars, Flow
<1>7. CASE Join
  BY <1>2, <1>7, OneGoesOn DEF Join, logVars, Flow
<1>8. CASE FinalLock
  BY <1>2, <1>8, OneGoesOn DEF FinalLock, Lock, Flow
<1>9. CASE FinalClose
  BY <1>1, <1>9, FlushQuiet, OneGoesOn DEF FinalClose, Flow
<1>10. QED
  BY <1>3, <1>4, <1>5, <1>6, <1>7, <1>8, <1>9 DEF MainStep

(* A step of the queue's code that takes nothing in or out. *)
LEMMA QueueStays ==
    ASSUME LineInv, QueQuiet, UNCHANGED <<pc, line, logged, written>>
    PROVE  Flow /\ TieInv'
<1>1. HasTaken' <=> HasTaken
  BY DEF HasTaken, QueQuiet
<1>2. QED
  BY <1>1, NothingMoves DEF QueQuiet, LineInv, TieInv, Flow

LEMMA QueStepFlows ==
    ASSUME LineInv, FlowInv, NEW t \in Thread, QueStep(t) \/ QueWakeup(t)
    PROVE  Flow /\ TieInv'
<1>1. /\ que \in Seq(AnyLine) /\ item \in [Thread -> AnyLine] /\ at \in [Thread -> At]
      /\ Len(que) \in Nat /\ Types /\ ok \in [Thread -> BOOLEAN]
      /\ \A w \in Writer : at[w] \in {"out", "push"}
      /\ at[WriteThread] \in {"out", "pop", "pop_wait", "pop_woken"}
      /\ at[Main] \in {"out", "close", "notify_consumers", "notify_producers"}
      /\ at[WriteThread] # "out" => pc[WriteThread] = "popping"
      /\ t \in Writer \cup {WriteThread, Main}
  BY LenProperties DEF LineInv, LogInv, Types, TieInv, Thread
<1>2. UNCHANGED <<pc, line, logged, written>>
  BY DEF QueStep, QueWakeup, logVars
<1>3. CASE Que!PushBlocks(t)
  <2>1. at[t] \in {"push", "push_woken"} /\ Len(que) >= Capacity
    BY <1>3 DEF Que!PushBlocks, Que!GoesOn, Que!full
  <2>2. t \in Writer /\ Len(que) < Capacity
    BY <1>1, <2>1 DEF LineInv, LogInv, RoomInv
  <2>3. QED
    BY <1>1, <2>1, <2>2, LogAssumption
<1>4. CASE Que!PushItem(t)
  <2>1. /\ at[t] \in {"push", "push_woken"}
        /\ que' = Append(que, item[t]) /\ item' = item /\ ok' = [ok EXCEPT ![t] = TRUE]
        /\ Que!NotifyConsumer(t, "out")
    BY <1>4 DEF Que!PushItem, Que!GoesOn
  <2>2. t \in Writer /\ at[t] = "push" /\ pc[t] = "pushing" /\ item[t] # NoLine
    BY <1>1, <2>1 DEF LineInv, LogInv, RoomInv, TieInv
  <2>3. /\ at'[t] = "out"
        /\ \A u \in Thread \ {t} :
               \/ at'[u] = at[u]
               \/ u = WriteThread /\ at[u] = "pop_wait" /\ at'[u] = "pop_woken"
    BY <1>1, <2>1, NotifyConsumerKeeps
  <2>4. ok' \in [Thread -> BOOLEAN] /\ ok'[WriteThread] = ok[WriteThread]
    BY <1>1, <2>1, <2>2, ThreadsDiffer
  <2>5. Held[t] = item[t] /\ Held' = [Held EXCEPT ![t] = NoLine]
    BY <1>2, <2>1, <2>2, <2>3, ThreadsDiffer DEF Held
  <2>6. HasTaken' <=> HasTaken
    BY <1>2, <2>2, <2>3, <2>4, ThreadsDiffer DEF HasTaken
  <2>7. TieInv'
    BY <1>2, <2>1, <2>2, <2>3, <2>4, <2>6, ThreadsDiffer DEF LineInv, TieInv
  <2>8. Taken' = Taken
    BY <2>1, <2>6 DEF Taken
  <2>9. QED
    BY <1>2, <2>1, <2>2, <2>5, <2>7, <2>8 DEF Enqueue, Flow
<1>5. CASE Que!PopBlocks(t)
  <2>1. at[t] \in {"pop", "pop_woken"} /\ at' = [at EXCEPT ![t] = "pop_wait"]
        /\ UNCHANGED <<que, item, ok>>
    BY <1>5 DEF Que!PopBlocks, Que!GoesOn, Que!Goto
  <2>2. QueQuiet
    BY <1>1, <2>1, ThreadsDiffer DEF QueQuiet
  <2>3. QED
    BY <1>2, <2>2, QueueStays
<1>6. CASE Que!PopItem(t)
  <2>1. /\ at[t] \in {"pop", "pop_woken"} /\ que # <<>>
        /\ item' = [item EXCEPT ![t] = Head(que)] /\ que' = Tail(que)
        /\ ok' = [ok EXCEPT ![t] = TRUE] /\ Que!NotifyProducer(t, "out")
    BY <1>6 DEF Que!PopItem, Que!GoesOn, Que!empty
  <2>2. t = WriteThread /\ pc[WriteThread] = "popping"
    BY <1>1, <2>1
  <2>3. at' = [at EXCEPT ![t] = "out"]
    BY <1>1, <2>1, NotifyProducerKeeps
  <2>4. /\ at'[WriteThread] = "out" /\ item'[WriteThread] = Head(que) /\ ok'[WriteThread]
        /\ ok' \in [Thread -> BOOLEAN]
        /\ \A w \in Writer : at'[w] = at[w] /\ item'[w] = item[w]
    BY <1>1, <2>1, <2>2, <2>3, ThreadsDiffer
  <2>5. Taken = NoLine /\ Taken' = Head(que)
    BY <1>2, <2>1, <2>2, <2>4 DEF Taken, HasTaken
  <2>6. Held' = Held
    BY <1>2, <2>4 DEF Held
  <2>7. Head(que) # NoLine
    <3>1. 1 \in Queued /\ Head(que) = que[1]
      BY <1>1, <2>1, EmptySeq DEF Queued
    <3>2. QED
      BY <3>1, LogAssumption DEF FlowInv, QueueApart
  <2>8. TieInv'
    BY <1>2, <2>2, <2>4, <2>7 DEF LineInv, TieInv
  <2>9. QED
    BY <1>2, <2>1, <2>5, <2>6, <2>8 DEF Dequeue, Flow
<1>7. CASE Que!FoundClosed(t)
  <2>1. /\ at[t] \in {"push_woken", "pop_woken"} /\ at' = [at EXCEPT ![t] = "out"]
        /\ ok' = [ok EXCEPT ![t] = FALSE] /\ UNCHANGED <<que, item>>
    BY <1>7 DEF Que!FoundClosed, Que!Goto
  <2>2. t = WriteThread /\ pc[WriteThread] = "popping"
    BY <1>1, <2>1
  <2>3. /\ at'[WriteThread] = "out" /\ ~ ok'[WriteThread] /\ ok' \in [Thread -> BOOLEAN]
        /\ \A w \in Writer : at'[w] = at[w]
    BY <1>1, <2>1, <2>2, ThreadsDiffer
  <2>4. ~ HasTaken /\ ~ HasTaken'
    BY <1>2, <2>1, <2>2, <2>3 DEF HasTaken
  <2>5. QED
    BY <1>2, <2>1, <2>3, <2>4, NothingMoves DEF Flow
<1>8. ~ Que!TimedOut(t)
  BY DEF Que!TimedOut
<1>9. CASE Que!SpuriousWakeup(t)
  <2>1. /\ at[t] = "push_wait" \/ (at[t] = "pop_wait" /\ at' = [at EXCEPT ![t] = "pop_woken"])
        /\ UNCHANGED <<que, item, ok>>
    BY <1>9 DEF Que!SpuriousWakeup, Que!Goto
  <2>2. QueQuiet
    BY <1>1, <2>1, ThreadsDiffer DEF QueQuiet
  <2>3. QED
    BY <1>2, <2>2, QueueStays
<1>10. CASE Que!SetClosed(t)
  <2>1. at[t] = "close" /\ at' = [at EXCEPT ![t] = "notify_consumers"]
        /\ UNCHANGED <<que, item, ok>>
    BY <1>10 DEF Que!SetClosed, Que!Goto
  <2>2. QueQuiet
    BY <1>1, <2>1, ThreadsDiffer DEF QueQuiet
  <2>3. QED
    BY <1>2, <2>2, QueueStays
<1>11. CASE Que!NotifyConsumers(t)
  <2>1. at[t] = "notify_consumers" /\ UNCHANGED <<que, item, ok>>
        /\ at' = [u \in Thread |-> IF u = t THEN "notify_producers"
                                   ELSE IF u \in Que!ConsumersWaiting THEN "pop_woken"
                                   ELSE at[u]]
    BY <1>11, QueThreads DEF Que!NotifyConsumers
  <2>2. t = Main /\ \A u \in Que!ConsumersWaiting : u = WriteThread /\ at[u] = "pop_wait"
    BY <1>1, <2>1, QueThreads DEF Que!ConsumersWaiting
  <2>3. QueQuiet
    BY <2>1, <2>2, ThreadsDiffer DEF QueQuiet
  <2>4. QED
    BY <1>2, <2>3, QueueStays
<1>12. CASE Que!NotifyProducers(t)
  <2>1. at[t] = "notify_producers" /\ UNCHANGED <<que, item, ok>>
        /\ at' = [u \in Thread |-> IF u = t THEN "out"
                                   ELSE IF u \in Que!ProducersWaiting THEN "push_woken"
                                   ELSE at[u]]
    BY <1>12, QueThreads DEF Que!NotifyProducers
  <2>2. t = Main /\ Que!ProducersWaiting = {}
    BY <1>1, <2>1 DEF Que!ProducersWaiting
  <2>3. QueQuiet
    BY <2>1, <2>2, ThreadsDiffer DEF QueQuiet
  <2>4. QED
    BY <1>2, <2>3, QueueStays
<1>13. QED
  BY <1>3, <1>4, <1>5, <1>6, <1>7, <1>8, <1>9, <1>10, <1>11, <1>12
     DEF QueStep, QueWakeup, Que!Step

LEMMA FlowStep == LineInv /\ FlowInv /\ [Next]_vars => TieInv' /\ FlowInv'
<1>1. SUFFICES ASSUME LineInv, FlowInv, [Next]_vars PROVE Flow /\ TieInv'
  BY FlowKeeps
<1>2. CASE Midnight \/ UNCHANGED vars
  <2>1. UNCHANGED <<pc, line, logged, written, queVars>>
    BY <1>2 DEF Midnight, vars, logVars
  <2>2. QED
    BY <1>1, <2>1, QueueStays DEF QueQuiet, queVars
<1>3. CASE LogWriters
  BY <1>1, <1>3, WriterFlows DEF LogWriters
<1>4. CASE WriteThreadStep
  BY <1>1, <1>4, WriteThreadFlows
<1>5. CASE BeginExit \/ MainStep
  BY <1>1, <1>5, MainFlows
<1>6. CASE QueSteps
  BY <1>1, <1>6, QueStepFlows DEF QueSteps
<1>7. QED
  BY <1>1, <1>2, <1>3, <1>4, <1>5, <1>6 DEF Next

(* What the invariant says of one line, in terms of Places. *)
LEMMA PlacesOfOne ==
    ASSUME LineInv, FlowInv, NEW l \in Line
    PROVE  Cardinality(Places(l)) = IF l \in logged THEN 1 ELSE 0
<1> DEFINE HeldBy == {w \in Writer : Held[w] = l}
           InQueue == {i \in Queued : que[i] = l}
           InFile == {e \in written : e[1] = l}
<1>1. l # NoLine /\ DOMAIN que = Queued
  BY LogAssumption, LenProperties DEF FlowInv, Queued
<1>2. /\ {w \in Writer : line[w] = l /\ pc[w] # "pushing"}
             = {w \in HeldBy : pc[w] # "pushing"}
      /\ {w \in Writer : at[w] # "out" /\ item[w] = l}
             = {w \in HeldBy : pc[w] = "pushing"}
  BY <1>1 DEF LineInv, LogInv, Types, RoomInv, Held
<1>3. {t \in {WriteThread} :
          /\ item[t] = l
          /\ pc[t] \in {"put_lock", "put"} \/ (pc[t] = "popping" /\ at[t] = "out" /\ ok[t])}
      = IF Taken = l THEN {WriteThread} ELSE {}
  BY <1>1 DEF Taken, HasTaken
<1>4. Places(l) = {<<"writer", w>> : w \in {w \in HeldBy : pc[w] # "pushing"}}
                  \cup {<<"push", w>> : w \in {w \in HeldBy : pc[w] = "pushing"}}
                  \cup {<<"queue", i>> : i \in InQueue}
                  \cup {<<"thread", t>> : t \in IF Taken = l THEN {WriteThread} ELSE {}}
                  \cup {<<"file", p>> : p \in InFile}
  BY <1>1, <1>2, <1>3 DEF Places
<1>5. CASE l \notin logged
  <2>1. HeldBy = {} /\ InQueue = {} /\ Taken # l /\ InFile = {}
    BY <1>1, <1>5 DEF FlowInv, HeldApart, QueueApart, TakenApart, FilesApart
  <2>2. Places(l) = {}
    BY <1>4, <2>1
  <2>3. QED
    BY <1>5, <2>2, FS_EmptySet
<1>6. CASE l \in logged
  <2>1. CASE Written(l)
    <3>1. HeldBy = {} /\ InQueue = {} /\ Taken # l
      BY <1>1, <2>1 DEF FlowInv, HeldApart, QueueApart, TakenApart
    <3>2. PICK e \in written : InFile = {e}
      BY <2>1 DEF FlowInv, FilesApart, Written
    <3>3. Places(l) = {<<"file", e>>}
      BY <1>4, <3>1, <3>2
    <3>4. QED
      BY <1>6, <3>3, FS_Singleton
  <2>2. ASSUME NEW w \in Writer, Held[w] = l PROVE Cardinality(Places(l)) = 1
    <3>1. HeldBy = {w} /\ InQueue = {} /\ Taken # l /\ InFile = {}
      BY <1>1, <2>2 DEF FlowInv, HeldApart, Written
    <3>2. PICK where \in {"writer", "push"} : Places(l) = {<<where, w>>}
      <4>1. CASE pc[w] = "pushing"
        BY <1>4, <3>1, <4>1
      <4>2. CASE pc[w] # "pushing"
        BY <1>4, <3>1, <4>2
      <4>3. QED
        BY <4>1, <4>2
    <3>3. QED
      BY <3>2, FS_Singleton
  <2>3. ASSUME NEW i \in Queued, que[i] = l PROVE Cardinality(Places(l)) = 1
    <3>1. HeldBy = {} /\ InQueue = {i} /\ Taken # l /\ InFile = {}
      BY <1>1, <2>3 DEF FlowInv, HeldApart, QueueApart, Written
    <3>2. Places(l) = {<<"queue", i>>}
      BY <1>4, <3>1
    <3>3. QED
      BY <3>2, FS_Singleton
  <2>4. ASSUME Taken = l PROVE Cardinality(Places(l)) = 1
    <3>1. HeldBy = {} /\ InQueue = {} /\ InFile = {}
      BY <1>1, <2>4 DEF FlowInv, HeldApart, QueueApart, TakenApart, Written
    <3>2. Places(l) = {<<"thread", WriteThread>>}
      BY <1>4, <2>4, <3>1
    <3>3. QED
      BY <3>2, FS_Singleton
  <2>5. QED
    BY <1>6, <2>1, <2>2, <2>3, <2>4 DEF FlowInv, Somewhere
<1>7. QED
  BY <1>5, <1>6

(* No line is lost or written twice, whether it goes through the queue or  *)
(* past it, for any number of writers and any capacity (log.cc 90-117 and  *)
(* 181-187, block_queue.hpp 95-141).                                       *)
THEOREM WrittenOnceAlways == Spec => []WrittenOnce
<1>1. LogInv /\ TieInv /\ FlowInv /\ [Next]_vars => TieInv' /\ FlowInv'
  BY FlowStep DEF LineInv
<1>2. LogInv /\ TieInv /\ FlowInv => WrittenOnce
  BY PlacesOfOne DEF LineInv, WrittenOnce
<1>3. QED
  BY LogAlways, FlowInit, <1>1, <1>2, PTL DEF Spec

-----------------------------------------------------------------------------
(* Types. *)

ThreadTypes ==
    /\ up \in BOOLEAN
    /\ m \in Thread \cup {Free}
    /\ \A w \in Writer : pc[w] \in WriterPC
    /\ pc[WriteThread] \in {"pop", "popping", "put_lock", "put", "gone"}
    /\ pc[Main] \in {"running", "drain", "closing", "join", "final_lock", "final", "gone"}

FileTypes ==
    /\ day \in 1 .. MaxDay + 1 /\ today \in 1 .. MaxDay + 1
    /\ line_count \in Nat
    /\ fp \in [id : Nat \ {0}, path : Path, open : BOOLEAN]
    /\ now \in 1 .. MaxDay + 1
    /\ newpath \in [Writer -> Path]
    /\ ptr \in [Writer -> Nat]
    /\ written \subseteq Line \X Path

QueueTypes == is_closed \in BOOLEAN /\ Len(que) <= Capacity

DataInv == ThreadTypes /\ FileTypes /\ QueueTypes

LEMMA DataInit == Init => DataInv
<1>1. SUFFICES ASSUME Init PROVE DataInv
  OBVIOUS
<1>2. ThreadTypes
  BY <1>1, ThreadsDiffer DEF Init, ThreadTypes, WriterPC
<1>3. FileTypes
  BY <1>1, LogAssumption DEF Init, FileTypes, Path
<1>4. QueueTypes
  <2>1. que = <<>> /\ is_closed = FALSE
    BY <1>1 DEF Init, Que!Init
  <2>2. Len(que) = 0
    BY <2>1, EmptySeq
  <2>3. is_closed \in BOOLEAN
    BY <2>1, Zenon
  <2>4. Len(que) <= Capacity
    BY <2>2, LogAssumption
  <2>5. QED
    BY <2>3, <2>4 DEF QueueTypes
<1>5. QED
  BY <1>2, <1>3, <1>4 DEF DataInv

(* What the queue's code does outside of push, pop and close. *)
LEMMA FlushKeepsTypes ==
    ASSUME QueueTypes, NEW t, FlushQueue(t) \/ Que!Flush(t) \/ UNCHANGED queVars
    PROVE  QueueTypes'
<1>1. QED
  BY DEF QueueTypes, FlushQueue, Que!Flush, queVars

LEMMA WriterKeepsTypes ==
    ASSUME LineInv, DataInv, NEW w \in Writer, WriterStep(w) \/ (\E l \in Line : CallLog(w, l))
    PROVE  DataInv'
<1>1. /\ pc \in [Thread -> PC] /\ line[w] \in AnyLine /\ w \in Thread
      /\ pc[w] = "line" => line[w] \in Line
  BY ThreadsDiffer DEF LineInv, LogInv, Types, TieInv, NoLinePC, AnyLine
<1>2. ThreadTypes'
  <2>1. ASSUME NEW p \in WriterPC, Goto(w, p), up' \in BOOLEAN, m' \in Thread \cup {Free}
        PROVE  ThreadTypes'
    BY <1>1, <2>1, ThreadsDiffer DEF DataInv, ThreadTypes, Goto
  <2>2. CASE CrashOnFlush(w) \/ OpenFails(w)
    BY <2>2 DEF CrashOnFlush, OpenFails, DataInv, ThreadTypes, logVars
  <2>3. CASE TestRotation(w)
    <3>1. PICK p \in {"name", "line_lock"} : Goto(w, p)
      BY <2>3, Zenon DEF TestRotation
    <3>2. QED
      BY <2>1, <2>3, <3>1 DEF TestRotation, DataInv, ThreadTypes, WriterPC
  <2>4. CASE RollLock(w) \/ LineLock(w)
    BY <1>1, <2>1, <2>4 DEF RollLock, LineLock, Lock, DataInv, ThreadTypes, WriterPC
  <2>5. CASE \/ NameFile(w) \/ CloseFile(w) \/ OpenFile(w) \/ PutLine(w) \/ PushReturns(w)
             \/ PutDirect(w) \/ FlushNotify(w) \/ LoadFile(w) \/ FlushFile(w)
             \/ (\E l \in Line : CallLog(w, l))
    BY <2>1, <2>5 DEF NameFile, CloseFile, OpenFile, PutLine, PushReturns, PutDirect,
       FlushNotify, LoadFile, FlushFile, CallLog, DataInv, ThreadTypes, WriterPC, logVars
  <2>6. QED
    BY <2>2, <2>3, <2>4, <2>5 DEF WriterStep
<1>3. FileTypes'
  <2>1. /\ day \in 1 .. MaxDay + 1 /\ today \in 1 .. MaxDay + 1 /\ line_count \in Nat
        /\ fp \in [id : Nat \ {0}, path : Path, open : BOOLEAN]
        /\ now \in 1 .. MaxDay + 1 /\ newpath \in [Writer -> Path] /\ ptr \in [Writer -> Nat]
        /\ written \subseteq Line \X Path
    BY DEF DataInv, FileTypes
  <2>2. CASE NameFile(w)
    <3>1. line_count \div MaxLines \in Nat
      BY <2>1, LogAssumption
    <3>2. QED
      BY <2>1, <2>2, <3>1 DEF NameFile, FileTypes, Path
  <2>3. CASE PutDirect(w)
    <3>1. fp.path \in Path /\ line[w] \in Line
      BY <1>1, <2>1, <2>3 DEF PutDirect
    <3>2. QED
      BY <2>1, <2>3, <3>1 DEF PutDirect, FileTypes
  <2>4. CASE CloseFile(w) \/ OpenFile(w)
    <3>1. /\ UNCHANGED <<day, today, line_count, now, newpath, ptr, written>>
          /\ \/ fp' = [fp EXCEPT !.open = FALSE]
             \/ fp' = [id |-> fp.id + 1, path |-> newpath[w], open |-> TRUE]
      BY <2>4 DEF CloseFile, OpenFile
    <3>2. fp' \in [id : Nat \ {0}, path : Path, open : BOOLEAN]
      <4>1. /\ fp.id \in Nat \ {0} /\ fp.id + 1 \in Nat \ {0}
            /\ fp.path \in Path /\ newpath[w] \in Path
        BY <2>1
      <4>2. CASE fp' = [fp EXCEPT !.open = FALSE]
        <5>1. fp' = [id |-> fp.id, path |-> fp.path, open |-> FALSE]
          BY <2>1, <4>2
        <5>2. QED
          BY <4>1, <5>1, Zenon
      <4>3. CASE fp' = [id |-> fp.id + 1, path |-> newpath[w], open |-> TRUE]
        BY <4>1, <4>3, Zenon
      <4>4. QED
        BY <3>1, <4>2, <4>3
    <3>3. QED
      BY <2>1, <3>1, <3>2 DEF FileTypes
  <2>5. CASE TestRotation(w) \/ LineLock(w) \/ LoadFile(w)
    BY <2>1, <2>5 DEF TestRotation, LineLock, LoadFile, FileTypes
  <2>6. CASE \/ RollLock(w) \/ PutLine(w) \/ PushReturns(w) \/ FlushNotify(w) \/ FlushFile(w)
             \/ CrashOnFlush(w) \/ OpenFails(w) \/ (\E l \in Line : CallLog(w, l))
    BY <2>1, <2>6 DEF RollLock, PutLine, PushReturns, FlushNotify, FlushFile, CrashOnFlush, OpenFails,
                      CallLog, FileTypes, logVars
  <2>7. QED
    BY <2>2, <2>3, <2>4, <2>5, <2>6 DEF WriterStep
<1>4. QueueTypes'
  <2>1. CASE PutLine(w)
    BY <2>1 DEF PutLine, Que!CallPush, DataInv, QueueTypes
  <2>2. CASE ~ PutLine(w)
    <3>1. FlushQueue(w) \/ UNCHANGED queVars
      BY <2>2 DEF WriterStep, TestRotation, NameFile, RollLock, CloseFile, OpenFile, LineLock,
         PushReturns, PutDirect, FlushNotify, LoadFile, FlushFile, CrashOnFlush, OpenFails, CallLog
    <3>2. QED
      BY <3>1, FlushKeepsTypes DEF DataInv
  <2>3. QED
    BY <2>1, <2>2
<1>5. QED
  BY <1>2, <1>3, <1>4 DEF DataInv

LEMMA WriteThreadKeepsTypes ==
    ASSUME LineInv, DataInv, WriteThreadStep
    PROVE  DataInv'
<1>1. pc \in [Thread -> PC] /\ item[WriteThread] \in AnyLine
  BY ThreadsDiffer DEF LineInv, LogInv, Types
<1>2. ThreadTypes'
  <2>1. ASSUME NEW p \in {"pop", "popping", "put_lock", "put", "gone"},
               Goto(WriteThread, p), up' = up, m' \in Thread \cup {Free}
        PROVE  ThreadTypes'
    BY <1>1, <2>1, ThreadsDiffer DEF DataInv, ThreadTypes, Goto
  <2>2. CASE PopReturns
    <3>1. PICK p \in {"put_lock", "gone"} : Goto(WriteThread, p)
      BY <2>2, Zenon DEF PopReturns
    <3>2. QED
      BY <2>1, <2>2, <3>1 DEF PopReturns, DataInv, ThreadTypes, logVars
  <2>3. CASE PopLine \/ PutLock \/ PutInFile
    BY <2>1, <2>3, ThreadsDiffer DEF PopLine, PutLock, Lock, PutInFile, DataInv, ThreadTypes, logVars
  <2>4. QED
    BY <2>2, <2>3 DEF WriteThreadStep
<1>3. FileTypes'
  <2>1. CASE PutInFile
    <3>1. item[WriteThread] \in Line /\ fp.path \in Path
      BY <1>1, <2>1 DEF PutInFile, LineInv, TieInv, HasTaken, AnyLine, DataInv, FileTypes
    <3>2. QED
      BY <2>1, <3>1 DEF PutInFile, DataInv, FileTypes
  <2>2. CASE PopLine \/ PopReturns \/ PutLock
    BY <2>2 DEF PopLine, PopReturns, PutLock, DataInv, FileTypes, logVars
  <2>3. QED
    BY <2>1, <2>2 DEF WriteThreadStep
<1>4. QueueTypes'
  BY DEF WriteThreadStep, PopLine, PopReturns, PutLock, PutInFile, Que!CallPop, queVars,
         DataInv, QueueTypes
<1>5. QED
  BY <1>2, <1>3, <1>4 DEF DataInv

LEMMA MainKeepsTypes ==
    ASSUME LineInv, DataInv, BeginExit \/ MainStep
    PROVE  DataInv'
<1>1. pc \in [Thread -> PC]
  BY DEF LineInv, LogInv, Types
<1>2. ThreadTypes'
  <2>1. ASSUME NEW p \in {"running", "drain", "closing", "join", "final_lock", "final", "gone"},
               Goto(Main, p), up' = up, m' \in Thread \cup {Free}
        PROVE  ThreadTypes'
    BY <1>1, <2>1, ThreadsDiffer DEF DataInv, ThreadTypes, Goto
  <2>2. CASE BeginExit
    <3>1. PICK p \in {"drain", "final_lock"} : Goto(Main, p)
      BY <2>2, Zenon DEF BeginExit
    <3>2. QED
      BY <2>1, <2>2, <3>1 DEF BeginExit, DataInv, ThreadTypes, logVars
  <2>3. CASE Drain
    BY <2>3 DEF Drain, DataInv, ThreadTypes, logVars
  <2>4. CASE CloseQueue \/ CloseReturns \/ Join \/ FinalLock \/ FinalClose
    BY <2>1, <2>4, ThreadsDiffer DEF CloseQueue, CloseReturns, Join, FinalLock, Lock, FinalClose,
                                     DataInv, ThreadTypes, logVars
  <2>5. QED
    BY <2>2, <2>3, <2>4 DEF MainStep
<1>3. FileTypes'
  BY DEF MainStep, BeginExit, Drain, CloseQueue, CloseReturns, Join, FinalLock, FinalClose,
         DataInv, FileTypes, logVars
<1>4. QueueTypes'
  <2>1. CASE CloseQueue
    BY <2>1 DEF CloseQueue, Que!CallClose, DataInv, QueueTypes
  <2>2. CASE ~ CloseQueue
    <3>1. FlushQueue(Main) \/ Que!Flush(Main) \/ UNCHANGED queVars
      BY <2>2 DEF MainStep, BeginExit, Drain, CloseReturns, Join, FinalLock, FinalClose
    <3>2. QED
      BY <3>1, FlushKeepsTypes DEF DataInv
  <2>3. QED
    BY <2>1, <2>2
<1>5. QED
  BY <1>2, <1>3, <1>4 DEF DataInv

LEMMA QueueKeepsTypes ==
    ASSUME LineInv, DataInv, NEW t \in Thread, QueStep(t) \/ QueWakeup(t)
    PROVE  DataInv'
<1>1. UNCHANGED <<up, pc, logVars, written>>
  BY DEF QueStep, QueWakeup
<1>2. ThreadTypes' /\ FileTypes'
  BY <1>1 DEF DataInv, ThreadTypes, FileTypes, logVars
<1>3. /\ que \in Seq(AnyLine) /\ Len(que) \in Nat /\ Capacity \in Nat
      /\ is_closed \in BOOLEAN /\ Len(que) <= Capacity /\ item[t] \in AnyLine
  BY LenProperties, LogAssumption DEF LineInv, LogInv, Types, DataInv, QueueTypes
<1>4. QueueTypes'
  <2>1. CASE Que!PushItem(t)
    <3>1. ~ (Len(que) >= Capacity) /\ que' = Append(que, item[t]) /\ is_closed' = is_closed
      BY <2>1 DEF Que!PushItem, Que!full
    <3>2. Len(que') = Len(que) + 1
      BY <1>3, <3>1, AppendProperties
    <3>3. QED
      BY <1>3, <3>1, <3>2 DEF QueueTypes
  <2>2. CASE Que!PopItem(t)
    <3>1. que # <<>> /\ que' = Tail(que) /\ is_closed' = is_closed
      BY <2>2 DEF Que!PopItem, Que!empty
    <3>2. Len(que') = Len(que) - 1
      BY <1>3, <3>1, HeadTailProperties
    <3>3. QED
      BY <1>3, <3>1, <3>2 DEF QueueTypes
  <2>3. CASE \/ Que!PushBlocks(t) \/ Que!PopBlocks(t) \/ Que!FoundClosed(t) \/ Que!TimedOut(t)
             \/ Que!SpuriousWakeup(t) \/ Que!SetClosed(t)
             \/ Que!NotifyConsumers(t) \/ Que!NotifyProducers(t)
    <3>1. que' = que /\ is_closed' \in BOOLEAN
      BY <1>3, <2>3 DEF Que!PushBlocks, Que!PopBlocks, Que!FoundClosed, Que!TimedOut,
         Que!SpuriousWakeup, Que!SetClosed, Que!NotifyConsumers, Que!NotifyProducers
    <3>2. QED
      BY <1>3, <3>1 DEF QueueTypes
  <2>4. QED
    BY <2>1, <2>2, <2>3 DEF QueStep, QueWakeup, Que!Step
<1>5. QED
  BY <1>2, <1>4 DEF DataInv

LEMMA DataStep == LineInv /\ DataInv /\ [Next]_vars => DataInv'
<1>1. SUFFICES ASSUME LineInv, DataInv, [Next]_vars PROVE DataInv'
  OBVIOUS
<1>2. CASE Midnight
  BY <1>1, <1>2, LogAssumption
     DEF Midnight, DataInv, ThreadTypes, FileTypes, QueueTypes, queVars
<1>3. CASE UNCHANGED vars
  BY <1>1, <1>3 DEF DataInv, ThreadTypes, FileTypes, QueueTypes, vars, logVars, queVars
<1>4. CASE LogWriters
  BY <1>1, <1>4, WriterKeepsTypes DEF LogWriters
<1>5. CASE WriteThreadStep
  BY <1>1, <1>5, WriteThreadKeepsTypes
<1>6. CASE BeginExit \/ MainStep
  BY <1>1, <1>6, MainKeepsTypes
<1>7. CASE QueSteps
  BY <1>1, <1>7, QueueKeepsTypes DEF QueSteps
<1>8. QED
  BY <1>1, <1>2, <1>3, <1>4, <1>5, <1>6, <1>7 DEF Next

(* The type invariant, the queue's included: its bound, and that a writer  *)
(* has a line exactly while its call has not passed it on.                 *)
THEOREM TypeCorrect == Spec => []TypeOK
<1>1. ASSUME LogInv, TieInv, FlowInv, DataInv PROVE TypeOK
  <2>1. que \in Seq(Line)
    <3>1. /\ que \in [1 .. Len(que) -> AnyLine] /\ Len(que) \in Nat
          /\ \A i \in 1 .. Len(que) : que[i] \in Line
      BY <1>1, LenProperties DEF FlowInv, QueueApart, Queued
    <3>2. que \in [1 .. Len(que) -> Line]
      BY <3>1
    <3>3. QED
      BY <3>1, <3>2, SeqDef
  <2>2. \A w \in Writer : at[w] # "out" => item[w] \in Line
    BY <1>1, ThreadsDiffer DEF LogInv, Types, TieInv, AnyLine
  <2>3. Que!TypeOK
    BY <1>1, <2>1, <2>2, QueThreads, ThreadsDiffer
       DEF LogInv, Types, TieInv, DataInv, QueueTypes, AnyLine, At,
           Que!TypeOK, Que!ProducerAt, Que!TakerAt, Que!CloserAt
  <2>4. QED
    BY <1>1, <2>3 DEF TypeOK, LogInv, Types, TieInv, FlowInv, DataInv, ThreadTypes, FileTypes,
                      NoLinePC, AnyLine
<1>2. LogInv /\ TieInv /\ DataInv /\ [Next]_vars => DataInv'
  BY DataStep DEF LineInv
<1>3. LogInv /\ TieInv /\ FlowInv /\ [Next]_vars => TieInv' /\ FlowInv'
  BY FlowStep DEF LineInv
<1>4. QED
  BY <1>1, <1>2, <1>3, LogAlways, FlowInit, DataInit, PTL DEF Spec
=============================================================================

-------------------------------- MODULE Log --------------------------------
(***************************************************************************)
(* src/src/log/log.cc and the LOG_ macros of log.h: the threads that log,  *)
(* the write thread that takes their lines out of the BlockQueue, the file *)
(* they share, its rotation, and the destructor.                           *)
(*                                                                         *)
(* A writer's call:                                                        *)
(*   idle -> test -> (name -> roll_lock -> close_file -> open_file ->)     *)
(*   line_lock -> line -> (pushing) -> flush -> load_fp -> fflush -> idle  *)
(* The write thread:  pop -> popping -> put_lock -> put -> pop             *)
(* ~Log:  running -> drain -> closing -> join -> final_lock -> final       *)
(*        -> gone                                                          *)
(*                                                                         *)
(* The model begins when init() has returned; a line is written in full or *)
(* not at all.  Whether a thread has Log::_m shows in what it may do next, *)
(* so taking it is a step; the queue's own mutex is inside BlockQueue.     *)
(***************************************************************************)
EXTENDS Naturals, Sequences, FiniteSets

CONSTANTS Writer,       (* threads that use the LOG_ macros               *)
          WriteThread,  (* _write_thread                                  *)
          Main,         (* the thread that ends the program               *)
          Line,         (* the lines; each is logged at most once         *)
          NoLine,       (* "no line"                                      *)
          Free,         (* the value of m when no thread holds it         *)
          Async,        (* maxsize > 0                                    *)
          Capacity,     (* maxsize                                        *)
          MaxLines,     (* _MAX_LINES                                     *)
          MaxDay        (* bound: midnights that pass                     *)

ASSUME LogAssumption ==
    /\ IsFiniteSet(Writer)
    /\ WriteThread # Main /\ {WriteThread, Main} \cap Writer = {}
    /\ Free \notin Writer \cup {WriteThread, Main}
    /\ NoLine \notin Line
    /\ Async \in BOOLEAN
    /\ Capacity \in Nat \ {0} /\ MaxLines \in Nat \ {0} /\ MaxDay \in Nat

Thread == Writer \cup {WriteThread, Main}

VARIABLES
    up,          (* the process is running                                  *)
    m,           (* Log::_m, the thread that holds it, or Free              *)
    pc,          (* where each thread is                                    *)
    day,         (* the calendar day                                        *)
    today,       (* _today                                                  *)
    line_count,  (* _line_count                                             *)
    fp,          (* the FILE _fp points to: [id, path, open]                *)
    line,        (* the line each writer is logging                         *)
    now,         (* tm_mday of the struct that localtime shares with all    *)
                 (* its callers, which write reads through "n"              *)
    newpath,     (* newpath in each writer's call                           *)
    ptr,         (* the id of the FILE each writer's fflush was given       *)
    logged,      (* history: the lines of the calls made so far             *)
    written,     (* history: <<line, path>> of every fputs                  *)
    que, is_closed, at, item, ok   (* _que *)

logVars == <<m, day, today, line_count, fp, line, now, newpath, ptr>>
queVars == <<que, is_closed, at, item, ok>>
vars == <<up, pc, logVars, logged, written, queVars>>

(* _que: writers push, the write thread pops, the destructor closes. *)
Que == INSTANCE BlockQueue WITH Producer <- Writer, Consumer <- {WriteThread},
                                TimedConsumer <- {}, Closer <- {Main},
                                Item <- Line, NoItem <- NoLine

(* A file's name: the day and the suffix -1, -2, ... (none is 0). *)
Path == (1 .. MaxDay + 1) \X Nat

Init == /\ up = TRUE
        /\ pc = [t \in Thread |-> IF t \in Writer THEN "idle"
                                  ELSE IF t = Main THEN "running"
                                  ELSE IF Async THEN "pop" ELSE "gone"]
        /\ m = Free
        /\ day = 1
        /\ today = 1
        /\ line_count = 0
        /\ fp = [id |-> 1, path |-> <<1, 0>>, open |-> TRUE]
        /\ line = [w \in Writer |-> NoLine]
        /\ now = 1
        /\ newpath = [w \in Writer |-> <<1, 0>>]
        /\ ptr = [w \in Writer |-> 1]
        /\ logged = {}
        /\ written = {}
        /\ Que!Init

Goto(t, p) == pc' = [pc EXCEPT ![t] = p]

(* lock_guard: thread t gets m and goes on at p. *)
Lock(t, from, p) == /\ pc[t] = from
                    /\ m = Free
                    /\ m' = t
                    /\ Goto(t, p)

Midnight == /\ day <= MaxDay
            /\ day' = day + 1
            /\ UNCHANGED <<up, pc, m, today, line_count, fp, line, now, newpath, ptr,
                           logged, written, queVars>>

-----------------------------------------------------------------------------
(* A writer: LOG_BASE calls write and flush. *)

(* The object must outlive its calls: none begins once ~Log has begun, and *)
(* ~Log begins when none is in progress.                                   *)
CallLog(w, l) == /\ pc[w] = "idle"
                 /\ pc[Main] = "running"
                 /\ l \notin logged
                 /\ logged' = logged \cup {l}
                 /\ line' = [line EXCEPT ![w] = l]
                 /\ Goto(w, "test")
                 /\ UNCHANGED <<up, m, day, today, line_count, fp, now, newpath, ptr,
                                written, queVars>>

FileFull == line_count # 0 /\ line_count % MaxLines = 0

(* Neither _today nor _line_count is read under m. *)
TestRotation(w) ==
    /\ pc[w] = "test"
    /\ now' = day
    /\ Goto(w, IF day # today \/ FileFull THEN "name" ELSE "line_lock")
    /\ UNCHANGED <<up, m, day, today, line_count, fp, line, newpath, ptr,
                   logged, written, queVars>>

NameFile(w) ==
    /\ pc[w] = "name"
    /\ IF now # today
       THEN /\ newpath' = [newpath EXCEPT ![w] = <<now, 0>>]
            /\ today' = now
            /\ line_count' = 0
       ELSE /\ newpath' = [newpath EXCEPT ![w] = <<now, line_count \div MaxLines>>]
            /\ UNCHANGED <<today, line_count>>
    /\ Goto(w, "roll_lock")
    /\ UNCHANGED <<up, m, day, fp, line, now, ptr, logged, written, queVars>>

RollLock(w) == /\ Lock(w, "roll_lock", "close_file")
               /\ UNCHANGED <<up, day, today, line_count, fp, line, now, newpath, ptr,
                              logged, written, queVars>>

(* _que->flush() in flush(), when there is a queue. *)
FlushQueue(t) == IF Async THEN Que!Flush(t) ELSE UNCHANGED queVars

(* flush(); fclose(_fp); *)
CloseFile(w) == /\ pc[w] = "close_file"
                /\ FlushQueue(w)
                /\ fp' = [fp EXCEPT !.open = FALSE]
                /\ Goto(w, "open_file")
                /\ UNCHANGED <<up, m, day, today, line_count, line, now, newpath, ptr,
                               logged, written>>

(* _fp = fopen(newpath, "a"), and m is released. *)
OpenFile(w) == /\ pc[w] = "open_file"
               /\ fp' = [id |-> fp.id + 1, path |-> newpath[w], open |-> TRUE]
               /\ m' = Free
               /\ Goto(w, "line_lock")
               /\ UNCHANGED <<up, day, today, line_count, line, now, newpath, ptr,
                              logged, written, queVars>>

(* assert(_fp != nullptr) *)
OpenFails(w) == /\ pc[w] = "open_file"
                /\ up' = FALSE
                /\ UNCHANGED <<pc, logVars, logged, written, queVars>>

LineLock(w) == /\ Lock(w, "line_lock", "line")
               /\ line_count' = line_count + 1
               /\ UNCHANGED <<up, day, today, fp, line, now, newpath, ptr,
                              logged, written, queVars>>

(* Mutant of Queues: the queue is not asked whether it is full. *)
QueuesAlways == Async

Queues == Async /\ ~Que!full

(* The line goes into the queue, for which m is kept ... *)
PutLine(w) == /\ pc[w] = "line"
              /\ Queues
              /\ Que!CallPush(w, line[w])
              /\ Goto(w, "pushing")
              /\ UNCHANGED <<up, logVars, logged, written>>

PushReturns(w) == /\ pc[w] = "pushing"
                  /\ at[w] = "out"
                  /\ m' = Free
                  /\ line' = [line EXCEPT ![w] = NoLine]
                  /\ Goto(w, "flush")
                  /\ UNCHANGED <<up, day, today, line_count, fp, now, newpath, ptr,
                                 logged, written, queVars>>

(* Mutant of PutDirect: line outlives its call. *)
PutDirectKeepsLine(w) ==
    /\ pc[w] = "line"
    /\ ~Queues
    /\ written' = written \cup {<<line[w], fp.path>>}
    /\ m' = Free
    /\ Goto(w, "flush")
    /\ UNCHANGED <<up, day, today, line_count, fp, line, now, newpath, ptr, logged, queVars>>

(* ... or, when the log is synchronous or the queue full, into the file.   *)
PutDirect(w) == /\ pc[w] = "line"
                /\ ~Queues
                /\ written' = written \cup {<<line[w], fp.path>>}
                /\ m' = Free
                /\ line' = [line EXCEPT ![w] = NoLine]
                /\ Goto(w, "flush")
                /\ UNCHANGED <<up, day, today, line_count, fp, now, newpath, ptr,
                               logged, queVars>>

(* flush() without m: notify, read _fp, fflush what it pointed to. *)
FlushNotify(w) == /\ pc[w] = "flush"
                  /\ FlushQueue(w)
                  /\ Goto(w, "load_fp")
                  /\ UNCHANGED <<up, logVars, logged, written>>

LoadFile(w) == /\ pc[w] = "load_fp"
               /\ ptr' = [ptr EXCEPT ![w] = fp.id]
               /\ Goto(w, "fflush")
               /\ UNCHANGED <<up, m, day, today, line_count, fp, line, now, newpath,
                              logged, written, queVars>>

Closed(id) == id # fp.id \/ ~fp.open

FlushFile(w) == /\ pc[w] = "fflush"
                /\ Goto(w, "idle")
                /\ UNCHANGED <<up, logVars, logged, written, queVars>>

(* fflush of a FILE that fclose has freed: anything, a crash included. *)
CrashOnFlush(w) == /\ pc[w] = "fflush"
                   /\ Closed(ptr[w])
                   /\ up' = FALSE
                   /\ UNCHANGED <<pc, logVars, logged, written, queVars>>

WriterStep(w) == \/ TestRotation(w) \/ NameFile(w)
                 \/ RollLock(w) \/ CloseFile(w) \/ OpenFile(w) \/ OpenFails(w)
                 \/ LineLock(w) \/ PutLine(w) \/ PushReturns(w) \/ PutDirect(w)
                 \/ FlushNotify(w) \/ LoadFile(w) \/ FlushFile(w) \/ CrashOnFlush(w)

-----------------------------------------------------------------------------
(* The write thread: while (_que->pop(str)) under m, fputs(str, _fp). *)

PopLine == /\ pc[WriteThread] = "pop"
           /\ Que!CallPop(WriteThread)
           /\ Goto(WriteThread, "popping")
           /\ UNCHANGED <<up, logVars, logged, written>>

PopReturns == /\ pc[WriteThread] = "popping"
              /\ at[WriteThread] = "out"
              /\ Goto(WriteThread, IF ok[WriteThread] THEN "put_lock" ELSE "gone")
              /\ UNCHANGED <<up, logVars, logged, written, queVars>>

PutLock == /\ Lock(WriteThread, "put_lock", "put")
           /\ UNCHANGED <<up, day, today, line_count, fp, line, now, newpath, ptr,
                          logged, written, queVars>>

(* Mutant of PutInFile: the next line is taken before this one is written. *)
PutInFileForgets == /\ pc[WriteThread] = "put"
                    /\ m' = Free
                    /\ Goto(WriteThread, "pop")
                    /\ UNCHANGED <<up, day, today, line_count, fp, line, now, newpath,
                                   ptr, logged, written, queVars>>

(* Mutant of PutInFile: the lock is kept from one line to the next. *)
PutInFileKeepsLock == /\ pc[WriteThread] = "put"
                      /\ written' = written \cup {<<item[WriteThread], fp.path>>}
                      /\ Goto(WriteThread, "pop")
                      /\ UNCHANGED <<up, m, day, today, line_count, fp, line, now,
                                     newpath, ptr, logged, queVars>>

PutInFile == /\ pc[WriteThread] = "put"
             /\ written' = written \cup {<<item[WriteThread], fp.path>>}
             /\ m' = Free
             /\ Goto(WriteThread, "pop")
             /\ UNCHANGED <<up, day, today, line_count, fp, line, now, newpath, ptr,
                            logged, queVars>>

WriteThreadStep == PopLine \/ PopReturns \/ PutLock \/ PutInFile

-----------------------------------------------------------------------------
(* ~Log *)

BeginExit == /\ pc[Main] = "running"
             /\ \A w \in Writer : pc[w] = "idle"
             /\ Goto(Main, IF Async THEN "drain" ELSE "final_lock")
             /\ UNCHANGED <<up, logVars, logged, written, queVars>>

(* while (!_que->empty()) _que->flush(); *)
Drain == /\ pc[Main] = "drain"
         /\ ~Que!empty
         /\ Que!Flush(Main)
         /\ UNCHANGED <<up, pc, logVars, logged, written>>

(* Mutant of CloseQueue: the queue is closed without waiting. *)
CloseQueueAtOnce == /\ pc[Main] = "drain"
                    /\ Que!CallClose(Main)
                    /\ Goto(Main, "closing")
                    /\ UNCHANGED <<up, logVars, logged, written>>

CloseQueue == /\ pc[Main] = "drain"
              /\ Que!empty
              /\ Que!CallClose(Main)
              /\ Goto(Main, "closing")
              /\ UNCHANGED <<up, logVars, logged, written>>

CloseReturns == /\ pc[Main] = "closing"
                /\ at[Main] = "out"
                /\ Goto(Main, "join")
                /\ UNCHANGED <<up, logVars, logged, written, queVars>>

Join == /\ pc[Main] = "join"
        /\ pc[WriteThread] = "gone"
        /\ Goto(Main, "final_lock")
        /\ UNCHANGED <<up, logVars, logged, written, queVars>>

FinalLock == /\ Lock(Main, "final_lock", "final")
             /\ UNCHANGED <<up, day, today, line_count, fp, line, now, newpath, ptr,
                            logged, written, queVars>>

(* flush(); fclose(_fp); *)
FinalClose == /\ pc[Main] = "final"
              /\ FlushQueue(Main)
              /\ fp' = [fp EXCEPT !.open = FALSE]
              /\ m' = Free
              /\ Goto(Main, "gone")
              /\ UNCHANGED <<up, day, today, line_count, line, now, newpath, ptr,
                             logged, written>>

MainStep == Drain \/ CloseQueue \/ CloseReturns \/ Join \/ FinalLock \/ FinalClose

-----------------------------------------------------------------------------
(* A thread inside the queue. *)
QueStep(t) == /\ Que!Step(t)
              /\ UNCHANGED <<up, pc, logVars, logged, written>>

QueWakeup(t) == /\ Que!SpuriousWakeup(t)
                /\ UNCHANGED <<up, pc, logVars, logged, written>>

LogWriters == \E w \in Writer : WriterStep(w) \/ (\E l \in Line : CallLog(w, l))
QueSteps == \E t \in Thread : QueStep(t) \/ QueWakeup(t)

Next == \/ up /\ Midnight
        \/ up /\ LogWriters
        \/ up /\ WriteThreadStep
        \/ up /\ (BeginExit \/ MainStep)
        \/ up /\ QueSteps

(* Every thread goes on when it can, and gets m if it keeps asking for it  *)
(* while others release it.                                                *)
Fairness ==
    /\ \A w \in Writer : /\ WF_vars(up /\ WriterStep(w))
                         /\ SF_vars(up /\ (RollLock(w) \/ LineLock(w)))
    /\ WF_vars(up /\ WriteThreadStep) /\ SF_vars(up /\ PutLock)
    /\ WF_vars(up /\ MainStep) /\ SF_vars(up /\ FinalLock)
    /\ \A t \in Thread : WF_vars(up /\ QueStep(t))

Spec == Init /\ [][Next]_vars /\ Fairness

-----------------------------------------------------------------------------
WriterPC == {"idle", "test", "name", "roll_lock", "close_file", "open_file",
             "line_lock", "line", "pushing", "flush", "load_fp", "fflush"}

TypeOK ==
    /\ up \in BOOLEAN
    /\ m \in Thread \cup {Free}
    /\ \A w \in Writer : pc[w] \in WriterPC
    /\ pc[WriteThread] \in {"pop", "popping", "put_lock", "put", "gone"}
    /\ pc[Main] \in {"running", "drain", "closing", "join", "final_lock", "final", "gone"}
    /\ day \in 1 .. MaxDay + 1 /\ today \in 1 .. MaxDay + 1
    /\ line_count \in Nat
    /\ fp \in [id : Nat \ {0}, path : Path, open : BOOLEAN]
    /\ line \in [Writer -> Line \cup {NoLine}]
    /\ \A w \in Writer : pc[w] \in {"idle", "flush", "load_fp", "fflush"} <=> line[w] = NoLine
    /\ now \in 1 .. MaxDay + 1
    /\ newpath \in [Writer -> Path]
    /\ ptr \in [Writer -> Nat]
    /\ logged \subseteq Line
    /\ written \subseteq Line \X Path
    /\ Que!TypeOK

(* The write thread needs m to make room in the queue, and a writer pushes *)
(* with m in its hand: it must never have to wait there.  The test of      *)
(* full() before the push (log.cc 111) is made under m, so that no other   *)
(* writer can take the room in between.                                    *)
NoWaitWithLock == Que!ProducersWaiting = {}

(* Where a line is: with its writer, queued, with the write thread, or in  *)
(* a file.                                                                 *)
Places(l) ==
    {<<"writer", w>> : w \in {w \in Writer : line[w] = l /\ pc[w] # "pushing"}}
    \cup {<<"push", w>> : w \in {w \in Writer : at[w] # "out" /\ item[w] = l}}
    \cup {<<"queue", i>> : i \in {i \in DOMAIN que : que[i] = l}}
    \cup {<<"thread", t>> : t \in {t \in {WriteThread} :
                /\ item[t] = l
                /\ pc[t] \in {"put_lock", "put"} \/ (pc[t] = "popping" /\ at[t] = "out" /\ ok[t])}}
    \cup {<<"file", p>> : p \in {e \in written : e[1] = l}}

(* No line is lost or written twice, whichever way it takes to the file.   *)
WrittenOnce == \A l \in Line : Cardinality(Places(l)) = IF l \in logged THEN 1 ELSE 0

(* What is logged gets into a file, through the queue or past it, also     *)
(* when the program ends meanwhile (log.cc 151-158 waits for the queue to  *)
(* be empty).                                                              *)
EveryLineWritten ==
    \A l \in Line : l \in logged ~> (~up \/ \E p \in written : p[1] = l)

(* A LOG_ macro returns: nobody waits for m and the queue in a circle.     *)
CallsReturn == \A w \in Writer : pc[w] # "idle" ~> (~up \/ pc[w] = "idle")

(* "Only one thread may operate on _fp" (log.cc 46): what a thread         *)
(* flushes, no other thread has closed.                                    *)
FileIsOpen == \A w \in Writer : pc[w] = "fflush" => ~Closed(ptr[w])

(* close() is "the last chance to wake all waiting threads"                *)
(* (block_queue.hpp 89), and ~Log relies on it to join the write thread.   *)
JoinReturns == pc[Main] = "join" ~> pc[Main] # "join"

=============================================================================

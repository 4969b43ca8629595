# WebServerCC in TLA+

A verification development for the epoll web server in `src/src`: an event loop in the main
thread, a thread pool that runs the connection handlers, an asynchronous log, a pool of MySQL
connections, a timer, and the HTTP code each connection runs. The modules here model the parts
in which several threads, the kernel and the clients act on the same state, the bytes of a
connection from `readv` to `writev`, and the timer's heap.

## 1. The system

`main.cc` constructs a `Server` and calls `start()`, which never returns.

| Component (source) | State | Operations | Talks to |
|---|---|---|---|
| `Server` (`server/server.cc`) | `_users` (fd to `HttpConn`), trigger modes, `_timeout_ms`, `_is_close` | `start`, `_dealListen`, `_addClient`, `_dealRead`, `_dealWrite`, `_onRead`, `_onProcess`, `_onWrite`, `_closeConn` | epoll, thread pool, timer, `HttpConn` |
| `Epoller` (`server/epoller.cc`) | the epoll descriptor and its event array | `addFd`, `modFd`, `delFd`, `wait` | the kernel |
| `ThreadPool` (`pool/thread_pool.hpp`) | `task_que`, `is_closed`, one mutex, one condition variable, shared by detached threads | constructor with the worker lambda, `addTask`, destructor | `Server` submits, workers run its handlers |
| `HttpConn` (`http/http_conn.cc`) | descriptor, `_is_closed`, two buffers, two iovecs, request, response; static `user_count` | `init`, `close_conn`, `read`, `write`, `process` | buffers, request, response |
| `HttpRequest` (`http/http_request.cc`) | parse state, method, path, version, headers, body | `init`, `parse`, `_userVerify`, `_userRegister` | `SqlConnPool` through `SqlConnRAII` |
| `HttpResponse` (`http/http_response.cc`) | status, path, the mapped file and its `stat` | `init`, `makeResponse`, `_unmapFile` | the file system |
| `Buffer` (`buffer/buffer.cc`) | bytes, read and write positions | `append`, `retrieve*`, `hasWritten`, `ensureWritable` | - |
| `Log` (`log/log.cc`, `log.h`) | `_fp`, `_line_count`, `_today`, `_m`, the queue, the write thread | `init`, `write`, `flush`, `_asyncWrite`, destructor | `BlockQueue`, every other component logs |
| `BlockQueue` (`log/block_queue.hpp`) | bounded deque, `_is_closed`, a mutex, two condition variables | `push`, `pop`, `popTimeout`, `full`, `empty`, `flush`, `close` | `Log` |
| `SqlConnPool` (`pool/sql_conn_pool.cc`) and the RAII classes (`RAIIs/`) | `_conn_que`, a mutex, a semaphore | `init`, `getConn`, `freeConn`, `close` | `HttpRequest` |
| `Timer` (`timer/timer.cc`) | a heap of deadlines and an index from id to heap position | `add`, `adjustExpire`, `doWork`, `getNextTick` | `Server` adds, its callback is `_closeConn` |
| `main.cc` | - | - | - |

What makes each part hard, and what makes it correct:

* **ThreadPool** - `addTask` notifies after it has unlocked, workers test `is_closed` only when
  the queue is empty, and nobody joins them. Correct: no lost wakeup, each task runs exactly
  once, the destructor leaves neither work nor sleepers.
* **Server / Epoller / HttpConn** - a connection passes between the main thread, the task queue
  and the workers through a one-shot epoll registration; `HttpConn` has no lock. Descriptors
  are reused as soon as they are closed; clients hang up, reset and stop reading at any time.
  Correct: one owner at a time and never none, an exact user count, no response cut short, no
  client left unserved (as long as no other client keeps the worker, section 4).
* **BlockQueue** - two condition variables, `close` against waiting threads, a timed wait.
  Correct: bound, no lost wakeup on either side, `close` releases the waiters.
* **Log** - a writer pushes with `_m` held, the write thread needs `_m` to write; rotation tests
  are made without it; `flush` uses `_fp` without it; the destructor drains, closes and joins.
  Correct: no deadlock, no line lost or doubled, the FILE in use is open, the destructor returns.
* **SqlConnPool** - `empty()` without the lock, then the semaphore, then the lock. Correct: the
  semaphore and the queue agree, one holder per connection, none used after it was closed.
* **HttpRequest, HttpResponse, Buffer, HttpConn's iovecs** - sequential per connection. Correct:
  positions stay ordered, bytes are not lost or repeated, the iovecs describe the response, each
  mapping is released once.
* **Timer** - sequential. Correct: heap order, index and heap inverse to each other.

The `hazards` list of PROJECT.json has these and more at their lines.

### The code as it is

The commit does not compile as it stands (`std::queue` has neither `top()` nor `clear()`,
default arguments are repeated in definitions, `Log::flushLogThread` is a non-static member
passed to `std::thread`, `main.cc` passes twelve arguments to an eight-argument constructor,
`_extendTime` is declared and not defined) and `Server` never constructs its `_epoller`,
`_timer` and `_thread_pool`. The models take the evident intent there and only there: `top()` is
`front()`, the members exist. Integers that threads share without a lock (`user_count`,
`_line_count`, `_today`) are read and written atomically; the one place where two loads of one
expression matter, `std::queue::empty()` without the lock in `getConn`, is two steps.

## 2. Modules

| Module | Stands for |
|---|---|
| `TaskService` | abstract: what a thread pool promises (FIFO queue, idle workers start the front task) |
| `ThreadPool` | the pool with its mutex and condition variable; implements `TaskService` |
| `ThreadPoolProofs` | proofs about `ThreadPool` |
| `ConnLife` | abstract: the ways on which a connection goes from hand to hand (epoll, event, task, thread) |
| `Server` | event loop, handlers, epoll registration, the connection's life; uses the pool through `TaskService`, implements `ConnLife` |
| `ServerProofs` | proofs about `Server` |
| `Buffer` | the vector with its two positions: operators on a record |
| `HttpRequest` | the line machine of the parser: operators from a line to the set of outcomes |
| `HttpResponse` | the file that is mapped and what is written before it: operators to sets of outcomes |
| `HttpConn` | the steps of one connection object over the three: reads, lines, responses, writes, one client after the other |
| `HttpConnProofs` | proofs about `HttpConn`: the read buffer, mapping and declared length |
| `HttpConnWireProofs` | proofs about `HttpConn`: types, what is sent, how many answers |
| `BlockQueue` | the bounded queue |
| `BlockQueueProofs` | proofs about `BlockQueue` |
| `Log` | writers, write thread, rotation, destructor; composes `BlockQueue` by `INSTANCE` |
| `LogProofs` | proofs about `Log` |
| `SqlConnPool` | pool, semaphore and RAII guard, with the two uses `HttpRequest` makes of it |
| `SqlConnPoolProofs` | proofs about `SqlConnPool` |
| `TimerTable` | abstract: a deadline for each id |
| `Timer` | heap and index of the timer, a step per turn of the sifting loops; implements `TimerTable` |
| `TimerProofs` | proofs about `Timer` |
| `MC...` | instances for TLC; `MCServer` and `MCTimer` also define the symmetry of a run |

How state and actions correspond to the code (PROJECT.json's `map` has every definition with its
lines):

* **ThreadPool.** `m` is the mutex (who holds it), `task_que` and `is_closed` the members of
  `Pool`; `pc[w]` is where a worker is in its lambda (`lock`, `loop`, `sleep` = decided to wait,
  `wait` = in `cond.wait`, `run`, `exit`), `pc[c]` where a user is in `addTask` or the
  destructor. A wait releases `m` and joins the waiters in one step, as the standard says; a
  spurious wakeup is an action. The destructor is called when no other call is in progress or
  will come (`Alive`): the duty of the pool's owner.
* **Server.** `epoll[f]` is the registration (`none`, `off` = fired and not re-armed, `in`,
  `out`), `event[f]` what the loop has yet to look at of the last `wait`. `EpollWait` reports
  every ready descriptor at once and disarms it (EPOLLONESHOT); `DealListen`, `DealHangup`,
  `DealRead`, `DealWrite` are the branches of the loop in any order of descriptors; `ReadData`
  ... `WriteSigpipe` are the system calls of the handlers, one step each, with whatever result
  the kernel may give; `Rearm` is `modFd`; `DelFd`, `TestClosed`, `MarkClosed`, `CloseFd` are
  the steps of `_closeConn`, which the main thread and the workers both take, and `Quit` is what
  is left of it after `close(_fd)`: a log line that reads `_fd`, `_addr` and `user_count`
  (`http_conn.cc:33-34`) while the main thread may have accepted the same descriptor and be
  inside `init` of the same object. A thread's turn on a connection ends with `CloseFd`: what
  `OneOwner` and `NoOrphan` say, they say up to there, and what the line prints is not modelled.
  `Connect`, `Send`, `ShutdownWrite`, `Reset` and `Drain` are the clients. Requests are counts
  of lines in the buffer and responses counts of chunks; what the parser makes of a request is a
  choice. `WriteSigpipe` ends the process: no handler is installed. `StageOf` reads off this
  state who has a connection and what for, which is the state of `ConnLife`; the steps of
  `_closeConn` are one stage there, and the system calls of a handler are steps that leave the
  stage alone.
* **HttpConn.** The owner of the descriptor (`Server` shows that there is one) runs `closed ->
  in -> read -> process -> parse -> respond -> out -> write`; `pc` is where it is. `ReadSome`
  ... `ReadEnds` are the outcomes of one `readv`, `ParseNextLine` ... `ParseDone` one turn of
  `parse`'s loop, `Respond` is `makeResponse` and what follows in `process`, `WriteSome` ...
  `WriteStray` the outcomes of one `writev`. `read_buf` and `write_buf` are Buffers with the
  code's positions, over cells: a request line, a header, CR and LF are a cell each, so that a
  segment can end between CR and LF. `iov0` points into the memory of `write_buf`, `iov1` into a
  file that `mappings` may or may not still hold; `iov_count` only grows, as in the code. A
  response is a cell for each append, then the file. The client's bytes are in `to_send`, then
  `in_data`; `received`, `taken`, `answer`, `wire` and `answers` are history. `up` becomes FALSE
  when the process ends or what it does is undefined: a failed assertion (`asserts` says whether
  the build has them), a `memset` of `retrieveAll` in `init` that is not one of the Buffer's own
  words, `readv` past the end of the vector, a search over a range that ends before it begins, a
  `writev` with iovecs that are not there. After a response `retrieveAll` of `_write_buf` runs
  over the request that lies behind it: `request.whole` becomes FALSE, the strings may be read
  (`isKeepAlive`) and the next `init` of the request, which assigns to them, ends the process
  (`ProcessEnds`). Lengths go through `int` where the code's do (`AsInt`, with `IntLimit` for
  2^31): `FileLen` for what is put in the second iovec, `Total` for what is left to write.
* **Buffer, HttpRequest, HttpResponse.** No state of their own: `Appended`, `Written`,
  `Retrieved`, `RetrievedAll` take and give a Buffer, where a cell of the vector counts as a
  word of the object that `memset` clears; `ParseLine` gives the outcomes of a line in a parse
  state, with the halves of a CRLF where the regular expressions let them pass, `MayEnd` says
  which lines may end the process, `StatusAndSize`, `ErrorHtml` and `AddContent` those of
  `stat`, `open` and `mmap`.
* **BlockQueue.** Each of `push`, `pop`, `close` holds the mutex throughout, except in a wait:
  so the critical section is one step (`PushItem`, `PushBlocks`, `PopItem`, ...), entering a
  wait, being notified and the notifications of `close` after the unlock are others. `at[t]` is
  where thread `t` is; `ok[t]` what its last call returned.
* **Log.** `fp` is the FILE (`id`, path, whether it is open), `now` the struct that `localtime`
  shares with all callers, `written` the history of `fputs` with the file each line went to.
  `write` is `TestRotation`, `NameFile`, `RollLock`, `CloseFile`, `OpenFile` (or `OpenFails`,
  whose assertion ends the process), `LineLock` and `PutLine` or `PutDirect`; LOG_BASE's `flush`
  is `FlushNotify`, `LoadFile`, `FlushFile`: the argument is loaded before `fflush` runs and the
  lock is not held. A call to `fflush` with a closed FILE ends the process (`CrashOnFlush`) or
  does nothing visible. The steps of the queue are `BlockQueue`'s own, for the threads that are
  inside it.
* **SqlConnPool.** A connection is a number; `broken` are those `mysql_real_connect` did not
  make, in whose place the pool holds `nullptr`. `seen` is what the first load of `empty()` saw.
  `PopNothing`, `FindsNothing` and `QueryWithoutRow` end the process (`up`): the assertion of
  `sql_conn_RAII.hpp:25`, `front()` of an empty queue, `row[1]` of no row.
* **Timer.** `heap` and `ref` are `_heap` and `_ref`; position `p` is index `p - 1`. A public
  call is one step up to its first loop (`AddNew`, `Override`, `AdjustExpire`, each with a
  timeout of its own, and `DoWork`), then `pc` says which loop runs, `cur` is its `i`, and
  `next` is where `_delete`'s second loop will begin. `Placeholders` are the 64 nodes the
  constructor makes: they expire at the epoch, before any node `add` makes, and stay in front.
  Two operations end the process (`up`): `GetNextTick`, whose `_tick` calls a placeholder's
  empty callback, and `DoWorkOnLast`, where `_siftup` asserts an index that `pop_back` has just
  removed. The server calls `getNextTick` before anything else; the module lets a user of the
  class make the other calls first, in any order. The clock is `high_resolution_clock`, which
  may be set back (`Tick`). For `TimerTable` the deadline of an id is that of the node `ref`
  names (`DeadlineOf`), in the middle of a call as well.

## 3. Runs

| Run | Instance | Shows |
|---|---|---|
| `pool` | 3 workers, 2 users, 3 tasks | `EnoughAwake`, `CleanShutdown`, `ExactlyOnce`; `EveryTaskRuns`, `WorkersLeave`; the pool implements `TaskService` with its fairness |
| `server_et` | 2 workers, 2 descriptors, 3 connections, 2 sends, all edge-triggered | `OneOwner`, `NoOrphan`, `UserCountExact` |
| `server_live` | 1 worker, mode 1 (listening socket by level, connections by edge), `MAX_FD` 1 and 2 descriptors | `NoTruncation`; `RequestServed`, `BacklogServed`, `ImplementsLife` |
| `server_lt_cut` | level-triggered, 1 connection | `NoTruncation` fails |
| `conn` | 2 clients on one descriptor, 2 requests (a GET, a form without CRLF after it), segments of any size, files of 0, 2, 8 and 17 cells with an `int` below 8, both trigger modes, with and without assertions | `BytesKept`, `WireIsAnswer`, `LengthDeclared`, `MappingExact`, `UnaskedAtMostOne`, `TaskEnds` |
| `queue` | 2 producers, a consumer, a timed consumer, a closer, capacity 2 | `NoLostWakeup` (`ConsumersAwake` and `ProducersAwake`), `ItemsAreTaken`, `CloseReleases` |
| `log` | 2 writers, 2 lines, queue of 1, `_MAX_LINES` 1, a midnight | `NoWaitWithLock`, `WrittenOnce`, `EveryLineWritten`, `CallsReturn` |
| `log_race` | 2 writers, 3 lines, `_MAX_LINES` 2 | `FileIsOpen` fails |
| `log_join` | 1 writer | `JoinReturns` fails |
| `sql` | 4 users, 3 connections | `SemCountsQueue`, `SafeUse` (`OneHolder` and `UsedIsOpen`), `WaitersServed` |
| `sql_null` | 2 users, 1 connection | `NeverNull` fails |
| `timer` | 6 ids, 1 placeholder, timeouts 1 and 2, a clock that goes between 1 and 2 | `RefExact`, `SiftStaysInside`, `HeapOrder`, `ImplementsTable` |

Why the bounds are enough. Three workers are one more than can be busy with two calls, so that a
task can arrive with some asleep, some waking and some running, and a wrong `notify_one` has
somebody else to wake; three tasks let one be queued behind one that runs. Two descriptors and
three connections make a descriptor be closed, reused and closed again while another is served;
two sends give data that arrives during a task and after the re-arm. Responses have up to two
chunks (`MaxOut`) where truncation is looked at, of which the last is "10240 bytes or less"
(`LTRest`): a write may be complete, partial or refused; in `server_et`, which is about whose
turn it is, they have one, that is sent or refused. `MaxLines` of Server bounds the unparsed
lines left by the parser, `MaxBacklog` the listen queue. For the queue, capacity 2 with two
producers lets "full", "one place free" and "empty" be told apart with threads waiting on both
sides. For the log, a queue of one line makes it full at the second line, which is then written
directly; `MaxDay` midnights pass at any time. For the connection pool, more users than
connections make the semaphore block. For the timer, a placeholder and six ids make a heap of
three levels in which a node has two children that differ; with the 64 of the code that shape
needs more than 65 timers, the first 65 being children of placeholders; two timeouts and two
times make deadlines that are equal, earlier and later than those there are. For `conn`, a
second client gets the object as the first has left it, with a stale parser, iovec, file and
buffer; two requests from one client make the second response of a keep-alive connection, and a
second segment the scattered read with an array on the stack. The vector begins with 5 words,
the size of a Buffer, the most that `init` may clear (with the shipped 1024 bytes the first
`init` runs past the Buffer and nothing can be said of what follows: `FirstInitStrays`); the
vectors of 2 words and more that reads leave are all the ways in which the next client's
`retrieveAll` may go: nothing reset, one position, both, half a vector, members. `append` grows
the vector and, after a `retrieve`, compacts it. A file of 2 cells lets `writev` end inside the
head, between the two iovecs, inside the file and at its end; one of 8 has a negative length as
an `int`, one of 17 a length of 1. The second iovec's length is uninitialised, 0 or 1 for
anything else. `LTRest` = 1 lets a level-triggered write stop on either side of 10240 bytes. The
refinement of `ConnLife` is checked in `server_live`, with one worker, where TLC can afford it;
that it holds with several is the theorem. The theorems of section 5 need none of these bounds.

What a client sends in `conn` arrives when the descriptor or the socket is looked at (`Looked`):
between two looks nobody can tell when it came.


`MCServer_et` reduces by the symmetry of workers and descriptors, `MCTimer` by that of the ids;
no run that checks liveness does. `CHECK_DEADLOCK FALSE` stands in the queue's and the log's
configurations: a queue nobody closes may come to rest with its threads asleep, and the log's
run ends with the program. The pool, the server and the connection pool are checked for
deadlock; where they may rest, a stuttering action names the situation (`Terminated`, `Blocked`,
`Killed`, `Lost`).

### What the violations show

* `server_lt_cut` - with level-triggered connections `HttpConn::write` stops once at most 10240
  bytes are left (`http_conn.cc:75`) and returns a positive number; `_onWrite` re-arms only for
  a negative one with EAGAIN and falls through to `_closeConn` (`server.cc:282`). The rest of the
  response is lost although the client is there and no call failed.
* `log_race` - LOG_BASE flushes after `write` without `_m` (`log.h:79`, `log.cc:124`), while the
  comment at `log.cc:46` reserves `_fp` for one thread at a time: a rotation may close the FILE
  in between.
* `log_join` - `close` wakes all waiters (`block_queue.hpp:89-91`), but `pop` looks at
  `_is_closed` only after a wait (113): a write thread between two pops waits afterwards, for
  ever, and `~Log` with it (`log.cc:157`).
* `sql_null` - `SqlConnRAII` asserts that it got a connection, `getConn` returns `nullptr`
  whenever the queue is empty.

Two further things follow from the models without a run of their own. Lines are counted when
they are queued and written after a rotation, so a log file may get more than `_MAX_LINES` lines
and its predecessor fewer. And `popTimeout` (which nothing calls) takes a timeout for an answer
even when it has been notified: `ConsumersAwake` therefore counts a consumer that has given up
as still coming, one item for each. `Timer::add` of a known id changes the deadline in place and
does not sift (`timer.cc:30-33`), and `adjustExpire` only sifts down (11-16), also when the
deadline becomes earlier because its timeout is shorter or the clock was set back: `HeapOrder`
is about heaps without such a change (`unsifted`), and with one it does not hold.

`HttpConn` has more of these, all visible as steps that end with `up` FALSE or with a response
nobody asked for:

* `retrieveAll` clears not the bytes but the Buffer object, for as many bytes as the vector has
  (`buffer.cc:58`), and `HttpConn::init` calls it for both buffers. With 24 to 40 bytes the
  vector is gone and the positions are reset or not: below 40 the read position stays, at 24
  both do (`Stale`), and the next client of the descriptor gets a Buffer with the positions of
  the last one. Its `readv` then has a length that is wrong, on memory that is not there, fails,
  and the client is closed (`BytesKept`); when the positions have crossed, the length is nearly
  2^64 (`TypeOK`). With fewer than 24 bytes half of the vector is cleared, with more than 40 the
  members behind the Buffer: `_write_buf`, the request's strings, the pointer to the mapped
  file, which then stays mapped (`RetrievesAstray`; `MappingExact` excepts it). The shipped
  buffers begin with 1024 (`buffer.h:23`), so the first `init` of the first client already does
  (theorem `FirstInitStrays`). A build with assertions ends at the first `getWritePos()` after
  it (`ReadAsserts`). Without them the empty vector gets its memory from the append of the array
  on the stack, since the first iovec is as long as the bytes that are readable, which are none
  (`http_conn.cc:139`); with bytes left from before, the same length may be more than is
  writable, and `readv` writes past the end (`ReadPastEnd`). `BytesKept` holds as long as
  neither happens.
* `write` calls `retrieveAll` as well, on a `_write_buf` that has held a head of more than 40 bytes
  (`http_conn.cc:68`): the request behind it is run over, so that of a keep-alive connection
  that was sent a file the next `process()` writes to strings that are no more (`ProcessEnds`).
* A file of 2 GiB or more is declared with its length, while `getFileLen()` is an `int`:
  negative, and nothing of it is sent, or too small, and a part is (`http_response.cc:78-80`,
  `http_conn.cc:100-102`; `LengthDeclared` is an equality below 2 GiB and a bound above).
* A line without CRLF that is not the last (a form of a POST, or a piece of a request) is retrieved
  with two bytes more than there are: the positions cross, and either the next search or the next
  `process()` has a length of nearly 2^64 (`ParseOvershot`).
* The last CRLF stays in the buffer (`http_request.cc:62`): a keep-alive connection that goes back
  to `process()` finds it, takes it for a request and answers 404, unasked, then closes
  (`UnaskedAtMostOne`).
* `_iov_count` is never reset (`http_conn.cc:97`), neither for a response nor for a client: with
  one file among two responses the second is given to `writev` with three or four iovecs of an
  array of two, and after two errors with the second iovec as it was left (`Stray`). `writev`
  then fails with EFAULT (`WriteFails`) or sends what lies there (`WriteStray`).
* The header says `close` or `keep-alive` by `isKeepAlive()` and by whether the parse failed,
  `_onWrite` decides by `isKeepAlive()` alone (`server.cc:271`): after a failed parse with the
  header already seen the connection announced as closed is kept.

## 4. Fairness

* Every thread that can take a step inside a call takes one (WF per thread or per thread's
  steps): the scheduler runs all threads.
* A lock or semaphore that is asked for again and again while others release it is eventually
  given (SF on `WorkerLock`, `AddTaskLock`, `DestructorLock`, the lock steps of `Log`, `SemWait`):
  no starvation, as the default mutexes and semaphores of the platform give in practice.
* `TaskService` promises that somebody idle takes the front task; `Server` assumes it and the
  `pool` run checks that `ThreadPool` keeps it.
* A client that stays connected goes on reading what it is sent (`Drain`): without it
  an edge-triggered write would rightly wait for ever. Consumers of the queue come back for more,
  as the write thread's loop does.
* `HttpConn`: the worker that has the connection goes on (`WF_vars(up /\ Server)`). Nothing
  is assumed of when the descriptor becomes ready: `TaskEnds` is about a task that runs.
* An edge-triggered read is repeated until there is nothing to read (`http_conn.cc:41-46`): a
  client that never pauses keeps its worker, and with it the tasks that no other worker takes.
  The runs have bounds on what clients send (`MaxSends`, `MaxRequests`), so that every client
  pauses in the end. That matters for two properties. `RequestServed` is said of such clients
  only. `TaskEnds` excepts the case in its statement: a task ends or is reading what its client
  has gone on to send; the loops of `parse` and `write` and the way back from `_onWrite` to
  `_onProcess` are what it is about.
* Nothing is assumed of new calls, of clients sending or connecting, of midnights or of spurious
  wakeups.

## 5. Theorems

All are proved with no assumption but the named ones on the constants (`PoolAssumption`,
`ServerAssumption`, `ConnAssumption`, `QueueAssumption`, `LogAssumption`, `SqlAssumption`,
`TimerAssumption`: the sets of threads are finite and disjoint, sizes are positive), for every
number of threads, tasks, descriptors and items. Three theorems have a hypothesis of their own on
the instance: `FirstInitStrays` is about buffers that begin with more than a Buffer's own 40 bytes,
`NeverTruncated` is about edge-triggered connections (`ConnET`; the run
`server_lt_cut` shows why), `UnaskedAlwaysAtMostOne` about streams in which only the first line of
a request looks like a request line (`LinesBegin`, which the requests of `conn` satisfy).

* **ThreadPoolProofs.** `TypeCorrect`. `LockCorrect`: `LockInv` says that a thread is in a
  critical section exactly when it holds `m`, and that a worker which has decided to wait still
  sees an empty queue and an open pool. From it `ShutdownIsClean` (with `ClosingInv`, which ties
  `is_closed` to where the destructor is) and `NoLostWakeup`: the inductive step counts. A push
  adds one task and one caller who is about to notify; a notify turns that caller into one awake
  worker; a worker stops being awake only with an empty queue or with the task it takes.
  `ExactlyOnceAlways` from `PlaceInv`: the tasks in calls, in the queue, with workers and done are
  apart, and what was handed over is among them; four steps move a task.
  `PoolImplementsService`: every step is a `TaskService` step or a stutter.
* **ServerProofs.** `TypeCorrect`; `OneOwnerAlways` and `NoOrphanAlways` from the inductive
  invariant `OwnInv`: the two properties together with `EventsDone` (no event is left when the
  loop waits again), `Registered` (what is disarmed is with its owner, and who is about to
  re-arm or delete is registered) and `ClosedFlag` (`_is_closed` agrees with where the closing
  thread is). A thread that has closed its descriptor and has only its log line left (`Quit`)
  holds nothing. Neither property is inductive alone: that a re-armed connection is in nobody
  else's hands needs `OneOwner`, that a reused descriptor has no old event needs `NoOrphan`.
  `UserCountAlwaysExact` counts the live connections through accept and close, which only the
  owner does. `NeverTruncated` and `CutBounded` from `CutInv`: a thread that is about to close a
  connection with more unsent than `Slack` has an excuse, a client that has gone or a system
  call that failed, and the main thread is given nothing to close whose client is there. No
  excuse is withdrawn while the descriptor is open. `Slack` is 0 for edge-triggered connections,
  whose `write` stops at the end or at an error, and `LTRest` otherwise. `ServerImplementsLife`:
  because a connection has one owner (`OwnInv`), its stage can be read off from any of the
  places that name it (`StageIs`, `Staged`), and a step that touches one descriptor leaves the
  stages of all others (`StageKept`). Each action is then one way of `ConnLife` for one
  descriptor, `EpollWait` one of `Reports` for any number of them, and the rest, the clients'
  included, stutters.
* **HttpConnProofs.** `BytesAlwaysKept` from `BytesInv`: the read buffer holds the received
  stream from position `taken` on, cell for cell, and its length is what is left of the stream,
  negative when the positions have crossed; and when `readv` gives anything they have not, which
  is what growth and compaction rely on. A stale Buffer has no vector, so that nothing can be
  read into it: its client has received nothing and is waiting or being closed (`StaleWaits`).
  The lemmas go up from the vector: `WrittenIs`, `GrownIs`, `CompactedIs`, `AppendedHas`, and
  `StoredHas` for the two parts of a scattered read. `MappingAlwaysExact` and
  `LengthAlwaysDeclared` from `ResponseInv`: `init` can give back all that the last response has
  mapped because `_file_stat` still has the size it was mapped with, and what a size is as an
  `int` is never more than the size. `FirstInitStrays` bounds what these theorems are about:
  with the shipped buffer size the process is beyond what is defined as soon as it has a client.
* **HttpConnWireProofs.** `TypeCorrect` from `BytesInv`, `SendInv` and `TypeInv`, which adds the
  parser and how far the positions may cross. `WireAlwaysAnswer` from `SendInv`: while a
  response is being sent, what is on the wire followed by what the iovecs still describe is the
  answer, whether `iov0` points into the buffer or has been used up, and `iov1` into a file that
  is still mapped; a `writev` of any length moves cells from the one to the other.
  `AnswersAlwaysPaid` from `AskInv`: each answer has been paid for by a request line that was
  parsed, except one after which the connection is closed; a request that keeps the connection
  has headers, hence a request line of its own, for `init` of the parser forgets those of the
  one before. `UnaskedAlwaysAtMostOne` adds `CellsInv`: every cell of the stream is one of a
  request that was sent.
* **BlockQueueProofs.** `TypeCorrect` with the bound of the queue; `NoLostConsumer` and
  `NoLostProducer`, together `NoWakeupLost`, by sorting the steps into those that change nothing
  on a side, wake one thread, take one item or place, or leave nothing to take.
* **LogProofs.** `NeverWaitsWithLock` and `OneUser` from `LogInv`: `LockInv` says at which
  places of the code which thread holds `Log::_m`, `RoomInv` that a writer inside `push` holds
  it and that the queue has room. The property alone is not inductive: the answer of `full()`
  stays true until the push only because another push needs `_m` too, while everything the write
  thread and the destructor do to the queue makes room. `Que`'s steps are those of `BlockQueue`,
  so the proof sees the writer's call inside the queue as well. `WrittenOnceAlways` abstracts
  from the threads: `Held` is the line a writer has in its hands, inside `push` or not, `Taken`
  the one the write thread has popped and not yet written. Every step is one of the five ways of
  a line in `Flow` (a call, into the queue, past it into the file, out of the queue, into the
  file) or moves none, and those keep `FlowInv`: every logged line is in one place and in no
  other. `TieInv` holds what passing a line on relies on, such as that the write thread is
  inside `pop` whenever the queue has it. `TypeCorrect` adds the files, the counters and the
  queue's bound.
* **SqlConnPoolProofs.** `TypeCorrect`; `SemaphoreIsExact`: until `close`, the queue has one
  element for each count of the semaphore and each thread that has passed it and not yet popped;
  `OneHolderAlways` and `UsedIsOpenAlways`, together `UseAlwaysSafe`, from `HoldInv`, which adds
  that no queued connection has been closed.
* **TimerProofs.** `TypeCorrect`, `RefAlwaysExact` and `SiftAlwaysInside` from one invariant: to
  the exactness of `ref` it adds `FrontInv`, which says that the placeholders are the first nodes
  and the only ones that expire at the epoch. That is what stops `_siftup`, since a node of
  `add` expires later than its placeholder parent, and it keeps `_swap` to nodes whose ids differ.
  `HeapAlwaysOrdered` from `OrderInv`: while a loop runs the order may be broken at one place only,
  between `cur` and its parent (`_siftup`) or its children (`_siftdown`, which also follows
  `_siftup` in `_delete`). `Edges` says that all other neighbours are in order, `Across` that the
  parent and the children of `cur` are in order with each other, so that a swap moves the place
  and mends what it leaves. `adjustExpire` need only sift down when the deadline does not become
  earlier; nothing is assumed of timeouts or of the clock.
  `TimerImplementsTable`: a swap moves two nodes and their two index entries, so every id finds
  its own deadline again (`SwapKeeps`); `AddNew`, the two ways of setting and the removal change
  the deadline of their id alone.

Only model-checked: liveness, that is `EveryTaskRuns`, `WorkersLeave`, `RequestServed`,
`BacklogServed`, `ItemsAreTaken`, `CloseReleases`, `EveryLineWritten`, `CallsReturn`,
`WaitersServed`, `TaskEnds` and the fairness half of `ImplementsTaskService`. The prover has no
rule for ENABLED, in which fairness is stated.

## 6. Not modelled

* The timer inside the server: `Server` is the program with `_timeout_ms <= 0`. As written, the
  first `getNextTick` calls the empty callback of one of the 64 nodes the constructor makes
  (`timer.cc:5`) and throws, so no behaviour with a timer goes beyond it. `Timer` models the class
  on its own; the loop of `_tick` past its first node and the rest of `getNextTick` are never
  reached.
* Start-up and its failures (`Server::Server`, `_initSocket`): sequential, before any thread but
  the pool's exists. The destructor of `Server`: `start` does not return, nothing sets `_is_close`.
* Text: `HttpConn` tells lines apart by what they do to the parser (a request line, keep-alive,
  a form's type, a form, an empty line, anything else), not by their characters; regular
  expressions, MIME types, form decoding, page names, log levels and formats are left out. What
  a login or registration answers is a choice; what it does to the connection pool is in
  `SqlConnPool`.
* Memory outside of a Buffer: what `retrieveAll`'s `memset` clears behind it is told apart as
  far as the code's own behaviour stays defined (the request after a response, section 3) and
  ends what is said (`up`) otherwise. The Buffer of `Log::write` (`log.cc:116`) is not modelled:
  its `memset` of 1024 bytes reaches `_fp` and `_que`, so that `Log` is the program with a
  `retrieveAll` that empties the Buffer and does nothing else. The descriptors of files, of
  which a failed `mmap` leaves one open (`http_response.cc:120`), are not counted.
* `BlockQueue::clear` (it cannot compile), `size`, `capacity`; `Log::setLevel`, `getLevel`, and a
  second `Log::init`; `Server::_sendError` (one `send` to a refused client).
* `main.cc` (constants and one call), the libraries (MySQL client, libc) except as the code uses
  them.

## 7. Plan

1. `TaskService`, `ThreadPool` - done, proved, the refinement included.
2. `Server` over `TaskService` - done; ownership, count, responses sent in full and the
   refinement of `ConnLife` proved.
3. `BlockQueue`, `Log` over it - done; the queue proved, in `Log` mutual exclusion,
   `NoWaitWithLock` and `WrittenOnce`.
4. `SqlConnPool` - done, proved.
5. `Buffer`, `HttpConn`'s data path - done; the stream of bytes and what is sent proved.
6. `HttpRequest`'s line machine and `HttpResponse`'s mapped file, as the steps of one `process` -
   done; mapping, declared length and number of answers proved.
7. `Timer` - done; index, sifting bounds, order and the refinement of `TimerTable` proved.
8. `Server` with the timer's callback, once the code has a timer that works: `_closeConn` would
   then run in the main thread whatever a worker is doing with the connection (`server.cc:102`).
   Today's program ends at its first tick (section 6).
9. Further proofs: abstract specifications for the other shared objects, the connection pool as an
   allocator and the queue as a channel between producers and consumers, and that they are
   implemented.

# Models of the thread pool, the web server and the exercises

TLA+ modules, TLC configurations and TLAPS proofs for the hand-written C++ of
this repository. The repository is a learning repository: most of its files are
build trees, logs, notes and vendored headers. The core logic is a thread pool
(`thread_learning/`), an epoll web server built on it (`webserver/`), and
exercises in algorithms and patterns (`test_libgo/`, `ros2_ws/`).

Paths below are relative to `src/`; `cpp:490` stands for
`webserver/thread_pool_webserver.cpp`, line 490.

## Inventory

| component | state | operations | talks to |
|---|---|---|---|
| `SimpleThreadPool` (`thread_learning/simple_thread_pool.*`) | task queue, stop flag, mutex, condition variable, worker threads | `submit`, `post`, worker loop, destructor | used by the server; tasks run `handle_io` |
| `BlockQueue<T>` (`webserver/blockQueue.hpp`) | bounded deque, closed flag, mutex, two condition variables | `push`, `pop`, `empty`, `flush`, `close` | used by the logger |
| `Logger` (`webserver/logger.*`) | queue, writer thread, file | `init`, `log`, `asyncWriteLog`, destructor | called by every thread, and by the signal handler |
| `heapTimer` (`webserver/heapTimer.hpp`) | binary heap of expiry times, map from fd to index | `add`, `adjust`, `doWork`, `tick`, `pop`, `getNextTick` | called by the main loop and the workers without a lock; callbacks close connections |
| `SimpleWebServer`, event loop | epoll set, `m_conns`, running flag | `start`, `handleNewConnection`, `handleClientEvent`, `handle_io`, `rearm`, `closeConnection`, `stop`, `cleanup` | hands fds to the pool; shares fds with the kernel |
| `SimpleWebServer`, HTTP | `inbuf`, `outbuf`, `want_close`, routes | `readToInbuf`, `tryParseOneRequest`, `build_response`, `append_response`, `writeFromOutbuf` | inside `handle_io` |
| `Buffer` (`webserver/Buffer.hpp`) | byte vector, two indices | `append`, `retrieve`, `makeSpace` | used by a connection |
| `Socket` (`webserver/Socket.*`) | fd, valid flag | RAII around an fd, `acceptUnique` | owned by a `Conn` |
| `main.cpp` | `g_server` | `signalHandler`, `daemonize`, routes | logger, server |
| `MySQLConnectionPool` (`test_libgo/DesignPattern`) | vector of connections, singleton pointer | `getInstance`, `getConnection`, `releaseConnection` | stands alone |
| sorting, search trees, graphs, monotonic stack (`test_libgo/algorithm_*`) | – | sequential functions | stand alone |
| ROS 2 nodes, benchmark clients | – | call a library | stand alone |
| Hook exercise (`test_libgo/testHook.cpp`) | the machine code of a function | `mprotect`, `memcpy` of a jump | stands alone |

What is hard, component by component, and the property that makes it right:

* **Pool.** `notify_one` after the unlock, stop and join, tasks that submit
  tasks or throw. Right when no worker sleeps while work is unclaimed, every
  accepted task ends exactly once in FIFO order, and the destructor returns
  with nothing left behind.
* **Queue and logger.** One notify per push and pop for many sleepers;
  `m_is_closed` is looked at only after a wait; the destructor tests `empty`,
  then closes, then joins; a signal handler logs, even then. Right when the lines
  accepted before that test are all written, once and in order, and everybody
  gets out.
* **Timer.** Index arithmetic in unsigned types, the side map, renewed timers
  that only sink, a clock that may step back, no lock. Right when the map is
  the inverse of the heap, the front is the earliest timer, a sweep leaves
  nothing due.
* **Event loop.** One-shot events and re-arming, an fd number that names a
  connection in five places (epoll, table, timers, queued tasks, `Socket`),
  closes by the main loop and by workers, numbers that are used again. Right
  when a connection is served by one worker, is never lost or leaked, and input
  is read, output sent and dead peers closed.
* **HTTP and buffers.** Requests cut anywhere or several in one read, a second
  buffer for what does not fit the first, answers that do not fit the socket,
  lengths that overflow, `want_close` while answers are pending. Right when
  every byte read is parsed once, every answer goes out whole and in order, and
  a connection that is not closed is armed for what it needs.
* **Life cycle.** `stop()` in a signal handler on any thread at any time, a
  `start()` that may fail at every call, `cleanup()` while tasks run, a pool
  that outlives the server, statics destroyed after `main`. Right when a stop
  is heeded, nothing stays open and no part of the program logs to a dead logger.
* **Connection pool.** Double-checked locking, exceptions between get and
  release. Right when there is one pool, seen only when complete, and every
  connection is at one place.
* **Algorithms.** Loops whose ranges meet, overlap or run empty, equal items,
  recursion on halves, cycles, nodes that wait on a stack more than once. Right
  when a sort leaves its items in order, a traversal visits what it can reach
  once and in its order, a tree of distinct keys stays in order and in balance
  and is searched in the order promised, and all of them end.

`PROJECT.json` lists the hazards one by one with their lines.

## Modules

| module | models | role |
|---|---|---|
| `Executor` | – | abstract: what a task executor promises |
| `ThreadPool` | `simple_thread_pool.{hpp,cpp}` | detailed; implements `Executor` |
| `BlockQueue` | `blockQueue.hpp` | the queue and its callers |
| `AsyncLogger` | `logger.cpp`, `signalHandler` in `main.cpp` | EXTENDS `BlockQueue`; its actions are made of the queue's, and it implements it |
| `Deadlines` | – | abstract: a collection of deadlines |
| `HeapTimer` | `heapTimer.hpp` | detailed; implements `Deadlines` |
| `Reactor` | `thread_pool_webserver.cpp`, `Socket.cpp` | event loop, workers and connections over the kernel's fds |
| `Buffer` | `Buffer.hpp` | the methods as operators on buffers |
| `Connection` | `thread_pool_webserver.cpp` | HTTP on one connection, over two `Buffer`s and the kernel's socket buffers |
| `Lifecycle` | `main.cpp`, `start`, `stop`, `cleanup`, `Socket.cpp` | the process from `main` to its last static, and signals |
| `ConnectionPool` | `single.pattern.cpp` | the database connection pool |
| `Sorting` | `algorithm_sort/`, `binary_searsh.cpp` | the five sorts and binary search, a step for each turn of a loop |
| `MonotonicStack` | `monotonic_stack.h` | the stack under a caller's pushes and pops |
| `AdjGraph` | `Graph.cpp` | the graph under a caller's edits, and the traversals, a step for each turn of a loop |
| `AvlTree` | the trees of `algorithm_search/` | the AVL tree under a caller's insertions and searches, a step for each call, return, rotation or node looked at |
| `Exercises` | – | runs one of the stand-alone programs, on every input up to the bounds |
| `ThreadPoolProofs`, `HeapTimerProofs`, `ReactorProofs`, `LifecycleProofs`, `SortingProofs` | – | theorems about the module of that name |
| `AsyncLoggerProofs`, `ConnectionProofs` | – | theorems about the module of that name and the one below it, `BlockQueue` and `Buffer` |
| `ExercisesProofs` | – | theorems about `ConnectionPool`, `MonotonicStack`, `AdjGraph` and `AvlTree` |
| `MC*` | – | symmetry sets and inputs for TLC |

`Connection` refines what `Reactor` has as the two steps `Serve` and `Rearm`,
`AsyncLogger` what `log` is for its callers, `ThreadPool` what `queue` and
`Take` are in `Reactor`; `Lifecycle` counts connections and tasks and has the
rest of the server in detail. Each module keeps the full control of its own part
and the others' as the coarser steps they are there.

**ThreadPool.** `pc` says where each thread is. Taking the mutex, deciding the
wait predicate, blocking (release and join the waiters in one step, as
`condition_variable::wait` does), changing the queue with the unlock, and the
notify after it are separate steps. A worker inside a task may call `submit`
(`Submitters` contains the workers). `TaskThrow` stores the exception for a
`packaged_task` and ends the process for a posted callable. The destructor
starts only when no client will call again, which is what the lifetime of a C++
object demands. `MaxSpurious` bounds spurious wake-ups.

**BlockQueue.** As above with two wait sets. Both notifications of `push` and
`pop` are inside the critical section and so part of the step; those of
`close()` come after it. `accepted` is a history of what `push` took. `PopWake`
and `PushWake` test `m_is_closed` after a wait and nowhere else, as the code:
a `push` on a closed queue with room is accepted (`blockQueue.hpp:38`), which a
signal handler does that logs during `~Logger`. Those who hold the mutex in
`empty` and `close` do so for two steps, so that a signal may come in between.

**AsyncLogger.** `Log`, `LogStep`, `WriterPop`, `WriteLine` and the steps of
`~Logger` wrap the queue's actions. A signal handler is a producer of its own
that stops the thread it interrupts, mutex in hand or not. The destructor runs
after the pool's (the logger's function-local static is constructed first, see
`Lifecycle`), so no caller is inside `log`. The handler stays installed: a signal
may interrupt the destructor at each of its steps, or the writer beside it.
`drained` is a history of how many lines had been accepted when `empty()` said
yes; those after it are a handler's (`Late`). One handler runs at a time
here; handlers that nest or meet are in `Lifecycle`.

**HeapTimer.** One call at a time; each iteration of a sift loop is a step, so
that nothing recurses and the intermediate states are checked as well. Indices
start at 1. `UpPastRoot` is the code's `(i-1)/2` at the root: the loop reads
before the vector's storage and either breaks or fails `swapNode_`'s assertion,
so both outcomes are possible. Time is an integer number of ticks, `MsTicks` of
them to a millisecond, because the rounding of `duration_cast` matters. Time
passes where the code reads the clock; `MaxBack` bounds how often it steps
back (libstdc++'s `high_resolution_clock` is the system clock). All timeouts are
`TIMEOUT_MS`, as in the server.

**Reactor.** `open` is what each fd number denotes in the kernel, `table` is
`m_conns`, `timers` the heap as a sequence by expiry (with one timeout a
renewed timer goes last), of which the first `due` have expired. Every call
that touches shared state is a step: DEL, close and erase of
`closeConnection`; ADD, insert and timer of `handleNewConnection`; callback and
pop of `tick`, which is interleaved between threads, as the code has no lock
around it. The last `shared_ptr` that goes runs `~Socket`, which closes the
number once more. `Serve` stands for reading, answering and sending: it ends in
a close, or in `rearm` for input or, when the socket did not take everything,
for output; in a `SIGPIPE`; or, on a connection in `Wrapping`, in the exception
of `assign` (`cpp:391`), which ends the task with the fd neither re-armed nor
closed and is noted in `threw`. Connections in `Bulky` may leave a part of their
answers in `outbuf`. A failed assertion or a `SIGPIPE` sets `aborted`, which stops everything.
The kernel hands out the lowest free number; the bound `ReuseFds` = FALSE keeps a run to behaviours in
which no number is given out twice and `accept` fails when all are spent. Two
histories observe: `stale` notes what the server still had of the earlier
connections of a number when it was given out again (an unhandled event, a
closer, a timer, a `shared_ptr`), `hit` the connections that the `Socket` of
another one has closed.

**Buffer.** A buffer is a record of the vector and the two indices, which count
the bytes before them. `AppendTo` has the three ways of the code: there is
room, the readable bytes move to the front, the vector grows.

**Connection.** A client with a script of requests sends it cut anywhere, and
may shut down its sending side or reset. `sent`, `read`, `delivered` are the
two directions of the TCP stream, `room` what the kernel's send buffer takes.
`Readv` reads into `inbuf` and the second buffer; `Answer` is one turn of the
parse loop with its response appended; `Send` is one call of `send`. A byte is
the number of its message and its position, so that a lost, repeated or swapped
byte shows. Of a head only its end matters, of a request only its lengths and
`shouldKeepAlive`. `NeededLen` wraps as `size_t` does, with `Width` bits.
`Timeout` is a timer's call of `closeConnection`, possible at any time, also
while a worker is in `handle_io`, whose system calls then fail; which timer
fires when, and who gets the number next, is in `Reactor`.

**Lifecycle.** `at` has the places of the main thread and of the activations of
the signal handler, `on` whom each has interrupted: the main thread, a worker,
the logger's writer or another handler (`sa_mask` is empty, so SIGTERM may
interrupt SIGINT's handler). A handler first logs (`HandlerLog`), which may never
return (`HandlerStuck`), then runs `stop()`. It may come until the process ends.
Each call of `start()` that can fail is a step with both outcomes, and so is each
assignment of what a call returned; `stop()` is split at each of its tests and
writes, as is `cleanup()`, for a handler on a worker runs beside both.
`socket` tells the fd's state from that of the pointer to it. A use of freed
memory sets `broken`, after which the process may go on or die.

**ConnectionPool.** `getInstance` is split at its two looks, the lock, the
connections it opens and the publication; `getConnection` and
`releaseConnection` hold the mutex throughout and are a step each. The first look
is a data race in C++; the model has the outcomes of an x86 build, where a
pointer is read whole and stores are seen in program order. A failing
constructor ends the process.

**Sorting.** A caller fills an array, has one of the five functions sort it and
searches it. `running` is the function, `pc` the loop it is in, `i`, `j`, `gap`,
`key` and `temp` its locals; what each turn of a loop does is one step, with the
test that ends the loop. `calls` is the stack of recursive calls: of
`merge_sort` each says how far it has come, `quickSort` has nothing left to do
after its second call, which therefore takes its place. Positions start at 1.
`insert_sort` is `shell_sort`'s pass with gap 1 and has its steps. `heapSort`
sorts a copy that its class hands out to nobody; searching what it left stands
for looking at it. Numbers are
not bounded, so that the overflow of `left + right` is not modelled.

**MonotonicStack.** A push with its loop is one step; `pushed` is a history of
what was pushed and what `pop` took away again.

**AdjGraph.** A caller builds the matrix with `addNode`, `addEdge` and
`removeEdge` and has it traversed from any node. `waiting` is the queue, or the
stack from its top down, on which a node may be several times; a turn of the
outer loop (`Take`) and of the loop over the nodes (`Look`) is a step. The two
functions differ in where a node is marked, at which end it waits and in the
direction of the inner loop.

**AvlTree.** `val`, `left`, `right` and `height` are the fields of the nodes,
which are numbered as they are allocated. `path` has the nodes of the recursive
calls of `insertAVL` that wait, and `tpc` says where the innermost one goes on: on
the way down (`Enter`), after a return (`Leave` measures and chooses a rotation),
or at a rotation. Each return stores the node in the pointer of the caller
(`Store`). The two rotations of `leftRightRotate` and `rightLeftRotate` are two
steps. `Crash` is the null pointer that the first of them may follow. A search
changes no node, so that a behaviour ends with its result.

## Runs

| run | instance | shows |
|---|---|---|
| `ThreadPool` | 3 workers, 2 clients, 3 tasks (1 posted), 1 spurious wake-up | `EnoughWakeUps`, `DrainedWhenDestroyed`, `AcceptedEnds`, `DtorReturns`, `ImplementsExecutor` |
| `AsyncLogger` | 2 callers, writer, capacity 2, 4 lines, 1 signal at any time, 1 spurious wake-up | `LTypeOK`, `LinesConserved`, `NoLineLost`, `ProducersNotStranded`, `ConsumersNotStranded` (of the queue), `LinesGetThrough` |
| `Reactor_safety` | main, 2 workers, 2 connections, 2 fds, given out again; both may throw | `RTypeOK`, `OneWorkerUnlessStale`, `OpenIsTracked`, `TableIsLive` |
| `Reactor_liveness` | main, 2 workers, 2 clients, 1 fd, one of them `Bulky`; both may throw | `DataIsRead`, `AnswerIsSent`, `GoneIsClosed` |
| `HeapTimer` | 5 ids, timeout of 4 ticks, 2 ticks to a millisecond, 1 step back | `HTypeOK`, `RefConsistent`, `HeapOrder`, `ImplementsDeadlines`, `EpollWakesInTime` |
| `Connection` | 6 scripts of 2 requests, sent in pieces of up to 3 bytes; a timer at any time | `CTypeOK`, `BytesConserved`, `AnswersInOrder`, `ClosedWhenDone`, `ArmedForRest`, `RequestAnswered` |
| `Lifecycle` | 2 workers, 1 connection, 1 task queued, 2 signals, 2 handlers at a time | `LcTypeOK`, `LoggerOutlivesCallers`, `DescriptorsReleased`, `StopIsHeeded` |
| `Exercises` | 3 clients of a pool of 2; arrays of up to 5 of 4 numbers; trees of 6 keys (with equal keys up to 7), graphs of 4 nodes, 4 pushes | `OneInstance`, `PoolConserved`, `SortsAgree`, `TraversalsSound`, `ProgramsEnd`, `TreesSound`, `StackSound` |

In four more runs TLC refutes what a comment or an assertion of the code says:

| run | refutes | how |
|---|---|---|
| `AsyncLogger_shutdown` | `logger.cpp:9`, "close the queue first, then wait for the thread to end" | the writer enters `pop` after `close()` has notified; `pop` does not look at the flag before its wait; `join` never returns |
| `Reactor_exclusion` | `cpp:485`, "one fd never enters two workers" | a queued task outlives its connection and meets the next one of that number |
| `Reactor_idle` | `cpp:60-61`, "closes the zombie connections" | two sweeps fire one timer and pop two; the other connection stays open |
| `HeapTimer_assert` | the assertion `heapTimer.hpp:71` | `siftUp_` at the root |

The models show more of this kind, to which no run is given:

* `HandlerReturns` of `AsyncLogger` (`main.cpp:113`, "stop the server
  gracefully") does not hold: the handler wants the queue's mutex on the thread
  that holds it, or waits for room that the interrupted writer should make.
  It is a `PROPERTY` to add to `AsyncLogger.cfg`.
* A line that a handler logs in `~Logger` after `empty()` said yes is accepted
  and may never be written, as the writer may have left or may be told to
  (`Late`, `logger.cpp:10`); `NoLineLost` is about the lines before.
* Nothing uninstalls the handler: after `~Logger` it logs to a dead logger.
  `Lifecycle` notes it in `broken` (`HandlerLog`), and `LoggerOutlivesCallers`
  excuses it.
* `OwnFdOnly` of `Reactor` (`Socket.hpp:29`, no fd is closed by several objects)
  does not hold once numbers are used again: `closeConnection` and `~Socket`
  both close the number, and another connection may have it by then. It is an
  `INVARIANT` to add to `Reactor_exclusion.cfg`. `OwnFdUnlessStale` says when it
  holds, and is proved.
* `adjust` asserts a timer that another sweep may have popped since `getConn`
  (`cpp:499`, `heapTimer.hpp:81`): `Reactor` reaches `aborted = "adjust"`, and
  `"pop"` for the assertion at `heapTimer.hpp:127`.
* `getNextTick` may return a negative number other than -1, with which
  `epoll_wait` does not time out (`heapTimer.hpp:141`, against the comment at
  `cpp:136`). `Lifecycle` has that sleep as `"forever"`, from which a stop on
  another thread does not wake it. A stop that comes before
  `m_server_socket` is assigned (`cpp:74`), the socket made or not, has nothing to
  close, is overwritten by `m_running = true` (`cpp:49`) and lost. And a handler
  stuck in its log call (`main.cpp:16`) never reaches `stop()`. `StopIsHeeded`
  excuses these three.
* After the clock has stepped back a renewed timer can be earlier than its
  parent and stays below it: `HeapOrder` is conditional on `back = 0`.
* The server dies before the pool: tasks still queued use it (`cpp:578`), and so
  does a handler that finds `g_server` after `main` (`main.cpp:111`); a handler
  on a worker may call `close` on the `Socket` that `cleanup` has just deleted.
  `Lifecycle` reaches `broken` on all three ways.
* A client that sends a request and shuts down its sending side gets no answer
  when both are found by one `readToInbuf` (`ReadEnd`, `cpp:278`).
* `send` without `MSG_NOSIGNAL` may end the process (`SendBroken`, `cpp:297`).
* A `Content-Length` near 2^64 wraps the sum at `cpp:389`; `assign` throws, the
  future swallows it, and the connection is deaf until its timer (`ParseThrows`,
  and `Serve` of `Reactor`): what is sent after that is not read, an answer left
  over is not sent, and a client that leaves is not noticed. `DataIsRead`,
  `AnswerIsSent`, `GoneIsClosed`, `ArmedForRest` and `RequestAnswered` excuse such
  a connection: they show that no other way out of `handle_io` does this.
* After a request that asks for a close the loop still answers those that were
  pipelined behind it (`Answer` has no test of `wantClose`, as the code).
* With equal keys the AVL tree is not balanced (1, 1, 1, against the comment at
  line 119 of its file), and `rightLeftRotate` follows a null pointer after
  2, 2, 2, 2, 1, `leftRightRotate` after 3, 1, 1, 1, 1, 2, 2: `TreesSound` asks for
  balance, and excludes `Crash`, while no key has been inserted twice.

**Bounds.** Three workers are what a lost wake-up among others needs: one to
sleep, one to be woken in its place, one to be busy. Lines are pushed once each,
so four lines overrun a capacity of two with both callers asleep. Five ids make
a heap of three levels in which a node with one and a node with two children
occur. The heap's instants reach one past the timeout's truncation, so that
timers expire. Two connections are what cross-talk between connections takes:
one closes, the other suffers, under the same number or next to it. `Reactor_safety` tells states apart by
`WhatMatters`: not by the histories `hit` and `threw`, nor by what the client of
a closed connection did last, which no guard and no invariant there but the type
invariant reads. `Lifecycle` counts connections only, and one is enough to be
left open or to keep a worker busy. Only
`Reactor_liveness` and `Reactor_idle` bound `ReuseFds`, for the size of the graph:
in the first the second client never gets an fd, which exercises a failing `accept`; a stalled output is left to one
of them. In `Connection` an answer of 3 bytes does not fit a `Room` of 2, a
request of up to 4 does not fit the initial 2 bytes of `inbuf`, nor those and
the 2 of `Extra` together with a second one, so that every way of `makeSpace`
occurs; 4 bits are the fewest in which a declared length can wrap the sum and
exceed `max_size`. The scripts put a kept, a closing, an unfinished and a
wrapping request first or second. In `Lifecycle` two signals let a second
stop hit another stop, the cleanup or the destructor after a first; the two
handlers may be nested, or on two threads. Six keys
reach every rotation at two levels, and the sequences with equal keys both crashes; arrays of 5, with equal items, every branch
of the sorts, and what holds of longer ones is proved; graphs of 4 nodes have
cycles beside a path, directed or not.

**Deadlock checking** is off in every run, as each modelled system may come to
rest (a destroyed pool, a closed queue, clients that fall silent, time at its
bound, a process that has ended); hanging threads are what the liveness
properties are about.

**Fairness.** Weak fairness of each thread's steps: the OS schedules every
runnable thread. In `Connection` it is that of `Server`, the worker that has the
event; in `Lifecycle` that of main, of a handler under way and of each worker; in `Exercises` that of
a function called to sort, to search or to traverse, which is sequential code.
One thread has strong fairness, the logger's writer: `~Logger` takes and leaves
`m_mutex` in a busy loop until the writer has emptied the queue, and a mutex that
starved the writer for ever would keep the loop going. Elsewhere weak fairness is
enough, as finitely many tasks, lines or events compete for a mutex. A log call
in a signal handler may get stuck or not. Nobody has to call `submit`, `log` or the destructor,
no signal or spurious wake-up has to come, clients need not connect, send or
read. Task bodies and request handlers end. `TimedSpec` adds that time passes
and serves `Reactor_idle` alone.

## Proofs

TLC checks small instances; TLAPS proves the following for every value of the
constants that the modules' named assumptions admit (`PoolAssumption`,
`QueueAssumption`, `TimerAssumption`, ...: sets are finite where threads are
counted, the special values are not members, sizes are natural numbers).
`Spec => []P` is written as the name of `P`.

| module | theorem | states |
|---|---|---|
| `ThreadPoolProofs` | `TypeCorrect` | `TypeOK` |
| | `Drained` | `DrainedWhenDestroyed` |
| | `NoLostWakeUp` | `EnoughWakeUps` |
| | `PoolIsExecutor` | `EX!Safety`, the safety part of the refinement |
| `AsyncLoggerProofs` | `QTypeCorrect` | `QTypeOK`, with the bound `m_capacity` |
| | `NoProducerStranded`, `NoConsumerStranded` | `ProducersNotStranded`, `ConsumersNotStranded` |
| | `ImplementsQueue` | `LSpec => QSpec` |
| | `LoggerNotStranded` | both of the queue's, in the logger |
| | `LTypeCorrect`, `LinesInOrder`, `FileComplete` | `LTypeOK`, `LinesConserved`, `NoLineLost` |
| `HeapTimerProofs` | `HTypeCorrect`, `RefsConsistent` | `HTypeOK`, `RefConsistent` |
| | `HeapOrdered`, `WakesInTime` | `HeapOrder`, `EpollWakesInTime` |
| | `HeapIsDeadlines` | `ImplementsDeadlines`, the whole refinement |
| `ReactorProofs` | `ReactorTypes`, `Tracked` | `RTypeOK`, `OpenIsTracked` |
| | `OneWorker`, `Live`, `OwnFd` | `OneWorkerUnlessStale`, `TableIsLive`, `OwnFdUnlessStale` |
| | `FirstUse` | `OneWorkerPerFd` and `OwnFdOnly`, before any number is used again |
| `ConnectionProofs` | `AppendAppends`, `WriteInPlaceAppends`, `RetrieveDropsFront` | what `Buffer`'s methods do to the readable bytes |
| | `NeverDeaf`, `ConnectionTypes` | `ArmedForRest`, `CTypeOK` |
| | `RequestsTakenApart`, `Answers`, `Closed` | `BytesConserved`, `AnswersInOrder`, `ClosedWhenDone` |
| `LifecycleProofs` | `LifecycleTypes` | `LcTypeOK` |
| | `LoggerIsThere`, `NothingLeaks` | `LoggerOutlivesCallers`, `DescriptorsReleased` |
| `ExercisesProofs` | `OnePool`, `ConnectionsAccounted` | `OneInstance`, `PoolConserved` |
| | `StackHolds`, `GraphsTraversed` | `StackSound`, `TraversalsSound` |
| | `TreesAreSound` | `TreesSound` |
| `SortingProofs` | `SortTypes`, `SortersSort` | `STypeOK`, `SortsAgree` |

None of the invariants is inductive as it stands. What strengthens them, and why:

* **Pool.** `IInv` ties a program counter to the data: who holds `m_mtx`
  (`MutexInv`), what a submitter carries (`SubmitInv`), which worker is inside
  which task (`RunInv`), that `queued` tasks are exactly those in the queue,
  once (`QueueInv`), and what an exited worker leaves (`ShutdownInv`).
  `DrainedWhenDestroyed` follows: `join` waited for all workers, an exited worker
  left an empty queue, which stays empty because a stopped pool accepts nothing,
  and a running task has a worker inside it. `EnoughWakeUps` needs `BlockInv`: a
  worker that has found the predicate false holds the mutex until it waits, so
  the queue is still empty when it joins the waiters; the rest counts awake
  workers and pending notifies with the library's cardinality theorems. The
  refinement maps each action to one step of `Executor` or to a stutter.
* **Queue.** `QInv` adds that a closer past its first step has closed the queue
  and that a push carries its item. Each step changes the number of items and
  the set of awake threads by one at most, and the lemmas `NotFewer`, `OneMore`
  and `OneLess` turn that into cardinalities.
* **Logger.** Every step of the logger is a step of the queue or leaves it
  alone, so `QInv` holds for free. `LInv` adds the mutex, the handler's place and
  `DtorInv`: none of the callers is inside `log` once the destructor runs, the
  writer has ended when the file is closed, and from the test on at least
  `drained` lines have left the queue, to the writer's hand or the file. The lines
  move from the queue to the hand to the file in order, so that the file begins
  with those `drained` when the writer ends.
* **Timer.** `DataInv` adds to `RefConsistent` what a call under way holds:
  the victim is the last node while a deletion runs, and the sift's indices stay
  inside the rest (`CallInv`). `OrderInv` says which edge of the heap may be out
  of order in the middle of a sift, and that the grandparent bridges it; that a
  renewed timer may only sink needs `NoneLater`: no timer is later than one set
  now. From parent to child the order reaches the root by a least
  counterexample (`FrontEarliest`, the library's well-founded induction used
  through `WFMin`). The refinement looks at the deadlines through `ref_`, where a
  swap of two nodes is a stutter.
* **Event loop.** `ServerInv` holds whatever the kernel gives out. A connection
  keeps its number and goes by it in the table and in every thread (`OwnInv`);
  a number nobody was given is known to no part of the server (`FreshInv`), so
  that something can be left only of a number used before. `OpenIsTracked` is
  inductive with these: who lets go of the last reference closes the number.
  The other properties hold of each number apart. If no event was left of it,
  it carries one token: it is armed in epoll, or its event is in the batch, or
  queued, or a worker has it (`TokenInv`). If no closer, timer or `shared_ptr`
  was left, what `closeConnection` has closed stays closed until it is erased,
  table and threads know the connection that is open, and nobody meddles with
  one that `handleNewConnection` is busy with (`LiveInv`). TLC shows that each
  of the exceptions is needed: dropping one from `OnlyEvents` or from
  `OneWorkerUnlessStale` makes the property fail, though for the timer only
  with two fds and three connections. `Reactor_exclusion` is the case of the event.
* **Buffer and connection.** The buffer's theorems are about operators: whatever
  way `makeSpace` takes, the readable bytes are the old ones and the new. For
  `ArmedForRest`, `RunInv` says that handle_io runs only on a spent event, that
  it writes only when the parser has given up on `inbuf`, and that a thrown
  exception leaves the event spent; a timer's close is told from the others by
  `timedOut`. The rest is one invariant, `ByteInv`: what
  was parsed, followed by `inbuf`, is what was read, and what was sent, followed
  by `outbuf`, is what was answered. The step that carries it is `NextRequest`:
  a complete request in `inbuf` is the next of the script and `NeededLen` is its
  length, for the sum cannot have wrapped when the declared length is one that
  `assign` accepts. It assumes that only the last request of a script declares
  more than is sent, for what followed would be part of that body. What
  `FlattenSeq` makes of a growing list of messages takes an induction; it is
  done with the least number for which the claim fails (`LeastNumber`), which
  needs no induction rule.
* **Life cycle.** `LcInv`: the order in which statics exist (`StaticsInv`), that
  an open epoll fd or listening socket is known to the member that `stop()`
  and `cleanup()` close it through, or not yet assigned to it, or its closer is past
  its write (`EpollInv`, `SocketInv`), that connections exist only while the loop
  or cleanup runs (`ConnsInv`), and that no handler runs before the logger is
  built, nor in a process that has crashed (`HandlersInv`).
* **Connection pool.** `PInv`: who has the mutex (`LockInv`), what a pool under
  construction holds (`BuildInv`), that nobody uses a pool before the
  publication (`NoneYet`) and nobody builds one after it (`OnlyOne`), and what a
  client's pointer and hands hold (`PtrInv`, `HeldInv`).

* **Stack.** With the types, `StackSound` is inductive. A push keeps the items up
  to the last one that the new value does not compare before (`KeptFacts`): they
  are in order, so that these are all that it does not compare before, and the
  pushes they come from are those that remain in `OnStack`.
* **Graphs.** That the next node is the smallest unvisited one next to some node
  `o`, and no node before `o` (breadth-first; after it, depth-first) has any
  (`ComesFrom`), is settled by the nodes up to it, and so stays true of every
  place in the order (`FollowsAppend`). Breadth-first, it holds of the nodes found
  and those in the queue, in this order, and only those in the queue may have
  unmarked neighbours (`BFSInv`). Depth-first, each place on the stack belongs to
  the node that put it there: later ones are on top, each with its neighbours
  in ascending order, and every unmarked neighbour of a visited node is there
  (`StackedBy`), so that the top, if unmarked, is the right one (`TopFollows`).
* **Trees.** Subtrees are recursive, and induction over data is out of reach, so
  `TreeInv` says of a tree by numbers that it is one (`Shape`): each node has a
  place `pos`, counted from left to right, and the range `lo..hi` of the places of
  its subtree. Two ranges are nested or disjoint (`Apart`), a left child has the part
  of its parent's range that is before the parent, a right child the part after it.
  That `Under` is the set of nodes in the range, and `TrueHeight` the height that
  `Measured` gives, then follows by a least range. *Shape*: a rotation leaves all
  places alone and changes two ranges, by which order is kept for free (`InOrder`); a
  new node makes room at its place. A rotation is proved once and used again in
  the mirror, with the places negated. *Calls*: `PathInv` says that the calls under way
  follow the key on one branch, and that the key belongs in the range of the
  innermost, which is what `Allocate` needs. *Heights*: every node knows its height but
  the few that are `Behind`. *Balance*: every node is level but those that are
  `Turning`; of these `Unlevel` says how high their sides are. A subtree has grown by
  one at most, and then it leans to the side of the key unless it is the new leaf
  (`Leans`), so that comparing the key with the child's, as the code does, picks
  the rotation that the heights need; and once a rotation is made, the subtree is
  as high as before the insertion (`Since`), so that nothing above is out of
  balance. With equal keys `Leans` fails, and with it the rest. *Searches*:
  `LookInv` says where a node with the key can still be: below `at`; or below a node
  of the queue, whose nodes are of one level or two adjacent ones, from left to
  right (`BFSOrder`); or below `at` or to the right of a call that waits
  (`DFSOrder`). TLC has checked `TreeInv` on insertions of up to 6 keys.
* **Sorting.** `SortInv` has a part for each function, under its `pc`.
  Permutations are maps of positions onto positions, so that a swap
  (`PermSwap`) or a merge (`PermThrough`) composes one and nothing is counted.
  *Insertion and shell sort* (`NextAt`, `ShiftAt`): with the item in hand put in
  its place the array is a permutation, and the pass with gap 1 keeps what is
  below `i` in order; it is the last pass, as the gap is halved to 1 before it
  is 0. *Merge sort*: each call lies in a half of its caller (`NestInv`), so that
  what it changes leaves its caller's finished half in order (`HalvesInv`); `temp`
  holds what was taken from both halves, in order, and nothing left in them is
  smaller (`TempInv`). *Quick sort*: two items out of order lie in one pending
  call (`Blocks`), and pending calls have no position in common (`Apart`);
  the scans have passed only what belongs on their side, and what they meet on
  is no larger than the pivot (`ScanInv`). *Heap sort*: only the item that sinks
  may be smaller than its children, and its parent is not (`SinkFrom`); the root is
  then a largest item, by a least counterexample; what was popped is in order
  and no smaller than the rest (`SortedAbove`). *Search*: the key is at no
  position outside `i..j` (`SearchInv`). That recursive calls are a stack in a
  variable, and not a recursive operator, is what makes all this a matter of
  steps and brings it within reach of the prover. TLC has checked `SortInv` on
  arrays of up to 5 of 4 numbers.

Only model-checked: liveness under fairness, which is outside what the prover
does. It is `AcceptedEnds`, `DtorReturns` and the fairness part of
`ImplementsExecutor`, `LinesGetThrough`, `DataIsRead`, `AnswerIsSent`,
`GoneIsClosed`, `RequestAnswered`, `StopIsHeeded` and `ProgramsEnd`. Every invariant
and action property of the passing runs is proved.

## Not modelled

* **Vendored headers** (`json.hpp`, `httplib.h`): 14 of the repository's 17
  thousand lines of C++ are these two third-party files. The connection pool reads
  its configuration with the one, where it succeeds or ends the process; a ROS
  exercise downloads a page with the other. The models cover most of the
  repository's own logic, and so a small share of all lines.
* **`Socket`**: setters and accessors that wrap one system call each; `connect`,
  `send`, `recv` and `setTimeout` have no caller.
* **Routing and headers**: which handler answers a request, header texts,
  `sendBadRequest` (no caller). The handlers do not touch the server's state.
* **`daemonize`** is one step that succeeds or fails: it runs before any thread
  exists. **Logger**: levels, formats, and printing to the console when the file
  does not open.
* **`binary_search_tree.cpp`**: two of its functions end without the value they
  promise, and `createBST` is empty. **`priority_queue.hpp`** has no code in its
  functions. **`tesrMysql.cpp`** calls the database driver.
* **Hook exercise**: it overwrites the first bytes of a function with a jump.
* **ROS 2 nodes, benchmark clients**: a library does the work;
  what the clients do to a connection is in `Reactor` and `Connection`.

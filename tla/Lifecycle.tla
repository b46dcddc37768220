----------------------------- MODULE Lifecycle ------------------------------
(***************************************************************************)
(* The life of the server process (webserver/main.cpp and the start, stop  *)
(* and cleanup of thread_pool_webserver.cpp): daemonize, the logger, the   *)
(* server object, sigaction, start() with all its ways to fail, the loop,  *)
(* cleanup(), ~SimpleWebServer, and the destructors of the function-local  *)
(* statics after main.  stop() runs in ~SimpleWebServer and, at any time   *)
(* until the process ends, in signalHandler: on the main thread, a worker, *)
(* the logger's writer, or (SIGTERM in SIGINT's handler, or the reverse)   *)
(* on another activation of it.  Whom it interrupts takes no step until it *)
(* returns.                                                                *)
(*                                                                         *)
(* What the loop does with connections is module Reactor, what log does    *)
(* under a signal is AsyncLogger, how the pool runs tasks is ThreadPool;   *)
(* here connections and tasks are counted, and of log is left that its     *)
(* call in signalHandler may never return.  A use of freed memory has any  *)
(* outcome: it is noted in broken, and the process goes on or ends.        *)
(***************************************************************************)
EXTENDS Integers, Sequences, FiniteSets

CONSTANTS
  Workers,   \* the pool's threads
  Handlers,  \* bound: activations of signalHandler at a time
  MaxConns,  \* bound: connections accepted
  MaxTasks,  \* bound: tasks queued at once
  MaxStops   \* bound: signals

ASSUME LifecycleAssumption ==
  /\ IsFiniteSet(Workers) /\ IsFiniteSet(Handlers)
  /\ {"main", "writer", "none"} \intersect (Workers \union Handlers) = {}
  /\ Workers \intersect Handlers = {}
  /\ MaxConns \in Nat /\ MaxTasks \in Nat /\ MaxStops \in Nat

VARIABLES
  at,        \* where "main" and each handler are
  running,   \* m_running
  pointer,   \* m_server_socket # nullptr
  socket,    \* its Socket: "none", "open", "closed" or "freed"
  epfd,      \* m_epoll_fd # -1
  epoll,     \* whether that epoll fd is open
  conns, accepted,
  tasks,     \* handle_io tasks in the pool's queue
  busy,      \* workers that run one
  statics,   \* the function-local statics, in the order of construction
  server,    \* the SimpleWebServer in main: "none", "alive", "dead"
  on,        \* whom each handler interrupts, or "none"
  stops,     \* signals so far
  broken     \* freed memory has been used

vars == <<at, running, pointer, socket, epfd, epoll, conns, accepted, tasks, busy,
          statics, server, on, stops, broken>>

net   == <<pointer, socket, epfd, epoll>>
load  == <<conns, accepted, tasks, busy>>
life  == <<statics, server>>
signal == <<on, stops>>

Init ==
  /\ at = [who \in {"main"} \union Handlers |-> IF who = "main" THEN "boot" ELSE "idle"]
  /\ running = FALSE
  /\ pointer = FALSE /\ socket = "none" /\ epfd = FALSE /\ epoll = FALSE
  /\ conns = 0 /\ accepted = 0 /\ tasks = 0 /\ busy = {}
  /\ statics = <<>> /\ server = "none"
  /\ on = [h \in Handlers |-> "none"] /\ stops = 0
  /\ broken = FALSE

(* Who is interrupted does not move.                                       *)
Interrupted(who) == \E h \in Handlers : on[h] = who

Moves(who, from, to) ==
  /\ at[who] = from
  /\ ~Interrupted(who)
  /\ at' = [at EXCEPT ![who] = to]

Main(from, to) == Moves("main", from, to)

Built(static) == \E i \in DOMAIN statics : statics[i] = static
Build(static) == statics' = IF Built(static) THEN statics ELSE Append(statics, static)

-----------------------------------------------------------------------------
(* main before start()                                                     *)

(* Mutant: the pool is the first static that main asks for.                *)
BootPool ==
  /\ Main("boot", "init")
  /\ statics' = <<"pool">>
  /\ UNCHANGED <<running, net, load, server, signal, broken>>

(* In the foreground, or as a daemon.                                      *)
Boot ==
  /\ Main("boot", "init")
  /\ UNCHANGED <<running, net, load, life, signal, broken>>

(* A call of daemonize fails: it is logged, and main returns 1.            *)
DaemonizeFails ==
  /\ Main("boot", "exit")
  /\ Build("logger")
  /\ UNCHANGED <<running, net, load, server, signal, broken>>

InitLogger ==
  /\ Main("init", "server")
  /\ Build("logger")
  /\ UNCHANGED <<running, net, load, server, signal, broken>>

MakeServer ==
  /\ Main("server", "sigint")
  /\ server' = "alive"
  /\ UNCHANGED <<running, net, load, statics, signal, broken>>

(* sigaction for SIGINT, then for SIGTERM; main returns 1 if one fails.    *)
Register ==
  /\ \/ Main("sigint", "sigterm") \/ Main("sigterm", "socket")
     \/ \E from \in {"sigint", "sigterm"} : Main(from, "flag")
  /\ UNCHANGED <<running, net, load, life, signal, broken>>

-----------------------------------------------------------------------------
(* start(): initializeServerSocket, initializeEpoll                        *)

(* new Socket(), whose socket() may fail: nobody knows of it yet.          *)
NewSocket ==
  /\ Main("socket", "assign")
  /\ socket' \in {"open", "closed"}
  /\ UNCHANGED <<running, pointer, epfd, epoll, load, life, signal, broken>>

AssignSocket ==
  /\ Main("assign", "listen")
  /\ pointer' = TRUE
  /\ UNCHANGED <<running, socket, epfd, epoll, load, life, signal, broken>>

(* is_valid, setReuseAddr, bind and listen refuse a socket that could not  *)
(* be made or that stop() has closed.                                      *)
Listen ==
  /\ \/ Main("listen", "epoll") /\ socket = "open"
     \/ Main("listen", "drop")
  /\ UNCHANGED <<running, net, load, life, signal, broken>>

EpollCreate ==
  /\ \/ Main("epoll", "number") /\ epoll' = TRUE
     \/ Main("epoll", "drop") /\ UNCHANGED epoll
  /\ UNCHANGED <<running, pointer, socket, epfd, load, life, signal, broken>>

AssignEpoll ==
  /\ Main("number", "add")
  /\ epfd' = TRUE
  /\ UNCHANGED <<running, pointer, socket, epoll, load, life, signal, broken>>

(* EPOLL_CTL_ADD fails if one of the two fds was closed by stop().  The    *)
(* epoll fd is closed then, and m_epoll_fd keeps its number.               *)
EpollAdd ==
  /\ \/ /\ Main("add", "run")
        /\ socket = "open" /\ epoll
        /\ UNCHANGED epoll
     \/ /\ Main("add", "drop")
        /\ epoll' = FALSE
  /\ UNCHANGED <<running, pointer, socket, epfd, load, life, signal, broken>>

(* Mutant: the pointer is cleared, the Socket stays open.                  *)
DropForgets ==
  /\ Main("drop", "dropped")
  /\ UNCHANGED <<running, net, load, life, signal, broken>>

(* delete m_server_socket; m_server_socket = nullptr; return false.        *)
Drop ==
  /\ Main("drop", "dropped")
  /\ socket' = "freed"
  /\ UNCHANGED <<running, pointer, epfd, epoll, load, life, signal, broken>>

Dropped ==
  /\ Main("dropped", "flag")
  /\ pointer' = FALSE
  /\ UNCHANGED <<running, socket, epfd, epoll, load, life, signal, broken>>

-----------------------------------------------------------------------------
(* start(): the loop                                                       *)

SetRunning ==
  /\ Main("run", "pool")
  /\ running' = TRUE
  /\ UNCHANGED <<net, load, life, signal, broken>>

GetPool ==
  /\ Main("pool", "loop")
  /\ Build("pool")
  /\ UNCHANGED <<running, net, load, server, signal, broken>>

(* while (m_running), getNextTick and the call of epoll_wait, which fails  *)
(* on a closed fd.  A negative result of getNextTick sleeps without limit. *)
Loop ==
  /\ IF running /\ epoll /\ epfd THEN \E sleep \in {"wait", "forever"} : Main("loop", sleep)
     ELSE Main("loop", "closeEpoll")
  /\ UNCHANGED <<running, net, load, life, signal, broken>>

(* Mutant: a connection that is closed already is closed once more.        *)
FewerAgain(n) == {n - 1, n}

(* A connection that tick() or a worker closes.                            *)
Fewer(n) == IF n = 0 THEN {0} ELSE {n - 1, n}

Timeout ==
  /\ Main("wait", "loop")
  /\ conns' \in Fewer(conns)
  /\ UNCHANGED <<running, net, accepted, tasks, busy, life, signal, broken>>

(* A sleeping epoll_wait keeps its file when the fd is closed elsewhere:   *)
(* connections are reported, the closed listening socket is not.           *)
Accept ==
  /\ \E sleep \in {"wait", "forever"} : Main(sleep, "loop")
  /\ socket = "open" /\ accepted < MaxConns
  /\ accepted' = accepted + 1
  /\ conns' = IF epoll THEN conns + 1 ELSE conns
  /\ UNCHANGED <<running, net, tasks, busy, life, signal, broken>>

Dispatch ==
  /\ \E sleep \in {"wait", "forever"} : Main(sleep, "loop")
  /\ conns > 0 /\ tasks < MaxTasks
  /\ tasks' = tasks + 1
  /\ UNCHANGED <<running, net, conns, accepted, busy, life, signal, broken>>

-----------------------------------------------------------------------------
(* cleanup()                                                               *)

CloseEpoll ==
  /\ Main("closeEpoll", "clearEpoll")
  /\ epoll' = IF epfd THEN FALSE ELSE epoll
  /\ UNCHANGED <<running, pointer, socket, epfd, load, life, signal, broken>>

ClearEpoll ==
  /\ Main("clearEpoll", "deleteSocket")
  /\ epfd' = FALSE
  /\ UNCHANGED <<running, pointer, socket, epoll, load, life, signal, broken>>

DeleteSocket ==
  /\ Main("deleteSocket", "clearSocket")
  /\ socket' = IF pointer THEN "freed" ELSE socket
  /\ UNCHANGED <<running, pointer, epfd, epoll, load, life, signal, broken>>

ClearSocket ==
  /\ Main("clearSocket", "closeConns")
  /\ pointer' = FALSE
  /\ UNCHANGED <<running, socket, epfd, epoll, load, life, signal, broken>>

CloseConns ==
  /\ Main("closeConns", "flag")
  /\ conns' = 0
  /\ UNCHANGED <<running, net, accepted, tasks, busy, life, signal, broken>>

-----------------------------------------------------------------------------
(* stop(), in ~SimpleWebServer and in each signalHandler: who runs it next *)
(* is at "flag".                                                           *)

StopFlag(who) ==
  /\ Moves(who, "flag", "testSocket")
  /\ running' = FALSE
  /\ broken' = (broken \/ server = "dead")
  /\ UNCHANGED <<net, load, life, signal>>

StopTestSocket(who) ==
  /\ Moves(who, "testSocket", IF pointer THEN "stopSocket" ELSE "testEpoll")
  /\ UNCHANGED <<running, net, load, life, signal, broken>>

(* m_server_socket->close(), or a call on null or on a freed Socket.       *)
StopSocket(who) ==
  /\ Moves(who, "stopSocket", "testEpoll")
  /\ socket' = IF socket = "open" THEN "closed" ELSE socket
  /\ broken' = (broken \/ ~pointer \/ socket = "freed")
  /\ UNCHANGED <<running, pointer, epfd, epoll, load, life, signal>>

StopTestEpoll(who) ==
  /\ Moves(who, "testEpoll", IF epfd THEN "stopEpoll" ELSE "stopped")
  /\ UNCHANGED <<running, net, load, life, signal, broken>>

(* Mutant: stop() leaves the epoll fd to cleanup().                        *)
StopEpollNot(who) ==
  /\ Moves(who, "stopEpoll", "stopped")
  /\ UNCHANGED <<running, net, load, life, signal, broken>>

StopEpoll(who) ==
  /\ Moves(who, "stopEpoll", "clearNumber")
  /\ epoll' = IF epfd THEN FALSE ELSE epoll
  /\ UNCHANGED <<running, pointer, socket, epfd, load, life, signal, broken>>

StopNumber(who) ==
  /\ Moves(who, "clearNumber", "stopped")
  /\ epfd' = FALSE
  /\ UNCHANGED <<running, pointer, socket, epoll, load, life, signal, broken>>

StopStep(who) ==
  \/ StopFlag(who) \/ StopTestSocket(who) \/ StopSocket(who)
  \/ StopTestEpoll(who) \/ StopEpoll(who) \/ StopNumber(who)

(* ~SimpleWebServer is through, and main returns.                          *)
ServerDies ==
  /\ Main("stopped", "exit")
  /\ server' = "dead"
  /\ UNCHANGED <<running, net, load, statics, signal, broken>>

-----------------------------------------------------------------------------
(* signalHandler: info(...), then stop()                                   *)

Threads == {"main"} \union (IF Built("logger") THEN {"writer"} ELSE {})
                    \union (IF Built("pool") THEN Workers ELSE {})

(* The mask is empty, but a signal stays blocked on the thread that runs   *)
(* its handler: one handler may interrupt another, once both are installed.*)
(* Activations are alike, and any free one stands for the new one.         *)
Nestable == {h \in Handlers : at[h] # "idle" /\ on[h] \notin Handlers
                                 /\ at["main"] # "sigterm"}

Signal(h, t) ==
  /\ stops < MaxStops
  /\ at[h] = "idle" /\ h = CHOOSE g \in Handlers : at[g] = "idle"
  /\ ~Interrupted(t)
  /\ at["main"] \notin {"boot", "init", "server", "sigint", "gone"} /\ server # "none"
  /\ at' = [at EXCEPT ![h] = "log"]
  /\ on' = [on EXCEPT ![h] = t]
  /\ stops' = stops + 1
  /\ UNCHANGED <<running, net, load, life, broken>>

(* The log call gets through: after ~Logger it is a use of freed memory.   *)
HandlerLog(h) ==
  /\ Moves(h, "log", "flag")
  /\ broken' = (broken \/ ~Built("logger"))
  /\ UNCHANGED <<running, net, load, life, signal>>

(* Who may be inside log, with the mutex that a handler's call needs: main *)
(* wherever it does not sleep.                                             *)
InLog == {"writer"} \union busy
           \union {h \in Handlers : at[h] \in {"log", "stuck"}}
           \union (IF at["main"] \in {"wait", "forever"} THEN {} ELSE {"main"})

(* It never returns: the interrupted thread holds the mutex, or so does    *)
(* one that waits for such a handler.                                      *)
HandlerStuck(h) ==
  /\ Moves(h, "log", "stuck")
  /\ on[h] \in InLog \/ \E g \in Handlers : at[g] = "stuck"
  /\ UNCHANGED <<running, net, load, life, signal, broken>>

(* An epoll_wait that was interrupted fails with EINTR.                    *)
HandlerReturns(h) ==
  /\ at[h] = "stopped" /\ ~Interrupted(h)
  /\ at' = [at EXCEPT ![h] = "idle",
                      !["main"] = IF on[h] = "main" /\ @ \in {"wait", "forever"}
                                  THEN "closeEpoll" ELSE @]
  /\ on' = [on EXCEPT ![h] = "none"]
  /\ UNCHANGED <<running, net, load, life, stops, broken>>

-----------------------------------------------------------------------------
(* The workers                                                             *)

WorkerTakes(w) ==
  /\ Built("pool") /\ ~Interrupted(w)
  /\ w \notin busy /\ tasks > 0
  /\ tasks' = tasks - 1
  /\ busy' = busy \union {w}
  /\ broken' = (broken \/ server = "dead")
  /\ UNCHANGED <<at, running, net, conns, accepted, life, signal>>

(* handle_io is through; it may have closed its connection.                *)
WorkerEnds(w) ==
  /\ w \in busy /\ ~Interrupted(w)
  /\ busy' = busy \ {w}
  /\ conns' \in Fewer(conns)
  /\ broken' = (broken \/ server = "dead")
  /\ UNCHANGED <<at, running, net, accepted, tasks, life, signal>>

-----------------------------------------------------------------------------
(* After main: the static built last goes first.  ~SimpleThreadPool lets   *)
(* the workers run what is queued, and joins them; ~Logger joins its       *)
(* writer.                                                                 *)
DestroyStatic ==
  /\ Main("exit", "exit")
  /\ statics # <<>>
  /\ statics[Len(statics)] = "pool" =>
       tasks = 0 /\ busy = {} /\ \A w \in Workers : ~Interrupted(w)
  /\ statics[Len(statics)] = "logger" => ~Interrupted("writer")
  /\ statics' = SubSeq(statics, 1, Len(statics) - 1)
  /\ UNCHANGED <<running, net, load, server, signal, broken>>

Gone ==
  /\ Main("exit", "gone")
  /\ statics = <<>>
  /\ UNCHANGED <<running, net, load, life, signal, broken>>

(* Freed memory was used, and the process does not survive it.             *)
Crash ==
  /\ broken /\ at["main"] # "gone"
  /\ at' = [who \in {"main"} \union Handlers |-> IF who = "main" THEN "gone" ELSE "idle"]
  /\ on' = [h \in Handlers |-> "none"]
  /\ UNCHANGED <<running, net, load, life, stops, broken>>

-----------------------------------------------------------------------------
MainStep ==
  \/ Boot \/ DaemonizeFails \/ InitLogger \/ MakeServer \/ Register
  \/ NewSocket \/ AssignSocket \/ Listen
  \/ EpollCreate \/ AssignEpoll \/ EpollAdd \/ Drop \/ Dropped
  \/ SetRunning \/ GetPool \/ Loop \/ Timeout \/ Accept \/ Dispatch
  \/ CloseEpoll \/ ClearEpoll \/ DeleteSocket \/ ClearSocket \/ CloseConns
  \/ StopStep("main") \/ ServerDies \/ DestroyStatic \/ Gone

HandlerStep(h) == HandlerLog(h) \/ StopStep(h) \/ HandlerReturns(h)
WorkerStep(w) == WorkerTakes(w) \/ WorkerEnds(w)

Next ==
  \/ /\ at["main"] # "gone"
     /\ \/ MainStep
        \/ \E h \in Handlers : HandlerStep(h) \/ HandlerStuck(h)
        \/ \E w \in Workers : WorkerStep(w)
  \/ \E h \in Handlers, t \in Threads \union Nestable : Signal(h, t)
  \/ Crash

Spec == Init /\ [][Next]_vars

(* Every thread is scheduled; a timeout passes; clients need not connect   *)
(* or send, no signal has to come, and a log call may or may not be stuck. *)
Fairness ==
  /\ WF_vars(at["main"] # "gone" /\ MainStep)
  /\ \A h \in Handlers : WF_vars(at["main"] # "gone" /\ HandlerStep(h))
  /\ \A w \in Workers : WF_vars(at["main"] # "gone" /\ WorkerStep(w))

FairSpec == Spec /\ Fairness

-----------------------------------------------------------------------------
(* The variables keep to the values the code can give them.                *)
StopPc == {"flag", "testSocket", "stopSocket", "testEpoll", "stopEpoll",
           "clearNumber", "stopped"}
MainPc == StopPc \union
  {"boot", "init", "server", "sigint", "sigterm", "socket", "assign", "listen",
   "epoll", "number", "add", "drop", "dropped", "run", "pool", "loop", "wait", "forever", "closeEpoll",
   "clearEpoll", "deleteSocket", "clearSocket", "closeConns", "exit", "gone"}
HandlerPc == StopPc \union {"idle", "log", "stuck"}

LcTypeOK ==
  /\ at \in [{"main"} \union Handlers -> MainPc \union HandlerPc]
  /\ at["main"] \in MainPc /\ \A h \in Handlers : at[h] \in HandlerPc
  /\ running \in BOOLEAN /\ pointer \in BOOLEAN /\ epfd \in BOOLEAN
  /\ epoll \in BOOLEAN /\ broken \in BOOLEAN
  /\ socket \in {"none", "open", "closed", "freed"}
  /\ accepted \in 0..MaxConns /\ conns \in 0..accepted
  /\ tasks \in 0..MaxTasks /\ busy \subseteq Workers
  /\ statics \in Seq({"logger", "pool"})
  /\ server \in {"none", "alive", "dead"}
  /\ on \in [Handlers -> Workers \union Handlers \union {"main", "writer", "none"}]
  /\ \A h \in Handlers : on[h] = "none" <=> at[h] = "idle"
  /\ stops \in 0..MaxStops

(* The statics go in an order in which the logger is there for its callers *)
(* to the end: for main on all of its ways out, for the tasks that the     *)
(* pool still runs when it is destroyed, and for a signal handler as long  *)
(* as any static is left.  Nothing uninstalls the handler: one that runs   *)
(* after ~Logger is the one caller that finds no logger.                   *)
LoggerOutlivesCallers ==
  /\ busy # {} \/ tasks > 0 \/ at["main"] \notin {"boot", "init", "exit", "gone"} =>
       Built("logger")
  /\ \A h \in Handlers : at[h] \in {"log", "stuck"} =>
       Built("logger") \/ (at["main"] \in {"exit", "gone"} /\ statics = <<>>)

(* On every way out of start(), stopped or not, the server lets go of its  *)
(* listening socket, its epoll fd and all connections.                     *)
DescriptorsReleased ==
  server = "dead" => socket # "open" /\ ~epoll /\ conns = 0

(* A handler that gets past its log call once m_server_socket is set ends  *)
(* the server, even before m_running is set to true: what stop() closes    *)
(* fails the rest of the start, or the first epoll_wait.  Only a sleep     *)
(* without limit, or a handler stuck in its log call, can keep the main    *)
(* loop from seeing it.  (A stop before m_server_socket is set is lost.)   *)
StopIsHeeded ==
  \A h \in Handlers :
    at[h] = "flag" /\ pointer /\ socket = "open" ~>
      \/ at["main"] \in {"forever", "exit", "gone"}
      \/ \E g \in Handlers : at[g] = "stuck"
=============================================================================

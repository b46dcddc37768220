------------------------------ MODULE Reactor ------------------------------
(***************************************************************************)
(* SimpleWebServer (webserver/thread_pool_webserver.{hpp,cpp}) between     *)
(* epoll and the connections: the main loop accepts, sweeps the timers and *)
(* hands events to the thread pool; workers run handle_io; both close      *)
(* connections.  A connection is known by its fd number to epoll, to the   *)
(* Conn table, to the timers and to the queued tasks, and the kernel gives *)
(* a number out again after it was closed.                                 *)
(*                                                                         *)
(* One action per step another thread can observe: a system call, a call   *)
(* on the Conn table under m_conns_mtx, a statement of heapTimer.  heapTimer*)
(* has no lock; interleaving its statements is the mildest reading of that *)
(* race.  What a request says is left out: serving one ends in rearm, in   *)
(* closeConnection, in an exception or in SIGPIPE.  The pool is the        *)
(* executor of module Executor; what a task throws ends the task only.     *)
(***************************************************************************)
EXTENDS Naturals, Sequences, FiniteSets

CONSTANTS
  Workers,    \* the pool's threads
  Main,       \* the thread in SimpleWebServer::start
  Conns,      \* connections clients may make, each a Conn once accepted
  Bulky,      \* those that may leave a part of their answers in outbuf
  Wrapping,   \* those whose requests may have a length that makes assign throw
  MaxFd,      \* bound: fd numbers 1..MaxFd for connections
  ReuseFds,   \* bound: FALSE for behaviours before a number is given out again
  NoConn

Threads == Workers \union {Main}
Fds == 1..MaxFd
NoFd == 0

ASSUME ReactorAssumption ==
  /\ Main \notin Workers
  /\ NoConn \notin Conns
  /\ Bulky \subseteq Conns /\ Wrapping \subseteq Conns
  /\ MaxFd \in Nat \ {0}
  /\ ReuseFds \in BOOLEAN

Events == [fd : Fds, ev : {"in", "out", "err"}]
NoEvent == [fd |-> NoFd, ev |-> "in"]
Incoming == [fd |-> NoFd, ev |-> "accept"]    \* the listening socket's event

VARIABLES
  (* the kernel and the peers *)
  open,      \* the connection each fd number denotes, or NoConn
  epoll,     \* what each fd waits for; "fired" is a spent EPOLLONESHOT
  peer,      \* what each client has done
  (* SimpleWebServer *)
  table,     \* m_conns: fd to Conn
  fdOf,      \* Conn::fd, and its Socket's fd
  outbuf,    \* Conn::outbuf: "empty", or "full" of what the socket did not
             \* take, or "room" when the socket takes more of it
  timers,    \* m_timer: fds by increasing expiry
  due,       \* how many of them have expired
  batch,     \* events of the last epoll_wait that are still to be processed
  queue,     \* handle_io tasks in the pool
  (* the threads *)
  pc,
  job,       \* the arguments of handle_io
  conn,      \* the shared_ptr<Conn> a thread holds
  closing,   \* the argument of closeConnection
  ret,       \* where closeConnection returns to
  phase,     \* what the main loop does after its next tick
  aborted,   \* what ended the process: an assertion, a signal, or "no"
  stale,     \* history: what was left of earlier connections of each fd
             \* number when it was given out again
  hit,       \* history: connections closed by the Socket of another one
  threw      \* history: connections an exception of handle_io has left

vars == <<open, epoll, peer, table, fdOf, outbuf, timers, due, batch, queue,
          pc, job, conn, closing, ret, phase, aborted, stale, hit, threw>>

kernel == <<open, epoll, hit>>
given  == <<fdOf, stale>>
traffic == <<peer, outbuf, threw>>
timer  == <<timers, due>>
loop   == <<batch, queue, phase>>
call   == <<closing, ret>>

Init ==
  /\ open = [f \in Fds |-> NoConn]
  /\ epoll = [f \in Fds |-> "none"]
  /\ peer = [c \in Conns |-> "new"]
  /\ table = [f \in Fds |-> NoConn]
  /\ fdOf = [c \in Conns |-> NoFd]
  /\ outbuf = [c \in Conns |-> "empty"]
  /\ timers = <<>>
  /\ due = 0
  /\ batch = {}
  /\ queue = <<>>
  /\ pc = [t \in Threads |-> IF t = Main THEN "tick" ELSE "take"]
  /\ job = [w \in Workers |-> NoEvent]
  /\ conn = [t \in Threads |-> NoConn]
  /\ closing = [t \in Threads |-> NoFd]
  /\ ret = [t \in Threads |-> "drop"]
  /\ phase = "wait"
  /\ aborted = "no"
  /\ stale = [f \in Fds |-> {}]
  /\ hit = {}
  /\ threw = {}

At(t, where) == pc[t] = where /\ aborted = "no"
Goto(t, where) == pc' = [pc EXCEPT ![t] = where]

-----------------------------------------------------------------------------
(* The clients and the clock.                                              *)

Peer(c, from, to) ==
  /\ aborted = "no"
  /\ peer[c] \in from
  /\ peer' = [peer EXCEPT ![c] = to]
  /\ UNCHANGED <<kernel, table, given, outbuf, threw, timer, loop, pc, job, conn, call,
                 aborted>>

Connected == {open[f] : f \in Fds}

(* What a client does after its connection was closed makes no difference. *)
Connect(c) == Peer(c, {"new"}, "connecting")
Send(c)    == c \in Connected /\ Peer(c, {"quiet"}, "sent")
Leave(c)   == c \in Connected /\ Peer(c, {"quiet", "sent"}, "gone")

(* The client reads of its answers, and the socket takes more again.       *)
Drain(c) ==
  /\ aborted = "no"
  /\ outbuf[c] = "full" /\ peer[c] # "gone" /\ c \in Connected
  /\ outbuf' = [outbuf EXCEPT ![c] = "room"]
  /\ UNCHANGED <<kernel, peer, threw, table, given, timer, loop, pc, job, conn, call,
                 aborted>>

(* The earliest timer that has not expired expires.                        *)
Elapse ==
  /\ aborted = "no"
  /\ due < Len(timers)
  /\ due' = due + 1
  /\ UNCHANGED <<kernel, traffic, table, given, timers, loop, pc, job, conn, call, aborted>>

-----------------------------------------------------------------------------
(* The kernel's close, and shared_ptr<Conn>: the last reference that goes  *)
(* away runs ~Socket, which closes the fd number of the connection.        *)

CloseFd(f) ==
  /\ open' = [open EXCEPT ![f] = NoConn]
  /\ epoll' = [epoll EXCEPT ![f] = "none"]

(* Mutant: the Socket leaves its number open.                              *)
SocketLeaves(c) == UNCHANGED kernel

SocketDtor(c) ==
  /\ CloseFd(fdOf[c])
  /\ hit' = hit \union ({open[fdOf[c]]} \ {c, NoConn})

Holders(c) == {t \in Threads : conn[t] = c}

-----------------------------------------------------------------------------
(* closeConnection(closing[t]): DEL, close, erase.                         *)

CloseDel(t) ==
  /\ At(t, "del")
  /\ epoll' = [epoll EXCEPT ![closing[t]] = "none"]
  /\ Goto(t, "close")
  /\ UNCHANGED <<open, hit, traffic, table, given, timer, loop, job, conn, call, aborted>>

CloseClose(t) ==
  /\ At(t, "close")
  /\ CloseFd(closing[t])
  /\ Goto(t, "erase")
  /\ UNCHANGED <<hit, traffic, table, given, timer, loop, job, conn, call, aborted>>

(* Mutant: the connection stays in the table.                              *)
CloseNoErase(t) ==
  /\ At(t, "erase")
  /\ Goto(t, ret[t])
  /\ UNCHANGED <<kernel, traffic, table, given, timer, loop, job, conn, call, aborted>>

CloseErase(t) ==
  /\ At(t, "erase")
  /\ LET f == closing[t]
         c == table[f]
     IN  /\ table' = [table EXCEPT ![f] = NoConn]
         /\ IF c # NoConn /\ Holders(c) = {}
            THEN SocketDtor(c) ELSE UNCHANGED kernel
  /\ Goto(t, ret[t])
  /\ UNCHANGED <<traffic, given, timer, loop, job, conn, call, aborted>>

Closing(t, f, back) ==
  /\ closing' = [closing EXCEPT ![t] = f]
  /\ ret' = [ret EXCEPT ![t] = back]
  /\ Goto(t, "del")

-----------------------------------------------------------------------------
(* heapTimer::tick, run by the main loop and by the workers' getNextTick:  *)
(* the callback of an expired front, then pop of what is in front by then. *)

TickFire(t) ==
  /\ At(t, "tick")
  /\ due > 0
  /\ Closing(t, Head(timers), "pop")
  /\ UNCHANGED <<kernel, traffic, table, given, timer, loop, job, conn, aborted>>

TickPop(t) ==
  /\ At(t, "pop")
  /\ IF timers = <<>>
     THEN /\ aborted' = "pop"
          /\ UNCHANGED <<timer, pc>>
     ELSE /\ timers' = Tail(timers)
          /\ due' = IF due = 0 THEN 0 ELSE due - 1
          /\ Goto(t, "tick")
          /\ UNCHANGED aborted
  /\ UNCHANGED <<kernel, traffic, table, given, loop, job, conn, call>>

(* A worker goes on to adjust when getNextTick is positive, which it is    *)
(* not when the heap is empty or its front is about to expire.             *)
TickEnd(t) ==
  /\ At(t, "tick")
  /\ due = 0
  /\ IF t = Main THEN Goto(t, phase)
     ELSE \/ timers # <<>> /\ Goto(t, "adjust")
          \/ Goto(t, "serve")
  /\ UNCHANGED <<kernel, traffic, table, given, timer, loop, job, conn, call, aborted>>

(* f has one timer at most.                                                *)
Without(s, f) ==
  IF \E k \in DOMAIN s : s[k] = f
  THEN LET k == CHOOSE k \in DOMAIN s : s[k] = f
       IN  [i \in 1..(Len(s) - 1) |-> s[IF i < k THEN i ELSE i + 1]]
  ELSE s

(* Mutant: the timer f has already is not replaced.                        *)
RefreshTwice(f) ==
  /\ timers' = Append(timers, f)
  /\ UNCHANGED due

(* The expiry of f becomes the latest of all: every timeout is TIMEOUT_MS. *)
Refresh(f) ==
  /\ timers' = Append(Without(timers, f), f)
  /\ due' = IF f \in {timers[i] : i \in 1..due} THEN due - 1 ELSE due

-----------------------------------------------------------------------------
(* The main loop: getNextTick, epoll_wait, tick, processEvents.            *)

Ready ==
  {e \in Events :
     /\ epoll[e.fd] \in {"in", "out"} /\ open[e.fd] # NoConn
     /\ e.ev \in {epoll[e.fd], "err"}
     /\ \/ peer[open[e.fd]] = "gone"
        \/ e.ev = "in" /\ peer[open[e.fd]] = "sent"
        \/ e.ev = "out" /\ outbuf[open[e.fd]] # "full"}

(* One event per ready fd: a peer that is gone shows as an error, or as    *)
(* what the fd waits for.                                                  *)
Batches ==
  {b \in SUBSET Ready :
     /\ {e.fd : e \in b} = {e.fd : e \in Ready}
     /\ \A d, e \in b : d.fd = e.fd => d = e}

Pending == \E c \in Conns : peer[c] = "connecting"

(* Mutant: EPOLLONESHOT is left out.                                       *)
EpollWaitLevel ==
  /\ At(Main, "wait")
  /\ \E b \in Batches : batch' = IF Pending THEN b \union {Incoming} ELSE b
  /\ phase' = "dispatch"
  /\ Goto(Main, "tick")
  /\ UNCHANGED <<open, epoll, hit, traffic, table, given, timer, queue, job, conn, call, aborted>>

(* epoll_wait returns what is ready, or nothing on a timeout; it disarms   *)
(* what it returns.                                                        *)
EpollWait ==
  /\ At(Main, "wait")
  /\ \E b \in Batches :
       /\ batch' = IF Pending THEN b \union {Incoming} ELSE b
       /\ epoll' = [f \in Fds |-> IF f \in {e.fd : e \in b} THEN "fired" ELSE epoll[f]]
  /\ phase' = "dispatch"
  /\ Goto(Main, "tick")
  /\ UNCHANGED <<open, hit, traffic, table, given, timer, queue, job, conn, call, aborted>>

(* handleClientEvent: threadPool.submit of handle_io(fd, events).          *)
Submit(e) ==
  /\ At(Main, "dispatch")
  /\ e \in batch \ {Incoming}
  /\ batch' = batch \ {e}
  /\ queue' = Append(queue, e)
  /\ UNCHANGED <<kernel, traffic, table, given, timer, phase, pc, job, conn, call, aborted>>

DispatchEnd ==
  /\ At(Main, "dispatch")
  /\ batch = {}
  /\ phase' = "wait"
  /\ Goto(Main, "tick")
  /\ UNCHANGED <<kernel, traffic, table, given, timer, batch, queue, job, conn, call, aborted>>

(* handleNewConnection: accept, epoll ADD, addConn, timer.                 *)

FreeFds ==
  {f \in Fds : open[f] = NoConn /\ (ReuseFds \/ \A c \in Conns : fdOf[c] # f)}

(* What there may still be of earlier connections of f: an event that is   *)
(* not handled, a closeConnection under way, a timer, a shared_ptr.        *)
Busy(w) == pc[w] \notin {"take", "drop"}

InBatch(f) == \E e \in batch : e.fd = f
InQueue(f) == \E i \in DOMAIN queue : queue[i].fd = f
Handled(f) == \E w \in Workers : Busy(w) /\ job[w].fd = f
Timed(f)   == \E i \in DOMAIN timers : timers[i] = f

InClose(t, f) == pc[t] \in {"del", "close", "erase"} /\ closing[t] = f
Holds(t, f)   == conn[t] # NoConn /\ fdOf[conn[t]] = f

Kinds == {"event", "closer", "timer", "holder"}
Left(f) ==
  {k \in Kinds :
     \/ k = "event" /\ (InBatch(f) \/ InQueue(f) \/ Handled(f))
     \/ k = "closer" /\ \E t \in Threads : InClose(t, f)
     \/ k = "timer" /\ Timed(f)
     \/ k = "holder" /\ \E t \in Threads : Holds(t, f)}

(* The kernel gives out the lowest free number.                            *)
Accept(c) ==
  /\ At(Main, "dispatch")
  /\ Incoming \in batch
  /\ peer[c] = "connecting"
  /\ FreeFds # {}
  /\ LET f == CHOOSE f \in FreeFds : \A g \in FreeFds : f <= g
     IN  /\ open' = [open EXCEPT ![f] = c]
         /\ fdOf' = [fdOf EXCEPT ![c] = f]
         /\ stale' = [stale EXCEPT ![f] = @ \union Left(f)]
  /\ peer' = [peer EXCEPT ![c] = "quiet"]
  /\ conn' = [conn EXCEPT ![Main] = c]
  /\ batch' = batch \ {Incoming}
  /\ Goto(Main, "add")
  /\ UNCHANGED <<epoll, hit, table, outbuf, threw, timer, queue, phase, job, call, aborted>>

(* Mutant: accept is tried again until it succeeds.                        *)
AcceptRetry ==
  /\ At(Main, "dispatch")
  /\ Incoming \in batch
  /\ FreeFds = {}
  /\ UNCHANGED vars

(* accept fails, for want of fds: a warning and no connection.             *)
AcceptFail ==
  /\ At(Main, "dispatch")
  /\ Incoming \in batch
  /\ FreeFds = {}
  /\ batch' = batch \ {Incoming}
  /\ UNCHANGED <<kernel, traffic, table, given, timer, queue, phase, pc, job, conn, call, aborted>>

(* ADD fails on a number that somebody else has closed by now.             *)
EpollAdd ==
  /\ At(Main, "add")
  /\ LET f == fdOf[conn[Main]]
     IN  IF open[f] = NoConn
         THEN Goto(Main, "drop") /\ UNCHANGED epoll
         ELSE /\ epoll' = [epoll EXCEPT ![f] = "in"]
              /\ Goto(Main, "insert")
  /\ UNCHANGED <<open, hit, traffic, table, given, timer, loop, job, conn, call, aborted>>

(* m_conns[fd] = c lets go of a Conn that was there before.                *)
AddConn ==
  /\ At(Main, "insert")
  /\ LET c == conn[Main]
         old == table[fdOf[c]]
     IN  /\ table' = [table EXCEPT ![fdOf[c]] = c]
         /\ IF old # NoConn /\ Holders(old) = {}
            THEN SocketDtor(old) ELSE UNCHANGED kernel
  /\ Goto(Main, "timer")
  /\ UNCHANGED <<traffic, given, timer, loop, job, conn, call, aborted>>

AddTimer ==
  /\ At(Main, "timer")
  /\ Refresh(fdOf[conn[Main]])
  /\ Goto(Main, "drop")
  /\ UNCHANGED <<kernel, traffic, table, given, loop, job, conn, call, aborted>>

(* The local shared_ptr goes out of scope.                                 *)
Drop(t) ==
  /\ At(t, "drop")
  /\ conn' = [conn EXCEPT ![t] = NoConn]
  /\ LET c == conn[t]
     IN  IF Holders(c) = {t} /\ table[fdOf[c]] # c
         THEN SocketDtor(c) ELSE UNCHANGED kernel
  /\ Goto(t, IF t = Main THEN "dispatch" ELSE "take")
  /\ UNCHANGED <<traffic, table, given, timer, loop, job, call, aborted>>

-----------------------------------------------------------------------------
(* handle_io, run by a worker of the pool.                                 *)

Take(w) ==
  /\ At(w, "take")
  /\ queue # <<>>
  /\ job' = [job EXCEPT ![w] = Head(queue)]
  /\ queue' = Tail(queue)
  /\ Goto(w, "get")
  /\ UNCHANGED <<kernel, traffic, table, given, timer, batch, phase, conn, call, aborted>>

(* getConn, and the error events that close at once.                       *)
GetConn(w) ==
  /\ At(w, "get")
  /\ LET f == job[w].fd
     IN  /\ conn' = [conn EXCEPT ![w] = table[f]]
         /\ \/ table[f] = NoConn /\ Goto(w, "take") /\ UNCHANGED call
            \/ table[f] # NoConn /\ job[w].ev = "err" /\ Closing(w, f, "drop")
            \/ table[f] # NoConn /\ job[w].ev # "err" /\ Goto(w, "tick") /\ UNCHANGED call
  /\ UNCHANGED <<kernel, traffic, table, given, timer, loop, job, aborted>>

(* m_timer.adjust asserts that the fd has a timer.                         *)
Adjust(w) ==
  /\ At(w, "adjust")
  /\ IF job[w].fd \in {timers[i] : i \in DOMAIN timers}
     THEN /\ Refresh(job[w].fd)
          /\ Goto(w, "serve")
          /\ UNCHANGED aborted
     ELSE /\ aborted' = "adjust"
          /\ UNCHANGED <<timer, pc>>
  /\ UNCHANGED <<kernel, traffic, table, given, loop, job, conn, call>>

(* Read until EAGAIN if there is input, answer what is complete, send what *)
(* the socket takes: the connection goes on, or ends because the peer did, *)
(* a system call failed, or it was to be closed after the answer.  A send  *)
(* to a peer that is gone may raise SIGPIPE.  The assign of a length that  *)
(* wraps throws: what was answered before it stays unsent, and the fd is   *)
(* neither re-armed nor closed.                                            *)
Serve(w) ==
  /\ At(w, "serve")
  /\ LET f == job[w].fd
         c == open[f]
         rests == IF conn[w] \in Bulky THEN {"empty", "full"} ELSE {"empty"}
         unsent == IF conn[w] \in Bulky THEN {"room"} ELSE {}
     IN  \/ /\ Closing(w, f, "drop")
            /\ UNCHANGED <<traffic, aborted>>
         \/ /\ c # NoConn /\ peer[c] # "gone"
            /\ peer' = IF job[w].ev = "in" THEN [peer EXCEPT ![c] = "quiet"] ELSE peer
            /\ \E rest \in rests : outbuf' = [outbuf EXCEPT ![conn[w]] = rest]
            /\ \/ outbuf'[conn[w]] = "empty" /\ Closing(w, f, "drop")
               \/ Goto(w, "rearm") /\ UNCHANGED call
            /\ UNCHANGED <<threw, aborted>>
         \/ /\ c # NoConn /\ peer[c] # "gone"
            /\ job[w].ev = "in" /\ c \in Wrapping
            /\ peer' = [peer EXCEPT ![c] = "quiet"]
            /\ \E rest \in {outbuf[conn[w]]} \union unsent :
                 outbuf' = [outbuf EXCEPT ![conn[w]] = rest]
            /\ threw' = threw \union {c}
            /\ Goto(w, "drop")
            /\ UNCHANGED <<call, aborted>>
         \/ /\ c # NoConn /\ peer[c] = "gone"
            /\ job[w].ev = "in" \/ outbuf[conn[w]] # "empty"
            /\ aborted' = "sigpipe"
            /\ UNCHANGED <<traffic, pc, call>>
  /\ UNCHANGED <<kernel, table, given, timer, loop, job, conn>>

(* Mutant: the connection is not re-armed.                                 *)
NoRearm(w) ==
  /\ At(w, "rearm")
  /\ Goto(w, "drop")
  /\ UNCHANGED <<kernel, traffic, table, given, timer, loop, job, conn, call, aborted>>

(* Mutant: the connection is re-armed for input, whatever is left to send. *)
RearmIn(w) ==
  /\ At(w, "rearm")
  /\ LET f == job[w].fd
     IN  epoll' = [epoll EXCEPT ![f] = IF @ = "none" THEN @ ELSE "in"]
  /\ Goto(w, "drop")
  /\ UNCHANGED <<open, hit, traffic, table, given, timer, loop, job, conn, call, aborted>>

(* For output while there is something left to send, for input else.  MOD  *)
(* fails, unnoticed, on a number that is not registered.                   *)
Rearm(w) ==
  /\ At(w, "rearm")
  /\ LET f == job[w].fd
     IN  epoll' = [epoll EXCEPT ![f] =
                     IF @ = "none" THEN @
                     ELSE IF outbuf[conn[w]] = "empty" THEN "in" ELSE "out"]
  /\ Goto(w, "drop")
  /\ UNCHANGED <<open, hit, traffic, table, given, timer, loop, job, conn, call, aborted>>

-----------------------------------------------------------------------------
ThreadStep(t) ==
  \/ CloseDel(t) \/ CloseClose(t) \/ CloseErase(t)
  \/ TickFire(t) \/ TickPop(t) \/ TickEnd(t)
  \/ Drop(t)

MainStep ==
  \/ ThreadStep(Main)
  \/ EpollWait
  \/ \E e \in batch : Submit(e)
  \/ DispatchEnd
  \/ \E c \in Conns : Accept(c)
  \/ AcceptFail
  \/ EpollAdd \/ AddConn \/ AddTimer

WorkerStep(w) ==
  \/ ThreadStep(w)
  \/ Take(w) \/ GetConn(w) \/ Adjust(w) \/ Serve(w) \/ Rearm(w)

Next ==
  \/ MainStep
  \/ \E w \in Workers : WorkerStep(w)
  \/ \E c \in Conns : Connect(c) \/ Send(c) \/ Leave(c) \/ Drain(c)
  \/ Elapse

Spec == Init /\ [][Next]_vars

(* Threads are scheduled; clients need not do anything.                    *)
Fairness ==
  /\ WF_vars(MainStep)
  /\ \A w \in Workers : WF_vars(WorkerStep(w))

FairSpec == Spec /\ Fairness

(* With time passing, too, a timer that is not refreshed expires.          *)
TimedSpec == FairSpec /\ WF_vars(Elapse)

-----------------------------------------------------------------------------
ThreadPc == {"tick", "pop", "del", "close", "erase", "drop"}
WorkerPc == ThreadPc \union {"take", "get", "adjust", "serve", "rearm"}
MainPc == ThreadPc \union {"wait", "dispatch", "add", "insert", "timer"}

(* The variables keep to the values the code can give them; no fd has two  *)
(* timers.                                                                 *)
RTypeOK ==
  /\ open \in [Fds -> Conns \union {NoConn}]
  /\ epoll \in [Fds -> {"none", "in", "out", "fired"}]
  /\ peer \in [Conns -> {"new", "connecting", "quiet", "sent", "gone"}]
  /\ table \in [Fds -> Conns \union {NoConn}]
  /\ fdOf \in [Conns -> Fds \union {NoFd}]
  /\ outbuf \in [Conns -> {"empty", "full", "room"}]
  /\ timers \in Seq(Fds) /\ due \in 0..Len(timers)
  /\ \A i, j \in DOMAIN timers : timers[i] = timers[j] => i = j
  /\ batch \subseteq Events \union {Incoming}
  /\ queue \in Seq(Events)
  /\ pc \in [Threads -> WorkerPc \union MainPc]
  /\ pc[Main] \in MainPc /\ \A w \in Workers : pc[w] \in WorkerPc
  /\ job \in [Workers -> Events \union {NoEvent}]
  /\ conn \in [Threads -> Conns \union {NoConn}]
  /\ closing \in [Threads -> Fds \union {NoFd}]
  /\ ret \in [Threads -> {"drop", "pop"}]
  /\ phase \in {"wait", "dispatch"}
  /\ aborted \in {"no", "adjust", "pop", "sigpipe"}
  /\ stale \in [Fds -> SUBSET Kinds]
  /\ hit \subseteq Conns /\ threw \subseteq Conns

(* A worker in handle_io, from its lookup of the connection to its rearm   *)
(* or closeConnection; after that only the shared_ptr goes.                *)
Working(w) == conn[w] # NoConn /\ pc[w] # "drop"

(* thread_pool_webserver.cpp:485: "EPOLLONESHOT guarantees that the same   *)
(* fd does not enter two workers at the same time".                        *)
OneWorkerPerFd ==
  \A v, w \in Workers :
    Working(v) /\ Working(w) /\ job[v].fd = job[w].fd => v = w

(* It does so for every number that was never given out while an event for *)
(* an earlier connection of that number was under way.                     *)
OneWorkerUnlessStale ==
  \A v, w \in Workers :
    Working(v) /\ Working(w) /\ job[v].fd = job[w].fd /\ "event" \notin stale[job[v].fd]
      => v = w

(* No connection is lost track of, whatever becomes of its number: an open *)
(* fd is in the table, or a thread holds its Conn and with it the Socket   *)
(* that closes the fd in the end.                                          *)
OpenIsTracked ==
  \A f \in Fds :
    open[f] # NoConn => table[f] = open[f] \/ \E t \in Threads : conn[t] = open[f]

(* The table knows no dead connection: an entry whose fd is closed is      *)
(* about to be erased by the thread that closed it.  That is so for every  *)
(* number that was given out only when no closer, no timer and no          *)
(* shared_ptr was left of earlier connections.                             *)
OnlyEvents(f) == stale[f] \subseteq {"event"}
TableIsLive ==
  \A f \in Fds :
    table[f] # NoConn /\ OnlyEvents(f) =>
      \/ open[f] = table[f]
      \/ \E t \in Threads : pc[t] = "erase" /\ closing[t] = f

(* The kernel closes everything when the process ends.                     *)
Closed(c) == c \notin Connected \/ aborted # "no"

(* What a client has sent is read, or its connection is closed, or the     *)
(* client lets answers pile up unread; but if handle_io has ever thrown on *)
(* a request of this client, its fd stays disarmed, and what it sends      *)
(* after that stays unread until its timer expires.                        *)
DataIsRead ==
  \A c \in Conns :
    peer[c] = "sent" ~>
      (peer[c] # "sent" \/ outbuf[c] = "full" \/ Closed(c) \/ c \in threw)

(* What the socket did not take at once is sent when the client has made   *)
(* room for it, unless handle_io throws on a request of this client, which *)
(* leaves even answers it never tried to send.                             *)
AnswerIsSent ==
  \A c \in Conns :
    outbuf[c] = "room" ~> (outbuf[c] # "room" \/ Closed(c) \/ c \in threw)

(* A connection whose peer is gone is closed; after handle_io has thrown   *)
(* on it only its timer does that.                                         *)
GoneIsClosed ==
  \A c \in Conns :
    peer[c] = "gone" ~> (Closed(c) \/ c \in threw)

(* thread_pool_webserver.cpp:60-61: "[check for timeouts] ... runs all     *)
(* expired callbacks, closes the zombie connections": an idle connection   *)
(* does not stay open for ever.                                            *)
IdleIsClosed ==
  \A c \in Conns :
    (peer[c] = "quiet" /\ c \in Connected)
      ~> (peer[c] # "quiet" \/ Closed(c))

(* Socket.hpp:29: copying is disabled "to keep several objects from        *)
(* closing the same fd": the Socket of one connection closes no other.     *)
OwnFdOnly == hit = {}

(* It does not while all numbers are given out like that.                  *)
OwnFdUnlessStale == (\A f \in Fds : OnlyEvents(f)) => OwnFdOnly
=============================================================================

---------------------------- MODULE ReactorProofs ----------------------------
(***************************************************************************)
(* Theorems about Reactor, for any numbers of workers, connections and fd  *)
(* numbers, with the kernel giving numbers out again.                      *)
(***************************************************************************)
EXTENDS Reactor, SequenceTheorems, WellFoundedInduction, TLAPS

ClosingPc == {"del", "close", "erase"}
Accepting == pc[Main] \in {"add", "insert"}

(* Who holds a connection, and where closeConnection returns to.           *)
ControlInv ==
  /\ \A w \in Workers :
       /\ conn[w] = NoConn <=> pc[w] \in {"take", "get"}
       /\ pc[w] # "take" => job[w] \in Events
  /\ conn[Main] = NoConn <=> pc[Main] \notin {"add", "insert", "timer", "drop"}
  /\ \A t \in Threads : pc[t] \in ClosingPc => closing[t] \in Fds
  /\ pc[Main] \in ClosingPc => ret[Main] = "pop"

(* A connection goes by its own fd number wherever it is known, and what   *)
(* the main loop accepted is open under it or closed already.  Only an     *)
(* open number is registered with epoll.                                   *)
OwnInv ==
  /\ \A c \in Conns : peer[c] \in {"new", "connecting"} => fdOf[c] = NoFd
  /\ \A f \in Fds : open[f] # NoConn => fdOf[open[f]] = f
  /\ \A f \in Fds : table[f] # NoConn => fdOf[table[f]] = f
  /\ \A t \in Threads : conn[t] # NoConn => fdOf[conn[t]] \in Fds
  /\ \A w \in Workers : conn[w] # NoConn => fdOf[conn[w]] = job[w].fd
  /\ Accepting => open[fdOf[conn[Main]]] \in {conn[Main], NoConn}
  /\ \A f \in Fds : open[f] = NoConn => epoll[f] = "none"

Owned(f) == \E c \in Conns : fdOf[c] = f

(* No part of the server has heard of f yet.                               *)
Strange(f) ==
  /\ table[f] = NoConn
  /\ ~Timed(f) /\ ~InBatch(f) /\ ~InQueue(f)
  /\ \A t \in Threads : closing[t] # f
  /\ \A w \in Workers : job[w].fd # f

(* A number nobody was given is strange to the server.  So something can   *)
(* be left only of a number that a connection had before.                  *)
FreshInv ==
  /\ \A f \in Fds : ~Owned(f) => Strange(f)
  /\ \A f \in Fds :
       stale[f] # {} => ReuseFds /\ \E c, d \in Conns : c # d /\ fdOf[c] = f /\ fdOf[d] = f

(* What holds whatever the kernel gives out.                               *)
ServerInv == RTypeOK /\ ControlInv /\ OwnInv /\ FreshInv /\ OpenIsTracked

(* What brings a worker to f: f is armed, or its event waits in the batch  *)
(* or in the queue, or a worker has it.  There is one of these at a time,  *)
(* and none for a new connection, if there was none when f was given out.  *)
Armed(f)   == epoll[f] \in {"in", "out"}
NoToken(f) == ~Armed(f) /\ ~InBatch(f) /\ ~InQueue(f) /\ ~Handled(f)
Adding(f)  == pc[Main] = "add" /\ fdOf[conn[Main]] = f

OneToken(f) ==
  /\ Armed(f) => ~InBatch(f) /\ ~InQueue(f) /\ ~Handled(f)
  /\ InBatch(f) => ~InQueue(f) /\ ~Handled(f)
  /\ InQueue(f) => ~Handled(f)
  /\ \A d, e \in batch : d.fd = f /\ e.fd = f => d = e
  /\ \A i, j \in DOMAIN queue : queue[i].fd = f /\ queue[j].fd = f => i = j
  /\ \A v, w \in Workers : Busy(v) /\ Busy(w) /\ job[v].fd = f /\ job[w].fd = f => v = w
  /\ Adding(f) => NoToken(f)

TokenInv == \A f \in Fds : "event" \notin stale[f] => OneToken(f)

(* If no closer, timer or shared_ptr was left of a number: what            *)
(* closeConnection has closed stays closed until it is erased, the table   *)
(* and the threads know the connection that is open, and nobody meddles    *)
(* with a connection that handleNewConnection is busy with.                *)
LiveFd(f) ==
  /\ \A t \in Threads : pc[t] = "erase" /\ closing[t] = f => open[f] = NoConn
  /\ \A t \in Threads : Holds(t, f) /\ open[f] # NoConn => conn[t] = open[f]
  /\ table[f] # NoConn =>
       \/ open[f] = table[f]
       \/ \E t \in Threads : pc[t] = "erase" /\ closing[t] = f
  /\ Accepting /\ fdOf[conn[Main]] = f =>
       /\ table[f] = NoConn /\ open[f] = conn[Main] /\ ~Timed(f)
       /\ \A t \in Threads : ~InClose(t, f)
       /\ \A w \in Workers : ~Holds(w, f)

LiveInv == \A f \in Fds : OnlyEvents(f) => LiveFd(f)

-----------------------------------------------------------------------------
(* What the steps have in common.                                          *)

LEMMA ServerInit == Init => ServerInv /\ TokenInv /\ LiveInv /\ OwnFdUnlessStale
<1> SUFFICES ASSUME Init PROVE ServerInv /\ TokenInv /\ LiveInv /\ OwnFdUnlessStale
  OBVIOUS
<1> USE ReactorAssumption DEF Init, Threads, Fds, NoFd
<1>1. RTypeOK
  BY DEF RTypeOK, ThreadPc, WorkerPc, MainPc, Events, NoEvent
<1>2. ControlInv /\ OwnInv
  BY DEF ControlInv, OwnInv, ClosingPc, Accepting
<1>3. FreshInv
  BY DEF FreshInv, Strange, Owned, Timed, InBatch, InQueue, NoEvent
<1>4. TokenInv
  BY DEF TokenInv, OneToken, Armed, InBatch, InQueue, Handled, Busy, Adding
<1>5. LiveInv /\ OwnFdUnlessStale
  BY DEF LiveInv, LiveFd, Accepting, Holds, InClose, OwnFdUnlessStale, OwnFdOnly
<1>6. OpenIsTracked
  BY DEF OpenIsTracked
<1> QED BY <1>1, <1>2, <1>3, <1>4, <1>5, <1>6 DEF ServerInv

(* The clients and the clock touch nothing that the server's invariants    *)
(* are about.                                                              *)
Outside ==
  \/ \E c \in Conns : Connect(c) \/ Send(c) \/ Leave(c) \/ Drain(c)
  \/ Elapse

LEMMA OutsideKeeps ==
  ASSUME Outside \/ UNCHANGED vars
  PROVE  UNCHANGED <<open, epoll, hit, stale, table, fdOf, timers, batch, queue, phase,
                     pc, job, conn, closing, ret, aborted>>
BY DEF Outside, Connect, Send, Leave, Peer, Drain, Elapse, vars, kernel, given, timer, loop, call

(* Refresh brings f to the end of the timers, with one timer for it.       *)
LEMMA WithoutOne ==
  ASSUME NEW s \in Seq(Fds), NEW f \in Fds,
         \A i, j \in DOMAIN s : s[i] = s[j] => i = j
  PROVE  /\ Without(s, f) \in Seq(Fds)
         /\ Len(Without(s, f)) = IF \E i \in DOMAIN s : s[i] = f THEN Len(s) - 1 ELSE Len(s)
         /\ \A i \in DOMAIN Without(s, f) :
              /\ Without(s, f)[i] # f
              /\ \E j \in DOMAIN s : s[j] = Without(s, f)[i]
         /\ \A i, j \in DOMAIN Without(s, f) :
              Without(s, f)[i] = Without(s, f)[j] => i = j
<1>1. Len(s) \in Nat /\ DOMAIN s = 1..Len(s) /\ \A i \in 1..Len(s) : s[i] \in Fds
  OBVIOUS
<1>2. CASE ~\E i \in DOMAIN s : s[i] = f
  BY <1>1, <1>2 DEF Without
<1>3. CASE \E i \in DOMAIN s : s[i] = f
  <2> DEFINE k == CHOOSE i \in DOMAIN s : s[i] = f
             w == Without(s, f)
             Old(i) == IF i < k THEN i ELSE i + 1
  <2>1. k \in 1..Len(s) /\ s[k] = f
    BY <1>1, <1>3
  <2>2. w = [i \in 1..(Len(s) - 1) |-> s[Old(i)]]
    BY <1>3 DEF Without
  <2> HIDE DEF k, w
  <2>3. \A i \in 1..(Len(s) - 1) : Old(i) \in 1..Len(s) /\ Old(i) # k
    BY <1>1, <2>1
  <2>4. \A i, j \in 1..(Len(s) - 1) : Old(i) = Old(j) => i = j
    BY <1>1, <2>1
  <2> HIDE DEF Old
  <2>5. DOMAIN w = 1..(Len(s) - 1) /\ \A i \in 1..(Len(s) - 1) : w[i] = s[Old(i)]
    BY <2>2
  <2>6. Len(s) - 1 \in Nat
    BY <1>1, <2>1
  <2>7. w \in [1..(Len(s) - 1) -> Fds]
    BY <1>1, <2>2, <2>3
  <2>8. w \in Seq(Fds) /\ Len(w) = Len(s) - 1
    BY <2>6, <2>7
  <2>9. \A i, j \in DOMAIN w : w[i] = w[j] => i = j
    BY <1>1, <2>3, <2>4, <2>5
  <2>10. \A i \in DOMAIN w : w[i] # f /\ \E j \in DOMAIN s : s[j] = w[i]
    BY <1>1, <2>1, <2>3, <2>5
  <2> QED BY <1>3, <2>8, <2>9, <2>10 DEF w
<1> QED BY <1>2, <1>3

LEMMA Refreshed ==
  ASSUME RTypeOK, NEW f \in Fds, Refresh(f)
  PROVE  /\ timers' \in Seq(Fds) /\ due' \in 0..Len(timers')
         /\ \A i, j \in DOMAIN timers' : timers'[i] = timers'[j] => i = j
         /\ \A g \in Fds : (\E i \in DOMAIN timers' : timers'[i] = g) => g = f \/ Timed(g)
<1> DEFINE w == Without(timers, f)
<1>1. /\ timers \in Seq(Fds) /\ due \in 0..Len(timers) /\ Len(timers) \in Nat
      /\ DOMAIN timers = 1..Len(timers)
      /\ \A i, j \in DOMAIN timers : timers[i] = timers[j] => i = j
  BY DEF RTypeOK
<1>2. /\ w \in Seq(Fds)
      /\ Len(w) = IF \E i \in DOMAIN timers : timers[i] = f THEN Len(timers) - 1 ELSE Len(timers)
      /\ \A i \in DOMAIN w : w[i] # f /\ \E j \in DOMAIN timers : timers[j] = w[i]
      /\ \A i, j \in DOMAIN w : w[i] = w[j] => i = j
  BY <1>1, WithoutOne
<1>3. /\ timers' = Append(w, f)
      /\ due' = IF f \in {timers[i] : i \in 1..due} THEN due - 1 ELSE due
  BY DEF Refresh
<1> HIDE DEF w
<1>4. Len(w) \in Nat /\ DOMAIN w = 1..Len(w)
  BY <1>2
<1>5. /\ timers' \in Seq(Fds) /\ Len(timers') = Len(w) + 1 /\ DOMAIN timers' = 1..(Len(w) + 1)
      /\ timers'[Len(w) + 1] = f
      /\ \A i \in 1..Len(w) : timers'[i] = w[i]
  BY <1>2, <1>3, <1>4
<1> DEFINE n == Len(timers)
           m == Len(timers')
<1>n. n \in Nat /\ m \in Nat /\ n <= m /\ due \in 0..n
  <2>1. n \in Nat /\ due \in 0..n
    BY <1>1
  <2>2. m = Len(w) + 1
    BY <1>5
  <2>3. Len(w) = n - 1 \/ Len(w) = n
    BY <1>2
  <2> QED BY <1>4, <2>1, <2>2, <2>3
<1> HIDE DEF n, m
<1>6. due' \in 0..m
  <2>1. CASE f \in {timers[i] : i \in 1..due}
    <3>1. PICK i \in 1..due : timers[i] = f
      BY <2>1
    <3>2. due' = due - 1
      BY <1>3, <2>1
    <3>3. due \in Nat /\ due >= 1 /\ due <= n
      BY <1>n, <3>1
    <3> QED BY <1>n, <3>2, <3>3
  <2>2. CASE f \notin {timers[i] : i \in 1..due}
    BY <1>3, <1>n, <2>2
  <2> QED BY <2>1, <2>2
<1>7. ASSUME NEW i \in DOMAIN timers', NEW j \in DOMAIN timers', timers'[i] = timers'[j]
      PROVE  i = j
  BY <1>2, <1>4, <1>5, <1>7, SMTT(30)
<1>8. ASSUME NEW i \in DOMAIN timers' PROVE timers'[i] = f \/ Timed(timers'[i])
  BY <1>2, <1>4, <1>5 DEF Timed
<1> QED BY <1>5, <1>6, <1>7, <1>8 DEF m

(* Of numbers there is a least.                                            *)
LEMMA LeastIn ==
  ASSUME NEW T, T \subseteq Nat, T # {}
  PROVE  \E n \in T : \A m \in T : n <= m
<1> DEFINE R == OpToRel(<, Nat)
<1>1. IsWellFoundedOn(R, Nat)
  BY NatLessThanWellFounded
<1> HIDE DEF R
<1>2. PICK n \in T : \A m \in T : ~(<<m, n>> \in R)
  BY <1>1, WFMin
<1>3. ASSUME NEW m \in T PROVE n <= m
  <2>1. <<m, n>> \notin R /\ m \in Nat /\ n \in Nat
    BY <1>2
  <2>2. ~(m < n)
    BY <2>1 DEF R, OpToRel
  <2> QED BY <2>1, <2>2
<1> QED BY <1>3

LEMMA Basics ==
  /\ NoFd \notin Fds /\ NoConn \notin Conns
  /\ Main \in Threads /\ Main \notin Workers /\ Workers \subseteq Threads
  /\ \A t \in Threads : t = Main \/ t \in Workers
BY ReactorAssumption DEF NoFd, Fds, Threads

(* What ~Socket does: nothing, or it closes the number of its connection.  *)
LEMMA EraseKernel ==
  ASSUME RTypeOK, ControlInv, OwnInv, NEW t \in Threads, CloseErase(t)
  PROVE  /\ closing[t] \in Fds /\ hit' \subseteq Conns
         /\ \/ UNCHANGED <<open, epoll, hit>>
            \/ /\ table[closing[t]] # NoConn /\ CloseFd(closing[t])
               /\ hit' = hit \union ({open[closing[t]]} \ {table[closing[t]], NoConn})
<1> DEFINE f == closing[t]
           c == table[f]
<1>1. f \in Fds
  BY DEF CloseErase, At, ControlInv, ClosingPc
<1>2. UNCHANGED kernel \/ (c # NoConn /\ SocketDtor(c))
  BY DEF CloseErase
<1>3. c # NoConn => c \in Conns /\ fdOf[c] = f
  BY <1>1 DEF RTypeOK, OwnInv
<1> QED BY <1>1, <1>2, <1>3 DEF SocketDtor, kernel, RTypeOK

LEMMA DropKernel ==
  ASSUME RTypeOK, ControlInv, OwnInv, NEW t \in Threads, Drop(t)
  PROVE  /\ conn[t] \in Conns /\ fdOf[conn[t]] \in Fds /\ hit' \subseteq Conns
         /\ \/ UNCHANGED <<open, epoll, hit>>
            \/ /\ table[fdOf[conn[t]]] # conn[t] /\ CloseFd(fdOf[conn[t]])
               /\ hit' = hit \union ({open[fdOf[conn[t]]]} \ {conn[t], NoConn})
<1> DEFINE c == conn[t]
<1>1. pc[t] = "drop" /\ (UNCHANGED kernel \/ (table[fdOf[c]] # c /\ SocketDtor(c)))
  BY DEF Drop, At
<1>2. c \in Conns /\ fdOf[c] \in Fds
  <2>1. c # NoConn
    BY <1>1, Basics DEF ControlInv
  <2> QED BY <2>1 DEF RTypeOK, OwnInv
<1> QED BY <1>1, <1>2 DEF SocketDtor, kernel, RTypeOK

LEMMA AddConnKernel ==
  ASSUME RTypeOK, ControlInv, OwnInv, AddConn
  PROVE  /\ conn[Main] \in Conns /\ fdOf[conn[Main]] \in Fds /\ hit' \subseteq Conns
         /\ pc[Main] = "insert" /\ pc' = [pc EXCEPT ![Main] = "timer"]
         /\ table' = [table EXCEPT ![fdOf[conn[Main]]] = conn[Main]]
         /\ \/ UNCHANGED <<open, epoll, hit>>
            \/ table[fdOf[conn[Main]]] # NoConn /\ CloseFd(fdOf[conn[Main]])
<1> DEFINE f == fdOf[conn[Main]]
           old == table[f]
<1>1. pc[Main] = "insert"
  BY DEF AddConn, At
<1>2. conn[Main] \in Conns /\ f \in Fds
  BY <1>1, Basics DEF RTypeOK, ControlInv, OwnInv
<1>3. UNCHANGED kernel \/ (old # NoConn /\ SocketDtor(old))
  BY DEF AddConn
<1>4. old # NoConn => old \in Conns /\ fdOf[old] = f
  BY <1>2 DEF RTypeOK, OwnInv
<1> QED BY <1>1, <1>2, <1>3, <1>4 DEF AddConn, Goto, SocketDtor, kernel, RTypeOK

(* The number of a new connection was free; what is left of it is noted.   *)
LEMMA AcceptFd ==
  ASSUME RTypeOK, NEW c \in Conns, Accept(c)
  PROVE  \E f \in Fds :
           /\ open[f] = NoConn /\ (ReuseFds \/ ~Owned(f))
           /\ open' = [open EXCEPT ![f] = c] /\ fdOf' = [fdOf EXCEPT ![c] = f]
           /\ stale' = [stale EXCEPT ![f] = stale[f] \union Left(f)]
<1> DEFINE f == CHOOSE f \in FreeFds : \A g \in FreeFds : f <= g
<1>1. FreeFds # {} /\ FreeFds \subseteq Nat
  BY DEF Accept, FreeFds, Fds
<1>2. f \in FreeFds
  <2>1. PICK n \in FreeFds : \A m \in FreeFds : n <= m
    BY <1>1, LeastIn
  <2> QED BY <2>1
<1>3. /\ open' = [open EXCEPT ![f] = c] /\ fdOf' = [fdOf EXCEPT ![c] = f]
      /\ stale' = [stale EXCEPT ![f] = stale[f] \union Left(f)]
  BY DEF Accept
<1> HIDE DEF f
<1> QED BY <1>2, <1>3 DEF FreeFds, Owned

-----------------------------------------------------------------------------
(* The types, part by part.                                                *)

KernelTypes ==
  /\ open \in [Fds -> Conns \union {NoConn}]
  /\ epoll \in [Fds -> {"none", "in", "out", "fired"}]
  /\ table \in [Fds -> Conns \union {NoConn}]
  /\ fdOf \in [Conns -> Fds \union {NoFd}]
  /\ stale \in [Fds -> SUBSET Kinds]
  /\ hit \subseteq Conns

TrafficTypes ==
  /\ peer \in [Conns -> {"new", "connecting", "quiet", "sent", "gone"}]
  /\ outbuf \in [Conns -> {"empty", "full", "room"}]
  /\ threw \subseteq Conns

TimerTypes ==
  /\ timers \in Seq(Fds) /\ due \in 0..Len(timers)
  /\ \A i, j \in DOMAIN timers : timers[i] = timers[j] => i = j

LoopTypes ==
  /\ batch \subseteq Events \union {Incoming}
  /\ queue \in Seq(Events)
  /\ phase \in {"wait", "dispatch"}

PcTypes ==
  /\ pc \in [Threads -> WorkerPc \union MainPc]
  /\ pc[Main] \in MainPc /\ \A w \in Workers : pc[w] \in WorkerPc

CallTypes ==
  /\ job \in [Workers -> Events \union {NoEvent}]
  /\ conn \in [Threads -> Conns \union {NoConn}]
  /\ closing \in [Threads -> Fds \union {NoFd}]
  /\ ret \in [Threads -> {"drop", "pop"}]
  /\ aborted \in {"no", "adjust", "pop", "sigpipe"}

LEMMA TypeParts ==
  RTypeOK <=> KernelTypes /\ TrafficTypes /\ TimerTypes /\ LoopTypes /\ PcTypes /\ CallTypes
BY DEF RTypeOK, KernelTypes, TrafficTypes, TimerTypes, LoopTypes, PcTypes, CallTypes

LEMMA KernelStep == ServerInv /\ [Next]_vars => KernelTypes'
<1> SUFFICES ASSUME RTypeOK, KernelTypes, ControlInv, OwnInv, [Next]_vars
             PROVE  KernelTypes'
  BY TypeParts DEF ServerInv
<1> USE Basics
<1>1. ASSUME NEW t \in Threads, CloseDel(t) \/ CloseClose(t) PROVE KernelTypes'
  <2>1. closing[t] \in Fds
    BY <1>1 DEF CloseDel, CloseClose, At, ClosingPc, ControlInv
  <2> QED BY <1>1, <2>1 DEF CloseDel, CloseClose, CloseFd, KernelTypes, given
<1>2. ASSUME NEW t \in Threads, CloseErase(t) PROVE KernelTypes'
  <2>1. /\ closing[t] \in Fds /\ hit' \subseteq Conns
        /\ UNCHANGED <<open, epoll>> \/ CloseFd(closing[t])
    BY <1>2, EraseKernel
  <2> QED BY <1>2, <2>1 DEF CloseErase, CloseFd, KernelTypes, given
<1>3. ASSUME NEW t \in Threads, Drop(t) PROVE KernelTypes'
  <2>1. /\ conn[t] \in Conns /\ fdOf[conn[t]] \in Fds /\ hit' \subseteq Conns
        /\ UNCHANGED <<open, epoll>> \/ CloseFd(fdOf[conn[t]])
    BY <1>3, DropKernel
  <2> QED BY <1>3, <2>1 DEF Drop, CloseFd, KernelTypes, given
<1>4. CASE EpollWait \/ EpollAdd
  BY <1>4 DEF EpollWait, EpollAdd, KernelTypes, given
<1>5. ASSUME NEW c \in Conns, Accept(c) PROVE KernelTypes'
  <2>1. PICK f \in Fds : /\ open' = [open EXCEPT ![f] = c]
                         /\ fdOf' = [fdOf EXCEPT ![c] = f]
                         /\ stale' = [stale EXCEPT ![f] = stale[f] \union Left(f)]
    BY <1>5, AcceptFd
  <2>2. UNCHANGED <<epoll, hit, table>>
    BY <1>5 DEF Accept
  <2> QED BY <2>1, <2>2 DEF KernelTypes, Left
<1>6. CASE AddConn
  <2>1. /\ conn[Main] \in Conns /\ fdOf[conn[Main]] \in Fds /\ hit' \subseteq Conns
        /\ table' = [table EXCEPT ![fdOf[conn[Main]]] = conn[Main]]
        /\ UNCHANGED <<open, epoll>> \/ CloseFd(fdOf[conn[Main]])
    BY <1>6, AddConnKernel
  <2> QED BY <1>6, <2>1 DEF AddConn, CloseFd, KernelTypes, given
<1>7. ASSUME NEW w \in Workers, Rearm(w) PROVE KernelTypes'
  BY <1>7 DEF Rearm, KernelTypes, given
<1>8. CASE UNCHANGED <<open, epoll, hit, stale, table, fdOf>>
  BY <1>8 DEF KernelTypes
<1> QED
  BY <1>1, <1>2, <1>3, <1>4, <1>5, <1>6, <1>7, <1>8, OutsideKeeps
  DEF Next, MainStep, WorkerStep, ThreadStep, Outside, kernel, given,
      TickFire, TickPop, TickEnd, Submit, DispatchEnd, AcceptFail, AddTimer,
      Take, GetConn, Adjust, Serve

LEMMA TrafficStep == ServerInv /\ [Next]_vars => TrafficTypes'
<1> SUFFICES ASSUME RTypeOK, TrafficTypes, ControlInv, [Next]_vars PROVE TrafficTypes'
  BY TypeParts DEF ServerInv
<1> USE Basics
<1>1. ASSUME NEW w \in Workers, Serve(w) PROVE TrafficTypes'
  <2>1. job[w].fd \in Fds /\ conn[w] \in Conns
    BY <1>1 DEF Serve, At, ControlInv, Events, RTypeOK
  <2>2. open[job[w].fd] \in Conns \union {NoConn}
    BY <2>1 DEF RTypeOK
  <2>3. CASE UNCHANGED traffic
    BY <2>3 DEF traffic, TrafficTypes
  <2>4. CASE ~UNCHANGED traffic
    <3>1. /\ \/ peer' = peer
             \/ open[job[w].fd] # NoConn /\ peer' = [peer EXCEPT ![open[job[w].fd]] = "quiet"]
          /\ \E rest \in {"empty", "full", "room", outbuf[conn[w]]} :
               outbuf' = [outbuf EXCEPT ![conn[w]] = rest]
          /\ \/ threw' = threw
             \/ open[job[w].fd] # NoConn /\ threw' = threw \union {open[job[w].fd]}
      BY <1>1, <2>4 DEF Serve, traffic
    <3>2. outbuf[conn[w]] \in {"empty", "full", "room"}
      BY <2>1 DEF TrafficTypes
    <3> QED BY <2>1, <2>2, <3>1, <3>2 DEF TrafficTypes
  <2> QED BY <2>3, <2>4
<1>2. CASE Outside
  BY <1>2 DEF Outside, Connect, Send, Leave, Peer, Drain, Elapse, TrafficTypes, traffic
<1>3. ASSUME NEW c \in Conns, Accept(c) PROVE TrafficTypes'
  BY <1>3 DEF Accept, TrafficTypes
<1>4. CASE UNCHANGED traffic
  BY <1>4 DEF traffic, TrafficTypes
<1> QED
  BY <1>1, <1>2, <1>3, <1>4
  DEF Next, MainStep, WorkerStep, ThreadStep, Outside, vars, traffic,
      CloseDel, CloseClose, CloseErase, TickFire, TickPop, TickEnd, Drop,
      EpollWait, Submit, DispatchEnd, AcceptFail, EpollAdd, AddConn, AddTimer,
      Take, GetConn, Adjust, Rearm

(* The timers of the step after: no new number but the one refreshed.      *)
LEMMA TimersStep ==
  ServerInv /\ [Next]_vars =>
    /\ TimerTypes'
    /\ \A f \in Fds :
         Timed(f)' => Timed(f) \/ (pc[Main] = "timer" /\ fdOf[conn[Main]] = f)
<1> SUFFICES ASSUME RTypeOK, TimerTypes, ControlInv, OwnInv, [Next]_vars
             PROVE  /\ TimerTypes'
                    /\ \A f \in Fds :
                         Timed(f)' => Timed(f) \/ (pc[Main] = "timer" /\ fdOf[conn[Main]] = f)
  BY TypeParts DEF ServerInv
<1> USE Basics
<1>1. CASE \E t \in Threads : TickPop(t)
  <2>1. CASE timers = <<>>
    BY <1>1, <2>1 DEF TickPop, timer, TimerTypes, Timed
  <2>2. CASE timers # <<>>
    <3>1. /\ timers' = Tail(timers) /\ timers \in Seq(Fds)
          /\ due' = IF due = 0 THEN 0 ELSE due - 1
      BY <1>1, <2>2 DEF TickPop, TimerTypes
    <3>2. /\ timers' \in Seq(Fds) /\ Len(timers') = Len(timers) - 1
          /\ \A i \in 1..Len(timers') : timers'[i] = timers[i + 1]
      BY <2>2, <3>1, HeadTailProperties
    <3>3. /\ Len(timers) \in Nat /\ Len(timers') \in Nat
          /\ DOMAIN timers = 1..Len(timers) /\ DOMAIN timers' = 1..Len(timers')
      BY <3>1, <3>2
    <3>4. due' \in 0..Len(timers')
      <4>1. due \in Nat /\ due <= Len(timers)
        BY <3>3 DEF TimerTypes
      <4> QED BY <2>2, <3>1, <3>2, <3>3, <4>1
    <3>5. \A i \in DOMAIN timers' : i + 1 \in DOMAIN timers /\ timers'[i] = timers[i + 1]
      BY <3>2, <3>3
    <3>6. ASSUME NEW i \in DOMAIN timers', NEW j \in DOMAIN timers', timers'[i] = timers'[j]
          PROVE  i = j
      <4>1. i + 1 = j + 1
        BY <3>5, <3>6 DEF TimerTypes
      <4> QED BY <3>3, <4>1
    <3> QED BY <3>2, <3>4, <3>5, <3>6 DEF TimerTypes, Timed
  <2> QED BY <2>1, <2>2
<1>2. CASE AddTimer
  <2>1. pc[Main] = "timer" /\ conn[Main] # NoConn
    BY <1>2 DEF AddTimer, At, ControlInv
  <2>2. fdOf[conn[Main]] \in Fds /\ Refresh(fdOf[conn[Main]])
    BY <1>2, <2>1 DEF AddTimer, OwnInv
  <2> QED BY <2>1, <2>2, Refreshed DEF TimerTypes, Timed
<1>3. ASSUME NEW w \in Workers, Adjust(w), ~UNCHANGED timer
      PROVE  /\ TimerTypes'
             /\ \A f \in Fds : Timed(f)' => Timed(f)
  <2>1. job[w].fd \in Fds /\ Refresh(job[w].fd) /\ Timed(job[w].fd)
    BY <1>3 DEF Adjust, At, ControlInv, Events, Timed
  <2> QED BY <2>1, Refreshed DEF TimerTypes, Timed
<1>4. CASE Elapse
  <2>1. timers' = timers /\ due' = due + 1 /\ due < Len(timers)
    BY <1>4 DEF Elapse
  <2>2. due \in Nat /\ Len(timers) \in Nat
    BY DEF TimerTypes
  <2>3. due' \in 0..Len(timers)
    BY <2>1, <2>2
  <2> QED BY <2>1, <2>3 DEF TimerTypes, Timed
<1>5. CASE UNCHANGED timer
  BY <1>5 DEF timer, TimerTypes, Timed
<1>6. \/ \E t \in Threads : TickPop(t)
      \/ AddTimer
      \/ \E w \in Workers : Adjust(w) /\ ~UNCHANGED timer
      \/ Elapse
      \/ UNCHANGED timer
  BY DEF Next, MainStep, WorkerStep, ThreadStep, vars, timer,
      CloseDel, CloseClose, CloseErase, TickFire, TickEnd, Drop,
      EpollWait, Submit, DispatchEnd, Accept, AcceptFail, EpollAdd, AddConn,
      Take, GetConn, Serve, Rearm, Connect, Send, Leave, Peer, Drain
<1> QED BY <1>1, <1>2, <1>3, <1>4, <1>5, <1>6

LEMMA LoopStep == ServerInv /\ [Next]_vars => LoopTypes'
<1> SUFFICES ASSUME LoopTypes, [Next]_vars PROVE LoopTypes'
  BY TypeParts DEF ServerInv
<1>1. CASE EpollWait
  BY <1>1 DEF EpollWait, Batches, Ready, LoopTypes
<1>2. ASSUME NEW e \in batch, Submit(e) PROVE LoopTypes'
  <2>1. e \in Events /\ queue' = Append(queue, e) /\ batch' = batch \ {e} /\ phase' = phase
    BY <1>2 DEF Submit, LoopTypes
  <2> QED BY <2>1 DEF LoopTypes
<1>3. CASE DispatchEnd \/ AcceptFail \/ \E c \in Conns : Accept(c)
  BY <1>3 DEF DispatchEnd, AcceptFail, Accept, loop, LoopTypes
<1>4. ASSUME NEW w \in Workers, Take(w) PROVE LoopTypes'
  BY <1>4 DEF Take, LoopTypes
<1>5. CASE UNCHANGED loop
  BY <1>5 DEF loop, LoopTypes
<1>6. \/ EpollWait \/ \E e \in batch : Submit(e)
      \/ DispatchEnd \/ AcceptFail \/ \E c \in Conns : Accept(c)
      \/ \E w \in Workers : Take(w)
      \/ UNCHANGED loop
  BY DEF Next, MainStep, WorkerStep, ThreadStep, vars, loop,
      CloseDel, CloseClose, CloseErase, TickFire, TickPop, TickEnd, Drop,
      EpollAdd, AddConn, AddTimer, GetConn, Adjust, Serve, Rearm,
      Connect, Send, Leave, Peer, Drain, Elapse
<1> QED BY <1>1, <1>2, <1>3, <1>4, <1>5, <1>6

LEMMA PcStep == ServerInv /\ [Next]_vars => PcTypes'
<1> SUFFICES ASSUME PcTypes, CallTypes, LoopTypes, ControlInv, [Next]_vars PROVE PcTypes'
  BY TypeParts DEF ServerInv
<1> USE Basics DEF PcTypes, WorkerPc, MainPc, ThreadPc, At, Goto
<1>1. ASSUME NEW t \in Threads, ThreadStep(t) PROVE PcTypes'
  <2>1. CASE CloseDel(t) \/ CloseClose(t) \/ TickFire(t) \/ TickPop(t)
    BY <2>1 DEF CloseDel, CloseClose, TickFire, TickPop, Closing
  <2>2. CASE CloseErase(t)
    BY <2>2 DEF CloseErase, CallTypes
  <2>3. CASE TickEnd(t) \/ Drop(t)
    BY <2>3 DEF TickEnd, Drop, LoopTypes
  <2> QED BY <1>1, <2>1, <2>2, <2>3 DEF ThreadStep
<1>2. CASE EpollWait \/ DispatchEnd \/ EpollAdd \/ AddConn \/ AddTimer \/ \E c \in Conns : Accept(c)
  BY <1>2 DEF EpollWait, DispatchEnd, EpollAdd, AddConn, AddTimer, Accept
<1>3. ASSUME NEW w \in Workers, Take(w) \/ GetConn(w) \/ Adjust(w) \/ Serve(w) \/ Rearm(w)
      PROVE  PcTypes'
  BY <1>3 DEF Take, GetConn, Adjust, Serve, Rearm, Closing
<1>4. CASE UNCHANGED pc
  BY <1>4
<1> QED
  BY <1>1, <1>2, <1>3, <1>4, OutsideKeeps
  DEF Next, MainStep, WorkerStep, Outside, Submit, AcceptFail

LEMMA CallStep == ServerInv /\ [Next]_vars => CallTypes'
<1> SUFFICES ASSUME RTypeOK, CallTypes, ControlInv, OwnInv, [Next]_vars PROVE CallTypes'
  BY TypeParts DEF ServerInv
<1> USE Basics
<1>1. ASSUME NEW t \in Threads, TickFire(t) PROVE CallTypes'
  <2>1. Head(timers) \in Fds
    BY <1>1 DEF TickFire, RTypeOK
  <2> QED BY <1>1, <2>1 DEF TickFire, Closing, CallTypes
<1>2. ASSUME NEW w \in Workers, Take(w) PROVE CallTypes'
  <2>1. Head(queue) \in Events
    BY <1>2 DEF Take, RTypeOK
  <2> QED BY <1>2, <2>1 DEF Take, call, CallTypes
<1>3. ASSUME NEW w \in Workers, GetConn(w) \/ Serve(w) PROVE CallTypes'
  <2>1. job[w].fd \in Fds
    BY <1>3 DEF GetConn, Serve, At, ControlInv, Events
  <2>2. table[job[w].fd] \in Conns \union {NoConn}
    BY <2>1 DEF RTypeOK
  <2>3. CASE GetConn(w)
    BY <2>1, <2>2, <2>3 DEF GetConn, Closing, call, CallTypes
  <2>4. CASE Serve(w)
    <3>1. /\ \/ Closing(w, job[w].fd, "drop") \/ UNCHANGED <<closing, ret>>
          /\ aborted' = aborted \/ aborted' = "sigpipe"
          /\ UNCHANGED <<job, conn>>
      BY <2>4 DEF Serve, call
    <3> QED BY <2>1, <3>1 DEF Closing, CallTypes
  <2> QED BY <1>3, <2>3, <2>4
<1>4. CASE \/ \E t \in Threads : TickPop(t) \/ Drop(t)
           \/ \E c \in Conns : Accept(c)
           \/ \E w \in Workers : Adjust(w)
  BY <1>4 DEF TickPop, Drop, Accept, Adjust, call, CallTypes
<1>5. CASE UNCHANGED <<job, conn, closing, ret, aborted>>
  BY <1>5 DEF CallTypes
<1> QED
  BY <1>1, <1>2, <1>3, <1>4, <1>5, OutsideKeeps
  DEF Next, MainStep, WorkerStep, ThreadStep, Outside, call,
      CloseDel, CloseClose, CloseErase, TickEnd,
      EpollWait, Submit, DispatchEnd, AcceptFail, EpollAdd, AddConn, AddTimer, Rearm

LEMMA TypeStep == ServerInv /\ [Next]_vars => RTypeOK'
<1> SUFFICES ASSUME ServerInv, [Next]_vars PROVE RTypeOK'
  OBVIOUS
<1>1. /\ KernelTypes' /\ TrafficTypes' /\ TimerTypes' /\ LoopTypes' /\ PcTypes' /\ CallTypes'
  BY KernelStep, TrafficStep, TimersStep, LoopStep, PcStep, CallStep
<1> QED
  BY <1>1 DEF RTypeOK, KernelTypes, TrafficTypes, TimerTypes, LoopTypes, PcTypes, CallTypes

-----------------------------------------------------------------------------
LEMMA ControlStep == ServerInv /\ [Next]_vars => ControlInv'
<1> SUFFICES ASSUME RTypeOK, ControlInv, OwnInv, [Next]_vars PROVE ControlInv'
  BY DEF ServerInv
<1> USE Basics DEF ControlInv, ClosingPc, At, Goto
<1>0. /\ pc \in [Threads -> WorkerPc \union MainPc]
      /\ pc[Main] \in MainPc /\ \A w \in Workers : pc[w] \in WorkerPc
      /\ job \in [Workers -> Events \union {NoEvent}]
      /\ conn \in [Threads -> Conns \union {NoConn}]
      /\ closing \in [Threads -> Fds \union {NoFd}]
      /\ ret \in [Threads -> {"drop", "pop"}]
      /\ phase \in {"wait", "dispatch"}
  BY DEF RTypeOK
<1>1. ASSUME NEW t \in Threads, CloseDel(t) \/ CloseClose(t) \/ TickEnd(t) PROVE ControlInv'
  BY <1>0, <1>1 DEF CloseDel, CloseClose, TickEnd, call
<1>2. ASSUME NEW t \in Threads, CloseErase(t) PROVE ControlInv'
  BY <1>0, <1>2 DEF CloseErase, call
<1>3. ASSUME NEW t \in Threads, TickFire(t) PROVE ControlInv'
  <2>1. Head(timers) \in Fds
    BY <1>3 DEF TickFire, RTypeOK
  <2> QED BY <1>0, <1>3, <2>1 DEF TickFire, Closing
<1>4. ASSUME NEW t \in Threads, TickPop(t) PROVE ControlInv'
  BY <1>0, <1>4 DEF TickPop, call
<1>5. ASSUME NEW t \in Threads, Drop(t) PROVE ControlInv'
  BY <1>0, <1>5 DEF Drop, call
<1>6. CASE EpollWait \/ DispatchEnd \/ EpollAdd \/ AddConn \/ AddTimer
  BY <1>0, <1>6 DEF EpollWait, DispatchEnd, EpollAdd, AddConn, AddTimer, call
<1>7. ASSUME NEW c \in Conns, Accept(c) PROVE ControlInv'
  <2>1. c # NoConn
    BY <1>7
  <2>2. /\ pc[Main] = "dispatch" /\ pc' = [pc EXCEPT ![Main] = "add"]
        /\ conn' = [conn EXCEPT ![Main] = c] /\ UNCHANGED <<job, closing, ret>>
    BY <1>7 DEF Accept, call
  <2> QED BY <1>0, <2>1, <2>2
<1>8. ASSUME NEW w \in Workers, Take(w) PROVE ControlInv'
  <2>1. Head(queue) \in Events
    BY <1>8 DEF Take, RTypeOK
  <2> QED BY <1>0, <1>8, <2>1 DEF Take, call
<1>9. ASSUME NEW w \in Workers, GetConn(w) PROVE ControlInv'
  <2>1. job[w].fd \in Fds
    BY <1>9 DEF GetConn, Events
  <2> QED BY <1>0, <1>9, <2>1 DEF GetConn, Closing, call
<1>10. ASSUME NEW w \in Workers, Adjust(w) \/ Rearm(w) PROVE ControlInv'
  BY <1>0, <1>10 DEF Adjust, Rearm, call
<1>11. ASSUME NEW w \in Workers, Serve(w) PROVE ControlInv'
  <2>1. job[w].fd \in Fds
    BY <1>11 DEF Serve, Events
  <2>2. /\ pc[w] = "serve" /\ UNCHANGED <<job, conn>>
        /\ \/ Closing(w, job[w].fd, "drop")
           \/ /\ pc' = [pc EXCEPT ![w] = "rearm"] \/ pc' = [pc EXCEPT ![w] = "drop"]
              /\ UNCHANGED <<closing, ret>>
           \/ UNCHANGED <<pc, closing, ret>>
    BY <1>11 DEF Serve, call
  <2> QED BY <1>0, <2>1, <2>2 DEF Closing
<1>12. CASE UNCHANGED <<pc, job, conn, closing, ret>>
  BY <1>12
<1> QED
  BY <1>1, <1>2, <1>3, <1>4, <1>5, <1>6, <1>7, <1>8, <1>9, <1>10, <1>11, <1>12, OutsideKeeps
  DEF Next, MainStep, WorkerStep, ThreadStep, Outside, Submit, AcceptFail, call

(* A connection gets its number, and what was left of it its note, when it *)
(* is accepted.                                                            *)
LEMMA GivenStep ==
  ASSUME RTypeOK, OwnInv, [Next]_vars
  PROVE  \/ UNCHANGED <<fdOf, stale>>
         \/ \E c \in Conns, f \in Fds :
              /\ Accept(c) /\ fdOf[c] = NoFd /\ open[f] = NoConn /\ (ReuseFds \/ ~Owned(f))
              /\ fdOf' = [fdOf EXCEPT ![c] = f] /\ open' = [open EXCEPT ![f] = c]
              /\ stale' = [stale EXCEPT ![f] = stale[f] \union Left(f)]
<1>1. ASSUME NEW c \in Conns, Accept(c)
      PROVE  \E f \in Fds :
               /\ fdOf[c] = NoFd /\ open[f] = NoConn /\ (ReuseFds \/ ~Owned(f))
               /\ fdOf' = [fdOf EXCEPT ![c] = f] /\ open' = [open EXCEPT ![f] = c]
               /\ stale' = [stale EXCEPT ![f] = stale[f] \union Left(f)]
  <2>1. fdOf[c] = NoFd
    BY <1>1 DEF Accept, OwnInv
  <2> QED BY <1>1, <2>1, AcceptFd
<1>2. (\E c \in Conns : Accept(c)) \/ UNCHANGED <<fdOf, stale>>
  BY OutsideKeeps
  DEF given, Next, MainStep, WorkerStep, ThreadStep, Outside,
      CloseDel, CloseClose, CloseErase, TickFire, TickPop, TickEnd, Drop, EpollWait, Submit,
      DispatchEnd, AcceptFail, EpollAdd, AddConn, AddTimer, Take, GetConn, Adjust,
      Serve, Rearm
<1> QED BY <1>1, <1>2

(* Who has a number keeps it, and what was left of it stays noted.         *)
LEMMA GivenStays ==
  ASSUME RTypeOK, OwnInv, [Next]_vars
  PROVE  /\ \A c \in Conns : fdOf[c] # NoFd => fdOf'[c] = fdOf[c]
         /\ \A f \in Fds : stale[f] \subseteq stale'[f]
         /\ \A f \in Fds : Owned(f) => Owned(f)'
<1>0. KernelTypes
  BY TypeParts
<1>1. CASE UNCHANGED <<fdOf, stale>>
  BY <1>1 DEF Owned
<1>2. ASSUME NEW c \in Conns, NEW f \in Fds, fdOf[c] = NoFd,
             fdOf' = [fdOf EXCEPT ![c] = f],
             stale' = [stale EXCEPT ![f] = stale[f] \union Left(f)]
      PROVE  /\ \A d \in Conns : fdOf[d] # NoFd => fdOf'[d] = fdOf[d]
             /\ \A g \in Fds : stale[g] \subseteq stale'[g]
             /\ \A g \in Fds : Owned(g) => Owned(g)'
  <2>1. \A d \in Conns : fdOf[d] # NoFd => fdOf'[d] = fdOf[d]
    BY <1>0, <1>2 DEF KernelTypes
  <2>2. \A g \in Fds : Owned(g) => Owned(g)'
    BY <2>1, Basics DEF Owned
  <2> QED BY <1>0, <1>2, <2>1, <2>2 DEF KernelTypes
<1> QED BY <1>1, <1>2, GivenStep

(* What a step does to the numbers that are open: it gives out one that was*)
(* free, or closes one that a thread is closing or whose Socket goes.      *)
LEMMA OpenStep ==
  ASSUME ServerInv, [Next]_vars, NEW f \in Fds, open'[f] # open[f]
  PROVE  \/ /\ open'[f] = NoConn
            /\ \/ \E t \in Threads : CloseClose(t) /\ closing[t] = f
               \/ \E t \in Threads : CloseErase(t) /\ closing[t] = f /\ table[f] # NoConn
               \/ \E t \in Threads : Drop(t) /\ Holds(t, f) /\ table[f] # conn[t]
               \/ AddConn /\ fdOf[conn[Main]] = f /\ table[f] # NoConn
         \/ /\ open[f] = NoConn
            /\ \E c \in Conns :
                 /\ Accept(c) /\ open'[f] = c /\ fdOf' = [fdOf EXCEPT ![c] = f]
                 /\ stale' = [stale EXCEPT ![f] = stale[f] \union Left(f)]
<1> USE Basics DEF ServerInv
<1>0. KernelTypes
  BY TypeParts
<1>1. ASSUME NEW t \in Threads, CloseClose(t) PROVE open'[f] = NoConn /\ closing[t] = f
  BY <1>0, <1>1 DEF CloseClose, CloseFd, KernelTypes
<1>2. ASSUME NEW t \in Threads, CloseErase(t)
      PROVE  open'[f] = NoConn /\ closing[t] = f /\ table[f] # NoConn
  BY <1>0, <1>2, EraseKernel DEF CloseFd, KernelTypes
<1>3. ASSUME NEW t \in Threads, Drop(t)
      PROVE  open'[f] = NoConn /\ Holds(t, f) /\ table[f] # conn[t]
  BY <1>0, <1>3, DropKernel DEF CloseFd, KernelTypes, Holds
<1>4. ASSUME NEW c \in Conns, Accept(c)
      PROVE  /\ open[f] = NoConn /\ open'[f] = c /\ fdOf' = [fdOf EXCEPT ![c] = f]
             /\ stale' = [stale EXCEPT ![f] = stale[f] \union Left(f)]
  BY <1>0, <1>4, AcceptFd DEF KernelTypes
<1>5. CASE AddConn
  BY <1>0, <1>5, AddConnKernel DEF CloseFd, KernelTypes
<1>6. \/ \E t \in Threads : CloseClose(t) \/ CloseErase(t) \/ Drop(t)
      \/ \E c \in Conns : Accept(c)
      \/ AddConn
  BY OutsideKeeps
  DEF Next, MainStep, WorkerStep, ThreadStep, Outside, kernel,
      CloseDel, TickFire, TickPop, TickEnd, EpollWait, Submit, DispatchEnd, AcceptFail,
      EpollAdd, AddTimer, Take, GetConn, Adjust, Serve, Rearm
<1> QED BY <1>1, <1>2, <1>3, <1>4, <1>5, <1>6

(* The table's entry of a number is set by handleNewConnection and erased  *)
(* by closeConnection.                                                     *)
LEMMA TableStep ==
  ASSUME ServerInv, [Next]_vars, NEW f \in Fds, table'[f] # table[f]
  PROVE  \/ AddConn /\ fdOf[conn[Main]] = f /\ table'[f] = conn[Main]
         \/ table'[f] = NoConn /\ \E t \in Threads : CloseErase(t) /\ closing[t] = f
<1> USE Basics DEF ServerInv
<1>0. KernelTypes
  BY TypeParts
<1>1. CASE AddConn
  BY <1>0, <1>1, AddConnKernel DEF KernelTypes
<1>2. ASSUME NEW t \in Threads, CloseErase(t) PROVE table'[f] = NoConn /\ closing[t] = f
  BY <1>0, <1>2 DEF CloseErase, KernelTypes
<1>3. AddConn \/ \E t \in Threads : CloseErase(t)
  BY OutsideKeeps
  DEF Next, MainStep, WorkerStep, ThreadStep, Outside,
      CloseDel, CloseClose, TickFire, TickPop, TickEnd, Drop, EpollWait, Submit,
      DispatchEnd, Accept, AcceptFail, EpollAdd, AddTimer, Take, GetConn, Adjust,
      Serve, Rearm
<1> QED BY <1>1, <1>2, <1>3

(* A number that was not registered is registered by the main loop; closing*)
(* takes it out.                                                           *)
LEMMA EpollStep ==
  ASSUME ServerInv, [Next]_vars, NEW f \in Fds
  PROVE  /\ epoll[f] = "none" /\ epoll'[f] # "none" =>
              EpollAdd /\ fdOf[conn[Main]] = f /\ open[f] # NoConn
         /\ open'[f] # open[f] /\ open'[f] = NoConn => epoll'[f] = "none"
<1> USE Basics DEF ServerInv, At
<1>0. KernelTypes
  BY TypeParts
<1>1. ASSUME NEW t \in Threads, CloseErase(t) \/ Drop(t) \/ CloseClose(t)
      PROVE  \/ UNCHANGED <<open, epoll>>
             \/ \E g \in Fds : CloseFd(g)
  <2>1. CASE CloseErase(t)
    BY <2>1, EraseKernel
  <2>2. CASE Drop(t)
    BY <2>2, DropKernel
  <2>3. CASE CloseClose(t)
    BY <2>3 DEF CloseClose, ControlInv, ClosingPc
  <2> QED BY <1>1, <2>1, <2>2, <2>3
<1>2. ASSUME NEW t \in Threads, CloseDel(t) PROVE open' = open /\ (epoll[f] = "none" => epoll'[f] = "none")
  BY <1>0, <1>2 DEF CloseDel, KernelTypes
<1>3. CASE EpollWait
  <2>1. PICK b \in Batches :
          epoll' = [g \in Fds |-> IF g \in {e.fd : e \in b} THEN "fired" ELSE epoll[g]]
    BY <1>3 DEF EpollWait
  <2>2. \A e \in b : epoll[e.fd] \in {"in", "out"}
    BY DEF Batches, Ready
  <2> QED BY <1>0, <1>3, <2>1, <2>2 DEF EpollWait, KernelTypes
<1>4. CASE EpollAdd
  BY <1>0, <1>4 DEF EpollAdd, KernelTypes
<1>5. CASE AddConn
  BY <1>0, <1>5, AddConnKernel DEF CloseFd, KernelTypes
<1>6. ASSUME NEW w \in Workers, Rearm(w) PROVE open' = open /\ (epoll[f] = "none" => epoll'[f] = "none")
  BY <1>0, <1>6 DEF Rearm, KernelTypes
<1>7. ASSUME NEW c \in Conns, Accept(c)
      PROVE  epoll' = epoll /\ \E g \in Fds : open' = [open EXCEPT ![g] = c]
  BY <1>7, AcceptFd DEF Accept
<1>8. ASSUME NEW g \in Fds, CloseFd(g)
      PROVE  /\ epoll[f] = "none" => epoll'[f] = "none"
             /\ open'[f] # open[f] => epoll'[f] = "none"
  BY <1>0, <1>8 DEF CloseFd, KernelTypes
<1>9. ASSUME NEW c \in Conns, NEW g \in Fds, open' = [open EXCEPT ![g] = c]
      PROVE  open'[f] # open[f] => open'[f] # NoConn
  BY <1>0, <1>9 DEF KernelTypes
<1>10. CASE UNCHANGED <<open, epoll>>
  BY <1>10
<1>11. \/ \E t \in Threads : CloseErase(t) \/ Drop(t) \/ CloseClose(t) \/ CloseDel(t)
       \/ EpollWait \/ EpollAdd \/ AddConn
       \/ \E w \in Workers : Rearm(w)
       \/ \E c \in Conns : Accept(c)
       \/ UNCHANGED <<open, epoll>>
  BY OutsideKeeps
  DEF Next, MainStep, WorkerStep, ThreadStep, Outside, kernel,
      TickFire, TickPop, TickEnd, Submit, DispatchEnd, AcceptFail,
      AddTimer, Take, GetConn, Adjust, Serve
<1> QED BY <1>1, <1>2, <1>3, <1>4, <1>5, <1>6, <1>7, <1>8, <1>9, <1>10, <1>11

(* A thread's place, call and connection change in its own steps only.     *)
LEMMA OwnSteps ==
  ASSUME ServerInv, [Next]_vars, NEW t \in Threads
  PROVE  \/ pc'[t] = pc[t] /\ closing'[t] = closing[t] /\ conn'[t] = conn[t]
         \/ t = Main /\ MainStep
         \/ t \in Workers /\ WorkerStep(t)
<1> USE Basics DEF Goto, call
<1>0. PcTypes /\ CallTypes
  BY TypeParts DEF ServerInv
<1>1. ASSUME NEW u \in Threads, u # t, ThreadStep(u)
      PROVE  pc'[t] = pc[t] /\ closing'[t] = closing[t] /\ conn'[t] = conn[t]
  BY <1>0, <1>1
  DEF ThreadStep, CloseDel, CloseClose, CloseErase, TickFire, TickPop, TickEnd, Drop,
      Closing, PcTypes, CallTypes
<1>2. CASE MainStep
  BY <1>0, <1>1, <1>2
  DEF MainStep, EpollWait, Submit, DispatchEnd, Accept, AcceptFail, EpollAdd, AddConn,
      AddTimer, PcTypes, CallTypes
<1>3. ASSUME NEW w \in Workers, WorkerStep(w), w # t
      PROVE  pc'[t] = pc[t] /\ closing'[t] = closing[t] /\ conn'[t] = conn[t]
  BY <1>0, <1>1, <1>3
  DEF WorkerStep, Take, GetConn, Adjust, Serve, Rearm, Closing, PcTypes, CallTypes
<1> QED BY <1>2, <1>3, OutsideKeeps DEF Next, Outside

(* closeConnection goes on with the number it was called with, and closes  *)
(* it before it erases it.                                                 *)
LEMMA ClosingStep ==
  ASSUME ServerInv, [Next]_vars, NEW t \in Threads
  PROVE  /\ pc[t] \in ClosingPc =>
              /\ closing'[t] = closing[t]
              /\ \/ pc'[t] = pc[t]
                 \/ CloseDel(t) /\ pc'[t] = "close"
                 \/ CloseClose(t) /\ pc'[t] = "erase"
                 \/ CloseErase(t)
         /\ pc'[t] = "erase" => pc[t] = "erase" \/ CloseClose(t)
<1> USE Basics DEF Goto, call, At, ClosingPc
<1>0. PcTypes /\ CallTypes /\ LoopTypes
  BY TypeParts DEF ServerInv
<1>1. CASE ThreadStep(t)
  <2>1. CASE CloseDel(t) \/ CloseClose(t) \/ TickFire(t) \/ TickPop(t)
    BY <1>0, <2>1
    DEF CloseDel, CloseClose, TickFire, TickPop, Closing, PcTypes, CallTypes
  <2>2. CASE CloseErase(t)
    BY <1>0, <2>2 DEF CloseErase, PcTypes, CallTypes
  <2>3. CASE TickEnd(t)
    BY <1>0, <2>3 DEF TickEnd, PcTypes, LoopTypes
  <2>4. CASE Drop(t)
    BY <1>0, <2>4 DEF Drop, PcTypes
  <2> QED BY <1>1, <2>1, <2>2, <2>3, <2>4 DEF ThreadStep
<1>2. CASE t = Main /\ MainStep
  BY <1>0, <1>1, <1>2
  DEF MainStep, EpollWait, Submit, DispatchEnd, Accept, AcceptFail, EpollAdd, AddConn,
      AddTimer, PcTypes, CallTypes
<1>3. CASE t \in Workers /\ WorkerStep(t)
  BY <1>0, <1>1, <1>3
  DEF WorkerStep, Take, GetConn, Adjust, Serve, Rearm, Closing, PcTypes, CallTypes
<1> QED BY <1>1, <1>2, <1>3, OwnSteps

(* The main loop is with a new connection because it has just accepted it, *)
(* or was with it before.                                                  *)
LEMMA AcceptingStep ==
  ASSUME ServerInv, [Next]_vars, Accepting'
  PROVE  \/ \E c \in Conns : Accept(c) /\ conn'[Main] = c /\ pc[Main] = "dispatch"
         \/ /\ Accepting /\ ~AddConn /\ conn'[Main] = conn[Main] /\ fdOf' = fdOf
            /\ pc'[Main] = "add" => pc[Main] = "add" /\ ~EpollAdd
<1> USE Basics DEF Goto, At, Accepting
<1>0. PcTypes /\ CallTypes /\ LoopTypes /\ ControlInv
  BY TypeParts DEF ServerInv
<1>1. CASE MainStep
  <2>1. ~ThreadStep(Main)
    BY <1>0
    DEF ThreadStep, CloseDel, CloseClose, CloseErase, TickFire, TickPop, TickEnd, Drop,
        Closing, PcTypes, CallTypes, LoopTypes
  <2>2. \/ \E c \in Conns : Accept(c)
        \/ EpollAdd
        \/ \E e \in batch : Submit(e)
        \/ AcceptFail
    BY <1>0, <1>1, <2>1
    DEF MainStep, EpollWait, DispatchEnd, AddConn, AddTimer, PcTypes
  <2>3. ~(\E e \in batch : Submit(e)) /\ ~AcceptFail
    BY DEF Submit, AcceptFail
  <2>4. CASE EpollAdd
    BY <1>0, <2>4 DEF EpollAdd, AddConn, PcTypes, given
  <2>5. CASE \E c \in Conns : Accept(c)
    BY <1>0, <2>5 DEF Accept, CallTypes
  <2> QED BY <2>2, <2>3, <2>4, <2>5
<1>2. CASE ~MainStep
  <2>1. pc'[Main] = pc[Main] /\ conn'[Main] = conn[Main]
    BY <1>2, OwnSteps
  <2>2. ~AddConn /\ ~EpollAdd
    BY <1>2 DEF MainStep
  <2>3. fdOf' = fdOf
    BY <1>2, OutsideKeeps
    DEF Next, WorkerStep, ThreadStep, Outside, given,
        CloseDel, CloseClose, CloseErase, TickFire, TickPop, TickEnd, Drop,
        Take, GetConn, Adjust, Serve, Rearm
  <2> QED BY <2>1, <2>2, <2>3
<1> QED BY <1>1, <1>2

(* A thread lets go of its connection at the end, and takes one from the   *)
(* table or from accept.                                                   *)
LEMMA ConnStep ==
  ASSUME ServerInv, [Next]_vars, NEW t \in Threads, conn'[t] # conn[t]
  PROVE  \/ Drop(t) /\ conn'[t] = NoConn
         \/ t \in Workers /\ GetConn(t) /\ conn[t] = NoConn /\ conn'[t] = table[job[t].fd]
         \/ t = Main /\ conn[t] = NoConn /\ \E c \in Conns : Accept(c) /\ conn'[t] = c
<1> USE Basics DEF At
<1>0. CallTypes /\ ControlInv
  BY TypeParts DEF ServerInv
<1>1. CASE t = Main /\ MainStep
  <2>1. Drop(t) \/ \E c \in Conns : Accept(c)
    BY <1>1
    DEF MainStep, ThreadStep, CloseDel, CloseClose, CloseErase, TickFire, TickPop, TickEnd,
        EpollWait, Submit, DispatchEnd, AcceptFail, EpollAdd, AddConn, AddTimer
  <2> QED BY <1>0, <1>1, <2>1 DEF Drop, Accept, ControlInv, CallTypes
<1>2. CASE t \in Workers /\ WorkerStep(t)
  <2>1. Drop(t) \/ GetConn(t)
    BY <1>2
    DEF WorkerStep, ThreadStep, CloseDel, CloseClose, CloseErase, TickFire, TickPop, TickEnd,
        Take, Adjust, Serve, Rearm
  <2> QED BY <1>0, <1>2, <2>1 DEF Drop, GetConn, ControlInv, CallTypes
<1> QED BY <1>1, <1>2, OwnSteps

(* A worker gets its arguments when it takes a task.                       *)
LEMMA JobStep ==
  ASSUME ServerInv, [Next]_vars, NEW w \in Workers, job'[w] # job[w]
  PROVE  Take(w)
<1> USE Basics
<1>0. CallTypes
  BY TypeParts DEF ServerInv
<1>1. \E v \in Workers : Take(v)
  BY OutsideKeeps
  DEF Next, MainStep, WorkerStep, ThreadStep, Outside,
      CloseDel, CloseClose, CloseErase, TickFire, TickPop, TickEnd, Drop, EpollWait, Submit,
      DispatchEnd, Accept, AcceptFail, EpollAdd, AddConn, AddTimer, GetConn, Adjust,
      Serve, Rearm
<1> QED BY <1>0, <1>1 DEF Take, CallTypes

-----------------------------------------------------------------------------
LEMMA OwnStep == ServerInv /\ [Next]_vars => OwnInv'
<1> SUFFICES ASSUME ServerInv, [Next]_vars PROVE OwnInv'
  OBVIOUS
<1> USE Basics DEF At
<1>0. /\ KernelTypes /\ TrafficTypes /\ CallTypes /\ RTypeOK
      /\ ControlInv /\ OwnInv /\ ControlInv'
  BY TypeParts, ControlStep DEF ServerInv
<1>k. \A c \in Conns : fdOf[c] # NoFd => fdOf'[c] = fdOf[c]
  BY <1>0, GivenStays
<1>a. ASSUME NEW c \in Conns, Accept(c)
      PROVE  \E f \in Fds : fdOf'[c] = f /\ open'[f] = c
  BY <1>0, <1>a, AcceptFd DEF KernelTypes
<1>1. ASSUME NEW c \in Conns, peer'[c] \in {"new", "connecting"} PROVE fdOf'[c] = NoFd
  <2>1. ASSUME NEW w \in Workers, Serve(w) PROVE peer[c] \in {"new", "connecting"}
    <3>1. peer' = peer \/ peer' = [peer EXCEPT ![open[job[w].fd]] = "quiet"]
      BY <2>1 DEF Serve, traffic
    <3> QED BY <1>0, <1>1, <3>1 DEF TrafficTypes
  <2>2. ASSUME NEW d \in Conns, Connect(d) \/ Send(d) \/ Leave(d)
        PROVE  peer[c] \in {"new", "connecting"}
    <3>1. \/ peer[d] = "new" /\ peer' = [peer EXCEPT ![d] = "connecting"]
          \/ peer' = [peer EXCEPT ![d] = "sent"]
          \/ peer' = [peer EXCEPT ![d] = "gone"]
      BY <2>2 DEF Connect, Send, Leave, Peer
    <3> QED BY <1>0, <1>1, <3>1 DEF TrafficTypes
  <2>3. ASSUME NEW d \in Conns, Accept(d) PROVE d # c /\ peer[c] \in {"new", "connecting"}
    BY <1>0, <1>1, <2>3 DEF Accept, TrafficTypes
  <2>4. peer[c] \in {"new", "connecting"}
    <3>1. \/ \E w \in Workers : Serve(w)
          \/ \E d \in Conns : Connect(d) \/ Send(d) \/ Leave(d) \/ Accept(d)
          \/ peer' = peer
      BY DEF Next, MainStep, WorkerStep, ThreadStep, vars, traffic,
             CloseDel, CloseClose, CloseErase, TickFire, TickPop, TickEnd, Drop,
             EpollWait, Submit, DispatchEnd, AcceptFail, EpollAdd, AddConn, AddTimer,
             Take, GetConn, Adjust, Rearm, Drain, Elapse
    <3> QED BY <1>1, <2>1, <2>2, <2>3, <3>1
  <2>5. fdOf[c] = NoFd
    BY <1>0, <2>4 DEF OwnInv
  <2>6. fdOf' = fdOf \/ \E d \in Conns, f \in Fds : Accept(d) /\ fdOf' = [fdOf EXCEPT ![d] = f]
    BY <1>0, GivenStep
  <2> QED BY <1>0, <2>3, <2>5, <2>6 DEF KernelTypes
<1>2. ASSUME NEW f \in Fds, open'[f] # NoConn PROVE fdOf'[open'[f]] = f
  <2>1. CASE open'[f] = open[f]
    <3>1. open[f] \in Conns /\ fdOf[open[f]] = f
      BY <1>0, <1>2, <2>1 DEF KernelTypes, OwnInv
    <3> QED BY <1>k, <2>1, <3>1
  <2>2. CASE open'[f] # open[f]
    BY <1>0, <1>2, <2>2, OpenStep DEF KernelTypes
  <2> QED BY <2>1, <2>2
<1>3. ASSUME NEW f \in Fds, table'[f] # NoConn PROVE fdOf'[table'[f]] = f
  <2>1. CASE table'[f] = table[f]
    <3>1. table[f] \in Conns /\ fdOf[table[f]] = f
      BY <1>0, <1>3, <2>1 DEF KernelTypes, OwnInv
    <3> QED BY <1>k, <2>1, <3>1
  <2>2. CASE table'[f] # table[f]
    <3>1. conn[Main] \in Conns /\ fdOf[conn[Main]] = f /\ table'[f] = conn[Main]
      BY <1>0, <1>3, <2>2, TableStep DEF CallTypes
    <3> QED BY <1>k, <3>1
  <2> QED BY <2>1, <2>2
<1>4. ASSUME NEW t \in Threads, conn'[t] # NoConn PROVE fdOf'[conn'[t]] \in Fds
  <2>1. CASE conn'[t] = conn[t]
    <3>1. conn[t] \in Conns /\ fdOf[conn[t]] \in Fds
      BY <1>0, <1>4, <2>1 DEF CallTypes, OwnInv
    <3> QED BY <1>k, <2>1, <3>1
  <2>2. CASE t \in Workers /\ GetConn(t) /\ conn'[t] = table[job[t].fd]
    <3>1. job[t].fd \in Fds
      BY <1>0, <2>2 DEF GetConn, ControlInv, Events
    <3>2. conn'[t] \in Conns /\ fdOf[conn'[t]] \in Fds
      BY <1>0, <1>4, <2>2, <3>1 DEF KernelTypes, OwnInv
    <3> QED BY <1>k, <3>2
  <2> QED BY <1>4, <1>a, <2>1, <2>2, ConnStep
<1>5. ASSUME NEW w \in Workers, conn'[w] # NoConn PROVE fdOf'[conn'[w]] = job'[w].fd
  <2>1. job'[w] = job[w]
    <3>1. ~Take(w)
      BY <1>0, <1>5 DEF Take, Goto, ControlInv, RTypeOK
    <3> QED BY <3>1, JobStep
  <2>2. CASE conn'[w] = conn[w]
    <3>1. conn[w] \in Conns /\ fdOf[conn[w]] \in Fds /\ fdOf[conn[w]] = job[w].fd
      BY <1>0, <1>5, <2>2 DEF CallTypes, OwnInv
    <3> QED BY <1>k, <2>1, <2>2, <3>1
  <2>3. CASE GetConn(w) /\ conn'[w] = table[job[w].fd]
    <3>1. job[w].fd \in Fds
      BY <1>0, <2>3 DEF GetConn, ControlInv, Events
    <3>2. conn'[w] \in Conns /\ fdOf[conn'[w]] = job[w].fd
      BY <1>0, <1>5, <2>3, <3>1 DEF KernelTypes, OwnInv
    <3> QED BY <1>k, <2>1, <3>1, <3>2
  <2> QED BY <1>5, <2>2, <2>3, ConnStep
<1>6. Accepting' => open'[fdOf'[conn'[Main]]] \in {conn'[Main], NoConn}
  <2>1. ASSUME NEW c \in Conns, Accept(c), conn'[Main] = c
        PROVE  open'[fdOf'[conn'[Main]]] = conn'[Main]
    BY <1>a, <2>1
  <2>2. ASSUME Accepting, conn'[Main] = conn[Main], fdOf' = fdOf
        PROVE  open'[fdOf'[conn'[Main]]] \in {conn'[Main], NoConn}
    <3>1. PICK f \in Fds : f = fdOf[conn[Main]] /\ open[f] \in {conn[Main], NoConn}
      BY <1>0, <2>2 DEF Accepting, ControlInv, OwnInv
    <3>2. \A c \in Conns : ~Accept(c)
      BY <2>2 DEF Accept, Accepting
    <3>3. open'[f] \in {open[f], NoConn}
      BY <3>2, OpenStep
    <3> QED BY <2>2, <3>1, <3>3
  <2> QED BY <2>1, <2>2, AcceptingStep
<1>7. ASSUME NEW f \in Fds, open'[f] = NoConn PROVE epoll'[f] = "none"
  <2>1. CASE open'[f] # open[f]
    BY <1>7, <2>1, EpollStep
  <2>2. CASE open'[f] = open[f]
    <3>1. epoll[f] = "none"
      BY <1>0, <1>7, <2>2 DEF OwnInv
    <3> QED BY <1>7, <2>2, <3>1, EpollStep
  <2> QED BY <2>1, <2>2
<1> QED BY <1>1, <1>2, <1>3, <1>4, <1>5, <1>6, <1>7 DEF OwnInv

(* A number stays strange until it is armed and its connection is put in   *)
(* the table.                                                              *)
LEMMA StrangeStep ==
  ASSUME ServerInv, [Next]_vars, NEW f \in Fds, Strange(f),
         pc[Main] = "wait" => epoll[f] = "none",
         AddConn \/ pc[Main] = "timer" => fdOf[conn[Main]] # f
  PROVE  Strange(f)'
<1> USE Basics DEF ServerInv, At
<1>0. KernelTypes /\ CallTypes /\ LoopTypes /\ TimerTypes
  BY TypeParts
<1>1. /\ table[f] = NoConn /\ ~Timed(f) /\ ~InBatch(f) /\ ~InQueue(f)
      /\ \A t \in Threads : closing[t] # f
      /\ \A w \in Workers : job[w].fd # f
  BY DEF Strange
<1>2. table'[f] = NoConn
  <2>1. CASE AddConn
    BY <1>0, <1>1, <2>1 DEF AddConn, KernelTypes
  <2>2. CASE \E t \in Threads : CloseErase(t)
    BY <1>0, <1>1, <2>2 DEF CloseErase, KernelTypes
  <2>3. CASE table' = table
    BY <1>1, <2>3
  <2> QED
    BY <2>1, <2>2, <2>3, OutsideKeeps
    DEF Next, MainStep, WorkerStep, ThreadStep, Outside,
        CloseDel, CloseClose, TickFire, TickPop, TickEnd, Drop, EpollWait, Submit,
        DispatchEnd, Accept, AcceptFail, EpollAdd, AddTimer, Take, GetConn, Adjust,
        Serve, Rearm
<1>3. ~Timed(f)'
  BY <1>1, TimersStep
<1>4. ~InBatch(f)'
  <2>1. CASE EpollWait
    <3>1. PICK b \in Batches : batch' = b \/ batch' = b \union {Incoming}
      BY <2>1 DEF EpollWait
    <3>2. \A e \in b : epoll[e.fd] \in {"in", "out"}
      BY DEF Batches, Ready
    <3>3. epoll[f] = "none" /\ Incoming.fd # f
      BY <2>1 DEF EpollWait, Incoming
    <3> QED BY <3>1, <3>2, <3>3 DEF InBatch
  <2>2. CASE batch' \subseteq batch
    BY <1>1, <2>2 DEF InBatch
  <2> QED
    BY <2>1, <2>2, OutsideKeeps
    DEF Next, MainStep, WorkerStep, ThreadStep, Outside, loop,
        CloseDel, CloseClose, CloseErase, TickFire, TickPop, TickEnd, Drop, Submit,
        DispatchEnd, Accept, AcceptFail, EpollAdd, AddConn, AddTimer, Take, GetConn,
        Adjust, Serve, Rearm
<1>5. ~InQueue(f)' /\ \A w \in Workers : job'[w].fd # f
  <2>1. ASSUME NEW e \in batch, Submit(e) PROVE ~InQueue(f)' /\ job' = job
    <3>1. queue' = Append(queue, e) /\ job' = job /\ e.fd # f /\ e \in Events
      BY <1>0, <1>1, <2>1 DEF Submit, InBatch, LoopTypes
    <3>2. Len(queue) \in Nat /\ DOMAIN queue = 1..Len(queue)
      BY <1>0 DEF LoopTypes
    <3>3. /\ DOMAIN queue' = 1..(Len(queue) + 1) /\ queue'[Len(queue) + 1] = e
          /\ \A i \in 1..Len(queue) : queue'[i] = queue[i]
      BY <1>0, <3>1, AppendProperties DEF LoopTypes
    <3>4. \A i \in 1..(Len(queue) + 1) : i \in 1..Len(queue) \/ i = Len(queue) + 1
      BY <3>2
    <3> QED BY <1>1, <3>1, <3>2, <3>3, <3>4 DEF InQueue
  <2>2. ASSUME NEW w \in Workers, Take(w)
        PROVE  ~InQueue(f)' /\ \A v \in Workers : job'[v].fd # f
    <3>1. /\ queue # <<>> /\ queue' = Tail(queue) /\ queue \in Seq(Events)
          /\ job' = [job EXCEPT ![w] = Head(queue)]
      BY <1>0, <2>2 DEF Take, LoopTypes
    <3>2. \A i \in DOMAIN queue' : i + 1 \in DOMAIN queue /\ queue'[i] = queue[i + 1]
      BY <3>1
    <3>3. 1 \in DOMAIN queue /\ Head(queue) = queue[1]
      BY <3>1
    <3> QED BY <1>0, <1>1, <3>1, <3>2, <3>3 DEF InQueue, CallTypes
  <2>3. CASE UNCHANGED <<queue, job>>
    BY <1>1, <2>3 DEF InQueue
  <2> QED
    BY <1>1, <2>1, <2>2, <2>3, OutsideKeeps
    DEF Next, MainStep, WorkerStep, ThreadStep, Outside, loop,
        CloseDel, CloseClose, CloseErase, TickFire, TickPop, TickEnd, Drop, EpollWait,
        DispatchEnd, Accept, AcceptFail, EpollAdd, AddConn, AddTimer, GetConn,
        Adjust, Serve, Rearm
<1>6. \A t \in Threads : closing'[t] # f
  <2>1. ASSUME NEW t \in Threads, TickFire(t) PROVE \A u \in Threads : closing'[u] # f
    <3>1. timers # <<>> /\ closing' = [closing EXCEPT ![t] = Head(timers)]
      BY <1>0, <2>1 DEF TickFire, Closing, TimerTypes
    <3>2. 1 \in DOMAIN timers /\ Head(timers) = timers[1]
      BY <1>0, <3>1 DEF TimerTypes
    <3> QED BY <1>0, <1>1, <3>1, <3>2 DEF Timed, CallTypes
  <2>2. ASSUME NEW w \in Workers, GetConn(w) \/ Serve(w)
        PROVE  \A u \in Threads : closing'[u] # f
    BY <1>0, <1>1, <2>2 DEF GetConn, Serve, Closing, call, CallTypes
  <2>3. CASE closing' = closing
    BY <1>1, <2>3
  <2> QED
    BY <2>1, <2>2, <2>3, OutsideKeeps
    DEF Next, MainStep, WorkerStep, ThreadStep, Outside, call,
        CloseDel, CloseClose, CloseErase, TickPop, TickEnd, Drop, EpollWait, Submit,
        DispatchEnd, Accept, AcceptFail, EpollAdd, AddConn, AddTimer, Take,
        Adjust, Rearm
<1> QED BY <1>2, <1>3, <1>4, <1>5, <1>6 DEF Strange

LEMMA FreshStep == ServerInv /\ [Next]_vars => FreshInv'
<1> SUFFICES ASSUME ServerInv, [Next]_vars PROVE FreshInv'
  OBVIOUS
<1> USE Basics
<1>0. /\ KernelTypes /\ CallTypes /\ ControlInv /\ OwnInv /\ FreshInv /\ RTypeOK
  BY TypeParts DEF ServerInv
<1>1. ASSUME NEW f \in Fds, ~Owned(f)' PROVE Strange(f)'
  <2>1. ~Owned(f)
    BY <1>0, <1>1, GivenStays
  <2>2. Strange(f) /\ epoll[f] = "none"
    BY <1>0, <2>1 DEF FreshInv, OwnInv, KernelTypes, Owned
  <2>3. pc[Main] \in {"add", "insert", "timer"} => fdOf[conn[Main]] # f
    BY <1>0, <2>1 DEF ControlInv, CallTypes, Owned
  <2> QED BY <2>2, <2>3, StrangeStep DEF AddConn, At
<1>2. ASSUME NEW f \in Fds, Left(f) # {} PROVE Owned(f)
  <2> SUFFICES ASSUME ~Owned(f) PROVE Left(f) = {}
    BY <1>2
  <2>1. Strange(f)
    BY <1>0 DEF FreshInv
  <2>2. \A t \in Threads : ~Holds(t, f)
    BY <1>0 DEF Holds, CallTypes, Owned
  <2>3. ~InBatch(f) /\ ~InQueue(f) /\ ~Handled(f) /\ ~Timed(f) /\ \A t \in Threads : ~InClose(t, f)
    BY <2>1 DEF Strange, Handled, InClose
  <2> QED BY <2>2, <2>3 DEF Left
<1>3. ASSUME NEW f \in Fds, stale'[f] # {}
      PROVE  ReuseFds /\ \E c, d \in Conns : c # d /\ fdOf'[c] = f /\ fdOf'[d] = f
  <2>1. CASE stale[f] # {}
    <3>1. ReuseFds /\ \E c, d \in Conns : c # d /\ fdOf[c] = f /\ fdOf[d] = f
      BY <1>0, <2>1 DEF FreshInv
    <3> QED BY <1>0, <3>1, GivenStays
  <2>2. CASE stale[f] = {}
    <3>1. PICK c \in Conns, g \in Fds :
            /\ fdOf[c] = NoFd /\ (ReuseFds \/ ~Owned(g)) /\ fdOf' = [fdOf EXCEPT ![c] = g]
            /\ stale' = [stale EXCEPT ![g] = stale[g] \union Left(g)]
      BY <1>0, <1>3, <2>2, GivenStep
    <3>2. g = f /\ Left(f) # {}
      BY <1>0, <1>3, <2>2, <3>1 DEF KernelTypes
    <3>3. PICK d \in Conns : fdOf[d] = f
      BY <1>2, <3>2 DEF Owned
    <3>4. d # c /\ fdOf'[c] = f /\ fdOf'[d] = f
      BY <1>0, <3>1, <3>2, <3>3 DEF KernelTypes
    <3> QED BY <1>2, <3>1, <3>2, <3>4
  <2> QED BY <2>1, <2>2
<1> QED BY <1>1, <1>3 DEF FreshInv

(* A number stays open while the table or a thread has its connection:     *)
(* whoever lets go of the last reference closes it.                        *)
LEMMA TrackStep == ServerInv /\ [Next]_vars => OpenIsTracked'
<1> SUFFICES ASSUME ServerInv, [Next]_vars, NEW f \in Fds, open'[f] # NoConn
             PROVE  table'[f] = open'[f] \/ \E t \in Threads : conn'[t] = open'[f]
  BY DEF OpenIsTracked
<1> USE Basics
<1>0. KernelTypes /\ CallTypes /\ ControlInv /\ OwnInv /\ OpenIsTracked
  BY TypeParts DEF ServerInv
<1>1. CASE open'[f] # open[f]
  <2>1. PICK c \in Conns : Accept(c) /\ open'[f] = c
    BY <1>1, OpenStep
  <2>2. conn'[Main] = c
    BY <1>0, <2>1 DEF Accept, CallTypes
  <2> QED BY <2>1, <2>2
<1>2. ASSUME NEW c \in Conns, open[f] = c, open'[f] = c, fdOf[c] = f
      PROVE  /\ ~SocketDtor(c)
             /\ table'[f] = c \/ \E t \in Threads : conn'[t] = c
  <2>1. ~SocketDtor(c)
    BY <1>0, <1>2 DEF SocketDtor, CloseFd, KernelTypes
  <2>2. CASE table[f] = c /\ table'[f] # c
    <3>1. conn' = conn /\ Holders(c) # {}
      <4>1. CASE AddConn /\ fdOf[conn[Main]] = f
        BY <2>1, <2>2, <4>1 DEF AddConn
      <4>2. ASSUME NEW t \in Threads, CloseErase(t), closing[t] = f
            PROVE  conn' = conn /\ Holders(c) # {}
        BY <2>1, <2>2, <4>2 DEF CloseErase
      <4>3. table'[f] # table[f]
        BY <2>2
      <4>4. \/ AddConn /\ fdOf[conn[Main]] = f
            \/ \E t \in Threads : CloseErase(t) /\ closing[t] = f
        BY <4>3, TableStep
      <4> QED BY <4>1, <4>2, <4>4
    <3> QED BY <2>1, <3>1 DEF Holders
  <2>3. ASSUME NEW t \in Threads, conn[t] = c, conn'[t] # c
        PROVE  table'[f] = c \/ \E u \in Threads : conn'[u] = c
    <3>1. Drop(t)
      BY <2>3, ConnStep
    <3>2. Holders(c) # {t} \/ table[f] = c
      BY <1>2, <2>1, <2>3, <3>1 DEF Drop
    <3>3. table' = table /\ conn' = [conn EXCEPT ![t] = NoConn]
      BY <3>1 DEF Drop
    <3>4. t \in Holders(c)
      BY <2>3 DEF Holders
    <3>5. CASE Holders(c) # {t}
      <4>1. PICK u \in Holders(c) : u # t
        BY <3>4, <3>5
      <4> QED BY <1>0, <3>3, <4>1 DEF Holders, CallTypes
    <3> QED BY <3>2, <3>3, <3>5
  <2>4. table[f] = c \/ \E t \in Threads : conn[t] = c
    BY <1>0, <1>2 DEF OpenIsTracked
  <2> QED BY <2>1, <2>2, <2>3, <2>4
<1>3. CASE open'[f] = open[f]
  <2>1. open[f] \in Conns /\ fdOf[open[f]] = f
    BY <1>0, <1>3 DEF KernelTypes, OwnInv
  <2> QED BY <1>2, <1>3, <2>1
<1> QED BY <1>1, <1>3

LEMMA ServerStep == ServerInv /\ [Next]_vars => ServerInv'
BY TypeStep, ControlStep, OwnStep, FreshStep, TrackStep DEF ServerInv

LEMMA ServerHolds == Spec => []ServerInv
BY ServerInit, ServerStep, PTL DEF Spec

-----------------------------------------------------------------------------
(* A worker becomes busy by taking a task.                                 *)
LEMMA BusyStep ==
  ASSUME ServerInv, [Next]_vars, NEW w \in Workers, ~Take(w), Busy(w)'
  PROVE  Busy(w)
<1> USE Basics DEF Goto, At, Busy, call
<1>0. PcTypes /\ CallTypes
  BY TypeParts DEF ServerInv
<1>1. CASE WorkerStep(w)
  BY <1>0, <1>1
  DEF WorkerStep, ThreadStep, CloseDel, CloseClose, CloseErase, TickFire, TickPop, TickEnd,
      Drop, GetConn, Adjust, Serve, Rearm, Closing, PcTypes
<1>2. CASE ~WorkerStep(w)
  BY <1>2, OwnSteps
<1> QED BY <1>1, <1>2

(* A number is armed by the main loop for a new connection, or again by    *)
(* the worker that has it.                                                 *)
LEMMA ArmStep ==
  ASSUME ServerInv, [Next]_vars, NEW f \in Fds, Armed(f)'
  PROVE  \/ Armed(f)
         \/ EpollAdd /\ fdOf[conn[Main]] = f
         \/ \E w \in Workers : Rearm(w) /\ job[w].fd = f
<1> USE Basics DEF ServerInv, Armed
<1>0. KernelTypes
  BY TypeParts
<1>1. CASE EpollWait
  BY <1>0, <1>1 DEF EpollWait, KernelTypes
<1>2. ASSUME NEW t \in Threads, CloseErase(t) \/ Drop(t) \/ CloseDel(t) \/ CloseClose(t)
      PROVE  Armed(f)
  <2>1. epoll' = epoll \/ \E g : epoll' = [epoll EXCEPT ![g] = "none"]
    BY <1>2, EraseKernel, DropKernel DEF CloseDel, CloseClose, CloseFd
  <2> QED BY <1>0, <2>1 DEF KernelTypes
<1>3. CASE EpollAdd
  BY <1>0, <1>3 DEF EpollAdd, KernelTypes
<1>4. ASSUME NEW w \in Workers, Rearm(w) PROVE job[w].fd = f \/ Armed(f)
  BY <1>0, <1>4 DEF Rearm, KernelTypes
<1>5. CASE epoll' = epoll
  BY <1>5
<1>6. CASE AddConn
  BY <1>0, <1>6, AddConnKernel DEF CloseFd, KernelTypes
<1> QED
  BY <1>1, <1>2, <1>3, <1>4, <1>5, <1>6, OutsideKeeps
  DEF Next, MainStep, WorkerStep, ThreadStep, Outside, kernel,
      TickFire, TickPop, TickEnd, Submit, DispatchEnd, Accept, AcceptFail,
      AddTimer, Take, GetConn, Adjust, Serve

(* A number loses what it had of the tokens, and gains none.               *)
LEMMA TokenShrink ==
  ASSUME NEW f \in Fds, OneToken(f),
         batch' \subseteq batch, UNCHANGED <<queue, job>>,
         Armed(f)' => Armed(f),
         \A w \in Workers : Busy(w)' => Busy(w),
         Adding(f)' => NoToken(f)
  PROVE  OneToken(f)'
<1>1. /\ InBatch(f)' => InBatch(f)
      /\ InQueue(f)' => InQueue(f)
      /\ Handled(f)' => Handled(f)
  BY DEF InBatch, InQueue, Handled
<1> QED BY <1>1 DEF OneToken, NoToken

LEMMA TokenStep == ServerInv /\ TokenInv /\ [Next]_vars => TokenInv'
<1> SUFFICES ASSUME ServerInv, TokenInv, [Next]_vars,
                    NEW f \in Fds, "event" \notin stale'[f]
             PROVE  OneToken(f)'
  BY DEF TokenInv
<1> USE Basics DEF At
<1>0. /\ KernelTypes /\ CallTypes /\ LoopTypes /\ PcTypes /\ RTypeOK
      /\ ControlInv /\ OwnInv
  BY TypeParts DEF ServerInv
<1>1. OneToken(f)
  <2>1. stale[f] \subseteq stale'[f]
    BY <1>0, GivenStays
  <2> QED BY <2>1 DEF TokenInv
<1>2. ASSUME ~\E c \in Conns : Accept(c), Adding(f)' PROVE Adding(f) /\ NoToken(f) /\ ~EpollAdd
  <2>1. Accepting'
    BY <1>2 DEF Adding, Accepting
  <2> QED BY <1>1, <1>2, <2>1, AcceptingStep DEF Adding, OneToken
<1>3. CASE EpollWait
  <2>1. PICK b \in Batches :
          /\ batch' = b \/ batch' = b \union {Incoming}
          /\ epoll' = [g \in Fds |-> IF g \in {e.fd : e \in b} THEN "fired" ELSE epoll[g]]
    BY <1>3 DEF EpollWait
  <2>2. /\ \A e \in b : e.fd \in Fds /\ epoll[e.fd] \in {"in", "out"}
        /\ \A d, e \in b : d.fd = e.fd => d = e
    BY DEF Batches, Ready, Events
  <2>3. Incoming.fd # f
    BY DEF Incoming
  <2>4. UNCHANGED <<queue, job>> /\ \A w \in Workers : pc'[w] = pc[w]
    BY <1>0, <1>3 DEF EpollWait, Goto, PcTypes
  <2>5. /\ InBatch(f)' => Armed(f) /\ \E e \in b : e.fd = f
        /\ InQueue(f)' => InQueue(f)
        /\ Handled(f)' => Handled(f)
    BY <2>1, <2>2, <2>3, <2>4 DEF InBatch, InQueue, Handled, Busy, Armed
  <2>6. Armed(f)' => Armed(f) /\ ~InBatch(f)'
    <3> SUFFICES ASSUME Armed(f)' PROVE Armed(f) /\ ~InBatch(f)'
      OBVIOUS
    <3>1. f \notin {e.fd : e \in b} /\ epoll'[f] = epoll[f]
      BY <1>0, <2>1 DEF Armed, KernelTypes
    <3> QED BY <2>5, <3>1 DEF Armed
  <2>7. \A d, e \in batch' : d.fd = f /\ e.fd = f => d = e
    BY <2>1, <2>2, <2>3
  <2>8. ~Adding(f)'
    BY <1>0, <1>3 DEF EpollWait, Goto, PcTypes, Adding
  <2> QED BY <1>1, <2>4, <2>5, <2>6, <2>7, <2>8 DEF OneToken, Busy
<1>4. ASSUME NEW e \in batch, Submit(e) PROVE OneToken(f)'
  <2>1. /\ e \in Events /\ e.fd \in Fds /\ queue' = Append(queue, e)
        /\ batch' = batch \ {e} /\ UNCHANGED <<epoll, job, pc>> /\ pc[Main] = "dispatch"
    BY <1>0, <1>4 DEF Submit, LoopTypes, Events, kernel
  <2>2. Len(queue) \in Nat /\ DOMAIN queue = 1..Len(queue)
    BY <1>0 DEF LoopTypes
  <2>3. /\ DOMAIN queue' = 1..(Len(queue) + 1) /\ queue'[Len(queue) + 1] = e
        /\ \A i \in 1..Len(queue) : queue'[i] = queue[i]
    BY <1>0, <2>1, AppendProperties DEF LoopTypes
  <2>4. \A i \in 1..(Len(queue) + 1) : i \in 1..Len(queue) \/ i = Len(queue) + 1
    BY <2>2
  <2>5. e.fd = f => ~InQueue(f) /\ ~Handled(f) /\ ~Armed(f) /\ ~InBatch(f)'
    BY <1>1, <2>1 DEF OneToken, InBatch
  <2>6. /\ InBatch(f)' => InBatch(f)
        /\ InQueue(f)' => InQueue(f) \/ f = e.fd
        /\ Armed(f)' => Armed(f)
        /\ Handled(f)' => Handled(f)
    BY <2>1, <2>2, <2>3, <2>4 DEF InBatch, InQueue, Armed, Handled, Busy
  <2>7. \A i, j \in DOMAIN queue' : queue'[i].fd = f /\ queue'[j].fd = f => i = j
    BY <1>1, <2>2, <2>3, <2>4, <2>5 DEF OneToken, InQueue
  <2>8. /\ \A c, d \in batch' : c.fd = f /\ d.fd = f => c = d
        /\ \A v, w \in Workers : (Busy(v) /\ Busy(w) /\ job[v].fd = f /\ job[w].fd = f)' => v = w
        /\ ~Adding(f)'
    BY <1>1, <2>1 DEF OneToken, Busy, Adding
  <2> QED BY <1>1, <2>5, <2>6, <2>7, <2>8 DEF OneToken
<1>5. CASE EpollAdd
  <2>1. UNCHANGED <<batch, queue, job>> /\ \A w \in Workers : pc'[w] = pc[w]
    BY <1>0, <1>5 DEF EpollAdd, Goto, PcTypes, loop
  <2>2. /\ InBatch(f)' <=> InBatch(f)
        /\ InQueue(f)' <=> InQueue(f)
        /\ Handled(f)' <=> Handled(f)
    BY <2>1 DEF InBatch, InQueue, Handled, Busy
  <2>3. Armed(f)' => Armed(f) \/ NoToken(f)
    BY <1>0, <1>1, <1>5 DEF Armed, EpollAdd, KernelTypes, Adding, OneToken
  <2>4. ~Adding(f)'
    BY <1>0, <1>5 DEF EpollAdd, Goto, PcTypes, Adding
  <2> QED BY <1>1, <2>1, <2>2, <2>3, <2>4 DEF OneToken, NoToken, Busy
<1>6. ASSUME NEW w \in Workers, Take(w) PROVE OneToken(f)'
  <2>1. /\ queue # <<>> /\ queue' = Tail(queue) /\ queue \in Seq(Events)
        /\ job' = [job EXCEPT ![w] = Head(queue)] /\ pc' = [pc EXCEPT ![w] = "get"]
        /\ pc[w] = "take" /\ UNCHANGED <<epoll, batch, conn, fdOf>>
    BY <1>0, <1>6 DEF Take, LoopTypes, Goto, kernel, given
  <2>2. \A i \in DOMAIN queue' : i \in Nat /\ i >= 1 /\ i + 1 \in DOMAIN queue
                                 /\ queue'[i] = queue[i + 1]
    BY <2>1
  <2>3. 1 \in DOMAIN queue /\ Head(queue) = queue[1]
    BY <2>1
  <2>4. queue[1].fd = f => ~Armed(f) /\ ~InBatch(f) /\ ~Handled(f)
    BY <1>1, <2>3 DEF OneToken, InQueue
  <2>5. /\ \A v \in Workers : v # w => job'[v] = job[v] /\ (Busy(v)' <=> Busy(v))
        /\ job'[w] = queue[1] /\ Busy(w)' /\ ~Busy(w)
    BY <1>0, <2>1, <2>3 DEF CallTypes, PcTypes, Busy
  <2>6. ASSUME NEW i \in DOMAIN queue', queue'[i].fd = f PROVE InQueue(f) /\ queue[1].fd # f
    <3>1. i + 1 # 1
      BY <2>2
    <3>2. queue[i + 1].fd = f /\ i + 1 \in DOMAIN queue
      BY <2>2, <2>6
    <3> QED BY <1>1, <2>3, <3>1, <3>2 DEF OneToken, InQueue
  <2>7. /\ InQueue(f)' => InQueue(f) /\ queue[1].fd # f
        /\ Handled(f)' => Handled(f) \/ (queue[1].fd = f /\ InQueue(f))
        /\ Armed(f)' <=> Armed(f)
        /\ InBatch(f)' <=> InBatch(f)
    BY <2>1, <2>3, <2>5, <2>6 DEF InQueue, Handled, Armed, InBatch
  <2>8. ASSUME NEW i \in DOMAIN queue', NEW j \in DOMAIN queue',
               queue'[i].fd = f, queue'[j].fd = f
        PROVE  i = j
    <3>1. i + 1 = j + 1
      BY <1>1, <2>2, <2>8 DEF OneToken
    <3> QED BY <2>2, <3>1
  <2>9. \A u, v \in Workers : (Busy(u) /\ Busy(v) /\ job[u].fd = f /\ job[v].fd = f)' => u = v
    BY <1>1, <2>4, <2>5 DEF OneToken, Handled
  <2>10. \A c, d \in batch' : c.fd = f /\ d.fd = f => c = d
    BY <1>1, <2>1 DEF OneToken
  <2>11. Adding(f)' => NoToken(f)
    BY <1>1, <2>1 DEF Adding, OneToken
  <2> QED BY <1>1, <2>4, <2>7, <2>8, <2>9, <2>10, <2>11 DEF OneToken, NoToken
<1>7. ASSUME NEW w \in Workers, Rearm(w) PROVE OneToken(f)'
  <2>1. /\ pc[w] = "rearm" /\ pc' = [pc EXCEPT ![w] = "drop"]
        /\ UNCHANGED <<batch, queue, job, conn, fdOf>>
    BY <1>7 DEF Rearm, Goto, loop, given
  <2>2. Busy(w) /\ ~Busy(w)' /\ \A v \in Workers : v # w => (Busy(v)' <=> Busy(v))
    BY <1>0, <2>1 DEF Busy, PcTypes
  <2>3. job[w].fd = f => ~InBatch(f) /\ ~InQueue(f) /\ ~Handled(f)'
    BY <1>1, <2>1, <2>2 DEF OneToken, Handled
  <2>4. /\ InBatch(f)' <=> InBatch(f)
        /\ InQueue(f)' <=> InQueue(f)
        /\ Handled(f)' => Handled(f)
    BY <2>1, <2>2 DEF InBatch, InQueue, Handled
  <2>5. Armed(f)' => Armed(f) \/ f = job[w].fd
    BY <1>0, <1>7 DEF Armed, Rearm, KernelTypes
  <2>6. \A u, v \in Workers : (Busy(u) /\ Busy(v) /\ job[u].fd = f /\ job[v].fd = f)' => u = v
    BY <1>1, <2>1, <2>2 DEF OneToken
  <2>7. Adding(f)' => NoToken(f) /\ job[w].fd # f
    BY <1>1, <2>1, <2>2 DEF Adding, OneToken, NoToken, Handled
  <2> QED BY <1>1, <2>1, <2>3, <2>4, <2>5, <2>6, <2>7 DEF OneToken, NoToken
<1>8. ASSUME NEW c \in Conns, Accept(c) PROVE OneToken(f)'
  <2>1. /\ batch' \subseteq batch /\ UNCHANGED <<queue, job, epoll>>
        /\ \A w \in Workers : pc'[w] = pc[w]
    BY <1>0, <1>8 DEF Accept, Goto, PcTypes
  <2>2. conn'[Main] = c
    BY <1>0, <1>8 DEF Accept, CallTypes
  <2>3. PICK g \in Fds : /\ open[g] = NoConn /\ fdOf' = [fdOf EXCEPT ![c] = g]
                         /\ stale' = [stale EXCEPT ![g] = stale[g] \union Left(g)]
    BY <1>0, <1>8, AcceptFd
  <2>4. Adding(f)' => NoToken(f)
    <3> SUFFICES ASSUME Adding(f)' PROVE NoToken(f)
      OBVIOUS
    <3>1. g = f
      BY <1>0, <2>2, <2>3 DEF Adding, KernelTypes
    <3>2. "event" \notin Left(f)
      BY <1>0, <2>3, <3>1 DEF KernelTypes
    <3>3. epoll[f] = "none"
      BY <1>0, <2>3, <3>1 DEF OwnInv
    <3> QED BY <3>2, <3>3 DEF Left, Kinds, NoToken, Armed
  <2>5. Armed(f)' => Armed(f)
    BY <2>1 DEF Armed
  <2>6. \A w \in Workers : Busy(w)' => Busy(w)
    BY <2>1 DEF Busy
  <2> QED BY <1>1, <2>1, <2>4, <2>5, <2>6, TokenShrink
<1>9. ASSUME ~EpollWait, ~EpollAdd, ~\E e \in batch : Submit(e), ~\E c \in Conns : Accept(c),
             ~\E w \in Workers : Take(w) \/ Rearm(w)
      PROVE  OneToken(f)'
  <2>1. Armed(f)' => Armed(f)
    BY <1>9, ArmStep
  <2>2. \A w \in Workers : Busy(w)' => Busy(w)
    BY <1>9, BusyStep
  <2>3. batch' \subseteq batch /\ UNCHANGED <<queue, job>>
    BY <1>9, OutsideKeeps
    DEF Next, MainStep, WorkerStep, ThreadStep, Outside, loop,
        CloseDel, CloseClose, CloseErase, TickFire, TickPop, TickEnd, Drop,
        DispatchEnd, AcceptFail, AddConn, AddTimer, GetConn, Adjust, Serve
  <2>4. Adding(f)' => NoToken(f)
    BY <1>2, <1>9
  <2> QED BY <1>1, <2>1, <2>2, <2>3, <2>4, TokenShrink
<1> QED BY <1>3, <1>4, <1>5, <1>6, <1>7, <1>8, <1>9

-----------------------------------------------------------------------------
(* A thread comes to close f because of its timer, or as a worker whose    *)
(* lookup found a connection under f.                                      *)
LEMMA CloserStep ==
  ASSUME ServerInv, [Next]_vars, NEW t \in Threads, NEW f \in Fds, InClose(t, f)'
  PROVE  \/ InClose(t, f)
         \/ Timed(f)
         \/ t \in Workers /\ GetConn(t) /\ job[t].fd = f /\ table[f] # NoConn
         \/ t \in Workers /\ Holds(t, f)
<1> USE Basics DEF InClose, At, Goto, call
<1>0. /\ TimerTypes /\ PcTypes /\ CallTypes /\ LoopTypes /\ ControlInv /\ OwnInv
  BY TypeParts DEF ServerInv
<1>1. CASE ThreadStep(t)
  <2>1. CASE TickFire(t)
    <3>1. timers # <<>> /\ closing' = [closing EXCEPT ![t] = Head(timers)]
      BY <1>0, <2>1 DEF TickFire, Closing, TimerTypes
    <3>2. 1 \in DOMAIN timers /\ Head(timers) = timers[1]
      BY <1>0, <3>1 DEF TimerTypes
    <3> QED BY <1>0, <3>1, <3>2 DEF Timed, CallTypes
  <2>2. CASE CloseDel(t) \/ CloseClose(t)
    BY <1>0, <2>2 DEF CloseDel, CloseClose, PcTypes
  <2>3. CASE CloseErase(t)
    BY <1>0, <2>3 DEF CloseErase, PcTypes, CallTypes
  <2>4. CASE TickPop(t) \/ TickEnd(t) \/ Drop(t)
    BY <1>0, <2>4 DEF TickPop, TickEnd, Drop, PcTypes, LoopTypes
  <2> QED BY <1>1, <2>1, <2>2, <2>3, <2>4 DEF ThreadStep
<1>2. CASE t = Main /\ MainStep
  BY <1>0, <1>1, <1>2
  DEF MainStep, EpollWait, Submit, DispatchEnd, Accept, AcceptFail, EpollAdd, AddConn,
      AddTimer, PcTypes
<1>3. CASE t \in Workers /\ WorkerStep(t)
  <2>1. CASE GetConn(t)
    BY <1>0, <1>3, <2>1 DEF GetConn, Closing, PcTypes, CallTypes
  <2>2. CASE Serve(t)
    <3>1. conn[t] # NoConn /\ fdOf[conn[t]] = job[t].fd
      BY <1>0, <1>3, <2>2 DEF Serve, ControlInv, OwnInv
    <3> QED BY <1>0, <1>3, <2>2, <3>1 DEF Serve, Closing, PcTypes, CallTypes, Holds
  <2>3. CASE Take(t) \/ Adjust(t) \/ Rearm(t)
    BY <1>0, <1>3, <2>3 DEF Take, Adjust, Rearm, PcTypes
  <2> QED BY <1>1, <1>3, <2>1, <2>2, <2>3 DEF WorkerStep
<1> QED BY <1>1, <1>2, <1>3, OwnSteps

(* What a new connection finds of its number, when nothing but events of   *)
(* earlier ones is left.                                                   *)
LEMMA CleanAccept ==
  ASSUME ServerInv, [Next]_vars, NEW c \in Conns, Accept(c)
  PROVE  \E f \in Fds :
           /\ open[f] = NoConn /\ open'[f] = c /\ fdOf[c] = NoFd /\ fdOf' = [fdOf EXCEPT ![c] = f]
           /\ OnlyEvents(f)' =>
                /\ ~Timed(f)
                /\ \A t \in Threads : ~InClose(t, f) /\ ~Holds(t, f)
<1>0. KernelTypes /\ RTypeOK /\ OwnInv
  BY TypeParts DEF ServerInv
<1>1. PICK f \in Fds : /\ open[f] = NoConn /\ open' = [open EXCEPT ![f] = c]
                       /\ fdOf' = [fdOf EXCEPT ![c] = f]
                       /\ stale' = [stale EXCEPT ![f] = stale[f] \union Left(f)]
  BY <1>0, AcceptFd
<1>2. fdOf[c] = NoFd
  BY <1>0 DEF Accept, OwnInv
<1>3. OnlyEvents(f)' => Left(f) \subseteq {"event"}
  BY <1>0, <1>1 DEF OnlyEvents, KernelTypes
<1>4. Left(f) \subseteq {"event"} =>
        /\ ~Timed(f)
        /\ \A t \in Threads : ~InClose(t, f) /\ ~Holds(t, f)
  BY DEF Left, Kinds
<1> QED BY <1>0, <1>1, <1>2, <1>3, <1>4 DEF KernelTypes

LEMMA LiveStep == ServerInv /\ LiveInv /\ [Next]_vars => LiveInv'
<1> SUFFICES ASSUME ServerInv, LiveInv, [Next]_vars, NEW f \in Fds, OnlyEvents(f)'
             PROVE  LiveFd(f)'
  BY DEF LiveInv
<1> USE Basics DEF At
<1>0. /\ KernelTypes /\ CallTypes /\ PcTypes /\ RTypeOK
      /\ ControlInv /\ OwnInv
  BY TypeParts DEF ServerInv
<1>1. LiveFd(f)
  <2>1. stale[f] \subseteq stale'[f]
    BY <1>0, GivenStays
  <2> QED BY <2>1 DEF LiveInv, OnlyEvents
<1>k. \A c \in Conns : fdOf[c] # NoFd => fdOf'[c] = fdOf[c]
  BY <1>0, GivenStays
<1>h. ASSUME NEW t \in Threads, Holds(t, f)', conn'[t] = conn[t] PROVE Holds(t, f)
  <2>1. conn[t] \in Conns /\ fdOf[conn[t]] \in Fds
    BY <1>0, <1>h DEF Holds, CallTypes, OwnInv
  <2> QED BY <1>h, <1>k, <2>1 DEF Holds
<1>g. ASSUME NEW w \in Workers, Holds(w, f)', GetConn(w), conn'[w] = table[job[w].fd]
      PROVE  table[f] # NoConn /\ conn'[w] = table[f]
  <2>1. job[w].fd \in Fds
    BY <1>0, <1>g DEF GetConn, ControlInv, Events
  <2>2. conn'[w] \in Conns /\ fdOf[conn'[w]] = job[w].fd
    BY <1>0, <1>g, <2>1 DEF Holds, KernelTypes, OwnInv
  <2>3. job[w].fd = f
    BY <1>g, <1>k, <2>1, <2>2 DEF Holds
  <2> QED BY <1>g, <2>3 DEF Holds
<1>a. ASSUME NEW c \in Conns, Accept(c), fdOf'[c] = f
      PROVE  /\ open[f] = NoConn /\ open'[f] = c /\ fdOf[c] = NoFd /\ ~Timed(f)
             /\ \A t \in Threads : ~InClose(t, f) /\ ~Holds(t, f)
  BY <1>0, <1>a, CleanAccept DEF KernelTypes
<1>b. ASSUME open'[f] # open[f], open'[f] # NoConn
      PROVE  \E c \in Conns : Accept(c) /\ fdOf'[c] = f /\ open'[f] = c
  BY <1>0, <1>b, OpenStep DEF KernelTypes
<1>2. ASSUME NEW t \in Threads, pc'[t] = "erase", closing'[t] = f PROVE open'[f] = NoConn
  <2>1. pc[t] = "erase" \/ (CloseClose(t) /\ pc[t] = "close")
    BY <1>2, ClosingStep DEF CloseClose
  <2>2. closing[t] = f
    BY <1>2, <2>1, ClosingStep DEF ClosingPc
  <2>3. CASE CloseClose(t)
    BY <1>0, <2>2, <2>3 DEF CloseClose, CloseFd, KernelTypes
  <2>4. CASE pc[t] = "erase"
    <3>1. open[f] = NoConn /\ InClose(t, f)
      BY <1>1, <2>2, <2>4 DEF LiveFd, InClose
    <3> QED BY <1>a, <1>b, <3>1
  <2> QED BY <2>1, <2>3, <2>4
<1>3. ASSUME NEW t \in Threads, Holds(t, f)', open'[f] # NoConn PROVE conn'[t] = open'[f]
  <2>1. CASE conn'[t] = conn[t]
    BY <1>1, <1>3, <1>a, <1>b, <1>h, <2>1 DEF LiveFd
  <2>2. ASSUME t \in Workers, GetConn(t), conn'[t] = table[job[t].fd]
        PROVE  conn'[t] = open'[f]
    <3>1. table[f] # NoConn /\ conn'[t] = table[f]
      BY <1>3, <1>g, <2>2
    <3>2. open' = open
      BY <2>2 DEF GetConn, kernel
    <3> QED BY <1>1, <1>3, <3>1, <3>2 DEF LiveFd
  <2>3. ASSUME NEW c \in Conns, Accept(c), conn'[t] = c PROVE conn'[t] = open'[f]
    BY <1>3, <1>a, <2>3 DEF Holds
  <2> QED BY <1>3, <2>1, <2>2, <2>3, ConnStep DEF Holds
<1>4. ASSUME table'[f] # NoConn
      PROVE  open'[f] = table'[f] \/ \E t \in Threads : pc'[t] = "erase" /\ closing'[t] = f
  <2>1. CASE table'[f] # table[f]
    <3>1. AddConn /\ fdOf[conn[Main]] = f /\ table'[f] = conn[Main]
      BY <1>4, <2>1, TableStep
    <3>2. table[f] = NoConn /\ open[f] = conn[Main]
      BY <1>1, <3>1 DEF AddConn, Accepting, LiveFd
    <3> QED BY <1>0, <3>1, <3>2, AddConnKernel
  <2>2. CASE table'[f] = table[f]
    <3>1. ASSUME NEW t \in Threads, CloseErase(t) PROVE closing[t] # f
      BY <1>0, <1>4, <3>1 DEF CloseErase, KernelTypes
    <3>2. CASE open[f] = table[f] /\ open'[f] # open[f]
      <4>1. ~(AddConn /\ fdOf[conn[Main]] = f)
        BY <1>1, <1>4, <2>2 DEF AddConn, Accepting, LiveFd
      <4>2. \A t \in Threads : Holds(t, f) => conn[t] = table[f]
        BY <1>1, <1>4, <2>2, <3>2 DEF LiveFd
      <4>3. open[f] # NoConn
        BY <1>4, <2>2, <3>2
      <4>4. PICK t \in Threads : CloseClose(t) /\ closing[t] = f
        BY <3>1, <3>2, <4>1, <4>2, <4>3, OpenStep
      <4>5. pc[t] = "close" /\ pc'[t] = "erase"
        BY <1>0, <4>4 DEF CloseClose, Goto, PcTypes
      <4>6. closing'[t] = f
        BY <4>4, <4>5, ClosingStep DEF ClosingPc
      <4> QED BY <4>5, <4>6
    <3>3. ASSUME NEW t \in Threads, pc[t] = "erase", closing[t] = f
          PROVE  pc'[t] = "erase" /\ closing'[t] = f
      <4>1. ~CloseErase(t) /\ ~CloseDel(t)
        BY <3>1, <3>3 DEF CloseDel
      <4> QED BY <3>3, <4>1, ClosingStep DEF ClosingPc
    <3> QED BY <1>1, <1>4, <2>2, <3>2, <3>3 DEF LiveFd
  <2> QED BY <2>1, <2>2
<1>5. ASSUME Accepting', fdOf'[conn'[Main]] = f
      PROVE  /\ table'[f] = NoConn /\ open'[f] = conn'[Main] /\ ~Timed(f)'
             /\ \A t \in Threads : ~InClose(t, f)'
             /\ \A w \in Workers : ~Holds(w, f)'
  <2>1. ASSUME NEW c \in Conns, Accept(c), conn'[Main] = c
        PROVE  /\ table'[f] = NoConn /\ open'[f] = conn'[Main] /\ ~Timed(f)'
               /\ \A t \in Threads : ~InClose(t, f)'
               /\ \A w \in Workers : ~Holds(w, f)'
    <3>1. /\ open[f] = NoConn /\ open'[f] = c /\ fdOf[c] = NoFd /\ ~Timed(f)
          /\ \A t \in Threads : ~InClose(t, f) /\ ~Holds(t, f)
      BY <1>5, <1>a, <2>1
    <3>2. /\ UNCHANGED <<table, timers, closing>> /\ pc' = [pc EXCEPT ![Main] = "add"]
          /\ conn' = [conn EXCEPT ![Main] = c]
      BY <2>1 DEF Accept, timer, call, Goto
    <3>3. table[f] = NoConn
      BY <1>1, <3>1 DEF LiveFd, InClose
    <3>4. \A t \in Threads : ~InClose(t, f)'
      BY <1>0, <3>1, <3>2 DEF InClose, PcTypes
    <3>5. \A w \in Workers : conn'[w] = conn[w]
      BY <1>0, <3>2 DEF CallTypes
    <3> QED BY <1>h, <2>1, <3>1, <3>2, <3>3, <3>4, <3>5 DEF Timed
  <2>2. ASSUME Accepting, ~AddConn, conn'[Main] = conn[Main], fdOf' = fdOf
        PROVE  /\ table'[f] = NoConn /\ open'[f] = conn'[Main] /\ ~Timed(f)'
               /\ \A t \in Threads : ~InClose(t, f)'
               /\ \A w \in Workers : ~Holds(w, f)'
    <3>1. /\ table[f] = NoConn /\ open[f] = conn[Main] /\ ~Timed(f) /\ conn[Main] # NoConn
          /\ \A t \in Threads : ~InClose(t, f)
          /\ \A w \in Workers : ~Holds(w, f)
      BY <1>0, <1>1, <1>5, <2>2 DEF LiveFd, Accepting, ControlInv
    <3>2. table'[f] = NoConn
      BY <2>2, <3>1, TableStep
    <3>3. open'[f] = open[f]
      <4>1. ASSUME NEW t \in Threads, CloseClose(t) \/ CloseErase(t) PROVE closing[t] # f
        BY <3>1, <4>1 DEF CloseClose, CloseErase, InClose
      <4>2. ASSUME NEW t \in Threads, Drop(t) PROVE ~Holds(t, f)
        BY <2>2, <3>1, <4>2 DEF Drop, Accepting
      <4> QED BY <2>2, <3>1, <4>1, <4>2, OpenStep
    <3>4. ~Timed(f)'
      BY <2>2, <3>1, TimersStep DEF Accepting
    <3>5. \A t \in Threads : ~InClose(t, f)'
      BY <3>1, CloserStep
    <3>6. ASSUME NEW w \in Workers PROVE ~Holds(w, f)'
      <4> SUFFICES ASSUME Holds(w, f)' PROVE FALSE
        OBVIOUS
      <4>1. conn'[w] # conn[w]
        BY <1>h, <3>1
      <4>2. GetConn(w) /\ conn'[w] = table[job[w].fd]
        BY <4>1, ConnStep DEF Holds
      <4> QED BY <1>g, <3>1, <4>2
    <3> QED BY <2>2, <3>1, <3>2, <3>3, <3>4, <3>5, <3>6
  <2> QED BY <1>5, <2>1, <2>2, AcceptingStep
<1> QED BY <1>2, <1>3, <1>4, <1>5 DEF LiveFd

(* With nothing but events left of earlier connections, a Socket finds its *)
(* own connection under its number, or nothing.                            *)
LEMMA HitStep == ServerInv /\ LiveInv /\ OwnFdUnlessStale /\ [Next]_vars => OwnFdUnlessStale'
<1> SUFFICES ASSUME ServerInv, LiveInv, OwnFdUnlessStale, [Next]_vars,
                    \A f \in Fds : OnlyEvents(f)'
             PROVE  hit' = {}
  BY DEF OwnFdUnlessStale, OwnFdOnly
<1> USE Basics DEF At
<1>0. RTypeOK /\ ControlInv /\ OwnInv
  BY DEF ServerInv
<1>1. \A f \in Fds : OnlyEvents(f) /\ LiveFd(f)
  BY <1>0, GivenStays DEF LiveInv, OnlyEvents
<1>2. hit = {}
  BY <1>1 DEF OwnFdUnlessStale, OwnFdOnly
<1>3. ASSUME NEW t \in Threads, CloseErase(t) PROVE hit' = {}
  <2>1. closing[t] \in Fds /\ open[closing[t]] = NoConn
    BY <1>0, <1>1, <1>3, EraseKernel DEF CloseErase, LiveFd
  <2> QED BY <1>0, <1>2, <1>3, <2>1, EraseKernel
<1>4. ASSUME NEW t \in Threads, Drop(t) PROVE hit' = {}
  <2>1. conn[t] \in Conns /\ fdOf[conn[t]] \in Fds
    BY <1>0, <1>4, DropKernel
  <2>2. open[fdOf[conn[t]]] \in {conn[t], NoConn}
    BY <1>1, <2>1 DEF LiveFd, Holds
  <2> QED BY <1>0, <1>2, <1>4, <2>2, DropKernel
<1>5. CASE AddConn
  <2>1. conn[Main] \in Conns /\ fdOf[conn[Main]] \in Fds
    BY <1>0, <1>5, AddConnKernel
  <2>2. table[fdOf[conn[Main]]] = NoConn
    BY <1>1, <1>5, <2>1 DEF AddConn, Accepting, LiveFd
  <2> QED BY <1>0, <1>2, <1>5, <2>2, AddConnKernel
<1>6. CASE hit' = hit
  BY <1>2, <1>6
<1> QED
  BY <1>3, <1>4, <1>5, <1>6, OutsideKeeps
  DEF Next, MainStep, WorkerStep, ThreadStep, Outside, kernel,
      CloseDel, CloseClose, TickFire, TickPop, TickEnd, EpollWait, Submit, DispatchEnd,
      Accept, AcceptFail, EpollAdd, AddTimer, Take, GetConn, Adjust, Serve, Rearm

LEMMA EventsHold == Spec => [](ServerInv /\ TokenInv)
<1>1. ServerInv /\ TokenInv /\ [Next]_vars => ServerInv' /\ TokenInv'
  BY ServerStep, TokenStep
<1> QED BY <1>1, ServerInit, PTL DEF Spec

LEMMA LiveHolds == Spec => [](ServerInv /\ LiveInv /\ OwnFdUnlessStale)
<1>1. ServerInv /\ LiveInv /\ OwnFdUnlessStale /\ [Next]_vars =>
        ServerInv' /\ LiveInv' /\ OwnFdUnlessStale'
  BY ServerStep, LiveStep, HitStep
<1> QED BY <1>1, ServerInit, PTL DEF Spec

-----------------------------------------------------------------------------
(* The variables of the server keep to their values, and no fd has two     *)
(* timers, whatever numbers the kernel gives out.                          *)
THEOREM ReactorTypes == Spec => []RTypeOK
<1>1. ServerInv => RTypeOK
  BY DEF ServerInv
<1> QED BY <1>1, ServerHolds, PTL

(* A worker in handle_io is busy with its number.                          *)
LEMMA OneHandles == ServerInv /\ TokenInv => OneWorkerUnlessStale
<1> SUFFICES ASSUME ServerInv, TokenInv, NEW v \in Workers, NEW w \in Workers,
                    Working(v), Working(w), job[v].fd = job[w].fd,
                    "event" \notin stale[job[v].fd]
             PROVE  v = w
  BY DEF OneWorkerUnlessStale
<1>1. Busy(v) /\ Busy(w)
  BY DEF Working, Busy, ServerInv, ControlInv
<1>2. job[v].fd \in Fds
  BY <1>1 DEF Busy, ServerInv, ControlInv, Events
<1> QED BY <1>1, <1>2 DEF TokenInv, OneToken

(* EPOLLONESHOT keeps two workers from serving the same fd                 *)
(* (thread_pool_webserver.cpp:485) unless the number was given out while   *)
(* an event of an earlier connection was under way: until then the fd is   *)
(* armed, or its event is under way, or one worker has it.                 *)
THEOREM OneWorker == Spec => []OneWorkerUnlessStale
BY OneHandles, EventsHold, PTL

(* The server loses no connection: an fd that is open is in m_conns, or a  *)
(* thread has the Conn whose Socket closes it, though numbers are given    *)
(* out again and closeConnection may close the wrong one.                  *)
THEOREM Tracked == Spec => []OpenIsTracked
<1>1. ServerInv => OpenIsTracked
  BY DEF ServerInv
<1> QED BY <1>1, ServerHolds, PTL

(* m_conns has no entry for a dead connection but the one whose closer is  *)
(* about to erase it, for every number that was given out only when no     *)
(* closer, timer or shared_ptr of an earlier connection was left.          *)
THEOREM Live == Spec => []TableIsLive
<1>1. LiveInv => TableIsLive
  BY DEF LiveInv, LiveFd, TableIsLive
<1> QED BY <1>1, LiveHolds, PTL

(* What Socket.hpp:29 is after: closeConnection closes the number and      *)
(* ~Socket closes it again, but no connection is closed by the Socket of   *)
(* another while all numbers are given out like that.                      *)
THEOREM OwnFd == Spec => []OwnFdUnlessStale
BY LiveHolds, PTL

(* Before the kernel gives a number out again there is no such exception:  *)
(* one worker per fd, and every Socket closes its own connection only.     *)
THEOREM FirstUse == ~ReuseFds => (Spec => [](OneWorkerPerFd /\ OwnFdOnly))
<1> SUFFICES ASSUME ~ReuseFds PROVE Spec => [](OneWorkerPerFd /\ OwnFdOnly)
  OBVIOUS
<1>1. ServerInv => \A f \in Fds : stale[f] = {}
  BY DEF ServerInv, FreshInv
<1>2. ServerInv /\ OneWorkerUnlessStale => OneWorkerPerFd
  <2> SUFFICES ASSUME ServerInv, OneWorkerUnlessStale, NEW v \in Workers, NEW w \in Workers,
                      Working(v), Working(w), job[v].fd = job[w].fd
               PROVE  v = w
    BY DEF OneWorkerPerFd
  <2>1. job[v].fd \in Fds
    BY DEF Working, ServerInv, ControlInv, Events
  <2> QED BY <1>1, <2>1 DEF OneWorkerUnlessStale
<1>3. ServerInv /\ OwnFdUnlessStale => OwnFdOnly
  BY <1>1 DEF OwnFdUnlessStale, OnlyEvents
<1> QED BY <1>2, <1>3, OneWorker, LiveHolds, PTL
=============================================================================

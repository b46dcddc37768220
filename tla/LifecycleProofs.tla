--------------------------- MODULE LifecycleProofs ---------------------------
(***************************************************************************)
(* Theorems about Lifecycle, for any number of workers, handlers at a      *)
(* time, connections, tasks and signals.                                   *)
(***************************************************************************)
EXTENDS Lifecycle, SequenceTheorems, TLAPS

(* The statics are built in this order and go in the reverse one.          *)
StaticsInv ==
  /\ statics \in {<<>>, <<"logger">>, <<"logger", "pool">>}
  /\ at["main"] \in {"boot", "init"} => statics = <<>>
  /\ at["main"] \notin {"boot", "init", "exit", "gone"} => statics # <<>>
  /\ at["main"] \in {"loop", "wait", "forever"} => statics = <<"logger", "pool">>
  /\ tasks > 0 \/ busy # {} => statics = <<"logger", "pool">>

(* Where main is before it has an epoll fd, and where it has none any more.*)
BeforeEpoll ==
  {"boot", "init", "server", "sigint", "sigterm", "socket", "assign",
   "listen", "epoll"}
AfterEpoll ==
  StopPc \union {"drop", "dropped", "clearEpoll", "deleteSocket", "clearSocket",
                 "closeConns", "exit"}

(* An open epoll fd is known to m_epoll_fd, until one side has closed it,  *)
(* and no handler is about to close or forget it before it is.             *)
EpollInv ==
  /\ epoll => epfd \/ at["main"] \in {"number", "gone"}
  /\ at["main"] \in BeforeEpoll \union {"number"} =>
       ~epfd /\ \A h \in Handlers : at[h] \notin {"stopEpoll", "clearNumber"}
  /\ at["main"] \in AfterEpoll => ~epoll
  /\ \A h \in Handlers : at[h] = "clearNumber" => ~epoll

(* An open listening socket is known to m_server_socket.                   *)
SocketInv ==
  /\ socket = "open" => pointer \/ at["main"] \in {"assign", "gone"}
  /\ at["main"] \in BeforeEpoll \ {"assign", "listen", "epoll"} => socket = "none"
  /\ at["main"] \in StopPc \union {"dropped", "clearSocket", "closeConns", "exit"} =>
       socket # "open"

(* Connections exist while the loop runs, and until cleanup.               *)
ConnsInv ==
  at["main"] \notin {"loop", "wait", "forever", "closeEpoll", "clearEpoll",
                  "deleteSocket", "clearSocket", "closeConns", "gone"} => conns = 0

ServerInv ==
  /\ server = "dead" => at["main"] \in {"exit", "gone"}
  /\ DescriptorsReleased

(* No handler runs before main has built the logger, nor in a process that *)
(* has crashed.                                                            *)
HandlersInv ==
  /\ at["main"] \in {"boot", "init"} => \A h \in Handlers : at[h] = "idle"
  /\ at["main"] = "gone" => statics = <<>> \/ \A h \in Handlers : at[h] = "idle"

LcInv ==
  /\ LcTypeOK /\ StaticsInv /\ EpollInv /\ SocketInv /\ ConnsInv /\ ServerInv
  /\ HandlersInv

-----------------------------------------------------------------------------
AtType == {a \in [{"main"} \union Handlers -> MainPc \union HandlerPc] :
             a["main"] \in MainPc /\ \A h \in Handlers : a[h] \in HandlerPc}

(* What a step of main or of one handler does to everybody's place.        *)
LEMMA MainMoves ==
  ASSUME at \in AtType, NEW from, NEW to \in MainPc, Moves("main", from, to)
  PROVE  /\ at["main"] = from /\ at'["main"] = to /\ at' \in AtType
         /\ \A h \in Handlers : at'[h] = at[h]
BY LifecycleAssumption DEF AtType, Moves

LEMMA HandlerMoves ==
  ASSUME at \in AtType, NEW k \in Handlers, NEW from, NEW to \in HandlerPc,
         Moves(k, from, to)
  PROVE  /\ at[k] = from /\ at'[k] = to /\ at' \in AtType
         /\ at'["main"] = at["main"]
         /\ \A h \in Handlers \ {k} : at'[h] = at[h]
BY LifecycleAssumption DEF AtType, Moves

(* The process that starts satisfies the invariant.                        *)
LEMMA LcInitInv == Init => LcInv
<1> SUFFICES ASSUME Init PROVE LcInv
  OBVIOUS
<1> USE LifecycleAssumption DEF Init
<1>1. LcTypeOK
  <2>1. /\ at \in [{"main"} \union Handlers -> MainPc \union HandlerPc]
        /\ at["main"] \in MainPc /\ \A h \in Handlers : at[h] \in HandlerPc
    BY DEF MainPc, HandlerPc, StopPc
  <2>2. statics \in Seq({"logger", "pool"}) /\ busy \subseteq Workers
    OBVIOUS
  <2>3. accepted \in 0..MaxConns /\ conns \in 0..accepted /\ tasks \in 0..MaxTasks
    OBVIOUS
  <2>4. stops \in 0..MaxStops
    OBVIOUS
  <2>5. /\ on \in [Handlers -> Workers \union Handlers \union {"main", "writer", "none"}]
        /\ \A h \in Handlers : on[h] = "none" <=> at[h] = "idle"
    OBVIOUS
  <2> QED BY <2>1, <2>2, <2>3, <2>4, <2>5 DEF LcTypeOK
<1>2. StaticsInv /\ EpollInv
  BY DEF StaticsInv, EpollInv, AfterEpoll, BeforeEpoll, StopPc
<1>3. SocketInv /\ ConnsInv /\ ServerInv /\ HandlersInv
  BY DEF SocketInv, ConnsInv, ServerInv, HandlersInv, DescriptorsReleased,
         BeforeEpoll, StopPc
<1> QED BY <1>1, <1>2, <1>3 DEF LcInv

(* The statics built in their order, and destroyed in the other.           *)
LEMMA StaticsOrder ==
  /\ Len(<<>>) = 0 /\ Len(<<"logger">>) = 1 /\ Len(<<"logger", "pool">>) = 2
  /\ SubSeq(<<"logger">>, 1, 0) = <<>>
  /\ SubSeq(<<"logger", "pool">>, 1, 1) = <<"logger">>
  /\ Append(<<>>, "logger") = <<"logger">>
  /\ Append(<<"logger">>, "pool") = <<"logger", "pool">>
<1>1. Len(<<>>) = 0 /\ Len(<<"logger">>) = 1 /\ Len(<<"logger", "pool">>) = 2
  OBVIOUS
<1>2. SubSeq(<<"logger">>, 1, 0) = <<>>
  OBVIOUS
<1> DEFINE T == {"logger", "pool"}
           both == <<"logger", "pool">>
<1>s. both \in Seq(T) /\ <<"logger">> \in Seq(T)
  OBVIOUS
<1>b. /\ both[1] = "logger" /\ both[2] = "pool" /\ <<"logger">>[1] = "logger"
      /\ Len(both) = 2 /\ Len(<<"logger">>) = 1
  OBVIOUS
<1>3. SubSeq(both, 1, 1) = <<"logger">>
  <2> DEFINE t == SubSeq(both, 1, 1)
  <2>1. t \in Seq(T) /\ Len(t) = 1 /\ t[1] = "logger"
    BY <1>1, <1>s, <1>b, SubSeqProperties
  <2>2. \A i \in 1..Len(t) : t[i] = <<"logger">>[i]
    BY <1>b, <2>1
  <2>3. t = <<"logger">>
    <3> HIDE DEF t, both
    <3> QED BY <1>s, <1>b, <2>1, <2>2, SeqEqual
  <2> QED BY <2>3
<1>4. Append(<<>>, "logger") = <<"logger">>
  OBVIOUS
<1>5. Append(<<"logger">>, "pool") = both
  <2> DEFINE t == Append(<<"logger">>, "pool")
  <2>1. t \in Seq(T) /\ Len(t) = 2 /\ t[1] = "logger" /\ t[2] = "pool"
    BY <1>1, <1>s, <1>b, AppendProperties
  <2> HIDE DEF t, both
  <2> QED BY <1>s, <1>b, <2>1, SeqEqual
<1> QED BY <1>1, <1>2, <1>3, <1>4, <1>5

LEMMA BuildLogger ==
  ASSUME statics = <<>>, Build("logger")
  PROVE  statics' = <<"logger">>
BY StaticsOrder DEF Build, Built

LEMMA BuildPool ==
  ASSUME statics \in {<<"logger">>, <<"logger", "pool">>}, Build("pool")
  PROVE  statics' = <<"logger", "pool">>
<1>1. CASE statics = <<"logger">>
  <2>1. ~Built("pool")
    BY <1>1 DEF Built
  <2> QED BY <1>1, <2>1, StaticsOrder DEF Build
<1>2. CASE statics = <<"logger", "pool">>
  <2>1. 2 \in DOMAIN statics /\ statics[2] = "pool"
    BY <1>2
  <2> QED BY <1>2, <2>1 DEF Build, Built
<1> QED BY <1>1, <1>2

LEMMA StaticsTypes ==
  {<<>>, <<"logger">>, <<"logger", "pool">>} \subseteq Seq({"logger", "pool"})
OBVIOUS

(* main up to the loop, and the failures of start().                       *)
LEMMA StartingInv ==
  ASSUME LcInv,
         Boot \/ DaemonizeFails \/ InitLogger \/ MakeServer
           \/ Register \/ NewSocket \/ AssignSocket \/ Listen
           \/ EpollCreate \/ AssignEpoll \/ EpollAdd
           \/ Drop \/ Dropped
  PROVE  LcInv'
<1> USE LifecycleAssumption, StaticsTypes
<1> USE DEF LcInv, BeforeEpoll, AfterEpoll, StopPc, HandlerPc, net, load, life, signal
<1>0. at \in AtType
  BY DEF LcTypeOK, AtType
<1>1. ASSUME Boot PROVE LcInv'
  <2>1. /\ at["main"] \in {"boot"} /\ at'["main"] \in {"init"}
        /\ (\A h \in Handlers : at'[h] = at[h]) /\ at' \in AtType
    BY <1>1, <1>0, MainMoves DEF Boot, Main, MainPc
  <2>2. StaticsInv'
    BY <1>1, <2>1 DEF StaticsInv, Boot
  <2>3. LcTypeOK'
    <3>1. /\ running' \in BOOLEAN /\ pointer' \in BOOLEAN /\ epfd' \in BOOLEAN
          /\ epoll' \in BOOLEAN /\ broken' \in BOOLEAN
      BY <1>1, <2>1 DEF LcTypeOK, Boot
    <3>2. statics' \in Seq({"logger", "pool"})
      BY <2>2 DEF StaticsInv
    <3> QED BY <1>1, <2>1, <3>1, <3>2 DEF LcTypeOK, AtType, Boot
  <2>4. EpollInv'
    BY <1>1, <2>1 DEF EpollInv, Boot
  <2>5. SocketInv'
    BY <1>1, <2>1 DEF SocketInv, Boot
  <2>6. ConnsInv'
    BY <1>1, <2>1 DEF ConnsInv, LcTypeOK, Boot
  <2>7. ServerInv'
    BY <1>1, <2>1 DEF ServerInv, DescriptorsReleased, EpollInv, SocketInv, ConnsInv, LcTypeOK, Boot
  <2>8. HandlersInv'
    BY <1>1, <2>1 DEF HandlersInv, Boot
  <2> QED BY <2>2, <2>3, <2>4, <2>5, <2>6, <2>7, <2>8
<1>2. ASSUME DaemonizeFails PROVE LcInv'
  <2>1. /\ at["main"] \in {"boot"} /\ at'["main"] \in {"exit"}
        /\ (\A h \in Handlers : at'[h] = at[h]) /\ at' \in AtType
    BY <1>2, <1>0, MainMoves DEF DaemonizeFails, Main, MainPc
  <2>2. StaticsInv'
    BY <1>2, <2>1, BuildLogger DEF StaticsInv, DaemonizeFails
  <2>3. LcTypeOK'
    <3>1. /\ running' \in BOOLEAN /\ pointer' \in BOOLEAN /\ epfd' \in BOOLEAN
          /\ epoll' \in BOOLEAN /\ broken' \in BOOLEAN
      BY <1>2, <2>1 DEF LcTypeOK, DaemonizeFails
    <3>2. statics' \in Seq({"logger", "pool"})
      BY <2>2 DEF StaticsInv
    <3> QED BY <1>2, <2>1, <3>1, <3>2 DEF LcTypeOK, AtType, DaemonizeFails
  <2>4. EpollInv'
    BY <1>2, <2>1 DEF EpollInv, DaemonizeFails
  <2>5. SocketInv'
    BY <1>2, <2>1 DEF SocketInv, DaemonizeFails
  <2>6. ConnsInv'
    BY <1>2, <2>1 DEF ConnsInv, LcTypeOK, DaemonizeFails
  <2>7. ServerInv'
    BY <1>2, <2>1 DEF ServerInv, DescriptorsReleased, EpollInv, SocketInv, ConnsInv, LcTypeOK, DaemonizeFails
  <2>8. HandlersInv'
    BY <1>2, <2>1 DEF HandlersInv, DaemonizeFails
  <2> QED BY <2>2, <2>3, <2>4, <2>5, <2>6, <2>7, <2>8
<1>3. ASSUME InitLogger PROVE LcInv'
  <2>1. /\ at["main"] \in {"init"} /\ at'["main"] \in {"server"}
        /\ (\A h \in Handlers : at'[h] = at[h]) /\ at' \in AtType
    BY <1>3, <1>0, MainMoves DEF InitLogger, Main, MainPc
  <2>2. StaticsInv'
    BY <1>3, <2>1, BuildLogger DEF StaticsInv, InitLogger
  <2>3. LcTypeOK'
    <3>1. /\ running' \in BOOLEAN /\ pointer' \in BOOLEAN /\ epfd' \in BOOLEAN
          /\ epoll' \in BOOLEAN /\ broken' \in BOOLEAN
      BY <1>3, <2>1 DEF LcTypeOK, InitLogger
    <3>2. statics' \in Seq({"logger", "pool"})
      BY <2>2 DEF StaticsInv
    <3> QED BY <1>3, <2>1, <3>1, <3>2 DEF LcTypeOK, AtType, InitLogger
  <2>4. EpollInv'
    BY <1>3, <2>1 DEF EpollInv, InitLogger
  <2>5. SocketInv'
    BY <1>3, <2>1 DEF SocketInv, InitLogger
  <2>6. ConnsInv'
    BY <1>3, <2>1 DEF ConnsInv, LcTypeOK, InitLogger
  <2>7. ServerInv'
    BY <1>3, <2>1 DEF ServerInv, DescriptorsReleased, EpollInv, SocketInv, ConnsInv, LcTypeOK, InitLogger
  <2>8. HandlersInv'
    BY <1>3, <2>1 DEF HandlersInv, InitLogger
  <2> QED BY <2>2, <2>3, <2>4, <2>5, <2>6, <2>7, <2>8
<1>4. ASSUME MakeServer PROVE LcInv'
  <2>1. /\ at["main"] \in {"server"} /\ at'["main"] \in {"sigint"}
        /\ (\A h \in Handlers : at'[h] = at[h]) /\ at' \in AtType
    BY <1>4, <1>0, MainMoves DEF MakeServer, Main, MainPc
  <2>2. StaticsInv'
    BY <1>4, <2>1 DEF StaticsInv, MakeServer
  <2>3. LcTypeOK'
    <3>1. /\ running' \in BOOLEAN /\ pointer' \in BOOLEAN /\ epfd' \in BOOLEAN
          /\ epoll' \in BOOLEAN /\ broken' \in BOOLEAN
      BY <1>4, <2>1 DEF LcTypeOK, MakeServer
    <3>2. statics' \in Seq({"logger", "pool"})
      BY <2>2 DEF StaticsInv
    <3> QED BY <1>4, <2>1, <3>1, <3>2 DEF LcTypeOK, AtType, MakeServer
  <2>4. EpollInv'
    BY <1>4, <2>1 DEF EpollInv, MakeServer
  <2>5. SocketInv'
    BY <1>4, <2>1 DEF SocketInv, MakeServer
  <2>6. ConnsInv'
    BY <1>4, <2>1 DEF ConnsInv, LcTypeOK, MakeServer
  <2>7. ServerInv'
    BY <1>4, <2>1 DEF ServerInv, DescriptorsReleased, EpollInv, SocketInv, ConnsInv, LcTypeOK, MakeServer
  <2>8. HandlersInv'
    BY <1>4, <2>1 DEF HandlersInv, MakeServer
  <2> QED BY <2>2, <2>3, <2>4, <2>5, <2>6, <2>7, <2>8
<1>5. ASSUME Register PROVE LcInv'
  <2>1. /\ at["main"] \in {"sigint", "sigterm"} /\ at'["main"] \in {"sigterm", "socket", "flag"}
        /\ (\A h \in Handlers : at'[h] = at[h]) /\ at' \in AtType
    BY <1>5, <1>0, MainMoves DEF Register, Main, MainPc
  <2>2. StaticsInv'
    BY <1>5, <2>1 DEF StaticsInv, Register
  <2>3. LcTypeOK'
    <3>1. /\ running' \in BOOLEAN /\ pointer' \in BOOLEAN /\ epfd' \in BOOLEAN
          /\ epoll' \in BOOLEAN /\ broken' \in BOOLEAN
      BY <1>5, <2>1 DEF LcTypeOK, Register
    <3>2. statics' \in Seq({"logger", "pool"})
      BY <2>2 DEF StaticsInv
    <3> QED BY <1>5, <2>1, <3>1, <3>2 DEF LcTypeOK, AtType, Register
  <2>4. EpollInv'
    BY <1>5, <2>1 DEF EpollInv, Register
  <2>5. SocketInv'
    BY <1>5, <2>1 DEF SocketInv, Register
  <2>6. ConnsInv'
    BY <1>5, <2>1 DEF ConnsInv, LcTypeOK, Register
  <2>7. ServerInv'
    BY <1>5, <2>1 DEF ServerInv, DescriptorsReleased, EpollInv, SocketInv, ConnsInv, LcTypeOK, Register
  <2>8. HandlersInv'
    BY <1>5, <2>1 DEF HandlersInv, Register
  <2> QED BY <2>2, <2>3, <2>4, <2>5, <2>6, <2>7, <2>8
<1>6. ASSUME NewSocket PROVE LcInv'
  <2>1. /\ at["main"] \in {"socket"} /\ at'["main"] \in {"assign"}
        /\ (\A h \in Handlers : at'[h] = at[h]) /\ at' \in AtType
    BY <1>6, <1>0, MainMoves DEF NewSocket, Main, MainPc
  <2>2. StaticsInv'
    BY <1>6, <2>1 DEF StaticsInv, NewSocket
  <2>3. LcTypeOK'
    <3>1. /\ running' \in BOOLEAN /\ pointer' \in BOOLEAN /\ epfd' \in BOOLEAN
          /\ epoll' \in BOOLEAN /\ broken' \in BOOLEAN
      BY <1>6, <2>1 DEF LcTypeOK, NewSocket
    <3>2. statics' \in Seq({"logger", "pool"})
      BY <2>2 DEF StaticsInv
    <3> QED BY <1>6, <2>1, <3>1, <3>2 DEF LcTypeOK, AtType, NewSocket
  <2>4. EpollInv'
    BY <1>6, <2>1 DEF EpollInv, NewSocket
  <2>5. SocketInv'
    BY <1>6, <2>1 DEF SocketInv, NewSocket
  <2>6. ConnsInv'
    BY <1>6, <2>1 DEF ConnsInv, LcTypeOK, NewSocket
  <2>7. ServerInv'
    BY <1>6, <2>1 DEF ServerInv, DescriptorsReleased, EpollInv, SocketInv, ConnsInv, LcTypeOK, NewSocket
  <2>8. HandlersInv'
    BY <1>6, <2>1 DEF HandlersInv, NewSocket
  <2> QED BY <2>2, <2>3, <2>4, <2>5, <2>6, <2>7, <2>8
<1>7. ASSUME Listen PROVE LcInv'
  <2>1. /\ at["main"] \in {"listen"} /\ at'["main"] \in {"epoll", "drop"}
        /\ (\A h \in Handlers : at'[h] = at[h]) /\ at' \in AtType
    BY <1>7, <1>0, MainMoves DEF Listen, Main, MainPc
  <2>2. StaticsInv'
    BY <1>7, <2>1 DEF StaticsInv, Listen
  <2>3. LcTypeOK'
    <3>1. /\ running' \in BOOLEAN /\ pointer' \in BOOLEAN /\ epfd' \in BOOLEAN
          /\ epoll' \in BOOLEAN /\ broken' \in BOOLEAN
      BY <1>7, <2>1 DEF LcTypeOK, Listen
    <3>2. statics' \in Seq({"logger", "pool"})
      BY <2>2 DEF StaticsInv
    <3> QED BY <1>7, <2>1, <3>1, <3>2 DEF LcTypeOK, AtType, Listen
  <2>4. EpollInv'
    BY <1>7, <2>1 DEF EpollInv, Listen
  <2>5. SocketInv'
    BY <1>7, <2>1 DEF SocketInv, Listen
  <2>6. ConnsInv'
    BY <1>7, <2>1 DEF ConnsInv, LcTypeOK, Listen
  <2>7. ServerInv'
    BY <1>7, <2>1 DEF ServerInv, DescriptorsReleased, EpollInv, SocketInv, ConnsInv, LcTypeOK, Listen
  <2>8. HandlersInv'
    BY <1>7, <2>1 DEF HandlersInv, Listen
  <2> QED BY <2>2, <2>3, <2>4, <2>5, <2>6, <2>7, <2>8
<1>8. ASSUME EpollCreate PROVE LcInv'
  <2>1. /\ at["main"] \in {"epoll"} /\ at'["main"] \in {"number", "drop"}
        /\ (\A h \in Handlers : at'[h] = at[h]) /\ at' \in AtType
        /\ at'["main"] = "drop" => epoll' = epoll
    BY <1>8, <1>0, MainMoves DEF EpollCreate, Main, MainPc
  <2>2. StaticsInv'
    BY <1>8, <2>1 DEF StaticsInv, EpollCreate
  <2>3. LcTypeOK'
    <3>1. /\ running' \in BOOLEAN /\ pointer' \in BOOLEAN /\ epfd' \in BOOLEAN
          /\ epoll' \in BOOLEAN /\ broken' \in BOOLEAN
      BY <1>8, <2>1 DEF LcTypeOK, EpollCreate
    <3>2. statics' \in Seq({"logger", "pool"})
      BY <2>2 DEF StaticsInv
    <3> QED BY <1>8, <2>1, <3>1, <3>2 DEF LcTypeOK, AtType, EpollCreate
  <2>4. EpollInv'
    BY <1>8, <2>1 DEF EpollInv, EpollCreate
  <2>5. SocketInv'
    BY <1>8, <2>1 DEF SocketInv, EpollCreate
  <2>6. ConnsInv'
    BY <1>8, <2>1 DEF ConnsInv, LcTypeOK, EpollCreate
  <2>7. ServerInv'
    BY <1>8, <2>1 DEF ServerInv, DescriptorsReleased, EpollInv, SocketInv, ConnsInv, LcTypeOK, EpollCreate
  <2>8. HandlersInv'
    BY <1>8, <2>1 DEF HandlersInv, EpollCreate
  <2> QED BY <2>2, <2>3, <2>4, <2>5, <2>6, <2>7, <2>8
<1>9. ASSUME EpollAdd PROVE LcInv'
  <2>1. /\ at["main"] \in {"add"} /\ at'["main"] \in {"run", "drop"}
        /\ (\A h \in Handlers : at'[h] = at[h]) /\ at' \in AtType
        /\ at'["main"] = "drop" => ~epoll'
        /\ at'["main"] = "run" => epoll' = epoll
    BY <1>9, <1>0, MainMoves DEF EpollAdd, Main, MainPc
  <2>2. StaticsInv'
    BY <1>9, <2>1 DEF StaticsInv, EpollAdd
  <2>3. LcTypeOK'
    <3>1. /\ running' \in BOOLEAN /\ pointer' \in BOOLEAN /\ epfd' \in BOOLEAN
          /\ epoll' \in BOOLEAN /\ broken' \in BOOLEAN
      BY <1>9, <2>1 DEF LcTypeOK, EpollAdd
    <3>2. statics' \in Seq({"logger", "pool"})
      BY <2>2 DEF StaticsInv
    <3> QED BY <1>9, <2>1, <3>1, <3>2 DEF LcTypeOK, AtType, EpollAdd
  <2>4. EpollInv'
    BY <1>9, <2>1 DEF EpollInv, EpollAdd
  <2>5. SocketInv'
    BY <1>9, <2>1 DEF SocketInv, EpollAdd
  <2>6. ConnsInv'
    BY <1>9, <2>1 DEF ConnsInv, LcTypeOK, EpollAdd
  <2>7. ServerInv'
    BY <1>9, <2>1 DEF ServerInv, DescriptorsReleased, EpollInv, SocketInv, ConnsInv, LcTypeOK, EpollAdd
  <2>8. HandlersInv'
    BY <1>9, <2>1 DEF HandlersInv, EpollAdd
  <2> QED BY <2>2, <2>3, <2>4, <2>5, <2>6, <2>7, <2>8
<1>10. ASSUME Drop PROVE LcInv'
  <2>1. /\ at["main"] \in {"drop"} /\ at'["main"] \in {"dropped"}
        /\ (\A h \in Handlers : at'[h] = at[h]) /\ at' \in AtType
    BY <1>10, <1>0, MainMoves DEF Drop, Main, MainPc
  <2>2. StaticsInv'
    BY <1>10, <2>1 DEF StaticsInv, Drop
  <2>3. LcTypeOK'
    <3>1. /\ running' \in BOOLEAN /\ pointer' \in BOOLEAN /\ epfd' \in BOOLEAN
          /\ epoll' \in BOOLEAN /\ broken' \in BOOLEAN
      BY <1>10, <2>1 DEF LcTypeOK, Drop
    <3>2. statics' \in Seq({"logger", "pool"})
      BY <2>2 DEF StaticsInv
    <3> QED BY <1>10, <2>1, <3>1, <3>2 DEF LcTypeOK, AtType, Drop
  <2>4. EpollInv'
    BY <1>10, <2>1 DEF EpollInv, Drop
  <2>5. SocketInv'
    BY <1>10, <2>1 DEF SocketInv, Drop
  <2>6. ConnsInv'
    BY <1>10, <2>1 DEF ConnsInv, LcTypeOK, Drop
  <2>7. ServerInv'
    BY <1>10, <2>1 DEF ServerInv, DescriptorsReleased, EpollInv, SocketInv, ConnsInv, LcTypeOK, Drop
  <2>8. HandlersInv'
    BY <1>10, <2>1 DEF HandlersInv, Drop
  <2> QED BY <2>2, <2>3, <2>4, <2>5, <2>6, <2>7, <2>8
<1>11. ASSUME Dropped PROVE LcInv'
  <2>1. /\ at["main"] \in {"dropped"} /\ at'["main"] \in {"flag"}
        /\ (\A h \in Handlers : at'[h] = at[h]) /\ at' \in AtType
    BY <1>11, <1>0, MainMoves DEF Dropped, Main, MainPc
  <2>2. StaticsInv'
    BY <1>11, <2>1 DEF StaticsInv, Dropped
  <2>3. LcTypeOK'
    <3>1. /\ running' \in BOOLEAN /\ pointer' \in BOOLEAN /\ epfd' \in BOOLEAN
          /\ epoll' \in BOOLEAN /\ broken' \in BOOLEAN
      BY <1>11, <2>1 DEF LcTypeOK, Dropped
    <3>2. statics' \in Seq({"logger", "pool"})
      BY <2>2 DEF StaticsInv
    <3> QED BY <1>11, <2>1, <3>1, <3>2 DEF LcTypeOK, AtType, Dropped
  <2>4. EpollInv'
    BY <1>11, <2>1 DEF EpollInv, Dropped
  <2>5. SocketInv'
    BY <1>11, <2>1 DEF SocketInv, Dropped
  <2>6. ConnsInv'
    BY <1>11, <2>1 DEF ConnsInv, LcTypeOK, Dropped
  <2>7. ServerInv'
    BY <1>11, <2>1 DEF ServerInv, DescriptorsReleased, EpollInv, SocketInv, ConnsInv, LcTypeOK, Dropped
  <2>8. HandlersInv'
    BY <1>11, <2>1 DEF HandlersInv, Dropped
  <2> QED BY <2>2, <2>3, <2>4, <2>5, <2>6, <2>7, <2>8
<1>12. ASSUME AssignSocket PROVE LcInv'
  <2>1. /\ at["main"] \in {"assign"} /\ at'["main"] \in {"listen"}
        /\ (\A h \in Handlers : at'[h] = at[h]) /\ at' \in AtType
    BY <1>12, <1>0, MainMoves DEF AssignSocket, Main, MainPc
  <2>2. StaticsInv'
    BY <1>12, <2>1 DEF StaticsInv, AssignSocket
  <2>3. LcTypeOK'
    <3>1. /\ running' \in BOOLEAN /\ pointer' \in BOOLEAN /\ epfd' \in BOOLEAN
          /\ epoll' \in BOOLEAN /\ broken' \in BOOLEAN
      BY <1>12, <2>1 DEF LcTypeOK, AssignSocket
    <3>2. statics' \in Seq({"logger", "pool"})
      BY <2>2 DEF StaticsInv
    <3> QED BY <1>12, <2>1, <3>1, <3>2 DEF LcTypeOK, AtType, AssignSocket
  <2>4. EpollInv'
    BY <1>12, <2>1 DEF EpollInv, AssignSocket
  <2>5. SocketInv'
    BY <1>12, <2>1 DEF SocketInv, AssignSocket
  <2>6. ConnsInv'
    BY <1>12, <2>1 DEF ConnsInv, LcTypeOK, AssignSocket
  <2>7. ServerInv'
    BY <1>12, <2>1 DEF ServerInv, DescriptorsReleased, EpollInv, SocketInv, ConnsInv, LcTypeOK, AssignSocket
  <2>8. HandlersInv'
    BY <1>12, <2>1 DEF HandlersInv, AssignSocket
  <2> QED BY <2>2, <2>3, <2>4, <2>5, <2>6, <2>7, <2>8
<1>13. ASSUME AssignEpoll PROVE LcInv'
  <2>1. /\ at["main"] \in {"number"} /\ at'["main"] \in {"add"}
        /\ (\A h \in Handlers : at'[h] = at[h]) /\ at' \in AtType
    BY <1>13, <1>0, MainMoves DEF AssignEpoll, Main, MainPc
  <2>2. StaticsInv'
    BY <1>13, <2>1 DEF StaticsInv, AssignEpoll
  <2>3. LcTypeOK'
    <3>1. /\ running' \in BOOLEAN /\ pointer' \in BOOLEAN /\ epfd' \in BOOLEAN
          /\ epoll' \in BOOLEAN /\ broken' \in BOOLEAN
      BY <1>13, <2>1 DEF LcTypeOK, AssignEpoll
    <3>2. statics' \in Seq({"logger", "pool"})
      BY <2>2 DEF StaticsInv
    <3> QED BY <1>13, <2>1, <3>1, <3>2 DEF LcTypeOK, AtType, AssignEpoll
  <2>4. EpollInv'
    BY <1>13, <2>1 DEF EpollInv, AssignEpoll
  <2>5. SocketInv'
    BY <1>13, <2>1 DEF SocketInv, AssignEpoll
  <2>6. ConnsInv'
    BY <1>13, <2>1 DEF ConnsInv, LcTypeOK, AssignEpoll
  <2>7. ServerInv'
    BY <1>13, <2>1 DEF ServerInv, DescriptorsReleased, EpollInv, SocketInv, ConnsInv, LcTypeOK, AssignEpoll
  <2>8. HandlersInv'
    BY <1>13, <2>1 DEF HandlersInv, AssignEpoll
  <2> QED BY <2>2, <2>3, <2>4, <2>5, <2>6, <2>7, <2>8
<1> QED BY <1>1, <1>2, <1>3, <1>4, <1>5, <1>6, <1>7, <1>8, <1>9, <1>10, <1>11, <1>12, <1>13

(* The loop and cleanup().                                                 *)
LEMMA LoopingInv ==
  ASSUME LcInv,
         SetRunning \/ GetPool \/ Loop \/ Timeout \/ Accept
           \/ Dispatch \/ CloseEpoll \/ ClearEpoll \/ DeleteSocket
           \/ ClearSocket \/ CloseConns
  PROVE  LcInv'
<1> USE LifecycleAssumption, StaticsTypes
<1> USE DEF LcInv, BeforeEpoll, AfterEpoll, StopPc, HandlerPc, net, load, life, signal
<1>0. at \in AtType
  BY DEF LcTypeOK, AtType
<1>1. ASSUME SetRunning PROVE LcInv'
  <2>1. /\ at["main"] \in {"run"} /\ at'["main"] \in {"pool"}
        /\ (\A h \in Handlers : at'[h] = at[h]) /\ at' \in AtType
    BY <1>1, <1>0, MainMoves DEF SetRunning, Main, MainPc
  <2>2. StaticsInv'
    BY <1>1, <2>1 DEF StaticsInv, SetRunning
  <2>3. LcTypeOK'
    <3>1. /\ running' \in BOOLEAN /\ pointer' \in BOOLEAN /\ epfd' \in BOOLEAN
          /\ epoll' \in BOOLEAN /\ broken' \in BOOLEAN
      BY <1>1, <2>1 DEF LcTypeOK, SetRunning
    <3>2. statics' \in Seq({"logger", "pool"})
      BY <2>2 DEF StaticsInv
    <3> QED BY <1>1, <2>1, <3>1, <3>2 DEF LcTypeOK, AtType, SetRunning
  <2>4. EpollInv'
    BY <1>1, <2>1 DEF EpollInv, SetRunning
  <2>5. SocketInv'
    BY <1>1, <2>1 DEF SocketInv, SetRunning
  <2>6. ConnsInv'
    BY <1>1, <2>1 DEF ConnsInv, LcTypeOK, SetRunning
  <2>7. ServerInv'
    BY <1>1, <2>1 DEF ServerInv, DescriptorsReleased, EpollInv, SocketInv, ConnsInv, LcTypeOK, SetRunning
  <2>8. HandlersInv'
    BY <1>1, <2>1 DEF HandlersInv, SetRunning
  <2> QED BY <2>2, <2>3, <2>4, <2>5, <2>6, <2>7, <2>8
<1>2. ASSUME GetPool PROVE LcInv'
  <2>1. /\ at["main"] \in {"pool"} /\ at'["main"] \in {"loop"}
        /\ (\A h \in Handlers : at'[h] = at[h]) /\ at' \in AtType
    BY <1>2, <1>0, MainMoves DEF GetPool, Main, MainPc
  <2>2. StaticsInv'
    BY <1>2, <2>1, BuildPool DEF StaticsInv, GetPool
  <2>3. LcTypeOK'
    <3>1. /\ running' \in BOOLEAN /\ pointer' \in BOOLEAN /\ epfd' \in BOOLEAN
          /\ epoll' \in BOOLEAN /\ broken' \in BOOLEAN
      BY <1>2, <2>1 DEF LcTypeOK, GetPool
    <3>2. statics' \in Seq({"logger", "pool"})
      BY <2>2 DEF StaticsInv
    <3> QED BY <1>2, <2>1, <3>1, <3>2 DEF LcTypeOK, AtType, GetPool
  <2>4. EpollInv'
    BY <1>2, <2>1 DEF EpollInv, GetPool
  <2>5. SocketInv'
    BY <1>2, <2>1 DEF SocketInv, GetPool
  <2>6. ConnsInv'
    BY <1>2, <2>1 DEF ConnsInv, LcTypeOK, GetPool
  <2>7. ServerInv'
    BY <1>2, <2>1 DEF ServerInv, DescriptorsReleased, EpollInv, SocketInv, ConnsInv, LcTypeOK, GetPool
  <2>8. HandlersInv'
    BY <1>2, <2>1 DEF HandlersInv, GetPool
  <2> QED BY <2>2, <2>3, <2>4, <2>5, <2>6, <2>7, <2>8
<1>3. ASSUME Loop PROVE LcInv'
  <2>1. /\ at["main"] \in {"loop"} /\ at'["main"] \in {"wait", "forever", "closeEpoll"}
        /\ (\A h \in Handlers : at'[h] = at[h]) /\ at' \in AtType
    BY <1>3, <1>0, MainMoves DEF Loop, Main, MainPc
  <2>2. StaticsInv'
    BY <1>3, <2>1 DEF StaticsInv, Loop
  <2>3. LcTypeOK'
    <3>1. /\ running' \in BOOLEAN /\ pointer' \in BOOLEAN /\ epfd' \in BOOLEAN
          /\ epoll' \in BOOLEAN /\ broken' \in BOOLEAN
      BY <1>3, <2>1 DEF LcTypeOK, Loop
    <3>2. statics' \in Seq({"logger", "pool"})
      BY <2>2 DEF StaticsInv
    <3> QED BY <1>3, <2>1, <3>1, <3>2 DEF LcTypeOK, AtType, Loop
  <2>4. EpollInv'
    BY <1>3, <2>1 DEF EpollInv, Loop
  <2>5. SocketInv'
    BY <1>3, <2>1 DEF SocketInv, Loop
  <2>6. ConnsInv'
    BY <1>3, <2>1 DEF ConnsInv, LcTypeOK, Loop
  <2>7. ServerInv'
    BY <1>3, <2>1 DEF ServerInv, DescriptorsReleased, EpollInv, SocketInv, ConnsInv, LcTypeOK, Loop
  <2>8. HandlersInv'
    BY <1>3, <2>1 DEF HandlersInv, Loop
  <2> QED BY <2>2, <2>3, <2>4, <2>5, <2>6, <2>7, <2>8
<1>4. ASSUME Timeout PROVE LcInv'
  <2>1. /\ at["main"] \in {"wait"} /\ at'["main"] \in {"loop"}
        /\ (\A h \in Handlers : at'[h] = at[h]) /\ at' \in AtType
    BY <1>4, <1>0, MainMoves DEF Timeout, Main, MainPc
  <2>2. StaticsInv'
    BY <1>4, <2>1 DEF StaticsInv, Timeout, Fewer
  <2>3. LcTypeOK'
    BY <1>4, <2>1, <2>2 DEF LcTypeOK, AtType, StaticsInv, Timeout, Fewer
  <2>4. EpollInv'
    BY <1>4, <2>1 DEF EpollInv, Timeout, Fewer
  <2>5. SocketInv'
    BY <1>4, <2>1 DEF SocketInv, Timeout, Fewer
  <2>6. ConnsInv'
    BY <1>4, <2>1 DEF ConnsInv, LcTypeOK, Timeout, Fewer
  <2>7. ServerInv'
    BY <1>4, <2>1 DEF ServerInv, DescriptorsReleased, EpollInv, SocketInv, ConnsInv, LcTypeOK, Timeout, Fewer
  <2>8. HandlersInv'
    BY <1>4, <2>1 DEF HandlersInv, Timeout
  <2> QED BY <2>2, <2>3, <2>4, <2>5, <2>6, <2>7, <2>8
<1>5. ASSUME Accept PROVE LcInv'
  <2>1. /\ at["main"] \in {"wait", "forever"} /\ at'["main"] \in {"loop"}
        /\ (\A h \in Handlers : at'[h] = at[h]) /\ at' \in AtType
    BY <1>5, <1>0, MainMoves DEF Accept, Main, MainPc
  <2>2. StaticsInv'
    BY <1>5, <2>1 DEF StaticsInv, Accept
  <2>3. LcTypeOK'
    <3>1. /\ running' \in BOOLEAN /\ pointer' \in BOOLEAN /\ epfd' \in BOOLEAN
          /\ epoll' \in BOOLEAN /\ broken' \in BOOLEAN
      BY <1>5, <2>1 DEF LcTypeOK, Accept
    <3>2. statics' \in Seq({"logger", "pool"})
      BY <2>2 DEF StaticsInv
    <3> QED BY <1>5, <2>1, <3>1, <3>2 DEF LcTypeOK, AtType, Accept
  <2>4. EpollInv'
    BY <1>5, <2>1 DEF EpollInv, Accept
  <2>5. SocketInv'
    BY <1>5, <2>1 DEF SocketInv, Accept
  <2>6. ConnsInv'
    BY <1>5, <2>1 DEF ConnsInv, LcTypeOK, Accept
  <2>7. ServerInv'
    BY <1>5, <2>1 DEF ServerInv, DescriptorsReleased, EpollInv, SocketInv, ConnsInv, LcTypeOK, Accept
  <2>8. HandlersInv'
    BY <1>5, <2>1 DEF HandlersInv, Accept
  <2> QED BY <2>2, <2>3, <2>4, <2>5, <2>6, <2>7, <2>8
<1>6. ASSUME Dispatch PROVE LcInv'
  <2>1. /\ at["main"] \in {"wait", "forever"} /\ at'["main"] \in {"loop"}
        /\ (\A h \in Handlers : at'[h] = at[h]) /\ at' \in AtType
    BY <1>6, <1>0, MainMoves DEF Dispatch, Main, MainPc
  <2>2. StaticsInv'
    BY <1>6, <2>1 DEF StaticsInv, Dispatch
  <2>3. LcTypeOK'
    <3>1. /\ running' \in BOOLEAN /\ pointer' \in BOOLEAN /\ epfd' \in BOOLEAN
          /\ epoll' \in BOOLEAN /\ broken' \in BOOLEAN
      BY <1>6, <2>1 DEF LcTypeOK, Dispatch
    <3>2. statics' \in Seq({"logger", "pool"})
      BY <2>2 DEF StaticsInv
    <3> QED BY <1>6, <2>1, <3>1, <3>2 DEF LcTypeOK, AtType, Dispatch
  <2>4. EpollInv'
    BY <1>6, <2>1 DEF EpollInv, Dispatch
  <2>5. SocketInv'
    BY <1>6, <2>1 DEF SocketInv, Dispatch
  <2>6. ConnsInv'
    BY <1>6, <2>1 DEF ConnsInv, LcTypeOK, Dispatch
  <2>7. ServerInv'
    BY <1>6, <2>1 DEF ServerInv, DescriptorsReleased, EpollInv, SocketInv, ConnsInv, LcTypeOK, Dispatch
  <2>8. HandlersInv'
    BY <1>6, <2>1 DEF HandlersInv, Dispatch
  <2> QED BY <2>2, <2>3, <2>4, <2>5, <2>6, <2>7, <2>8
<1>7. ASSUME CloseEpoll PROVE LcInv'
  <2>1. /\ at["main"] \in {"closeEpoll"} /\ at'["main"] \in {"clearEpoll"}
        /\ (\A h \in Handlers : at'[h] = at[h]) /\ at' \in AtType
    BY <1>7, <1>0, MainMoves DEF CloseEpoll, Main, MainPc
  <2>2. StaticsInv'
    BY <1>7, <2>1 DEF StaticsInv, CloseEpoll
  <2>3. LcTypeOK'
    <3>1. /\ running' \in BOOLEAN /\ pointer' \in BOOLEAN /\ epfd' \in BOOLEAN
          /\ epoll' \in BOOLEAN /\ broken' \in BOOLEAN
      BY <1>7, <2>1 DEF LcTypeOK, CloseEpoll
    <3>2. statics' \in Seq({"logger", "pool"})
      BY <2>2 DEF StaticsInv
    <3> QED BY <1>7, <2>1, <3>1, <3>2 DEF LcTypeOK, AtType, CloseEpoll
  <2>4. EpollInv'
    BY <1>7, <2>1 DEF EpollInv, CloseEpoll
  <2>5. SocketInv'
    BY <1>7, <2>1 DEF SocketInv, CloseEpoll
  <2>6. ConnsInv'
    BY <1>7, <2>1 DEF ConnsInv, LcTypeOK, CloseEpoll
  <2>7. ServerInv'
    BY <1>7, <2>1 DEF ServerInv, DescriptorsReleased, EpollInv, SocketInv, ConnsInv, LcTypeOK, CloseEpoll
  <2>8. HandlersInv'
    BY <1>7, <2>1 DEF HandlersInv, CloseEpoll
  <2> QED BY <2>2, <2>3, <2>4, <2>5, <2>6, <2>7, <2>8
<1>8. ASSUME ClearEpoll PROVE LcInv'
  <2>1. /\ at["main"] \in {"clearEpoll"} /\ at'["main"] \in {"deleteSocket"}
        /\ (\A h \in Handlers : at'[h] = at[h]) /\ at' \in AtType
    BY <1>8, <1>0, MainMoves DEF ClearEpoll, Main, MainPc
  <2>2. StaticsInv'
    BY <1>8, <2>1 DEF StaticsInv, ClearEpoll
  <2>3. LcTypeOK'
    <3>1. /\ running' \in BOOLEAN /\ pointer' \in BOOLEAN /\ epfd' \in BOOLEAN
          /\ epoll' \in BOOLEAN /\ broken' \in BOOLEAN
      BY <1>8, <2>1 DEF LcTypeOK, ClearEpoll
    <3>2. statics' \in Seq({"logger", "pool"})
      BY <2>2 DEF StaticsInv
    <3> QED BY <1>8, <2>1, <3>1, <3>2 DEF LcTypeOK, AtType, ClearEpoll
  <2>4. EpollInv'
    BY <1>8, <2>1 DEF EpollInv, ClearEpoll
  <2>5. SocketInv'
    BY <1>8, <2>1 DEF SocketInv, ClearEpoll
  <2>6. ConnsInv'
    BY <1>8, <2>1 DEF ConnsInv, LcTypeOK, ClearEpoll
  <2>7. ServerInv'
    BY <1>8, <2>1 DEF ServerInv, DescriptorsReleased, EpollInv, SocketInv, ConnsInv, LcTypeOK, ClearEpoll
  <2>8. HandlersInv'
    BY <1>8, <2>1 DEF HandlersInv, ClearEpoll
  <2> QED BY <2>2, <2>3, <2>4, <2>5, <2>6, <2>7, <2>8
<1>9. ASSUME DeleteSocket PROVE LcInv'
  <2>1. /\ at["main"] \in {"deleteSocket"} /\ at'["main"] \in {"clearSocket"}
        /\ (\A h \in Handlers : at'[h] = at[h]) /\ at' \in AtType
    BY <1>9, <1>0, MainMoves DEF DeleteSocket, Main, MainPc
  <2>2. StaticsInv'
    BY <1>9, <2>1 DEF StaticsInv, DeleteSocket
  <2>3. LcTypeOK'
    <3>1. /\ running' \in BOOLEAN /\ pointer' \in BOOLEAN /\ epfd' \in BOOLEAN
          /\ epoll' \in BOOLEAN /\ broken' \in BOOLEAN
      BY <1>9, <2>1 DEF LcTypeOK, DeleteSocket
    <3>2. statics' \in Seq({"logger", "pool"})
      BY <2>2 DEF StaticsInv
    <3> QED BY <1>9, <2>1, <3>1, <3>2 DEF LcTypeOK, AtType, DeleteSocket
  <2>4. EpollInv'
    BY <1>9, <2>1 DEF EpollInv, DeleteSocket
  <2>5. SocketInv'
    BY <1>9, <2>1 DEF SocketInv, DeleteSocket
  <2>6. ConnsInv'
    BY <1>9, <2>1 DEF ConnsInv, LcTypeOK, DeleteSocket
  <2>7. ServerInv'
    BY <1>9, <2>1 DEF ServerInv, DescriptorsReleased, EpollInv, SocketInv, ConnsInv, LcTypeOK, DeleteSocket
  <2>8. HandlersInv'
    BY <1>9, <2>1 DEF HandlersInv, DeleteSocket
  <2> QED BY <2>2, <2>3, <2>4, <2>5, <2>6, <2>7, <2>8
<1>10. ASSUME ClearSocket PROVE LcInv'
  <2>1. /\ at["main"] \in {"clearSocket"} /\ at'["main"] \in {"closeConns"}
        /\ (\A h \in Handlers : at'[h] = at[h]) /\ at' \in AtType
    BY <1>10, <1>0, MainMoves DEF ClearSocket, Main, MainPc
  <2>2. StaticsInv'
    BY <1>10, <2>1 DEF StaticsInv, ClearSocket
  <2>3. LcTypeOK'
    <3>1. /\ running' \in BOOLEAN /\ pointer' \in BOOLEAN /\ epfd' \in BOOLEAN
          /\ epoll' \in BOOLEAN /\ broken' \in BOOLEAN
      BY <1>10, <2>1 DEF LcTypeOK, ClearSocket
    <3>2. statics' \in Seq({"logger", "pool"})
      BY <2>2 DEF StaticsInv
    <3> QED BY <1>10, <2>1, <3>1, <3>2 DEF LcTypeOK, AtType, ClearSocket
  <2>4. EpollInv'
    BY <1>10, <2>1 DEF EpollInv, ClearSocket
  <2>5. SocketInv'
    BY <1>10, <2>1 DEF SocketInv, ClearSocket
  <2>6. ConnsInv'
    BY <1>10, <2>1 DEF ConnsInv, LcTypeOK, ClearSocket
  <2>7. ServerInv'
    BY <1>10, <2>1 DEF ServerInv, DescriptorsReleased, EpollInv, SocketInv, ConnsInv, LcTypeOK, ClearSocket
  <2>8. HandlersInv'
    BY <1>10, <2>1 DEF HandlersInv, ClearSocket
  <2> QED BY <2>2, <2>3, <2>4, <2>5, <2>6, <2>7, <2>8
<1>11. ASSUME CloseConns PROVE LcInv'
  <2>1. /\ at["main"] \in {"closeConns"} /\ at'["main"] \in {"flag"}
        /\ (\A h \in Handlers : at'[h] = at[h]) /\ at' \in AtType
    BY <1>11, <1>0, MainMoves DEF CloseConns, Main, MainPc
  <2>2. StaticsInv'
    BY <1>11, <2>1 DEF StaticsInv, CloseConns
  <2>3. LcTypeOK'
    <3>1. /\ running' \in BOOLEAN /\ pointer' \in BOOLEAN /\ epfd' \in BOOLEAN
          /\ epoll' \in BOOLEAN /\ broken' \in BOOLEAN
      BY <1>11, <2>1 DEF LcTypeOK, CloseConns
    <3>2. statics' \in Seq({"logger", "pool"})
      BY <2>2 DEF StaticsInv
    <3> QED BY <1>11, <2>1, <3>1, <3>2 DEF LcTypeOK, AtType, CloseConns
  <2>4. EpollInv'
    BY <1>11, <2>1 DEF EpollInv, CloseConns
  <2>5. SocketInv'
    BY <1>11, <2>1 DEF SocketInv, CloseConns
  <2>6. ConnsInv'
    BY <1>11, <2>1 DEF ConnsInv, LcTypeOK, CloseConns
  <2>7. ServerInv'
    BY <1>11, <2>1 DEF ServerInv, DescriptorsReleased, EpollInv, SocketInv, ConnsInv, LcTypeOK, CloseConns
  <2>8. HandlersInv'
    BY <1>11, <2>1 DEF HandlersInv, CloseConns
  <2> QED BY <2>2, <2>3, <2>4, <2>5, <2>6, <2>7, <2>8
<1> QED BY <1>1, <1>2, <1>3, <1>4, <1>5, <1>6, <1>7, <1>8, <1>9, <1>10, <1>11

(* stop() in ~SimpleWebServer, and what is after main.                     *)
LEMMA EndingInv ==
  ASSUME LcInv,
         StopFlag("main") \/ StopTestSocket("main")
           \/ StopSocket("main") \/ StopTestEpoll("main")
           \/ StopEpoll("main") \/ StopNumber("main") \/ ServerDies
           \/ DestroyStatic \/ Gone
  PROVE  LcInv'
<1> USE LifecycleAssumption, StaticsTypes
<1> USE DEF LcInv, BeforeEpoll, AfterEpoll, StopPc, HandlerPc, net, load, life, signal
<1>0. at \in AtType
  BY DEF LcTypeOK, AtType
<1>1. ASSUME StopFlag("main") PROVE LcInv'
  <2>1. /\ at["main"] \in {"flag"} /\ at'["main"] \in {"testSocket"}
        /\ (\A h \in Handlers : at'[h] = at[h]) /\ at' \in AtType
    BY <1>1, <1>0, MainMoves DEF StopFlag, Main, MainPc
  <2>2. StaticsInv'
    BY <1>1, <2>1 DEF StaticsInv, StopFlag
  <2>3. LcTypeOK'
    <3>1. /\ running' \in BOOLEAN /\ pointer' \in BOOLEAN /\ epfd' \in BOOLEAN
          /\ epoll' \in BOOLEAN /\ broken' \in BOOLEAN
      BY <1>1, <2>1 DEF LcTypeOK, StopFlag
    <3>2. statics' \in Seq({"logger", "pool"})
      BY <2>2 DEF StaticsInv
    <3> QED BY <1>1, <2>1, <3>1, <3>2 DEF LcTypeOK, AtType, StopFlag
  <2>4. EpollInv'
    BY <1>1, <2>1 DEF EpollInv, StopFlag
  <2>5. SocketInv'
    BY <1>1, <2>1 DEF SocketInv, StopFlag
  <2>6. ConnsInv'
    BY <1>1, <2>1 DEF ConnsInv, LcTypeOK, StopFlag
  <2>7. ServerInv'
    BY <1>1, <2>1 DEF ServerInv, DescriptorsReleased, EpollInv, SocketInv, ConnsInv, LcTypeOK, StopFlag
  <2>8. HandlersInv'
    BY <1>1, <2>1 DEF HandlersInv, StopFlag
  <2> QED BY <2>2, <2>3, <2>4, <2>5, <2>6, <2>7, <2>8
<1>2. ASSUME StopTestSocket("main") PROVE LcInv'
  <2>1. /\ at["main"] \in {"testSocket"} /\ at'["main"] \in {"stopSocket", "testEpoll"}
        /\ (\A h \in Handlers : at'[h] = at[h]) /\ at' \in AtType
    BY <1>2, <1>0, MainMoves DEF StopTestSocket, Main, MainPc
  <2>2. StaticsInv'
    BY <1>2, <2>1 DEF StaticsInv, StopTestSocket
  <2>3. LcTypeOK'
    <3>1. /\ running' \in BOOLEAN /\ pointer' \in BOOLEAN /\ epfd' \in BOOLEAN
          /\ epoll' \in BOOLEAN /\ broken' \in BOOLEAN
      BY <1>2, <2>1 DEF LcTypeOK, StopTestSocket
    <3>2. statics' \in Seq({"logger", "pool"})
      BY <2>2 DEF StaticsInv
    <3> QED BY <1>2, <2>1, <3>1, <3>2 DEF LcTypeOK, AtType, StopTestSocket
  <2>4. EpollInv'
    BY <1>2, <2>1 DEF EpollInv, StopTestSocket
  <2>5. SocketInv'
    BY <1>2, <2>1 DEF SocketInv, StopTestSocket
  <2>6. ConnsInv'
    BY <1>2, <2>1 DEF ConnsInv, LcTypeOK, StopTestSocket
  <2>7. ServerInv'
    BY <1>2, <2>1 DEF ServerInv, DescriptorsReleased, EpollInv, SocketInv, ConnsInv, LcTypeOK, StopTestSocket
  <2>8. HandlersInv'
    BY <1>2, <2>1 DEF HandlersInv, StopTestSocket
  <2> QED BY <2>2, <2>3, <2>4, <2>5, <2>6, <2>7, <2>8
<1>3. ASSUME StopSocket("main") PROVE LcInv'
  <2>1. /\ at["main"] \in {"stopSocket"} /\ at'["main"] \in {"testEpoll"}
        /\ (\A h \in Handlers : at'[h] = at[h]) /\ at' \in AtType
    BY <1>3, <1>0, MainMoves DEF StopSocket, Main, MainPc
  <2>2. StaticsInv'
    BY <1>3, <2>1 DEF StaticsInv, StopSocket
  <2>3. LcTypeOK'
    <3>1. /\ running' \in BOOLEAN /\ pointer' \in BOOLEAN /\ epfd' \in BOOLEAN
          /\ epoll' \in BOOLEAN /\ broken' \in BOOLEAN
      BY <1>3, <2>1 DEF LcTypeOK, StopSocket
    <3>2. statics' \in Seq({"logger", "pool"})
      BY <2>2 DEF StaticsInv
    <3> QED BY <1>3, <2>1, <3>1, <3>2 DEF LcTypeOK, AtType, StopSocket
  <2>4. EpollInv'
    BY <1>3, <2>1 DEF EpollInv, StopSocket
  <2>5. SocketInv'
    BY <1>3, <2>1 DEF SocketInv, StopSocket
  <2>6. ConnsInv'
    BY <1>3, <2>1 DEF ConnsInv, LcTypeOK, StopSocket
  <2>7. ServerInv'
    BY <1>3, <2>1 DEF ServerInv, DescriptorsReleased, EpollInv, SocketInv, ConnsInv, LcTypeOK, StopSocket
  <2>8. HandlersInv'
    BY <1>3, <2>1 DEF HandlersInv, StopSocket
  <2> QED BY <2>2, <2>3, <2>4, <2>5, <2>6, <2>7, <2>8
<1>4. ASSUME StopTestEpoll("main") PROVE LcInv'
  <2>1. /\ at["main"] \in {"testEpoll"} /\ at'["main"] \in {"stopEpoll", "stopped"}
        /\ (\A h \in Handlers : at'[h] = at[h]) /\ at' \in AtType
    BY <1>4, <1>0, MainMoves DEF StopTestEpoll, Main, MainPc
  <2>2. StaticsInv'
    BY <1>4, <2>1 DEF StaticsInv, StopTestEpoll
  <2>3. LcTypeOK'
    <3>1. /\ running' \in BOOLEAN /\ pointer' \in BOOLEAN /\ epfd' \in BOOLEAN
          /\ epoll' \in BOOLEAN /\ broken' \in BOOLEAN
      BY <1>4, <2>1 DEF LcTypeOK, StopTestEpoll
    <3>2. statics' \in Seq({"logger", "pool"})
      BY <2>2 DEF StaticsInv
    <3> QED BY <1>4, <2>1, <3>1, <3>2 DEF LcTypeOK, AtType, StopTestEpoll
  <2>4. EpollInv'
    BY <1>4, <2>1 DEF EpollInv, StopTestEpoll
  <2>5. SocketInv'
    BY <1>4, <2>1 DEF SocketInv, StopTestEpoll
  <2>6. ConnsInv'
    BY <1>4, <2>1 DEF ConnsInv, LcTypeOK, StopTestEpoll
  <2>7. ServerInv'
    BY <1>4, <2>1 DEF ServerInv, DescriptorsReleased, EpollInv, SocketInv, ConnsInv, LcTypeOK, StopTestEpoll
  <2>8. HandlersInv'
    BY <1>4, <2>1 DEF HandlersInv, StopTestEpoll
  <2> QED BY <2>2, <2>3, <2>4, <2>5, <2>6, <2>7, <2>8
<1>5. ASSUME StopEpoll("main") PROVE LcInv'
  <2>1. /\ at["main"] \in {"stopEpoll"} /\ at'["main"] \in {"clearNumber"}
        /\ (\A h \in Handlers : at'[h] = at[h]) /\ at' \in AtType
    BY <1>5, <1>0, MainMoves DEF StopEpoll, Main, MainPc
  <2>2. StaticsInv'
    BY <1>5, <2>1 DEF StaticsInv, StopEpoll
  <2>3. LcTypeOK'
    <3>1. /\ running' \in BOOLEAN /\ pointer' \in BOOLEAN /\ epfd' \in BOOLEAN
          /\ epoll' \in BOOLEAN /\ broken' \in BOOLEAN
      BY <1>5, <2>1 DEF LcTypeOK, StopEpoll
    <3>2. statics' \in Seq({"logger", "pool"})
      BY <2>2 DEF StaticsInv
    <3> QED BY <1>5, <2>1, <3>1, <3>2 DEF LcTypeOK, AtType, StopEpoll
  <2>4. EpollInv'
    BY <1>5, <2>1 DEF EpollInv, StopEpoll
  <2>5. SocketInv'
    BY <1>5, <2>1 DEF SocketInv, StopEpoll
  <2>6. ConnsInv'
    BY <1>5, <2>1 DEF ConnsInv, LcTypeOK, StopEpoll
  <2>7. ServerInv'
    BY <1>5, <2>1 DEF ServerInv, DescriptorsReleased, EpollInv, SocketInv, ConnsInv, LcTypeOK, StopEpoll
  <2>8. HandlersInv'
    BY <1>5, <2>1 DEF HandlersInv, StopEpoll
  <2> QED BY <2>2, <2>3, <2>4, <2>5, <2>6, <2>7, <2>8
<1>6. ASSUME StopNumber("main") PROVE LcInv'
  <2>1. /\ at["main"] \in {"clearNumber"} /\ at'["main"] \in {"stopped"}
        /\ (\A h \in Handlers : at'[h] = at[h]) /\ at' \in AtType
    BY <1>6, <1>0, MainMoves DEF StopNumber, Main, MainPc
  <2>2. StaticsInv'
    BY <1>6, <2>1 DEF StaticsInv, StopNumber
  <2>3. LcTypeOK'
    <3>1. /\ running' \in BOOLEAN /\ pointer' \in BOOLEAN /\ epfd' \in BOOLEAN
          /\ epoll' \in BOOLEAN /\ broken' \in BOOLEAN
      BY <1>6, <2>1 DEF LcTypeOK, StopNumber
    <3>2. statics' \in Seq({"logger", "pool"})
      BY <2>2 DEF StaticsInv
    <3> QED BY <1>6, <2>1, <3>1, <3>2 DEF LcTypeOK, AtType, StopNumber
  <2>4. EpollInv'
    BY <1>6, <2>1 DEF EpollInv, StopNumber
  <2>5. SocketInv'
    BY <1>6, <2>1 DEF SocketInv, StopNumber
  <2>6. ConnsInv'
    BY <1>6, <2>1 DEF ConnsInv, LcTypeOK, StopNumber
  <2>7. ServerInv'
    BY <1>6, <2>1 DEF ServerInv, DescriptorsReleased, EpollInv, SocketInv, ConnsInv, LcTypeOK, StopNumber
  <2>8. HandlersInv'
    BY <1>6, <2>1 DEF HandlersInv, StopNumber
  <2> QED BY <2>2, <2>3, <2>4, <2>5, <2>6, <2>7, <2>8
<1>7. ASSUME ServerDies PROVE LcInv'
  <2>1. /\ at["main"] \in {"stopped"} /\ at'["main"] \in {"exit"}
        /\ (\A h \in Handlers : at'[h] = at[h]) /\ at' \in AtType
    BY <1>7, <1>0, MainMoves DEF ServerDies, Main, MainPc
  <2>2. StaticsInv'
    BY <1>7, <2>1 DEF StaticsInv, ServerDies
  <2>3. LcTypeOK'
    <3>1. /\ running' \in BOOLEAN /\ pointer' \in BOOLEAN /\ epfd' \in BOOLEAN
          /\ epoll' \in BOOLEAN /\ broken' \in BOOLEAN
      BY <1>7, <2>1 DEF LcTypeOK, ServerDies
    <3>2. statics' \in Seq({"logger", "pool"})
      BY <2>2 DEF StaticsInv
    <3> QED BY <1>7, <2>1, <3>1, <3>2 DEF LcTypeOK, AtType, ServerDies
  <2>4. EpollInv'
    BY <1>7, <2>1 DEF EpollInv, ServerDies
  <2>5. SocketInv'
    BY <1>7, <2>1 DEF SocketInv, ServerDies
  <2>6. ConnsInv'
    BY <1>7, <2>1 DEF ConnsInv, LcTypeOK, ServerDies
  <2>7. ServerInv'
    BY <1>7, <2>1 DEF ServerInv, DescriptorsReleased, EpollInv, SocketInv, ConnsInv, LcTypeOK, ServerDies
  <2>8. HandlersInv'
    BY <1>7, <2>1 DEF HandlersInv, ServerDies
  <2> QED BY <2>2, <2>3, <2>4, <2>5, <2>6, <2>7, <2>8
<1>8. ASSUME DestroyStatic PROVE LcInv'
  <2>1. /\ at["main"] \in {"exit"} /\ at'["main"] \in {"exit"}
        /\ (\A h \in Handlers : at'[h] = at[h]) /\ at' \in AtType
    BY <1>8, <1>0, MainMoves DEF DestroyStatic, Main, MainPc
  <2>2. StaticsInv'
    <3>1. \/ Len(statics) = 1 /\ statics = <<"logger">> /\ statics' = <<>>
          \/ /\ Len(statics) = 2 /\ statics = <<"logger", "pool">>
             /\ statics' = <<"logger">> /\ tasks = 0 /\ busy = {}
      BY <1>8, StaticsOrder DEF StaticsInv, DestroyStatic
    <3>2. ~(tasks > 0 \/ busy # {})
      BY <3>1, StaticsOrder DEF StaticsInv, LcTypeOK
    <3>3. statics' \in {<<>>, <<"logger">>} /\ tasks' = tasks /\ busy' = busy
      BY <1>8, <3>1 DEF DestroyStatic
    <3> QED BY <2>1, <3>2, <3>3 DEF StaticsInv
  <2>3. LcTypeOK'
    <3>1. /\ running' \in BOOLEAN /\ pointer' \in BOOLEAN /\ epfd' \in BOOLEAN
          /\ epoll' \in BOOLEAN /\ broken' \in BOOLEAN
      BY <1>8, <2>1 DEF LcTypeOK, DestroyStatic
    <3>2. statics' \in Seq({"logger", "pool"})
      BY <2>2 DEF StaticsInv
    <3> QED BY <1>8, <2>1, <3>1, <3>2 DEF LcTypeOK, AtType, DestroyStatic
  <2>4. EpollInv'
    BY <1>8, <2>1 DEF EpollInv, DestroyStatic
  <2>5. SocketInv'
    BY <1>8, <2>1 DEF SocketInv, DestroyStatic
  <2>6. ConnsInv'
    BY <1>8, <2>1 DEF ConnsInv, LcTypeOK, DestroyStatic
  <2>7. ServerInv'
    BY <1>8, <2>1 DEF ServerInv, DescriptorsReleased, EpollInv, SocketInv, ConnsInv, LcTypeOK, DestroyStatic
  <2>8. HandlersInv'
    BY <1>8, <2>1 DEF HandlersInv, DestroyStatic
  <2> QED BY <2>2, <2>3, <2>4, <2>5, <2>6, <2>7, <2>8
<1>9. ASSUME Gone PROVE LcInv'
  <2>1. /\ at["main"] \in {"exit"} /\ at'["main"] \in {"gone"}
        /\ (\A h \in Handlers : at'[h] = at[h]) /\ at' \in AtType
    BY <1>9, <1>0, MainMoves DEF Gone, Main, MainPc
  <2>2. StaticsInv'
    BY <1>9, <2>1 DEF StaticsInv, Gone
  <2>3. LcTypeOK'
    <3>1. /\ running' \in BOOLEAN /\ pointer' \in BOOLEAN /\ epfd' \in BOOLEAN
          /\ epoll' \in BOOLEAN /\ broken' \in BOOLEAN
      BY <1>9, <2>1 DEF LcTypeOK, Gone
    <3>2. statics' \in Seq({"logger", "pool"})
      BY <2>2 DEF StaticsInv
    <3> QED BY <1>9, <2>1, <3>1, <3>2 DEF LcTypeOK, AtType, Gone
  <2>4. EpollInv'
    BY <1>9, <2>1 DEF EpollInv, Gone
  <2>5. SocketInv'
    BY <1>9, <2>1 DEF SocketInv, Gone
  <2>6. ConnsInv'
    BY <1>9, <2>1 DEF ConnsInv, LcTypeOK, Gone
  <2>7. ServerInv'
    BY <1>9, <2>1 DEF ServerInv, DescriptorsReleased, EpollInv, SocketInv, ConnsInv, LcTypeOK, Gone
  <2>8. HandlersInv'
    BY <1>9, <2>1 DEF HandlersInv, Gone
  <2> QED BY <2>2, <2>3, <2>4, <2>5, <2>6, <2>7, <2>8
<1> QED BY <1>1, <1>2, <1>3, <1>4, <1>5, <1>6, <1>7, <1>8, <1>9

(* signalHandler, which runs between any two steps of the others.          *)
LEMMA HandlerInv ==
  ASSUME LcInv, at["main"] # "gone", NEW k \in Handlers,
         StopStep(k) \/ HandlerLog(k) \/ HandlerStuck(k)
  PROVE  LcInv'
<1> USE LifecycleAssumption, StaticsTypes
<1> USE DEF LcInv, BeforeEpoll, AfterEpoll, StopPc, HandlerPc, net, load, life, signal
<1>0. at \in AtType
  BY DEF LcTypeOK, AtType
<1>1. ASSUME StopFlag(k) PROVE LcInv'
  <2>1. /\ at[k] \in {"flag"} /\ at'[k] \in {"testSocket"}
        /\ at'["main"] = at["main"] /\ (\A h \in Handlers \ {k} : at'[h] = at[h])
        /\ at' \in AtType
    BY <1>1, <1>0, HandlerMoves DEF StopFlag
  <2>2. StaticsInv'
    BY <1>1, <2>1 DEF StaticsInv, StopFlag
  <2>3. LcTypeOK'
    <3>1. /\ running' \in BOOLEAN /\ pointer' \in BOOLEAN /\ epfd' \in BOOLEAN
          /\ epoll' \in BOOLEAN /\ broken' \in BOOLEAN
      BY <1>1, <2>1 DEF LcTypeOK, StopFlag
    <3>2. statics' \in Seq({"logger", "pool"})
      BY <2>2 DEF StaticsInv
    <3> QED BY <1>1, <2>1, <3>1, <3>2 DEF LcTypeOK, AtType, StopFlag
  <2>4. EpollInv'
    BY <1>1, <2>1 DEF EpollInv, StopFlag
  <2>5. SocketInv'
    BY <1>1, <2>1 DEF SocketInv, StopFlag
  <2>6. ConnsInv'
    BY <1>1, <2>1 DEF ConnsInv, LcTypeOK, StopFlag
  <2>7. ServerInv'
    BY <1>1, <2>1 DEF ServerInv, DescriptorsReleased, EpollInv, SocketInv, ConnsInv, LcTypeOK, StopFlag
  <2>8. HandlersInv'
    BY <1>1, <2>1 DEF HandlersInv, StopFlag
  <2> QED BY <2>2, <2>3, <2>4, <2>5, <2>6, <2>7, <2>8
<1>2. ASSUME StopTestSocket(k) PROVE LcInv'
  <2>1. /\ at[k] \in {"testSocket"} /\ at'[k] \in {"stopSocket", "testEpoll"}
        /\ at'["main"] = at["main"] /\ (\A h \in Handlers \ {k} : at'[h] = at[h])
        /\ at' \in AtType
    BY <1>2, <1>0, HandlerMoves DEF StopTestSocket
  <2>2. StaticsInv'
    BY <1>2, <2>1 DEF StaticsInv, StopTestSocket
  <2>3. LcTypeOK'
    <3>1. /\ running' \in BOOLEAN /\ pointer' \in BOOLEAN /\ epfd' \in BOOLEAN
          /\ epoll' \in BOOLEAN /\ broken' \in BOOLEAN
      BY <1>2, <2>1 DEF LcTypeOK, StopTestSocket
    <3>2. statics' \in Seq({"logger", "pool"})
      BY <2>2 DEF StaticsInv
    <3> QED BY <1>2, <2>1, <3>1, <3>2 DEF LcTypeOK, AtType, StopTestSocket
  <2>4. EpollInv'
    BY <1>2, <2>1 DEF EpollInv, StopTestSocket
  <2>5. SocketInv'
    BY <1>2, <2>1 DEF SocketInv, StopTestSocket
  <2>6. ConnsInv'
    BY <1>2, <2>1 DEF ConnsInv, LcTypeOK, StopTestSocket
  <2>7. ServerInv'
    BY <1>2, <2>1 DEF ServerInv, DescriptorsReleased, EpollInv, SocketInv, ConnsInv, LcTypeOK, StopTestSocket
  <2>8. HandlersInv'
    BY <1>2, <2>1 DEF HandlersInv, StopTestSocket
  <2> QED BY <2>2, <2>3, <2>4, <2>5, <2>6, <2>7, <2>8
<1>3. ASSUME StopSocket(k) PROVE LcInv'
  <2>1. /\ at[k] \in {"stopSocket"} /\ at'[k] \in {"testEpoll"}
        /\ at'["main"] = at["main"] /\ (\A h \in Handlers \ {k} : at'[h] = at[h])
        /\ at' \in AtType
    BY <1>3, <1>0, HandlerMoves DEF StopSocket
  <2>2. StaticsInv'
    BY <1>3, <2>1 DEF StaticsInv, StopSocket
  <2>3. LcTypeOK'
    <3>1. /\ running' \in BOOLEAN /\ pointer' \in BOOLEAN /\ epfd' \in BOOLEAN
          /\ epoll' \in BOOLEAN /\ broken' \in BOOLEAN
      BY <1>3, <2>1 DEF LcTypeOK, StopSocket
    <3>2. statics' \in Seq({"logger", "pool"})
      BY <2>2 DEF StaticsInv
    <3> QED BY <1>3, <2>1, <3>1, <3>2 DEF LcTypeOK, AtType, StopSocket
  <2>4. EpollInv'
    BY <1>3, <2>1 DEF EpollInv, StopSocket
  <2>5. SocketInv'
    BY <1>3, <2>1 DEF SocketInv, StopSocket
  <2>6. ConnsInv'
    BY <1>3, <2>1 DEF ConnsInv, LcTypeOK, StopSocket
  <2>7. ServerInv'
    BY <1>3, <2>1 DEF ServerInv, DescriptorsReleased, EpollInv, SocketInv, ConnsInv, LcTypeOK, StopSocket
  <2>8. HandlersInv'
    BY <1>3, <2>1 DEF HandlersInv, StopSocket
  <2> QED BY <2>2, <2>3, <2>4, <2>5, <2>6, <2>7, <2>8
<1>4. ASSUME StopTestEpoll(k) PROVE LcInv'
  <2>1. /\ at[k] \in {"testEpoll"} /\ at'[k] \in {"stopEpoll", "stopped"}
        /\ at'["main"] = at["main"] /\ (\A h \in Handlers \ {k} : at'[h] = at[h])
        /\ at' \in AtType /\ (at'[k] = "stopEpoll" => epfd)
    BY <1>4, <1>0, HandlerMoves DEF StopTestEpoll
  <2>2. StaticsInv'
    BY <1>4, <2>1 DEF StaticsInv, StopTestEpoll
  <2>3. LcTypeOK'
    <3>1. /\ running' \in BOOLEAN /\ pointer' \in BOOLEAN /\ epfd' \in BOOLEAN
          /\ epoll' \in BOOLEAN /\ broken' \in BOOLEAN
      BY <1>4, <2>1 DEF LcTypeOK, StopTestEpoll
    <3>2. statics' \in Seq({"logger", "pool"})
      BY <2>2 DEF StaticsInv
    <3> QED BY <1>4, <2>1, <3>1, <3>2 DEF LcTypeOK, AtType, StopTestEpoll
  <2>4. EpollInv'
    BY <1>4, <2>1 DEF EpollInv, StopTestEpoll
  <2>5. SocketInv'
    BY <1>4, <2>1 DEF SocketInv, StopTestEpoll
  <2>6. ConnsInv'
    BY <1>4, <2>1 DEF ConnsInv, LcTypeOK, StopTestEpoll
  <2>7. ServerInv'
    BY <1>4, <2>1 DEF ServerInv, DescriptorsReleased, EpollInv, SocketInv, ConnsInv, LcTypeOK, StopTestEpoll
  <2>8. HandlersInv'
    BY <1>4, <2>1 DEF HandlersInv, StopTestEpoll
  <2> QED BY <2>2, <2>3, <2>4, <2>5, <2>6, <2>7, <2>8
<1>5. ASSUME StopEpoll(k) PROVE LcInv'
  <2>1. /\ at[k] \in {"stopEpoll"} /\ at'[k] \in {"clearNumber"}
        /\ at'["main"] = at["main"] /\ (\A h \in Handlers \ {k} : at'[h] = at[h])
        /\ at' \in AtType
    BY <1>5, <1>0, HandlerMoves DEF StopEpoll
  <2>2. StaticsInv'
    BY <1>5, <2>1 DEF StaticsInv, StopEpoll
  <2>3. LcTypeOK'
    <3>1. /\ running' \in BOOLEAN /\ pointer' \in BOOLEAN /\ epfd' \in BOOLEAN
          /\ epoll' \in BOOLEAN /\ broken' \in BOOLEAN
      BY <1>5, <2>1 DEF LcTypeOK, StopEpoll
    <3>2. statics' \in Seq({"logger", "pool"})
      BY <2>2 DEF StaticsInv
    <3> QED BY <1>5, <2>1, <3>1, <3>2 DEF LcTypeOK, AtType, StopEpoll
  <2>4. EpollInv'
    BY <1>5, <2>1 DEF EpollInv, StopEpoll
  <2>5. SocketInv'
    BY <1>5, <2>1 DEF SocketInv, StopEpoll
  <2>6. ConnsInv'
    BY <1>5, <2>1 DEF ConnsInv, LcTypeOK, StopEpoll
  <2>7. ServerInv'
    BY <1>5, <2>1 DEF ServerInv, DescriptorsReleased, EpollInv, SocketInv, ConnsInv, LcTypeOK, StopEpoll
  <2>8. HandlersInv'
    BY <1>5, <2>1 DEF HandlersInv, StopEpoll
  <2> QED BY <2>2, <2>3, <2>4, <2>5, <2>6, <2>7, <2>8
<1>6. ASSUME StopNumber(k) PROVE LcInv'
  <2>1. /\ at[k] \in {"clearNumber"} /\ at'[k] \in {"stopped"}
        /\ at'["main"] = at["main"] /\ (\A h \in Handlers \ {k} : at'[h] = at[h])
        /\ at' \in AtType
    BY <1>6, <1>0, HandlerMoves DEF StopNumber
  <2>2. StaticsInv'
    BY <1>6, <2>1 DEF StaticsInv, StopNumber
  <2>3. LcTypeOK'
    <3>1. /\ running' \in BOOLEAN /\ pointer' \in BOOLEAN /\ epfd' \in BOOLEAN
          /\ epoll' \in BOOLEAN /\ broken' \in BOOLEAN
      BY <1>6, <2>1 DEF LcTypeOK, StopNumber
    <3>2. statics' \in Seq({"logger", "pool"})
      BY <2>2 DEF StaticsInv
    <3> QED BY <1>6, <2>1, <3>1, <3>2 DEF LcTypeOK, AtType, StopNumber
  <2>4. EpollInv'
    BY <1>6, <2>1 DEF EpollInv, StopNumber
  <2>5. SocketInv'
    BY <1>6, <2>1 DEF SocketInv, StopNumber
  <2>6. ConnsInv'
    BY <1>6, <2>1 DEF ConnsInv, LcTypeOK, StopNumber
  <2>7. ServerInv'
    BY <1>6, <2>1 DEF ServerInv, DescriptorsReleased, EpollInv, SocketInv, ConnsInv, LcTypeOK, StopNumber
  <2>8. HandlersInv'
    BY <1>6, <2>1 DEF HandlersInv, StopNumber
  <2> QED BY <2>2, <2>3, <2>4, <2>5, <2>6, <2>7, <2>8
<1>7. ASSUME HandlerLog(k) PROVE LcInv'
  <2>1. /\ at[k] \in {"log"} /\ at'[k] \in {"flag"}
        /\ at'["main"] = at["main"] /\ (\A h \in Handlers \ {k} : at'[h] = at[h])
        /\ at' \in AtType
    BY <1>7, <1>0, HandlerMoves DEF HandlerLog
  <2>2. StaticsInv'
    BY <1>7, <2>1 DEF StaticsInv, HandlerLog
  <2>3. LcTypeOK'
    <3>1. /\ running' \in BOOLEAN /\ pointer' \in BOOLEAN /\ epfd' \in BOOLEAN
          /\ epoll' \in BOOLEAN /\ broken' \in BOOLEAN
      BY <1>7, <2>1 DEF LcTypeOK, HandlerLog
    <3>2. statics' \in Seq({"logger", "pool"})
      BY <2>2 DEF StaticsInv
    <3> QED BY <1>7, <2>1, <3>1, <3>2 DEF LcTypeOK, AtType, HandlerLog
  <2>4. EpollInv'
    BY <1>7, <2>1 DEF EpollInv, HandlerLog
  <2>5. SocketInv'
    BY <1>7, <2>1 DEF SocketInv, HandlerLog
  <2>6. ConnsInv'
    BY <1>7, <2>1 DEF ConnsInv, LcTypeOK, HandlerLog
  <2>7. ServerInv'
    BY <1>7, <2>1 DEF ServerInv, DescriptorsReleased, EpollInv, SocketInv, ConnsInv, LcTypeOK, HandlerLog
  <2>8. HandlersInv'
    BY <1>7, <2>1 DEF HandlersInv, HandlerLog
  <2> QED BY <2>2, <2>3, <2>4, <2>5, <2>6, <2>7, <2>8
<1>8. ASSUME HandlerStuck(k) PROVE LcInv'
  <2>1. /\ at[k] \in {"log"} /\ at'[k] \in {"stuck"}
        /\ at'["main"] = at["main"] /\ (\A h \in Handlers \ {k} : at'[h] = at[h])
        /\ at' \in AtType
    BY <1>8, <1>0, HandlerMoves DEF HandlerStuck
  <2>2. StaticsInv'
    BY <1>8, <2>1 DEF StaticsInv, HandlerStuck
  <2>3. LcTypeOK'
    <3>1. /\ running' \in BOOLEAN /\ pointer' \in BOOLEAN /\ epfd' \in BOOLEAN
          /\ epoll' \in BOOLEAN /\ broken' \in BOOLEAN
      BY <1>8, <2>1 DEF LcTypeOK, HandlerStuck
    <3>2. statics' \in Seq({"logger", "pool"})
      BY <2>2 DEF StaticsInv
    <3> QED BY <1>8, <2>1, <3>1, <3>2 DEF LcTypeOK, AtType, HandlerStuck
  <2>4. EpollInv'
    BY <1>8, <2>1 DEF EpollInv, HandlerStuck
  <2>5. SocketInv'
    BY <1>8, <2>1 DEF SocketInv, HandlerStuck
  <2>6. ConnsInv'
    BY <1>8, <2>1 DEF ConnsInv, LcTypeOK, HandlerStuck
  <2>7. ServerInv'
    BY <1>8, <2>1 DEF ServerInv, DescriptorsReleased, EpollInv, SocketInv, ConnsInv, LcTypeOK, HandlerStuck
  <2>8. HandlersInv'
    BY <1>8, <2>1 DEF HandlersInv, HandlerStuck
  <2> QED BY <2>2, <2>3, <2>4, <2>5, <2>6, <2>7, <2>8
<1> QED BY <1>1, <1>2, <1>3, <1>4, <1>5, <1>6, <1>7, <1>8 DEF StopStep

(* The delivery of a signal, the return of its handler, a crash, a worker. *)
LEMMA OthersInv ==
  ASSUME LcInv,
         \/ Crash \/ \E h \in Handlers : HandlerReturns(h)
         \/ \E h \in Handlers, t \in Threads \union Nestable : Signal(h, t)
         \/ \E v \in Workers : WorkerStep(v)
  PROVE  LcInv'
<1> USE LifecycleAssumption, StaticsTypes
<1> USE DEF LcInv, BeforeEpoll, AfterEpoll, StopPc, HandlerPc, net, load, life, signal
<1>0. at \in AtType
  BY DEF LcTypeOK, AtType
<1>1. ASSUME NEW k \in Handlers, HandlerReturns(k) PROVE LcInv'
  <2>1. /\ at'[k] = "idle" /\ at' \in AtType /\ at[k] = "stopped"
        /\ \A h \in Handlers \ {k} : at'[h] = at[h]
        /\ \/ at'["main"] = at["main"]
           \/ at["main"] \in {"wait", "forever"} /\ at'["main"] = "closeEpoll"
    BY <1>1, <1>0 DEF HandlerReturns, AtType, MainPc
  <2>2. StaticsInv'
    BY <1>1, <2>1 DEF StaticsInv, HandlerReturns
  <2>3. LcTypeOK'
    <3>1. /\ running' \in BOOLEAN /\ pointer' \in BOOLEAN /\ epfd' \in BOOLEAN
          /\ epoll' \in BOOLEAN /\ broken' \in BOOLEAN
      BY <1>1, <2>1 DEF LcTypeOK, HandlerReturns
    <3>2. statics' \in Seq({"logger", "pool"})
      BY <2>2 DEF StaticsInv
    <3> QED BY <1>1, <2>1, <3>1, <3>2 DEF LcTypeOK, AtType, HandlerReturns
  <2>4. EpollInv'
    BY <1>1, <2>1 DEF EpollInv, HandlerReturns
  <2>5. SocketInv'
    BY <1>1, <2>1 DEF SocketInv, HandlerReturns
  <2>6. ConnsInv'
    BY <1>1, <2>1 DEF ConnsInv, LcTypeOK, HandlerReturns
  <2>7. ServerInv'
    BY <1>1, <2>1 DEF ServerInv, DescriptorsReleased, EpollInv, SocketInv, ConnsInv, LcTypeOK, HandlerReturns
  <2>8. HandlersInv'
    BY <1>1, <2>1 DEF HandlersInv, HandlerReturns
  <2> QED BY <2>2, <2>3, <2>4, <2>5, <2>6, <2>7, <2>8
<1>2. ASSUME Crash PROVE LcInv'
  <2>1. /\ at'["main"] = "gone" /\ at' \in AtType
        /\ \A h \in Handlers : at'[h] = "idle"
    BY <1>2, <1>0 DEF Crash, AtType, MainPc
  <2>2. StaticsInv'
    BY <1>2, <2>1 DEF StaticsInv, Crash
  <2>3. LcTypeOK'
    <3>1. /\ running' \in BOOLEAN /\ pointer' \in BOOLEAN /\ epfd' \in BOOLEAN
          /\ epoll' \in BOOLEAN /\ broken' \in BOOLEAN
      BY <1>2, <2>1 DEF LcTypeOK, Crash
    <3>2. statics' \in Seq({"logger", "pool"})
      BY <2>2 DEF StaticsInv
    <3> QED BY <1>2, <2>1, <3>1, <3>2 DEF LcTypeOK, AtType, Crash
  <2>4. EpollInv'
    BY <1>2, <2>1 DEF EpollInv, Crash
  <2>5. SocketInv'
    BY <1>2, <2>1 DEF SocketInv, Crash
  <2>6. ConnsInv'
    BY <1>2, <2>1 DEF ConnsInv, LcTypeOK, Crash
  <2>7. ServerInv'
    BY <1>2, <2>1 DEF ServerInv, DescriptorsReleased, EpollInv, SocketInv, ConnsInv, LcTypeOK, Crash
  <2>8. HandlersInv'
    BY <1>2, <2>1 DEF HandlersInv, Crash
  <2> QED BY <2>2, <2>3, <2>4, <2>5, <2>6, <2>7, <2>8
<1>3. ASSUME NEW k \in Handlers, NEW t \in Threads \union Nestable, Signal(k, t)
      PROVE  LcInv'
  <2>1. /\ at'["main"] = at["main"] /\ at'[k] = "log" /\ at' \in AtType
        /\ at[k] = "idle"
        /\ \A h \in Handlers \ {k} : at'[h] = at[h]
    BY <1>3, <1>0 DEF Signal, AtType
  <2>2. StaticsInv'
    BY <1>3, <2>1 DEF StaticsInv, Signal, Threads
  <2>3. LcTypeOK'
    <3>1. t \in Workers \union Handlers \union {"main", "writer"} /\ t # "none"
      BY LifecycleAssumption DEF Threads, Nestable
    <3>2. /\ on' \in [Handlers -> Workers \union Handlers \union {"main", "writer", "none"}]
          /\ \A h \in Handlers : on'[h] = "none" <=> at'[h] = "idle"
      BY <1>3, <2>1, <3>1 DEF LcTypeOK, Signal
    <3>3. stops' \in 0..MaxStops
      BY <1>3 DEF LcTypeOK, Signal
    <3> QED BY <1>3, <2>1, <2>2, <3>2, <3>3 DEF LcTypeOK, AtType, StaticsInv, Signal
  <2>4. EpollInv'
    BY <1>3, <2>1 DEF EpollInv, Signal, Threads
  <2>5. SocketInv'
    BY <1>3, <2>1 DEF SocketInv, Signal, Threads
  <2>6. ConnsInv'
    BY <1>3, <2>1 DEF ConnsInv, LcTypeOK, Signal, Threads
  <2>7. ServerInv'
    BY <1>3, <2>1 DEF ServerInv, DescriptorsReleased, EpollInv, SocketInv, ConnsInv, LcTypeOK, Signal, Threads
  <2>8. HandlersInv'
    BY <1>3, <2>1 DEF HandlersInv, Signal
  <2> QED BY <2>2, <2>3, <2>4, <2>5, <2>6, <2>7, <2>8
<1>4. ASSUME NEW v \in Workers, WorkerTakes(v) PROVE LcInv'
  <2>1. at' = at
    BY <1>4 DEF WorkerTakes
  <2>2. StaticsInv'
    BY <1>4, <2>1 DEF StaticsInv, LcTypeOK, WorkerTakes
  <2>3. LcTypeOK'
    <3>1. /\ running' \in BOOLEAN /\ pointer' \in BOOLEAN /\ epfd' \in BOOLEAN
          /\ epoll' \in BOOLEAN /\ broken' \in BOOLEAN
      BY <1>4, <2>1 DEF LcTypeOK, WorkerTakes
    <3>2. statics' \in Seq({"logger", "pool"})
      BY <2>2 DEF StaticsInv
    <3> QED BY <1>4, <2>1, <3>1, <3>2 DEF LcTypeOK, AtType, WorkerTakes
  <2>4. EpollInv'
    BY <1>4, <2>1 DEF EpollInv, WorkerTakes
  <2>5. SocketInv'
    BY <1>4, <2>1 DEF SocketInv, WorkerTakes
  <2>6. ConnsInv'
    BY <1>4, <2>1 DEF ConnsInv, LcTypeOK, WorkerTakes
  <2>7. ServerInv'
    BY <1>4, <2>1 DEF ServerInv, DescriptorsReleased, EpollInv, SocketInv, ConnsInv, LcTypeOK, WorkerTakes
  <2>8. HandlersInv'
    BY <1>4, <2>1 DEF HandlersInv, WorkerTakes
  <2> QED BY <2>2, <2>3, <2>4, <2>5, <2>6, <2>7, <2>8
<1>5. ASSUME NEW v \in Workers, WorkerEnds(v) PROVE LcInv'
  <2>1. at' = at
    BY <1>5 DEF WorkerEnds
  <2>2. StaticsInv'
    BY <1>5, <2>1 DEF StaticsInv, LcTypeOK, WorkerEnds
  <2>3. LcTypeOK'
    BY <1>5, <2>1, <2>2 DEF LcTypeOK, AtType, StaticsInv, WorkerEnds, Fewer
  <2>4. EpollInv'
    BY <1>5, <2>1 DEF EpollInv, WorkerEnds, Fewer
  <2>5. SocketInv'
    BY <1>5, <2>1 DEF SocketInv, WorkerEnds, Fewer
  <2>6. ConnsInv'
    BY <1>5, <2>1 DEF ConnsInv, LcTypeOK, WorkerEnds, Fewer
  <2>7. ServerInv'
    BY <1>5, <2>1 DEF ServerInv, DescriptorsReleased, EpollInv, SocketInv, ConnsInv, LcTypeOK, WorkerEnds, Fewer
  <2>8. HandlersInv'
    BY <1>5, <2>1 DEF HandlersInv, WorkerEnds
  <2> QED BY <2>2, <2>3, <2>4, <2>5, <2>6, <2>7, <2>8
<1> QED BY <1>1, <1>2, <1>3, <1>4, <1>5 DEF WorkerStep

(* Every step of the process preserves the invariant.                      *)
LEMMA LcNextInv == LcInv /\ [Next]_vars => LcInv'
<1> SUFFICES ASSUME LcInv, [Next]_vars PROVE LcInv'
  OBVIOUS
<1>1. CASE MainStep
  BY <1>1, StartingInv, LoopingInv, EndingInv DEF MainStep, StopStep
<1>2. CASE /\ at["main"] # "gone"
           /\ \E k \in Handlers : HandlerStep(k) \/ HandlerStuck(k)
  BY <1>2, HandlerInv, OthersInv DEF HandlerStep
<1>3. CASE (\E v \in Workers : WorkerStep(v)) \/ Crash
             \/ \E h \in Handlers, t \in Threads \union Nestable : Signal(h, t)
  BY <1>3, OthersInv
<1>4. CASE UNCHANGED vars
  BY <1>4 DEF vars, LcInv, LcTypeOK, StaticsInv, EpollInv, SocketInv, ConnsInv,
              ServerInv, HandlersInv, DescriptorsReleased
<1> QED BY <1>1, <1>2, <1>3, <1>4 DEF Next

-----------------------------------------------------------------------------
(* The variables of the process keep their types whatever fails, and       *)
(* whenever signals come.                                                  *)
THEOREM LifecycleTypes == Spec => []LcTypeOK
<1>1. LcInv => LcTypeOK
  BY DEF LcInv
<1> QED BY LcInitInv, LcNextInv, <1>1, PTL DEF Spec

(* The logger is the first static built and the last destroyed on every    *)
(* way through main, so it outlives every caller of log but one: a signal  *)
(* handler that runs when no static is left.                               *)
THEOREM LoggerIsThere == Spec => []LoggerOutlivesCallers
<1>1. LcInv => LoggerOutlivesCallers
  <2> SUFFICES ASSUME LcInv PROVE LoggerOutlivesCallers
    OBVIOUS
  <2>1. statics # <<>> => Built("logger")
    <3> SUFFICES ASSUME statics # <<>> PROVE Built("logger")
      OBVIOUS
    <3>1. 1 \in DOMAIN statics /\ statics[1] = "logger"
      BY DEF LcInv, StaticsInv
    <3> QED BY <3>1 DEF Built
  <2>2. busy # {} \/ tasks > 0 \/ at["main"] \notin {"boot", "init", "exit", "gone"} =>
          statics # <<>>
    BY DEF LcInv, StaticsInv
  <2>3. ASSUME NEW h \in Handlers, at[h] \in {"log", "stuck"}
        PROVE  statics # <<>> \/ (at["main"] \in {"exit", "gone"} /\ statics = <<>>)
    BY <2>3 DEF LcInv, StaticsInv, HandlersInv
  <2> QED BY <2>1, <2>2, <2>3 DEF LoggerOutlivesCallers
<1> QED BY LcInitInv, LcNextInv, <1>1, PTL DEF Spec

(* Whatever call of start() fails, and wherever signals interrupt it, a    *)
(* server that is gone holds no socket, no epoll fd and no connection.     *)
THEOREM NothingLeaks == Spec => []DescriptorsReleased
<1>1. LcInv => DescriptorsReleased
  BY DEF LcInv, ServerInv
<1> QED BY LcInitInv, LcNextInv, <1>1, PTL DEF Spec
=============================================================================

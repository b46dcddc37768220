---------------------------- MODULE AsyncLogger ----------------------------
(***************************************************************************)
(* Logger (webserver/logger.{hpp,cpp}) after init has opened the file and  *)
(* started the writer thread: log calls of the server's threads and of the *)
(* signal handler, asyncWriteLog, and ~Logger.  The queue between them is  *)
(* BlockQueue, whose steps the actions here are made of.                   *)
(*                                                                         *)
(* A signal handler runs on a thread it interrupts: that thread takes no   *)
(* step until the handler returns, and keeps a mutex it holds.  It stays   *)
(* installed to the end of the process, and so during ~Logger as well.     *)
(*                                                                         *)
(* The main thread is one of Callers while main runs, and Closer in        *)
(* ~Logger.                                                                *)
(***************************************************************************)
EXTENDS BlockQueue

CONSTANTS
  Writer,      \* m_writeThread
  Handler,     \* signalHandler, as a producer of its own
  MaxSignals   \* bound: signals delivered in one behaviour

ASSUME LoggerAssumption ==
  /\ Consumers = {Writer}
  /\ Handler \in Producers
  /\ MaxSignals \in Nat

Callers == Producers \ {Handler}

VARIABLES
  file,         \* the lines written to m_logFile
  dpc,          \* where ~Logger is
  handler,      \* where signalHandler is
  interrupted,  \* the thread the handler runs on, or NoThread
  signals,      \* signals so far
  drained       \* history: how many lines were accepted when empty() said yes

lvars == <<items, closed, mtx, qpc, arg, accepted, spurious,
           file, dpc, handler, interrupted, signals, drained>>

DtorPc == {"alive", "test", "flush", "close", "notify", "join", "done"}

LInit ==
  /\ QInit
  /\ file = <<>>
  /\ dpc = "alive"
  /\ handler = "idle"
  /\ interrupted = NoThread
  /\ signals = 0
  /\ drained = 0

-----------------------------------------------------------------------------
(* log, called by the main thread and by the workers                       *)

Log(t, x) ==
  /\ dpc = "alive" /\ interrupted # t
  /\ PushLock(t, x)
  /\ UNCHANGED <<file, dpc, handler, interrupted, signals, drained>>

(* The bool that push returns is ignored: PushRefused goes unreported.     *)
LogStep(t) ==
  /\ interrupted # t
  /\ PushStep(t)
  /\ UNCHANGED <<file, dpc, handler, interrupted, signals, drained>>

-----------------------------------------------------------------------------
(* signalHandler: log, then stop the server.  One handler runs at a time;  *)
(* after the last step of ~Logger there is no queue to push to.            *)

Running == {Writer} \union IF dpc = "alive" THEN Callers ELSE {Closer}

Signal(t) ==
  /\ signals < MaxSignals
  /\ dpc # "done" /\ handler = "idle"
  /\ t \in Running /\ qpc[t] # "ended"
  /\ handler' = "log"
  /\ interrupted' = t
  /\ signals' = signals + 1
  /\ UNCHANGED <<items, closed, mtx, qpc, arg, accepted, spurious, file, dpc, drained>>

HandlerLog(x) ==
  /\ handler = "log"
  /\ PushLock(Handler, x)
  /\ handler' = "stop"
  /\ UNCHANGED <<file, dpc, interrupted, signals, drained>>

HandlerReturn ==
  /\ handler = "stop" /\ qpc[Handler] = "out"
  /\ handler' = "idle"
  /\ interrupted' = NoThread
  /\ UNCHANGED <<items, closed, mtx, qpc, arg, accepted, spurious,
                 file, dpc, signals, drained>>

-----------------------------------------------------------------------------
(* asyncWriteLog                                                           *)

WriterPop ==
  /\ interrupted # Writer
  /\ PopLock(Writer) \/ PopSleep(Writer) \/ PopWake(Writer) \/ PopItem(Writer)
  /\ UNCHANGED <<file, dpc, handler, interrupted, signals, drained>>

(* m_logFile << singleLog and its flush.                                   *)
WriteLine ==
  /\ interrupted # Writer
  /\ Consume(Writer)
  /\ file' = Append(file, arg[Writer])
  /\ UNCHANGED <<dpc, handler, interrupted, signals, drained>>

(* A wake-up that no notify caused.                                        *)
Spurious(t) ==
  /\ SpuriousWake(t)
  /\ UNCHANGED <<file, dpc, handler, interrupted, signals, drained>>

-----------------------------------------------------------------------------
(* ~Logger.  It is the destructor of a function-local static that is built *)
(* before the pool, so it runs on the main thread after main has returned  *)
(* and the pool's workers were joined: none of Callers is in, or will      *)
(* make, a call of log.  A signal handler, on the main thread or on the    *)
(* writer, still may.                                                      *)

DtorBegin ==
  /\ dpc = "alive" /\ interrupted \notin Callers
  /\ \A t \in Callers : qpc[t] = "out"
  /\ dpc' = "test"
  /\ UNCHANGED <<items, closed, mtx, qpc, arg, accepted, spurious,
                 file, handler, interrupted, signals, drained>>

DtorTestLock ==
  /\ dpc = "test" /\ interrupted # Closer
  /\ EmptyLock
  /\ UNCHANGED <<file, dpc, handler, interrupted, signals, drained>>

(* Mutant: the answer of empty() is not looked at.                         *)
DtorTestNothing ==
  /\ dpc = "test" /\ interrupted # Closer
  /\ EmptyUnlock
  /\ dpc' = "close" /\ drained' = Len(accepted)
  /\ UNCHANGED <<file, handler, interrupted, signals>>

(* while (!m_logQueue->empty())                                            *)
DtorTest ==
  /\ dpc = "test" /\ interrupted # Closer
  /\ EmptyUnlock
  /\ IF items = <<>> THEN dpc' = "close" /\ drained' = Len(accepted)
                     ELSE dpc' = "flush" /\ UNCHANGED drained
  /\ UNCHANGED <<file, handler, interrupted, signals>>

DtorFlush ==
  /\ dpc = "flush" /\ interrupted # Closer
  /\ Flush
  /\ dpc' = "test"
  /\ UNCHANGED <<file, handler, interrupted, signals, drained>>

DtorCloseLock ==
  /\ dpc = "close" /\ interrupted # Closer
  /\ CloseLock
  /\ UNCHANGED <<file, dpc, handler, interrupted, signals, drained>>

DtorClose ==
  /\ dpc = "close" /\ interrupted # Closer
  /\ CloseSet
  /\ dpc' = "notify"
  /\ UNCHANGED <<file, handler, interrupted, signals, drained>>

DtorNotify ==
  /\ dpc = "notify" /\ interrupted # Closer
  /\ CloseNotify
  /\ dpc' = "join"
  /\ UNCHANGED <<file, handler, interrupted, signals, drained>>

(* m_writeThread->join(), after which the file is closed and the queue     *)
(* deleted.                                                                *)
DtorJoin ==
  /\ dpc = "join" /\ interrupted # Closer
  /\ qpc[Writer] = "ended"
  /\ dpc' = "done"
  /\ UNCHANGED <<items, closed, mtx, qpc, arg, accepted, spurious,
                 file, handler, interrupted, signals, drained>>

-----------------------------------------------------------------------------
HandlerStep ==
  LogStep(Handler) \/ HandlerReturn \/ \E x \in Values : HandlerLog(x)

WriterStep == WriterPop \/ WriteLine

DtorStep ==
  \/ DtorTestLock \/ DtorTest \/ DtorFlush
  \/ DtorCloseLock \/ DtorClose \/ DtorNotify \/ DtorJoin

LNext ==
  \/ \E t \in Callers : LogStep(t) \/ \E x \in Values : Log(t, x)
  \/ \E t \in Callers \union {Writer, Closer} : Signal(t)
  \/ HandlerStep
  \/ WriterStep
  \/ \E t \in Producers \union {Writer} : Spurious(t)
  \/ DtorBegin
  \/ DtorStep

LSpec == LInit /\ [][LNext]_lvars

(* The OS runs every thread that can run; nobody has to log, no signal has *)
(* to come and the process need not exit.  ~Logger takes and leaves        *)
(* m_mutex in a busy loop until the writer has emptied the queue: strong   *)
(* fairness says that the writer, too, gets it at some time.               *)
LFairness ==
  /\ \A t \in Callers : WF_lvars(LogStep(t))
  /\ WF_lvars(HandlerStep)
  /\ SF_lvars(WriterStep)
  /\ WF_lvars(DtorStep)

LFairSpec == LSpec /\ LFairness

-----------------------------------------------------------------------------
(* The variables keep to the values the code can give them; only a thread  *)
(* inside push, pop, empty or close holds m_mutex.                         *)
Holding == {"push", "pop", "empty", "close"}

LTypeOK ==
  /\ QTypeOK
  /\ mtx # NoThread <=> \E t \in QThreads : qpc[t] \in Holding
  /\ file \in Seq(Values)
  /\ dpc \in DtorPc
  /\ handler \in {"idle", "log", "stop"}
  /\ interrupted \in Callers \union {Writer, Closer, NoThread}
  /\ handler = "idle" <=> interrupted = NoThread
  /\ signals \in 0..MaxSignals
  /\ drained \in 0..Len(accepted)

InHand == IF qpc[Writer] = "got" THEN <<arg[Writer]>> ELSE <<>>

(* Every line that push accepted is in the file, in the writer's hand or   *)
(* in the queue, once, and in the order of the log calls.                  *)
LinesConserved == file \o InHand \o items = accepted

(* When the destructor closes the file, every line that was accepted       *)
(* before it found the queue empty is there, in its place, although the    *)
(* writer may have had the last one in its hand then.  A line that a       *)
(* signal handler logs later, between that test and the join, is accepted  *)
(* (push looks at m_is_closed only after a wait) and may be lost.          *)
NoLineLost ==
  dpc = "done" => \A i \in 1..drained : i \in DOMAIN file /\ file[i] = accepted[i]

(* The lines that push has accepted since ~Logger found the queue empty.   *)
Late ==
  IF dpc \in {"close", "notify", "join", "done"}
  THEN {accepted[i] : i \in drained + 1 .. Len(accepted)} ELSE {}

(* Back-pressure ends: a log call that found the queue full returns, and   *)
(* an accepted line is written without anybody destroying the logger.      *)
(* Excused are the time of a signal handler, which may never return        *)
(* (HandlerReturns), and the lines it logs too late in ~Logger.            *)
LinesGetThrough ==
  /\ \A t \in Callers : qpc[t] = "push" ~> (qpc[t] = "out" \/ handler # "idle")
  /\ \A x \in Values :
       x \in Members(accepted) ~>
         (x \in Members(file) \/ x \in Late \/ handler # "idle")

(* logger.cpp:9 says "close the queue first, then wait for the thread to   *)
(* end": the destructor gets past join.                                    *)
DtorReturns == dpc = "test" ~> dpc = "done"

(* main.cpp:113 registers the handler "to stop the server gracefully": a   *)
(* delivered signal gets through the handler.                              *)
HandlerReturns == handler = "log" ~> handler = "idle"
=============================================================================

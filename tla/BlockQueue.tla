----------------------------- MODULE BlockQueue -----------------------------
(***************************************************************************)
(* BlockQueue<T> (webserver/blockQueue.hpp): a bounded FIFO with one mutex *)
(* and two condition variables, one for producers and one for consumers,   *)
(* that close() wakes for good.                                            *)
(*                                                                         *)
(* A call is split where the mutex is released: entering, blocking in      *)
(* wait, coming back from wait.  notify_one is inside the critical section *)
(* of push and pop; close() notifies after it released the mutex.          *)
(***************************************************************************)
EXTENDS Naturals, Sequences, FiniteSets

CONSTANTS
  Producers, Consumers,   \* threads that call push, threads that call pop
  Closer,                 \* the thread that calls empty, flush and close
  Capacity,               \* m_capacity
  Values,                 \* the items; each is pushed at most once
  NoValue, NoThread,
  MaxSpurious             \* bound: spurious wake-ups in one behaviour

QThreads == Producers \union Consumers \union {Closer}

ASSUME QueueAssumption ==
  /\ IsFiniteSet(Producers) /\ IsFiniteSet(Consumers)
  /\ Producers \intersect Consumers = {}
  /\ Closer \notin Producers \union Consumers
  /\ Capacity \in Nat \ {0}
  /\ NoValue \notin Values
  /\ NoThread \notin QThreads
  /\ MaxSpurious \in Nat

VARIABLES
  items,     \* m_queue
  closed,    \* m_is_closed
  mtx,       \* the holder of m_mutex, or NoThread
  qpc,       \* where each thread is in its call
  arg,       \* the item of a push under way, or the one pop gave back
  accepted,  \* history: the items push took, in order
  spurious   \* spurious wake-ups so far

qvars == <<items, closed, mtx, qpc, arg, accepted, spurious>>

ProducerPc == {"out", "push", "asleepP", "awokenP", "refused"}
ConsumerPc == {"out", "pop", "asleepC", "awokenC", "got", "ended"}
CloserPc   == {"out", "empty", "close", "notify", "done"}

Members(s) == {s[i] : i \in DOMAIN s}
At(S, where) == {t \in S : qpc[t] \in where}
Unlocked == mtx = NoThread

QInit ==
  /\ items = <<>>
  /\ closed = FALSE
  /\ mtx = NoThread
  /\ qpc = [t \in QThreads |-> "out"]
  /\ arg = [t \in QThreads |-> NoValue]
  /\ accepted = <<>>
  /\ spurious = 0

(* f with at most one member of the sleepers moved to where.               *)
NotifyOne(f, sleepers, where) ==
  IF sleepers = {} THEN {f} ELSE {[f EXCEPT ![t] = where] : t \in sleepers}

NotifyAll(f, sleepers, where) ==
  [t \in DOMAIN f |-> IF t \in sleepers THEN where ELSE f[t]]

-----------------------------------------------------------------------------
(* push                                                                    *)

PushLock(t, x) ==
  /\ Unlocked
  /\ qpc[t] = "out"
  /\ x \notin Members(accepted) \union {arg[u] : u \in QThreads}
  /\ mtx' = t
  /\ arg' = [arg EXCEPT ![t] = x]
  /\ qpc' = [qpc EXCEPT ![t] = "push"]
  /\ UNCHANGED <<items, closed, accepted, spurious>>

PushSleep(t) ==
  /\ qpc[t] = "push"
  /\ Len(items) >= Capacity
  /\ mtx' = NoThread
  /\ qpc' = [qpc EXCEPT ![t] = "asleepP"]
  /\ UNCHANGED <<items, closed, arg, accepted, spurious>>

(* m_is_closed is looked at only after a wait; a push that finds room is   *)
(* taken by a closed queue too.                                            *)
PushWake(t) ==
  /\ Unlocked
  /\ qpc[t] = "awokenP"
  /\ IF closed
     THEN /\ qpc' = [qpc EXCEPT ![t] = "refused"]
          /\ UNCHANGED mtx
     ELSE /\ qpc' = [qpc EXCEPT ![t] = "push"]
          /\ mtx' = t
  /\ UNCHANGED <<items, closed, arg, accepted, spurious>>

(* Mutant: the consumer is not notified.                                   *)
PushItemSilently(t) ==
  /\ qpc[t] = "push"
  /\ Len(items) < Capacity
  /\ items' = Append(items, arg[t])
  /\ accepted' = Append(accepted, arg[t])
  /\ arg' = [arg EXCEPT ![t] = NoValue]
  /\ mtx' = NoThread
  /\ qpc' = [qpc EXCEPT ![t] = "out"]
  /\ UNCHANGED <<closed, spurious>>

(* Mutant: the bound is compared with > where >= belongs.                  *)
PushItemOverfull(t) ==
  /\ qpc[t] = "push"
  /\ Len(items) <= Capacity
  /\ items' = Append(items, arg[t])
  /\ accepted' = Append(accepted, arg[t])
  /\ arg' = [arg EXCEPT ![t] = NoValue]
  /\ mtx' = NoThread
  /\ qpc' \in NotifyOne([qpc EXCEPT ![t] = "out"], At(Consumers, {"asleepC"}), "awokenC")
  /\ UNCHANGED <<closed, spurious>>

PushItem(t) ==
  /\ qpc[t] = "push"
  /\ Len(items) < Capacity
  /\ items' = Append(items, arg[t])
  /\ accepted' = Append(accepted, arg[t])
  /\ arg' = [arg EXCEPT ![t] = NoValue]
  /\ mtx' = NoThread
  /\ qpc' \in NotifyOne([qpc EXCEPT ![t] = "out"], At(Consumers, {"asleepC"}), "awokenC")
  /\ UNCHANGED <<closed, spurious>>

(* The caller has its false back: the item did not enter the queue.        *)
PushRefused(t) ==
  /\ qpc[t] = "refused"
  /\ arg' = [arg EXCEPT ![t] = NoValue]
  /\ qpc' = [qpc EXCEPT ![t] = "out"]
  /\ UNCHANGED <<items, closed, mtx, accepted, spurious>>

-----------------------------------------------------------------------------
(* pop                                                                     *)

PopLock(t) ==
  /\ Unlocked
  /\ qpc[t] = "out"
  /\ mtx' = t
  /\ qpc' = [qpc EXCEPT ![t] = "pop"]
  /\ UNCHANGED <<items, closed, arg, accepted, spurious>>

(* Neither this wait nor the test before it looks at m_is_closed.          *)
PopSleep(t) ==
  /\ qpc[t] = "pop"
  /\ items = <<>>
  /\ mtx' = NoThread
  /\ qpc' = [qpc EXCEPT ![t] = "asleepC"]
  /\ UNCHANGED <<items, closed, arg, accepted, spurious>>

PopWake(t) ==
  /\ Unlocked
  /\ qpc[t] = "awokenC"
  /\ IF closed
     THEN /\ qpc' = [qpc EXCEPT ![t] = "ended"]
          /\ UNCHANGED mtx
     ELSE /\ qpc' = [qpc EXCEPT ![t] = "pop"]
          /\ mtx' = t
  /\ UNCHANGED <<items, closed, arg, accepted, spurious>>

(* Mutant: no producer is notified.                                        *)
PopItemSilently(t) ==
  /\ qpc[t] = "pop"
  /\ items # <<>>
  /\ arg' = [arg EXCEPT ![t] = Head(items)]
  /\ items' = Tail(items)
  /\ mtx' = NoThread
  /\ qpc' = [qpc EXCEPT ![t] = "got"]
  /\ UNCHANGED <<closed, accepted, spurious>>

(* Mutant: pop_back where pop_front belongs.                               *)
PopItemNewest(t) ==
  /\ qpc[t] = "pop"
  /\ items # <<>>
  /\ arg' = [arg EXCEPT ![t] = items[Len(items)]]
  /\ items' = SubSeq(items, 1, Len(items) - 1)
  /\ mtx' = NoThread
  /\ qpc' \in NotifyOne([qpc EXCEPT ![t] = "got"], At(Producers, {"asleepP"}), "awokenP")
  /\ UNCHANGED <<closed, accepted, spurious>>

PopItem(t) ==
  /\ qpc[t] = "pop"
  /\ items # <<>>
  /\ arg' = [arg EXCEPT ![t] = Head(items)]
  /\ items' = Tail(items)
  /\ mtx' = NoThread
  /\ qpc' \in NotifyOne([qpc EXCEPT ![t] = "got"], At(Producers, {"asleepP"}), "awokenP")
  /\ UNCHANGED <<closed, accepted, spurious>>

(* The caller of pop is done with the item it was given.                   *)
Consume(t) ==
  /\ qpc[t] = "got"
  /\ arg' = [arg EXCEPT ![t] = NoValue]
  /\ qpc' = [qpc EXCEPT ![t] = "out"]
  /\ UNCHANGED <<items, closed, mtx, accepted, spurious>>

-----------------------------------------------------------------------------
(* empty, flush, close                                                     *)

EmptyLock ==
  /\ Unlocked
  /\ qpc[Closer] = "out"
  /\ mtx' = Closer
  /\ qpc' = [qpc EXCEPT ![Closer] = "empty"]
  /\ UNCHANGED <<items, closed, arg, accepted, spurious>>

(* The caller has items = <<>> as its answer.                              *)
EmptyUnlock ==
  /\ qpc[Closer] = "empty"
  /\ mtx' = NoThread
  /\ qpc' = [qpc EXCEPT ![Closer] = "out"]
  /\ UNCHANGED <<items, closed, arg, accepted, spurious>>

Flush ==
  /\ qpc' = NotifyAll(qpc, At(Consumers, {"asleepC"}), "awokenC")
  /\ UNCHANGED <<items, closed, mtx, arg, accepted, spurious>>

CloseLock ==
  /\ Unlocked
  /\ qpc[Closer] = "out"
  /\ mtx' = Closer
  /\ qpc' = [qpc EXCEPT ![Closer] = "close"]
  /\ UNCHANGED <<items, closed, arg, accepted, spurious>>

CloseSet ==
  /\ qpc[Closer] = "close"
  /\ closed' = TRUE
  /\ mtx' = NoThread
  /\ qpc' = [qpc EXCEPT ![Closer] = "notify"]
  /\ UNCHANGED <<items, arg, accepted, spurious>>

CloseNotify ==
  /\ qpc[Closer] = "notify"
  /\ qpc' = [NotifyAll(NotifyAll(qpc, At(Producers, {"asleepP"}), "awokenP"),
                       At(Consumers, {"asleepC"}), "awokenC")
               EXCEPT ![Closer] = "done"]
  /\ UNCHANGED <<items, closed, mtx, arg, accepted, spurious>>

SpuriousWake(t) ==
  /\ qpc[t] \in {"asleepP", "asleepC"}
  /\ spurious < MaxSpurious
  /\ spurious' = spurious + 1
  /\ qpc' = [qpc EXCEPT ![t] = IF t \in Producers THEN "awokenP" ELSE "awokenC"]
  /\ UNCHANGED <<items, closed, mtx, arg, accepted>>

-----------------------------------------------------------------------------
PushStep(t) == PushSleep(t) \/ PushWake(t) \/ PushItem(t) \/ PushRefused(t)
PopStep(t)  == PopLock(t) \/ PopSleep(t) \/ PopWake(t) \/ PopItem(t) \/ Consume(t)

QNext ==
  \/ \E t \in Producers : PushStep(t) \/ \E x \in Values : PushLock(t, x)
  \/ \E t \in Consumers : PopStep(t)
  \/ qpc[Closer] = "out" /\ Flush
  \/ EmptyLock \/ EmptyUnlock
  \/ CloseLock \/ CloseSet \/ CloseNotify
  \/ \E t \in Producers \union Consumers : SpuriousWake(t)

QSpec == QInit /\ [][QNext]_qvars

-----------------------------------------------------------------------------
(* The variables keep to the values the code can give them, and the deque  *)
(* never outgrows m_capacity.                                              *)
QTypeOK ==
  /\ items \in Seq(Values) /\ Len(items) <= Capacity
  /\ closed \in BOOLEAN
  /\ mtx \in QThreads \union {NoThread}
  /\ qpc \in [QThreads -> ProducerPc \union ConsumerPc \union CloserPc]
  /\ \A t \in Producers : qpc[t] \in ProducerPc
  /\ \A t \in Consumers : qpc[t] \in ConsumerPc
  /\ qpc[Closer] \in CloserPc
  /\ arg \in [QThreads -> Values \union {NoValue}]
  /\ accepted \in Seq(Values)
  /\ spurious \in 0..MaxSpurious

(* While the queue is open, producers sleep only on slots that are taken   *)
(* or promised to a producer that is awake.                                *)
ProducersNotStranded ==
  ~closed /\ At(Producers, {"asleepP"}) # {} =>
    Capacity <= Len(items) + Cardinality(At(Producers, {"push", "awokenP"}))

(* While the queue is open, consumers sleep only if every queued item has  *)
(* an awake consumer on its way to it.                                     *)
ConsumersNotStranded ==
  ~closed /\ At(Consumers, {"asleepC"}) # {} =>
    Len(items) <= Cardinality(At(Consumers, {"pop", "awokenC"}))
=============================================================================

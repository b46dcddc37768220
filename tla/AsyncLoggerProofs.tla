-------------------------- MODULE AsyncLoggerProofs --------------------------
(***************************************************************************)
(* Theorems about BlockQueue and about AsyncLogger, for any number of      *)
(* threads, any capacity of the queue and any number of lines, signals and *)
(* spurious wake-ups: the queue strands nobody, and the logger is a client *)
(* of it that loses no line.                                               *)
(***************************************************************************)
EXTENDS AsyncLogger, FiniteSetTheorems, SequenceTheorems, TLAPS

-----------------------------------------------------------------------------
(* BlockQueue.                                                             *)

(* The closer is past close()'s critical section only if the queue is      *)
(* closed.                                                                 *)
CloserInv == qpc[Closer] \in {"notify", "done"} => closed

(* A push under way carries its item until the queue takes it.             *)
PushInv ==
  \A t \in Producers : qpc[t] \in {"push", "asleepP", "awokenP"} => arg[t] \in Values

QInv ==
  /\ QTypeOK /\ CloserInv /\ PushInv
  /\ ProducersNotStranded /\ ConsumersNotStranded

AwakeP == At(Producers, {"push", "awokenP"})
AwakeC == At(Consumers, {"pop", "awokenC"})

-----------------------------------------------------------------------------
(* Cardinalities of the sets of awake threads before and after a step.     *)

(* What a set keeps.                                                       *)
LEMMA NotFewer ==
  ASSUME NEW S, NEW T, IsFiniteSet(T), S \subseteq T
  PROVE  Cardinality(S) \in Nat /\ Cardinality(T) \in Nat
         /\ Cardinality(S) <= Cardinality(T)
BY FS_Subset, FS_CardinalityType

(* What a set gains with a new element.                                    *)
LEMMA OneMore ==
  ASSUME NEW S, NEW T, NEW x, IsFiniteSet(T), S \subseteq T, x \in T, x \notin S
  PROVE  Cardinality(S) \in Nat /\ Cardinality(T) \in Nat
         /\ Cardinality(S) + 1 <= Cardinality(T)
<1>1. IsFiniteSet(S)
  BY FS_Subset
<1>2. Cardinality(S \cup {x}) = Cardinality(S) + 1
  BY <1>1, FS_AddElement
<1>3. S \cup {x} \subseteq T
  OBVIOUS
<1>4. Cardinality(S \cup {x}) <= Cardinality(T)
  BY <1>3, NotFewer
<1> QED BY <1>1, <1>2, <1>4, FS_CardinalityType

(* What a set loses with one element.                                      *)
LEMMA OneLess ==
  ASSUME NEW S, NEW T, NEW x, IsFiniteSet(S), IsFiniteSet(T), S \ {x} \subseteq T
  PROVE  Cardinality(S) \in Nat /\ Cardinality(T) \in Nat
         /\ Cardinality(S) <= Cardinality(T) + 1
<1>1. Cardinality(S \ {x}) = IF x \in S THEN Cardinality(S) - 1 ELSE Cardinality(S)
  BY FS_RemoveElement
<1>2. Cardinality(S \ {x}) <= Cardinality(T)
  BY NotFewer
<1> QED BY <1>1, <1>2, FS_CardinalityType

(* The sets counted are finite, before and after a step.                   *)
LEMMA AwakeFinite == IsFiniteSet(AwakeP) /\ IsFiniteSet(AwakeC)
BY QueueAssumption, FS_Subset DEF AwakeP, AwakeC, At

LEMMA AwakeFiniteAfter == IsFiniteSet(AwakeP') /\ IsFiniteSet(AwakeC')
BY QueueAssumption, FS_Subset DEF AwakeP, AwakeC, At

-----------------------------------------------------------------------------
(* A queue that has just been constructed satisfies the invariant.         *)
LEMMA QInitInv == QInit => QInv
<1> SUFFICES ASSUME QInit PROVE QInv
  OBVIOUS
<1> USE QueueAssumption DEF QInit, QThreads, ProducerPc, ConsumerPc, CloserPc
<1>1. items \in Seq(Values) /\ Len(items) = 0 /\ accepted \in Seq(Values)
  OBVIOUS
<1>2. /\ qpc \in [QThreads -> ProducerPc \union ConsumerPc \union CloserPc]
      /\ \A t \in QThreads : qpc[t] = "out"
  OBVIOUS
<1>3. arg \in [QThreads -> Values \union {NoValue}]
  OBVIOUS
<1>4. spurious \in 0..MaxSpurious /\ closed \in BOOLEAN /\ mtx \in QThreads \union {NoThread}
  <2>1. MaxSpurious \in Nat
    OBVIOUS
  <2>2. spurious \in 0..MaxSpurious
    BY <2>1
  <2>3. closed \in BOOLEAN
    OBVIOUS
  <2>4. mtx \in QThreads \union {NoThread}
    OBVIOUS
  <2> QED BY <2>2, <2>3, <2>4
<1>5. QTypeOK
  <2>1. Len(items) <= Capacity
    BY <1>1
  <2> QED BY <1>1, <1>2, <1>3, <1>4, <2>1 DEF QTypeOK
<1>6. At(Producers, {"asleepP"}) = {} /\ At(Consumers, {"asleepC"}) = {}
  BY <1>2 DEF At
<1> QED BY <1>2, <1>5, <1>6 DEF QInv, CloserInv, PushInv, ProducersNotStranded, ConsumersNotStranded

(* Every step of every thread preserves it: one step of the proof per      *)
(* action.  The sets of awake threads grow by the thread that notify_one   *)
(* picks and shrink by the one that leaves its call.                       *)
LEMMA QNextInv == QInv /\ [QNext]_qvars => QInv'
<1> SUFFICES ASSUME QInv, [QNext]_qvars PROVE QInv'
  OBVIOUS
<1> USE QueueAssumption DEF QInv, QThreads, ProducerPc, ConsumerPc, CloserPc, At
<1> USE AwakeFinite, AwakeFiniteAfter
<1>0. Len(items) \in Nat
  BY DEF QTypeOK

<1>1. ASSUME NEW t \in Producers, NEW x \in Values, PushLock(t, x) PROVE QInv'
  <2>1. QTypeOK'
    BY <1>1 DEF QTypeOK, PushInv, PushLock, Unlocked
  <2>2. CloserInv' /\ PushInv'
    BY <1>1 DEF CloserInv, PushInv, QTypeOK, PushLock, Unlocked
  <2>3. ProducersNotStranded'
    <3>1. AwakeP \subseteq AwakeP'
      BY <1>1 DEF ProducersNotStranded, AwakeP, QTypeOK, CloserInv, PushLock, Unlocked
    <3>2. Cardinality(AwakeP) \in Nat /\ Cardinality(AwakeP') \in Nat /\ Cardinality(AwakeP) <= Cardinality(AwakeP')
      BY <3>1, NotFewer
    <3> QED BY <1>0, <2>1, <3>2, <1>1 DEF ProducersNotStranded, AwakeP, QTypeOK, CloserInv, PushLock, Unlocked
  <2>4. ConsumersNotStranded'
    <3>1. AwakeC \subseteq AwakeC'
      BY <1>1 DEF ConsumersNotStranded, AwakeC, QTypeOK, CloserInv, PushLock, Unlocked
    <3>2. Cardinality(AwakeC) \in Nat /\ Cardinality(AwakeC') \in Nat /\ Cardinality(AwakeC) <= Cardinality(AwakeC')
      BY <3>1, NotFewer
    <3> QED BY <1>0, <2>1, <3>2, <1>1 DEF ConsumersNotStranded, AwakeC, QTypeOK, CloserInv, PushLock, Unlocked
  <2> QED BY <2>1, <2>2, <2>3, <2>4
<1>2. ASSUME NEW t \in Producers, PushSleep(t) PROVE QInv'
  <2>1. QTypeOK'
    BY <1>2 DEF QTypeOK, PushInv, PushSleep
  <2>2. CloserInv' /\ PushInv'
    BY <1>2 DEF CloserInv, PushInv, QTypeOK, PushSleep
  <2>3. ProducersNotStranded'
    <3>1. Cardinality(AwakeP') \in Nat
      BY FS_CardinalityType
    <3> QED BY <1>0, <3>1, <1>2 DEF ProducersNotStranded, AwakeP, QTypeOK, CloserInv, PushSleep
  <2>4. ConsumersNotStranded'
    <3>1. AwakeC \subseteq AwakeC'
      BY <1>2 DEF ConsumersNotStranded, AwakeC, QTypeOK, CloserInv, PushSleep
    <3>2. Cardinality(AwakeC) \in Nat /\ Cardinality(AwakeC') \in Nat /\ Cardinality(AwakeC) <= Cardinality(AwakeC')
      BY <3>1, NotFewer
    <3> QED BY <1>0, <2>1, <3>2, <1>2 DEF ConsumersNotStranded, AwakeC, QTypeOK, CloserInv, PushSleep
  <2> QED BY <2>1, <2>2, <2>3, <2>4
<1>3. ASSUME NEW t \in Producers, PushWake(t) PROVE QInv'
  <2>1. QTypeOK'
    BY <1>3 DEF QTypeOK, PushInv, PushWake, Unlocked
  <2>2. CloserInv' /\ PushInv'
    BY <1>3 DEF CloserInv, PushInv, QTypeOK, PushWake, Unlocked
  <2>3. ProducersNotStranded'
    <3>1. CASE closed
      BY <1>3, <3>1 DEF ProducersNotStranded, AwakeP, QTypeOK, CloserInv, PushWake, Unlocked
    <3>2. CASE ~closed
      <4>1. AwakeP \subseteq AwakeP'
        BY <1>3, <3>2 DEF ProducersNotStranded, AwakeP, QTypeOK, CloserInv, PushWake, Unlocked
      <4>2. Cardinality(AwakeP) \in Nat /\ Cardinality(AwakeP') \in Nat /\ Cardinality(AwakeP) <= Cardinality(AwakeP')
        BY <4>1, NotFewer
      <4> QED BY <1>0, <2>1, <4>2, <1>3 DEF ProducersNotStranded, AwakeP, QTypeOK, CloserInv, PushWake, Unlocked
    <3> QED BY <3>1, <3>2
  <2>4. ConsumersNotStranded'
    <3>1. AwakeC \subseteq AwakeC'
      BY <1>3 DEF ConsumersNotStranded, AwakeC, QTypeOK, CloserInv, PushWake, Unlocked
    <3>2. Cardinality(AwakeC) \in Nat /\ Cardinality(AwakeC') \in Nat /\ Cardinality(AwakeC) <= Cardinality(AwakeC')
      BY <3>1, NotFewer
    <3> QED BY <1>0, <2>1, <3>2, <1>3 DEF ConsumersNotStranded, AwakeC, QTypeOK, CloserInv, PushWake, Unlocked
  <2> QED BY <2>1, <2>2, <2>3, <2>4
<1>4. ASSUME NEW t \in Producers, PushItem(t) PROVE QInv'
  <2>0. LET f == [qpc EXCEPT ![t] = "out"] IN
          \/ At(Consumers, {"asleepC"}) = {} /\ qpc' = f
          \/ \E u \in At(Consumers, {"asleepC"}) : qpc' = [f EXCEPT ![u] = "awokenC"]
    BY <1>4 DEF PushItem, NotifyOne
  <2>1. QTypeOK'
    <3>1. items' \in Seq(Values) /\ Len(items') <= Capacity /\ accepted' \in Seq(Values)
      BY <1>0, <1>4 DEF QTypeOK, PushInv, PushItem
    <3>2. arg' \in [QThreads -> Values \union {NoValue}]
      BY <1>4 DEF QTypeOK, PushItem
    <3>3. qpc' \in [QThreads -> ProducerPc \union ConsumerPc \union CloserPc]
      BY <1>4, <2>0 DEF QTypeOK
    <3>4. (\A u \in Producers : qpc'[u] \in ProducerPc) /\ (\A u \in Consumers : qpc'[u] \in ConsumerPc)
      BY <1>4, <2>0 DEF QTypeOK
    <3>5. qpc'[Closer] \in CloserPc /\ closed' \in BOOLEAN /\ mtx' \in QThreads \union {NoThread} /\ spurious' \in 0..MaxSpurious
      BY <1>4, <2>0 DEF QTypeOK, PushItem
    <3> QED BY <3>1, <3>2, <3>3, <3>4, <3>5 DEF QTypeOK
  <2>2. CloserInv' /\ PushInv'
    BY <1>4, <2>0 DEF CloserInv, PushInv, QTypeOK, PushItem
  <2>3. ProducersNotStranded'
    <3>1. AwakeP \ {t} \subseteq AwakeP'
      BY <1>4, <2>0 DEF ProducersNotStranded, AwakeP, QTypeOK, CloserInv, PushItem
    <3>2. /\ Cardinality(AwakeP) \in Nat /\ Cardinality(AwakeP') \in Nat
          /\ Cardinality(AwakeP) <= Cardinality(AwakeP') + 1
      BY <3>1, OneLess
    <3>3. Len(items') = Len(items) + 1 /\ closed' = closed
      BY <1>4 DEF PushItem, QTypeOK
    <3>4. At(Producers, {"asleepP"})' \subseteq At(Producers, {"asleepP"})
      BY <1>4, <2>0 DEF QTypeOK, PushItem
    <3> QED BY <1>0, <3>2, <3>3, <3>4 DEF ProducersNotStranded, AwakeP, QTypeOK
  <2>4. ConsumersNotStranded'
    <3> SUFFICES ASSUME ~closed', At(Consumers, {"asleepC"})' # {}
                 PROVE  Len(items') <= Cardinality(AwakeC')
      BY DEF ConsumersNotStranded, AwakeC
    <3>1. PICK u \in At(Consumers, {"asleepC"}) :
            qpc' = [[qpc EXCEPT ![t] = "out"] EXCEPT ![u] = "awokenC"]
      BY <1>4, <2>0 DEF QTypeOK
    <3>2. AwakeC \subseteq AwakeC' /\ u \in AwakeC' /\ u \notin AwakeC
      BY <3>1, <1>4 DEF ConsumersNotStranded, AwakeC, QTypeOK, CloserInv, PushItem
    <3>3. /\ Cardinality(AwakeC) \in Nat /\ Cardinality(AwakeC') \in Nat
          /\ Cardinality(AwakeC) + 1 <= Cardinality(AwakeC')
      BY <3>2, OneMore
    <3>4. Len(items') = Len(items) + 1 /\ closed' = closed
      BY <1>4 DEF PushItem, QTypeOK
    <3> QED BY <1>0, <3>1, <3>3, <3>4 DEF ConsumersNotStranded, AwakeC
  <2> QED BY <2>1, <2>2, <2>3, <2>4
<1>5. ASSUME NEW t \in Producers, PushRefused(t) PROVE QInv'
  <2>1. QTypeOK'
    BY <1>5 DEF QTypeOK, PushInv, PushRefused
  <2>2. CloserInv' /\ PushInv'
    BY <1>5 DEF CloserInv, PushInv, QTypeOK, PushRefused
  <2>3. ProducersNotStranded'
    <3>1. AwakeP \subseteq AwakeP'
      BY <1>5 DEF ProducersNotStranded, AwakeP, QTypeOK, CloserInv, PushRefused
    <3>2. Cardinality(AwakeP) \in Nat /\ Cardinality(AwakeP') \in Nat /\ Cardinality(AwakeP) <= Cardinality(AwakeP')
      BY <3>1, NotFewer
    <3> QED BY <1>0, <2>1, <3>2, <1>5 DEF ProducersNotStranded, AwakeP, QTypeOK, CloserInv, PushRefused
  <2>4. ConsumersNotStranded'
    <3>1. AwakeC \subseteq AwakeC'
      BY <1>5 DEF ConsumersNotStranded, AwakeC, QTypeOK, CloserInv, PushRefused
    <3>2. Cardinality(AwakeC) \in Nat /\ Cardinality(AwakeC') \in Nat /\ Cardinality(AwakeC) <= Cardinality(AwakeC')
      BY <3>1, NotFewer
    <3> QED BY <1>0, <2>1, <3>2, <1>5 DEF ConsumersNotStranded, AwakeC, QTypeOK, CloserInv, PushRefused
  <2> QED BY <2>1, <2>2, <2>3, <2>4
<1>6. ASSUME NEW t \in Consumers, PopLock(t) PROVE QInv'
  <2>1. QTypeOK'
    BY <1>6 DEF QTypeOK, PushInv, PopLock, Unlocked
  <2>2. CloserInv' /\ PushInv'
    BY <1>6 DEF CloserInv, PushInv, QTypeOK, PopLock, Unlocked
  <2>3. ProducersNotStranded'
    <3>1. AwakeP \subseteq AwakeP'
      BY <1>6 DEF ProducersNotStranded, AwakeP, QTypeOK, CloserInv, PopLock, Unlocked
    <3>2. Cardinality(AwakeP) \in Nat /\ Cardinality(AwakeP') \in Nat /\ Cardinality(AwakeP) <= Cardinality(AwakeP')
      BY <3>1, NotFewer
    <3> QED BY <1>0, <2>1, <3>2, <1>6 DEF ProducersNotStranded, AwakeP, QTypeOK, CloserInv, PopLock, Unlocked
  <2>4. ConsumersNotStranded'
    <3>1. AwakeC \subseteq AwakeC'
      BY <1>6 DEF ConsumersNotStranded, AwakeC, QTypeOK, CloserInv, PopLock, Unlocked
    <3>2. Cardinality(AwakeC) \in Nat /\ Cardinality(AwakeC') \in Nat /\ Cardinality(AwakeC) <= Cardinality(AwakeC')
      BY <3>1, NotFewer
    <3> QED BY <1>0, <2>1, <3>2, <1>6 DEF ConsumersNotStranded, AwakeC, QTypeOK, CloserInv, PopLock, Unlocked
  <2> QED BY <2>1, <2>2, <2>3, <2>4
<1>7. ASSUME NEW t \in Consumers, PopSleep(t) PROVE QInv'
  <2>1. QTypeOK'
    BY <1>7 DEF QTypeOK, PushInv, PopSleep
  <2>2. CloserInv' /\ PushInv'
    BY <1>7 DEF CloserInv, PushInv, QTypeOK, PopSleep
  <2>3. ProducersNotStranded'
    <3>1. AwakeP \subseteq AwakeP'
      BY <1>7 DEF ProducersNotStranded, AwakeP, QTypeOK, CloserInv, PopSleep
    <3>2. Cardinality(AwakeP) \in Nat /\ Cardinality(AwakeP') \in Nat /\ Cardinality(AwakeP) <= Cardinality(AwakeP')
      BY <3>1, NotFewer
    <3> QED BY <1>0, <2>1, <3>2, <1>7 DEF ProducersNotStranded, AwakeP, QTypeOK, CloserInv, PopSleep
  <2>4. ConsumersNotStranded'
    <3>1. Cardinality(AwakeC') \in Nat
      BY FS_CardinalityType
    <3> QED BY <1>0, <3>1, <1>7 DEF ConsumersNotStranded, AwakeC, QTypeOK, CloserInv, PopSleep
  <2> QED BY <2>1, <2>2, <2>3, <2>4
<1>8. ASSUME NEW t \in Consumers, PopWake(t) PROVE QInv'
  <2>1. QTypeOK'
    BY <1>8 DEF QTypeOK, PushInv, PopWake, Unlocked
  <2>2. CloserInv' /\ PushInv'
    BY <1>8 DEF CloserInv, PushInv, QTypeOK, PopWake, Unlocked
  <2>3. ProducersNotStranded'
    <3>1. AwakeP \subseteq AwakeP'
      BY <1>8 DEF ProducersNotStranded, AwakeP, QTypeOK, CloserInv, PopWake, Unlocked
    <3>2. Cardinality(AwakeP) \in Nat /\ Cardinality(AwakeP') \in Nat /\ Cardinality(AwakeP) <= Cardinality(AwakeP')
      BY <3>1, NotFewer
    <3> QED BY <1>0, <2>1, <3>2, <1>8 DEF ProducersNotStranded, AwakeP, QTypeOK, CloserInv, PopWake, Unlocked
  <2>4. ConsumersNotStranded'
    <3>1. CASE closed
      BY <1>8, <3>1 DEF ConsumersNotStranded, AwakeC, QTypeOK, CloserInv, PopWake, Unlocked
    <3>2. CASE ~closed
      <4>1. AwakeC \subseteq AwakeC'
        BY <1>8, <3>2 DEF ConsumersNotStranded, AwakeC, QTypeOK, CloserInv, PopWake, Unlocked
      <4>2. Cardinality(AwakeC) \in Nat /\ Cardinality(AwakeC') \in Nat /\ Cardinality(AwakeC) <= Cardinality(AwakeC')
        BY <4>1, NotFewer
      <4> QED BY <1>0, <2>1, <4>2, <1>8 DEF ConsumersNotStranded, AwakeC, QTypeOK, CloserInv, PopWake, Unlocked
    <3> QED BY <3>1, <3>2
  <2> QED BY <2>1, <2>2, <2>3, <2>4
<1>9. ASSUME NEW t \in Consumers, PopItem(t) PROVE QInv'
  <2>0. LET f == [qpc EXCEPT ![t] = "got"] IN
          \/ At(Producers, {"asleepP"}) = {} /\ qpc' = f
          \/ \E u \in At(Producers, {"asleepP"}) : qpc' = [f EXCEPT ![u] = "awokenP"]
    BY <1>9 DEF PopItem, NotifyOne
  <2>1. QTypeOK'
    <3>1. items' \in Seq(Values) /\ Len(items') <= Capacity /\ accepted' \in Seq(Values)
      BY <1>0, <1>9 DEF QTypeOK, PopItem
    <3>2. arg' \in [QThreads -> Values \union {NoValue}]
      BY <1>9 DEF QTypeOK, PopItem
    <3>3. qpc' \in [QThreads -> ProducerPc \union ConsumerPc \union CloserPc]
      BY <1>9, <2>0 DEF QTypeOK
    <3>4. (\A u \in Producers : qpc'[u] \in ProducerPc) /\ (\A u \in Consumers : qpc'[u] \in ConsumerPc)
      BY <1>9, <2>0 DEF QTypeOK
    <3>5. qpc'[Closer] \in CloserPc /\ closed' \in BOOLEAN /\ mtx' \in QThreads \union {NoThread} /\ spurious' \in 0..MaxSpurious
      BY <1>9, <2>0 DEF QTypeOK, PopItem
    <3> QED BY <3>1, <3>2, <3>3, <3>4, <3>5 DEF QTypeOK
  <2>2. CloserInv' /\ PushInv'
    BY <1>9, <2>0 DEF CloserInv, PushInv, QTypeOK, PopItem
  <2>3. ProducersNotStranded'
    <3> SUFFICES ASSUME ~closed', At(Producers, {"asleepP"})' # {}
                 PROVE  Capacity <= Len(items') + Cardinality(AwakeP')
      BY DEF ProducersNotStranded, AwakeP
    <3>1. PICK u \in At(Producers, {"asleepP"}) :
            qpc' = [[qpc EXCEPT ![t] = "got"] EXCEPT ![u] = "awokenP"]
      BY <1>9, <2>0 DEF QTypeOK
    <3>2. AwakeP \subseteq AwakeP' /\ u \in AwakeP' /\ u \notin AwakeP
      BY <3>1, <1>9 DEF ProducersNotStranded, AwakeP, QTypeOK, CloserInv, PopItem
    <3>3. /\ Cardinality(AwakeP) \in Nat /\ Cardinality(AwakeP') \in Nat
          /\ Cardinality(AwakeP) + 1 <= Cardinality(AwakeP')
      BY <3>2, OneMore
    <3>4. Len(items') = Len(items) - 1 /\ Len(items) > 0 /\ closed' = closed
      BY <1>9 DEF PopItem, QTypeOK
    <3> QED BY <1>0, <3>1, <3>3, <3>4 DEF ProducersNotStranded, AwakeP
  <2>4. ConsumersNotStranded'
    <3>1. AwakeC \ {t} \subseteq AwakeC'
      BY <1>9, <2>0 DEF ConsumersNotStranded, AwakeC, QTypeOK, CloserInv, PopItem
    <3>2. /\ Cardinality(AwakeC) \in Nat /\ Cardinality(AwakeC') \in Nat
          /\ Cardinality(AwakeC) <= Cardinality(AwakeC') + 1
      BY <3>1, OneLess
    <3>3. Len(items') = Len(items) - 1 /\ Len(items) > 0 /\ closed' = closed
      BY <1>9 DEF PopItem, QTypeOK
    <3>4. At(Consumers, {"asleepC"})' \subseteq At(Consumers, {"asleepC"})
      BY <1>9, <2>0 DEF QTypeOK, PopItem
    <3> QED BY <1>0, <3>2, <3>3, <3>4 DEF ConsumersNotStranded, AwakeC, QTypeOK
  <2> QED BY <2>1, <2>2, <2>3, <2>4
<1>10. ASSUME NEW t \in Consumers, Consume(t) PROVE QInv'
  <2>1. QTypeOK'
    BY <1>10 DEF QTypeOK, PushInv, Consume
  <2>2. CloserInv' /\ PushInv'
    BY <1>10 DEF CloserInv, PushInv, QTypeOK, Consume
  <2>3. ProducersNotStranded'
    <3>1. AwakeP \subseteq AwakeP'
      BY <1>10 DEF ProducersNotStranded, AwakeP, QTypeOK, CloserInv, Consume
    <3>2. Cardinality(AwakeP) \in Nat /\ Cardinality(AwakeP') \in Nat /\ Cardinality(AwakeP) <= Cardinality(AwakeP')
      BY <3>1, NotFewer
    <3> QED BY <1>0, <2>1, <3>2, <1>10 DEF ProducersNotStranded, AwakeP, QTypeOK, CloserInv, Consume
  <2>4. ConsumersNotStranded'
    <3>1. AwakeC \subseteq AwakeC'
      BY <1>10 DEF ConsumersNotStranded, AwakeC, QTypeOK, CloserInv, Consume
    <3>2. Cardinality(AwakeC) \in Nat /\ Cardinality(AwakeC') \in Nat /\ Cardinality(AwakeC) <= Cardinality(AwakeC')
      BY <3>1, NotFewer
    <3> QED BY <1>0, <2>1, <3>2, <1>10 DEF ConsumersNotStranded, AwakeC, QTypeOK, CloserInv, Consume
  <2> QED BY <2>1, <2>2, <2>3, <2>4
<1>11. ASSUME Flush PROVE QInv'
  <2>1. QTypeOK'
    BY <1>11 DEF QTypeOK, PushInv, Flush, NotifyAll
  <2>2. CloserInv' /\ PushInv'
    BY <1>11 DEF CloserInv, PushInv, QTypeOK, Flush, NotifyAll
  <2>3. ProducersNotStranded'
    <3>1. AwakeP \subseteq AwakeP'
      BY <1>11 DEF ProducersNotStranded, AwakeP, QTypeOK, CloserInv, Flush, NotifyAll
    <3>2. Cardinality(AwakeP) \in Nat /\ Cardinality(AwakeP') \in Nat /\ Cardinality(AwakeP) <= Cardinality(AwakeP')
      BY <3>1, NotFewer
    <3> QED BY <1>0, <2>1, <3>2, <1>11 DEF ProducersNotStranded, AwakeP, QTypeOK, CloserInv, Flush, NotifyAll
  <2>4. ConsumersNotStranded'
    BY <1>0, <1>11 DEF ConsumersNotStranded, AwakeC, QTypeOK, CloserInv, Flush, NotifyAll
  <2> QED BY <2>1, <2>2, <2>3, <2>4
<1>12. ASSUME CloseSet PROVE QInv'
  <2>1. QTypeOK'
    BY <1>12 DEF QTypeOK, PushInv, CloseSet
  <2>2. CloserInv' /\ PushInv'
    BY <1>12 DEF CloserInv, PushInv, QTypeOK, CloseSet
  <2>3. ProducersNotStranded'
    BY <1>0, <1>12 DEF ProducersNotStranded, AwakeP, QTypeOK, CloserInv, CloseSet
  <2>4. ConsumersNotStranded'
    BY <1>0, <1>12 DEF ConsumersNotStranded, AwakeC, QTypeOK, CloserInv, CloseSet
  <2> QED BY <2>1, <2>2, <2>3, <2>4
<1>13. ASSUME CloseNotify PROVE QInv'
  <2>1. QTypeOK'
    BY <1>13 DEF QTypeOK, PushInv, CloseNotify, NotifyAll
  <2>2. CloserInv' /\ PushInv'
    BY <1>13 DEF CloserInv, PushInv, QTypeOK, CloseNotify, NotifyAll
  <2>3. ProducersNotStranded'
    BY <1>0, <1>13 DEF ProducersNotStranded, AwakeP, QTypeOK, CloserInv, CloseNotify, NotifyAll
  <2>4. ConsumersNotStranded'
    BY <1>0, <1>13 DEF ConsumersNotStranded, AwakeC, QTypeOK, CloserInv, CloseNotify, NotifyAll
  <2> QED BY <2>1, <2>2, <2>3, <2>4
<1>16. ASSUME EmptyLock \/ EmptyUnlock \/ CloseLock PROVE QInv'
  <2>1. /\ UNCHANGED <<items, closed, arg, accepted, spurious>>
        /\ qpc' \in [QThreads -> ProducerPc \union ConsumerPc \union CloserPc]
        /\ \A t \in Producers \union Consumers : qpc'[t] = qpc[t]
        /\ qpc'[Closer] \in {"out", "empty", "close"}
        /\ mtx' \in QThreads \union {NoThread}
    BY <1>16 DEF QTypeOK, EmptyLock, EmptyUnlock, CloseLock
  <2>2. QTypeOK'
    BY <2>1 DEF QTypeOK
  <2>3. CloserInv' /\ PushInv'
    BY <2>1 DEF CloserInv, PushInv
  <2>4. ProducersNotStranded' /\ ConsumersNotStranded'
    BY <2>1 DEF ProducersNotStranded, ConsumersNotStranded
  <2> QED BY <2>2, <2>3, <2>4
<1>14. ASSUME NEW t \in Producers \union Consumers, SpuriousWake(t) PROVE QInv'
  <2>1. QTypeOK'
    BY <1>14 DEF QTypeOK, PushInv, SpuriousWake
  <2>2. CloserInv' /\ PushInv'
    BY <1>14 DEF CloserInv, PushInv, QTypeOK, SpuriousWake
  <2>3. ProducersNotStranded'
    <3>1. AwakeP \subseteq AwakeP'
      BY <1>14 DEF ProducersNotStranded, AwakeP, QTypeOK, CloserInv, SpuriousWake
    <3>2. Cardinality(AwakeP) \in Nat /\ Cardinality(AwakeP') \in Nat /\ Cardinality(AwakeP) <= Cardinality(AwakeP')
      BY <3>1, NotFewer
    <3> QED BY <1>0, <2>1, <3>2, <1>14 DEF ProducersNotStranded, AwakeP, QTypeOK, CloserInv, SpuriousWake
  <2>4. ConsumersNotStranded'
    <3>1. AwakeC \subseteq AwakeC'
      BY <1>14 DEF ConsumersNotStranded, AwakeC, QTypeOK, CloserInv, SpuriousWake
    <3>2. Cardinality(AwakeC) \in Nat /\ Cardinality(AwakeC') \in Nat /\ Cardinality(AwakeC) <= Cardinality(AwakeC')
      BY <3>1, NotFewer
    <3> QED BY <1>0, <2>1, <3>2, <1>14 DEF ConsumersNotStranded, AwakeC, QTypeOK, CloserInv, SpuriousWake
  <2> QED BY <2>1, <2>2, <2>3, <2>4
<1>15. ASSUME UNCHANGED qvars PROVE QInv'
  BY <1>15 DEF qvars, CloserInv, PushInv, ProducersNotStranded, ConsumersNotStranded, QTypeOK
<1> QED BY <1>1, <1>2, <1>3, <1>4, <1>5, <1>6, <1>7, <1>8, <1>9, <1>10, <1>11, <1>12, <1>13, <1>14, <1>15, <1>16 DEF QNext, PushStep, PopStep

-----------------------------------------------------------------------------
(* For any number of threads the queue's variables keep their types, and   *)
(* the deque never outgrows m_capacity.                                    *)
THEOREM QTypeCorrect == QSpec => []QTypeOK
<1>1. QInv => QTypeOK
  BY DEF QInv
<1> QED BY QInitInv, QNextInv, <1>1, PTL DEF QSpec

(* One notify_one per pop is enough: no producer of an open queue sleeps   *)
(* while a slot is free that no producer awake is on its way to.           *)
THEOREM NoProducerStranded == QSpec => []ProducersNotStranded
<1>1. QInv => ProducersNotStranded
  BY DEF QInv
<1> QED BY QInitInv, QNextInv, <1>1, PTL DEF QSpec

(* One notify_one per push is enough: no consumer of an open queue sleeps  *)
(* while an item waits that no consumer awake is on its way to.            *)
THEOREM NoConsumerStranded == QSpec => []ConsumersNotStranded
<1>1. QInv => ConsumersNotStranded
  BY DEF QInv
<1> QED BY QInitInv, QNextInv, <1>1, PTL DEF QSpec

-----------------------------------------------------------------------------
(* AsyncLogger.                                                            *)

(* A thread is inside the critical section exactly while it has m_mutex.   *)
MtxInv == \A t \in QThreads : qpc[t] \in Holding <=> mtx = t

(* The handler is inside push only between its log and its stop.           *)
SignalInv == qpc[Handler] # "out" => handler = "stop"

(* ~Logger meets no caller of log but the handler, and the lines accepted  *)
(* up to the test that ended its loop are written or in the writer's hand. *)
DtorInv ==
  /\ dpc # "alive" => \A t \in Callers : qpc[t] = "out"
  /\ dpc = "flush" => qpc[Closer] = "out"
  /\ dpc \in {"close", "notify", "join", "done"} =>
       drained <= Len(file) + (IF qpc[Writer] = "got" THEN 1 ELSE 0)
  /\ dpc = "done" => qpc[Writer] = "ended"

(* What the writer has got is a line.                                      *)
GotInv == qpc[Writer] = "got" => arg[Writer] \in Values

OwnTypes ==
  /\ file \in Seq(Values)
  /\ dpc \in DtorPc
  /\ handler \in {"idle", "log", "stop"}
  /\ interrupted \in Callers \union {Writer, Closer, NoThread}
  /\ handler = "idle" <=> interrupted = NoThread
  /\ signals \in 0..MaxSignals
  /\ drained \in 0..Len(accepted)

LInv ==
  /\ QInv /\ MtxInv /\ GotInv /\ OwnTypes /\ SignalInv /\ DtorInv
  /\ LinesConserved

-----------------------------------------------------------------------------
(* Lines on their way from the queue to the file                           *)

LEMMA AppendRight ==
  ASSUME NEW S, NEW s \in Seq(S), NEW t \in Seq(S), NEW x \in S
  PROVE  s \o Append(t, x) = Append(s \o t, x)
<1>1. s \o Append(t, x) \in Seq(S) /\ Append(s \o t, x) \in Seq(S)
  BY ConcatProperties, AppendProperties
<1>2. Len(s \o Append(t, x)) = Len(Append(s \o t, x))
  BY ConcatProperties, AppendProperties
<1>3. \A i \in 1..Len(s \o Append(t, x)) :
        (s \o Append(t, x))[i] = Append(s \o t, x)[i]
  OBVIOUS
<1> QED BY <1>1, <1>2, <1>3, SeqEqual

LEMMA HeadFirst ==
  ASSUME NEW S, NEW s \in Seq(S), NEW t \in Seq(S), t # <<>>
  PROVE  s \o t = (s \o <<Head(t)>>) \o Tail(t)
<1>1. Head(t) \in S /\ Tail(t) \in Seq(S) /\ <<Head(t)>> \in Seq(S)
  BY HeadTailProperties
<1>2. <<Head(t)>> \o Tail(t) = t
  <2>1. <<Head(t)>> \o Tail(t) \in Seq(S) /\ Len(<<Head(t)>> \o Tail(t)) = Len(t)
    BY <1>1, ConcatProperties, HeadTailProperties
  <2>2. \A i \in 1..Len(t) : (<<Head(t)>> \o Tail(t))[i] = t[i]
    BY <1>1
  <2> QED BY <2>1, <2>2, SeqEqual
<1> QED BY <1>1, <1>2, ConcatAssociative

LEMMA AppendOne ==
  ASSUME NEW S, NEW s \in Seq(S), NEW x \in S
  PROVE  s \o <<x>> = Append(s, x)
BY AppendIsConcat

-----------------------------------------------------------------------------
(* The logger that init has set up satisfies the invariant.                *)
LEMMA LInitInv == LInit => LInv
<1> SUFFICES ASSUME LInit PROVE LInv
  OBVIOUS
<1> USE QueueAssumption, LoggerAssumption DEF LInit
<1>1. QInv
  BY QInitInv
<1>2. \A t \in QThreads : qpc[t] = "out"
  BY DEF QInit
<1>3. MtxInv /\ SignalInv /\ DtorInv
  BY <1>2 DEF MtxInv, Holding, SignalInv, DtorInv, QInit, QThreads, Callers
<1>4. file \in Seq(Values) /\ signals \in 0..MaxSignals /\ drained \in 0..Len(accepted)
  BY DEF QInit
<1>5. OwnTypes
  BY <1>4 DEF OwnTypes, DtorPc, Callers, QThreads
<1>7. GotInv
  BY <1>2 DEF GotInv, QThreads
<1>6. LinesConserved
  BY <1>2 DEF LinesConserved, InHand, QInit, QThreads
<1> QED BY <1>1, <1>3, <1>5, <1>6, <1>7 DEF LInv

(* A step of the logger is a step of its queue, or leaves the queue alone. *)
LEMMA LNextQNext == LInv /\ [LNext]_lvars => [QNext]_qvars
<1> SUFFICES ASSUME LInv, [LNext]_lvars PROVE [QNext]_qvars
  OBVIOUS
<1> USE QueueAssumption, LoggerAssumption
<1>1. ASSUME NEW t \in Callers, LogStep(t) \/ \E x \in Values : Log(t, x) PROVE QNext
  BY <1>1 DEF LogStep, Log, QNext, Callers
<1>2. ASSUME NEW t \in Callers \union {Writer, Closer}, Signal(t) PROVE UNCHANGED qvars
  BY <1>2 DEF Signal, qvars
<1>3. CASE HandlerStep
  BY <1>3 DEF HandlerStep, LogStep, HandlerReturn, HandlerLog, QNext, qvars
<1>4. CASE WriterStep
  BY <1>4 DEF WriterStep, WriterPop, WriteLine, QNext, PopStep
<1>5. ASSUME NEW t \in Producers \union {Writer}, Spurious(t) PROVE QNext
  BY <1>5 DEF Spurious, QNext
<1>6. CASE DtorBegin
  BY <1>6 DEF DtorBegin, qvars
<1>7. CASE DtorStep
  <2>1. CASE DtorJoin
    BY <2>1 DEF DtorJoin, qvars
  <2>2. CASE DtorFlush
    BY <2>2 DEF DtorFlush, QNext, LInv, DtorInv
  <2>3. CASE DtorTestLock \/ DtorTest \/ DtorCloseLock \/ DtorClose \/ DtorNotify
    BY <2>3 DEF DtorTestLock, DtorTest, DtorCloseLock, DtorClose, DtorNotify, QNext
  <2> QED BY <1>7, <2>1, <2>2, <2>3 DEF DtorStep
<1>8. CASE UNCHANGED lvars
  BY <1>8 DEF lvars, qvars
<1> QED BY <1>1, <1>2, <1>3, <1>4, <1>5, <1>6, <1>7, <1>8 DEF LNext

-----------------------------------------------------------------------------
(* m_mutex excludes: the queue's steps keep its holder alone inside.       *)
LEMMA MtxNext ==
  ASSUME QInv, MtxInv, [QNext]_qvars
  PROVE  MtxInv'
<1> USE QueueAssumption DEF QInv, QTypeOK, MtxInv, QThreads, Holding
<1>1. ASSUME NEW t \in Producers, NEW x \in Values, PushLock(t, x) PROVE MtxInv'
  BY <1>1 DEF PushLock, Unlocked
<1>2. ASSUME NEW t \in Producers, PushSleep(t) PROVE MtxInv'
  BY <1>2 DEF PushSleep
<1>3. ASSUME NEW t \in Producers, PushWake(t) PROVE MtxInv'
  BY <1>3 DEF PushWake, Unlocked
<1>4. ASSUME NEW t \in Producers, PushItem(t) PROVE MtxInv'
  <2>1. mtx = t /\ mtx' = NoThread
    BY <1>4 DEF PushItem
  <2>2. \A u \in QThreads : qpc'[u] \in Holding => qpc[u] \in Holding /\ u # t
    BY <1>4 DEF PushItem, NotifyOne, At
  <2> QED BY <2>1, <2>2
<1>5. ASSUME NEW t \in Producers, PushRefused(t) PROVE MtxInv'
  BY <1>5 DEF PushRefused
<1>6. ASSUME NEW t \in Consumers, PopLock(t) PROVE MtxInv'
  BY <1>6 DEF PopLock, Unlocked
<1>7. ASSUME NEW t \in Consumers, PopSleep(t) PROVE MtxInv'
  BY <1>7 DEF PopSleep
<1>8. ASSUME NEW t \in Consumers, PopWake(t) PROVE MtxInv'
  BY <1>8 DEF PopWake, Unlocked
<1>9. ASSUME NEW t \in Consumers, PopItem(t) PROVE MtxInv'
  BY <1>9 DEF PopItem, NotifyOne, At
<1>10. ASSUME NEW t \in Consumers, Consume(t) PROVE MtxInv'
  BY <1>10 DEF Consume
<1>11. CASE Flush
  BY <1>11 DEF Flush, NotifyAll, At
<1>12. CASE CloseSet
  BY <1>12 DEF CloseSet
<1>13. CASE CloseNotify
  BY <1>13 DEF CloseNotify, NotifyAll, At
<1>16. CASE EmptyLock \/ EmptyUnlock \/ CloseLock
  BY <1>16 DEF EmptyLock, EmptyUnlock, CloseLock, Unlocked
<1>14. ASSUME NEW t \in Producers \union Consumers, SpuriousWake(t) PROVE MtxInv'
  BY <1>14 DEF SpuriousWake
<1>15. CASE UNCHANGED qvars
  BY <1>15 DEF qvars
<1> QED BY <1>1, <1>2, <1>3, <1>4, <1>5, <1>6, <1>7, <1>8, <1>9, <1>10, <1>11, <1>12,
          <1>13, <1>14, <1>15, <1>16 DEF QNext, PushStep, PopStep

(* The steps of the queue that move no line.                               *)
Quiet ==
  /\ UNCHANGED <<items, accepted>>
  /\ arg'[Writer] = arg[Writer]
  /\ qpc[Writer] = "got" <=> qpc'[Writer] = "got"

LEMMA QuietSteps ==
  ASSUME QInv,
         \/ \E t \in Producers :
              \/ PushSleep(t) \/ PushWake(t) \/ PushRefused(t)
              \/ \E x \in Values : PushLock(t, x)
         \/ PopLock(Writer) \/ PopSleep(Writer) \/ PopWake(Writer)
         \/ Flush \/ EmptyLock \/ EmptyUnlock \/ CloseLock \/ CloseSet \/ CloseNotify
         \/ \E t \in Producers \union {Writer} : SpuriousWake(t)
  PROVE  Quiet
<1> USE QueueAssumption, LoggerAssumption DEF QInv, QTypeOK, QThreads, Quiet
<1>1. ASSUME NEW t \in Producers,
             \/ PushSleep(t) \/ PushWake(t) \/ PushRefused(t)
             \/ \E x \in Values : PushLock(t, x)
      PROVE  Quiet
  BY <1>1 DEF PushSleep, PushWake, PushRefused, PushLock
<1>2. CASE PopLock(Writer) \/ PopSleep(Writer) \/ PopWake(Writer)
  BY <1>2 DEF PopLock, PopSleep, PopWake
<1>3. CASE Flush \/ CloseNotify
  BY <1>3 DEF Flush, CloseNotify, NotifyAll, At
<1>4. CASE EmptyLock \/ EmptyUnlock \/ CloseLock \/ CloseSet
  BY <1>4 DEF EmptyLock, EmptyUnlock, CloseLock, CloseSet
<1>5. ASSUME NEW t \in Producers \union {Writer}, SpuriousWake(t) PROVE Quiet
  BY <1>5 DEF SpuriousWake
<1> QED BY <1>1, <1>2, <1>3, <1>4, <1>5

LEMMA QuietConserves ==
  ASSUME LinesConserved, Quiet, file' = file
  PROVE  LinesConserved'
BY DEF LinesConserved, InHand, Quiet

(* A line that push accepts is at the end of both sides.                   *)
LEMMA AcceptConserves ==
  ASSUME LInv, NEW t \in Producers, PushItem(t), file' = file
  PROVE  LinesConserved'
<1> USE QueueAssumption, LoggerAssumption DEF LInv, QInv, QThreads
<1>1. t # Writer /\ arg[t] \in Values
  BY DEF PushInv, PushItem
<1>2. arg'[Writer] = arg[Writer] /\ (qpc[Writer] = "got" <=> qpc'[Writer] = "got")
  BY <1>1 DEF PushItem, NotifyOne, At, QTypeOK
<1>3. InHand' = InHand
  BY <1>2 DEF InHand
<1>4. file \o InHand \in Seq(Values)
  <2>1. InHand \in Seq(Values)
    BY DEF InHand, GotInv
  <2> QED BY <2>1, ConcatProperties DEF OwnTypes
<1>5. items' = Append(items, arg[t]) /\ accepted' = Append(accepted, arg[t])
  BY DEF PushItem
<1>6. (file \o InHand) \o Append(items, arg[t]) = Append((file \o InHand) \o items, arg[t])
  BY <1>1, <1>4, AppendRight DEF QTypeOK
<1> QED BY <1>3, <1>5, <1>6 DEF LinesConserved

(* The line that pop gives out is the first one queued.                    *)
LEMMA PopConserves ==
  ASSUME LInv, PopItem(Writer), file' = file
  PROVE  LinesConserved'
<1> USE QueueAssumption, LoggerAssumption DEF LInv, QInv, QThreads
<1>1. InHand = <<>>
  BY DEF InHand, PopItem
<1>2. InHand' = <<Head(items)>>
  BY DEF InHand, PopItem, NotifyOne, At, QTypeOK
<1>3. items # <<>> /\ items' = Tail(items) /\ accepted' = accepted
  BY DEF PopItem
<1>4. file \o <<>> = file
  BY ConcatEmptySeq DEF OwnTypes
<1>5. file \o items = (file \o <<Head(items)>>) \o Tail(items)
  BY <1>3, HeadFirst DEF OwnTypes, QTypeOK
<1> QED BY <1>1, <1>2, <1>3, <1>4, <1>5 DEF LinesConserved

(* The line in the writer's hand becomes the last one of the file.         *)
LEMMA WriteConserves ==
  ASSUME LInv, WriteLine
  PROVE  LinesConserved' /\ file' \in Seq(Values)
<1> USE QueueAssumption, LoggerAssumption DEF LInv, QInv, QThreads
<1>1. InHand = <<arg[Writer]>> /\ arg[Writer] \in Values
  BY DEF InHand, WriteLine, Consume, GotInv
<1>2. InHand' = <<>>
  BY DEF InHand, WriteLine, Consume, QTypeOK
<1>3. file' = Append(file, arg[Writer]) /\ items' = items /\ accepted' = accepted
  BY DEF WriteLine, Consume
<1>4. file' \in Seq(Values) /\ file' \o <<>> = file'
  BY <1>1, <1>3, AppendProperties, ConcatEmptySeq DEF OwnTypes
<1>5. file \o <<arg[Writer]>> = Append(file, arg[Writer])
  BY <1>1, AppendOne DEF OwnTypes
<1> QED BY <1>1, <1>2, <1>3, <1>4, <1>5 DEF LinesConserved

-----------------------------------------------------------------------------
(* A push under way, of a caller of log or of the handler.                 *)
LEMMA PushStepInv ==
  ASSUME LInv, NEW t \in Producers, PushStep(t), t = Handler => handler = "stop",
         UNCHANGED <<file, dpc, handler, interrupted, signals, drained>>
  PROVE  GotInv' /\ OwnTypes' /\ SignalInv' /\ DtorInv' /\ LinesConserved'
<1> USE QueueAssumption, LoggerAssumption DEF LInv, QInv, QThreads
<1>1. qpc[t] # "out"
  BY DEF PushStep, PushSleep, PushWake, PushItem, PushRefused
<1>2. dpc = "alive" \/ t = Handler
  BY <1>1 DEF DtorInv, Callers
<1>3. LinesConserved'
  <2>1. CASE PushItem(t)
    BY <2>1, AcceptConserves
  <2>2. CASE PushSleep(t) \/ PushWake(t) \/ PushRefused(t)
    BY <2>2, QuietSteps, QuietConserves
  <2> QED BY <2>1, <2>2 DEF PushStep
<1>4. /\ \A u \in {Closer} \union (Producers \ {t}) : qpc'[u] = qpc[u]
      /\ qpc'[Writer] = "got" <=> qpc[Writer] = "got"
      /\ qpc[Writer] = "ended" => qpc'[Writer] = "ended"
      /\ arg'[Writer] = arg[Writer]
  BY DEF PushStep, PushSleep, PushWake, PushItem, PushRefused, NotifyOne, At, QTypeOK
<1>5. GotInv'
  BY <1>4 DEF GotInv
<1>6. OwnTypes' /\ SignalInv'
  <2>1. Len(accepted) \in Nat /\ Len(accepted') \in Nat /\ Len(accepted) <= Len(accepted')
    BY DEF PushStep, PushSleep, PushWake, PushItem, PushRefused, PushInv, QTypeOK
  <2>2. drained' \in 0..Len(accepted')
    BY <2>1 DEF OwnTypes
  <2> QED BY <1>4, <2>2 DEF OwnTypes, SignalInv
<1>7. DtorInv'
  BY <1>2, <1>4 DEF DtorInv, Callers
<1> QED BY <1>3, <1>5, <1>6, <1>7

(* A push that begins, of a caller of log or of the handler.               *)
LEMMA PushLockInv ==
  ASSUME LInv, NEW t \in Producers, NEW x \in Values, PushLock(t, x),
         \/ t # Handler /\ dpc = "alive" /\ handler' = handler
         \/ t = Handler /\ handler = "log" /\ handler' = "stop",
         UNCHANGED <<file, dpc, interrupted, signals, drained>>
  PROVE  GotInv' /\ OwnTypes' /\ SignalInv' /\ DtorInv' /\ LinesConserved'
<1> USE QueueAssumption, LoggerAssumption DEF LInv, QInv, QThreads
<1>1. LinesConserved'
  BY QuietSteps, QuietConserves
<1>2. /\ \A u \in {Closer, Writer} \union (Producers \ {t}) : qpc'[u] = qpc[u]
      /\ arg'[Writer] = arg[Writer]
  BY DEF PushLock, QTypeOK
<1>3. GotInv'
  BY <1>2 DEF GotInv
<1>4. OwnTypes'
  BY DEF OwnTypes, PushLock
<1>5. SignalInv'
  BY <1>2 DEF SignalInv
<1>6. DtorInv'
  BY <1>2 DEF DtorInv, Callers
<1> QED BY <1>1, <1>3, <1>4, <1>5, <1>6

(* The writer thread, and wake-ups without a notify.                       *)
LEMMA WriterInv ==
  ASSUME LInv,
         WriterPop \/ WriteLine \/ \E t \in Producers \union {Writer} : Spurious(t)
  PROVE  GotInv' /\ OwnTypes' /\ SignalInv' /\ DtorInv' /\ LinesConserved'
<1> USE QueueAssumption, LoggerAssumption DEF LInv, QInv, QThreads
<1>1. CASE WriterPop
  <2>1. \A u \in Producers : qpc[u] = "out" <=> qpc'[u] = "out"
    BY <1>1 DEF WriterPop, PopLock, PopSleep, PopWake, PopItem, NotifyOne, At, QTypeOK
  <2>2. qpc'[Closer] = qpc[Closer] /\ qpc[Writer] \notin {"got", "ended"}
    BY <1>1 DEF WriterPop, PopLock, PopSleep, PopWake, PopItem, NotifyOne, At, QTypeOK
  <2>3. accepted' = accepted
    BY <1>1 DEF WriterPop, PopLock, PopSleep, PopWake, PopItem
  <2>4. GotInv'
    BY <1>1 DEF WriterPop, PopLock, PopSleep, PopWake, PopItem, NotifyOne, At, QTypeOK,
                GotInv
  <2>5. OwnTypes' /\ SignalInv'
    BY <1>1, <2>1, <2>3 DEF WriterPop, OwnTypes, SignalInv
  <2>6. DtorInv'
    <3>1. file' = file /\ drained' = drained /\ dpc' = dpc
      BY <1>1 DEF WriterPop
    <3>2. Len(file) \in Nat /\ drained \in Nat
      BY DEF OwnTypes
    <3> QED BY <3>1, <3>2, <2>1, <2>2 DEF DtorInv, Callers
  <2>7. LinesConserved'
    BY <1>1, QuietSteps, QuietConserves, PopConserves DEF WriterPop
  <2> QED BY <2>4, <2>5, <2>6, <2>7
<1>2. CASE WriteLine
  <2>1. LinesConserved' /\ file' \in Seq(Values)
    BY <1>2, WriteConserves
  <2>2. /\ qpc[Writer] = "got" /\ qpc'[Writer] = "out" /\ accepted' = accepted
        /\ \A u \in Producers \union {Closer} : qpc'[u] = qpc[u]
    BY <1>2 DEF WriteLine, Consume, QTypeOK
  <2>3. GotInv' /\ OwnTypes' /\ SignalInv'
    BY <1>2, <2>1, <2>2 DEF WriteLine, GotInv, OwnTypes, SignalInv
  <2>4. DtorInv'
    <3>1. Len(file') = Len(file) + 1 /\ Len(file) \in Nat /\ drained \in Nat
      BY <1>2 DEF WriteLine, OwnTypes
    <3>2. dpc' = dpc /\ drained' = drained
      BY <1>2 DEF WriteLine
    <3> QED BY <3>1, <3>2, <2>2 DEF DtorInv, Callers
  <2> QED BY <2>1, <2>3, <2>4
<1>3. ASSUME NEW t \in Producers \union {Writer}, Spurious(t)
      PROVE  GotInv' /\ OwnTypes' /\ SignalInv' /\ DtorInv' /\ LinesConserved'
  <2>1. LinesConserved'
    BY <1>3, QuietSteps, QuietConserves DEF Spurious
  <2>2. /\ \A u \in QThreads : qpc[u] \in {"out", "got", "ended"} => qpc'[u] = qpc[u]
        /\ \A u \in QThreads : qpc[u] # "out" => qpc'[u] # "out"
        /\ qpc'[Writer] = "got" => qpc[Writer] = "got"
        /\ arg' = arg /\ accepted' = accepted
    BY <1>3 DEF Spurious, SpuriousWake, QTypeOK
  <2>3. GotInv' /\ OwnTypes' /\ SignalInv'
    BY <1>3, <2>2 DEF Spurious, GotInv, OwnTypes, SignalInv
  <2>4. DtorInv'
    BY <1>3, <2>2 DEF Spurious, DtorInv, Callers
  <2> QED BY <2>1, <2>3, <2>4
<1> QED BY <1>1, <1>2, <1>3

(* The delivery of a signal, and the return of its handler.                *)
LEMMA SignalStepInv ==
  ASSUME LInv, HandlerReturn \/ \E t \in Callers \union {Writer, Closer} : Signal(t)
  PROVE  GotInv' /\ OwnTypes' /\ SignalInv' /\ DtorInv' /\ LinesConserved'
<1> USE QueueAssumption, LoggerAssumption DEF LInv, QInv, QThreads
<1>1. UNCHANGED <<qvars, file, dpc, drained>>
  BY DEF HandlerReturn, Signal, qvars
<1>2. LinesConserved' /\ GotInv'
  BY <1>1 DEF LinesConserved, InHand, GotInv, qvars
<1>3. OwnTypes'
  BY <1>1 DEF HandlerReturn, Signal, OwnTypes, Callers, qvars
<1>4. SignalInv' /\ DtorInv'
  BY <1>1 DEF HandlerReturn, Signal, SignalInv, DtorInv, qvars
<1> QED BY <1>2, <1>3, <1>4

(* A queue that is empty has given all its lines to the writer.            *)
LEMMA AllWritten ==
  ASSUME LInv, items = <<>>
  PROVE  Len(accepted) = Len(file) + (IF qpc[Writer] = "got" THEN 1 ELSE 0)
<1> USE DEF LInv
<1>1. InHand \in Seq(Values) /\ Len(InHand) = IF qpc[Writer] = "got" THEN 1 ELSE 0
  BY DEF InHand, GotInv
<1>2. file \o InHand \in Seq(Values) /\ Len(file \o InHand) = Len(file) + Len(InHand)
  BY <1>1, ConcatProperties DEF OwnTypes
<1>3. accepted = file \o InHand
  BY <1>2, ConcatEmptySeq DEF LinesConserved
<1> QED BY <1>1, <1>2, <1>3

(* ~Logger.                                                                *)
LEMMA DtorStepInv ==
  ASSUME LInv, DtorBegin \/ DtorStep
  PROVE  GotInv' /\ OwnTypes' /\ SignalInv' /\ DtorInv' /\ LinesConserved'
<1> USE QueueAssumption, LoggerAssumption DEF LInv, QInv, QThreads
<1>1. CASE DtorBegin \/ DtorJoin
  <2>1. UNCHANGED <<qvars, file, drained>>
    BY <1>1 DEF DtorBegin, DtorJoin, qvars
  <2>2. LinesConserved' /\ GotInv'
    BY <2>1 DEF LinesConserved, InHand, GotInv, qvars
  <2>3. OwnTypes' /\ SignalInv'
    BY <1>1, <2>1 DEF DtorBegin, DtorJoin, OwnTypes, DtorPc, SignalInv, qvars
  <2>4. DtorInv'
    BY <1>1, <2>1 DEF DtorBegin, DtorJoin, DtorInv, qvars
  <2> QED BY <2>2, <2>3, <2>4
<1>2. CASE DtorTestLock \/ DtorTest \/ DtorFlush \/ DtorCloseLock \/ DtorClose \/ DtorNotify
  <2>1. LinesConserved'
    BY <1>2, QuietSteps, QuietConserves
       DEF DtorTestLock, DtorTest, DtorFlush, DtorCloseLock, DtorClose, DtorNotify
  <2>2. /\ \A u \in Producers : qpc[u] = "out" <=> qpc'[u] = "out"
        /\ qpc'[Writer] = "got" <=> qpc[Writer] = "got"
        /\ qpc[Writer] = "ended" => qpc'[Writer] = "ended"
        /\ arg' = arg /\ accepted' = accepted
    BY <1>2 DEF DtorTestLock, DtorTest, DtorFlush, DtorCloseLock, DtorClose, DtorNotify,
                EmptyLock, EmptyUnlock, Flush, CloseLock, CloseSet, CloseNotify,
                NotifyAll, At, QTypeOK
  <2>3. UNCHANGED <<file, handler, interrupted, signals>> /\ dpc' \in DtorPc
        /\ dpc \in {"test", "flush", "close", "notify"} /\ dpc' # "done"
    BY <1>2 DEF DtorTestLock, DtorTest, DtorFlush, DtorCloseLock, DtorClose, DtorNotify,
                DtorPc, OwnTypes
  <2>4. \/ drained' = drained /\ (dpc' \in {"close", "notify", "join"} =>
                                  dpc \in {"close", "notify"})
        \/ drained' = Len(accepted) /\ items = <<>>
    BY <1>2 DEF DtorTestLock, DtorTest, DtorFlush, DtorCloseLock, DtorClose, DtorNotify
  <2>5. dpc' = "flush" => qpc'[Closer] = "out"
    BY <1>2 DEF DtorTestLock, DtorTest, DtorFlush, DtorCloseLock, DtorClose, DtorNotify,
                EmptyUnlock, QTypeOK
  <2>6. GotInv' /\ SignalInv'
    BY <2>2, <2>3 DEF GotInv, SignalInv
  <2>7. OwnTypes'
    <3>1. drained' \in 0..Len(accepted')
      BY <2>2, <2>4 DEF OwnTypes, QTypeOK
    <3> QED BY <2>3, <3>1 DEF OwnTypes
  <2>8. DtorInv'
    <3>1. dpc' \in {"close", "notify", "join"} =>
            drained' <= Len(file) + (IF qpc[Writer] = "got" THEN 1 ELSE 0)
      BY <2>4, AllWritten DEF DtorInv, OwnTypes
    <3> QED BY <2>2, <2>3, <2>5, <3>1 DEF DtorInv, Callers
  <2> QED BY <2>1, <2>6, <2>7, <2>8
<1> QED BY <1>1, <1>2 DEF DtorStep

(* Every step of the logger preserves the invariant.                       *)
LEMMA LNextInv == LInv /\ [LNext]_lvars => LInv'
<1> SUFFICES ASSUME LInv, [LNext]_lvars PROVE LInv'
  OBVIOUS
<1> USE QueueAssumption, LoggerAssumption
<1> DEFINE Own == GotInv /\ OwnTypes /\ SignalInv /\ DtorInv /\ LinesConserved
<1>1. QInv' /\ MtxInv'
  BY LNextQNext, QNextInv, MtxNext DEF LInv
<1>2. ASSUME NEW t \in Callers, LogStep(t) PROVE Own'
  <2>1. t \in Producers /\ t # Handler
    BY DEF Callers
  <2> QED BY <1>2, <2>1, PushStepInv DEF LogStep
<1>3. ASSUME NEW t \in Callers, NEW x \in Values, Log(t, x) PROVE Own'
  <2>1. t \in Producers /\ t # Handler
    BY DEF Callers
  <2> QED BY <1>3, <2>1, PushLockInv DEF Log
<1>4. ASSUME LogStep(Handler) PROVE Own'
  <2>1. handler = "stop"
    BY <1>4 DEF LogStep, PushStep, PushSleep, PushWake, PushItem, PushRefused, LInv,
                SignalInv
  <2> QED BY <1>4, <2>1, PushStepInv DEF LogStep
<1>5. ASSUME NEW x \in Values, HandlerLog(x) PROVE Own'
  BY <1>5, PushLockInv DEF HandlerLog
<1>6. ASSUME HandlerReturn \/ \E t \in Callers \union {Writer, Closer} : Signal(t)
      PROVE  Own'
  BY <1>6, SignalStepInv
<1>7. ASSUME WriterStep \/ \E t \in Producers \union {Writer} : Spurious(t)
      PROVE  Own'
  BY <1>7, WriterInv DEF WriterStep
<1>8. ASSUME DtorBegin \/ DtorStep PROVE Own'
  BY <1>8, DtorStepInv
<1>9. ASSUME UNCHANGED lvars PROVE Own'
  BY <1>9 DEF lvars, LInv, GotInv, OwnTypes, SignalInv, DtorInv, LinesConserved, InHand
<1>10. Own'
  BY <1>2, <1>3, <1>4, <1>5, <1>6, <1>7, <1>8, <1>9 DEF LNext, HandlerStep
<1> QED BY <1>1, <1>10 DEF LInv

-----------------------------------------------------------------------------
(* The logger implements BlockQueue: whatever signals interrupt, it uses   *)
(* the queue as the queue's own threads do.                                *)
THEOREM ImplementsQueue == LSpec => QSpec
<1>1. LInit => QInit
  BY DEF LInit
<1> QED BY <1>1, LInitInv, LNextInv, LNextQNext, PTL DEF LSpec, QSpec

(* Back-pressure strands no caller of log, and no line waits for a writer  *)
(* that sleeps, as in any use of the queue.                                *)
THEOREM LoggerNotStranded == LSpec => []ProducersNotStranded /\ []ConsumersNotStranded
BY ImplementsQueue, NoProducerStranded, NoConsumerStranded, PTL

(* The logger's variables keep their types, and m_mutex is held exactly by *)
(* a thread inside push, pop, empty or close.                              *)
THEOREM LTypeCorrect == LSpec => []LTypeOK
<1>1. LInv => LTypeOK
  <2> SUFFICES ASSUME LInv PROVE LTypeOK
    OBVIOUS
  <2>1. mtx # NoThread <=> \E t \in QThreads : qpc[t] \in Holding
    BY QueueAssumption DEF LInv, QInv, QTypeOK, MtxInv, Holding
  <2> QED BY <2>1 DEF LInv, QInv, OwnTypes, LTypeOK
<1> QED BY LInitInv, LNextInv, <1>1, PTL DEF LSpec

(* No accepted line is lost, doubled or overtaken between log and the file.*)
THEOREM LinesInOrder == LSpec => []LinesConserved
<1>1. LInv => LinesConserved
  BY DEF LInv
<1> QED BY LInitInv, LNextInv, <1>1, PTL DEF LSpec

(* ~Logger closes the file over every line that push accepted before it    *)
(* found the queue empty; only what a signal handler logs after that may   *)
(* be missing.                                                             *)
THEOREM FileComplete == LSpec => []NoLineLost
<1>1. LInv => NoLineLost
  <2> SUFFICES ASSUME LInv, dpc = "done", NEW i \in 1..drained
               PROVE  i \in DOMAIN file /\ file[i] = accepted[i]
    BY DEF NoLineLost
  <2> USE DEF LInv
  <2>1. InHand = <<>>
    BY DEF DtorInv, InHand
  <2>2. file \o items = accepted
    BY <2>1, ConcatEmptySeq DEF OwnTypes, LinesConserved
  <2>3. i \in 1..Len(file)
    BY DEF DtorInv, OwnTypes
  <2>4. (file \o items)[i] = file[i]
    BY <2>3 DEF OwnTypes, QInv, QTypeOK
  <2> QED BY <2>2, <2>3, <2>4 DEF OwnTypes
<1> QED BY LInitInv, LNextInv, <1>1, PTL DEF LSpec
=============================================================================

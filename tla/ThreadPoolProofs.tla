-------------------------- MODULE ThreadPoolProofs --------------------------
(***************************************************************************)
(* Theorems about ThreadPool, for any number of workers, clients and       *)
(* tasks and any number of spurious wake-ups.                              *)
(***************************************************************************)
EXTENDS ThreadPool, FiniteSetTheorems, TLAPS

(* m_mtx is held exactly inside the critical sections.                     *)
MutexInv ==
  \A t \in Threads : pc[t] \in {"test", "block", "push", "stop"} <=> mtx = t

(* A call under way carries a task that has not entered the pool.          *)
SubmitInv ==
  \A s \in Submitters :
    /\ pc[s] = "push" => arg[s] # NoTask
    /\ arg[s] # NoTask => pc[s] = "push" /\ fate[arg[s]] = "new"

(* A task is running exactly when one worker is inside it.                 *)
RunInv ==
  /\ \A w \in Workers :
       /\ pc[w] \in {"run", "push", "notify"} => task[w] # NoTask
       /\ task[w] # NoTask =>
            pc[w] \in {"run", "push", "notify"} /\ fate[task[w]] = "running"
  /\ \A v, w \in Workers : task[v] = task[w] /\ task[v] # NoTask => v = w
  /\ \A t \in Tasks : fate[t] = "running" => \E w \in Workers : task[w] = t

(* A task is queued exactly when it is at one place of the queue.          *)
QueueInv ==
  /\ \A i \in 1..Len(queue) : fate[queue[i]] = "queued"
  /\ \A i, j \in 1..Len(queue) : queue[i] = queue[j] => i = j
  /\ \A t \in Tasks : fate[t] = "queued" => \E i \in 1..Len(queue) : queue[i] = t

(* m_stop is set by the destructor and only by it; a worker that has left  *)
(* the loop left a stopped, empty pool; join waited for all of them.       *)
ShutdownInv ==
  /\ stop <=> pc[Owner] \in {"notify_all", "join", "done"}
  /\ \A w \in Workers : pc[w] = "exited" => stop /\ queue = <<>>
  /\ pc[Owner] = "done" => \A w \in Workers : pc[w] = "exited"

IInv == TypeOK /\ MutexInv /\ SubmitInv /\ RunInv /\ QueueInv /\ ShutdownInv

(* A pool that has just been constructed satisfies the invariant.          *)
LEMMA InitInv == Init => IInv
<1> USE PoolAssumption DEF Init, Threads, Submitters
<1>1. ASSUME Init PROVE TypeOK
  <2>1. queue \in Seq(Tasks) /\ spurious \in 0..MaxSpurious
    BY <1>1
  <2>2. pc \in [Threads -> WorkerPc \union ClientPc \union OwnerPc]
    BY <1>1 DEF WorkerPc, ClientPc, OwnerPc
  <2> QED BY <1>1, <2>1, <2>2 DEF TypeOK, WorkerPc, ClientPc, OwnerPc, Fates
<1>2. Init => MutexInv /\ SubmitInv /\ RunInv /\ QueueInv /\ ShutdownInv
  BY DEF MutexInv, SubmitInv, RunInv, QueueInv, ShutdownInv
<1> QED BY <1>1, <1>2 DEF IInv

(* Every step of every thread preserves it: one step of the proof per      *)
(* action, for the conjuncts the action can disturb.                       *)
LEMMA NextInv == IInv /\ [Next]_vars => IInv'
<1> SUFFICES ASSUME IInv, [Next]_vars PROVE IInv'
  OBVIOUS
<1> USE PoolAssumption DEF IInv, Threads, Submitters
<1>1. ASSUME NEW s \in Submitters, NEW t \in Tasks, SubmitLock(s, t) PROVE IInv'
  <2>1. TypeOK'
    BY <1>1 DEF TypeOK, WorkerPc, ClientPc, OwnerPc, Fates, SubmitLock, Free, Return, InHand
  <2>2. MutexInv'
    BY <1>1 DEF TypeOK, MutexInv, SubmitLock, Free, Return, InHand
  <2>3. SubmitInv'
    BY <1>1 DEF TypeOK, MutexInv, SubmitInv, SubmitLock, Free, Return, InHand
  <2>4. RunInv'
    BY <1>1 DEF TypeOK, MutexInv, SubmitInv, RunInv, QueueInv, SubmitLock, Free, Return, InHand
  <2>5. QueueInv'
    BY <1>1 DEF TypeOK, MutexInv, SubmitInv, RunInv, QueueInv, SubmitLock, Free, Return, InHand
  <2>6. ShutdownInv'
    BY <1>1 DEF TypeOK, MutexInv, SubmitInv, RunInv, ShutdownInv, SubmitLock, Free, Return, InHand
  <2> QED BY <2>1, <2>2, <2>3, <2>4, <2>5, <2>6
<1>2. ASSUME NEW s \in Submitters, SubmitAccept(s) PROVE IInv'
  <2>1. TypeOK'
    BY <1>2 DEF TypeOK, SubmitInv, WorkerPc, ClientPc, OwnerPc, Fates, SubmitAccept
  <2>2. MutexInv'
    BY <1>2 DEF TypeOK, MutexInv, SubmitAccept
  <2>3. SubmitInv'
    BY <1>2 DEF TypeOK, MutexInv, SubmitInv, SubmitAccept
  <2>4. RunInv'
    BY <1>2 DEF TypeOK, MutexInv, SubmitInv, RunInv, QueueInv, SubmitAccept
  <2>5. QueueInv'
    BY <1>2 DEF TypeOK, MutexInv, SubmitInv, RunInv, QueueInv, SubmitAccept
  <2>6. ShutdownInv'
    BY <1>2 DEF TypeOK, MutexInv, SubmitInv, RunInv, ShutdownInv, SubmitAccept
  <2> QED BY <2>1, <2>2, <2>3, <2>4, <2>5, <2>6
<1>3. ASSUME NEW s \in Submitters, SubmitThrow(s) PROVE IInv'
  <2>1. TypeOK'
    BY <1>3 DEF TypeOK, WorkerPc, ClientPc, OwnerPc, Fates, SubmitThrow, Return
  <2>2. MutexInv'
    BY <1>3 DEF TypeOK, MutexInv, SubmitThrow, Return
  <2>3. SubmitInv'
    BY <1>3 DEF TypeOK, MutexInv, SubmitInv, SubmitThrow, Return
  <2>4. RunInv'
    BY <1>3 DEF TypeOK, MutexInv, SubmitInv, RunInv, QueueInv, SubmitThrow, Return
  <2>5. QueueInv'
    BY <1>3 DEF TypeOK, MutexInv, SubmitInv, RunInv, QueueInv, SubmitThrow, Return
  <2>6. ShutdownInv'
    BY <1>3 DEF TypeOK, MutexInv, SubmitInv, RunInv, ShutdownInv, SubmitThrow, Return
  <2> QED BY <2>1, <2>2, <2>3, <2>4, <2>5, <2>6
<1>4. ASSUME NEW s \in Submitters, SubmitNotify(s) PROVE IInv'
  <2>1. TypeOK'
    BY <1>4 DEF TypeOK, WorkerPc, ClientPc, OwnerPc, Fates, SubmitNotify, Return, Waiting
  <2>2. MutexInv'
    BY <1>4 DEF TypeOK, MutexInv, SubmitNotify, Return, Waiting
  <2>3. SubmitInv'
    BY <1>4 DEF TypeOK, MutexInv, SubmitInv, SubmitNotify, Return, Waiting
  <2>4. RunInv'
    BY <1>4 DEF TypeOK, MutexInv, SubmitInv, RunInv, QueueInv, SubmitNotify, Return, Waiting
  <2>5. QueueInv'
    BY <1>4 DEF TypeOK, MutexInv, SubmitInv, RunInv, QueueInv, SubmitNotify, Return, Waiting
  <2>6. ShutdownInv'
    BY <1>4 DEF TypeOK, MutexInv, SubmitInv, RunInv, ShutdownInv, SubmitNotify, Return, Waiting
  <2> QED BY <2>1, <2>2, <2>3, <2>4, <2>5, <2>6
<1>5. ASSUME NEW c \in Clients, ClientDone(c) PROVE IInv'
  <2>1. TypeOK'
    BY <1>5 DEF TypeOK, WorkerPc, ClientPc, OwnerPc, Fates, ClientDone
  <2>2. MutexInv'
    BY <1>5 DEF TypeOK, MutexInv, ClientDone
  <2>3. SubmitInv'
    BY <1>5 DEF TypeOK, MutexInv, SubmitInv, ClientDone
  <2>4. RunInv'
    BY <1>5 DEF TypeOK, MutexInv, SubmitInv, RunInv, QueueInv, ClientDone
  <2>5. QueueInv'
    BY <1>5 DEF TypeOK, MutexInv, SubmitInv, RunInv, QueueInv, ClientDone
  <2>6. ShutdownInv'
    BY <1>5 DEF TypeOK, MutexInv, SubmitInv, RunInv, ShutdownInv, ClientDone
  <2> QED BY <2>1, <2>2, <2>3, <2>4, <2>5, <2>6
<1>6. ASSUME NEW w \in Workers, WorkerLock(w) PROVE IInv'
  <2>1. TypeOK'
    BY <1>6 DEF TypeOK, WorkerPc, ClientPc, OwnerPc, Fates, WorkerLock, Free
  <2>2. MutexInv'
    BY <1>6 DEF TypeOK, MutexInv, WorkerLock, Free
  <2>3. SubmitInv'
    BY <1>6 DEF TypeOK, MutexInv, SubmitInv, WorkerLock, Free
  <2>4. RunInv'
    BY <1>6 DEF TypeOK, MutexInv, SubmitInv, RunInv, QueueInv, WorkerLock, Free
  <2>5. QueueInv'
    BY <1>6 DEF TypeOK, MutexInv, SubmitInv, RunInv, QueueInv, WorkerLock, Free
  <2>6. ShutdownInv'
    BY <1>6 DEF TypeOK, MutexInv, SubmitInv, RunInv, ShutdownInv, WorkerLock, Free
  <2> QED BY <2>1, <2>2, <2>3, <2>4, <2>5, <2>6
<1>7. ASSUME NEW w \in Workers, WorkerMustWait(w) PROVE IInv'
  <2>1. TypeOK'
    BY <1>7 DEF TypeOK, WorkerPc, ClientPc, OwnerPc, Fates, WorkerMustWait
  <2>2. MutexInv'
    BY <1>7 DEF TypeOK, MutexInv, WorkerMustWait
  <2>3. SubmitInv'
    BY <1>7 DEF TypeOK, MutexInv, SubmitInv, WorkerMustWait
  <2>4. RunInv'
    BY <1>7 DEF TypeOK, MutexInv, SubmitInv, RunInv, QueueInv, WorkerMustWait
  <2>5. QueueInv'
    BY <1>7 DEF TypeOK, MutexInv, SubmitInv, RunInv, QueueInv, WorkerMustWait
  <2>6. ShutdownInv'
    BY <1>7 DEF TypeOK, MutexInv, SubmitInv, RunInv, ShutdownInv, WorkerMustWait
  <2> QED BY <2>1, <2>2, <2>3, <2>4, <2>5, <2>6
<1>8. ASSUME NEW w \in Workers, WorkerBlock(w) PROVE IInv'
  <2>1. TypeOK'
    BY <1>8 DEF TypeOK, WorkerPc, ClientPc, OwnerPc, Fates, WorkerBlock
  <2>2. MutexInv'
    BY <1>8 DEF TypeOK, MutexInv, WorkerBlock
  <2>3. SubmitInv'
    BY <1>8 DEF TypeOK, MutexInv, SubmitInv, WorkerBlock
  <2>4. RunInv'
    BY <1>8 DEF TypeOK, MutexInv, SubmitInv, RunInv, QueueInv, WorkerBlock
  <2>5. QueueInv'
    BY <1>8 DEF TypeOK, MutexInv, SubmitInv, RunInv, QueueInv, WorkerBlock
  <2>6. ShutdownInv'
    BY <1>8 DEF TypeOK, MutexInv, SubmitInv, RunInv, ShutdownInv, WorkerBlock
  <2> QED BY <2>1, <2>2, <2>3, <2>4, <2>5, <2>6
<1>9. ASSUME NEW w \in Workers, WorkerTake(w) PROVE IInv'
  <2>1. TypeOK'
    BY <1>9 DEF TypeOK, WorkerPc, ClientPc, OwnerPc, Fates, WorkerTake
  <2>2. MutexInv'
    BY <1>9 DEF TypeOK, MutexInv, WorkerTake
  <2>3. SubmitInv'
    BY <1>9 DEF TypeOK, MutexInv, SubmitInv, WorkerTake
  <2>4. RunInv'
    BY <1>9 DEF TypeOK, MutexInv, SubmitInv, RunInv, QueueInv, WorkerTake
  <2>5. QueueInv'
    <3>1. /\ Len(queue) \in Nat \ {0} /\ Len(queue') = Len(queue) - 1
          /\ \A i \in 1..Len(queue') : queue'[i] = queue[i + 1]
      BY <1>9 DEF TypeOK, WorkerTake
    <3>2. Head(queue) = queue[1] /\ Head(queue) \in Tasks
      BY <1>9, <3>1 DEF TypeOK, WorkerTake
    <3>3. fate' = [fate EXCEPT ![queue[1]] = "running"]
      BY <1>9, <3>2 DEF WorkerTake
    <3>4. \A i \in 1..Len(queue') : fate'[queue'[i]] = "queued"
      BY <3>1, <3>2, <3>3 DEF TypeOK, QueueInv
    <3>5. \A i, j \in 1..Len(queue') : queue'[i] = queue'[j] => i = j
      BY <3>1 DEF QueueInv
    <3>6. ASSUME NEW t \in Tasks, fate'[t] = "queued"
          PROVE  \E i \in 1..Len(queue') : queue'[i] = t
      <4>1. fate[t] = "queued" /\ t # queue[1]
        BY <3>2, <3>3, <3>6 DEF TypeOK
      <4>2. PICK i \in 1..Len(queue) : queue[i] = t
        BY <4>1 DEF QueueInv
      <4>3. i - 1 \in 1..Len(queue') /\ queue'[i - 1] = t
        BY <3>1, <4>1, <4>2
      <4> QED BY <4>3
    <3> QED BY <3>4, <3>5, <3>6 DEF QueueInv
  <2>6. ShutdownInv'
    BY <1>9 DEF TypeOK, MutexInv, SubmitInv, RunInv, ShutdownInv, WorkerTake
  <2> QED BY <2>1, <2>2, <2>3, <2>4, <2>5, <2>6
<1>10. ASSUME NEW w \in Workers, WorkerExit(w) PROVE IInv'
  <2>1. TypeOK'
    BY <1>10 DEF TypeOK, WorkerPc, ClientPc, OwnerPc, Fates, WorkerExit
  <2>2. MutexInv'
    BY <1>10 DEF TypeOK, MutexInv, WorkerExit
  <2>3. SubmitInv'
    BY <1>10 DEF TypeOK, MutexInv, SubmitInv, WorkerExit
  <2>4. RunInv'
    BY <1>10 DEF TypeOK, MutexInv, SubmitInv, RunInv, QueueInv, WorkerExit
  <2>5. QueueInv'
    BY <1>10 DEF TypeOK, MutexInv, SubmitInv, RunInv, QueueInv, WorkerExit
  <2>6. ShutdownInv'
    BY <1>10 DEF TypeOK, MutexInv, SubmitInv, RunInv, ShutdownInv, WorkerExit
  <2> QED BY <2>1, <2>2, <2>3, <2>4, <2>5, <2>6
<1>11. ASSUME NEW w \in Workers, TaskReturn(w) PROVE IInv'
  <2>1. TypeOK'
    BY <1>11 DEF TypeOK, WorkerPc, ClientPc, OwnerPc, Fates, TaskReturn
  <2>2. MutexInv'
    BY <1>11 DEF TypeOK, MutexInv, TaskReturn
  <2>3. SubmitInv'
    BY <1>11 DEF TypeOK, MutexInv, SubmitInv, RunInv, TaskReturn
  <2>4. RunInv'
    BY <1>11 DEF TypeOK, MutexInv, SubmitInv, RunInv, QueueInv, TaskReturn
  <2>5. QueueInv'
    BY <1>11 DEF TypeOK, MutexInv, SubmitInv, RunInv, QueueInv, TaskReturn
  <2>6. ShutdownInv'
    BY <1>11 DEF TypeOK, MutexInv, SubmitInv, RunInv, ShutdownInv, TaskReturn
  <2> QED BY <2>1, <2>2, <2>3, <2>4, <2>5, <2>6
<1>12. ASSUME NEW w \in Workers, TaskThrow(w) PROVE IInv'
  <2>1. TypeOK'
    BY <1>12 DEF TypeOK, WorkerPc, ClientPc, OwnerPc, Fates, TaskThrow
  <2>2. MutexInv'
    BY <1>12 DEF TypeOK, MutexInv, TaskThrow
  <2>3. SubmitInv'
    BY <1>12 DEF TypeOK, MutexInv, SubmitInv, RunInv, TaskThrow
  <2>4. RunInv'
    BY <1>12 DEF TypeOK, MutexInv, SubmitInv, RunInv, QueueInv, TaskThrow
  <2>5. QueueInv'
    BY <1>12 DEF TypeOK, MutexInv, SubmitInv, RunInv, QueueInv, TaskThrow
  <2>6. ShutdownInv'
    BY <1>12 DEF TypeOK, MutexInv, SubmitInv, RunInv, ShutdownInv, TaskThrow
  <2> QED BY <2>1, <2>2, <2>3, <2>4, <2>5, <2>6
<1>13. ASSUME NEW w \in Workers, SpuriousWake(w) PROVE IInv'
  <2>1. TypeOK'
    BY <1>13 DEF TypeOK, WorkerPc, ClientPc, OwnerPc, Fates, SpuriousWake
  <2>2. MutexInv'
    BY <1>13 DEF TypeOK, MutexInv, SpuriousWake
  <2>3. SubmitInv'
    BY <1>13 DEF TypeOK, MutexInv, SubmitInv, SpuriousWake
  <2>4. RunInv'
    BY <1>13 DEF TypeOK, MutexInv, SubmitInv, RunInv, QueueInv, SpuriousWake
  <2>5. QueueInv'
    BY <1>13 DEF TypeOK, MutexInv, SubmitInv, RunInv, QueueInv, SpuriousWake
  <2>6. ShutdownInv'
    BY <1>13 DEF TypeOK, MutexInv, SubmitInv, RunInv, ShutdownInv, SpuriousWake
  <2> QED BY <2>1, <2>2, <2>3, <2>4, <2>5, <2>6
<1>14. ASSUME DtorLock PROVE IInv'
  <2>1. TypeOK'
    BY <1>14 DEF TypeOK, WorkerPc, ClientPc, OwnerPc, Fates, DtorLock, Free
  <2>2. MutexInv'
    BY <1>14 DEF TypeOK, MutexInv, DtorLock, Free
  <2>3. SubmitInv'
    BY <1>14 DEF TypeOK, MutexInv, SubmitInv, DtorLock, Free
  <2>4. RunInv'
    BY <1>14 DEF TypeOK, MutexInv, SubmitInv, RunInv, QueueInv, DtorLock, Free
  <2>5. QueueInv'
    BY <1>14 DEF TypeOK, MutexInv, SubmitInv, RunInv, QueueInv, DtorLock, Free
  <2>6. ShutdownInv'
    BY <1>14 DEF TypeOK, MutexInv, SubmitInv, RunInv, ShutdownInv, DtorLock, Free
  <2> QED BY <2>1, <2>2, <2>3, <2>4, <2>5, <2>6
<1>15. ASSUME DtorStop PROVE IInv'
  <2>1. TypeOK'
    BY <1>15 DEF TypeOK, WorkerPc, ClientPc, OwnerPc, Fates, DtorStop
  <2>2. MutexInv'
    BY <1>15 DEF TypeOK, MutexInv, DtorStop
  <2>3. SubmitInv'
    BY <1>15 DEF TypeOK, MutexInv, SubmitInv, DtorStop
  <2>4. RunInv'
    BY <1>15 DEF TypeOK, MutexInv, SubmitInv, RunInv, QueueInv, DtorStop
  <2>5. QueueInv'
    BY <1>15 DEF TypeOK, MutexInv, SubmitInv, RunInv, QueueInv, DtorStop
  <2>6. ShutdownInv'
    BY <1>15 DEF TypeOK, MutexInv, SubmitInv, RunInv, ShutdownInv, DtorStop
  <2> QED BY <2>1, <2>2, <2>3, <2>4, <2>5, <2>6
<1>16. ASSUME DtorNotifyAll PROVE IInv'
  <2>1. TypeOK'
    BY <1>16 DEF TypeOK, WorkerPc, ClientPc, OwnerPc, Fates, DtorNotifyAll, Waiting
  <2>2. MutexInv'
    BY <1>16 DEF TypeOK, MutexInv, DtorNotifyAll, Waiting
  <2>3. SubmitInv'
    BY <1>16 DEF TypeOK, MutexInv, SubmitInv, DtorNotifyAll, Waiting
  <2>4. RunInv'
    BY <1>16 DEF TypeOK, MutexInv, SubmitInv, RunInv, QueueInv, DtorNotifyAll, Waiting
  <2>5. QueueInv'
    BY <1>16 DEF TypeOK, MutexInv, SubmitInv, RunInv, QueueInv, DtorNotifyAll, Waiting
  <2>6. ShutdownInv'
    BY <1>16 DEF TypeOK, MutexInv, SubmitInv, RunInv, ShutdownInv, DtorNotifyAll, Waiting
  <2> QED BY <2>1, <2>2, <2>3, <2>4, <2>5, <2>6
<1>17. ASSUME DtorJoin PROVE IInv'
  <2>1. TypeOK'
    BY <1>17 DEF TypeOK, WorkerPc, ClientPc, OwnerPc, Fates, DtorJoin
  <2>2. MutexInv'
    BY <1>17 DEF TypeOK, MutexInv, DtorJoin
  <2>3. SubmitInv'
    BY <1>17 DEF TypeOK, MutexInv, SubmitInv, DtorJoin
  <2>4. RunInv'
    BY <1>17 DEF TypeOK, MutexInv, SubmitInv, RunInv, QueueInv, DtorJoin
  <2>5. QueueInv'
    BY <1>17 DEF TypeOK, MutexInv, SubmitInv, RunInv, QueueInv, DtorJoin
  <2>6. ShutdownInv'
    BY <1>17 DEF TypeOK, MutexInv, SubmitInv, RunInv, ShutdownInv, DtorJoin
  <2> QED BY <2>1, <2>2, <2>3, <2>4, <2>5, <2>6
<1>18. CASE UNCHANGED vars
  BY <1>18 DEF vars, TypeOK, MutexInv, SubmitInv, RunInv, QueueInv, ShutdownInv
<1> QED BY <1>1, <1>2, <1>3, <1>4, <1>5, <1>6, <1>7, <1>8, <1>9, <1>10, <1>11, <1>12, <1>13, <1>14, <1>15, <1>16, <1>17, <1>18 DEF Next, SubmitStep, WorkerStep, DtorStep, Halted

(* The invariant holds in every state of every behaviour of the pool.      *)
LEMMA Inv == Spec => []IInv
BY InitInv, NextInv, PTL DEF Spec

(* The state of the pool keeps its types, whatever the tasks do.           *)
THEOREM TypeCorrect == Spec => []TypeOK
BY Inv, PTL DEF IInv

(* A destroyed pool has started and ended every task it accepted: the      *)
(* destructor joins after it stopped the pool, and a worker leaves a       *)
(* stopped pool only when the queue is empty.                              *)
THEOREM Drained == Spec => []DrainedWhenDestroyed
<1>1. IInv => DrainedWhenDestroyed
  <2> SUFFICES ASSUME IInv, pc[Owner] = "done"
               PROVE  /\ queue = <<>>
                      /\ \A t \in Tasks : fate[t] \notin {"queued", "running"}
    BY DEF DrainedWhenDestroyed
  <2>1. \A w \in Workers : pc[w] = "exited"
    BY DEF IInv, ShutdownInv
  <2>2. queue = <<>>
    BY <2>1, PoolAssumption DEF IInv, ShutdownInv
  <2>3. \A t \in Tasks : fate[t] # "queued"
    BY <2>2 DEF IInv, QueueInv
  <2>4. \A t \in Tasks : fate[t] # "running"
    BY <2>1, PoolAssumption DEF IInv, RunInv
  <2> QED BY <2>2, <2>3, <2>4
<1> QED BY <1>1, Inv, PTL

(* A worker that has found nothing to do and is about to block holds       *)
(* m_mtx, so nothing is queued until it sleeps.                            *)
BlockInv == \A w \in Workers : pc[w] = "block" => queue = <<>>

WakeInv == BlockInv /\ EnoughWakeUps

(* A worker that has found the predicate false keeps m_mtx until it blocks,*)
(* so that nobody adds a task or sets m_stop in between.                   *)
LEMMA BlockNext == IInv /\ BlockInv /\ [Next]_vars => BlockInv'
<1> SUFFICES ASSUME IInv, BlockInv, [Next]_vars PROVE BlockInv'
  OBVIOUS
<1> USE PoolAssumption DEF IInv, TypeOK, MutexInv, BlockInv, Threads, Submitters
<1>1. ASSUME NEW s \in Submitters, NEW t \in Tasks, SubmitLock(s, t) PROVE BlockInv'
  BY <1>1 DEF SubmitLock, Free, Return
<1>2. ASSUME NEW s \in Submitters, SubmitAccept(s) PROVE BlockInv'
  BY <1>2 DEF SubmitAccept
<1>3. ASSUME NEW s \in Submitters, SubmitThrow(s) PROVE BlockInv'
  BY <1>3 DEF SubmitThrow, Return
<1>4. ASSUME NEW s \in Submitters, SubmitNotify(s) PROVE BlockInv'
  BY <1>4 DEF SubmitNotify, Return, Waiting
<1>5. ASSUME NEW c \in Clients, ClientDone(c) PROVE BlockInv'
  BY <1>5 DEF ClientDone
<1>6. ASSUME NEW w \in Workers, WorkerLock(w) PROVE BlockInv'
  BY <1>6 DEF WorkerLock, Free
<1>7. ASSUME NEW w \in Workers, WorkerMustWait(w) PROVE BlockInv'
  BY <1>7 DEF WorkerMustWait
<1>8. ASSUME NEW w \in Workers, WorkerBlock(w) PROVE BlockInv'
  BY <1>8 DEF WorkerBlock
<1>9. ASSUME NEW w \in Workers, WorkerTake(w) PROVE BlockInv'
  BY <1>9 DEF WorkerTake
<1>10. ASSUME NEW w \in Workers, WorkerExit(w) PROVE BlockInv'
  BY <1>10 DEF WorkerExit
<1>11. ASSUME NEW w \in Workers, TaskReturn(w) PROVE BlockInv'
  BY <1>11 DEF TaskReturn
<1>12. ASSUME NEW w \in Workers, TaskThrow(w) PROVE BlockInv'
  BY <1>12 DEF TaskThrow
<1>13. ASSUME NEW w \in Workers, SpuriousWake(w) PROVE BlockInv'
  BY <1>13 DEF SpuriousWake
<1>14. ASSUME DtorLock PROVE BlockInv'
  BY <1>14 DEF DtorLock, Free
<1>15. ASSUME DtorStop PROVE BlockInv'
  BY <1>15 DEF DtorStop
<1>16. ASSUME DtorNotifyAll PROVE BlockInv'
  BY <1>16 DEF DtorNotifyAll, Waiting
<1>17. ASSUME DtorJoin PROVE BlockInv'
  BY <1>17 DEF DtorJoin
<1>18. CASE UNCHANGED vars
  BY <1>18 DEF vars
<1> QED
  BY <1>1, <1>2, <1>3, <1>4, <1>5, <1>6, <1>7, <1>8, <1>9, <1>10, <1>11, <1>12, <1>13, <1>14, <1>15, <1>16, <1>17, <1>18
  DEF Next, SubmitStep, WorkerStep, DtorStep, Halted

(* A push is matched by the notify_one its thread still owes, a notify by  *)
(* the worker it wakes, and a worker that leaves the queue takes a task.   *)
LEMMA WakeNext == IInv /\ WakeInv /\ [Next]_vars => EnoughWakeUps'
<1> SUFFICES ASSUME IInv, WakeInv, [Next]_vars PROVE EnoughWakeUps'
  OBVIOUS
<1> USE PoolAssumption DEF IInv, TypeOK, Threads, Submitters
<1> DEFINE a == Cardinality(Awake)
           n == Cardinality(Notifying)
<1>1. IsFiniteSet(Submitters)
  BY FS_Union
<1>2. IsFiniteSet(Awake) /\ IsFiniteSet(Notifying)
  BY <1>1, FS_Subset DEF Awake, Notifying
<1>3. IsFiniteSet(Awake') /\ IsFiniteSet(Notifying')
  BY <1>1, FS_Subset DEF Awake, Notifying
<1>4. a \in Nat /\ n \in Nat /\ a' \in Nat /\ n' \in Nat /\ Len(queue) \in Nat
  BY <1>2, <1>3, FS_CardinalityType
<1>5. Waiting # {} => Len(queue) <= a + n
  BY DEF WakeInv, EnoughWakeUps
<1> HIDE DEF a, n
(* Four ways a step can leave the inequality alone.                        *)
<1>6. ASSUME Waiting' \subseteq Waiting, UNCHANGED <<queue, Awake, Notifying>>
      PROVE  EnoughWakeUps'
  BY <1>5, <1>6 DEF EnoughWakeUps, a, n
<1>7. ASSUME queue' = <<>> PROVE EnoughWakeUps'
  BY <1>4, <1>7 DEF EnoughWakeUps, a, n
<1>8. ASSUME Waiting' = {} PROVE EnoughWakeUps'
  BY <1>8 DEF EnoughWakeUps
<1>9. ASSUME NEW w \in Workers, Awake' = Awake \union {w}, w \notin Awake,
             Waiting' \subseteq Waiting, UNCHANGED <<queue, Notifying>>
      PROVE  EnoughWakeUps'
  <2>1. a' = a + 1 /\ n' = n
    BY <1>2, <1>9, FS_AddElement DEF a, n
  <2> QED BY <1>4, <1>5, <1>9, <2>1 DEF EnoughWakeUps, a, n
(* The submitting side.                                                    *)
<1>10. ASSUME NEW s \in Submitters, NEW t \in Tasks, SubmitLock(s, t)
       PROVE  EnoughWakeUps'
  BY <1>6, <1>10 DEF SubmitLock, Free, Return, Awake, Notifying, Waiting
<1>11. ASSUME NEW s \in Submitters, SubmitThrow(s) PROVE EnoughWakeUps'
  BY <1>6, <1>11 DEF SubmitThrow, Return, Awake, Notifying, Waiting
<1>12. ASSUME NEW c \in Clients, ClientDone(c) PROVE EnoughWakeUps'
  BY <1>6, <1>12 DEF ClientDone, Awake, Notifying, Waiting
<1>13. ASSUME NEW s \in Submitters, SubmitAccept(s) PROVE EnoughWakeUps'
  <2>1. Notifying' = Notifying \union {s} /\ s \notin Notifying
    BY <1>13 DEF SubmitAccept, Notifying
  <2>2. Awake' = Awake /\ Waiting' = Waiting
    BY <1>13 DEF SubmitAccept, Awake, Waiting
  <2>3. n' = n + 1 /\ a' = a
    BY <1>2, <2>1, <2>2, FS_AddElement DEF a, n
  <2>4. Len(queue') = Len(queue) + 1
    BY <1>13 DEF SubmitAccept
  <2> QED BY <1>4, <1>5, <2>2, <2>3, <2>4 DEF EnoughWakeUps, a, n
<1>14. ASSUME NEW s \in Submitters, SubmitNotify(s) PROVE EnoughWakeUps'
  <2>1. CASE Waiting = {}
    BY <1>8, <1>14, <2>1 DEF SubmitNotify, Return, Waiting
  <2>2. CASE Waiting # {}
    <3>1. PICK w \in Waiting : pc' = [pc EXCEPT ![s] = Return(s), ![w] = "lock"]
      BY <1>14, <2>2 DEF SubmitNotify
    <3>2. w \in Workers /\ w # s /\ pc[w] = "wait" /\ pc[s] = "notify"
      BY <1>14 DEF SubmitNotify, Waiting
    <3>3. Notifying' = Notifying \ {s} /\ s \in Notifying
      BY <3>1, <3>2 DEF Notifying, Return
    <3>4. Awake' = Awake \union {w} /\ w \notin Awake
      BY <3>1, <3>2 DEF Awake, Return
    <3>5. n' = n - 1 /\ a' = a + 1
      BY <1>2, <3>3, <3>4, FS_AddElement, FS_RemoveElement DEF a, n
    <3>6. queue' = queue
      BY <1>14 DEF SubmitNotify
    <3> QED BY <1>4, <1>5, <2>2, <3>5, <3>6 DEF EnoughWakeUps, a, n
  <2> QED BY <2>1, <2>2
(* The workers.                                                            *)
<1>15. ASSUME NEW w \in Workers, WorkerLock(w) PROVE EnoughWakeUps'
  BY <1>6, <1>15 DEF WorkerLock, Free, Awake, Notifying, Waiting
<1>16. ASSUME NEW w \in Workers, WorkerMustWait(w) \/ WorkerExit(w)
       PROVE  EnoughWakeUps'
  BY <1>7, <1>16 DEF WorkerMustWait, WorkerExit
<1>17. ASSUME NEW w \in Workers, WorkerBlock(w) PROVE EnoughWakeUps'
  BY <1>7, <1>17 DEF WorkerBlock, WakeInv, BlockInv
<1>18. ASSUME NEW w \in Workers, WorkerTake(w) PROVE EnoughWakeUps'
  <2>1. Awake' = Awake \ {w} /\ w \in Awake
    BY <1>18 DEF WorkerTake, Awake
  <2>2. Notifying' = Notifying /\ Waiting' = Waiting
    BY <1>18 DEF WorkerTake, Notifying, Waiting
  <2>3. a' = a - 1 /\ n' = n
    BY <1>2, <2>1, <2>2, FS_RemoveElement DEF a, n
  <2>4. Len(queue') = Len(queue) - 1
    BY <1>18 DEF WorkerTake
  <2> QED BY <1>4, <1>5, <2>2, <2>3, <2>4 DEF EnoughWakeUps, a, n
<1>19. ASSUME NEW w \in Workers, TaskReturn(w) PROVE EnoughWakeUps'
  BY <1>9, <1>19 DEF TaskReturn, Awake, Notifying, Waiting
<1>20. ASSUME NEW w \in Workers, TaskThrow(w) PROVE EnoughWakeUps'
  <2>1. CASE task[w] \in Posted
    BY <1>6, <1>20, <2>1 DEF TaskThrow, Awake, Notifying, Waiting
  <2>2. CASE task[w] \notin Posted
    BY <1>9, <1>20, <2>2 DEF TaskThrow, Awake, Notifying, Waiting
  <2> QED BY <2>1, <2>2
<1>21. ASSUME NEW w \in Workers, SpuriousWake(w) PROVE EnoughWakeUps'
  BY <1>9, <1>21 DEF SpuriousWake, Awake, Notifying, Waiting
(* The destructor.                                                         *)
<1>22. ASSUME DtorLock \/ DtorStop \/ DtorJoin PROVE EnoughWakeUps'
  BY <1>6, <1>22 DEF DtorLock, DtorStop, DtorJoin, Free, Awake, Notifying, Waiting
<1>23. ASSUME DtorNotifyAll PROVE EnoughWakeUps'
  BY <1>8, <1>23 DEF DtorNotifyAll, Waiting
<1>24. CASE UNCHANGED vars
  BY <1>6, <1>24 DEF vars, Awake, Notifying, Waiting
<1> QED
  BY <1>10, <1>11, <1>12, <1>13, <1>14, <1>15, <1>16, <1>17, <1>18, <1>19,
     <1>20, <1>21, <1>22, <1>23, <1>24
  DEF Next, SubmitStep, WorkerStep, DtorStep, Halted

(* No wake-up is lost: a worker sleeps only while every queued task has    *)
(* another worker or a pending notify_one to see to it.  The notify after  *)
(* the unlock in submit and post is as good as one before it.              *)
THEOREM NoLostWakeUp == Spec => []EnoughWakeUps
<1>1. Init => WakeInv
  BY PoolAssumption DEF Init, WakeInv, BlockInv, EnoughWakeUps, Waiting, Threads
<1>2. IInv /\ WakeInv /\ [Next]_vars => WakeInv'
  BY BlockNext, WakeNext DEF WakeInv
<1>3. WakeInv => EnoughWakeUps
  BY DEF WakeInv
<1> QED BY <1>1, <1>2, <1>3, Inv, PTL DEF Spec

(* What the mapped variables depend on.                                    *)
LEMMA Stutter ==
  ASSUME UNCHANGED <<queue, stop, terminated>>,
         \A t \in Tasks : fate'[t] = fate[t] \/
           {fate[t], fate'[t]} \intersect {"running", "value", "exception"} = {},
         pc'[Owner] = "done" <=> pc[Owner] = "done"
  PROVE  UNCHANGED EX!evars
<1> DEFINE run == {t \in Tasks : fate[t] = "running"}
           end == {t \in Tasks : fate[t] \in {"value", "exception"}}
<1>1. run' = run
  OBVIOUS
<1>2. end' = end
  OBVIOUS
<1>3. Phase' = Phase
  BY DEF Phase
<1> QED BY <1>1, <1>2, <1>3 DEF EX!evars

(* Every step of the pool is a step of an executor or none at all: FIFO    *)
(* start, one start and one end per task, nothing accepted after the stop, *)
(* down only when everything has ended.                                    *)
THEOREM PoolIsExecutor == Spec => EX!Safety
<1>1. Init => EX!Init
  BY PoolAssumption DEF Init, EX!Init, Phase, Threads
<1>2. IInv /\ [Next]_vars => [EX!Next]_EX!evars
  <2> SUFFICES ASSUME IInv, [Next]_vars PROVE [EX!Next]_EX!evars
    OBVIOUS
  <2> USE PoolAssumption DEF IInv, Threads, Submitters
  <2> DEFINE run == {t \in Tasks : fate[t] = "running"}
             end == {t \in Tasks : fate[t] \in {"value", "exception"}}
  <2>1. ASSUME NEW s \in Submitters, NEW t \in Tasks, SubmitLock(s, t) PROVE UNCHANGED EX!evars
    BY <2>1, Stutter DEF TypeOK, SubmitLock, Free, Return
  <2>2. ASSUME NEW s \in Submitters, SubmitThrow(s) PROVE UNCHANGED EX!evars
    BY <2>2, Stutter DEF TypeOK, SubmitThrow, SubmitInv, Return
  <2>3. ASSUME NEW s \in Submitters, SubmitNotify(s) PROVE UNCHANGED EX!evars
    BY <2>3, Stutter DEF TypeOK, SubmitNotify, Return, Waiting
  <2>4. ASSUME NEW c \in Clients, ClientDone(c) PROVE UNCHANGED EX!evars
    BY <2>4, Stutter DEF TypeOK, ClientDone
  <2>5. ASSUME NEW w \in Workers, WorkerLock(w) PROVE UNCHANGED EX!evars
    BY <2>5, Stutter DEF TypeOK, WorkerLock
  <2>6. ASSUME NEW w \in Workers, WorkerMustWait(w) PROVE UNCHANGED EX!evars
    BY <2>6, Stutter DEF TypeOK, WorkerMustWait
  <2>7. ASSUME NEW w \in Workers, WorkerBlock(w) PROVE UNCHANGED EX!evars
    BY <2>7, Stutter DEF TypeOK, WorkerBlock
  <2>8. ASSUME NEW w \in Workers, WorkerExit(w) PROVE UNCHANGED EX!evars
    BY <2>8, Stutter DEF TypeOK, WorkerExit
  <2>9. ASSUME NEW w \in Workers, SpuriousWake(w) PROVE UNCHANGED EX!evars
    BY <2>9, Stutter DEF TypeOK, SpuriousWake
  <2>10. ASSUME DtorLock PROVE UNCHANGED EX!evars
    BY <2>10, Stutter DEF TypeOK, DtorLock
  <2>11. ASSUME DtorNotifyAll PROVE UNCHANGED EX!evars
    BY <2>11, Stutter DEF TypeOK, DtorNotifyAll, Waiting
  <2>12. ASSUME NEW s \in Submitters, SubmitAccept(s) PROVE EX!Next
    <3>1. arg[s] \in Tasks /\ fate[arg[s]] = "new"
      BY <2>12 DEF TypeOK, SubmitInv, SubmitAccept
    <3>2. arg[s] \notin EX!Occupied
      BY <3>1 DEF TypeOK, QueueInv, EX!Occupied
    <3>3. Phase = "open" /\ Phase' = Phase
      BY <2>12 DEF TypeOK, ShutdownInv, Phase, SubmitAccept
    <3>4. run' = run /\ end' = end
      BY <2>12, <3>1 DEF TypeOK, SubmitAccept
    <3>5. EX!Accept(arg[s])
      BY <2>12, <3>2, <3>3, <3>4 DEF EX!Accept, SubmitAccept
    <3> QED BY <3>1, <3>5 DEF EX!Next
  <2>13. ASSUME NEW w \in Workers, WorkerTake(w) PROVE EX!Start
    <3>1. Phase \in {"open", "closing"} /\ Phase' = Phase
      BY <2>13 DEF TypeOK, ShutdownInv, Phase, WorkerTake
    <3>2. Head(queue) \in Tasks /\ fate[Head(queue)] = "queued"
      BY <2>13 DEF TypeOK, QueueInv, WorkerTake
    <3>3. run' = run \union {Head(queue)} /\ end' = end
      BY <2>13, <3>2 DEF TypeOK, WorkerTake
    <3> QED BY <2>13, <3>1, <3>3 DEF EX!Start, WorkerTake
  <2>14. ASSUME NEW w \in Workers, pc[w] = "run", ~terminated
         PROVE  /\ task[w] \in Tasks /\ fate[task[w]] = "running"
                /\ Phase \in {"open", "closing"}
    BY <2>14 DEF TypeOK, RunInv, ShutdownInv, Phase
  <2>15. ASSUME NEW w \in Workers, NEW how \in {"value", "exception"},
                pc[w] = "run", ~terminated,
                fate' = [fate EXCEPT ![task[w]] = how],
                pc' = [pc EXCEPT ![w] = "lock"],
                UNCHANGED <<queue, stop, terminated>>
         PROVE  EX!Next
    <3>1. Phase' = Phase
      BY <2>15 DEF TypeOK, Phase
    <3>2. run' = run \ {task[w]} /\ end' = end \union {task[w]}
      BY <2>14, <2>15 DEF TypeOK
    <3>3. EX!End(task[w])
      BY <2>14, <2>15, <3>1, <3>2 DEF EX!End
    <3>4. task[w] \in Tasks
      BY <2>14, <2>15
    <3> QED BY <3>3, <3>4 DEF EX!Next, EX!End
  <2>16. ASSUME NEW w \in Workers, TaskReturn(w) PROVE EX!Next
    BY <2>15, <2>16 DEF TaskReturn
  <2>17. ASSUME NEW w \in Workers, TaskThrow(w) PROVE EX!Next
    <3>1. CASE task[w] \in Posted
      <4>1. EX!Die(task[w])
        BY <2>14, <2>17, <3>1 DEF Phase, EX!Die, TaskThrow
      <4> QED BY <2>14, <2>17, <4>1 DEF EX!Next, TaskThrow
    <3>2. CASE task[w] \notin Posted
      BY <2>15, <2>17, <3>2 DEF TaskThrow
    <3> QED BY <3>1, <3>2
  <2>18. ASSUME DtorStop PROVE EX!Close
    BY <2>18 DEF TypeOK, ShutdownInv, Phase, EX!Close, DtorStop
  <2>19. ASSUME DtorJoin PROVE EX!ShutDown
    <3>1. stop /\ \A w \in Workers : pc[w] = "exited"
      BY <2>19 DEF TypeOK, ShutdownInv, DtorJoin
    <3>2. queue = <<>> /\ run = {}
      BY <3>1 DEF TypeOK, ShutdownInv, RunInv
    <3>3. Phase = "closing" /\ Phase' = "down"
      BY <2>19, <3>1 DEF TypeOK, Phase, DtorJoin
    <3>4. UNCHANGED <<queue, run, end>>
      BY <2>19 DEF DtorJoin
    <3> QED BY <3>2, <3>3, <3>4 DEF EX!ShutDown
  <2>20. CASE UNCHANGED vars
    BY <2>20, Stutter DEF vars
  <2> QED
    BY <2>1, <2>2, <2>3, <2>4, <2>5, <2>6, <2>7, <2>8, <2>9, <2>10, <2>11,
       <2>12, <2>13, <2>16, <2>17, <2>18, <2>19, <2>20
    DEF Next, SubmitStep, WorkerStep, DtorStep, Halted, EX!Next
<1> QED BY <1>1, <1>2, Inv, PTL DEF Spec, EX!Safety
=============================================================================

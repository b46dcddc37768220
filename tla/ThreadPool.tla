----------------------------- MODULE ThreadPool -----------------------------
(***************************************************************************)
(* SimpleThreadPool (thread_learning/simple_thread_pool.{hpp,cpp}): worker *)
(* threads that share one task queue under a mutex and a condition         *)
(* variable, submit/post, and the destructor that drains and joins.        *)
(*                                                                         *)
(* Every step of a thread that another thread can observe is an action of  *)
(* its own: taking m_mtx, deciding the wait predicate, blocking in wait,   *)
(* changing the queue and releasing m_mtx, notifying after the release.    *)
(* Task bodies may themselves submit tasks, may throw, and always end.     *)
(***************************************************************************)
EXTENDS Naturals, Sequences, FiniteSets

CONSTANTS
  Workers,      \* m_workers
  Clients,      \* threads outside the pool that call submit or post
  Owner,        \* the thread that runs ~SimpleThreadPool
  Tasks,        \* the callables that may be handed to the pool
  Posted,       \* those handed over by post: no packaged_task around them
  NoTask,
  NoThread,
  MaxSpurious   \* bound: spurious wake-ups of m_cv in one behaviour

Threads == Workers \union Clients \union {Owner}

(* getInstance replaces 0 workers by the hardware concurrency and that by  *)
(* 4, so the pool is never empty; a thread plays one role.                 *)
ASSUME PoolAssumption ==
  /\ Workers # {} /\ IsFiniteSet(Workers) /\ IsFiniteSet(Clients)
  /\ Workers \intersect Clients = {}
  /\ Owner \notin Workers \union Clients
  /\ Posted \subseteq Tasks
  /\ NoTask \notin Tasks
  /\ NoThread \notin Threads
  /\ MaxSpurious \in Nat

VARIABLES
  queue,      \* m_tasks
  stop,       \* m_stop
  mtx,        \* the holder of m_mtx, or NoThread
  pc,         \* where each thread is
  task,       \* the task each worker is running, or NoTask
  arg,        \* the task each thread is submitting, or NoTask
  fate,       \* what has become of each task; its future shows the last two
  terminated, \* std::terminate was called
  spurious    \* spurious wake-ups so far

vars == <<queue, stop, mtx, pc, task, arg, fate, terminated, spurious>>

WorkerPc == {"lock", "test", "block", "wait", "run", "push", "notify", "exited"}
ClientPc == {"idle", "push", "notify", "done"}
OwnerPc  == {"idle", "stop", "notify_all", "join", "done"}
Fates    == {"new", "queued", "running", "value", "exception", "rejected"}

Submitters == Workers \union Clients
Waiting    == {w \in Workers : pc[w] = "wait"}
Awake      == {w \in Workers : pc[w] \in {"lock", "test"}}
Notifying  == {s \in Submitters : pc[s] = "notify"}
Free       == mtx = NoThread /\ ~terminated

(* A task some call is already handing over cannot be handed over again.   *)
InHand(t) == \E s \in Submitters : arg[s] = t

Init ==
  /\ queue = <<>>
  /\ stop = FALSE
  /\ mtx = NoThread
  /\ pc = [t \in Threads |-> IF t \in Workers THEN "lock" ELSE "idle"]
  /\ task = [w \in Workers |-> NoTask]
  /\ arg = [s \in Submitters |-> NoTask]
  /\ fate = [t \in Tasks |-> "new"]
  /\ terminated = FALSE
  /\ spurious = 0

-----------------------------------------------------------------------------
(* submit and post: lock; throw if stopped, else emplace; unlock; notify.  *)

(* Where the caller of submit or post goes on: a worker inside its task.   *)
Return(s) == IF s \in Workers THEN "run" ELSE "idle"

SubmitLock(s, t) ==
  /\ Free
  /\ pc[s] = Return(s)
  /\ fate[t] = "new" /\ ~InHand(t)
  /\ mtx' = s
  /\ arg' = [arg EXCEPT ![s] = t]
  /\ pc' = [pc EXCEPT ![s] = "push"]
  /\ UNCHANGED <<queue, stop, task, fate, terminated, spurious>>

(* Mutant: notify_one is left out.                                         *)
SubmitAcceptNoNotify(s) ==
  /\ pc[s] = "push" /\ ~terminated
  /\ ~stop
  /\ queue' = Append(queue, arg[s])
  /\ fate' = [fate EXCEPT ![arg[s]] = "queued"]
  /\ arg' = [arg EXCEPT ![s] = NoTask]
  /\ mtx' = NoThread
  /\ pc' = [pc EXCEPT ![s] = Return(s)]
  /\ UNCHANGED <<stop, task, terminated, spurious>>

(* Mutant: notify_one only when the queue was empty before the push.       *)
SubmitAcceptNotifyFirst(s) ==
  /\ pc[s] = "push" /\ ~terminated
  /\ ~stop
  /\ queue' = Append(queue, arg[s])
  /\ fate' = [fate EXCEPT ![arg[s]] = "queued"]
  /\ arg' = [arg EXCEPT ![s] = NoTask]
  /\ mtx' = NoThread
  /\ pc' = [pc EXCEPT ![s] = IF queue = <<>> THEN "notify" ELSE Return(s)]
  /\ UNCHANGED <<stop, task, terminated, spurious>>

SubmitAccept(s) ==
  /\ pc[s] = "push" /\ ~terminated
  /\ ~stop
  /\ queue' = Append(queue, arg[s])
  /\ fate' = [fate EXCEPT ![arg[s]] = "queued"]
  /\ arg' = [arg EXCEPT ![s] = NoTask]
  /\ mtx' = NoThread
  /\ pc' = [pc EXCEPT ![s] = "notify"]
  /\ UNCHANGED <<stop, task, terminated, spurious>>

(* runtime_error("Cannot submit task to stopped thread pool"): the caller  *)
(* catches it here, or lets it escape by taking TaskThrow next.            *)
SubmitThrow(s) ==
  /\ pc[s] = "push" /\ ~terminated
  /\ stop
  /\ fate' = [fate EXCEPT ![arg[s]] = "rejected"]
  /\ arg' = [arg EXCEPT ![s] = NoTask]
  /\ mtx' = NoThread
  /\ pc' = [pc EXCEPT ![s] = Return(s)]
  /\ UNCHANGED <<queue, stop, task, terminated, spurious>>

(* notify_one outside the mutex: wakes one waiter, if there is one.        *)
SubmitNotify(s) ==
  /\ pc[s] = "notify" /\ ~terminated
  /\ IF Waiting = {}
     THEN pc' = [pc EXCEPT ![s] = Return(s)]
     ELSE \E w \in Waiting :
            pc' = [pc EXCEPT ![s] = Return(s), ![w] = "lock"]
  /\ UNCHANGED <<queue, stop, mtx, task, arg, fate, terminated, spurious>>

(* A client that will not call the pool again.                             *)
ClientDone(c) ==
  /\ pc[c] = "idle" /\ ~terminated
  /\ pc' = [pc EXCEPT ![c] = "done"]
  /\ UNCHANGED <<queue, stop, mtx, task, arg, fate, terminated, spurious>>

-----------------------------------------------------------------------------
(* The worker loop.  wait(lock, pred) evaluates pred holding m_mtx, blocks *)
(* by releasing m_mtx and joining the waiters in one step, and evaluates   *)
(* pred again after every wake-up.                                         *)

WorkerLock(w) ==
  /\ Free
  /\ pc[w] = "lock"
  /\ mtx' = w
  /\ pc' = [pc EXCEPT ![w] = "test"]
  /\ UNCHANGED <<queue, stop, task, arg, fate, terminated, spurious>>

WorkerMustWait(w) ==
  /\ pc[w] = "test" /\ ~terminated
  /\ ~stop /\ queue = <<>>
  /\ pc' = [pc EXCEPT ![w] = "block"]
  /\ UNCHANGED <<queue, stop, mtx, task, arg, fate, terminated, spurious>>

WorkerBlock(w) ==
  /\ pc[w] = "block" /\ ~terminated
  /\ mtx' = NoThread
  /\ pc' = [pc EXCEPT ![w] = "wait"]
  /\ UNCHANGED <<queue, stop, task, arg, fate, terminated, spurious>>

SpuriousWake(w) ==
  /\ pc[w] = "wait" /\ ~terminated
  /\ spurious < MaxSpurious
  /\ spurious' = spurious + 1
  /\ pc' = [pc EXCEPT ![w] = "lock"]
  /\ UNCHANGED <<queue, stop, mtx, task, arg, fate, terminated>>

(* Mutant: the queue is popped at the wrong end.                           *)
WorkerTakeNewest(w) ==
  /\ pc[w] = "test" /\ ~terminated
  /\ queue # <<>>
  /\ task' = [task EXCEPT ![w] = queue[Len(queue)]]
  /\ fate' = [fate EXCEPT ![queue[Len(queue)]] = "running"]
  /\ queue' = SubSeq(queue, 1, Len(queue) - 1)
  /\ mtx' = NoThread
  /\ pc' = [pc EXCEPT ![w] = "run"]
  /\ UNCHANGED <<stop, arg, terminated, spurious>>

WorkerTake(w) ==
  /\ pc[w] = "test" /\ ~terminated
  /\ queue # <<>>
  /\ task' = [task EXCEPT ![w] = Head(queue)]
  /\ fate' = [fate EXCEPT ![Head(queue)] = "running"]
  /\ queue' = Tail(queue)
  /\ mtx' = NoThread
  /\ pc' = [pc EXCEPT ![w] = "run"]
  /\ UNCHANGED <<stop, arg, terminated, spurious>>

(* Mutant: a stopped worker leaves without looking at the queue.           *)
WorkerExitEarly(w) ==
  /\ pc[w] = "test" /\ ~terminated
  /\ stop
  /\ mtx' = NoThread
  /\ pc' = [pc EXCEPT ![w] = "exited"]
  /\ UNCHANGED <<queue, stop, task, arg, fate, terminated, spurious>>

WorkerExit(w) ==
  /\ pc[w] = "test" /\ ~terminated
  /\ stop /\ queue = <<>>
  /\ mtx' = NoThread
  /\ pc' = [pc EXCEPT ![w] = "exited"]
  /\ UNCHANGED <<queue, stop, task, arg, fate, terminated, spurious>>

TaskReturn(w) ==
  /\ pc[w] = "run" /\ ~terminated
  /\ fate' = [fate EXCEPT ![task[w]] = "value"]
  /\ task' = [task EXCEPT ![w] = NoTask]
  /\ pc' = [pc EXCEPT ![w] = "lock"]
  /\ UNCHANGED <<queue, stop, mtx, arg, terminated, spurious>>

(* A packaged_task stores the exception in the future; a posted callable   *)
(* lets it leave the thread function, which calls std::terminate.          *)
TaskThrow(w) ==
  /\ pc[w] = "run" /\ ~terminated
  /\ IF task[w] \in Posted
     THEN /\ terminated' = TRUE
          /\ UNCHANGED <<fate, task, pc>>
     ELSE /\ fate' = [fate EXCEPT ![task[w]] = "exception"]
          /\ task' = [task EXCEPT ![w] = NoTask]
          /\ pc' = [pc EXCEPT ![w] = "lock"]
          /\ UNCHANGED terminated
  /\ UNCHANGED <<queue, stop, mtx, arg, spurious>>

-----------------------------------------------------------------------------
(* ~SimpleThreadPool.  The C++ object-lifetime rule lets it start only     *)
(* when no thread outside the pool is inside, or will make, a call.        *)

(* Mutant: m_stop is set without taking m_mtx first.                       *)
DtorStopUnlocked ==
  /\ pc[Owner] = "idle" /\ ~terminated
  /\ \A c \in Clients : pc[c] = "done"
  /\ stop' = TRUE
  /\ pc' = [pc EXCEPT ![Owner] = "notify_all"]
  /\ UNCHANGED <<queue, mtx, task, arg, fate, terminated, spurious>>

DtorLock ==
  /\ Free
  /\ pc[Owner] = "idle"
  /\ \A c \in Clients : pc[c] = "done"
  /\ mtx' = Owner
  /\ pc' = [pc EXCEPT ![Owner] = "stop"]
  /\ UNCHANGED <<queue, stop, task, arg, fate, terminated, spurious>>

DtorStop ==
  /\ pc[Owner] = "stop" /\ ~terminated
  /\ stop' = TRUE
  /\ mtx' = NoThread
  /\ pc' = [pc EXCEPT ![Owner] = "notify_all"]
  /\ UNCHANGED <<queue, task, arg, fate, terminated, spurious>>

DtorNotifyAll ==
  /\ pc[Owner] = "notify_all" /\ ~terminated
  /\ pc' = [t \in Threads |-> IF t \in Waiting THEN "lock"
                              ELSE IF t = Owner THEN "join" ELSE pc[t]]
  /\ UNCHANGED <<queue, stop, mtx, task, arg, fate, terminated, spurious>>

(* join returns for every worker; joining them in turn ends when the last  *)
(* has exited.                                                             *)
DtorJoin ==
  /\ pc[Owner] = "join" /\ ~terminated
  /\ \A w \in Workers : pc[w] = "exited"
  /\ pc' = [pc EXCEPT ![Owner] = "done"]
  /\ UNCHANGED <<queue, stop, mtx, task, arg, fate, terminated, spurious>>

(* The pool is gone, or the whole process is: nothing runs any more.       *)
Halted ==
  /\ pc[Owner] = "done" \/ terminated
  /\ UNCHANGED vars

-----------------------------------------------------------------------------
SubmitStep(s) == SubmitAccept(s) \/ SubmitThrow(s) \/ SubmitNotify(s)

WorkerStep(w) ==
  \/ WorkerLock(w)
  \/ WorkerMustWait(w)
  \/ WorkerBlock(w)
  \/ WorkerTake(w)
  \/ WorkerExit(w)
  \/ TaskReturn(w)
  \/ TaskThrow(w)

DtorStep == DtorLock \/ DtorStop \/ DtorNotifyAll \/ DtorJoin

Next ==
  \/ \E s \in Submitters : SubmitStep(s) \/ \E t \in Tasks : SubmitLock(s, t)
  \/ \E c \in Clients : ClientDone(c)
  \/ \E w \in Workers : WorkerStep(w) \/ SpuriousWake(w)
  \/ DtorStep
  \/ Halted

(* The OS schedules every runnable thread, a call into the pool is carried *)
(* through, and task bodies end.  Nobody has to call submit or destroy the *)
(* pool, and a condition variable need never wake up by itself.            *)
Fairness ==
  /\ \A s \in Submitters : WF_vars(SubmitStep(s))
  /\ \A w \in Workers : WF_vars(WorkerStep(w))
  /\ WF_vars(DtorStop \/ DtorNotifyAll \/ DtorJoin)

Spec == Init /\ [][Next]_vars
FairSpec == Spec /\ Fairness

-----------------------------------------------------------------------------
(* The variables keep to the values the code can give them, and at most    *)
(* the holder of m_mtx is inside a critical section of it.                 *)
TypeOK ==
  /\ queue \in Seq(Tasks)
  /\ stop \in BOOLEAN
  /\ mtx \in Threads \union {NoThread}
  /\ pc \in [Threads -> WorkerPc \union ClientPc \union OwnerPc]
  /\ \A w \in Workers : pc[w] \in WorkerPc
  /\ \A c \in Clients : pc[c] \in ClientPc
  /\ pc[Owner] \in OwnerPc
  /\ task \in [Workers -> Tasks \union {NoTask}]
  /\ arg \in [Submitters -> Tasks \union {NoTask}]
  /\ fate \in [Tasks -> Fates]
  /\ terminated \in BOOLEAN
  /\ spurious \in 0..MaxSpurious

(* No worker sleeps while work is unclaimed: if some worker is blocked in  *)
(* wait, every queued task has either a worker that is awake and on its    *)
(* way to the queue, or a submitter that is about to call notify_one.      *)
(* (The notify_one calls after the unlock in submit and post are enough.)  *)
EnoughWakeUps ==
  Waiting # {} =>
    Len(queue) <= Cardinality(Awake) + Cardinality(Notifying)

(* When the destructor returns nothing that submit or post accepted is     *)
(* left behind: the queue is empty, no task is half run, every future that *)
(* was handed out is ready.                                                *)
DrainedWhenDestroyed ==
  pc[Owner] = "done" =>
    /\ queue = <<>>
    /\ \A t \in Tasks : fate[t] \notin {"queued", "running"}

(* An accepted task ends, whether or not the pool is being destroyed.      *)
AcceptedEnds ==
  \A t \in Tasks :
    fate[t] = "queued" ~> (fate[t] \in {"value", "exception"} \/ terminated)

(* The destructor returns once it has the mutex: no worker misses the stop *)
(* and stays blocked in wait while the destructor joins it.                *)
DtorReturns ==
  pc[Owner] \in {"stop", "notify_all"} ~> (pc[Owner] = "done" \/ terminated)

(* The pool is an executor: FIFO start, one start and one end per task, no *)
(* acceptance after the stop, and the fairness an executor promises.       *)
Phase ==
  IF terminated THEN "dead"
  ELSE IF pc[Owner] = "done" THEN "down"
  ELSE IF stop THEN "closing" ELSE "open"

EX == INSTANCE Executor WITH
        pending <- queue,
        running <- {t \in Tasks : fate[t] = "running"},
        ended   <- {t \in Tasks : fate[t] \in {"value", "exception"}},
        phase   <- Phase

ImplementsExecutor == EX!Spec
=============================================================================

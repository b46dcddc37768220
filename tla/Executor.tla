------------------------------ MODULE Executor ------------------------------
(***************************************************************************)
(* What a task executor promises to the threads that hand it work, without *)
(* mutexes, condition variables or worker threads: accepted tasks start in *)
(* the order they were accepted, each starts once and ends once, nothing   *)
(* is accepted after the executor was closed, and it is down only when     *)
(* every accepted task has ended.  ThreadPool implements this module.      *)
(***************************************************************************)
EXTENDS Naturals, Sequences

CONSTANT Tasks

VARIABLES
  pending,    \* accepted tasks that have not started, oldest first
  running,    \* tasks that have started and not ended
  ended,      \* tasks that have ended, with a value or with an exception
  phase       \* "open", "closing", "down", or "dead" after std::terminate

evars == <<pending, running, ended, phase>>

Occupied == {pending[i] : i \in DOMAIN pending} \union running \union ended

Init ==
  /\ pending = <<>>
  /\ running = {}
  /\ ended = {}
  /\ phase = "open"

Accept(t) ==
  /\ phase = "open"
  /\ t \notin Occupied
  /\ pending' = Append(pending, t)
  /\ UNCHANGED <<running, ended, phase>>

Start ==
  /\ phase \in {"open", "closing"}
  /\ pending # <<>>
  /\ running' = running \union {Head(pending)}
  /\ pending' = Tail(pending)
  /\ UNCHANGED <<ended, phase>>

End(t) ==
  /\ phase \in {"open", "closing"}
  /\ t \in running
  /\ running' = running \ {t}
  /\ ended' = ended \union {t}
  /\ UNCHANGED <<pending, phase>>

Close ==
  /\ phase = "open"
  /\ phase' = "closing"
  /\ UNCHANGED <<pending, running, ended>>

ShutDown ==
  /\ phase = "closing"
  /\ pending = <<>>
  /\ running = {}
  /\ phase' = "down"
  /\ UNCHANGED <<pending, running, ended>>

(* A task without a future let an exception escape: the process dies. *)
Die(t) ==
  /\ phase \in {"open", "closing"}
  /\ t \in running
  /\ phase' = "dead"
  /\ UNCHANGED <<pending, running, ended>>

Next ==
  \/ \E t \in Tasks : Accept(t) \/ End(t) \/ Die(t)
  \/ Start
  \/ Close
  \/ ShutDown

Safety == Init /\ [][Next]_evars

(* Started work ends, accepted work starts, and a closed executor that has *)
(* nothing left to do goes down.                                           *)
Fairness ==
  /\ WF_evars(Start)
  /\ \A t \in Tasks : WF_evars(End(t) \/ Die(t))
  /\ WF_evars(ShutDown)

Spec == Safety /\ Fairness
=============================================================================

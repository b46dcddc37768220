----------------------------- MODULE Deadlines -----------------------------
(***************************************************************************)
(* What a timer collection promises, without a heap: a deadline per id, a  *)
(* sweep that removes due ids in the order of their deadlines and leaves   *)
(* none of them behind, for as long as the clock does not step back.       *)
(* HeapTimer implements this module.                                       *)
(***************************************************************************)
EXTENDS Integers

CONSTANTS
  Ids,
  Timeout,    \* the delay every deadline is set with, in clock ticks
  Slack       \* a deadline is due when it is less than Slack ticks away

VARIABLES
  deadline,   \* the ids that have a timer, and when each expires
  now,
  steady,     \* the clock has never stepped back
  sweeping

dvars == <<deadline, now, steady, sweeping>>

Armed == DOMAIN deadline
Due(id) == deadline[id] - now < Slack
Drop(id) == deadline' = [i \in Armed \ {id} |-> deadline[i]]

Init ==
  /\ deadline = [id \in {} |-> 0]
  /\ now = 0
  /\ steady = TRUE
  /\ sweeping = FALSE

Set(id) ==
  /\ ~sweeping
  /\ deadline' = [i \in Armed \union {id} |->
                    IF i = id THEN now + Timeout ELSE deadline[i]]
  /\ UNCHANGED <<now, steady, sweeping>>

Cancel(id) ==
  /\ ~sweeping
  /\ id \in Armed
  /\ Drop(id)
  /\ UNCHANGED <<now, steady, sweeping>>

StartSweep ==
  /\ ~sweeping
  /\ sweeping' = TRUE
  /\ UNCHANGED <<deadline, now, steady>>

Expire(id) ==
  /\ sweeping
  /\ id \in Armed /\ Due(id)
  /\ steady => \A i \in Armed : deadline[id] <= deadline[i]
  /\ Drop(id)
  /\ UNCHANGED <<now, steady, sweeping>>

EndSweep ==
  /\ sweeping
  /\ steady => \A id \in Armed : ~Due(id)
  /\ sweeping' = FALSE
  /\ UNCHANGED <<deadline, now, steady>>

Pass ==
  /\ now' # now
  /\ steady' = (steady /\ now' > now)
  /\ UNCHANGED <<deadline, sweeping>>

Next ==
  \/ \E id \in Ids : Set(id) \/ Cancel(id) \/ Expire(id)
  \/ StartSweep
  \/ EndSweep
  \/ Pass

Spec == Init /\ [][Next]_dvars
=============================================================================

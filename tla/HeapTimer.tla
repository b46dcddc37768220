----------------------------- MODULE HeapTimer -----------------------------
(***************************************************************************)
(* heapTimer (webserver/heapTimer.hpp): a binary min-heap of expiry times  *)
(* with the position of each fd on the side.  One call at a time; each     *)
(* iteration of a sift loop is an action, so that nothing here recurses.   *)
(* Time passes between the points where the code reads the clock.          *)
(*                                                                         *)
(* heap_[i] is heap[i + 1] here.                                           *)
(***************************************************************************)
EXTENDS Integers, Sequences, FiniteSets

CONSTANTS
  Ids,        \* fds
  Timeout,    \* TIMEOUT_MS, in clock ticks: the timeout of every call
  MsTicks,    \* clock ticks per millisecond
  MaxNow,     \* bound: the latest time
  MaxBack,    \* bound: how often the clock steps back
  NoId

ASSUME TimerAssumption ==
  /\ NoId \notin Ids
  /\ Timeout \in Nat \ {0} /\ MsTicks \in Nat \ {0}
  /\ MaxNow \in Nat /\ MaxBack \in Nat

VARIABLES
  heap,     \* heap_: nodes with an id and an expiry time
  ref,      \* ref_: where each id's node is
  now,      \* Clock::now()
  back,     \* how often the clock has stepped back
  pc,       \* where the call under way is
  at,       \* the index i of the sift loop
  start,    \* the index the sift began with
  lim,      \* the n of siftDown_
  next,     \* where the sift goes on to
  victim,   \* the node tick or doWork is deleting
  sweep,    \* whether tick is running, and for whom
  result    \* what getNextTick returned last

vars == <<heap, ref, now, back, pc, at, start, lim, next, victim, sweep, result>>

loopvars == <<at, start, lim, next>>

Init ==
  /\ heap = <<>>
  /\ ref = [id \in {} |-> 0]
  /\ now = 0
  /\ back = 0
  /\ pc = "idle"
  /\ at = 1 /\ start = 1 /\ lim = 0 /\ next = "idle"
  /\ victim = NoId
  /\ sweep = "no"
  /\ result = -1

-----------------------------------------------------------------------------
Size == Len(heap)
Less(i, j) == heap[i].exp < heap[j].exp
Parent(i) == i \div 2

(* Mutant: only one of the two positions is recorded.                      *)
SwapHalf(i, j) ==
  /\ heap' = [heap EXCEPT ![i] = heap[j], ![j] = heap[i]]
  /\ ref' = [ref EXCEPT ![heap[j].id] = i]

(* swapNode_                                                               *)
Swap(i, j) ==
  /\ heap' = [heap EXCEPT ![i] = heap[j], ![j] = heap[i]]
  /\ ref' = [ref EXCEPT ![heap[j].id] = i, ![heap[i].id] = j]

(* siftUp_                                                                 *)

UpStop ==
  /\ pc = "up" /\ at > 1
  /\ Less(Parent(at), at)
  /\ pc' = next
  /\ UNCHANGED <<heap, ref, now, back, loopvars, victim, sweep, result>>

UpSwap ==
  /\ pc = "up" /\ at > 1
  /\ ~Less(Parent(at), at)
  /\ Swap(at, Parent(at))
  /\ at' = Parent(at)
  /\ UNCHANGED <<now, back, pc, start, lim, next, victim, sweep, result>>

(* At the root (0 - 1) / 2 is SIZE_MAX / 2 and j >= 0 holds: the loop      *)
(* compares with what happens to lie before the vector's storage.  It      *)
(* breaks, or swapNode_ asserts that j is inside the heap.                 *)
UpPastRoot ==
  /\ pc = "up" /\ at = 1
  /\ pc' \in {next, "aborted"}
  /\ UNCHANGED <<heap, ref, now, back, loopvars, victim, sweep, result>>

(* siftDown_                                                               *)

(* Mutant: the right child is never looked at.                             *)
LeftChild(i) == 2 * i

Child(i) == IF 2 * i + 1 <= lim /\ Less(2 * i + 1, 2 * i) THEN 2 * i + 1 ELSE 2 * i

SinksBelow(i) == 2 * i <= lim /\ ~Less(i, Child(i))

DownSwap ==
  /\ pc = "down"
  /\ SinksBelow(at)
  /\ Swap(at, Child(at))
  /\ at' = Child(at)
  /\ UNCHANGED <<now, back, pc, start, lim, next, victim, sweep, result>>

(* del_ sifts up a node that did not sink.                                 *)
DownStop ==
  /\ pc = "down"
  /\ ~SinksBelow(at)
  /\ pc' = IF next = "erase" /\ at = start THEN "up" ELSE next
  /\ UNCHANGED <<heap, ref, now, back, loopvars, victim, sweep, result>>

Sift(dir, i, n, then) ==
  /\ pc' = dir
  /\ at' = i /\ start' = i /\ lim' = n
  /\ next' = then

-----------------------------------------------------------------------------
(* del_: swap with the last node, restore the order, drop the last node.   *)

Delete(i) ==
  /\ victim' = heap[i].id
  /\ IF i < Size
     THEN Swap(i, Size) /\ Sift("down", i, Size - 1, "erase")
     ELSE pc' = "erase" /\ UNCHANGED <<heap, ref, loopvars>>

(* Mutant: ref_ keeps the id.                                              *)
EraseOnlyNode ==
  /\ pc = "erase"
  /\ heap' = SubSeq(heap, 1, Size - 1)
  /\ victim' = NoId
  /\ pc' = IF sweep = "no" THEN "idle" ELSE "tick"
  /\ UNCHANGED <<ref, now, back, loopvars, sweep, result>>

Erase ==
  /\ pc = "erase"
  /\ ref' = [id \in DOMAIN ref \ {heap[Size].id} |-> ref[id]]
  /\ heap' = SubSeq(heap, 1, Size - 1)
  /\ victim' = NoId
  /\ pc' = IF sweep = "no" THEN "idle" ELSE "tick"
  /\ UNCHANGED <<now, back, loopvars, sweep, result>>

-----------------------------------------------------------------------------
(* add, adjust, doWork                                                     *)

AddNew(id) ==
  /\ pc = "idle"
  /\ id \notin DOMAIN ref
  /\ heap' = Append(heap, [id |-> id, exp |-> now + Timeout])
  /\ ref' = [i \in DOMAIN ref \union {id} |-> IF i = id THEN Size + 1 ELSE ref[i]]
  /\ Sift("up", Size + 1, Size + 1, "idle")
  /\ UNCHANGED <<now, back, victim, sweep, result>>

(* add of an id that has a timer, and adjust, which asserts that it has:   *)
(* both only let the node sink.                                            *)
Renew(id) ==
  /\ pc = "idle"
  /\ id \in DOMAIN ref
  /\ heap' = [heap EXCEPT ![ref[id]].exp = now + Timeout]
  /\ Sift("down", ref[id], Size, "idle")
  /\ UNCHANGED <<ref, now, back, victim, sweep, result>>

(* The callback closes a connection; the timers do not notice.             *)
DoWork(id) ==
  /\ pc = "idle"
  /\ id \in DOMAIN ref
  /\ Delete(ref[id])
  /\ UNCHANGED <<now, back, sweep, result>>

-----------------------------------------------------------------------------
(* tick, getNextTick                                                       *)

TruncDiv(a, b) == IF a >= 0 THEN a \div b ELSE -((-a) \div b)

(* duration_cast<MS>(expires - now).count(), which truncates toward zero.  *)
MsLeft == TruncDiv(heap[1].exp - now, MsTicks)
FrontExpired == heap # <<>> /\ MsLeft <= 0

Tick(for) ==
  /\ pc = "idle"
  /\ pc' = "tick"
  /\ sweep' = for
  /\ UNCHANGED <<heap, ref, now, back, loopvars, victim, result>>

TickFire ==
  /\ pc = "tick"
  /\ FrontExpired
  /\ Delete(1)
  /\ UNCHANGED <<now, back, sweep, result>>

(* Mutant: one timer per tick.                                             *)
TickOnce ==
  /\ pc = "tick"
  /\ pc' = IF sweep = "next" THEN "next" ELSE "idle"
  /\ sweep' = "no"
  /\ UNCHANGED <<heap, ref, now, back, loopvars, victim, result>>

TickEnd ==
  /\ pc = "tick"
  /\ ~FrontExpired
  /\ pc' = IF sweep = "next" THEN "next" ELSE "idle"
  /\ sweep' = "no"
  /\ UNCHANGED <<heap, ref, now, back, loopvars, victim, result>>

(* res is a size_t, so that res < 0 is never true and a negative count     *)
(* comes out of the conversion to int as it went in.                       *)
NextTick ==
  /\ pc = "next"
  /\ result' = IF heap = <<>> THEN -1 ELSE MsLeft
  /\ pc' = "idle"
  /\ UNCHANGED <<heap, ref, now, back, loopvars, victim, sweep>>

-----------------------------------------------------------------------------
(* The clock is read only here; it is a system clock and may be set back.  *)
ReadsClock == pc \in {"idle", "tick", "next"}

Advance ==
  /\ ReadsClock
  /\ now < MaxNow
  /\ now' = now + 1
  /\ UNCHANGED <<heap, ref, back, pc, loopvars, victim, sweep, result>>

StepBack ==
  /\ ReadsClock
  /\ back < MaxBack /\ now > 0
  /\ now' = now - 1
  /\ back' = back + 1
  /\ UNCHANGED <<heap, ref, pc, loopvars, victim, sweep, result>>

-----------------------------------------------------------------------------
Inside ==
  \/ UpStop \/ UpSwap \/ UpPastRoot
  \/ DownSwap \/ DownStop
  \/ Erase
  \/ TickFire \/ TickEnd \/ NextTick

Next ==
  \/ Inside
  \/ \E id \in Ids : AddNew(id) \/ Renew(id) \/ DoWork(id)
  \/ \E for \in {"tick", "next"} : Tick(for)
  \/ Advance \/ StepBack

Spec == Init /\ [][Next]_vars

-----------------------------------------------------------------------------
Node == [id : Ids, exp : Int]

(* The variables keep to the values the code can give them, and every      *)
(* index used is inside the heap.                                          *)
HTypeOK ==
  /\ heap \in Seq(Node)
  /\ DOMAIN ref \subseteq Ids
  /\ \A id \in DOMAIN ref : ref[id] \in 1..Size
  /\ now \in 0..MaxNow /\ back \in 0..MaxBack
  /\ pc \in {"idle", "up", "down", "erase", "tick", "next", "aborted"}
  /\ next \in {"idle", "erase"}
  /\ pc \in {"up", "down"} => {at, start} \subseteq 1..Size /\ lim \in 0..Size
  /\ pc = "erase" => heap # <<>>
  /\ victim \in Ids \union {NoId}
  /\ sweep \in {"no", "tick", "next"}
  /\ result \in Int

(* ref_ tells for each id where its node is, and knows no other id, in the *)
(* middle of every sift and deletion too.                                  *)
RefConsistent ==
  /\ \A i \in 1..Size : heap[i].id \in DOMAIN ref /\ ref[heap[i].id] = i
  /\ \A id \in DOMAIN ref : ref[id] \in 1..Size /\ heap[ref[id]].id = id

(* Between calls the heap is ordered, although renewing a timer never      *)
(* sifts up: with one timeout and a clock that has not stepped back a      *)
(* renewed timer is the latest.                                            *)
HeapOrder ==
  ReadsClock /\ back = 0 => \A i \in 2..Size : ~Less(i, Parent(i))

(* The heap implements the collection of deadlines: each sweep takes only  *)
(* due ids and deletes what it takes; as long as the clock has not stepped *)
(* back it takes them in order and leaves nothing due behind.              *)
Deadline ==
  [id \in {heap[i].id : i \in 1..Size} \ {victim} |->
     heap[CHOOSE i \in 1..Size : heap[i].id = id].exp]

DL == INSTANCE Deadlines WITH
        deadline <- Deadline,
        sweeping <- sweep # "no",
        steady   <- back = 0,
        Slack    <- MsTicks

ImplementsDeadlines == DL!Spec

(* getNextTick never tells epoll_wait to sleep past a timer, whichever it  *)
(* is: the front it looks at is the earliest, and rounding goes down.      *)
EpollWakesInTime ==
  [][pc = "next" /\ pc' = "idle" /\ back = 0 /\ result' > 0 =>
       \A i \in 1..Size : result' * MsTicks <= heap[i].exp - now]_vars

(* The assertions of swapNode_ (heapTimer.hpp:70-71) hold.                 *)
IndicesInHeap == pc # "aborted"
=============================================================================

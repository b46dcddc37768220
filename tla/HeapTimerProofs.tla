--------------------------- MODULE HeapTimerProofs ---------------------------
(***************************************************************************)
(* Theorems about HeapTimer, for any set of fds, any timeout, resolution   *)
(* of the clock and number of steps back.                                  *)
(***************************************************************************)
EXTENDS HeapTimer, SequenceTheorems, WellFoundedInduction, TLAPS

(* A deletion is under way; the node to go is the last one.                *)
Deleting == pc = "erase" \/ (pc \in {"up", "down"} /\ next = "erase")

(* The nodes that belong to the heap.                                      *)
Live == IF Deleting THEN Size - 1 ELSE Size

CallInv ==
  /\ Deleting => heap # <<>> /\ victim = heap[Size].id
  /\ ~Deleting /\ pc # "aborted" => victim = NoId
  /\ pc \in {"up", "down"} => {at, start} \subseteq 1..Live
  /\ pc = "down" => lim = Live
  /\ sweep # "no" => Deleting \/ pc \in {"tick", "aborted"}
  /\ pc = "tick" => sweep # "no"

DataInv == HTypeOK /\ RefConsistent /\ CallInv

-----------------------------------------------------------------------------
(* Exchanging two nodes keeps every node, and ref_ with it.                *)
LEMMA SwapKeeps ==
  ASSUME DataInv, NEW i \in 1..Size, NEW j \in 1..Size, i # j, Swap(i, j)
  PROVE  /\ heap' \in Seq(Node) /\ Size' = Size
         /\ DOMAIN ref' = DOMAIN ref
         /\ \A id \in DOMAIN ref' : ref'[id] \in 1..Size
         /\ RefConsistent'
         /\ heap'[i] = heap[j] /\ heap'[j] = heap[i]
         /\ \A k \in 1..Size \ {i, j} : heap'[k] = heap[k]
<1>1. heap \in Seq(Node) /\ Len(heap) \in Nat /\ Size = Len(heap)
  BY DEF DataInv, HTypeOK, Size
<1>2. heap' = [heap EXCEPT ![i] = heap[j], ![j] = heap[i]]
  BY DEF Swap
<1>3. heap' \in Seq(Node) /\ Len(heap') = Len(heap) /\ Size' = Size
  BY <1>1, <1>2 DEF Size
<1>4. /\ heap'[i] = heap[j] /\ heap'[j] = heap[i]
      /\ \A k \in 1..Size \ {i, j} : heap'[k] = heap[k]
  BY <1>1, <1>2
<1>5. /\ \A k \in 1..Size : heap[k].id \in DOMAIN ref /\ ref[heap[k].id] = k
      /\ \A id \in DOMAIN ref : ref[id] \in 1..Size /\ heap[ref[id]].id = id
  BY DEF DataInv, RefConsistent
<1>6. /\ DOMAIN ref' = DOMAIN ref
      /\ ref'[heap[j].id] = i /\ ref'[heap[i].id] = j
      /\ \A id \in DOMAIN ref \ {heap[i].id, heap[j].id} : ref'[id] = ref[id]
  BY <1>5 DEF Swap
<1>7. \A id \in DOMAIN ref' : ref'[id] \in 1..Size
  BY <1>5, <1>6
<1>8. ASSUME NEW k \in 1..Size
      PROVE  heap'[k].id \in DOMAIN ref' /\ ref'[heap'[k].id] = k
  <2>1. CASE k \in {i, j}
    BY <1>4, <1>5, <1>6, <2>1
  <2>2. CASE k \notin {i, j}
    <3>1. heap[k].id \notin {heap[i].id, heap[j].id}
      BY <1>5, <2>2
    <3> QED BY <1>4, <1>5, <1>6, <2>2, <3>1
  <2> QED BY <2>1, <2>2
<1>9. ASSUME NEW id \in DOMAIN ref' PROVE heap'[ref'[id]].id = id
  <2>1. CASE id \in {heap[i].id, heap[j].id}
    BY <1>4, <1>6, <2>1
  <2>2. CASE id \notin {heap[i].id, heap[j].id}
    <3>1. ref'[id] = ref[id] /\ ref[id] \in 1..Size \ {i, j}
      BY <1>5, <1>6, <2>2
    <3> QED BY <1>4, <1>5, <1>6, <3>1
  <2> QED BY <2>1, <2>2
<1> QED BY <1>3, <1>4, <1>6, <1>7, <1>8, <1>9 DEF RefConsistent

(* duration_cast truncates: a count that is not positive is a deadline     *)
(* less than a millisecond away.                                           *)
LEMMA Truncated ==
  ASSUME NEW a \in Int, NEW b \in Nat \ {0}
  PROVE  /\ TruncDiv(a, b) \in Int
         /\ TruncDiv(a, b) <= 0 <=> a < b
         /\ TruncDiv(a, b) > 0 => TruncDiv(a, b) * b <= a
<1>1. ASSUME NEW c \in Nat PROVE c \div b \in Nat /\ (c \div b) * b <= c
  OBVIOUS
<1>2. ASSUME NEW c \in Nat PROVE c \div b = 0 <=> c < b
  OBVIOUS
<1>3. CASE a >= 0
  BY <1>1, <1>2, <1>3 DEF TruncDiv
<1>4. CASE a < 0
  <2>1. -a \in Nat
    BY <1>4
  <2>2. (-a) \div b \in Nat
    BY <1>1, <2>1
  <2> QED BY <1>4, <2>2 DEF TruncDiv
<1> QED BY <1>3, <1>4

LEMMA MsLeftType ==
  ASSUME HTypeOK, heap # <<>>
  PROVE  /\ MsLeft \in Int
         /\ MsLeft <= 0 <=> heap[1].exp - now < MsTicks
         /\ MsLeft > 0 => MsLeft * MsTicks <= heap[1].exp - now
<1>1. heap \in Seq(Node) /\ now \in Int /\ MsTicks \in Nat \ {0}
  BY TimerAssumption DEF HTypeOK
<1>2. 1 \in 1..Len(heap)
  BY <1>1
<1>3. heap[1] \in Node
  BY <1>1, <1>2
<1>4. heap[1].exp - now \in Int
  BY <1>1, <1>3 DEF Node
<1> QED BY <1>1, <1>4, Truncated DEF MsLeft

(* Erasing drops the last node and no other.                               *)
LEMMA LastDropped ==
  ASSUME HTypeOK, Erase
  PROVE  /\ heap' \in Seq(Node) /\ Size' = Size - 1 /\ Size > 0
         /\ \A k \in 1..(Size - 1) : heap'[k] = heap[k]
<1> DEFINE n == Size - 1
<1>1. heap \in Seq(Node) /\ heap # <<>> /\ heap' = SubSeq(heap, 1, n)
  BY DEF HTypeOK, Erase
<1>2. Size \in Nat /\ Size > 0
  BY <1>1 DEF Size
<1>3. n \in Nat /\ 1 \in Int /\ n \in Int /\ \A k \in 1..n : heap[k] \in Node
  BY <1>1, <1>2 DEF Size
<1> HIDE DEF n
<1>4. /\ SubSeq(heap, 1, n) \in Seq(Node)
      /\ Len(SubSeq(heap, 1, n)) = n
      /\ \A k \in 1..n : SubSeq(heap, 1, n)[k] = heap[k]
  BY <1>3, SubSeqProperties
<1> QED BY <1>1, <1>2, <1>4 DEF n, Size

-----------------------------------------------------------------------------
LEMMA DataInit == Init => DataInv
<1> SUFFICES ASSUME Init PROVE DataInv
  OBVIOUS
<1> USE TimerAssumption DEF Init
<1>1. Size = 0 /\ DOMAIN ref = {}
  BY DEF Size
<1>2. HTypeOK
  BY <1>1 DEF HTypeOK
<1>3. RefConsistent /\ CallInv
  BY <1>1 DEF RefConsistent, CallInv, Deleting
<1> QED BY <1>2, <1>3 DEF DataInv

LEMMA DataStep == DataInv /\ [Next]_vars => DataInv'
<1> SUFFICES ASSUME DataInv, [Next]_vars PROVE DataInv'
  OBVIOUS
<1> USE TimerAssumption DEF DataInv, Deleting, Live, Size, loopvars
<1>s. heap \in Seq(Node) /\ Len(heap) \in Nat
  BY DEF HTypeOK
<1>1. CASE UpStop
  <2>1. heap' = heap /\ ref' = ref
    BY <1>1 DEF UpStop
  <2>2. HTypeOK'
    BY <1>1, <2>1 DEF UpStop, ReadsClock, HTypeOK, CallInv
  <2>3. RefConsistent'
    BY <2>1 DEF RefConsistent
  <2>4. CallInv'
    BY <1>1, <2>1 DEF UpStop, ReadsClock, HTypeOK, CallInv
  <2> QED BY <2>2, <2>3, <2>4
<1>2. CASE UpPastRoot
  <2>1. heap' = heap /\ ref' = ref
    BY <1>2 DEF UpPastRoot
  <2>2. HTypeOK'
    BY <1>2, <2>1 DEF UpPastRoot, ReadsClock, HTypeOK, CallInv
  <2>3. RefConsistent'
    BY <2>1 DEF RefConsistent
  <2>4. CallInv'
    BY <1>2, <2>1 DEF UpPastRoot, ReadsClock, HTypeOK, CallInv
  <2> QED BY <2>2, <2>3, <2>4
<1>3. CASE DownStop
  <2>1. heap' = heap /\ ref' = ref
    BY <1>3 DEF DownStop
  <2>2. HTypeOK'
    BY <1>3, <2>1 DEF DownStop, ReadsClock, HTypeOK, CallInv
  <2>3. RefConsistent'
    BY <2>1 DEF RefConsistent
  <2>4. CallInv'
    BY <1>3, <2>1 DEF DownStop, ReadsClock, HTypeOK, CallInv
  <2> QED BY <2>2, <2>3, <2>4
<1>4. CASE TickEnd \/ \E for \in {"tick", "next"} : Tick(for)
  <2>1. heap' = heap /\ ref' = ref
    BY <1>4 DEF TickEnd, Tick
  <2>2. HTypeOK'
    BY <1>4, <2>1 DEF TickEnd, Tick, ReadsClock, HTypeOK, CallInv
  <2>3. RefConsistent'
    BY <2>1 DEF RefConsistent
  <2>4. CallInv'
    BY <1>4, <2>1 DEF TickEnd, Tick, ReadsClock, HTypeOK, CallInv
  <2> QED BY <2>2, <2>3, <2>4
<1>5. CASE Advance
  <2>1. heap' = heap /\ ref' = ref
    BY <1>5 DEF Advance
  <2>2. HTypeOK'
    BY <1>5, <2>1 DEF Advance, ReadsClock, HTypeOK, CallInv
  <2>3. RefConsistent'
    BY <2>1 DEF RefConsistent
  <2>4. CallInv'
    BY <1>5, <2>1 DEF Advance, ReadsClock, HTypeOK, CallInv
  <2> QED BY <2>2, <2>3, <2>4
<1>6. CASE StepBack
  <2>1. heap' = heap /\ ref' = ref
    BY <1>6 DEF StepBack
  <2>2. HTypeOK'
    BY <1>6, <2>1 DEF StepBack, ReadsClock, HTypeOK, CallInv
  <2>3. RefConsistent'
    BY <2>1 DEF RefConsistent
  <2>4. CallInv'
    BY <1>6, <2>1 DEF StepBack, ReadsClock, HTypeOK, CallInv
  <2> QED BY <2>2, <2>3, <2>4
<1>7. CASE UNCHANGED vars
  <2>1. heap' = heap /\ ref' = ref
    BY <1>7 DEF vars
  <2>2. HTypeOK'
    BY <1>7, <2>1 DEF vars, ReadsClock, HTypeOK, CallInv
  <2>3. RefConsistent'
    BY <2>1 DEF RefConsistent
  <2>4. CallInv'
    BY <1>7, <2>1 DEF vars, ReadsClock, HTypeOK, CallInv
  <2> QED BY <2>2, <2>3, <2>4
<1>8. CASE NextTick
  <2>1. heap' = heap /\ ref' = ref /\ result' \in Int
    BY <1>8, MsLeftType DEF NextTick
  <2>2. HTypeOK'
    BY <1>8, <2>1 DEF NextTick, HTypeOK
  <2>3. RefConsistent'
    BY <2>1 DEF RefConsistent
  <2>4. CallInv'
    BY <1>8, <2>1 DEF NextTick, CallInv
  <2> QED BY <2>2, <2>3, <2>4
<1>9. CASE UpSwap
  <2>1. Parent(at) \in 1..Live /\ at \in 1..Live /\ at # Parent(at) /\ Live \in 0..Size
    BY <1>9, <1>s DEF UpSwap, Parent, CallInv, HTypeOK
  <2>2. Swap(at, Parent(at))
    BY <1>9 DEF UpSwap
  <2>3. /\ heap' \in Seq(Node) /\ Size' = Size
        /\ DOMAIN ref' = DOMAIN ref
        /\ \A id \in DOMAIN ref' : ref'[id] \in 1..Size
        /\ RefConsistent'
        /\ Size \notin {at, Parent(at)} /\ heap # <<>> => heap'[Size] = heap[Size]
    BY <2>1, <2>2, SwapKeeps, <1>s
  <2>4. HTypeOK'
    BY <1>9, <2>1, <2>3, <1>s DEF UpSwap, HTypeOK
  <2>5. CallInv'
    BY <1>9, <2>1, <2>3, <1>s DEF UpSwap, HTypeOK, CallInv
  <2> QED BY <2>3, <2>4, <2>5
<1>10. CASE DownSwap
  <2>1. Child(at) \in 1..Live /\ at \in 1..Live /\ at # Child(at) /\ Live \in 0..Size
    BY <1>10, <1>s DEF DownSwap, SinksBelow, Child, CallInv, HTypeOK
  <2>2. Swap(at, Child(at))
    BY <1>10 DEF DownSwap
  <2>3. /\ heap' \in Seq(Node) /\ Size' = Size
        /\ DOMAIN ref' = DOMAIN ref
        /\ \A id \in DOMAIN ref' : ref'[id] \in 1..Size
        /\ RefConsistent'
        /\ Size \notin {at, Child(at)} /\ heap # <<>> => heap'[Size] = heap[Size]
    BY <2>1, <2>2, SwapKeeps, <1>s
  <2>4. HTypeOK'
    BY <1>10, <2>1, <2>3, <1>s DEF DownSwap, HTypeOK
  <2>5. CallInv'
    BY <1>10, <2>1, <2>3, <1>s DEF DownSwap, HTypeOK, CallInv
  <2> QED BY <2>3, <2>4, <2>5
<1>11. ASSUME NEW i \in 1..Size, Delete(i), pc \in {"idle", "tick"},
              UNCHANGED <<now, back, sweep, result>>
       PROVE  DataInv'
  <2>1. heap[i] \in Node /\ heap # <<>> /\ victim' = heap[i].id /\ heap[i].id \in Ids
    <3>1. heap[i] \in Node /\ heap # <<>>
      BY <1>s
    <3> QED BY <1>11, <3>1 DEF Delete, Node
  <2>2. CASE i < Size
    <3>1. Swap(i, Size) /\ Sift("down", i, Size - 1, "erase")
      BY <1>11, <2>2 DEF Delete
    <3>2. /\ heap' \in Seq(Node) /\ Size' = Size
          /\ DOMAIN ref' = DOMAIN ref
          /\ \A id \in DOMAIN ref' : ref'[id] \in 1..Size
          /\ RefConsistent'
          /\ heap'[Size] = heap[i]
      BY <2>2, <3>1, SwapKeeps, <1>s
    <3>3. HTypeOK'
      BY <1>11, <2>1, <2>2, <3>1, <3>2, <1>s DEF Sift, HTypeOK
    <3>4. CallInv'
      BY <1>11, <2>1, <2>2, <3>1, <3>2, <1>s DEF Sift, HTypeOK, CallInv
    <3> QED BY <3>2, <3>3, <3>4
  <2>3. CASE i = Size
    <3>1. heap' = heap /\ ref' = ref /\ pc' = "erase"
      BY <1>11, <2>3 DEF Delete
    <3>2. HTypeOK'
      BY <1>11, <2>1, <2>3, <3>1 DEF Delete, HTypeOK
    <3>3. CallInv'
      BY <1>11, <2>1, <2>3, <3>1 DEF Delete, CallInv
    <3>4. RefConsistent'
      BY <3>1 DEF RefConsistent
    <3> QED BY <3>2, <3>3, <3>4
  <2> QED BY <2>2, <2>3, <1>s
<1>12. ASSUME NEW id \in Ids, DoWork(id) PROVE DataInv'
  BY <1>11, <1>12 DEF DoWork, RefConsistent
<1>13. CASE TickFire
  <2>1. 1 \in 1..Size
    BY <1>13, <1>s DEF TickFire, FrontExpired
  <2> QED BY <1>11, <1>13, <2>1 DEF TickFire
<1>14. CASE Erase
  <2>1. Len(heap) > 0 /\ heap[Len(heap)].id \in DOMAIN ref
    BY <1>14, <1>s DEF Erase, HTypeOK, RefConsistent
  <2>2. /\ heap' \in Seq(Node) /\ Len(heap') = Len(heap) - 1
        /\ \A k \in 1..(Len(heap) - 1) : heap'[k] = heap[k]
    BY <1>14, LastDropped
  <2>3. /\ DOMAIN ref' = DOMAIN ref \ {heap[Len(heap)].id}
        /\ \A id \in DOMAIN ref' : ref'[id] = ref[id]
    BY <1>14 DEF Erase
  <2>4. \A id \in DOMAIN ref' : ref[id] \in 1..(Len(heap) - 1)
    BY <2>1, <2>3, <1>s DEF RefConsistent
  <2>5. HTypeOK'
    BY <1>14, <2>2, <2>3, <2>4 DEF Erase, HTypeOK
  <2>6. RefConsistent'
    <3>1. ASSUME NEW k \in 1..(Len(heap) - 1)
          PROVE  heap'[k].id \in DOMAIN ref' /\ ref'[heap'[k].id] = k
      <4>1. heap[k].id \in DOMAIN ref /\ ref[heap[k].id] = k
        BY <2>1 DEF RefConsistent
      <4>2. ref[heap[Len(heap)].id] = Len(heap)
        BY <2>1, <1>s DEF RefConsistent
      <4> QED BY <1>s, <2>2, <2>3, <4>1, <4>2
    <3>2. ASSUME NEW k \in DOMAIN ref' PROVE heap'[ref'[k]].id = k
      BY <2>2, <2>3, <2>4 DEF RefConsistent
    <3> QED BY <2>2, <2>3, <2>4, <3>1, <3>2, SMTT(30) DEF RefConsistent
  <2>7. CallInv'
    BY <1>14 DEF Erase, HTypeOK, CallInv
  <2> QED BY <2>5, <2>6, <2>7
<1>15. ASSUME NEW id \in Ids, AddNew(id) PROVE DataInv'
  <2> DEFINE node == [id |-> id, exp |-> now + Timeout]
  <2>1. node \in Node
    BY DEF Node, HTypeOK
  <2>2. /\ heap' = Append(heap, node) /\ id \notin DOMAIN ref /\ pc = "idle"
        /\ ref' = [k \in DOMAIN ref \union {id} |-> IF k = id THEN Len(heap) + 1 ELSE ref[k]]
        /\ Sift("up", Len(heap) + 1, Len(heap) + 1, "idle")
        /\ UNCHANGED <<now, back, victim, sweep, result>>
    BY <1>15 DEF AddNew
  <2> HIDE DEF node
  <2>3. /\ heap' \in Seq(Node) /\ Len(heap') = Len(heap) + 1
        /\ heap'[Len(heap) + 1] = node
        /\ \A k \in 1..Len(heap) : heap'[k] = heap[k]
    BY <1>s, <2>1, <2>2
  <2>4. /\ DOMAIN ref' = DOMAIN ref \union {id} /\ ref'[id] = Len(heap) + 1
        /\ \A k \in DOMAIN ref : ref'[k] = ref[k] /\ k # id
    BY <2>2
  <2>5. HTypeOK'
    BY <1>s, <2>2, <2>3, <2>4 DEF Sift, HTypeOK
  <2>6. RefConsistent'
    <3>1. ASSUME NEW k \in 1..(Len(heap) + 1)
          PROVE  heap'[k].id \in DOMAIN ref' /\ ref'[heap'[k].id] = k
      <4>1. CASE k = Len(heap) + 1
        BY <2>3, <2>4, <4>1 DEF node
      <4>2. CASE k \in 1..Len(heap)
        BY <2>3, <2>4, <4>2 DEF RefConsistent
      <4> QED BY <1>s, <4>1, <4>2
    <3>2. ASSUME NEW k \in DOMAIN ref'
          PROVE  ref'[k] \in 1..(Len(heap) + 1) /\ heap'[ref'[k]].id = k
      <4>1. CASE k = id
        BY <1>s, <2>3, <2>4, <4>1 DEF node
      <4>2. CASE k \in DOMAIN ref
        BY <1>s, <2>3, <2>4, <4>2 DEF RefConsistent
      <4> QED BY <2>4, <4>1, <4>2
    <3> QED BY <2>3, <3>1, <3>2 DEF RefConsistent
  <2>7. CallInv'
    BY <1>s, <2>2, <2>3 DEF Sift, CallInv, HTypeOK
  <2> QED BY <2>5, <2>6, <2>7
<1>16. ASSUME NEW id \in Ids, Renew(id) PROVE DataInv'
  <2>1. ref[id] \in 1..Len(heap) /\ now + Timeout \in Int
    BY <1>16 DEF Renew, HTypeOK
  <2>2. /\ heap' = [heap EXCEPT ![ref[id]].exp = now + Timeout] /\ pc = "idle"
        /\ ref' = ref
        /\ Sift("down", ref[id], Len(heap), "idle")
        /\ UNCHANGED <<now, back, victim, sweep, result>>
    BY <1>16 DEF Renew
  <2>3. [heap[ref[id]] EXCEPT !.exp = now + Timeout] \in Node
    <3>1. heap[ref[id]] \in Node
      BY <1>s, <2>1
    <3> QED BY <2>1, <3>1 DEF Node
  <2>4. /\ heap' \in Seq(Node) /\ Len(heap') = Len(heap)
        /\ \A k \in 1..Len(heap) : heap'[k].id = heap[k].id
    BY <1>s, <2>1, <2>2, <2>3 DEF Node
  <2>5. HTypeOK'
    BY <1>s, <2>1, <2>2, <2>4 DEF Sift, HTypeOK
  <2>6. RefConsistent'
    BY <1>s, <2>2, <2>4 DEF RefConsistent
  <2>7. CallInv'
    BY <1>s, <2>1, <2>2, <2>4 DEF Sift, CallInv, HTypeOK
  <2> QED BY <2>5, <2>6, <2>7
<1> QED
  BY <1>1, <1>2, <1>3, <1>4, <1>5, <1>6, <1>7, <1>8, <1>9, <1>10, <1>12, <1>13,
     <1>14, <1>15, <1>16
  DEF Next, Inside

(* The timer's variables keep their types, and every index is in the heap. *)
THEOREM HTypeCorrect == Spec => []HTypeOK
<1>1. DataInv => HTypeOK
  BY DEF DataInv
<1> QED BY <1>1, DataInit, DataStep, PTL DEF Spec

(* ref_ is the inverse of the heap, in the middle of every call too.       *)
THEOREM RefsConsistent == Spec => []RefConsistent
<1>1. DataInv => RefConsistent
  BY DEF DataInv
<1> QED BY <1>1, DataInit, DataStep, PTL DEF Spec

-----------------------------------------------------------------------------
(* The order of the heap while a call is under way                         *)

Ordered(i) == heap[Parent(i)].exp <= heap[i].exp

(* What a node on a sift path leaves between its children and its parent.  *)
Bridged(i) == Parent(i) > 1 => heap[Parent(Parent(i))].exp <= heap[i].exp

(* While a node goes up, only it may be less than its parent.  While it    *)
(* goes down, its children may be less than it, and it may be less than    *)
(* its parent only in a deletion, and only until it has moved.  As long as *)
(* the clock has not stepped back no timer is later than one set now.      *)
UpOrder ==
  \A i \in 2..Live : /\ i # at => Ordered(i)
                     /\ Parent(i) = at => Bridged(i)

DownOrder ==
  \A i \in 2..Live :
    /\ i # at /\ Parent(i) # at => Ordered(i)
    /\ Parent(i) = at => Bridged(i)
    /\ i = at /\ (at # start \/ next = "idle") => Ordered(i)

AllOrdered == \A i \in 2..Live : Ordered(i)

NoneLater == \A i \in 1..Size : heap[i].exp <= now + Timeout

OrderInv ==
  back = 0 /\ pc # "aborted" =>
    /\ NoneLater
    /\ pc = "up" => UpOrder
    /\ pc = "down" => DownOrder
    /\ pc \notin {"up", "down"} => AllOrdered

LEMMA OrderInit == Init => OrderInv
<1> SUFFICES ASSUME Init PROVE OrderInv
  OBVIOUS
<1>1. Size = 0 /\ Live = 0 /\ pc = "idle"
  BY DEF Init, Size, Live, Deleting
<1> QED BY <1>1 DEF OrderInv, NoneLater, AllOrdered

(* The parent of a node is before it.                                      *)
LEMMA ParentBefore ==
  ASSUME NEW i \in Nat, i > 1
  PROVE  Parent(i) \in 1..(i - 1)
BY DEF Parent

LEMMA HeapTypes ==
  ASSUME DataInv
  PROVE  /\ Size \in Nat
         /\ \A i \in 1..Size : heap[i] \in Node /\ heap[i].id \in Ids /\ heap[i].exp \in Int
<1>1. heap \in Seq(Node) /\ Size = Len(heap)
  BY DEF DataInv, HTypeOK, Size
<1>2. Size \in Nat /\ \A i \in 1..Size : heap[i] \in Node
  BY <1>1
<1> QED BY <1>2 DEF Node

LEMMA UpSwapOrder == DataInv /\ OrderInv /\ UpSwap => OrderInv'
<1> SUFFICES ASSUME DataInv, OrderInv, UpSwap, back = 0 PROVE OrderInv'
  BY DEF UpSwap, OrderInv
<1> DEFINE p == Parent(at)
<1>1. /\ at \in 2..Live /\ p \in 1..(at - 1) /\ Live \in 0..Size /\ Size \in Nat
  <2>1. Size \in Nat /\ at \in 1..Live /\ at # 1
    BY DEF UpSwap, DataInv, CallInv, HTypeOK, Size
  <2> QED BY <2>1, ParentBefore DEF Live
<1>2. /\ Size' = Size
      /\ heap'[at] = heap[p] /\ heap'[p] = heap[at]
      /\ \A k \in 1..Size \ {at, p} : heap'[k] = heap[k]
  BY <1>1, SwapKeeps DEF UpSwap
<1>3. /\ pc = "up" /\ pc' = pc /\ at' = p /\ Live' = Live /\ now' = now
      /\ ~Less(p, at)
  BY <1>2 DEF UpSwap, Live, Deleting
<1>4. \A k \in 1..Size : heap[k].exp \in Int
  BY HeapTypes
<1>5. heap[at].exp <= heap[p].exp
  BY <1>1, <1>3, <1>4 DEF Less
<1>6. UpOrder /\ NoneLater
  BY <1>3 DEF OrderInv
<1>7. NoneLater'
  BY <1>1, <1>2, <1>3, <1>6 DEF NoneLater
<1>8. ASSUME NEW i \in 2..Live, i # p PROVE heap'[Parent(i)].exp <= heap'[i].exp
  <2>1. Parent(i) \in 1..(i - 1) /\ i \in 1..Size /\ Parent(i) \in 1..Size
    BY <1>1, ParentBefore
  <2>2. CASE i = at
    BY <1>2, <1>5, <2>2
  <2>3. CASE i # at /\ Parent(i) = p
    BY <1>1, <1>2, <1>4, <1>5, <1>6, <1>8, <2>1, <2>3 DEF UpOrder, Ordered
  <2>4. CASE Parent(i) = at
    BY <1>1, <1>2, <1>6, <1>8, <2>1, <2>4 DEF UpOrder, Bridged
  <2>5. CASE i # at /\ Parent(i) \notin {at, p}
    BY <1>1, <1>2, <1>6, <1>8, <2>1, <2>5 DEF UpOrder, Ordered
  <2> QED BY <2>2, <2>3, <2>4, <2>5
<1>9. ASSUME NEW i \in 2..Live, Parent(i) = p, p > 1
      PROVE  heap'[Parent(p)].exp <= heap'[i].exp
  <2>1. Parent(p) \in 1..(p - 1) /\ i \in 1..Size /\ Parent(p) \in 1..Size /\ p \in 2..Live
    BY <1>1, <1>9, ParentBefore
  <2>2. heap'[Parent(p)] = heap[Parent(p)] /\ heap[Parent(p)].exp <= heap[p].exp
    BY <1>1, <1>2, <1>6, <2>1 DEF UpOrder, Ordered
  <2>3. CASE i = at
    BY <1>2, <2>2, <2>3
  <2>4. CASE i # at
    <3>1. i # p
      BY <1>1, <1>9, ParentBefore
    <3>2. heap'[i] = heap[i] /\ heap[p].exp <= heap[i].exp
      BY <1>2, <1>6, <1>9, <2>1, <2>4, <3>1 DEF UpOrder, Ordered
    <3> QED BY <1>1, <1>4, <2>1, <2>2, <3>2
  <2> QED BY <2>3, <2>4
<1>10. UpOrder'
  <2>1. ASSUME NEW i \in 2..Live PROVE i # p => Ordered(i)'
    BY <1>8 DEF Ordered, Parent
  <2>2. ASSUME NEW i \in 2..Live PROVE Parent(i) = p => Bridged(i)'
    BY <1>9 DEF Bridged, Parent
  <2> QED BY <1>3, <2>1, <2>2 DEF UpOrder, Parent
<1> QED BY <1>3, <1>7, <1>10 DEF OrderInv

LEMMA DownSwapOrder == DataInv /\ OrderInv /\ DownSwap => OrderInv'
<1> SUFFICES ASSUME DataInv, OrderInv, DownSwap, back = 0 PROVE OrderInv'
  BY DEF DownSwap, OrderInv
<1> DEFINE c == Child(at)
<1>1. /\ pc = "down" /\ lim = Live /\ at \in 1..Live /\ Live \in 0..Size /\ Size \in Nat
      /\ 2 * at <= lim /\ ~Less(at, c)
  BY HeapTypes DEF DownSwap, SinksBelow, DataInv, CallInv, Live
<1>2. c \in 2..Live /\ Parent(c) = at /\ c # at /\ c \in 1..Size
  BY <1>1 DEF Child, Parent
<1>3. \A k \in 1..Size : heap[k].exp \in Int
  BY HeapTypes
<1>4. \A i \in 2..Live : Parent(i) = at => heap[c].exp <= heap[i].exp
  <2>1. ASSUME NEW i \in 2..Live, Parent(i) = at PROVE i \in {2 * at, 2 * at + 1}
    BY <1>1, <2>1 DEF Parent
  <2>2. CASE 2 * at + 1 <= lim
    BY <1>1, <1>3, <2>1, <2>2 DEF Child, Less
  <2>3. CASE ~(2 * at + 1 <= lim)
    <3>1. c = 2 * at
      BY <2>3 DEF Child
    <3> QED BY <1>1, <1>3, <2>1, <2>3, <3>1
  <2> QED BY <2>2, <2>3
<1>5. heap[c].exp <= heap[at].exp
  BY <1>1, <1>2, <1>3 DEF Less
<1>6. /\ Size' = Size
      /\ heap'[at] = heap[c] /\ heap'[c] = heap[at]
      /\ \A k \in 1..Size \ {at, c} : heap'[k] = heap[k]
  BY <1>1, <1>2, SwapKeeps DEF DownSwap
<1>7. pc' = pc /\ at' = c /\ Live' = Live /\ now' = now
  BY <1>6 DEF DownSwap, Live, Deleting
<1> HIDE DEF c
<1>8. DownOrder /\ NoneLater
  BY <1>1 DEF OrderInv
<1>9. NoneLater'
  BY <1>1, <1>2, <1>6, <1>7, <1>8 DEF NoneLater
<1>10. ASSUME NEW i \in 2..Live, Parent(i) # c PROVE heap'[Parent(i)].exp <= heap'[i].exp
  <2>1. Parent(i) \in 1..(i - 1) /\ i \in 1..Size /\ Parent(i) \in 1..Size
    BY <1>1, ParentBefore
  <2>2. CASE i = at
    <3>1. Parent(at) > 1 \/ Parent(at) = 1
      BY <2>1, <2>2
    <3>2. heap[Parent(at)].exp <= heap[c].exp
      BY <1>2, <1>8, <2>1, <2>2 DEF DownOrder, Bridged
    <3> QED BY <1>6, <1>10, <2>1, <2>2, <3>2
  <2>3. CASE i # at /\ Parent(i) = at
    BY <1>2, <1>4, <1>5, <1>6, <2>1, <2>3
  <2>4. CASE i # at /\ Parent(i) # at
    <3>1. i # c
      BY <1>2, <2>4
    <3> QED BY <1>6, <1>8, <1>10, <2>1, <2>4, <3>1 DEF DownOrder, Ordered
  <2> QED BY <2>2, <2>3, <2>4
<1>11. ASSUME NEW i \in 2..Live, Parent(i) = c PROVE heap'[at].exp <= heap'[i].exp
  <2>1. i \in 1..Size /\ i # c /\ i # at /\ c # at
    BY <1>1, <1>2, <1>11, ParentBefore
  <2>2. heap[c].exp <= heap[i].exp
    BY <1>2, <1>8, <1>11, <2>1 DEF DownOrder, Ordered
  <2> QED BY <1>6, <2>1, <2>2
<1>12. DownOrder'
  <2>1. ASSUME NEW i \in 2..Live
        PROVE  /\ Parent(i) # c => Ordered(i)'
               /\ Parent(i) = c => Bridged(i)'
               /\ i = c => Ordered(i)'
    <3>1. Parent(c) # c
      BY <1>2
    <3> QED BY <1>2, <1>10, <1>11, <3>1 DEF Ordered, Bridged, Parent
  <2> QED BY <1>7, <2>1 DEF DownOrder, Parent
<1> QED BY <1>1, <1>7, <1>9, <1>12 DEF OrderInv

(* A sift that ends leaves a heap, but for a deletion that goes on upward. *)
LEMMA StopOrder == DataInv /\ OrderInv /\ (UpStop \/ UpPastRoot \/ DownStop) => OrderInv'
<1> SUFFICES ASSUME DataInv, OrderInv, UpStop \/ UpPastRoot \/ DownStop,
                    back = 0, pc' # "aborted"
             PROVE  OrderInv'
  BY DEF UpStop, UpPastRoot, DownStop, OrderInv
<1>1. /\ heap' = heap /\ now' = now /\ at' = at /\ start' = start /\ next' = next
      /\ Size' = Size
  BY DEF UpStop, UpPastRoot, DownStop, Size, loopvars
<1>2. /\ at \in 1..Live /\ Live \in 0..Size /\ Size \in Nat /\ next \in {"idle", "erase"}
      /\ \A k \in 1..Size : heap[k].exp \in Int
  BY HeapTypes DEF UpStop, UpPastRoot, DownStop, DataInv, CallInv, HTypeOK, Live
<1>3. Live' = Live
  BY <1>1, <1>2 DEF UpStop, UpPastRoot, DownStop, Live, Deleting
<1>4. NoneLater'
  BY <1>1 DEF UpStop, UpPastRoot, DownStop, OrderInv, NoneLater
<1>5. ASSUME NEW i \in 2..Live
      PROVE  Ordered(i)' = Ordered(i) /\ Bridged(i)' = Bridged(i) /\ Parent(i)' = Parent(i)
  BY <1>1 DEF Ordered, Bridged, Parent
<1>6. CASE UpStop \/ UpPastRoot
  <2>1. UpOrder /\ pc' = next
    BY <1>6 DEF UpStop, UpPastRoot, OrderInv
  <2>2. at \in 2..Live => Ordered(at)
    <3>1. CASE UpStop
      <4>1. Less(Parent(at), at) /\ at > 1
        BY <3>1 DEF UpStop
      <4>2. Parent(at) \in 1..Size
        BY <1>2, <4>1, ParentBefore
      <4> QED BY <1>2, <4>1, <4>2 DEF Less, Ordered
    <3>2. CASE UpPastRoot
      BY <3>2 DEF UpPastRoot
    <3> QED BY <1>6, <3>1, <3>2
  <2>3. AllOrdered'
    BY <1>3, <1>5, <2>1, <2>2 DEF UpOrder, AllOrdered
  <2> QED BY <1>2, <1>4, <2>1, <2>3 DEF OrderInv
<1>7. CASE DownStop
  <2>1. DownOrder /\ lim = Live /\ ~SinksBelow(at)
        /\ pc' = IF next = "erase" /\ at = start THEN "up" ELSE next
    BY <1>7 DEF DownStop, OrderInv, DataInv, CallInv
  <2>2. ASSUME NEW i \in 2..Live, Parent(i) = at PROVE Ordered(i)
    <3>1. i \in {2 * at, 2 * at + 1} /\ 2 * at <= lim /\ i \in 1..Size
      BY <1>2, <2>1, <2>2 DEF Parent
    <3>2. Less(at, Child(at))
      BY <2>1, <3>1 DEF SinksBelow
    <3>3. CASE 2 * at + 1 <= lim
      BY <1>2, <2>1, <2>2, <3>1, <3>2, <3>3 DEF Child, Less, Ordered
    <3>4. CASE ~(2 * at + 1 <= lim)
      <4>1. Child(at) = 2 * at /\ i = 2 * at
        BY <1>2, <2>1, <3>1, <3>4 DEF Child
      <4> QED BY <1>2, <2>2, <3>1, <3>2, <4>1 DEF Less, Ordered
    <3> QED BY <3>3, <3>4
  <2>3. CASE next = "erase" /\ at = start
    <3>1. pc' = "up"
      BY <2>1, <2>3
    <3>2. UpOrder'
      BY <1>1, <1>3, <1>5, <2>1, <2>2 DEF UpOrder, DownOrder
    <3> QED BY <1>4, <3>1, <3>2 DEF OrderInv
  <2>4. CASE ~(next = "erase" /\ at = start)
    <3>1. pc' = next
      BY <2>1, <2>4
    <3>2. AllOrdered'
      BY <1>2, <1>3, <1>5, <2>1, <2>2, <2>4 DEF AllOrdered, DownOrder
    <3> QED BY <1>2, <1>4, <3>1, <3>2 DEF OrderInv
  <2> QED BY <2>3, <2>4
<1> QED BY <1>6, <1>7

(* A deletion moves the last node into the gap.                            *)
LEMMA DeleteOrder ==
  ASSUME DataInv, OrderInv, NEW i \in 1..Size, Delete(i), pc \in {"idle", "tick"},
         UNCHANGED <<now, back>>
  PROVE  OrderInv'
<1> SUFFICES ASSUME back = 0 PROVE OrderInv'
  BY DEF OrderInv
<1>1. Size \in Nat /\ \A k \in 1..Size : heap[k].exp \in Int
  BY HeapTypes
<1>2. NoneLater /\ \A k \in 2..Size : Ordered(k)
  BY DEF OrderInv, AllOrdered, Live, Deleting
<1>3. CASE i = Size
  <2>1. heap' = heap /\ pc' = "erase" /\ now' = now
    BY <1>3 DEF Delete
  <2>2. NoneLater' /\ AllOrdered'
    BY <1>1, <1>2, <2>1 DEF NoneLater, AllOrdered, Ordered, Parent, Live, Deleting, Size
  <2> QED BY <2>1, <2>2 DEF OrderInv
<1>4. CASE i < Size
  <2>1. Swap(i, Size) /\ Sift("down", i, Size - 1, "erase")
    BY <1>4 DEF Delete
  <2>2. /\ Size' = Size
        /\ heap'[i] = heap[Size]
        /\ heap'[Size] = heap[i]
        /\ \A k \in 1..Size \ {i, Size} : heap'[k] = heap[k]
    BY <1>1, <1>4, <2>1, SwapKeeps
  <2>3. /\ pc' = "down" /\ at' = i /\ start' = i /\ next' = "erase" /\ now' = now
        /\ Live' = Size - 1
    BY <2>1, <2>2 DEF Sift, Live, Deleting
  <2>4. NoneLater'
    BY <1>1, <1>2, <2>2, <2>3 DEF NoneLater
  <2>5. ASSUME NEW k \in 2..(Size - 1)
        PROVE  /\ Parent(k) \in 1..(Size - 1)
               /\ k # i /\ Parent(k) # i => heap'[Parent(k)].exp <= heap'[k].exp
               /\ Parent(k) = i /\ i > 1 => heap'[Parent(i)].exp <= heap'[k].exp
    <3>1. Parent(k) \in 1..(k - 1)
      BY <1>1, ParentBefore
    <3>2. ASSUME k # i, Parent(k) # i PROVE heap'[Parent(k)].exp <= heap'[k].exp
      BY <1>1, <1>2, <2>2, <3>1, <3>2 DEF Ordered
    <3>3. ASSUME Parent(k) = i, i > 1 PROVE heap'[Parent(i)].exp <= heap'[k].exp
      <4>1. Parent(i) \in 1..(i - 1) /\ i \in 2..Size /\ k # i
        BY <1>1, <3>1, <3>3, ParentBefore
      <4>2. heap[Parent(i)].exp <= heap[i].exp /\ heap[i].exp <= heap[k].exp
        BY <1>1, <1>2, <3>3, <4>1 DEF Ordered
      <4>3. heap'[k] = heap[k] /\ heap'[Parent(i)] = heap[Parent(i)]
        BY <1>1, <1>4, <2>2, <4>1
      <4> QED BY <1>1, <1>4, <4>1, <4>2, <4>3
    <3> QED BY <1>1, <3>1, <3>2, <3>3
  <2>6. DownOrder'
    <3>1. ASSUME NEW k \in 2..(Size - 1)
          PROVE  /\ k # i /\ Parent(k) # i => Ordered(k)'
                 /\ Parent(k) = i => Bridged(k)'
      BY <2>5 DEF Ordered, Bridged, Parent
    <3> QED BY <2>3, <3>1 DEF DownOrder, Parent
  <2> QED BY <2>3, <2>4, <2>6 DEF OrderInv
<1> QED BY <1>1, <1>3, <1>4

(* A new node has only its parent to compare with.                         *)
LEMMA AddOrder == ASSUME DataInv, OrderInv, NEW id \in Ids, AddNew(id) PROVE OrderInv'
<1> SUFFICES ASSUME back = 0 PROVE OrderInv'
  BY DEF AddNew, OrderInv
<1> DEFINE node == [id |-> id, exp |-> now + Timeout]
<1>1. heap \in Seq(Node) /\ Size = Len(heap) /\ Size \in Nat /\ now \in Int /\ Timeout \in Int
  BY TimerAssumption DEF DataInv, HTypeOK, Size
<1>2. node \in Node /\ node.exp = now + Timeout
  BY <1>1 DEF Node
<1>3. heap' = Append(heap, node) /\ pc = "idle" /\ now' = now
  BY DEF AddNew
<1> HIDE DEF node
<1>4. /\ Size' = Size + 1 /\ heap'[Size + 1] = node
      /\ \A k \in 1..Size : heap'[k] = heap[k]
  BY <1>1, <1>2, <1>3 DEF Size
<1>5. pc' = "up" /\ at' = Size + 1 /\ Live' = Size + 1
  BY <1>1, <1>4 DEF AddNew, Sift, Live, Deleting
<1>6. NoneLater /\ \A k \in 2..Size : Ordered(k)
  BY <1>3 DEF OrderInv, AllOrdered, Live, Deleting
<1>7. NoneLater'
  BY <1>1, <1>2, <1>3, <1>4, <1>6 DEF NoneLater
<1>8. ASSUME NEW k \in 2..(Size + 1)
      PROVE  /\ k # Size + 1 => Ordered(k)'
             /\ Parent(k) # Size + 1
  <2>1. Parent(k) \in 1..(k - 1)
    BY <1>1, ParentBefore
  <2> QED BY <1>1, <1>4, <1>6, <2>1 DEF Ordered, Parent
<1>9. UpOrder'
  BY <1>5, <1>8 DEF UpOrder, Parent
<1> QED BY <1>5, <1>7, <1>9 DEF OrderInv

(* A renewed timer is the latest, so that it can only sink: this is where  *)
(* the one timeout and the steady clock are needed.                        *)
LEMMA RenewOrder == ASSUME DataInv, OrderInv, NEW id \in Ids, Renew(id) PROVE OrderInv'
<1> SUFFICES ASSUME back = 0 PROVE OrderInv'
  BY DEF Renew, OrderInv
<1> DEFINE r == ref[id]
<1>1. heap \in Seq(Node) /\ Size = Len(heap) /\ Size \in Nat /\ now + Timeout \in Int
  BY TimerAssumption DEF DataInv, HTypeOK, Size
<1>2. r \in 1..Size
  BY DEF Renew, DataInv, HTypeOK
<1>3. heap' = [heap EXCEPT ![r].exp = now + Timeout] /\ pc = "idle" /\ now' = now
  BY DEF Renew
<1>4. heap[r] \in Node
  BY <1>1, <1>2
<1>5. /\ Size' = Size /\ heap'[r].exp = now + Timeout
      /\ \A k \in 1..Size \ {r} : heap'[k] = heap[k]
  BY <1>1, <1>2, <1>3, <1>4 DEF Size, Node
<1>6. pc' = "down" /\ at' = r /\ start' = r /\ next' = "idle" /\ Live' = Size
  BY <1>5 DEF Renew, Sift, Live, Deleting
<1> HIDE DEF r
<1>7. NoneLater /\ \A k \in 2..Size : Ordered(k)
  BY <1>3 DEF OrderInv, AllOrdered, Live, Deleting
<1>8. \A k \in 1..Size : heap[k].exp \in Int
  BY HeapTypes
<1>9. NoneLater'
  BY <1>1, <1>3, <1>5, <1>7 DEF NoneLater
<1>10. ASSUME NEW k \in 2..Size
       PROVE  /\ Parent(k) # r => heap'[Parent(k)].exp <= heap'[k].exp
              /\ Parent(k) = r /\ r > 1 => heap'[Parent(r)].exp <= heap'[k].exp
  <2>1. Parent(k) \in 1..(k - 1)
    BY <1>1, ParentBefore
  <2>2. ASSUME Parent(k) # r PROVE heap'[Parent(k)].exp <= heap'[k].exp
    <3>1. heap'[Parent(k)] = heap[Parent(k)] /\ heap[Parent(k)].exp <= now + Timeout
      BY <1>1, <1>5, <1>7, <2>1, <2>2 DEF NoneLater
    <3> QED BY <1>1, <1>5, <1>7, <2>1, <2>2, <3>1 DEF Ordered
  <2>3. ASSUME Parent(k) = r, r > 1 PROVE heap'[Parent(r)].exp <= heap'[k].exp
    <3>1. Parent(r) \in 1..(r - 1) /\ r \in 2..Size /\ k # r
      BY <1>1, <1>2, <2>1, <2>3, ParentBefore
    <3>2. heap[Parent(r)].exp <= heap[r].exp /\ heap[r].exp <= heap[k].exp
      BY <1>7, <2>3, <3>1 DEF Ordered
    <3>3. heap'[k] = heap[k] /\ heap'[Parent(r)] = heap[Parent(r)]
      BY <1>1, <1>5, <3>1
    <3> QED BY <1>1, <1>8, <3>1, <3>2, <3>3
  <2> QED BY <2>2, <2>3
<1>11. DownOrder'
  <2>1. ASSUME NEW k \in 2..Size
        PROVE  /\ Parent(k) # r => Ordered(k)'
               /\ Parent(k) = r => Bridged(k)'
               /\ k = r => Ordered(k)'
    <3>1. Parent(k) # k
      BY <1>1, ParentBefore
    <3> QED BY <1>10, <3>1 DEF Ordered, Bridged, Parent
  <2> QED BY <1>6, <2>1 DEF DownOrder, Parent
<1> QED BY <1>6, <1>9, <1>11 DEF OrderInv

LEMMA EraseOrder == DataInv /\ OrderInv /\ Erase => OrderInv'
<1> SUFFICES ASSUME DataInv, OrderInv, Erase, back = 0 PROVE OrderInv'
  BY DEF Erase, OrderInv
<1>1. /\ Size' = Size - 1 /\ Size \in Nat
      /\ \A k \in 1..(Size - 1) : heap'[k] = heap[k]
  BY HeapTypes, LastDropped DEF DataInv
<1>2. pc = "erase" /\ pc' \in {"idle", "tick"} /\ now' = now /\ Live' = Size - 1
  BY <1>1 DEF Erase, Live, Deleting
<1>3. NoneLater /\ \A k \in 2..(Size - 1) : Ordered(k)
  BY <1>2 DEF OrderInv, AllOrdered, Live, Deleting
<1>4. NoneLater'
  BY <1>1, <1>2, <1>3 DEF NoneLater
<1>5. ASSUME NEW k \in 2..(Size - 1) PROVE Ordered(k)'
  <2>1. Parent(k) \in 1..(k - 1)
    BY <1>1, ParentBefore
  <2> QED BY <1>1, <1>3, <2>1 DEF Ordered, Parent
<1> QED BY <1>2, <1>4, <1>5 DEF OrderInv, AllOrdered

(* Nothing else touches the heap, and a clock that advances only makes     *)
(* room for the timers set before.                                         *)
LEMMA StillOrder ==
  ASSUME DataInv, OrderInv, heap' = heap, now' \in Int,
         back' = 0 => back = 0 /\ now <= now',
         pc \in {"idle", "tick", "next"}, pc' \in {"idle", "tick", "next"}
  PROVE  OrderInv'
<1> SUFFICES ASSUME back = 0, now <= now' PROVE OrderInv'
  BY DEF OrderInv
<1>1. Size' = Size /\ Live = Size /\ Live' = Size
  BY DEF Size, Live, Deleting
<1>2. NoneLater /\ AllOrdered
  BY DEF OrderInv
<1>3. /\ now \in Int /\ Timeout \in Int
      /\ \A k \in 1..Size : heap[k].exp \in Int
  BY HeapTypes, TimerAssumption DEF DataInv, HTypeOK
<1>4. NoneLater'
  BY <1>1, <1>2, <1>3 DEF NoneLater
<1>5. AllOrdered'
  BY <1>1, <1>2 DEF AllOrdered, Ordered, Parent
<1> QED BY <1>4, <1>5 DEF OrderInv

LEMMA OrderStep == DataInv /\ OrderInv /\ [Next]_vars => OrderInv'
<1> SUFFICES ASSUME DataInv, OrderInv, [Next]_vars PROVE OrderInv'
  OBVIOUS
<1>1. /\ now \in Int /\ back \in Nat /\ Size \in Nat
      /\ \A id \in DOMAIN ref : ref[id] \in 1..Size
  BY HeapTypes, TimerAssumption DEF DataInv, HTypeOK
<1>2. CASE UpStop \/ UpPastRoot \/ DownStop
  BY <1>2, StopOrder
<1>3. CASE UpSwap
  BY <1>3, UpSwapOrder
<1>4. CASE DownSwap
  BY <1>4, DownSwapOrder
<1>5. CASE Erase
  BY <1>5, EraseOrder
<1>6. CASE TickFire
  <2>1. 1 \in 1..Size
    BY <1>6 DEF TickFire, FrontExpired, DataInv, HTypeOK, Size
  <2> QED BY <1>6, <2>1, DeleteOrder DEF TickFire
<1>7. CASE TickEnd \/ NextTick \/ \E for \in {"tick", "next"} : Tick(for)
  BY <1>1, <1>7, StillOrder DEF TickEnd, NextTick, Tick
<1>8. CASE \E id \in Ids : AddNew(id)
  BY <1>8, AddOrder
<1>9. CASE \E id \in Ids : Renew(id)
  BY <1>9, RenewOrder
<1>10. CASE \E id \in Ids : DoWork(id)
  <2>1. PICK id \in Ids : DoWork(id)
    BY <1>10
  <2>2. ref[id] \in 1..Size
    BY <1>1, <2>1 DEF DoWork
  <2> QED BY <2>1, <2>2, DeleteOrder DEF DoWork
<1>11. CASE Advance
  BY <1>1, <1>11, StillOrder DEF Advance, ReadsClock
<1>12. CASE StepBack
  BY <1>1, <1>12, StillOrder DEF StepBack, ReadsClock
<1>13. CASE UNCHANGED vars
  BY <1>13 DEF vars, OrderInv, NoneLater, UpOrder, DownOrder, AllOrdered, Ordered, Bridged,
     Parent, Size, Live, Deleting
<1> QED
  BY <1>2, <1>3, <1>4, <1>5, <1>6, <1>7, <1>8, <1>9, <1>10, <1>11, <1>12, <1>13
  DEF Next, Inside

(* Between calls the heap is ordered although renewing never sifts up, as  *)
(* long as the clock has not stepped back.                                 *)
THEOREM HeapOrdered == Spec => []HeapOrder
<1>1. DataInv /\ OrderInv => HeapOrder
  <2> SUFFICES ASSUME DataInv, OrderInv, ReadsClock, back = 0, NEW i \in 2..Size
               PROVE  ~Less(i, Parent(i))
    BY DEF HeapOrder
  <2>1. Ordered(i)
    BY DEF OrderInv, AllOrdered, Live, Deleting, ReadsClock
  <2>2. heap[i].exp \in Int /\ heap[Parent(i)].exp \in Int
    BY HeapTypes, ParentBefore
  <2> QED BY <2>1, <2>2 DEF Ordered, Less
<1> QED BY <1>1, DataInit, DataStep, OrderInit, OrderStep, PTL DEF Spec

-----------------------------------------------------------------------------
LEMMA LeastIn ==
  ASSUME NEW T, T \subseteq Nat, T # {}
  PROVE  \E n \in T : \A m \in T : n <= m
<1> DEFINE R == OpToRel(<, Nat)
<1>1. IsWellFoundedOn(R, Nat)
  BY NatLessThanWellFounded
<1> HIDE DEF R
<1>2. PICK n \in T : \A m \in T : ~(<<m, n>> \in R)
  BY <1>1, WFMin
<1>3. ASSUME NEW m \in T PROVE n <= m
  <2>1. <<m, n>> \notin R /\ m \in Nat /\ n \in Nat
    BY <1>2
  <2>2. ~(m < n)
    BY <2>1 DEF R, OpToRel
  <2> QED BY <2>1, <2>2
<1> QED BY <1>3

(* In an ordered heap the root is the earliest: the first node that were   *)
(* earlier would have a parent that is earlier still, and before it.       *)
LEMMA FrontEarliest ==
  ASSUME DataInv, OrderInv, pc \in {"idle", "tick", "next"}, back = 0, NEW i \in 1..Size
  PROVE  heap[1].exp <= heap[i].exp
<1> DEFINE Early == {k \in 1..Size : heap[k].exp < heap[1].exp}
<1>1. Size \in Nat /\ \A k \in 1..Size : heap[k].exp \in Int
  BY HeapTypes
<1>2. \A k \in 2..Size : Ordered(k)
  BY DEF OrderInv, AllOrdered, Live, Deleting
<1>3. ASSUME Early # {} PROVE FALSE
  <2>1. Early \subseteq Nat
    BY <1>1
  <2> HIDE DEF Early
  <2>2. PICK n \in Early : \A m \in Early : n <= m
    BY <1>3, <2>1, LeastIn
  <2>3. n \in 2..Size /\ heap[n].exp < heap[1].exp
    BY <1>1, <2>2 DEF Early
  <2>4. Parent(n) \in 1..(n - 1)
    BY <2>3, ParentBefore
  <2>5. Parent(n) \in Early
    BY <1>1, <1>2, <2>3, <2>4 DEF Early, Ordered
  <2> QED BY <2>2, <2>3, <2>4, <2>5
<1> QED BY <1>1, <1>3

(* What getNextTick returns never lets epoll_wait sleep past a timer.      *)
THEOREM WakesInTime == Spec => EpollWakesInTime
<1>1. ASSUME DataInv, OrderInv, [Next]_vars, pc = "next", pc' = "idle", back = 0, result' > 0
      PROVE  \A i \in 1..Size : result' * MsTicks <= heap[i].exp - now
  <2>1. NextTick
    BY <1>1 DEF Next, Inside, UpStop, UpSwap, UpPastRoot, DownSwap, DownStop, Erase,
       TickFire, TickEnd, AddNew, Renew, DoWork, Tick, Advance, StepBack, vars
  <2> SUFFICES ASSUME NEW i \in 1..Size PROVE result' * MsTicks <= heap[i].exp - now
    OBVIOUS
  <2>2. heap # <<>> /\ 1 \in 1..Size
    BY <1>1, HeapTypes DEF DataInv, HTypeOK, Size
  <2>3. result' = MsLeft
    BY <2>1, <2>2 DEF NextTick
  <2>4. MsLeft \in Int /\ MsLeft * MsTicks <= heap[1].exp - now
    BY <1>1, <2>2, <2>3, MsLeftType DEF DataInv
  <2>5. heap[1].exp <= heap[i].exp
    BY <1>1, FrontEarliest
  <2>6. heap[1].exp \in Int /\ heap[i].exp \in Int /\ now \in Int /\ MsTicks \in Nat
    BY <1>1, <2>2, HeapTypes, TimerAssumption DEF DataInv, HTypeOK
  <2>7. MsLeft * MsTicks \in Int
    BY <2>4, <2>6
  <2> DEFINE x == MsLeft * MsTicks
  <2>8. x \in Int /\ x <= heap[1].exp - now
    BY <2>4, <2>7
  <2> HIDE DEF x
  <2>9. x <= heap[i].exp - now
    BY <2>5, <2>6, <2>8
  <2> QED BY <2>3, <2>9 DEF x
<1>2. DataInv /\ OrderInv /\ [Next]_vars =>
        [pc = "next" /\ pc' = "idle" /\ back = 0 /\ result' > 0 =>
           \A i \in 1..Size : result' * MsTicks <= heap[i].exp - now]_vars
  BY <1>1
<1> QED BY <1>2, DataInit, DataStep, OrderInit, OrderStep, PTL DEF Spec, EpollWakesInTime
-----------------------------------------------------------------------------
(* The deadlines seen through ref_ instead of through the heap.            *)
Indexed == [id \in DOMAIN ref \ {victim} |-> heap[ref[id]].exp]

LEMMA DeadlineIndexed == DataInv => Deadline = Indexed
<1> SUFFICES ASSUME DataInv PROVE Deadline = Indexed
  OBVIOUS
<1> DEFINE Place(id) == CHOOSE i \in 1..Size : heap[i].id = id
<1>1. /\ \A i \in 1..Size : heap[i].id \in DOMAIN ref /\ ref[heap[i].id] = i
      /\ \A id \in DOMAIN ref : ref[id] \in 1..Size /\ heap[ref[id]].id = id
  BY DEF DataInv, RefConsistent
<1>2. {heap[i].id : i \in 1..Size} = DOMAIN ref
  BY <1>1
<1>3. \A id \in DOMAIN ref : Place(id) = ref[id]
  BY <1>1
<1>4. Deadline = [id \in DOMAIN ref \ {victim} |-> heap[Place(id)].exp]
  BY <1>2 DEF Deadline
<1> HIDE DEF Place
<1> QED BY <1>3, <1>4 DEF Indexed

LEMMA DeadlineIndexedNext == DataInv' => (Deadline = Indexed)'
BY DeadlineIndexed, PTL

LEMMA SwapStutters ==
  ASSUME DataInv, NEW i \in 1..Size, NEW j \in 1..Size, i # j, Swap(i, j)
  PROVE  /\ DOMAIN ref' = DOMAIN ref
         /\ \A id \in DOMAIN ref : heap'[ref'[id]] = heap[ref[id]]
<1>1. /\ Size' = Size /\ DOMAIN ref' = DOMAIN ref
      /\ RefConsistent'
      /\ heap'[i] = heap[j] /\ heap'[j] = heap[i]
      /\ \A k \in 1..Size \ {i, j} : heap'[k] = heap[k]
  BY SwapKeeps
<1>2. ASSUME NEW id \in DOMAIN ref PROVE heap'[ref'[id]] = heap[ref[id]]
  <2> DEFINE k == ref[id]
             m == IF k = i THEN j ELSE IF k = j THEN i ELSE k
  <2>1. k \in 1..Size /\ heap[k].id = id
    BY DEF DataInv, RefConsistent
  <2>2. m \in 1..Size /\ heap'[m] = heap[k]
    BY <1>1, <2>1
  <2> HIDE DEF k, m
  <2>3. ref'[heap'[m].id] = m
    BY <1>1, <2>2 DEF RefConsistent
  <2>4. heap'[ref'[id]] = heap[k]
    BY <2>1, <2>2, <2>3
  <2> QED BY <2>4 DEF k
<1> QED BY <1>1, <1>2

(* A deletion takes its id out at once, whatever is left to do in the heap.*)
LEMMA DeleteDrops ==
  ASSUME DataInv, NEW i \in 1..Size, Delete(i), pc \in {"idle", "tick"}
  PROVE  /\ heap[i].id \in DOMAIN Indexed
         /\ Indexed[heap[i].id] = heap[i].exp
         /\ Indexed' = [id \in DOMAIN Indexed \ {heap[i].id} |-> Indexed[id]]
<1>1. victim = NoId /\ NoId \notin DOMAIN ref /\ Size \in Nat
  BY TimerAssumption, HeapTypes DEF DataInv, CallInv, Deleting, HTypeOK
<1>2. heap[i].id \in DOMAIN ref /\ ref[heap[i].id] = i
  BY DEF DataInv, RefConsistent
<1>3. Indexed = [id \in DOMAIN ref |-> heap[ref[id]].exp]
  BY <1>1 DEF Indexed
<1>4. victim' = heap[i].id
  BY DEF Delete
<1>5. /\ DOMAIN ref' = DOMAIN ref
      /\ \A id \in DOMAIN ref : heap'[ref'[id]] = heap[ref[id]]
  <2>1. CASE i < Size
    BY <1>1, <2>1, SwapStutters DEF Delete
  <2>2. CASE i = Size
    BY <2>2 DEF Delete
  <2> QED BY <1>1, <2>1, <2>2
<1> QED BY <1>2, <1>3, <1>4, <1>5 DEF Indexed

LEMMA Refines ==
  DataInv /\ OrderInv /\ DataInv' /\ [Next]_vars => [DL!Next]_(DL!dvars)
<1> SUFFICES ASSUME DataInv, OrderInv, DataInv', [Next]_vars
             PROVE  [DL!Next]_(DL!dvars)
  OBVIOUS
<1>1. Deadline = Indexed /\ Deadline' = Indexed'
  BY DeadlineIndexed, DeadlineIndexedNext
<1>2. /\ now \in Int /\ back \in Nat /\ Size \in Nat /\ MsTicks \in Nat
      /\ \A id \in DOMAIN ref : ref[id] \in 1..Size /\ heap[ref[id]].id = id /\ id \in Ids
      /\ \A k \in 1..Size : heap[k].exp \in Int /\ heap[k].id \in Ids
  BY HeapTypes, TimerAssumption DEF DataInv, HTypeOK, RefConsistent
<1>3. pc = "idle" => /\ sweep = "no" /\ victim = NoId /\ NoId \notin DOMAIN ref
                     /\ Indexed = [id \in DOMAIN ref |-> heap[ref[id]].exp]
  BY TimerAssumption DEF DataInv, CallInv, Deleting, HTypeOK, Indexed
<1>4. pc = "tick" => /\ sweep # "no" /\ victim = NoId /\ NoId \notin DOMAIN ref
                     /\ Indexed = [id \in DOMAIN ref |-> heap[ref[id]].exp]
  BY TimerAssumption DEF DataInv, CallInv, Deleting, HTypeOK, Indexed
<1>5. ASSUME Indexed' = Indexed, UNCHANGED <<now, back, sweep>>
      PROVE  UNCHANGED DL!dvars
  BY <1>1, <1>5 DEF DL!dvars
<1>6. CASE UpStop \/ UpPastRoot \/ DownStop \/ NextTick \/ UNCHANGED vars
  <2>1. Indexed' = Indexed /\ UNCHANGED <<now, back, sweep>>
    BY <1>6 DEF UpStop, UpPastRoot, DownStop, NextTick, vars, Indexed
  <2> QED BY <1>5, <2>1
<1>7. CASE UpSwap \/ DownSwap
  <2>1. PICK i \in 1..Size, j \in 1..Size : i # j /\ Swap(i, j)
    <3>1. at \in 1..Size /\ at \in Nat /\ at >= 1 /\ Live <= Size
      BY <1>2, <1>7 DEF UpSwap, DownSwap, DataInv, HTypeOK, Live
    <3>2. CASE UpSwap
      <4>1. Parent(at) \in 1..Size /\ Parent(at) # at
        BY <1>2, <3>1, <3>2, ParentBefore DEF UpSwap
      <4> QED BY <3>1, <3>2, <4>1 DEF UpSwap
    <3>3. CASE DownSwap
      <4>1. lim <= Size /\ lim \in Int
        BY <1>2, <3>3 DEF DownSwap, DataInv, HTypeOK
      <4>2. Child(at) \in 1..Size /\ Child(at) # at
        BY <1>2, <3>1, <3>3, <4>1 DEF DownSwap, SinksBelow, Child
      <4> QED BY <3>1, <3>3, <4>2 DEF DownSwap
    <3> QED BY <1>7, <3>2, <3>3
  <2>2. /\ DOMAIN ref' = DOMAIN ref /\ victim' = victim
        /\ \A id \in DOMAIN ref : heap'[ref'[id]] = heap[ref[id]]
        /\ UNCHANGED <<now, back, sweep>>
    BY <1>7, <2>1, SwapStutters DEF UpSwap, DownSwap
  <2>3. Indexed' = Indexed
    BY <2>2 DEF Indexed
  <2> QED BY <1>5, <2>2, <2>3
<1>8. CASE Erase
  <2>1. /\ victim = heap[Size].id /\ victim' = NoId /\ NoId \notin DOMAIN ref /\ Size > 0
        /\ \A k \in 1..(Size - 1) : heap'[k] = heap[k]
    BY <1>8, LastDropped, TimerAssumption DEF Erase, DataInv, CallInv, Deleting, HTypeOK
  <2>2. /\ DOMAIN ref' = DOMAIN ref \ {victim}
        /\ \A id \in DOMAIN ref' : ref'[id] = ref[id]
        /\ UNCHANGED <<now, back, sweep>>
    BY <1>8, <2>1 DEF Erase
  <2>3. \A id \in DOMAIN ref' : ref[id] \in 1..(Size - 1)
    BY <1>2, <2>1, <2>2
  <2>4. DOMAIN ref' \ {victim'} = DOMAIN ref \ {victim}
    BY <2>1, <2>2
  <2>5. Indexed' = Indexed
    BY <2>1, <2>2, <2>3, <2>4 DEF Indexed
  <2> QED BY <1>5, <2>2, <2>5
<1>9. ASSUME NEW id \in Ids, AddNew(id) PROVE DL!Set(id)
  <2>1. /\ pc = "idle" /\ id \notin DOMAIN ref /\ UNCHANGED <<now, back, victim, sweep>>
        /\ ref' = [k \in DOMAIN ref \union {id} |-> IF k = id THEN Size + 1 ELSE ref[k]]
    BY <1>9 DEF AddNew
  <2>2. /\ \A k \in 1..Size : heap'[k] = heap[k]
        /\ heap'[Size + 1].exp = now + Timeout
    <3>1. heap \in Seq(Node) /\ heap' = Append(heap, [id |-> id, exp |-> now + Timeout])
      BY <1>9 DEF AddNew, DataInv, HTypeOK
    <3> QED BY <3>1 DEF Size
  <2>3. id # NoId
    BY TimerAssumption
  <2>4. Indexed' = [k \in DOMAIN ref \union {id} |->
                      IF k = id THEN now + Timeout ELSE heap[ref[k]].exp]
    BY <1>2, <1>3, <2>1, <2>2, <2>3 DEF Indexed
  <2>5. Indexed' = [k \in DOMAIN Indexed \union {id} |->
                      IF k = id THEN now + Timeout ELSE Indexed[k]]
    BY <1>3, <2>1, <2>4
  <2> QED BY <1>1, <1>3, <2>1, <2>5 DEF DL!Set, DL!Armed
<1>10. ASSUME NEW id \in Ids, Renew(id) PROVE DL!Set(id)
  <2>1. /\ pc = "idle" /\ id \in DOMAIN ref /\ UNCHANGED <<ref, now, back, victim, sweep>>
    BY <1>10 DEF Renew
  <2>2. /\ \A k \in 1..Size \ {ref[id]} : heap'[k] = heap[k]
        /\ heap'[ref[id]].exp = now + Timeout
    <3>1. heap \in Seq(Node) /\ ref[id] \in 1..Len(heap)
      BY <1>2, <2>1 DEF DataInv, HTypeOK, Size
    <3>2. heap[ref[id]] \in Node
      BY <3>1
    <3>3. heap' = [heap EXCEPT ![ref[id]].exp = now + Timeout]
      BY <1>10 DEF Renew
    <3> QED BY <3>1, <3>2, <3>3 DEF Size, Node
  <2>3. \A k \in DOMAIN ref \ {id} : ref[k] \in 1..Size \ {ref[id]}
    BY <1>2, <2>1
  <2>4. Indexed' = [k \in DOMAIN ref |-> IF k = id THEN now + Timeout ELSE heap[ref[k]].exp]
    BY <1>3, <2>1, <2>2, <2>3 DEF Indexed
  <2>5. Indexed' = [k \in DOMAIN Indexed \union {id} |->
                      IF k = id THEN now + Timeout ELSE Indexed[k]]
    BY <1>3, <2>1, <2>4
  <2> QED BY <1>1, <1>3, <2>1, <2>5 DEF DL!Set, DL!Armed
<1>11. ASSUME NEW id \in Ids, DoWork(id) PROVE DL!Cancel(id)
  <2>1. pc = "idle" /\ ref[id] \in 1..Size /\ Delete(ref[id]) /\ heap[ref[id]].id = id
        /\ UNCHANGED <<now, back, sweep>>
    BY <1>2, <1>11 DEF DoWork
  <2>2. /\ id \in DOMAIN Indexed
        /\ Indexed' = [k \in DOMAIN Indexed \ {id} |-> Indexed[k]]
    BY <2>1, DeleteDrops
  <2> QED BY <1>1, <1>3, <2>1, <2>2 DEF DL!Cancel, DL!Armed, DL!Drop
<1>12. CASE TickFire
  <2>1. pc = "tick" /\ 1 \in 1..Size /\ Delete(1) /\ heap # <<>> /\ MsLeft <= 0
        /\ UNCHANGED <<now, back, sweep>>
    BY <1>12 DEF TickFire, FrontExpired, DataInv, HTypeOK, Size
  <2>2. /\ heap[1].id \in DOMAIN Indexed /\ heap[1].id \in Ids
        /\ Indexed[heap[1].id] = heap[1].exp
        /\ Indexed' = [k \in DOMAIN Indexed \ {heap[1].id} |-> Indexed[k]]
    BY <1>2, <2>1, DeleteDrops
  <2>3. heap[1].exp - now < MsTicks
    BY <2>1, MsLeftType DEF DataInv
  <2>4. back = 0 => \A k \in DOMAIN Indexed : heap[1].exp <= Indexed[k]
    BY <1>2, <1>4, <2>1, FrontEarliest
  <2>5. DL!Expire(heap[1].id)
    BY <1>1, <1>4, <2>1, <2>2, <2>3, <2>4 DEF DL!Expire, DL!Armed, DL!Due, DL!Drop
  <2> QED BY <2>2, <2>5 DEF DL!Next
<1>13. CASE TickEnd
  <2>1. pc = "tick" /\ ~FrontExpired /\ sweep' = "no" /\ UNCHANGED <<heap, ref, now, back, victim>>
    BY <1>13 DEF TickEnd
  <2>2. Indexed' = Indexed
    BY <2>1 DEF Indexed
  <2>3. ASSUME back = 0, NEW id \in DOMAIN Indexed PROVE ~(Indexed[id] - now < MsTicks)
    <3>1. id \in DOMAIN ref /\ Indexed[id] = heap[ref[id]].exp /\ ref[id] \in 1..Size
      BY <1>2, <1>4, <2>1, <2>3
    <3>2. heap # <<>> /\ 1 \in 1..Size
      BY <1>2, <3>1 DEF Size, DataInv, HTypeOK
    <3>3. MsLeft \in Int /\ ~(MsLeft <= 0)
      BY <2>1, <3>2, MsLeftType DEF FrontExpired, DataInv
    <3>4. ~(heap[1].exp - now < MsTicks)
      BY <3>2, <3>3, MsLeftType DEF DataInv
    <3>5. heap[1].exp <= heap[ref[id]].exp
      BY <2>1, <2>3, <3>1, FrontEarliest
    <3> QED BY <1>2, <3>1, <3>2, <3>4, <3>5
  <2>4. DL!EndSweep
    BY <1>1, <1>4, <2>1, <2>2, <2>3 DEF DL!EndSweep, DL!Armed, DL!Due
  <2> QED BY <2>4 DEF DL!Next
<1>14. CASE \E for \in {"tick", "next"} : Tick(for)
  <2>1. pc = "idle" /\ sweep' # "no" /\ UNCHANGED <<heap, ref, now, back, victim>>
    BY <1>14 DEF Tick
  <2>2. Indexed' = Indexed
    BY <2>1 DEF Indexed
  <2>3. DL!StartSweep
    BY <1>1, <1>3, <2>1, <2>2 DEF DL!StartSweep
  <2> QED BY <2>3 DEF DL!Next
<1>15. CASE Advance \/ StepBack
  <2>1. UNCHANGED <<heap, ref, victim, sweep>> /\ now' # now
        /\ (back' = 0) = (back = 0 /\ now' > now)
    BY <1>2, <1>15 DEF Advance, StepBack
  <2>2. Indexed' = Indexed
    BY <2>1 DEF Indexed
  <2>3. DL!Pass
    BY <1>1, <2>1, <2>2 DEF DL!Pass
  <2> QED BY <2>3 DEF DL!Next
<1> QED
  BY <1>5, <1>6, <1>7, <1>8, <1>9, <1>10, <1>11, <1>12, <1>13, <1>14, <1>15
  DEF Next, Inside, DL!Next

(* The heap keeps what Deadlines promises: each sweep takes only due ids   *)
(* and deletes them, in order and with none left behind as long as the     *)
(* clock has not stepped back.                                             *)
THEOREM HeapIsDeadlines == Spec => ImplementsDeadlines
<1>1. Init => DL!Init
  <2> SUFFICES ASSUME Init PROVE DL!Init
    OBVIOUS
  <2>1. Deadline = Indexed
    BY DataInit, DeadlineIndexed
  <2>2. DOMAIN ref = {} /\ now = 0 /\ back = 0 /\ sweep = "no"
    BY DEF Init
  <2>3. Deadline = [id \in {} |-> 0]
    BY <2>1, <2>2 DEF Indexed
  <2> QED BY <2>2, <2>3 DEF DL!Init
<1> QED
  BY <1>1, Refines, DataInit, DataStep, OrderInit, OrderStep, PTL
  DEF Spec, ImplementsDeadlines, DL!Spec
=============================================================================

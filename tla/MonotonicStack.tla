--------------------------- MODULE MonotonicStack ---------------------------
(***************************************************************************)
(* MonotonicStack<T, Compare> (test_libgo/algorithm_structure): a push     *)
(* first takes off what compares after the new value.  A stack is a        *)
(* sequence, its top the last item; order is "less" or "greater", the two  *)
(* comparisons the header gives names to.                                  *)
(***************************************************************************)
EXTENDS Integers, Sequences

CONSTANTS
  Values,     \* what is pushed: numbers
  MaxPushes   \* bound: pushes on a stack

ASSUME StackAssumption == Values \subseteq Int /\ MaxPushes \in Nat

VARIABLES
  order,      \* comp_
  stack,      \* data_
  pushed      \* history: the values pushed, gone for those pop took off

svars == <<order, stack, pushed>>

Comp(a, b) == IF order = "less" THEN a < b ELSE a > b

Top(s) == s[Len(s)]
Pop(s) == SubSeq(s, 1, Len(s) - 1)

(* Mutant: one item is taken off at most.                                  *)
PushOnce(s, value) ==
  IF s # <<>> /\ Comp(value, Top(s)) THEN Append(Pop(s), value)
  ELSE Append(s, value)

(* How much is left when the loop has ended: the stack is empty, or value  *)
(* does not compare before its top, as it did before all that is gone.     *)
Kept(s, value) ==
  CHOOSE k \in 0..Len(s) :
    /\ k = 0 \/ ~Comp(value, s[k])
    /\ \A i \in (k + 1)..Len(s) : Comp(value, s[i])

Push(s, value) == Append(SubSeq(s, 1, Kept(s, value)), value)

-----------------------------------------------------------------------------
(* A caller's pushes and pops.                                             *)

StackInit == order \in {"less", "greater"} /\ stack = <<>> /\ pushed = <<>>

StackPush ==
  /\ Len(pushed) < MaxPushes
  /\ \E v \in Values : /\ stack' = Push(stack, v)
                       /\ pushed' = Append(pushed, [val |-> v, gone |-> FALSE])
  /\ UNCHANGED order

(* The pushed values on the stack, by position: those not gone that no     *)
(* later one compares before.                                              *)
OnStack ==
  {i \in DOMAIN pushed : /\ ~pushed[i].gone
                         /\ \A j \in DOMAIN pushed :
                              j > i => ~Comp(pushed[j].val, pushed[i].val)}

(* pop; on an empty stack it throws and changes nothing.                   *)
StackPop ==
  /\ stack # <<>>
  /\ stack' = Pop(stack)
  /\ \E i \in OnStack : /\ \A j \in OnStack : j <= i
                        /\ pushed' = [pushed EXCEPT ![i].gone = TRUE]
  /\ UNCHANGED order

StackNext == StackPush \/ StackPop

StackSpec == StackInit /\ [][StackNext]_svars

-----------------------------------------------------------------------------
(* Whatever is pushed and popped, the stack holds the values that no value *)
(* pushed later compared before, in the order they came: at[i] is the push *)
(* that its i-th item comes from.                                          *)
StackSound ==
  \E at \in [DOMAIN stack -> OnStack] :
    /\ \A i, j \in DOMAIN stack : i < j => at[i] < at[j]
    /\ \A p \in OnStack : \E i \in DOMAIN stack : at[i] = p
    /\ \A i \in DOMAIN stack : stack[i] = pushed[at[i]].val
=============================================================================

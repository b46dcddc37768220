------------------------------ MODULE Sorting -------------------------------
(***************************************************************************)
(* The sorting exercises (test_libgo/algorithm_sort) and binary search     *)
(* (algorithm_search/binary_searsh.cpp), one step for each turn of a loop. *)
(* A caller fills an array, has one function sort it and searches it.  The *)
(* code's indices start at 0, those of a sequence at 1: index i of the     *)
(* code is i + 1 here.                                                     *)
(***************************************************************************)
EXTENDS Integers, Sequences

CONSTANTS
  Items,      \* what an array holds: numbers
  MaxLength   \* bound: items of an array

ASSUME SortingAssumption == Items \subseteq Int /\ MaxLength \in Nat

VARIABLES
  running,    \* the function called last, "none" at first
  pc,         \* where it is; "done" when it has returned
  input,      \* history: the array the caller filled
  nums,       \* the array
  i, j,       \* the indices of the loops; left and right of the search
  gap,        \* of insert_sort (1) and shell_sort
  key,        \* the item or the pivot held, or the target of the search
  temp,       \* merge's
  calls       \* calls of merge_sort or quickSort that have not returned

sortvars == <<running, pc, input, nums, i, j, gap, key, temp, calls>>

Sorters == {"insert", "shell", "merge", "quick", "heap"}

N == Len(nums)
Swapped(s, a, b) == [s EXCEPT ![a] = s[b], ![b] = s[a]]
Current == calls[Len(calls)]
Callers == SubSeq(calls, 1, Len(calls) - 1)
Middle(left, right) == (left + right) \div 2

-----------------------------------------------------------------------------
(* The caller.                                                             *)

SortInit ==
  /\ running = "none" /\ pc = "done"
  /\ input = <<>> /\ nums = <<>>
  /\ i = 0 /\ j = 0 /\ gap = 0 /\ key = 0 /\ temp = <<>> /\ calls = <<>>

Extend ==
  /\ running = "none" /\ N < MaxLength
  /\ \E v \in Items : nums' = Append(nums, v) /\ input' = nums'
  /\ UNCHANGED <<running, pc, i, j, gap, key, temp, calls>>

Sort ==
  /\ running = "none"
  /\ \/ /\ running' = "insert" /\ pc' = IF N <= 1 THEN "done" ELSE "next"
        /\ gap' = 1 /\ i' = 2 /\ UNCHANGED calls
     \/ /\ running' = "shell" /\ pc' = "gap"
        /\ gap' = N \div 2 /\ UNCHANGED <<i, calls>>
     \/ /\ running' \in {"merge", "quick"} /\ pc' = "call"
        /\ calls' = <<[left |-> 1, right |-> N, at |-> "enter"]>> /\ UNCHANGED <<i, gap>>
     \/ /\ running' = "heap" /\ pc' = "build"
        /\ i' = N \div 2 /\ UNCHANGED <<gap, calls>>
  /\ UNCHANGED <<input, nums, j, key, temp>>

Search ==
  /\ running \in Sorters /\ pc = "done"
  /\ running' = "search" /\ pc' = "probe"
  /\ key' \in Items /\ i' = 1 /\ j' = N /\ gap' = 0 /\ temp' = <<>> /\ calls' = <<>>
  /\ UNCHANGED <<input, nums>>

-----------------------------------------------------------------------------
(* insert_sort and shell_sort: larger items move gap places up, from       *)
(* position j down; key fills the place the last of them left.             *)

GapLoop ==
  /\ pc = "gap"
  /\ IF gap > 0 THEN pc' = "next" /\ i' = gap + 1 ELSE pc' = "done" /\ UNCHANGED i
  /\ UNCHANGED <<nums, j, gap, key>>

NextItem ==
  /\ pc = "next"
  /\ IF i <= N THEN pc' = "shift" /\ key' = nums[i] /\ j' = i - gap /\ UNCHANGED gap
     ELSE /\ IF running = "shell" THEN pc' = "gap" /\ gap' = gap \div 2
             ELSE pc' = "done" /\ UNCHANGED gap
          /\ UNCHANGED <<key, j>>
  /\ UNCHANGED <<nums, i>>

Shift ==
  /\ pc = "shift"
  /\ IF j >= 1 /\ nums[j] > key
     THEN /\ nums' = [nums EXCEPT ![j + gap] = nums[j]]
          /\ j' = j - gap /\ UNCHANGED <<pc, i>>
     ELSE /\ nums' = [nums EXCEPT ![j + gap] = key]
          /\ i' = i + 1 /\ pc' = "next" /\ UNCHANGED j
  /\ UNCHANGED <<gap, key>>

GapSort == (GapLoop \/ NextItem \/ Shift) /\ UNCHANGED <<temp, calls>>

-----------------------------------------------------------------------------
(* A call of merge_sort or quickSort returns.                              *)
Return == calls' = Callers /\ pc' = IF Len(calls) = 1 THEN "done" ELSE "call"

(* merge_sort: at says how far a call is: before, in the first or in the   *)
(* second of its own calls.                                                *)
Descend(at, left, right) ==
  /\ calls' = Append(Append(Callers, [Current EXCEPT !.at = at]),
                     [left |-> left, right |-> right, at |-> "enter"])
  /\ UNCHANGED <<pc, i, j, temp>>

MergeCall ==
  /\ pc = "call" /\ running = "merge"
  /\ LET left == Current.left   right == Current.right   mid == Middle(left, right)
     IN  \/ Current.at = "enter" /\ left < right /\ Descend("first", left, mid)
         \/ Current.at = "enter" /\ left >= right /\ Return /\ UNCHANGED <<i, j, temp>>
         \/ Current.at = "first" /\ Descend("second", mid + 1, right)
         \/ /\ Current.at = "second"
            /\ pc' = "merge" /\ i' = left /\ j' = mid + 1 /\ temp' = <<>>
            /\ UNCHANGED calls
  /\ UNCHANGED nums

(* The smaller of the next items is taken, the left one of equals; one     *)
(* half is taken to its end when the other is used up.                     *)
Merge ==
  /\ pc = "merge"
  /\ LET left == Current.left   right == Current.right   mid == Middle(left, right)
     IN  \/ /\ i <= mid /\ (j <= right => nums[i] <= nums[j])
            /\ temp' = Append(temp, nums[i]) /\ i' = i + 1
            /\ UNCHANGED <<pc, nums, j, calls>>
         \/ /\ j <= right /\ (i <= mid => nums[i] > nums[j])
            /\ temp' = Append(temp, nums[j]) /\ j' = j + 1
            /\ UNCHANGED <<pc, nums, i, calls>>
         \/ /\ i > mid /\ j > right /\ Return
            /\ nums' = [p \in 1..N |-> IF p \in left..right THEN temp[p - left + 1]
                                       ELSE nums[p]]
            /\ UNCHANGED <<i, j, temp>>

MergeSort == (MergeCall \/ Merge) /\ UNCHANGED <<gap, key>>

-----------------------------------------------------------------------------
(* quickSort.  A call that has made its first recursive call has only the  *)
(* second left to do: calls has that one in its place.                     *)
QuickCall ==
  /\ pc = "call" /\ running = "quick"
  /\ IF Current.left >= Current.right THEN Return /\ UNCHANGED <<i, j, key>>
     ELSE /\ pc' = "down" /\ key' = nums[Current.left] /\ i' = Current.left /\ j' = Current.right
          /\ UNCHANGED calls
  /\ UNCHANGED nums

ScanDown ==
  /\ pc = "down"
  /\ IF i < j /\ nums[j] >= key THEN j' = j - 1 /\ UNCHANGED pc
     ELSE pc' = "up" /\ UNCHANGED j
  /\ UNCHANGED <<nums, i, key, calls>>

(* Mutant: the scan stops at an item equal to the pivot.                   *)
PassedStrictly(v) == v < key

(* What the scan from the left passes.                                     *)
Passed(v) == v <= key

(* The scan from the left, and what comes when it has ended: a swap and    *)
(* another turn, or the pivot goes where i and j have met.                 *)
ScanUp ==
  /\ pc = "up"
  /\ \/ i < j /\ Passed(nums[i]) /\ i' = i + 1 /\ UNCHANGED <<pc, nums, calls>>
     \/ /\ i < j /\ ~Passed(nums[i])
        /\ nums' = Swapped(nums, i, j) /\ pc' = "down" /\ UNCHANGED <<i, calls>>
     \/ /\ i >= j
        /\ nums' = Swapped(nums, Current.left, j) /\ pc' = "call" /\ UNCHANGED i
        /\ calls' = Append(Append(Callers, [Current EXCEPT !.left = j + 1]),
                           [Current EXCEPT !.right = j - 1])
  /\ UNCHANGED <<j, key>>

QuickSort == (QuickCall \/ ScanDown \/ ScanUp) /\ UNCHANGED <<gap, temp>>

-----------------------------------------------------------------------------
(* heapSort: the children of position j are 2j and 2j + 1.                 *)

(* heapify(n, j); its caller goes on at back, with the next i.             *)
Heapify(n, back) ==
  LET first == IF 2 * j <= n /\ nums[2 * j] > nums[j] THEN 2 * j ELSE j
      largest == IF 2 * j + 1 <= n /\ nums[2 * j + 1] > nums[first] THEN 2 * j + 1 ELSE first
  IN  IF largest # j
      THEN nums' = Swapped(nums, j, largest) /\ j' = largest /\ UNCHANGED <<pc, i>>
      ELSE pc' = back /\ i' = i - 1 /\ UNCHANGED <<nums, j>>

Build ==
  /\ pc = "build"
  /\ IF i >= 1 THEN pc' = "sink" /\ j' = i /\ UNCHANGED i
     ELSE pc' = "pop" /\ i' = N /\ UNCHANGED j
  /\ UNCHANGED nums

PopMax ==
  /\ pc = "pop"
  /\ IF i >= 1 THEN pc' = "resink" /\ nums' = Swapped(nums, 1, i) /\ j' = 1
     ELSE pc' = "done" /\ UNCHANGED <<nums, j>>
  /\ UNCHANGED i

HeapSort ==
  /\ \/ Build \/ PopMax
     \/ pc = "sink" /\ Heapify(N, "build")
     \/ pc = "resink" /\ Heapify(i - 1, "pop")
  /\ UNCHANGED <<gap, key, temp, calls>>

-----------------------------------------------------------------------------
(* binarySearcsh: i ends as the position of key, or 0.                     *)

(* Mutant: the middle stays in the range.                                  *)
UpperHalfWithMiddle(mid) == mid

(* Where the search goes on in the upper half.                             *)
UpperHalf(mid) == mid + 1

Probe ==
  /\ pc = "probe"
  /\ LET mid == Middle(i, j)
     IN  \/ i > j /\ pc' = "done" /\ i' = 0 /\ UNCHANGED j
         \/ i <= j /\ nums[mid] = key /\ pc' = "done" /\ i' = mid /\ UNCHANGED j
         \/ i <= j /\ nums[mid] < key /\ i' = UpperHalf(mid) /\ UNCHANGED <<pc, j>>
         \/ i <= j /\ nums[mid] > key /\ j' = mid - 1 /\ UNCHANGED <<pc, i>>
  /\ UNCHANGED <<nums, gap, key, temp, calls>>

-----------------------------------------------------------------------------
SortStep ==
  /\ GapSort \/ MergeSort \/ QuickSort \/ HeapSort \/ Probe
  /\ UNCHANGED <<running, input>>

SortNext == Extend \/ Sort \/ Search \/ SortStep

SortSpec == SortInit /\ [][SortNext]_sortvars

-----------------------------------------------------------------------------
Ordered(s) == \A p, q \in DOMAIN s : p < q => s[p] <= s[q]

(* s holds the items of t, each as often as t: of two sequences of one     *)
(* length, some map takes the places of s onto those of t.                 *)
Permutes(s, t) ==
  /\ Len(s) = Len(t)
  /\ \E f \in [DOMAIN s -> DOMAIN t] :
       /\ \A q \in DOMAIN t : \E p \in DOMAIN s : f[p] = q
       /\ \A p \in DOMAIN s : s[p] = t[f[p]]

(* Each of the five sorting functions leaves the items it was given, in    *)
(* order, and a binary search in what it left ends at the key, if it is    *)
(* there, and finds nothing if it is not.                                  *)
SortsAgree ==
  pc = "done" /\ running # "none" =>
    /\ Permutes(nums, input)
    /\ Ordered(nums)
    /\ running = "search" =>
         IF \E p \in DOMAIN nums : nums[p] = key THEN i \in DOMAIN nums /\ nums[i] = key
         ELSE i = 0

(* A call is under way.                                                    *)
SortBusy == pc # "done"
=============================================================================

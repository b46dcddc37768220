--------------------------- MODULE SortingProofs ----------------------------
(***************************************************************************)
(* Theorems about Sorting, for any numbers and arrays of any length: what  *)
(* holds at every step of the five sorting functions and of the search.    *)
(***************************************************************************)
EXTENDS Sorting, WellFoundedInduction, TLAPS

(* s is in order from place a to place b.                                  *)
OrderedIn(s, a, b) == \A p, q \in a..b : p < q => s[p] <= s[q]

Frames == [left : Int, right : Int, at : {"enter", "first", "second"}]

STypeOK ==
  /\ running \in Sorters \union {"none", "search"}
  /\ input \in Seq(Int) /\ nums \in Seq(Int) /\ Len(nums) = Len(input)
  /\ i \in Int /\ j \in Int /\ gap \in Int /\ key \in Int
  /\ temp \in Seq(Int) /\ calls \in Seq(Frames)

(* Where each function can be.                                             *)
AtInv ==
  /\ running = "none" => pc = "done" /\ nums = input
  /\ running = "insert" => pc \in {"next", "shift", "done"}
  /\ running = "shell" => pc \in {"gap", "next", "shift", "done"}
  /\ running = "merge" => pc \in {"call", "merge", "done"}
  /\ running = "quick" => pc \in {"call", "down", "up", "done"}
  /\ running = "heap" => pc \in {"build", "sink", "pop", "resink", "done"}
  /\ running = "search" => pc \in {"probe", "done"}

-----------------------------------------------------------------------------
(* insert_sort and shell_sort: the pass with gap 1 sorts.  While an item   *)
(* is moved down, the place it goes to holds a copy of another; with the   *)
(* item there the array is a permutation of the input.                     *)

GapAt == running \in {"insert", "shell"} /\ pc = "gap" =>
  /\ gap \in 0..N
  /\ Permutes(nums, input)
  /\ gap = 0 => Ordered(nums)

NextAt == pc = "next" =>
  /\ gap \in 1..N /\ i \in (gap + 1)..(N + 1)
  /\ running = "insert" => gap = 1
  /\ Permutes(nums, input)
  /\ gap = 1 => OrderedIn(nums, 1, i - 1)

ShiftAt == pc = "shift" =>
  /\ gap \in 1..N /\ i \in (gap + 1)..N /\ j \in (1 - gap)..(i - gap)
  /\ running = "insert" => gap = 1
  /\ Permutes([nums EXCEPT ![j + gap] = key], input)
  /\ gap = 1 =>
       /\ \A p, q \in (1..i) \ {j + 1} : p < q => nums[p] <= nums[q]
       /\ \A q \in (j + 2)..i : nums[q] > key

-----------------------------------------------------------------------------
(* merge_sort: the calls under way, each in a half of the one before; what *)
(* their own calls have sorted stays sorted.                               *)

MidOf(c) == Middle(c.left, c.right)
HalfLeft(c) == IF c.at = "first" THEN c.left ELSE MidOf(c) + 1
HalfRight(c) == IF c.at = "first" THEN MidOf(c) ELSE c.right

RangesInv ==
  /\ calls # <<>> /\ Permutes(nums, input)
  /\ \A c \in DOMAIN calls : calls[c].left >= 1 /\ calls[c].right <= N

NestInv ==
  /\ calls[1].left = 1 /\ calls[1].right = N
  /\ \A c \in DOMAIN calls : calls[c].at # "enter" => calls[c].left < calls[c].right
  /\ \A c, d \in DOMAIN calls : c < d =>
       /\ calls[c].at # "enter"
       /\ HalfLeft(calls[c]) <= calls[d].left /\ calls[d].right <= HalfRight(calls[c])
       /\ d = c + 1 => HalfLeft(calls[c]) = calls[d].left /\ calls[d].right = HalfRight(calls[c])

HalvesInv ==
  /\ \A c \in DOMAIN calls :
       calls[c].at = "second" => OrderedIn(nums, calls[c].left, MidOf(calls[c]))
  /\ Current.at # "enter" => OrderedIn(nums, HalfLeft(Current), HalfRight(Current))

(* t holds the items s has at the places of S, one for each place.         *)
Holds(t, s, S) ==
  \E f \in [DOMAIN t -> S] :
    /\ \A q \in S : \E p \in DOMAIN t : f[p] = q
    /\ \A p \in DOMAIN t : t[p] = s[f[p]]

(* temp holds what was taken from both halves, in order, and nothing left  *)
(* in them is smaller.                                                     *)
Taken == (Current.left..(i - 1)) \union ((MidOf(Current) + 1)..(j - 1))
Left == (i..MidOf(Current)) \union (j..Current.right)

TempInv ==
  /\ Current.at = "second"
  /\ i \in Current.left..(MidOf(Current) + 1) /\ j \in (MidOf(Current) + 1)..(Current.right + 1)
  /\ Len(temp) = (i - Current.left) + (j - (MidOf(Current) + 1))
  /\ OrderedIn(temp, 1, Len(temp))
  /\ \A p \in DOMAIN temp : \A q \in Left : temp[p] <= nums[q]
  /\ Holds(temp, nums, Taken)

MergeInv == running = "merge" /\ pc # "done" =>
  RangesInv /\ NestInv /\ HalvesInv /\ (pc = "merge" => TempInv)

-----------------------------------------------------------------------------
(* quickSort: what is out of order lies in one call still to be made.      *)

In(p, c) == c.left <= p /\ p <= c.right

Apart(cs, n) ==
  \A c, d \in DOMAIN cs : c # d => \A p \in 1..n : ~(In(p, cs[c]) /\ In(p, cs[d]))

Blocks(s, cs) ==
  \A p, q \in 1..Len(s) :
    p < q => s[p] <= s[q] \/ \E c \in DOMAIN cs : In(p, cs[c]) /\ In(q, cs[c])

ScanInv ==
  /\ Current.left <= i /\ i <= j /\ j <= Current.right /\ Current.left < Current.right
  /\ nums[Current.left] = key
  /\ \A p \in Current.left..(i - 1) : nums[p] <= key
  /\ \A p \in (j + 1)..Current.right : nums[p] >= key
  /\ nums[IF pc = "down" THEN i ELSE j] <= key

QuickInv == running = "quick" /\ pc # "done" =>
  RangesInv /\ Apart(calls, N) /\ Blocks(nums, calls) /\ (pc # "call" => ScanInv)

-----------------------------------------------------------------------------
(* heapSort: no item from place lo on is smaller than a child of its, but  *)
(* for the one that is sinking from place h.                               *)

Child(c, p) == c = 2 * p \/ c = 2 * p + 1

HeapFrom(s, lo, n) ==
  \A p, c \in 1..n : p >= lo /\ Child(c, p) => s[p] >= s[c]

SinkFrom(s, h, lo, n) ==
  /\ \A p, c \in 1..n : p >= lo /\ p # h /\ Child(c, p) => s[p] >= s[c]
  /\ \A p, c \in 1..n : p >= lo /\ Child(h, p) /\ Child(c, h) => s[p] >= s[c]

(* What was taken from the heap is in order, and no smaller than the rest. *)
SortedAbove(s, k) == \A p, q \in 1..Len(s) : p < q /\ q > k => s[p] <= s[q]

HeapInv == running = "heap" /\ pc # "done" =>
  /\ Permutes(nums, input) /\ i \in 0..N
  /\ pc = "build" => HeapFrom(nums, i + 1, N)
  /\ pc = "sink" => i >= 1 /\ j \in i..N /\ SinkFrom(nums, j, i, N)
  /\ pc = "pop" => HeapFrom(nums, 1, i) /\ SortedAbove(nums, i)
  /\ pc = "resink" =>
       i >= 1 /\ j \in 1..N /\ SinkFrom(nums, j, 1, i - 1) /\ SortedAbove(nums, i - 1)

-----------------------------------------------------------------------------
(* Binary search: the key is nowhere but between i and j.                  *)

SearchInv == running = "search" /\ pc # "done" =>
  /\ Permutes(nums, input) /\ Ordered(nums)
  /\ i >= 1 /\ j <= N
  /\ \A p \in 1..N : nums[p] = key => i <= p /\ p <= j

SortInv ==
  /\ STypeOK /\ AtInv
  /\ GapAt /\ NextAt /\ ShiftAt /\ MergeInv /\ QuickInv /\ HeapInv /\ SearchInv
  /\ SortsAgree
-----------------------------------------------------------------------------
(* Sequences, and permutations of them.                                    *)

LEMMA SeqOf ==
  ASSUME NEW n \in Nat, NEW s \in [1..n -> Int]
  PROVE  s \in Seq(Int) /\ Len(s) = n
OBVIOUS

LEMMA PutFacts ==
  ASSUME NEW s \in Seq(Int), NEW a \in 1..Len(s), NEW v \in Int
  PROVE  /\ [s EXCEPT ![a] = v] \in Seq(Int) /\ Len([s EXCEPT ![a] = v]) = Len(s)
         /\ \A p \in 1..Len(s) : [s EXCEPT ![a] = v][p] = IF p = a THEN v ELSE s[p]
OBVIOUS

LEMMA SwapFacts ==
  ASSUME NEW s \in Seq(Int), NEW a \in 1..Len(s), NEW b \in 1..Len(s)
  PROVE  /\ Swapped(s, a, b) \in Seq(Int) /\ Len(Swapped(s, a, b)) = Len(s)
         /\ Swapped(s, a, b)[a] = s[b] /\ Swapped(s, a, b)[b] = s[a]
         /\ \A p \in 1..Len(s) : p # a /\ p # b => Swapped(s, a, b)[p] = s[p]
BY DEF Swapped

LEMMA PermRefl ==
  ASSUME NEW s \in Seq(Int)
  PROVE  Permutes(s, s)
<1> DEFINE f == [p \in DOMAIN s |-> p]
<1>1. /\ f \in [DOMAIN s -> DOMAIN s]
      /\ \A q \in DOMAIN s : \E p \in DOMAIN s : f[p] = q
      /\ \A p \in DOMAIN s : s[p] = s[f[p]]
  OBVIOUS
<1> HIDE DEF f
<1> QED BY <1>1 DEF Permutes

(* A permutation of a permutation is one.                                  *)
LEMMA PermThrough ==
  ASSUME NEW s \in Seq(Int), NEW t \in Seq(Int), NEW u \in Seq(Int),
         Permutes(s, t), Len(u) = Len(s),
         NEW f \in [1..Len(s) -> 1..Len(s)],
         \A q \in 1..Len(s) : \E p \in 1..Len(s) : f[p] = q,
         \A p \in 1..Len(s) : u[p] = s[f[p]]
  PROVE  Permutes(u, t)
<1>1. DOMAIN u = 1..Len(s) /\ DOMAIN s = 1..Len(s) /\ Len(u) = Len(t)
  BY DEF Permutes
<1>0. PICK g \in [DOMAIN s -> DOMAIN t] :
        /\ \A q \in DOMAIN t : \E p \in DOMAIN s : g[p] = q
        /\ \A p \in DOMAIN s : s[p] = t[g[p]]
  BY DEF Permutes
<1>2. /\ g \in [1..Len(s) -> DOMAIN t]
      /\ \A q \in DOMAIN t : \E p \in 1..Len(s) : g[p] = q
      /\ \A p \in 1..Len(s) : s[p] = t[g[p]]
  BY <1>0, <1>1
<1> DEFINE h == [p \in 1..Len(s) |-> g[f[p]]]
<1>3. h \in [1..Len(s) -> DOMAIN t] /\ \A p \in 1..Len(s) : h[p] = g[f[p]]
  BY <1>2
<1> HIDE DEF h
<1>4. ASSUME NEW q \in DOMAIN t PROVE \E p \in 1..Len(s) : h[p] = q
  <2>1. PICK r \in 1..Len(s) : g[r] = q
    BY <1>2
  <2>2. PICK p \in 1..Len(s) : f[p] = r
    OBVIOUS
  <2> QED BY <1>3, <2>1, <2>2
<1>5. \A p \in 1..Len(s) : u[p] = t[h[p]]
  BY <1>2, <1>3
<1>6. /\ h \in [DOMAIN u -> DOMAIN t]
      /\ \A q \in DOMAIN t : \E p \in DOMAIN u : h[p] = q
      /\ \A p \in DOMAIN u : u[p] = t[h[p]]
  BY <1>1, <1>3, <1>4, <1>5
<1> QED BY <1>1, <1>6 DEF Permutes

LEMMA PermSwap ==
  ASSUME NEW s \in Seq(Int), NEW t \in Seq(Int), Permutes(s, t),
         NEW a \in 1..Len(s), NEW b \in 1..Len(s)
  PROVE  Permutes(Swapped(s, a, b), t)
<1> DEFINE u == Swapped(s, a, b)
           f == [p \in 1..Len(s) |-> IF p = b THEN a ELSE IF p = a THEN b ELSE p]
<1>1. /\ u \in Seq(Int) /\ Len(u) = Len(s)
      /\ u[a] = s[b] /\ u[b] = s[a]
      /\ \A p \in 1..Len(s) : p # a /\ p # b => u[p] = s[p]
  BY SwapFacts
<1>2. f \in [1..Len(s) -> 1..Len(s)] /\ \A q \in 1..Len(s) : f[f[q]] = q
  OBVIOUS
<1>3. \A q \in 1..Len(s) : \E p \in 1..Len(s) : f[p] = q
  BY <1>2
<1>4. \A p \in 1..Len(s) : u[p] = s[f[p]]
  BY <1>1
<1> HIDE DEF f, u
<1>5. Permutes(u, t)
  BY <1>1, <1>2, <1>3, <1>4, PermThrough
<1> QED BY <1>5 DEF u

(* Of numbers there is a least.                                            *)
LEMMA LeastIn ==
  ASSUME NEW T, T \subseteq Nat, T # {}
  PROVE  \E n \in T : \A m \in T : n <= m
<1> DEFINE R == OpToRel(<, Nat)
<1>1. IsWellFoundedOn(R, Nat)
  BY NatLessThanWellFounded
<1> HIDE DEF R
<1>2. PICK n \in T : \A m \in T : ~(<<m, n>> \in R)
  BY <1>1, WFMin
<1>3. ASSUME NEW m \in T PROVE n <= m
  <2>1. <<m, n>> \notin R /\ m \in Nat /\ n \in Nat
    BY <1>2
  <2>2. ~(m < n)
    BY <2>1 DEF R, OpToRel
  <2> QED BY <2>1, <2>2
<1> QED BY <1>3

LEMMA ArrayFacts ==
  ASSUME STypeOK
  PROVE  /\ N \in Nat /\ N = Len(nums) /\ DOMAIN nums = 1..N
         /\ \A p \in 1..N : nums[p] \in Int
BY DEF STypeOK, N

-----------------------------------------------------------------------------
(* insert_sort and shell_sort.                                             *)

LEMMA GapLoopInv ==
  ASSUME SortInv, GapLoop, UNCHANGED <<temp, calls, running, input>>
  PROVE  SortInv'
<1>1. running = "shell" /\ pc = "gap" /\ nums' = nums /\ gap' = gap
  BY DEF SortInv, AtInv, STypeOK, Sorters, GapLoop
<1>2. gap \in 0..N /\ Permutes(nums, input) /\ (gap = 0 => Ordered(nums))
  BY <1>1 DEF SortInv, GapAt
<1>3. N' = N /\ N \in Nat /\ DOMAIN nums = 1..N /\ \A p \in 1..N : nums[p] \in Int
  BY <1>1, ArrayFacts DEF SortInv, N
<1>4. STypeOK'
  BY <1>1, <1>2, <1>3 DEF SortInv, STypeOK, GapLoop
<1>5. CASE gap = 0
  BY <1>1, <1>2, <1>4, <1>5 DEF SortInv, AtInv, GapAt, NextAt, ShiftAt, MergeInv, QuickInv,
     HeapInv, SearchInv, SortsAgree, GapLoop
<1>6. CASE gap # 0
  <2>1. pc' = "next" /\ i' = gap + 1 /\ gap > 0
    BY <1>2, <1>6 DEF GapLoop
  <2>2. NextAt'
    <3>1. gap = 1 => OrderedIn(nums, 1, 1)
      BY DEF OrderedIn
    <3> QED BY <1>1, <1>2, <1>3, <2>1, <3>1 DEF NextAt
  <2> QED BY <1>1, <1>4, <2>1, <2>2 DEF SortInv, AtInv, GapAt, ShiftAt, MergeInv, QuickInv,
     HeapInv, SearchInv, SortsAgree
<1> QED BY <1>5, <1>6

LEMMA NextItemInv ==
  ASSUME SortInv, NextItem, UNCHANGED <<temp, calls, running, input>>
  PROVE  SortInv'
<1>1. running \in {"insert", "shell"} /\ pc = "next" /\ nums' = nums /\ i' = i
  BY DEF SortInv, AtInv, STypeOK, Sorters, NextItem
<1>2. /\ gap \in 1..N /\ i \in (gap + 1)..(N + 1) /\ (running = "insert" => gap = 1)
      /\ Permutes(nums, input) /\ (gap = 1 => OrderedIn(nums, 1, i - 1))
  BY <1>1 DEF SortInv, NextAt
<1>3. N' = N /\ N = Len(nums) /\ N \in Nat /\ DOMAIN nums = 1..N /\ \A p \in 1..N : nums[p] \in Int
  BY <1>1, ArrayFacts DEF SortInv, N
<1>4. CASE i <= N
  <2>1. pc' = "shift" /\ key' = nums[i] /\ j' = i - gap /\ gap' = gap /\ i \in 1..N
    BY <1>2, <1>4 DEF NextItem
  <2>2. STypeOK'
    BY <1>1, <1>2, <1>3, <2>1 DEF SortInv, STypeOK
  <2>3. ShiftAt'
    <3>1. [nums EXCEPT ![i] = nums[i]] = nums
      BY <1>3, <2>1 DEF SortInv, STypeOK
    <3>2. j' + gap' = i
      BY <1>2, <2>1
    <3>3. Permutes([nums' EXCEPT ![j' + gap'] = key'], input')
      BY <1>1, <1>2, <2>1, <3>1, <3>2
    <3>4. gap = 1 => \A p, q \in (1..i) \ {i} : p < q => nums[p] <= nums[q]
      BY <1>2 DEF OrderedIn
    <3>5. gap = 1 => j' + 1 = i
      BY <1>2, <2>1
    <3> QED BY <1>1, <1>2, <1>3, <1>4, <2>1, <3>3, <3>4, <3>5 DEF ShiftAt
  <2> QED BY <1>1, <2>1, <2>2, <2>3 DEF SortInv, AtInv, GapAt, NextAt, MergeInv, QuickInv,
     HeapInv, SearchInv, SortsAgree
<1>5. CASE i > N
  <2>1. i = N + 1 /\ key' = key /\ j' = j
    BY <1>2, <1>3, <1>5 DEF NextItem
  <2>2. gap = 1 => Ordered(nums)
    <3>1. i - 1 = N
      BY <1>2, <1>3, <2>1
    <3> QED BY <1>2, <1>3, <3>1 DEF OrderedIn, Ordered
  <2>3. CASE running = "insert"
    <3>1. pc' = "done" /\ gap' = gap
      BY <1>3, <1>5, <2>3, <2>1 DEF NextItem
    <3>2. STypeOK'
      BY <1>1, <1>3, <2>1, <3>1 DEF SortInv, STypeOK
    <3> QED BY <1>1, <1>2, <2>2, <2>3, <3>1, <3>2 DEF SortInv, AtInv, GapAt, NextAt, ShiftAt,
       MergeInv, QuickInv, HeapInv, SearchInv, SortsAgree
  <2>4. CASE running = "shell"
    <3>1. pc' = "gap" /\ gap' = gap \div 2
      BY <1>3, <1>5, <2>4, <2>1 DEF NextItem
    <3>2. gap \div 2 \in 0..N /\ (gap \div 2 = 0 => gap = 1)
      BY <1>2, <1>3
    <3>3. STypeOK'
      BY <1>1, <1>2, <1>3, <2>1, <3>1, <3>2 DEF SortInv, STypeOK
    <3>4. GapAt'
      BY <1>1, <1>2, <1>3, <2>2, <3>1, <3>2 DEF GapAt
    <3> QED BY <1>1, <2>4, <3>1, <3>3, <3>4 DEF SortInv, AtInv, NextAt, ShiftAt,
       MergeInv, QuickInv, HeapInv, SearchInv, SortsAgree
  <2> QED BY <1>1, <2>3, <2>4
<1> QED BY <1>2, <1>3, <1>4, <1>5

(* A larger item moves up: with the item that is moved down in its place   *)
(* instead, two items of the array have changed places.                    *)
LEMMA ShiftInv ==
  ASSUME SortInv, Shift, UNCHANGED <<temp, calls, running, input>>
  PROVE  SortInv'
<1>1. running \in {"insert", "shell"} /\ pc = "shift" /\ gap' = gap /\ key' = key
  BY DEF SortInv, AtInv, STypeOK, Sorters, Shift
<1> DEFINE k == j + gap
           full == [nums EXCEPT ![k] = key]
<1>2. /\ gap \in 1..N /\ i \in (gap + 1)..N /\ j \in (1 - gap)..(i - gap)
      /\ (running = "insert" => gap = 1) /\ Permutes(full, input)
  BY <1>1 DEF SortInv, ShiftAt
<1>3. gap = 1 => /\ \A p, q \in (1..i) \ {k} : p < q => nums[p] <= nums[q]
                 /\ \A q \in (k + 1)..i : nums[q] > key
  <2>1. gap = 1 => k = j + 1 /\ k + 1 = j + 2
    BY <1>2
  <2> QED BY <1>1, <2>1 DEF SortInv, ShiftAt
<1>4. N = Len(nums) /\ N \in Nat /\ DOMAIN nums = 1..N /\ \A p \in 1..N : nums[p] \in Int
  BY ArrayFacts DEF SortInv, N
<1>5. /\ nums \in Seq(Int) /\ input \in Seq(Int) /\ key \in Int
      /\ k \in 1..N /\ k <= i
  BY <1>2, <1>4 DEF SortInv, STypeOK
<1>6. /\ full \in Seq(Int) /\ Len(full) = N
      /\ \A p \in 1..N : full[p] = IF p = k THEN key ELSE nums[p]
  BY <1>4, <1>5, PutFacts
<1> HIDE DEF full, k
<1>7. CASE j >= 1 /\ nums[j] > key
  <2>1. /\ nums' = [nums EXCEPT ![k] = nums[j]] /\ j' = j - gap /\ pc' = pc /\ i' = i
    BY <1>7 DEF Shift, k
  <2>2. j \in 1..N /\ j' + gap' = j /\ j < k
    BY <1>1, <1>2, <1>4, <1>7, <2>1 DEF k
  <2>3. /\ nums' \in Seq(Int) /\ Len(nums') = N
        /\ \A p \in 1..N : nums'[p] = IF p = k THEN nums[j] ELSE nums[p]
    BY <1>4, <1>5, <2>1, <2>2, PutFacts
  <2>4. N' = N
    BY <2>3 DEF N
  <2>5. STypeOK'
    BY <1>1, <1>2, <1>4, <2>1, <2>2, <2>3 DEF SortInv, STypeOK
  <2>6. Permutes([nums' EXCEPT ![j' + gap'] = key'], input')
    <3>1. [nums' EXCEPT ![j] = key] = Swapped(full, k, j)
      BY <1>4, <1>5, <1>6, <2>1, <2>2, <2>3 DEF Swapped, full
    <3>2. Permutes(Swapped(full, k, j), input)
      BY <1>2, <1>5, <1>6, <2>2, PermSwap
    <3> QED BY <1>1, <2>2, <3>1, <3>2
  <2>7. gap = 1 => /\ \A p, q \in (1..i) \ {j} : p < q => nums'[p] <= nums'[q]
                   /\ \A q \in (j + 1)..i : nums'[q] > key
    <3> SUFFICES ASSUME gap = 1
                 PROVE  /\ \A p, q \in (1..i) \ {j} : p < q => nums'[p] <= nums'[q]
                        /\ \A q \in (j + 1)..i : nums'[q] > key
      OBVIOUS
    <3>1. k = j + 1 /\ k \in 1..i /\ \A p \in 1..i : p \in 1..N
      BY <1>2, <1>4, <1>5, <2>2 DEF k
    <3>2. ASSUME NEW p \in (1..i) \ {j}, NEW q \in (1..i) \ {j}, p < q
          PROVE  nums'[p] <= nums'[q]
      <4>1. CASE p = k
        <5>1. nums'[p] = nums[j] /\ nums'[q] = nums[q] /\ j < q
          BY <1>2, <1>4, <2>2, <2>3, <3>1, <3>2, <4>1
        <5>2. j \in (1..i) \ {k} /\ q \in (1..i) \ {k}
          BY <1>2, <1>4, <2>2, <3>1, <3>2, <4>1
        <5> QED BY <1>3, <5>1, <5>2
      <4>2. CASE q = k
        <5>1. nums'[q] = nums[j] /\ nums'[p] = nums[p] /\ p < j /\ p # k /\ j # k
          BY <1>2, <1>4, <2>2, <2>3, <3>1, <3>2, <4>2
        <5>2. j \in (1..i) \ {k} /\ p \in (1..i) \ {k}
          BY <1>2, <1>4, <2>2, <3>1, <3>2, <4>2
        <5> QED BY <1>3, <5>1, <5>2
      <4>3. CASE p # k /\ q # k
        BY <1>3, <2>3, <3>1, <3>2, <4>3
      <4> QED BY <4>1, <4>2, <4>3
    <3>3. ASSUME NEW q \in (j + 1)..i PROVE nums'[q] > key
      <4>1. q \in 1..N /\ (q = k \/ q \in (k + 1)..i)
        BY <1>2, <1>4, <2>2, <3>1
      <4> QED BY <1>3, <1>7, <2>3, <3>1, <4>1
    <3> QED BY <3>2, <3>3
  <2>8. ShiftAt'
    <3>1. gap = 1 => j' + 1 = j /\ j' + 2 = j + 1
      BY <1>1, <1>2, <2>1
    <3>2. gap' \in 1..N' /\ i' \in (gap' + 1)..N' /\ j' \in (1 - gap')..(i' - gap')
      <4>1. j' \in (1 - gap)..(i - gap)
        BY <1>2, <2>1, <2>2
      <4> QED BY <1>1, <1>2, <2>1, <2>4, <4>1
    <3>3. gap = 1 => /\ \A p, q \in (1..i) \ {j' + 1} : p < q => nums'[p] <= nums'[q]
                     /\ \A q \in (j' + 2)..i : nums'[q] > key
      BY <2>7, <3>1
    <3> QED BY <1>1, <1>2, <2>1, <2>6, <3>2, <3>3 DEF ShiftAt
  <2> QED BY <1>1, <2>1, <2>5, <2>8 DEF SortInv, AtInv, GapAt, NextAt, MergeInv, QuickInv,
     HeapInv, SearchInv, SortsAgree
<1>8. CASE ~(j >= 1 /\ nums[j] > key)
  <2>1. nums' = full /\ i' = i + 1 /\ pc' = "next" /\ j' = j
    BY <1>8 DEF Shift, k, full
  <2>2. N' = N
    BY <1>6, <2>1 DEF N
  <2>3. STypeOK'
    BY <1>1, <1>2, <1>4, <1>5, <1>6, <2>1 DEF SortInv, STypeOK
  <2>4. gap = 1 => OrderedIn(full, 1, i)
    <3> SUFFICES ASSUME gap = 1, NEW p \in 1..i, NEW q \in 1..i, p < q
                 PROVE  full[p] <= full[q]
      BY DEF OrderedIn
    <3>1. k = j + 1 /\ p \in 1..N /\ q \in 1..N
      BY <1>2, <1>4 DEF k
    <3>2. CASE p = k
      <4>1. q \in (k + 1)..i /\ full[p] = key /\ full[q] = nums[q]
        BY <1>2, <1>4, <1>5, <1>6, <3>1, <3>2
      <4>2. nums[q] > key
        BY <1>3, <4>1
      <4> QED BY <1>4, <1>5, <3>1, <4>1, <4>2
    <3>3. CASE q = k
      <4>1. j >= 1 /\ p <= j /\ j \in (1..i) \ {k} /\ p \in (1..i) \ {k} /\ j \in 1..N
        BY <1>2, <1>4, <1>5, <3>1, <3>3
      <4>2. nums[j] <= key /\ nums[p] <= nums[j]
        BY <1>3, <1>4, <1>5, <1>8, <3>1, <4>1
      <4> QED BY <1>4, <1>5, <1>6, <3>1, <3>3, <4>1, <4>2
    <3>4. CASE p # k /\ q # k
      BY <1>3, <1>6, <3>1, <3>4
    <3> QED BY <3>2, <3>3, <3>4
  <2>5. NextAt'
    <3>1. i' - 1 = i /\ i' \in (gap + 1)..(N + 1)
      BY <1>2, <1>4, <2>1
    <3> QED BY <1>1, <1>2, <2>1, <2>2, <2>4, <3>1 DEF NextAt
  <2> QED BY <1>1, <2>1, <2>3, <2>5 DEF SortInv, AtInv, GapAt, ShiftAt, MergeInv, QuickInv,
     HeapInv, SearchInv, SortsAgree
<1> QED BY <1>7, <1>8

-----------------------------------------------------------------------------
(* heapSort.                                                               *)

LEMMA HeapifyFacts ==
  ASSUME STypeOK, j \in 1..N, NEW n \in 0..N, NEW back, Heapify(n, back)
  PROVE  \/ \E g \in 1..n :
              /\ Child(g, j) /\ nums[g] > nums[j]
              /\ \A c \in 1..n : Child(c, j) => nums[g] >= nums[c]
              /\ nums' = Swapped(nums, j, g) /\ j' = g /\ pc' = pc /\ i' = i
         \/ /\ \A c \in 1..n : Child(c, j) => nums[j] >= nums[c]
            /\ pc' = back /\ i' = i - 1 /\ nums' = nums /\ j' = j
<1> DEFINE first == IF 2 * j <= n /\ nums[2 * j] > nums[j] THEN 2 * j ELSE j
           largest == IF 2 * j + 1 <= n /\ nums[2 * j + 1] > nums[first] THEN 2 * j + 1 ELSE first
<1>1. N \in Nat /\ \A p \in 1..N : nums[p] \in Int
  BY ArrayFacts
<1>2. /\ first = j \/ (first = 2 * j /\ 2 * j \in 1..n /\ nums[2 * j] > nums[j])
      /\ first \in 1..N /\ nums[first] >= nums[j]
      /\ 2 * j \in 1..n => nums[first] >= nums[2 * j]
  <2>1. j \in Int /\ nums[j] \in Int /\ (2 * j <= n => 2 * j \in 1..N /\ 2 * j \in 1..n)
    BY <1>1
  <2>2. CASE 2 * j <= n /\ nums[2 * j] > nums[j]
    <3>1. first = 2 * j
      BY <2>2
    <3> HIDE DEF first
    <3> QED BY <1>1, <2>1, <2>2, <3>1
  <2>3. CASE ~(2 * j <= n /\ nums[2 * j] > nums[j])
    <3>1. first = j
      BY <2>3
    <3>2. 2 * j \in 1..n => 2 * j <= n /\ nums[2 * j] \in Int
      BY <1>1, <2>1
    <3>3. 2 * j \in 1..n => nums[j] >= nums[2 * j]
      BY <2>1, <2>3, <3>2
    <3> HIDE DEF first
    <3> QED BY <2>1, <3>1, <3>3
  <2> QED BY <2>2, <2>3
<1> HIDE DEF first
<1>3. /\ largest = j \/ (Child(largest, j) /\ largest \in 1..n /\ nums[largest] > nums[j])
      /\ nums[largest] >= nums[first]
      /\ 2 * j + 1 \in 1..n => nums[largest] >= nums[2 * j + 1]
  BY <1>1, <1>2 DEF Child
<1>4. \A c \in 1..n : Child(c, j) => nums[largest] >= nums[c]
  <2> SUFFICES ASSUME NEW c \in 1..n, Child(c, j) PROVE nums[largest] >= nums[c]
    OBVIOUS
  <2>1. c \in 1..N /\ largest \in 1..N
    BY <1>1, <1>2, <1>3
  <2>2. CASE c = 2 * j
    BY <1>1, <1>2, <1>3, <2>1, <2>2
  <2>3. CASE c = 2 * j + 1
    BY <1>3, <2>3
  <2> QED BY <2>2, <2>3 DEF Child
<1>5. /\ largest # j => nums' = Swapped(nums, j, largest) /\ j' = largest /\ pc' = pc /\ i' = i
      /\ largest = j => pc' = back /\ i' = i - 1 /\ nums' = nums /\ j' = j
  BY DEF Heapify, first
<1> HIDE DEF largest
<1> QED BY <1>3, <1>4, <1>5

(* The item that sinks changes places with its largest child.              *)
LEMMA SinkStep ==
  ASSUME NEW s \in Seq(Int), NEW n \in 0..Len(s), NEW lo \in Nat \ {0}, NEW h \in 1..Len(s),
         h >= lo, SinkFrom(s, h, lo, n), NEW g \in 1..n, Child(g, h), s[g] > s[h],
         \A c \in 1..n : Child(c, h) => s[g] >= s[c]
  PROVE  h \in 1..n /\ g >= lo /\ SinkFrom(Swapped(s, h, g), g, lo, n)
<1> DEFINE u == Swapped(s, h, g)
<1>1. h \in 1..n /\ h < g /\ \A p \in 1..n : p \in 1..Len(s) /\ s[p] \in Int
  BY DEF Child
<1>2. /\ u[h] = s[g] /\ u[g] = s[h]
      /\ \A p \in 1..n : p # h /\ p # g => u[p] = s[p]
  BY <1>1, SwapFacts
<1> HIDE DEF u
<1>3. ASSUME NEW p \in 1..n, NEW c \in 1..n, p >= lo, p # g, Child(c, p)
      PROVE  u[p] >= u[c]
  <2>0. p < c
    BY <1>3 DEF Child
  <2>1. CASE p = h
    <3>1. u[p] = s[g]
      BY <1>1, <1>2, <2>1
    <3>2. CASE c = g
      BY <1>1, <1>2, <3>1, <3>2
    <3>3. CASE c # g
      BY <1>1, <1>2, <1>3, <2>0, <2>1, <3>1, <3>3
    <3> QED BY <3>2, <3>3
  <2>2. CASE p # h /\ c = h
    <3>1. s[p] >= s[g]
      BY <1>3, <2>2 DEF SinkFrom
    <3> QED BY <1>1, <1>2, <1>3, <2>2, <3>1
  <2>3. CASE p # h /\ c # h
    <3>1. s[p] >= s[c]
      BY <1>3, <2>3 DEF SinkFrom
    <3>2. c # g
      BY <1>3, <2>3 DEF Child
    <3> QED BY <1>2, <1>3, <2>3, <3>1, <3>2
  <2> QED BY <2>1, <2>2, <2>3
<1>4. ASSUME NEW p \in 1..n, NEW c \in 1..n, p >= lo, Child(g, p), Child(c, g)
      PROVE  u[p] >= u[c]
  <2>1. p = h /\ c # g /\ c # h
    BY <1>1, <1>4 DEF Child
  <2>2. s[g] >= s[c]
    BY <1>1, <1>4 DEF SinkFrom
  <2> QED BY <1>1, <1>2, <2>1, <2>2
<1>5. SinkFrom(u, g, lo, n)
  BY <1>3, <1>4 DEF SinkFrom
<1> QED BY <1>1, <1>5 DEF u

(* The root of a heap is its largest item.                                 *)
LEMMA RootIsMax ==
  ASSUME NEW s \in Seq(Int), NEW n \in 1..Len(s), HeapFrom(s, 1, n)
  PROVE  \A p \in 1..n : s[p] <= s[1]
<1> DEFINE T == {p \in 1..n : s[p] > s[1]}
<1>1. T \subseteq Nat /\ \A p \in 1..n : s[p] \in Int
  OBVIOUS
<1> SUFFICES ASSUME T # {} PROVE FALSE
  BY <1>1
<1>2. PICK p \in T : \A m \in T : p <= m
  BY <1>1, LeastIn
<1>3. p \in 1..n /\ s[p] > s[1] /\ p # 1
  BY <1>1, <1>2
<1>4. p \div 2 \in 1..n /\ p \div 2 < p /\ Child(p, p \div 2)
  BY <1>3 DEF Child
<1>5. s[p \div 2] >= s[p]
  BY <1>3, <1>4 DEF HeapFrom
<1>6. p \div 2 \in T
  BY <1>1, <1>3, <1>4, <1>5
<1> QED BY <1>2, <1>3, <1>4, <1>6

(* Items that change places below k leave what is above in order.          *)
LEMMA SortedAboveSwap ==
  ASSUME NEW s \in Seq(Int), NEW k \in 0..Len(s), NEW a \in 1..k, NEW b \in 1..k,
         SortedAbove(s, k)
  PROVE  SortedAbove(Swapped(s, a, b), k)
<1> DEFINE u == Swapped(s, a, b)
<1>1. /\ Len(u) = Len(s)
      /\ u[a] = s[b] /\ u[b] = s[a]
      /\ \A p \in 1..Len(s) : p # a /\ p # b => u[p] = s[p]
  <2>1. a \in 1..Len(s) /\ b \in 1..Len(s)
    OBVIOUS
  <2> QED BY <2>1, SwapFacts
<1> HIDE DEF u
<1>2. ASSUME NEW p \in 1..Len(s), NEW q \in 1..Len(s), p < q, q > k
      PROVE  u[p] <= u[q]
  <2>1. PICK r \in 1..Len(s) : r < q /\ u[p] = s[r]
    <3>1. a \in 1..Len(s) /\ b \in 1..Len(s) /\ a < q /\ b < q
      BY <1>2
    <3> QED BY <1>1, <1>2, <3>1
  <2>2. u[q] = s[q]
    <3>1. q # a /\ q # b
      BY <1>2
    <3> QED BY <1>1, <3>1
  <2> QED BY <1>2, <2>1, <2>2 DEF SortedAbove
<1>3. SortedAbove(u, k)
  BY <1>1, <1>2 DEF SortedAbove
<1> QED BY <1>3 DEF u

LEMMA BuildInv ==
  ASSUME SortInv, Build, UNCHANGED <<gap, key, temp, calls, running, input>>
  PROVE  SortInv'
<1>1. running = "heap" /\ pc = "build" /\ nums' = nums
  BY DEF SortInv, AtInv, STypeOK, Sorters, Build
<1>2. i \in 0..N /\ Permutes(nums, input) /\ HeapFrom(nums, i + 1, N)
  BY <1>1 DEF SortInv, HeapInv
<1>3. N' = N /\ N \in Nat /\ N = Len(nums)
  BY <1>1, ArrayFacts DEF SortInv, N
<1>4. /\ pc' \in {"sink", "pop"} /\ i' \in 0..N /\ j' \in Int
  BY <1>2, <1>3 DEF Build, SortInv, STypeOK
<1>5. STypeOK' /\ AtInv'
  BY <1>1, <1>3, <1>4 DEF SortInv, STypeOK, AtInv
<1>6. HeapInv'
  <2>1. CASE i >= 1
    <3>1. pc' = "sink" /\ j' = i /\ i' = i /\ j' \in i..N
      BY <1>2, <1>3, <2>1 DEF Build
    <3>2. SinkFrom(nums, i, i, N)
      <4>1. ASSUME NEW p \in 1..N, p >= i, p # i PROVE p >= i + 1
        BY <1>2, <1>3, <4>1
      <4>2. ASSUME NEW p \in 1..N, p >= i PROVE ~Child(i, p)
        BY <1>2, <1>3, <4>2 DEF Child
      <4> QED BY <1>2, <4>1, <4>2 DEF SinkFrom, HeapFrom
    <3> QED BY <1>1, <1>2, <1>3, <2>1, <3>1, <3>2 DEF HeapInv
  <2>2. CASE ~(i >= 1)
    <3>1. pc' = "pop" /\ i' = N /\ i + 1 = 1
      BY <1>2, <1>3, <2>2 DEF Build
    <3>2. SortedAbove(nums, N)
      BY <1>3 DEF SortedAbove
    <3> QED BY <1>1, <1>2, <1>3, <3>1, <3>2 DEF HeapInv
  <2> QED BY <2>1, <2>2
<1> QED BY <1>1, <1>4, <1>5, <1>6 DEF SortInv, GapAt, NextAt, ShiftAt, MergeInv, QuickInv,
   SearchInv, SortsAgree

LEMMA SinkInv ==
  ASSUME SortInv, pc = "sink", Heapify(N, "build"),
         UNCHANGED <<gap, key, temp, calls, running, input>>
  PROVE  SortInv'
<1>1. running = "heap"
  BY DEF SortInv, AtInv, STypeOK, Sorters
<1>2. i \in 1..N /\ j \in i..N /\ Permutes(nums, input) /\ SinkFrom(nums, j, i, N)
  BY <1>1, ArrayFacts DEF SortInv, HeapInv
<1>3. /\ N \in Nat /\ N = Len(nums) /\ nums \in Seq(Int) /\ input \in Seq(Int)
      /\ j \in 1..N /\ STypeOK
  BY <1>2, ArrayFacts DEF SortInv, STypeOK
<1>4. CASE \E g \in 1..N :
             /\ Child(g, j) /\ nums[g] > nums[j]
             /\ \A c \in 1..N : Child(c, j) => nums[g] >= nums[c]
             /\ nums' = Swapped(nums, j, g) /\ j' = g /\ pc' = pc /\ i' = i
  <2>1. PICK g \in 1..N :
             /\ Child(g, j) /\ nums[g] > nums[j]
             /\ \A c \in 1..N : Child(c, j) => nums[g] >= nums[c]
             /\ nums' = Swapped(nums, j, g) /\ j' = g /\ pc' = pc /\ i' = i
    BY <1>4
  <2>2. g >= i /\ SinkFrom(nums', g, i, N)
    <3>1. i \in Nat \ {0} /\ j >= i /\ N \in 0..Len(nums)
      BY <1>2, <1>3
    <3> QED BY <1>2, <1>3, <2>1, <3>1, SinkStep
  <2>3. nums' \in Seq(Int) /\ Len(nums') = N /\ Permutes(nums', input)
    BY <1>2, <1>3, <2>1, SwapFacts, PermSwap
  <2>4. N' = N
    BY <2>3 DEF N
  <2>5. STypeOK' /\ AtInv'
    BY <1>1, <1>2, <1>3, <2>1, <2>3 DEF SortInv, STypeOK, AtInv
  <2>6. HeapInv'
    BY <1>1, <1>2, <1>3, <2>1, <2>2, <2>3, <2>4 DEF HeapInv
  <2> QED BY <1>1, <2>1, <2>5, <2>6 DEF SortInv, GapAt, NextAt, ShiftAt, MergeInv, QuickInv,
     SearchInv, SortsAgree
<1>5. CASE /\ \A c \in 1..N : Child(c, j) => nums[j] >= nums[c]
           /\ pc' = "build" /\ i' = i - 1 /\ nums' = nums /\ j' = j
  <2>1. N' = N
    BY <1>5 DEF N
  <2>2. STypeOK' /\ AtInv'
    BY <1>1, <1>2, <1>3, <1>5 DEF SortInv, STypeOK, AtInv
  <2>3. HeapFrom(nums, i, N) /\ i' + 1 = i /\ i' \in 0..N
    BY <1>2, <1>3, <1>5 DEF SinkFrom, HeapFrom
  <2>4. HeapInv'
    BY <1>1, <1>2, <1>5, <2>1, <2>3 DEF HeapInv
  <2> QED BY <1>1, <1>5, <2>2, <2>4 DEF SortInv, GapAt, NextAt, ShiftAt, MergeInv, QuickInv,
     SearchInv, SortsAgree
<1>6. N \in 0..N
  BY <1>3
<1> QED BY <1>3, <1>4, <1>5, <1>6, HeapifyFacts

LEMMA PopMaxInv ==
  ASSUME SortInv, PopMax, UNCHANGED <<gap, key, temp, calls, running, input>>
  PROVE  SortInv'
<1>1. running = "heap" /\ pc = "pop" /\ i' = i
  BY DEF SortInv, AtInv, STypeOK, Sorters, PopMax
<1>2. i \in 0..N /\ Permutes(nums, input) /\ HeapFrom(nums, 1, i) /\ SortedAbove(nums, i)
  BY <1>1 DEF SortInv, HeapInv
<1>3. /\ N \in Nat /\ N = Len(nums) /\ nums \in Seq(Int) /\ input \in Seq(Int)
      /\ \A p \in 1..N : nums[p] \in Int
  BY ArrayFacts DEF SortInv, STypeOK
<1>4. CASE i >= 1
  <2> DEFINE u == Swapped(nums, 1, i)
  <2>1. pc' = "resink" /\ nums' = u /\ j' = 1
    BY <1>4 DEF PopMax
  <2>2. i \in 1..N /\ 1 \in 1..N /\ 1 \in 1..i
    BY <1>2, <1>3, <1>4
  <2>3. /\ u \in Seq(Int) /\ Len(u) = N /\ Permutes(u, input)
        /\ u[1] = nums[i] /\ u[i] = nums[1]
        /\ \A p \in 1..N : p # 1 /\ p # i => u[p] = nums[p]
    <3>1. nums \in Seq(Int) /\ input \in Seq(Int) /\ 1 \in 1..Len(nums) /\ i \in 1..Len(nums)
      BY <1>3, <2>2
    <3>2. Permutes(Swapped(nums, 1, i), input)
      BY <1>2, <3>1, PermSwap
    <3>3. \A a, b \in 1..Len(nums) :
            /\ Swapped(nums, a, b) \in Seq(Int) /\ Len(Swapped(nums, a, b)) = Len(nums)
            /\ Swapped(nums, a, b)[a] = nums[b] /\ Swapped(nums, a, b)[b] = nums[a]
            /\ \A p \in 1..Len(nums) : p # a /\ p # b => Swapped(nums, a, b)[p] = nums[p]
      BY <3>1, SwapFacts
    <3> QED BY <1>3, <3>1, <3>2, <3>3
  <2>4. SortedAbove(u, i)
    BY <1>2, <1>3, <2>2, SortedAboveSwap
  <2> HIDE DEF u
  <2>5. N' = N
    BY <2>1, <2>3 DEF N
  <2>6. SinkFrom(u, 1, 1, i - 1)
    <3>1. ASSUME NEW p \in 1..(i - 1), NEW c \in 1..(i - 1), p # 1, Child(c, p)
          PROVE  u[p] >= u[c]
      <4>1. /\ p \in 1..N /\ c \in 1..N /\ p \in 1..i /\ c \in 1..i
            /\ c # 1 /\ p # i /\ c # i /\ p >= 1
        BY <1>3, <2>2, <3>1 DEF Child
      <4>2. nums[p] >= nums[c]
        BY <1>2, <3>1, <4>1 DEF HeapFrom
      <4> QED BY <2>3, <3>1, <4>1, <4>2
    <3>2. \A p \in 1..(i - 1) : ~Child(1, p)
      BY <2>2 DEF Child
    <3> QED BY <3>1, <3>2 DEF SinkFrom
  <2>7. SortedAbove(u, i - 1)
    <3>1. ASSUME NEW p \in 1..N, NEW q \in 1..N, p < q, q > i - 1
          PROVE  u[p] <= u[q]
      <4>1. CASE q > i
        BY <2>3, <2>4, <3>1, <4>1 DEF SortedAbove
      <4>2. CASE q = i
        <5>1. \A r \in 1..i : nums[r] <= nums[1]
          BY <1>2, <1>3, <2>2, RootIsMax
        <5>2. u[q] = nums[1] /\ p \in 1..i /\ p # i
          BY <1>3, <2>2, <2>3, <3>1, <4>2
        <5>3. u[p] = IF p = 1 THEN nums[i] ELSE nums[p]
          BY <2>3, <5>2
        <5> QED BY <2>2, <5>1, <5>2, <5>3
      <4> QED BY <1>3, <2>2, <3>1, <4>1, <4>2
    <3> QED BY <2>3, <3>1 DEF SortedAbove
  <2>8. STypeOK' /\ AtInv'
    BY <1>1, <1>3, <2>1, <2>3 DEF SortInv, STypeOK, AtInv
  <2>9. HeapInv'
    BY <1>1, <1>2, <1>4, <2>1, <2>2, <2>3, <2>5, <2>6, <2>7 DEF HeapInv
  <2> QED BY <1>1, <2>1, <2>8, <2>9 DEF SortInv, GapAt, NextAt, ShiftAt, MergeInv, QuickInv,
     SearchInv, SortsAgree
<1>5. CASE ~(i >= 1)
  <2>1. pc' = "done" /\ nums' = nums /\ j' = j /\ i = 0
    BY <1>2, <1>3, <1>5 DEF PopMax
  <2>2. Ordered(nums)
    BY <1>2, <1>3, <2>1 DEF SortedAbove, Ordered
  <2>3. STypeOK' /\ AtInv'
    BY <1>1, <1>3, <2>1 DEF SortInv, STypeOK, AtInv
  <2> QED BY <1>1, <1>2, <2>1, <2>2, <2>3 DEF SortInv, GapAt, NextAt, ShiftAt, MergeInv,
     QuickInv, HeapInv, SearchInv, SortsAgree
<1> QED BY <1>4, <1>5

LEMMA ResinkInv ==
  ASSUME SortInv, pc = "resink", Heapify(i - 1, "pop"),
         UNCHANGED <<gap, key, temp, calls, running, input>>
  PROVE  SortInv'
<1>1. running = "heap"
  BY DEF SortInv, AtInv, STypeOK, Sorters
<1> DEFINE n == i - 1
<1>2. /\ i \in 1..N /\ j \in 1..N /\ n \in 0..N /\ Permutes(nums, input)
      /\ SinkFrom(nums, j, 1, n) /\ SortedAbove(nums, n)
  BY <1>1, ArrayFacts DEF SortInv, HeapInv
<1>3. /\ N \in Nat /\ N = Len(nums) /\ nums \in Seq(Int) /\ input \in Seq(Int)
      /\ i \in Int /\ STypeOK
  BY <1>2, ArrayFacts DEF SortInv, STypeOK
<1>c. Heapify(n, "pop")
  OBVIOUS
<1> HIDE DEF n
<1>4. CASE \E g \in 1..n :
             /\ Child(g, j) /\ nums[g] > nums[j]
             /\ \A c \in 1..n : Child(c, j) => nums[g] >= nums[c]
             /\ nums' = Swapped(nums, j, g) /\ j' = g /\ pc' = pc /\ i' = i
  <2>1. PICK g \in 1..n :
             /\ Child(g, j) /\ nums[g] > nums[j]
             /\ \A c \in 1..n : Child(c, j) => nums[g] >= nums[c]
             /\ nums' = Swapped(nums, j, g) /\ j' = g /\ pc' = pc /\ i' = i
    BY <1>4
  <2>2. j \in 1..n /\ SinkFrom(nums', g, 1, n)
    <3>1. 1 \in Nat \ {0} /\ j >= 1
      BY <1>2, <1>3
    <3> QED BY <1>2, <1>3, <2>1, <3>1, SinkStep
  <2>3. g \in 1..N
    BY <1>2, <1>3
  <2>4. nums' \in Seq(Int) /\ Len(nums') = N /\ Permutes(nums', input)
    BY <1>2, <1>3, <2>1, <2>3, SwapFacts, PermSwap
  <2>5. N' = N
    BY <2>4 DEF N
  <2>6. SortedAbove(nums', n)
    BY <1>2, <1>3, <2>1, <2>2, SortedAboveSwap
  <2>7. STypeOK' /\ AtInv'
    BY <1>1, <1>2, <1>3, <2>1, <2>3, <2>4 DEF SortInv, STypeOK, AtInv
  <2>8. HeapInv'
    BY <1>1, <1>2, <1>3, <2>1, <2>2, <2>3, <2>4, <2>5, <2>6 DEF HeapInv, n
  <2> QED BY <1>1, <2>1, <2>7, <2>8 DEF SortInv, GapAt, NextAt, ShiftAt, MergeInv, QuickInv,
     SearchInv, SortsAgree
<1>5. CASE /\ \A c \in 1..n : Child(c, j) => nums[j] >= nums[c]
           /\ pc' = "pop" /\ i' = i - 1 /\ nums' = nums /\ j' = j
  <2>1. N' = N
    BY <1>5 DEF N
  <2>2. STypeOK' /\ AtInv'
    BY <1>1, <1>2, <1>3, <1>5 DEF SortInv, STypeOK, AtInv
  <2>3. HeapFrom(nums, 1, n) /\ i' = n
    BY <1>2, <1>3, <1>5 DEF SinkFrom, HeapFrom, n
  <2>4. HeapInv'
    BY <1>1, <1>2, <1>5, <2>1, <2>3 DEF HeapInv
  <2> QED BY <1>1, <1>5, <2>2, <2>4 DEF SortInv, GapAt, NextAt, ShiftAt, MergeInv, QuickInv,
     SearchInv, SortsAgree
<1> QED BY <1>2, <1>3, <1>c, <1>4, <1>5, HeapifyFacts

-----------------------------------------------------------------------------
(* Binary search.                                                          *)

LEMMA SearchStarts ==
  ASSUME SortInv, Search
  PROVE  SortInv'
<1>1. /\ running' = "search" /\ pc' = "probe" /\ i' = 1 /\ j' = N /\ nums' = nums
      /\ gap' = 0 /\ temp' = <<>> /\ calls' = <<>> /\ input' = input /\ key' \in Int
  BY SortingAssumption DEF Search
<1>2. Permutes(nums, input) /\ Ordered(nums)
  BY DEF Search, SortInv, SortsAgree, Sorters
<1>3. N' = N /\ N \in Nat
  BY <1>1, ArrayFacts DEF SortInv, N
<1>4. STypeOK' /\ AtInv'
  BY <1>1, <1>3 DEF SortInv, STypeOK, AtInv
<1>5. SearchInv'
  BY <1>1, <1>2, <1>3 DEF SearchInv
<1> QED BY <1>1, <1>4, <1>5 DEF SortInv, GapAt, NextAt, ShiftAt, MergeInv, QuickInv, HeapInv,
   SortsAgree

(* What is in order and lies on the wrong side of the middle is not the    *)
(* key.                                                                    *)
LEMMA ProbeInv ==
  ASSUME SortInv, Probe, UNCHANGED <<running, input>>
  PROVE  SortInv'
<1>1. running = "search" /\ pc = "probe" /\ nums' = nums
  BY DEF SortInv, AtInv, STypeOK, Sorters, Probe
<1>2. /\ Permutes(nums, input) /\ Ordered(nums) /\ i >= 1 /\ j <= N
      /\ \A p \in 1..N : nums[p] = key => i <= p /\ p <= j
  BY <1>1 DEF SortInv, SearchInv
<1>3. /\ N' = N /\ N \in Nat /\ DOMAIN nums = 1..N /\ \A p \in 1..N : nums[p] \in Int
      /\ i \in Int /\ j \in Int /\ key \in Int
  BY <1>1, ArrayFacts DEF SortInv, N, STypeOK
<1> DEFINE mid == Middle(i, j)
<1>4. i <= j => mid \in i..j /\ mid \in 1..N
  BY <1>2, <1>3 DEF Middle
<1> HIDE DEF mid
<1>5. CASE i > j /\ pc' = "done" /\ i' = 0 /\ j' = j
  <2>1. \A p \in 1..N : nums[p] # key
    BY <1>2, <1>3, <1>5
  <2>2. STypeOK' /\ AtInv'
    BY <1>1, <1>3, <1>5 DEF SortInv, STypeOK, AtInv, Probe
  <2>3. SortsAgree'
    BY <1>1, <1>2, <1>3, <1>5, <2>1 DEF SortsAgree, Probe
  <2> QED BY <1>1, <1>5, <2>2, <2>3 DEF SortInv, GapAt, NextAt, ShiftAt, MergeInv, QuickInv,
     HeapInv, SearchInv
<1>6. CASE i <= j /\ nums[mid] = key /\ pc' = "done" /\ i' = mid /\ j' = j
  <2>1. STypeOK' /\ AtInv'
    BY <1>1, <1>3, <1>4, <1>6 DEF SortInv, STypeOK, AtInv, Probe
  <2>2. SortsAgree'
    BY <1>1, <1>2, <1>3, <1>4, <1>6 DEF SortsAgree, Probe
  <2> QED BY <1>1, <1>6, <2>1, <2>2 DEF SortInv, GapAt, NextAt, ShiftAt, MergeInv, QuickInv,
     HeapInv, SearchInv
<1>7. CASE i <= j /\ nums[mid] < key /\ i' = UpperHalf(mid) /\ pc' = pc /\ j' = j
  <2>1. i' = mid + 1 /\ i' >= 1 /\ i' \in Int
    BY <1>2, <1>3, <1>4, <1>7 DEF UpperHalf
  <2>2. ASSUME NEW p \in 1..N, nums[p] = key PROVE mid + 1 <= p /\ p <= j
    <3>1. ~(p <= mid)
      <4>1. p < mid => nums[p] <= nums[mid]
        BY <1>2, <1>3, <1>4, <1>7 DEF Ordered
      <4> QED BY <1>3, <1>4, <1>7, <2>2, <4>1
    <3> QED BY <1>2, <1>3, <1>4, <1>7, <2>2, <3>1
  <2>3. STypeOK' /\ AtInv'
    BY <1>1, <1>3, <1>7, <2>1 DEF SortInv, STypeOK, AtInv, Probe
  <2>4. SearchInv'
    BY <1>1, <1>2, <1>3, <1>7, <2>1, <2>2 DEF SearchInv, Probe
  <2> QED BY <1>1, <1>7, <2>3, <2>4 DEF SortInv, GapAt, NextAt, ShiftAt, MergeInv, QuickInv,
     HeapInv, SortsAgree
<1>8. CASE i <= j /\ nums[mid] > key /\ j' = mid - 1 /\ pc' = pc /\ i' = i
  <2>1. j' <= N /\ j' \in Int
    BY <1>2, <1>3, <1>4, <1>8
  <2>2. ASSUME NEW p \in 1..N, nums[p] = key PROVE i <= p /\ p <= mid - 1
    <3>1. ~(p >= mid)
      <4>1. p > mid => nums[mid] <= nums[p]
        BY <1>2, <1>3, <1>4, <1>8 DEF Ordered
      <4> QED BY <1>3, <1>4, <1>8, <2>2, <4>1
    <3> QED BY <1>2, <1>3, <1>4, <1>8, <2>2, <3>1
  <2>3. STypeOK' /\ AtInv'
    BY <1>1, <1>3, <1>8, <2>1 DEF SortInv, STypeOK, AtInv, Probe
  <2>4. SearchInv'
    BY <1>1, <1>2, <1>3, <1>8, <2>1, <2>2 DEF SearchInv, Probe
  <2> QED BY <1>1, <1>8, <2>3, <2>4 DEF SortInv, GapAt, NextAt, ShiftAt, MergeInv, QuickInv,
     HeapInv, SortsAgree
<1> QED BY <1>5, <1>6, <1>7, <1>8 DEF Probe, mid

-----------------------------------------------------------------------------
(* quickSort.                                                              *)

LEMMA CallFacts ==
  ASSUME calls \in Seq(Frames), calls # <<>>
  PROVE  /\ Len(calls) \in Nat \ {0} /\ DOMAIN calls = 1..Len(calls)
         /\ Current = calls[Len(calls)] /\ Current \in Frames
         /\ Current.left \in Int /\ Current.right \in Int
         /\ Callers \in Seq(Frames) /\ Len(Callers) = Len(calls) - 1
         /\ \A c \in 1..(Len(calls) - 1) : Callers[c] = calls[c] /\ c \in DOMAIN calls
         /\ \A c \in DOMAIN calls : calls[c] \in Frames
<1>1. Len(calls) \in Nat \ {0} /\ DOMAIN calls = 1..Len(calls)
  OBVIOUS
<1>2. \A c \in DOMAIN calls : calls[c] \in Frames
  OBVIOUS
<1>3. /\ Callers \in Seq(Frames) /\ Len(Callers) = Len(calls) - 1
      /\ \A c \in 1..(Len(calls) - 1) : Callers[c] = calls[c] /\ c \in DOMAIN calls
  BY <1>1 DEF Callers
<1>4. Current = calls[Len(calls)] /\ Current \in Frames
  BY <1>1, <1>2 DEF Current
<1> QED BY <1>1, <1>2, <1>3, <1>4 DEF Frames

(* A call's items may change places: what is out of order lies in it, or   *)
(* in another that has nothing to do with it.                              *)
LEMMA BlocksSwap ==
  ASSUME NEW s \in Seq(Int), NEW cs, Apart(cs, Len(s)), Blocks(s, cs),
         NEW k \in DOMAIN cs, cs[k].left \in Int, cs[k].right \in Int,
         NEW a \in 1..Len(s), NEW b \in 1..Len(s), In(a, cs[k]), In(b, cs[k])
  PROVE  Blocks(Swapped(s, a, b), cs)
<1> DEFINE u == Swapped(s, a, b)
<1>1. /\ Len(u) = Len(s)
      /\ u[a] = s[b] /\ u[b] = s[a]
      /\ \A p \in 1..Len(s) : p # a /\ p # b => u[p] = s[p]
  BY SwapFacts
<1> HIDE DEF u
<1>2. \A p \in 1..Len(s) : In(p, cs[k]) => \E r \in 1..Len(s) : In(r, cs[k]) /\ u[p] = s[r]
  BY <1>1
<1>3. \A p \in 1..Len(s) : ~In(p, cs[k]) => u[p] = s[p]
  BY <1>1
<1>4. ASSUME NEW p \in 1..Len(s), NEW q \in 1..Len(s), p < q,
             ~(\E c \in DOMAIN cs : In(p, cs[c]) /\ In(q, cs[c]))
      PROVE  u[p] <= u[q]
  <2>1. ~(In(p, cs[k]) /\ In(q, cs[k]))
    BY <1>4
  <2>2. CASE In(p, cs[k])
    <3>1. PICK r \in 1..Len(s) : In(r, cs[k]) /\ u[p] = s[r]
      BY <1>2, <2>2
    <3>2. r < q /\ ~In(q, cs[k])
      BY <1>4, <2>1, <2>2, <3>1 DEF In
    <3>3. \A c \in DOMAIN cs : ~(In(r, cs[c]) /\ In(q, cs[c]))
      BY <3>1, <3>2 DEF Apart
    <3> QED BY <1>3, <3>1, <3>2, <3>3 DEF Blocks
  <2>3. CASE In(q, cs[k])
    <3>1. PICK r \in 1..Len(s) : In(r, cs[k]) /\ u[q] = s[r]
      BY <1>2, <2>3
    <3>2. p < r /\ ~In(p, cs[k])
      BY <1>4, <2>1, <2>3, <3>1 DEF In
    <3>3. \A c \in DOMAIN cs : ~(In(r, cs[c]) /\ In(p, cs[c]))
      BY <3>1, <3>2 DEF Apart
    <3> QED BY <1>3, <3>1, <3>2, <3>3 DEF Blocks
  <2>4. CASE ~In(p, cs[k]) /\ ~In(q, cs[k])
    BY <1>3, <1>4, <2>4 DEF Blocks
  <2> QED BY <2>2, <2>3, <2>4
<1>5. Blocks(u, cs)
  BY <1>1, <1>4 DEF Blocks
<1> QED BY <1>5 DEF u

LEMMA QuickFacts ==
  ASSUME SortInv, running = "quick", pc # "done"
  PROVE  /\ STypeOK /\ nums \in Seq(Int) /\ input \in Seq(Int) /\ calls \in Seq(Frames)
         /\ calls # <<>> /\ Permutes(nums, input)
         /\ \A c \in DOMAIN calls : calls[c].left >= 1 /\ calls[c].right <= N
         /\ Apart(calls, N) /\ Blocks(nums, calls)
         /\ N \in Nat /\ N = Len(nums) /\ \A p \in 1..N : nums[p] \in Int
         /\ i \in Int /\ j \in Int /\ key \in Int
BY ArrayFacts DEF SortInv, QuickInv, RangesInv, STypeOK

LEMMA QuickCallInv ==
  ASSUME SortInv, QuickCall, UNCHANGED <<gap, temp, running, input>>
  PROVE  SortInv'
<1>1. running = "quick" /\ pc = "call" /\ nums' = nums
  BY DEF QuickCall
<1>2. /\ STypeOK /\ nums \in Seq(Int) /\ input \in Seq(Int) /\ calls \in Seq(Frames)
      /\ calls # <<>> /\ Permutes(nums, input)
      /\ \A c \in DOMAIN calls : calls[c].left >= 1 /\ calls[c].right <= N
      /\ Apart(calls, N) /\ Blocks(nums, calls)
      /\ N \in Nat /\ N = Len(nums) /\ \A p \in 1..N : nums[p] \in Int
      /\ i \in Int /\ j \in Int /\ key \in Int
  BY <1>1, QuickFacts
<1> DEFINE n == Len(calls)
<1>3. /\ n \in Nat \ {0} /\ DOMAIN calls = 1..n
      /\ Current = calls[n] /\ Current \in Frames
      /\ Current.left \in Int /\ Current.right \in Int
      /\ Callers \in Seq(Frames) /\ Len(Callers) = n - 1
      /\ \A c \in 1..(n - 1) : Callers[c] = calls[c] /\ c \in DOMAIN calls
  BY <1>2, CallFacts
<1> HIDE DEF n
<1>4. N' = N
  BY <1>1 DEF N
<1>5. CASE Current.left >= Current.right
  <2>1. calls' = Callers /\ i' = i /\ j' = j /\ key' = key
        /\ pc' = IF n = 1 THEN "done" ELSE "call"
    BY <1>5 DEF QuickCall, Return, n
  <2>2. STypeOK' /\ AtInv'
    BY <1>1, <1>2, <1>3, <2>1 DEF STypeOK, SortInv, AtInv
  <2>3. ASSUME NEW p \in 1..N, NEW q \in 1..N, p < q, NEW c \in DOMAIN calls,
               In(p, calls[c]), In(q, calls[c])
        PROVE  c \in 1..(n - 1)
    BY <1>3, <1>5, <2>3 DEF In
  <2>4. CASE n = 1
    <3>1. Ordered(nums)
      <4>1. ASSUME NEW p \in 1..N, NEW q \in 1..N, p < q PROVE nums[p] <= nums[q]
        <5>1. 1..(n - 1) = {}
          BY <2>4
        <5>2. ~(\E c \in DOMAIN calls : In(p, calls[c]) /\ In(q, calls[c]))
          BY <2>3, <4>1, <5>1
        <5> QED BY <1>2, <4>1, <5>2 DEF Blocks
      <4> QED BY <1>2, <4>1 DEF Ordered
    <3> QED BY <1>1, <1>2, <2>1, <2>2, <2>4, <3>1 DEF SortInv, GapAt, NextAt, ShiftAt,
       MergeInv, QuickInv, HeapInv, SearchInv, SortsAgree
  <2>5. CASE n # 1
    <3>1. pc' = "call" /\ Callers # <<>> /\ DOMAIN Callers = 1..(n - 1)
      BY <1>3, <2>1, <2>5
    <3>2. RangesInv'
      BY <1>1, <1>2, <1>3, <1>4, <2>1, <3>1 DEF RangesInv
    <3>3. Apart(Callers, N)
      BY <1>2, <1>3, <3>1 DEF Apart
    <3>4. Blocks(nums, Callers)
      <4>1. ASSUME NEW p \in 1..N, NEW q \in 1..N, p < q, ~(nums[p] <= nums[q])
            PROVE  \E c \in DOMAIN Callers : In(p, Callers[c]) /\ In(q, Callers[c])
        <5>1. PICK c \in DOMAIN calls : In(p, calls[c]) /\ In(q, calls[c])
          BY <1>2, <4>1 DEF Blocks
        <5>2. c \in 1..(n - 1)
          BY <2>3, <4>1, <5>1
        <5> QED BY <1>3, <3>1, <5>1, <5>2
      <4> QED BY <1>2, <4>1 DEF Blocks
    <3>5. QuickInv'
      BY <1>1, <1>4, <2>1, <3>1, <3>2, <3>3, <3>4 DEF QuickInv
    <3> QED BY <1>1, <2>2, <3>1, <3>5 DEF SortInv, GapAt, NextAt, ShiftAt, MergeInv, HeapInv,
       SearchInv, SortsAgree
  <2> QED BY <2>4, <2>5
<1>6. CASE ~(Current.left >= Current.right)
  <2>1. /\ pc' = "down" /\ key' = nums[Current.left] /\ i' = Current.left /\ j' = Current.right
        /\ calls' = calls
    BY <1>6 DEF QuickCall
  <2>2. Current.left \in 1..N /\ Current.left < Current.right /\ Current' = Current
    BY <1>2, <1>3, <1>6, <2>1 DEF Current
  <2>3. STypeOK' /\ AtInv'
    BY <1>1, <1>2, <1>3, <2>1, <2>2 DEF STypeOK, SortInv, AtInv
  <2>4. ScanInv'
    <3>1. \A p : p \notin Current.left..(Current.left - 1)
      BY <1>3
    <3>2. \A p : p \notin (Current.right + 1)..Current.right
      BY <1>3
    <3>3. nums[Current.left] <= nums[Current.left]
      BY <1>2, <2>2
    <3> QED BY <1>1, <1>3, <2>1, <2>2, <3>1, <3>2, <3>3 DEF ScanInv
  <2>5. QuickInv'
    BY <1>1, <1>2, <1>4, <2>1, <2>4 DEF QuickInv, RangesInv
  <2> QED BY <1>1, <2>1, <2>3, <2>5 DEF SortInv, GapAt, NextAt, ShiftAt, MergeInv, HeapInv,
     SearchInv, SortsAgree
<1> QED BY <1>5, <1>6

LEMMA ScanDownInv ==
  ASSUME SortInv, ScanDown, UNCHANGED <<gap, temp, running, input>>
  PROVE  SortInv'
<1>1. /\ running = "quick" /\ pc = "down"
      /\ nums' = nums /\ i' = i /\ key' = key /\ calls' = calls
  BY DEF SortInv, AtInv, STypeOK, Sorters, ScanDown
<1>2. /\ STypeOK /\ nums \in Seq(Int) /\ input \in Seq(Int) /\ calls \in Seq(Frames)
      /\ calls # <<>> /\ Permutes(nums, input)
      /\ \A c \in DOMAIN calls : calls[c].left >= 1 /\ calls[c].right <= N
      /\ Apart(calls, N) /\ Blocks(nums, calls)
      /\ N \in Nat /\ N = Len(nums) /\ \A p \in 1..N : nums[p] \in Int
      /\ i \in Int /\ j \in Int /\ key \in Int
  BY <1>1, QuickFacts
<1>3. ScanInv
  BY <1>1 DEF SortInv, QuickInv
<1>4. Current.left \in Int /\ Current.right \in Int /\ Current.left >= 1 /\ Current.right <= N
  BY <1>2, CallFacts
<1>5. N' = N /\ Current' = Current
  BY <1>1 DEF N, Current
<1>6. pc' \in {"down", "up"} /\ j' \in Int
  BY <1>1, <1>2 DEF ScanDown
<1>7. STypeOK' /\ AtInv'
  BY <1>1, <1>2, <1>6 DEF STypeOK, SortInv, AtInv
<1>8. ScanInv'
  <2>1. CASE i < j /\ nums[j] >= key
    <3>1. j' = j - 1 /\ pc' = pc
      BY <2>1 DEF ScanDown
    <3>2. \A p \in j..Current.right : p = j \/ p \in (j + 1)..Current.right
      BY <1>2, <1>4
    <3> QED BY <1>1, <1>2, <1>3, <1>4, <1>5, <2>1, <3>1, <3>2 DEF ScanInv
  <2>2. CASE ~(i < j /\ nums[j] >= key)
    <3>1. j' = j /\ pc' = "up"
      BY <2>2 DEF ScanDown
    <3>2. j \in 1..N /\ nums[j] \in Int
      BY <1>2, <1>3, <1>4 DEF ScanInv
    <3>3. nums[j] <= key
      BY <1>1, <1>2, <1>3, <2>2, <3>2 DEF ScanInv
    <3> QED BY <1>1, <1>3, <1>5, <3>1, <3>3 DEF ScanInv
  <2> QED BY <2>1, <2>2
<1>9. QuickInv'
  BY <1>1, <1>2, <1>5, <1>6, <1>8 DEF QuickInv, RangesInv
<1> QED BY <1>1, <1>6, <1>7, <1>9 DEF SortInv, GapAt, NextAt, ShiftAt, MergeInv, HeapInv,
   SearchInv, SortsAgree

LEMMA ScanUpInv ==
  ASSUME SortInv, ScanUp, UNCHANGED <<gap, temp, running, input>>
  PROVE  SortInv'
<1>1. /\ running = "quick" /\ pc = "up" /\ key' = key /\ j' = j
  BY DEF SortInv, AtInv, STypeOK, Sorters, ScanUp
<1>2. /\ STypeOK /\ nums \in Seq(Int) /\ input \in Seq(Int) /\ calls \in Seq(Frames)
      /\ calls # <<>> /\ Permutes(nums, input)
      /\ \A c \in DOMAIN calls : calls[c].left >= 1 /\ calls[c].right <= N
      /\ Apart(calls, N) /\ Blocks(nums, calls)
      /\ N \in Nat /\ N = Len(nums) /\ \A p \in 1..N : nums[p] \in Int
      /\ i \in Int /\ j \in Int /\ key \in Int
  BY <1>1, QuickFacts
<1> DEFINE n == Len(calls)
           left == Current.left
           right == Current.right
<1>3. /\ n \in Nat \ {0} /\ DOMAIN calls = 1..n
      /\ Current = calls[n] /\ Current \in Frames
      /\ left \in Int /\ right \in Int
      /\ Callers \in Seq(Frames) /\ Len(Callers) = n - 1
      /\ \A c \in 1..(n - 1) : Callers[c] = calls[c] /\ c \in DOMAIN calls
  BY <1>2, CallFacts
<1>4. /\ left <= i /\ i <= j /\ j <= right /\ left < right
      /\ nums[left] = key
      /\ \A p \in left..(i - 1) : nums[p] <= key
      /\ \A p \in (j + 1)..right : nums[p] >= key
      /\ nums[j] <= key
  BY <1>1 DEF SortInv, QuickInv, ScanInv
<1>5. left >= 1 /\ right <= N
  BY <1>2, <1>3
<1> HIDE DEF n, left, right
<1>6. left \in 1..N /\ i \in 1..N /\ j \in 1..N
  BY <1>2, <1>3, <1>4, <1>5
<1>7. CASE i < j /\ Passed(nums[i]) /\ i' = i + 1 /\ UNCHANGED <<pc, nums, calls>>
  <2>1. N' = N /\ Current' = Current /\ nums[i] <= key
    BY <1>7 DEF N, Current, Passed
  <2>2. \A p \in left..i : p = i \/ p \in left..(i - 1)
    BY <1>2, <1>3
  <2>3. ScanInv'
    BY <1>1, <1>2, <1>3, <1>4, <1>7, <2>1, <2>2 DEF ScanInv, left, right
  <2>4. STypeOK' /\ AtInv'
    BY <1>1, <1>2, <1>7 DEF STypeOK, SortInv, AtInv
  <2>5. QuickInv'
    BY <1>1, <1>2, <1>7, <2>1, <2>3 DEF QuickInv, RangesInv
  <2> QED BY <1>1, <1>7, <2>4, <2>5 DEF SortInv, GapAt, NextAt, ShiftAt, MergeInv, HeapInv,
     SearchInv, SortsAgree
<1>8. CASE /\ i < j /\ ~Passed(nums[i])
           /\ nums' = Swapped(nums, i, j) /\ pc' = "down" /\ UNCHANGED <<i, calls>>
  <2>1. nums[i] > key /\ left < i
    BY <1>2, <1>3, <1>4, <1>6, <1>8 DEF Passed
  <2>2. /\ nums' \in Seq(Int) /\ Len(nums') = N /\ Permutes(nums', input)
        /\ nums'[i] = nums[j] /\ nums'[j] = nums[i]
        /\ \A p \in 1..N : p # i /\ p # j => nums'[p] = nums[p]
    <3>1. nums \in Seq(Int) /\ input \in Seq(Int) /\ i \in 1..Len(nums) /\ j \in 1..Len(nums)
      BY <1>2, <1>6
    <3>2. Permutes(Swapped(nums, i, j), input)
      BY <1>2, <3>1, PermSwap
    <3>3. \A a, b \in 1..Len(nums) :
            /\ Swapped(nums, a, b) \in Seq(Int) /\ Len(Swapped(nums, a, b)) = Len(nums)
            /\ Swapped(nums, a, b)[a] = nums[b] /\ Swapped(nums, a, b)[b] = nums[a]
            /\ \A p \in 1..Len(nums) : p # a /\ p # b => Swapped(nums, a, b)[p] = nums[p]
      BY <3>1, SwapFacts
    <3> QED BY <1>2, <1>8, <3>1, <3>2, <3>3
  <2>3. N' = N /\ Current' = Current
    BY <1>8, <2>2 DEF N, Current
  <2>4. STypeOK' /\ AtInv'
    BY <1>1, <1>2, <1>8, <2>2 DEF STypeOK, SortInv, AtInv
  <2>5. Blocks(nums', calls)
    <3>1. In(i, calls[n]) /\ In(j, calls[n]) /\ n \in DOMAIN calls
      BY <1>2, <1>3, <1>4 DEF In, left, right
    <3>2. calls[n].left \in Int /\ calls[n].right \in Int
      BY <1>3 DEF left, right
    <3> QED BY <1>2, <1>6, <1>8, <3>1, <3>2, BlocksSwap
  <2>6. ScanInv'
    <3>1. /\ nums'[left] = key /\ nums'[i] <= key
          /\ \A p \in left..(i - 1) : nums'[p] <= key
          /\ \A p \in (j + 1)..right : nums'[p] >= key
      <4>1. nums'[left] = nums[left]
        <5>1. left \in 1..N /\ left # i /\ left # j
          BY <1>2, <1>3, <1>6, <1>8, <2>1
        <5> QED BY <2>2, <5>1
      <4>2. nums'[i] = nums[j]
        BY <1>2, <1>6, <1>8, <2>2
      <4>3. ASSUME NEW p \in left..(i - 1) PROVE nums'[p] <= key
        <5>1. p \in 1..N /\ p # i /\ p # j
          BY <1>2, <1>3, <1>5, <1>6, <1>8
        <5> QED BY <1>4, <2>2, <5>1
      <4>4. ASSUME NEW p \in (j + 1)..right PROVE nums'[p] >= key
        <5>1. p \in 1..N /\ p # i /\ p # j
          BY <1>2, <1>3, <1>5, <1>6, <1>8
        <5> QED BY <1>4, <2>2, <5>1
      <4> QED BY <1>4, <4>1, <4>2, <4>3, <4>4
    <3> QED BY <1>1, <1>4, <1>8, <2>3, <3>1 DEF ScanInv, left, right
  <2>7. QuickInv'
    BY <1>1, <1>2, <1>8, <2>2, <2>3, <2>5, <2>6 DEF QuickInv, RangesInv
  <2> QED BY <1>1, <1>8, <2>4, <2>7 DEF SortInv, GapAt, NextAt, ShiftAt, MergeInv, HeapInv,
     SearchInv, SortsAgree
<1>9. CASE /\ i >= j
           /\ nums' = Swapped(nums, left, j) /\ pc' = "call" /\ UNCHANGED i
           /\ calls' = Append(Append(Callers, [Current EXCEPT !.left = j + 1]),
                              [Current EXCEPT !.right = j - 1])
  <2> DEFINE upper == [Current EXCEPT !.left = j + 1]
             lower == [Current EXCEPT !.right = j - 1]
  <2>1. /\ upper \in Frames /\ upper.left = j + 1 /\ upper.right = right
        /\ lower \in Frames /\ lower.left = left /\ lower.right = j - 1
    <3>1. Current \in [left : Int, right : Int, at : {"enter", "first", "second"}]
      BY <1>3 DEF Frames
    <3>2. j + 1 \in Int /\ j - 1 \in Int
      BY <1>2
    <3>3. upper \in Frames /\ upper.left = j + 1 /\ upper.right = Current.right
      BY <3>1, <3>2 DEF Frames
    <3>4. lower \in Frames /\ lower.left = Current.left /\ lower.right = j - 1
      BY <3>1, <3>2 DEF Frames
    <3> QED BY <3>3, <3>4 DEF left, right
  <2> HIDE DEF upper, lower
  <2>2. /\ calls' \in Seq(Frames) /\ DOMAIN calls' = 1..(n + 1)
        /\ \A c \in 1..(n - 1) : calls'[c] = calls[c]
        /\ calls'[n] = upper /\ calls'[n + 1] = lower
    <3>1. calls' = Append(Append(Callers, upper), lower)
      BY <1>9 DEF upper, lower
    <3> QED BY <1>3, <2>1, <3>1
  <2>3. /\ nums' \in Seq(Int) /\ Len(nums') = N /\ Permutes(nums', input)
        /\ nums'[left] = nums[j] /\ nums'[j] = nums[left]
        /\ \A p \in 1..N : p # left /\ p # j => nums'[p] = nums[p]
    <3>1. nums \in Seq(Int) /\ input \in Seq(Int) /\ left \in 1..Len(nums) /\ j \in 1..Len(nums)
      BY <1>2, <1>6
    <3>2. Permutes(Swapped(nums, left, j), input)
      BY <1>2, <3>1, PermSwap
    <3>3. \A a, b \in 1..Len(nums) :
            /\ Swapped(nums, a, b) \in Seq(Int) /\ Len(Swapped(nums, a, b)) = Len(nums)
            /\ Swapped(nums, a, b)[a] = nums[b] /\ Swapped(nums, a, b)[b] = nums[a]
            /\ \A p \in 1..Len(nums) : p # a /\ p # b => Swapped(nums, a, b)[p] = nums[p]
      BY <3>1, SwapFacts
    <3> QED BY <1>2, <1>9, <3>1, <3>2, <3>3
  <2>4. N' = N
    BY <2>3 DEF N
  <2>5. STypeOK' /\ AtInv'
    BY <1>1, <1>2, <1>9, <2>2, <2>3 DEF STypeOK, SortInv, AtInv
  <2>6. \A c \in 1..(n + 1) : c \in 1..(n - 1) \/ c = n \/ c = n + 1
    BY <1>3
  <2>7. RangesInv'
    <3>1. \A c \in 1..(n + 1) : calls'[c].left >= 1 /\ calls'[c].right <= N
      <4>1. \A c \in 1..(n - 1) : calls'[c].left >= 1 /\ calls'[c].right <= N
        BY <1>2, <1>3, <2>2
      <4>2. upper.left >= 1 /\ upper.right <= N /\ lower.left >= 1 /\ lower.right <= N
        BY <1>2, <1>5, <1>6, <2>1
      <4> QED BY <2>2, <2>6, <4>1, <4>2
    <3>2. calls' # <<>>
      BY <1>3, <2>2
    <3> QED BY <1>9, <2>2, <2>3, <2>4, <3>1, <3>2 DEF RangesInv
  <2>8. \A p \in 1..N : /\ In(p, upper) <=> In(p, calls[n]) /\ p > j
                        /\ In(p, lower) <=> In(p, calls[n]) /\ p < j
    <3>1. calls[n].left = left /\ calls[n].right = right
      BY <1>3 DEF left, right
    <3> QED BY <1>2, <1>3, <1>4, <2>1, <3>1 DEF In
  <2>9. Apart(calls', N)
    <3>1. ASSUME NEW c \in 1..(n + 1), NEW d \in 1..(n + 1), c # d, NEW p \in 1..N
          PROVE  ~(In(p, calls'[c]) /\ In(p, calls'[d]))
      <4>1. \A e \in 1..(n - 1) : ~(In(p, calls[e]) /\ In(p, calls[n]))
        <5>1. \A e \in 1..(n - 1) : e \in DOMAIN calls /\ n \in DOMAIN calls /\ e # n
          BY <1>3
        <5> QED BY <1>2, <5>1 DEF Apart
      <4>2. c \in 1..(n - 1) /\ d \in 1..(n - 1) => ~(In(p, calls[c]) /\ In(p, calls[d]))
        BY <1>2, <1>3, <3>1 DEF Apart
      <4>3. ~(In(p, upper) /\ In(p, lower))
        BY <1>2, <2>8
      <4> QED BY <2>2, <2>6, <2>8, <3>1, <4>1, <4>2, <4>3
    <3> QED BY <2>2, <3>1 DEF Apart
  <2>10. Blocks(nums', calls)
    <3>1. In(left, calls[n]) /\ In(j, calls[n]) /\ n \in DOMAIN calls
      BY <1>2, <1>3, <1>4 DEF In, left, right
    <3>2. calls[n].left \in Int /\ calls[n].right \in Int
      BY <1>3 DEF left, right
    <3> QED BY <1>2, <1>6, <1>9, <3>1, <3>2, BlocksSwap
  <2>11. ASSUME NEW p \in 1..N, In(p, calls[n])
         PROVE  (p <= j => nums'[p] <= key) /\ (p >= j => nums'[p] >= key)
    <3>0. i = j /\ p >= left /\ p <= right
      BY <1>2, <1>3, <1>4, <1>9, <2>11 DEF In, left, right
    <3>1. CASE p = j
      BY <1>2, <1>4, <2>3, <3>1
    <3>2. CASE p < j
      <4>1. p = left \/ nums[p] <= key
        BY <1>2, <1>3, <1>4, <3>0, <3>2
      <4> QED BY <1>2, <1>4, <2>3, <3>2, <4>1
    <3>3. CASE p > j
      <4>1. p # left /\ nums[p] >= key
        BY <1>2, <1>3, <1>4, <1>6, <3>0, <3>3
      <4>2. nums'[p] = nums[p]
        BY <2>3, <3>3, <4>1
      <4>3. ~(p <= j)
        BY <1>2, <3>3
      <4> QED BY <4>1, <4>2, <4>3
    <3> QED BY <1>2, <3>1, <3>2, <3>3
  <2>12. Blocks(nums', calls')
    <3>1. ASSUME NEW p \in 1..N, NEW q \in 1..N, p < q, ~(nums'[p] <= nums'[q])
          PROVE  \E c \in 1..(n + 1) : In(p, calls'[c]) /\ In(q, calls'[c])
      <4>1. PICK c \in 1..n : In(p, calls[c]) /\ In(q, calls[c])
        BY <1>3, <2>3, <2>10, <3>1 DEF Blocks
      <4>2. CASE c \in 1..(n - 1)
        BY <1>3, <2>2, <4>1, <4>2
      <4>3. CASE c = n
        <5>0. nums'[p] \in Int /\ nums'[q] \in Int
          BY <2>3
        <5>1. ~(p <= j /\ q >= j)
          BY <1>2, <2>11, <3>1, <4>1, <4>3, <5>0
        <5>2. (p > j /\ q > j) \/ (p < j /\ q < j)
          BY <1>2, <3>1, <5>1
        <5>3. n \in 1..(n + 1) /\ n + 1 \in 1..(n + 1)
          BY <1>3
        <5> QED BY <2>2, <2>8, <4>1, <4>3, <5>2, <5>3
      <4> QED BY <1>3, <4>1, <4>2, <4>3
    <3> QED BY <2>2, <2>3, <3>1 DEF Blocks
  <2>13. QuickInv'
    BY <1>1, <1>9, <2>4, <2>7, <2>9, <2>12 DEF QuickInv
  <2> QED BY <1>1, <1>9, <2>5, <2>13 DEF SortInv, GapAt, NextAt, ShiftAt, MergeInv, HeapInv,
     SearchInv, SortsAgree
<1> QED BY <1>7, <1>8, <1>9 DEF ScanUp, left

-----------------------------------------------------------------------------
(* merge_sort.                                                             *)

LEMMA MergeFacts ==
  ASSUME SortInv, running = "merge", pc # "done"
  PROVE  /\ STypeOK /\ nums \in Seq(Int) /\ input \in Seq(Int) /\ calls \in Seq(Frames)
         /\ calls # <<>> /\ Permutes(nums, input)
         /\ RangesInv /\ NestInv /\ HalvesInv
         /\ N \in Nat /\ N = Len(nums) /\ DOMAIN nums = 1..N /\ \A p \in 1..N : nums[p] \in Int
         /\ i \in Int /\ j \in Int /\ temp \in Seq(Int)
BY ArrayFacts DEF SortInv, MergeInv, RangesInv, STypeOK

(* A call of a range with more than one item has its middle in the range.  *)
LEMMA MidFacts ==
  ASSUME NEW c \in Frames
  PROVE  /\ c.left \in Int /\ c.right \in Int /\ MidOf(c) \in Int
         /\ c.left < c.right => c.left <= MidOf(c) /\ MidOf(c) < c.right
BY DEF Frames, MidOf, Middle

(* The call under way makes one of its own, of the half at names.          *)
LEMMA DescendInv ==
  ASSUME SortInv, running = "merge", pc = "call",
         NEW at \in {"first", "second"}, NEW l \in Int, NEW r \in Int,
         Descend(at, l, r), UNCHANGED <<nums, gap, key, running, input>>,
         Current.left < Current.right,
         l = HalfLeft([Current EXCEPT !.at = at]), r = HalfRight([Current EXCEPT !.at = at]),
         at = "second" => OrderedIn(nums, Current.left, MidOf(Current))
  PROVE  SortInv'
<1> DEFINE n == Len(calls)
           upper == [Current EXCEPT !.at = at]
           lower == [left |-> l, right |-> r, at |-> "enter"]
<1>1. /\ STypeOK /\ nums \in Seq(Int) /\ input \in Seq(Int) /\ calls \in Seq(Frames)
      /\ calls # <<>> /\ Permutes(nums, input)
      /\ RangesInv /\ NestInv /\ HalvesInv
      /\ N \in Nat /\ N = Len(nums)
      /\ i \in Int /\ j \in Int /\ temp \in Seq(Int)
  BY MergeFacts
<1>2. /\ n \in Nat \ {0} /\ DOMAIN calls = 1..n
      /\ Current = calls[n] /\ Current \in Frames
      /\ Callers \in Seq(Frames) /\ Len(Callers) = n - 1
      /\ \A c \in 1..(n - 1) : Callers[c] = calls[c] /\ c \in DOMAIN calls
      /\ \A c \in DOMAIN calls : calls[c] \in Frames
  BY <1>1, CallFacts
<1>3. /\ upper \in Frames /\ upper.left = Current.left /\ upper.right = Current.right
      /\ upper.at = at /\ MidOf(upper) = MidOf(Current)
      /\ lower \in Frames /\ lower.left = l /\ lower.right = r /\ lower.at = "enter"
  <2>1. Current \in [left : Int, right : Int, at : {"enter", "first", "second"}]
    BY <1>2 DEF Frames
  <2>2. /\ upper \in Frames /\ upper.left = Current.left /\ upper.right = Current.right
        /\ upper.at = at
    BY <2>1 DEF Frames
  <2> QED BY <2>2 DEF Frames, MidOf
<1>4. /\ pc' = pc /\ i' = i /\ j' = j /\ temp' = temp
      /\ calls' = Append(Append(Callers, upper), lower)
  BY DEF Descend
<1>5. l = HalfLeft(upper) /\ r = HalfRight(upper)
  OBVIOUS
<1> HIDE DEF n, upper, lower
<1>6. /\ calls' \in Seq(Frames) /\ DOMAIN calls' = 1..(n + 1) /\ Len(calls') = n + 1
      /\ \A c \in 1..(n - 1) : calls'[c] = calls[c]
      /\ calls'[n] = upper /\ calls'[n + 1] = lower
  BY <1>2, <1>3, <1>4
<1>7. \A c \in 1..(n + 1) : c \in 1..(n - 1) \/ c = n \/ c = n + 1
  BY <1>2
<1>8. N' = N /\ Current' = lower
  BY <1>6 DEF N, Current
<1>9. Current.left <= l /\ r <= Current.right /\ l \in Int /\ r \in Int
  <2>1. Current.left <= MidOf(Current) /\ MidOf(Current) < Current.right
        /\ Current.left \in Int /\ Current.right \in Int /\ MidOf(Current) \in Int
    BY <1>2, MidFacts
  <2>2. \/ at = "first" /\ l = Current.left /\ r = MidOf(Current)
        \/ at = "second" /\ l = MidOf(Current) + 1 /\ r = Current.right
    BY <1>3, <1>5 DEF HalfLeft, HalfRight
  <2> QED BY <2>1, <2>2
<1>10. STypeOK' /\ AtInv'
  BY <1>1, <1>4, <1>6 DEF STypeOK, SortInv, AtInv
<1>11. RangesInv'
  <2>1. \A c \in 1..n : calls[c].left >= 1 /\ calls[c].right <= N
    BY <1>1, <1>2 DEF RangesInv
  <2>2. Current.left >= 1 /\ Current.right <= N /\ Current.left \in Int /\ Current.right \in Int
    BY <1>2, <2>1, MidFacts
  <2>3. upper.left >= 1 /\ upper.right <= N /\ lower.left >= 1 /\ lower.right <= N
    BY <1>1, <1>3, <1>9, <2>2
  <2>4. \A c \in 1..(n + 1) : calls'[c].left >= 1 /\ calls'[c].right <= N
    BY <1>2, <1>6, <1>7, <2>1, <2>3
  <2>5. calls' # <<>>
    BY <1>2, <1>6
  <2> QED BY <1>1, <1>6, <1>8, <2>4, <2>5 DEF RangesInv
<1>12. NestInv'
  <2>1. calls'[1].left = 1 /\ calls'[1].right = N
    <3>1. calls[1].left = 1 /\ calls[1].right = N
      BY <1>1 DEF NestInv
    <3>2. n = 1 \/ 1 \in 1..(n - 1)
      BY <1>2
    <3> QED BY <1>2, <1>3, <1>6, <3>1, <3>2
  <2>2. ASSUME NEW c \in 1..(n + 1), calls'[c].at # "enter"
        PROVE  calls'[c].left < calls'[c].right
    <3>1. \A d \in 1..n : calls[d].at # "enter" => calls[d].left < calls[d].right
      BY <1>1, <1>2 DEF NestInv
    <3> QED BY <1>2, <1>3, <1>6, <1>7, <2>2, <3>1
  <2>3. ASSUME NEW c \in 1..(n + 1), NEW d \in 1..(n + 1), c < d
        PROVE  /\ calls'[c].at # "enter"
               /\ HalfLeft(calls'[c]) <= calls'[d].left /\ calls'[d].right <= HalfRight(calls'[c])
               /\ d = c + 1 => HalfLeft(calls'[c]) = calls'[d].left
                               /\ calls'[d].right = HalfRight(calls'[c])
    <3>1. ASSUME NEW a \in 1..n, NEW b \in 1..n, a < b
          PROVE  /\ calls[a].at # "enter"
                 /\ HalfLeft(calls[a]) <= calls[b].left /\ calls[b].right <= HalfRight(calls[a])
                 /\ b = a + 1 => HalfLeft(calls[a]) = calls[b].left
                                 /\ calls[b].right = HalfRight(calls[a])
      BY <1>1, <1>2, <3>1 DEF NestInv
    <3>2. CASE d \in 1..(n - 1)
      <4>1. c \in 1..(n - 1) /\ c \in 1..n /\ d \in 1..n
        BY <1>2, <2>3, <3>2
      <4> QED BY <1>6, <2>3, <3>1, <3>2, <4>1
    <3>3. CASE d = n
      <4>1. c \in 1..(n - 1) /\ c \in 1..n /\ n \in 1..n
        BY <1>2, <2>3, <3>3
      <4>2. /\ calls'[c] = calls[c]
            /\ calls'[d].left = calls[n].left /\ calls'[d].right = calls[n].right
        BY <1>2, <1>3, <1>6, <3>3, <4>1
      <4> QED BY <2>3, <3>1, <3>3, <4>1, <4>2
    <3>4. CASE d = n + 1 /\ c = n
      BY <1>2, <1>3, <1>5, <1>6, <1>9, <3>4
    <3>5. CASE d = n + 1 /\ c # n
      <4>1. c \in 1..(n - 1) /\ c \in 1..n /\ n \in 1..n /\ c < n /\ d # c + 1
        BY <1>2, <2>3, <3>5
      <4>2. /\ calls[c].at # "enter"
            /\ HalfLeft(calls[c]) <= Current.left /\ Current.right <= HalfRight(calls[c])
        BY <1>2, <3>1, <4>1
      <4>3. HalfLeft(calls[c]) \in Int /\ HalfRight(calls[c]) \in Int
            /\ Current.left \in Int /\ Current.right \in Int
        <5>1. calls[c] \in Frames
          BY <1>2, <4>1
        <5>2. /\ calls[c].left \in Int /\ calls[c].right \in Int /\ MidOf(calls[c]) \in Int
              /\ Current.left \in Int /\ Current.right \in Int
          BY <1>2, <5>1, MidFacts
        <5> QED BY <5>2 DEF HalfLeft, HalfRight
      <4>4. HalfLeft(calls[c]) <= l /\ r <= HalfRight(calls[c])
        BY <1>9, <4>2, <4>3
      <4> QED BY <1>3, <1>6, <3>5, <4>1, <4>2, <4>4
    <3> QED BY <1>7, <3>2, <3>3, <3>4, <3>5
  <2> QED BY <1>6, <1>8, <2>1, <2>2, <2>3 DEF NestInv
<1>13. HalvesInv'
  <2>1. \A c \in 1..n : calls[c].at = "second" => OrderedIn(nums, calls[c].left, MidOf(calls[c]))
    BY <1>1, <1>2 DEF HalvesInv
  <2>2. ASSUME NEW c \in 1..(n + 1), calls'[c].at = "second"
        PROVE  OrderedIn(nums, calls'[c].left, MidOf(calls'[c]))
    <3>1. CASE c \in 1..(n - 1)
      BY <1>2, <1>6, <2>1, <2>2, <3>1
    <3>2. CASE c = n
      BY <1>3, <1>6, <2>2, <3>2
    <3>3. CASE c = n + 1
      BY <1>3, <1>6, <2>2, <3>3
    <3> QED BY <1>7, <3>1, <3>2, <3>3
  <2> QED BY <1>3, <1>6, <1>8, <2>2 DEF HalvesInv
<1>14. MergeInv'
  BY <1>4, <1>11, <1>12, <1>13 DEF MergeInv
<1> QED BY <1>4, <1>10, <1>14 DEF SortInv, GapAt, NextAt, ShiftAt, QuickInv, HeapInv, SearchInv,
   SortsAgree

(* The call under way returns, its range in order: the half of its caller  *)
(* that was being sorted is.                                               *)
LEMMA ReturnInv ==
  ASSUME SortInv, running = "merge", pc # "done", Return,
         UNCHANGED <<gap, key, running, input, i, j, temp>>,
         nums' \in Seq(Int), Len(nums') = N, Permutes(nums', input),
         OrderedIn(nums', Current.left, Current.right),
         \A p \in 1..N : p \notin Current.left..Current.right => nums'[p] = nums[p]
  PROVE  SortInv'
<1> DEFINE n == Len(calls)
<1>1. /\ STypeOK /\ nums \in Seq(Int) /\ input \in Seq(Int) /\ calls \in Seq(Frames)
      /\ calls # <<>> /\ Permutes(nums, input)
      /\ RangesInv /\ NestInv /\ HalvesInv
      /\ N \in Nat /\ N = Len(nums)
      /\ i \in Int /\ j \in Int /\ temp \in Seq(Int)
  BY MergeFacts
<1>2. /\ n \in Nat \ {0} /\ DOMAIN calls = 1..n
      /\ Current = calls[n] /\ Current \in Frames
      /\ Callers \in Seq(Frames) /\ Len(Callers) = n - 1
      /\ \A c \in 1..(n - 1) : Callers[c] = calls[c] /\ c \in DOMAIN calls
      /\ \A c \in DOMAIN calls : calls[c] \in Frames
  BY <1>1, CallFacts
<1>3. calls' = Callers /\ pc' = IF n = 1 THEN "done" ELSE "call"
  BY DEF Return
<1> HIDE DEF n
<1>4. N' = N /\ DOMAIN calls' = 1..(n - 1)
  BY <1>2, <1>3 DEF N
<1>5. STypeOK' /\ AtInv'
  BY <1>1, <1>2, <1>3 DEF STypeOK, SortInv, AtInv
<1>6. CASE n = 1
  <2>1. Current.left = 1 /\ Current.right = N
    BY <1>1, <1>2, <1>6 DEF NestInv
  <2>2. Ordered(nums')
    <3>1. DOMAIN nums' = 1..N /\ OrderedIn(nums', 1, N)
      BY <2>1
    <3> QED BY <3>1 DEF Ordered, OrderedIn
  <2> QED BY <1>3, <1>5, <1>6, <2>2 DEF SortInv, GapAt, NextAt, ShiftAt, MergeInv, QuickInv,
     HeapInv, SearchInv, SortsAgree
<1>7. CASE n # 1
  <2>1. pc' = "call" /\ n - 1 \in 1..n /\ n \in 1..n /\ n - 1 \in 1..(n - 1) /\ n = (n - 1) + 1
    BY <1>2, <1>3, <1>7
  <2>2. Current' = calls[n - 1]
    BY <1>2, <1>3, <2>1 DEF Current
  <2>3. RangesInv'
    <3>1. Callers # <<>>
      BY <1>2, <1>7
    <3> QED BY <1>1, <1>2, <1>3, <1>4, <3>1 DEF RangesInv
  <2>4. NestInv'
    <3>1. \A c \in 1..(n - 1) : c \in 1..n
      BY <1>2
    <3>2. 1 \in 1..(n - 1)
      BY <2>1
    <3>6. \A c, d \in 1..n : c < d =>
            /\ calls[c].at # "enter"
            /\ HalfLeft(calls[c]) <= calls[d].left /\ calls[d].right <= HalfRight(calls[c])
            /\ d = c + 1 => HalfLeft(calls[c]) = calls[d].left
                            /\ calls[d].right = HalfRight(calls[c])
      BY <1>1, <1>2 DEF NestInv
    <3>3. calls'[1].left = 1 /\ calls'[1].right = N
      BY <1>1, <1>2, <1>3, <3>2 DEF NestInv
    <3>4. ASSUME NEW c \in 1..(n - 1), calls'[c].at # "enter"
          PROVE  calls'[c].left < calls'[c].right
      BY <1>1, <1>2, <1>3, <3>1, <3>4 DEF NestInv
    <3>5. ASSUME NEW c \in 1..(n - 1), NEW d \in 1..(n - 1), c < d
          PROVE  /\ calls'[c].at # "enter"
                 /\ HalfLeft(calls'[c]) <= calls'[d].left /\ calls'[d].right <= HalfRight(calls'[c])
                 /\ d = c + 1 => HalfLeft(calls'[c]) = calls'[d].left
                                 /\ calls'[d].right = HalfRight(calls'[c])
      <4>1. c \in 1..n /\ d \in 1..n /\ calls'[c] = calls[c] /\ calls'[d] = calls[d]
        BY <1>2, <1>3, <3>1
      <4> QED BY <3>5, <3>6, <4>1
    <3> QED BY <1>4, <3>3, <3>4, <3>5 DEF NestInv
  <2>5. ASSUME NEW c \in 1..(n - 1), calls[c].at = "second"
        PROVE  OrderedIn(nums', calls[c].left, MidOf(calls[c]))
    <3>1. c \in 1..n /\ c < n
      BY <1>2
    <3>2. /\ OrderedIn(nums, calls[c].left, MidOf(calls[c]))
          /\ calls[c].left < calls[c].right /\ calls[c].left >= 1 /\ calls[c].right <= N
          /\ MidOf(calls[c]) + 1 <= Current.left
      BY <1>1, <1>2, <2>1, <2>5, <3>1 DEF RangesInv, NestInv, HalvesInv, HalfLeft
    <3>3. /\ calls[c].left \in Int /\ calls[c].right \in Int /\ MidOf(calls[c]) \in Int
          /\ MidOf(calls[c]) < calls[c].right /\ Current.left \in Int
      BY <1>2, <3>1, <3>2, MidFacts
    <3>4. ASSUME NEW p \in calls[c].left..MidOf(calls[c]) PROVE nums'[p] = nums[p]
      <4>1. p \in 1..N /\ p < Current.left
        <5>1. /\ calls[c].left >= 1 /\ calls[c].right <= N
              /\ MidOf(calls[c]) + 1 <= Current.left
          BY <3>2
        <5>2. p \in Int /\ calls[c].left <= p /\ p <= MidOf(calls[c])
          BY <3>3
        <5>3. N \in Nat
          BY <1>1
        <5> HIDE DEF MidOf
        <5> QED BY <3>3, <5>1, <5>2, <5>3
      <4>2. p \notin Current.left..Current.right
        BY <3>3, <4>1
      <4> QED BY <4>1, <4>2
    <3> QED BY <3>2, <3>4 DEF OrderedIn
  <2>6. HalvesInv'
    <3>1. HalfLeft(calls[n - 1]) = Current.left /\ Current.right = HalfRight(calls[n - 1])
      <4>1. \A c, d \in 1..n : c < d /\ d = c + 1 =>
              HalfLeft(calls[c]) = calls[d].left /\ calls[d].right = HalfRight(calls[c])
        BY <1>1, <1>2 DEF NestInv
      <4>2. n - 1 < n
        BY <1>2
      <4> QED BY <1>2, <2>1, <4>1, <4>2
    <3>2. OrderedIn(nums', HalfLeft(Current'), HalfRight(Current'))
      BY <2>2, <3>1
    <3> QED BY <1>2, <1>3, <1>4, <2>5, <3>2 DEF HalvesInv
  <2>7. MergeInv'
    BY <2>1, <2>3, <2>4, <2>6 DEF MergeInv
  <2> QED BY <1>5, <2>1, <2>7 DEF SortInv, GapAt, NextAt, ShiftAt, QuickInv, HeapInv, SearchInv,
     SortsAgree
<1> QED BY <1>6, <1>7

LEMMA MergeCallInv ==
  ASSUME SortInv, MergeCall, UNCHANGED <<gap, key, running, input>>
  PROVE  SortInv'
<1> DEFINE left == Current.left
           right == Current.right
           mid == Middle(left, right)
<1>1. running = "merge" /\ pc = "call" /\ nums' = nums
  BY DEF MergeCall
<1>2. /\ STypeOK /\ nums \in Seq(Int) /\ input \in Seq(Int) /\ calls \in Seq(Frames)
      /\ calls # <<>> /\ Permutes(nums, input)
      /\ RangesInv /\ NestInv /\ HalvesInv
      /\ N \in Nat /\ N = Len(nums) /\ \A p \in 1..N : nums[p] \in Int
      /\ i \in Int /\ j \in Int /\ temp \in Seq(Int)
  BY <1>1, MergeFacts
<1>3. /\ DOMAIN calls = 1..Len(calls) /\ Len(calls) \in DOMAIN calls
      /\ Current = calls[Len(calls)] /\ Current \in Frames
  BY <1>2, CallFacts
<1>4. /\ left \in Int /\ right \in Int /\ mid \in Int /\ mid = MidOf(Current)
      /\ left < right => left <= mid /\ mid < right
  BY <1>3, MidFacts DEF MidOf
<1>5. Current.at # "enter" => left < right
  BY <1>2, <1>3 DEF NestInv
<1>6. left >= 1 /\ right <= N
  BY <1>2, <1>3 DEF RangesInv
<1>7. Current.at # "enter" => OrderedIn(nums, HalfLeft(Current), HalfRight(Current))
  BY <1>2 DEF HalvesInv
<1>8. ASSUME NEW at \in {"enter", "first", "second"}
      PROVE  /\ [Current EXCEPT !.at = at].at = at
             /\ [Current EXCEPT !.at = at].left = left /\ [Current EXCEPT !.at = at].right = right
             /\ MidOf([Current EXCEPT !.at = at]) = mid
  <2>1. Current \in [left : Int, right : Int, at : {"enter", "first", "second"}]
    BY <1>3 DEF Frames
  <2> QED BY <2>1 DEF MidOf
<1>9. CASE Current.at = "enter" /\ left < right /\ Descend("first", left, mid)
  <2>1. left = HalfLeft([Current EXCEPT !.at = "first"])
        /\ mid = HalfRight([Current EXCEPT !.at = "first"])
    BY <1>8 DEF HalfLeft, HalfRight
  <2> QED BY <1>1, <1>4, <1>9, <2>1, DescendInv
<1>10. CASE Current.at = "enter" /\ left >= right /\ Return /\ UNCHANGED <<i, j, temp>>
  <2>1. OrderedIn(nums', left, right)
    BY <1>1, <1>4, <1>10 DEF OrderedIn
  <2>2. pc # "done"
    BY <1>1
  <2> QED BY <1>1, <1>2, <1>10, <2>1, <2>2, ReturnInv
<1>11. CASE Current.at = "first" /\ Descend("second", mid + 1, right)
  <2>1. mid + 1 = HalfLeft([Current EXCEPT !.at = "second"])
        /\ right = HalfRight([Current EXCEPT !.at = "second"])
    BY <1>8 DEF HalfLeft, HalfRight
  <2>2. OrderedIn(nums, left, MidOf(Current))
    BY <1>7, <1>11 DEF HalfLeft, HalfRight
  <2>3. left < right /\ mid + 1 \in Int
    BY <1>4, <1>5, <1>11
  <2> QED BY <1>1, <1>4, <1>11, <2>1, <2>2, <2>3, DescendInv
<1>12. CASE /\ Current.at = "second"
            /\ pc' = "merge" /\ i' = left /\ j' = mid + 1 /\ temp' = <<>>
            /\ UNCHANGED calls
  <2>1. Current' = Current /\ N' = N
    BY <1>1, <1>12 DEF Current, N
  <2>2. STypeOK' /\ AtInv'
    BY <1>1, <1>2, <1>4, <1>12 DEF STypeOK, SortInv, AtInv
  <2>3. RangesInv' /\ NestInv' /\ HalvesInv'
    BY <1>1, <1>2, <1>12, <2>1 DEF RangesInv, NestInv, HalvesInv
  <2>4. TempInv'
    <3>1. left..(left - 1) = {} /\ (mid + 1)..((mid + 1) - 1) = {}
      BY <1>4
    <3>2. Taken' = {}
      BY <1>4, <1>12, <2>1, <3>1 DEF Taken
    <3>3. DOMAIN temp' = {} /\ Len(temp') = 0
      BY <1>12
    <3>4. OrderedIn(temp', 1, Len(temp'))
      BY <3>3 DEF OrderedIn
    <3>5. Holds(temp', nums', Taken')
      <4> DEFINE g == [p \in {} |-> 0]
      <4>1. g \in [{} -> {}]
        OBVIOUS
      <4> HIDE DEF g
      <4> QED BY <3>2, <3>3, <4>1 DEF Holds
    <3>6. /\ left \in left..(mid + 1) /\ mid + 1 \in (mid + 1)..(right + 1)
          /\ 0 = (left - left) + ((mid + 1) - (mid + 1))
      BY <1>4, <1>5, <1>12
    <3> HIDE DEF left, right, mid
    <3>7. left = Current.left /\ right = Current.right
      BY DEF left, right
    <3> QED BY <1>4, <1>12, <2>1, <3>3, <3>4, <3>5, <3>6, <3>7 DEF TempInv
  <2>5. MergeInv'
    BY <2>3, <2>4 DEF MergeInv
  <2> QED BY <1>1, <1>12, <2>2, <2>5 DEF SortInv, GapAt, NextAt, ShiftAt, QuickInv, HeapInv,
     SearchInv, SortsAgree
<1> QED BY <1>9, <1>10, <1>11, <1>12 DEF MergeCall

(* An item no smaller than those of t is put behind them.                  *)
LEMMA TakeOrder ==
  ASSUME NEW t \in Seq(Int), NEW v \in Int, OrderedIn(t, 1, Len(t)), \A p \in DOMAIN t : t[p] <= v,
         NEW u, u = Append(t, v)
  PROVE  /\ u \in Seq(Int) /\ Len(u) = Len(t) + 1
         /\ OrderedIn(u, 1, Len(u))
         /\ \A p \in DOMAIN u : (p \in DOMAIN t /\ u[p] = t[p]) \/ u[p] = v
<1> DEFINE n == Len(t)
<1>1. /\ n \in Nat /\ DOMAIN t = 1..n /\ \A p \in 1..n : t[p] \in Int
      /\ u \in Seq(Int) /\ Len(u) = n + 1 /\ DOMAIN u = 1..(n + 1)
      /\ u[n + 1] = v /\ \A p \in 1..n : u[p] = t[p]
  OBVIOUS
<1> HIDE DEF n
<1>2. \A p \in 1..(n + 1) : p \in 1..n \/ p = n + 1
  BY <1>1
<1>3. OrderedIn(u, 1, Len(u))
  <2>1. ASSUME NEW p \in 1..(n + 1), NEW r \in 1..(n + 1), p < r PROVE u[p] <= u[r]
    <3>1. p \in 1..n
      BY <1>1, <2>1
    <3>2. CASE r \in 1..n
      BY <1>1, <2>1, <3>1, <3>2 DEF OrderedIn, n
    <3>3. CASE r = n + 1
      BY <1>1, <3>1, <3>3
    <3> QED BY <1>2, <3>2, <3>3
  <2> QED BY <1>1, <2>1 DEF OrderedIn
<1>4. \A p \in DOMAIN u : (p \in DOMAIN t /\ u[p] = t[p]) \/ u[p] = v
  BY <1>1, <1>2
<1> QED BY <1>1, <1>3, <1>4 DEF n

LEMMA TakeHolds ==
  ASSUME NEW s \in Seq(Int), NEW t \in Seq(Int), NEW S, NEW q \in DOMAIN s, Holds(t, s, S)
  PROVE  Holds(Append(t, s[q]), s, S \union {q})
<1> DEFINE n == Len(t)
           u == Append(t, s[q])
           R == S \union {q}
<1>1. /\ n \in Nat /\ DOMAIN t = 1..n /\ DOMAIN u = 1..(n + 1)
      /\ u[n + 1] = s[q] /\ \A p \in 1..n : u[p] = t[p]
  OBVIOUS
<1>2. PICK f \in [DOMAIN t -> S] :
        /\ \A r \in S : \E p \in DOMAIN t : f[p] = r
        /\ \A p \in DOMAIN t : t[p] = s[f[p]]
  BY DEF Holds
<1>3. /\ f \in [1..n -> S]
      /\ \A r \in S : \E p \in 1..n : f[p] = r
      /\ \A p \in 1..n : t[p] = s[f[p]]
  BY <1>1, <1>2
<1> HIDE DEF n, u
<1>4. /\ \A p \in 1..(n + 1) : p \in 1..n \/ p = n + 1
      /\ \A p \in 1..n : p \in 1..(n + 1) /\ p # n + 1
      /\ n + 1 \in 1..(n + 1)
  BY <1>1
<1> DEFINE g == [p \in 1..(n + 1) |-> IF p = n + 1 THEN q ELSE f[p]]
<1>5. g \in [1..(n + 1) -> R]
  BY <1>3, <1>4
<1>6. g[n + 1] = q /\ \A p \in 1..n : g[p] = f[p]
  BY <1>4
<1> HIDE DEF g
<1>7. ASSUME NEW r \in R PROVE \E p \in 1..(n + 1) : g[p] = r
  BY <1>3, <1>4, <1>6
<1>8. \A p \in 1..(n + 1) : u[p] = s[g[p]]
  BY <1>1, <1>3, <1>4, <1>6
<1> HIDE DEF R
<1>9. /\ g \in [DOMAIN u -> R]
      /\ \A r \in R : \E p \in DOMAIN u : g[p] = r
      /\ \A p \in DOMAIN u : u[p] = s[g[p]]
  BY <1>1, <1>5, <1>7, <1>8
<1>10. Holds(u, s, R)
  BY <1>9 DEF Holds
<1> QED BY <1>10 DEF u, R

LEMMA MergeStepInv ==
  ASSUME SortInv, Merge, UNCHANGED <<gap, key, running, input>>
  PROVE  SortInv'
<1> DEFINE left == Current.left
           right == Current.right
           mid == Middle(left, right)
<1>1. running = "merge" /\ pc = "merge"
  BY DEF SortInv, AtInv, STypeOK, Sorters, Merge
<1>2. /\ STypeOK /\ nums \in Seq(Int) /\ input \in Seq(Int) /\ calls \in Seq(Frames)
      /\ calls # <<>> /\ Permutes(nums, input)
      /\ RangesInv /\ NestInv /\ HalvesInv
      /\ N \in Nat /\ N = Len(nums) /\ DOMAIN nums = 1..N /\ \A p \in 1..N : nums[p] \in Int
      /\ i \in Int /\ j \in Int /\ temp \in Seq(Int)
  BY <1>1, MergeFacts
<1>3. /\ DOMAIN calls = 1..Len(calls) /\ Len(calls) \in DOMAIN calls
      /\ Current = calls[Len(calls)] /\ Current \in Frames
  BY <1>2, CallFacts
<1>4. TempInv
  BY <1>1 DEF SortInv, MergeInv
<1>5. left < right /\ left >= 1 /\ right <= N /\ Current.at = "second"
  BY <1>2, <1>3, <1>4 DEF NestInv, RangesInv, TempInv
<1>6. /\ left \in Int /\ right \in Int /\ mid \in Int /\ mid = MidOf(Current)
      /\ left <= mid /\ mid < right
  BY <1>3, <1>5, MidFacts DEF MidOf
<1>7. OrderedIn(nums, left, mid) /\ OrderedIn(nums, mid + 1, right)
  BY <1>2, <1>3, <1>5, <1>6 DEF HalvesInv, HalfLeft, HalfRight
<1>8. Taken = (left..(i - 1)) \union ((mid + 1)..(j - 1)) /\ Left = (i..mid) \union (j..right)
  BY <1>6 DEF Taken, Left
<1> HIDE DEF left, right, mid
<1>9. /\ i \in left..(mid + 1) /\ j \in (mid + 1)..(right + 1)
      /\ Len(temp) = (i - left) + (j - (mid + 1))
      /\ OrderedIn(temp, 1, Len(temp))
      /\ \A p \in DOMAIN temp : \A q \in Left : temp[p] <= nums[q]
      /\ Holds(temp, nums, Taken)
  BY <1>4, <1>6 DEF TempInv, left, right
<1>15. /\ i \in left..(mid + 1) /\ j \in (mid + 1)..(right + 1)
       /\ Len(temp) = (i - left) + (j - (mid + 1))
  BY <1>9
<1>16. Len(temp) \in Nat /\ DOMAIN temp = 1..Len(temp) /\ \A p \in 1..Len(temp) : temp[p] \in Int
  BY <1>2
<1>17. /\ left \in Int /\ mid \in Int /\ right \in Int /\ i \in Int /\ j \in Int /\ N \in Nat
       /\ 1 <= left /\ left <= mid /\ mid < right /\ right <= N
       /\ left <= i /\ i <= mid + 1 /\ mid + 1 <= j /\ j <= right + 1
  <2>1. i \in left..(mid + 1) /\ j \in (mid + 1)..(right + 1)
    BY <1>15
  <2>2. left \in Int /\ mid \in Int /\ right \in Int /\ left <= mid /\ mid < right
    BY <1>6
  <2>3. i \in Int /\ j \in Int /\ N \in Nat
    BY <1>2
  <2> QED BY <1>5, <2>1, <2>2, <2>3
<1>10. Taken \subseteq 1..N /\ Left \subseteq 1..N
  <2>1. ASSUME NEW p \in Taken PROVE p \in 1..N
    <3>1. p \in left..(i - 1) \/ p \in (mid + 1)..(j - 1)
      BY <1>8
    <3> QED BY <1>17, <3>1
  <2>2. ASSUME NEW p \in Left PROVE p \in 1..N
    <3>1. p \in i..mid \/ p \in j..right
      BY <1>8
    <3> QED BY <1>17, <3>1
  <2> QED BY <2>1, <2>2
<1>11. ASSUME NEW q \in Left, \A r \in Left : nums[q] <= nums[r],
              temp' = Append(temp, nums[q]), UNCHANGED <<pc, nums, calls>>,
              i' \in left..(mid + 1), j' \in (mid + 1)..(right + 1),
              (i' = i + 1 /\ j' = j) \/ (i' = i /\ j' = j + 1),
              Taken' = Taken \union {q}, Left' \subseteq Left
       PROVE  SortInv'
  <2>1. Current' = Current /\ N' = N
    BY <1>11 DEF Current, N
  <2>2. /\ temp' \in Seq(Int) /\ Len(temp') = Len(temp) + 1
        /\ OrderedIn(temp', 1, Len(temp'))
        /\ \A p \in DOMAIN temp' : (p \in DOMAIN temp /\ temp'[p] = temp[p]) \/ temp'[p] = nums[q]
        /\ Holds(temp', nums', Taken')
    <3>1. q \in DOMAIN nums /\ nums[q] \in Int
      BY <1>2, <1>10
    <3>2. \A p \in DOMAIN temp : temp[p] <= nums[q]
      BY <1>9, <1>11
    <3>3. /\ temp' \in Seq(Int) /\ Len(temp') = Len(temp) + 1
          /\ OrderedIn(temp', 1, Len(temp'))
          /\ \A p \in DOMAIN temp' : (p \in DOMAIN temp /\ temp'[p] = temp[p]) \/ temp'[p] = nums[q]
      <4>1. /\ temp' = Append(temp, nums[q])
            /\ temp \in Seq(Int) /\ OrderedIn(temp, 1, Len(temp))
        BY <1>2, <1>9, <1>11
      <4>2. \A u : u = Append(temp, nums[q]) =>
              /\ u \in Seq(Int) /\ Len(u) = Len(temp) + 1
              /\ OrderedIn(u, 1, Len(u))
              /\ \A p \in DOMAIN u : (p \in DOMAIN temp /\ u[p] = temp[p]) \/ u[p] = nums[q]
        BY <3>1, <3>2, <4>1, TakeOrder
      <4> QED BY <4>1, <4>2
    <3>4. Holds(Append(temp, nums[q]), nums, Taken \union {q})
      BY <1>2, <1>9, <3>1, TakeHolds
    <3> QED BY <1>11, <3>3, <3>4
  <2>3. STypeOK' /\ AtInv'
    BY <1>1, <1>2, <1>6, <1>11, <2>2 DEF STypeOK, SortInv, AtInv
  <2>4. RangesInv' /\ NestInv' /\ HalvesInv'
    BY <1>2, <1>11, <2>1 DEF RangesInv, NestInv, HalvesInv
  <2>5. TempInv'
    <3>1. \A p \in DOMAIN temp' : \A r \in Left' : temp'[p] <= nums'[r]
      BY <1>9, <1>11, <2>2
    <3>2. Len(temp') = (i' - left) + (j' - (mid + 1))
      <4>1. /\ (i' = i + 1 /\ j' = j) \/ (i' = i /\ j' = j + 1)
            /\ Len(temp') = Len(temp) + 1
        BY <1>11, <2>2
      <4>2. Len(temp) = (i - left) + (j - (mid + 1)) /\ Len(temp) \in Int
        BY <1>15, <1>16
      <4> QED BY <1>17, <4>1, <4>2
    <3>3. Holds(temp', nums', Taken')
      BY <2>2
    <3>4. Current'.left = left /\ Current'.right = right /\ MidOf(Current') = mid
      BY <1>6, <2>1 DEF left, right
    <3>5. OrderedIn(temp', 1, Len(temp')) /\ Current'.at = "second"
      BY <1>5, <2>1, <2>2
    <3> QED BY <1>11, <3>1, <3>2, <3>3, <3>4, <3>5 DEF TempInv
  <2>6. MergeInv'
    BY <2>4, <2>5 DEF MergeInv
  <2> QED BY <1>1, <1>11, <2>3, <2>6 DEF SortInv, GapAt, NextAt, ShiftAt, QuickInv, HeapInv,
     SearchInv, SortsAgree
<1>12. CASE /\ i <= mid /\ (j <= right => nums[i] <= nums[j])
            /\ temp' = Append(temp, nums[i]) /\ i' = i + 1
            /\ UNCHANGED <<pc, nums, j, calls>>
  <2>1. /\ Current'.left = left /\ Current'.right = right /\ MidOf(Current') = mid
    BY <1>6, <1>12 DEF Current, left, right
  <2>2. i \in Left /\ i \in left..mid
    BY <1>2, <1>6, <1>8, <1>9, <1>12
  <2>3. ASSUME NEW r \in Left PROVE nums[i] <= nums[r]
    <3>1. i \in 1..N /\ r \in 1..N /\ nums[i] \in Int /\ nums[r] \in Int
      BY <1>2, <1>10, <2>2
    <3>2. CASE r \in i..mid
      <4>1. r \in left..mid /\ (r = i \/ i < r)
        BY <1>2, <1>6, <2>2, <3>2
      <4> QED BY <1>7, <2>2, <3>1, <4>1 DEF OrderedIn
    <3>3. CASE r \in j..right
      <4>1. j <= right /\ j \in (mid + 1)..right /\ r \in (mid + 1)..right /\ (r = j \/ j < r)
        BY <1>2, <1>6, <1>9, <3>3
      <4>2. nums[j] <= nums[r]
        BY <1>7, <3>1, <4>1 DEF OrderedIn
      <4>3. nums[j] \in Int
        BY <1>2, <1>5, <1>6, <4>1
      <4> QED BY <1>12, <3>1, <4>1, <4>2, <4>3
    <3> QED BY <1>8, <3>2, <3>3
  <2>4. Taken' = Taken \union {i}
    <3>1. left..((i + 1) - 1) = (left..(i - 1)) \union {i}
      BY <1>2, <1>6, <2>2
    <3> QED BY <1>8, <1>12, <2>1, <3>1 DEF Taken
  <2>5. Left' \subseteq Left
    <3>1. (i + 1)..mid \subseteq i..mid
      BY <1>2, <1>6
    <3> QED BY <1>8, <1>12, <2>1, <3>1 DEF Left
  <2>6. /\ i' \in left..(mid + 1) /\ j' \in (mid + 1)..(right + 1)
        /\ (i' = i + 1 /\ j' = j) \/ (i' = i /\ j' = j + 1)
    BY <1>2, <1>6, <1>9, <1>12, <2>2
  <2>7. UNCHANGED <<pc, nums, calls>> /\ temp' = Append(temp, nums[i])
    BY <1>12
  <2> HIDE DEF Taken, Left
  <2> QED BY <1>11, <2>2, <2>3, <2>4, <2>5, <2>6, <2>7
<1>13. CASE /\ j <= right /\ (i <= mid => nums[i] > nums[j])
            /\ temp' = Append(temp, nums[j]) /\ j' = j + 1
            /\ UNCHANGED <<pc, nums, i, calls>>
  <2>1. /\ Current'.left = left /\ Current'.right = right /\ MidOf(Current') = mid
    BY <1>6, <1>13 DEF Current, left, right
  <2>2. j \in Left /\ j \in (mid + 1)..right
    BY <1>2, <1>6, <1>8, <1>9, <1>13
  <2>3. ASSUME NEW r \in Left PROVE nums[j] <= nums[r]
    <3>1. j \in 1..N /\ r \in 1..N /\ nums[j] \in Int /\ nums[r] \in Int
      BY <1>2, <1>10, <2>2
    <3>2. CASE r \in j..right
      <4>1. r \in (mid + 1)..right /\ (r = j \/ j < r)
        BY <1>2, <1>6, <2>2, <3>2
      <4> QED BY <1>7, <2>2, <3>1, <4>1 DEF OrderedIn
    <3>3. CASE r \in i..mid
      <4>1. i <= mid /\ i \in left..mid /\ r \in left..mid /\ (r = i \/ i < r)
        BY <1>2, <1>6, <1>9, <3>3
      <4>2. nums[i] <= nums[r]
        BY <1>7, <3>1, <4>1 DEF OrderedIn
      <4>3. nums[i] \in Int
        BY <1>2, <1>5, <1>6, <4>1
      <4> QED BY <1>13, <3>1, <4>1, <4>2, <4>3
    <3> QED BY <1>8, <3>2, <3>3
  <2>4. Taken' = Taken \union {j}
    <3>1. (mid + 1)..((j + 1) - 1) = ((mid + 1)..(j - 1)) \union {j}
      BY <1>2, <1>6, <2>2
    <3> QED BY <1>8, <1>13, <2>1, <3>1 DEF Taken
  <2>5. Left' \subseteq Left
    <3>1. (j + 1)..right \subseteq j..right
      BY <1>2, <1>6
    <3> QED BY <1>8, <1>13, <2>1, <3>1 DEF Left
  <2>6. /\ i' \in left..(mid + 1) /\ j' \in (mid + 1)..(right + 1)
        /\ (i' = i + 1 /\ j' = j) \/ (i' = i /\ j' = j + 1)
    BY <1>2, <1>6, <1>9, <1>13, <2>2
  <2>7. UNCHANGED <<pc, nums, calls>> /\ temp' = Append(temp, nums[j])
    BY <1>13
  <2> HIDE DEF Taken, Left
  <2> QED BY <1>11, <2>2, <2>3, <2>4, <2>5, <2>6, <2>7
<1>14. CASE /\ i > mid /\ j > right /\ Return
            /\ nums' = [p \in 1..N |-> IF p \in left..right THEN temp[p - left + 1] ELSE nums[p]]
            /\ UNCHANGED <<i, j, temp>>
  <2> DEFINE n == Len(temp)
  <2>1. n = right - left + 1 /\ n \in Nat /\ DOMAIN temp = 1..n /\ \A p \in 1..n : temp[p] \in Int
    BY <1>14, <1>15, <1>16, <1>17
  <2>2. Taken = left..right
    <3>1. i - 1 = mid /\ j - 1 = right
      BY <1>14, <1>17
    <3>2. (left..mid) \union ((mid + 1)..right) = left..right
      BY <1>6
    <3> QED BY <1>8, <3>1, <3>2
  <2>3. \A p \in left..right : p - left + 1 \in 1..n /\ p \in 1..N
    BY <1>2, <1>5, <1>6, <2>1
  <2> HIDE DEF n
  <2>4. /\ \A p \in left..right : nums'[p] = temp[p - left + 1]
        /\ \A p \in 1..N : p \notin left..right => nums'[p] = nums[p]
    BY <1>14, <2>3
  <2>5. \A p \in 1..N : nums'[p] \in Int
    BY <1>2, <2>1, <2>3, <2>4
  <2>6. nums' \in Seq(Int) /\ Len(nums') = N
    <3>1. nums' = [p \in 1..N |-> nums'[p]]
      BY <1>14
    <3>2. nums' \in [1..N -> Int]
      BY <2>5, <3>1
    <3>3. N \in Nat
      BY <1>2
    <3> QED BY <3>2, <3>3, SeqOf
  <2>7. OrderedIn(nums', left, right)
    <3>1. ASSUME NEW p \in left..right, NEW q \in left..right, p < q
          PROVE  nums'[p] <= nums'[q]
      <4>1. p - left + 1 < q - left + 1
        BY <1>6, <3>1
      <4>2. temp[p - left + 1] <= temp[q - left + 1]
        BY <1>9, <2>3, <4>1 DEF OrderedIn, n
      <4> QED BY <2>4, <4>2
    <3> QED BY <3>1 DEF OrderedIn
  <2>8. Permutes(nums', input)
    <3>1. PICK f \in [DOMAIN temp -> Taken] :
            /\ \A q \in Taken : \E p \in DOMAIN temp : f[p] = q
            /\ \A p \in DOMAIN temp : temp[p] = nums[f[p]]
      BY <1>9 DEF Holds
    <3>2. /\ f \in [1..n -> left..right]
          /\ \A q \in left..right : \E p \in 1..n : f[p] = q
          /\ \A p \in 1..n : temp[p] = nums[f[p]]
      BY <2>1, <2>2, <3>1
    <3> DEFINE g == [p \in 1..N |-> IF p \in left..right THEN f[p - left + 1] ELSE p]
    <3>3. /\ \A p \in left..right : g[p] = f[p - left + 1] /\ g[p] \in left..right
          /\ \A p \in 1..N : p \notin left..right => g[p] = p
      BY <2>3, <3>2
    <3>4. g \in [1..N -> 1..N]
      BY <2>3, <3>3
    <3> HIDE DEF g
    <3>5. ASSUME NEW q \in 1..N PROVE \E p \in 1..N : g[p] = q
      <4>1. CASE q \in left..right
        <5>1. PICK r \in 1..n : f[r] = q
          BY <3>2, <4>1
        <5>2. r + left - 1 \in left..right /\ (r + left - 1) - left + 1 = r
          BY <1>6, <2>1
        <5> QED BY <2>3, <3>3, <5>1, <5>2
      <4>2. CASE q \notin left..right
        BY <3>3, <4>2
      <4> QED BY <4>1, <4>2
    <3>6. \A p \in 1..N : nums'[p] = nums[g[p]]
      BY <2>3, <2>4, <3>2, <3>3
    <3>7. /\ nums \in Seq(Int) /\ input \in Seq(Int) /\ nums' \in Seq(Int)
          /\ Permutes(nums, input) /\ Len(nums') = Len(nums)
          /\ g \in [1..Len(nums) -> 1..Len(nums)]
      BY <1>2, <2>6, <3>4
    <3>8. /\ \A q \in 1..Len(nums) : \E p \in 1..Len(nums) : g[p] = q
          /\ \A p \in 1..Len(nums) : nums'[p] = nums[g[p]]
      BY <1>2, <3>5, <3>6
    <3> QED BY <3>7, <3>8, PermThrough
  <2>9. pc # "done"
    BY <1>1
  <2> QED BY <1>1, <1>14, <2>4, <2>6, <2>7, <2>8, <2>9, ReturnInv DEF left, right
<1> QED BY <1>12, <1>13, <1>14 DEF Merge, left, right, mid

-----------------------------------------------------------------------------
(* The caller, and the theorems.                                           *)

LEMMA SortInitInv ==
  ASSUME SortInit
  PROVE  SortInv
<1>1. STypeOK /\ AtInv
  BY DEF SortInit, STypeOK, AtInv
<1> QED BY <1>1 DEF SortInit, SortInv, GapAt, NextAt, ShiftAt, MergeInv, QuickInv, HeapInv,
   SearchInv, SortsAgree

LEMMA ExtendInv ==
  ASSUME SortInv, Extend
  PROVE  SortInv'
<1>1. running = "none" /\ pc = "done" /\ running' = running /\ pc' = pc
  BY DEF SortInv, AtInv, Extend
<1>2. PICK v \in Items : nums' = Append(nums, v) /\ input' = nums'
  BY DEF Extend
<1>3. v \in Int /\ nums \in Seq(Int)
  BY SortingAssumption DEF SortInv, STypeOK
<1>4. nums' \in Seq(Int) /\ input' = nums'
  BY <1>2, <1>3
<1>5. STypeOK' /\ AtInv'
  BY <1>1, <1>4 DEF SortInv, STypeOK, AtInv, Extend
<1> QED BY <1>1, <1>5 DEF SortInv, GapAt, NextAt, ShiftAt, MergeInv, QuickInv, HeapInv,
   SearchInv, SortsAgree

(* The first call of merge_sort and of quickSort is of the whole array.    *)
LEMMA SortStarts ==
  ASSUME SortInv, Sort
  PROVE  SortInv'
<1>1. /\ running = "none" /\ pc = "done" /\ nums = input
      /\ nums' = nums /\ input' = input /\ j' = j /\ key' = key /\ temp' = temp
  BY DEF SortInv, AtInv, Sort
<1>2. /\ N \in Nat /\ N = Len(nums) /\ DOMAIN nums = 1..N /\ \A p \in 1..N : nums[p] \in Int
      /\ N' = N /\ STypeOK /\ nums \in Seq(Int) /\ input \in Seq(Int) /\ i \in Int /\ gap \in Int
  BY <1>1, ArrayFacts DEF SortInv, N, STypeOK
<1>3. Permutes(nums, input)
  BY <1>1, <1>2, PermRefl
<1>4. N <= 1 => Ordered(nums)
  BY <1>2 DEF Ordered
<1>5. N \div 2 \in 0..N /\ (N \div 2 = 0 => N <= 1)
  BY <1>2
<1>6. CASE /\ running' = "insert" /\ pc' = IF N <= 1 THEN "done" ELSE "next"
           /\ gap' = 1 /\ i' = 2 /\ UNCHANGED calls
  <2>1. STypeOK' /\ AtInv'
    BY <1>1, <1>2, <1>6 DEF STypeOK, AtInv, Sorters
  <2>2. OrderedIn(nums, 1, 1)
    BY DEF OrderedIn
  <2>3. NextAt'
    BY <1>1, <1>2, <1>3, <1>6, <2>2 DEF NextAt
  <2> QED BY <1>1, <1>3, <1>4, <1>6, <2>1, <2>3 DEF SortInv, GapAt, ShiftAt, MergeInv,
     QuickInv, HeapInv, SearchInv, SortsAgree
<1>7. CASE /\ running' = "shell" /\ pc' = "gap"
           /\ gap' = N \div 2 /\ UNCHANGED <<i, calls>>
  <2>1. STypeOK' /\ AtInv'
    BY <1>1, <1>2, <1>5, <1>7 DEF STypeOK, AtInv, Sorters
  <2>2. GapAt'
    BY <1>1, <1>2, <1>3, <1>4, <1>5, <1>7 DEF GapAt
  <2> QED BY <1>1, <1>7, <2>1, <2>2 DEF SortInv, NextAt, ShiftAt, MergeInv, QuickInv, HeapInv,
     SearchInv, SortsAgree
<1>8. CASE /\ running' \in {"merge", "quick"} /\ pc' = "call"
           /\ calls' = <<[left |-> 1, right |-> N, at |-> "enter"]>> /\ UNCHANGED <<i, gap>>
  <2>1. /\ calls' \in Seq(Frames) /\ Len(calls') = 1 /\ DOMAIN calls' = {1} /\ calls' # <<>>
        /\ calls'[1].left = 1 /\ calls'[1].right = N /\ calls'[1].at = "enter"
    <3> DEFINE c == [left |-> 1, right |-> N, at |-> "enter"]
    <3>1. c \in Frames /\ c.left = 1 /\ c.right = N /\ c.at = "enter"
      BY <1>2 DEF Frames
    <3> HIDE DEF c
    <3>2. calls' = <<c>>
      BY <1>8 DEF c
    <3> QED BY <3>1, <3>2
  <2>2. STypeOK' /\ AtInv'
    BY <1>1, <1>2, <1>8, <2>1 DEF STypeOK, AtInv, Sorters
  <2>3. Current' = calls'[1]
    BY <2>1 DEF Current
  <2>4. RangesInv'
    BY <1>1, <1>2, <1>3, <2>1 DEF RangesInv
  <2>5. NestInv' /\ HalvesInv'
    BY <1>2, <2>1, <2>3 DEF NestInv, HalvesInv
  <2>6. Apart(calls', N)
    BY <2>1 DEF Apart
  <2>7. Blocks(nums, calls')
    <3>1. \A p \in 1..N : In(p, calls'[1])
      BY <2>1 DEF In
    <3> QED BY <1>2, <2>1, <3>1 DEF Blocks
  <2>8. MergeInv' /\ QuickInv'
    BY <1>1, <1>2, <1>8, <2>4, <2>5, <2>6, <2>7 DEF MergeInv, QuickInv
  <2> QED BY <1>1, <1>8, <2>2, <2>8 DEF SortInv, GapAt, NextAt, ShiftAt, HeapInv, SearchInv,
     SortsAgree
<1>9. CASE /\ running' = "heap" /\ pc' = "build"
           /\ i' = N \div 2 /\ UNCHANGED <<gap, calls>>
  <2>1. STypeOK' /\ AtInv'
    BY <1>1, <1>2, <1>5, <1>9 DEF STypeOK, AtInv, Sorters
  <2>2. HeapFrom(nums, N \div 2 + 1, N)
    <3>1. \A p, c \in 1..N : p >= N \div 2 + 1 => ~Child(c, p)
      BY <1>2 DEF Child
    <3> QED BY <3>1 DEF HeapFrom
  <2>3. HeapInv'
    BY <1>1, <1>2, <1>3, <1>5, <1>9, <2>2 DEF HeapInv
  <2> QED BY <1>1, <1>9, <2>1, <2>3 DEF SortInv, GapAt, NextAt, ShiftAt, MergeInv, QuickInv,
     SearchInv, SortsAgree
<1> QED BY <1>6, <1>7, <1>8, <1>9 DEF Sort

LEMMA SortNextInv ==
  ASSUME SortInv, [SortNext]_sortvars
  PROVE  SortInv'
<1>1. CASE UNCHANGED sortvars
  BY <1>1 DEF sortvars, SortInv, STypeOK, AtInv, GapAt, NextAt, ShiftAt, MergeInv, RangesInv,
     NestInv, HalvesInv, TempInv, Taken, Left, QuickInv, ScanInv, HeapInv, SearchInv, SortsAgree,
     N, Current
<1>2. CASE Extend
  BY <1>2, ExtendInv
<1>3. CASE Sort
  BY <1>3, SortStarts
<1>4. CASE Search
  BY <1>4, SearchStarts
<1>5. CASE SortStep
  <2>1. UNCHANGED <<running, input>>
    BY <1>5 DEF SortStep
  <2>2. CASE GapSort
    BY <2>1, <2>2, GapLoopInv, NextItemInv, ShiftInv DEF GapSort
  <2>3. CASE MergeSort
    BY <2>1, <2>3, MergeCallInv, MergeStepInv DEF MergeSort
  <2>4. CASE QuickSort
    BY <2>1, <2>4, QuickCallInv, ScanDownInv, ScanUpInv DEF QuickSort
  <2>5. CASE HeapSort
    BY <2>1, <2>5, BuildInv, SinkInv, PopMaxInv, ResinkInv DEF HeapSort
  <2>6. CASE Probe
    BY <2>1, <2>6, ProbeInv
  <2> QED BY <1>5, <2>2, <2>3, <2>4, <2>5, <2>6 DEF SortStep
<1> QED BY <1>1, <1>2, <1>3, <1>4, <1>5 DEF SortNext

LEMMA SortInvariant == SortSpec => []SortInv
<1>1. SortInit => SortInv
  BY SortInitInv
<1>2. SortInv /\ [SortNext]_sortvars => SortInv'
  BY SortNextInv
<1> QED BY <1>1, <1>2, PTL DEF SortSpec

(* Every index is a number, the array holds numbers and keeps its length,  *)
(* whatever the caller fills it with.                                      *)
THEOREM SortTypes == SortSpec => []STypeOK
<1>1. SortInv => STypeOK
  BY DEF SortInv
<1> QED BY <1>1, SortInvariant, PTL

(* insert_sort, shell_sort, merge_sort, quickSort and heapSort each leave  *)
(* the items of the array in order, whatever they are and however many,    *)
(* and binarySearcsh finds in it what is there and nothing else.           *)
THEOREM SortersSort == SortSpec => []SortsAgree
<1>1. SortInv => SortsAgree
  BY DEF SortInv
<1> QED BY <1>1, SortInvariant, PTL
=============================================================================

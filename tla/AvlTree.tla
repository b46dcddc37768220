------------------------------ MODULE AvlTree -------------------------------
(***************************************************************************)
(* The binary trees of test_libgo/algorithm_search: insertion into and     *)
(* search in an AVL tree, and breadth-first and depth-first search, which  *)
(* here look at the trees that insertion builds.  A step is one call of    *)
(* insertAVL on the way down, one return on the way up, one rotation, or   *)
(* one node looked at by a search.                                         *)
(*                                                                         *)
(* Nodes are numbered in the order of their allocation, so that val also   *)
(* tells what was inserted.  The names leftRotate and rightRotate are the  *)
(* code's: leftRotate makes the left child the root.  The first of two     *)
(* rotations may follow a pointer to a child that is null: the program     *)
(* crashes then.  A search changes no node: a behaviour ends with it.      *)
(***************************************************************************)
EXTENDS Integers, Sequences, FiniteSets

CONSTANT KeySeqs  \* bound: the sequences of integers a caller inserts

ASSUME KeysAssumption == KeySeqs \subseteq Seq(Int)

VARIABLES
  val, left, right, height,  \* the fields of the nodes
  root,       \* the caller's pointer to the tree
  call,       \* the function called last, or "none"
  tpc,        \* its place: "idle", "done" (a search), "crashed" or where it goes on
  arg,        \* the key to insert or to find
  at,         \* the node passed to the call under way; at the end of a search its result
  path,       \* the nodes of the calls that wait for it, outermost first
  queue       \* of BFS

fields == <<val, left, right, height>>
treevars == <<fields, root, call, tpc, arg, at, path, queue>>

Null == 0
TreeNodes == 1..Len(val)
Searches == {"searchAVL", "BFS", "DFS"}

TreeInit ==
  /\ val = <<>> /\ left = <<>> /\ right = <<>> /\ height = <<>>
  /\ root = Null /\ call = "none" /\ tpc = "idle" /\ arg = 0 /\ at = Null
  /\ path = <<>> /\ queue = <<>>

Larger(a, b) == IF a > b THEN a ELSE b
GetHeight(t) == IF t = Null THEN 0 ELSE height[t]
GetBalanceFactor(t) == GetHeight(left[t]) - GetHeight(right[t])
Measured(a, b) == Larger(GetHeight(a), GetHeight(b)) + 1

Innermost == IF path = <<>> THEN Null ELSE path[Len(path)]
Caller == IF Len(path) < 2 THEN Null ELSE path[Len(path) - 1]

(* Where insertAVL(p->left or p->right, arg) leaves its result; the root   *)
(* of the tree is stored by the caller of the outermost call.              *)
Store(p, node, l, r) ==
  /\ left' = IF p # Null /\ arg < val[p] THEN [l EXCEPT ![p] = node] ELSE l
  /\ right' = IF p # Null /\ ~(arg < val[p]) THEN [r EXCEPT ![p] = node] ELSE r
  /\ root' = IF p = Null THEN node ELSE root

-----------------------------------------------------------------------------
(* insertAVL                                                               *)

InsertAVL(key) ==
  /\ tpc = "idle" /\ Append(val, key) \in KeySeqs
  /\ call' = "insertAVL" /\ tpc' = "enter" /\ arg' = key /\ at' = root
  /\ UNCHANGED <<fields, root, path, queue>>

Enter ==
  /\ tpc = "enter" /\ at # Null
  /\ path' = Append(path, at)
  /\ at' = IF arg < val[at] THEN left[at] ELSE right[at]
  /\ UNCHANGED <<fields, root, call, tpc, arg, queue>>

Allocate ==
  /\ tpc = "enter" /\ at = Null
  /\ val' = Append(val, arg) /\ height' = Append(height, 1)
  /\ Store(Innermost, Len(val) + 1, Append(left, Null), Append(right, Null))
  /\ tpc' = IF path = <<>> THEN "idle" ELSE "leave"
  /\ UNCHANGED <<call, arg, at, path, queue>>

(* The innermost call returns node, and the fields of nodes are l and r.   *)
ReturnNode(node, l, r) ==
  /\ Store(Caller, node, l, r)
  /\ path' = SubSeq(path, 1, Len(path) - 1)
  /\ tpc' = IF Len(path) = 1 THEN "idle" ELSE "leave"

(* Which rotation the node needs; with equal keys there may be none that   *)
(* applies.                                                                *)
Needed(t) ==
  LET balance == GetBalanceFactor(t) IN
  CASE balance > 1 /\ arg < val[left[t]] -> "leftRotate"
    [] balance < -1 /\ arg > val[right[t]] -> "rightRotate"
    [] balance > 1 /\ arg > val[left[t]] -> "leftRightRotate"
    [] balance < -1 /\ arg < val[right[t]] -> "rightLeftRotate"
    [] OTHER -> "none"

(* The recursive call is over: measure, and rotate or return.              *)
Leave ==
  LET t == Innermost IN
  /\ tpc = "leave"
  /\ height' = [height EXCEPT ![t] = Measured(left[t], right[t])]
  /\ \/ /\ Needed(t) = "none" /\ ReturnNode(t, left, right)
     \/ /\ Needed(t) # "none" /\ tpc' = Needed(t)
        /\ UNCHANGED <<left, right, root, path>>
  /\ UNCHANGED <<val, call, arg, at, queue>>

-----------------------------------------------------------------------------
(* Rotations                                                               *)

(* The near child of node takes its place, and node becomes its far child. *)
Rotated(near, far, node) ==
  LET child == near[node]
      lowered == Measured(far[child], far[node])
  IN  [near |-> [near EXCEPT ![node] = far[child]],
       far |-> [far EXCEPT ![child] = node],
       height |-> [height EXCEPT ![node] = lowered,
                                 ![child] = Larger(GetHeight(near[child]), lowered) + 1],
       root |-> child]

LeftRotate ==
  LET s == Rotated(left, right, Innermost) IN
  /\ tpc = "leftRotate"
  /\ height' = s.height /\ ReturnNode(s.root, s.near, s.far)
  /\ UNCHANGED val

RightRotate ==
  LET s == Rotated(right, left, Innermost) IN
  /\ tpc = "rightRotate"
  /\ height' = s.height /\ ReturnNode(s.root, s.far, s.near)
  /\ UNCHANGED val

Crash == tpc' = "crashed" /\ UNCHANGED <<fields, root, path>>

(* Of the two rotations the first; the second is the step that follows.    *)
LeftRightRotate ==
  LET t == Innermost
      s == Rotated(right, left, left[t])
  IN
  /\ tpc = "leftRightRotate"
  /\ \/ right[left[t]] = Null /\ Crash
     \/ /\ right[left[t]] # Null
        /\ left' = [s.far EXCEPT ![t] = s.root] /\ right' = s.near /\ height' = s.height
        /\ tpc' = "leftRotate"
        /\ UNCHANGED <<val, root, path>>

(* Mutant: one rotation where the inner grandchild needs two.              *)
RightLeftOnce ==
  /\ tpc = "rightLeftRotate" /\ tpc' = "rightRotate"
  /\ UNCHANGED <<fields, root, path>>

RightLeftRotate ==
  LET t == Innermost
      s == Rotated(left, right, right[t])
  IN
  /\ tpc = "rightLeftRotate"
  /\ \/ left[right[t]] = Null /\ Crash
     \/ /\ left[right[t]] # Null
        /\ right' = [s.far EXCEPT ![t] = s.root] /\ left' = s.near /\ height' = s.height
        /\ tpc' = "rightRotate"
        /\ UNCHANGED <<val, root, path>>

Rotate ==
  /\ LeftRotate \/ RightRotate \/ LeftRightRotate \/ RightLeftRotate
  /\ UNCHANGED <<call, arg, at, queue>>

-----------------------------------------------------------------------------
(* Searches                                                                *)

Find(search, target) ==
  /\ tpc = "idle"
  /\ call' = search /\ tpc' = "look" /\ arg' = target /\ at' = root
  /\ queue' = IF search = "BFS" /\ root # Null THEN <<root>> ELSE <<>>
  /\ UNCHANGED <<fields, root, path>>

SearchAVL ==
  /\ call = "searchAVL" /\ UNCHANGED <<path, queue>>
  /\ \/ (at # Null => val[at] = arg) /\ tpc' = "done" /\ UNCHANGED at
     \/ /\ at # Null /\ val[at] # arg
        /\ at' = IF arg < val[at] THEN left[at] ELSE right[at]
        /\ UNCHANGED tpc

Child(t) == IF t = Null THEN <<>> ELSE <<t>>

TreeBFS ==
  /\ call = "BFS" /\ UNCHANGED path
  /\ \/ queue = <<>> /\ at' = Null /\ tpc' = "done" /\ UNCHANGED queue
     \/ /\ queue # <<>>
        /\ at' = Head(queue)
        /\ \/ val[at'] = arg /\ tpc' = "done" /\ queue' = Tail(queue)
           \/ /\ val[at'] # arg /\ UNCHANGED tpc
              /\ queue' = Tail(queue) \o Child(left[at']) \o Child(right[at'])

(* What DFS returns for the right child its caller returns as well, so     *)
(* only the calls that search on the left are kept.                        *)
TreeDFS ==
  /\ call = "DFS" /\ UNCHANGED queue
  /\ \/ at # Null /\ val[at] = arg /\ tpc' = "done" /\ UNCHANGED <<at, path>>
     \/ /\ at # Null /\ val[at] # arg
        /\ at' = left[at] /\ path' = Append(path, at) /\ UNCHANGED tpc
     \/ /\ at = Null /\ path # <<>>
        /\ at' = right[Innermost] /\ path' = SubSeq(path, 1, Len(path) - 1)
        /\ UNCHANGED tpc
     \/ at = Null /\ path = <<>> /\ tpc' = "done" /\ UNCHANGED <<at, path>>

LookAt ==
  /\ tpc = "look" /\ (SearchAVL \/ TreeBFS \/ TreeDFS)
  /\ UNCHANGED <<fields, root, call, arg>>

-----------------------------------------------------------------------------
TreeKeys == UNION {{s[p] : p \in DOMAIN s} : s \in KeySeqs}

TreeStep == Enter \/ Allocate \/ Leave \/ Rotate \/ LookAt

TreeNext ==
  \/ \E key \in TreeKeys : InsertAVL(key)
  \/ \E search \in Searches, target \in TreeKeys : Find(search, target)
  \/ TreeStep

TreeSpec == TreeInit /\ [][TreeNext]_treevars

-----------------------------------------------------------------------------
(* The nodes of the subtree with root t, and its height.                   *)
Under[t \in 0..Len(val)] ==
  IF t = Null THEN {} ELSE {t} \union Under[left[t]] \union Under[right[t]]

TrueHeight[t \in 0..Len(val)] ==
  IF t = Null THEN 0 ELSE Larger(TrueHeight[left[t]], TrueHeight[right[t]]) + 1

Ancestors(u) == {t \in TreeNodes : u \in Under[t]}

(* Of two nodes, which comes first from left to right, by level and then   *)
(* from left to right, and in preorder.                                    *)
LeftOf(u, v) ==
  \E t \in TreeNodes : u \in {t} \union Under[left[t]] /\ v \in {t} \union Under[right[t]]

Above(u, v) ==
  LET m == Cardinality(Ancestors(u))
      n == Cardinality(Ancestors(v))
  IN  m < n \/ (m = n /\ LeftOf(u, v))

Sooner(u, v) == v \in Under[u] \/ (u \notin Under[v] /\ LeftOf(u, v))

DistinctKeys == \A m, n \in TreeNodes : val[m] = val[n] => m = n

(* Between two calls the nodes make one tree, in order, that holds all     *)
(* that were inserted once and knows its heights; while no key was         *)
(* inserted twice it is balanced everywhere, and no rotation follows a     *)
(* null child.                                                             *)
TreeKept ==
  /\ tpc = "crashed" => ~DistinctKeys
  /\ tpc = "idle" =>
       /\ Under[root] = TreeNodes
       /\ \A t \in TreeNodes :
            /\ t \notin Under[left[t]] \union Under[right[t]]
            /\ Under[left[t]] \intersect Under[right[t]] = {}
            /\ \A u \in Under[left[t]] : val[u] <= val[t]
            /\ \A u \in Under[right[t]] : val[t] <= val[u]
            /\ height[t] = TrueHeight[t]
            /\ DistinctKeys => GetBalanceFactor(t) \in -1..1

(* A search finds a node with the key when there is one: breadth-first the *)
(* first by level, depth-first the first in preorder.                      *)
NodeFound ==
  LET matches == {u \in TreeNodes : val[u] = arg} IN
  tpc = "done" =>
    IF at = Null THEN matches = {}
    ELSE /\ at \in matches
         /\ \A u \in matches \ {at} :
              /\ call = "BFS" => Above(at, u)
              /\ call = "DFS" => Sooner(at, u)

TreesSound == TreeKept /\ NodeFound

(* A call is under way.                                                    *)
TreeBusy == tpc \notin {"idle", "done", "crashed"}
=============================================================================

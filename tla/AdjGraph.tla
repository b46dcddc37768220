------------------------------ MODULE AdjGraph ------------------------------
(***************************************************************************)
(* Graph (test_libgo/algorithm_search/Graph.cpp): an adjacency matrix,     *)
(* directed or not, and its two traversals, one step for each turn of a    *)
(* loop.  A caller builds a graph and has it traversed.  Nodes are counted *)
(* from 0, positions in a sequence from 1.                                 *)
(***************************************************************************)
EXTENDS Integers, Sequences

CONSTANTS
  Inf,        \* the weight where no edge is
  MaxNodes    \* bound: nodes of a graph

ASSUME GraphAssumption == MaxNodes \in Nat \ {0}

VARIABLES
  nodeCount, isDirected, adjMatrix,
  traversal,  \* "none", "BFS" or "DFS"
  gpc,        \* its place: "edit", "take" and "look" (the two loops) or "done"
  start,
  waiting,    \* the queue, or the stack from its top down
  visited,    \* the nodes marked
  found,      \* order: the nodes in the order they were visited
  next        \* the inner loop's index

gvars == <<nodeCount, isDirected, adjMatrix, traversal, gpc, start, waiting, visited, found, next>>
matrix == <<nodeCount, isDirected, adjMatrix>>

Nodes == 0..(nodeCount - 1)
Adjacent(u) == {v \in Nodes : adjMatrix[u][v] # Inf}
Visited(s) == {s[p] : p \in DOMAIN s}

-----------------------------------------------------------------------------
(* The caller.                                                             *)

GraphInit ==
  /\ isDirected \in BOOLEAN
  /\ nodeCount = 1 /\ adjMatrix = [u \in {0} |-> [v \in {0} |-> 0]]
  /\ traversal = "none" /\ gpc = "edit" /\ start = 0
  /\ waiting = <<>> /\ visited = {} /\ found = <<>> /\ next = 0

AddNode ==
  /\ gpc = "edit" /\ nodeCount < MaxNodes
  /\ nodeCount' = nodeCount + 1
  /\ adjMatrix' = [u \in 0..nodeCount |-> [v \in 0..nodeCount |->
       IF u \in Nodes /\ v \in Nodes THEN adjMatrix[u][v] ELSE IF u = v THEN 0 ELSE Inf]]
  /\ UNCHANGED <<isDirected, traversal, gpc, start, waiting, visited, found, next>>

(* addEdge, and removeEdge with the weight Inf.                            *)
SetEdge(u, v, weight) ==
  /\ gpc = "edit"
  /\ LET once == [adjMatrix EXCEPT ![u][v] = weight]
     IN  adjMatrix' = IF isDirected THEN once ELSE [once EXCEPT ![v][u] = weight]
  /\ UNCHANGED <<nodeCount, isDirected, traversal, gpc, start, waiting, visited, found, next>>

Traverse ==
  /\ gpc = "edit"
  /\ traversal' \in {"BFS", "DFS"} /\ gpc' = "take"
  /\ start' \in Nodes /\ waiting' = <<start'>>
  /\ visited' = IF traversal' = "BFS" THEN {start'} ELSE {}
  /\ UNCHANGED <<matrix, found, next>>

-----------------------------------------------------------------------------
(* A turn of the outer loop.  Breadth-first search has marked the node,    *)
(* depth-first search marks it now, and looks at its edges from the last   *)
(* to the first.                                                           *)
Take ==
  /\ gpc = "take"
  /\ \/ /\ waiting = <<>> /\ gpc' = "done"
        /\ UNCHANGED <<waiting, visited, found, next>>
     \/ /\ waiting # <<>> /\ traversal = "DFS" /\ Head(waiting) \in visited
        /\ waiting' = Tail(waiting)
        /\ UNCHANGED <<gpc, visited, found, next>>
     \/ /\ waiting # <<>> /\ (traversal = "DFS" => Head(waiting) \notin visited)
        /\ waiting' = Tail(waiting)
        /\ found' = Append(found, Head(waiting))
        /\ visited' = visited \union {Head(waiting)}
        /\ next' = IF traversal = "BFS" THEN 0 ELSE nodeCount - 1
        /\ gpc' = "look"

(* Mutant: depth-first search marks a node when it enters the stack.       *)
MarkedEarly(v) == visited \union {v}

(* What is marked when v starts to wait.                                   *)
Marked(v) == IF traversal = "BFS" THEN visited \union {v} ELSE visited

Look ==
  /\ gpc = "look"
  /\ IF next \in Nodes
     THEN /\ next' = IF traversal = "BFS" THEN next + 1 ELSE next - 1
          /\ IF next \in Adjacent(found[Len(found)]) \ visited
             THEN /\ waiting' = IF traversal = "BFS" THEN Append(waiting, next)
                                ELSE <<next>> \o waiting
                  /\ visited' = Marked(next)
             ELSE UNCHANGED <<waiting, visited>>
          /\ UNCHANGED gpc
     ELSE gpc' = "take" /\ UNCHANGED <<waiting, visited, next>>
  /\ UNCHANGED found

TraversalStep == (Take \/ Look) /\ UNCHANGED <<matrix, traversal, start>>

GraphNext ==
  \/ AddNode
  \/ \E u \in Nodes : \E v \in Nodes \ {u} : \E weight \in {1, Inf} : SetEdge(u, v, weight)
  \/ Traverse
  \/ TraversalStep

GraphSpec == GraphInit /\ [][GraphNext]_gvars

-----------------------------------------------------------------------------
Before(s, q) == {s[p] : p \in 1..(q - 1)}

(* The q-th node of s is the smallest unvisited one next to the o-th,      *)
(* and the nodes that come before the o-th, for the search that is under   *)
(* way, have no unvisited one next to them.                                *)
ComesFrom(s, q, o) ==
  /\ s[q] \in Adjacent(s[o]) \ Before(s, q)
  /\ \A v \in Adjacent(s[o]) \ Before(s, q) : s[q] <= v
  /\ \A p \in 1..(q - 1) :
       (IF traversal = "BFS" THEN p < o ELSE p > o) => Adjacent(s[p]) \subseteq Before(s, q)

(* A traversal visits each node that can be reached once.  From the start  *)
(* on, the next node is the smallest unvisited one next to the node        *)
(* visited first, of all that have one (breadth-first), or visited last    *)
(* (depth-first, as the recursive search does, stack or not).              *)
TraversalsSound ==
  gpc = "done" =>
    /\ found # <<>> /\ found[1] = start
    /\ \A q \in DOMAIN found : q > 1 => \E o \in 1..(q - 1) : ComesFrom(found, q, o)
    /\ \A u \in Visited(found) : Adjacent(u) \subseteq Visited(found)

(* A traversal is under way.                                               *)
TraversalBusy == gpc \in {"take", "look"}
=============================================================================

----------------------------- MODULE Exercises ------------------------------
(***************************************************************************)
(* The stand-alone programs of test_libgo.  They share no state: a         *)
(* behaviour runs one of them, and feeds it every sequence of calls up to  *)
(* the bounds.                                                             *)
(***************************************************************************)
EXTENDS ConnectionPool, Sorting, AvlTree, AdjGraph, MonotonicStack

VARIABLE program    \* which program this is

Programs == {"pool", "sort", "tree", "graph", "stack"}

XInit ==
  /\ program \in Programs
  /\ PInit /\ SortInit /\ TreeInit
  /\ GraphInit /\ (program # "graph" => isDirected)
  /\ StackInit /\ (program # "stack" => order = "less")

Run(p) == program = p /\ UNCHANGED program

-----------------------------------------------------------------------------
PoolStep == Run("pool") /\ PNext /\ UNCHANGED <<sortvars, treevars, gvars, svars>>

SortProgram(step) == Run("sort") /\ step /\ UNCHANGED <<pvars, treevars, gvars, svars>>

TreeProgram(step) == Run("tree") /\ step /\ UNCHANGED <<pvars, sortvars, gvars, svars>>

GraphProgram(step) == Run("graph") /\ step /\ UNCHANGED <<pvars, sortvars, treevars, svars>>

StackStep == Run("stack") /\ StackNext /\ UNCHANGED <<pvars, sortvars, treevars, gvars>>

XNext ==
  \/ PoolStep
  \/ SortProgram(SortNext)
  \/ TreeProgram(TreeNext)
  \/ GraphProgram(GraphNext)
  \/ StackStep

allvars == <<pvars, sortvars, program, treevars, gvars, svars>>

XSpec == XInit /\ [][XNext]_allvars

(* A function that was called goes on.                                     *)
XFairSpec ==
  /\ XSpec
  /\ WF_allvars(SortProgram(SortStep)) /\ WF_allvars(TreeProgram(TreeStep))
  /\ WF_allvars(GraphProgram(TraversalStep))

-----------------------------------------------------------------------------
(* Every call ends, whatever the array, the tree or the graph: no scan     *)
(* runs past the other, every recursive call has a smaller range, a search *)
(* narrows its range in each turn, a cycle is not followed for ever.       *)
ProgramsEnd ==
  LET busy == SortBusy \/ TreeBusy \/ TraversalBusy
  IN  busy ~> ~busy
=============================================================================

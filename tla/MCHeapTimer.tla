---------------------------- MODULE MCHeapTimer ----------------------------
(* Instances of HeapTimer for TLC.                                         *)
EXTENDS HeapTimer, TLC

(* Fds are interchangeable.                                                *)
TimerSymmetry == Permutations(Ids)
=============================================================================

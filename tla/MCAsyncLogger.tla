--------------------------- MODULE MCAsyncLogger ---------------------------
(* Instances of AsyncLogger for TLC.                                       *)
EXTENDS AsyncLogger, TLC

(* The callers and the lines are interchangeable.                          *)
LoggerSymmetry == Permutations(Callers) \union Permutations(Values)
=============================================================================

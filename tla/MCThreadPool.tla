---------------------------- MODULE MCThreadPool ----------------------------
(* Instances of ThreadPool for TLC.                                        *)
EXTENDS ThreadPool, TLC

(* Workers are interchangeable, and so are clients and submitted tasks.    *)
PoolSymmetry ==
  Permutations(Workers) \union Permutations(Clients)
    \union Permutations(Tasks \ Posted)
=============================================================================

----------------------------- MODULE MCReactor -----------------------------
(* Instances of Reactor for TLC.                                           *)
EXTENDS Reactor, TLC

(* Workers and connections are interchangeable.                            *)
ReactorSymmetry == Permutations(Workers) \union Permutations(Conns)
(* What the safety run tells states apart by: not by the histories hit and *)
(* threw, nor by what the client of a closed connection did last.  No      *)
(* guard reads these, and of the invariants there only the types.          *)
WhatMatters ==
  <<open, epoll, [c \in Conns |-> IF c \in Connected \/ peer[c] \in {"new", "connecting"}
                                  THEN peer[c] ELSE "over"],
    table, fdOf, outbuf, timers, due, batch, queue,
    pc, job, conn, closing, ret, phase, aborted, stale>>
=============================================================================

---------------------------- MODULE MCExercises -----------------------------
(* Instances of Exercises for TLC.                                         *)
EXTENDS Exercises

MCValues == 1..6
MCItems == 1..4

(* Six keys in every order, two keys five times, and with equal keys seven *)
(* calls of which the last makes leftRightRotate follow a null pointer.    *)
MCKeySeqs ==
  {s \in UNION {[1..n -> 1..6] : n \in 1..6} :
     \/ \A p, q \in DOMAIN s : s[p] = s[q] => p = q
     \/ Len(s) < 6 /\ \A p \in DOMAIN s : s[p] < 3}
  \union {SubSeq(<<3, 1, 1, 1, 1, 2, 2>>, 1, n) : n \in 1..7}
=============================================================================

---------------------------- MODULE MCTaskLists ----------------------------
(* TLC instance of TaskLists, and of CallFlow in it, for the run that      *)
(* checks liveness: no symmetry.                                           *)
EXTENDS TaskLists

CONSTANTS t1, t2, p1, c1, c2, q1

=============================================================================

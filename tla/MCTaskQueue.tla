---------------------------- MODULE MCTaskQueue ----------------------------
(* TLC instances of TaskQueue.                                             *)
EXTENDS TaskQueue, TLC

(* Tasks are interchangeable, and so are pollers.  Not for the runs that   *)
(* check liveness.                                                         *)
Symmetry == Permutations(Task) \cup Permutations(Poller)

=============================================================================

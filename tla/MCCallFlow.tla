----------------------------- MODULE MCCallFlow -----------------------------
(* TLC instances of CallFlow.                                              *)
EXTENDS CallFlow, TLC

(* Tasks, coroutines, requests and pollers are interchangeable.  Not for   *)
(* the runs that check liveness.                                           *)
Symmetry == Permutations(Task) \cup Permutations(Coroutine)
            \cup Permutations(Req) \cup Permutations(Poller)

=============================================================================

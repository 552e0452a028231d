---------------------------- MODULE RuntimeLife ----------------------------
(***************************************************************************)
(* The life of one runtime, as ngx.load_ffi() and unload() see it: a task  *)
(* queue and the thread that polls it.  The queue is finished by unload()  *)
(* only, it is freed by the thread, when the thread takes the finish task, *)
(* and from then on the thread does not come back to it.  LoadFfi builds   *)
(* on this for each load; TaskQueue does it, when there is one poller and  *)
(* no pthread call fails.                                                  *)
(***************************************************************************)
VARIABLES
  tq,      \* "none", "live" or, with the finish task in it, "finishing"
  thread   \* "none", "polling" or, after the NULL, "exiting"

(* load_ffi starts a runtime, or fails after it has made the queue.        *)
Start == /\ tq = "none" /\ thread = "none"
         /\ tq' = "live" /\ thread' \in {"polling", "none"}

Unload == /\ tq = "live" /\ thread = "polling"
          /\ tq' = "finishing" /\ UNCHANGED thread

(* task_poll takes the finish task, frees the queue and returns NULL.      *)
PollNull == /\ tq = "finishing" /\ thread = "polling"
            /\ tq' = "none" /\ thread' = "exiting"

ThreadExit == /\ thread = "exiting"
              /\ thread' = "none" /\ UNCHANGED tq

Step == [Start \/ Unload \/ PollNull \/ ThreadExit]_<<tq, thread>>

(* What happens between the two: the queue is used and comes to its end.   *)
Served == /\ tq = "live" /\ thread = "polling"
          /\ [][Unload \/ PollNull]_<<tq, thread>>

=============================================================================

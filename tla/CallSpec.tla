------------------------------ MODULE CallSpec ------------------------------
(***************************************************************************)
(* What runtime:call(req) promises to the Lua code, without queues, tasks  *)
(* and threads: a call either fails at once or suspends its coroutine,     *)
(* which is resumed once, with the answer to its own request; after        *)
(* __unload() no request is accepted, and those that were are answered.    *)
(***************************************************************************)
CONSTANTS Coroutine, Req, None

VARIABLES
  open,    \* __unload() was not called
  co,      \* co[c]: "dead", "run" or "yield"
  asked,   \* asked[c]: the request of c's last call that was accepted
  result   \* result[c]: what c's last call returned

vars == <<open, co, asked, result>>

Result == [ok : BOOLEAN, rsp : Req \cup {None}]

(* The two `return false, "..."' of post().                                *)
Failure == [ok |-> FALSE, rsp |-> None]

Init ==
  /\ open = TRUE
  /\ co = [c \in Coroutine |-> "dead"]
  /\ asked = [c \in Coroutine |-> None]
  /\ result = [c \in Coroutine |-> None]

(* State of c alone changes.                                               *)
Become(c, s, q, res) ==
  /\ co' = [co EXCEPT ![c] = s]
  /\ asked' = [asked EXCEPT ![c] = q]
  /\ result' = [result EXCEPT ![c] = res]

Start(c) == co[c] = "dead" /\ Become(c, "run", None, None) /\ UNCHANGED open

Send(c, q) ==
  /\ open
  /\ co[c] = "run"
  /\ Become(c, "yield", q, None)
  /\ UNCHANGED open

Fail(c) == co[c] = "run" /\ Become(c, "run", None, Failure) /\ UNCHANGED open

Deliver(c, ok) ==
  /\ co[c] = "yield"
  /\ Become(c, "run", asked[c], [ok |-> ok, rsp |-> asked[c]])
  /\ UNCHANGED open

End(c) == co[c] # "dead" /\ Become(c, "dead", None, None) /\ UNCHANGED open

Close == open /\ open' = FALSE /\ UNCHANGED <<co, asked, result>>

Next ==
  \/ Close
  \/ \E c \in Coroutine :
       \/ Start(c) \/ Fail(c) \/ End(c)
       \/ \E q \in Req : Send(c, q)
       \/ \E ok \in BOOLEAN : Deliver(c, ok)

Spec == Init /\ [][Next]_vars

(* A call that suspended its coroutine returns, unless the coroutine ends. *)
FairSpec ==
  Spec /\ \A c \in Coroutine : WF_vars(\E ok \in BOOLEAN : Deliver(c, ok))

=============================================================================

----------------------------- MODULE TaskLists -----------------------------
(***************************************************************************)
(* The linked lists of CallFlow with their pointers.  A task has one field *)
(* `next'; it links the task first into the list of the queue, then into   *)
(* ngx_thread_pool_done, then into the list the event loop goes through.   *)
(* The lists are appended to through `last', which points to the field to  *)
(* be written next.  Two threads may write the fields of different tasks   *)
(* at the same time: the mutex and the spinlock protect a list each.       *)
(*                                                                         *)
(* Each step of CallFlow is joined with what the code does to the pointers.*)
(***************************************************************************)
EXTENDS CallFlow

ASSUME FinNotNull == Fin # None

VARIABLES
  next,      \* next[t]: task->next, None when the address is free
  tpList,    \* tp->queue
  doneList,  \* ngx_thread_pool_done
  cursor     \* `task' in ngx_thread_pool_handler

listVars == <<next, tpList, doneList, cursor>>

Node == Task \cup {Fin}

(* last is the task whose field `next' it points to, or None for the field *)
(* `first' of the list itself.                                             *)
List == [first : Node \cup {None}, last : Node \cup {None}]

(* ngx_task_queue_init                                                     *)
EmptyList == [first |-> None, last |-> None]

ListInit ==
  /\ FlowInit
  /\ next = [t \in Node |-> None]
  /\ tpList = EmptyList /\ doneList = EmptyList
  /\ cursor = None

-----------------------------------------------------------------------------

NextAfterLink_NotCleared(l, t) ==
  IF l.last = None THEN next ELSE [next EXCEPT ![l.last] = t]

(* task->next = NULL; then *last = task, when last points into a task.     *)
NextAfterLink(l, t) ==
  LET cleared == [next EXCEPT ![t] = None]
  IN IF l.last = None THEN cleared ELSE [cleared EXCEPT ![l.last] = t]

(* *last = task, when last points to first; then last = &task->next.       *)
Link(l, t) == [first |-> IF l.last = None THEN t ELSE l.first, last |-> t]

Unlink_LastKept(l) == [first |-> next[l.first], last |-> l.last]

(* first = task->next; an empty list gets its `last' back.                 *)
Unlink(l) ==
  LET rest == next[l.first]
  IN [first |-> rest, last |-> IF rest = None THEN None ELSE l.last]

-----------------------------------------------------------------------------

(* ngx_task_post, of a task or of the finish task, if it does post.        *)
LinkTask(t) ==
  IF queue' = queue
  THEN UNCHANGED <<next, tpList>>
  ELSE next' = NextAfterLink(tpList, t) /\ tpList' = Link(tpList, t)

ListCall(c, t, q) == Call(c, t, q) /\ LinkTask(t) /\ UNCHANGED <<doneList, cursor>>

ListUnload(c) == Unload(c) /\ LinkTask(Fin) /\ UNCHANGED <<doneList, cursor>>

(* ngx_http_lua_ffi_task_poll.  The field `next' of the task that is taken *)
(* keeps its value.                                                        *)
ListPoll(p) ==
  /\ PollTask(p)
  /\ tpList' = IF queue' = queue THEN tpList ELSE Unlink(tpList)
  /\ UNCHANGED <<next, doneList, cursor>>

(* ngx_thread_pool_notify_inject                                           *)
ListRespond(t, ok) ==
  /\ RespondTask(t, ok)
  /\ next' = NextAfterLink(doneList, t)
  /\ doneList' = Link(doneList, t)
  /\ UNCHANGED <<tpList, cursor>>

(* ngx_thread_pool_handler takes the list and leaves an empty one.         *)
ListTake ==
  /\ ThreadPoolHandler
  /\ cursor' = doneList.first
  /\ doneList' = EmptyList
  /\ UNCHANGED <<next, tpList>>

(* One round of its loop: the next task is read before the handler of this *)
(* one, which frees it, is called.                                         *)
ListHandle ==
  /\ DropTask \/ Resume
  /\ cursor' = next[cursor]
  /\ next' = [next EXCEPT ![cursor] = None]
  /\ UNCHANGED <<tpList, doneList>>

(* The other steps touch no list.                                          *)
ListIdle(c) ==
  /\ \/ \E t \in Task : CallRefused(c, t)
     \/ CallAfterUnload(c)
     \/ Abort(c) \/ OtherOperation(c) \/ Exit(c) \/ Start(c)
  /\ UNCHANGED listVars

ListNext ==
  \/ \E c \in Coroutine, t \in Task, q \in Req : ListCall(c, t, q)
  \/ \E c \in Coroutine : ListUnload(c) \/ ListIdle(c)
  \/ \E p \in Poller : ListPoll(p)
  \/ \E t \in Task, ok \in BOOLEAN : ListRespond(t, ok)
  \/ Notify /\ UNCHANGED listVars
  \/ ListTake \/ ListHandle

ListSpec == ListInit /\ [][ListNext]_<<flowVars, listVars>>

ListFairSpec == ListSpec /\ FlowFairness

-----------------------------------------------------------------------------

(* Following `next' from f one finds the tasks of s, in order, and then    *)
(* NULL.                                                                   *)
Chain(s, f) ==
  IF s = <<>> THEN f = None
  ELSE /\ f = s[1]
       /\ \A i \in 1 .. Len(s) - 1 : next[s[i]] = s[i + 1]
       /\ next[s[Len(s)]] = None

(* And `last' points to the last of these NULLs.                           *)
Spells(l, s) ==
  /\ Chain(s, l.first)
  /\ l.last = IF s = <<>> THEN None ELSE s[Len(s)]

(* The pointers are those of three lists that have no task in common, each *)
(* complete, in order and terminated, and nothing is appended to a task    *)
(* that was taken from its list: `last' is reset by the poller that takes  *)
(* the last task, and `next' by the thread that links the task again.      *)
ListsSpell ==
  Spells(tpList, queue) /\ Spells(doneList, done) /\ Chain(batch, cursor)

=============================================================================

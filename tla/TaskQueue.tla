----------------------------- MODULE TaskQueue -----------------------------
(***************************************************************************)
(* The task queue of one runtime (ffi_task_queue_t): a linked list under a *)
(* mutex, a condition variable and the counter `waiting'.  The nginx       *)
(* worker posts tasks; the runtime's threads poll them.                    *)
(*                                                                         *)
(* Every critical section runs to its unlock without blocking except at    *)
(* ngx_thread_cond_wait, so a section is one action, cut at the wait and   *)
(* at the unlock that precedes the deallocation of the queue.              *)
(*                                                                         *)
(* A post that is refused leaves the queue as it was; it is an action of   *)
(* CallFlow, which also has the task objects.                              *)
(***************************************************************************)
EXTENDS Integers, Sequences, FiniteSets, Functions

CONSTANTS
  Task,          \* the addresses of tasks that carry a request (ctx # NULL)
  Fin,           \* the special finish task (ctx = NULL)
  Poller,        \* the threads of the runtime that call task_poll
  MaxQueue,      \* tp->max_queue
  PthreadFails   \* whether a pthread call may return an error

ASSUME FinAssumption == Fin \notin Task
ASSUME PollerAssumption == IsFiniteSet(Poller)
ASSUME MaxQueueAssumption == MaxQueue \in Nat
ASSUME PthreadAssumption == PthreadFails \in BOOLEAN

VARIABLES
  queue,     \* tp->queue, from first to last
  waiting,   \* tp->waiting
  alive,     \* tp is allocated, its mutex and condition variable are valid
  finished,  \* the Lua object's flag: unload() was called
  pc,        \* pc[p]: where thread p is in ngx_http_lua_ffi_task_poll
  taken      \* the tasks task_poll returned that have no response yet

vars == <<queue, waiting, alive, finished, pc, taken>>

(***************************************************************************)
(* "idle"   outside task_poll, about to call it again                      *)
(* "sleep"  in ngx_thread_cond_wait                                        *)
(* "woken"  signalled (or woken spuriously), about to take the mutex       *)
(* "null"   unlocked, holds the finish task and is about to free the queue *)
(* "done"   task_poll returned NULL: the thread calls nothing any more     *)
(***************************************************************************)
PC == {"idle", "sleep", "woken", "null", "done"}

At(l) == {p \in Poller : pc[p] = l}
Blocked == At("sleep") \cup At("woken")
Gone == At("done")

Goto(p, l) == pc' = [pc EXCEPT ![p] = l]

Init ==
  /\ queue = <<>>
  /\ waiting = 0
  /\ alive = TRUE
  /\ finished = FALSE
  /\ pc = [p \in Poller |-> "idle"]
  /\ taken = {}

-----------------------------------------------------------------------------
(* Posting, by the nginx worker.                                           *)

NoSignal == UNCHANGED pc

(* ngx_thread_cond_signal: one sleeper, if there is one, becomes runnable. *)
Signal ==
  \/ At("sleep") = {} /\ UNCHANGED pc
  \/ \E p \in At("sleep") : Goto(p, "woken")

Full_OffByOne == waiting > MaxQueue

(* The overflow test of ngx_task_post, made for tasks with a ctx only.     *)
Full == waiting >= MaxQueue

Enqueue_AtHead(t) ==
  /\ Signal
  /\ queue' = <<t>> \o queue
  /\ waiting' = waiting + 1

(* The part of ngx_task_post that links the task into the list.            *)
Enqueue(t) ==
  /\ Signal
  /\ queue' = Append(queue, t)
  /\ waiting' = waiting + 1

Fresh(t) == t \in Task /\ t \notin Range(queue) /\ t \notin taken

(* A request that is accepted: post() of the Lua object, then              *)
(* ngx_http_lua_ffi_task_post and ngx_task_post.  The task comes from      *)
(* calloc, so its event.active is 0 and the first test of ngx_task_post    *)
(* never fires.                                                            *)
Post(t) ==
  /\ ~finished
  /\ Fresh(t)
  /\ ~Full
  /\ Enqueue(t)
  /\ UNCHANGED <<alive, finished, taken>>

Finish_FlagLost ==
  /\ ~finished
  /\ Enqueue(Fin)
  /\ UNCHANGED <<alive, finished, taken>>

Finish_Twice ==
  /\ finished' = TRUE
  /\ alive
  /\ Enqueue(Fin)
  /\ UNCHANGED <<alive, taken>>

(* unload() of the Lua object and ngx_http_lua_ffi_task_finish.  The       *)
(* result of task_finish is not looked at: if it fails, the finish task is *)
(* freed and the object is finished all the same.                          *)
Finish ==
  /\ ~finished
  /\ finished' = TRUE
  /\ \/ Enqueue(Fin)
     \/ PthreadFails /\ UNCHANGED <<queue, waiting, pc>>
  /\ UNCHANGED <<alive, taken>>

-----------------------------------------------------------------------------
(* ngx_http_lua_ffi_task_poll, by a thread of the runtime.                 *)

Dequeue_NoCtxTest(p) ==
  /\ queue # <<>>
  /\ taken' = taken \cup {Head(queue)}
  /\ Goto(p, "idle")
  /\ queue' = Tail(queue)

(* The head is unlinked and the mutex released; a task with a ctx is       *)
(* returned, the finish task leads on to the deallocation.                 *)
Dequeue(p) ==
  /\ queue # <<>>
  /\ queue' = Tail(queue)
  /\ IF Head(queue) = Fin
     THEN Goto(p, "null") /\ UNCHANGED taken
     ELSE Goto(p, "idle") /\ taken' = taken \cup {Head(queue)}

(* ngx_thread_cond_wait: gives the mutex up and sleeps.                    *)
Wait(p) ==
  /\ queue = <<>>
  /\ Goto(p, "sleep")
  /\ UNCHANGED <<queue, taken>>

(* The call, up to its wait or its return.                                 *)
PollEnter(p) ==
  /\ alive
  /\ pc[p] = "idle"
  /\ waiting' = waiting - 1
  /\ Dequeue(p) \/ Wait(p)
  /\ UNCHANGED <<alive, finished>>

PollWake_CountAgain(p) ==
  /\ alive
  /\ pc[p] = "woken"
  /\ waiting' = waiting - 1
  /\ Dequeue(p) \/ Wait(p)
  /\ UNCHANGED <<alive, finished>>

(* Back from the wait with the mutex: the while loop tests the list again. *)
PollWake(p) ==
  /\ alive
  /\ pc[p] = "woken"
  /\ Dequeue(p) \/ Wait(p)
  /\ UNCHANGED <<waiting, alive, finished>>

(* pthread_cond_wait may return without a signal.                          *)
SpuriousWakeup(p) ==
  /\ alive
  /\ pc[p] = "sleep"
  /\ Goto(p, "woken")
  /\ UNCHANGED <<queue, waiting, alive, finished, taken>>

FreeQueue_Retry(p) ==
  /\ pc[p] = "null"
  /\ alive' = FALSE
  /\ Goto(p, "idle")
  /\ UNCHANGED <<queue, waiting, finished, taken>>

(* The finish task and the queue are freed, NULL is returned.              *)
FreeQueue(p) ==
  /\ pc[p] = "null"
  /\ alive' = FALSE
  /\ Goto(p, "done")
  /\ UNCHANGED <<queue, waiting, finished, taken>>

(* ngx_thread_mutex_lock fails: NULL is returned at once.                  *)
LockFails(p) ==
  /\ PthreadFails
  /\ alive
  /\ pc[p] = "idle"
  /\ Goto(p, "done")
  /\ UNCHANGED <<queue, waiting, alive, finished, taken>>

(* ngx_thread_cond_wait fails: NULL is returned, waiting stays decremented.*)
WaitFails(p) ==
  /\ PthreadFails
  /\ alive
  /\ p \in Blocked
  /\ Goto(p, "done")
  /\ UNCHANGED <<queue, waiting, alive, finished, taken>>

(* ngx_thread_mutex_unlock fails: the unlinked task, whichever it is, is   *)
(* dropped and NULL is returned.                                           *)
UnlockFails(p) ==
  /\ PthreadFails
  /\ alive
  /\ queue # <<>>
  /\ \/ pc[p] = "idle" /\ waiting' = waiting - 1
     \/ pc[p] = "woken" /\ UNCHANGED waiting
  /\ queue' = Tail(queue)
  /\ Goto(p, "done")
  /\ UNCHANGED <<alive, finished, taken>>

(* ngx_http_lua_ffi_respond hands the task back to the nginx worker.       *)
Respond(t) ==
  /\ t \in taken
  /\ taken' = taken \ {t}
  /\ UNCHANGED <<queue, waiting, alive, finished, pc>>

-----------------------------------------------------------------------------

Poll(p) ==
  \/ PollEnter(p) \/ PollWake(p) \/ FreeQueue(p)
  \/ SpuriousWakeup(p)
  \/ LockFails(p) \/ WaitFails(p) \/ UnlockFails(p)

Next ==
  \/ \E t \in Task : Post(t) \/ Respond(t)
  \/ Finish
  \/ \E p \in Poller : Poll(p)

Spec == Init /\ [][Next]_vars

(* The poll loops of the runtimes call task_poll again and again, and a    *)
(* thread that is runnable gets the mutex.  Nobody has to post or unload.  *)
Fairness == \A p \in Poller :
  WF_vars(PollEnter(p)) /\ WF_vars(PollWake(p)) /\ WF_vars(FreeQueue(p))

FairSpec == Spec /\ Fairness

-----------------------------------------------------------------------------
(* Correctness.                                                            *)

(* The state has its type: in particular the finish task never reaches the *)
(* runtime's code as a request (the `if (task->ctx)' of task_poll).        *)
TypeOK ==
  /\ queue \in Seq(Task \cup {Fin})
  /\ waiting \in Int
  /\ alive \in BOOLEAN
  /\ finished \in BOOLEAN
  /\ pc \in [Poller -> PC]
  /\ taken \subseteq Task

(* `waiting' is the number of linked tasks less the number of pollers that *)
(* have decremented it and not taken a task yet.  A poller that gave up on *)
(* an error may have decremented it for good, so the count only drifts     *)
(* down, and is exact while all pollers are there.                         *)
WaitingCount ==
  /\ waiting <= Len(queue) - Cardinality(Blocked)
  /\ waiting >= Len(queue) - Cardinality(Blocked \cup Gone)

(* The overflow test bounds the list: max_queue tasks and one more for     *)
(* each poller that is blocked or gave up.  The finish task, which is not  *)
(* subject to the test, may exceed the bound.                              *)
QueueBound ==
  Len(queue) <= MaxQueue + Cardinality(Blocked \cup Gone)
                         + (IF finished THEN 1 ELSE 0)

(* No wakeup is lost: while a poller sleeps, as many others as there are   *)
(* tasks are on their way to take them.  One signal per post is enough     *)
(* although a poller that arrives later may take the task first.  Only a   *)
(* poller that gives up on an error may take a wakeup with it.             *)
NoLostWakeup ==
  Gone = {} /\ At("sleep") # {} => Cardinality(At("woken")) >= Len(queue)

(* The finish task is posted behind every request, and nothing is posted   *)
(* behind it.                                                              *)
FinLast ==
  /\ Fin \in Range(queue) => finished
  /\ \A i \in DOMAIN queue : queue[i] = Fin => i = Len(queue)

(* The comment in ngx_http_lua_ffi_free_task_queue: when the finish task   *)
(* was taken no task is in the queue, and none will be.                    *)
DrainedBeforeFree ==
  ~alive \/ At("null") # {} => finished /\ queue = <<>>

(* At most one thread takes the finish task, and while it is on its way to *)
(* free the queue nobody else has freed it, however often unload() is      *)
(* called.                                                                 *)
FreedOnce ==
  /\ \A p, q \in At("null") : p = q
  /\ At("null") # {} => alive

(* Once the queue is freed no thread is in task_poll or about to call it:  *)
(* the next access to tp would be to freed memory.                         *)
NoPollerOnFreedQueue == ~alive => Gone = Poller

(* The queue and its poller as load_ffi sees them: see RuntimeLife.        *)
Life == INSTANCE RuntimeLife WITH
  tq <- IF ~alive THEN "none" ELSE IF finished THEN "finishing" ELSE "live",
  thread <- IF Gone = Poller THEN "exiting" ELSE "polling"

(* A runtime with one poll thread is served until it is unloaded, and      *)
(* freeing the queue and ending the thread are one step for everybody      *)
(* else: no thread goes on without its queue, and no queue is left without *)
(* its thread.                                                             *)
RefinesLife == Life!Served

(* Every task that is posted is polled.                                    *)
EveryTaskPolled == \A t \in Task : t \in Range(queue) ~> t \notin Range(queue)

(* unload() is followed by the end of the poll loop and the deallocation   *)
(* of the queue.                                                           *)
UnloadCompletes == finished ~> ~alive /\ Gone # {}

=============================================================================

------------------------------ MODULE CallFlow ------------------------------
(***************************************************************************)
(* A call from Lua to a runtime and back.  The nginx worker allocates a    *)
(* task, posts it and suspends the coroutine; a thread of the runtime      *)
(* polls the task, answers it, links it into ngx_thread_pool_done and      *)
(* notifies the event loop; the worker takes the list, resumes the         *)
(* coroutine and frees the task.  Meanwhile the coroutine may be killed,   *)
(* the runtime unloaded, and the address of a freed task used again.       *)
(***************************************************************************)
EXTENDS TaskQueue

CONSTANTS
  Coroutine,  \* the addresses of ngx_http_lua_co_ctx_t objects
  Req,        \* the contents of requests
  None        \* NULL or nil

VARIABLES
  ctx,         \* ctx[t]: the ffi_task_ctx_t at address t, None when free
  done,        \* ngx_thread_pool_done, from first to last
  unnotified,  \* a thread has linked a task and not called ngx_notify yet
  notified,    \* the event loop has to call ngx_thread_pool_handler
  batch,       \* the rest of the list ngx_thread_pool_handler goes through
  co,          \* co[c]: "dead", "run" or "yield"
  cleanup,     \* cleanup[c]: the task of c's pending cleanup handler
  asked,       \* asked[c], result[c]: what the last call of c sent
  result       \* and returned

doneVars == <<done, unnotified, notified, batch>>
luaVars == <<co, cleanup, asked, result>>
flowVars == <<vars, ctx, doneVars, luaVars>>

API == INSTANCE CallSpec WITH open <- ~finished

Ctx == [co : Coroutine, req : Req, rsp : API!Result \cup {None}, abort : BOOLEAN]

ASSUME NoneAssumption ==
  None \notin Task /\ None \notin Ctx /\ None \notin API!Result

Heap == {t \in Task : ctx[t] # None}

FlowInit ==
  /\ Init
  /\ ctx = [t \in Task |-> None]
  /\ done = <<>> /\ batch = <<>>
  /\ unnotified = FALSE /\ notified = FALSE
  /\ co = [c \in Coroutine |-> "dead"]
  /\ cleanup = [c \in Coroutine |-> None]
  /\ asked = [c \in Coroutine |-> None]
  /\ result = [c \in Coroutine |-> None]

-----------------------------------------------------------------------------
(* The nginx worker, running Lua code.                                     *)

(* The end of ngx_http_lua_ffi_create_task: killing c aborts task t.       *)
SetCleanup(c, t) == cleanup' = [cleanup EXCEPT ![c] = t]

Call_NoFinishedTest(c, t, q) ==
  /\ co[c] = "run"
  /\ alive
  /\ t \notin Heap
  /\ ~Full
  /\ Enqueue(t)
  /\ ctx' = [ctx EXCEPT ![t] =
               [co |-> c, req |-> q, rsp |-> None, abort |-> FALSE]]
  /\ SetCleanup(c, t)
  /\ API!Become(c, "yield", q, None)
  /\ UNCHANGED <<doneVars, alive, finished, taken>>

(* runtime:call(q) by c is accepted: the task is allocated at address t,   *)
(* linked, and the coroutine yields.                                       *)
Call(c, t, q) ==
  /\ co[c] = "run"
  /\ t \notin Heap
  /\ Post(t)
  /\ ctx' = [ctx EXCEPT ![t] =
               [co |-> c, req |-> q, rsp |-> None, abort |-> FALSE]]
  /\ SetCleanup(c, t)
  /\ API!Become(c, "yield", q, None)
  /\ UNCHANGED doneVars

(* runtime:call(q) by c is refused because ngx_task_post fails: the task   *)
(* is freed.  The cleanup handler that create_task installed stays.        *)
CallRefused(c, t) ==
  /\ co[c] = "run"
  /\ ~finished
  /\ t \notin Heap
  /\ Full \/ PthreadFails
  /\ SetCleanup(c, t)
  /\ API!Become(c, "run", None, API!Failure)
  /\ UNCHANGED <<vars, ctx, doneVars>>

(* "task queue is finished"                                                *)
CallAfterUnload(c) ==
  /\ co[c] = "run"
  /\ finished
  /\ API!Become(c, "run", None, API!Failure)
  /\ UNCHANGED <<vars, ctx, doneVars, cleanup>>

Unload(c) ==
  /\ co[c] = "run"
  /\ Finish
  /\ UNCHANGED <<ctx, doneVars, luaVars>>

RunCleanup_FreeTask(c) ==
  /\ ctx' = IF cleanup[c] \in Heap
            THEN [ctx EXCEPT ![cleanup[c]] = None]
            ELSE ctx
  /\ cleanup' = [cleanup EXCEPT ![c] = None]

(* The pending cleanup handler of c, ngx_http_lua_ffi_cleanup, is run: it  *)
(* writes is_abort at the address it was given, whatever is there now.     *)
RunCleanup(c) ==
  /\ ctx' = IF cleanup[c] \in Heap
            THEN [ctx EXCEPT ![cleanup[c]].abort = TRUE]
            ELSE ctx
  /\ cleanup' = [cleanup EXCEPT ![c] = None]

(* lua-nginx-module kills c, its request ends before it: the client went   *)
(* away, ngx.exit(), ngx.thread.kill().                                    *)
Abort(c) ==
  /\ co[c] # "dead"
  /\ RunCleanup(c)
  /\ API!Become(c, "dead", None, None)
  /\ UNCHANGED <<vars, doneVars>>

(* c calls another API of lua-nginx-module that yields (ngx.sleep, a       *)
(* cosocket): it runs the cleanup handler that is pending, if any.         *)
OtherOperation(c) ==
  /\ co[c] = "run"
  /\ cleanup[c] # None
  /\ RunCleanup(c)
  /\ UNCHANGED <<vars, doneVars, co, asked, result>>

(* c runs to its end, which runs no cleanup handler; its co_ctx is freed.  *)
Exit(c) ==
  /\ co[c] = "run"
  /\ SetCleanup(c, None)
  /\ API!Become(c, "dead", None, None)
  /\ UNCHANGED <<vars, ctx, doneVars>>

(* A new coroutine, at the same address as one that ended.                 *)
Start(c) ==
  /\ co[c] = "dead"
  /\ API!Become(c, "run", None, None)
  /\ UNCHANGED <<vars, ctx, doneVars, cleanup>>

-----------------------------------------------------------------------------
(* The runtime.                                                            *)

PollTask(p) == Poll(p) /\ UNCHANGED <<ctx, doneVars, luaVars>>

Inject_NoNotify(t) ==
  /\ done' = Append(done, t)
  /\ UNCHANGED <<unnotified, notified, batch>>

(* ngx_thread_pool_notify_inject up to the unlock.                         *)
Inject(t) ==
  /\ done' = Append(done, t)
  /\ unnotified' = TRUE
  /\ UNCHANGED <<notified, batch>>

(* ngx_http_lua_ffi_respond: the answer the runtime made from the request  *)
(* it got with ngx_http_lua_ffi_get_req.                                   *)
RespondTask(t, ok) ==
  /\ Respond(t)
  /\ ctx' = [ctx EXCEPT ![t].rsp = [ok |-> ok, rsp |-> ctx[t].req]]
  /\ Inject(t)
  /\ UNCHANGED luaVars

(* A thread calls ngx_notify.  Others may be about to.                     *)
Notify ==
  /\ unnotified
  /\ unnotified' \in BOOLEAN
  /\ notified' = TRUE
  /\ UNCHANGED <<vars, ctx, done, batch, luaVars>>

-----------------------------------------------------------------------------
(* The nginx worker, in the event loop.                                    *)

(* ngx_thread_pool_handler takes the whole list.                           *)
ThreadPoolHandler ==
  /\ notified
  /\ batch = <<>>
  /\ notified' = FALSE
  /\ batch' = done
  /\ done' = <<>>
  /\ UNCHANGED <<vars, ctx, unnotified, luaVars>>

Free(t) == ctx' = [ctx EXCEPT ![t] = None]

Stale_AbortIgnored(t) == co[ctx[t].co] = "dead"

(* The tests of the event handler that lead to `failed'.                   *)
Stale(t) == ctx[t].abort \/ co[ctx[t].co] = "dead"

DropTask_Leak ==
  /\ batch # <<>>
  /\ Stale(Head(batch))
  /\ batch' = Tail(batch)
  /\ UNCHANGED <<vars, ctx, done, unnotified, notified, luaVars>>

(* ngx_http_lua_ffi_event_handler for a task nobody waits for.             *)
DropTask ==
  /\ batch # <<>>
  /\ Stale(Head(batch))
  /\ Free(Head(batch))
  /\ batch' = Tail(batch)
  /\ UNCHANGED <<vars, done, unnotified, notified, luaVars>>

Resume_KeepCleanup ==
  /\ batch # <<>>
  /\ ~Stale(Head(batch))
  /\ LET t == Head(batch)
         c == ctx[t].co
     IN /\ Free(t)
        /\ API!Become(c, "run", asked[c], ctx[t].rsp)
  /\ batch' = Tail(batch)
  /\ UNCHANGED <<vars, done, unnotified, notified, cleanup>>

(* ngx_http_lua_ffi_event_handler: the response is pushed, the handler     *)
(* removed, the task freed and the coroutine resumed.                      *)
Resume ==
  /\ batch # <<>>
  /\ ~Stale(Head(batch))
  /\ LET t == Head(batch)
         c == ctx[t].co
     IN /\ Free(t)
        /\ SetCleanup(c, None)
        /\ API!Become(c, "run", asked[c], ctx[t].rsp)
  /\ batch' = Tail(batch)
  /\ UNCHANGED <<vars, done, unnotified, notified>>

-----------------------------------------------------------------------------

LuaStep(c) ==
  \/ \E t \in Task : CallRefused(c, t) \/ \E q \in Req : Call(c, t, q)
  \/ CallAfterUnload(c) \/ Unload(c)
  \/ Abort(c) \/ OtherOperation(c) \/ Exit(c) \/ Start(c)

FlowNext ==
  \/ \E c \in Coroutine : LuaStep(c)
  \/ \E p \in Poller : PollTask(p)
  \/ \E t \in Task, ok \in BOOLEAN : RespondTask(t, ok)
  \/ Notify
  \/ ThreadPoolHandler \/ DropTask \/ Resume

FlowSpec == FlowInit /\ [][FlowNext]_flowVars

PollStep(p) ==
  /\ PollEnter(p) \/ PollWake(p) \/ FreeQueue(p)
  /\ UNCHANGED <<ctx, doneVars, luaVars>>

(* The runtime polls on and answers every task it polled; its threads and  *)
(* the event loop of nginx go on.  Lua code need not do anything.          *)
FlowFairness ==
  /\ \A p \in Poller : WF_flowVars(PollStep(p))
  /\ \A t \in Task : WF_flowVars(\E ok \in BOOLEAN : RespondTask(t, ok))
  /\ WF_flowVars(Notify)
  /\ WF_flowVars(ThreadPoolHandler) /\ WF_flowVars(DropTask \/ Resume)

FlowFairSpec == FlowSpec /\ FlowFairness

-----------------------------------------------------------------------------
(* Correctness.                                                            *)

(* The state has its type.                                                 *)
FlowTypeOK ==
  /\ TypeOK
  /\ ctx \in [Task -> Ctx \cup {None}]
  /\ done \in Seq(Task) /\ batch \in Seq(Task)
  /\ unnotified \in BOOLEAN /\ notified \in BOOLEAN
  /\ co \in [Coroutine -> {"dead", "run", "yield"}]
  /\ cleanup \in [Coroutine -> Task \cup {None}]
  /\ asked \in [Coroutine -> Req \cup {None}]
  /\ result \in [Coroutine -> API!Result \cup {None}]

(* No task is linked twice.                                                *)
Once(s) == \A i, j \in DOMAIN s : s[i] = s[j] => i = j

(* A task is in one place at a time: the list of the runtime, the hands of *)
(* the runtime, ngx_thread_pool_done, or the list the worker goes through. *)
(* It is allocated there, so it is never freed while the runtime may use   *)
(* it (the comment on ngx_http_lua_ffi_task_alloc), even if the request    *)
(* exits first.                                                            *)
TaskPlaces ==
  /\ Once(queue) /\ Once(done) /\ Once(batch)
  /\ \A t \in Range(queue) : t \notin taken \cup Range(done) \cup Range(batch)
  /\ \A t \in taken : t \notin Range(done) \cup Range(batch)
  /\ \A t \in Range(done) : t \notin Range(batch)
  /\ (Range(queue) \ {Fin}) \cup taken \cup Range(done) \cup Range(batch)
       \subseteq Heap

(* An allocated task is in one of those places: there is no leak, unless   *)
(* task_poll drops a task on a failing unlock.                             *)
NoTaskLeak ==
  ~PthreadFails =>
    Heap \subseteq Range(queue) \cup taken \cup Range(done) \cup Range(batch)

(* A task that is not marked aborted has a coroutine that is suspended in  *)
(* the call that made it, whose death would mark it.  So the event handler *)
(* never touches the co_ctx of a coroutine that is gone, nor resumes one   *)
(* that waits for something else.                                          *)
LiveTaskHasWaiter == \A t \in Heap :
  ~ctx[t].abort =>
    LET c == ctx[t].co
    IN co[c] = "yield" /\ cleanup[c] = t /\ asked[c] = ctx[t].req

(* A call returns the answer to its own request, in whatever order the     *)
(* runtime answers, and not that of an earlier user of the same task or    *)
(* coroutine address.                                                      *)
OwnResponse == \A c \in Coroutine :
  result[c] # None /\ result[c].rsp # None => result[c].rsp = asked[c]

(* The tasks the worker goes through carry a response.                     *)
Answered ==
  \A t \in Range(done) \cup Range(batch) :
    ctx[t].rsp # None /\ ctx[t].rsp.rsp = ctx[t].req

(* A task in ngx_thread_pool_done is announced to the event loop, or will  *)
(* be by the thread that put it there.                                     *)
NoLostCompletion == done # <<>> => notified \/ unnotified

(* A coroutine that is suspended in a call has a task that will resume it, *)
(* and its cleanup handler is about that task; a handler that is pending   *)
(* otherwise would write to memory of others.  A refused call breaks this. *)
CleanupTarget == \A c \in Coroutine :
  /\ cleanup[c] # None =>
       /\ cleanup[c] \in Heap
       /\ ctx[cleanup[c]].co = c
       /\ co[c] = "yield"
  /\ co[c] = "yield" => cleanup[c] # None /\ ~ctx[cleanup[c]].abort

(* What holds of the handlers when calls are refused: only a coroutine     *)
(* whose last call was refused has a handler that outlives its call; a     *)
(* coroutine that waits has one, so that its death is noticed; and one     *)
(* that ended leaves none to a new coroutine at its address.               *)
HandlerLeftByRefusal == \A c \in Coroutine :
  /\ co[c] = "yield" => cleanup[c] # None
  /\ co[c] = "run" /\ cleanup[c] # None => result[c] = API!Failure
  /\ co[c] = "dead" => cleanup[c] = None

(* A step is one of CallSpec, or invisible to the Lua code.                *)
RefinesCallSpec == API!Spec

(* The same with progress: every call that was accepted returns.           *)
RefinesFairCallSpec == API!FairSpec

(* README, "runtime:call(req)": the coroutine would yield waiting for the  *)
(* response and resume with the return values.                             *)
EveryCallReturns == \A c \in Coroutine : co[c] = "yield" ~> co[c] # "yield"

(* Every task is freed, that of a coroutine that is gone included.         *)
EveryTaskFreed == \A t \in Task : t \in Heap ~> t \notin Heap

=============================================================================

--------------------------- MODULE CallFlowProofs ---------------------------
(***************************************************************************)
(* Proofs about CallFlow, for any numbers of coroutines, tasks, requests   *)
(* and pollers, any max_queue, and with failing pthread calls.             *)
(***************************************************************************)
EXTENDS CallFlow, TaskQueueProofs

(* Appending and removing the head, seen as sets.                          *)
LEMMA AppendSet ==
  ASSUME NEW S, NEW s \in Seq(S), NEW e \in S
  PROVE  /\ Append(s, e) \in Seq(S)
         /\ Range(Append(s, e)) = Range(s) \cup {e}
         /\ Once(s) /\ e \notin Range(s) => Once(Append(s, e))
<1> DEFINE a == Append(s, e)
<1>1. /\ a \in Seq(S) /\ Len(a) = Len(s) + 1
      /\ \A i \in 1..Len(s) : a[i] = s[i]
      /\ a[Len(s) + 1] = e
  BY AppendProperties
<1>2. Len(s) \in Nat /\ DOMAIN s = 1..Len(s) /\ DOMAIN a = 1..(Len(s) + 1)
  BY <1>1, LenProperties
<1> HIDE DEF a
<1>3. Range(a) = Range(s) \cup {e}
  <2>1. DOMAIN a = DOMAIN s \cup {Len(s) + 1}
    BY <1>2
  <2> QED
    BY <1>1, <1>2, <2>1 DEF Range
<1>4. Once(s) /\ e \notin Range(s) => Once(a)
  BY <1>1, <1>2 DEF Once, Range
<1> QED
  BY <1>1, <1>3, <1>4 DEF a

(* Removing the head takes one element away.                               *)
LEMMA TailSet ==
  ASSUME NEW S, NEW s \in Seq(S), s # <<>>
  PROVE  /\ Head(s) \in S /\ Tail(s) \in Seq(S)
         /\ Head(s) \in Range(s)
         /\ Range(s) = Range(Tail(s)) \cup {Head(s)}
         /\ Once(s) => Once(Tail(s)) /\ Head(s) \notin Range(Tail(s))
<1> DEFINE u == Tail(s)
<1>1. /\ Head(s) \in S /\ u \in Seq(S) /\ Len(u) = Len(s) - 1
      /\ \A i \in 1..Len(u) : u[i] = s[i + 1]
  BY HeadTailProperties
<1>2. Len(s) \in Nat \ {0} /\ DOMAIN s = 1..Len(s) /\ DOMAIN u = 1..(Len(s) - 1)
  BY <1>1, LenProperties, EmptySeq
<1>3. Head(s) = s[1]
  OBVIOUS
<1> HIDE DEF u
<1>4. Range(s) = Range(u) \cup {Head(s)}
  <2>1. ASSUME NEW x \in Range(s) PROVE x \in Range(u) \cup {Head(s)}
    <3>1. PICK i \in DOMAIN s : x = s[i]
      BY DEF Range
    <3>2. CASE i = 1
      BY <1>3, <3>1, <3>2
    <3>3. CASE i # 1
      <4>1. i - 1 \in DOMAIN u /\ u[i - 1] = s[i]
        BY <1>1, <1>2, <3>3
      <4> QED
        BY <3>1, <4>1 DEF Range
    <3> QED
      BY <3>2, <3>3
  <2>2. \A i \in DOMAIN u : i + 1 \in DOMAIN s /\ u[i] = s[i + 1]
    BY <1>1, <1>2
  <2>3. Range(u) \subseteq Range(s)
    BY <2>2 DEF Range
  <2>4. Head(s) \in Range(s)
    BY <1>2, <1>3 DEF Range
  <2> QED
    BY <2>1, <2>3, <2>4
<1>5. Once(s) => Once(u) /\ Head(s) \notin Range(u)
  <2> SUFFICES ASSUME Once(s)
               PROVE  Once(u) /\ Head(s) \notin Range(u)
    OBVIOUS
  <2>1. \A i \in DOMAIN u : i \in Nat \ {0} /\ i + 1 \in DOMAIN s /\ u[i] = s[i + 1]
    BY <1>1, <1>2
  <2>2. 1 \in DOMAIN s
    BY <1>2
  <2>3. ASSUME NEW i \in DOMAIN u, NEW j \in DOMAIN u, u[i] = u[j]
        PROVE  i = j
    <3>1. i + 1 = j + 1
      BY <2>1, <2>3 DEF Once
    <3> QED
      BY <2>1, <3>1
  <2>4. ASSUME NEW i \in DOMAIN u
        PROVE  u[i] # s[1]
    <3>1. i + 1 # 1
      BY <2>1
    <3> QED
      BY <2>1, <2>2, <3>1 DEF Once
  <2> QED
    BY <1>3, <2>3, <2>4 DEF Once, Range
<1> QED
  BY <1>1, <1>4, <1>5 DEF u

-----------------------------------------------------------------------------
(* Steps of CallFlow are steps of TaskQueue.                               *)

(* Each action is an action of the queue or leaves it alone.               *)
LEMMA QueueRefinement == [FlowNext]_flowVars => [Next]_vars
<1> SUFFICES ASSUME [FlowNext]_flowVars
             PROVE  Next \/ UNCHANGED vars
  OBVIOUS
<1>1. ASSUME NEW c \in Coroutine, LuaStep(c)
      PROVE  Next \/ UNCHANGED vars
  BY <1>1 DEF LuaStep, CallRefused, Call, CallAfterUnload, Unload, Abort,
              OtherOperation, Exit, Start, Next
<1>2. ASSUME NEW p \in Poller, PollTask(p)
      PROVE  Next
  BY <1>2 DEF PollTask, Next
<1>3. ASSUME NEW t \in Task, NEW ok \in BOOLEAN, RespondTask(t, ok)
      PROVE  Next
  BY <1>3 DEF RespondTask, Next
<1> QED
  BY <1>1, <1>2, <1>3
  DEF FlowNext, flowVars, Notify, ThreadPoolHandler, DropTask, Resume

(* CallFlow conjoins more to the actions of TaskQueue, so what is proved   *)
(* of TaskQueue holds here.                                                *)
LEMMA FlowIsQueue == FlowSpec => Spec
<1>1. FlowInit => Init
  BY DEF FlowInit
<1> QED
  BY <1>1, QueueRefinement, PTL DEF FlowSpec, Spec

(* What polling does to the places of tasks.                               *)
LEMMA PollMoves ==
  ASSUME TypeOK, NEW p \in Poller, Poll(p)
  PROVE  \/ UNCHANGED <<queue, taken>>
         \/ /\ queue # <<>> /\ queue' = Tail(queue)
            /\ Head(queue) = Fin /\ taken' = taken
         \/ /\ queue # <<>> /\ queue' = Tail(queue)
            /\ Head(queue) \in Task /\ taken' = taken \cup {Head(queue)}
         \/ /\ PthreadFails /\ queue # <<>> /\ queue' = Tail(queue)
            /\ taken' = taken
<1>1. queue # <<>> => Head(queue) \in Task \cup {Fin}
  BY HeadTailProperties DEF TypeOK
<1> QED
  BY <1>1 DEF Poll, PollEnter, PollWake, Dequeue, Wait, FreeQueue,
              SpuriousWakeup, LockFails, WaitFails, UnlockFails

-----------------------------------------------------------------------------
(* What the actions do to the task objects.                                *)

(* An address in use holds a task object.                                  *)
LEMMA HeapCtx ==
  ASSUME FlowTypeOK, NEW t \in Heap
  PROVE  t \in Task /\ ctx[t] \in Ctx
BY DEF FlowTypeOK, Heap

(* A call allocates one task object and fills it.                          *)
LEMMA CallCtx ==
  ASSUME FlowTypeOK, NEW c \in Coroutine, NEW t \in Task, NEW q \in Req,
         Call(c, t, q)
  PROVE  /\ ctx' \in [Task -> Ctx \cup {None}]
         /\ Heap' = Heap \cup {t} /\ t \notin Heap
         /\ \A u \in Heap : ctx'[u] = ctx[u]
         /\ ctx'[t].co = c /\ ctx'[t].req = q /\ ctx'[t].abort = FALSE
<1> DEFINE new == [co |-> c, req |-> q, rsp |-> None, abort |-> FALSE]
<1>1. new \in Ctx
  BY DEF Ctx
<1>2. /\ ctx' = [ctx EXCEPT ![t] = new] /\ t \notin Heap
      /\ ctx \in [Task -> Ctx \cup {None}]
  BY DEF Call, FlowTypeOK
<1>3. new # None
  BY <1>1, NoneAssumption
<1>4. new.co = c /\ new.req = q /\ new.abort = FALSE
  OBVIOUS
<1> HIDE DEF new
<1>5. ctx'[t] = new /\ \A u \in Task : u # t => ctx'[u] = ctx[u]
  BY <1>2
<1>6. Heap' = Heap \cup {t}
  BY <1>3, <1>5 DEF Heap
<1>7. \A u \in Heap : ctx'[u] = ctx[u]
  BY <1>2, <1>5 DEF Heap
<1> QED
  BY <1>1, <1>2, <1>4, <1>5, <1>6, <1>7

(* A cleanup handler marks one task object, at most.                       *)
LEMMA CleanupCtx ==
  ASSUME FlowTypeOK, NEW c \in Coroutine, RunCleanup(c)
  PROVE  /\ ctx' \in [Task -> Ctx \cup {None}]
         /\ Heap' = Heap
         /\ \A u \in Heap : /\ ctx'[u].co = ctx[u].co
                            /\ ctx'[u].req = ctx[u].req
                            /\ ctx'[u].rsp = ctx[u].rsp
                            /\ u # cleanup[c] => ctx'[u].abort = ctx[u].abort
                            /\ u = cleanup[c] => ctx'[u].abort = TRUE
<1>0. ctx \in [Task -> Ctx \cup {None}]
  BY DEF FlowTypeOK
<1>1. CASE cleanup[c] \notin Heap
  BY <1>0, <1>1 DEF RunCleanup, Heap
<1>2. CASE cleanup[c] \in Heap
  <2> DEFINE t == cleanup[c]
             new == [ctx[t] EXCEPT !.abort = TRUE]
  <2>1. t \in Task /\ ctx[t] \in Ctx
    BY <1>2, HeapCtx
  <2>2. /\ new \in Ctx /\ new.co = ctx[t].co /\ new.req = ctx[t].req
        /\ new.rsp = ctx[t].rsp /\ new.abort = TRUE
    BY <2>1 DEF Ctx
  <2>3. ctx' = [ctx EXCEPT ![t] = new]
    BY <1>2 DEF RunCleanup
  <2>4. new # None
    BY <2>2, NoneAssumption
  <2> HIDE DEF t, new
  <2>5. ctx'[t] = new /\ \A u \in Task : u # t => ctx'[u] = ctx[u]
    BY <1>0, <2>1, <2>3
  <2>6. t \in Heap
    BY <1>2 DEF t
  <2>7. Heap' = Heap
    BY <2>4, <2>5, <2>6 DEF Heap
  <2>8. \A u \in Heap : u \in Task
    BY DEF Heap
  <2>9. ctx' \in [Task -> Ctx \cup {None}]
    BY <1>0, <2>2, <2>3
  <2> QED
    BY <2>2, <2>5, <2>7, <2>8, <2>9 DEF t
<1> QED
  BY <1>1, <1>2

(* A response is written to one task object.                               *)
LEMMA RespondCtx ==
  ASSUME FlowTypeOK, taken \subseteq Heap,
         NEW t \in Task, NEW ok \in BOOLEAN, RespondTask(t, ok)
  PROVE  /\ ctx' \in [Task -> Ctx \cup {None}]
         /\ Heap' = Heap /\ t \in Heap
         /\ \A u \in Heap : /\ ctx'[u].co = ctx[u].co
                            /\ ctx'[u].req = ctx[u].req
                            /\ ctx'[u].abort = ctx[u].abort
                            /\ u # t => ctx'[u].rsp = ctx[u].rsp
         /\ ctx'[t].rsp \in API!Result
         /\ ctx'[t].rsp = [ok |-> ok, rsp |-> ctx[t].req]
<1> DEFINE r == [ok |-> ok, rsp |-> ctx[t].req]
           new == [ctx[t] EXCEPT !.rsp = r]
<1>1. t \in Heap /\ ctx[t] \in Ctx
  <2>1. t \in Heap
    BY DEF RespondTask, Respond
  <2> QED
    BY <2>1, HeapCtx
<1>2. ctx \in [Task -> Ctx \cup {None}] /\ ctx' = [ctx EXCEPT ![t] = new]
  BY DEF FlowTypeOK, RespondTask
<1>3. r \in API!Result
  BY <1>1 DEF Ctx, API!Result
<1> HIDE DEF r
<1>4. /\ new \in Ctx /\ new.co = ctx[t].co /\ new.req = ctx[t].req
      /\ new.abort = ctx[t].abort /\ new.rsp = r
  BY <1>1, <1>3 DEF Ctx
<1>5. new # None
  BY <1>4, NoneAssumption
<1> HIDE DEF new
<1>6. ctx'[t] = new /\ \A u \in Task : u # t => ctx'[u] = ctx[u]
  BY <1>2
<1>7. Heap' = Heap
  BY <1>1, <1>5, <1>6 DEF Heap
<1>8. \A u \in Heap : u \in Task
  BY DEF Heap
<1>9. ctx' \in [Task -> Ctx \cup {None}]
  BY <1>2, <1>4
<1> QED
  BY <1>1, <1>3, <1>4, <1>6, <1>7, <1>8, <1>9 DEF r

(* Freeing a task object leaves the others alone.                          *)
LEMMA FreeCtx ==
  ASSUME FlowTypeOK, NEW t \in Task, Free(t)
  PROVE  /\ ctx' \in [Task -> Ctx \cup {None}]
         /\ Heap' = Heap \ {t}
         /\ \A u \in Heap' : ctx'[u] = ctx[u]
<1>1. ctx \in [Task -> Ctx \cup {None}] /\ ctx' = [ctx EXCEPT ![t] = None]
  BY DEF FlowTypeOK, Free
<1>2. ctx'[t] = None /\ \A u \in Task : u # t => ctx'[u] = ctx[u]
  BY <1>1
<1>3. Heap' = Heap \ {t}
  BY <1>2 DEF Heap
<1> QED
  BY <1>1, <1>2, <1>3 DEF Heap

(* One coroutine's state changes at a time.                                *)
LEMMA BecomeOne ==
  ASSUME FlowTypeOK, NEW c \in Coroutine, NEW s \in {"dead", "run", "yield"},
         NEW q \in Req \cup {None}, NEW r \in API!Result \cup {None},
         API!Become(c, s, q, r)
  PROVE  /\ co' \in [Coroutine -> {"dead", "run", "yield"}]
         /\ asked' \in [Coroutine -> Req \cup {None}]
         /\ result' \in [Coroutine -> API!Result \cup {None}]
         /\ co'[c] = s /\ asked'[c] = q /\ result'[c] = r
         /\ \A d \in Coroutine : d # c =>
              co'[d] = co[d] /\ asked'[d] = asked[d] /\ result'[d] = result[d]
BY DEF FlowTypeOK, API!Become

(* One cleanup handler is set at a time.                                   *)
LEMMA SetCleanupOne ==
  ASSUME FlowTypeOK, NEW c \in Coroutine, NEW t \in Task \cup {None},
         cleanup' = [cleanup EXCEPT ![c] = t]
  PROVE  /\ cleanup' \in [Coroutine -> Task \cup {None}]
         /\ cleanup'[c] = t
         /\ \A d \in Coroutine : d # c => cleanup'[d] = cleanup[d]
BY DEF FlowTypeOK

(* A failure is a result.                                                  *)
LEMMA FailureType == API!Failure \in API!Result
BY DEF API!Failure, API!Result

-----------------------------------------------------------------------------
(* The inductive invariant.                                                *)

FlowInv ==
  /\ FlowTypeOK
  /\ UnloadInv
  /\ TaskPlaces
  /\ NoTaskLeak
  /\ LiveTaskHasWaiter
  /\ Answered
  /\ OwnResponse

(* Every step keeps the types.                                             *)
LEMMA FlowTypeStep == FlowInv /\ [FlowNext]_flowVars => FlowTypeOK'
<1> SUFFICES ASSUME FlowInv, [FlowNext]_flowVars
             PROVE  FlowTypeOK'
  OBVIOUS
<1>1. FlowTypeOK /\ taken \subseteq Heap
  BY DEF FlowInv, TaskPlaces
<1>2. TypeOK'
  BY <1>1, TypeStep, QueueRefinement DEF FlowTypeOK
<1>3. None \in Req \cup {None} /\ None \in API!Result \cup {None}
      /\ None \in Task \cup {None}
      /\ API!Failure \in API!Result \cup {None}
  BY FailureType
<1>4. ASSUME NEW c \in Coroutine, NEW t \in Task, NEW q \in Req, Call(c, t, q)
      PROVE  FlowTypeOK'
  <2>1. ctx' \in [Task -> Ctx \cup {None}]
    BY <1>1, <1>4, CallCtx
  <2>2. cleanup' \in [Coroutine -> Task \cup {None}]
    BY <1>1, <1>4, SetCleanupOne DEF Call, SetCleanup
  <2>3. /\ co' \in [Coroutine -> {"dead", "run", "yield"}]
        /\ asked' \in [Coroutine -> Req \cup {None}]
        /\ result' \in [Coroutine -> API!Result \cup {None}]
    BY <1>1, <1>3, <1>4, BecomeOne DEF Call
  <2> QED
    BY <1>1, <1>2, <1>4, <2>1, <2>2, <2>3 DEF FlowTypeOK, Call, doneVars
<1>5. ASSUME NEW c \in Coroutine, NEW t \in Task, CallRefused(c, t)
      PROVE  FlowTypeOK'
  <2>1. cleanup' \in [Coroutine -> Task \cup {None}]
    BY <1>1, <1>5, SetCleanupOne DEF CallRefused, SetCleanup
  <2>2. /\ co' \in [Coroutine -> {"dead", "run", "yield"}]
        /\ asked' \in [Coroutine -> Req \cup {None}]
        /\ result' \in [Coroutine -> API!Result \cup {None}]
    BY <1>1, <1>3, <1>5, BecomeOne DEF CallRefused
  <2> QED
    BY <1>1, <1>2, <1>5, <2>1, <2>2 DEF FlowTypeOK, CallRefused, doneVars
<1>6. ASSUME NEW c \in Coroutine, CallAfterUnload(c)
      PROVE  FlowTypeOK'
  <2>1. /\ co' \in [Coroutine -> {"dead", "run", "yield"}]
        /\ asked' \in [Coroutine -> Req \cup {None}]
        /\ result' \in [Coroutine -> API!Result \cup {None}]
    BY <1>1, <1>3, <1>6, BecomeOne DEF CallAfterUnload
  <2> QED
    BY <1>1, <1>2, <1>6, <2>1 DEF FlowTypeOK, CallAfterUnload, doneVars
<1>7. ASSUME NEW c \in Coroutine, Unload(c)
      PROVE  FlowTypeOK'
  BY <1>1, <1>2, <1>7 DEF FlowTypeOK, Unload, doneVars, luaVars
<1>8. ASSUME NEW c \in Coroutine, RunCleanup(c)
      PROVE  /\ ctx' \in [Task -> Ctx \cup {None}]
             /\ cleanup' \in [Coroutine -> Task \cup {None}]
  BY <1>1, <1>3, <1>8, CleanupCtx, SetCleanupOne DEF RunCleanup
<1>9. ASSUME NEW c \in Coroutine, Abort(c)
      PROVE  FlowTypeOK'
  <2>1. /\ co' \in [Coroutine -> {"dead", "run", "yield"}]
        /\ asked' \in [Coroutine -> Req \cup {None}]
        /\ result' \in [Coroutine -> API!Result \cup {None}]
    BY <1>1, <1>3, <1>9, BecomeOne DEF Abort
  <2> QED
    BY <1>1, <1>2, <1>8, <1>9, <2>1 DEF FlowTypeOK, Abort, doneVars
<1>10. ASSUME NEW c \in Coroutine, OtherOperation(c)
       PROVE  FlowTypeOK'
  BY <1>1, <1>2, <1>8, <1>10 DEF FlowTypeOK, OtherOperation, doneVars
<1>11. ASSUME NEW c \in Coroutine, Exit(c)
       PROVE  FlowTypeOK'
  <2>1. cleanup' \in [Coroutine -> Task \cup {None}]
    BY <1>1, <1>3, <1>11, SetCleanupOne DEF Exit, SetCleanup
  <2>2. /\ co' \in [Coroutine -> {"dead", "run", "yield"}]
        /\ asked' \in [Coroutine -> Req \cup {None}]
        /\ result' \in [Coroutine -> API!Result \cup {None}]
    BY <1>1, <1>3, <1>11, BecomeOne DEF Exit
  <2> QED
    BY <1>1, <1>2, <1>11, <2>1, <2>2 DEF FlowTypeOK, Exit, doneVars
<1>12. ASSUME NEW c \in Coroutine, Start(c)
       PROVE  FlowTypeOK'
  <2>1. /\ co' \in [Coroutine -> {"dead", "run", "yield"}]
        /\ asked' \in [Coroutine -> Req \cup {None}]
        /\ result' \in [Coroutine -> API!Result \cup {None}]
    BY <1>1, <1>3, <1>12, BecomeOne DEF Start
  <2> QED
    BY <1>1, <1>2, <1>12, <2>1 DEF FlowTypeOK, Start, doneVars
<1>13. ASSUME NEW p \in Poller, PollTask(p)
       PROVE  FlowTypeOK'
  BY <1>1, <1>2, <1>13 DEF FlowTypeOK, PollTask, doneVars, luaVars
<1>14. ASSUME NEW t \in Task, NEW ok \in BOOLEAN, RespondTask(t, ok)
       PROVE  FlowTypeOK'
  <2>1. ctx' \in [Task -> Ctx \cup {None}]
    BY <1>1, <1>14, RespondCtx
  <2>2. done' \in Seq(Task)
    BY <1>1, <1>14, AppendSet DEF FlowTypeOK, RespondTask, Inject
  <2>3. unnotified' \in BOOLEAN
    BY <1>14, Zenon DEF RespondTask, Inject
  <2> QED
    BY <1>1, <1>2, <1>14, <2>1, <2>2, <2>3
    DEF FlowTypeOK, RespondTask, Inject, luaVars
<1>15. CASE Notify
  <2>1. notified' \in BOOLEAN
    BY <1>15, Zenon DEF Notify
  <2> QED
    BY <1>1, <1>2, <1>15, <2>1 DEF FlowTypeOK, Notify, luaVars
<1>16. CASE ThreadPoolHandler
  <2>1. notified' \in BOOLEAN
    BY <1>16, Zenon DEF ThreadPoolHandler
  <2>2. done' \in Seq(Task) /\ batch' \in Seq(Task)
    BY <1>1, <1>16 DEF FlowTypeOK, ThreadPoolHandler
  <2> QED
    BY <1>1, <1>2, <1>16, <2>1, <2>2 DEF FlowTypeOK, ThreadPoolHandler, luaVars
<1>17. batch # <<>> => Head(batch) \in Task /\ Tail(batch) \in Seq(Task)
  BY <1>1, HeadTailProperties DEF FlowTypeOK
<1>18. CASE DropTask
  <2>1. ctx' \in [Task -> Ctx \cup {None}]
    BY <1>1, <1>17, <1>18, FreeCtx DEF DropTask
  <2> QED
    BY <1>1, <1>2, <1>17, <1>18, <2>1 DEF FlowTypeOK, DropTask, luaVars
<1>19. CASE Resume
  <2> DEFINE t == Head(batch)
             c == ctx[t].co
  <2>1. t \in Heap /\ t \in Range(batch)
    BY <1>1, <1>19, TailSet DEF FlowInv, TaskPlaces, Resume, FlowTypeOK
  <2>2. c \in Coroutine /\ ctx[t].rsp \in API!Result \cup {None}
    BY <1>1, <2>1, HeapCtx DEF Ctx
  <2>3. Free(t) /\ SetCleanup(c, None)
        /\ API!Become(c, "run", asked[c], ctx[t].rsp)
    BY <1>19 DEF Resume
  <2>4. asked[c] \in Req \cup {None}
    BY <1>1, <2>2 DEF FlowTypeOK
  <2> HIDE DEF t, c
  <2>5. ctx' \in [Task -> Ctx \cup {None}]
    BY <1>1, <2>1, <2>3, FreeCtx, HeapCtx
  <2>6. cleanup' \in [Coroutine -> Task \cup {None}]
    BY <1>1, <1>3, <2>2, <2>3, SetCleanupOne DEF SetCleanup
  <2>7. /\ co' \in [Coroutine -> {"dead", "run", "yield"}]
        /\ asked' \in [Coroutine -> Req \cup {None}]
        /\ result' \in [Coroutine -> API!Result \cup {None}]
    BY <1>1, <2>2, <2>3, <2>4, BecomeOne
  <2>8. /\ batch' \in Seq(Task)
        /\ UNCHANGED <<vars, done, unnotified, notified>>
    BY <1>17, <1>19 DEF Resume
  <2> QED
    BY <1>1, <1>2, <2>5, <2>6, <2>7, <2>8 DEF FlowTypeOK
<1>20. CASE UNCHANGED flowVars
  BY <1>1, <1>2, <1>20 DEF flowVars, FlowTypeOK, doneVars, luaVars
<1> QED
  BY <1>4, <1>5, <1>6, <1>7, <1>9, <1>10, <1>11, <1>12, <1>13, <1>14, <1>15,
     <1>16, <1>18, <1>19, <1>20
  DEF FlowNext, LuaStep

(* Every step keeps each task in one place.                                *)
LEMMA PlacesStep ==
  FlowInv /\ [FlowNext]_flowVars => TaskPlaces' /\ NoTaskLeak'
<1> SUFFICES ASSUME FlowInv, [FlowNext]_flowVars
             PROVE  TaskPlaces' /\ NoTaskLeak'
  OBVIOUS
<1> DEFINE Q == Range(queue)
           D == Range(done)
           B == Range(batch)
<1>1. /\ FlowTypeOK /\ TypeOK /\ taken \subseteq Heap /\ taken \subseteq Task
      /\ queue \in Seq(Task \cup {Fin}) /\ done \in Seq(Task)
      /\ batch \in Seq(Task)
  BY DEF FlowInv, TaskPlaces, FlowTypeOK, TypeOK
<1>2. /\ Once(queue) /\ Once(done) /\ Once(batch)
      /\ Q \cap taken = {} /\ Q \cap D = {} /\ Q \cap B = {}
      /\ taken \cap D = {} /\ taken \cap B = {} /\ D \cap B = {}
      /\ Q \subseteq Heap \cup {Fin} /\ D \subseteq Heap /\ B \subseteq Heap
      /\ ~PthreadFails => Heap \subseteq Q \cup taken \cup D \cup B
  BY DEF FlowInv, TaskPlaces, NoTaskLeak
<1>3. SUFFICES
        /\ Once(queue') /\ Once(done') /\ Once(batch')
        /\ Q' \cap taken' = {} /\ Q' \cap D' = {} /\ Q' \cap B' = {}
        /\ taken' \cap D' = {} /\ taken' \cap B' = {} /\ D' \cap B' = {}
        /\ Q' \subseteq Heap' \cup {Fin} /\ taken' \subseteq Heap'
        /\ D' \subseteq Heap' /\ B' \subseteq Heap'
        /\ ~PthreadFails => Heap' \subseteq Q' \cup taken' \cup D' \cup B'
  BY DEF TaskPlaces, NoTaskLeak, Once
<1>4. Fin \notin Task /\ Heap \subseteq Task
  BY FinAssumption DEF Heap
<1> HIDE DEF Q, D, B
<1>5. ASSUME UNCHANGED <<queue, taken, done, batch>>, Heap' = Heap
      PROVE  <1>3!1
  BY <1>1, <1>2, <1>5 DEF Q, D, B, Once
<1>6. ASSUME NEW c \in Coroutine, NEW t \in Task, NEW q \in Req, Call(c, t, q)
      PROVE  <1>3!1
  <2>1. Heap' = Heap \cup {t} /\ t \notin Heap
    BY <1>1, <1>6, CallCtx
  <2>2. queue' = Append(queue, t) /\ UNCHANGED <<taken, done, batch>>
    BY <1>6 DEF Call, Post, Enqueue, doneVars
  <2>3. t \notin Q /\ t \notin taken /\ t \notin D /\ t \notin B
    BY <1>1, <1>2, <1>4, <2>1
  <2>4. Q' = Q \cup {t} /\ Once(queue')
    BY <1>1, <1>2, <2>2, <2>3, AppendSet DEF Q
  <2>5. D' = D /\ B' = B /\ Once(done') /\ Once(batch')
    BY <1>2, <2>2 DEF D, B, Once
  <2> QED
    BY <1>1, <1>2, <2>1, <2>2, <2>3, <2>4, <2>5
<1>7. ASSUME NEW c \in Coroutine, Unload(c)
      PROVE  <1>3!1
  <2>1. UNCHANGED <<taken, done, batch, ctx>>
    BY <1>7 DEF Unload, Finish, doneVars
  <2>2. Heap' = Heap /\ D' = D /\ B' = B /\ Once(done') /\ Once(batch')
    BY <1>2, <2>1 DEF Heap, D, B, Once
  <2>3. Fin \notin Q /\ Fin \notin taken /\ Fin \notin D /\ Fin \notin B
    BY <1>1, <1>2, <1>4, <1>7 DEF FlowInv, UnloadInv, FinLast, Unload, Finish, Q
  <2>4. CASE queue' = Append(queue, Fin)
    <3>1. Q' = Q \cup {Fin} /\ Once(queue')
      BY <1>1, <1>2, <2>3, <2>4, AppendSet DEF Q
    <3> QED
      BY <1>1, <1>2, <2>1, <2>2, <2>3, <3>1
  <2>5. CASE UNCHANGED queue
    BY <1>5, <2>1, <2>2, <2>5
  <2> QED
    BY <1>7, <2>4, <2>5 DEF Unload, Finish, Enqueue
<1>8. ASSUME NEW c \in Coroutine, RunCleanup(c),
             UNCHANGED <<queue, taken, done, batch>>
      PROVE  <1>3!1
  BY <1>1, <1>5, <1>8, CleanupCtx
<1>9. ASSUME UNCHANGED <<vars, ctx, doneVars>>
      PROVE  <1>3!1
  <2>1. Heap' = Heap
    BY <1>9 DEF Heap
  <2> QED
    BY <1>5, <1>9, <2>1 DEF vars, doneVars
<1>10. ASSUME NEW c \in Coroutine, LuaStep(c)
       PROVE  <1>3!1
  <2>1. \A t \in Task : CallRefused(c, t) => UNCHANGED <<vars, ctx, doneVars>>
    BY DEF CallRefused
  <2>2. CallAfterUnload(c) \/ Exit(c) \/ Start(c)
          => UNCHANGED <<vars, ctx, doneVars>>
    BY DEF CallAfterUnload, Exit, Start
  <2>3. Abort(c) \/ OtherOperation(c)
          => RunCleanup(c) /\ UNCHANGED <<queue, taken, done, batch>>
    BY DEF Abort, OtherOperation, vars, doneVars
  <2> QED
    BY <1>6, <1>7, <1>8, <1>9, <1>10, <2>1, <2>2, <2>3 DEF LuaStep
<1>11. ASSUME NEW p \in Poller, PollTask(p)
       PROVE  <1>3!1
  <2>1. UNCHANGED <<done, batch, ctx>>
    BY <1>11 DEF PollTask, doneVars
  <2>2. Heap' = Heap /\ D' = D /\ B' = B /\ Once(done') /\ Once(batch')
    BY <1>2, <2>1 DEF Heap, D, B, Once
  <2>3. CASE UNCHANGED <<queue, taken>>
    BY <1>5, <2>1, <2>2, <2>3
  <2>4. CASE queue # <<>> /\ queue' = Tail(queue)
    <3>1. Q = Q' \cup {Head(queue)} /\ Once(queue') /\ Head(queue) \notin Q'
      BY <1>1, <1>2, <2>4, TailSet DEF Q
    <3>2. CASE taken' = taken /\ (Head(queue) = Fin \/ PthreadFails)
      BY <1>1, <1>2, <1>4, <2>2, <3>1, <3>2
    <3>3. CASE Head(queue) \in Task /\ taken' = taken \cup {Head(queue)}
      BY <1>1, <1>2, <1>4, <2>2, <3>1, <3>3
    <3> QED
      BY <1>1, <1>11, <2>3, <2>4, <3>2, <3>3, PollMoves DEF PollTask
  <2> QED
    BY <1>1, <1>11, <2>3, <2>4, PollMoves DEF PollTask
<1>12. ASSUME NEW t \in Task, NEW ok \in BOOLEAN, RespondTask(t, ok)
       PROVE  <1>3!1
  <2>1. Heap' = Heap
    BY <1>1, <1>12, RespondCtx
  <2>2. /\ t \in taken /\ taken' = taken \ {t} /\ UNCHANGED <<queue, batch>>
        /\ done' = Append(done, t)
    BY <1>12 DEF RespondTask, Respond, Inject
  <2>3. t \notin D /\ t \notin Q /\ t \notin B
    BY <1>2, <2>2
  <2>4. D' = D \cup {t} /\ Once(done')
    BY <1>1, <1>2, <2>2, <2>3, AppendSet DEF D
  <2>5. Q' = Q /\ B' = B /\ Once(queue') /\ Once(batch')
    BY <1>2, <2>2 DEF Q, B, Once
  <2> QED
    BY <1>1, <1>2, <2>1, <2>2, <2>3, <2>4, <2>5
<1>13. CASE Notify
  <2>1. UNCHANGED <<queue, taken, done, batch>> /\ Heap' = Heap
    BY <1>13 DEF Notify, vars, Heap
  <2> QED
    BY <1>5, <2>1
<1>14. CASE ThreadPoolHandler
  <2>1. /\ batch = <<>> /\ batch' = done /\ done' = <<>>
        /\ UNCHANGED <<queue, taken, ctx>>
    BY <1>14 DEF ThreadPoolHandler, vars
  <2>2. B = {} /\ B' = D /\ D' = {} /\ Q' = Q /\ Heap' = Heap
    BY <2>1 DEF Q, D, B, Range, Heap
  <2>3. Once(queue') /\ Once(done') /\ Once(batch')
    BY <1>2, <2>1 DEF Once
  <2> QED
    BY <1>1, <1>2, <2>1, <2>2, <2>3
<1>15. ASSUME batch # <<>>, Free(Head(batch)), batch' = Tail(batch),
              UNCHANGED <<vars, done>>
       PROVE  <1>3!1
  <2> DEFINE t == Head(batch)
  <2>1. B = B' \cup {t} /\ t \notin B' /\ Once(batch') /\ t \in Task
    BY <1>1, <1>2, <1>15, TailSet DEF B
  <2>2. Heap' = Heap \ {t}
    BY <1>1, <1>15, <2>1, FreeCtx
  <2>3. /\ Q' = Q /\ D' = D /\ taken' = taken
        /\ Once(queue') /\ Once(done')
    BY <1>2, <1>15 DEF vars, Q, D, Once
  <2> HIDE DEF t
  <2> QED
    BY <1>1, <1>2, <1>4, <2>1, <2>2, <2>3
<1> QED
  BY <1>9, <1>10, <1>11, <1>12, <1>13, <1>14, <1>15
  DEF FlowNext, flowVars, DropTask, Resume

(* The coroutine the event handler is about to resume: it waits for this   *)
(* very task.                                                              *)
LEMMA ResumeTarget ==
  ASSUME FlowInv, Resume
  PROVE  LET t == Head(batch)
             c == ctx[t].co
         IN /\ t \in Heap /\ c \in Coroutine
            /\ co[c] = "yield" /\ cleanup[c] = t /\ asked[c] = ctx[t].req
            /\ ctx[t].rsp \in API!Result /\ ctx[t].rsp.rsp = asked[c]
            /\ Free(t) /\ SetCleanup(c, None)
            /\ API!Become(c, "run", asked[c], ctx[t].rsp)
<1> DEFINE t == Head(batch)
           c == ctx[t].co
<1>1. FlowTypeOK /\ batch # <<>> /\ batch \in Seq(Task) /\ ~Stale(t)
  BY DEF FlowInv, FlowTypeOK, Resume
<1>2. t \in Range(batch) /\ t \in Heap
  <2>1. t \in Range(batch)
    BY <1>1, TailSet
  <2> QED
    BY <2>1 DEF FlowInv, TaskPlaces
<1>3. c \in Coroutine /\ ctx[t].rsp \in API!Result \cup {None}
  BY <1>1, <1>2, HeapCtx DEF Ctx
<1>4. co[c] = "yield" /\ cleanup[c] = t /\ asked[c] = ctx[t].req
  BY <1>1, <1>2 DEF FlowInv, LiveTaskHasWaiter, Stale
<1>5. ctx[t].rsp # None /\ ctx[t].rsp.rsp = ctx[t].req
  BY <1>2 DEF FlowInv, Answered
<1>6. /\ Free(t) /\ SetCleanup(c, None)
      /\ API!Become(c, "run", asked[c], ctx[t].rsp)
  BY DEF Resume
<1> QED
  BY <1>2, <1>3, <1>4, <1>5, <1>6

(* Every step keeps live tasks with their waiters.                         *)
LEMMA LiveStep == FlowInv /\ [FlowNext]_flowVars => LiveTaskHasWaiter'
<1> SUFFICES ASSUME FlowInv, [FlowNext]_flowVars
             PROVE  LiveTaskHasWaiter'
  OBVIOUS
<1>1. FlowTypeOK /\ taken \subseteq Heap
  BY DEF FlowInv, TaskPlaces
<1>2. \A u \in Heap : ~ctx[u].abort =>
        /\ co[ctx[u].co] = "yield" /\ cleanup[ctx[u].co] = u
        /\ asked[ctx[u].co] = ctx[u].req
  BY DEF FlowInv, LiveTaskHasWaiter
<1>3. \A u \in Heap : ctx[u].co \in Coroutine
  BY <1>1, HeapCtx DEF Ctx
<1>4. SUFFICES \A u \in Heap' : ~ctx'[u].abort =>
        /\ co'[ctx'[u].co] = "yield" /\ cleanup'[ctx'[u].co] = u
        /\ asked'[ctx'[u].co] = ctx'[u].req
  BY DEF LiveTaskHasWaiter
<1>5. None \in Req \cup {None} /\ None \in API!Result \cup {None}
      /\ None \in Task \cup {None} /\ API!Failure \in API!Result \cup {None}
  BY FailureType
<1>6. ASSUME NEW c \in Coroutine, co[c] # "yield", UNCHANGED ctx,
             \A d \in Coroutine : d # c =>
               co'[d] = co[d] /\ cleanup'[d] = cleanup[d] /\ asked'[d] = asked[d]
      PROVE  <1>4!1
  <2>1. Heap' = Heap
    BY <1>6 DEF Heap
  <2> QED
    BY <1>2, <1>3, <1>6, <2>1
<1>7. ASSUME NEW c \in Coroutine, NEW t \in Task, NEW q \in Req, Call(c, t, q)
      PROVE  <1>4!1
  <2>1. /\ Heap' = Heap \cup {t} /\ \A u \in Heap : ctx'[u] = ctx[u]
        /\ ctx'[t].co = c /\ ctx'[t].req = q
    BY <1>1, <1>7, CallCtx
  <2>2. /\ cleanup'[c] = t
        /\ \A d \in Coroutine : d # c => cleanup'[d] = cleanup[d]
    BY <1>1, <1>7, SetCleanupOne DEF Call, SetCleanup
  <2>3. /\ co'[c] = "yield" /\ asked'[c] = q
        /\ \A d \in Coroutine : d # c => co'[d] = co[d] /\ asked'[d] = asked[d]
    BY <1>1, <1>5, <1>7, BecomeOne DEF Call
  <2>4. co[c] = "run"
    BY <1>7 DEF Call
  <2> QED
    BY <1>2, <1>3, <2>1, <2>2, <2>3, <2>4
<1>8. ASSUME NEW c \in Coroutine, NEW t \in Task, CallRefused(c, t)
      PROVE  <1>4!1
  <2>1. \A d \in Coroutine : d # c => cleanup'[d] = cleanup[d]
    BY <1>1, <1>8, SetCleanupOne DEF CallRefused, SetCleanup
  <2>2. \A d \in Coroutine : d # c => co'[d] = co[d] /\ asked'[d] = asked[d]
    BY <1>1, <1>5, <1>8, BecomeOne DEF CallRefused
  <2> QED
    BY <1>6, <1>8, <2>1, <2>2 DEF CallRefused
<1>9. ASSUME NEW c \in Coroutine, CallAfterUnload(c)
      PROVE  <1>4!1
  <2>1. \A d \in Coroutine : d # c => co'[d] = co[d] /\ asked'[d] = asked[d]
    BY <1>1, <1>5, <1>9, BecomeOne DEF CallAfterUnload
  <2> QED
    BY <1>6, <1>9, <2>1 DEF CallAfterUnload
<1>10. ASSUME UNCHANGED <<ctx, luaVars>>
       PROVE  <1>4!1
  <2>1. Heap' = Heap
    BY <1>10 DEF Heap
  <2> QED
    BY <1>2, <1>10, <2>1 DEF luaVars
<1>11. ASSUME NEW c \in Coroutine, RunCleanup(c),
              \A d \in Coroutine : d # c => co'[d] = co[d] /\ asked'[d] = asked[d]
       PROVE  \A u \in Heap' : ~ctx'[u].abort /\ ctx'[u].co # c =>
                /\ co'[ctx'[u].co] = "yield" /\ cleanup'[ctx'[u].co] = u
                /\ asked'[ctx'[u].co] = ctx'[u].req
  <2>1. Heap' = Heap
        /\ \A u \in Heap : /\ ctx'[u].co = ctx[u].co /\ ctx'[u].req = ctx[u].req
                           /\ ~ctx'[u].abort => ~ctx[u].abort
    BY <1>1, <1>11, CleanupCtx
  <2>2. \A d \in Coroutine : d # c => cleanup'[d] = cleanup[d]
    BY <1>1, <1>5, <1>11, SetCleanupOne DEF RunCleanup
  <2> QED
    BY <1>2, <1>3, <1>11, <2>1, <2>2
<1>12. ASSUME NEW c \in Coroutine, RunCleanup(c)
       PROVE  \A u \in Heap' : ~ctx'[u].abort /\ ctx'[u].co = c =>
                /\ u \in Heap /\ ~ctx[u].abort /\ ctx[u].co = c
                /\ u # cleanup[c]
  BY <1>1, <1>12, CleanupCtx
<1>13. ASSUME NEW c \in Coroutine, Abort(c) \/ OtherOperation(c)
       PROVE  <1>4!1
  <2>1. RunCleanup(c)
    BY <1>13 DEF Abort, OtherOperation
  <2>2. \A d \in Coroutine : d # c => co'[d] = co[d] /\ asked'[d] = asked[d]
    BY <1>1, <1>5, <1>13, BecomeOne DEF Abort, OtherOperation
  <2>3. \A u \in Heap' : ~ctx'[u].abort => ctx'[u].co # c
    BY <1>2, <1>12, <2>1
  <2> QED
    BY <1>11, <2>1, <2>2, <2>3
<1>14. ASSUME NEW c \in Coroutine, Exit(c)
       PROVE  <1>4!1
  <2>1. \A d \in Coroutine : d # c => cleanup'[d] = cleanup[d]
    BY <1>1, <1>5, <1>14, SetCleanupOne DEF Exit, SetCleanup
  <2>2. \A d \in Coroutine : d # c => co'[d] = co[d] /\ asked'[d] = asked[d]
    BY <1>1, <1>5, <1>14, BecomeOne DEF Exit
  <2> QED
    BY <1>6, <1>14, <2>1, <2>2 DEF Exit
<1>15. ASSUME NEW c \in Coroutine, Start(c)
       PROVE  <1>4!1
  <2>1. \A d \in Coroutine : d # c => co'[d] = co[d] /\ asked'[d] = asked[d]
    BY <1>1, <1>5, <1>15, BecomeOne DEF Start
  <2> QED
    BY <1>6, <1>15, <2>1 DEF Start
<1>16. ASSUME NEW t \in Task, NEW ok \in BOOLEAN, RespondTask(t, ok)
       PROVE  <1>4!1
  <2>1. Heap' = Heap
        /\ \A u \in Heap : /\ ctx'[u].co = ctx[u].co /\ ctx'[u].req = ctx[u].req
                           /\ ctx'[u].abort = ctx[u].abort
    BY <1>1, <1>16, RespondCtx
  <2> QED
    BY <1>2, <1>16, <2>1 DEF RespondTask, luaVars
<1>17. CASE DropTask
  <2>1. Head(batch) \in Task /\ Free(Head(batch)) /\ UNCHANGED luaVars
    BY <1>1, <1>17, TailSet DEF DropTask, FlowTypeOK
  <2>2. Heap' \subseteq Heap /\ \A u \in Heap' : ctx'[u] = ctx[u]
    BY <1>1, <2>1, FreeCtx
  <2> QED
    BY <1>2, <2>1, <2>2 DEF luaVars
<1>18. CASE Resume
  <2> DEFINE t == Head(batch)
             c == ctx[t].co
  <2>1. /\ t \in Heap /\ c \in Coroutine /\ cleanup[c] = t
        /\ asked[c] = ctx[t].req /\ ctx[t].rsp \in API!Result
        /\ Free(t) /\ SetCleanup(c, None)
        /\ API!Become(c, "run", asked[c], ctx[t].rsp)
    BY <1>18, ResumeTarget
  <2> HIDE DEF t, c
  <2>2. Heap' = Heap \ {t} /\ \A u \in Heap' : ctx'[u] = ctx[u]
    BY <1>1, <2>1, HeapCtx, FreeCtx
  <2>3. asked[c] \in Req \cup {None}
    BY <1>1, <2>1 DEF FlowTypeOK
  <2>4. \A d \in Coroutine : d # c => co'[d] = co[d] /\ asked'[d] = asked[d]
    BY <1>1, <2>1, <2>3, BecomeOne
  <2>5. \A d \in Coroutine : d # c => cleanup'[d] = cleanup[d]
    BY <1>1, <1>5, <2>1, SetCleanupOne DEF SetCleanup
  <2> QED
    BY <1>2, <1>3, <2>1, <2>2, <2>4, <2>5
<1> QED
  BY <1>7, <1>8, <1>9, <1>10, <1>13, <1>14, <1>15, <1>16, <1>17, <1>18
  DEF FlowNext, LuaStep, flowVars, Unload, PollTask, Notify, ThreadPoolHandler

(* Every step keeps completed tasks answered.                              *)
LEMMA AnsweredStep == FlowInv /\ [FlowNext]_flowVars => Answered'
<1> SUFFICES ASSUME FlowInv, [FlowNext]_flowVars
             PROVE  Answered'
  OBVIOUS
<1> DEFINE A == Range(done) \cup Range(batch)
<1>1. /\ FlowTypeOK /\ taken \subseteq Heap /\ A \subseteq Heap
      /\ done \in Seq(Task) /\ batch \in Seq(Task)
  BY DEF FlowInv, TaskPlaces, FlowTypeOK
<1>2. \A u \in A : ctx[u].rsp # None /\ ctx[u].rsp.rsp = ctx[u].req
  BY DEF FlowInv, Answered
<1>3. SUFFICES \A u \in A' : ctx'[u].rsp # None /\ ctx'[u].rsp.rsp = ctx'[u].req
  BY DEF Answered
<1> HIDE DEF A
<1>4. UNCHANGED <<done, batch>> => A' = A
  BY DEF A
<1>5. ASSUME NEW c \in Coroutine, NEW t \in Task, NEW q \in Req, Call(c, t, q)
      PROVE  <1>3!1
  BY <1>1, <1>2, <1>4, <1>5, CallCtx DEF Call, doneVars
<1>6. ASSUME NEW c \in Coroutine, Abort(c) \/ OtherOperation(c)
      PROVE  <1>3!1
  <2>1. RunCleanup(c) /\ UNCHANGED <<done, batch>>
    BY <1>6 DEF Abort, OtherOperation, doneVars
  <2> QED
    BY <1>1, <1>2, <1>4, <2>1, CleanupCtx
<1>7. ASSUME UNCHANGED <<ctx, done, batch>>
      PROVE  <1>3!1
  BY <1>2, <1>4, <1>7
<1>8. ASSUME NEW t \in Task, NEW ok \in BOOLEAN, RespondTask(t, ok)
      PROVE  <1>3!1
  <2>1. done' = Append(done, t) /\ batch' = batch /\ t \in taken
    BY <1>8 DEF RespondTask, Respond, Inject
  <2>2. A' = A \cup {t}
    BY <1>1, <2>1, AppendSet DEF A
  <2>3. t \notin A
    BY <2>1 DEF FlowInv, TaskPlaces, A
  <2>4. /\ \A u \in Heap : ctx'[u].req = ctx[u].req
        /\ \A u \in Heap : u # t => ctx'[u].rsp = ctx[u].rsp
        /\ t \in Heap /\ ctx'[t].rsp \in API!Result
        /\ ctx'[t].rsp = [ok |-> ok, rsp |-> ctx[t].req]
    BY <1>1, <1>8, RespondCtx
  <2>5. ctx'[t].rsp # None /\ ctx'[t].rsp.rsp = ctx'[t].req
    BY <2>4, NoneAssumption
  <2> QED
    BY <1>1, <1>2, <2>2, <2>3, <2>4, <2>5
<1>9. CASE ThreadPoolHandler
  <2>1. A' = A /\ UNCHANGED ctx
    BY <1>9 DEF ThreadPoolHandler, A, Range
  <2> QED
    BY <1>2, <2>1
<1>10. CASE DropTask \/ Resume
  <2> DEFINE t == Head(batch)
  <2>1. batch # <<>> /\ batch' = Tail(batch) /\ done' = done /\ Free(t)
    BY <1>10 DEF DropTask, Resume
  <2>2. /\ t \in Task /\ Range(batch) = Range(batch') \cup {t}
        /\ t \in Range(batch) /\ t \notin Range(batch')
    BY <1>1, <2>1, TailSet DEF FlowInv, TaskPlaces
  <2>3. t \notin Range(done)
    BY <2>2 DEF FlowInv, TaskPlaces
  <2>4. A' \subseteq A /\ t \notin A'
    BY <2>1, <2>2, <2>3 DEF A
  <2>5. Heap' = Heap \ {t} /\ \A u \in Heap' : ctx'[u] = ctx[u]
    BY <1>1, <2>1, <2>2, FreeCtx
  <2> HIDE DEF t
  <2> QED
    BY <1>1, <1>2, <2>4, <2>5
<1> QED
  BY <1>5, <1>6, <1>7, <1>8, <1>9, <1>10
  DEF FlowNext, LuaStep, flowVars, doneVars, CallRefused, CallAfterUnload,
      Unload, Exit, Start, PollTask, Notify

(* Every step gives calls their own responses.                             *)
LEMMA OwnStep == FlowInv /\ [FlowNext]_flowVars => OwnResponse'
<1> SUFFICES ASSUME FlowInv, [FlowNext]_flowVars
             PROVE  OwnResponse'
  OBVIOUS
<1>1. FlowTypeOK
  BY DEF FlowInv
<1>2. \A d \in Coroutine :
        result[d] # None /\ result[d].rsp # None => result[d].rsp = asked[d]
  BY DEF FlowInv, OwnResponse
<1>3. ASSUME NEW c \in Coroutine, NEW s \in {"dead", "run", "yield"},
             NEW q \in Req \cup {None}, NEW r \in API!Result \cup {None},
             API!Become(c, s, q, r),
             r # None /\ r.rsp # None => r.rsp = q
      PROVE  OwnResponse'
  <2>1. /\ asked'[c] = q /\ result'[c] = r
        /\ \A d \in Coroutine : d # c =>
             asked'[d] = asked[d] /\ result'[d] = result[d]
    BY <1>1, <1>3, BecomeOne
  <2> QED
    BY <1>2, <1>3, <2>1 DEF OwnResponse
<1>4. API!Failure \in API!Result /\ API!Failure.rsp = None
  BY FailureType DEF API!Failure
<1>5. ASSUME NEW c \in Coroutine, NEW t \in Task, NEW q \in Req, Call(c, t, q)
      PROVE  OwnResponse'
  BY <1>3, <1>5 DEF Call
<1>6. ASSUME NEW c \in Coroutine, NEW t \in Task, CallRefused(c, t)
      PROVE  OwnResponse'
  BY <1>3, <1>4, <1>6 DEF CallRefused
<1>7. ASSUME NEW c \in Coroutine, CallAfterUnload(c)
      PROVE  OwnResponse'
  BY <1>3, <1>4, <1>7 DEF CallAfterUnload
<1>8. ASSUME NEW c \in Coroutine, Abort(c) \/ Exit(c) \/ Start(c)
      PROVE  OwnResponse'
  <2>1. \/ API!Become(c, "dead", None, None)
        \/ API!Become(c, "run", None, None)
    BY <1>8 DEF Abort, Exit, Start
  <2> QED
    BY <1>3, <2>1
<1>9. CASE Resume
  <2> DEFINE t == Head(batch)
             c == ctx[t].co
  <2>1. /\ c \in Coroutine /\ ctx[t].rsp \in API!Result
        /\ ctx[t].rsp.rsp = asked[c]
        /\ API!Become(c, "run", asked[c], ctx[t].rsp)
    BY <1>9, ResumeTarget
  <2>2. asked[c] \in Req \cup {None}
    BY <1>1, <2>1 DEF FlowTypeOK
  <2> HIDE DEF t, c
  <2> QED
    BY <1>3, <2>1, <2>2
<1>10. ASSUME UNCHANGED <<asked, result>>
       PROVE  OwnResponse'
  BY <1>2, <1>10 DEF OwnResponse
<1> QED
  BY <1>5, <1>6, <1>7, <1>8, <1>9, <1>10
  DEF FlowNext, LuaStep, flowVars, luaVars, Unload, OtherOperation, PollTask,
      RespondTask, Notify, ThreadPoolHandler, DropTask

(* The invariant holds initially.                                          *)
LEMMA FlowInitInv == FlowInit => FlowInv
<1> SUFFICES ASSUME FlowInit
             PROVE  FlowInv
  OBVIOUS
<1>1. TypeOK /\ UnloadInv
  BY InitType, InitUnload DEF FlowInit
<1>2. unnotified \in BOOLEAN /\ notified \in BOOLEAN
  BY Zenon DEF FlowInit
<1>3. /\ queue = <<>> /\ done = <<>> /\ batch = <<>> /\ taken = {}
      /\ ctx = [t \in Task |-> None]
      /\ co = [c \in Coroutine |-> "dead"]
      /\ cleanup = [c \in Coroutine |-> None]
      /\ asked = [c \in Coroutine |-> None]
      /\ result = [c \in Coroutine |-> None]
  BY DEF FlowInit, Init
<1>4. FlowTypeOK
  BY <1>1, <1>2, <1>3 DEF FlowTypeOK
<1>5. Heap = {} /\ Range(queue) = {} /\ Range(done) = {} /\ Range(batch) = {}
  BY <1>3 DEF Heap, Range
<1>6. Once(queue) /\ Once(done) /\ Once(batch)
  BY <1>3 DEF Once
<1> QED
  BY <1>1, <1>3, <1>4, <1>5, <1>6
  DEF FlowInv, TaskPlaces, NoTaskLeak, LiveTaskHasWaiter, Answered, OwnResponse

(* Every step keeps the invariant.                                         *)
LEMMA FlowInvStep == FlowInv /\ [FlowNext]_flowVars => FlowInv'
<1>1. FlowInv /\ [FlowNext]_flowVars => UnloadInv'
  BY QueueRefinement, UnloadStep DEF FlowInv, FlowTypeOK
<1> QED
  BY <1>1, FlowTypeStep, PlacesStep, LiveStep, AnsweredStep, OwnStep DEF FlowInv

(* The inductive invariant of the call flow holds.                         *)
THEOREM FlowInvariant == FlowSpec => []FlowInv
BY FlowInitInv, FlowInvStep, PTL DEF FlowSpec

(* The state has its type.                                                 *)
THEOREM FlowTypeCorrect == FlowSpec => []FlowTypeOK
<1>1. FlowInv => FlowTypeOK
  BY DEF FlowInv
<1> QED
  BY <1>1, FlowInvariant, PTL

(* A task is in one place at a time and is freed only by the event         *)
(* handler, after the runtime gave it back.                                *)
THEOREM TasksKeptWhileUsed == FlowSpec => []TaskPlaces
<1>1. FlowInv => TaskPlaces
  BY DEF FlowInv
<1> QED
  BY <1>1, FlowInvariant, PTL

(* No task is lost when no pthread call fails.                             *)
THEOREM TasksNotLeaked == FlowSpec => []NoTaskLeak
<1>1. FlowInv => NoTaskLeak
  BY DEF FlowInv
<1> QED
  BY <1>1, FlowInvariant, PTL

(* A late response never reaches a coroutine that is gone or waits for     *)
(* something else.                                                         *)
THEOREM LateResponseSafe == FlowSpec => []LiveTaskHasWaiter
<1>1. FlowInv => LiveTaskHasWaiter
  BY DEF FlowInv
<1> QED
  BY <1>1, FlowInvariant, PTL

(* A call returns the response to its own request.                         *)
THEOREM ResponsesOwn == FlowSpec => []OwnResponse
<1>1. FlowInv => OwnResponse
  BY DEF FlowInv
<1> QED
  BY <1>1, FlowInvariant, PTL

(* A task in ngx_thread_pool_done is announced to the event loop.          *)
THEOREM CompletionsAnnounced == FlowSpec => []NoLostCompletion
<1>1. FlowInit => NoLostCompletion
  BY DEF FlowInit, NoLostCompletion
<1>2. NoLostCompletion /\ [FlowNext]_flowVars => NoLostCompletion'
  <2> SUFFICES ASSUME NoLostCompletion, [FlowNext]_flowVars
               PROVE  NoLostCompletion'
    OBVIOUS
  <2>1. CASE UNCHANGED <<done, notified, unnotified>>
    BY <2>1 DEF NoLostCompletion
  <2>2. CASE Notify \/ ThreadPoolHandler \/ unnotified'
    BY <2>2 DEF NoLostCompletion, Notify, ThreadPoolHandler
  <2> QED
    BY <2>1, <2>2
    DEF FlowNext, LuaStep, flowVars, doneVars, Call, CallRefused,
        CallAfterUnload, Unload, Abort, OtherOperation, Exit, Start, PollTask,
        RespondTask, Inject, DropTask, Resume
<1> QED
  BY <1>1, <1>2, PTL DEF FlowSpec

-----------------------------------------------------------------------------
(* Refinement of the specification of runtime:call().                      *)

(* Every step is a step of CallSpec or leaves its variables alone.         *)
LEMMA CallRefinement ==
  FlowInv /\ [FlowNext]_flowVars => [API!Next]_(API!vars)
<1> SUFFICES ASSUME FlowInv, [FlowNext]_flowVars
             PROVE  API!Next \/ UNCHANGED API!vars
  OBVIOUS
<1>1. UNCHANGED <<finished, co, asked, result>> => UNCHANGED API!vars
  BY DEF API!vars
<1>2. ASSUME NEW c \in Coroutine, NEW t \in Task, NEW q \in Req, Call(c, t, q)
      PROVE  API!Next
  <2>1. API!Send(c, q)
    BY <1>2 DEF Call, Post, API!Send
  <2> QED
    BY <2>1 DEF API!Next
<1>3. ASSUME NEW c \in Coroutine, NEW t \in Task, CallRefused(c, t)
      PROVE  API!Next
  <2>1. API!Fail(c)
    BY <1>3 DEF CallRefused, vars, API!Fail
  <2> QED
    BY <2>1 DEF API!Next
<1>4. ASSUME NEW c \in Coroutine, CallAfterUnload(c)
      PROVE  API!Next
  <2>1. API!Fail(c)
    BY <1>4 DEF CallAfterUnload, vars, API!Fail
  <2> QED
    BY <2>1 DEF API!Next
<1>5. ASSUME NEW c \in Coroutine, Unload(c)
      PROVE  API!Next
  <2>1. API!Close
    BY <1>5 DEF Unload, Finish, luaVars, API!Close
  <2> QED
    BY <2>1 DEF API!Next
<1>6. ASSUME NEW c \in Coroutine, Abort(c) \/ Exit(c)
      PROVE  API!Next
  <2>1. API!End(c)
    BY <1>6 DEF Abort, Exit, vars, API!End
  <2> QED
    BY <2>1 DEF API!Next
<1>7. ASSUME NEW c \in Coroutine, Start(c)
      PROVE  API!Next
  <2>1. API!Start(c)
    BY <1>7 DEF Start, vars, API!Start
  <2> QED
    BY <2>1 DEF API!Next
<1>8. ASSUME NEW c \in Coroutine, OtherOperation(c)
      PROVE  UNCHANGED API!vars
  BY <1>1, <1>8 DEF OtherOperation, vars
<1>9. ASSUME NEW p \in Poller, PollTask(p)
      PROVE  UNCHANGED API!vars
  <2>1. UNCHANGED finished
    BY <1>9 DEF PollTask, Poll, PollEnter, PollWake, FreeQueue, SpuriousWakeup,
                LockFails, WaitFails, UnlockFails
  <2> QED
    BY <1>1, <1>9, <2>1 DEF PollTask, luaVars
<1>10. ASSUME NEW t \in Task, NEW ok \in BOOLEAN, RespondTask(t, ok)
       PROVE  UNCHANGED API!vars
  BY <1>1, <1>10 DEF RespondTask, Respond, luaVars
<1>11. CASE Notify \/ ThreadPoolHandler \/ DropTask
  BY <1>1, <1>11 DEF Notify, ThreadPoolHandler, DropTask, vars, luaVars
<1>12. CASE Resume
  <2> DEFINE t == Head(batch)
             c == ctx[t].co
             r == ctx[t].rsp
  <2>1. /\ c \in Coroutine /\ co[c] = "yield"
        /\ r \in API!Result /\ r.rsp = asked[c]
        /\ API!Become(c, "run", asked[c], r)
    BY <1>12, ResumeTarget
  <2>2. UNCHANGED finished
    BY <1>12 DEF Resume, vars
  <2> HIDE DEF t, c, r
  <2>3. r.ok \in BOOLEAN /\ r = [ok |-> r.ok, rsp |-> asked[c]]
    BY <2>1 DEF API!Result
  <2>4. API!Deliver(c, r.ok)
    BY <2>1, <2>2, <2>3 DEF API!Deliver
  <2> QED
    BY <2>1, <2>3, <2>4 DEF API!Next
<1>13. CASE UNCHANGED flowVars
  BY <1>1, <1>13 DEF flowVars, vars, luaVars
<1> QED
  BY <1>2, <1>3, <1>4, <1>5, <1>6, <1>7, <1>8, <1>9, <1>10, <1>11, <1>12, <1>13
  DEF FlowNext, LuaStep

(* Queues, threads, kills, address reuse and failing pthread calls are     *)
(* invisible to the Lua code: what it sees is CallSpec.                    *)
THEOREM FlowRefinesCallSpec == FlowSpec => RefinesCallSpec
<1>1. FlowInit => API!Init
  BY DEF FlowInit, Init, API!Init
<1> QED
  BY <1>1, FlowInvariant, CallRefinement, PTL
  DEF FlowSpec, RefinesCallSpec, API!Spec

-----------------------------------------------------------------------------
(* Cleanup handlers.                                                       *)

(* Every step but a refused call keeps the handlers right.  The task that  *)
(* the event handler frees was that of the coroutine it resumes, or, when  *)
(* it is dropped, nobody's.                                                *)
LEMMA CleanupStep ==
  ASSUME FlowInv, CleanupTarget, [FlowNext]_flowVars,
         \A c \in Coroutine, t \in Task : ~CallRefused(c, t)
  PROVE  CleanupTarget'
<1> DEFINE Pending(d) == cleanup[d] # None =>
                           /\ cleanup[d] \in Heap
                           /\ ctx[cleanup[d]].co = d
                           /\ co[d] = "yield"
           Waiting(d) == co[d] = "yield" =>
                           cleanup[d] # None /\ ~ctx[cleanup[d]].abort
<1>1. FlowTypeOK /\ taken \subseteq Heap
  BY DEF FlowInv, TaskPlaces
<1>2. \A d \in Coroutine : Pending(d) /\ Waiting(d)
  BY DEF CleanupTarget
<1>3. SUFFICES \A d \in Coroutine : Pending(d)' /\ Waiting(d)'
  BY DEF CleanupTarget
<1>4. /\ None \in Req \cup {None} /\ None \in API!Result \cup {None}
      /\ None \in Task \cup {None} /\ API!Failure \in API!Result \cup {None}
  BY FailureType
<1>5. ASSUME NEW d \in Coroutine, co'[d] = co[d], cleanup'[d] = cleanup[d],
             cleanup[d] \in Heap => /\ cleanup[d] \in Heap'
                                    /\ ctx'[cleanup[d]].co = ctx[cleanup[d]].co
                                    /\ ctx'[cleanup[d]].abort = ctx[cleanup[d]].abort
      PROVE  Pending(d)' /\ Waiting(d)'
  BY <1>2, <1>5
<1>6. ASSUME NEW d \in Coroutine, co'[d] # "yield", cleanup'[d] = None
      PROVE  Pending(d)' /\ Waiting(d)'
  BY <1>6
<1>7. ASSUME UNCHANGED <<ctx, co, cleanup>>
      PROVE  <1>3!1
  <2>1. Heap' = Heap
    BY <1>7 DEF Heap
  <2> QED
    BY <1>5, <1>7, <2>1
<1>8. ASSUME NEW c \in Coroutine, NEW t \in Task, NEW q \in Req, Call(c, t, q)
      PROVE  <1>3!1
  <2>1. /\ Heap' = Heap \cup {t} /\ \A u \in Heap : ctx'[u] = ctx[u]
        /\ ctx'[t].co = c /\ ctx'[t].abort = FALSE
    BY <1>1, <1>8, CallCtx
  <2>2. cleanup'[c] = t /\ \A d \in Coroutine : d # c => cleanup'[d] = cleanup[d]
    BY <1>1, <1>8, SetCleanupOne DEF Call, SetCleanup
  <2>3. co'[c] = "yield" /\ \A d \in Coroutine : d # c => co'[d] = co[d]
    BY <1>1, <1>4, <1>8, BecomeOne DEF Call
  <2>4. t # None
    BY NoneAssumption
  <2>5. Pending(c)' /\ Waiting(c)'
    BY <2>1, <2>2, <2>3, <2>4
  <2> QED
    BY <1>5, <2>1, <2>2, <2>3, <2>5
<1>9. ASSUME NEW c \in Coroutine, CallAfterUnload(c)
      PROVE  <1>3!1
  <2>1. co[c] = "run" /\ co'[c] = "run" /\ \A d \in Coroutine : d # c => co'[d] = co[d]
    BY <1>1, <1>4, <1>9, BecomeOne DEF CallAfterUnload
  <2>2. UNCHANGED <<ctx, cleanup>> /\ Heap' = Heap
    BY <1>9 DEF CallAfterUnload, Heap
  <2> QED
    BY <1>5, <2>1, <2>2
<1>10. ASSUME NEW c \in Coroutine, Abort(c)
       PROVE  <1>3!1
  <2>1. co'[c] = "dead" /\ \A d \in Coroutine : d # c => co'[d] = co[d]
    BY <1>1, <1>4, <1>10, BecomeOne DEF Abort
  <2>2. RunCleanup(c)
    BY <1>10 DEF Abort
  <2>3. cleanup'[c] = None /\ \A d \in Coroutine : d # c => cleanup'[d] = cleanup[d]
    BY <1>1, <1>4, <2>2, SetCleanupOne DEF RunCleanup
  <2>4. Heap' = Heap
        /\ \A u \in Heap : /\ ctx'[u].co = ctx[u].co
                           /\ u # cleanup[c] => ctx'[u].abort = ctx[u].abort
    BY <1>1, <2>2, CleanupCtx
  <2>5. \A d \in Coroutine : d # c /\ cleanup[d] \in Heap => cleanup[d] # cleanup[c]
    <3>1. \A u \in Heap : u # None
      BY NoneAssumption DEF Heap
    <3> QED
      BY <1>2, <3>1
  <2>6. ASSUME NEW d \in Coroutine, d # c
        PROVE  Pending(d)' /\ Waiting(d)'
    BY <1>5, <2>1, <2>3, <2>4, <2>5, <2>6
  <2>7. Pending(c)' /\ Waiting(c)'
    BY <1>6, <2>1, <2>3
  <2> QED
    BY <2>6, <2>7
<1>11. ASSUME NEW c \in Coroutine
       PROVE  ~OtherOperation(c)
  BY <1>2 DEF OtherOperation
<1>12. ASSUME NEW c \in Coroutine, Exit(c)
       PROVE  <1>3!1
  <2>1. co'[c] = "dead" /\ \A d \in Coroutine : d # c => co'[d] = co[d]
    BY <1>1, <1>4, <1>12, BecomeOne DEF Exit
  <2>2. cleanup'[c] = None /\ \A d \in Coroutine : d # c => cleanup'[d] = cleanup[d]
    BY <1>1, <1>4, <1>12, SetCleanupOne DEF Exit, SetCleanup
  <2>3. UNCHANGED ctx /\ Heap' = Heap
    BY <1>12 DEF Exit, Heap
  <2> QED
    BY <1>5, <1>6, <2>1, <2>2, <2>3
<1>13. ASSUME NEW c \in Coroutine, Start(c)
       PROVE  <1>3!1
  <2>1. /\ co[c] = "dead" /\ co'[c] = "run"
        /\ \A d \in Coroutine : d # c => co'[d] = co[d]
    BY <1>1, <1>4, <1>13, BecomeOne DEF Start
  <2>2. UNCHANGED <<ctx, cleanup>> /\ Heap' = Heap
    BY <1>13 DEF Start, Heap
  <2>3. cleanup'[c] = None
    BY <1>2, <2>1, <2>2
  <2> QED
    BY <1>5, <1>6, <2>1, <2>2, <2>3
<1>14. ASSUME NEW t \in Task, NEW ok \in BOOLEAN, RespondTask(t, ok)
       PROVE  <1>3!1
  <2>1. Heap' = Heap
        /\ \A u \in Heap : ctx'[u].co = ctx[u].co /\ ctx'[u].abort = ctx[u].abort
    BY <1>1, <1>14, RespondCtx
  <2>2. UNCHANGED <<co, cleanup>>
    BY <1>14 DEF RespondTask, luaVars
  <2> QED
    BY <1>5, <2>1, <2>2
<1>15. CASE DropTask
  <2> DEFINE t == Head(batch)
  <2>1. t \in Task /\ Free(t) /\ Stale(t) /\ UNCHANGED <<co, cleanup>>
    BY <1>1, <1>15, TailSet DEF DropTask, FlowTypeOK, luaVars
  <2> HIDE DEF t
  <2>2. Heap' = Heap \ {t} /\ \A u \in Heap' : ctx'[u] = ctx[u]
    BY <1>1, <2>1, FreeCtx
  <2>3. t # None
    BY <2>1, NoneAssumption
  <2>4. \A d \in Coroutine : cleanup[d] # t
    BY <1>2, <2>1, <2>3 DEF Stale
  <2> QED
    BY <1>5, <2>1, <2>2, <2>4
<1>16. CASE Resume
  <2> DEFINE t == Head(batch)
             c == ctx[t].co
  <2>1. /\ t \in Heap /\ c \in Coroutine /\ cleanup[c] = t
        /\ ctx[t].rsp \in API!Result
        /\ Free(t) /\ SetCleanup(c, None)
        /\ API!Become(c, "run", asked[c], ctx[t].rsp)
    BY <1>16, ResumeTarget
  <2>2. ctx[t].co = c
    OBVIOUS
  <2> HIDE DEF t, c
  <2>3. Heap' = Heap \ {t} /\ \A u \in Heap' : ctx'[u] = ctx[u]
    BY <1>1, <2>1, HeapCtx, FreeCtx
  <2>4. asked[c] \in Req \cup {None}
    BY <1>1, <2>1 DEF FlowTypeOK
  <2>5. co'[c] = "run" /\ \A d \in Coroutine : d # c => co'[d] = co[d]
    BY <1>1, <2>1, <2>4, BecomeOne
  <2>6. cleanup'[c] = None /\ \A d \in Coroutine : d # c => cleanup'[d] = cleanup[d]
    BY <1>1, <1>4, <2>1, SetCleanupOne DEF SetCleanup
  <2>7. t # None
    BY <2>1, NoneAssumption DEF Heap
  <2>8. \A d \in Coroutine : d # c => cleanup[d] # t
    BY <1>2, <2>2, <2>7
  <2>9. ASSUME NEW d \in Coroutine, d # c
        PROVE  Pending(d)' /\ Waiting(d)'
    BY <1>5, <2>3, <2>5, <2>6, <2>8, <2>9
  <2>10. ASSUME NEW d \in Coroutine, d = c
         PROVE  Pending(d)' /\ Waiting(d)'
    BY <1>6, <2>5, <2>6, <2>10
  <2> QED
    BY <2>9, <2>10
<1> HIDE DEF Pending, Waiting
<1> QED
  BY <1>7, <1>8, <1>9, <1>10, <1>11, <1>12, <1>13, <1>14, <1>15, <1>16
  DEF FlowNext, LuaStep, flowVars, luaVars, Unload, PollTask, Notify,
      ThreadPoolHandler

(* A list without repetition is no longer than the set it draws from.      *)
LEMMA OnceLength ==
  ASSUME NEW S, IsFiniteSet(S), NEW s \in Seq(S), Once(s)
  PROVE  Len(s) <= Cardinality(S)
<1>1. Len(s) \in Nat /\ s \in [1..Len(s) -> S]
  BY LenProperties
<1>2. s \in Injection(1..Len(s), S)
  BY <1>1 DEF Once, Injection, IsInjective
<1>3. Cardinality(1..Len(s)) <= Cardinality(S)
  BY <1>2, FS_Injection
<1>4. Cardinality(1..Len(s)) = Len(s)
  BY <1>1, FS_Interval
<1> QED
  BY <1>3, <1>4

(* With max_queue addresses for tasks the list cannot be full while one is *)
(* free: no call is refused before unload.                                 *)
LEMMA NoRefusal ==
  ASSUME FlowInv, CountInv, ~PthreadFails,
         IsFiniteSet(Task), Cardinality(Task) <= MaxQueue,
         NEW c \in Coroutine, NEW t \in Task
  PROVE  ~CallRefused(c, t)
<1> SUFFICES ASSUME ~finished, t \notin Heap
             PROVE  ~Full
  BY DEF CallRefused
<1> DEFINE S == Task \ {t}
<1>1. TypeOK /\ queue \in Seq(Task \cup {Fin}) /\ waiting \in Int
  BY DEF FlowInv, FlowTypeOK, TypeOK
<1>2. Fin \notin Range(queue)
  BY DEF FlowInv, UnloadInv, FinLast
<1>3. Once(queue) /\ Range(queue) \subseteq S
  BY <1>2 DEF FlowInv, TaskPlaces, Heap
<1>4. queue \in Seq(S)
  <2>1. Len(queue) \in Nat /\ DOMAIN queue = 1..Len(queue)
        /\ queue \in [1..Len(queue) -> Task \cup {Fin}]
    BY <1>1, LenProperties
  <2>2. \A i \in 1..Len(queue) : queue[i] \in S
    BY <1>3, <2>1 DEF Range
  <2> QED
    BY <2>1, <2>2, SeqDef
<1>5. /\ IsFiniteSet(S) /\ Cardinality(S) = Cardinality(Task) - 1
      /\ Cardinality(Task) \in Nat
  BY FS_RemoveElement, FS_CardinalityType
<1> HIDE DEF S
<1>6. Len(queue) <= Cardinality(S)
  BY <1>3, <1>4, <1>5, OnceLength
<1>7. Cardinality(Blocked) \in Nat
  BY Subsets, Counts
<1>8. waiting <= Len(queue) - Cardinality(Blocked) /\ Len(queue) \in Nat
  BY <1>1, LenProperties DEF CountInv, WaitingCount
<1> QED
  BY <1>1, <1>5, <1>6, <1>7, <1>8, MaxQueueAssumption DEF Full

(* In a behaviour in which no call is refused, every pending cleanup       *)
(* handler is about the task its coroutine waits for, and every suspended  *)
(* coroutine has one: killing it marks its own task and no other.          *)
THEOREM CleanupUnlessRefused ==
  FlowSpec /\ [][\A c \in Coroutine, t \in Task : ~CallRefused(c, t)]_flowVars
    => []CleanupTarget
<1>1. FlowInit => CleanupTarget
  BY DEF FlowInit, CleanupTarget
<1>2. ASSUME FlowInv, CleanupTarget, [FlowNext]_flowVars,
             [\A c \in Coroutine, t \in Task : ~CallRefused(c, t)]_flowVars
      PROVE  CleanupTarget'
  <2>1. CASE \A c \in Coroutine, t \in Task : ~CallRefused(c, t)
    BY <1>2, <2>1, CleanupStep
  <2>2. CASE UNCHANGED flowVars
    <3>1. UNCHANGED <<ctx, co, cleanup>> /\ Heap' = Heap
      BY <2>2 DEF flowVars, luaVars, Heap
    <3> QED
      BY <1>2, <3>1 DEF CleanupTarget
  <2> QED
    BY <1>2, <2>1, <2>2
<1> QED
  BY <1>1, <1>2, FlowInvariant, PTL DEF FlowSpec

(* No call is refused, hence the handlers are right, when pthread calls do *)
(* not fail and no more tasks are in flight than max_queue.                *)
THEOREM CleanupCorrect ==
  ASSUME ~PthreadFails, IsFiniteSet(Task), Cardinality(Task) <= MaxQueue
  PROVE  FlowSpec => []CleanupTarget
<1>1. FlowInit => CleanupTarget /\ CountInv
  BY InitCount DEF FlowInit, CleanupTarget
<1>2. FlowInv /\ CountInv /\ [FlowNext]_flowVars => CountInv'
  BY CountStep, QueueRefinement DEF FlowInv, FlowTypeOK
<1>3. FlowInv /\ CountInv /\ CleanupTarget /\ [FlowNext]_flowVars => CleanupTarget'
  BY NoRefusal, CleanupStep
<1> QED
  BY <1>1, <1>2, <1>3, FlowInvariant, PTL DEF FlowSpec

(* When calls are refused, which CleanupTarget does not survive: a handler *)
(* that is pending in a running coroutine was left by its last call, which *)
(* was refused; a coroutine that waits has a handler, one that ended none. *)
THEOREM LeftoversKnown == FlowSpec => []HandlerLeftByRefusal
<1> DEFINE Left(d) == /\ co[d] = "yield" => cleanup[d] # None
                      /\ co[d] = "run" /\ cleanup[d] # None => result[d] = API!Failure
                      /\ co[d] = "dead" => cleanup[d] = None
<1>1. FlowInit => HandlerLeftByRefusal
  BY DEF FlowInit, HandlerLeftByRefusal, API!Init
<1>2. ASSUME FlowInv, HandlerLeftByRefusal, [FlowNext]_flowVars
      PROVE  HandlerLeftByRefusal'
  <2>1. FlowTypeOK
    BY <1>2 DEF FlowInv
  <2>2. \A d \in Coroutine : Left(d)
    BY <1>2 DEF HandlerLeftByRefusal
  <2>3. SUFFICES \A d \in Coroutine : Left(d)'
    BY DEF HandlerLeftByRefusal, API!Failure
  <2>4. /\ None \in Req \cup {None} /\ None \in API!Result \cup {None}
        /\ None \in Task \cup {None} /\ API!Failure \in API!Result \cup {None}
    BY FailureType
  <2>5. ASSUME NEW d \in Coroutine, co'[d] = co[d], cleanup'[d] = cleanup[d],
               result'[d] = result[d]
        PROVE  Left(d)'
    BY <2>2, <2>5 DEF API!Failure
  <2>6. ASSUME NEW d \in Coroutine, cleanup'[d] = None, co'[d] # "yield"
        PROVE  Left(d)'
    BY <2>6
  <2>7. ASSUME UNCHANGED <<co, cleanup, result>>
        PROVE  <2>3!1
    BY <2>5, <2>7
  <2>8. ASSUME NEW c \in Coroutine, NEW t \in Task, NEW q \in Req, Call(c, t, q)
        PROVE  <2>3!1
    <3>1. cleanup'[c] = t /\ \A d \in Coroutine : d # c => cleanup'[d] = cleanup[d]
      BY <2>1, <2>8, SetCleanupOne DEF Call, SetCleanup
    <3>2. /\ co'[c] = "yield"
          /\ \A d \in Coroutine : d # c => co'[d] = co[d] /\ result'[d] = result[d]
      BY <2>1, <2>4, <2>8, BecomeOne DEF Call
    <3>3. t # None
      BY NoneAssumption
    <3> QED
      BY <2>5, <3>1, <3>2, <3>3
  <2>9. ASSUME NEW c \in Coroutine, NEW t \in Task, CallRefused(c, t)
        PROVE  <2>3!1
    <3>1. \A d \in Coroutine : d # c => cleanup'[d] = cleanup[d]
      BY <2>1, <2>9, SetCleanupOne DEF CallRefused, SetCleanup
    <3>2. /\ co'[c] = "run" /\ result'[c] = API!Failure
          /\ \A d \in Coroutine : d # c => co'[d] = co[d] /\ result'[d] = result[d]
      BY <2>1, <2>4, <2>9, BecomeOne DEF CallRefused
    <3> QED
      BY <2>5, <3>1, <3>2 DEF API!Failure
  <2>10. ASSUME NEW c \in Coroutine, CallAfterUnload(c)
         PROVE  <2>3!1
    <3>1. /\ co'[c] = "run" /\ result'[c] = API!Failure
          /\ \A d \in Coroutine : d # c => co'[d] = co[d] /\ result'[d] = result[d]
      BY <2>1, <2>4, <2>10, BecomeOne DEF CallAfterUnload
    <3>2. UNCHANGED cleanup
      BY <2>10 DEF CallAfterUnload
    <3> QED
      BY <2>5, <3>1, <3>2 DEF API!Failure
  <2>11. ASSUME NEW c \in Coroutine, Abort(c) \/ Exit(c)
         PROVE  <2>3!1
    <3>1. cleanup'[c] = None /\ \A d \in Coroutine : d # c => cleanup'[d] = cleanup[d]
      BY <2>1, <2>4, <2>11, SetCleanupOne DEF Abort, Exit, RunCleanup, SetCleanup
    <3>2. /\ co'[c] = "dead"
          /\ \A d \in Coroutine : d # c => co'[d] = co[d] /\ result'[d] = result[d]
      BY <2>1, <2>4, <2>11, BecomeOne DEF Abort, Exit
    <3> QED
      BY <2>5, <2>6, <3>1, <3>2
  <2>12. ASSUME NEW c \in Coroutine, OtherOperation(c)
         PROVE  <2>3!1
    <3>1. cleanup'[c] = None /\ \A d \in Coroutine : d # c => cleanup'[d] = cleanup[d]
      BY <2>1, <2>4, <2>12, SetCleanupOne DEF OtherOperation, RunCleanup
    <3>2. co[c] = "run" /\ UNCHANGED <<co, result>>
      BY <2>12 DEF OtherOperation
    <3> QED
      BY <2>5, <2>6, <3>1, <3>2
  <2>13. ASSUME NEW c \in Coroutine, Start(c)
         PROVE  <2>3!1
    <3>1. /\ co[c] = "dead" /\ co'[c] = "run"
          /\ \A d \in Coroutine : d # c => co'[d] = co[d] /\ result'[d] = result[d]
      BY <2>1, <2>4, <2>13, BecomeOne DEF Start
    <3>2. UNCHANGED cleanup /\ cleanup[c] = None
      BY <2>2, <2>13, <3>1 DEF Start
    <3> QED
      BY <2>5, <2>6, <3>1, <3>2
  <2>14. CASE Resume
    <3> DEFINE t == Head(batch)
               c == ctx[t].co
    <3>1. /\ c \in Coroutine /\ ctx[t].rsp \in API!Result
          /\ SetCleanup(c, None) /\ API!Become(c, "run", asked[c], ctx[t].rsp)
      BY <1>2, <2>14, ResumeTarget
    <3> HIDE DEF t, c
    <3>2. asked[c] \in Req \cup {None}
      BY <2>1, <3>1 DEF FlowTypeOK
    <3>3. /\ co'[c] = "run"
          /\ \A d \in Coroutine : d # c => co'[d] = co[d] /\ result'[d] = result[d]
      BY <2>1, <3>1, <3>2, BecomeOne
    <3>4. cleanup'[c] = None /\ \A d \in Coroutine : d # c => cleanup'[d] = cleanup[d]
      BY <2>1, <2>4, <3>1, SetCleanupOne DEF SetCleanup
    <3> QED
      BY <2>5, <2>6, <3>3, <3>4
  <2> HIDE DEF Left
  <2> QED
    BY <1>2, <2>7, <2>8, <2>9, <2>10, <2>11, <2>12, <2>13, <2>14
    DEF FlowNext, LuaStep, flowVars, luaVars, Unload, PollTask, RespondTask,
        Notify, ThreadPoolHandler, DropTask
<1> QED
  BY <1>1, <1>2, FlowInvariant, PTL DEF FlowSpec

-----------------------------------------------------------------------------
(* What the call flow takes over from the queue.                           *)

(* The theorems about the queue hold while its tasks are allocated,        *)
(* answered and freed elsewhere, in particular when an address is used     *)
(* again: counting, wakeups, and the end of the queue are as in TaskQueue. *)
THEOREM QueueInFlow ==
  FlowSpec => []( /\ WaitingCount /\ QueueBound /\ NoLostWakeup
                  /\ FinLast /\ DrainedBeforeFree /\ FreedOnce )
BY FlowIsQueue, WaitingCountCorrect, QueueBounded, WakeupsSuffice,
   FinIsLast, Drained, FreedAtMostOnce, PTL

(* With one poll thread no access to the queue follows its deallocation,   *)
(* whatever the Lua code does: a call or an unload that the code admits    *)
(* finds the queue allocated, and so does a thread that is in task_poll.   *)
THEOREM QueueNotUsedAfterFree ==
  ASSUME \A p, q \in Poller : p = q
  PROVE  FlowSpec => [](NoPollerOnFreedQueue /\ (~finished => alive))
<1>1. Spec => []NoPollerOnFreedQueue
  BY SinglePollerSafe
<1>2. DrainedBeforeFree => (~finished => alive)
  BY DEF DrainedBeforeFree
<1> QED
  BY <1>1, <1>2, FlowIsQueue, Drained, PTL

=============================================================================

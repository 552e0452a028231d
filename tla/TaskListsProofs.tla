-------------------------- MODULE TaskListsProofs --------------------------
(***************************************************************************)
(* The linked lists are the sequences of CallFlow, for any numbers of      *)
(* tasks, pollers and coroutines.                                          *)
(***************************************************************************)
EXTENDS TaskLists, CallFlowProofs

(* Chain and Spells for any assignment nx of the fields `next'.            *)
ChainIn(nx, s, f) ==
  IF s = <<>> THEN f = None
  ELSE /\ f = s[1]
       /\ \A i \in 1 .. Len(s) - 1 : nx[s[i]] = s[i + 1]
       /\ nx[s[Len(s)]] = None

SpellsIn(nx, l, s) ==
  ChainIn(nx, s, l.first) /\ l.last = IF s = <<>> THEN None ELSE s[Len(s)]

(* What is written to the field `next' when t is linked into l.            *)
LinkIn(nx, l, t) ==
  LET cleared == [nx EXCEPT ![t] = None]
  IN IF l.last = None THEN cleared ELSE [cleared EXCEPT ![l.last] = t]

(* A list is not changed by what happens to other tasks.                   *)
LEMMA ChainKept ==
  ASSUME NEW S, NEW s \in Seq(S), NEW nx, NEW mx, NEW f,
         \A x \in Range(s) : mx[x] = nx[x],
         ChainIn(nx, s, f)
  PROVE  ChainIn(mx, s, f)
<1>1. CASE s = <<>>
  BY <1>1 DEF ChainIn
<1>2. CASE s # <<>>
  <2>1. Len(s) \in Nat \ {0} /\ DOMAIN s = 1 .. Len(s)
    BY <1>2, LenProperties, EmptySeq
  <2>2. \A i \in 1 .. Len(s) : mx[s[i]] = nx[s[i]]
    BY <2>1 DEF Range
  <2> QED
    BY <1>2, <2>1, <2>2 DEF ChainIn
<1> QED
  BY <1>1, <1>2

(* The last task of a list is in it.                                       *)
LEMMA LastIn ==
  ASSUME NEW S, NEW s \in Seq(S), s # <<>>
  PROVE  s[Len(s)] \in Range(s) /\ s[Len(s)] \in S
<1>1. Len(s) \in Nat \ {0} /\ DOMAIN s = 1 .. Len(s)
  BY LenProperties, EmptySeq
<1> QED
  BY <1>1, ElementOfSeq DEF Range

(* An index that is not the last has a successor.                          *)
LEMMA NotLast ==
  ASSUME NEW n \in Nat, NEW i \in 1 .. n, i # n
  PROVE  i \in 1 .. n - 1 /\ i + 1 \in 1 .. n
OBVIOUS

(* t is appended, and no field of a task that is not in the list changes.  *)
Appended(nx, l, s, t) ==
  /\ SpellsIn(LinkIn(nx, l, t), Link(l, t), Append(s, t))
  /\ \A x \in Node : x \notin Range(s) /\ x # t => LinkIn(nx, l, t)[x] = nx[x]

(* That is what linking a task does that is not in the list.               *)
LEMMA LinkAppends ==
  ASSUME None \notin Node, NEW s \in Seq(Node), NEW t \in Node, Once(s),
         t \notin Range(s), NEW nx \in [Node -> Node \cup {None}], NEW l,
         SpellsIn(nx, l, s)
  PROVE  Appended(nx, l, s, t)
<1> DEFINE a == Append(s, t)
           mx == LinkIn(nx, l, t)
           k == Link(l, t)
<1>1. /\ a \in Seq(Node) /\ Len(a) = Len(s) + 1 /\ a # <<>>
      /\ \A i \in 1 .. Len(s) : a[i] = s[i]
      /\ a[Len(s) + 1] = t
  BY AppendProperties
<1>2. Len(s) \in Nat /\ DOMAIN s = 1 .. Len(s)
  BY LenProperties
<1> HIDE DEF a
<1>3. CASE s = <<>>
  <2>1. Len(s) = 0 /\ l.last = None
    BY <1>3 DEF SpellsIn
  <2>2. k.first = t /\ k.last = t /\ mx = [nx EXCEPT ![t] = None]
    BY <2>1 DEF Link, LinkIn
  <2>3. mx[t] = None /\ \A x \in Node : x # t => mx[x] = nx[x]
    BY <2>2
  <2> HIDE DEF mx, k
  <2>4. Len(a) = 1 /\ a[1] = t
    BY <1>1, <2>1
  <2>5. SpellsIn(mx, k, a)
    BY <1>1, <2>2, <2>3, <2>4 DEF SpellsIn, ChainIn
  <2> QED
    BY <2>3, <2>5 DEF a, mx, k, Appended
<1>4. CASE s # <<>>
  <2> DEFINE z == s[Len(s)]
  <2>1. z \in Range(s) /\ z \in Node /\ z # t /\ z # None
    BY <1>4, LastIn
  <2>2. l.last = z /\ l.first = s[1]
    BY <1>4 DEF SpellsIn, ChainIn
  <2>3. Len(s) \in Nat \ {0}
    BY <1>2, <1>4, EmptySeq
  <2>4. \A i \in 1 .. Len(s) - 1 : s[i] \in Node /\ s[i] # z /\ s[i] # t
    BY <1>2, <2>3 DEF Once, Range
  <2> HIDE DEF z
  <2>5. k.first = s[1] /\ k.last = t
        /\ mx = [[nx EXCEPT ![t] = None] EXCEPT ![z] = t]
    BY <2>1, <2>2 DEF Link, LinkIn
  <2>6. mx[t] = None /\ mx[z] = t /\ \A x \in Node : x # t /\ x # z => mx[x] = nx[x]
    BY <2>1, <2>5
  <2> HIDE DEF mx, k
  <2>7. \A i \in 1 .. Len(s) - 1 : mx[s[i]] = s[i + 1]
    BY <1>4, <2>4, <2>6 DEF SpellsIn, ChainIn
  <2>8. \A i \in 1 .. Len(a) - 1 : mx[a[i]] = a[i + 1]
    <3> SUFFICES ASSUME NEW i \in 1 .. Len(s) PROVE mx[a[i]] = a[i + 1]
      BY <1>1, <1>2
    <3>1. CASE i = Len(s)
      BY <1>1, <2>3, <2>6, <3>1 DEF z
    <3>2. CASE i # Len(s)
      <4>1. i \in 1 .. Len(s) - 1 /\ i + 1 \in 1 .. Len(s)
        BY <1>2, <3>2, NotLast
      <4>2. a[i] = s[i] /\ a[i + 1] = s[i + 1]
        BY <1>1, <4>1
      <4> QED
        BY <2>7, <4>1, <4>2
    <3> QED
      BY <3>1, <3>2
  <2>9. a[1] = s[1] /\ a[Len(a)] = t
    BY <1>1, <2>3
  <2>10. SpellsIn(mx, k, a)
    BY <1>1, <2>5, <2>6, <2>8, <2>9 DEF SpellsIn, ChainIn
  <2> QED
    BY <2>1, <2>6, <2>10 DEF a, mx, k, Appended
<1> QED
  BY <1>3, <1>4

(* The rest of a list is found through its first task, and `last' is the   *)
(* last task of the rest, if there is one.                                 *)
LEMMA RestOfChain ==
  ASSUME NEW S, None \notin S, NEW s \in Seq(S), s # <<>>, NEW nx, NEW f,
         ChainIn(nx, s, f)
  PROVE  /\ f = Head(s) /\ ChainIn(nx, Tail(s), nx[f])
         /\ nx[f] = None <=> Tail(s) = <<>>
         /\ Tail(s) # <<>> => Tail(s)[Len(Tail(s))] = s[Len(s)]
<1> DEFINE u == Tail(s)
<1>1. /\ u \in Seq(S) /\ Len(u) = Len(s) - 1
      /\ \A i \in 1 .. Len(u) : u[i] = s[i + 1]
  BY HeadTailProperties
<1>2. Len(s) \in Nat \ {0} /\ Head(s) = s[1] /\ DOMAIN s = 1 .. Len(s)
  BY LenProperties, EmptySeq
<1>3. f = s[1] /\ nx[s[Len(s)]] = None
      /\ \A i \in 1 .. Len(s) - 1 : nx[s[i]] = s[i + 1]
  BY DEF ChainIn
<1>4. Len(u) = 0 <=> u = <<>>
  BY <1>1, EmptySeq
<1> HIDE DEF u
<1>5. CASE u = <<>>
  <2>1. Len(s) = 1
    BY <1>1, <1>2, <1>4, <1>5
  <2> QED
    BY <1>2, <1>3, <1>5, <2>1 DEF ChainIn, u
<1>6. CASE u # <<>>
  <2>1. Len(u) \in Nat \ {0} /\ Len(s) = Len(u) + 1
    BY <1>1, <1>2, <1>4, <1>6
  <2>2. u[1] = s[2] /\ u[Len(u)] = s[Len(s)] /\ nx[s[1]] = s[2] /\ s[2] \in S
    BY <1>1, <1>2, <1>3, <2>1
  <2>3. \A i \in 1 .. Len(u) - 1 : nx[u[i]] = u[i + 1]
    BY <1>1, <1>3, <2>1
  <2> QED
    BY <1>2, <1>3, <1>6, <2>2, <2>3 DEF ChainIn, u
<1> QED
  BY <1>5, <1>6

-----------------------------------------------------------------------------

(* The invariant: the lists, and a type for the fields.                    *)
ListInv ==
  /\ next \in [Node -> Node \cup {None}]
  /\ ListsSpell

(* ListsSpell, in this state and the next, in the terms of the lemmas.     *)
LEMMA SpellsAre ==
  /\ ListsSpell <=> /\ SpellsIn(next, tpList, queue)
                    /\ SpellsIn(next, doneList, done)
                    /\ ChainIn(next, batch, cursor)
  /\ ListsSpell' <=> /\ SpellsIn(next', tpList', queue')
                     /\ SpellsIn(next', doneList', done')
                     /\ ChainIn(next', batch', cursor')
BY DEF ListsSpell, Spells, Chain, SpellsIn, ChainIn

(* A step of the pointers is a step of CallFlow.                           *)
LEMMA ListIsFlow == [ListNext]_<<flowVars, listVars>> => [FlowNext]_flowVars
<1> SUFFICES ASSUME [ListNext]_<<flowVars, listVars>> PROVE [FlowNext]_flowVars
  OBVIOUS
<1>1. CASE UNCHANGED <<flowVars, listVars>>
  BY <1>1
<1>2. ASSUME NEW c \in Coroutine, NEW t \in Task, NEW q \in Req, ListCall(c, t, q)
      PROVE  FlowNext
  BY <1>2 DEF ListCall, FlowNext, LuaStep
<1>3. ASSUME NEW c \in Coroutine, ListUnload(c) \/ ListIdle(c) PROVE FlowNext
  BY <1>3 DEF ListUnload, ListIdle, FlowNext, LuaStep
<1>4. ASSUME NEW p \in Poller, ListPoll(p) PROVE FlowNext
  BY <1>4 DEF ListPoll, FlowNext
<1>5. ASSUME NEW t \in Task, NEW ok \in BOOLEAN, ListRespond(t, ok) PROVE FlowNext
  BY <1>5 DEF ListRespond, FlowNext
<1>6. CASE Notify \/ ListTake \/ ListHandle
  BY <1>6 DEF ListTake, ListHandle, FlowNext
<1> QED
  BY <1>1, <1>2, <1>3, <1>4, <1>5, <1>6 DEF ListNext

(* TaskLists conjoins the pointers to the actions of CallFlow, so what is  *)
(* proved of CallFlow holds here.                                          *)
LEMMA ListsAreFlow == ListSpec => FlowSpec
<1>1. ListInit => FlowInit
  BY DEF ListInit
<1> QED
  BY <1>1, ListIsFlow, PTL DEF ListSpec, FlowSpec

(* What the steps need to know of the places of tasks.                     *)
LEMMA Places ==
  ASSUME FlowInv
  PROVE  /\ queue \in Seq(Node) /\ done \in Seq(Node) /\ batch \in Seq(Node)
         /\ Once(queue) /\ Once(done) /\ Once(batch) /\ None \notin Node
         /\ Range(queue) \cap Range(done) = {} /\ Range(queue) \cap Range(batch) = {}
         /\ Range(done) \cap Range(batch) = {}
         /\ Range(queue) \subseteq Node /\ Range(done) \subseteq Task
         /\ Range(batch) \subseteq Task
<1>1. /\ queue \in Seq(Node) /\ done \in Seq(Task) /\ batch \in Seq(Task)
  BY DEF FlowInv, FlowTypeOK, TypeOK, Node
<1>2. done \in Seq(Node) /\ batch \in Seq(Node)
  BY <1>1 DEF Node
<1>3. /\ Range(queue) \subseteq Node /\ Range(done) \subseteq Task
      /\ Range(batch) \subseteq Task
  BY <1>1, LenProperties, ElementOfSeq DEF Range
<1> QED
  BY <1>1, <1>2, <1>3, NoneAssumption, FinNotNull DEF FlowInv, TaskPlaces, Node

(* ngx_task_post.                                                          *)
LEMMA PostKeeps ==
  ASSUME FlowInv, ListInv, NEW t \in Node, t \notin Range(queue),
         t \notin Range(done), t \notin Range(batch), LinkTask(t),
         queue' = Append(queue, t) \/ queue' = queue,
         UNCHANGED <<done, batch, doneList, cursor>>
  PROVE  ListInv'
<1>1. /\ next \in [Node -> Node \cup {None}] /\ SpellsIn(next, tpList, queue)
      /\ SpellsIn(next, doneList, done) /\ ChainIn(next, batch, cursor)
  BY SpellsAre DEF ListInv
<1>2. CASE queue' = queue
  BY <1>1, <1>2, SpellsAre DEF LinkTask, ListInv
<1>3. CASE queue' # queue
  <2>1. /\ queue' = Append(queue, t) /\ tpList' = Link(tpList, t)
        /\ next' = LinkIn(next, tpList, t)
    BY <1>3 DEF LinkTask, NextAfterLink, LinkIn
  <2>2. /\ SpellsIn(next', tpList', queue')
        /\ \A x \in Node : x \notin Range(queue) /\ x # t => next'[x] = next[x]
    <3>1. None \notin Node /\ queue \in Seq(Node) /\ Once(queue)
      BY Places
    <3>2. Appended(next, tpList, queue, t)
      BY <1>1, <3>1, LinkAppends
    <3> QED
      BY <2>1, <3>2, Zenon DEF Appended
  <2>3. next' \in [Node -> Node \cup {None}]
    BY <1>1, <2>1 DEF LinkIn
  <2>4. /\ \A x \in Range(done) : next'[x] = next[x]
        /\ \A x \in Range(batch) : next'[x] = next[x]
    BY <2>2, Places DEF Node
  <2>5. ChainIn(next', done, doneList.first) /\ ChainIn(next', batch, cursor)
    BY <1>1, <2>4, Places, ChainKept DEF SpellsIn
  <2> QED
    BY <1>1, <2>2, <2>3, <2>5, SpellsAre DEF ListInv, SpellsIn
<1> QED
  BY <1>2, <1>3

(* The task of a call comes from the allocator, the finish task is posted  *)
(* once: neither is in a list.                                             *)
LEMMA ListCallKeeps ==
  ASSUME FlowInv, ListInv, NEW c \in Coroutine, NEW t \in Task, NEW q \in Req,
         ListCall(c, t, q)
  PROVE  ListInv'
<1>1. t \notin Heap /\ queue' = Append(queue, t) /\ UNCHANGED <<done, batch>>
  BY DEF ListCall, Call, Post, Enqueue, doneVars
<1>2. t \notin Range(queue) /\ t \notin Range(done) /\ t \notin Range(batch)
  BY <1>1, FinAssumption DEF FlowInv, TaskPlaces
<1> QED
  BY <1>1, <1>2, PostKeeps DEF ListCall, Node

(* The finish task is in no list before it is posted, and posted once.     *)
LEMMA ListUnloadKeeps ==
  ASSUME FlowInv, ListInv, NEW c \in Coroutine, ListUnload(c)
  PROVE  ListInv'
<1>1. /\ ~finished /\ UNCHANGED <<done, batch>>
      /\ queue' = Append(queue, Fin) \/ queue' = queue
  BY DEF ListUnload, Unload, Finish, Enqueue, doneVars
<1>2. Fin \notin Range(queue) /\ Fin \notin Range(done) /\ Fin \notin Range(batch)
  BY <1>1, Places, FinAssumption DEF FlowInv, UnloadInv, FinLast
<1> QED
  BY <1>1, <1>2, PostKeeps DEF ListUnload, Node

(* ngx_http_lua_ffi_task_poll.                                             *)
LEMMA ListPollKeeps ==
  ASSUME FlowInv, ListInv, NEW p \in Poller, ListPoll(p)
  PROVE  ListInv'
<1>1. /\ next \in [Node -> Node \cup {None}] /\ SpellsIn(next, tpList, queue)
      /\ SpellsIn(next, doneList, done) /\ ChainIn(next, batch, cursor)
  BY SpellsAre DEF ListInv
<1>2. UNCHANGED <<next, doneList, cursor, done, batch>>
  BY DEF ListPoll, PollTask, doneVars
<1>3. queue' = queue \/ (queue # <<>> /\ queue' = Tail(queue))
  BY PollMoves DEF ListPoll, PollTask, FlowInv, FlowTypeOK
<1>4. CASE queue' = queue
  <2>1. tpList' = tpList
    BY <1>4 DEF ListPoll
  <2> QED
    BY <1>1, <1>2, <1>4, <2>1, SpellsAre DEF ListInv
<1>5. CASE queue' # queue
  <2>1. queue # <<>> /\ queue' = Tail(queue) /\ tpList' = Unlink(tpList)
    BY <1>3, <1>5 DEF ListPoll
  <2> DEFINE f == tpList.first
  <2>2. ChainIn(next, queue, f) /\ tpList.last = queue[Len(queue)]
    BY <1>1, <2>1 DEF SpellsIn
  <2> HIDE DEF f
  <2>3. /\ ChainIn(next, queue', next[f])
        /\ next[f] = None <=> queue' = <<>>
        /\ queue' # <<>> => queue'[Len(queue')] = queue[Len(queue)]
    BY <2>1, <2>2, Places, RestOfChain
  <2>4. tpList'.first = next[f]
        /\ tpList'.last = IF next[f] = None THEN None ELSE tpList.last
    BY <2>1 DEF Unlink, f
  <2>5. SpellsIn(next, tpList', queue')
    BY <2>2, <2>3, <2>4 DEF SpellsIn
  <2> QED
    BY <1>1, <1>2, <2>5, SpellsAre DEF ListInv
<1> QED
  BY <1>4, <1>5

(* ngx_thread_pool_notify_inject: the task is in the hands of the runtime, *)
(* so it is in no list.                                                    *)
LEMMA ListRespondKeeps ==
  ASSUME FlowInv, ListInv, NEW t \in Task, NEW ok \in BOOLEAN, ListRespond(t, ok)
  PROVE  ListInv'
<1>1. /\ next \in [Node -> Node \cup {None}] /\ SpellsIn(next, tpList, queue)
      /\ SpellsIn(next, doneList, done) /\ ChainIn(next, batch, cursor)
  BY SpellsAre DEF ListInv
<1>2. /\ t \in taken /\ done' = Append(done, t) /\ UNCHANGED <<queue, batch>>
      /\ UNCHANGED <<tpList, cursor>> /\ doneList' = Link(doneList, t)
      /\ next' = LinkIn(next, doneList, t)
  BY DEF ListRespond, RespondTask, Respond, Inject, NextAfterLink, LinkIn
<1>3. t \in Node /\ t \notin Range(queue) /\ t \notin Range(done) /\ t \notin Range(batch)
  BY <1>2 DEF FlowInv, TaskPlaces, Node
<1>4. /\ SpellsIn(next', doneList', done')
      /\ \A x \in Node : x \notin Range(done) /\ x # t => next'[x] = next[x]
  <2>1. None \notin Node /\ done \in Seq(Node) /\ Once(done)
    BY Places
  <2>2. Appended(next, doneList, done, t)
    BY <1>1, <1>3, <2>1, LinkAppends
  <2> QED
    BY <1>2, <2>2, Zenon DEF Appended
<1>5. next' \in [Node -> Node \cup {None}]
  BY <1>1, <1>2, <1>3 DEF LinkIn
<1>6. /\ \A x \in Range(queue) : next'[x] = next[x]
      /\ \A x \in Range(batch) : next'[x] = next[x]
  BY <1>3, <1>4, Places DEF Node
<1>7. ChainIn(next', queue, tpList.first) /\ ChainIn(next', batch, cursor)
  BY <1>1, <1>6, Places, ChainKept DEF SpellsIn
<1> QED
  BY <1>1, <1>2, <1>4, <1>5, <1>7, SpellsAre DEF ListInv, SpellsIn

(* ngx_thread_pool_handler takes the list.                                 *)
LEMMA ListTakeKeeps ==
  ASSUME FlowInv, ListInv, ListTake
  PROVE  ListInv'
<1>1. /\ next \in [Node -> Node \cup {None}] /\ SpellsIn(next, tpList, queue)
      /\ SpellsIn(next, doneList, done)
  BY SpellsAre DEF ListInv
<1>2. /\ batch' = done /\ done' = <<>> /\ cursor' = doneList.first
      /\ doneList' = EmptyList /\ UNCHANGED <<queue, next, tpList>>
  BY DEF ListTake, ThreadPoolHandler, vars
<1>3. SpellsIn(next, EmptyList, <<>>)
  BY DEF SpellsIn, ChainIn, EmptyList
<1> QED
  BY <1>1, <1>2, <1>3, SpellsAre DEF ListInv, SpellsIn

(* One round of its loop.                                                  *)
LEMMA ListHandleKeeps ==
  ASSUME FlowInv, ListInv, ListHandle
  PROVE  ListInv'
<1>1. /\ next \in [Node -> Node \cup {None}] /\ SpellsIn(next, tpList, queue)
      /\ SpellsIn(next, doneList, done) /\ ChainIn(next, batch, cursor)
  BY SpellsAre DEF ListInv
<1>2. /\ batch # <<>> /\ batch' = Tail(batch) /\ UNCHANGED <<queue, done>>
      /\ cursor' = next[cursor] /\ next' = [next EXCEPT ![cursor] = None]
      /\ UNCHANGED <<tpList, doneList>>
  BY DEF ListHandle, DropTask, Resume, vars
<1>3. cursor = Head(batch) /\ ChainIn(next, batch', cursor')
  BY <1>1, <1>2, Places, RestOfChain
<1>4. /\ cursor \in Range(batch) /\ cursor \notin Range(batch')
      /\ batch' \in Seq(Node) /\ Range(batch') \subseteq Range(batch)
  BY <1>2, <1>3, Places, TailSet
<1>5. \A x \in Node : x # cursor => next'[x] = next[x]
  BY <1>1, <1>2
<1>6. /\ \A x \in Range(queue) : next'[x] = next[x]
      /\ \A x \in Range(done) : next'[x] = next[x]
      /\ \A x \in Range(batch') : next'[x] = next[x]
  BY <1>4, <1>5, Places DEF Node
<1>7. /\ ChainIn(next', queue, tpList.first) /\ ChainIn(next', done, doneList.first)
      /\ ChainIn(next', batch', cursor')
  BY <1>1, <1>3, <1>4, <1>6, Places, ChainKept DEF SpellsIn
<1>8. next' \in [Node -> Node \cup {None}]
  BY <1>1, <1>2
<1> QED
  BY <1>1, <1>2, <1>7, <1>8, SpellsAre DEF ListInv, SpellsIn

(* Every step keeps the lists.                                             *)
LEMMA ListStep ==
  FlowInv /\ ListInv /\ [ListNext]_<<flowVars, listVars>> => ListInv'
<1> SUFFICES ASSUME FlowInv, ListInv, [ListNext]_<<flowVars, listVars>>
             PROVE  ListInv'
  OBVIOUS
<1>1. ASSUME UNCHANGED <<queue, done, batch, listVars>> PROVE ListInv'
  BY <1>1, SpellsAre DEF ListInv, listVars
<1>2. ASSUME NEW c \in Coroutine, ListIdle(c) PROVE ListInv'
  BY <1>1, <1>2 DEF ListIdle, CallRefused, CallAfterUnload, Abort, OtherOperation,
     Exit, Start, vars, doneVars
<1>3. CASE Notify /\ UNCHANGED listVars
  BY <1>1, <1>3 DEF Notify, vars
<1>4. CASE UNCHANGED <<flowVars, listVars>>
  BY <1>1, <1>4 DEF flowVars, vars, doneVars
<1> QED
  BY <1>2, <1>3, <1>4, ListCallKeeps, ListUnloadKeeps, ListPollKeeps,
     ListRespondKeeps, ListTakeKeeps, ListHandleKeeps DEF ListNext

(* The pointers of tp->queue, of ngx_thread_pool_done and of the loop of   *)
(* ngx_thread_pool_handler always spell the sequences of CallFlow, though  *)
(* the three share the field `next' of a task.                             *)
THEOREM ListsCorrect == ListSpec => []ListsSpell
<1>1. ListInit => ListInv
  <2> SUFFICES ASSUME ListInit PROVE ListInv
    OBVIOUS
  <2>1. queue = <<>> /\ done = <<>> /\ batch = <<>>
    BY DEF ListInit, FlowInit, Init
  <2> QED
    BY <2>1, SpellsAre DEF ListInit, ListInv, SpellsIn, ChainIn, EmptyList
<1>2. ListInv => ListsSpell
  BY DEF ListInv
<1>3. ListSpec => []FlowInv
  BY ListsAreFlow, FlowInvariant, PTL
<1> QED
  BY <1>1, <1>2, <1>3, ListStep, PTL DEF ListSpec

(* So the tests of the code on pointers are the tests of CallFlow on       *)
(* sequences, and the task the code takes is the one CallFlow takes:       *)
(* `while (tp->queue.first == NULL)' and `task = tp->queue.first' in       *)
(* task_poll, the same for the list of the event loop.                     *)
THEOREM PointersDecide ==
  ListSpec => []( /\ tpList.first = None <=> queue = <<>>
                  /\ queue # <<>> => tpList.first = Head(queue)
                  /\ cursor = None <=> batch = <<>>
                  /\ batch # <<>> => cursor = Head(batch) )
<1>1. ASSUME FlowInv, ListsSpell
      PROVE  /\ tpList.first = None <=> queue = <<>>
             /\ queue # <<>> => tpList.first = Head(queue)
             /\ cursor = None <=> batch = <<>>
             /\ batch # <<>> => cursor = Head(batch)
  <2>1. ASSUME NEW s \in Seq(Node), NEW f, ChainIn(next, s, f)
        PROVE  (f = None <=> s = <<>>) /\ (s # <<>> => f = Head(s))
    <3>1. CASE s = <<>>
      BY <2>1, <3>1 DEF ChainIn
    <3>2. CASE s # <<>>
      <4>1. f = Head(s)
        BY <2>1, <3>2, Places, <1>1, RestOfChain
      <4>2. Head(s) \in Node
        BY <3>2, HeadTailProperties
      <4> QED
        BY <1>1, <3>2, <4>1, <4>2, Places
    <3> QED
      BY <3>1, <3>2
  <2> QED
    BY <1>1, <2>1, SpellsAre, Places DEF SpellsIn
<1>2. ListSpec => []FlowInv
  BY ListsAreFlow, FlowInvariant, PTL
<1> QED
  BY <1>1, <1>2, ListsCorrect, PTL

=============================================================================

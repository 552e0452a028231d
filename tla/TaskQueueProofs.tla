-------------------------- MODULE TaskQueueProofs --------------------------
(***************************************************************************)
(* Proofs about TaskQueue, for any number of tasks and of pollers and any  *)
(* max_queue.  Every step is one of the queue's own operations, so the     *)
(* counting invariants rest on two lemmas: where a thread that moves is    *)
(* counted, and by how much a count changes.                               *)
(***************************************************************************)
EXTENDS TaskQueue, TLAPS, FiniteSetTheorems, SequenceTheorems

(* The threads that have decremented `waiting' for good or for the moment. *)
Debtors == Blocked \cup Gone

(* Moving a thread changes the sets of threads at a place by that thread.  *)
LEMMA GotoSets ==
  ASSUME pc \in [Poller -> PC], NEW p \in Poller, NEW l \in PC, Goto(p, l)
  PROVE  /\ pc' \in [Poller -> PC]
         /\ At("sleep")' = IF l = "sleep" THEN At("sleep") \cup {p}
                                          ELSE At("sleep") \ {p}
         /\ At("woken")' = IF l = "woken" THEN At("woken") \cup {p}
                                          ELSE At("woken") \ {p}
         /\ At("null")' = IF l = "null" THEN At("null") \cup {p}
                                        ELSE At("null") \ {p}
         /\ Gone' = IF l = "done" THEN Gone \cup {p} ELSE Gone \ {p}
         /\ Blocked' = IF l \in {"sleep", "woken"} THEN Blocked \cup {p}
                                                   ELSE Blocked \ {p}
         /\ Debtors' = IF l \in {"sleep", "woken", "done"}
                       THEN Debtors \cup {p} ELSE Debtors \ {p}
<1>1. pc' = [pc EXCEPT ![p] = l]
  BY DEF Goto
<1>2. pc' \in [Poller -> PC]
  BY <1>1
<1>3. \A q \in Poller : pc'[q] = IF q = p THEN l ELSE pc[q]
  BY <1>1
<1>4. At("sleep")' = IF l = "sleep" THEN At("sleep") \cup {p}
                                    ELSE At("sleep") \ {p}
  BY <1>3 DEF At
<1>5. At("woken")' = IF l = "woken" THEN At("woken") \cup {p}
                                    ELSE At("woken") \ {p}
  BY <1>3 DEF At
<1>6. At("null")' = IF l = "null" THEN At("null") \cup {p}
                                  ELSE At("null") \ {p}
  BY <1>3 DEF At
<1>7. Gone' = IF l = "done" THEN Gone \cup {p} ELSE Gone \ {p}
  BY <1>3 DEF At, Gone
<1>8. Blocked' = IF l \in {"sleep", "woken"} THEN Blocked \cup {p}
                                             ELSE Blocked \ {p}
  BY <1>4, <1>5 DEF Blocked
<1>9. Debtors' = IF l \in {"sleep", "woken", "done"}
                 THEN Debtors \cup {p} ELSE Debtors \ {p}
  BY <1>7, <1>8 DEF Debtors
<1> QED
  BY <1>2, <1>4, <1>5, <1>6, <1>7, <1>8, <1>9

(* Counts of threads are natural numbers and change by at most one.        *)
LEMMA Counts ==
  ASSUME NEW S \in SUBSET Poller, NEW p
  PROVE  /\ Cardinality(S) \in Nat
         /\ Cardinality(S \cup {p}) =
              IF p \in S THEN Cardinality(S) ELSE Cardinality(S) + 1
         /\ Cardinality(S \ {p}) =
              IF p \in S THEN Cardinality(S) - 1 ELSE Cardinality(S)
<1>1. IsFiniteSet(S)
  BY PollerAssumption, FS_Subset
<1> QED
  BY <1>1, FS_CardinalityType, FS_AddElement, FS_RemoveElement

(* All the sets of threads are sets of pollers.                            *)
LEMMA Subsets ==
  /\ Blocked \in SUBSET Poller
  /\ Debtors \in SUBSET Poller
  /\ At("woken") \in SUBSET Poller
  /\ At("sleep") \in SUBSET Poller
BY DEF Blocked, Debtors, Gone, At

(* What the list is after a post and after a poll.                         *)
LEMMA AppendFacts ==
  ASSUME queue \in Seq(Task \cup {Fin}), NEW t \in Task \cup {Fin},
         queue' = Append(queue, t)
  PROVE  /\ queue' \in Seq(Task \cup {Fin})
         /\ Len(queue) \in Nat
         /\ Len(queue') = Len(queue) + 1
         /\ DOMAIN queue' = 1..(Len(queue) + 1)
         /\ DOMAIN queue = 1..Len(queue)
         /\ \A i \in DOMAIN queue : queue'[i] = queue[i]
         /\ queue'[Len(queue) + 1] = t
<1>1. Len(queue) \in Nat /\ DOMAIN queue = 1..Len(queue)
  BY LenProperties
<1>2. /\ queue' \in Seq(Task \cup {Fin})
      /\ Len(queue') = Len(queue) + 1
      /\ \A i \in 1..Len(queue) : queue'[i] = queue[i]
      /\ queue'[Len(queue) + 1] = t
  BY AppendProperties
<1>3. DOMAIN queue' = 1..Len(queue')
  BY <1>2, LenProperties
<1> QED
  BY <1>1, <1>2, <1>3

(* What the list is after a poll.                                          *)
LEMMA TailFacts ==
  ASSUME queue \in Seq(Task \cup {Fin}), queue # <<>>, queue' = Tail(queue)
  PROVE  /\ queue' \in Seq(Task \cup {Fin})
         /\ Len(queue) \in Nat /\ Len(queue) >= 1
         /\ Len(queue') = Len(queue) - 1
         /\ DOMAIN queue = 1..Len(queue)
         /\ DOMAIN queue' = 1..(Len(queue) - 1)
         /\ \A i \in DOMAIN queue' : queue'[i] = queue[i + 1]
         /\ Head(queue) = queue[1]
         /\ Head(queue) \in Task \cup {Fin}
<1>1. /\ Len(queue) \in Nat \ {0}
      /\ DOMAIN queue = 1..Len(queue)
  BY LenProperties, EmptySeq
<1>2. /\ queue' \in Seq(Task \cup {Fin})
      /\ Len(queue') = Len(queue) - 1
      /\ \A i \in 1..Len(queue') : queue'[i] = queue[i + 1]
      /\ Head(queue) \in Task \cup {Fin}
  BY HeadTailProperties
<1>3. DOMAIN queue' = 1..Len(queue')
  BY <1>2, LenProperties
<1>4. Head(queue) = queue[1]
  OBVIOUS
<1> QED
  BY <1>1, <1>2, <1>3, <1>4

(* A post signals and links: the signal wakes at most one thread.          *)
LEMMA SignalMoves ==
  ASSUME pc \in [Poller -> PC], Signal
  PROVE  /\ pc' \in [Poller -> PC]
         /\ Blocked' = Blocked /\ Gone' = Gone /\ Debtors' = Debtors
         /\ At("null")' = At("null")
<1>1. CASE UNCHANGED pc
  BY <1>1 DEF Blocked, Gone, Debtors, At
<1>2. ASSUME NEW p \in At("sleep"), Goto(p, "woken")
      PROVE  /\ pc' \in [Poller -> PC]
             /\ Blocked' = Blocked /\ Gone' = Gone /\ Debtors' = Debtors
             /\ At("null")' = At("null")
  <2>1. p \in Poller /\ p \in Blocked /\ p \notin Gone /\ p \notin At("null")
    BY DEF At, Blocked, Gone
  <2> QED
    BY <1>2, <2>1, GotoSets DEF PC, Debtors
<1> QED
  BY <1>1, <1>2 DEF Signal

-----------------------------------------------------------------------------
(* Type correctness.                                                       *)

(* The types hold initially.                                               *)
LEMMA InitType == Init => TypeOK
<1> SUFFICES ASSUME Init
             PROVE  TypeOK
  OBVIOUS
<1>1. queue \in Seq(Task \cup {Fin}) /\ waiting \in Int
  BY DEF Init
<1>2. alive \in BOOLEAN /\ finished \in BOOLEAN
  BY Zenon DEF Init
<1>3. pc \in [Poller -> PC] /\ taken \subseteq Task
  BY DEF Init, PC
<1> QED
  BY <1>1, <1>2, <1>3 DEF TypeOK

(* Every step keeps the types.                                             *)
LEMMA TypeStep == TypeOK /\ [Next]_vars => TypeOK'
<1> SUFFICES ASSUME TypeOK, [Next]_vars
             PROVE  TypeOK'
  OBVIOUS
<1> USE DEF TypeOK
<1>1. ASSUME NEW t \in Task \cup {Fin}, Enqueue(t)
      PROVE  queue' \in Seq(Task \cup {Fin}) /\ waiting' \in Int
             /\ pc' \in [Poller -> PC]
  BY <1>1, AppendFacts, SignalMoves DEF Enqueue
<1>2. ASSUME NEW p \in Poller, Dequeue(p) \/ Wait(p)
      PROVE  queue' \in Seq(Task \cup {Fin}) /\ taken' \subseteq Task
             /\ pc' \in [Poller -> PC]
  <2>1. CASE Dequeue(p)
    BY <2>1, TailFacts, GotoSets DEF Dequeue, PC
  <2>2. CASE Wait(p)
    BY <2>2, GotoSets DEF Wait, PC
  <2> QED
    BY <1>2, <2>1, <2>2
<1>3. ASSUME NEW t \in Task, Post(t) PROVE TypeOK'
  BY <1>3, <1>1 DEF Post
<1>4. ASSUME NEW t \in Task, Respond(t) PROVE TypeOK'
  BY <1>4 DEF Respond
<1>5. CASE Finish
  BY <1>5, <1>1 DEF Finish
<1>6. ASSUME NEW p \in Poller, PollEnter(p) PROVE TypeOK'
  BY <1>6, <1>2 DEF PollEnter
<1>7. ASSUME NEW p \in Poller, PollWake(p) PROVE TypeOK'
  BY <1>7, <1>2 DEF PollWake
<1>8. ASSUME NEW p \in Poller, FreeQueue(p) PROVE TypeOK'
  BY <1>8, GotoSets DEF FreeQueue, PC
<1>9. ASSUME NEW p \in Poller, SpuriousWakeup(p) PROVE TypeOK'
  BY <1>9, GotoSets DEF SpuriousWakeup, PC
<1>10. ASSUME NEW p \in Poller, LockFails(p) PROVE TypeOK'
  BY <1>10, GotoSets DEF LockFails, PC
<1>11. ASSUME NEW p \in Poller, WaitFails(p) PROVE TypeOK'
  BY <1>11, GotoSets DEF WaitFails, PC
<1>12. ASSUME NEW p \in Poller, UnlockFails(p) PROVE TypeOK'
  BY <1>12, GotoSets, TailFacts DEF UnlockFails, PC
<1>13. CASE UNCHANGED vars
  BY <1>13 DEF vars
<1> QED
  BY <1>3, <1>4, <1>5, <1>6, <1>7, <1>8, <1>9, <1>10, <1>11, <1>12, <1>13
  DEF Next, Poll

(* The state has its type: task_poll never returns the finish task, and    *)
(* the list holds nothing else than posted tasks.                          *)
THEOREM TypeCorrect == Spec => []TypeOK
BY InitType, TypeStep, PTL DEF Spec

-----------------------------------------------------------------------------
(* Counting.                                                               *)

(* WaitingCount, with the bound that the overflow test puts on `waiting'.  *)
Excess == IF finished THEN 1 ELSE 0

CountInv == WaitingCount /\ waiting <= MaxQueue + Excess

(* The counting invariant holds initially.                                 *)
LEMMA InitCount == Init => CountInv
<1> SUFFICES ASSUME Init
             PROVE  CountInv
  OBVIOUS
<1>1. queue = <<>> /\ waiting = 0 /\ pc = [p \in Poller |-> "idle"]
  BY DEF Init
<1>2. Len(queue) = 0
  BY <1>1
<1>3. Blocked = {} /\ Blocked \cup Gone = {}
  BY <1>1 DEF Blocked, Gone, At
<1>4. Cardinality(Blocked) = 0 /\ Cardinality(Blocked \cup Gone) = 0
  BY <1>3, FS_EmptySet
<1> QED
  BY <1>1, <1>2, <1>4, MaxQueueAssumption DEF CountInv, WaitingCount, Excess

(* Every step keeps the counting invariant.                                *)
LEMMA CountStep == TypeOK /\ CountInv /\ [Next]_vars => CountInv'
<1> SUFFICES ASSUME TypeOK, CountInv, [Next]_vars
             PROVE  CountInv'
  OBVIOUS
<1> DEFINE b == Cardinality(Blocked)
           d == Cardinality(Debtors)
           n == Len(queue)
<1>1. /\ b \in Nat /\ d \in Nat /\ n \in Nat /\ waiting \in Int
      /\ pc \in [Poller -> PC] /\ queue \in Seq(Task \cup {Fin})
      /\ MaxQueue \in Nat /\ finished \in BOOLEAN
  BY Counts, Subsets, LenProperties, MaxQueueAssumption DEF TypeOK
<1>2. /\ waiting <= n - b /\ waiting >= n - d
      /\ waiting <= MaxQueue + (IF finished THEN 1 ELSE 0)
  BY DEF CountInv, WaitingCount, Debtors, Excess
<1>3. SUFFICES /\ waiting' <= n' - b' /\ waiting' >= n' - d'
               /\ waiting' <= MaxQueue + (IF finished' THEN 1 ELSE 0)
  BY DEF CountInv, WaitingCount, Debtors, Excess
<1>4. ASSUME NEW t \in Task \cup {Fin}, Enqueue(t)
      PROVE  n' = n + 1 /\ waiting' = waiting + 1 /\ b' = b /\ d' = d
  BY <1>1, <1>4, AppendFacts, SignalMoves DEF Enqueue
<1>5. ASSUME NEW p \in Poller, NEW l \in PC, Goto(p, l)
      PROVE  /\ b' = IF l \in {"sleep", "woken"}
                     THEN IF p \in Blocked THEN b ELSE b + 1
                     ELSE IF p \in Blocked THEN b - 1 ELSE b
             /\ d' = IF l \in {"sleep", "woken", "done"}
                     THEN IF p \in Debtors THEN d ELSE d + 1
                     ELSE IF p \in Debtors THEN d - 1 ELSE d
  <2>1. /\ Blocked' = IF l \in {"sleep", "woken"} THEN Blocked \cup {p}
                                                   ELSE Blocked \ {p}
        /\ Debtors' = IF l \in {"sleep", "woken", "done"}
                      THEN Debtors \cup {p} ELSE Debtors \ {p}
    BY <1>1, <1>5, GotoSets
  <2>2. /\ Cardinality(Blocked \cup {p}) = IF p \in Blocked THEN b ELSE b + 1
        /\ Cardinality(Blocked \ {p}) = IF p \in Blocked THEN b - 1 ELSE b
        /\ Cardinality(Debtors \cup {p}) = IF p \in Debtors THEN d ELSE d + 1
        /\ Cardinality(Debtors \ {p}) = IF p \in Debtors THEN d - 1 ELSE d
    BY Counts, Subsets
  <2> QED
    BY <2>1, <2>2
<1>6. ASSUME NEW p \in Poller
      PROVE  /\ pc[p] = "idle" => p \notin Blocked /\ p \notin Debtors
             /\ pc[p] = "null" => p \notin Blocked /\ p \notin Debtors
             /\ pc[p] = "sleep" => p \in Blocked /\ p \in Debtors
             /\ pc[p] = "woken" => p \in Blocked /\ p \in Debtors
             /\ p \in Blocked => p \in Debtors
  BY DEF Blocked, Debtors, Gone, At
<1>7. queue # <<>> /\ queue' = Tail(queue) => n' = n - 1
  BY <1>1, TailFacts
<1>8. queue = <<>> => n = 0
  BY EmptySeq
<1>9. ASSUME NEW t \in Task, Post(t) PROVE <1>3!1
  BY <1>1, <1>2, <1>4, <1>9 DEF Post, Full
<1>10. CASE Finish
  <2>1. CASE Enqueue(Fin)
    BY <1>1, <1>2, <1>4, <1>10, <2>1 DEF Finish
  <2>2. CASE UNCHANGED <<queue, waiting, pc>>
    BY <1>1, <1>2, <1>10, <2>2 DEF Finish, Blocked, Debtors, Gone, At
  <2> QED
    BY <1>10, <2>1, <2>2 DEF Finish
<1>11. ASSUME NEW t \in Task, Respond(t) PROVE <1>3!1
  BY <1>2, <1>11 DEF Respond, Blocked, Debtors, Gone, At
<1>12. ASSUME NEW p \in Poller, PollEnter(p) PROVE <1>3!1
  <2>1. CASE Dequeue(p)
    <3>1. b' = b /\ d' = d
      BY <1>5, <1>6, <1>12, <2>1 DEF PollEnter, Dequeue, PC
    <3> QED
      BY <1>1, <1>2, <1>7, <1>12, <2>1, <3>1 DEF PollEnter, Dequeue
  <2>2. CASE Wait(p)
    <3>1. b' = b + 1 /\ d' = d + 1
      BY <1>5, <1>6, <1>12, <2>2 DEF PollEnter, Wait, PC
    <3> QED
      BY <1>1, <1>2, <1>8, <1>12, <2>2, <3>1 DEF PollEnter, Wait
  <2> QED
    BY <1>12, <2>1, <2>2 DEF PollEnter
<1>13. ASSUME NEW p \in Poller, PollWake(p) PROVE <1>3!1
  <2>1. CASE Dequeue(p)
    <3>1. b' = b - 1 /\ d' = d - 1
      BY <1>5, <1>6, <1>13, <2>1 DEF PollWake, Dequeue, PC
    <3> QED
      BY <1>1, <1>2, <1>7, <1>13, <2>1, <3>1 DEF PollWake, Dequeue
  <2>2. CASE Wait(p)
    <3>1. b' = b /\ d' = d
      BY <1>5, <1>6, <1>13, <2>2 DEF PollWake, Wait, PC
    <3> QED
      BY <1>1, <1>2, <1>13, <2>2, <3>1 DEF PollWake, Wait
  <2> QED
    BY <1>13, <2>1, <2>2 DEF PollWake
<1>14. ASSUME NEW p \in Poller, SpuriousWakeup(p) PROVE <1>3!1
  <2>1. b' = b /\ d' = d
    BY <1>5, <1>6, <1>14 DEF SpuriousWakeup, PC
  <2> QED
    BY <1>2, <1>14, <2>1 DEF SpuriousWakeup
<1>15. ASSUME NEW p \in Poller, FreeQueue(p) PROVE <1>3!1
  <2>1. b' = b /\ d' = d + 1
    BY <1>5, <1>6, <1>15 DEF FreeQueue, PC
  <2> QED
    BY <1>1, <1>2, <1>15, <2>1 DEF FreeQueue
<1>16. ASSUME NEW p \in Poller, LockFails(p) PROVE <1>3!1
  <2>1. b' = b /\ d' = d + 1
    BY <1>5, <1>6, <1>16 DEF LockFails, PC
  <2> QED
    BY <1>1, <1>2, <1>16, <2>1 DEF LockFails
<1>17. ASSUME NEW p \in Poller, WaitFails(p) PROVE <1>3!1
  <2>1. b' = b - 1 /\ d' = d
    BY <1>5, <1>6, <1>17 DEF WaitFails, PC
  <2> QED
    BY <1>1, <1>2, <1>17, <2>1 DEF WaitFails
<1>18. ASSUME NEW p \in Poller, UnlockFails(p) PROVE <1>3!1
  <2>1. CASE pc[p] = "idle"
    <3>1. b' = b /\ d' = d + 1
      BY <1>5, <1>6, <1>18, <2>1 DEF UnlockFails, PC
    <3> QED
      BY <1>1, <1>2, <1>7, <1>18, <2>1, <3>1 DEF UnlockFails
  <2>2. CASE pc[p] = "woken"
    <3>1. b' = b - 1 /\ d' = d
      BY <1>5, <1>6, <1>18, <2>2 DEF UnlockFails, PC
    <3> QED
      BY <1>1, <1>2, <1>7, <1>18, <2>2, <3>1 DEF UnlockFails
  <2> QED
    BY <1>18, <2>1, <2>2 DEF UnlockFails
<1>19. CASE UNCHANGED vars
  BY <1>2, <1>19 DEF vars, Blocked, Debtors, Gone, At
<1> QED
  BY <1>9, <1>10, <1>11, <1>12, <1>13, <1>14, <1>15, <1>16, <1>17, <1>18, <1>19
  DEF Next, Poll

(* `waiting' counts what it should, in spite of its decrement before the   *)
(* wait, and only drifts down when a poller gives up.                      *)
THEOREM WaitingCountCorrect == Spec => []WaitingCount
<1>1. CountInv => WaitingCount
  BY DEF CountInv
<1> QED
  BY <1>1, InitType, InitCount, TypeStep, CountStep, PTL DEF Spec

(* The overflow test of ngx_task_post bounds the list, by max_queue and    *)
(* the number of pollers.                                                  *)
THEOREM QueueBounded == Spec => []QueueBound
<1>1. TypeOK /\ CountInv => QueueBound
  <2> SUFFICES ASSUME TypeOK, CountInv
               PROVE  QueueBound
    OBVIOUS
  <2>1. Cardinality(Blocked \cup Gone) \in Nat
    BY Counts, Subsets DEF Debtors
  <2>2. Len(queue) \in Nat /\ waiting \in Int /\ MaxQueue \in Nat
    BY LenProperties, MaxQueueAssumption DEF TypeOK
  <2> QED
    BY <2>1, <2>2 DEF CountInv, WaitingCount, Excess, QueueBound
<1> QED
  BY <1>1, InitType, InitCount, TypeStep, CountStep, PTL DEF Spec

-----------------------------------------------------------------------------
(* Wakeups.                                                                *)

(* A thread that left its poll loop does not come back.                    *)
LEMMA GoneForGood == TypeOK /\ [Next]_vars => Gone \subseteq Gone'
<1> SUFFICES ASSUME TypeOK, [Next]_vars
             PROVE  Gone \subseteq Gone'
  OBVIOUS
<1>1. pc \in [Poller -> PC]
  BY DEF TypeOK
<1>2. ASSUME NEW p \in Poller, NEW l \in PC, pc[p] # "done", Goto(p, l)
      PROVE  Gone \subseteq Gone'
  BY <1>1, <1>2 DEF Goto, Gone, At
<1>3. CASE UNCHANGED pc
  BY <1>3 DEF Gone, At
<1>4. ASSUME NEW t, Enqueue(t)
      PROVE  Gone \subseteq Gone'
  BY <1>2, <1>3, <1>4 DEF Enqueue, Signal, At, PC
<1>5. CASE \E t \in Task : Post(t) \/ Respond(t)
  BY <1>3, <1>4, <1>5 DEF Post, Respond
<1>6. CASE Finish
  BY <1>3, <1>4, <1>6 DEF Finish
<1>7. ASSUME NEW p \in Poller, Poll(p)
      PROVE  Gone \subseteq Gone'
  BY <1>2, <1>7 DEF Poll, PollEnter, PollWake, FreeQueue, SpuriousWakeup,
     LockFails, WaitFails, UnlockFails, Dequeue, Wait, Blocked, At, PC
<1> QED
  BY <1>3, <1>5, <1>6, <1>7 DEF Next, vars

(* Every step leaves a thread to take a queued task.                       *)
LEMMA WakeupStep == TypeOK /\ NoLostWakeup /\ [Next]_vars => NoLostWakeup'
<1> SUFFICES ASSUME TypeOK, NoLostWakeup, [Next]_vars, Gone' = {},
                    At("sleep")' # {}
             PROVE  Cardinality(At("woken"))' >= Len(queue')
  BY DEF NoLostWakeup
<1>0. Gone = {} /\ \A p \in Poller : pc'[p] # "done"
  BY GoneForGood DEF Gone, At
<1> DEFINE w == Cardinality(At("woken"))
           n == Len(queue)
<1>1. /\ w \in Nat /\ n \in Nat
      /\ pc \in [Poller -> PC] /\ queue \in Seq(Task \cup {Fin})
  BY Counts, Subsets, LenProperties DEF TypeOK
<1>2. At("sleep") # {} => w >= n
  BY <1>0 DEF NoLostWakeup
<1>3. ASSUME NEW p \in Poller, NEW l \in PC, Goto(p, l)
      PROVE  /\ w' = IF l = "woken" THEN IF pc[p] = "woken" THEN w ELSE w + 1
                     ELSE IF pc[p] = "woken" THEN w - 1 ELSE w
             /\ l # "sleep" => At("sleep") # {}
  <2>1. At("woken")' = IF l = "woken" THEN At("woken") \cup {p}
                                      ELSE At("woken") \ {p}
    BY <1>1, <1>3, GotoSets
  <2>2. p \in At("woken") <=> pc[p] = "woken"
    BY DEF At
  <2>3. /\ Cardinality(At("woken") \cup {p}) =
             IF p \in At("woken") THEN w ELSE w + 1
        /\ Cardinality(At("woken") \ {p}) =
             IF p \in At("woken") THEN w - 1 ELSE w
    BY Counts, Subsets
  <2>4. l # "sleep" => At("sleep")' = At("sleep") \ {p}
    BY <1>1, <1>3, GotoSets
  <2> QED
    BY <2>1, <2>2, <2>3, <2>4
<1>4. ASSUME NEW t \in Task \cup {Fin}, Enqueue(t)
      PROVE  w' >= n'
  <2>1. n' = n + 1
    BY <1>1, <1>4, AppendFacts DEF Enqueue
  <2>2. ASSUME NEW p \in At("sleep"), Goto(p, "woken")
        PROVE  w' = w + 1
    <3>1. p \in Poller /\ pc[p] = "sleep"
      BY DEF At
    <3> QED
      BY <1>3, <2>2, <3>1 DEF PC
  <2>3. CASE At("sleep") = {} /\ UNCHANGED pc
    BY <2>3 DEF At
  <2> QED
    BY <1>1, <1>2, <1>4, <2>1, <2>2, <2>3 DEF Enqueue, Signal
<1>5. queue # <<>> /\ queue' = Tail(queue) => n' = n - 1
  BY <1>1, TailFacts
<1>6. ASSUME NEW p \in Poller, Dequeue(p)
      PROVE  w' >= n'
  BY <1>1, <1>2, <1>3, <1>5, <1>6 DEF Dequeue, PC
<1>7. ASSUME NEW p \in Poller, Wait(p)
      PROVE  w' >= n'
  <2>1. n' = 0
    BY <1>7 DEF Wait
  <2>2. At("woken")' \in SUBSET Poller
    BY DEF At
  <2>3. w' \in Nat
    BY <2>2, Counts
  <2> QED
    BY <2>1, <2>3
<1>8. ASSUME NEW p \in Poller, FreeQueue(p)
      PROVE  w' >= n'
  BY <1>1, <1>2, <1>3, <1>8 DEF FreeQueue, PC
<1>9. ASSUME NEW p \in Poller, SpuriousWakeup(p)
      PROVE  w' >= n'
  BY <1>1, <1>2, <1>3, <1>9 DEF SpuriousWakeup, PC
<1>10. ASSUME UNCHANGED <<queue, pc>>
       PROVE  w' >= n'
  BY <1>2, <1>10 DEF At
<1>11. ASSUME NEW p \in Poller, LockFails(p) \/ WaitFails(p) \/ UnlockFails(p)
       PROVE  FALSE
  BY <1>0, <1>1, <1>11 DEF LockFails, WaitFails, UnlockFails, Goto
<1> QED
  BY <1>4, <1>6, <1>7, <1>8, <1>9, <1>10, <1>11
  DEF Next, vars, Post, Respond, Finish, Poll, PollEnter, PollWake

(* No wakeup is lost: while a thread sleeps in task_poll, the linked tasks *)
(* are matched by threads that were woken and have not looked yet.         *)
THEOREM WakeupsSuffice == Spec => []NoLostWakeup
<1>1. Init => NoLostWakeup
  BY DEF Init, NoLostWakeup, At
<1> QED
  BY <1>1, InitType, TypeStep, WakeupStep, PTL DEF Spec

-----------------------------------------------------------------------------
(* Unloading.                                                              *)

UnloadInv == FinLast /\ DrainedBeforeFree /\ FreedOnce

(* Every step keeps the invariant of unloading.                            *)
LEMMA UnloadStep == TypeOK /\ UnloadInv /\ [Next]_vars => UnloadInv'
<1> SUFFICES ASSUME TypeOK, UnloadInv, [Next]_vars
             PROVE  UnloadInv'
  OBVIOUS
<1>1. /\ pc \in [Poller -> PC] /\ queue \in Seq(Task \cup {Fin})
      /\ alive \in BOOLEAN /\ finished \in BOOLEAN
  BY DEF TypeOK
<1>2. /\ \A i \in DOMAIN queue : queue[i] = Fin => i = Len(queue) /\ finished
      /\ ~alive \/ At("null") # {} => finished /\ queue = <<>>
      /\ \A p, q \in At("null") : p = q
      /\ At("null") # {} => alive
  BY DEF UnloadInv, FinLast, DrainedBeforeFree, FreedOnce, Range
<1>3. SUFFICES /\ \A i \in DOMAIN queue' :
                    queue'[i] = Fin => i = Len(queue') /\ finished'
               /\ ~alive' \/ At("null")' # {} => finished' /\ queue' = <<>>
               /\ \A p, q \in At("null")' : p = q
               /\ At("null")' # {} => alive'
  BY DEF UnloadInv, FinLast, DrainedBeforeFree, FreedOnce, Range
<1>4. ASSUME NEW p \in Poller, NEW l \in PC, Goto(p, l)
      PROVE  At("null")' = IF l = "null" THEN At("null") \cup {p}
                                         ELSE At("null") \ {p}
  BY <1>1, <1>4, GotoSets
<1>5. ASSUME queue # <<>>, queue' = Tail(queue), UNCHANGED finished
      PROVE  \A i \in DOMAIN queue' :
                    queue'[i] = Fin => i = Len(queue') /\ finished'
  BY <1>1, <1>2, <1>5, TailFacts
<1>6. ASSUME NEW t \in Task, Post(t) PROVE <1>3!1
  <2>1. At("null")' = At("null")
    BY <1>1, <1>6, SignalMoves DEF Post, Enqueue
  <2>2. \A i \in DOMAIN queue' : queue'[i] # Fin
    BY <1>1, <1>2, <1>6, AppendFacts, FinAssumption DEF Post, Enqueue
  <2> QED
    BY <1>2, <1>6, <2>1, <2>2 DEF Post
<1>7. ASSUME NEW t \in Task, Respond(t) PROVE <1>3!1
  BY <1>2, <1>7 DEF Respond, At
<1>8. CASE Finish
  <2>1. ~finished /\ finished' /\ UNCHANGED alive
    BY <1>8 DEF Finish
  <2>2. CASE Enqueue(Fin)
    <3>1. At("null")' = At("null")
      BY <1>1, <2>2, SignalMoves DEF Enqueue
    <3>2. \A i \in DOMAIN queue' : queue'[i] = Fin => i = Len(queue')
      BY <1>1, <1>2, <2>1, <2>2, AppendFacts DEF Enqueue
    <3> QED
      BY <1>2, <2>1, <3>1, <3>2
  <2>3. CASE UNCHANGED <<queue, waiting, pc>>
    BY <1>2, <2>1, <2>3 DEF At
  <2> QED
    BY <1>8, <2>2, <2>3 DEF Finish
<1>9. ASSUME NEW p \in Poller, Dequeue(p), alive, UNCHANGED <<alive, finished>>
      PROVE  <1>3!1
  <2>1. At("null") = {}
    BY <1>2, <1>9 DEF Dequeue
  <2>2. CASE Head(queue) = Fin
    <3>1. At("null")' = {p}
      BY <1>4, <1>9, <2>1, <2>2 DEF Dequeue, PC
    <3>2. Len(queue) = 1 /\ finished
      BY <1>1, <1>2, <1>9, <2>2, TailFacts DEF Dequeue
    <3>3. queue' = <<>>
      <4>1. queue' \in Seq(Task \cup {Fin}) /\ Len(queue') = 0
        BY <1>1, <1>9, <3>2, TailFacts DEF Dequeue
      <4> QED
        BY <4>1, EmptySeq
    <3> QED
      BY <1>5, <1>9, <3>1, <3>2, <3>3 DEF Dequeue
  <2>3. CASE Head(queue) # Fin
    <3>1. At("null")' = {}
      BY <1>4, <1>9, <2>1, <2>3 DEF Dequeue, PC
    <3> QED
      BY <1>5, <1>9, <3>1 DEF Dequeue
  <2> QED
    BY <2>2, <2>3
<1>10. ASSUME NEW p \in Poller, Wait(p), alive, pc[p] # "null",
              UNCHANGED <<alive, finished>>
       PROVE  <1>3!1
  <2>1. At("null")' = At("null")
    BY <1>4, <1>10 DEF Wait, PC, At
  <2> QED
    BY <1>2, <1>10, <2>1 DEF Wait
<1>11. ASSUME NEW p \in Poller, FreeQueue(p) PROVE <1>3!1
  <2>1. At("null")' = {} /\ At("null") # {}
    <3>1. At("null")' = At("null") \ {p} /\ p \in At("null")
      BY <1>4, <1>11 DEF FreeQueue, PC, At
    <3> QED
      BY <1>2, <3>1
  <2> QED
    BY <1>2, <1>11, <2>1 DEF FreeQueue
<1>12. ASSUME NEW p \in Poller, NEW l \in PC, Goto(p, l), l # "null",
              pc[p] # "null", UNCHANGED <<queue, alive, finished>>
       PROVE  <1>3!1
  <2>1. At("null")' = At("null")
    BY <1>4, <1>12 DEF At
  <2> QED
    BY <1>2, <1>12, <2>1
<1>13. ASSUME NEW p \in Poller, SpuriousWakeup(p) PROVE <1>3!1
  BY <1>12, <1>13 DEF SpuriousWakeup, PC
<1>14. ASSUME NEW p \in Poller, LockFails(p) PROVE <1>3!1
  BY <1>12, <1>14 DEF LockFails, PC
<1>15. ASSUME NEW p \in Poller, WaitFails(p) PROVE <1>3!1
  BY <1>12, <1>15 DEF WaitFails, PC, Blocked, At
<1>16. ASSUME NEW p \in Poller, UnlockFails(p) PROVE <1>3!1
  <2>1. At("null")' = {}
    BY <1>2, <1>4, <1>16 DEF UnlockFails, PC
  <2> QED
    BY <1>5, <1>16, <2>1 DEF UnlockFails
<1>17. CASE UNCHANGED vars
  BY <1>2, <1>17 DEF vars, At
<1>18. ASSUME NEW p \in Poller, PollEnter(p) PROVE <1>3!1
  BY <1>9, <1>10, <1>18 DEF PollEnter
<1>19. ASSUME NEW p \in Poller, PollWake(p) PROVE <1>3!1
  BY <1>9, <1>10, <1>19 DEF PollWake
<1> QED
  BY <1>6, <1>7, <1>8, <1>11, <1>13, <1>14, <1>15, <1>16, <1>17, <1>18, <1>19
  DEF Next, Poll

(* The invariant of unloading holds initially.                             *)
LEMMA InitUnload == Init => UnloadInv
<1> SUFFICES ASSUME Init
             PROVE  UnloadInv
  OBVIOUS
<1>1. DOMAIN queue = {} /\ alive /\ ~finished
  BY DEF Init
<1>2. At("null") = {}
  BY DEF Init, At
<1> QED
  BY <1>1, <1>2 DEF UnloadInv, FinLast, DrainedBeforeFree, FreedOnce, Range

(* The finish task is the last of the list (the comment in                 *)
(* ngx_http_lua_ffi_task_finish).                                          *)
THEOREM FinIsLast == Spec => []FinLast
<1>1. UnloadInv => FinLast
  BY DEF UnloadInv
<1> QED
  BY <1>1, InitType, InitUnload, TypeStep, UnloadStep, PTL DEF Spec

(* The comment in ngx_http_lua_ffi_free_task_queue, whatever the number of *)
(* pollers and whichever pthread call fails: no task is lost with the      *)
(* queue.                                                                  *)
THEOREM Drained == Spec => []DrainedBeforeFree
<1>1. UnloadInv => DrainedBeforeFree
  BY DEF UnloadInv
<1> QED
  BY <1>1, InitType, InitUnload, TypeStep, UnloadStep, PTL DEF Spec

(* The queue is freed once.                                                *)
THEOREM FreedAtMostOnce == Spec => []FreedOnce
<1>1. UnloadInv => FreedOnce
  BY DEF UnloadInv
<1> QED
  BY <1>1, InitType, InitUnload, TypeStep, UnloadStep, PTL DEF Spec

(* With one poll thread, as in every loader and example of the repository, *)
(* no access to the queue follows its deallocation.                        *)
THEOREM SinglePollerSafe ==
  ASSUME \A p, q \in Poller : p = q
  PROVE  Spec => []NoPollerOnFreedQueue
<1>1. TypeOK /\ UnloadInv /\ NoPollerOnFreedQueue /\ [Next]_vars
        => NoPollerOnFreedQueue'
  <2> SUFFICES ASSUME TypeOK, UnloadInv, NoPollerOnFreedQueue, [Next]_vars,
                      ~alive'
               PROVE  Gone' = Poller
    BY DEF NoPollerOnFreedQueue
  <2>1. pc \in [Poller -> PC]
    BY DEF TypeOK
  <2>2. ASSUME NEW p \in Poller, FreeQueue(p)
        PROVE  Gone' = Poller
    <3>1. Gone' = Gone \cup {p}
      BY <2>1, <2>2, GotoSets DEF FreeQueue, PC
    <3> QED
      BY <3>1 DEF Gone, At
  <2>3. CASE ~alive /\ \A p \in Poller : ~FreeQueue(p)
    <3>1. Gone = Poller
      BY <2>3 DEF NoPollerOnFreedQueue
    <3>2. At("sleep") = {}
      BY <3>1 DEF Gone, At
    <3>3. finished
      BY <2>3 DEF UnloadInv, DrainedBeforeFree
    <3>4. UNCHANGED pc
      BY <2>3, <3>2, <3>3
      DEF Next, vars, Post, Respond, Finish, Poll, PollEnter, PollWake,
          SpuriousWakeup, LockFails, WaitFails, UnlockFails
    <3> QED
      BY <3>1, <3>4 DEF Gone, At
  <2>4. alive' = alive \/ \E p \in Poller : FreeQueue(p)
    BY DEF Next, vars, Post, Respond, Finish, Poll, PollEnter, PollWake,
           SpuriousWakeup, LockFails, WaitFails, UnlockFails
  <2> QED
    BY <2>2, <2>3, <2>4
<1>2. Init => NoPollerOnFreedQueue
  BY DEF Init, NoPollerOnFreedQueue
<1> QED
  BY <1>1, <1>2, InitType, InitUnload, TypeStep, UnloadStep, PTL DEF Spec

(* Where one thread polls, and no pthread call fails, the thread is gone   *)
(* exactly when the queue is.                                              *)
ThreadIsQueue == alive <=> Gone # Poller

(* A step of such a runtime is one of RuntimeLife.                         *)
LEMMA LifeStep ==
  ASSUME NEW r, Poller = {r}, ~PthreadFails,
         TypeOK, UnloadInv, ThreadIsQueue, [Next]_vars
  PROVE  /\ ThreadIsQueue'
         /\ [Life!Unload \/ Life!PollNull]_<<
               IF ~alive THEN "none" ELSE IF finished THEN "finishing" ELSE "live",
               IF Gone = Poller THEN "exiting" ELSE "polling">>
<1>1. pc \in [Poller -> PC] /\ alive \in BOOLEAN /\ finished \in BOOLEAN
  BY DEF TypeOK
<1>2. Gone = Poller <=> pc[r] = "done"
  BY DEF Gone, At
<1>3. (Gone = Poller)' <=> pc'[r] = "done"
  BY DEF Gone, At
<1>4. CASE UNCHANGED <<alive, finished>> /\ (pc'[r] = "done" <=> pc[r] = "done")
  BY <1>2, <1>3, <1>4 DEF ThreadIsQueue
<1>5. CASE \E p \in Poller : FreeQueue(p)
  <2>1. pc[r] = "null" /\ ~alive' /\ pc'[r] = "done" /\ finished' = finished
    BY <1>1, <1>5 DEF FreeQueue, Goto
  <2>2. alive /\ finished
    BY <2>1 DEF UnloadInv, FreedOnce, DrainedBeforeFree, At
  <2> QED
    BY <1>2, <1>3, <2>1, <2>2 DEF ThreadIsQueue, Life!PollNull
<1>6. CASE Finish
  <2>1. ~finished /\ finished' /\ alive' = alive
    BY <1>1, <1>6 DEF Finish
  <2>2. alive
    BY <2>1 DEF UnloadInv, DrainedBeforeFree
  <2>3. pc'[r] = "done" <=> pc[r] = "done"
    BY <1>1, <1>6 DEF Finish, Enqueue, Signal, Goto, At
  <2> QED
    BY <1>2, <1>3, <2>1, <2>2, <2>3 DEF ThreadIsQueue, Life!Unload
<1>7. ASSUME NEW t \in Task, Post(t) \/ Respond(t)
      PROVE  UNCHANGED <<alive, finished>> /\ (pc'[r] = "done" <=> pc[r] = "done")
  BY <1>1, <1>7 DEF Post, Respond, Enqueue, Signal, Goto, At
<1>8. ASSUME NEW p \in Poller, PollEnter(p) \/ PollWake(p) \/ SpuriousWakeup(p)
      PROVE  UNCHANGED <<alive, finished>> /\ (pc'[r] = "done" <=> pc[r] = "done")
  BY <1>1, <1>8 DEF PollEnter, PollWake, SpuriousWakeup, Dequeue, Wait, Goto
<1>9. CASE UNCHANGED vars
  BY <1>4, <1>9 DEF vars
<1> QED
  BY <1>4, <1>5, <1>6, <1>7, <1>8, <1>9
  DEF Next, Poll, LockFails, WaitFails, UnlockFails

(* The queue and its poller do what load_ffi and unload rely on.           *)
THEOREM QueueServes ==
  ASSUME NEW r, Poller = {r}, ~PthreadFails
  PROVE  Spec => RefinesLife
<1>1. Init => /\ ThreadIsQueue
              /\ (IF ~alive THEN "none" ELSE IF finished THEN "finishing"
                                                         ELSE "live") = "live"
              /\ (IF Gone = Poller THEN "exiting" ELSE "polling") = "polling"
  BY DEF Init, ThreadIsQueue, Gone, At
<1> QED
  BY <1>1, LifeStep, InitType, InitUnload, TypeStep, UnloadStep, PTL
  DEF Spec, RefinesLife, Life!Served

=============================================================================

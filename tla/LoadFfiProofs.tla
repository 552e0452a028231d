--------------------------- MODULE LoadFfiProofs ---------------------------
(***************************************************************************)
(* Proofs about LoadFfi, for any libraries, configurations and loads.      *)
(*                                                                         *)
(* The inductive invariant says what each kind of reference to a load      *)
(* implies: an entry of the cache, a reference of the application, an open *)
(* handle, a pin, a thread.                                                *)
(***************************************************************************)
EXTENDS LoadFfi, TLAPS

(* A cached object is complete, and knows its key.                         *)
CachedComplete ==
  \A k \in Key : runtimes[k] # None =>
    LET o == runtimes[k] IN
      /\ obj[o] # None
      /\ obj[o].key = k /\ ~obj[o].finished /\ obj[o].handle
      /\ o \in handles /\ tq[o] = "live" /\ thread[o] = "polling"

(* What is held or runs has an object, unloaded or cached under its key.   *)
HeldCached ==
  \A o \in Obj : o \in refs \/ thread[o] # "none" =>
    /\ obj[o] # None
    /\ obj[o].finished \/ (obj[o].key \in Key /\ runtimes[obj[o].key] = o)

(* The queue of an unloaded object has the finish task or is freed.        *)
FinishedQueue ==
  \A o \in Obj : obj[o] # None /\ obj[o].finished => tq[o] # "live"

OpenHasObject == \A o \in handles : obj[o] # None

PinIsOpen ==
  \A l \in Lib : pinLibs[l] # None =>
    pinLibs[l] \in handles /\ obj[pinLibs[l]].lib = l

(* Without opts.unpin, a library that was loaded is pinned.                *)
AllPinned ==
  ~MayUnpin => \A o \in Obj : obj[o] # None => pinLibs[obj[o].lib] # None

LoadInv ==
  /\ LoadTypeOK
  /\ CachedComplete
  /\ HeldCached
  /\ FinishedQueue
  /\ OpenHasObject
  /\ PinIsOpen
  /\ AllPinned

(* The invariant holds initially.                                          *)
LEMMA LoadInitInv == LoadInit => LoadInv
<1> SUFFICES ASSUME LoadInit PROVE LoadInv
  OBVIOUS
<1>1. LoadTypeOK
  BY DEF LoadInit, LoadTypeOK, TQ, Thread
<1>2. CachedComplete /\ HeldCached /\ FinishedQueue /\ OpenHasObject
  BY DEF LoadInit, CachedComplete, HeldCached, FinishedQueue, OpenHasObject
<1>3. PinIsOpen /\ AllPinned
  BY DEF LoadInit, PinIsOpen, AllPinned
<1> QED
  BY <1>1, <1>2, <1>3 DEF LoadInv

(* A load makes one object and changes no other.                           *)
LEMMA CreateObject ==
  ASSUME LoadTypeOK, NEW o \in Obj, NEW k \in Key, NEW unpin \in BOOLEAN,
         Create(o, k, unpin)
  PROVE  /\ obj' \in [Obj -> Object \cup {None}]
         /\ obj'[o] # None
         /\ obj'[o].lib = k[1] /\ obj'[o].key = k
         /\ ~obj'[o].finished /\ obj'[o].handle
         /\ \A p \in Obj : p # o => obj'[p] = obj[p]
         /\ obj[o] = None /\ tq[o] = "none" /\ runtimes[k] = None
         /\ k[1] \in Lib /\ init' \in BOOLEAN
         /\ tq' \in [Obj -> TQ] /\ tq'[o] = "live"
         /\ \A p \in Obj : p # o => tq'[p] = tq[p]
         /\ handles' = handles \cup {o}
         /\ pinLibs' \in [Lib -> Obj \cup {None}]
         /\ pinLibs'[k[1]] = IF unpin THEN pinLibs[k[1]] ELSE o
         /\ \A l \in Lib : l # k[1] => pinLibs'[l] = pinLibs[l]
         /\ unpin => MayUnpin
<1> DEFINE new == [lib |-> k[1], key |-> k, finished |-> FALSE, handle |-> TRUE]
<1>1. new \in Object
  BY DEF Object, Key
<1>2. obj' = [obj EXCEPT ![o] = new]
  BY DEF Create
<1>3. obj'[o] = new
  BY <1>2 DEF LoadTypeOK
<1>4. new # None
  BY <1>1, NoneAssumption
<1> HIDE DEF new
<1>5. obj' \in [Obj -> Object \cup {None}]
  BY <1>1, <1>2 DEF LoadTypeOK
<1>6. \A p \in Obj : p # o => obj'[p] = obj[p]
  BY <1>2 DEF LoadTypeOK
<1>7. /\ obj[o] = None /\ tq[o] = "none" /\ runtimes[k] = None
      /\ k[1] \in Lib /\ init' \in BOOLEAN
      /\ handles' = handles \cup {o}
      /\ unpin => MayUnpin
  BY DEF Create, Unused, Key
<1>8. /\ tq' \in [Obj -> TQ] /\ tq'[o] = "live"
      /\ \A p \in Obj : p # o => tq'[p] = tq[p]
  BY DEF Create, LoadTypeOK, TQ
<1>9. /\ pinLibs' \in [Lib -> Obj \cup {None}]
      /\ pinLibs'[k[1]] = IF unpin THEN pinLibs[k[1]] ELSE o
      /\ \A l \in Lib : l # k[1] => pinLibs'[l] = pinLibs[l]
  BY <1>7 DEF Create, LoadTypeOK
<1> QED
  BY <1>3, <1>4, <1>5, <1>6, <1>7, <1>8, <1>9 DEF new

(* An unload changes one object, which stays one.                          *)
LEMMA UnloadObject ==
  ASSUME LoadInv, NEW o \in Obj, Unload(o)
  PROVE  /\ obj' \in [Obj -> Object \cup {None}]
         /\ obj[o] # None /\ obj'[o] # None
         /\ obj'[o].lib = obj[o].lib
         /\ obj'[o].finished
         /\ \A p \in Obj : p # o => obj'[p] = obj[p]
         /\ obj[o].key \in Key /\ runtimes[obj[o].key] = o
         /\ runtimes' \in [Key -> Obj \cup {None}]
         /\ \A k \in Key : runtimes'[k] = IF k = obj[o].key THEN None
                                                            ELSE runtimes[k]
         /\ tq' \in [Obj -> TQ] /\ tq'[o] = "finishing"
         /\ \A p \in Obj : p # o => tq'[p] = tq[p]
<1>1. obj[o] \in Object /\ obj[o] # None
  BY DEF LoadInv, LoadTypeOK, HeldCached, Unload
<1> DEFINE new == [obj[o] EXCEPT !.finished = TRUE, !.handle = FALSE,
                                 !.key = None]
<1>2. new \in Object /\ new.lib = obj[o].lib /\ new.finished
  BY <1>1 DEF Object
<1>3. obj' = [obj EXCEPT ![o] = new]
  BY <1>1 DEF Unload, LoadInv, LoadTypeOK, Object
<1> HIDE DEF new
<1>4. obj'[o] = new /\ \A p \in Obj : p # o => obj'[p] = obj[p]
  BY <1>3 DEF LoadInv, LoadTypeOK
<1>5. obj' \in [Obj -> Object \cup {None}]
  BY <1>2, <1>3 DEF LoadInv, LoadTypeOK
<1>6. obj[o].key \in Key /\ runtimes[obj[o].key] = o
  BY DEF LoadInv, HeldCached, Unload
<1>7. /\ runtimes' \in [Key -> Obj \cup {None}]
      /\ \A k \in Key : runtimes'[k] = IF k = obj[o].key THEN None
                                                         ELSE runtimes[k]
  BY DEF LoadInv, LoadTypeOK, Unload
<1>8. /\ tq' \in [Obj -> TQ] /\ tq'[o] = "finishing"
      /\ \A p \in Obj : p # o => tq'[p] = tq[p]
  BY DEF LoadInv, LoadTypeOK, Unload, TQ
<1> QED
  BY <1>1, <1>2, <1>4, <1>5, <1>6, <1>7, <1>8, NoneAssumption

(* Returning a cached object.                                              *)
LEMMA CachedKeeps ==
  ASSUME LoadInv, NEW k \in Key, LoadCached(k)
  PROVE  LoadInv'
<1>1. LoadTypeOK'
  BY NoneAssumption
  DEF LoadCached, LoadInv, LoadTypeOK, TQ, Thread
<1>2. CachedComplete'
  BY NoneAssumption
  DEF LoadCached, LoadInv, CachedComplete, LoadTypeOK
<1>3. HeldCached'
  BY NoneAssumption
  DEF LoadCached, LoadInv, HeldCached,
      CachedComplete, LoadTypeOK
<1>4. FinishedQueue'
  BY NoneAssumption
  DEF LoadCached, LoadInv, FinishedQueue, LoadTypeOK
<1>5. OpenHasObject'
  BY NoneAssumption
  DEF LoadCached, LoadInv, OpenHasObject, LoadTypeOK
<1>6. PinIsOpen'
  BY NoneAssumption
  DEF LoadCached, LoadInv, PinIsOpen, OpenHasObject, LoadTypeOK
<1>7. AllPinned'
  BY NoneAssumption
  DEF LoadCached, LoadInv, AllPinned, LoadTypeOK
<1> QED
  BY <1>1, <1>2, <1>3, <1>4, <1>5, <1>6, <1>7 DEF LoadInv

(* A load that succeeds.                                                   *)
LEMMA LoadKeeps ==
  ASSUME LoadInv, NEW o \in Obj, NEW k \in Key, NEW unpin \in BOOLEAN,
         Load(o, k, unpin)
  PROVE  LoadInv'
<1>0. /\ \A p \in Obj : thread'[p] = IF p = o THEN "polling" ELSE thread[p]
      /\ thread' \in [Obj -> Thread]
      /\ \A h \in Key : runtimes'[h] = IF h = k THEN o ELSE runtimes[h]
      /\ runtimes' \in [Key -> Obj \cup {None}]
      /\ refs' = refs \cup {o}
  BY DEF Load, LoadInv, LoadTypeOK, Thread
<1>1. /\ obj' \in [Obj -> Object \cup {None}]
      /\ obj'[o] # None
      /\ obj'[o].lib = k[1] /\ obj'[o].key = k
      /\ ~obj'[o].finished /\ obj'[o].handle
      /\ \A p \in Obj : p # o => obj'[p] = obj[p]
      /\ obj[o] = None /\ tq[o] = "none" /\ runtimes[k] = None
      /\ k[1] \in Lib /\ init' \in BOOLEAN
      /\ tq' \in [Obj -> TQ] /\ tq'[o] = "live"
      /\ \A p \in Obj : p # o => tq'[p] = tq[p]
      /\ handles' = handles \cup {o}
      /\ pinLibs' \in [Lib -> Obj \cup {None}]
      /\ pinLibs'[k[1]] = IF unpin THEN pinLibs[k[1]] ELSE o
      /\ \A l \in Lib : l # k[1] => pinLibs'[l] = pinLibs[l]
      /\ unpin => MayUnpin
  BY CreateObject DEF Load, LoadInv
<1>2. LoadTypeOK'
  BY <1>1, <1>0, NoneAssumption DEF LoadInv, LoadTypeOK, Thread
<1>3. CachedComplete'
  BY <1>1, <1>0, NoneAssumption DEF LoadInv, CachedComplete, LoadTypeOK
<1>4. HeldCached'
  BY <1>1, <1>0, NoneAssumption DEF LoadInv, HeldCached,
      CachedComplete, LoadTypeOK
<1>5. FinishedQueue'
  BY <1>1, <1>0, NoneAssumption DEF LoadInv, FinishedQueue, LoadTypeOK
<1>6. OpenHasObject'
  BY <1>1, <1>0, NoneAssumption DEF LoadInv, OpenHasObject, LoadTypeOK
<1>7. PinIsOpen'
  BY <1>1, <1>0, NoneAssumption DEF LoadInv, PinIsOpen,
      OpenHasObject, LoadTypeOK
<1>8. AllPinned'
  <2> SUFFICES ASSUME ~MayUnpin, NEW p \in Obj, obj'[p] # None
               PROVE  pinLibs'[obj'[p].lib] # None
    BY DEF AllPinned
  <2>1. pinLibs'[k[1]] # None
    BY <1>1, NoneAssumption
  <2>2. p # o => obj[p].lib \in Lib /\ pinLibs[obj[p].lib] # None
    BY <1>1 DEF LoadInv, AllPinned, LoadTypeOK, Object
  <2> QED
    BY <1>1, <2>1, <2>2
<1> QED
  BY <1>2, <1>3, <1>4, <1>5, <1>6, <1>7, <1>8 DEF LoadInv

(* A load that libffi_init rejects.                                        *)
LEMMA RejectedKeeps ==
  ASSUME LoadInv, NEW o \in Obj, NEW k \in Key, NEW unpin \in BOOLEAN,
         LoadRejected(o, k, unpin)
  PROVE  LoadInv'
<1>0. thread' = thread /\ runtimes' = runtimes /\ refs' = refs
  BY DEF LoadRejected, LoadInv, LoadTypeOK, Thread
<1>1. /\ obj' \in [Obj -> Object \cup {None}]
      /\ obj'[o] # None
      /\ obj'[o].lib = k[1] /\ obj'[o].key = k
      /\ ~obj'[o].finished /\ obj'[o].handle
      /\ \A p \in Obj : p # o => obj'[p] = obj[p]
      /\ obj[o] = None /\ tq[o] = "none" /\ runtimes[k] = None
      /\ k[1] \in Lib /\ init' \in BOOLEAN
      /\ tq' \in [Obj -> TQ] /\ tq'[o] = "live"
      /\ \A p \in Obj : p # o => tq'[p] = tq[p]
      /\ handles' = handles \cup {o}
      /\ pinLibs' \in [Lib -> Obj \cup {None}]
      /\ pinLibs'[k[1]] = IF unpin THEN pinLibs[k[1]] ELSE o
      /\ \A l \in Lib : l # k[1] => pinLibs'[l] = pinLibs[l]
      /\ unpin => MayUnpin
  BY CreateObject DEF LoadRejected, LoadInv
<1>2. LoadTypeOK'
  BY <1>1, <1>0, NoneAssumption DEF LoadInv, LoadTypeOK, Thread
<1>3. CachedComplete'
  BY <1>1, <1>0, NoneAssumption DEF LoadInv, CachedComplete, LoadTypeOK
<1>4. HeldCached'
  BY <1>1, <1>0, NoneAssumption DEF LoadInv, HeldCached,
      CachedComplete, LoadTypeOK
<1>5. FinishedQueue'
  BY <1>1, <1>0, NoneAssumption DEF LoadInv, FinishedQueue, LoadTypeOK
<1>6. OpenHasObject'
  BY <1>1, <1>0, NoneAssumption DEF LoadInv, OpenHasObject, LoadTypeOK
<1>7. PinIsOpen'
  BY <1>1, <1>0, NoneAssumption DEF LoadInv, PinIsOpen,
      OpenHasObject, LoadTypeOK
<1>8. AllPinned'
  <2> SUFFICES ASSUME ~MayUnpin, NEW p \in Obj, obj'[p] # None
               PROVE  pinLibs'[obj'[p].lib] # None
    BY DEF AllPinned
  <2>1. pinLibs'[k[1]] # None
    BY <1>1, NoneAssumption
  <2>2. p # o => obj[p].lib \in Lib /\ pinLibs[obj[p].lib] # None
    BY <1>1 DEF LoadInv, AllPinned, LoadTypeOK, Object
  <2> QED
    BY <1>1, <2>1, <2>2
<1> QED
  BY <1>2, <1>3, <1>4, <1>5, <1>6, <1>7, <1>8 DEF LoadInv

(* A library that cannot be loaded.                                        *)
LEMMA RaisesKeeps ==
  ASSUME LoadInv, NEW o \in Obj, NEW k \in Key, LoadRaises(o, k)
  PROVE  LoadInv'
<1>1. LoadTypeOK'
  BY NoneAssumption
  DEF LoadRaises, Unused, LoadInv, LoadTypeOK, TQ, Thread
<1>2. CachedComplete'
  BY NoneAssumption
  DEF LoadRaises, Unused, LoadInv, CachedComplete, LoadTypeOK
<1>3. HeldCached'
  BY NoneAssumption
  DEF LoadRaises, Unused, LoadInv, HeldCached,
      CachedComplete, LoadTypeOK
<1>4. FinishedQueue'
  BY NoneAssumption
  DEF LoadRaises, Unused, LoadInv, FinishedQueue, LoadTypeOK
<1>5. OpenHasObject'
  BY NoneAssumption
  DEF LoadRaises, Unused, LoadInv, OpenHasObject, LoadTypeOK
<1>6. PinIsOpen'
  BY NoneAssumption
  DEF LoadRaises, Unused, LoadInv, PinIsOpen, OpenHasObject, LoadTypeOK
<1>7. AllPinned'
  BY NoneAssumption
  DEF LoadRaises, Unused, LoadInv, AllPinned, LoadTypeOK
<1> QED
  BY <1>1, <1>2, <1>3, <1>4, <1>5, <1>6, <1>7 DEF LoadInv

(* An unload.                                                              *)
LEMMA UnloadKeeps ==
  ASSUME LoadInv, NEW o \in Obj, Unload(o)
  PROVE  LoadInv'
<1>0. UNCHANGED <<init, pinLibs, handles, refs, thread>>
  BY DEF Unload
<1>1. /\ obj' \in [Obj -> Object \cup {None}]
      /\ obj[o] # None /\ obj'[o] # None
      /\ obj'[o].lib = obj[o].lib
      /\ obj'[o].finished
      /\ \A p \in Obj : p # o => obj'[p] = obj[p]
      /\ obj[o].key \in Key /\ runtimes[obj[o].key] = o
      /\ runtimes' \in [Key -> Obj \cup {None}]
      /\ \A k \in Key : runtimes'[k] = IF k = obj[o].key THEN None
                                                         ELSE runtimes[k]
      /\ tq' \in [Obj -> TQ] /\ tq'[o] = "finishing"
      /\ \A p \in Obj : p # o => tq'[p] = tq[p]
  BY UnloadObject
<1>2. LoadTypeOK'
  BY <1>1, <1>0, NoneAssumption DEF LoadInv, LoadTypeOK, Thread
<1>3. CachedComplete'
  BY <1>1, <1>0, NoneAssumption DEF LoadInv, CachedComplete, LoadTypeOK
<1>4. HeldCached'
  BY <1>1, <1>0, NoneAssumption DEF LoadInv, HeldCached,
      CachedComplete, LoadTypeOK
<1>5. FinishedQueue'
  BY <1>1, <1>0, NoneAssumption DEF LoadInv, FinishedQueue, LoadTypeOK
<1>6. OpenHasObject'
  BY <1>1, <1>0, NoneAssumption DEF LoadInv, OpenHasObject, LoadTypeOK
<1>7. PinIsOpen'
  BY <1>1, <1>0, NoneAssumption DEF LoadInv, PinIsOpen,
      OpenHasObject, LoadTypeOK
<1>8. AllPinned'
  BY <1>1, <1>0, NoneAssumption DEF LoadInv, AllPinned, LoadTypeOK
<1> QED
  BY <1>2, <1>3, <1>4, <1>5, <1>6, <1>7, <1>8 DEF LoadInv

(* The application drops a reference.                                      *)
LEMMA ReleaseKeeps ==
  ASSUME LoadInv, NEW o \in Obj, Release(o)
  PROVE  LoadInv'
<1>1. LoadTypeOK'
  BY NoneAssumption
  DEF Release, LoadInv, LoadTypeOK, TQ, Thread
<1>2. CachedComplete'
  BY NoneAssumption
  DEF Release, LoadInv, CachedComplete, LoadTypeOK
<1>3. HeldCached'
  BY NoneAssumption
  DEF Release, LoadInv, HeldCached,
      CachedComplete, LoadTypeOK
<1>4. FinishedQueue'
  BY NoneAssumption
  DEF Release, LoadInv, FinishedQueue, LoadTypeOK
<1>5. OpenHasObject'
  BY NoneAssumption
  DEF Release, LoadInv, OpenHasObject, LoadTypeOK
<1>6. PinIsOpen'
  BY NoneAssumption
  DEF Release, LoadInv, PinIsOpen, OpenHasObject, LoadTypeOK
<1>7. AllPinned'
  BY NoneAssumption
  DEF Release, LoadInv, AllPinned, LoadTypeOK
<1> QED
  BY <1>1, <1>2, <1>3, <1>4, <1>5, <1>6, <1>7 DEF LoadInv

(* The collector closes a handle.                                          *)
LEMMA CloseKeeps ==
  ASSUME LoadInv, NEW o \in Obj, CloseHandle(o)
  PROVE  LoadInv'
<1>1. LoadTypeOK'
  BY NoneAssumption
  DEF CloseHandle, Pinned, Reachable, Range, LoadInv, LoadTypeOK, TQ, Thread
<1>2. CachedComplete'
  BY NoneAssumption
  DEF CloseHandle, Pinned, Reachable, Range, LoadInv, CachedComplete,
      LoadTypeOK
<1>3. HeldCached'
  BY NoneAssumption
  DEF CloseHandle, Pinned, Reachable, Range, LoadInv, HeldCached,
      CachedComplete, LoadTypeOK
<1>4. FinishedQueue'
  BY NoneAssumption
  DEF CloseHandle, Pinned, Reachable, Range, LoadInv, FinishedQueue,
      LoadTypeOK
<1>5. OpenHasObject'
  BY NoneAssumption
  DEF CloseHandle, Pinned, Reachable, Range, LoadInv, OpenHasObject,
      LoadTypeOK
<1>6. PinIsOpen'
  BY NoneAssumption
  DEF CloseHandle, Pinned, Reachable, Range, LoadInv, PinIsOpen,
      OpenHasObject, LoadTypeOK
<1>7. AllPinned'
  BY NoneAssumption
  DEF CloseHandle, Pinned, Reachable, Range, LoadInv, AllPinned, LoadTypeOK
<1> QED
  BY <1>1, <1>2, <1>3, <1>4, <1>5, <1>6, <1>7 DEF LoadInv

(* The address of an object is used again.                                 *)
LEMMA RecycleKeeps ==
  ASSUME LoadInv, NEW o \in Obj, Recycle(o)
  PROVE  LoadInv'
<1>1. LoadTypeOK'
  BY NoneAssumption
  DEF Recycle, Reachable, Range, LoadInv, LoadTypeOK, TQ, Thread
<1>2. CachedComplete'
  BY NoneAssumption
  DEF Recycle, Reachable, Range, LoadInv, CachedComplete, LoadTypeOK
<1>3. HeldCached'
  BY NoneAssumption
  DEF Recycle, Reachable, Range, LoadInv, HeldCached, CachedComplete,
      LoadTypeOK
<1>4. FinishedQueue'
  BY NoneAssumption
  DEF Recycle, Reachable, Range, LoadInv, FinishedQueue, LoadTypeOK
<1>5. OpenHasObject'
  BY NoneAssumption
  DEF Recycle, Reachable, Range, LoadInv, OpenHasObject, LoadTypeOK
<1>6. PinIsOpen'
  BY NoneAssumption
  DEF Recycle, Reachable, Range, LoadInv, PinIsOpen, OpenHasObject,
      LoadTypeOK
<1>7. AllPinned'
  BY NoneAssumption
  DEF Recycle, Reachable, Range, LoadInv, AllPinned, LoadTypeOK
<1> QED
  BY <1>1, <1>2, <1>3, <1>4, <1>5, <1>6, <1>7 DEF LoadInv

(* The poll thread takes the finish task.                                  *)
LEMMA PollNullKeeps ==
  ASSUME LoadInv, NEW o \in Obj, PollNull(o)
  PROVE  LoadInv'
<1>1. LoadTypeOK'
  BY NoneAssumption
  DEF PollNull, LoadInv, LoadTypeOK, TQ, Thread
<1>2. CachedComplete'
  BY NoneAssumption
  DEF PollNull, LoadInv, CachedComplete, LoadTypeOK
<1>3. HeldCached'
  BY NoneAssumption
  DEF PollNull, LoadInv, HeldCached,
      CachedComplete, LoadTypeOK
<1>4. FinishedQueue'
  BY NoneAssumption
  DEF PollNull, LoadInv, FinishedQueue, LoadTypeOK
<1>5. OpenHasObject'
  BY NoneAssumption
  DEF PollNull, LoadInv, OpenHasObject, LoadTypeOK
<1>6. PinIsOpen'
  BY NoneAssumption
  DEF PollNull, LoadInv, PinIsOpen, OpenHasObject, LoadTypeOK
<1>7. AllPinned'
  BY NoneAssumption
  DEF PollNull, LoadInv, AllPinned, LoadTypeOK
<1> QED
  BY <1>1, <1>2, <1>3, <1>4, <1>5, <1>6, <1>7 DEF LoadInv

(* The poll thread ends.                                                   *)
LEMMA ExitKeeps ==
  ASSUME LoadInv, NEW o \in Obj, ThreadExit(o)
  PROVE  LoadInv'
<1>1. LoadTypeOK'
  BY NoneAssumption
  DEF ThreadExit, LoadInv, LoadTypeOK, TQ, Thread
<1>2. CachedComplete'
  BY NoneAssumption
  DEF ThreadExit, LoadInv, CachedComplete, LoadTypeOK
<1>3. HeldCached'
  BY NoneAssumption
  DEF ThreadExit, LoadInv, HeldCached,
      CachedComplete, LoadTypeOK
<1>4. FinishedQueue'
  BY NoneAssumption
  DEF ThreadExit, LoadInv, FinishedQueue, LoadTypeOK
<1>5. OpenHasObject'
  BY NoneAssumption
  DEF ThreadExit, LoadInv, OpenHasObject, LoadTypeOK
<1>6. PinIsOpen'
  BY NoneAssumption
  DEF ThreadExit, LoadInv, PinIsOpen, OpenHasObject, LoadTypeOK
<1>7. AllPinned'
  BY NoneAssumption
  DEF ThreadExit, LoadInv, AllPinned, LoadTypeOK
<1> QED
  BY <1>1, <1>2, <1>3, <1>4, <1>5, <1>6, <1>7 DEF LoadInv

(* Every step keeps the invariant.                                         *)
LEMMA LoadInvStep == LoadInv /\ [LoadNext]_loadVars => LoadInv'
<1> SUFFICES ASSUME LoadInv, [LoadNext]_loadVars PROVE LoadInv'
  OBVIOUS
<1>1. CASE UNCHANGED loadVars
  BY <1>1 DEF loadVars, LoadInv, LoadTypeOK, CachedComplete, HeldCached,
      FinishedQueue, OpenHasObject, PinIsOpen, AllPinned
<1>2. CASE LoadNext
  BY <1>2, CachedKeeps, LoadKeeps, RejectedKeeps, RaisesKeeps, UnloadKeeps,
     ReleaseKeeps, CloseKeeps, RecycleKeeps, PollNullKeeps, ExitKeeps
  DEF LoadNext
<1> QED
  BY <1>1, <1>2

(* The inductive invariant of loading and unloading holds.                 *)
THEOREM LoadInvariant == LoadSpec => []LoadInv
BY LoadInitInv, LoadInvStep, PTL DEF LoadSpec

-----------------------------------------------------------------------------
(* The variables of the loader have their types.                           *)
THEOREM LoadTypeCorrect == LoadSpec => []LoadTypeOK
<1>1. LoadInv => LoadTypeOK
  BY DEF LoadInv
<1> QED
  BY <1>1, LoadInvariant, PTL

(* What load_ffi returns, or Lua code holds and has not unloaded, has its  *)
(* queue, its thread and its code, also with opts.unpin and failing loads. *)
THEOREM UsableServed == LoadSpec => []LiveRuntimeServes
<1>1. LoadInv => LiveRuntimeServes
  <2> SUFFICES ASSUME LoadInv, NEW o \in Obj, Usable(o)
               PROVE  /\ tq[o] = "live" /\ thread[o] = "polling"
                      /\ Mapped(obj[o].lib)
    BY DEF LiveRuntimeServes
  <2>1. PICK k \in Key : runtimes[k] = o
    <3>1. CASE o \in Range(runtimes)
      BY <3>1 DEF Range, LoadInv, LoadTypeOK
    <3>2. CASE o \in refs /\ ~obj[o].finished
      BY <3>2 DEF LoadInv, HeldCached
    <3> QED
      BY <3>1, <3>2 DEF Usable
  <2> QED
    BY <2>1, NoneAssumption DEF LoadInv, CachedComplete, Mapped
<1> QED
  BY <1>1, LoadInvariant, PTL

(* A runtime that was not told to stop is the one cached under its key:    *)
(* load_ffi never starts a second one.                                     *)
THEOREM RuntimesUnique == LoadSpec => []OneRuntimePerKey
<1>1. LoadInv => OneRuntimePerKey
  BY DEF LoadInv, HeldCached, FinishedQueue, OneRuntimePerKey
<1> QED
  BY <1>1, LoadInvariant, PTL

(* Without opts.unpin no code is unmapped under a poll thread.             *)
THEOREM PinningKeepsCode ==
  ASSUME ~MayUnpin
  PROVE  LoadSpec => []LibraryMapped
<1>1. LoadInv => LibraryMapped
  <2> SUFFICES ASSUME LoadInv, NEW o \in Obj, thread[o] # "none"
               PROVE  Mapped(obj[o].lib)
    BY DEF LibraryMapped
  <2>1. obj[o] # None /\ obj[o].lib \in Lib
    BY DEF LoadInv, LoadTypeOK, HeldCached, Object
  <2>2. pinLibs[obj[o].lib] # None
    BY <2>1 DEF LoadInv, AllPinned
  <2> QED
    BY <2>1, <2>2 DEF LoadInv, PinIsOpen, Mapped
<1> QED
  BY <1>1, LoadInvariant, PTL

(* With or without opts.unpin, a library that some load pinned is mapped   *)
(* under every thread that runs its code.                                  *)
THEOREM PinnedCodeStays == LoadSpec => []PinnedLibraryMapped
<1>1. LoadInv => PinnedLibraryMapped
  <2> SUFFICES ASSUME LoadInv, NEW o \in Obj, thread[o] # "none",
                      pinLibs[obj[o].lib] # None
               PROVE  Mapped(obj[o].lib)
    BY DEF PinnedLibraryMapped
  <2>1. obj[o] # None /\ obj[o].lib \in Lib
    BY DEF LoadInv, LoadTypeOK, HeldCached, Object
  <2> QED
    BY <2>1 DEF LoadInv, PinIsOpen, Mapped
<1> QED
  BY <1>1, LoadInvariant, PTL

(* A stale reference cannot remove the entry of a later runtime: an entry  *)
(* goes away only when its own object is unloaded.                         *)
THEOREM EntriesOwned == LoadSpec => EntryOwnership
<1> DEFINE A ==
      \A k \in Key : runtimes[k] # None /\ runtimes'[k] # runtimes[k] =>
        /\ runtimes'[k] = None
        /\ ~obj[runtimes[k]].finished /\ obj'[runtimes[k]].finished
<1>1. LoadInv /\ [LoadNext]_loadVars => [A]_loadVars
  <2> SUFFICES ASSUME LoadInv, LoadNext PROVE A
    OBVIOUS
  <2>1. ASSUME NEW o \in Obj, NEW k \in Key, NEW unpin \in BOOLEAN,
               Load(o, k, unpin)
        PROVE  A
    BY <2>1 DEF Load, Create, LoadInv, LoadTypeOK
  <2>2. ASSUME NEW o \in Obj, Unload(o)
        PROVE  A
    <3>1. ~obj[o].finished
      BY <2>2 DEF Unload
    <3>2. /\ obj'[o].finished /\ runtimes[obj[o].key] = o
          /\ \A k \in Key : runtimes'[k] = IF k = obj[o].key THEN None
                                                             ELSE runtimes[k]
      BY <2>2, UnloadObject
    <3> QED
      BY <3>1, <3>2
  <2>3. CASE UNCHANGED runtimes
    BY <2>3
  <2> QED
    BY <2>1, <2>2, <2>3
    DEF LoadNext, LoadCached, LoadRejected, LoadRaises, Release, CloseHandle,
        Recycle, PollNull, ThreadExit
<1> QED
  BY <1>1, LoadInvariant, PTL DEF LoadSpec, EntryOwnership

(* The queue and the thread of every load live as RuntimeLife says.        *)
THEOREM LoadsLive == LoadSpec => EachLoadLives
<1> DEFINE A == \A o \in Obj : Life(o)!Step
<1>1. LoadInv /\ [LoadNext]_loadVars => [A]_loadVars
  <2> SUFFICES ASSUME LoadInv, LoadNext, NEW p \in Obj PROVE Life(p)!Step
    OBVIOUS
  <2>1. ASSUME UNCHANGED <<tq[p], thread[p]>> PROVE Life(p)!Step
    BY <2>1 DEF Life!Step
  <2>2. ASSUME NEW o \in Obj, NEW k \in Key, NEW unpin \in BOOLEAN,
               Load(o, k, unpin) \/ LoadRejected(o, k, unpin)
        PROVE  Life(p)!Step
    <3>1. /\ obj[o] = None /\ tq[o] = "none" /\ tq'[o] = "live"
          /\ \A d \in Obj : d # o => tq'[d] = tq[d]
      BY <2>2, CreateObject DEF Load, LoadRejected, LoadInv
    <3>2. thread[o] = "none"
      BY <3>1 DEF LoadInv, HeldCached
    <3>3. thread'[o] \in {"polling", "none"} /\ \A d \in Obj : d # o => thread'[d] = thread[d]
      BY <2>2, <3>2 DEF Load, LoadRejected, LoadInv, LoadTypeOK
    <3> QED
      BY <2>1, <3>1, <3>2, <3>3 DEF Life!Step, Life!Start
  <2>3. ASSUME NEW o \in Obj, NEW k \in Key, LoadRaises(o, k)
        PROVE  Life(p)!Step
    <3>1. thread[o] = "none" /\ tq[o] = "none" /\ thread' = thread
      BY <2>3 DEF LoadRaises, Unused, LoadInv, HeldCached
    <3>2. tq'[o] = "live" /\ \A d \in Obj : d # o => tq'[d] = tq[d]
      BY <2>3 DEF LoadRaises, LoadInv, LoadTypeOK
    <3> QED
      BY <2>1, <3>1, <3>2 DEF Life!Step, Life!Start
  <2>4. ASSUME NEW o \in Obj, Unload(o) PROVE Life(p)!Step
    <3>1. tq[o] = "live" /\ thread[o] = "polling"
      <4> DEFINE k == obj[o].key
      <4>1. k \in Key /\ runtimes[k] = o /\ o # None
        BY <2>4, UnloadObject, NoneAssumption
      <4> HIDE DEF k
      <4> QED
        BY <4>1 DEF LoadInv, CachedComplete
    <3>2. /\ thread' = thread /\ tq'[o] = "finishing"
          /\ \A d \in Obj : d # o => tq'[d] = tq[d]
      BY <2>4 DEF Unload, LoadInv, LoadTypeOK
    <3> QED
      BY <2>1, <3>1, <3>2 DEF Life!Step, Life!Unload
  <2>5. ASSUME NEW o \in Obj, PollNull(o) PROVE Life(p)!Step
    <3>1. /\ tq[o] = "finishing" /\ thread[o] = "polling"
          /\ tq'[o] = "none" /\ thread'[o] = "exiting"
          /\ \A d \in Obj : d # o => tq'[d] = tq[d] /\ thread'[d] = thread[d]
      BY <2>5 DEF PollNull, LoadInv, LoadTypeOK
    <3> QED
      BY <2>1, <3>1 DEF Life!Step, Life!PollNull
  <2>6. ASSUME NEW o \in Obj, ThreadExit(o) PROVE Life(p)!Step
    <3>1. /\ tq' = tq /\ thread[o] = "exiting" /\ thread'[o] = "none"
          /\ \A d \in Obj : d # o => thread'[d] = thread[d]
      BY <2>6 DEF ThreadExit, LoadInv, LoadTypeOK
    <3> QED
      BY <2>1, <3>1 DEF Life!Step, Life!ThreadExit
  <2>7. CASE UNCHANGED <<tq, thread>>
    BY <2>1, <2>7
  <2> QED
    BY <2>2, <2>3, <2>4, <2>5, <2>6, <2>7
    DEF LoadNext, LoadCached, Release, CloseHandle, Recycle
<1> QED
  BY <1>1, LoadInvariant, PTL DEF LoadSpec, EachLoadLives

=============================================================================

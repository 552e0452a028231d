------------------------------ MODULE LoadFfi ------------------------------
(***************************************************************************)
(* ngx.load_ffi() and unload(): the table of runtimes, the pinned          *)
(* libraries, and what a load leaves behind (a task queue, the handle of a *)
(* shared library, a poll thread) until it is released.                    *)
(*                                                                         *)
(* Lua code neither yields nor is preempted inside load_ffi and unload, so *)
(* each is one action.  The garbage collector of LuaJIT, which closes the  *)
(* handles nobody can reach, and the poll threads run at any time.         *)
(*                                                                         *)
(* A runtime has one poll thread; the queue is reduced to whether it       *)
(* exists and whether the finish task is in it.  TaskQueue has the rest,   *)
(* pthread calls that fail included.                                       *)
(***************************************************************************)
EXTENDS Naturals, Functions

CONSTANTS
  Lib,        \* names of shared libraries
  Cfg,        \* configuration strings
  Obj,        \* addresses of runtime objects, one for each load
  None,       \* nil
  MayUnpin,   \* whether loads may set opts.unpin
  LoadsFail   \* whether ffi.load or libffi_init may fail

ASSUME FlagAssumption == MayUnpin \in BOOLEAN /\ LoadsFail \in BOOLEAN

(* lib .. "&" .. cfg, or lib alone.  No name of a library has an "&", so   *)
(* different pairs have different keys.                                    *)
Key == Lib \X (Cfg \cup {None})

VARIABLES
  init,      \* the symbols of the C part are found and checked
  runtimes,  \* runtimes[k]: the object cached under k
  pinLibs,   \* pinLibs[l]: the load whose handle is pinned for library l
  obj,       \* obj[o]: the Lua object of load o
  handles,   \* the loads whose library handle is open
  refs,      \* the objects the application's Lua code holds
  tq,        \* tq[o]: the task queue of load o
  thread     \* thread[o]: the poll thread of the runtime of load o

loadVars == <<init, runtimes, pinLibs, obj, handles, refs, tq, thread>>

(* lib is the library of the load; handle says whether the field is set.   *)
Object == [lib : Lib, key : Key \cup {None}, finished : BOOLEAN,
           handle : BOOLEAN]

ASSUME NoneAssumption == None \notin Obj \cup Cfg \cup Object

(* "finishing": the finish task is in the queue.  "none": not allocated.   *)
TQ == {"none", "live", "finishing"}

(* "exiting": task_poll returned NULL, the thread runs its last code.      *)
Thread == {"none", "polling", "exiting"}

LoadInit ==
  /\ init = FALSE
  /\ runtimes = [k \in Key |-> None]
  /\ pinLibs = [l \in Lib |-> None]
  /\ obj = [o \in Obj |-> None]
  /\ handles = {}
  /\ refs = {}
  /\ tq = [o \in Obj |-> "none"]
  /\ thread = [o \in Obj |-> "none"]

(* A table lives while the application or the cache holds it.              *)
Reachable(o) == o \in refs \/ o \in Range(runtimes)

Pinned(o) == o \in Range(pinLibs)

(* A library is mapped while a handle of it is open: dlopen counts.        *)
Mapped(l) == \E o \in handles : obj[o].lib = l

Unused(o) == obj[o] = None /\ tq[o] = "none"

-----------------------------------------------------------------------------
(* ngx.load_ffi(lib, cfg, opts).  Finding and checking the C part, and     *)
(* what an error there leaves behind, is module BuildId.                   *)

LoadCached(k) ==
  /\ runtimes[k] # None
  /\ init' = TRUE
  /\ refs' = refs \cup {runtimes[k]}
  /\ UNCHANGED <<runtimes, pinLibs, obj, handles, tq, thread>>

Create_OnePin(o, k, unpin) ==
  /\ runtimes[k] = None
  /\ Unused(o)
  /\ unpin => MayUnpin
  /\ init' = TRUE
  /\ tq' = [tq EXCEPT ![o] = "live"]
  /\ handles' = handles \cup {o}
  /\ pinLibs' = IF unpin THEN pinLibs ELSE [l \in Lib |-> o]
  /\ obj' = [obj EXCEPT ![o] = [lib |-> k[1], key |-> k, finished |-> FALSE,
                                handle |-> TRUE]]

(* What precedes libffi_init when the key is not cached: a queue, a        *)
(* handle, pinned or not, and the object.                                  *)
Create(o, k, unpin) ==
  /\ runtimes[k] = None
  /\ Unused(o)
  /\ unpin => MayUnpin
  /\ init' = TRUE
  /\ tq' = [tq EXCEPT ![o] = "live"]
  /\ handles' = handles \cup {o}
  /\ pinLibs' = IF unpin THEN pinLibs ELSE [pinLibs EXCEPT ![k[1]] = o]
  /\ obj' = [obj EXCEPT ![o] = [lib |-> k[1], key |-> k, finished |-> FALSE,
                                handle |-> TRUE]]

Load_NotCached(o, k, unpin) ==
  /\ Create(o, k, unpin)
  /\ thread' = [thread EXCEPT ![o] = "polling"]
  /\ refs' = refs \cup {o}
  /\ UNCHANGED runtimes

(* libffi_init starts the poll thread and returns 0.                       *)
Load(o, k, unpin) ==
  /\ Create(o, k, unpin)
  /\ thread' = [thread EXCEPT ![o] = "polling"]
  /\ runtimes' = [runtimes EXCEPT ![k] = o]
  /\ refs' = refs \cup {o}

LoadRejected_Cached(o, k, unpin) ==
  /\ LoadsFail
  /\ Create(o, k, unpin)
  /\ runtimes' = [runtimes EXCEPT ![k] = o]
  /\ UNCHANGED <<thread, refs>>

(* libffi_init starts nothing and returns an error, or the library has no  *)
(* such symbol.  The object is garbage; the queue is nobody's.             *)
LoadRejected(o, k, unpin) ==
  /\ LoadsFail
  /\ Create(o, k, unpin)
  /\ UNCHANGED <<thread, runtimes, refs>>

(* ffi.load raises an error, after the queue was created.                  *)
LoadRaises(o, k) ==
  /\ LoadsFail
  /\ runtimes[k] = None
  /\ Unused(o)
  /\ init' = TRUE
  /\ tq' = [tq EXCEPT ![o] = "live"]
  /\ UNCHANGED <<runtimes, pinLibs, obj, handles, refs, thread>>

Unload_Repeats(o) ==
  /\ o \in refs
  /\ obj' = [obj EXCEPT ![o].finished = TRUE, ![o].handle = FALSE]
  /\ tq' = [tq EXCEPT ![o] = IF @ = "live" THEN "finishing" ELSE @]
  /\ runtimes' = [runtimes EXCEPT ![obj[o].key] = None]
  /\ UNCHANGED <<init, pinLibs, handles, refs, thread>>

Unload_KeepsHandle(o) ==
  /\ o \in refs
  /\ ~obj[o].finished
  /\ obj' = [obj EXCEPT ![o].finished = TRUE, ![o].key = None]
  /\ tq' = [tq EXCEPT ![o] = "finishing"]
  /\ runtimes' = [runtimes EXCEPT ![obj[o].key] = None]
  /\ UNCHANGED <<init, pinLibs, handles, refs, thread>>

Unload_FlagLost(o) ==
  /\ o \in refs
  /\ ~obj[o].finished
  /\ obj' = [obj EXCEPT ![o].handle = FALSE]
  /\ tq' = [tq EXCEPT ![o] = "finishing"]
  /\ runtimes' = [runtimes EXCEPT ![obj[o].key] = None]
  /\ UNCHANGED <<init, pinLibs, handles, refs, thread>>

(* unload(), through any reference, as often as the application likes: the *)
(* flag makes the second call do nothing.                                  *)
Unload(o) ==
  /\ o \in refs
  /\ ~obj[o].finished
  /\ obj' = [obj EXCEPT ![o].finished = TRUE, ![o].handle = FALSE,
                        ![o].key = None]
  /\ tq' = [tq EXCEPT ![o] = "finishing"]
  /\ runtimes' = [runtimes EXCEPT ![obj[o].key] = None]
  /\ UNCHANGED <<init, pinLibs, handles, refs, thread>>

-----------------------------------------------------------------------------
(* The application and LuaJIT.                                             *)

Release(o) ==
  /\ o \in refs
  /\ refs' = refs \ {o}
  /\ UNCHANGED <<init, runtimes, pinLibs, obj, handles, tq, thread>>

(* The finaliser of a handle nobody can reach calls dlclose().             *)
CloseHandle(o) ==
  /\ o \in handles
  /\ ~Pinned(o)
  /\ ~(Reachable(o) /\ obj[o].handle)
  /\ handles' = handles \ {o}
  /\ UNCHANGED <<init, runtimes, pinLibs, obj, refs, tq, thread>>

(* Nothing is left of a load: its address can be used again.               *)
Recycle(o) ==
  /\ obj[o] # None
  /\ ~Reachable(o)
  /\ o \notin handles
  /\ tq[o] = "none" /\ thread[o] = "none"
  /\ obj' = [obj EXCEPT ![o] = None]
  /\ UNCHANGED <<init, runtimes, pinLibs, handles, refs, tq, thread>>

-----------------------------------------------------------------------------
(* The poll thread.                                                        *)

(* task_poll takes the finish task, frees the queue and returns NULL.      *)
PollNull(o) ==
  /\ thread[o] = "polling"
  /\ tq[o] = "finishing"
  /\ tq' = [tq EXCEPT ![o] = "none"]
  /\ thread' = [thread EXCEPT ![o] = "exiting"]
  /\ UNCHANGED <<init, runtimes, pinLibs, obj, handles, refs>>

(* The thread leaves the library's code, which has to be there: the model  *)
(* stops a thread whose library was unmapped.                              *)
ThreadExit(o) ==
  /\ thread[o] = "exiting"
  /\ Mapped(obj[o].lib)
  /\ thread' = [thread EXCEPT ![o] = "none"]
  /\ UNCHANGED <<init, runtimes, pinLibs, obj, handles, refs, tq>>

-----------------------------------------------------------------------------
LoadNext ==
  \/ \E k \in Key : LoadCached(k)
  \/ \E o \in Obj, k \in Key, unpin \in BOOLEAN :
       Load(o, k, unpin) \/ LoadRejected(o, k, unpin)
  \/ \E o \in Obj, k \in Key : LoadRaises(o, k)
  \/ \E o \in Obj : Unload(o) \/ Release(o) \/ CloseHandle(o) \/ Recycle(o)
  \/ \E o \in Obj : PollNull(o) \/ ThreadExit(o)

LoadSpec == LoadInit /\ [][LoadNext]_loadVars

(* Threads go on, and Lua allocates memory all the time, so that its       *)
(* collector goes on.                                                      *)
LoadFairness == \A o \in Obj : /\ WF_loadVars(PollNull(o))
                               /\ WF_loadVars(ThreadExit(o))
                               /\ WF_loadVars(CloseHandle(o))

FairLoadSpec == LoadSpec /\ LoadFairness

-----------------------------------------------------------------------------
(* Properties.                                                             *)

(* The variables have their types.                                         *)
LoadTypeOK ==
  /\ init \in BOOLEAN
  /\ runtimes \in [Key -> Obj \cup {None}]
  /\ pinLibs \in [Lib -> Obj \cup {None}]
  /\ obj \in [Obj -> Object \cup {None}]
  /\ handles \subseteq Obj /\ refs \subseteq Obj
  /\ tq \in [Obj -> TQ]
  /\ thread \in [Obj -> Thread]

Usable(o) == o \in Range(runtimes) \/ (o \in refs /\ ~obj[o].finished)

(* What load_ffi would return, or Lua code holds and has not unloaded, is  *)
(* served: its queue exists and has no finish task, a thread polls it and  *)
(* the thread's code is mapped.  A failed load, an unload through another  *)
(* reference or a collection must not leave an object that looks usable    *)
(* and whose calls would never return.                                     *)
LiveRuntimeServes ==
  \A o \in Obj : Usable(o) =>
    tq[o] = "live" /\ thread[o] = "polling" /\ Mapped(obj[o].lib)

(* load_ffi is idempotent: a running runtime that was not told to stop is  *)
(* the one cached under its key, so libffi_init is called once for a key   *)
(* and every runtime can be found again to be unloaded.                    *)
OneRuntimePerKey ==
  \A o \in Obj : thread[o] = "polling" /\ tq[o] = "live" =>
    \E k \in Key : runtimes[k] = o /\ obj[o].key = k

(* No code is unmapped under a thread that runs it: pinning in ffi_load    *)
(* keeps the library, whatever unload() and the collector do.              *)
LibraryMapped ==
  \A o \in Obj : thread[o] # "none" => Mapped(obj[o].lib)

(* Once a library has been loaded without opts.unpin its code stays under  *)
(* every thread that runs it, those of loads that did set opts.unpin       *)
(* included: pin_libs holds one handle, and it is a handle of this library *)
(* that no unload() and no collection closes.                              *)
PinnedLibraryMapped ==
  \A o \in Obj : thread[o] # "none" /\ pinLibs[obj[o].lib] # None =>
    Mapped(obj[o].lib)

(* An entry of the table of runtimes goes away only when its own object is *)
(* unloaded: a stale reference to an unloaded runtime cannot remove the    *)
(* runtime that was loaded under the same key since.                       *)
EntryOwnership ==
  [][\A k \in Key : runtimes[k] # None /\ runtimes'[k] # runtimes[k] =>
       /\ runtimes'[k] = None
       /\ ~obj[runtimes[k]].finished /\ obj'[runtimes[k]].finished]_loadVars

(* The queue and the thread of load o: see RuntimeLife.                    *)
Life(o) == INSTANCE RuntimeLife WITH tq <- tq[o], thread <- thread[o]

(* What load_ffi and unload do to a load, however loads, unloads and       *)
(* failures of several follow each other, is a life of RuntimeLife: no     *)
(* queue is finished twice, or without a thread to free it, and no queue   *)
(* is made for a load whose thread is not gone.                            *)
EachLoadLives == [][\A o \in Obj : Life(o)!Step]_loadVars

Released(o) ==
  tq[o] = "none" /\ thread[o] = "none" /\ (o \in handles => Pinned(o))

(* Everything a runtime has is released after unload(): its thread ends,   *)
(* its queue is freed, and its library handle is closed unless pinned,     *)
(* also while Lua code still holds the object.  With opts.unpin the        *)
(* library may be unmapped first, under the thread (LibraryMapped).        *)
UnloadReleases ==
  \A o \in Obj : (obj[o] # None /\ obj[o].finished) ~>
    (Released(o) \/ (obj[o] # None /\ ~Mapped(obj[o].lib)))
=============================================================================

------------------------------- MODULE Loader -------------------------------
(***************************************************************************)
(* libffi_init of the loader libraries of Java, Python and Node.js: a call *)
(* `<module>,<function>,<cfg>' starts the language's virtual machine if it *)
(* is not running, finds the module and calls its function.  Threads of    *)
(* the host (the workers of Envoy; nginx has one) call it concurrently,    *)
(* and module files change on disk while they do.                          *)
(*                                                                         *)
(* `lang' says which of the loaders a behaviour is about.  Modules share   *)
(* one base name and differ in the directory (for Java: the package) they  *)
(* live in; whether a class or a function exists is left open.  The steps  *)
(* under init_lock are separate actions, because the lock of the Java      *)
(* loader does not always exclude.                                         *)
(***************************************************************************)
EXTENDS Integers, Sequences, FiniteSets

CONSTANTS
  Caller,      \* the threads that call libffi_init
  Dir, Home,   \* directories with the module; the one searched by default
  Request,     \* the arguments of the calls
  None,
  Lang,        \* the loaders to look at
  MaxTries,    \* the attempts of the Node.js loader to connect (10)
  MaxLoads,    \* bound: the calls of libffi_init
  MaxVersion,  \* bound: the versions of a file
  MaxEdited,   \* bound: the files that change
  Faults       \* whether the VM, its start or a system call may fail

ASSUME CallerAssumption == None \notin Caller
ASSUME LangAssumption == Lang \subseteq {"java", "python", "node"}
ASSUME DirAssumption == Home \in Dir /\ None \notin Dir
(* dir is None when the module is named without a directory, dyn is the    *)
(* question mark, cfg the rest of the text as a sequence of the fields     *)
(* between its commas.                                                     *)
ASSUME RequestAssumption ==
  \A r \in Request : /\ r.dir \in Dir \cup {None}
                     /\ r.dyn \in BOOLEAN
                     /\ Len(r.cfg) \in Nat
ASSUME BoundAssumption == /\ MaxTries \in Nat \ {0} /\ MaxLoads \in Nat
                          /\ MaxVersion \in Nat \ {0} /\ MaxEdited \in Nat
ASSUME FaultsAssumption == Faults \in BOOLEAN

VARIABLES
  lang,     \* the loader
  locked,   \* init_lock
  pc,       \* pc[c]: where caller c is in libffi_init
  req,      \* req[c]: the arguments of its call
  asked,    \* asked[c]: the version on disk when it got the lock
  res,      \* res[c]: what the call came to
  loads,    \* how many calls were made
  started,  \* vm # NULL, mainThreadState # NULL, initialized
  vms,      \* virtual machines in the process
  pending,  \* Java: an exception was left pending in env
  tries,    \* Node.js: attempts to connect so far, in the loop
  node,     \* Node.js: the state of thread_fn
  fd,       \* Node.js: client_fd is connected
  c2s, s2c, \* Node.js: the requests and the replies in the socket, with
            \* the caller that waits (`to'), None when it has given up
  torn,     \* Node.js: a recv has failed on a connection that was up
  disk,     \* the files: version, and whether the file can be loaded
  cache,    \* the modules the VM holds
  front     \* the first directory that is searched (Python: of sys.path)

args == <<req, asked, res>>
machine == <<started, vms, pending>>
wire == <<tries, node, fd, c2s, s2c, torn>>
store == <<disk, cache, front>>
vars == <<lang, locked, pc, args, loads, machine, wire, store>>

Module == [dir : Dir, ver : 1..MaxVersion]

(* "ok"        the entry function returned 0                               *)
(* "fail"      it did not, or the module or the function was not found     *)
(* "raise"     Java: an exception or an Error came out of the VM           *)
(* "noanswer"  Node.js: nobody replied, or recv failed                     *)
(* "stale"     Node.js: what was read is not just the reply to this call   *)
Outcome == {"ok", "fail", "raise", "noanswer", "stale"}

(* The configurations an entry function may be given.                      *)
Given == {<<>>} \cup {r.cfg : r \in Request}
         \cup {<<Head(r.cfg)>> : r \in {q \in Request : q.cfg # <<>>}}

(* What a call came to: the value returned, what happened, the module and  *)
(* the configuration the entry function ran with.                          *)
Result == [rc : {0, 1}, how : Outcome, mod : Module \cup {None}, cfg : Given]

(***************************************************************************)
(* "out"      not in libffi_init        "enter"   waits for init_lock      *)
(* "test"     asks whether the VM runs  "create"  starts it                *)
(* "connect", "send", "recv"            talks to the Node.js thread        *)
(* "run"      calls the entry function (Java, Python)                      *)
(* "leave"    about to unlock           "leave2"  about to unlock twice    *)
(* "again"    between the two unlocks   "back"    returned                 *)
(***************************************************************************)
Section == {"test", "create", "connect", "send", "recv", "run", "leave", "leave2"}
PC == Section \cup {"out", "enter", "again", "back"}

Inside == {c \in Caller : pc[c] \in Section}

Goto(c, l) == pc' = [pc EXCEPT ![c] = l]

ASSUME NoneAssumption == None \notin Request \cup Result

Finished(c, rc, how, mod, cfg) ==
  res' = [res EXCEPT ![c] = [rc |-> rc, how |-> how, mod |-> mod, cfg |-> cfg]]

Init ==
  /\ lang \in Lang
  /\ locked = FALSE
  /\ pc = [c \in Caller |-> "out"]
  /\ req = [c \in Caller |-> None]
  /\ asked = [c \in Caller |-> 1]
  /\ res = [c \in Caller |-> None]
  /\ loads = 0 /\ started = FALSE /\ vms = 0 /\ pending = FALSE
  /\ tries = 0 /\ node = "none" /\ fd = FALSE
  /\ c2s = <<>> /\ s2c = <<>> /\ torn = FALSE
  /\ disk = [d \in Dir |-> [ver |-> 1, good |-> TRUE]]
  /\ cache = {}
  /\ front = Home

-----------------------------------------------------------------------------
(* The files.                                                              *)

(* Where the module of a request is looked for.                            *)
Place(r) == IF r.dir = None THEN front ELSE r.dir

(* Somebody saves a new version, which may have an error in it.            *)
Edit(d) ==
  /\ disk[d].ver < MaxVersion
  /\ Cardinality({e \in Dir : disk[e].ver > 1} \cup {d}) <= MaxEdited
  /\ \E good \in BOOLEAN :
       disk' = [disk EXCEPT ![d] = [ver |-> @.ver + 1, good |-> good]]
  /\ UNCHANGED <<lang, locked, pc, args, loads, machine, wire, cache, front>>

OnDisk(d) == [dir |-> d, ver |-> disk[d].ver]

(* Java and Node.js hold a module under its place, Python under its name.  *)
Cached(d) == {m \in cache : m.dir = d}

-----------------------------------------------------------------------------
(* Entering and leaving.                                                   *)

Call(c) ==
  /\ pc[c] = "out"
  /\ loads < MaxLoads
  /\ loads' = loads + 1
  /\ Goto(c, "enter")
  /\ UNCHANGED <<lang, locked, args, machine, wire, store>>

(* The arguments matter from here on only, so they are chosen here.        *)
Lock(c) ==
  /\ pc[c] = "enter"
  /\ ~locked
  /\ locked' = TRUE
  /\ \E r \in Request :
       /\ req' = [req EXCEPT ![c] = r]
       /\ asked' = [asked EXCEPT ![c] = disk[Place(r)].ver]
  /\ Goto(c, "test")
  /\ UNCHANGED <<lang, res, loads, machine, wire, store>>

Test(c) ==
  /\ pc[c] = "test"
  /\ Goto(c, IF ~started THEN "create" ELSE IF lang = "node" THEN "send" ELSE "run")
  /\ UNCHANGED <<lang, locked, args, loads, machine, wire, store>>

Unlock(c) ==
  /\ \/ pc[c] = "leave" /\ Goto(c, "back")
     \/ pc[c] = "leave2" /\ Goto(c, "again")
  /\ locked' = FALSE
  /\ UNCHANGED <<lang, args, loads, machine, wire, store>>

(* The unlock in RET(rc) of the Java loader.  The mutex is of the default  *)
(* kind: it is released whoever holds it.                                  *)
UnlockAgain(c) ==
  /\ pc[c] = "again"
  /\ locked' = FALSE
  /\ Goto(c, "back")
  /\ UNCHANGED <<lang, args, loads, machine, wire, store>>

(* load_ffi has looked at the result; the thread may call again.           *)
Return(c) ==
  /\ pc[c] = "back"
  /\ Goto(c, "out")
  /\ req' = [req EXCEPT ![c] = None]
  /\ asked' = [asked EXCEPT ![c] = 1]
  /\ res' = [res EXCEPT ![c] = None]
  /\ UNCHANGED <<lang, locked, loads, machine, wire, store>>

-----------------------------------------------------------------------------
(* The Java loader.                                                        *)

JavaCreate_UnlockTwice(c) ==
  /\ lang = "java" /\ pc[c] = "create"
  /\ \/ Goto(c, "run") /\ started' = TRUE /\ vms' = vms + 1 /\ UNCHANGED res
     \/ /\ Faults
        /\ Goto(c, "leave2") /\ Finished(c, 1, "fail", None, <<>>)
        /\ UNCHANGED <<started, vms>>
  /\ UNCHANGED <<lang, locked, req, asked, loads, pending, wire, store>>

(* JNI_CreateJavaVM.  A failure is reported and leaves vm NULL.            *)
JavaCreate(c) ==
  /\ lang = "java" /\ pc[c] = "create"
  /\ \/ Goto(c, "run") /\ started' = TRUE /\ vms' = vms + 1 /\ UNCHANGED res
     \/ /\ Faults
        /\ Goto(c, "leave") /\ Finished(c, 1, "fail", None, <<>>)
        /\ UNCHANGED <<started, vms>>
  /\ UNCHANGED <<lang, locked, req, asked, loads, pending, wire, store>>

JavaMissing_KeepsLock(c) ==
  /\ lang = "java" /\ pc[c] = "run"
  /\ pending' = TRUE
  /\ Finished(c, 1, "fail", None, <<>>)
  /\ Goto(c, "back")
  /\ UNCHANGED <<lang, locked, req, asked, loads, started, vms, wire, store>>

(* FindClass or GetStaticMethodID fails; the exception stays pending.      *)
JavaMissing(c) ==
  /\ lang = "java" /\ pc[c] = "run"
  /\ pending' = TRUE
  /\ Finished(c, 1, "fail", None, <<>>)
  /\ Goto(c, "leave")
  /\ UNCHANGED <<lang, locked, req, asked, loads, started, vms, wire, store>>

JavaEnd(c) ==
  /\ pending' = FALSE
  /\ Goto(c, "leave2")
  /\ UNCHANGED <<lang, locked, req, asked, loads, started, vms, wire, disk, front>>

(* The class is found by the system class loader, which defines a class    *)
(* once; a pending exception makes the outcome of FindClass undefined, so  *)
(* both this action and JavaMissing are possible then.  The result of a    *)
(* method that threw is undefined, and the exception is described only.    *)
JavaStatic(c) ==
  /\ lang = "java" /\ pc[c] = "run" /\ ~req[c].dyn
  /\ LET d == Place(req[c]) IN
     /\ Cached(d) # {} \/ disk[d].good
     /\ cache' = IF Cached(d) # {} THEN cache ELSE cache \cup {OnDisk(d)}
     /\ \E m \in cache', rc \in {0, 1}, how \in {"ok", "fail", "raise"} :
          /\ m.dir = d
          /\ how = "ok" => rc = 0
          /\ how = "fail" => rc = 1
          /\ Finished(c, rc, how, m, req[c].cfg)
  /\ JavaEnd(c)

(* Loader.init: a new DynamicClassLoader reads the class from disk and the *)
(* function is invoked with the third item of the csv.  An exception is    *)
(* caught; an Error (a class file that cannot be defined) is not.          *)
JavaDynamic(c) ==
  /\ lang = "java" /\ pc[c] = "run" /\ req[c].dyn
  /\ LET d == Place(req[c])
         first == IF req[c].cfg = <<>> THEN <<>> ELSE <<Head(req[c].cfg)>> IN
     IF disk[d].good
     THEN \E how \in {"ok", "fail"} :
            Finished(c, IF how = "ok" THEN 0 ELSE 1, how, OnDisk(d), first)
     ELSE \/ Finished(c, 1, "fail", None, <<>>)
          \/ \E rc \in {0, 1} : Finished(c, rc, "raise", None, <<>>)
  /\ UNCHANGED cache
  /\ JavaEnd(c)

-----------------------------------------------------------------------------
(* The Python loader.                                                      *)

PyCreate_NotKept(c) ==
  /\ lang = "python" /\ pc[c] = "create"
  /\ started' = FALSE /\ vms' = vms + 1
  /\ Goto(c, "run")
  /\ UNCHANGED <<lang, locked, args, loads, pending, wire, store>>

PyCreate(c) ==
  /\ lang = "python" /\ pc[c] = "create"
  /\ started' = TRUE /\ vms' = vms + 1
  /\ Goto(c, "run")
  /\ UNCHANGED <<lang, locked, args, loads, pending, wire, store>>

PyFind_NoReload(r, mod) ==
  /\ front' = Place(r)
  /\ IF cache # {}
     THEN mod \in cache /\ UNCHANGED cache
     ELSE /\ mod = OnDisk(front') /\ disk[front'].good
          /\ cache' = {mod}

(* The directory goes to the front of sys.path.  A module of that name in  *)
(* sys.modules is used as it is unless a reload is asked for, which, like  *)
(* the first import, searches sys.path.                                    *)
PyFind(r, mod) ==
  /\ front' = Place(r)
  /\ IF cache # {} /\ ~r.dyn
     THEN mod \in cache /\ UNCHANGED cache
     ELSE /\ mod = OnDisk(front') /\ disk[front'].good
          /\ cache' = {mod}

(* The import or the reload fails; after a reload the old module is kept.  *)
PyNotFound(r) ==
  /\ front' = Place(r)
  /\ cache = {} \/ r.dyn
  /\ ~disk[front'].good
  /\ UNCHANGED cache

PyRun_ResultUnused(c) ==
  /\ lang = "python" /\ pc[c] = "run"
  /\ \/ /\ PyNotFound(req[c])
        /\ Finished(c, 1, "fail", None, <<>>)
     \/ \E mod \in Module, how \in {"ok", "fail"} :
          /\ PyFind(req[c], mod)
          /\ Finished(c, 0, how, mod, req[c].cfg)
  /\ Goto(c, "leave")
  /\ UNCHANGED <<lang, locked, req, asked, loads, machine, wire, disk>>

PyRun(c) ==
  /\ lang = "python" /\ pc[c] = "run"
  /\ \/ /\ PyNotFound(req[c])
        /\ Finished(c, 1, "fail", None, <<>>)
     \/ \E mod \in Module, how \in {"ok", "fail"} :
          /\ PyFind(req[c], mod)
          /\ Finished(c, IF how = "ok" THEN 0 ELSE 1, how, mod, req[c].cfg)
  /\ Goto(c, "leave")
  /\ UNCHANGED <<lang, locked, req, asked, loads, machine, wire, disk>>

(* The destructor: with opts.unpin the library is closed when the last     *)
(* runtime was unloaded, and opened again by the next load.                *)
PyFini ==
  /\ lang = "python" /\ started
  /\ \A c \in Caller : pc[c] \in {"out", "back"}
  /\ started' = FALSE /\ vms' = vms - 1
  /\ cache' = {} /\ front' = Home
  /\ UNCHANGED <<lang, locked, pc, args, loads, pending, wire, disk>>

-----------------------------------------------------------------------------
(* The Node.js loader: the calling thread.                                 *)

(* initialized is set first; pthread_create is not tested.                 *)
NodeCreate(c) ==
  /\ lang = "node" /\ pc[c] = "create"
  /\ started' = TRUE
  /\ \/ node' = "booting" /\ vms' = vms + 1
     \/ Faults /\ node' = "dead" /\ UNCHANGED vms
  /\ Goto(c, "connect")
  /\ UNCHANGED <<lang, locked, args, loads, pending, tries, fd, c2s, s2c, torn, store>>

(* MaxTries attempts, each second; then send is called with whatever fd.   *)
NodeConnect(c) ==
  /\ lang = "node" /\ pc[c] = "connect"
  /\ \/ node = "listening" /\ fd' = TRUE /\ tries' = 0 /\ Goto(c, "send")
     \/ /\ node # "listening" \/ Faults
        /\ UNCHANGED fd
        /\ IF tries + 1 < MaxTries THEN tries' = tries + 1 /\ UNCHANGED pc
                                   ELSE tries' = 0 /\ Goto(c, "send")
  /\ UNCHANGED <<lang, locked, args, loads, machine, node, c2s, s2c, torn, store>>

(* A failed send is logged and recv is called all the same.  It fails when *)
(* nobody is at the other end.                                             *)
NodeSend(c) ==
  /\ lang = "node" /\ pc[c] = "send"
  /\ c2s' = IF fd /\ node = "listening" THEN Append(c2s, [to |-> c, req |-> req[c]]) ELSE c2s
  /\ Goto(c, "recv")
  /\ UNCHANGED <<lang, locked, args, loads, machine, tries, node, fd, s2c, torn, store>>

(* The value sscanf finds in the texts of several replies in a row: "01"   *)
(* is 1, "0-1" is 0.                                                       *)
ReadAs(s) ==
  IF s[1].res.rc = 1 THEN {1}
  ELSE IF \A i \in DOMAIN s : s[i].res.rc = 0 THEN {0} ELSE {0, 1}

(* c does not wait any more for what is in the socket for it.              *)
GiveUp(s, c) ==
  [i \in DOMAIN s |-> IF s[i].to = c THEN [s[i] EXCEPT !.to = None] ELSE s[i]]

NodeRecv_NoWait(c) ==
  /\ lang = "node" /\ pc[c] = "recv"
  /\ IF s2c # <<>>
     THEN res' = [res EXCEPT ![c] = s2c[1].res] /\ s2c' = <<>>
     ELSE Finished(c, 0, "noanswer", None, <<>>) /\ UNCHANGED s2c
  /\ Goto(c, "leave")
  /\ UNCHANGED <<lang, locked, req, asked, loads, machine, tries, node, fd, c2s, torn, store>>

(* recv blocks while the connection is up and there is no reply.  It takes *)
(* all the bytes there are, whosever they are.  At the end of the stream,  *)
(* or without a connection, buf is empty and ret stays 0.                  *)
NodeRecv(c) ==
  /\ lang = "node" /\ pc[c] = "recv"
  /\ \/ /\ fd /\ s2c # <<>>
        /\ IF Len(s2c) = 1 /\ s2c[1].to = c
           THEN res' = [res EXCEPT ![c] = s2c[1].res]
           ELSE \E rc \in ReadAs(s2c) : Finished(c, rc, "stale", None, <<>>)
        /\ c2s' = GiveUp(c2s, c) /\ s2c' = <<>>
     \/ /\ ~fd \/ (node = "dead" /\ s2c = <<>>)
        /\ Finished(c, 0, "noanswer", None, <<>>)
        /\ UNCHANGED <<c2s, s2c>>
  /\ Goto(c, "leave")
  /\ UNCHANGED <<lang, locked, req, asked, loads, machine, tries, node, fd, torn, store>>

(* recv fails on a connection that is up, for example with EINTR: this is  *)
(* logged, ret stays 0, and the reply is left for the next caller.         *)
NodeRecvFails(c) ==
  /\ Faults
  /\ lang = "node" /\ pc[c] = "recv" /\ fd
  /\ Finished(c, 0, "noanswer", None, <<>>)
  /\ c2s' = GiveUp(c2s, c) /\ s2c' = GiveUp(s2c, c)
  /\ torn' = TRUE
  /\ Goto(c, "leave")
  /\ UNCHANGED <<lang, locked, req, asked, loads, machine, tries, node, fd, store>>

-----------------------------------------------------------------------------
(* The Node.js loader: thread_fn and its script.                           *)

NodeListen ==
  /\ node = "booting"
  /\ node' = "listening"
  /\ UNCHANGED <<lang, locked, pc, args, loads, machine, tries, fd, c2s, s2c, torn, store>>

(* The early returns of thread_fn, or the end of its event loop.  What was *)
(* written to the socket can still be read.                                *)
NodeExit ==
  /\ Faults
  /\ node \in {"booting", "listening"}
  /\ node' = "dead"
  /\ c2s' = <<>>
  /\ UNCHANGED <<lang, locked, pc, args, loads, machine, tries, fd, s2c, torn, store>>

Reply(to, rc, how, mod, cfg) ==
  s2c' = Append(s2c, [to |-> to, res |-> [rc |-> rc, how |-> how, mod |-> mod, cfg |-> cfg]])

NodeUncache_Never(r) == cache

(* require.cache without the module that is to be reloaded.                *)
NodeUncache(r) == IF r.dyn THEN cache \ Cached(Place(r)) ELSE cache

(* The 'data' handler gets all the bytes there are.  `cfg' is a const:     *)
(* with exactly four items in the message, that is one field of            *)
(* configuration, the assignment throws; any other number leaves it empty. *)
(* Several requests in a row are taken for one, the first, whose last item *)
(* has the start of the second at its end: the name of the function if     *)
(* there is no configuration.  The handler answers once, whatever happens. *)
NodeServe ==
  /\ node = "listening" /\ c2s # <<>>
  /\ c2s' = <<>>
  /\ LET r == c2s[1].req
         joined == Len(c2s) > 1
         to == IF joined THEN None ELSE c2s[1].to
         d == Place(r)
         kept == NodeUncache(r)
         held == {m \in kept : m.dir = d}
     IN
     IF Len(r.cfg) = 1 /\ ~joined
     THEN Reply(to, 1, "fail", None, <<>>) /\ UNCHANGED cache
     ELSE IF held = {} /\ ~disk[d].good
     THEN Reply(to, 1, "fail", None, <<>>) /\ cache' = kept
     ELSE /\ cache' = IF held = {} THEN kept \cup {OnDisk(d)} ELSE kept
          /\ IF joined /\ r.cfg = <<>>
             THEN Reply(to, 1, "fail", None, <<>>)
             ELSE \E m \in cache', how \in {"ok", "fail"} :
                    /\ m.dir = d
                    /\ Reply(to, IF how = "ok" THEN 0 ELSE 1, how, m, <<>>)
  /\ UNCHANGED <<lang, locked, pc, args, loads, machine, tries, node, fd, torn, disk, front>>

-----------------------------------------------------------------------------

Step(c) ==
  \/ Lock(c) \/ Test(c) \/ Unlock(c) \/ UnlockAgain(c)
  \/ JavaCreate(c) \/ JavaMissing(c) \/ JavaStatic(c) \/ JavaDynamic(c)
  \/ PyCreate(c) \/ PyRun(c)
  \/ NodeCreate(c) \/ NodeConnect(c) \/ NodeSend(c) \/ NodeRecv(c)

Next ==
  \/ \E c \in Caller : Call(c) \/ Step(c) \/ NodeRecvFails(c) \/ Return(c)
  \/ \E d \in Dir : Edit(d)
  \/ PyFini \/ NodeListen \/ NodeExit \/ NodeServe

Spec == Init /\ [][Next]_vars

(* Threads run, a free mutex can be taken, and the entry functions, called *)
(* in the VM or by the Node.js script, come back.  The Node.js thread need *)
(* never get to listen, and no signal need ever end a recv.                *)
Fairness == /\ \A c \in Caller : WF_vars(Step(c))
            /\ WF_vars(NodeServe)

FairSpec == Spec /\ Fairness

-----------------------------------------------------------------------------
(* Correctness.                                                            *)

Decided == {"leave", "leave2", "again", "back"}

(* The state has its type, a call that has done its work has a result, and *)
(* the Node.js loader does not try to connect more often than it should.   *)
LoaderTypeOK ==
  /\ lang \in Lang
  /\ locked \in BOOLEAN
  /\ pc \in [Caller -> PC]
  /\ req \in [Caller -> Request \cup {None}]
  /\ asked \in [Caller -> 1..MaxVersion]
  /\ res \in [Caller -> Result \cup {None}]
  /\ \A c \in Caller : /\ pc[c] \in Section => req[c] # None
                       /\ pc[c] \in Decided => req[c] # None /\ res[c] # None
  /\ tries \in 0..MaxTries
  /\ started \in BOOLEAN /\ pending \in BOOLEAN /\ fd \in BOOLEAN
  /\ node \in {"none", "booting", "listening", "dead"}
  /\ torn \in BOOLEAN
  /\ c2s \in Seq([to : Caller \cup {None}, req : Request])
  /\ s2c \in Seq([to : Caller \cup {None}, res : Result])
  /\ disk \in [Dir -> [ver : 1..MaxVersion, good : BOOLEAN]]
  /\ cache \subseteq Module
  /\ front \in Dir

(* init_lock does its work: two threads are in libffi_init only in Java    *)
(* and only when the VM is there, although the Java loader unlocks twice.  *)
ExclusiveInit ==
  \A c, d \in Inside : c # d => lang = "java" /\ started

(* A process has one VM: none is created while one exists, and no two at   *)
(* the same time.                                                          *)
OneMachine ==
  /\ vms \in {0, 1}
  /\ \A c \in Caller : pc[c] = "create" => vms = 0 /\ ~started

(* Node.js: a request or a reply in the socket belongs to the caller that  *)
(* waits for it, there is one at most, and no caller reads the result of   *)
(* another's load.  One thing breaks this: a recv that failed while the    *)
(* connection was up, whose reply the next caller finds.                   *)
OwnReply ==
  /\ \A i \in DOMAIN c2s : c2s[i].to # None => pc[c2s[i].to] = "recv"
  /\ \A i \in DOMAIN s2c : s2c[i].to # None => pc[s2c[i].to] = "recv"
  /\ ~torn => /\ Len(c2s) + Len(s2c) <= 1
              /\ \A c \in Caller : pc[c] \in Decided => res[c].how # "stale"

(* hot-reload.md: with a question mark the entry function is that of the   *)
(* file on disk, as new at least as when the call began.  And the module   *)
(* is the one of the directory asked for, but that a Python module is      *)
(* found by its base name when no reload is asked for.                     *)
FreshModule ==
  \A c \in Caller : pc[c] = "back" /\ res[c].mod # None =>
    /\ req[c].dyn => res[c].mod.ver >= asked[c]
    /\ req[c].dir = None \/ res[c].mod.dir = req[c].dir
         \/ (lang = "python" /\ ~req[c].dyn)

(* load_ffi takes 0 for a runtime that was started.  It means just that in *)
(* Python; in Java the entry function may have thrown, and in Node.js the  *)
(* thread may not be there to answer, or an answer was not received, this  *)
(* one or an earlier one.                                                  *)
ZeroMeansRan ==
  \A c \in Caller : pc[c] = "back" /\ res[c].rc = 0 =>
    \/ res[c].how = "ok"
    \/ lang = "java" /\ res[c].how = "raise"
    \/ lang = "node" /\ res[c].how = "noanswer" /\ (~fd \/ node = "dead" \/ torn)
    \/ lang = "node" /\ res[c].how = "stale" /\ torn

(* hot-reload.md: the last part of cfg is the configuration, which the     *)
(* entry function gets.                                                    *)
ConfigDelivered ==
  \A c \in Caller : pc[c] = "back" =>
    /\ res[c].mod # None => res[c].cfg = req[c].cfg

(* Every call returns: each path through libffi_init releases the lock,    *)
(* the connection is given up after MaxTries attempts, and the Node.js     *)
(* script answers every request or closes the connection.                  *)
EveryLoadReturns == \A c \in Caller : pc[c] = "enter" ~> pc[c] = "back"

=============================================================================

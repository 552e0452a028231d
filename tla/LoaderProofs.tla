---------------------------- MODULE LoaderProofs ----------------------------
(***************************************************************************)
(* Proofs about libffi_init of the loader libraries, for any number of     *)
(* calling threads, directories, requests and attempts, and with faults.   *)
(*                                                                         *)
(* The inductive invariant has four parts beside the types: who holds      *)
(* init_lock and what that excludes (LockInv), what is in the socket of    *)
(* the Node.js loader (WireInv), what a result of 0 means (ResultInv), and *)
(* which module a call gets (FreshInv).                                    *)
(***************************************************************************)
EXTENDS Loader, TLAPS

(* A thread in libffi_init holds the lock, unless the Java loader has      *)
(* unlocked it for somebody else, which it does when the VM runs only.     *)
LockInv ==
  /\ (lang = "java" /\ started) \/ \A c \in Caller : pc[c] \in Section => locked
  /\ \A c, d \in Caller :
       c # d /\ pc[c] \in Section /\ pc[d] \in Section => lang = "java" /\ started
  /\ \A c \in Caller : pc[c] \in {"leave2", "again"} => lang = "java" /\ started
  /\ \A c \in Caller : pc[c] \in {"connect", "send", "recv", "run"} => started
  /\ \A c \in Caller : pc[c] = "create" => ~started
  /\ vms \in {0, 1}
  /\ ~started => vms = 0
  /\ lang = "python" /\ started => vms = 1

(* What is in the socket for a caller that waits is its own request or the *)
(* reply to it.  Until a recv fails there is nothing else, and one at most.*)
WireInv ==
  /\ OwnReply
  /\ \A i \in DOMAIN c2s : c2s[i].to # None => c2s[i].req = req[c2s[i].to]
  /\ ~torn => /\ \A i \in DOMAIN c2s : c2s[i].to # None
              /\ \A i \in DOMAIN s2c : s2c[i].to # None
  /\ ~fd => Len(c2s) = 0 /\ Len(s2c) = 0
  /\ node # "listening" => Len(c2s) = 0
  /\ lang # "node" \/ ~started => ~fd /\ node = "none" /\ tries = 0 /\ ~torn
  /\ \A c \in Caller : pc[c] \in {"connect", "send", "recv"} => lang = "node"
  /\ \A c \in Caller : pc[c] = "connect" => tries < MaxTries

ZeroRight(r) ==
  r.rc = 0 => \/ r.how = "ok"
              \/ lang = "java" /\ r.how = "raise"
              \/ lang = "node" /\ r.how = "noanswer" /\ (~fd \/ node = "dead" \/ torn)
              \/ lang = "node" /\ r.how = "stale" /\ torn

(* A result of 0 is right, and it stays right: the Node.js thread is       *)
(* started and connected to before any call has a result.                  *)
ResultInv ==
  /\ \A c \in Caller : pc[c] \in Decided => ZeroRight(res[c])
  /\ \A i \in DOMAIN s2c : /\ s2c[i].res.rc = 0 => s2c[i].res.how = "ok"
                           /\ s2c[i].res.how # "stale"
  /\ lang = "node" /\ ~started =>
       \A c \in Caller : pc[c] \in {"out", "enter", "test", "create"}
  /\ lang = "node" =>
       \A c, d \in Caller : pc[c] = "connect" /\ c # d => pc[d] \in {"out", "enter"}

FreshRes(c, r) ==
  r.mod # None =>
    /\ req[c].dyn => r.mod.ver >= asked[c]
    /\ \/ req[c].dir = None \/ r.mod.dir = req[c].dir
       \/ lang = "python" /\ ~req[c].dyn

(* The file a call will read is as new as when the call began.             *)
FreshInv ==
  /\ \A c \in Caller : pc[c] \in Decided => FreshRes(c, res[c])
  /\ \A i \in DOMAIN s2c : s2c[i].to # None => FreshRes(s2c[i].to, s2c[i].res)
  /\ \A c \in Caller : pc[c] \in Section \ Decided =>
       asked[c] <= disk[Place(req[c])].ver

LoaderInv == LoaderTypeOK /\ LockInv /\ WireInv /\ ResultInv /\ FreshInv

-----------------------------------------------------------------------------
(* Sequences.                                                              *)

(* The empty sequence is the one of length 0.                              *)
LEMMA EmptyLen ==
  ASSUME NEW S, NEW q \in Seq(S)
  PROVE  q = <<>> <=> Len(q) = 0
OBVIOUS

(* Of two sequences with one element between them, only one has it.        *)
LEMMA OnlyOne ==
  ASSUME NEW a \in Nat, NEW b \in Nat, a + b <= 1, a # 0
  PROVE  a = 1 /\ b = 0
OBVIOUS

(* The elements of a sequence.                                             *)
LEMMA Elements ==
  ASSUME NEW S, NEW q \in Seq(S)
  PROVE  /\ Len(q) \in Nat /\ DOMAIN q = 1 .. Len(q)
         /\ \A i \in DOMAIN q : q[i] \in S
OBVIOUS

(* Adding at the end of a sequence.                                        *)
LEMMA AddLast ==
  ASSUME NEW S, NEW q \in Seq(S), NEW e \in S
  PROVE  /\ Append(q, e) \in Seq(S) /\ Len(Append(q, e)) = Len(q) + 1
         /\ \A i \in DOMAIN Append(q, e) :
              Append(q, e)[i] = e \/ (i \in DOMAIN q /\ Append(q, e)[i] = q[i])
OBVIOUS

-----------------------------------------------------------------------------
(* Types.                                                                  *)

(* The configurations that are given belong to Given.                      *)
LEMMA GivenCfg ==
  ASSUME NEW r \in Request
  PROVE  /\ <<>> \in Given /\ r.cfg \in Given
         /\ r.cfg # <<>> => <<Head(r.cfg)>> \in Given
BY DEF Given

(* A module is looked for in a directory.                                  *)
LEMMA PlaceType ==
  ASSUME LoaderTypeOK, NEW r \in Request
  PROVE  Place(r) \in Dir
BY RequestAssumption DEF Place, LoaderTypeOK

(* What is on disk is a module.                                            *)
LEMMA OnDiskType ==
  ASSUME LoaderTypeOK, NEW d \in Dir
  PROVE  /\ OnDisk(d) \in Module /\ OnDisk(d).dir = d /\ OnDisk(d).ver = disk[d].ver
         /\ disk[d].ver \in 1 .. MaxVersion /\ disk[d].ver \in Nat
BY BoundAssumption DEF OnDisk, Module, LoaderTypeOK

(* The file is as new as when the call began.                              *)
LEMMA AskedOld ==
  ASSUME LoaderInv, NEW c \in Caller, pc[c] \in Section \ Decided
  PROVE  asked[c] \in Nat /\ asked[c] <= disk[Place(req[c])].ver
<1>1. asked[c] \in 1 .. MaxVersion
  BY DEF LoaderInv, LoaderTypeOK
<1>2. asked[c] \in Nat
  BY <1>1, BoundAssumption
<1> QED
  BY <1>2 DEF LoaderInv, FreshInv

(* A result is made of its parts.                                          *)
LEMMA MadeResult ==
  ASSUME NEW rc \in {0, 1}, NEW how \in Outcome, NEW mod \in Module \cup {None},
         NEW cfg \in Given
  PROVE  /\ [rc |-> rc, how |-> how, mod |-> mod, cfg |-> cfg] \in Result
         /\ [rc |-> rc, how |-> how, mod |-> mod, cfg |-> cfg] # None
BY NoneAssumption DEF Result

(* The result of a call that found no module.                              *)
LEMMA NoResult ==
  ASSUME NEW rc \in {0, 1}, NEW how \in Outcome
  PROVE  /\ [rc |-> rc, how |-> how, mod |-> None, cfg |-> <<>>] \in Result
         /\ [rc |-> rc, how |-> how, mod |-> None, cfg |-> <<>>] # None
<1>1. <<>> \in Given
  BY DEF Given
<1> QED
  BY <1>1, MadeResult

(* The packets in the socket.                                              *)
LEMMA Packets ==
  ASSUME LoaderTypeOK
  PROVE  /\ Len(c2s) \in Nat /\ DOMAIN c2s = 1 .. Len(c2s)
         /\ Len(s2c) \in Nat /\ DOMAIN s2c = 1 .. Len(s2c)
         /\ \A i \in DOMAIN c2s :
              c2s[i].to \in Caller \cup {None} /\ c2s[i].req \in Request
         /\ \A i \in DOMAIN s2c :
              s2c[i].to \in Caller \cup {None} /\ s2c[i].res \in Result
<1> DEFINE Asks == [to : Caller \cup {None}, req : Request]
           Answers == [to : Caller \cup {None}, res : Result]
<1>1. /\ \A p \in Asks : p.to \in Caller \cup {None} /\ p.req \in Request
      /\ \A p \in Answers : p.to \in Caller \cup {None} /\ p.res \in Result
  OBVIOUS
<1>2. c2s \in Seq(Asks) /\ s2c \in Seq(Answers)
  BY DEF LoaderTypeOK
<1> HIDE DEF Asks, Answers
<1> QED
  BY <1>1, <1>2, Elements

(* Giving up leaves the requests where they are.                           *)
LEMMA GivenUpAsks ==
  ASSUME NEW q \in Seq([to : Caller \cup {None}, req : Request]), NEW c \in Caller
  PROVE  /\ GiveUp(q, c) \in Seq([to : Caller \cup {None}, req : Request])
         /\ Len(GiveUp(q, c)) = Len(q) /\ DOMAIN GiveUp(q, c) = DOMAIN q
         /\ \A i \in DOMAIN q :
              /\ GiveUp(q, c)[i].to = IF q[i].to = c THEN None ELSE q[i].to
              /\ GiveUp(q, c)[i].req = q[i].req
<1> DEFINE P == [to : Caller \cup {None}, req : Request]
           g == GiveUp(q, c)
<1>1. \A p \in P : /\ [p EXCEPT !.to = None] \in P
                   /\ [p EXCEPT !.to = None].to = None
                   /\ [p EXCEPT !.to = None].req = p.req
  OBVIOUS
<1> HIDE DEF P
<1>2. Len(q) \in Nat /\ DOMAIN q = 1 .. Len(q) /\ \A i \in DOMAIN q : q[i] \in P
  BY Elements DEF P
<1>3. /\ DOMAIN g = 1 .. Len(q)
      /\ \A i \in 1 .. Len(q) :
           g[i] = IF q[i].to = c THEN [q[i] EXCEPT !.to = None] ELSE q[i]
  BY <1>2 DEF GiveUp
<1>4. g \in [1 .. Len(q) -> P]
  BY <1>1, <1>2, <1>3 DEF GiveUp
<1> HIDE DEF g
<1>5. g \in Seq(P) /\ Len(g) = Len(q)
  BY <1>2, <1>4
<1> QED
  BY <1>1, <1>2, <1>3, <1>5 DEF g, P

(* Giving up leaves the replies where they are.                            *)
LEMMA GivenUpAnswers ==
  ASSUME NEW q \in Seq([to : Caller \cup {None}, res : Result]), NEW c \in Caller
  PROVE  /\ GiveUp(q, c) \in Seq([to : Caller \cup {None}, res : Result])
         /\ Len(GiveUp(q, c)) = Len(q) /\ DOMAIN GiveUp(q, c) = DOMAIN q
         /\ \A i \in DOMAIN q :
              /\ GiveUp(q, c)[i].to = IF q[i].to = c THEN None ELSE q[i].to
              /\ GiveUp(q, c)[i].res = q[i].res
<1> DEFINE P == [to : Caller \cup {None}, res : Result]
           g == GiveUp(q, c)
<1>1. \A p \in P : /\ [p EXCEPT !.to = None] \in P
                   /\ [p EXCEPT !.to = None].to = None
                   /\ [p EXCEPT !.to = None].res = p.res
  OBVIOUS
<1> HIDE DEF P
<1>2. Len(q) \in Nat /\ DOMAIN q = 1 .. Len(q) /\ \A i \in DOMAIN q : q[i] \in P
  BY Elements DEF P
<1>3. /\ DOMAIN g = 1 .. Len(q)
      /\ \A i \in 1 .. Len(q) :
           g[i] = IF q[i].to = c THEN [q[i] EXCEPT !.to = None] ELSE q[i]
  BY <1>2 DEF GiveUp
<1>4. g \in [1 .. Len(q) -> P]
  BY <1>1, <1>2, <1>3 DEF GiveUp
<1> HIDE DEF g
<1>5. g \in Seq(P) /\ Len(g) = Len(q)
  BY <1>2, <1>4
<1> QED
  BY <1>1, <1>2, <1>3, <1>5 DEF g, P

-----------------------------------------------------------------------------
(* Entering and leaving keep the invariant.                                *)

(* A thread calls libffi_init.                                             *)
LEMMA CallKeeps ==
  ASSUME LoaderInv, NEW c \in Caller, Call(c)
  PROVE  LoaderInv'
<1>1. LoaderTypeOK'
  BY BoundAssumption DEF Call, Goto, LoaderInv, LoaderTypeOK, PC, Section, Decided,
     args, machine, wire, store
<1>2. LockInv'
  BY <1>1 DEF Call, Goto, LoaderInv, LoaderTypeOK, LockInv, Section, machine, wire,
     store, args
<1>3. WireInv'
  BY <1>1, Packets DEF Call, Goto, LoaderInv, LoaderTypeOK, WireInv, LockInv, OwnReply, Decided,
     Section, machine, wire, store, args
<1>4. ResultInv'
  BY <1>1 DEF Call, Goto, LoaderInv, LoaderTypeOK, LockInv, ResultInv, ZeroRight,
     Section, Decided, machine, wire, store, args
<1>5. FreshInv'
  BY <1>1, Packets DEF Call, Goto, LoaderInv, LoaderTypeOK, LockInv, WireInv, OwnReply, FreshInv,
     FreshRes, Place, Section, Decided, machine, wire, store, args
<1> QED
  BY <1>1, <1>2, <1>3, <1>4, <1>5 DEF LoaderInv

(* A thread gets the lock.                                                 *)
LEMMA LockKeeps ==
  ASSUME LoaderInv, NEW c \in Caller, Lock(c)
  PROVE  LoaderInv'
<1>1. LoaderTypeOK'
  <2>1. PICK r \in Request :
          /\ req' = [req EXCEPT ![c] = r]
          /\ asked' = [asked EXCEPT ![c] = disk[Place(r)].ver]
    BY DEF Lock
  <2>2. disk[Place(r)].ver \in 1 .. MaxVersion
    BY PlaceType, OnDiskType DEF LoaderInv
  <2>3. r # None
    BY NoneAssumption
  <2> QED
    BY <2>1, <2>2, <2>3 DEF Lock, Goto, LoaderInv, LoaderTypeOK, PC, Section,
       Decided, machine, wire, store
<1>2. LockInv'
  BY <1>1 DEF Lock, Goto, LoaderInv, LoaderTypeOK, LockInv, Section, machine, wire,
     store, args
<1>3. WireInv'
  BY <1>1, Packets DEF Lock, Goto, LoaderInv, LoaderTypeOK, WireInv, LockInv, OwnReply, Decided,
     Section, machine, wire, store, args
<1>4. ResultInv'
  BY <1>1 DEF Lock, Goto, LoaderInv, LoaderTypeOK, LockInv, ResultInv, ZeroRight,
     Section, Decided, machine, wire, store, args
<1>5. FreshInv'
  BY <1>1, Packets DEF Lock, Goto, LoaderInv, LoaderTypeOK, LockInv, WireInv, OwnReply, FreshInv,
     FreshRes, Place, Section, Decided, machine, wire, store, args
<1> QED
  BY <1>1, <1>2, <1>3, <1>4, <1>5 DEF LoaderInv

(* A thread asks whether the VM runs.                                      *)
LEMMA TestKeeps ==
  ASSUME LoaderInv, NEW c \in Caller, Test(c)
  PROVE  LoaderInv'
<1>1. LoaderTypeOK'
  BY BoundAssumption DEF Test, Goto, LoaderInv, LoaderTypeOK, PC, Section, Decided,
     args, machine, wire, store
<1>2. LockInv'
  BY <1>1 DEF Test, Goto, LoaderInv, LoaderTypeOK, LockInv, Section, machine, wire,
     store, args
<1>3. WireInv'
  BY <1>1, Packets DEF Test, Goto, LoaderInv, LoaderTypeOK, WireInv, LockInv, OwnReply, Decided,
     Section, machine, wire, store, args
<1>4. ResultInv'
  BY <1>1 DEF Test, Goto, LoaderInv, LoaderTypeOK, LockInv, ResultInv, ZeroRight,
     Section, Decided, machine, wire, store, args
<1>5. FreshInv'
  BY <1>1, Packets DEF Test, Goto, LoaderInv, LoaderTypeOK, LockInv, WireInv, OwnReply, FreshInv,
     FreshRes, Place, Section, Decided, machine, wire, store, args
<1> QED
  BY <1>1, <1>2, <1>3, <1>4, <1>5 DEF LoaderInv

(* A thread whose call has a result releases the lock, which may not be    *)
(* its own.                                                                *)
LEMMA ReleaseKeeps ==
  ASSUME LoaderInv, NEW c \in Caller, NEW l \in {"back", "again"},
         pc[c] \in {"leave", "leave2", "again"}, l = "again" => pc[c] = "leave2",
         pc' = [pc EXCEPT ![c] = l], locked' = FALSE,
         UNCHANGED <<lang, req, asked, res, loads, started, vms, pending, tries, node,
                     fd, c2s, s2c, torn, disk, cache, front>>
  PROVE  LoaderInv'
<1>1. LoaderTypeOK'
  BY DEF LoaderInv, LoaderTypeOK, PC, Section, Decided
<1>2. LockInv'
  BY <1>1 DEF LoaderInv, LoaderTypeOK, LockInv, Section
<1>3. WireInv'
  BY <1>1, Packets DEF LoaderInv, LoaderTypeOK, WireInv, OwnReply, Decided
<1>4. ResultInv'
  BY <1>1 DEF LoaderInv, LoaderTypeOK, LockInv, ResultInv, ZeroRight, Section, Decided
<1>5. FreshInv'
  BY <1>1, Packets DEF LoaderInv, LoaderTypeOK, FreshInv, FreshRes, Place, Section, Decided
<1> QED
  BY <1>1, <1>2, <1>3, <1>4, <1>5 DEF LoaderInv

(* A thread unlocks.                                                       *)
LEMMA UnlockKeeps ==
  ASSUME LoaderInv, NEW c \in Caller, Unlock(c)
  PROVE  LoaderInv'
<1>1. CASE pc[c] = "leave" /\ Goto(c, "back")
  BY <1>1, ReleaseKeeps DEF Unlock, Goto, args, machine, wire, store
<1>2. CASE pc[c] = "leave2" /\ Goto(c, "again")
  BY <1>2, ReleaseKeeps DEF Unlock, Goto, args, machine, wire, store
<1> QED
  BY <1>1, <1>2 DEF Unlock

(* A thread unlocks a second time.                                         *)
LEMMA UnlockAgainKeeps ==
  ASSUME LoaderInv, NEW c \in Caller, UnlockAgain(c)
  PROVE  LoaderInv'
BY ReleaseKeeps DEF UnlockAgain, Goto, args, machine, wire, store

(* A thread is back in load_ffi.                                           *)
LEMMA ReturnKeeps ==
  ASSUME LoaderInv, NEW c \in Caller, Return(c)
  PROVE  LoaderInv'
<1>1. LoaderTypeOK'
  BY BoundAssumption DEF Return, Goto, LoaderInv, LoaderTypeOK, PC, Section, Decided,
     args, machine, wire, store
<1>2. LockInv'
  BY <1>1 DEF Return, Goto, LoaderInv, LoaderTypeOK, LockInv, Section, machine, wire,
     store, args
<1>3. WireInv'
  BY <1>1, Packets DEF Return, Goto, LoaderInv, LoaderTypeOK, WireInv, LockInv, OwnReply, Decided,
     Section, machine, wire, store, args
<1>4. ResultInv'
  BY <1>1 DEF Return, Goto, LoaderInv, LoaderTypeOK, LockInv, ResultInv, ZeroRight,
     Section, Decided, machine, wire, store, args
<1>5. FreshInv'
  BY <1>1, Packets DEF Return, Goto, LoaderInv, LoaderTypeOK, LockInv, WireInv, OwnReply, FreshInv,
     FreshRes, Place, Section, Decided, machine, wire, store, args
<1> QED
  BY <1>1, <1>2, <1>3, <1>4, <1>5 DEF LoaderInv

(* A file is saved.                                                        *)
LEMMA EditKeeps ==
  ASSUME LoaderInv, NEW d \in Dir, Edit(d)
  PROVE  LoaderInv'
<1>1. LoaderTypeOK'
  BY BoundAssumption DEF Edit, Goto, LoaderInv, LoaderTypeOK, PC, Section, Decided,
     args, machine, wire, store
<1>2. LockInv'
  BY <1>1 DEF Edit, Goto, LoaderInv, LoaderTypeOK, LockInv, Section, machine, wire,
     store, args
<1>3. WireInv'
  BY <1>1, Packets DEF Edit, Goto, LoaderInv, LoaderTypeOK, WireInv, LockInv, OwnReply, Decided,
     Section, machine, wire, store, args
<1>4. ResultInv'
  BY <1>1 DEF Edit, Goto, LoaderInv, LoaderTypeOK, LockInv, ResultInv, ZeroRight,
     Section, Decided, machine, wire, store, args
<1>5. FreshInv'
  BY <1>1, Packets DEF Edit, Goto, LoaderInv, LoaderTypeOK, LockInv, WireInv, OwnReply, FreshInv,
     FreshRes, Place, Section, Decided, machine, wire, store, args
<1> QED
  BY <1>1, <1>2, <1>3, <1>4, <1>5 DEF LoaderInv

-----------------------------------------------------------------------------
(* The Java and the Python loader keep the invariant.                      *)

(* A call comes to a result in the thread of the caller.                   *)
LEMMA DecideKeeps ==
  ASSUME LoaderInv, NEW c \in Caller, NEW l \in {"leave", "leave2"},
         NEW r \in Result, r # None, lang # "node",
         pc[c] \in {"create", "run"},
         l = "leave2" => lang = "java" /\ pc[c] = "run",
         pc' = [pc EXCEPT ![c] = l], res' = [res EXCEPT ![c] = r],
         ZeroRight(r), FreshRes(c, r), r.how # "stale",
         cache' \subseteq Module, front' \in Dir, lang = "python" \/ front' = front,
         pending' \in BOOLEAN,
         UNCHANGED <<lang, locked, req, asked, loads, started, vms, tries, node,
                     fd, c2s, s2c, torn, disk>>
  PROVE  LoaderInv'
<1>1. LoaderTypeOK'
  BY DEF LoaderInv, LoaderTypeOK, PC, Section, Decided
<1>2. LockInv'
  BY <1>1 DEF LoaderInv, LoaderTypeOK, LockInv, Section
<1>3. WireInv'
  BY <1>1, Packets DEF LoaderInv, LoaderTypeOK, WireInv, LockInv, OwnReply, Decided, Section
<1>4. ResultInv'
  BY <1>1 DEF LoaderInv, LoaderTypeOK, LockInv, ResultInv, ZeroRight, Section, Decided
<1>5. FreshInv'
  BY <1>1, Packets DEF LoaderInv, LoaderTypeOK, LockInv, WireInv, OwnReply, FreshInv,
     FreshRes, Place, Section, Decided
<1> QED
  BY <1>1, <1>2, <1>3, <1>4, <1>5 DEF LoaderInv

(* The VM is started in the thread of the caller.                          *)
LEMMA StartKeeps ==
  ASSUME LoaderInv, NEW c \in Caller, lang # "node", pc[c] = "create",
         pc' = [pc EXCEPT ![c] = "run"], started' = TRUE, vms' = vms + 1,
         UNCHANGED <<lang, locked, req, asked, res, loads, pending, tries, node,
                     fd, c2s, s2c, torn, disk, cache, front>>
  PROVE  LoaderInv'
<1>1. LoaderTypeOK'
  BY DEF LoaderInv, LoaderTypeOK, PC, Section, Decided
<1>2. LockInv'
  BY <1>1 DEF LoaderInv, LoaderTypeOK, LockInv, Section
<1>3. WireInv'
  BY <1>1, Packets DEF LoaderInv, LoaderTypeOK, WireInv, LockInv, OwnReply, Decided, Section
<1>4. ResultInv'
  BY <1>1 DEF LoaderInv, LoaderTypeOK, LockInv, ResultInv, ZeroRight, Section, Decided
<1>5. FreshInv'
  BY <1>1, Packets DEF LoaderInv, LoaderTypeOK, LockInv, WireInv, OwnReply, FreshInv,
     FreshRes, Place, Section, Decided
<1> QED
  BY <1>1, <1>2, <1>3, <1>4, <1>5 DEF LoaderInv

(* JNI_CreateJavaVM.                                                       *)
LEMMA JavaCreateKeeps ==
  ASSUME LoaderInv, NEW c \in Caller, JavaCreate(c)
  PROVE  LoaderInv'
<1>1. CASE Goto(c, "run") /\ started' = TRUE /\ vms' = vms + 1 /\ UNCHANGED res
  BY <1>1, StartKeeps DEF JavaCreate, Goto, wire, store
<1>2. CASE /\ Goto(c, "leave") /\ Finished(c, 1, "fail", None, <<>>)
           /\ UNCHANGED <<started, vms>>
  <2> DEFINE r == [rc |-> 1, how |-> "fail", mod |-> None, cfg |-> <<>>]
  <2>1. r \in Result /\ r # None /\ ZeroRight(r) /\ FreshRes(c, r) /\ r.how # "stale"
    BY NoResult DEF Outcome, FreshRes, ZeroRight
  <2>2. res' = [res EXCEPT ![c] = r] /\ pc' = [pc EXCEPT ![c] = "leave"]
    BY <1>2 DEF Finished, Goto
  <2> HIDE DEF r
  <2> QED
    BY <1>2, <2>1, <2>2, DecideKeeps
    DEF JavaCreate, wire, store, LoaderInv, LoaderTypeOK
<1> QED
  BY <1>1, <1>2 DEF JavaCreate

(* The class or the method is not found.                                   *)
LEMMA JavaMissingKeeps ==
  ASSUME LoaderInv, NEW c \in Caller, JavaMissing(c)
  PROVE  LoaderInv'
<1> DEFINE r == [rc |-> 1, how |-> "fail", mod |-> None, cfg |-> <<>>]
<1>1. r \in Result /\ r # None /\ ZeroRight(r) /\ FreshRes(c, r) /\ r.how # "stale"
  BY NoResult DEF Outcome, FreshRes, ZeroRight
<1>2. res' = [res EXCEPT ![c] = r] /\ pc' = [pc EXCEPT ![c] = "leave"]
  BY DEF JavaMissing, Finished, Goto
<1> HIDE DEF r
<1> QED
  BY <1>1, <1>2, DecideKeeps DEF JavaMissing, wire, store, LoaderInv, LoaderTypeOK

(* A class of the system class loader.                                     *)
LEMMA JavaStaticKeeps ==
  ASSUME LoaderInv, NEW c \in Caller, JavaStatic(c)
  PROVE  LoaderInv'
<1> DEFINE d == Place(req[c])
<1>1. req[c] \in Request /\ d \in Dir
  BY PlaceType DEF JavaStatic, LoaderInv, LoaderTypeOK, Section
<1>2. cache' \subseteq Module
  BY <1>1, OnDiskType DEF JavaStatic, LoaderInv, LoaderTypeOK
<1>3. PICK m \in cache', rc \in {0, 1}, how \in {"ok", "fail", "raise"} :
        /\ m.dir = d
        /\ how = "ok" => rc = 0
        /\ how = "fail" => rc = 1
        /\ Finished(c, rc, how, m, req[c].cfg)
  BY DEF JavaStatic
<1> DEFINE r == [rc |-> rc, how |-> how, mod |-> m, cfg |-> req[c].cfg]
<1>4. r \in Result /\ r # None
  BY <1>1, <1>2, MadeResult, GivenCfg DEF Outcome
<1>5. ZeroRight(r) /\ r.how # "stale"
  BY <1>3 DEF ZeroRight, JavaStatic
<1>6. FreshRes(c, r)
  BY <1>3 DEF FreshRes, JavaStatic, Place
<1>7. res' = [res EXCEPT ![c] = r] /\ pc' = [pc EXCEPT ![c] = "leave2"]
  BY <1>3 DEF JavaStatic, JavaEnd, Finished, Goto
<1> HIDE DEF r
<1> QED
  BY <1>2, <1>4, <1>5, <1>6, <1>7, DecideKeeps
  DEF JavaStatic, JavaEnd, wire, LoaderInv, LoaderTypeOK

(* A class that is read from disk.                                         *)
LEMMA JavaDynamicKeeps ==
  ASSUME LoaderInv, NEW c \in Caller, JavaDynamic(c)
  PROVE  LoaderInv'
<1> DEFINE d == Place(req[c])
           first == IF req[c].cfg = <<>> THEN <<>> ELSE <<Head(req[c].cfg)>>
<1>1. req[c] \in Request /\ d \in Dir
  BY PlaceType DEF JavaDynamic, LoaderInv, LoaderTypeOK, Section
<1>2. OnDisk(d) \in Module /\ first \in Given
  BY <1>1, OnDiskType, GivenCfg DEF LoaderInv
<1>3. PICK rc \in {0, 1}, how \in {"ok", "fail", "raise"},
           mod \in {OnDisk(d), None}, cfg \in {first, <<>>} :
        /\ rc = 0 => how \in {"ok", "raise"}
        /\ Finished(c, rc, how, mod, cfg)
  <2>1. CASE disk[d].good
    <3>1. PICK how \in {"ok", "fail"} :
            Finished(c, IF how = "ok" THEN 0 ELSE 1, how, OnDisk(d), first)
      BY <2>1 DEF JavaDynamic
    <3>2. CASE how = "ok"
      BY <3>1, <3>2
    <3>3. CASE how = "fail"
      BY <3>1, <3>3
    <3> QED
      BY <3>2, <3>3
  <2>2. CASE Finished(c, 1, "fail", None, <<>>)
    BY <2>2
  <2>3. CASE \E rc \in {0, 1} : Finished(c, rc, "raise", None, <<>>)
    BY <2>3
  <2> QED
    BY <2>1, <2>2, <2>3 DEF JavaDynamic
<1> DEFINE r == [rc |-> rc, how |-> how, mod |-> mod, cfg |-> cfg]
<1>4. r \in Result /\ r # None
  <2>1. cfg \in Given /\ mod \in Module \cup {None} /\ how \in Outcome
    BY <1>1, <1>2, GivenCfg DEF Outcome
  <2> QED
    BY <2>1, MadeResult
<1>5. ZeroRight(r) /\ r.how # "stale"
  BY <1>3 DEF ZeroRight, JavaDynamic
<1>6. FreshRes(c, r)
  <2>1. /\ asked[c] <= disk[d].ver
        /\ OnDisk(d).dir = d /\ OnDisk(d).ver = disk[d].ver
        /\ disk[d].ver \in Nat /\ asked[c] \in Nat
    BY <1>1, OnDiskType, AskedOld DEF JavaDynamic, LoaderInv, Section, Decided
  <2> QED
    BY <2>1 DEF FreshRes, Place
<1>7. res' = [res EXCEPT ![c] = r] /\ pc' = [pc EXCEPT ![c] = "leave2"]
  BY <1>3 DEF JavaDynamic, JavaEnd, Finished, Goto
<1> HIDE DEF r
<1> QED
  BY <1>4, <1>5, <1>6, <1>7, DecideKeeps
  DEF JavaDynamic, JavaEnd, wire, LoaderInv, LoaderTypeOK

(* Py_Initialize.                                                          *)
LEMMA PyCreateKeeps ==
  ASSUME LoaderInv, NEW c \in Caller, PyCreate(c)
  PROVE  LoaderInv'
BY StartKeeps DEF PyCreate, Goto, args, wire, store

(* A module of Python is found, or not, and its function is called.        *)
LEMMA PyRunKeeps ==
  ASSUME LoaderInv, NEW c \in Caller, PyRun(c)
  PROVE  LoaderInv'
<1>1. req[c] \in Request /\ Place(req[c]) \in Dir
  BY PlaceType DEF PyRun, LoaderInv, LoaderTypeOK, Section
<1>2. CASE PyNotFound(req[c]) /\ Finished(c, 1, "fail", None, <<>>)
  <2> DEFINE r == [rc |-> 1, how |-> "fail", mod |-> None, cfg |-> <<>>]
  <2>1. r \in Result /\ r # None /\ ZeroRight(r) /\ FreshRes(c, r) /\ r.how # "stale"
    BY NoResult DEF Outcome, FreshRes, ZeroRight
  <2>2. res' = [res EXCEPT ![c] = r] /\ pc' = [pc EXCEPT ![c] = "leave"]
    BY <1>2 DEF PyRun, Finished, Goto
  <2> HIDE DEF r
  <2> QED
    BY <1>1, <1>2, <2>1, <2>2, DecideKeeps
    DEF PyRun, PyNotFound, wire, machine, LoaderInv, LoaderTypeOK
<1>3. ASSUME NEW mod \in Module, NEW how \in {"ok", "fail"}, PyFind(req[c], mod),
             Finished(c, IF how = "ok" THEN 0 ELSE 1, how, mod, req[c].cfg)
      PROVE  LoaderInv'
  <2> DEFINE rc == IF how = "ok" THEN 0 ELSE 1
             r == [rc |-> rc, how |-> how, mod |-> mod, cfg |-> req[c].cfg]
  <2>1. r \in Result /\ r # None
    BY <1>1, MadeResult, GivenCfg DEF Outcome
  <2>2. ZeroRight(r) /\ r.how # "stale"
    BY DEF ZeroRight
  <2>3. FreshRes(c, r)
    <3>1. CASE req[c].dyn
      <4>1. mod = OnDisk(Place(req[c]))
        BY <1>3, <3>1 DEF PyFind
      <4>2. /\ asked[c] <= disk[Place(req[c])].ver
            /\ mod.dir = Place(req[c]) /\ mod.ver = disk[Place(req[c])].ver
            /\ disk[Place(req[c])].ver \in Nat /\ asked[c] \in Nat
        BY <1>1, <4>1, OnDiskType, AskedOld DEF PyRun, LoaderInv, Section, Decided
      <4> QED
        BY <4>2 DEF FreshRes, Place
    <3>2. CASE ~req[c].dyn
      BY <3>2 DEF FreshRes, PyRun
    <3> QED
      BY <3>1, <3>2
  <2>4. res' = [res EXCEPT ![c] = r] /\ pc' = [pc EXCEPT ![c] = "leave"]
    BY <1>3 DEF PyRun, Finished, Goto
  <2>5. cache' \subseteq Module /\ front' \in Dir
    BY <1>1, <1>3 DEF PyFind, LoaderInv, LoaderTypeOK
  <2> HIDE DEF r
  <2> QED
    BY <2>1, <2>2, <2>3, <2>4, <2>5, DecideKeeps
    DEF PyRun, wire, machine, LoaderInv, LoaderTypeOK
<1> QED
  BY <1>2, <1>3 DEF PyRun

(* The library of the Python loader is closed.                             *)
LEMMA PyFiniKeeps == ASSUME LoaderInv, PyFini PROVE LoaderInv'
<1>1. LoaderTypeOK'
  BY DirAssumption DEF PyFini, LoaderInv, LoaderTypeOK, args, wire
<1>2. LockInv'
  <2>1. vms' = 0 /\ started' = FALSE
    BY DEF PyFini, LoaderInv, LockInv
  <2>2. \A c \in Caller : pc'[c] \in {"out", "back"}
    BY DEF PyFini
  <2> QED
    BY <2>1, <2>2 DEF LockInv, Section
<1>3. WireInv'
  BY <1>1, Packets DEF PyFini, LoaderInv, LoaderTypeOK, WireInv, OwnReply, Decided,
     args, wire
<1>4. ResultInv'
  BY <1>1 DEF PyFini, LoaderInv, LoaderTypeOK, ResultInv, ZeroRight, args, wire
<1>5. FreshInv'
  BY <1>1, Packets DEF PyFini, LoaderInv, LoaderTypeOK, FreshInv, FreshRes, Place,
     Section, Decided, args, wire
<1> QED
  BY <1>1, <1>2, <1>3, <1>4, <1>5 DEF LoaderInv

-----------------------------------------------------------------------------
(* The Node.js loader keeps the invariant.                                 *)

(* The thread of Node.js is created, or not.                               *)
LEMMA NodeCreateKeeps ==
  ASSUME LoaderInv, NEW c \in Caller, NodeCreate(c)
  PROVE  LoaderInv'
<1>0. /\ pc' = [pc EXCEPT ![c] = "connect"] /\ started' = TRUE
      /\ node' \in {"booting", "dead"} /\ vms' \in {vms, vms + 1}
      /\ lang = "node" /\ pc[c] = "create"
      /\ UNCHANGED <<lang, locked, req, asked, res, loads, pending, tries, fd, c2s, s2c,
                     torn, disk, cache, front>>
  BY DEF NodeCreate, Goto, args, store
<1>1. LoaderTypeOK'
  BY <1>0 DEF LoaderInv, LoaderTypeOK, PC, Section, Decided
<1>2. LockInv'
  BY <1>0, <1>1 DEF LoaderInv, LoaderTypeOK, LockInv, Section
<1>3. WireInv'
  <2>1. tries = 0 /\ tries < MaxTries /\ ~fd /\ Len(c2s) = 0 /\ Len(s2c) = 0
    BY <1>0, BoundAssumption DEF LoaderInv, LockInv, WireInv
  <2> QED
    BY <1>0, <1>1, <2>1, Packets DEF LoaderInv, LoaderTypeOK, WireInv, OwnReply, Decided
<1>4. ResultInv'
  <2>1. ~started
    BY <1>0 DEF LoaderInv, LockInv
  <2>2. \A d \in Caller : d # c => pc[d] \notin Section
    BY <1>0, <2>1 DEF LoaderInv, LockInv, Section
  <2>3. \A d \in Caller : d # c => pc[d] \in {"out", "enter"}
    BY <1>0, <2>1, <2>2 DEF LoaderInv, ResultInv, Section
  <2> QED
    BY <1>0, <1>1, <2>3 DEF LoaderInv, LoaderTypeOK, ResultInv, ZeroRight, Decided
<1>5. FreshInv'
  BY <1>0, <1>1, Packets DEF LoaderInv, LoaderTypeOK, FreshInv, FreshRes, Place,
     Section, Decided
<1> QED
  BY <1>1, <1>2, <1>3, <1>4, <1>5 DEF LoaderInv

(* A caller is connected, tries again or gives up.                         *)
LEMMA NodeConnectKeeps ==
  ASSUME LoaderInv, NEW c \in Caller, NodeConnect(c)
  PROVE  LoaderInv'
<1>0. PICK l \in {"connect", "send"} :
        /\ pc' = [pc EXCEPT ![c] = l] /\ fd' \in BOOLEAN /\ (fd => fd')
        /\ tries' \in Nat /\ tries' < MaxTries
        /\ lang = "node" /\ pc[c] = "connect"
        /\ UNCHANGED <<lang, locked, req, asked, res, loads, started, vms, pending,
                       node, c2s, s2c, torn, disk, cache, front>>
  <2>0. pc = [pc EXCEPT ![c] = "connect"] /\ tries \in Nat /\ 0 < MaxTries
    BY BoundAssumption DEF NodeConnect, LoaderInv, LoaderTypeOK
  <2>1. CASE node = "listening" /\ fd' = TRUE /\ tries' = 0 /\ Goto(c, "send")
    BY <2>0, <2>1 DEF NodeConnect, Goto, args, machine, store
  <2>2. CASE UNCHANGED fd /\ tries' = 0 /\ Goto(c, "send")
    BY <2>0, <2>2 DEF NodeConnect, Goto, args, machine, store, LoaderInv, LoaderTypeOK
  <2>3. CASE UNCHANGED fd /\ tries + 1 < MaxTries /\ tries' = tries + 1 /\ UNCHANGED pc
    BY <2>0, <2>3 DEF NodeConnect, args, machine, store, LoaderInv, LoaderTypeOK
  <2> QED
    BY <2>1, <2>2, <2>3 DEF NodeConnect
<1>1. LoaderTypeOK'
  <2>1. tries' \in 0 .. MaxTries
    BY <1>0, BoundAssumption
  <2> QED
    BY <1>0, <2>1 DEF LoaderInv, LoaderTypeOK, PC, Section, Decided
<1>2. LockInv'
  BY <1>0, <1>1 DEF LoaderInv, LoaderTypeOK, LockInv, Section
<1>3. WireInv'
  <2>1. started /\ \A d \in Caller : d # c => pc[d] \in {"out", "enter"}
    BY <1>0 DEF LoaderInv, LockInv, ResultInv
  <2> QED
    BY <1>0, <1>1, <2>1, Packets DEF LoaderInv, LoaderTypeOK, WireInv, OwnReply, Decided
<1>4. ResultInv'
  <2>1. started /\ \A d \in Caller : d # c => pc[d] \in {"out", "enter"}
    BY <1>0 DEF LoaderInv, LockInv, ResultInv
  <2> QED
    BY <1>0, <1>1, <2>1 DEF LoaderInv, LoaderTypeOK, ResultInv, ZeroRight, Decided
<1>5. FreshInv'
  BY <1>0, <1>1, Packets DEF LoaderInv, LoaderTypeOK, FreshInv, FreshRes, Place,
     Section, Decided
<1> QED
  BY <1>1, <1>2, <1>3, <1>4, <1>5 DEF LoaderInv

(* When no caller waits, what is in the socket is for nobody, and there is *)
(* something only after a recv has failed.                                 *)
LEMMA NobodyWaits ==
  ASSUME LoaderInv, \A d \in Caller : pc[d] # "recv"
  PROVE  /\ \A i \in DOMAIN c2s : c2s[i].to = None
         /\ \A i \in DOMAIN s2c : s2c[i].to = None
         /\ ~torn => Len(c2s) = 0 /\ Len(s2c) = 0
<1>0. LoaderTypeOK
  BY DEF LoaderInv
<1>1. \A i \in DOMAIN c2s : c2s[i].to = None
  BY <1>0, Packets DEF LoaderInv, WireInv, OwnReply
<1>2. \A i \in DOMAIN s2c : s2c[i].to = None
  BY <1>0, Packets DEF LoaderInv, WireInv, OwnReply
<1>3. ~torn => DOMAIN c2s = {} /\ DOMAIN s2c = {}
  BY <1>1, <1>2 DEF LoaderInv, WireInv
<1>4. \A n \in Nat : 1 .. n = {} => n = 0
  OBVIOUS
<1> QED
  BY <1>0, <1>1, <1>2, <1>3, <1>4, Packets

(* A request is sent, or lost.                                             *)
LEMMA NodeSendKeeps ==
  ASSUME LoaderInv, NEW c \in Caller, NodeSend(c)
  PROVE  LoaderInv'
<1> DEFINE Asks == [to : Caller \cup {None}, req : Request]
           e == [to |-> c, req |-> req[c]]
<1>0. /\ pc' = [pc EXCEPT ![c] = "recv"] /\ lang = "node" /\ pc[c] = "send"
      /\ c2s' = IF fd /\ node = "listening" THEN Append(c2s, e) ELSE c2s
      /\ UNCHANGED <<lang, locked, req, asked, res, loads, started, vms, pending,
                     tries, node, fd, s2c, torn, disk, cache, front>>
  BY DEF NodeSend, Goto, args, machine, store
<1>a. e \in Asks /\ e.to = c /\ e.req = req[c] /\ c \in Caller \ {None}
  BY <1>0, CallerAssumption DEF LoaderInv, LoaderTypeOK, Section
<1> HIDE DEF e
<1>b. /\ \A i \in DOMAIN c2s : c2s[i].to = None
      /\ \A i \in DOMAIN s2c : s2c[i].to = None
      /\ ~torn => Len(c2s) = 0 /\ Len(s2c) = 0
  <2>1. \A d \in Caller : pc[d] # "recv"
    BY <1>0 DEF LoaderInv, LockInv, Section
  <2> QED
    BY <2>1, NobodyWaits
<1>c. c2s \in Seq(Asks) /\ Len(c2s) \in Nat /\ Len(s2c) \in Nat
  BY Packets DEF LoaderInv, LoaderTypeOK
<1>d. /\ c2s' \in Seq(Asks) /\ Len(c2s') \in {Len(c2s), Len(c2s) + 1}
      /\ \A i \in DOMAIN c2s' : c2s'[i] = e \/ (i \in DOMAIN c2s /\ c2s'[i] = c2s[i])
      /\ c2s' = c2s \/ (fd /\ node = "listening")
  <2> HIDE DEF Asks
  <2> QED
    BY <1>0, <1>a, <1>c, AddLast
<1>e. /\ \A i \in DOMAIN c2s' : \/ c2s'[i].to = None
                                \/ c2s'[i].to = c /\ c2s'[i].req = req[c]
      /\ ~torn => Len(c2s') <= 1 /\ \A i \in DOMAIN c2s' : c2s'[i].to = c
  <2>1. ~torn => DOMAIN c2s = {}
    BY <1>b, <1>c, Elements
  <2> QED
    BY <1>a, <1>b, <1>c, <1>d, <2>1
<1>1. LoaderTypeOK'
  BY <1>0, <1>d DEF LoaderInv, LoaderTypeOK, PC, Section, Decided
<1>2. LockInv'
  BY <1>0, <1>1 DEF LoaderInv, LoaderTypeOK, LockInv, Section
<1>3. WireInv'
  <2>0. pc'[c] = "recv" /\ \A d \in Caller : pc'[d] \in Decided => pc[d] \in Decided
    BY <1>0 DEF LoaderInv, LoaderTypeOK, Decided
  <2>1. OwnReply'
    <3>1. ~torn' => Len(c2s') + Len(s2c') <= 1
      BY <1>0, <1>b, <1>c, <1>d
    <3>2. ~torn' => \A d \in Caller : pc'[d] \in Decided => res'[d].how # "stale"
      BY <1>0, <2>0 DEF LoaderInv, WireInv, OwnReply
    <3> QED
      BY <1>0, <1>b, <1>e, <2>0, <3>1, <3>2 DEF OwnReply
  <2>2. \A i \in DOMAIN c2s' : c2s'[i].to # None => c2s'[i].req = req'[c2s'[i].to]
    BY <1>0, <1>e
  <2>3. ~torn' => /\ \A i \in DOMAIN c2s' : c2s'[i].to # None
                  /\ \A i \in DOMAIN s2c' : s2c'[i].to # None
    BY <1>0, <1>a, <1>e DEF LoaderInv, WireInv
  <2> QED
    BY <1>0, <1>1, <1>d, <2>1, <2>2, <2>3 DEF LoaderInv, LoaderTypeOK, WireInv
<1>4. ResultInv'
  BY <1>0, <1>1 DEF LoaderInv, LoaderTypeOK, LockInv, ResultInv, ZeroRight, Section, Decided
<1>5. FreshInv'
  BY <1>0, <1>1, <1>b DEF LoaderInv, LoaderTypeOK, FreshInv, FreshRes, Place,
     Section, Decided
<1> QED
  BY <1>1, <1>2, <1>3, <1>4, <1>5 DEF LoaderInv

(* recv ends, whether it read anything or not: nothing in the socket is    *)
(* for anybody any more.                                                   *)
LEMMA RecvEnds ==
  ASSUME LoaderInv, NEW c \in Caller, NEW r \in Result,
         lang = "node", pc[c] = "recv", pc' = [pc EXCEPT ![c] = "leave"],
         res' = [res EXCEPT ![c] = r], ZeroRight(r)', FreshRes(c, r),
         c2s' \in Seq([to : Caller \cup {None}, req : Request]),
         s2c' \in Seq([to : Caller \cup {None}, res : Result]),
         torn' \in BOOLEAN, torn => torn',
         \A i \in DOMAIN c2s' : c2s'[i].to = None,
         \A i \in DOMAIN s2c' :
           /\ s2c'[i].to = None
           /\ s2c'[i].res.rc = 0 => s2c'[i].res.how = "ok"
           /\ s2c'[i].res.how # "stale",
         ~torn' => Len(c2s') = 0 /\ Len(s2c') = 0 /\ r.how # "stale",
         ~fd => Len(c2s') = 0 /\ Len(s2c') = 0,
         node # "listening" => Len(c2s') = 0,
         UNCHANGED <<lang, locked, req, asked, loads, started, vms, pending,
                     tries, node, fd, disk, cache, front>>
  PROVE  LoaderInv'
<1>0. r # None
  BY NoneAssumption
<1>1. LoaderTypeOK'
  BY <1>0 DEF LoaderInv, LoaderTypeOK, PC, Section, Decided
<1>2. LockInv'
  BY <1>1 DEF LoaderInv, LoaderTypeOK, LockInv, Section
<1>3. WireInv'
  <2>1. started
    BY DEF LoaderInv, LockInv
  <2>2. \A d \in Caller : pc'[d] \in Decided =>
          \/ d = c /\ res'[d] = r
          \/ pc[d] \in Decided /\ res'[d] = res[d]
    BY DEF LoaderInv, LoaderTypeOK
  <2>3. ~torn' => \A d \in Caller : pc'[d] \in Decided => res'[d].how # "stale"
    BY <2>2 DEF LoaderInv, WireInv, OwnReply
  <2>4. ~torn' => DOMAIN c2s' = {} /\ DOMAIN s2c' = {}
    <3>1. ASSUME ~torn' PROVE c2s' = <<>> /\ s2c' = <<>>
      BY <3>1, EmptyLen
    <3> QED
      BY <3>1
  <2>5. OwnReply'
    BY <2>3 DEF OwnReply
  <2> QED
    BY <1>1, <2>1, <2>4, <2>5 DEF LoaderInv, LoaderTypeOK, WireInv
<1>4. ResultInv'
  <2>1. started /\ \A d \in Caller : d # c => pc[d] \notin Section
    BY DEF LoaderInv, LockInv, Section
  <2> QED
    BY <1>1, <2>1 DEF LoaderInv, LoaderTypeOK, ResultInv, ZeroRight, Section, Decided
<1>5. FreshInv'
  BY <1>1 DEF LoaderInv, LoaderTypeOK, FreshInv, FreshRes, Place, Section, Decided
<1> QED
  BY <1>1, <1>2, <1>3, <1>4, <1>5 DEF LoaderInv

(* A caller that gives up leaves nothing in the socket that is for anybody.*)
LEMMA NothingForAnybody ==
  ASSUME LoaderInv, NEW c \in Caller, lang = "node", pc[c] = "recv"
  PROVE  /\ GiveUp(c2s, c) \in Seq([to : Caller \cup {None}, req : Request])
         /\ GiveUp(s2c, c) \in Seq([to : Caller \cup {None}, res : Result])
         /\ Len(GiveUp(c2s, c)) = Len(c2s) /\ Len(GiveUp(s2c, c)) = Len(s2c)
         /\ \A i \in DOMAIN GiveUp(c2s, c) : GiveUp(c2s, c)[i].to = None
         /\ \A i \in DOMAIN GiveUp(s2c, c) :
              /\ GiveUp(s2c, c)[i].to = None
              /\ GiveUp(s2c, c)[i].res.rc = 0 => GiveUp(s2c, c)[i].res.how = "ok"
              /\ GiveUp(s2c, c)[i].res.how # "stale"
<1> DEFINE Asks == [to : Caller \cup {None}, req : Request]
           Answers == [to : Caller \cup {None}, res : Result]
<1>0. LoaderTypeOK /\ \A d \in Caller : d # c => pc[d] # "recv"
  BY DEF LoaderInv, LockInv, Section
<1>1. /\ \A i \in DOMAIN c2s : c2s[i].to \in {c, None}
      /\ \A i \in DOMAIN s2c : s2c[i].to \in {c, None}
  BY <1>0, Packets DEF LoaderInv, WireInv, OwnReply
<1>2. c2s \in Seq(Asks) /\ s2c \in Seq(Answers)
  BY <1>0 DEF LoaderTypeOK
<1>3. /\ GiveUp(c2s, c) \in Seq(Asks)
      /\ Len(GiveUp(c2s, c)) = Len(c2s) /\ DOMAIN GiveUp(c2s, c) = DOMAIN c2s
      /\ \A i \in DOMAIN c2s :
           GiveUp(c2s, c)[i].to = IF c2s[i].to = c THEN None ELSE c2s[i].to
  BY <1>2, GivenUpAsks
<1>4. /\ GiveUp(s2c, c) \in Seq(Answers)
      /\ Len(GiveUp(s2c, c)) = Len(s2c) /\ DOMAIN GiveUp(s2c, c) = DOMAIN s2c
      /\ \A i \in DOMAIN s2c :
           /\ GiveUp(s2c, c)[i].to = IF s2c[i].to = c THEN None ELSE s2c[i].to
           /\ GiveUp(s2c, c)[i].res = s2c[i].res
  BY <1>2, GivenUpAnswers
<1>5. \A i \in DOMAIN s2c : /\ s2c[i].res.rc = 0 => s2c[i].res.how = "ok"
                            /\ s2c[i].res.how # "stale"
  BY DEF LoaderInv, ResultInv
<1> HIDE DEF Asks, Answers
<1>6. \A i \in DOMAIN s2c : GiveUp(s2c, c)[i].to = None
  BY <1>1, <1>4
<1>7. \A i \in DOMAIN c2s : GiveUp(c2s, c)[i].to = None
  BY <1>1, <1>3
<1> QED
  BY <1>3, <1>4, <1>5, <1>6, <1>7 DEF Asks, Answers

(* A caller that finds the reply to its request alone in the socket; until *)
(* a recv has failed it finds nothing else.                                *)
LEMMA OwnFound ==
  ASSUME LoaderInv, NEW c \in Caller, lang = "node", pc[c] = "recv", s2c # <<>>
  PROVE  /\ 1 \in DOMAIN s2c /\ s2c[1].res \in Result /\ s2c[1].res.rc \in {0, 1}
         /\ s2c[1].to \in {c, None}
         /\ ~torn => Len(s2c) = 1 /\ s2c[1].to = c /\ Len(c2s) = 0
<1>0. LoaderTypeOK
  BY DEF LoaderInv
<1>1. Len(s2c) # 0
  BY <1>0, EmptyLen DEF LoaderTypeOK
<1>2. 1 \in DOMAIN s2c /\ s2c[1].to \in Caller \cup {None} /\ s2c[1].res \in Result
  BY <1>0, <1>1, Packets
<1>3. s2c[1].res.rc \in {0, 1}
  BY <1>2 DEF Result
<1>4. s2c[1].to \in {c, None}
  <2>1. \A d \in Caller : d # c => pc[d] # "recv"
    BY DEF LoaderInv, LockInv, Section
  <2> QED
    BY <1>2, <2>1 DEF LoaderInv, WireInv, OwnReply
<1>5. ASSUME ~torn PROVE Len(s2c) = 1 /\ s2c[1].to = c /\ Len(c2s) = 0
  <2>1. Len(c2s) + Len(s2c) <= 1 /\ s2c[1].to # None
    BY <1>2, <1>5 DEF LoaderInv, WireInv, OwnReply
  <2>2. Len(c2s) \in Nat /\ Len(s2c) \in Nat
    BY <1>0, Packets
  <2>3. Len(s2c) + Len(c2s) <= 1
    BY <2>1, <2>2
  <2> QED
    BY <1>1, <1>4, <2>1, <2>2, <2>3, OnlyOne
<1> QED
  BY <1>2, <1>3, <1>4, <1>5

(* A reply is read, or there is none.                                      *)
LEMMA NodeRecvKeeps ==
  ASSUME LoaderInv, NEW c \in Caller, NodeRecv(c)
  PROVE  LoaderInv'
<1>0. /\ lang = "node" /\ pc[c] = "recv" /\ pc' = [pc EXCEPT ![c] = "leave"]
      /\ UNCHANGED <<lang, locked, req, asked, loads, started, vms, pending,
                     tries, node, fd, torn, disk, cache, front>>
  BY DEF NodeRecv, Goto, machine, store
<1>a. /\ torn \in BOOLEAN /\ LoaderTypeOK
      /\ node # "listening" => Len(c2s) = 0
      /\ ~fd => Len(c2s) = 0 /\ Len(s2c) = 0
  BY DEF LoaderInv, LoaderTypeOK, WireInv
<1>1. CASE fd /\ s2c # <<>> /\ c2s' = GiveUp(c2s, c) /\ s2c' = <<>>
  <2>1. PICK r \in Result :
          /\ res' = [res EXCEPT ![c] = r]
          /\ ZeroRight(r) /\ FreshRes(c, r) /\ (~torn => r.how # "stale")
    <3>1. CASE Len(s2c) = 1 /\ s2c[1].to = c /\ res' = [res EXCEPT ![c] = s2c[1].res]
      <4>1. 1 \in DOMAIN s2c /\ s2c[1].res \in Result
        BY <1>0, <1>1, OwnFound
      <4>2. ZeroRight(s2c[1].res) /\ s2c[1].res.how # "stale"
        BY <4>1 DEF LoaderInv, ResultInv, ZeroRight
      <4>3. FreshRes(c, s2c[1].res)
        BY <3>1, <4>1, CallerAssumption DEF LoaderInv, FreshInv
      <4> QED
        BY <3>1, <4>1, <4>2, <4>3
    <3>2. CASE /\ ~(Len(s2c) = 1 /\ s2c[1].to = c)
               /\ \E rc \in ReadAs(s2c) : Finished(c, rc, "stale", None, <<>>)
      <4>1. PICK rc \in ReadAs(s2c) : Finished(c, rc, "stale", None, <<>>)
        BY <3>2
      <4>2. rc \in {0, 1} /\ torn
        BY <1>0, <1>1, <3>2, OwnFound DEF ReadAs
      <4> DEFINE r == [rc |-> rc, how |-> "stale", mod |-> None, cfg |-> <<>>]
      <4>3. r \in Result
        BY <4>2, NoResult DEF Outcome
      <4>4. ZeroRight(r) /\ FreshRes(c, r)
        BY <1>0, <4>2 DEF ZeroRight, FreshRes
      <4>5. res' = [res EXCEPT ![c] = r]
        BY <4>1 DEF Finished
      <4> HIDE DEF r
      <4> QED
        BY <4>2, <4>3, <4>4, <4>5
    <3> QED
      BY <1>1, <3>1, <3>2 DEF NodeRecv
  <2>2. ZeroRight(r)'
    BY <1>0, <2>1 DEF ZeroRight
  <2>3. /\ c2s' \in Seq([to : Caller \cup {None}, req : Request])
        /\ Len(c2s') = Len(c2s)
        /\ \A i \in DOMAIN c2s' : c2s'[i].to = None
    BY <1>0, <1>1, NothingForAnybody
  <2>4. /\ s2c' \in Seq([to : Caller \cup {None}, res : Result])
        /\ Len(s2c') = 0 /\ DOMAIN s2c' = {}
    BY <1>1
  <2>5. ~torn => Len(c2s) = 0
    BY <1>0, <1>1, OwnFound
  <2> QED
    BY <1>0, <1>a, <2>1, <2>2, <2>3, <2>4, <2>5, RecvEnds
<1>2. CASE /\ ~fd \/ (node = "dead" /\ s2c = <<>>)
           /\ Finished(c, 0, "noanswer", None, <<>>)
           /\ UNCHANGED <<c2s, s2c>>
  <2> DEFINE r == [rc |-> 0, how |-> "noanswer", mod |-> None, cfg |-> <<>>]
  <2>1. r \in Result /\ r.how # "stale"
    BY NoResult DEF Outcome
  <2>2. ZeroRight(r)' /\ FreshRes(c, r)
    BY <1>0, <1>2 DEF ZeroRight, FreshRes
  <2>3. res' = [res EXCEPT ![c] = r]
    BY <1>2 DEF Finished
  <2> HIDE DEF r
  <2>4. Len(c2s') = 0 /\ Len(s2c') = 0
    BY <1>a, <1>2, EmptyLen DEF LoaderTypeOK
  <2>5. DOMAIN c2s' = {} /\ DOMAIN s2c' = {}
    BY <1>a, <1>2, <2>4, Packets
  <2>6. /\ c2s' \in Seq([to : Caller \cup {None}, req : Request])
        /\ s2c' \in Seq([to : Caller \cup {None}, res : Result])
    BY <1>a, <1>2 DEF LoaderTypeOK
  <2> QED
    BY <1>0, <1>a, <2>1, <2>2, <2>3, <2>4, <2>5, <2>6, RecvEnds
<1> QED
  BY <1>1, <1>2 DEF NodeRecv

(* recv fails on a connection that is up.                                  *)
LEMMA NodeRecvFailsKeeps ==
  ASSUME LoaderInv, NEW c \in Caller, NodeRecvFails(c)
  PROVE  LoaderInv'
<1>0. /\ lang = "node" /\ pc[c] = "recv" /\ pc' = [pc EXCEPT ![c] = "leave"]
      /\ fd /\ torn' = TRUE /\ c2s' = GiveUp(c2s, c) /\ s2c' = GiveUp(s2c, c)
      /\ UNCHANGED <<lang, locked, req, asked, loads, started, vms, pending,
                     tries, node, fd, disk, cache, front>>
  BY DEF NodeRecvFails, Goto, machine, store
<1> DEFINE r == [rc |-> 0, how |-> "noanswer", mod |-> None, cfg |-> <<>>]
<1>1. r \in Result
  BY NoResult DEF Outcome
<1>2. ZeroRight(r)' /\ FreshRes(c, r)
  BY <1>0 DEF ZeroRight, FreshRes
<1>3. res' = [res EXCEPT ![c] = r]
  BY DEF NodeRecvFails, Finished
<1> HIDE DEF r
<1>4. /\ c2s' \in Seq([to : Caller \cup {None}, req : Request])
      /\ s2c' \in Seq([to : Caller \cup {None}, res : Result])
      /\ Len(c2s') = Len(c2s)
      /\ \A i \in DOMAIN c2s' : c2s'[i].to = None
      /\ \A i \in DOMAIN s2c' :
           /\ s2c'[i].to = None
           /\ s2c'[i].res.rc = 0 => s2c'[i].res.how = "ok"
           /\ s2c'[i].res.how # "stale"
  BY <1>0, NothingForAnybody
<1>5. node # "listening" => Len(c2s) = 0
  BY DEF LoaderInv, WireInv
<1> QED
  BY <1>0, <1>1, <1>2, <1>3, <1>4, <1>5, RecvEnds

(* The Node.js thread listens.                                             *)
LEMMA NodeListenKeeps == ASSUME LoaderInv, NodeListen PROVE LoaderInv'
<1>0. /\ node = "booting" /\ node' = "listening"
      /\ UNCHANGED <<lang, locked, pc, req, asked, res, loads, started, vms, pending,
                     tries, fd, c2s, s2c, torn, disk, cache, front>>
  BY DEF NodeListen, args, machine, store
<1>1. LoaderTypeOK'
  BY <1>0 DEF LoaderInv, LoaderTypeOK
<1>2. LockInv'
  BY <1>0 DEF LoaderInv, LockInv
<1>3. WireInv'
  BY <1>0 DEF LoaderInv, WireInv, OwnReply
<1>4. ResultInv'
  BY <1>0 DEF LoaderInv, ResultInv, ZeroRight
<1>5. FreshInv'
  BY <1>0 DEF LoaderInv, FreshInv, FreshRes, Place
<1> QED
  BY <1>1, <1>2, <1>3, <1>4, <1>5 DEF LoaderInv

(* The Node.js thread ends.                                                *)
LEMMA NodeExitKeeps == ASSUME LoaderInv, NodeExit PROVE LoaderInv'
<1>0. /\ node \in {"booting", "listening"} /\ node' = "dead" /\ c2s' = <<>>
      /\ UNCHANGED <<lang, locked, pc, req, asked, res, loads, started, vms, pending,
                     tries, fd, s2c, torn, disk, cache, front>>
  BY DEF NodeExit, args, machine, store
<1>a. /\ c2s' \in Seq([to : Caller \cup {None}, req : Request])
      /\ Len(c2s') = 0 /\ DOMAIN c2s' = {}
  BY <1>0
<1>b. Len(c2s) \in Nat /\ Len(s2c) \in Nat
  BY Packets DEF LoaderInv
<1>1. LoaderTypeOK'
  BY <1>0, <1>a DEF LoaderInv, LoaderTypeOK
<1>2. LockInv'
  BY <1>0 DEF LoaderInv, LockInv
<1>3. WireInv'
  BY <1>0, <1>a, <1>b DEF LoaderInv, WireInv, OwnReply
<1>4. ResultInv'
  BY <1>0 DEF LoaderInv, ResultInv, ZeroRight
<1>5. FreshInv'
  BY <1>0 DEF LoaderInv, FreshInv, FreshRes, Place
<1> QED
  BY <1>1, <1>2, <1>3, <1>4, <1>5 DEF LoaderInv

(* The request that the script takes is the first one, and it is answered  *)
(* to its caller if it is the only one; until a recv has failed it is.     *)
LEMMA FirstRequest ==
  ASSUME LoaderInv, c2s # <<>>,
         NEW to, to = IF Len(c2s) > 1 THEN None ELSE c2s[1].to
  PROVE  /\ c2s[1].req \in Request /\ to \in Caller \cup {None}
         /\ to # None => to \in Caller /\ pc[to] = "recv" /\ req[to] = c2s[1].req
         /\ ~torn => to # None /\ Len(s2c) = 0
         /\ lang = "node" /\ started /\ fd
<1>0. LoaderTypeOK
  BY DEF LoaderInv
<1>1. Len(c2s) # 0 /\ Len(c2s) \in Nat /\ Len(s2c) \in Nat
  BY <1>0, EmptyLen, Packets DEF LoaderTypeOK
<1>2. 1 \in DOMAIN c2s /\ c2s[1].to \in Caller \cup {None} /\ c2s[1].req \in Request
  BY <1>0, <1>1, Packets
<1>3. to # None => to = c2s[1].to /\ pc[to] = "recv" /\ req[to] = c2s[1].req
  BY <1>2 DEF LoaderInv, WireInv, OwnReply
<1>4. ASSUME ~torn PROVE to # None /\ Len(s2c) = 0
  <2>1. Len(c2s) + Len(s2c) <= 1 /\ c2s[1].to # None
    BY <1>2, <1>4 DEF LoaderInv, WireInv, OwnReply
  <2>2. Len(c2s) = 1 /\ Len(s2c) = 0
    BY <1>1, <2>1, OnlyOne
  <2> QED
    BY <2>1, <2>2
<1>5. lang = "node" /\ started /\ fd
  BY <1>1 DEF LoaderInv, WireInv, LoaderTypeOK
<1> QED
  BY <1>2, <1>3, <1>4, <1>5

(* The script serves a request.                                            *)
LEMMA NodeServeKeeps == ASSUME LoaderInv, NodeServe PROVE LoaderInv'
<1> DEFINE Answers == [to : Caller \cup {None}, res : Result]
           q == c2s[1].req
           joined == Len(c2s) > 1
           to == IF joined THEN None ELSE c2s[1].to
           d == Place(q)
           kept == NodeUncache(q)
           held == {m \in kept : m.dir = d}
<1>0. /\ node = "listening" /\ c2s # <<>> /\ c2s' = <<>>
      /\ UNCHANGED <<lang, locked, pc, req, asked, res, loads, started, vms, pending,
                     tries, node, fd, torn, disk, front>>
  BY DEF NodeServe, args, machine
<1>a. /\ \/ Reply(to, 1, "fail", None, <<>>) /\ cache' \in {cache, kept}
         \/ /\ cache' = IF held = {} THEN kept \cup {OnDisk(d)} ELSE kept
            /\ \/ Reply(to, 1, "fail", None, <<>>)
               \/ \E m \in cache', how \in {"ok", "fail"} :
                    m.dir = d /\ Reply(to, IF how = "ok" THEN 0 ELSE 1, how, m, <<>>)
  BY DEF NodeServe
<1>b. /\ q \in Request /\ to \in Caller \cup {None}
      /\ to # None => to \in Caller /\ pc[to] = "recv" /\ req[to] = q
      /\ ~torn => to # None /\ Len(s2c) = 0
      /\ lang = "node" /\ started /\ fd
  BY <1>0, FirstRequest
<1> HIDE DEF q, to
<1>c. d \in Dir
  BY <1>b, PlaceType DEF LoaderInv
<1>d. kept \subseteq Module /\ kept \subseteq cache
  BY DEF NodeUncache, Cached, LoaderInv, LoaderTypeOK
<1>e. /\ OnDisk(d) \in Module /\ OnDisk(d).dir = d /\ OnDisk(d).ver = disk[d].ver
      /\ disk[d].ver \in Nat
  BY <1>c, OnDiskType DEF LoaderInv
<1>f. to # None => asked[to] \in Nat /\ asked[to] <= disk[d].ver
  BY <1>b, AskedOld DEF Section, Decided
<1>g. /\ cache' \subseteq Module
      /\ \E r \in Result : /\ s2c' = Append(s2c, [to |-> to, res |-> r])
                           /\ (r.rc = 0 => r.how = "ok") /\ r.how # "stale"
                           /\ to # None => FreshRes(to, r)
  <2>1. /\ cache' \subseteq Module
    <3>1. cache \subseteq Module
      BY DEF LoaderInv, LoaderTypeOK
    <3> QED
      BY <1>a, <1>d, <1>e, <3>1
  <2>2. CASE Reply(to, 1, "fail", None, <<>>)
    <3> DEFINE r == [rc |-> 1, how |-> "fail", mod |-> None, cfg |-> <<>>]
    <3>1. r \in Result
      BY NoResult DEF Outcome
    <3>2. FreshRes(to, r) /\ (r.rc = 0 => r.how = "ok") /\ r.how # "stale"
      BY DEF FreshRes
    <3>3. s2c' = Append(s2c, [to |-> to, res |-> r])
      BY <2>2 DEF Reply
    <3> HIDE DEF r
    <3> QED
      BY <2>1, <3>1, <3>2, <3>3
  <2>3. ASSUME cache' = IF held = {} THEN kept \cup {OnDisk(d)} ELSE kept,
               NEW m \in cache', NEW how \in {"ok", "fail"}, m.dir = d,
               Reply(to, IF how = "ok" THEN 0 ELSE 1, how, m, <<>>)
        PROVE  \E r \in Result : /\ s2c' = Append(s2c, [to |-> to, res |-> r])
                                 /\ (r.rc = 0 => r.how = "ok") /\ r.how # "stale"
                                 /\ to # None => FreshRes(to, r)
    <3> DEFINE rc == IF how = "ok" THEN 0 ELSE 1
               r == [rc |-> rc, how |-> how, mod |-> m, cfg |-> <<>>]
    <3>1. r \in Result
      BY <2>1, <1>b, MadeResult, GivenCfg DEF Outcome
    <3>2. q.dyn /\ to # None => m.ver >= asked[to]
      <4>1. CASE q.dyn /\ to # None
        <5>1. held = {}
          BY <4>1 DEF NodeUncache, Cached
        <5>2. m = OnDisk(d)
          BY <2>3, <5>1
        <5> QED
          BY <1>e, <1>f, <4>1, <5>2
      <4> QED
        BY <4>1
    <3>3. to # None => FreshRes(to, r)
      BY <1>b, <2>3, <3>2 DEF FreshRes, Place
    <3>4. s2c' = Append(s2c, [to |-> to, res |-> r])
      BY <2>3 DEF Reply
    <3>5. (r.rc = 0 => r.how = "ok") /\ r.how # "stale"
      OBVIOUS
    <3> HIDE DEF r
    <3> QED
      BY <3>1, <3>3, <3>4, <3>5
  <2> QED
    BY <1>a, <2>1, <2>2, <2>3
<1>h. PICK r \in Result : /\ s2c' = Append(s2c, [to |-> to, res |-> r])
                          /\ (r.rc = 0 => r.how = "ok") /\ r.how # "stale"
                          /\ to # None => FreshRes(to, r)
  BY <1>g
<1>i. /\ s2c' \in Seq(Answers) /\ Len(s2c') = Len(s2c) + 1
      /\ \A i \in DOMAIN s2c' : \/ i \in DOMAIN s2c /\ s2c'[i] = s2c[i]
                                \/ s2c'[i].to = to /\ s2c'[i].res = r
  <2> DEFINE e == [to |-> to, res |-> r]
  <2>1. e \in Answers /\ e.to = to /\ e.res = r
    BY <1>b
  <2>2. s2c \in Seq(Answers)
    BY DEF LoaderInv, LoaderTypeOK
  <2> HIDE DEF e, Answers
  <2>3. s2c' = Append(s2c, e)
    BY <1>h DEF e
  <2> QED
    BY <2>1, <2>2, <2>3, AddLast
<1>j. /\ c2s' \in Seq([to : Caller \cup {None}, req : Request])
      /\ Len(c2s') = 0 /\ DOMAIN c2s' = {}
  BY <1>0
<1>1. LoaderTypeOK'
  BY <1>0, <1>g, <1>i, <1>j DEF LoaderInv, LoaderTypeOK
<1>2. LockInv'
  BY <1>0 DEF LoaderInv, LockInv
<1>3. WireInv'
  <2>1. OwnReply'
    BY <1>0, <1>b, <1>i, <1>j DEF LoaderInv, WireInv, OwnReply
  <2> QED
    BY <1>0, <1>b, <1>i, <1>j, <2>1 DEF LoaderInv, WireInv
<1>4. ResultInv'
  BY <1>0, <1>h, <1>i DEF LoaderInv, ResultInv, ZeroRight
<1>5. FreshInv'
  BY <1>0, <1>h, <1>i DEF LoaderInv, FreshInv, FreshRes, Place
<1> QED
  BY <1>1, <1>2, <1>3, <1>4, <1>5 DEF LoaderInv

-----------------------------------------------------------------------------
(* The invariant and what follows from it.                                 *)

(* The invariant holds initially.                                          *)
LEMMA LoaderInitInv == Init => LoaderInv
<1> SUFFICES ASSUME Init PROVE LoaderInv
  OBVIOUS
<1>1. Len(c2s) = 0 /\ Len(s2c) = 0 /\ DOMAIN c2s = {} /\ DOMAIN s2c = {}
  BY DEF Init
<1>2. LoaderTypeOK
  <2>1. /\ c2s \in Seq([to : Caller \cup {None}, req : Request])
        /\ s2c \in Seq([to : Caller \cup {None}, res : Result])
    BY DEF Init
  <2>2. 1 \in 1 .. MaxVersion /\ 0 \in 0 .. MaxTries
    BY BoundAssumption
  <2> QED
    BY <2>1, <2>2, DirAssumption DEF Init, LoaderTypeOK, PC, Section, Decided
<1>3. LockInv
  BY DEF Init, LockInv, Section
<1>4. WireInv
  BY <1>1 DEF Init, WireInv, OwnReply, Decided
<1>5. ResultInv /\ FreshInv
  BY <1>1 DEF Init, ResultInv, FreshInv, Section, Decided
<1> QED
  BY <1>2, <1>3, <1>4, <1>5 DEF LoaderInv

(* Every step keeps the invariant.                                         *)
LEMMA LoaderInvStep == LoaderInv /\ [Next]_vars => LoaderInv'
<1> SUFFICES ASSUME LoaderInv, [Next]_vars PROVE LoaderInv'
  OBVIOUS
<1>1. CASE UNCHANGED vars
  BY <1>1 DEF vars, args, machine, wire, store, LoaderInv, LoaderTypeOK, LockInv,
     WireInv, OwnReply, ResultInv, ZeroRight, FreshInv, FreshRes, Place
<1>2. CASE Next
  BY <1>2, CallKeeps, LockKeeps, TestKeeps, UnlockKeeps, UnlockAgainKeeps,
     ReturnKeeps, EditKeeps, JavaCreateKeeps, JavaMissingKeeps, JavaStaticKeeps,
     JavaDynamicKeeps, PyCreateKeeps, PyRunKeeps, PyFiniKeeps, NodeCreateKeeps,
     NodeConnectKeeps, NodeSendKeeps, NodeRecvKeeps, NodeRecvFailsKeeps, NodeListenKeeps,
     NodeExitKeeps, NodeServeKeeps
  DEF Next, Step
<1> QED
  BY <1>1, <1>2

(* The inductive invariant of libffi_init holds.                           *)
THEOREM LoaderInvariant == Spec => []LoaderInv
BY LoaderInitInv, LoaderInvStep, PTL DEF Spec

(* The variables have their types, and a finished call has a result.       *)
THEOREM LoaderTypeCorrect == Spec => []LoaderTypeOK
<1>1. LoaderInv => LoaderTypeOK
  BY DEF LoaderInv
<1> QED
  BY <1>1, LoaderInvariant, PTL

(* Two threads are in libffi_init only when the Java VM runs, although the *)
(* Java loader unlocks twice.                                              *)
THEOREM InitExclusive == Spec => []ExclusiveInit
<1>1. LoaderInv => ExclusiveInit
  BY DEF LoaderInv, LockInv, ExclusiveInit, Inside
<1> QED
  BY <1>1, LoaderInvariant, PTL

(* No second VM is created.                                                *)
THEOREM SingleMachine == Spec => []OneMachine
<1>1. LoaderInv => OneMachine
  BY DEF LoaderInv, LockInv, OneMachine
<1> QED
  BY <1>1, LoaderInvariant, PTL

(* Until a recv fails on a connection that is up, a caller of the Node.js  *)
(* loader reads the reply to its own request and nothing else, however the *)
(* calls, the exits of the thread and its replies are interleaved.         *)
THEOREM RepliesOwned == Spec => []OwnReply
<1>1. LoaderInv => OwnReply
  BY DEF LoaderInv, WireInv
<1> QED
  BY <1>1, LoaderInvariant, PTL

(* A reload runs the file on disk.                                         *)
THEOREM ReloadsFresh == Spec => []FreshModule
<1>1. LoaderInv => FreshModule
  BY DEF LoaderInv, FreshInv, FreshRes, FreshModule, Decided
<1> QED
  BY <1>1, LoaderInvariant, PTL

(* A result of 0 means what load_ffi takes it for, but for the Java        *)
(* exception, the Node.js thread that is gone, and a recv that failed.     *)
THEOREM ZeroIsRight == Spec => []ZeroMeansRan
<1>1. LoaderInv => ZeroMeansRan
  BY DEF LoaderInv, ResultInv, ZeroRight, ZeroMeansRan, Decided
<1> QED
  BY <1>1, LoaderInvariant, PTL

-----------------------------------------------------------------------------
(* The configuration.                                                      *)

(* What the entry function is given of the configuration in a request: all *)
(* of it by the Python loader and for a Java class that is not reloaded,   *)
(* the first field by Loader.init of the Java loader, nothing by the       *)
(* script of the Node.js loader.                                           *)
PassedOn(r) ==
  IF lang = "node" THEN <<>>
  ELSE IF lang = "java" /\ r.dyn /\ r.cfg # <<>> THEN <<Head(r.cfg)>>
  ELSE r.cfg

CfgRes(c, r) ==
  r.mod # None =>
    r.cfg = PassedOn(req[c]) /\ (lang = "node" => Len(req[c].cfg) # 1)

ConfigInv ==
  /\ \A c \in Caller : pc[c] \in Decided => CfgRes(c, res[c])
  /\ \A i \in DOMAIN s2c : s2c[i].to # None => CfgRes(s2c[i].to, s2c[i].res)

(* A step that neither decides a call nor answers one.                     *)
LEMMA CfgKept ==
  ASSUME ConfigInv, UNCHANGED <<lang, s2c>>,
         \A c \in Caller : pc'[c] \in Decided =>
           pc[c] \in Decided /\ res'[c] = res[c] /\ req'[c] = req[c],
         \A i \in DOMAIN s2c : s2c[i].to # None => req'[s2c[i].to] = req[s2c[i].to]
  PROVE  ConfigInv'
BY DEF ConfigInv, CfgRes, PassedOn

(* A step that decides a call.                                             *)
LEMMA CfgDecided ==
  ASSUME ConfigInv, LoaderTypeOK, NEW c \in Caller, NEW l, NEW r,
         pc' = [pc EXCEPT ![c] = l], res' = [res EXCEPT ![c] = r],
         CfgRes(c, r), UNCHANGED <<lang, req>>,
         \A i \in DOMAIN s2c' :
           s2c'[i].to # None => i \in DOMAIN s2c /\ s2c'[i] = s2c[i]
  PROVE  ConfigInv'
<1>1. \A d \in Caller : d # c => pc'[d] = pc[d] /\ res'[d] = res[d]
  BY DEF LoaderTypeOK
<1>2. res'[c] = r
  BY DEF LoaderTypeOK
<1>3. \A d \in Caller : pc'[d] \in Decided => CfgRes(d, res'[d])
  BY <1>1, <1>2 DEF ConfigInv
<1>4. \A i \in DOMAIN s2c' : s2c'[i].to # None => CfgRes(s2c'[i].to, s2c'[i].res)
  BY DEF ConfigInv
<1> QED
  BY <1>3, <1>4 DEF ConfigInv, CfgRes, PassedOn

(* Taking the lock and returning change the request of a call that has no  *)
(* result and of one whose result was looked at.                           *)
LEMMA CfgRequest ==
  ASSUME LoaderInv, ConfigInv, NEW c \in Caller, Lock(c) \/ Return(c)
  PROVE  ConfigInv'
<1>1. /\ pc[c] \in {"enter", "back"} /\ UNCHANGED <<lang, s2c>>
      /\ pc'[c] \in {"test", "out"}
      /\ \A d \in Caller : d # c =>
           pc'[d] = pc[d] /\ res'[d] = res[d] /\ req'[d] = req[d]
  BY DEF Lock, Return, Goto, wire, LoaderInv, LoaderTypeOK
<1>2. \A i \in DOMAIN s2c : s2c[i].to # None => s2c[i].to \in Caller /\ s2c[i].to # c
  BY <1>1, Packets DEF LoaderInv, WireInv, OwnReply
<1> QED
  BY <1>1, <1>2, CfgKept DEF Decided

(* No configuration is wrong where no module was found.                    *)
LEMMA CfgNone ==
  ASSUME LoaderInv, ConfigInv, NEW c \in Caller, NEW l, NEW rc, NEW how,
         Goto(c, l), Finished(c, rc, how, None, <<>>), UNCHANGED <<lang, req>>,
         \A i \in DOMAIN s2c' :
           s2c'[i].to # None => i \in DOMAIN s2c /\ s2c'[i] = s2c[i]
  PROVE  ConfigInv'
<1> DEFINE r == [rc |-> rc, how |-> how, mod |-> None, cfg |-> <<>>]
<1>1. CfgRes(c, r)
  BY DEF CfgRes
<1>2. res' = [res EXCEPT ![c] = r] /\ pc' = [pc EXCEPT ![c] = l]
  BY DEF Finished, Goto
<1> HIDE DEF r
<1> QED
  BY <1>1, <1>2, CfgDecided DEF LoaderInv

(* The entry function ran, in the thread of the caller, with what is       *)
(* passed on.                                                              *)
LEMMA CfgRan ==
  ASSUME LoaderInv, ConfigInv, NEW c \in Caller, NEW l, NEW rc, NEW how, NEW mod,
         NEW cfg, cfg = PassedOn(req[c]), lang # "node",
         Goto(c, l), Finished(c, rc, how, mod, cfg), UNCHANGED <<lang, req, s2c>>
  PROVE  ConfigInv'
<1> DEFINE r == [rc |-> rc, how |-> how, mod |-> mod, cfg |-> cfg]
<1>1. CfgRes(c, r)
  BY DEF CfgRes
<1>2. res' = [res EXCEPT ![c] = r] /\ pc' = [pc EXCEPT ![c] = l]
  BY DEF Finished, Goto
<1> HIDE DEF r
<1> QED
  BY <1>1, <1>2, CfgDecided DEF LoaderInv

(* The Java loader.                                                        *)
LEMMA CfgJava ==
  ASSUME LoaderInv, ConfigInv, NEW c \in Caller,
         JavaCreate(c) \/ JavaMissing(c) \/ JavaStatic(c) \/ JavaDynamic(c)
  PROVE  ConfigInv'
<1>1. lang = "java" /\ UNCHANGED <<lang, req, s2c>>
  BY DEF JavaCreate, JavaMissing, JavaStatic, JavaDynamic, JavaEnd, wire
<1>2. CASE JavaCreate(c)
  <2>1. CASE Goto(c, "run") /\ UNCHANGED res
    <3>1. \A d \in Caller : pc'[d] \in Decided => pc[d] \in Decided
      BY <2>1 DEF Goto, LoaderInv, LoaderTypeOK, Decided
    <3> QED
      BY <1>1, <2>1, <3>1, CfgKept
  <2>2. CASE Goto(c, "leave") /\ Finished(c, 1, "fail", None, <<>>)
    BY <1>1, <2>2, CfgNone
  <2> QED
    BY <1>2, <2>1, <2>2 DEF JavaCreate
<1>3. CASE JavaMissing(c)
  BY <1>1, <1>3, CfgNone DEF JavaMissing
<1>4. CASE JavaStatic(c)
  <2>1. req[c].cfg = PassedOn(req[c]) /\ Goto(c, "leave2")
    BY <1>1, <1>4 DEF JavaStatic, JavaEnd, PassedOn
  <2>2. PICK m \in cache', rc \in {0, 1}, how \in {"ok", "fail", "raise"} :
          Finished(c, rc, how, m, req[c].cfg)
    BY <1>4 DEF JavaStatic
  <2> QED
    BY <1>1, <2>1, <2>2, CfgRan
<1>5. CASE JavaDynamic(c)
  <2> DEFINE d == Place(req[c])
             first == IF req[c].cfg = <<>> THEN <<>> ELSE <<Head(req[c].cfg)>>
  <2>1. first = PassedOn(req[c]) /\ Goto(c, "leave2")
    BY <1>1, <1>5 DEF JavaDynamic, JavaEnd, PassedOn
  <2>2. CASE disk[d].good
    <3>1. PICK how \in {"ok", "fail"} :
            Finished(c, IF how = "ok" THEN 0 ELSE 1, how, OnDisk(d), first)
      BY <1>5, <2>2 DEF JavaDynamic
    <3> HIDE DEF first
    <3> QED
      BY <1>1, <2>1, <3>1, CfgRan
  <2>3. CASE ~disk[d].good
    <3>1. PICK rc \in {0, 1}, how \in {"fail", "raise"} :
            Finished(c, rc, how, None, <<>>)
      BY <1>5, <2>3 DEF JavaDynamic
    <3> QED
      BY <1>1, <2>1, <3>1, CfgNone
  <2> QED
    BY <2>2, <2>3
<1> QED
  BY <1>2, <1>3, <1>4, <1>5

(* The Python loader.                                                      *)
LEMMA CfgPython ==
  ASSUME LoaderInv, ConfigInv, NEW c \in Caller, PyRun(c)
  PROVE  ConfigInv'
<1>1. lang = "python" /\ Goto(c, "leave") /\ UNCHANGED <<lang, req, s2c>>
  BY DEF PyRun, wire
<1>2. CASE Finished(c, 1, "fail", None, <<>>)
  BY <1>1, <1>2, CfgNone
<1>3. ASSUME NEW mod \in Module, NEW how \in {"ok", "fail"},
             Finished(c, IF how = "ok" THEN 0 ELSE 1, how, mod, req[c].cfg)
      PROVE  ConfigInv'
  <2>1. req[c].cfg = PassedOn(req[c])
    BY <1>1 DEF PassedOn
  <2> QED
    BY <1>1, <1>3, <2>1, CfgRan
<1> QED
  BY <1>2, <1>3 DEF PyRun

(* The Node.js loader: the caller reads the reply that was made for it, or *)
(* something that has no module.                                           *)
LEMMA CfgRecv ==
  ASSUME LoaderInv, ConfigInv, NEW c \in Caller, NodeRecv(c) \/ NodeRecvFails(c)
  PROVE  ConfigInv'
<1>1. lang = "node" /\ pc[c] = "recv" /\ Goto(c, "leave") /\ UNCHANGED <<lang, req>>
  BY DEF NodeRecv, NodeRecvFails
<1>2. \A i \in DOMAIN s2c' : s2c'[i].to # None => i \in DOMAIN s2c /\ s2c'[i] = s2c[i]
  <2>1. CASE s2c' = GiveUp(s2c, c)
    BY <1>1, <2>1, NothingForAnybody
  <2>2. CASE s2c' \in {<<>>, s2c}
    BY <2>2
  <2> QED
    BY <2>1, <2>2 DEF NodeRecv, NodeRecvFails
<1>3. CASE s2c # <<>> /\ s2c[1].to = c /\ res' = [res EXCEPT ![c] = s2c[1].res]
  <2>1. 1 \in DOMAIN s2c
    BY <1>1, <1>3, OwnFound
  <2>2. CfgRes(c, s2c[1].res)
    BY <1>3, <2>1, CallerAssumption DEF ConfigInv
  <2> QED
    BY <1>1, <1>2, <1>3, <2>2, CfgDecided DEF Goto, LoaderInv
<1>4. CASE \E rc, how : Finished(c, rc, how, None, <<>>)
  BY <1>1, <1>2, <1>4, CfgNone
<1> QED
  BY <1>3, <1>4 DEF NodeRecv, NodeRecvFails

(* The script of the Node.js loader passes nothing on, and does not get to *)
(* the entry function when there is one field.                             *)
LEMMA CfgServe ==
  ASSUME LoaderInv, ConfigInv, NodeServe
  PROVE  ConfigInv'
<1> DEFINE q == c2s[1].req
           to == IF Len(c2s) > 1 THEN None ELSE c2s[1].to
<1>0. /\ c2s # <<>> /\ UNCHANGED <<lang, pc, req, res>>
  BY DEF NodeServe, args
<1>1. lang = "node" /\ (to # None => req[to] = q)
  BY <1>0, FirstRequest
<1>2. PICK rc, how, mod :
        /\ Reply(to, rc, how, mod, <<>>)
        /\ mod # None /\ to # None => Len(q.cfg) # 1
  <2>1. CASE Reply(to, 1, "fail", None, <<>>)
    BY <2>1
  <2>2. ASSUME ~(Len(q.cfg) = 1 /\ ~(Len(c2s) > 1)), NEW m, NEW how \in {"ok", "fail"},
               Reply(to, IF how = "ok" THEN 0 ELSE 1, how, m, <<>>)
        PROVE  \E rc, h, mod : /\ Reply(to, rc, h, mod, <<>>)
                               /\ mod # None /\ to # None => Len(q.cfg) # 1
    <3>1. to # None => Len(q.cfg) # 1
      BY <2>2
    <3> QED
      BY <2>2, <3>1
  <2> QED
    BY <2>1, <2>2 DEF NodeServe
<1> HIDE DEF q, to
<1> DEFINE r == [rc |-> rc, how |-> how, mod |-> mod, cfg |-> <<>>]
           e == [to |-> to, res |-> r]
<1>3. to # None => CfgRes(to, r)
  BY <1>1, <1>2 DEF CfgRes, PassedOn
<1>4. e.to = to /\ e.res = r /\ s2c' = Append(s2c, e)
  BY <1>2 DEF Reply
<1> HIDE DEF e, r
<1>5. \A i \in DOMAIN s2c' : s2c'[i] = e \/ (i \in DOMAIN s2c /\ s2c'[i] = s2c[i])
  <2>1. PICK S : s2c \in Seq(S)
    BY DEF LoaderInv, LoaderTypeOK
  <2>2. s2c \in Seq(S \cup {e}) /\ e \in S \cup {e}
    BY <2>1
  <2> QED
    BY <1>4, <2>2, AddLast
<1>6. \A i \in DOMAIN s2c' : s2c'[i].to # None => CfgRes(s2c'[i].to, s2c'[i].res)
  BY <1>3, <1>4, <1>5 DEF ConfigInv
<1> QED
  BY <1>0, <1>6 DEF ConfigInv, CfgRes, PassedOn

(* The steps that move a call without deciding it, and those of a call     *)
(* that is decided.                                                        *)
LEMMA CfgMoved ==
  ASSUME LoaderInv, ConfigInv, NEW c \in Caller,
         \/ Call(c) \/ Test(c) \/ Unlock(c) \/ UnlockAgain(c) \/ PyCreate(c)
         \/ NodeCreate(c) \/ NodeConnect(c) \/ NodeSend(c)
  PROVE  ConfigInv'
<1>1. UNCHANGED <<lang, s2c, req, res>>
  BY DEF Call, Test, Unlock, UnlockAgain, PyCreate, NodeCreate, NodeConnect,
     NodeSend, args, wire
<1>2. \/ UNCHANGED pc
      \/ Goto(c, "enter") \/ Goto(c, "create") \/ Goto(c, "send") \/ Goto(c, "run")
      \/ Goto(c, "connect") \/ Goto(c, "recv")
      \/ pc[c] \in Decided /\ (Goto(c, "back") \/ Goto(c, "again"))
  <2>1. CASE Call(c)
    BY <2>1 DEF Call
  <2>2. CASE Test(c)
    BY <2>2 DEF Test
  <2>3. CASE Unlock(c) \/ UnlockAgain(c)
    BY <2>3 DEF Unlock, UnlockAgain, Decided
  <2>4. CASE PyCreate(c) \/ NodeCreate(c)
    BY <2>4 DEF PyCreate, NodeCreate
  <2>5. CASE NodeConnect(c) \/ NodeSend(c)
    BY <2>5 DEF NodeConnect, NodeSend
  <2> QED
    BY <2>1, <2>2, <2>3, <2>4, <2>5
<1>3. \A d \in Caller : pc'[d] \in Decided => pc[d] \in Decided
  BY <1>2 DEF Goto, LoaderInv, LoaderTypeOK, Decided
<1> QED
  BY <1>1, <1>3, CfgKept

(* Every step keeps what is said about the configuration.                  *)
LEMMA ConfigStep == LoaderInv /\ ConfigInv /\ [Next]_vars => ConfigInv'
<1> SUFFICES ASSUME LoaderInv, ConfigInv, [Next]_vars PROVE ConfigInv'
  OBVIOUS
<1>1. CASE UNCHANGED vars
  BY <1>1, CfgKept DEF vars, args, wire
<1>2. ASSUME NEW c \in Caller, Call(c) \/ Step(c) \/ NodeRecvFails(c) \/ Return(c)
      PROVE  ConfigInv'
  BY <1>2, CfgMoved, CfgRequest, CfgJava, CfgPython, CfgRecv DEF Step
<1>3. CASE \E d \in Dir : Edit(d)
  BY <1>3, CfgKept DEF Edit, args, wire
<1>4. CASE PyFini \/ NodeListen \/ NodeExit
  BY <1>4, CfgKept DEF PyFini, NodeListen, NodeExit, args, wire
<1>5. CASE NodeServe
  BY <1>5, CfgServe
<1> QED
  BY <1>1, <1>2, <1>3, <1>4, <1>5 DEF Next

(* What every entry function is given that libffi_init ran is known: the   *)
(* whole configuration in Python and for a Java class that is not          *)
(* reloaded, its first field for one that is, nothing in Node.js, where a  *)
(* call with one field does not get to the entry function.                 *)
THEOREM ConfigKnown ==
  Spec => [](\A c \in Caller : pc[c] = "back" => CfgRes(c, res[c]))
<1>1. Init => ConfigInv
  BY DEF Init, ConfigInv, Decided
<1>2. ConfigInv => \A c \in Caller : pc[c] = "back" => CfgRes(c, res[c])
  BY DEF ConfigInv, Decided
<1> QED
  BY <1>1, <1>2, ConfigStep, LoaderInvariant, PTL DEF Spec

(* The requests whose configuration survives the way to the entry function.*)
Survives(r) ==
  \/ lang = "python"
  \/ lang = "java" /\ (~r.dyn \/ r.cfg = <<>> \/ r.cfg = <<Head(r.cfg)>>)
  \/ lang = "node" /\ r.cfg = <<>>

(* ConfigDelivered, call by call: an entry function that ran was given the *)
(* configuration of the request exactly when the request is one of those.  *)
THEOREM ConfigArrives ==
  Spec => [](\A c \in Caller : pc[c] = "back" /\ res[c].mod # None =>
               (res[c].cfg = req[c].cfg <=> Survives(req[c])))
<1>1. LoaderInv /\ (\A c \in Caller : pc[c] = "back" => CfgRes(c, res[c])) =>
        \A c \in Caller : pc[c] = "back" /\ res[c].mod # None =>
          (res[c].cfg = req[c].cfg <=> Survives(req[c]))
  <2> SUFFICES ASSUME LoaderInv, NEW c \in Caller, CfgRes(c, res[c]),
                      res[c].mod # None
               PROVE  res[c].cfg = req[c].cfg <=> Survives(req[c])
    OBVIOUS
  <2>1. lang \in {"java", "python", "node"}
    BY LangAssumption DEF LoaderInv, LoaderTypeOK
  <2> QED
    BY <2>1 DEF CfgRes, PassedOn, Survives
<1> QED
  BY <1>1, ConfigKnown, LoaderInvariant, PTL

(* Python passes the configuration on as it is.                            *)
THEOREM ConfigIntact ==
  ASSUME Lang = {"python"}
  PROVE  Spec => []ConfigDelivered
<1>1. LoaderInv /\ (\A c \in Caller : pc[c] = "back" => CfgRes(c, res[c])) =>
        ConfigDelivered
  BY DEF LoaderInv, LoaderTypeOK, CfgRes, PassedOn, ConfigDelivered
<1> QED
  BY <1>1, ConfigKnown, LoaderInvariant, PTL

-----------------------------------------------------------------------------
(* Waiting.  That every call returns needs fairness and is left to TLC.    *)
(* What it needs besides is proved here: no call waits for something that  *)
(* nobody will do, and no call goes round in circles.                      *)

(* Whoever unlocks leaves the section, so a lock that is held has somebody *)
(* to release it; and a caller in recv has a packet in the socket, or will *)
(* find it closed.                                                         *)
WaitInv ==
  /\ locked => \E c \in Caller : pc[c] \in Section
  /\ fd => node \in {"listening", "dead"}
  /\ \A c \in Caller : pc[c] = "recv" =>
       ~fd \/ node = "dead" \/ Len(s2c) # 0 \/ Len(c2s) # 0

(* A step within the section that neither touches the socket nor ends with *)
(* a caller in recv.                                                       *)
LEMMA WaitInside ==
  ASSUME LoaderInv, WaitInv, NEW c \in Caller, NEW l \in Section \ {"recv"},
         Goto(c, l), UNCHANGED <<node, fd, c2s, s2c>>
  PROVE  WaitInv'
<1>1. pc'[c] \in Section /\ \A d \in Caller : pc'[d] = "recv" => pc[d] = "recv"
  BY DEF Goto, LoaderInv, LoaderTypeOK
<1> QED
  BY <1>1 DEF WaitInv

(* Every step keeps it.                                                    *)
LEMMA WaitStep == LoaderInv /\ WaitInv /\ [Next]_vars => WaitInv'
<1> SUFFICES ASSUME LoaderInv, WaitInv, [Next]_vars PROVE WaitInv'
  OBVIOUS
<1>0. pc \in [Caller -> PC] /\ Len(c2s) \in Nat /\ Len(s2c) \in Nat
  BY Packets DEF LoaderInv, LoaderTypeOK
<1>1. ASSUME UNCHANGED <<locked, pc, node, fd, c2s, s2c>> PROVE WaitInv'
  BY <1>1 DEF WaitInv
<1>2. ASSUME NEW c \in Caller, Call(c) \/ Return(c) PROVE WaitInv'
  <2>1. /\ UNCHANGED <<locked, node, fd, c2s, s2c>>
        /\ pc[c] \in {"out", "back"} /\ pc'[c] # "recv"
        /\ \A d \in Caller : d # c => pc'[d] = pc[d]
    BY <1>0, <1>2 DEF Call, Return, Goto, wire
  <2> QED
    BY <2>1 DEF WaitInv, Section
<1>3. ASSUME NEW c \in Caller, Unlock(c) \/ UnlockAgain(c) PROVE WaitInv'
  <2>1. /\ UNCHANGED <<node, fd, c2s, s2c>> /\ ~locked' /\ pc'[c] # "recv"
        /\ \A d \in Caller : d # c => pc'[d] = pc[d]
    BY <1>0, <1>3 DEF Unlock, UnlockAgain, Goto, wire
  <2> QED
    BY <2>1 DEF WaitInv
<1>4. ASSUME NEW c \in Caller,
             \/ Lock(c) \/ Test(c) \/ JavaCreate(c) \/ JavaMissing(c) \/ JavaStatic(c)
             \/ JavaDynamic(c) \/ PyCreate(c) \/ PyRun(c)
      PROVE  WaitInv'
  <2>1. UNCHANGED <<node, fd, c2s, s2c>>
    BY <1>4 DEF Lock, Test, JavaCreate, JavaMissing, JavaStatic, JavaDynamic, JavaEnd,
       PyCreate, PyRun, wire
  <2>2. \E l \in {"test", "create", "send", "run", "leave", "leave2"} : Goto(c, l)
    BY <1>4 DEF Lock, Test, JavaCreate, JavaMissing, JavaStatic, JavaDynamic, JavaEnd,
       PyCreate, PyRun
  <2> QED
    BY <2>1, <2>2, WaitInside DEF Section
<1>5. ASSUME NEW c \in Caller, NodeCreate(c) PROVE WaitInv'
  <2>1. /\ UNCHANGED <<fd, c2s, s2c>> /\ Goto(c, "connect") /\ pc[c] = "create"
    BY <1>5 DEF NodeCreate
  <2>2. ~fd
    BY <2>1 DEF LoaderInv, LockInv, WireInv
  <2>3. pc'[c] \in Section
    BY <1>0, <2>1 DEF Goto, Section
  <2> QED
    BY <2>1, <2>2, <2>3 DEF WaitInv
<1>6. ASSUME NEW c \in Caller, NodeConnect(c) PROVE WaitInv'
  <2>1. /\ UNCHANGED <<locked, node, c2s, s2c>> /\ pc[c] = "connect"
        /\ fd' = fd \/ (fd' /\ node = "listening")
        /\ UNCHANGED pc \/ Goto(c, "send")
    BY <1>6 DEF NodeConnect
  <2>2. \A d \in Caller : pc[d] # "recv"
    BY <1>6, <2>1 DEF LoaderInv, ResultInv, NodeConnect
  <2>3. pc'[c] \in Section /\ \A d \in Caller : pc'[d] # "recv"
    BY <1>0, <2>1, <2>2 DEF Goto, Section
  <2> QED
    BY <2>1, <2>3 DEF WaitInv
<1>7. ASSUME NEW c \in Caller, NodeSend(c) PROVE WaitInv'
  <2>1. /\ UNCHANGED <<locked, node, fd, s2c>> /\ Goto(c, "recv") /\ pc[c] = "send"
        /\ c2s' = IF fd /\ node = "listening" THEN Append(c2s, [to |-> c, req |-> req[c]])
                    ELSE c2s
        /\ lang = "node"
    BY <1>7 DEF NodeSend
  <2>2. pc'[c] \in Section /\ \A d \in Caller : d # c => pc'[d] # "recv"
    BY <1>0, <2>1 DEF Goto, Section, LoaderInv, LockInv
  <2>3. fd /\ node = "listening" => Len(c2s') # 0
    <3> DEFINE Asks == [to : Caller \cup {None}, req : Request]
               e == [to |-> c, req |-> req[c]]
    <3>1. c2s \in Seq(Asks) /\ e \in Asks
      BY <2>1 DEF LoaderInv, LoaderTypeOK, Section
    <3> HIDE DEF Asks, e
    <3>2. Len(Append(c2s, e)) = Len(c2s) + 1
      BY <3>1
    <3>3. Len(c2s) + 1 # 0
      BY <1>0
    <3> QED
      BY <2>1, <3>2, <3>3 DEF e
  <2> QED
    BY <2>1, <2>2, <2>3 DEF WaitInv
<1>8. ASSUME NEW c \in Caller, NodeRecv(c) \/ NodeRecvFails(c) PROVE WaitInv'
  <2>1. /\ UNCHANGED <<node, fd>> /\ Goto(c, "leave") /\ pc[c] = "recv" /\ lang = "node"
    BY <1>8 DEF NodeRecv, NodeRecvFails
  <2>2. pc'[c] \in Section /\ \A d \in Caller : pc'[d] # "recv"
    BY <1>0, <2>1 DEF Goto, Section, LoaderInv, LockInv
  <2> QED
    BY <2>1, <2>2 DEF WaitInv
<1>9. CASE NodeListen \/ NodeExit
  BY <1>9 DEF NodeListen, NodeExit, WaitInv
<1>10. CASE NodeServe
  <2>1. /\ UNCHANGED <<locked, pc, node, fd>>
        /\ \E e : s2c' = Append(s2c, e)
    BY <1>10 DEF NodeServe, Reply
  <2>2. Len(s2c') # 0
    <3>1. PICK e : s2c' = Append(s2c, e)
      BY <2>1
    <3>2. PICK S : s2c \in Seq(S)
      BY DEF LoaderInv, LoaderTypeOK
    <3>3. s2c \in Seq(S \cup {e})
      BY <3>2
    <3>4. Len(Append(s2c, e)) = Len(s2c) + 1
      BY <3>3
    <3>5. Len(s2c) + 1 # 0
      BY <1>0
    <3> QED
      BY <3>1, <3>4, <3>5
  <2> QED
    BY <2>1, <2>2 DEF WaitInv
<1>11. CASE PyFini \/ \E d \in Dir : Edit(d)
  BY <1>1, <1>11 DEF PyFini, Edit, wire
<1>12. CASE UNCHANGED vars
  BY <1>1, <1>12 DEF vars, wire
<1> QED
  BY <1>2, <1>3, <1>4, <1>5, <1>6, <1>7, <1>8, <1>9, <1>10, <1>11, <1>12
  DEF Next, Step

(* No caller of libffi_init is stuck: when the lock is taken somebody is   *)
(* inside to release it, although the Java loader unlocks twice; and a     *)
(* caller that waits for the reply of the Node.js thread can go on, or the *)
(* thread has its request, whatever failed before.                         *)
THEOREM NobodyStuck ==
  Spec => [](\A c \in Caller :
    /\ pc[c] = "enter" => ~locked \/ Inside # {}
    /\ pc[c] = "recv" =>
         \/ fd /\ s2c # <<>>
         \/ ~fd \/ (node = "dead" /\ s2c = <<>>)
         \/ node = "listening" /\ c2s # <<>>)
<1>1. Init => WaitInv
  BY DEF Init, WaitInv
<1>2. ASSUME LoaderInv, WaitInv, NEW c \in Caller
      PROVE  /\ pc[c] = "enter" => ~locked \/ Inside # {}
             /\ pc[c] = "recv" =>
                  \/ fd /\ s2c # <<>>
                  \/ ~fd \/ (node = "dead" /\ s2c = <<>>)
                  \/ node = "listening" /\ c2s # <<>>
  <2>1. (s2c = <<>> <=> Len(s2c) = 0) /\ (c2s = <<>> <=> Len(c2s) = 0)
    BY <1>2, EmptyLen DEF LoaderInv, LoaderTypeOK
  <2>2. node # "listening" => Len(c2s) = 0
    BY <1>2 DEF LoaderInv, WireInv
  <2> QED
    BY <1>2, <2>1, <2>2 DEF WaitInv, Inside
<1>3. LoaderInv /\ WaitInv => \A c \in Caller :
        /\ pc[c] = "enter" => ~locked \/ Inside # {}
        /\ pc[c] = "recv" =>
             \/ fd /\ s2c # <<>>
             \/ ~fd \/ (node = "dead" /\ s2c = <<>>)
             \/ node = "listening" /\ c2s # <<>>
  BY <1>2
<1> QED
  BY <1>1, <1>3, WaitStep, LoaderInvariant, PTL DEF Spec

(* The order of the places in libffi_init.                                 *)
Rank(l) ==
  CASE l = "enter" -> 1 [] l = "test" -> 2 [] l = "create" -> 3
    [] l = "connect" -> 4 [] l = "send" -> 5 [] l = "recv" -> 6
    [] l = "run" -> 7 [] l = "leave" -> 8 [] l = "leave2" -> 8
    [] l = "again" -> 9 [] l = "back" -> 10 [] l = "out" -> 11

(* Every step of a caller takes it forward in libffi_init, but for an      *)
(* attempt to connect, of which there are at most MaxTries in a call: a    *)
(* call takes at most 9 + MaxTries steps.                                  *)
THEOREM CallsAdvance ==
  Spec => [][\A c \in Caller : Step(c) \/ NodeRecvFails(c) =>
               \/ Rank(pc'[c]) > Rank(pc[c])
               \/ pc'[c] = "connect" /\ tries' = tries + 1 /\ tries' < MaxTries]_vars
<1>1. ASSUME LoaderInv, NEW c \in Caller, Step(c) \/ NodeRecvFails(c)
      PROVE  \/ Rank(pc'[c]) > Rank(pc[c])
             \/ pc'[c] = "connect" /\ tries' = tries + 1 /\ tries' < MaxTries
  <2>0. \A l : Goto(c, l) => pc'[c] = l
    BY <1>1 DEF Goto, LoaderInv, LoaderTypeOK
  <2>1. CASE Lock(c) \/ Test(c) \/ Unlock(c) \/ UnlockAgain(c)
    <3>1. \/ pc[c] = "enter" /\ pc'[c] = "test"
          \/ pc[c] = "test" /\ pc'[c] \in {"create", "send", "run"}
          \/ pc[c] \in {"leave", "leave2", "again"} /\ pc'[c] = "back"
          \/ pc[c] = "leave2" /\ pc'[c] = "again"
      BY <2>0, <2>1 DEF Lock, Test, Unlock, UnlockAgain
    <3> QED
      BY <3>1 DEF Rank
  <2>2. CASE JavaCreate(c) \/ JavaMissing(c) \/ JavaStatic(c) \/ JavaDynamic(c)
    <3>1. pc[c] \in {"create", "run"} /\ pc'[c] \in {"run", "leave", "leave2"}
          /\ (pc[c] = "run" => pc'[c] # "run")
      BY <2>0, <2>2 DEF JavaCreate, JavaMissing, JavaStatic, JavaDynamic, JavaEnd
    <3> QED
      BY <3>1 DEF Rank
  <2>3. CASE PyCreate(c) \/ PyRun(c)
    <3>1. \/ pc[c] = "create" /\ pc'[c] = "run"
          \/ pc[c] = "run" /\ pc'[c] = "leave"
      BY <2>0, <2>3 DEF PyCreate, PyRun
    <3> QED
      BY <3>1 DEF Rank
  <2>4. CASE NodeCreate(c) \/ NodeSend(c) \/ NodeRecv(c) \/ NodeRecvFails(c)
    <3>1. \/ pc[c] = "create" /\ pc'[c] = "connect"
          \/ pc[c] = "send" /\ pc'[c] = "recv"
          \/ pc[c] = "recv" /\ pc'[c] = "leave"
      BY <2>0, <2>4 DEF NodeCreate, NodeSend, NodeRecv, NodeRecvFails
    <3> QED
      BY <3>1 DEF Rank
  <2>5. CASE NodeConnect(c)
    <3>1. pc[c] = "connect" /\ tries \in Nat
      BY <1>1, <2>5, BoundAssumption DEF NodeConnect, LoaderInv, LoaderTypeOK
    <3>2. CASE pc'[c] = "send"
      BY <3>1, <3>2 DEF Rank
    <3>3. CASE pc' = pc /\ tries' = tries + 1 /\ tries + 1 < MaxTries
      BY <3>1, <3>3, BoundAssumption
    <3> QED
      BY <2>0, <2>5, <3>2, <3>3 DEF NodeConnect
  <2> QED
    BY <1>1, <2>1, <2>2, <2>3, <2>4, <2>5 DEF Step
<1>2. LoaderInv /\ [Next]_vars =>
        [\A c \in Caller : Step(c) \/ NodeRecvFails(c) =>
           \/ Rank(pc'[c]) > Rank(pc[c])
           \/ pc'[c] = "connect" /\ tries' = tries + 1 /\ tries' < MaxTries]_vars
  BY <1>1
<1> QED
  BY <1>2, LoaderInvariant, PTL DEF Spec

=============================================================================

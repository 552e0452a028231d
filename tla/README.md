# A TLA+ model of lua-resty-ffi

lua-resty-ffi lets Lua code in nginx call a *runtime* written in Go, Python,
Java, Rust or JavaScript.  A call is a message: the nginx worker posts a task
to the queue of the runtime and suspends the coroutine; a thread of the runtime
polls the task, answers it and hands it back to the event loop of nginx, which
resumes the coroutine.  This directory holds a model of that mechanism, the TLC
runs that check it and TLAPS proofs about it.

## The system

| Component | State | Operations | Source |
|---|---|---|---|
| Task queue | list, `waiting`, mutex, condition variable, `max_queue` | create, post, finish, poll, free | `ngx_http_lua_ffi.c` 143-160, 353-388, 423-539 |
| Call flow | task objects (`ffi_task_ctx_t`), `ngx_thread_pool_done`, cleanup handler of the coroutine | call, refuse, respond, inject and notify, event handler, cleanup | `ngx_http_lua_ffi.c` 110-350, 391-480; `resty_ffi.lua` 54-85 |
| Loading | table of runtimes, pinned libraries, the Lua object | `load_ffi`, `__unload`, `__index` | `resty_ffi.lua` 76-161 |
| Marshalling | none | request and response strings to and from C buffers, return values | `resty_ffi.lua` 58-64; `ngx_http_lua_ffi.c` 163-184, 299-316 |
| Build-id check | handle of `libresty_ffi.so`, pointers into nginx | scan of the ELF notes, comparison, `load_ffi` before its first load | `build-id.c`, `ngx_http_lua_ffi.c` 68-108, `resty_ffi.lua` 106-116 |
| Python, Java, Node.js loaders | `init_lock`, the VM, its modules; for Node.js a thread and a socket | `libffi_init`: start the VM, find or reload the module, call its function | `examples/*/loader.*`, `Loader.java` |
| Example runtimes | poll thread | poll, answer | `examples/*`, `examples/nodejs/resty_ffi.cc` |

**Interaction.**  Three kinds of actors share memory.  The nginx worker is one
thread; it runs Lua coroutines and the event loop.  The threads of a runtime
call `task_poll`, `get_req` and `respond`.  The two sides meet at the task
queue (mutex and condition variable), at the task objects (owned by one side at
a time, without a lock) and at `ngx_thread_pool_done` (spinlock, then an
eventfd).  lua-nginx-module calls the cleanup handler of a coroutine that is
killed, or that starts another operation that yields.  Before all that,
`load_ffi` opens the C part if nginx was not built with it and has it check the
build id of the program; then it calls `libffi_init` of the runtime's library,
which for Python, Java and Node.js is a loader that starts a VM, once for the
process, under a lock of its own.

**What is hard.**  `waiting` is decremented before the wait and goes negative.
One signal is sent per post, before the task is linked.  The queue is freed by
the thread that takes the finish task, outside the mutex.  A coroutine may die
while the runtime holds its task, and the addresses of tasks and coroutines are
used again.  Linking a completed task and notifying the event loop are two
steps.  Resuming one coroutine may kill another whose task is later in the same
list.  A post may be refused after the cleanup handler was installed.  Pthread
calls may fail on paths no test takes.  The Java loader unlocks twice; the
Node.js loader talks to its thread over a socket and goes on when that fails;
module files change while they are reloaded.  The scan of the notes compares a
signed count with an unsigned size.  `PROJECT.json` lists these as hazards,
each at its line, with the properties that would catch them.

**What makes each component correct.**  Queue: every accepted task is polled
once, in order, the list stays bounded, no wakeup is lost, unloading drains the
list and frees the queue once, with nobody in it.  Call flow: a task is in one
place at a time and freed once, by the worker, after the runtime is done; a
call returns once, with the answer to its own request, or not at all if its
coroutine dies; no completion is forgotten.  Loading: one runtime per key, no
code unmapped while a thread runs it.  Marshalling: the bytes that went in come
out.  Loaders: one VM, one initialisation at a time, a reload that is fresh, a
result that is one's own and means what it says, calls that return.  Build id:
the id that is compared is that of the program, the pointers are set for the
right build only.

## The modules

| Module | What it is |
|---|---|
| `TaskQueue` | the queue of one runtime with its pollers; the code of `ngx_task_post`, `task_finish`, `task_poll`, `free_task_queue` |
| `CallSpec` | abstract: what `runtime:call()` and `__unload()` promise to Lua code |
| `CallFlow` | extends `TaskQueue` with task objects, coroutines and the way back; implements `CallSpec` |
| `TaskLists` | extends `CallFlow` with the pointers of its lists: `first`, `last`, `next` |
| `RuntimeLife` | abstract: the life of one runtime's queue and poll thread; `TaskQueue` and `LoadFfi` implement it |
| `LoadFfi` | `ngx.load_ffi()` and `unload()`: cache, pins, library handles, garbage collection, the life of the poll thread |
| `Loader` | `libffi_init` of the Java, Python and Node.js loaders, with concurrent callers |
| `BuildId` | the search for the build id, `lua_resty_ffi_init`, and `load_ffi` around it |
| `Marshal` | the data of one call, through the echo runtimes and the Node.js binding |
| `MCTaskQueue`, `MCCallFlow`, `MCTaskLists`, `MCLoadFfi`, `MCLoader`, `MCBuildId`, `MCMarshal` | TLC instances: symmetry sets, requests, process images, strings |
| `TaskQueueProofs`, `CallFlowProofs`, `TaskListsProofs`, `LoadFfiProofs`, `LoaderProofs`, `BuildIdProofs`, `MarshalProofs` | the theorems |

`CallFlow` extends `TaskQueue`, `TaskLists` extends `CallFlow`, and `LoadFfi`
reduces the queue to its life, `RuntimeLife`.  `Loader`, `BuildId` and `Marshal` refine single steps of those: what
`Load` calls, what happens before the first load, and what `Call`,
`RespondTask` and `Resume` do to the data.

### TaskQueue

`queue` is the list from `first` to `last`, with `Fin` for the finish task
(`ctx == NULL`); `waiting` and `alive` (the queue is allocated) are fields of
`tp`; `finished` is the flag of the Lua object; `pc[p]` says where thread `p` is
in `task_poll`; `taken` are the tasks that were returned by `task_poll` and not
yet passed to `respond`.

A critical section never blocks except in `ngx_thread_cond_wait`, so it is one
action; `task_poll` is cut at the wait (`PollEnter`, `PollWake`) and between
its unlock and the deallocation (`Dequeue` of `Fin` leads to `"null"`,
`FreeQueue` follows).  `SpuriousWakeup` is what POSIX allows.  `LockFails`,
`WaitFails` and `UnlockFails` are the three early returns of `task_poll`,
enabled by the constant `PthreadFails`; `Finish` may fail too, and its result
is ignored as `unload()` does.  An unlock that fails is taken to have released
the mutex, as is one whose result the code discards.  `ngx_task_post` tests
`event.active`, which is never set on a task fresh from `calloc`.

The model stops at the first use of freed memory: once `alive` is false no
poller takes a step, and `NoPollerOnFreedQueue` tells whether one would.

### CallFlow

`ctx[t]` is the `ffi_task_ctx_t` at address `t`, `None` when the address is
free; `done` is `ngx_thread_pool_done`, `batch` the list
`ngx_thread_pool_handler` took and goes through; `co`, `asked` and `result` are
what the Lua code sees of its calls; `cleanup[c]` is the task whose address the
pending handler of `c` holds.

`Call` is `post()` with everything it does up to the yield: allocation,
`create_task`, `ngx_task_post`.  `CallRefused` is the same with a task that is
freed again, after which `cleanup[c]` still holds its address, as in the code.
`RespondTask` writes the answer and links the task under the spinlock; `Notify`
is a step of its own.  How many threads are between the two does not matter, so
`unnotified` says whether there is one, and `Notify` may leave it true.  The
event handler is `DropTask` (the tests that lead to `failed`) or `Resume`.

External code is modelled from its use: `ThreadPoolHandler` takes the whole
list; `Abort` (a coroutine is killed) and `OtherOperation` (it starts another
operation that yields) run the pending cleanup handler; `Exit` does not.  Lua
steps may come between two elements of a batch.  In nginx only what the resumed
coroutine runs does, so the model has more behaviours than the code, never
fewer.

A request is a member of `Req`, and the runtime's answer is a success flag and
the request it answers, which is what tells responses apart.

### TaskLists

In the code the queue, `ngx_thread_pool_done` and the list the event loop goes
through are linked by the one field `next` of a task, and appended to through
`last`, the address of the field to be written next.  `tpList` and `doneList`
are the two list heads, `cursor` is the task the event loop is at; `last` is
the task whose `next` it points to, or `None` for the field `first` of the
list.  `NextAfterLink`, `Link` and `Unlink` are the assignments of
`ngx_task_post`, `ngx_thread_pool_notify_inject` and `task_poll`.  Each action
of `CallFlow` is conjoined with what the code does to the pointers, so the
sequences of `CallFlow` are a history of what the pointers should spell.  A
task that leaves a list keeps its `next`; the field is cleared when the task is
linked again.

### RuntimeLife

What `load_ffi` and `unload` rely on: the queue is made with its thread (or
without, when the load fails), finished by `unload` only, freed by the thread
in the step in which it leaves its loop, and not touched afterwards.  `LoadFfi`
is built on it, load by load (`EachLoadLives`); `TaskQueue` does it, when one
thread polls and no pthread call fails (`RefinesLife`).

### LoadFfi

`runtimes` and `pinLibs` are the two tables of `resty_ffi.lua`; `obj[o]` is the
object of load `o`, which also names its library handle, its queue and its poll
thread; `handles` are the handles that are not closed, `refs` the objects the
application holds.  `tq[o]` and `thread[o]` are the variables of `RuntimeLife`.

`load_ffi` and `unload` do not yield, so each outcome of theirs is one action:
`LoadCached`, `Load`, `LoadRejected` (`libffi_init` fails), `LoadRaises`
(`ffi.load` fails), `Unload`.  A load that fails leaves its queue allocated, as
in the code, and by the contract of `libffi_init` no thread.  `CloseHandle`,
external, is the finaliser of LuaJIT: it may close any handle that neither a
pin nor a reachable object holds; a library is mapped while one of its handles
is open.  A thread whose library was unmapped does not leave it any more, which
is where the model stops following the program.  A key is the pair of library
and configuration: the string `lib & cfg` determines the pair because names of
libraries have no `&`.

### Loader

`lang` is the loader a behaviour is about; the three have the same shape and
are told apart by their actions.  `pc[c]` is where caller `c` is in
`libffi_init`; `locked` is `init_lock`; `started` is `vm != NULL`,
`mainThreadState != NULL` or `initialized`; `disk` has a version of the module
in each directory (for Java: in each package) and whether it can be loaded at
all, `cache` what the VM has loaded, `front` the head of `sys.path`.  For
Node.js, `node` is the state of `thread_fn`, `fd` whether `client_fd` is
connected, `c2s` and `s2c` the two directions of the socket.  A packet has in
`to` the caller that waits for it, or `None` when that caller has given up; the
code has no such mark, and nothing it does depends on it.

The steps under the lock are separate actions because the Java lock does not
exclude: `Unlock` is followed by `UnlockAgain` (line 149, then `RET`), which
releases the lock whoever has it.  What JNI leaves undefined is a choice: the
result of a method that threw, and a search for a class with an exception
pending, may come out either way.  `JavaStatic` uses the class loader of the
system, which defines a class once; `JavaDynamic` is `Loader.init`.  `PyFind`
is by base name (`sys.modules`), with the directory asked for at the front of
the path.  `PyFini` is the destructor, which runs when the library was loaded
with `unpin` and is closed; the project says the Java library must not be, so
there is no such action for Java.  `NodeServe` is the `data` handler of the
script.  The socket is a stream: `recv` and the script take all the bytes there
are, whosever they are.  `NodeRecvFails` is a `recv` that fails while the
connection is up (a signal without `SA_RESTART`): the code logs it, returns 0
and leaves the reply to the next caller, who may then read it, alone or with his
own (`ReadAs` is what `sscanf` makes of several); and his request may be joined
with one that was not yet read, which the script takes for one.  `torn` remembers that
this has happened.  With `Faults` the VM may not start, `pthread_create`,
`connect` and `recv` may fail and `thread_fn` may return.  Callers are many because the loaders also run
in Envoy, whose workers are threads; in nginx there is one.

### BuildId

`img` is the process: objects in link order, with segments, with notes.  A
segment gives the offset of each of its notes by the ELF rules (`IsSegment`),
independently of how the code computes them (`Size`, `Align`); `pos` is the
offset of the code's pointer and `len` its byte count, so a wrong stride leaves
`pos` between two notes (`WildRead`, where the model stops).  `More` is the
comparison of the signed `len` with a `sizeof`.  `p_filesz` may leave out the
padding of the last note: then `len` goes negative, which `More` takes for a
large number, and the pointer leaves the segment.  `Compare` is the rest of
`lua_resty_ffi_init`; `LoadFound`, `LoadOpens` and `CloseRefused` are `load_ffi`
and the collector around it.

### Marshal

A byte is `Nul`, text, or no UTF-8.  A buffer is the sequence of its bytes; a
reader of a C string that is not terminated may find anything behind it.
`Post` copies the string with its terminating `Nul`; `CopyEcho` (Go, Java) and
`StrdupEcho` (Python, Rust) are the echo runtimes; `NodeGetReq` and
`NodeRespond` are the binding, in which an inner `len` shadows the one that is
passed on; `AnyRespond` is any runtime that uses `respond` as documented.
`Pushes` is what the event handler pushes, each value under its own condition,
on a stack that has something (`Frame`) below; `Resume` takes from its top the
number of values that `ngx_http_lua_ffi_resume` names (`NArgs`), whatever was
pushed.

## What is checked

| Run | Instance | Shows |
|---|---|---|
| `tq_pool` | 3 pollers, 5 tasks, `max_queue` 2, pthread failures | counter, bound, wakeups, order of the finish task, one deallocation, of an empty queue |
| `call_errors` | 2 coroutines, 2 tasks, 2 requests, `max_queue` 1, pthread failures | one place per task, late responses, announcements, own responses; a cleanup handler outlives only a call that was refused; `CallSpec` is implemented |
| `call_live` | 2 coroutines, 2 tasks, `max_queue` 2, fair | every accepted call returns, every task is polled and freed, unload ends, the queue has the life of a runtime, with nothing after its deallocation, cleanup handlers point to their own task, the pointers spell the three lists |
| `load_ffi` | 2 libraries, 1 configuration or none, 3 loads at a time, `unpin` allowed, failing loads, fair | what Lua code can use is served; one runtime for each key; a pinned library stays mapped; cache entries are removed by their owner only; each load has the life of a runtime; unload releases thread, queue and handle |
| `loaders` | 3 loaders, 2 callers, 3 calls, 2 directories, 2 versions of one file, 2 attempts to connect, failures, fair | one VM, exclusive initialisation, own replies until a `recv` fails, fresh reloads, what a zero means, every call returns |
| `build_id` | 1 or 2 objects, a segment that is loaded and two of notes, up to 3 notes of 7 kinds, with and without the last padding | the id found is that of the program; the pointer stays on notes; the pointers are set for the right build; the search ends |
| `marshal` | all strings of up to 4 bytes and nil, 5 echo runtimes and any other | the results of a call are its status and its data; echoes exact |
| `tq_shared_free` | 2 pollers | **violated**: the queue is freed under the second poller |
| `call_stale_cleanup` | 2 coroutines, 2 tasks, `max_queue` 1, fair | **violated**: a refused call makes another one hang |
| `load_dlclose` | 1 library, 2 loads, `unpin` allowed | **violated**: the library is closed under the poll thread |
| `loader_config` | 1 caller, a configuration with a comma | **violated**: the entry function gets another configuration |
| `build_bypass` | as `build_id` | **violated**: the library is used after the check refused it |

**Bounds.**  Three pollers give one that sleeps, one that was woken and one
that overtakes it.  With `max_queue` below the number of tasks the overflow
test fires; five tasks reach the true bound, `max_queue` and one per blocked
poller.  Two coroutines and fewer task addresses than calls make every address
be used again, by the same coroutine and by the other.  Two requests are
needed, and enough, to tell a response from another's.  Runs of `CallFlow`
have no bound on the number of calls: their state space is finite.  The type
invariants are not checked by a run of their own: they are proved, for all
constants.  In `call_live` there are no more task addresses than `max_queue`,
so no call is refused: that is the condition under which the liveness
properties hold.  Its specification is the one with the pointers, on lists of
up to two tasks and the finish task.

Three loads give an unloaded one that is still referenced, its successor under
the same key and one more of the same library under another key; addresses are
recycled, so the number of loads is not bounded, except that each failed load
keeps one for the queue it leaks.

In `loaders` two callers give one that is between its two unlocks and one that
took the lock; the third call finds what the first two left in the VM; two
versions make a module stale, two directories make two modules of one name, and
a version may have an error in it.  `MaxTries` is 2 instead of 10.  `MaxLoads`,
`MaxVersion` and `MaxEdited` (the files that change) are bounds of the model;
the theorems hold for any value.  One file that changes is enough: a stale
module is one of a file against one version of it, and the other directory is
there to be mistaken for it.  In
`build_id` the kinds of notes are the right id, a wrong one of the same length,
an ABI tag, a note of another vendor with the same type, one without a
descriptor, one with neither name nor descriptor (shorter than the structure
the code reads) and one that needs padding; the second object is a library that
has the id the program should have.  In `marshal` four bytes put each kind of
byte at the start, inside and at the end.

The runs of `TaskQueue` and `CallFlow` that check no liveness, and
`load_dlclose`, use symmetry in tasks, pollers, coroutines, requests, loads,
libraries and configurations.  Deadlock is not checked: after an unload, after
the last call of a bounded run, or when no Lua code wants anything, the system
rests.

**Fairness.**  Weak fairness of a poller's own steps: the poll loops of the
runtimes (`for { task_poll ... }`) never stop before a `NULL`, and a runnable
thread gets the mutex.  In `CallFlow` also of `RespondTask` for each task the
runtime holds (the runtime answers what it polls), of `Notify`, of
`ThreadPoolHandler` and of the event handler (threads and the event loop go
on).  In `LoadFfi` of the poll thread and of
`CloseHandle`: Lua code allocates all the time, which drives the collector.  In
`Loader` of each step of a caller inside `libffi_init`, and of the script's
handler: threads run, a free mutex can be taken, entry functions come back; not
of `NodeListen`, so a thread that never gets to listen is covered by the bound
on the attempts to connect, nor of `NodeRecvFails`, so no signal is counted on to
end a wait.  In `BuildId` of the sequential code of the search.  No
fairness is assumed of Lua code, clients, unload or spurious wakeups.

**Mutants.**  A definition with a suffix (`Full_OffByOne`, `DropTask_Leak`...)
is a faulty version of the definition that follows it.  No specification uses
it; it is there to show that the property it is paired with in `PROJECT.json`
can fail.

## What the runs found

1. *A queue shared by two pollers is freed under one of them*
   (`ngx_http_lua_ffi.c:536`).  The README of the project calls `task_poll`
   thread-safe; it is, until the runtime is unloaded.  Only one thread gets the
   `NULL`, and the others sleep on, or lock, what was freed.
2. *A refused call leaves a dangling cleanup handler*
   (`ngx_http_lua_ffi.c:475`).  When the queue is full the task is freed, but
   the coroutine keeps the handler and the address.  Its next `ngx.sleep()` or
   its death writes to freed memory; if the address was given to another call
   in the meantime, that call is marked aborted and its coroutine never
   resumed.
3. *With `unpin` a library is closed under its poll thread*
   (`resty_ffi.lua:79`).  `unload()` drops the handle at once; the thread ends
   only after it has taken the finish task.  A garbage collection in between
   unmaps the code the thread returns to.
4. *A configuration does not reach its function* (`Loader.java:281`,
   `nodejs/loader.cc:121`).  The Java loader, when a class is reloaded, cuts it
   at its first comma; the Node.js loader assigns it to a `const`, which throws,
   or, when it has a comma, drops it.
5. *The build-id check is made once* (`resty_ffi.lua:108`).  A library that was
   refused has its symbols in the process until the collector closes it; the
   next `load_ffi` finds them, as if nginx had been built with them, and goes on
   with pointers that were never set.

Some properties say what the code does where that is less than one would like.
`ZeroMeansRan` has three exceptions: an exception in Java, a Node.js thread
that is not there, and a `recv` that failed on a live connection, after which
`OwnReply` allows the next callers to read the results of others.  `NoWildRead` has one: a segment that ends before the
padding of its last note.  `EchoExact` says what each echo gives back: Python,
Rust and Node.js cut at the first `Nul`, Node.js replaces what is no text, and
Go and Java may give anything for the empty string.  `task_poll` also returns `NULL` when a pthread call fails
(`ngx_http_lua_ffi.c:505`, 513, 528), which the README of the project takes for
an unload.

The list may also be longer than `max_queue`: each blocked poller has
decremented `waiting`, and that many more tasks are accepted before it wakes.
`QueueBound` is the bound that holds; the README of the project
(`README.md:229`) calls `max_queue` the maximum size.  The two exceptions in
which a count or a pointer leaves its range, this one and that of `NoWildRead`,
and the failing `recv` are stated by the properties that hold instead of by runs
that are violated: the mutants show that nothing beyond them is allowed.

## What is proved

For every number of tasks, pollers, coroutines and requests, and every
`max_queue`, from the assumptions that `Fin` is not a task, `None` is none of
the values it stands beside, the pollers are finitely many and `max_queue` is a
natural number.

`TaskQueueProofs`:

- `TypeCorrect`.
- `WaitingCountCorrect` and `QueueBounded`, from `CountInv`: `WaitingCount` is
  not enough for the bound, which also needs that the overflow test keeps
  `waiting` at `max_queue`, or one above for the finish task.  Lemmas
  `GotoSets` and `Counts` say how the sets of threads, and their sizes, change
  when one thread moves.
- `WakeupsSuffice`: `NoLostWakeup` is inductive given the types.
- `FinIsLast`, `Drained`, `FreedAtMostOnce`, from their conjunction
  `UnloadInv`: that the finish task is last makes the list empty when it is
  taken; that the list is empty and the object finished keeps it so; that a
  thread in `"null"` excludes a non-empty list makes that thread the only one.
- `SinglePollerSafe`: with at most one poller nothing follows the deallocation.
- `QueueServes`: with one poller and no failing pthread call, the queue and its
  thread refine `RuntimeLife`, from `UnloadInv` and `ThreadIsQueue`: the thread
  is gone exactly when the queue is.

`CallFlowProofs`:

- `TasksKeptWhileUsed`, `TasksNotLeaked`, `LateResponseSafe`, `ResponsesOwn`,
  from `FlowInv`.  That responses are one's own needs that a live task has its
  own coroutine waiting with this task in its cleanup handler
  (`LiveTaskHasWaiter`), that completed tasks carry an answer to their request
  (`Answered`), and that a task is in one place, once (`TaskPlaces`), which
  needs `UnloadInv` for the finish task.
- `CompletionsAnnounced`: `NoLostCompletion` is inductive by itself.
- `FlowRefinesCallSpec`: every step of the flow is a step of `CallSpec` or
  invisible, with `open <- ~finished` and the other variables themselves.
- `QueueInFlow` and `QueueNotUsedAfterFree`: what the flow takes over from the
  queue, by the lemma `FlowIsQueue`: the actions of the flow are actions of the
  queue with more conjoined, so the theorems above hold there.

These hold with overflow and failing pthread calls too.  `CleanupTarget` does
not (finding 2), and two theorems say when it does:

- `CleanupUnlessRefused`: in every behaviour in which no call is refused.
- `CleanupCorrect`: when no pthread call fails and there are no more tasks than
  `max_queue`.  The lemma `NoRefusal` is the reason: `waiting` is at most the
  length of the list, whose tasks are different and do not include the one
  that is being posted.

and a third what is left of it when calls are refused:

- `LeftoversKnown`: `HandlerLeftByRefusal` is inductive given `FlowInv`, which
  says whose task the event handler resumes.

`TaskListsProofs`, for the same constants, with `Fin` not a null pointer:

- `ListsCorrect`, from `ListInv` (`ListsSpell` and a type) and `FlowInv`: a
  write to the `next` of one task does not touch a list the task is not in
  (`ChainKept`), linking appends (`LinkAppends`), unlinking gives the tail
  (`RestOfChain`).  That the lists have no task in common, and none twice, is
  `TaskPlaces`; that `Fin` is posted once is `FinLast`, and both hold of the
  lists because `TaskLists` only conjoins pointers to `CallFlow` (the lemma
  `ListsAreFlow`).  It holds with any
  interleaving of worker, pollers and responding threads.
- `PointersDecide`: hence the tests of the code on pointers are the guards of
  `CallFlow`, and it takes the tasks `CallFlow` takes.

`LoadFfiProofs`, for any libraries, configurations and loads:

- `UsableServed`, `RuntimesUnique`, `PinningKeepsCode` (for `~MayUnpin`) and
  `EntriesOwned`, from `LoadInv`, which says what each kind of reference
  implies: a cached object is complete and knows its key (`CachedComplete`);
  what is held or runs is unloaded or cached (`HeldCached`); the queue of an
  unloaded object is finishing or gone; a pin is an open handle of its library
  (`PinIsOpen`); without `unpin` every loaded library has one (`AllPinned`).

- `PinnedCodeStays`, from the same invariant: with or without `MayUnpin`, a
  pinned library is mapped, by `PinIsOpen`.
- `LoadsLive`: the queue and thread of each load take the steps of
  `RuntimeLife` only.  With `QueueServes` this is the link between `LoadFfi`
  and `TaskQueue`.

`LoaderProofs`, for any threads, directories, requests and bounds, from the
assumptions that requests have the form `Loader` gives them and that `None` is
neither a request nor a result:

- `InitExclusive` and `SingleMachine`, from `LockInv`: while the VM is not
  started, a caller inside holds the lock alone and nobody is between its two
  unlocks.  The second unlock of the Java loader is reached only after the VM
  was started, which is never undone there; so what it lets in are callers that
  find the VM.
- `RepliesOwned`, from `WireInv`: a packet that names a caller finds him in
  `recv`, and a request is that of its caller; without a connection there is no
  packet, and without the thread no request.  Until a `recv` has failed every packet names
  its caller, so that there is one at most; afterwards packets without a caller
  may come before it and nothing is said of how many.
- `ReloadsFresh`, from `FreshInv`: what was asked for is never newer than the
  disk, and results, in the socket or returned, are as fresh as their call.
- `ZeroIsRight`, from `ResultInv`, which says the same of replies that are
  still in the socket; and `LoaderTypeCorrect`.
- `ConfigKnown`, `ConfigArrives` and `ConfigIntact`, from `ConfigInv`, which
  says what became of the configuration in every result, returned or in the
  socket.  Finding 4 is one request that loses its configuration; these say
  which requests do: the entry function got the configuration of its request
  if and only if the loader is Python's, or Java's without a reload or with one
  field at most, or there was none.
- `NobodyStuck`, from `WaitInv`: a lock that is held has somebody inside to
  release it, and a caller in `recv` has a packet on the way or will find the
  socket closed.  `CallsAdvance`: every step of a caller raises `Rank`, its
  place in `libffi_init`, or uses up one of the `MaxTries` attempts.  Together
  they are what `EveryLoadReturns` needs besides fairness.

`BuildIdProofs`, for any process image whose segments obey the ELF layout and
any build id:

- `CheckIsCorrect`, from `ScanInv`: no build id of the program comes before the
  place the search has reached, the note that was found is one, and the text of
  two ids is the same only if their bytes are (`Text` is injective, digit by
  digit).
- `ReadsInside`, from the same: `pos` is the start of a note or the end of the
  last, and `len` is what is left of `p_filesz`.  It rests on the lemma that
  `Align` is the padding of the format.
- `ResolvedRight`, `UncheckedOnlyAfterFailure` and `BuildIdTypeCorrect`.
- `SearchAdvances`: every step of the search goes to a later object, segment or
  note, or ends it: what `SearchTerminates` needs besides fairness.

`MarshalProofs`, for strings of any length over the three kinds of bytes:

- `DataIsDelivered` and `EchoIsExact`, from `MarshalInv`,
  which follows the data through the stages of a call: the posted buffer is the
  request and a `Nul`, what the runtime read of it, what it passed to
  `respond`, and what was pushed is a value one can read from that.  The work
  is in the lemmas on strings: where the first `Nul` is, and that reading a
  terminated buffer gives what is before it; and on the stack: on each path the
  conditional pushes are three, so that `NArgs` values from the top are those and
  nothing from below (`ThreeMore`, `TopThree`, `AllTaken`).
- `TextIsKept`: non-empty text without a `Nul` survives every echo runtime.

**Only model-checked:** what needs fairness (`EveryTaskPolled`,
`UnloadCompletes`, `RefinesFairCallSpec`, `EveryTaskFreed`, `UnloadReleases`,
`EveryLoadReturns`, `SearchTerminates`), which is out of reach of the prover.
Every other property of a passing run is a theorem.

## What is not modelled

- Allocation never fails, and a task queue can always be created (`load_ffi`
  does not test for `NULL`): a failure ends the worker.  So does the end of the
  Lua VM, which closes pinned libraries too.
- Several runtimes share nothing but `ngx_thread_pool_done`, so `CallFlow` has
  one.
- Lookup of a build id by symbol (`build_id_find_nhdr_by_symbol`) has no
  caller.  Resolving the three symbols is the addition of offsets that
  `build_shared.sh` reads from the binary.
- In the loaders: messages to the Node.js thread that do not fit the buffer of
  8192 bytes, entry functions that return something that is not an integer, the
  use of one `JNIEnv` by several threads and a VM that aborts on a pending
  exception, which end or corrupt the process; and how `DynamicClassLoader`
  reads directories and jars, which is file access, with its fallback to the
  parent loader for a file that is not there (`Loader.java:134-141`): in the
  model a module's file may be bad, never missing.  A `send` that fails on a live connection, which
  takes exhausted resources: the `recv` that follows would block.  The branch of
  the Python loader for versions below 3.8, for which `?` does nothing; the
  example asks for 3.8.
- `poll_task` of the Node.js binding passes two pointers on; the worker of
  `echo.js` is one more poll loop.
- `kafka.py`, the http2 demos and the etcd, gRPC and other clients are
  applications of third-party libraries.  `kafka.py` breaks the contract of a
  runtime in two ways that the model names: it polls again after `NULL` (the
  mutant `FreeQueue_Retry`), and it does not answer everything it polls (the
  fairness of `RespondTask`).
- Benchmarks, build scripts, packaging and the Maven wrappers have no behaviour
  of the running system.

## Plan

Done: all modules above, with a theorem for every property of a passing run
that does not need fairness, and the safety half of `EveryLoadReturns` and
`SearchTerminates`.  What is left, in this order:

1. The safety half of the liveness of the flow: a task that was accepted is
   always in a place from which some fair step takes it on, and each of these
   steps brings its call closer to its end.
2. The same for `UnloadReleases`: what an unloaded runtime still has, a fair
   step of its thread or of the collector can release.
3. `EveryTaskPolled`: the place of a task in the queue only falls.

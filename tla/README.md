# TLA+ models of Crack

Crack is a compiled scripting language: a C++ compiler (`src/parser`,
`src/model`, `src/builder`), a runtime (`src/runtime`) and a standard library
written in Crack itself (`src/lib/crack`).  This directory models the parts of
it whose correctness depends on *order*: threads that share a queue, callbacks
that change the set that is being iterated, a loop that computes a timeout,
processes that share cache files, modules that load each other recursively, and
the two translations of the compiler whose output is hardest to see from its
input: statements into basic blocks with their cleanups, and classes into
vtables.
TLC checks the models on small instances; TLAPS proves the most important
properties for every value of the constants.

- [Inventory](#inventory): the system's parts, their state, their hazards
- [Modules and the code](#modules-and-the-code)
- [Runs](#runs), [bounds](#bounds), [fairness](#fairness)
- [Further behaviours](#further-behaviours)
- [Proofs](#proofs)
- [Plan](#plan) and [what is not modelled](#what-is-not-modelled)

`PROJECT.json` lists the components, the runs, the source lines behind every
definition, one mutant per checked property and the hazards.

## Inventory

### The concurrent library

| part | state | operations | hard behaviour |
|---|---|---|---|
| `Mutex`, `MutexLock`, `Condition` (`threads.crk`) | owner of the mutex, threads asleep on the condition | lock, unlock, wait, signal | spurious wakeups; a woken thread has to win the mutex again |
| `Queue2` (`threads.crk`; `Queue` is the same without `getNonBlocking`) | array of elements | `get`, `getNonBlocking`, `add` | a third thread takes the element between the signal and the wakeup |
| `Event` (`threads.crk`) | `_triggered` flag over a condition | `wait`, `signal`, `lockAndSignal`, `reset`, `signalled` | several waiters and one signal; reset between signal and wakeup |
| `Thread` (`threads.crk`) | reference count, pthread | `start`, `join` | failure between two calls |
| `Poller` (`net.crk`), `PollSet` (`runtime/Net.cc`) | pollables, parallel pollfd array, handlers, one iterator | `add`, `remove`, `setEvents`, `checkHandlers`, `wait`, `nx`, `waitAndProcess` | callbacks add and remove while the loops run; capacity |
| `PollQueue` (`net/pollqueue.crk`), `_CommPipeHandler` (`net/comm2.crk`) | queue, pipe | `add`/`sendMessage`, handler | byte and element are two steps; the pipe blocks |
| `EventManager` (`eventmgr.crk`) | schedule by time, `__done` | `scheduleEvent`, `terminate`, `run` | timeout computed early; callbacks that schedule; unsigned time |
| `Comm`, `Connection`, `CommListener` (`net/comm2.crk`) | connections, control messages, waiters | `connect`, `startServer`, `write`, `sendSync`, `close`, `stop` | messages behind a terminate; close from either thread |

`Comm` runs an `EventManager` in a thread of its own.  Other threads reach it by
messages: `sendMessage()` puts the message in a `Queue2` and a byte in a pipe
that the manager's `Poller` watches; the handler runs the messages.  A caller
that needs an answer waits on an `Event` in the message.

### The compiler's module system

| part | state | operations | hard behaviour |
|---|---|---|---|
| persistent cache files (`Context::cacheModule`, `materializeModule`, `move`, `LLVMBuilder::cacheModule`) | `.crkmeta` and `.bc` of a module, temporary names qualified by host and pid | read header, read bitcode, write, publish | several processes at once; a kill between two system calls; a source edited meanwhile; a full disk |
| module loader (`Construct::getModule`, `ModuleDef::deserialize`, `Context::emitImport`) | in-memory `moduleCache`, `loadedModules`, recursion | load from cache or compile, check dependencies | recursion through cached and uncached modules; cycles; stale entries |
| definitions (`TypeDef`, `VarDef`, `FuncDef`, `OverloadDef`, `Namespace`) | symbol tables, base classes, overloads | lookup, overload resolution, instantiation of generics | dependencies recorded for the cache; resolution order |
| `Serializer`, `Deserializer` | object ids, digests | write, read | short files |
| tokenizer, expressions, imports, generics | per module | parse, emit | sequential |

### The compiler's translation

| part | state | operations | hard behaviour |
|---|---|---|---|
| statements (`Parser::parseBlock`, `parseIfStmt`, ...) | stack of contexts, each with a *terminal* flag | parse a statement, return the context it leaves to | the flag, the code emitted so far and the returned context must agree through every nesting |
| control flow (`LLVMBuilder::emitIf`, `emitBeginWhile`, `emitBreak`, ...) | basic blocks, insert point, branchpoints | begin, end, leave | a block with two terminators or none |
| cleanups (`Context`, `BCleanupFrame`) | frames of cleanups per context | add, close, close all, unwind | every way out of a scope releases the same variables once: end, return, break, exception |
| exceptions (`BBuilderContextData`, `BCleanupFrame::getLandingPad`) | unwind blocks and landing pads, *cached* per frame and context; catch lists of nested `try`s | call, throw, try, catch | a cached block that was made before the last variable; a clause that an outer `try` shares with an inner one |
| classes (`Parser::parseClassDef`, `BTypeDef`, `VTableBuilder`, `Incompletes`) | parents, functions with slot and receiver, vtables per root, incomplete nested classes | begin, declare, define, end, fix | a nested class derived from its unfinished outer class has slots assigned too early; several vtables in one instance |

The parser drives the builder: every `parse` function pushes contexts, calls the
`emit` functions and tells its caller whether control goes on.

### What makes each part correct

- *Queue*: an atomic FIFO queue; no element is stranded next to a sleeping
  consumer.
- *Event*: once signalled, waiting returns until it is reset; nobody returns
  who was not signalled.
- *Poller*: slot `i` is pollable `i` with the mask last asked for; every
  event of a poll is delivered exactly once to a pollable that is still there.
- *Poll queue*: every element has something on the way that makes the poller
  look; the poller thread never blocks on its own pipe.
- *Event manager*: every event runs once, not early, and is not overslept.
- *Cache*: a process runs meta-data and bitcode of one version, and of a version
  the source had while it ran; a cache file is never seen half written; the
  files survive collisions; every load ends.
- *Loader*: cycles and only cycles are reported; a module is loaded once and
  after what it imports; it was compiled against what its imports are now; the
  recursion ends.
- *Communication framework*: a call that waits for the poller thread returns;
  what is written is sent; a connection is terminated once, and the poller has
  the open sockets and no others.
- *Statements*: each variable and temporary is released exactly once on every
  path, before control leaves its scope; an exception arrives at the clause that
  the source says; every basic block ends, once.
- *Classes*: a virtual call reaches the final override through every base class;
  no vtable of a class with instances has an abstract entry; the destructor of
  the object's own class runs.

## Modules and the code

| module | models | runs | proofs |
|---|---|---|---|
| `Threads` | `Mutex`, `MutexLock`, `Condition` | through the two below | through `SafeQueueProofs`, `WakeupProofs` |
| `FifoQueue` | abstract: what a thread-safe queue promises | as `FifoSpec` | as `FifoSpec` |
| `SafeQueue` | `Queue2` over `Threads` | `MCSafeQueue` | `SafeQueueProofs` |
| `EventLatch` | `Event` over `Threads` | `MCEventLatch` | `WakeupProofs` |
| `Poller` | `Poller` of `net.crk` over `PollSet` | `MCPoller` | `EventLoopProofs` |
| `PollQueue` | `PollQueue`, `_CommPipeHandler`, `Pipe` | `MCPollQueue` | `WakeupProofs` |
| `EventManager` | `EventManager` | `MCEventManager` | `EventLoopProofs` |
| `ModuleCache` | the cache files of one module, all processes | `MCModuleCache` | `ModuleCacheProofs` |
| `ModuleLoader` | `getModule()` of all modules, one process at a time | `MCModuleLoader` | `ModuleLoaderProofs` |
| `CodeGen` | the builder: branches, cleanup frames, unwind blocks, landing pads, catch selectors | through `Statements` | `StatementsProofs` |
| `Statements` | the statement parser over `CodeGen`, and the execution of the code | `MCStatements` | `StatementsProofs` |
| `ClassDefs` | class definitions, vtables, virtual calls | `MCClassDefs` | `ClassDefsProofs` |
| `Comm` | `Comm`, `Connection`, `CommListener` and the messages, over what `PollQueue`, `EventLatch`, `Poller` and `EventManager` promise | `MCComm` | `CommProofs` |

**SafeQueue, EventLatch.**  A thread has a program counter; each statement
between two points where another thread may run is an action.  `Threads` holds
the mutex (`owner`) and the condition (`sleeping`): `Wait` gives up the mutex
and falls asleep in one step, `Signal` wakes one sleeper if there is one, and
the woken thread takes the mutex again in `Relock`.  With `Spurious`, a sleeper
may also wake by itself, as POSIX allows.  `SafeQueue!Fifo` is `FifoQueue` with
the array for the queue; `add()` takes effect at `append`, `get()` at `delete`.

**Poller.**  The pollables are a sequence, the pollfd array a function on slots,
so that the two can come apart.  The `pc` is the loop that runs (`prep` is the
loop of `waitAndProcess()` that asks for masks, `nx` the delivery, `check`
`checkHandlers()`) or `callback`; in a callback and between calls user code may
add, remove and set masks.  The constant `May` says which removals the user code
of a run makes, as pairs of the loop it runs under and of the pollable's place
relative to the iterator (`self`, `next`, `earlier`, `later`).  `want`,
`todo`, `again` and `event.removed` are history, used by the properties only.
A callback that itself polls (a nested `waitAndProcess()`) is left out, and so is
a handler that adds or removes pollables while `add()` asks for its first mask.
There are no more handles than the array has entries (`HandlesFit`): `grow()` never
stores the larger array it makes, so what `add()` does with the 257th pollable is
undefined (`net.crk:440-451`), and nothing is claimed about it.

**PollQueue.**  The queue is atomic, which is what `SafeQueue` implements.  A
producer's `add()` is two steps, element and byte.  The poller thread is a
cycle of poll, read, drain; handlers may call `add()` in the poller thread,
remove the queue from the poller and put it back.  `POLLERR` and `POLLHUP` do
not occur while the process holds both ends of the pipe, so those branches are
left out.

**EventManager.**  The map from time to callbacks, the loop of `run()`, and the
clock.  The poller is reduced to what `run()` sees of it: callbacks that ask for
masks, a wait that ends by an event or by the timeout, callbacks that handle
events.  The unsigned subtraction is kept modulo `Width`.

**ModuleCache.**  A file is an inode; names point to inodes, a process may hold
one open, `link` gives an inode a second name and opening a name for output
truncates the inode that is there.  Every system call on a shared file is a
step, in the order of the code; in between any other process may run, be killed,
or the source may be replaced.  A file holds a digest, a version and how much of
it was written.  Compiling version *v* gives files of version *v*.  The
module's own imports are a free choice here ("a dependency changed" or not);
`ModuleLoader` models them.  A disk may be full, and creating a file may fail
(`Unopenable`): without the bitcode file the compilation ends with an error, while
nobody tests the stream of the meta-data.  Bitcode that cannot be written ends the
process inside LLVM, which is a kill.

**ModuleLoader.**  A stack of `getModule()` calls, each reading the header of a
cache entry or parsing.  A source text is the set of modules it imports, its
interface (what the meta digest covers) and the module of its base class.  A
frame, a module object and a cache entry are records of the sets `Frame`,
`ModuleObject` and `CacheEntry`.  The
order in which the imports of a module are met is left open, so the runs cover
every order.  Between runs of the compiler sources change.  An entry of the cache
is what a completed compilation wrote.

**CodeGen, Statements.**  The builder is a library that mutates contexts and
code, so `CodeGen` has one operator per method, from a generator state to a
generator state.  `Statements` has one action per statement the parser reads and
one per end of a construct; each performs the whole handler.  Programs are chosen
token by token, so a run covers every program within its bounds.  When the
function is complete its code is executed on a small machine: conditions go both
ways, every call may throw every exception, a landing pad selects the first
clause that matches.  `live` are the variables initialised and not released.  A
`call` statement defines a variable from a call; `expr` and `ternary` have
temporaries that live in frames of their own; `ifdefine` defines a variable in
its condition; a module has its variables released by a cleanup function of
its own.  An invoke ends a block in LLVM and is an instruction with a landing pad
here.  Left out: expressions beyond these forms, generators of annotations, `for`
with several clauses, and what a statement with an error leaves behind (the
compilation stops).

**ClassDefs.**  One action per beginning of a class (with its base class list),
declaration or definition of a method, and end of a class.  `m` are the
definitions: types with parents, slots and vtables, functions with slot and
receiver.  A virtual call is evaluated as the code does it: the vtable pointer is
found along the first parents with a vtable, the table stored there is what
`emitVTableInit()` stored last, the entry is the slot of the function.  `Forms`
names the base class lists that programs of a run use.  Left out: forward
declarations of classes, final classes, appendages, generics, static and deleted
methods, cast functions, `oper init` and `oper new`, a user-written `oper del`,
and those virtual functions of `Object` that are like any other.

**Comm.**  Threads that use the `Comm` (`Threads`, with what each may send in
`May`), the poller thread and the peers.  A control pipe is a channel: what is in
it makes `Poll` report it, which is what `WakeupProofs` shows; an answer to a
waiter stays until it is read, which is what `EventLatch` shows for one waiter.
Only the poller thread touches connections, so each callback, and each `run()` of
a message, is one step; the steps in between (`Poll`, `nx()`, the drain) are
separate, because messages and peers come in between.  `draining` is the start
whose control pipe the handler drains: a message may remove a pollable that
stands before the pipe, so the place of the iterator does not tell.  A user handler answers
one waiter in `process()`, fails all of them in `terminate()`, and may write or
close, as the callbacks of `UserHandler` are meant to be used (the examples at the
top of `comm2.crk` only print and write back).  What a user handler
decides otherwise is a constant (`AddResponder`, `Handler`).  Peers send and go
when the poller thread is about to poll or has polled; at other moments it does
not show.  Writing to a peer that has gone fails; a program that does not ignore
`SIGPIPE` is killed instead.  Left out: `associate()`, `processAllEvents`,
connecting a `Connection` a second time, failures of the pthread functions.

## Runs

Twelve runs, all of which pass:

| run | shows |
|---|---|
| `safe_queue` | `TakenIsFirst` (what `get()` read at index 0 is what it deletes), `NoLostWakeup`, and the refinement `FifoSpec` |
| `event_latch` | one waiter, two threads that signal, reset and read: the wait returns only if the event was triggered meanwhile (or the operating system woke it), nobody sleeps on a triggered event, and a wait on an event that stays triggered returns |
| `poller_self` | callbacks that remove their own or later pollables keep slots and pollables 1:1, the iterator on the caller, and deliver nothing twice |
| `poll_queue` | no stranded element, no blocking read, every element taken, with handlers that add from the poller thread |
| `event_manager` | each callback once, the timeout that of the first key, every event run |
| `cache_sequential` | one process after the other, with reused pids, full disks, files that cannot be created and edits between and during the runs: each process runs code of a source it saw, the published pair belongs together, every load ends |
| `cache_collide` | three processes at once, killed at any moment, whose links fail and whose bitcode file cannot be created: no cache file is seen half written, both files survive, and a process that comes to its end has removed its qualified files |
| `loader_cycles` | three modules with every pattern of imports, two edits: cycles and only cycles are reported, modules load once, in order and fresh, and every run ends |
| `stmt_control` | every function or module body of up to four statements, nested two deep, of definitions, `if`, `while`, `for` over an iterator, `break`, `continue` and `return`, with calls that throw anywhere: the terminal flags agree with the code, each variable is released once and in its scope |
| `stmt_exceptions` | every function of up to four statements and catch clauses of `try`, `throw`, calls, ternaries, `while`, `break` and `return`, with a class and one derived from it: an exception arrives at the innermost matching clause, and nothing leaks or is released twice on the way |
| `class_tables` | every program of up to three classes, with single and multiple inheritance, nested classes, abstract and final functions: a virtual call through any base reaches the final override, no abstract entry, the right destructor, no failing check of the builder |
| `comm_calls` | an owner that starts, connects, serves, writes and stops, a user that writes and closes, peers and handlers that act at any moment: every waiting call returns, what is written is sent, each connection is terminated once, the poller has the open sockets |

Each of their properties was also run against the mutants in `PROJECT.json`: a
dropped guard, a missing reset or a swapped order in the code's definition, each
of which TLC finds.  The type invariants (`TypeOK`), which the proofs use, hold in
the same runs.

### Further behaviours

The constants of the passing runs are the conditions under which the code keeps
its promises.  Outside them the same models show, each with the change of
constants named here:

| constants | property that then fails | behaviour |
|---|---|---|
| `Poller`: `May` of self-removal | `NothingSkipped` | a callback removes its own pollable: `RestoreIter` undoes the adjustment of the iterator, and the next pollable is not asked, or its event not delivered (`net.crk:577`; the comment at 509 says otherwise) |
| `EventManager`: `LateStart = TRUE` | `EveryEventRuns` | an event that is past due on entry of `run()` makes the unsigned timeout wrap (`eventmgr.crk:86`; comment at 53) |
| `ModuleCache`: `Crashes`, one process after the other | `CodeFromThisRun` | killed between the two moves: new meta-data and old bitcode, accepted by later processes (`Context.cc:385`; comment at 345) |
| `ModuleLoader`: `DerivedTexts` | `FreshLayout` | a change two base classes away does not rebuild a module (`TypeDef.cc:1351`; `doc/MetaDataFormat.txt:68`) |
| `EventLatch`: two `Waiters` | `TriggeredWaitReturns` | one signal wakes one of two waiters; the other sleeps on while the event stays triggered (`threads.crk:213`) |
| `Poller`: `May` with `<<"nx", "earlier">>` | `OneToOne` | the new mask of a callback that removed an earlier pollable is stored in the slot of the following one (`net.crk:590`) |
| `Poller`: `May` with `<<"idle", "next">>` and without `self` | `NothingSkipped` | pollable 0 removed between `wait()` and `nx()` moves the iterator to -1, and `nx()` returns nothing (`net.crk:511`) |
| `PollQueue`: `PipeSize` < `MaxAdds` | `EveryElementTaken` | a handler that writes while the control pipe is full blocks the only thread that reads it (`comm2.crk:764`) |
| `EventManager`: `MaskSchedules = TRUE` | `EveryEventRuns` | an event scheduled while masks are asked for is slept through (`eventmgr.crk:86`) |
| `ModuleCache`: three processes, `MaxRunning = 2`, edits | `CodeFromThisRun` | a reader between the two moves of a writer runs new meta-data with old bitcode (`Context.cc:385`) |
| the same, with `FairSpec` | `EveryLoadEnds` | the meta-data file is unlinked between a reader's `stat` and `open`, and `readUInt()` loops for ever on a stream that is failed and not at its end (`Context.cc:302`) |
| `ModuleCache`: `Edits = "any"` | `CodeFromThisRun` | a source replaced between its two opens is cached under the wrong digest (`Construct.cc:397`) |
| `ModuleCache`: `Unopenable` with `"crkmeta"`, no kills | `CacheSurvives` | the qualified meta-data file cannot be created and nobody tests the stream; `move()` unlinks the published file, and then its link fails (`Context.cc:368`) |
| `ModuleCache`: `PidReuse` and `Crashes` | `WholeFiles` | a process killed between `link` and `unlink` leaves its qualified name on the published inode, which a process with the same pid truncates (`Context.cc:364`) |
| `Statements`: `Kinds = {"call", "try", "throw"}`, two unrelated classes, depth 3 | `NothingLeaks` | an exception that an outer clause catches goes from the inner landing pad straight to that clause; a variable between the two `try`s is not released (`BBuilderContextData.cc:123`; `doc/Manual.nml:888`) |
| `Statements`: `Kinds = {"value", "try", "throw"}`, two unrelated classes | `CaughtByInnermost` | `emitCatch()` makes the unwind blocks of the variables around the `try` on the path that resumes; they stay cached for later calls that an outer `try` must catch (`LLVMBuilder.cc:1373`; `Manual.nml:906`) |
| `Statements`: `Tops = {"value"}`, a variable and two returns | `NothingLeaks` | the landing pad that `close()` makes while it emits a cleanup skips that cleanup, is cached with it, and is reused by the second `return` (`BCleanupFrame.cc:91`) |
| `Statements`: `ReleaseThrows = TRUE`, three variables | `ReleasedOnce` | the same cached landing pad: a release that throws leads to cleanups that were run already |
| `Statements`: `Kinds` with `whiledefine` | `NothingLeaks` | the variable of a `while` condition is never released (`Parser.cc:2616-2643`; `Manual.nml:2565`) |
| `Statements`: `Kinds = {"try", "throw", "if", "return"}`, `MaxTokens = 5` | `NothingLeaks` | the same in a clause that may return and then throws: the exception variable is not released by the `throw` |
| `ClassDefs`: `Forms` with `moved` or `nested further` | `VirtualCallsReachOverride` | the functions of a nested class are moved to later slots and its `nextVTableSlot` is not, so a class derived from it begins too early (`BTypeDef.cc:298-331`) |
| `ClassDefs`: `Forms` with `nested with another` | `VirtualCallsReachOverride` | overrides of a function of the second base are moved too (`BTypeDef.cc:307`) |
| `ClassDefs`: `Forms` with `nested in several`, `MaxTokens = 8` | `VirtualCallsReachOverride` | the same if it is the outer class that has two bases: the overrides of the second one's functions in the nested class are moved (`BTypeDef.cc:307`) |
| `ClassDefs`: `Forms` with `nested in both` | `NoInternalError` | a class with two incomplete bases fails an assertion (comment `LLVMBuilder.cc:1932`) |
| `ClassDefs`: `Forms` with `nested in root` | `DestructorReached` | the outer class has no destructor yet when the nested one gets its own, which then overrides nothing (`TypeDef.cc:466`) |
| `ClassDefs`: `Forms` with `no vtable first` | `NoInternalError` | the slots continue those of the first base with a vtable and are compared with those of the first base, which has none (`BTypeDef.cc:320`; `Manual.nml:2048`) |
| `ClassDefs`: `Forms` with `root and another` | `VirtualCallsReachOverride` | the index of the parents is counted from the first although that one is skipped (`Incompletes.cc:392`) |
| `Comm`: `Orderly = FALSE` | `EveryCallReturns` | a message behind `_Terminate` is never run and its sender waits for ever (`comm2.crk:852`) |
| `Comm`: `MaxStarts = 2` | `EveryCallReturns` | `__done` is never set back: a second poller thread ends at once (`eventmgr.crk:66`) |
| `Comm`: `AddResponder = "add"` | `TerminatedOnce` | a `sendSync()` that arrives after the termination adds a waiter nobody answers (`comm2.crk:240`) |
| `Comm`: `Handler` with `"throws"` | `EveryCallReturns` | an exception of a user handler ends the poller thread, or skips the trigger of `closeSync()` |
| `Comm`: `Accept` with `"null"` | `EveryCallReturns` | `accept()` returns null when the peer has gone, and the next line uses it (`comm2.crk:519`) |

Some differ from a comment or from what a caller expects and need no model:
data written just before `close()` is discarded with the socket; a `Connection`
that is closed and connected again is terminated again; `startServer()` passes
`true` for `reuseAddr` whatever it was given (`comm2.crk:938`); a redeclaration of
an inherited method with `@final` or `@abstract` warns and leaves the flag for the
next method (`Parser.cc:2036`); the catch lists of nested `try`s are copied at
every level (`fixAllSelectors`); `Thread.start()` keeps its reference when
`pthread_create()` fails (`threads.crk:41`); a sum of exactly a billion nanoseconds
is not carried (`time.crk:128`);
`Event.wait()` returns on a spurious wakeup (`threads.crk:227`), `Poller.grow()` never stores the array it
allocates (`net.crk:447`), and `EventManager.run()` does not end when the poller
is empty (`eventmgr.crk:80`).

### Bounds

Named in the modules as constants.

- `SafeQueue`: three threads (one to be woken, one to steal, one to add), two
  elements, `MaxAdds` = 3.  `EventLatch`: three threads, up to four calls of
  the operations other than `wait()`.
- `Poller`: three handles, so that one is before, one at and one after the
  iterator; two masks; three entries, which the handles just fit.  `MaySelf`
  is what the handlers of `comm2.crk` and `pollqueue.crk` do.
- `PollQueue`: up to four elements, a pipe of four bytes, which they cannot
  overfill, and a read size of 2 so that a read leaves bytes behind.
- `EventManager`: a clock of four instants and three events.  `Width` only has
  to be larger than every time that is not wrapped (assumed: `3 * MaxTime`).
- `ModuleCache`: two versions are enough for files that do not match; one
  process at a time where the order of the moves matters, three where `move()`s
  collide; inodes enough that creating a file never waits
  (two published, and per running process two qualified names and one open file).
- `ModuleLoader`: three modules give cycles of length one, two and three; two
  edits make and break a cycle.
- `Statements`: four tokens hold two definitions around a nested statement with a
  way out of it, or a `try` in a `try` with a second clause; depth 2 for control
  flow and 3 for exceptions.  The kinds are split between the two runs because
  the programs multiply; `Tops = {"value"}`, and a fifth token in
  `stmt_exceptions`, lead to the cached landing pads of the table above.
- `ClassDefs`: two method names, so that one can be overridden beside one that is
  not; three classes give a diamond-free multiple inheritance and a chain; five
  tokens are base classes and methods together.  The names are symmetric.
- `Comm`: one connection that is made and one that is accepted; one start; three
  messages, of which a `connect()` or `startServer()` is itself one.  So a connection
  that was made can still be written to and closed, closed twice, or closed and
  stopped, besides what its handler and its peer do, but not written to, closed
  and stopped by three messages; with an accepted connection likewise.

`CHECK_DEADLOCK FALSE` is set where behaviours end: the number of calls, events,
processes, edits or tokens is bounded, and an idle system may rest.  The runs of
`Statements` check for deadlock: a program that is executed always has a next
instruction until it ends.

### Fairness

- `EventLatch`: a thread inside an operation goes on, and a thread that can
  have the mutex gets it; nobody is obliged to call anything.
- `PollQueue`: the poller thread goes on with its round, and a producer finishes
  the `add()` it has begun.
- `EventManager`: `run()` goes on and time passes; *no* fairness for events on
  pollables, which need never come.
- `ModuleCache`: every running process goes on.  Waiting on another process
  never happens, so weak fairness per process is what the scheduler gives.
- `ModuleLoader`: the compiler goes on.
- `Comm`: the poller thread goes on, and so does a thread whose call has been
  answered; no fairness for calls and for peers.

All are weak fairness on steps the operating system schedules.

## Proofs

`tlapm` checks every leaf; nothing is assumed but the named assumptions on the
constants.

**`SafeQueueProofs`** – for every set of threads and elements, spurious wakeups
included.

- `QueueInvariant`: `IInv`, the conjunction of `TypeOK`, `LockDiscipline` and
  `TakenIsFirst`, is inductive.  `TakenIsFirst` alone is not: that nobody else
  changes the array between reading and deleting index 0 is the mutual exclusion
  of `LockDiscipline`.
- `QueueIsFifo`: every step of `Queue2` is a step of the atomic queue or leaves
  it alone.  Uses `TakenIsFirst`: `delete(0)` is a dequeue of `hand[t]` only
  because the two are the same element.
- `QueueNoLostWakeup`: while a thread sleeps, there are at least as many
  threads on their way as elements.  The counting argument goes by cases on the
  step: an append brings the adder itself (about to signal) on the way, a signal
  exchanges the adder for a woken thread, a delete takes one element and one
  thread.

**`ModuleCacheProofs`** – for any number of processes, versions and inodes.  Four
invariants, because each promise holds under conditions of its own; what a
condition does not name is free, and the table above shows what several of them
keep out.

- `CacheFilesAreWhole` (`WholeFiles`): with kills and edits at any moment, if no pid
  is given out twice and no write is cut short.  `CacheInv` adds to the types
  and to `WholeFiles`: a process that has not begun to write has no qualified names
  (`NothingYet`), a file that is being written has only the qualified name of its
  writer and is open nowhere else (`BeingWritten`), what a process is about to link
  is complete (`ReadyToMove`), and no two processes share a qualified inode
  (`OwnFiles`).
- `CleansUp` (`NothingLeftBehind`): unless processes are killed *and* pids used
  again; also when links fail and files cannot be created.  `TempInv` says, place by place in the program, which of its two qualified
  names a process may still have.
- `PublishedSurvives` (`CacheSurvives`): if no pid is used again and the qualified
  meta-data can be created.  `SurvivalInv`: as
  long as nobody has failed, a name that was published or seen is in use, or some
  process between its `unlink` and its `link` will link it.  That this process
  still has the file to link is `TempInv`; that its `link` can only fail because
  another process has linked the name meanwhile is the step of the proof.
- `RunsWhatItRead` (`CodeFromThisRun`) and `FilesBelongTogether`
  (`PublishedTogether`): processes one after the other, no kills, no edit between
  the two opens of the source; used pids, full disks and files that cannot be created
  are allowed.  `SoloInv` relates
  the one running process to the files: what it has read is what is published
  (`ReaderInv`), the files it writes hold its text (`WriterInv`), that text is one the
  source had (`SourceInv`), and outside the two moves the pair matches
  (`GoodPair`).
- `CacheTyped`: the types, without any condition.

**`ModuleLoaderProofs`** – for any set of modules and texts, any number of edits and
runs, no further conditions.  One inductive invariant, `LoaderInv`, gives all five
theorems:

- what is in memory was built from the sources as they are, and a finished module
  has finished imports whose interfaces it was built against (`TextNow`, `Closed`);
  from this `LoadedIsFresh` and, with the list of loaded modules,
  `LoadedInOrder`;
- every call on the stack loads a module its caller imports (`Chain`), so a module
  that is met unfinished lies on a cycle: the second half of `CyclesAreReported`.
  For the first half, the modules that were loaded are closed under imports and
  in an order, so there is no cycle among them;
- a dependency that `deserialize()` has passed is finished with the digest of the
  header or is being built by a caller (`DepsFrames`).  The second case is the
  hard one: a cached module is being checked while one that it depends on is being
  parsed further down the stack;
- the entries of the cache, current or not, do not depend on each other in a circle
  (`CacheAcyclic`): an entry is written when its imports are finished and their
  entries current.  `CacheStaysWellFounded` follows.

`HasCycle` and the acyclicity are stated over sets of modules, which keeps induction
over paths out of the proof.

**`WakeupProofs`** – the two ways in which `comm2.crk` wakes a thread, in one module
(for which the definitions of `PollQueue` that every specification has are named
`QueueInit`, `QueueNext`, `QueueSpec`).

- The event, for every set of threads and any number of operations.  `EventLocked`
  (types and mutex discipline) carries the other two.  `WaitReturnsTriggered`
  (`ReturnsTriggered`) holds for any number of waiters.  `OneWaiterIsWoken`
  (`NobodySleepsOnTriggered`) is for one waiter and any number of other threads, which
  is how `comm2.crk` uses the class: `signal()` wakes one thread, and the table above
  shows what happens with two.
- The poll queue, for any number of producers and any sizes.
  `QueueTypeOK /\ NoStrandedElement /\ ReadDoesNotBlock` is inductive; the three
  theorems are its conjuncts.  The second conjunct of `ReadDoesNotBlock`, about a
  handler that is itself writing, is the strengthening.

**`EventLoopProofs`** – `Poller` and `EventManager` in one module, in which nothing is
about both (the definitions of `EventManager` that every specification has are named
`ManagerInit`, `ManagerNext`, `ManagerSpec`).

The poller: for an array of any size and any pollables that fit in it
(`HandlesFit`).  The condition is on what user code removes: `InPlace` allows a callback
its own pollable and later ones, a callback of `checkHandlers()` later ones, and the
user's own loop anything.  `Past` also leaves alone the pollable that `nx()` comes to
next.

- `SlotsMatchPollables` (`OneToOne`) and `IteratorStaysOnCaller`
  (`IteratorOnCaller`) under `InPlace`, `EventsDeliveredOnce` (`NothingRepeated`) under
  `Past`.
- `PollerInv`: the list and the array are parallel (`Parallel`), descriptors differ
  (`Distinct`), and `Calling`: a callback that still has its pollable has it at
  `descriptorIndex`, one that removed it has the iterator in front of that place.
  The proof asked for one more conjunct: a pollable that was removed and added
  again by its own callback lies *after* the iterator, or the comparison that
  `__callCallback()` makes afterwards could take it for the old one.
- `DeliveryInv` adds `Undelivered`: a slot the iterator has not passed and that has
  an event has one that was not delivered.

TLC checked both with three handles (1.1 and 0.6 million states).

The event manager: for every length of time and any number of events.

- `CallbacksRunOnce` (`EachOnce`).  `OnceInv`: no callback is in the schedule twice,
  those still to be called were not called, those called differ, none is missing.
  The hard step is the array of the current key, which callbacks extend while
  the loop runs over it.
- `WaitsForNext` (`TimeoutIsNext`), if `run()` is not entered with an event that is past
  due (`~LateStart`; otherwise the difference wraps).  `TimeoutIsNext` is not
  inductive by itself: an empty schedule must leave `nextTime` 0 (`NoStaleTime`).
- `EventManagerTyped`.  That the position stays within the array needs that the
  callbacks in the array differ and are no more than were scheduled, a
  pigeonhole argument.

**`CommProofs`** – for any number of threads, connections and starts, with handlers
that throw, `accept()`s that return null and calls that overlap `stop()`: the
conditions that liveness needs are not needed for safety.

- `PollerHasOpenSockets` (`PolledIsOpen`): no condition.
- `ConnectionTerminatedOnce` (`TerminatedOnce`): if `addResponder()` fails the waiter of a
  closed connection; otherwise one may be left behind.
- `CommInv`: a connection goes from not connected to open to terminated and not back
  (`Lives`).  What would take it back is a second `_NewClient`, and messages stay in
  the control pipes of earlier starts, so the invariant has to say that there is
  none: the sender of each awaited message waits for that message and for
  nothing else (`Pending`), a sender has one such message and a connection one
  `_NewClient` (`OnePending`), a responder waits for its connection (`Responders`), and a
  thread that does not wait has no answer (`NoAnswerYet`).

The proof found an error in an earlier version of the model, in which the pipe being
drained was the pollable at the iterator; with two starts these differ.  It is
the variable `draining` now.

**`StatementsProofs`** – for every program of the modelled statements: any number
of statements, any nesting, any exception classes.  `Terminated`
(`TerminalIsTerminated`): what the parser believes of the insert point and the code
that the builder has made never come apart, so no instruction follows a terminator
and every block of a finished function has one.

The property says nothing about the blocks that are not current, and so is far from
inductive.  `StmtInv` says of a state between two steps of the parser:

- every block is open (no terminator) or closed (one, at its end); the open ones
  are the insert point, if control can get there, and the blocks that the
  constructs on the stack wait for, one or two each and no two the same
  (`Waiting`, `OpenOK`).  A `then` clause waits for its false block, a `while` for its end,
  an iterating `for` also for the block of `emitPostLoop()`, a `try` for its switch and,
  once a catch clause has been seen, for the block after the statement.  `EndTry` and
  `EndWhile` rely on it: they close or go on with a block that was begun any number of
  statements ago;
- the contexts of the stack are nested as the constructs are, and none of those
  around the current one is terminal (`NestedOK`);
- a construct whose last statement was terminal has a context to leave to that is
  outside, a loop or a try statement (`MaybeTarget`), and has braces: the only way on
  is its closing brace (`PhaseOK`).  For `catch` the parser's `all` and the
  `nonTerminal` that the builder keeps, computed apart from each other, agree
  (`Through`); that is what makes the flag given to `emitEndTry()` right;
- the sequences of the builder refer to what exists (`GenOK`).

The operators of `CodeGen` are abstracted by relations between the state before and
after: `Emits` (appends to the open insert point, keeps the context), `Becomes` (may
also open and close blocks), `Goes` (may change the marks of one context).  They are
transitive, so the lemma of a method is a chain of the lemmas of what it calls, and
the parser's actions use nothing else.

`close()`, the unwind paths and the selectors fold over frames, cleanups and contexts.
Induction theorems that take an operator are not available to the provers, so the
induction over the length of the sequence is done once, over the sets of indices,
for a family of folds that are told apart by a name (`Folded`, `Keeping`); the eight
folds of `CodeGen` are then instances by expansion of `FoldLeft`.

TLC checked `StmtInv` on the instances of both runs (1 million states) before and found
two conjuncts that earlier versions lacked: that only a braced construct can have had
a terminal statement, and that the two blocks of an iterating `for` differ.

**`ClassDefsProofs`** – for programs of any number of classes and methods, nested and
derived to any depth.  `BuilderNeverFails` (`NoInternalError`): a legal program meets no
internal error and no failed assertion of the builder, that is, a slot is never given
below the end of the first base, a vtable has no gap when it is emitted, and a class
waits for one base at most.  The condition is on the lists of base classes: none of
`RareForms`, those of the table above for which this fails or an instance goes wrong.

The property says that nothing has failed so far.  What keeps it so is `DefsInv`:

- `Classes`: a class has a vtable exactly if a base has one, and then its first base
  has; its slots begin no later than where those of that base end.  They begin just
  there (`Settled`) unless the base was unfinished when the class was begun.  A
  class from which another was derived is settled and its bases are complete, so the
  end of its slots is final once it is complete itself;
- `FunctionOK`: a function that a class introduced has a slot of the class; an override
  has one in front of them.  So when `fixVTableSlots()` moves the slots of a nested
  class from its `first` on, it moves what the class introduced and leaves its
  overrides (`Straight` says where that is so: no ancestor has two bases with vtables);
- `FilledOK`: each slot between the `first` and the `next` of a class has a function
  that the class introduced, and a class with a vtable has its own `oper class`.  With
  the slots of the bases in front, no entry of a vtable is null;
- `KidsOK`, `OpenOK`: a nested class that waits, waits for one unfinished class, is
  listed there once and is no longer open; the open classes are settled.

The definitions recurse: `lookUp`, `findFirstVTable` and the order of `createAllVTables`
along the ancestors, `fixIncompletes` along the classes that wait.  They are
recursive functions; that a function with such an equation exists is proved once, for
recursions that descend in a natural number (`RecExists`), and each of them is then
used by its equation.  The vtables are two nested folds, over the types and over
their functions: the entries of a table are exactly the slots of the virtual functions
of those types (`AllSlots`), and these are an interval that begins at 0, because each
slot but 0 has the one below it, in the same class or at the end of its base
(`TablesFull`, `NoGaps`).

The proof found the form `nested in several` of the table, which earlier was part of
`nested`.  TLC checked `DefsInv` on three classes and six tokens (2.8 million
states), and on two million random states of five classes and sixteen tokens.

TLC checked every inductive invariant on the instances of the runs as well.

**Only model-checked**: liveness (`TriggeredWaitReturns`, `EveryElementTaken`,
`EveryEventRuns`, `EveryLoadEnds`, `EveryRunEnds`, `EveryCallReturns`,
`WrittenIsSent`), which the prover does not reach; and the other invariants of `Statements`
(`ReleasedOnce`, `NothingLeaks`, `CaughtByInnermost`), which are about every path through
the finished code: their inductive invariant would have to say for each instruction
what is initialised where, a data-flow fact about blocks that are made in an order
other than the one they run in.  Those of `ClassDefs` about the object code
(`VirtualCallsReachOverride`, `NoAbstractEntry`, `DestructorReached`) say *which* function
an entry holds, for every path of casts to a base; `DefsInv` says that it holds one.

## Plan

Done, in this order: thread-safe queue, event, poller, poll queue, event manager,
cache files, module loader; proofs of the queue, the poll queue and the whole
files; statements and their code, class definitions and vtables, communication
framework; proofs of the event, the poller, the event manager, the rest of the
cache files, the module loader, the communication framework, the statement parser
with its builder, and the checks of the builder on classes.

Next, models:

1. Generic (ephemeral) and slave modules and compile-time dependencies in
   `ModuleLoader`; the builder stack on early returns.
2. `OverloadDef` and `Namespace`: overload resolution as operators against a
   reference definition.
3. Containers: `treemap` (rebalancing, deletion), `hashmap` and `priorityqueue`
   as operators over bounded inputs, with deletion under an iterator as actions.
4. `Serializer`: integer and object-id encoding against its inverse; time
   arithmetic.

Next, proofs: `NoAbstractEntry` from `DefsInv` and the order in which the functions of
the ancestors are stored; `Comm` with connections that are connected again, once that
is modelled.

## What is not modelled

- Of the compiler, the tokenizer, expressions, imports, generics, annotations
  and the storage of instance variables: sequential translations whose
  correctness is a matter of single inputs, which the test suite covers by
  comparison of output.  The JIT and the optimiser are LLVM.
- The bindings in `src/opt`, `src/runtime` (apart from `PollSet`) and
  `src/lib/crack/ext`: calls into libraries.
- Text and protocol libraries (`lang`, `json`, `xml`, `http`, ...): sequential.
- In the cache, the `fromFile` digest is taken as a version number: two texts
  with one MD5 sum do not occur; and whether the cache directory can be created.
- In the loader, shared libraries, and `allowSourceless`.

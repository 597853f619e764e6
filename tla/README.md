# A TLA+ model of sse-build-resources

`src/` is a library of C++ building blocks for plugins of a game: worker pools,
task queues of the game's main loop, a string cache, containers, hooks, readers
of address tables and settings, serialization. It has no `main`: the plugins
that use it, and the host program (the game and its script extender), are the
environment of every model here.

The modules are written from the code, not from its comments. Each one says in
its header which file it models and what it leaves out; `PROJECT.json` maps
every definition to the lines it stands for.

## 1. Inventory

| Part | State | Operations | Interacts with | What makes it correct |
|---|---|---|---|---|
| `queue.h` ProducerConsumerQueue | a queue, a mutex, a condition variable | `push`, `pop` | any number of threads | FIFO; each value taken once; no wakeup lost |
| `workerpool.h` IWorkerPool | thread count, threads, the queue of wrappers | `Start`, `Stop`, `SetThreadCount`, `Push`, `Pump` | the queue; subclass's `Process` | tasks run once and in order; `Stop` drains and ends; sentinels match threads |
| `TaskQueue.h/.cpp` ITaskWorkerPool | a frame per call: counter, condition variable | `Create`, `RunConcurrentTasks` | the pool's threads write to the caller's stack | returns when all functions ended, always; the frame outlives its users |
| `StringCache.h/.cpp` data_pool, fixed_string | hash set of entries, their counts, spin lock; a pointer per object | construction, assignment, copy, move, `clear`, `load` | all threads share the set; counts are changed outside the lock | counts exact, entries unique, no leak, no use after free, objects keep their values |
| `Threads.h/.cpp` | a flag; a critical section | `lock`, `unlock`, `try_lock` | used by the string cache, the task queues and the back log | mutual exclusion |
| `ITasks.h/.cpp` TaskQueue | a queue, a spin lock | `AddTask`, `ProcessTasks` with and without a budget, `ClearTasks` | tasks add tasks; other threads add tasks | order; each task run and disposed once; no self-deadlock |
| `ITaskPool.h/.cpp` | two task queues, fixed tasks, budget, running thread | `Install`, `AddTask`, `AddPriorityTask`, `AddTaskFixed`, `QueueActorTask`, the hook | the host's main loop calls the hook once per frame | priority before normal; the function of an actor task is called with an actor that exists and belongs to its handle |
| `Events.h` EventDispatcher | a vector of sinks | `AddSink`, `RemoveSink`, `SendEvent` | sinks may call back | each sink once per event, none after its removal |
| `ILogging.h/.cpp` BackLog | list of entries, limit, critical section | `Add`, `SetLimit`, `Clear` | log writers, readers that hold the lock | the newest entries, at most limit of them |
| `Map.h`, `Set.h`, `Vector.h` | a sorted vector; a map and a vector of pointers into it | `emplace`, `insert_or_assign`, `erase`, `load`; `sortvec`, copy, move | none | sorted, no duplicates; the vector lists the map's elements |
| `versiondb.h`, `AddressLibrary.*` | map of ids to offsets, base, version, flags | `Load`, `FindOffsetById`, `FindAddressById`; `Addr`, `Release` | a file of delta-coded numbers | decodes what was encoded; a failed load leaves nothing behind |
| `IPluginInfo.*` | two maps of plugins | `Populate`, `Lookup`, `ResolveFormID` | the host's list of plugins | form ids map back to plugin and lower part; maps agree |
| `GameHandles.*`, `PW.h` | a handle | `get`, `release`, `invalidate`; form id arithmetic | the host's reference counts | one release per acquisition |
| `Serialization.*`, `ISKSESerialization.*` | a record being written or read | `WriteRecord`, `ReadRecord`, `Resolve...` | the host's record interface; gzip | what is read is what was written, or an error |
| `IHook.h`, `JITASM.*` | call sites of the game; the end of an allocation | `Call5`, `Jmp5`, `Call6`, `Jmp6`; `done`, `get` | the script extender's trampoline | hooks of a site are chained; one generator at a time |
| `Stream.*` | memory of a stream | construction, moves, destruction | the host's constructor and destructor | destructed once, before it is freed |
| `VFT.h` | a slot of a table, the caller's copy of the original | `Detour`, `Detour2`, `Detour_s` | other threads call through the slot | callers reach the original; no call loops |
| `BSTSmartPointer.h` | a pointer, a count in the object | construction, assignment, `reset` | objects that own pointers | count exact, deleted once |
| `ISKSE.h` | interface pointers, trampolines | `Query`, `QueryInterfaces`, `CreateTrampolines` | the script extender | what the load reports is what was obtained |
| `INIReader.*` | sections and names | `Load`, `Get...`, `Clear`, `RemoveSection` | a file read line by line | values of one file, each whole, under the right name |
| `PerfCounter.h` | interval, accumulators | `Begin`, `End`, `Reset` | the clock | average over the interval |

Hard behaviours: threads in the queue, the pool, the concurrent tasks, the
string cache, the detours, the plugin list; callbacks that come back into their caller in the
task queues and the dispatcher; steps of which a later one fails in the
serialization, the address tables and the load of the plugin; sizes and
widths at their limits in the back log, the address tables and the form ids.
`PROJECT.json` lists each at its line.

## 2. Modules

| Module | Models | Uses |
|---|---|---|
| `FifoQueue` | what the queue promises | |
| `ProducerConsumerQueue` | `queue.h`, step by step | `FifoQueue` (refined) |
| `TaskExecution` | what the pool promises | |
| `WorkerPool` | `workerpool.h` | `FifoQueue` (used as its queue), `TaskExecution` (refined) |
| `RunConcurrentTasks` | `TaskQueue.cpp` | `FifoQueue` (used as the pool's queue) |
| `StringValues` | what `fixed_string` promises | |
| `StringCache` | `StringCache.h/.cpp` with the lock of `Threads.h` | `StringValues` (refined) |
| `TaskQueue` | `ITasks.h/.cpp` with the lock of `Threads.h` | `FifoQueue` (refined) |
| `TaskPool` | the queues, fixed tasks and frames of `ITaskPool.h/.cpp` | `FifoQueue` (used as its two queues) |
| `ActorTask` | the actor tasks of `ITaskPool.cpp` | `FifoQueue` (used as its queue) |
| `EventDispatcher` | `Events.h` over the memory of its vector | |
| `BackLog` | the back log of `ILogging.h/.cpp` | |
| `SmartPointer` | `BSTSmartPointer.h` with intrusive counts | |
| `VTableDetour` | `VFT.h` | |
| `HandleRef` | `VMHandleRef` of `GameHandles.h/.cpp` | |
| `CallHook` | `IHook.h`, `JITASM.h/.cpp` | |
| `StreamWrapper` | `Stream.h/.cpp` | |
| `OrderedMap` | what a map promises | |
| `FlatMap` | `Map.h` | `OrderedMap` (refined) |
| `EntryLists` | what a vectormap promises | |
| `VectorMap` | `Vector.h` | `EntryLists` (refined) |
| `PluginInfo` | `IPluginInfo.h/.cpp` and the form ids of `GameHandles.cpp` | |
| `VersionDb` | `versiondb.h`, `AddressLibrary.h/.cpp` | |
| `IniReader` | `INIReader.h/.cpp` | |
| `Serialization` | `Serialization.h/.cpp` | |
| `PluginLoad` | `ISKSE.h` | |
| `PerfTimer` | `PerfTimerInt` of `PerfCounter.h` | |
| `MC...` | the instances for TLC | |
| `StringCacheProofs`, `WorkerPoolProofs`, `RunConcurrentTasksProofs`, `TaskQueueProofs` | theorems about the module | |
| `TaskPoolProofs` | theorems about `MCTaskPool` with `TaskPool` and `ActorTask` | |
| `OwnershipProofs` | theorems about `MCOwnership` with `SmartPointer`, `VTableDetour`, `HandleRef`, `CallHook`, `StreamWrapper` | |
| `CallbackLoadProofs` | theorems about `MCCallbacks` with `EventDispatcher`, `BackLog`; `MCLoading` with `VersionDb`, `IniReader`, `Serialization`, `PluginLoad`, `PerfTimer` | |
| `ContainerProofs` | theorems about `ProducerConsumerQueue`; `MCContainers` with `FlatMap`, `VectorMap`, `PluginInfo` | |

The layers are joined by `FifoQueue`: `ProducerConsumerQueue` is shown (and
proved) to implement it and so is `TaskQueue`, and the modules above these
queues use its operators as the steps of their queues. That is why the pools'
models have no locks.

`MCTaskPool`, `MCCallbacks`, `MCOwnership`, `MCContainers` and `MCLoading` each
instantiate several components that do not interact, and `MCTaskPool` the frames
and the actor tasks, of which the frames see only that they return. A behaviour
picks one in its first state (`part` in `MCOwnership`, in the others `poolPart`,
`callbacksPart`, `containersPart`, `loadingPart`) and takes only its steps, so
that the states of the components add up and do not multiply; a property of such
a module is the conjunction of what its components promise on one subject.

### ProducerConsumerQueue

A thread's `pc` says where it is in `push` or `pop`; the acquisition of the
mutex, the look at the queue, its change and the notification are separate
steps, so that everything the unlocked `notify_one` (line 40) can be overtaken
by does overtake it. A thread between `wait` and `lock` has been woken and must
take the mutex and look again. `SpuriousWakeup` is a wakeup without notification. The
three overloads of `push` differ only in how they make the stored value.

### WorkerPool

The owner's `Start` and `Stop` are loops and are modelled round by round, so
that pushes and the workers' steps fall between two sentinels or two joins. A
worker pops through `FifoQueue!Dequeue`; a wrapper with `m_stop` ends it. `Push`
may come at any time, also before `Start` and during `Stop`. `SetThreadCount`
may come between `Start` and `Stop`. `StartThrow` leaves `Start` when a thread
cannot be created; the threads that exist stay and a later `Stop` ends them.
`owed` is a history variable: what was
stored or in process when `Stop` was called. `TaskExecution` has the order of
the tasks as a set of pairs, not as a sequence: the queue that implements it
also holds sentinels, and which task is in front of which can be said, and
proved, without the sequence that is left when they are filtered out.

### RunConcurrentTasks

The counter and the condition variable live in the caller's frame, which is gone
when the call returned (`Live`). The caller holds a mutex while it creates and
waits, but no task takes it, so it orders nothing and is not in the model: the
evaluation of the predicate (`Check`) and the blocking (`Block`) are two steps
with the tasks' increment and notification free to fall between them. The pool
runs throughout. A call is made from outside the pool or by a function of
another call, which then keeps its worker while it waits. `missed` is a history
variable.

### StringCache

`pool`, `keyOf` and `count` are the hash set, `ref` the objects' pointers. An
address may be allocated again after its entry was erased, which is what makes
the second look of `try_release<true>` dangerous: `ReleaseRecheck` is the look
at an address that is an entry, possibly another than the one released;
`ReleaseRecheckFreed` the look at one that is not, with both outcomes the freed
memory can give. After that `fate` is set and nothing is modelled.
Constructors are assignments to empty objects, the destructor is `clear()`.
Users are assumed to synchronise their own objects (`Allowed`): no call may
touch an object that another call is writing; they share entries without
knowing. The strings are compared up to case, so a value is a class of strings.
The pool's own entry for the empty string is `EmptyRef`; it is in no set since
no operation but the lookup of an empty string finds it and none releases it.

### TaskQueue

The acquisition of the lock is a step of its own, and so are the look at the
queue and the removal, `Run`, and `Dispose`. `AddTask` can be called from
outside, from a task's `Run` and from its `Dispose`; `back` is where the thread
goes on. `ClearTasks` disposes with the lock held: a `Dispose` that adds a task
then waits for its own thread, which the model shows as a thread at `addLock`
that holds the lock (`Reentered`); `Threads.h:8` calls the lock non-reentrant,
so this is a restriction on callers and not a finding. A task of `Static`
survives its disposal and adds itself when it runs. Time passes in `Run` only,
at least a unit per task, and is told apart up to `MaxTime`.

### TaskPool

A frame of the main loop is the run of the hook. Which hook is in force is
decided by the budget at `Install`, while the budget itself is read at each of
the two calls of `ProcessTasks`, so a budget set to 0 later is a budget of 0:
one task per queue and frame. `Registered` are the fixed tasks of the load of the
plugin and `Reserved` what room the vector has by then. A growth of that vector
while the hook iterates over it sets `broken`, and nothing is modelled after it.

### ActorTask

`QueueActorTask` and the run of its task are taken look by look, with the host
between any two of them: it loads and unloads actors (`ActorChanges`; whatever
`IsREFRValid` refuses is unloaded here), frees those nobody refers to
(`ActorFreed`), and gives a handle that leads nowhere to another actor
(`HandleGiven`). The first overload looks at the actor and then asks for its
handle, the second looks at the handle only. `Take` is the pop of
`ProcessTasks`; `Lookup` takes a reference, which `Referenced` says keeps the
actor from being freed and nothing more; `Validate` is the second look; `Return`
ends the function. The frames that the tasks run in are in `TaskPool`, in which
an actor task is a normal task like any other.

What the two looks can guarantee is what `ActorsUsable` says. That the actor is
still loaded while the function runs is not among it, since the host may unload
it right after the second look; nor, if the handle was given away since the task
was queued, that it is the actor the task was queued for. `been` is a history
variable: whether the handle led to a usable actor, at each moment from the take
to the second look. `meant` is another: the actor of the task, as long as it exists.

### EventDispatcher and BackLog

Both are containers that change while somebody reads them. `SendEvent` keeps two
iterators, a position and an end in the memory `slots`; an erase moves the sinks
behind it and leaves the last slot as it was, and a growth leaves the running
events with freed memory (`broken`, after which nothing is modelled). Per event
the model remembers what the properties compare: the sinks it found, those it
called, those removed since. `BackLog` has one step per operation, since each is
a critical section; the reader holds the re-entrant lock over several steps, and
what its own thread logs in between changes the list that it reads.

### SmartPointer, HandleRef and StreamWrapper

`SmartPointer` takes an assignment apart: give up what the pointer held, read
the source, acquire. Giving up the last reference deletes the object and gives
up its member in turn (`chain`). Threads share only the counts; the users'
contract is in `Readable` and `Writable`. A raw pointer's source is the tuple of
the location it was read from, so the assumption says that no location is a tuple
of one. `HandleRef` has the copies that the
compiler generates, whose handle nobody acquired. `StreamWrapper` has the move
assignment, which frees the old stream without calling its destructor: `over` is
the set of those streams, and the property says that there is no other way.

### VTableDetour and CallHook

A detour changes the protection of the page, exchanges the slot, stores the
original, restores the protection; each is a step, and two calls overlap freely
on one page. `CallHook` reads where a call site leads and writes it through the
trampoline, whose refusal is not looked at: the function is then told of
success although nothing leads to it. Both say the same of their chains: from
the slot or the site every function is reached once, the newest first, and then
the game's. A function is made for one slot, whose signature it has and whose
original it calls, so different slots have different functions. `StartAlloc` and `Done` are the generators of `JITASM`; a hook
written while one is at work is stopped by the trampoline's assertion.

### FlatMap, VectorMap and PluginInfo

`FlatMap` keeps the search as it is in the code, `upper_bound` with `less_equal`,
and what each operation does with the position it returns; the refinement maps
the sorted vector to the function that `OrderedMap` changes. `VectorMap` names a
node by its key. What it promises is `EntryLists`, a list of entries per object
in which copies and moves are whole; the assignments clear before they read, so
an object that is copied or moved to itself is emptied, and the abstract `Copy`
and `Move` say so. `PluginInfo` goes through the game's list one step at a time
beside a thread that calls `Lookup`; partial indices and form ids are numbers of
their width, and the shifts and masks are divisions and remainders.

### VersionDb

A file is a sequence of entries, and the writer is external: for each pair of id
and offset it takes any of the eight codes for the id, any of the eight for the
offset and either unit with which the pair can be expressed after the pair before.
`Decode` is the reader's arithmetic with its own memory of the pair before, in
words of the width `Word`. A file may be cut anywhere: then the variables that
were not read hold any value of `Garbage`, as nothing looks at the stream. Also
a load that fails before the base is set leaves ids that cannot be resolved. The
properties promise the entries before the cut, whole files and failed loads; what
a file that was cut and still loads resolves, they do not. `Addr` is both
overloads of `AddrImpl`: a query without offsets adds 0.

### IniReader

A line is a record: its kind, whether it is indented, name, value and text. The
parser takes one line per step; a file that cannot be opened, or no memory for
the line, ends the parse before its first. The property's side is written without the
parser's state: `Heads`, `Says` and `Told` say of a file alone which of its lines
make up the value of a name, up to any line, and `ValuesOfOneFile` compares that
with what the parser has at each step.

### Serialization

A record is a sequence of bytes that are pieces of the length and of the data.
The host may fail in `OpenRecord` and, after any part of the bytes, in either
`WriteRecordData`; it may lose an end of its file; its reads return what is
there. A length that was read in part is any number, and the allocation with it
is outside of the `try` blocks (`AllocationThrows`).

### PluginLoad and PerfTimer

`QueryInterfaces` is taken interface by interface and may be called again, as
may the others, in any order; the extender offers each interface in an old or a
good version or not at all. `PerfTimer` is `PerfTimerInt` with a clock that may
stand still between any two calls.

## 3. Runs

| Run | Instance | Shows |
|---|---|---|
| `ProducerConsumerQueue` | 2 producers, 2 consumers, 3 items | `TypeOK`, `NoLostWakeup`, refinement of `FifoQueue`, sleepers served |
| `WorkerPool` | 2 thread identities, thread count 0 to 2, 2 tasks | `Safe` (types, one sentinel per thread), `StopDrains`, refinement of `TaskExecution`, `Start` and `Stop` return |
| `RunConcurrentTasks` | 2 calls with 0 to 2 functions from outside, 2 that functions of others may make, 2 workers | `Safe` (types, tasks accounted for), `FrameOutlivesTasks`, returns unless the notification is missed or every worker waits |
| `RunConcurrentTasksLost` | 2 calls from outside | `WaitEnds` is violated (below) |
| `StringCache` | 2 threads, 3 objects, 2 strings, 3 addresses | types, counts, uniqueness, no leak, freed memory only after a revival, refinement of `StringValues` |
| `StringCacheHalt` | 2 threads, 2 objects, 2 strings, 2 addresses | `NoOrphanedValue` is violated (below) |
| `TaskQueue` | a main thread and another, 2 tasks that delete themselves, 1 that adds itself again, 1 clearing, budget 1 or none, costs 1 and 2 | `Safe` (types, exclusion, each task in one place), refinement of `FifoQueue`, `CallsReturn`, tasks served |
| `TaskPool` | frames: 2 priority tasks (1 adds itself again), 2 normal ones, 1 fixed task and 1 added late, no budget and 0 to 2, costs 1 and 2; actors: 2 tasks, 3 actors, 2 handles | `Safe` (types, priority first), fixed tasks in every frame, `FramesServe`, `ActorsUsable` |
| `Callbacks` | dispatcher: 4 sinks of which 3 fill the vector, an event within an event, 2 changes; back log: 2 threads, limits 0 to 3, 4 messages | `Intact`: events in order, newest messages kept and read once; `Deliveries`: what a removal may cost, nothing dropped without need; `EventEnds` |
| `Ownership` | pointers: 2 objects with members, 3 pointers of 2 threads; detours: 2 threads, 2 slots, 3 functions, 4 calls; handles: 2 references, 2 handles; hooks: 3 sites, 3 functions, 2 generators, a trampoline of 3 units; streams: 3 wrappers, 4 streams | `Counted`, `Detours`, `AssignsSource`, `DetourReturns` |
| `Containers` | flat map: 4 keys, 2 values; vectormap: 2 objects, 3 keys, lists with a repeated key; plugins: 3 lists, indices and lower parts at their limits | `InStep` (sorted, map and vector agree, plugins by index and name agree, names dangle only between two clears, form ids resolve), refinement of `OrderedMap` and of `EntryLists` |
| `Loading` | addresses: words of 32, 2 entries of 6 pairs, queries that add nothing or -3; ini: every file of up to 3 lines of 8, and two long ones; save: 2 records; plugin: 3 interfaces, 4 pairs of sizes; timer: times up to 4 | `AddressesAsMeant`, `ValuesOfOneFile`, `AllOrNothing`, `PluginReady`, `Averages` |

Bounds. The queue needs two of each kind: one consumer to overtake another
between its wakeup and its check, two pushes to overlap, a notification that
goes to the wrong sleeper; three items let both consumers be ahead of a
producer. The pool needs two threads (sentinels taken in any order, one thread
busy while the other exits) and a count that differs from the number of threads;
`Start` is bounded by the free thread identities, tasks are pushed once each. A
call of `RunConcurrentTasks` needs two tasks so that one is not the last, and
with two workers two nested calls are enough to keep both waiting. The string
cache needs two threads and two objects on one entry for the race between
release and revival, a third object to hold the entry meanwhile, a second string
for an address reused by another entry, and one more address than strings so
that an address need not be reused. Threads, objects, strings and addresses of
the string cache are interchangeable, no property of these runs is a liveness
property, and symmetry is used.

The task queue needs a thread that adds and clears while the main one processes,
two tasks so that one is taken before the other, and a task that adds itself so
that a call without a budget never ends; one clearing falls between any two
steps of the others. A budget of 2 in the task pool is exceeded by two tasks of
which one is long, one of 0 by every task, and one of 1 by a long one; the
priority task that adds itself again spends every budget. Three actors let a
handle lead to one after another while a third has one of its own, and two
tasks may be queued with one handle. In the task pool the vector of one fixed task has no room,
and the task added late makes it grow. The dispatcher's vector is full with
three sinks, so that a fourth makes it grow, and three are enough for one before,
one at and one behind the position of an event. Two detours of one slot and one
beside it on the page show both overlaps. Four keys have a first, a last, a
present and an absent one between others. Two entries of an address file are
one whose predecessor is the start and one that has another; in words of 32,
with bytes of 2 and shorts of 4, their differences reach past every argument's
width. Three lines of an ini file are a name, what continues it and what
follows, and the long files repeat sections and names across errors and blank
lines. Two records show that one that is broken does not affect the next.

Deadlock is checked for the pool only. Each other configuration says next to
`CHECK_DEADLOCK FALSE` why its system may stop: consumers that sleep for ever
once every item is taken, a model that ends with a use of freed memory, a bound
that is used up, a thread that waits for its own lock.

Fairness. Weak fairness per thread for the steps inside a call: the scheduler
runs every thread, a lock that is free is eventually taken by somebody who
waits, and tasks return. In `ProducerConsumerQueue`, `SleeperServed` holds with
weak fairness of a thread's steps taken together: a producer that stays outside
pushes nothing for ever. Calling `push`, `pop`, `Start`, `Stop` is never
fair, and spurious wakeups are never owed. The host's main loop calls the hook
again and again, which makes `Process` and `FrameBegin` fair, and they are the
only calls that are. `CallsReturn` and `TaskServed` need no fairness of the
spin lock because the others call only finitely often; `Calm` names the condition
under which frames without a budget end. `EventEnds` assumes that the innermost
event goes on, as it does on its one thread, and `DetourReturns` that a thread
inside a detour does. The string cache has no liveness property: its spin lock
is not fair, and a thread may lose it to others for ever.

### Disagreements between the code and what it says

* `RunConcurrentTasksLost`: `cond.wait(lock, [&] { return c == num; });`
  (`TaskQueue.cpp:83`) is to end once `c == num`. The tasks increment and notify
  without the mutex (lines 78-79): if that falls between the evaluation of the
  predicate and the blocking, nobody notifies again and the call never
  returns. `ReturnsUnlessMissed` shows that this is the only way not to return.
* `StringCacheHalt`: `data_pool::release` halts with `FIXME: orphaned value`
  (`StringCache.cpp:46`) if the entry is not in the pool. Two releases of one
  entry, with a revival in between, reach that. `FreedOnlyAfterRevival` shows
  that without a revival in that window no freed memory is used.

## 4. Theorems

`ContainerProofs` proves of `ProducerConsumerQueue`, for any finite sets of
threads and any items: type correctness, mutual exclusion, that no wakeup is
lost, and that the queue implements `FifoQueue`. Type correctness and mutual
exclusion are inductive together (`Safe`): that nothing is taken from an empty queue depends
on the mutex, and the types of `Tail(queue)` on that. `NoLostWakeup` is
inductive relative to `Safe`. It counts: an emplace adds a value and a producer
in flight; a removal takes a value and a consumer; a notification takes a
producer and, as long as somebody sleeps, adds a consumer. A consumer that goes
to sleep has seen the queue empty. For the refinement each step is mapped to
`Enqueue`, `Dequeue` or a stutter.

`StringCacheProofs` proves, for any sets of threads, strings and addresses and
any finite set of objects: type correctness (no count wraps below 0), exact
counts, uniqueness of entries, absence of leaks, that freed memory is used only
after a revival, and that `StringCache` implements `StringValues`. The argument
has layers, each inductive relative to the ones before:

1. control: what `pc`, `call` and `lock` have to do with each other, and that no
   two calls write one object;
2. entries: counts equal users, every user's entry is in the pool, strings are
   unique. This is where the order of `assign_ref`, `copy` and `move` matters:
   an object stops being a user before it loses its pointer;
3. absence of leaks: an unused entry has a thread that released it last or
   that looked it up;
4. last use: as long as no entry was revived, at most one thread is between the
   release of an entry's last user and its second look;
5. the refinement: values of objects no call is writing change only by the end
   of the call that writes them.

`WorkerPoolProofs` proves, for any finite set of workers and any tasks, `Safe`,
`StopDrains` and that the pool implements `TaskExecution`. The inductive
invariant adds to `Safe` how far the loops of `Start` and `Stop` have come, and
that the threads `Stop` joined have left. `SentinelsMatch` counts: a sentinel
goes from the owner to the queue to one thread. For `StopDrains` what `Stop` owes
is done, being run, or in front of every sentinel while no thread has left
(`OwedFirst`). For the refinement no task is in two places (`Once`).

`RunConcurrentTasksProofs` proves, for any calls from outside or within others
and any finite set of workers, `Safe` and `FrameOutlivesTasks`. They are
inductive with `CallProgress`: how many tasks a call has created at each point
and that it returns only when it has counted all. Since the tasks stored, run
and about to be counted make up the difference between created and counted, a call that has
counted all has none left.

`TaskQueueProofs` proves, for any finite sets of threads and any tasks, `Safe`
and that the queue implements `FifoQueue`. `Safe` needs one addition (`Adding`):
a thread that adds a task has one, and a disposal inside `ClearTasks` never gets
as far as the queue, since it waits for the lock of its own thread.

`TaskPoolProofs` proves, for any tasks, budgets and costs, `Safe` and
`FixedEveryFrame`. The invariant says where the priority tasks of the beginning
of a frame are (`EarlyPlaced`) and that the fixed tasks due are still in front of
the iteration (`DueAhead`). It also proves, for any actors, handles and tasks,
`ActorsUsable` of `ActorTask`. `ActorInv` adds that a handle leads to nobody who
was freed, and that of a task to the actor the task is meant for as long as that
one exists (`LeadsOf`), that a task that was stored or taken has a handle
(`TakenOf`), that what the lookup found is what the handle leads to still
(`HeldOf`), and that whether the handle leads to a usable actor now is among what
it has been since the take (`BeenOf`), on which the two looks then decide.

`OwnershipProofs` proves, for any threads, objects, pointers, slots, functions,
handles, references, call sites, generators and streams, `Counted`,
`AssignsSource` and `Detours`. Each component has an inductive invariant and a
step of another leaves it alone (`OthersStep`).

* `PointersInv`: what a call is about to read and write no other thread writes
  (`ClaimsApart`, which follows from `ClaimOf`, `ChainOf` and `ChainsApart`: an
  object whose member is written is referred to by the writing thread only, and
  each member in a chain by the one before it only); the source is what it was
  as long as the thread holds its owner (`SourceOf`); what is about to be
  acquired is held by the source or known to nobody else (`AttachOf`). So every
  count is the number of the pointers that hold the object (`CountOf`), at each
  step between the read of a pointer and its increment.
* `RefInv` and `StreamInv` are the counts themselves with the types.
* `TableInv`: the slot and the originals chain what is in `log` (`SlotChained`),
  where the original of the newest may still be in its caller's hand; a function
  is installed by one `Detour` at a time (`DetourAlone`); and the page is
  writable when a call that is not overlapped writes it (`PageKept`).
* `CodeInv`: the same of call sites, and who was told of success is in a chain
  unless the room was used up.

`ContainerProofs` also proves, for any keys, values, objects, lists and plugins,
`InStep`, that the sorted vector implements `OrderedMap` (`IsMap`) and that a
vectormap implements `EntryLists` (`IsEntryList`). The inductive invariants are

* `FlatInv`: the keys of the vector grow. The binary search then returns the
  first entry behind a key, and each operation puts or takes an entry where the
  order stays. For the refinement `Bar` maps the vector to a function: the entry
  of a key is the only one of it. A call becomes the same call of the map; a list
  of entries becomes the same additions, one after another, which is an
  induction over the list.
* `VecInv`: the vector has each key of the map once. Sorting permutes it, a move
  empties the source in one of two ways. For the refinement `VecPairs` maps the
  map and the vector to the list of entries: filling an empty object with a list
  adds its entries one after another, as the abstract lists do, by induction over
  the list, and the entries of another object come out as they were since no
  two have one key.
* `ModInv`: no two plugins share a partial index (`Distinct`), and while
  `Populate` runs both maps have what the list has so far (`PopulatePlaced`).
  Form ids lead back because the parts of a number can be told apart
  (`TwelveBits`, for light plugins), which is arithmetic. A name that was found is
  in the index map too except between the two clears (`PopulatePlaced`), and the
  first `Populate` has nothing to clear.

`CallbackLoadProofs` proves, for any sinks, events within events, threads, limits
and messages, `Intact` and `Deliveries`:

* `DispatcherInv` says of each running event where it is (`Placed`), that what
  it finds is what it found if no sink was removed (`Undisturbed`), that a slot
  behind the last sink names one that is registered or was removed
  (`LeftBehind`), and that every sink of its beginning was called, was removed,
  is ahead, or is the one that a removal at or before the loop's place shifted
  past it (`Accounted`, with a function from those removals to sinks).
* `LogInv`: the list has the newest messages in order (`Newest`), and a reader
  whose list was not changed has read what is in front of it (`Reading`).

and, for any address files, widths, ini files, records, interfaces, sizes and
times, `AddressesAsMeant`, `ValuesOfOneFile`, `AllOrNothing`, `PluginReady` and
`Averages`:

* `DbInv`: as far as the file is whole, what was read is what was written, with
  the same memory of the pair before (`ReadAsWritten`); the step is that each of
  the codes of the writer is undone by the arithmetic of the reader, modulo the
  width. `LoadPlaced` says what each way of ending a load leaves, `Answered` what
  a query may return then, its offset added once more modulo the width
  (`ModAdds`).
* `IniInv`: before each line the parser knows of the lines in front of it which
  section they are in and which name is continued (`Knows`); its values are
  those the lines tell (`ValuesFrom`), with none missing (`ValuesAll`), and its
  error is the first (`FirstOf`). `HeadsAre`, `ToldIs`, `SectionIs` and `BrokenIs`
  say of the property's own definitions how they go from a line to the next.
* `SaveInv`: a record's body is the beginning of the length and the data `Store`
  gave, and all of it just if `WriteRecord` returned true and the host lost
  nothing (`RecordGood`); what `ReadRecord` holds of it at each step is in
  `ReadPlaced`, what is appended to it in `SavePlaced`.
* `PluginInv`: the interfaces in front of the one asked for have been obtained,
  the trampoline excepted, those behind it have not, and a call that has
  returned left what its result says (`QueryPlaced`).
* `TimerInv`: the sum lies between its count times the least and its count times
  the largest time (`SumWithin`), so the average lies between them.

Induction. The library's induction theorems take an operator and cannot be used
here. What replaces them is `SetInduction`: a set of numbers that has 0 and with
each number the next is all of `Nat`, from the well-foundedness of `<`
(`WFMin`). With it the existence of the function that a recursive definition
chooses is proved (`RunExists`, `FoldTable`), and then what `FoldLeft` and the
recursive functions of the models compute for every list, file and index.

Assumptions are the named `ASSUME`s of the modules: producers, consumers,
threads of a queue, workers, references and locations are finitely many (they
are counted); producers and consumers are different threads; `None`, the
sentinel, the empty string, the empty entry and the outcomes of a load differ
from everything else, and no task, actor or handle is none; the objects of the string cache are finitely many;
functions of different slots are different, and so are the interfaces; lists,
files and the game's lists of plugins are finite sequences, the last with the
host's ranges of indices; the widths of the address codes grow. TLC evaluates
them in the runs.

Every invariant, action property and refinement that the passing runs check is
stated by a theorem. Only model-checked is liveness (`SleeperServed`,
`OwnerReturns`, `ReturnsUnlessMissed`, `CallsReturn`, `TaskServed`, `FramesServe`,
`EventEnds`, `DetourReturns`): liveness under fairness, and ENABLED, are out of
the prover's reach.

## 5. Not modelled

* `RTTI.h/.cpp`: 9911 lines of generated tables of type descriptors, and
  `magic_enum.hpp`, a vendored header of 1136 lines. They are more than half of
  the lines of `src/` and have no behaviour.
* Hashes, string helpers, checksums, number conversions: stateless functions on
  bytes. That a hash depends on nothing but the string up to case is what the
  string cache takes as given.
* Helpers on the game's objects and its graphics interface (`Node`, `Model`,
  `GameCommon`, `BSGraphics`, `ID3D11`) and the translation of ids by
  `ISKSESerialization`: thin calls into the host, which is not in the repository
  and whose state they change or ask for in one call.
* `Set.h`, which is `Map.h` without values; `TaskQueueStatic`, whose `ClearTasks`
  changes a `std::queue` without its lock, with an outcome that is undefined in
  every part; a `Stop` called by a task of its pool, whose join of its own thread throws;
  the machine code that `ITaskPool::Install` generates; `Patching`, which writes
  bytes between two changes of the protection as `VFT.h` does.
* The conversions of `INIReader::Get` to numbers and truth values.
* Type traits, macros, allocators, wrappers of operating-system calls.

## 6. What is left

The parts of section 5 that have state of their own would be next: the machine
code of `ITaskPool::Install`, the conversions of `INIReader::Get`, and the
translation of ids by `ISKSESerialization`, each with a model of the host's side.
Two hazards of `PROJECT.json` have no property: a clearing without the lock,
whose outcome is undefined, and a `Stop` called from the pool's own threads,
which `WorkerPool`, whose owner is never one of them, does not model. The liveness properties wait for a prover of fairness; their arguments (a lock
that is released, a queue that is drained) would use the invariants of
section 4.

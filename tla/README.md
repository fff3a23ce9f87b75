# A verification of stupidproject

This directory holds TLA+ models of the program under `src/` (a user-space block
device over SPDK, with the locking, lock-order checking and signal handling
it brings along), TLC configurations that check them on small instances, and
proofs that TLAPS checks.  `PROJECT.json` lists the runs, the mutants (small
changes of a modelled definition that each property must catch), the source
lines of every definition, the hazards and the theorems.

    tlc -workers 2 -config MCNvmeQueue.cfg MCNvmeQueue.tla     # a run
    tlapm NvmeQueueProofs.tla                                  # a module of proofs

## 1. The system

| Component | State it keeps | Operations |
|---|---|---|
| `NVMEDevice` (`blk/spdk/nvme_device.*`) | its driver, size and block size | open, close, read, read_random, write, aio_read, aio_write, aio_submit |
| `IOContext` (`blk/io_context.*`) | num_pending, num_running, the list of tasks, lock, cond, priv | aio_wait, try_aio_wake |
| `Task` (`blk/spdk/task.hpp`) | its DMA buffers, ref to a primary task, return_code | release_segs, copy_to_buf |
| `SharedDriverQueueData` (`blk/spdk/driver_queue.*`), one per thread | queue pair, current_queue_depth, pool of DMA buffers | _aio_handle, alloc_buf_from_pool, io_complete |
| `NVMEManager` (`blk/spdk/nvme_manager.*`) | the registered controllers, probe_queue, two locks, the dpdk thread | try_get, register_ctrlr, the dpdk loop, the destructor |
| `SharedDriverData` (`blk/spdk/driver.hpp`) | controller, namespace, registered devices | register_device, remove_device |
| `BlockDevice` (`blk/block_device.*`) | size, block size | create, is_valid_io |
| kernel AIO (`blk/kernel/*`, `blk/aio.hpp`) | io context of libaio | submit_batch, get_next_completed; `KernelDevice` is a stub |
| lockdep (`common/lockdep.*`) | class ids and references, order graph, what each thread holds | init, destroy, register, unregister, will_lock, locked, will_unlock, does_follow |
| `mutex_debug` (`common/mutex_debug.*`, `mutex.hpp`) | pthread mutex, id, nlock, locked_by | construct, destroy, lock, try_lock, unlock; shared and recursive variants |
| `AsyncSignalHandler` (`common/signal_handler_async.*`) | handlers, a pipe each, its own pipe, stop, its thread | start, shutdown, register, unregister, queue, the signal hook |
| fatal signals (`common/signal_handler.*`) | the thread that handles the first one | handle_oneshot_fatal_signal, install |
| `Thread`, signal masks (`common/thread.*`, `signal.*`) | thread id, name, affinity | create, join, block_signals |
| process set-up (`init`, `global`, `dout`, `util`, `backtrace`) | - | once, in one thread, or output only |

How they meet:

* A thread calls a device; the device appends tasks to an `IOContext` and
  `aio_submit` hands them to the thread's own queue, whose loop issues them and polls
  until none is running.  Completions are callbacks **inside** that loop: they
  change the counters the loop reads, give buffers back to the pool it takes
  from, and call the user's callback or wake `aio_wait` in other threads.
* `open` calls `try_get`, which hands a request on its own stack to the dpdk
  thread.  Both sides wait on one condition variable.
* Every `make_mutex` lock is a `mutex_debug` in a debug build and reports to
  lockdep, whose state has a mutex of its own, while a mutex's `id` has none.
* A signal hook interrupts any thread at any step, takes no lock, and talks to
  the polling thread through pipes and an array it reads without the lock.

What is hard: completions in any order in the middle of a loop that runs out of
slots and buffers; counters changed with and without the lock; a condition
variable used in both directions with requests on a stack; the race of a lazily
registered class id; ids that are freed and used again while edges and holders
remain; a hook in the middle of registration and unregistration; crashes (the code
aborts on errors) with data half written.  Each is in `PROJECT.json`
under "hazards" at its line, with the properties that cover it; the most
important ones are listed.

## 2. Modules

| Module | Models | State and actions |
|---|---|---|
| `BlockIO` | what a caller may rely on, block by block | the device, callers' buffers, requests staged and running; blocks reach the device in any order, the call returns when none is left and the callback has run once, the process may die between blocks |
| `NvmeQueue` | one thread's I/O path, the queue and the controller | `read`, `write`, `aio_read`, `aio_write`, `Submit` are the calls; `While`, `Again`, `Processed`, `GotoAgain`, `Issue`, `AllIssued`, `Return` are `_aio_handle`; `io_complete_*` and `ReleaseWrite` are `io_complete`; `Execute` is the controller; `Abort` and `Restart` are `abort()` and a new process on the same device |
| `MCNvmeQueue` | a small instance | contents shorter than, equal to and longer than a split |
| `IoGeometry` | where every byte of one request goes | `read`, `read_random`, `write` with any 64-bit offset and length; `write_split` and `make_read_tasks` cut the range, by sums that may wrap around (`write_split_throws`: no memory holds the tasks of such a write); `alloc_buf_from_pool` allocates and copies in; `Reset` and `data_buf_next_sge` are the callbacks, called for whatever parts of a task SPDK makes; `copy_to_buf` copies out |
| `IoContext` | `aio_wait` and `try_aio_wake` | one submitter with batch after batch (`Append`, `AddRunning`, `SubPending`, completions) and waiters, one action per step between lock operations |
| `AioQueue` | `aio_queue_t` of the kernel backend | `init`, `shutdown`, `submit_batch` offer by offer, `get_next_completed`; the kernel takes a part, refuses for the moment or for good, completes in any order |
| `NvmeManager` | `try_get`, the dpdk thread, `~NVMEManager` | one action per critical section; a set of waiting threads is the condition variable |
| `LockOrder` | acyclic graphs, reachability | operators only |
| `Lockdep` | the static state of lockdep.cpp | one action per function, each atomic under lockdep_mutex |
| `MutexDebug` | `mutex_debug_impl<false>` on top of `Lockdep` (EXTENDS) | construct, destroy, lock, try_lock, unlock in steps; the question whether lockdep is enabled and the read of `id` are a step before the call into lockdep; lockdep is started and shut down (`GlobalInit`, `GlobalDestroy`) at any time, whatever mutexes there are |
| `MCMutexDebug` | a small instance | two mutexes of a class, one of another; `present` chooses whether a behaviour has all three or, with lockdep shut down and started again, two |
| `SharedMutexDebug` | `shared_mutex_debug_impl` on top of `Lockdep` (EXTENDS) | lock, try_lock, lock_shared, try_lock_shared and both unlocks over a rwlock that prefers readers or writers; the id is read in a step of its own, as in `MutexDebug` |
| `DoesFollow` | the recursion of `does_follow` with an explicit stack | compared with `LockOrder!Reaches` on every graph |
| `AsyncSignal` | `AsyncSignalHandler`, the caller, the poller and the hook in either thread | the steps of `entry`, of `register_handler` and of `unregister_handler` up to their next lock, system call or read of `handlers` |
| `FatalSignal` | `handle_oneshot_fatal_signal` | each thread is a stack of contexts; a fault, an abort or a signal pushes a handler on it, whose steps are the compare-and-swap, the dump, the reset to SIG_DFL and the raise |
| `MCParts` | six small modules in one run | a behaviour is one of the parts `IoGeometry`, `FatalSignal`, `AioQueue`, `IoContext`, `DoesFollow` and `SharedMutexDebug`; the other parts' variables are off. The parts do not interact, in the code or here |
| `MutexDebugProofs`, `NvmeQueueProofs`, `NvmeManagerProofs`, `AsyncSignalProofs` | theorems about the module of that name | section 5 |
| `NvmeRefinementProofs` | `NvmeQueue` implements `BlockIO` | section 5 |
| `PartsProofs`, `SharedMutexProofs`, `GeometryProofs` | theorems about `MCParts`: the first about fatal signals, the kernel queue, `aio_wait` and `does_follow`, the others about `SharedMutexDebug` and `IoGeometry` | section 5 |

How the modules fit together: `NvmeQueue` counts in whole DMA buffers and has the
queue, the pool and the order of completions; `IoGeometry` has one request at a time
and every byte of it. `IoContext` has the threads that wait for what one thread's
queue completes. `MutexDebug` and `SharedMutexDebug` are the two callers of `Lockdep`.

`NvmeQueue` implements `BlockIO` under the mapping at its end (`B ==
INSTANCE BlockIO WITH ...`): every loop iteration, completion and buffer movement
is a stutter or the completion of the blocks of one command.

Definitions introduced as "Variant" in a comment are the mutants of
`PROJECT.json`; no specification uses them.

## 3. Runs

| Run | Bounds | What it shows |
|---|---|---|
| `nvme_queue` | 3 blocks, 3 slots of a caller's buffer, 3 DMA buffers, split at 2, queue depth 2, two values | refinement of `BlockIO`; each DMA buffer has one owner; counters agree; exhaustion is temporary; a call returns when its work is done. A write of 3 blocks is split and takes all buffers, and an asynchronous batch may have three tasks, so both limits are met in the middle of a batch |
| `nvme_queue_live` | the same with one value | every call that enters the loop returns |
| `nvme_queue_destroy` (violation) | callback destroys its context | finding 1 |
| `parts` | *geometry*: block 2, buffer 4, split 8, device 20, every offset and length modulo 64 (bytes); *fatal*: 2 threads, 2 fault signals and SIGABRT, 3 faults, aborts or signals from outside; *aio*: 3 aios, depth 2, 16 attempts from 125 us; *context*: 2 waiters, batches without end of up to 4 tasks; *search*: all graphs without a cycle over 4 ids, all queries; *shared*: 2 threads, 2 rwlocks (one that prefers writers and takes try_lock_shared), 1 read lock of each per thread, 2 ids, 2 references to each | no task reaches beyond the device, even when off + len wraps around, and every byte lands where it was asked for; one thread dumps, once and in full, and the process ends; each aio is submitted once, with a bounded sleep, and `submit_batch` returns; `aio_wait` returns if the batches come to an end, and not before what was running at the call is complete; the search answers reachability and ends; assertions of the rwlock hold and no deadlock among rwlocks lockdep knows of escapes it |
| `shared_mutex_id` (violation) | the same | finding 6 |
| `nvme_manager` | 2 clients, 2 PCI devices and a fabric target, present or not at each probe | the request on the stack is live while the dpdk thread can reach it, answers are right, every queued request is answered, the destructor returns |
| `nvme_manager_tcp` (violation) | 2 fabric targets | finding 2 |
| `mutex_debug` | 2 threads, 3 mutexes in 2 classes, two of them also taken with try_lock, 2 ids, 1 row at first; or 2 mutexes and lockdep shut down and started again, any number of times, at any step | no deadlock among mutexes lockdep knows of escapes it; its order has no cycle; an id in use is not given to another class, even by a mutex that outlived a shutdown; nothing stale; holders are real; rows cover ids; the assertions hold |
| `mutex_debug_class`, `mutex_debug_name` (violations) | the same with 3 ids | findings 3 and 4 |
| `async_signal` | 2 signals, 2 handler objects (so one signal can be registered twice, or two at once), 2 signals sent to either thread, at any step, that of unregister_handler included | a hook fails its assertion, or uses a deleted handler, only if its entry was removed under it; the callback's handler lives, the sleeping poller polls every pipe in use, no signal is lost, shutdown returns |
| `async_signal_unregister` (violation) | 1 signal | finding 5 |

Why the bounds are enough to be of use: each is the smallest at which the limit
in question is met by one actor while another is in the middle of its work, which is
where the hazards are. Two threads suffice for every race the code has over
one shared object; three-way deadlocks are covered by the proofs instead. In
`IoGeometry` the sizes keep the order they have in the code (block < buffer < split <
device < half of the address space), a request may begin and end anywhere in a block,
take several buffers and several tasks, and wrap around. Three troubles are enough for
a second thread to fail during a dump and for the dumping thread to be hit itself.
`MaxTasks` bounds the tasks of an IOContext at a time, not the batches, so that reaching it
ends nothing: the submitter goes on for ever. `MaxHandlers`, `MaxSignals` and
`MaxTroubles` end the registrations, signals and troubles of a behaviour. What is asked for
eventually (`SignalHandled`, `ShutdownReturns`, `ProcessEnds`) is therefore asked under
finitely many of them.

`WaitersReturn` is about an IOContext whose batches end: in the code num_running is raised
without the lock, so that a thread woken by the last completion of a batch may find the next
batch running, over and over. Without that premise the property is false, of the model as of
the code; with it, it says that no wakeup is lost.

`CHECK_DEADLOCK FALSE` is set where the system may stop: a bound is used up, an
assertion has ended the process, a thread has returned, or (lockdep) a deadlock
is what is being looked for. `nvme_queue` checks deadlock.

## 4. Fairness

* `NvmeQueue`: the thread runs, and the controller executes what it was given
  (weak fairness). Nobody has to make another call. `Abort` is never required.
* `IoContext`: the submitter finishes what it began and the controller completes
  commands; each waiter runs; spurious wakeups end at some time. Without the last a
  waiter could take the lock for nothing over and over.
* `NvmeManager`: weak fairness of the dpdk thread and of the destructor's join, strong
  fairness of the steps that take `probe_queue_lock`: the dpdk thread drops and
  retakes that lock in a loop, and a lock that starves a waiter for ever is taken to
  be a fault of the pthread implementation, not of the code.
* `AsyncSignal`: both threads and the hooks in them go on; no call has to be made
  and no signal sent.
* `DoesFollow`: the one thread goes on.
* `FatalSignal`: each thread's innermost handler goes on, at every step; no fault and no
  signal has to happen.
* `AioQueue`: the submitting thread goes on; the kernel need never accept anything.
* `parts` states the fairness of each of its parts, about that part's behaviours only.
* The safety runs state no fairness.

## 5. Proofs

What the runs check on small instances is proved here for every value of the
constants. The modules' assumptions on their constants are all that is assumed.

| Module | Theorem | Statement |
|---|---|---|
| `MutexDebugProofs` | `TypeCorrect` | types, and that a thread in a call is busy with a mutex |
| | `Bookkeeping` | the inductive invariant `IInv` |
| | `DeadlocksDetected` | `KnownDeadlocksDetected`: no set of threads, all of whose mutexes lockdep knows of, is ever blocked on itself |
| | `LockNeverDeadlocks` | if no mutex is taken with try_lock, no set of threads is ever blocked on itself at all |
| | `IdsOutliveUsers`, `ReusedIdsAreClean` | `UsedIdsRegistered`: an id is not given back while a mutex has it, and every id in use is registered but those carried over from before the last start; edges join registered ids |
| | `UnregisterKnowsId` | the assertion of `lockdep_unregister` fails while lockdep runs only for a mutex that brings its id from before the last start; never in a program with one start |
| | `NoFalseHolder`, `OrderAcyclic` | what a thread is said to hold it holds; the recorded order has no cycle |
| | `RowsSuffice` | `RowsCoverIds`: every class has its row of `follows`, which starts with fewer rows than there may be ids |
| | `AssertionsNeverFail` | `AssertsHold`: the assertions on nlock and locked_by never fail, that of `lockdep_unregister` only as above |
| `NvmeQueueProofs` | `Transfers` | the inductive invariant `IInv` |
| | `TypeCorrect` | types; the hook of the free list, which lies in the DMA buffer, never reaches the device or a caller |
| | `NoBufferLost` | `BuffersOwnedOnce` |
| | `EndMeansDone` | `ReturnMeansDone`: num_running is 0 only when all is done, and done well |
| | `WaitingHelps` | `ExhaustionIsTemporary`: when the loop waits, something is outstanding |
| | `CountsAreRight` | `CountersAgree`: queue depth, num_pending, num_running, total_nseg and ref are what they count |
| `NvmeRefinementProofs` | `Implements` | `ImplementsBlockIO`: every step of `NvmeQueue` is a step of `BlockIO` or a stutter |
| `NvmeManagerProofs` | `Requests` | the inductive invariant |
| | `StackOutlivesRequest`, `OwnDevice`, `LockIsHeld` | `ContextIsLive`, `AnswerIsRight`, and the assertion of register_ctrlr that the manager's lock is held |
| | `TypeCorrect` | types; `probe_queue`, which the dpdk thread drains and never clears, holds two requests at most |
| `GeometryProofs` | `NoneIssuedOutside` | `IssuedIsInside`: no task reaches beyond the device, though a sum off + len that wraps around gets past the checks |
| | `BytesLand` | `BytesLandWhereAsked`: every byte of a call ends where it was asked for (of a call that wraps around, a first part at most), no other changes, and the SGL callbacks never run out of bytes |
| `SharedMutexProofs` | `SharedDeadlocksFound` | `SharedDeadlocksDetected`: no circle of readers and writers, all of whose rwlocks lockdep knows of, is let pass |
| | `SharedAssertionsHold` | `SharedAssertsHold`: the assertions on nlock, nrlock and locked_by |
| `PartsProofs` | `Winning`, `OneDump`, `DumpIsWritten` | fatal signals: the inductive invariant, `DumpsOnce`, `DumpNotCutShort` |
| | `BatchSubmittedOnce`, `SleepIsShort` | the kernel queue: `SubmittedOnce`, `SleepBounded` |
| | `Waiting`, `ContextTypeCorrect` | `aio_wait`: the inductive invariant, types |
| | `ReturnsWhenDone`, `SleepersAreNotified` | `WaitMeansDone`: every task that was running at the call is complete; a sleeper has something to wait for or its notification is on the way |
| | `SearchIsRight` | `does_follow`: `AnswersReachability` |
| `AsyncSignalProofs` | `Handling`, `TypeCorrect` | the inductive invariant; types, and what the pipes may hold |
| | `OnlyRemovalFailsHooks` | `OnlyOvertakenHooksFail`: a step at which the hook's assertion fails, or it uses a deleted handler, is of a hook whose entry was removed under it |
| | `CallbackKeepsHandler`, `NothingSleptOver` | `CallbackIsLive`, `SleeperPollsAll` |

Every safety property that a passing run checks is stated by one of these theorems; what
is left to TLC alone is liveness (at the end of this section).

Assumptions: `LockdepAssumption`, `MutexAssumption`, `NoThreadAssumption` (the two
numbers of lockdep.cpp are positive, mutexes are finite in number, a group's name is
not empty); `QueueAssumption` (sizes are positive, the pool is finite and holds one
whole task); `ThreadsDiffer`, `ThreadsAreThreads` (the clients are not the dpdk thread
or the destructor, a thread is not the value that means none); `SignalAssumption` (there is a
signal, bounds are numbers). `PartsAssumption` has those of the parts: `FatalAssumption`,
`AioAssumption`, `IoContextAssumption`, `SharedAssumption` (aios and waiters are finite in
number, bounds are numbers, and the values that mean "none" are no threads and no mutexes) and
`GeometryAssumption`: a block is a power of two and divides a task, the device and the
address space, it fits in a DMA buffer, and the device takes half of the address space
at most. (That `Modulus % BlockSize = 0` follows from both being powers of two, but the
provers do not reason about powers; TLC checks it of every run's values.)
`LockNeverDeadlocks` also assumes `TryLocks = {}`, and the run `mutex_debug_class` shows that
it has to. What lockdep promises about holders and order is stated of a start that found no
mutex in use (`~ midway`): an entry of `held` cannot be there for a mutex taken before.
The theorems of `AsyncSignalProofs` assume nothing about how long a hook takes;
`SleepIsShort` is about the code's own 16
attempts and 125 microseconds.

The parts share names of variables (`pc`, `stack`, ...), so that their theorems are
stated about `MCParts`, whose constants are those of the parts: the theorems hold for every
value of them, `Mutex` and `Group` of `SharedMutexDebug` included.

### The order of locks

`KnownDeadlocksDetected` is not inductive: nothing in it says why
a thread that waits could not close a circle. `IInv` adds

* of any state, however often lockdep has been started and shut down (`Base`): `Table`
  (names and ids are inverse to each other, registered ids are not free), `Kept`
  (references are at least the mutexes that have an id, or will get it written back by a
  thread that has read it, so that it is never given back under them), `Once` (with one
  start, all those ids are registered), `NoCycleRecorded`;
* while lockdep runs and its start found no mutex in use (`Inv`): `IdsStable` (the id a
  thread has read from a mutex differs from the mutex's only if it read -1, which
  registers lazily), `Registered` (every id in use that was not carried over from before
  the start), `Tracked` (who is said to hold a class holds a mutex of it), `Ordered` (a
  thread that waits for a mutex has an edge from every class it is said to hold to that
  mutex's class), `CleanEdges`.

If a set of threads were blocked on itself, `Ordered` would give each class they
wait for an edge to the next one and so a set of ids without an end: `NoCycleRecorded`
forbids that. Acyclicity is stated as "every non-empty set of ids has a member with
no edge into the set" (`LockOrder`), which needs no induction over paths; the lemma
`AddingEdgesKeepsAcyclic` shows that the edges of `lockdep_will_lock`, added only when
the new class reaches none of those held, keep it.

`RowsSuffice` and `AssertionsNeverFail` need two more invariants: the rows of `follows` against
the greatest id, and who is between locking the pthread mutex and counting it.

`SharedMutexProofs` cannot say that an id in use stays in the mutex: try_lock_shared writes
back the id it has read, perhaps -1 (finding 6). What stays is the class. `OrderInv` says of
each rwlock that it is `Given` (its id was set at the construction and every thread busy with
it has that one) or `Grouped` (its id, and what any thread has read of it, is -1 or the id
registered under its group). So what a thread waits for has one class whoever names it, and
`Ordered` and acyclicity do the rest. `CountInv` is about the counts *between* the steps: a
lock is owned one step before nlock or nrlock says so, and given back one step after.

`AnswersReachability` is about a search that marks no id as visited. `SearchInv` says that the
stack is a path from a, and that of the successors a frame is past none reaches b; when a frame
is through, it has no successor that does, and so does not reach b itself. Acyclicity
is needed for the end of the search alone.

### The I/O path

`BuffersOwnedOnce` alone is not inductive either: a completion gives back buffers of
a command it takes from a sequence. The invariant `IInv` of `NvmeQueueProofs` is

* `Shape`, `Phase`: types, and what each place in the loop implies: an idle thread has
  nothing in flight, only a write between its callback and release_segs is `releasing`;
* `Owned`: a command is in the queue pair, completed or releasing, never in two of them,
  and `Partition`: the free list and the commands' segments divide the pool;
* `Staged`: a context's pending tasks are asynchronous ones of that context;
* `OneKind`: all tasks of one call are alike: tasks that leave the Task of a read()
  alone, its single task, or its subtasks. This is what makes `ref` count down to the code
  of success exactly once;
* `Counted`: num_running is the queue depth and the tasks not issued (`left`),
  total_nseg the number of buffers not free.

`TypeCorrect` rests on a second invariant `DataInv`, proved inductive relative to `IInv`:
a write not yet executed and a read already executed have data in all their buffers. The
controller only touches the buffers of the command it executes, the pool only
lays hooks over buffers nobody owns, and `Partition` keeps them apart.

`Implements` needs a third, `RInv`, on top of both: `SlotsApart` (two tasks of a call never
use the same piece of the caller's buffer, and pending ones come in its order),
`Loaded` (a write that is not yet executed carries what its piece of the
caller's buffer holds *now*), and `CallCount` (the callback of a batch has run just
when its num_running is 0). The proof goes action by action. Calls stage the
blocks of their tasks; issuing, polling and release are stutters; the controller's step is a
step of `BlockIO` for the blocks of one command. Under the mapping a read is seen in
the caller's buffer as soon as the controller has executed it, though it is
copied out later, when it is processed: the mapping looks into the DMA buffers of commands
that are executed and not processed, which is why `Partition` matters here too. `Abort` maps to
the death of the process, whatever was half done.

### Where the bytes go

`GeometryInv` of `GeometryProofs` is a statement of progress, to the byte:

* while tasks are made, and after, they lie in a `Line`: each begins in the caller's
  buffer where the one before it ends, the last one ends where the loop is (at last, at
  the end of the call). Every task is a `GoodTask`: it lies inside the device, and byte
  `buf` of the caller's buffer is byte `off` (`off + tmp_off` in a read) of the device;
* `BufferAt(n)` and `DiskAt(n)`: exactly the first n bytes of the call have reached their
  end, where n is the `Front` of the line and what of its first task has been `Moved`;
* while SPDK transfers a task, `SglInPlace`: cur_seg_idx and cur_seg_left stand at the next
  byte of its current child, whether data_buf_reset_sgl set them in the middle of a
  segment or data_buf_next_sge went on to the next one. `SglFacts` gives from it the offset and
  the length that the callback reports, never 0;
* `Loaded`, `Fetched`: what the DMA buffers hold, segment after segment.

Lemmas are about the arithmetic under it: p2roundup computes the end of the last block from
negation and masks modulo 2^64 and stays inside the device (`RoundsUp`), and the number of
segments and the size of the last one fit the length (`SegmentsCover`, `PieceSize`).

### The others

* `NvmeManager`: every request is in at most one place (the queue or the dpdk thread's
  hands) while its client sleeps inside try_get with the manager's lock, so there is one
  client at a time and the answer it reads is its own.
* `IoContext`: what a call of `aio_wait` waits for is part of num_running (`Due`).
  `NoWakeupLost` (a thread about to sleep or asleep has something
  running, or the notification is on its way) holds because the last fetch_sub
  and the test before the wait are under one lock.
* `FatalSignal`: handler_tid names a thread as soon as one dumps, and only that thread's
  stack has a context past the compare-and-swap; a handler of another thread returns and
  changes nothing but that thread's stack.
  `DumpNotCutShort` follows from a second invariant about the action of each signal, which
  stays "handler" until the dump is written.
* `AsyncSignal`: a signal's hook is installed only while its entry is in `handlers`, and
  the entry of a running hook's signal is the pointer the hook has read, unless the entry was
  removed while the hook ran (`EntryBeforeHook`, `HookHasEntry`); so it does not matter
  to any other hook whether the build reads the pointer again. `Polled` says that a poll
  that nothing wakes is over every registered pipe except that of the handler whose
  registration is at `signal_thread`; its hook is not installed yet.
* `AioQueue`: done and left divide the batch, and what the kernel took is its first part.
  `SleepBounded` rests on the table of the 17 pairs of attempts left and next delay: what was
  slept since the last progress is less than the next delay.

Only model-checked: liveness (`CallsReturn`, `QueuedAnswered`, `DestructorReturns`,
`SignalHandled`, `ShutdownReturns`, `ProcessEnds`, `SubmitEnds`, `WaitersReturn`, `SearchEnds`):
fairness and ENABLED are outside the prover. That the recursion of does_follow is what
`LockOrder!Reaches` says is proved of the recursion with an explicit stack.

## 6. Findings

Each is a run that TLC must find violated.

1. `nvme_queue_destroy`: io_complete's comment says the callback may destroy the
   IOContext; the code uses it afterwards (`driver_queue.cpp:35` and `:199`).
2. `nvme_manager_tcp`: the dpdk thread probes for ever the first address it was given;
   a second fabric target fails the assertion that says it always matches.
3. `mutex_debug_class`: a thread that holds two mutexes of a class and releases
   one is said to hold neither, and a deadlock goes unreported.
4. `mutex_debug_name`: the class is registered under the moved-from, empty name.
5. `async_signal_unregister`: a thread at the beginning of the hook when its
   handler is unregistered fails the assertion that the comment says cannot fail.
6. `shared_mutex_id`: try_lock_shared reports an unlock before it has the lock, and
   that writes the id it has read, perhaps -1, back over one registered meanwhile
   (`mutex_debug.cpp:127` and `:41`). The holder's unlock is then not recorded, and its next
   lock of the class ends the process as a recursive lock that is none.

Smaller disagreements met while modelling, for which there is no run:

* `signal_handler.cpp:89` says SIGABRT is masked while its handler runs; the handlers
  are installed with SA_NODEFER and an empty mask (`FatalSignal` models the code). A second
  thread's `abort()` may also end the process in the middle of the dump, which is why
  `DumpNotCutShort` excepts it.
* `driver.hpp:33` takes the extended sector size as the block size, which is no power
  of two when metadata is interleaved (520), while `p2align` needs one.
  `GeometryAssumption` says that it is.
* `io_queue.cpp:23` asserts the length of a batch after the array on the stack was filled.
* `off + len <= size` (`nvme_device.cpp:308`, `block_device.cpp:77`) is computed in
  uint64_t and passes when the sum wraps around, for lengths near 2^64. `IoGeometry` has
  these calls: no task reaches beyond the device (`IssuedIsInside`), but a read moves a
  first part of what was asked and returns as if it were all, or makes no task and
  returns 1; a write needs more tasks than any memory holds.
* `lockdep_unregister` says "I think it should never get here!" (`lockdep.cpp:197`), and
  `lockdep_global_destroy` clears its state "in case it starts up again" (`:60`). A mutex
  that exists at a shutdown keeps its id, as the static m1 and m2 of `test.cpp:24` do;
  after a second start its destructor fails the assertion. `main` starts lockdep once. There
  the assertion fails only if the shutdown comes between a destructor's question
  `lockdep_enabled()` (`mutex_debug.cpp:24`) and its call. `NeverGetsHere` says just this much.

## 7. Abstractions and what is not modelled

* In `NvmeQueue` lengths and offsets are in units of one DMA buffer (8 KiB), and
  `valid_io` is the range check of `is_valid_io`. `IoGeometry` has the bytes, and
  64-bit arithmetic as arithmetic modulo `Modulus`. A task has 128 KiB and a buffer 8 KiB,
  so the second list of segments (`extra_segs`) is never used and left out.
* One thread drives an IOContext, as the code's assertion says; callbacks submit
  no further I/O.
* The manager's `nanosleep` has no effect on the order of steps that is not already
  possible. `find_first_bitset` is applied to a constant. A probe that fails
  before it attaches a controller leaves what one does that finds none; one that fails after it
  ends the process by the assertion `!ctxt->driver` (`ProbeAsserts`).
* lockdep's backtraces and `lockdep_dump_locks` are output. lockdep is started and shut
  down at any step of any thread, and mutexes outlive it, as the static ones of `test.cpp`
  outlive the guard in `main`; each of its functions is one atomic step.
* In `AsyncSignal` one thread registers and unregisters, a signal is registered
  again only after it was unregistered, the whole is shut down only when no hook
  is installed, pipes never fill, handlers do nothing, and `info_t` (only logged) is left
  out. The hook's unlocked uses of `handlers[signum]` may each see the old or the new
  pointer: the build may load it once or every time. A hook may run for as long as it likes,
  while its handler is unregistered too.
* `SharedMutexDebug` has as many ids as it needs (`MutexDebug` has what happens without);
  `MaxRefs` bounds the references a class can gain by being registered again.
* `AioQueue` is the libaio build; the POSIX AIO build, the results of an aio and
  its preparation are left out. Nothing in the repository calls the queue yet.
* `FatalSignal` leaves out what the dump prints. `MaxTroubles` bounds the faults, aborts
  and signals from outside together.
* Not modelled: the recursive mutex (it reports nothing to lockdep, so only pthread's own
  recursion is left); `condition_variable_debug` (a typedef of `std::condition_variable`);
  `register_device` and `remove_device` (a vector that only one thread uses); the choice
  of the device type in `BlockDevice::create` (a table and a file name); `KernelDevice`
  (every operation returns 0); `init`, `global`, `backtrace`, `dout`, `util` (run
  once in one thread before anything else, or output only); names and affinity of `Thread`
  (thin wrappers of system calls). `PROJECT.json` lists each under "components".

## 8. Plan

Done, in this order: the I/O path and its abstraction, the manager, lockdep and its
proofs, IOContext, asynchronous signals; then the geometry of buffers, reader-writer
mutexes, fatal signals and the kernel queue; then proofs of every safety property that the runs
check, and of the refinement of `BlockIO`. What is left, by value:

1. `NVMEDevice` open and close on top of `NvmeManager`: several devices on one
   controller, and a thread's queue that stays bound to the first.
2. Pipes of `AsyncSignal` with a limit: a flood of one signal blocks the hook in
   its write (`signal_handler_async.cpp:187`).
3. Theorems on what liveness rests on, where a step suffices: that a waiter is never left
   without somebody who will wake it (`NvmeManager`), that the search's stack is a path
   without a repeated id and so never deeper than the number of ids.

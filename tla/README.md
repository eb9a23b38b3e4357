# A TLA+ model of BoxedVN's concurrent core

BoxedVN runs Wine on iOS by emulating a Linux kernel and an x86 processor inside
one host process (it is a port of Boxedwine). In the build the iOS app ships
(`BOXEDWINE_MULTI_THREADED`) every guest thread is a host thread, so the emulated
kernel is a shared-memory concurrent program with its own locks, condition
variables and teardown. This project models the parts whose correctness depends
on the order of steps of several threads, checks them with TLC and proves the
main safety properties with TLAPS.

## 1. Inventory

| Part | State | Operations | What is hard |
|---|---|---|---|
| Futex table (`source/kernel/kthread.cpp`) | `systemFutexes`, one condition per entry, `waitingCond`, `startSignal`, `terminating` of each thread | `futex`, `futex64`: wait, wake, bitset, requeue; wake on exit | Three locks that nest one way only; a store and its wake are two steps; the host pointer of a page changes under a sleeping waiter; timeout, signal and termination race a wake |
| Process exit and `waitpid` (`kprocess.cpp`, `ksystem.cpp`, `normalPlatformMultiThreaded.cpp`) | thread table, `terminated`, `exitCode`, process list, `processesCond` | `exit`, `exit_group`, fatal signal, SIGKILL, `clone`, `deleteThread`, `waitpid` | Threads end each other while they end themselves; one of them takes the address space down; the parent must see it once |
| Stream sockets (`kunixsocket.cpp`, `ksocket.cpp`) | buffers, `inClosed`/`outClosed`, weak references to the peer, the listener's queue | read, write, messages, shutdown, close; connect, accept | The peer's death is announced by a destructor on whichever thread drops the last reference; connect is restarted after a signal |
| `poll`, eventfd, signalfd (`kpoll.cpp`, `kevent.cpp`, `ksignal.cpp`, `util/synchronization.cpp`) | counters, pending signals, parents of each condition, the descriptor table | poll, read, write, kill, close, dup | Readiness is tested under another lock than the one events are made under; locks of three layers nest in two orders; a poll looks its descriptors up three times while others close and reuse them |
| Mapped files: leases (`kprocess.cpp`, `kmemory.cpp`, `kfile.cpp`) | leases of a file's cache, `mappingLeaseCount`, reservations, the queue of failed retirements | mmap, unmap, exec, exit, clone, msync, shutdown | Stores reach the file only with the last lease; the writeback runs outside the locks and may fail |
| Mapped files: pages (`kmemory.cpp`, `soft_file_map.cpp`) | resident pages, `possiblyDirty`, `mutationGeneration`, `filePosMutex` of each descriptor, `mutationOperationMutex`, the mapping of an address | page fault, store, write, ftruncate, msync, mmap | A page is loaded without the lock that changes of the file are made under, but with the one that precedes it; write(2) faults on its buffer with both held, and reads it twice |
| Executable arena (`ios/runtime/src/BVNExecMemory.cpp`) | segments, `gPrepared`, `gProbed`, `gExecutionConfirmed` | prepare, probe, allocate, write alias, release | An external debugger that refuses, answers late or never; abandoned workers; flags without a lock |
| Range allocator (`BVNRangeAllocator.cpp`) | free list, map of allocations | reset, allocate, release, contains | Splitting and merging, alignment at the end of a range |
| Robust lists, timerfd, inotify, netlink, host sockets, file locks | object state, one lock and condition each | read, write, close, lock | An event between test and sleep |
| Signal delivery, ptrace | pending sets, masks, stop state | `signal`, `runSignals`, `sigtimedwait`, stops | Interrupting a thread that is about to block |
| `execve`, translator role | one translated address space for all processes | exec, fork, release | Hand-over between processes while threads run |
| Memory (softmmu, `kmemory64.cpp`) | pages, reference counts, copy on write | mmap, fork, fault | Sharing across fork |
| File system | nodes, paths | open, rename | mostly sequential |
| CPU emulation, JIT, FEX | registers, code cache | execute, translate | instruction semantics, not protocol |
| X11, OpenGL, Vulkan, SDL, UI, Swift app | windows, command streams | drawing, marshalling | I/O |

Parts interact through five channels: the thread table and `terminating` flag of a
process (exit reaches into every blocking call), the conditions threads sleep on
(`waitingCond` is how a signal or a termination finds the one to notify, parents
are how an event reaches a poller), `processesCond` (exit to waitpid), guest
memory (futex words, `clear_child_tid`, mapped files), and the leases a process
takes over from its parent and gives back when it ends. `PROJECT.json` lists every
part with its status, and the hazards each is exposed to.

What makes the modelled parts correct:

* futex: a wake that is counted is delivered; a waiter whose word changed is woken
  or somebody is still on the way to wake it; every way out of a wait gives the
  entry back; termination always gets a thread out.
* exit: nothing is torn down under a running thread; exactly one thread ends the
  process; the parent neither sleeps through the end nor reads a wrong status.
* sockets: a reader learns of data, a shutdown and the death of its peer; what is
  closed stays closed; a connector is queued, taken and paired once.
* poll: no event falls between the test and the sleep; no registration outlives
  the call; nobody waits for a lock in a circle. The code keeps the first for an
  object with one poller, the second while nobody closes a polled descriptor, the
  third while nobody polls a signalfd (section 6).
* mapped files: every store reaches the file, nothing older overwrites it, no
  mapping shows bytes the file does not have (but for those of a write(2) whose
  buffer changes under it), no lease is lost or given up early.
* arena: a block of code belongs to one owner, stays mapped and recorded until it
  is released; no page that StikDebug prepared is lost.

## 2. Modules

    Futex <-- FutexProofs                     MappedLeases <-- MappedLeasesProofs
       ^-- MCFutex                               ^-- MCMappedLeases
    ProcessExit <-- ProcessExitProofs         MappedPages <-- MappedPagesProofs
       ^-- MCProcessExit                         ^-- MCMappedPages
    SocketStream <-- SocketStreamProofs
       ^-- MCSocketStream                     RangeAllocator <-- FreeList <-+
    SocketConnect <-- SocketConnectProofs        ^                  :       |
    Poll <-- PollProofs                       JitArena              v   ArenaProofs
       ^-- MCPoll                                ^              BlockMap    |
                                                 |            (implemented) |
                                                 +--------------------------+

An arrow reads "is extended by"; `FreeList` instantiates `BlockMap` and implements it.

### Futex

One step is one critical section of an entry's condition; a walk of the table is
one step per entry, so waiters move in the middle of a walk. Both lanes are in one
module: `Lane[t]` says whether a thread calls `futex` (looks up the entry again on
each turn of its loop, compares under the condition) or `futex64` (pre-checks the
word and compares again after it has published its entry).

| Variable | Code |
|---|---|
| `word`, `gen` | guest memory; `gen` counts the host pointers a page has had (`K64Page::adoptShared`, `adoptNative`) |
| `table` | `systemFutexes`; an entry has the fields of `struct futex` |
| `walk` | who holds `systemFutexesMutex` in a wake, where it is, how many it has woken |
| `slot`, `waitingCond`, `notified` | the local `f`, `KThread::waitingCond`, a notification under way |
| `pending`, `startSignal`, `terminating`, `sig` | signal and termination state |
| `owes` | history variable: wakes the program still owes for its stores |

Actions: `WaitCall`, `Lookup`, `Precheck`, `Alloc`, `Compare`, `Resume` (a wait),
`WakeCall`, `RequeueCall`, `LockTable`, `WalkEntry`, `WalkEnd` (a wake),
`SignalRead`, `SignalDeliver`, `TakeSignal` (`KThread::signal`: it reads
`waitingCond`, then takes that condition and looks again), `Terminate`
(`terminateOtherThread`), `ExitStore`, `ExitWake`, `ClearFutexes` (exit with
`clear_child_tid`), `Store`, `Repoint`. A guest that stores to a word owes a wake
for it (`owes`, `Discharge`): that is the contract under which a futex can promise
anything, and what a lost wake-up is measured against.

### ProcessExit

One process, its threads and one thread of its parent. A step is one critical
section of `threadsMutex` or `processesCond`, or one unlocked store another thread
can see. `May` gives each thread its workload. A thread with `terminating` set
goes on running guest code until its loop looks (`LoopTurn`), so it may make any
call in between. `killAllThreads` is four steps (`Snapshot`, `TerminateOther`,
`AwaitRemoved`, `KillDone`), `exitgroup` nine, the tail of `platformThread` and
`deleteThread` five. `waitpid` tests and parks on `processesCond` in one step, as
the code does.

### SocketStream

A connected pair and the threads that use it. A socket hears of its peer's death
from the peer's destructor, which runs on the thread that drops the last
reference: a descriptor (`open`), a call that still uses it (`self`), or a `con`
that a call has locked. References are therefore state, and the destructor
(`Destroy`, with `victim` and `resume`) is a step of its own. Actions: `Read`,
`ReadDrop`, `Recvmsg`, `Receive`, `Wake` (a read: the peer is looked up and
dropped before the lock is taken), `Write`, `WriteNative`, `Sendmsg`, `ShutdownOwn`
and `ShutdownPeer` (two critical sections), `SetBlocking`, `Drop`, `Return`,
`Close`, `Destroy`, and the disturbances `Terminate`, `TerminateSignal`
(`terminateOtherThread` marks, then notifies) and `SignalThread`. Buffers count
writes; messages with control data are a second queue, as in the code.

### SocketConnect

connect and accept around one listener. `Connect` decides what to do from the
socket's state (it is also where a restarted connect begins), `Push` queues the
connector and signals the listener, `ConnectLock` and `ConnectWake` wait;
`Accept`, `AcceptTake` and `AcceptPair` take the head of `pendingConnections` and
make its peer (`AcceptWake` resumes a sleeper). All sockets can be closed at any time, with their destructors, and
threads signalled and terminated.

### Poll

A poller registers its own `pollCond` as a parent of the conditions of what it
polls; whoever signals an object holds the object's lock and takes the parent's.
So the locks are variables: `fdsMutex`, `lockCond` of each object, `pollCond` of
each thread, `pendingSignalsMutex`. `PollCall`, `Register`, `PollLock`, `PollTest`,
`PollWake`, `PollTimeout`, `Clear` are `internal_poll`; `EventCall`, `Lock`, `Eval`,
`Wake` are read and write of an eventfd; `Scan`, `SignalParent`,
`ScanEnd`, `NotifyOne` are `signal` of a condition with parents; the `Sigread...` and
`Kill...` actions are the signalfd and `KProcess::signal` with `signalFd`.

A poll names descriptors, and the table (`fds`) changes under it: `Close`, and
`DupCall` with `DupAlloc`, which takes the lowest free one. `Register`, `PollTest` and `Clear`
each look the descriptors up at that moment. So `Clear` removes the thread from what
they name then: what it registered with through a descriptor that was closed since keeps it
as a parent, in one of two slots (`MAX_PARENTS`), and a full object ends in a `kpanic`
(`panicked`). A descriptor that is closed when the poll registers gets `POLLNVAL` (`nval`),
which `PollTest` counts only if the descriptor is open again. Two history variables say what
a registration is worth: `found`, the objects a poll registered with and whose
descriptor has not been closed since, and `loose`, those whose descriptor has. dup2 is
not modelled: it is a close and a dup in one critical section.

### MappedLeases

The leases of one file's `MappedFileCache`. The file is one byte with versions:
`mem` is the cache, `disk` the file. `gate` is `mutationOperationMutex`, held across
a writeback and therefore state; every other step is one critical section. The
record `th[t]` has the thread's label, the lease it works on, those it still has to
retire, its return label, and for a clone the leases it has reserved (`held`) and
made (`new`).

| Actions | Code |
|---|---|
| `Store`, `Pwrite`, `Msync` | guest stores, `KFile::pwrite`, `KProcess::msync` |
| `Mmap`, `Retain`, `Commit`, `CommitFails` | `KMemory::mmap`: cache and lease, the retain, the record after MAP_FIXED removed what was there |
| `Unmap`, `MmapAnonymous`, `UnmapLocked`, `Drain` | `KMemory::unmap`: records go or are split; leases without a record are retired after the locks are dropped |
| `Retire`, `Prepare`, `PrepareFails`, `Write`, `WriteFails` | `MappedFileLease::retire`, `MappedFileCache::retireMapping`, `KFile::writeback` |
| `Queue`, `Retry`, `Attempted` | the process-wide queue of retirements to be tried again |
| `Exec`, `Exit`, `RetireAll`, `RetiredAll` | `onExec`, `cleanupProcess`, `retireAllMappedFiles` |
| `Clone`, `CloneFails`, `Acquire`, `AcquireFails`, `Release`, `Publish`, `Discard` | `cloneMemoryAndProcess` and `clone`, with reservations that keep the parent's leases until the child has its own |
| `Shutdown`, `Destroy`, `Abandon` | `KSystem::destroy` and `shutdownPendingMappedFileRetirements` |

Not in the model: CLONE_VM (one table, two processes), other files on the same
queue, the overflow of a reservation count at 2^32.

### MappedPages

The pages behind one address of a process, for a file that several descriptors are
open for. A fault reads the mapping (`Fault`), looks in the cache and remembers the
generation (`Check`), reads the file (`Load`), installs the page if the generation is the
same (`Install`) and sets the entry if the mapping is (`SetPage`). `Load` does not take
`mutationOperationMutex` (`gate`), but it takes the `filePosMutex` (`pos`) of the
descriptor the file was first mapped through (`CacheFile`; `kfile.cpp:303`), and every
call on a descriptor has that of its own while it waits for the gate (`FileCall`). The
calls are write(2) (`BeginWrite`, `WriteFile`, `UpdateWrite`), ftruncate(2) (`Truncate`,
`SetLength`), msync(2) (`Msync`, `Flush`, which may stop half way) and mmap(2), which gives
the cache the file's length, as a new generation, before it maps (`Reconcile`, `Remap`).

write(2) reads the guest's buffer twice, for the file (`WriteFile`) and for the cache
(`UpdateWrite`, `fsopennode.cpp:75` and `:89`). The buffer is other memory of the guest
(`buffer`, which `Fill` changes) or the mapped address itself (`"writeMapped"`): then the call
faults on it with both locks held (`BufferFault`), and a store may change it between the
reads. `torn` is a history variable: the resident pages that such a write has left with
bytes the file did not get.

A page is one byte, a write is one chunk, and the copy that a private mapping makes on a
store is left out, as are fallocate, an open with `O_TRUNC`, and a failed read of the file
in a load (the code ignores the result and installs zeros). A truncation that fails
changes nothing. The module starts where `MappedLeases` stops: the cache exists and
stays.

### RangeAllocator, FreeList, BlockMap

`RangeAllocator` has the operations as operators on the value of an allocator
object; `FreeList` is the object under every sequence of calls; `BlockMap` is what
it promises: a map of disjoint blocks, a request placed at the lowest free aligned
offset and refused only when there is none. `FreeList` implements `BlockMap`
(`PlacesEveryRequest`) with `blocks <- allocator.allocations`: the free list, with its
splits and merges, is an optimisation nobody can observe. `MaxSize` is the largest
`size_t`; capacities lie below it.

### JitArena

The arena and the two workers of the application that enter it. `pc`, `ret` and
`mine` are a worker's program counter, return labels and local `mapping`; a mapping
stands for the r-x pages and their rw- alias. `Timeout` lets the caller go on while
its worker is still waiting for StikDebug; the answer may come at any later time,
or never (a worker that takes no step). `Extend` holds `gArenaMutex` over the
remaining requests, as the code does. `GuestRelease` is
`Platform::releaseNativeMemory`: what the arena does not own is unmapped.
`SettingsProbe` is the button of the settings page, which enters the arena in any phase
of a launch; a launch's own FEX probe then waits behind it on `gProbeMutex`.
`settingsUsed` remembers that the button was used. One simplification: `addCodeSegment` allocates
and looks up the writable alias in two critical sections, which the model joins;
the look-up can only fail if the segment has gone, which `BlocksAreOwned` excludes
while the settings page is not used.

## 3. Runs

| Run | Instance | Shows |
|---|---|---|
| `futex_disturbed` | two processes that share the page; waiter with timeout, signalled and terminated; requeue; a waker that exits; one change of the host pointer; 2.1 M states | no wake is lost or handed to a thread that has not parked, under every disturbance; `startSignal` never outlives the wait |
| `futex_liveness` | a timed waiter that may be ended and a waker; 66 k states | a terminated waiter leaves; a store and its wake reach the waiter |
| `exit_ending` | three threads with exit, exit_group twice, a fatal signal; parent waits, kills, ends; 0.6 M states | quiet teardown, one ender, no missed exit |
| `exit_liveness` | one exit_group, against a thread that creates a third one in every phase of it and exits; a parent that waits and kills; 0.2 M states | drained before the end, with new threads too; the process ends, told threads go, the wait returns |
| `exit_twogroups` | two threads in exit_group | a violation: they wait for each other for ever (section 6) |
| `freelist` | segments of 0 and 8 units, lengths and alignments that do and do not divide them; 5,842 states | tiling, refinement of `BlockMap` |
| `arena` | three mappings, two segments of two pages, two workers and the settings page; 1.9 M states | execution is confirmed only by a call into the arena; while the settings page is not used, blocks are owned and disjoint, the probe misses live code, no page is lost |
| `sockets_stream` | a reader of one end that is signalled and ended, a thread that closes both ends, one that shuts down and sends; 0.15 M states | a reader learns of data, shutdown and death; both ends agree on what is closed, for good; killed readers leave |
| `sockets_connect` | two connectors, one of them non-blocking and one signalled and ended, two acceptors, sockets closed at any time; 0.4 M states | a connector is queued once; no acceptor sleeps beside a queued connector |
| `poll` | four descriptors, two of them for one eventfd; a poller with and without timeout that also reads the signalfd, a writer that also sends a signal, a reader that closes the polled descriptor and duplicates the eventfd again; 0.11 M states | no two threads hold each other's lock, no event falls between test and sleep, only a close leaves a registration behind; a poll for something ready returns, killed sleepers wake |
| `leases` | two mappings of a file, unmapped in two pieces, cloned, exec'ed, exited, with one failing writeback and shutdown at any time; 0.6 M states | leases are counted, reserved ones stay, nothing stored is dropped or forgotten, the file never goes back, shutdown ends |
| `pages` | two pages of a file with two descriptors; a thread that faults, stores and syncs, one that writes from the mapped page, one that maps, truncates and writes through the other descriptor; 0.52 M states | clean resident bytes are the file's, except those of a write whose buffer changed under it; an entry shows what is mapped; a stored-to page is never taken for clean; faults return |

*Bounds.* Two waiters and one waker are what a walk can tell apart: one waiter that
is claimed and one that is passed over, in both orders, and entries reused by the
other. One re-pointing of a page suffices to make a stored host pointer stale. A
word has two values, expected and not. In `ProcessExit` three threads give one that
ends the process, one it waits for and one that interferes with both (or is
created on the way). `FreeList` needs room for a block between two others plus an
alignment gap. In `JitArena` a third mapping lets a second preparation succeed while
the first one's segments are still mapped. A socket's buffer holds one write
(`MaxQueued`): full, empty and drained are the states a caller can tell apart. `Poll`
has one poller (two of an object starve each other, see section 6), whose second slot a
registration left behind can take, and a counter that is full at one. `MappedLeases`: a clone of two mappings needs four leases;
a record splits in two pieces; a guest writes once and one writeback fails, which is
what it takes to queue a retirement and to retry it; `msync` is called only when
the file is behind, which prunes calls that change nothing. `MappedPages`: two pages,
so a file can end between them; two values stored, one before and one during a write;
three calls on descriptors, which give a change of length, a write beyond the new end and
another mapping, or two writes that need each other's locks.

*Deadlock* is checked for `FreeList` and `JitArena`, which always have a next step. It
is allowed elsewhere: a guest may stop making calls, a waiter nobody wakes sleeps
for ever, and `MappedLeases` stops after shutdown.

*Fairness.* The host scheduler runs every runnable thread: a thread inside the kernel
that is not asleep takes its next step, a notified sleeper resumes, the deadline of a
timed wait comes, and a `killAllThreads` or `terminateOtherThread` that has begun goes
on. All of it is weak fairness per thread, except one assumption about the guest:
`Futex!FairSpec` has strong fairness of `Discharge`, since a program that stored to a
word and never manages to make the wake it owes has no claim on its waiters. Nothing
is assumed of a sleeper nobody notified, of what guests call next, or of who gets a
contended lock. `FaultReturns` is about a bounded number of calls that change the file: the
code's loop retries as long as somebody else does. It is restricted to programs that write
from mapped memory only through the descriptor that loads it (`OwnBuffers`), as the run's
does; without that faults can deadlock (section 6).

## 4. Proofs

Eight modules hold proofs, for every value of the constants that satisfies the named
assumptions of each module. Each argument is an inductive invariant with one lemma
per action.

*Futex.* `IInv` is `TypeOK` with: `LockInv` (the walk belongs to the thread that is
walking), `SlotInv` (a thread's slot and an entry's thread point at each other),
`CondInv` (`waitingCond` is set exactly while parked), `EntryInv` (what an entry
holds agrees with where its owner is: a claimed entry's owner is parked and
notified), `HostInv` (a resolved host pointer was one of that page's) and
`NoLostWake`. `NoLostWake` is not inductive alone: a wake that has passed an entry no
longer owes it anything, so one has to know that an entry which joins behind the
walk compared the word after the store. Theorems: `TypeCorrect`, `NoEntryLeaks`
(`OneEntryPerWait`), `ClaimsAreParked` (`ClaimedIsParked`), `WakesAreNotLost`
(`NoLostWake`), `ClaimsAreHonoured` (the action property `ClaimIsHonoured`),
`StartSignalsAreConsumed` (`StartSignalConsumed`: it rests on `CondInv`, because
`KThread::signal` raises `startSignal` only for a thread whose `waitingCond` it finds
set under that condition, which is a thread that is parked).

*ProcessExit.* `DrainInv` is `TypeOK` with: unborn threads are in no table
(`BornInv`), a newborn belongs to one creator (`NewbornInv`), ids and targets of a
`killAllThreads` are consistent (`KillInv`), a thread is in the table or out of
guest code until the process is terminated (`TableInv`), only the thread about to
set `terminated` is past the drain (`GroupInv`), and the ids done with are out
(`DoneInv`). It gives `EndsDrained` and, with the wake-up argument of `WakeNext`,
`ExitsAreNotMissed`, with clones and kills allowed. `QuietInv` adds, for a process that
creates no threads (`NoClones`), that a snapshot covers all the others (`CoverInv`)
and at most one thread is past its own drain (`AloneInv`), giving `TeardownIsQuiet`
and `EnderIsAlone`. The restriction is necessary: a thread created after the
snapshot survives it (`GainsNone` in section 6).

*SocketStream.* `IInv` relates references to announcements: what a call holds and
where it is (`CallInv`), a victim is dead and its destructor owed once (`VictimDead`),
a reader that sleeps has been told nothing it would act on (`Told`), shutdowns in
progress (`ShutInv`), the flags of both ends (`HalvesInv`), and that a dead socket's
peer has been told or a destructor is still owed (`OutInv`). Theorems: `TypeCorrect`,
`ReadersAreTold` (`NoOrphanReader`), `EndsAgree` (`HalvesAgree`), `ClosedIsFinal`
(`ClosedInputIsFinal`).

*SocketConnect.* `IInv` is `TypeOK`, a connector occurs once in the queue (`Once`) and is
in one stage of queued, taken, paired (`OneStage`), the acceptor's local names what it
took (`Named`), pairs point at each other (`PairInv`), and `NoIdleAcceptor`, which needs
the others to show that a queued connector's signal is still to come or has been
used. Theorems: `TypeCorrect`, `QueuesOnce` (`QueuedOnce`), `AcceptorsAreTold`
(`NoIdleAcceptor`).

*Poll.* `CtlInv` (what a thread holds at each label), `MayInv`, `LockInv` (a lock's owner
is at a label that holds it), `FoundInv` (what a poll found when it registered is what its
descriptors still name) and `StrayInv` (a parent registered through such a descriptor, or
through one that was closed) are inductive together, for every program, with closes and
dups. They give `TypeCorrect` and `OnlyCloseLeavesStrays` (`StrayWasClosed`).
`NoEventLost` is `Spec /\ []SoleParent => []NoLostEvent`: `RegInv` (a poller is a parent of all
that it found) and `NoLostEvent` are kept by every step as long as no object has two parents and
none had no slot. The premise is about the behaviour, not the program, because a
registration left behind is a second parent too: with two, the event goes to the first
only and the theorem is false (section 6). `HoldInv` says which locks a thread
has by where it is, and that whom it tells has the object in its program; under
`NoSignalPoller` (nobody polls the signalfd) every lock a thread waits for then comes after
all those it has in one fixed order (`LocksAreOrdered`), which excludes a ring of any
number of threads and gives `LocksHaveNoCycle` (`NoLockCycle`). The assumption is necessary:
see section 6.

*Allocator.* `ArenaProofs` first proves of `reset`, `allocate` and `release` that they
keep `AllocatorInv`: free ranges are in order with gaps between them, every byte is
free or in one block, `available` counts the free ones. The lemmas on splicing,
inserting and joining ranges carry the argument. For `FreeList` it adds `RangesAreTyped`,
`BytesAreTiled` (`Tiled`), `AliasIsExact` (`ContainsIsExact`) and the refinement
`ImplementsBlockMap` (`PlacesEveryRequest`): the first free range that fits, after
alignment, is the lowest placement there is.

*JitArena.* `IInv` is `CtlInv` (shapes of the return stacks), `AppInv` with `Quiet`
(without the settings page the second worker enters the arena only after
confirmation, when the first no longer changes it), `SegInv` (every segment's allocator
satisfies `AllocatorInv`) and `PlaceInv` (segments are distinct mappings of mapped pages, each live
block is recorded in one of them). Theorems: `TypeCorrect`, `ConfirmedAfterExecution`
(`ConfirmedByExecution`), `ProbeIsAlone` (`ProbeMissesLiveCode`), `PagesAreKept`
(`NoPagesLost`), `BlocksStayOwned` (`BlocksAreOwned`), `SegmentsStay` (`ArenaRetained`).

*MappedLeases.* The properties count leases and compare bytes; the argument is about
custody. `IInv` is `TypeOK` with: what a frame holds at each label (`ShapeInv`), the
queue without repetitions and nothing abandoned before shutdown (`QueueInv`), and for
every lease (`LeaseInv`) that it is in one place, the table of one process, the hands of
one thread, the queue or what shutdown gave up, and in some place while it is retained
(`PlaceOK`); that its status fits the place (`StatusOK`); that its reservations are the
clones that have it, and that nobody writes it back meanwhile (`ReserveOK`).
`CountInv` is the count. `DataInv` is about the bytes: the file is never ahead of the
cache, they agree when there is no lease or no descriptor to write through, and what a retirement
copied under the gate is all there is to write until the gate is dropped, since its
lease is the only one left and a store needs another. A thread that tries the head of the
queue does so in the middle of a call of its own, whose leases are still in its hands:
`Phase` is the label it returns to, and custody is defined by it. Two facts were
found missing by the first attempt at the proof: that a lease whose retry succeeded is
retired although it is still queued, and that an abandoned lease is retained.
Theorems, all from `Configuration`: `LeaseTypeCorrect` (neither count underflows, so the
panics of `retireMapping` and `releaseCloneReservation` are unreachable), `CountIsExact`
(`LeasesCounted`), `NothingIsLost` (`NothingUnwritten`), `ReservationsHold`
(`ReservedStays`), `NoLeaseForgotten` (`NoneForgotten`), `FileMovesForward` (the action
property `DiskMovesForward`).

*MappedPages.* A change of the file has two halves, with the gate held and faults
running between them. `IInv` is `TypeOK`, of which `Owners` is a part (each lock is with the
thread that works under it, at whatever depth of a fault inside a write), with: what lies
beyond the end of the file is empty (`EmptyBeyond`); file and cache agree on the clean pages
that are not torn while nobody is between the halves (`Settled`); what may
differ between the halves of a write (`WriteHalfDone`) and of a change of length
(`ResizeHalfDone`); a value loaded in the present generation is right for every page that the
second half leaves alone (`LoadedInv`), which is why one counter is enough to throw stale
loads away; what a flush has copied is resident, marked and within the file
(`FlushInv`); and a fault has the page of its mapping for as long as the mapping is there
(`Knows`). A torn page stops being an exception when a later write or truncation makes
cache and file agree on it again. Theorems, from `Configuration`: `TypeCorrect`, `FileIsShown` (`Coherent`),
`EntryShowsMapping` (`EntryIsMapped`), `SharedPageIsDirty` (`SharedIsDirty`).

*Only model-checked*: the liveness properties (`TerminatedLeaves`, `StoreReachesWaiter`,
`GroupExitEnds`, `ToldThreadsGo`, `WaitReturns`, `ReaderSeesClose`, `KilledReaderLeaves`,
`PollReturns`, `KilledSleeperWakes`, `ShutdownEnds`, `FaultReturns`), because the prover has
no support for fairness or ENABLED, and the absence of deadlock where a run checks it. Every
invariant and every action property of a passing run is stated by a theorem.

## 5. Mutants

Every property of a passing run has a `Fault...` operator next to the definition it
replaces: a compare that is dropped, a wake key that is the host pointer, a snapshot
that skips a thread, a notification that is forgotten, a free range merged on one
side only, a destructor that does not tell its peer, a registration of the first descriptor only, a
lease released before the writeback, a page installed whatever the generation. TLC
finds the property violated with each.

## 6. Where the code and its own statements disagree

`exit_twogroups` is the one with a run: two callers of `exit_group` wait for each other
for ever, although `syscall64.cpp:1651` says a group exit forces termination. The
line is quoted in `PROJECT.json` under `findings`.

The modules state more that TLC refutes and no run lists:

* `AcceptedConnectReturns` (`SocketConnect`; one connector that is signalled and one
  acceptor): a connect restarted after a signal finds its connector already
  accepted and waits for a second acceptance, against the comment "this will be
  handled when the connecting thread is unblocked".
* `DestroyedLeavesQueue` (`SocketConnect`, constants of the run): a connector may be destroyed while the
  listener's queue still names it (`kunixsocket.h:80`).
* `NoLockCycle` with `May <- Signals` (`MCPoll`; two threads): a poll on a signalfd tests it with
  `pollCond` held, a kill signals it with `pendingSignalsMutex` and takes `pollCond`. No
  poller of the signalfd is in the run or under the theorem.
* `NoStray`, that every parent of an object is in a poll that names it (`Poll`, constants of the
  run): `clearPollData` (`kpoll.cpp:27`) looks each descriptor up again and skips those that are
  gone, so a close by another thread leaves the registration (`StrayWasClosed` says that nothing
  else does). It stays until the same thread polls the object again; meanwhile it takes one
  of the object's two slots, so that two pollers are one too many (`kpanic`), and `signal`
  passes an event on to the first parent it finds, which may be this one: `NoLostEvent` is
  violated once another thread polls the object, even if the two never poll at once
  (`MCPoll`, two threads that poll `ev`, one of them through the descriptor that is closed).
* `FaultReturns` without `OwnBuffers` (`MCMappedPages` with `writeMapped` through `f2`, `write` through
  `f1`): one write has the gate and needs the `filePosMutex` of the mapping's descriptor to load its
  buffer, the other has that mutex and waits for the gate. Neither returns, nor does any later
  fault that has to load a page of the file. The comment at `source/io/fsnode.h:42` gives the order
  "KFile::filePosMutex -> mutationOperationMutex" and says that page loads "do not acquire this
  gate"; they acquire what comes before it, under it. Reads of two files into each other's
  mapped pages may form a similar ring; read(2) is not modelled.
* `Coherent` without the exception of `torn` (`MappedPages`, constants of the run): write(2)
  reads guest memory twice (`fsopennode.cpp:75` and `:89`), and a store between leaves a resident
  page with bytes the file never had, that no writeback corrects: a mapping shows them for good.
* `NoneStranded` (`MappedLeases`): the comment at `kprocess.cpp:718`, "Close the
  enqueue/release race for clone reservations", is not met. The retrying thread
  finds the lease reserved and gets EAGAIN; the clone releases the last reservation,
  and its own retry returns because one is in progress; the first thread then clears the
  flag and returns. The lease stays queued until a later unmap, exec or exit.
* `StatusIsReal` (`ProcessExit`; one exit_group whose code is not the initial one, and a
  parent that waits): a process is
  reapable before its exit code is stored.
* `EveryEndingIsAnExit` (one thread that is killed): SIGKILL does not funnel through
  `exitgroup`, so the wait for the killed process does not end.
* `ReleasedAfterLastThread` (two threads, one exit_group): an empty thread table is
  taken for the last thread's death while the thread in `exitgroup` still runs.
* `GainsNone` (four threads, two at the start, one that clones): a thread created after the snapshot
  survives in a terminated process and creates another.
* The arena properties without their premise `~settingsUsed`: the settings page's
  probe is not kept apart from a launch; it can write its test instructions over
  the guest's first block and replace confirmed segments.

Observed while reading, outside the modules or below their grain: the comment at
`syscall64.cpp:968` against EPIPE in `writeNative`, which tests `outClosed` before it
takes the lock; `recvmsg` takes messages ahead of bytes that were written earlier;
a killed eventfd reader spins with the lock held; a second poller of an object is starved and a third
panics (two parent slots); a poll of a closed descriptor notes `POLLNVAL` and sleeps
(`kpoll.cpp:55`, `result` is counted only for open ones);
signalfd tests `signo` off by one and ignores signals above 32; `timerfd_settime`
checks for `KTYPE_SIGNAL` (`kprocess.cpp:4398`); `sigtimedwait` leaves the process's
pending bit set and never resets `foundWaitSignal`; the owner-died update of a robust
futex is a read and then a write (`kthread.cpp:1508`); a ptrace stop is published
without waitpid's lock (`kthread.cpp:1792`); a vfork parent waits without testing a
state (`kprocess.cpp:3174`); a failed read of the file in a page load is ignored and zeros are
installed (`kmemory.cpp:74`); a
failing head blocks the queue of retirements (`kprocess.cpp:749`); SIGCHLD is sent
before the child is a zombie (`kprocess.cpp:3365`); a preparation that StikDebug
refused is remembered as the result of the probe (`gProbed`, `BVNExecMemory.cpp:498`).

## 7. Not modelled, and what would come next

In order of what another round would add:

1. Robust lists: the walk of a dead thread's list as a refinement of the exit path
   of `Futex`.
2. Signal delivery (masks, handlers, `sigsuspend`, `sigtimedwait`), then ptrace stops
   through `waitpid`; an abstract "pending or delivered" specification.
3. `execve` and the translator role and vfork, composed with `ProcessExit` and
   `MappedLeases`; CLONE_VM.
4. timerfd, inotify and netlink as further objects of `Poll`; epoll over `poll`.
5. File locks; copy on write of the 32-bit memory.
6. Proofs of the safety facts behind the liveness properties: that a step which lets a
   sleeper go is always still to come, as `NoLostWake` and `NoMissedExit` already say.

Not planned: instruction semantics and code generators (sequential, a different kind
of specification), generated OpenGL and Vulkan marshalling, drawing and input,
parsing of archives and manifests (sequential, with unit tests), the cooperative
single-threaded builds, host sockets and platform layers (the host kernel does the
work), vendored libraries. These are most of the repository's lines: of 1.2 million, all but some tens of
thousands are vendored, generated or instruction semantics, so the modelled share of
lines is small by nature.

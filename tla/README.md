# Verification of digigun.sys

digigun.sys is a Haxe library of system services for the C++ target: Haxe
classes under `src/digigun/sys/` that call C++ under `native/src/`. This
directory holds TLA+ models of the parts of it that keep state and are entered
by several threads or in many orders, configurations that check them with TLC,
and proofs of their main safety properties for every size, every number of
threads and every input.

Paths below are relative to the repository's root.

## 1. The system and its parts

### Modelled

**Event loop** (`io/NativeLoop.hx`, `native/src/loop_native.cpp`).
A completion-based loop. The Haxe class draws an id for each submission
(`_nextId`), keeps its callback in a static map (`_requests`) and calls the
native functions; the native side has, per loop, a queue of requests, a pool of
four worker threads, a queue of completed requests, a self-pipe and an epoll
instance.

- *Operations*: `loop_create`, `loop_submit`, `loop_poll`, `loop_close`, the
  worker thread, the dispatch of callbacks.
- *Interaction*: owner and workers share `queue` and `stop` (mutex and condition
  variable), `completed` (a second mutex) and the self-pipe; callbacks run
  inside `loop_poll`, with the second mutex held for file requests, and may
  submit again; an exception in a callback unwinds `loop_poll`.
- *Hard*: lost wake-ups on both sides, the order of "push, then write a byte"
  against "drain the pipe, then look at the queue", closing while workers run,
  requests whose pointer moves between five places, error paths.
- *Correct if*: a request has one owner; a completion is announced; a callback
  runs once at most, and only while the loop is open; a file request is served; no
  request is lost but by being replaced; closing returns and frees what it can reach.

**Byte buffers** (`io/RingBuffer.hx`, `io/BipBuffer.hx`, `io/ChunkedBuffer.hx`,
`native/src/buffer_native.cpp`). Three classes that implement `IByteBuffer`,
each around a native object with one mutex.

- *RingBuffer*: an array with `head`, `tail` and `count`. All operations are
  critical sections, but `available` and `freeSpace` read `count` without the
  mutex. *Correct if* it is a byte queue, indexes and count agree across the
  wrap-around, no sum overflows, and what the two queries answer may be relied
  on by the one thread that is entitled to.
- *BipBuffer*: two regions A and B in one array, so that reads and writes are
  contiguous. `write` is reserve, copy, commit and `read` is get pointer, copy,
  decommit; each step locks the mutex, the copies do not. *Hard*: everything
  another thread can do between the steps, `clear` included. *Correct if* the
  regions stay apart, the copies never meet, the buffer is a byte queue and an empty
  one accepts data.
- *ChunkedBuffer*: a linked list of fixed-size chunks that grows as needed.
  *Correct if* the list, its two ends, the chunks' `used` and the total agree,
  no chunk is lost, and it is a byte queue that never refuses.

**Async files** (`io/AsyncFile.hx`, `io/NativeBuffer.hx`, `io_native.cpp`).
A file object holds a descriptor number, a request a number and an address. *Hard*:
the kernel gives numbers out again, the collector finalizes what nothing in Haxe
refers to, and requests are still under way. *Correct if* a request reaches the file
it was made for, and a buffer that still exists.

**Mappings** (`shm/SharedMemory.hx`, `fs/MemoryMap.hx`). Memory that a segment or a
file stands behind, opened by several processes in several system calls each. *Correct
if* copies stay inside the mapping, the mapping has bytes behind it, and it has one owner.

**Locks between processes** (`sync/NamedSemaphore.hx`, `fs/FileLock.hx`). *Hard*: calls
are interrupted, processes die, the name is unlinked while it is in use. *Correct if*
permits are conserved and an exclusive lock excludes.

**Watcher** (`fs/Watcher.hx`, `fs_native.cpp`). A session, an inotify instance and a
thread per watch; the directories below the root are added one by one while the tree
changes. *Correct if* none is missed, events carry the path at which they happened, and
`stopAll` stops the threads.

**Sniffers** (`network/RawSocket.hx`). A table of sockets under one mutex, used by
threads that share objects. *Correct if* a `recv` runs on an open socket, and closing
twice hurts nobody.

**Lists and look-ups** (`network/Network.hx`, `process/Process.hx`, `auth/Auth.hx`).
Calls that collect nodes in C, copy them to Haxe and free them. *Hard*: any `malloc` may
fail, and the C library keeps one record and one cursor for all threads. *Correct if*
nothing leaks or is counted wrong, and what is returned is what was asked for.

**Signals** (`signal/Signal.hx`). A handler that runs on top of whatever the thread was
doing and takes the mutex that `trap` takes. *Correct if* the callback that runs stays
reachable for the collector, and no two threads wait for each other.

**FIFOs** (`fifo/Fifo.hx`, `fifo/Selector.hx`). *Correct if* no byte is lost between the
reads of `readAll`, it ends, and `select` reports neither too little nor what would block.

**Service and children** (`service/Service.hx`, `Process.exitWithParent`). *Correct if* a
service that is asked to stop does, and a child ends with its parent.

### Not modelled

| Part | Why it is not here |
|---|---|
| PingSession | sending and receiving are stubs; the table of sessions is kept as that of the sniffers |
| UnixDomainSocket | one call each around a descriptor; reads and writes are those of Fifo |
| Futex | one system call each; the protocol on top is the client's |
| Dl, FFI | macros that run in the compiler; what they generate depends on the program |
| `IO.sendFile`, direct I/O, MemoryProtection, SerialPort, ExtendedAttributes, Symlink, Volume, FileDiagnostics, NetworkControl, SocketOption, SystemInfo, Time, Random, RtControl | single system calls or queries that keep nothing |
| Console | terminal modes |
| NativeBuild | the configuration of the build |
| `getProcessTree`, limits, priorities, affinity; `Service.notify`; groups and identifiers of a single Auth look-up; views of a NativeBuffer | functions of their argument, or copies |
| Windows and macOS branches | the models follow the Linux build, except `Service` (Windows), `ParentDeath` (all three), `Sniffers` (what all three keep) and the user look-ups in `NativeLists` (both) |

`PROJECT.json` lists every component with its sources, and the places in the
code that are hard to test with the properties that cover them, or the reason why
none does.

## 2. Modules

| Module | What it is |
|---|---|
| `NativeLoop` | the event loop: owner, workers, epoll, callbacks |
| `AsyncEngine` | abstract: what a client may rely on of an event loop |
| `RingBuffer`, `BipBuffer`, `ChunkedBuffer` | the three buffers |
| `ByteFifo` | abstract: a byte queue, with the choices the three buffers make |
| `AsyncFiles` | files and buffers that requests in flight refer to |
| `SharedMapping` | shared memory and memory maps |
| `NamedLocks` | named semaphores and file locks |
| `Watcher` | watcher sessions and their threads |
| `Sniffers` | raw sockets and their table |
| `NativeLists` | lists and look-ups with failing allocation |
| `Signals`, `Service`, `Fifos`, `ParentDeath` | the handler, the service, FIFOs with select, exit-with-parent |
| `MCSharedState`, `MCProgress` | unions of the preceding ones for TLC: a behaviour is one of a single part, and `Only` keeps the others still |
| other `MC*` | sets of inputs, symmetries |
| `NativeLoopProofs`, `RingBufferProofs`, `BipBufferProofs`, `ChunkedBufferProofs`, `InterprocessProofs`, `NativeTablesProofs`, `SignalsFifosProofs`, `FileProofs` | proofs |

### NativeLoop

A worker's position in `posix_worker_thread` is `wpc`, the owner's is `opc`.
Every critical section is one step; the two that are held across steps are
the worker's between evaluating the predicate of `cv.wait` and blocking
(`toBlock`: `stop` is written without that mutex, so this gap matters) and the
poller's while it empties `completed` (`deliver`, `fileCallback`).

| Code | Actions |
|---|---|
| `loop_create` | `Create`, which may fail |
| `NativeLoop.submit`, `loop_submit` | `SubmitToPool`, `SubmitToEpoll`, `SubmitRefused`; from a callback too |
| `posix_worker_thread` | `WorkerTop`, `WorkerTake`, `WorkerQuit`, `WorkerFindsNothing`, `WorkerBlock`, `WorkerSpuriousWake`, `WorkerComplete`, `WorkerSignal` |
| `loop_poll` | `PollWait`, `PollDrainPipe`, `PollLockCompleted`, `PollDeliverCompleted`, `PollUnlockCompleted`, `PollDeliverReady`, `PollReturns` |
| `_dispatch` and the end of a request | `Dispatch`, `CallbackReturns`, `CallbackThrows` |
| `loop_close` | `CloseSetStop`, `CloseNotifyAll`, `CloseFinish` |

`fstat` is not checked by the code, so a closed descriptor may go either way; a
submission may be refused on any descriptor, as `epoll_ctl` has other reasons to fail
(memory, the limit on watches). `EPOLL_CTL_MOD` on an armed descriptor replaces the
pointer; the history variable `fdOf` remembers the descriptor of each request.
`StatusOf` tells a request that was called back once from one that was called back
again, so that a second call would be no step of `AsyncEngine`. Abstracted: what is
read and written and how much of it, the kind of the operation, time-outs (a
poll that reports nothing changes nothing). External to the repository and
modelled from its use: the mutexes, the condition variable with its spurious
wake-ups, epoll with `EPOLLONESHOT`, and the pipe, which blocks when full.
Assumed: one thread owns the loop, and callbacks do not poll or close it.

### Buffers

`RingBuffer` has one action per operation and `freed` for the guard of the
Haxe class. Its history variables `seenFree` and `seenAvail` remember what a
thread was told by `freeSpace` and `available`, less what it has used since.

`BipBuffer` has `Reserve`, `Fill`, `Commit` and `Abandon` for the producer and
`GetReadPtr`, `CopyOut`, `Decommit` and `PeekReturns` for the consumer. With
`Interleaved` the two threads alternate freely; without, an operation
completes before another begins. `MayAbandon` is the low-level API, where a
client may commit less than it reserved, or never. Its history variable `whole`
says that no client did. `Clear` locks the mutex and nothing else: with
`ClearsAnytime` it runs between any two steps of the others. `stale` says that the
region the consumer holds was taken back by a clear, and `strayed` that it
decommitted more of such a region than was published: `get_read_ptr` shows 3 bytes,
`clear`, a write of 1 byte, and `decommit(3)` leaves `a_head` = 3 behind `a_tail` = 1.
What the buffer does then is not modelled until the next `clear`, which repairs it.
Left out too: `destroy`, negative lengths, and more than one producer or consumer.

`ChunkedBuffer` models the chunks as a heap with `next` pointers, and each
iteration of the loops over the list as one step under the lock, so that list
surgery is checked where it happens. `Chunks[n]` follows the links for at most `n` chunks and
`Payload` concatenates what they hold; since a list of distinct chunks is no longer than there
are addresses, `Chain` is all of it. `Queue` is what the list stands for during a call, which
the refinement takes for the byte queue: a call under the lock takes effect when it ends. A
failing `malloc` and a chunk size of 0 are left out.

### Files, mappings, locks

`AsyncFiles`: `openOn` is the kernel's table, `fileHandle` the `_handle` of each object,
`requested` the requests with the number and the address they were given. `OpenFile` takes
the lowest free number, or -1, which `NativeHandle.isValid` accepts too; `CloseFile`,
`ReadFile`, `WriteFile`, `PerformRequest`, `RequestDone`, `CallBack` and `CloseCarrier` are
the operations of file and loop; `MakeBuffer`, `FreeBuffer`, `DropBuffer` and
`FinalizeBuffer` those of a buffer. `ReferredTo` is what the collector reaches: the closure
that `AsyncFile.read` registers refers to its buffer, a write's callback does not.

`SharedMapping` splits `shm_open_segment` into its system calls (`ShmOpen`, `ShmTruncate`,
`ShmMap`) because other processes run in between; any of them may fail and leaves what the
earlier ones did (`ShmOpenFails`). `fs_mmap_open` is one step, since the model does not change
the file, or fails without effect, or finds no memory for its record when the file is mapped
already, which nobody can unmap then (`FileOpenFails`). `Copied` is the range that `fs_mmap_read`
and the others copy, with sums that wrap around as an int's do. Left out: negative lengths,
and a `fstat` that fails on the descriptor just opened. `shm_open_segment` does not check its
`malloc` and would follow a null pointer (`shm_native.cpp:112`).

`NamedLocks`: a process is waiting or not in `sem_wait` and `flock`; `Interrupted` stands for
handlers without `SA_RESTART`; `Die` gives back file locks and loses permits. `WithoutStdin`
are processes in which `open` returns descriptor 0, which the library takes for no lock.

### Watcher, sniffers, lists

`Watcher`: `tasks` is the stack of calls of `linux_add_watch_recursive` in progress, one
`inotify_add_watch` or one scan per step; `queue` is what the kernel holds, with its limit;
`thr` is the thread's position; `wild` is a thread that used its deleted session. The file
system (`MakeDir`, `Rename`, `TouchFile`) is external. `Adding` is one step of a task and
`AddingOrder` what the task does next: it asks for the watch before it scans, which is what
`EveryDirectoryWatched` rests on. `WatchDirectory` and `ListDirectory` are the two steps of a task, and
either may fail instead (`AddingFails`: a limit, no permission), which the code passes over without
a word: the history variable `failed` remembers which did. `Names` is finite, as names of files have at most 255 bytes.

`Sniffers`: a call reads the handle, then looks it up under the mutex: `CallRead` and
`ReadBegins`, `CallClose` and `CloseNative` are separate, and others run in between.

`NativeLists`: one action per node and per failing `malloc`, for the four lists; the static
record and cursor of `getpw*` and `getgrent` are variables that threads share, and
`disturbed` marks a call whose record another thread has overwritten. `Blocks` are the blocks
`malloc` gave for a node, `CountedBlocks` those the counter was told of: none of a list of processes.

### Signals, service, FIFOs, children

`Signals`: a thread is a stack of frames (`trap` or handler, before or behind the lock, in the
callback), and a signal pushes one. `trap` may be given a null, which takes the root of the callback
before it away and leaves the handler installed: it then finds nothing to call (`HandlerFindsNull`).
`Service`: `MainSteps` is the order of
`win32_service_main`; the stop handler runs between any two of its steps once it accepts.
`Fifos`: bytes are counted; `ReadMore` and `ReadAllReturns` are the iterations of `readAll`;
`Asked`, `Revents`, `ReadyRead` and `ReadyWrite` are what `select` computes. `ParentDeath`
has the three platforms, and an identifier that is given to another process.

## 3. What is checked

Each run has a configuration of the same name. Runs of the kind *violation*
state what the documentation says and show how the code departs from it; the
others pass.

| Run | What it shows |
|---|---|
| `NativeLoopSafety` | over every interleaving of owner, two workers and submissions from callbacks: single owner, no lost completion, callbacks once, the allocation counter exact, file requests always within reach, and no request lost that was not replaced by a later one on its descriptor |
| `NativeLoopRefinement` | with callbacks that may throw, the loop implements `AsyncEngine`: no second call, no call of a refused request, none after closing |
| `NativeLoopLiveness` | file requests are served; closing returns unless one of two named races strikes |
| `NativeLoopCloseHang` (violation) | closing does not always return: `notify_all` can pass between a worker's test of `stop` and its wait |
| `RingBufferFifo` | indexes, unlocked observations; refinement of `ByteFifo` |
| `BipBufferSequential` | if operations do not overlap, the buffer implements `ByteFifo`, partial and abandoned reservations included |
| `BipBufferConcurrent` | if they do, and `clear` runs at any time: regions apart, copies apart, an empty buffer accepts data as long as reservations are committed |
| `BipBufferCorruption` (violation) | if they do overlap it is not a byte queue: a decommit that empties A between reserve and commit makes the commit publish stale or uninitialised bytes |
| `ChunkedBufferFifo` | list and total agree, nothing is lost, and the buffer implements `ByteFifo` |
| `SharedState` | mappings (`CopiesInsideMapping`, `MappingBacked`, `HandlesOwned`), locks (`PermitsConserved`, `FileLocksExclude`), watches (`EveryDirectoryWatched`, `ReportsTruePath`), sniffers (`SniffersAccounted`, `OthersUnharmed`, `RecvOnOpenSniffer`), lists (`ListsCounted`, `ListedInOrder`, `UserAsAsked`), files (`BuffersOutliveRequests`, `RequestsKeepTheirFile`) |
| `Progress` | signals (`RunningCallbackRooted`, `CallsReturnUnlessSelfDeadlock`), FIFOs (`BytesConserved`, `SelectExact`, `ReadAllEnds`), service (`ServiceStops`), children (`EndsWithParent`) |
| `WatcherStop` (violation) | `stopAll` does not stop a thread that is between two events: it goes on with a deleted session |

### Bounds, and why they are enough

- *Two workers* (four in the code): a lost wake-up or completion takes one worker
  in a gap and one that does something else. Workers are symmetric; the safety
  proofs hold for any number.
- *`MaxRequests`*: three or four submissions let two requests be in different
  places of the pool while one is in epoll and another is refused or submitted from a
  callback. It bounds `nextId` only and appears in the guard of `TakeId`.
- *`FileFds`, `StreamFds`, `BadFds`*: one file, since requests on files are only
  distinguished by their ids; two streams, so that a batch holds several events; one
  bad descriptor.
- *`PipeCapacity` = 2*: less than the number of requests, so that workers do
  block on a full pipe. *`MaxEvents` = 2*: less than self-pipe and two streams,
  so that some events have to wait.
- *Ring of 3 bytes, inputs up to 4*: every alignment of `head` and `tail`, writes
  that wrap, that are cut short and that are refused. `MaxInt` = 6 is the smallest
  for which twice the size does not overflow.
- *Bip buffer of 3 to 5 bytes, inputs of 1 to 3*: A behind B, B opened and
  drained, reservations cut by the end of the array and by A. `clear` is free only where
  the run is not about contents; the byte queue is checked for operations that complete.
- *Chunks of 2 bytes, three chunks, `MaxBytes` = 5*: chunks partly filled at the tail,
  partly drained at the head, and reads that span three.
- *`SharedState`*: every part has its own bounds. Mappings: two processes and a file,
  two segments, so that one can be unlinked while the other has its name; two sizes around the
  file's length; ints of three bits (`MaxInt` = 3), with every offset and length of
  them, so that sums wrap around. Locks: three processes, one of them without descriptor 0, two
  semaphores, so that an unlinked one is in use beside its successor. Watcher: a root and two
  directories, two levels, three changes, which is a directory made in a directory that was
  just made, with an event for a third, a kernel queue of two, which overflows, and one failure
  (`MaxFailures`) anywhere in the adding. Sniffers:
  two threads, three sniffers, so that a handle is closed twice with one opened in between.
  Lists: two threads, two entries, one call each, so that two of them disturb each other.
  Files: one descriptor besides standard input, three files one after the other on it, so that
  a number is reused twice, two requests and two buffers.
- *`Progress`*: two threads, two signals that can be caught and one that cannot, three frames,
  four traps or signals; a pipe of three bytes of which two are atomic, so that a write takes all,
  a part or nothing; two objects and three opens, so that an object forgets an open file.
- *`WatcherStop`* needs one directory and two changes.

Deadlock is checked for the buffers. The other configurations switch it off: a closed loop has
nothing left to do, and in the other parts a behaviour stops when its bounds are used up.

### Fairness

`FairSpec` of `NativeLoop`: each worker thread runs (weak fairness
of `Worker(w)`), an owner that is inside `loop_poll` or `loop_close` goes on and
callbacks return (`PollStep`, `CloseStep`), and the client keeps polling while the
loop is open (`PollWait`), as the example in `README.md:425` does. Nothing
obliges it to submit or to close, and spurious wake-ups, which would hide a lost
one, are owed to nobody. Weak fairness suffices: a mutex is held across steps only by
a worker about to block and by the poller while it delivers, and both go on whatever the
others do; and as a behaviour has finitely many submissions, each is taken finitely
often by others before a thread that waits for it gets it.

`Spec` of `MCProgress`: a thread inside `trap` or the handler runs and callbacks return
(`RunTop`), `win32_service_main`, the stop handler and the dispatcher go on, a thread inside
`readAll` reads, and a child that has called `exitWithParent` goes on and is ended by the kernel
once armed. Weak fairness each: they are threads of the operating system. Nobody owes a
trap, a signal, a stop, a write, a close, a fork or an end.

### What is true only under a condition

- `NoLostCompletion` needs callbacks that do not throw: an exception leaves
  `completed` non-empty with the pipe drained, and nothing announces the rest until
  the next file request completes. `FileRequestsNotLeaked` needs the same; the request
  whose callback threw is never freed.
- `CloseReturnsUnlessRaced` excludes the two ways to hang: a worker between the
  predicate and blocking, and a self-pipe with too little room for what the workers have
  yet to complete while nobody drains it any more.
- The loop: one thread owns it and all loops of the program (`_requests` and `_nextId` are
  static and unlocked); callbacks do not poll or close it. A second submission on a pipe or
  socket before the first was called back replaces it (`loop_native.cpp:241`), which
  `LostOnlyIfReplaced` names as the only way to lose one while the loop is open; requests
  armed in epoll stay allocated after `loop_close`.
- `RegionsApart`, the producer's half of `NoRace` and `EmptyAcceptsDataIfCommitted` hold until a
  consumer strays; the consumer's half of `NoRace` until the buffer is cleared while it holds a region:
  a write that follows may overwrite what it copies. A clear between reserve and commit is
  harmless to the layout: the commit publishes nothing, although `bip_buffer_write` reports
  its bytes as written.
- `EmptyAcceptsDataIfCommitted` needs every reservation committed in full; an abandoned one
  can leave an empty buffer that refuses everything.
- `ObservationsHold` speaks of the *only* producer or consumer: with two, what one of
  them was told is stale when the other acts. No buffer may be destroyed under a call.
- `RequestsKeepTheirFile` excludes requests whose own file was closed before a worker got to
  them: these reach whatever has the number now. After `close` the handle is 0, so a
  request that is made then goes to the standard input (`AsyncFile.hx:53`), and a file that could
  not be opened is an `AsyncFile` with handle -1.
- `BuffersOutliveRequests` speaks of `AsyncFile.read`. Who writes has to keep the buffer until
  the callback, and who passes `Bytes` to `submit` too.
- `MappingBacked` excludes segments that another process opened with a smaller size, and files:
  a map longer than its file is made and faults beyond the end (`fs_native.cpp:323`).
  `CopiesInsideMapping` says of every int offset what is copied: what was asked for, cut off at the
  end of the mapping, if the offset is not negative and the end is an int; and bytes outside the mapping
  otherwise, as nothing in the code checks either (`fs_native.cpp:355`).
- `HandlesOwned` knows two ways to lose a mapping: opening an object again, and a `malloc` that
  fails when the file is mapped already.
- `PermitsConserved` counts a permit as lost when its holder dies, and allows more holders than
  permits once the name was unlinked.
- `FileLocksExclude` speaks of locks that were given out. A process without descriptor 0 may lock
  without being told, and cannot unlock (`fs_native.cpp:54`).
- `EveryDirectoryWatched` and `ReportsTruePath` exclude renamed directories, and the first one
  events that the kernel dropped, and directories to which a failed `inotify_add_watch` or `opendir`
  would have led. The client is not told: `fs_watch_start` returns success even if the root itself
  could not be watched.
- `RecvOnOpenSniffer` is bought with a mutex that is held while `recv` blocks: closing any
  sniffer waits until a packet comes (`network_native.cpp:368`).
- `ListsCounted` leaves the nodes of `listProcesses` aside, which nobody counts, and knows one leak: `getHostInfo` drops its partial list when a `malloc` fails
  (`network_native.cpp:102`). `ListedInOrder` allows the interfaces and the processes to be a
  beginning of the list then, which the caller cannot tell from all of it. `listGroups` and the
  look-ups of users are exact unless another thread lists or looks up at the same time.
- `CallsReturnUnlessSelfDeadlock` excludes a signal that is delivered to a thread that holds the
  mutex, and a callback that traps: both wait for themselves for ever.
- `ReadAllEnds` needs non-blocking mode or all writers to close, an object that is opened again
  included: it forgets the end it had, which stays open (`Fifo.hx:34`).
- `EndsWithParent` needs a parent that lives until the child has armed and, on Linux, the thread
  that forked.

## 4. What is proved

The proofs hold for every value of the constants that satisfies the assumptions of
the module: any size, any inputs and, except in the bip buffer, which has one producer
and one consumer, any number of threads.

| Module | Theorems |
|---|---|
| `NativeLoopProofs` | `TypeCorrect`, `CompletionNotLost`, `RequestsHaveOneOwner`, `CallbacksRunOnce`, `AllocationsAlwaysCounted`, `FileRequestsStayTracked`, `LostRequestsWereReplaced`, `LoopImplementsEngine` |
| `RingBufferProofs` | `RingTypeCorrect`, `IndexesAlwaysAgree`, `SumsAlwaysFit`, `ObservationsAlwaysHold`, `RingImplementsFifo` |
| `BipBufferProofs` | `BipTypeCorrect`, `RegionsAlwaysApart`, `NeverRaces`, `EmptyAlwaysAccepts`, `BipImplementsFifo` |
| `ChunkedBufferProofs` | `ChunksStayIntact`, `ListImplementsFifo` |
| `InterprocessProofs` | `MappingsBacked`, `MappingsOwned`, `MappingsCopied` of `SharedMapping`; `LocksExclude`, `LocksPermits`, `LocksTyped` of `NamedLocks` |
| `NativeTablesProofs` | `SniffersUnharmed`, `SniffersRecv`, `SniffersCounted` of `Sniffers`; `LookUpAnswers`, `ListsReturned`, `ListAllocationsCounted` of `NativeLists` |
| `SignalsFifosProofs` | `SignalsCallbackRooted` of `Signals`; `FifoBytesConserved`, `FifoSelectExact` of `Fifos` |
| `FileProofs` | `ReadBuffersOutlive`, `RequestsHitTheirFile` of `AsyncFiles`; `DirectoriesWatched`, `EventsTellTruePath` of `Watcher` |

Each follows one pattern: an inductive invariant, the lemmas or steps that show that each
action preserves it, and a theorem per property that it implies.

- *Loop, completions*. `NoLostCompletion` is nearly inductive: what is needed besides
  is the type invariant and which local state goes with which place in the code
  (`Control`). The case that matters is `PollDrainPipe`, which takes the bytes away and moves the owner
  to `drained`, from where it is bound to look.
- *Loop, ownership*. `SingleOwner` alone is not inductive: that a new request is in no
  place needs that ids not yet drawn are in none (`Fresh`); that a callback runs once needs that
  whatever is held is registered and was not called; that closing leaves nothing needs
  that a file request is always queued, in a worker's hand, completed or running (`FileTracked`) and
  that the workers have exited once the join ended (`Joined`). The
  invariant is the conjunction of these. Its lemmas state what moving a request from one
  place to the next does to the set of places.
- *Loop, lost requests*. What is armed for a descriptor is the last request submitted on it
  (`ArmedForFd`), so one that is replaced has a later one on the same descriptor; every other step keeps
  what it takes from one place in another (`InReach` is both).
- *Loop, as an engine*. Each step of the loop is one of `AsyncEngine` or a stutter: `Fresh` gives
  that a new submission was unused, `CallbackExactlyOnce` that a dispatched request was pending and
  one that is freed after its callback already delivered; that no submission is ever "repeated" is what
  the invariant says of `calls`; all else keeps the status of every
  submission (`EngineQuiet`).
- *Ring*. `IndexesAgree` with the ranges of the three indexes is inductive, given
  the remainder of a position less than two turns ahead (`Wrap`), which is proved from the
  division theorem rather than assumed. The observations need it as well.
- *Ring, as a queue*. The abstract queue is what stands between the read and the write position
  (`Contents`). `StoredBytes` says where the two copies of a write put each byte and that they
  leave the queued ones alone, `FetchedBytes` that the two of a read take a prefix, `WriteAppends`
  and `AdvanceRemoves` what this does to the queue; each operation is then a step of `ByteFifo`.
- *Bip buffer*. `RegionsApart` and `NoRace` need four more facts: an empty region starts
  at 0 and B is not read before A is empty (`Layout`); the producer's region is the one
  reserved, behind B and in front of A while B is open unless the consumer has emptied A
  (`Reserved`: this is where the reset that corrupts the contents is visible, and why
  it does not also corrupt memory), or nothing is published nor reserved, as after a clear
  (`Emptied`); what the consumer was shown is a prefix of what is published unless a clear came in
  between, since when everything has been in A and from 0 on (`Shown`); and an open B holds data when
  nobody is writing (`Closed`). Their conjunction is `Ordered`. The invariant is `Ordered \/ Strayed`:
  once the consumer has decommitted more than was published only the indexes' ranges are left, until
  a clear establishes `Ordered` again.
- *Bip buffer, as a queue*. When operations complete before another begins (`~Interleaved` and
  `~ClearsAnytime`, the theorem's hypotheses) the consumer has no region while the producer works, the reserved
  region continues the one it will be committed to, and what was filled holds the input
  (`TurnsTaken`). The queue is A before B, whose k-th byte is at `Place(k)`; `Committed`,
  `ShownFirst` and `Decommitted` say what the operations do to it. Without the first hypothesis
  the statement is false: finding 2; without the second a commit may publish nothing of what it reports.
- *Chunked buffer*. That a walk over the links exists and is the sequence of chunks is an
  induction over its length, stated as a set of numbers without a smallest member that fails. The invariant
  (`Holds`) says that there are a sequence `c` that lists the chunks from the head to the tail, the
  bytes `w[i]` from the i-th chunk on, and the queue `q` that the call in progress was given, with
  how far the call has come (`InCall`). Appending to the tail, appending a new chunk, taking
  from the head and freeing the head each keep it; every iteration is a stutter of
  `ByteFifo` and the last one its step.
- *Mappings*. `MappingBacked` is not inductive: between `ftruncate` and `mmap` of a writer its
  size is only remembered, so the invariant says that the segment is that long unless
  somebody has made it shorter since (`SizedBacked`). `HandlesOwned` needs that an address is given
  out only while nothing is mapped there, and that what an object forgets is leaked and not
  released. `CopiesInsideMapping` follows from the range check and two facts about sums: one that
  is an int is not wrapped (`AsIntFits`), and one of two ints that is too large comes out negative
  (`AsIntWraps`), passes the check and is copied in full.
- *Locks*. What the kernel has locked is what the object stands for, except in processes
  without descriptor 0 (`LockedByObject`), and what it has locked is compatible
  (`FlocksCompatible`). Permits: value, holders and losses of each semaphore add up
  (`Conserved`), by the cardinality of the set of holders.
- *Sniffers*. A thread in `recv` holds the mutex and its handle is in the table, a thread in
  `close` has asked for the handle it closes (`MutexHeld`); handles in use are smaller than the
  next one, so a new sniffer is no old one.
- *Lists*. What a call holds follows from where it is in the function (`CallsSound`: a list under
  construction is a beginning of what the system reported, a failed `malloc` leaves nothing but
  what the code forgets), and the counter is the cardinality of the set of blocks that are held
  and counted (`AllCounted`: all blocks of a call or none, by its kind), plus the blocks of host lists that were lost (`CountSound`).
- *Files*. An object that was never closed owns the number it holds in the kernel's table
  (`DescriptorsSound`); no two reads in flight fill the same block, each block is on the heap and
  not collected while one does, and the counter is the cardinality of the heap (`BuffersSound`); a request goes to the
  number and the file of its object unless that was closed since (`RequestsSound`).
- *Watcher*. Until a directory is moved, paths and directories agree (`TreeSound`), a watch is known under its
  directory's path (`WatchesSound`), a thread's position goes with its session (`ThreadsSound`), and
  each directory that exists is watched, or a pending task will come to it or a failed one would
  have, or an unhandled event announces it, unless the kernel dropped one (`NothingMissed`). The last is where the
  order matters: were the scan before the watch, a directory made in between would be none of the three.
- *Signals*. A frame that is past the lock is the one that holds it (`FrameOwnsMutex`), so no `trap`
  can store while a callback runs, and a callback that runs is the stored one (`FramesTrapped`) and no null,
  so that its entry is a root.
- *FIFOs*. What was written is in the pipe, returned, gone with the pipe, or held by an object whose `readAll` has
  not ended, counted as the cardinality of a set (`BytesAccounted`); `select` is exact because
  open objects have distinct descriptors (`HandlesDistinct`), by which it sorts its answer.

The assumptions are those the modules name: positive sizes, finite sets of threads, processes,
addresses or names where they are counted or walked, `NULL` no address. Every invariant and every
action property of a passing run has a theorem. Model-checked only: the six liveness properties
(`FileRequestServed`, `CloseReturnsUnlessRaced`, `CallsReturnUnlessSelfDeadlock`, `ServiceStops`,
`ReadAllEnds`, `EndsWithParent`), which need fairness and `ENABLED`, and with them `Service`
and `ParentDeath`, of which nothing else is stated; and the concurrent bip buffer, which is no queue, as its run shows.

## 5. Where code and documentation disagree

Shown by a run:

1. `loop_close` may hang (`loop_native.cpp:151`): `stop` is set and the workers notified
   without the mutex of the condition variable.
2. A `BipBuffer` used by one producer and one consumer can deliver stale or
   uninitialised bytes instead of those that were written (`buffer_native.cpp:150`), although a test
   says of threads that use one together that they "should complete with mutex safety"
   (`test/battlefield/TestNativeConcurrency.hx:125`).
3. `Watcher.stopAll` (`fs_native.cpp:289`) detaches the threads it says it stops, and deletes what
   they use.

Visible in a model, without a run of their own:

4. `Process.exitWithParent` (`Process.hx:149`) does nothing for a parent that is already dead, and
   on Linux ends the child with the thread that forked.
5. `Auth.getUserByName` (`Auth.hx:85`) answers on Windows with the name that was asked for and the
   home directory of whoever runs the program (`UserAsAsked` allows it); if a `strdup` fails there, a
   null pointer is followed (`auth_native.cpp:88`).
6. `auth_get_group_by_gid` writes to a record whose `malloc` may have failed
   (`auth_native.cpp:163`); nothing in Haxe calls it.
7. `Selector` does not look at `POLLHUP`: at the end of a file an object is reported as readable by
   nobody (`Selector.hx:82`).
8. Not "every native `malloc`, `new`, or `mmap`" is counted, as `README.md:557` has it: the nodes of
   `listProcesses` are not (`process_native.cpp:158`; `ListsCounted` says so), nor are shared memory
   mappings on POSIX (`shm_native.cpp:109`, `112`; on Windows they are, line 35; `HandlesOwned` says so), the
   arrays and chunks of the buffers (`buffer_native.cpp:15`, `84`, `218`), and the list `select` gives to
   `poll` (`fifo_native.cpp:197`). A leak of these escapes the zero-leak check.
9. `bip_buffer_write` reports bytes as written that a clear between its reserve and its commit has
   discarded, and a `decommit` after a clear may leave `a_head` behind `a_tail` (`buffer_native.cpp:147`,
   `179`); `BipBuffer.hx` says nothing of `clear` being kept for moments when nobody reads or writes.
10. A range whose end does not fit an int, or that starts below 0, passes the range check of the mappings
   (`fs_native.cpp:355`): `CopiesInsideMapping` says exactly which do.
11. A directory that could not be watched is not reported: `fs_watch_start` returns success
   (`fs_native.cpp:154`, `270`).

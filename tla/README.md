# A TLA+ model of wolfcc

wolfcc is a C++ server skeleton: one reactor thread accepts connections, cuts
their bytes into packages and queues them; a pool of worker threads processes
the packages and queues the results; the reactor thread sends them back. This
directory holds TLA+ modules translated from `src/wolfcc`, the TLC runs that
check them on small instances, and theorems about them that TLAPS checks for
every value of the constants.

`src/dep` (libconfig, libevent, msgpack) is third-party code and is left aside;
the little of libevent and of the kernel that matters is modelled from how
wolfcc uses it. The repository has no documentation and no tests
(`test/t_network.py` is empty), so what the code is *supposed* to do is taken
from its comments, its log messages and its assertions.

Paths below are relative to `src/wolfcc`.

## 1. Inventory

| Part | State it keeps | Operations | What is hard |
|---|---|---|---|
| **Request pipeline** `pros/procpack.cpp`, `utils/workthreadpool.cpp`, `utils/notify.cpp`, `nets/socketpairhandler.cpp`, `nets/pusheventhandler.cpp`, `utils/objectpool.h`, `serverapp.cpp` | two stacks of packages, a socket pair, the package pool, who holds which package | OnPackage, RunOnce, notify, HandleInput/HandleEvent, Create/Destroy, StopThreads | a push races the reactor's last failing Pop; notifications merge or are lost; both stacks and the pool fill up; every error path must give its package back once; NULL packages compete with real ones |
| **SyncQueue, SyncStack** `utils/queue.h` | list, count, mutex, condition | Push (limit, make room), Pop (blocking or not), GetSize | lost wakeups; eviction and insertion as one step; stolen items after a wakeup |
| **ThreadPool, Thread** `utils/threadpool.cpp`, `utils/thread.cpp` | lists of live and dead threads, stop counter, alive flags | Start, Stop, DestroyThread, RunOnce, Join | lists are used without the mutex; a thread writes its flag after it is listed as dead; Stop polls; creation fails |
| **Connections** `nets/acceptor.cpp`, `nets/addressfilteracceptor.cpp`, `nets/connecteventhandler.cpp`, `nets/libeventreactor.cpp`, `utils/handlerregistry.cpp` | descriptors, handlers and their ids, read and write events with timeouts, send buffers | accept, read, write, time out, close, answer, close after sending | descriptors are reused; late answers; partial writes; accept fails half way; one-shot events |
| **Framing and send buffer** `pros/procpack.cpp`, `nets/connecteventhandler.cpp`, `pros/package.cpp` | receive and send buffer | Extract (text, binary), HandleInput, SetData, Send, HandleOutput | frames cut anywhere; a length that is wrong or zero; answers sent in pieces |
| **DataBlock** `utils/datablock.cpp` | memory and how much of it counts | Resize, Copy, Append, Erase, IncEnd, DecEnd, assignment | a block's own bytes as a source while it moves; free memory next to what counts |
| **Protocol streams** `pros/protocolstream.cpp` | buffer and position | Write, IsValid, Flush, ExtractStream, Read, ReadNoCopy, Reset, Assign | lengths that do not fit their field; reading beyond the end |
| **Reactors** `nets/libeventreactor.cpp`, `nets/selectreactor.cpp` | each handler's events, timeouts and timers; the set of handlers | RegisterHandler, RemoveHandler, ScheduleTimer, CancelTimer, RunOnce | handlers detach, and timers end, inside callbacks; deadlines that are not carried; one deadline served at a time |
| **Connector** `nets/connector.cpp` | the connecting descriptor | Open, Close, HandleOutput, HandleTimeout, HandleClose | closed on most paths twice, and never once it is handed over; a handler that only writes |
| Start-up, configuration `serverapp.cpp`, `wolfcc.cpp`, `configmanager.cpp` | none after start | Init | straight-line code |
| Socket helpers, logging, time, daemon, scope guards | none a property is about | wrappers | not modelled |
| Packet processors `pros/packprocessor.cpp` | none | commented out or empty | not modelled |

How they interact: the reactor thread calls `ConnectEventHandler::HandleInput`,
which appends to the receive buffer and calls `Extract`; that calls `OnPackage`
for each frame, which creates a `Package` and pushes it on the *receive stack*.
Workers pop from it and push results on the *send stack*; a
`NotificationQueue`'s push sends one byte through a socket pair, whose other
end the reactor watches. `PushEventHandler` then empties the send stack, finds
each package's handler in the `HandlerRegistry` and calls its `Send`,
`CloseAfterSent` or `Close`. `ThreadPool` starts and stops the workers;
`WorkThreadPool` asks one to stop by pushing a NULL package.

What makes each part correct: an admitted request is settled once and a package
has one owner (pipeline); every call is atomic and no consumer sleeps through an
item (queues); no thread object is deleted under its thread and the unlocked
list accesses meet nobody (pool); descriptors belong to one connection, answers
to one peer, and every connection ends (connections); the frames do not depend
on how the stream was cut, and what is sent are the answers (framing); a block's
operations are those of a sequence (DataBlock); what was written is read back
(streams); timers and timeouts come, and not early (reactors); a descriptor is
closed or handed over once (connector).
`PROJECT.json` lists the hazards behind these, each at its line.

## 2. Modules

| Module | Models | Correspondence |
|---|---|---|
| `RequestService` | what the pipeline promises, with no threads | `fate` of each request; Admit, Refuse, Settle, Crash |
| `WorkPipeline` | reactor thread, workers, controlling thread, both stacks, pool, socket pair | one action per operation under a mutex or between two of them. `reactor.at` is the place in `Extract`/`OnPackage`/`HandleEvent`, `worker[w].at` the place in `RunOnce`; `content` is what the pool's objects carry |
| `AtomicBuffer` | a queue or stack whose calls happen at one instant | Call, Take effect, Return |
| `SyncQueue` | `SyncQueue` and `SyncStack` (`lifo`), grain of the mutex and the condition | one action per statement group between lock, wait, signal and unlock |
| `ThreadPool` | `ThreadPool`/`Thread`; `counter` selects the base class's stop counter or `WorkThreadPool`'s NULL packages | `ctl` is the controlling thread's place in Start or Stop, `run` each thread's |
| `Connections` | acceptor with its Open and Close, handlers, registry, events, descriptors | each reactor callback runs to its end and is one action; `Output` is `HandleOutput` with its partial, refused and failed sends, called by `Answer` as well |
| `Reactors` | `SelectReactor` or `LibEventReactor` (`select`), their handlers' events and timers, the clock | one action per call of the program's; `RunOnce` is `Ready`, `SelectTimesOut`, `LibEventTimesOut` or `LibEventTimer`, and a timer's `HandleTimeout` is two steps with any calls in between. `Scan` is the loop that looks for the least deadline |
| `Connector` | `Connector` on either reactor, beside any other handler | extends `Reactors`: every step of its is one here, with the `HandleClose` that it comes to for a connector; `Open`, `HandleOutput` and `Close` are a connector's calls. `connfd` is the member, `open` and `handed` are the kernel's and the next owner's side |
| `DataBlock` | `DataBlock` and `Package::SetData` | operators on `mem` (all of the memory, stale and unset bytes included) and `size`; `CopyOwn` is `Copy` with a source in the block |
| `StreamFraming` | `HandleInput`'s buffer and `Extract`, text and binary | Recv, ExtractFrame, ExtractFails, ExtractDone, on a `DataBlock` |
| `ConnectionBytes` | the receive and the send side of one connection | extends `StreamFraming`; `Send`, and `HandleOutput` for the write event |
| `ProtocolStream` | write streams, `IsValid`, `Flush`, read streams | one action per kind of field; a reader knows the fields ("read") or tries what it likes ("probe") |
| `MC*` | model values and symmetry for TLC | |
| `WorkPipelineProofs`, `SyncQueueProofs`, `ThreadPoolProofs`, `ConnectionsProofs`, `ReactorsProofs`, `ConnectionBytesProofs`, `ProtocolStreamProofs` | theorems about the module of that name and those it extends | see section 4 |
| `RecursionFacts` | lemmas | what the proofs need of functions defined by recursion on a number |

`WorkPipeline` stands on `SyncQueue`: the run `queue` shows that a push and a
pop are atomic, so that the pipeline may take each as one step.
`Connections` takes the pipeline's answers in any order, as a count of packages
in flight per handler. It has the events of `LibEventReactor` as they are seen
from one handler, without deadlines; `Reactors` has the clock, the timers and
the other reactor, and leaves what handlers do to their choice, but for
`Connector`'s. `ConnectionBytes` has the bytes that `Connections` counts.

Definitions under a comment "Mutant:" are deliberate errors. They are
not part of any specification; each is a variant of the definition below it
that shows a property would notice the error.

## 3. Runs

| Run | Question | Bounds |
|---|---|---|
| `pipeline` | Are packages, requests, wakeups and pills accounted for on all paths, and is the service's promise kept? | 2 connections of 2 frames, 2 workers, 3 packages of which 2 at first, stacks of 2, `queuelimit_` 1, pipe of 2 bytes, 2 pills (704,438 states) |
| `pipeline_live` | Is every admitted request settled, and does every pill stop a worker? | 1 connection of 3 frames, 2 workers, pipe of 1 byte, stacks of 2, 1 pill (20,533) |
| `pool_exhausted` | *violation*, see section 6 | pool of 2 that may grow to 3 by 0 |
| `queue` | Is each queue call atomic, and does no consumer sleep through an item? | 3 threads, 2 values, limit 1, length up to 3; stack and queue (15,888) |
| `thread_pool` | Are Start and Stop right although they use the lists unlocked, and does Stop return? | 3 thread objects, any calls, creation failing before `pthread_create` (6,634) |
| `phantom_thread` | *violation*, see section 6 | with `pthread_create` failing |
| `connections` | Are descriptors neither leaked nor closed under anyone, and is each connection watched for what it needs, until a late answer acts on a descriptor that is another's? Does every connection end? | 2 peers and the acceptor over 3 descriptors, 2 handlers, 2 frames each, answers at any time, with and without EINTR (325,056) |
| `late_answer` | *violation*, see section 6 | as `connections` |
| `framing` | Do the frames depend on how the stream was cut? Is one held back? Are the answers sent whole and in order? Do a block's operations do what they would to a sequence? | all streams of up to 6 bytes, base 2, headers of 2 digits, chunks of up to 3, blocks of 2 at first (409,619) |
| `streams` | Is a valid message read back, and none in part? Does a reader pass the end? | base 4, fields of 2 digits, 4 fields, strings of 0 to 16 (481,125) |
| `flush_asserts` | *violation*, see section 6 | as `streams`, strings of 2 and 4 |
| `reactors` | Do the set of handlers and their data agree, does `select` wait exactly until the deadline found, and do timers end, but not with their handler's events? Is a Connector's descriptor closed or handed over once, and does its attempt end? | one listener, one connection or Connector, 2 timers at 2 addresses, either reactor, seconds of 3 units, a delay of 4, 7 units of time (184,424) |

Why the bounds are enough. *pipeline*: two workers and one reactor are every
pairing of roles; three packages over stacks of two, a queue limit of one and a
pool that has to grow once make every limit bind, in every order; the pipe is
smaller than the packages that can be answered, so notifications are lost.
*queue*: three threads are a pusher, a waiter and a thief, or two waiters and a
pusher; limit 1 with pushes beyond it makes eviction, refusal and the
unlimited push happen. *thread_pool*: with three threads Start may go from some
to more and Stop may leave some; Failures picks which part of creation fails.
*connections*: with two peers and an acceptor that comes and goes, a descriptor
is taken again while another is open, by the acceptor as well. *framing*: six
bytes hold two frames with data, or three without, chunks cut headers and data in
all ways, and both blocks have to grow. *streams*: a string of 16 is one more
than two digits of base 4 can say, strings of 4 make two-digit lengths, three
fields of 6, 6 and 4 reach exactly the first length the field cannot hold.
*reactors*: a delay of a second and a unit, taken at any unit of a second, gives
deadlines with less and with more nanoseconds than a second has, and seven units
of time let both be waited for with and without a borrow, or be over before the
wait begins; an address is freed and used again; two timers, a read and a write timeout are in competition in one handler,
and the timers in two. The Connector has a lower descriptor than the listener,
so `SelectReactor` watches it while the listener is registered and not otherwise.

Symmetry is declared over connections, workers and packages (or threads and values), and only in runs without liveness properties; a refinement of a
specification without fairness is a safety property.

### Properties

* `NoLostWakeup`: with a package on the send stack there is a byte in the pipe,
  or the reactor is draining, or a worker is about to notify.
* `OneOwner`: each constructed package is in exactly one of free list, stacks,
  a worker's hands, the reactor's hands. `RequestCarried` ties packages to
  requests: in flight means carried by exactly one package.
* `PillsAccounted`, `PillsStopWorkers`: each NULL package stops one worker.
* `QueueLimitKept`: the unlocked size check suffices, since only the reactor
  thread pushes packages on that stack.
* `KeepsPromise`, `SettlesAll`: `WorkPipeline` implements `RequestService`,
  without and with its fairness. The refinement is by `fate`, `Capacity` the
  number of packages and `down` the process's death.
* `EveryItemHasATaker`, `Linearizable`: the latter is the refinement of
  `AtomicBuffer`, in which a push that makes room takes effect when it inserts.
* `UnlockedAccessSafe`, `NoUseAfterDelete`, `PoolAccurate`, `StopReturns`.
* `DescriptorsOwned`, `Attended`, `ConnectionsEnd`. Answers come at any time, for a
  handler that has ended as well: `PushEventHandler` finds it on the registry and
  has no way to tell. Such an answer closes or writes on a descriptor that is
  closed, which does no harm, or that somebody else has by now, which
  does. `astray` remembers that this has happened; the two invariants hold until
  then, and `ReachesItsPeer`, which does not hold, is the property of `late_answer`.
  `ConnectionsEnd` holds after it as well. `Attended` and `ConnectionsEnd` are said of
  behaviours without interrupts (`interrupts` FALSE), see section 5.
* `SocketsOwned`, `AttemptsEnd`: the latter also where `SelectReactor` does not
  watch the descriptor.
* `AnswersInOrder`: sent and still to be sent are the answers. `BlockOpsExact`
  checks, on every block that comes about, `Erase`, `Copy` within the block,
  `Resize` and assignment against sequences.
* `ChunkingIrrelevant` compares the frames handed over with those of the whole
  stream, defined recursively and without a buffer; `NothingHeldBack` says none
  complete is left in the buffer, but a text frame without data, which the code
  leaves until another byte arrives (`pros/procpack.cpp:11`).
* `RoundTrip`, `HeaderAgrees`, `CursorInBounds`. `HeaderAgrees` has `ExtractStream`
  with too few bytes and with more than enough.
* `HandlersHaveData`: `SelectReactor`'s assertion at 254. `WaitsUntilDeadline`: the
  subtraction, the borrow and the carry of its fields and the clamp (327-344) give
  `select` a valid timeval, and the time until the deadline that the scan found, be it
  an event's or a timer's. `TimersKept`, `TimersEnd`: what a timer promises; the former
  says of the assertion at 376 that only the timer's own handler can break it.
  `DetachedWhenIdle`: under `LibEventReactor` only; `SelectReactor` keeps a handler
  whose last timer has run out.

### Fairness

* `WorkPipeline`: `WF` for the reactor's input side (a callback runs to its
  end), `WF` for each worker (a thread is scheduled). `SF` for the reactor's
  output side: the reactor returns to its poll after each callback, and the
  poll reports every readable descriptor, so a byte in the socket pair is not
  passed over for ever although input keeps the reactor busy in between.
  Clients and the controlling thread have no fairness. The load is finite
  (`MaxReq`): a stack serves the newest first, so under endless load the oldest
  package could wait for ever, and `SettlesAll` does not say otherwise.
* `ThreadPool`: `WF` for the controlling thread (it polls) and for each thread.
  A blocking Pop or the stop counter is looked at each turn.
* `Connections`: `WF` for a pending event's timeout, because a peer sends only
  `MaxFrames` frames and each registration sets the timeout. The acceptor has none.
* `Reactors`, `Connector`: `WF` for time, for a callback's return and for
  libevent's timeouts and timers. Handlers have none.
  `select` gives a timeout only when nothing is ready, so `SelectTimesOut` is fair
  only once descriptors are quiet. That they become so is `WF(Quieten)`, an
  assumption about the kernel and the peers and not about the code: `TimersEnd` and
  `AttemptsEnd` rest on it. While some descriptor is always ready, `SelectReactor`
  serves no timeout and no timer at all (`nets/selectreactor.cpp:388`).
* `SyncQueue`, `ConnectionBytes`, `ProtocolStream`: safety only.

Deadlock is checked in every run. A state where the system is at rest is named
in each module (`Rest`, `Ended`, `Over`, `StillWaiting`), so that a state in
which a thread is stuck is an error.

## 4. What is proved

Every invariant, every refinement of a specification without fairness and the
action property of the passing runs is a theorem too, for all values of the
constants. `theorems` in `PROJECT.json` has one entry for each.

### Assumptions

The modules' `ASSUME`s, and no others: naturals, positive limits, `NULL` not a
package, no more pills than workers. A few are there for the proofs, and the
code justifies each: workers, packages, threads and descriptors are finite sets;
descriptors are above 2, for the daemon keeps 0, 1 and 2 open
(`utils/daemonize.h:21`); the time bound of `Reactors` is positive; a frame's
header has at least one digit and a chunk at least one byte.

One hypothesis narrows a theorem to what the code does not get wrong, and a run
shows the rest is false (section 6): `PoolListIsAccurate` has `"create" \notin
Failures`, for a failing `pthread_create` is taken for a success
(`phantom_thread`). The other theorems about the pool have it fail.

### Theorems and their inductive invariants

**`WorkPipelineProofs`.** `TypeOK` is inductive as it stands, for it says which
step goes with which package, connection and remaining frames. `TypeCorrect`
is the base of the others:

* `NoResponseStranded`: the pipe loses bytes only when it holds one already; the
  reactor leaves "drain" only on an empty stack; a worker leaves "notify" only
  with a byte in the pipe.
* `EveryPillAccounted`: `PushCounts` and `PopCounts` say what a step does to the
  number of NULLs on the stack.
* `QueueLimitHolds` needs `RoomKept`: between the reactor's check and its push the
  package that is `Coming` counts as pushed; workers only make the stack shorter.
* `PackagesOwnedOnce`: each step moves one package from one place to another.
* `RequestsCarriedOnce` needs `OneOwner` and two more facts. `InTurn`: a connection's
  requests leave "new" in order, so the frame at hand is always new and not carried.
  `Filled`: exactly the packages out of the pool carry a request, and the one about
  to be pushed the frame at hand.
* `PipelineImplementsService`: under that invariant each step maps to Admit,
  Refuse, Settle, Crash or a stutter of `RequestService`. Its `Capacity` holds since
  the requests in flight are as many as packages that carry one.

**`SyncQueueProofs`.** `QueueInv` adds to `TypeOK` (which has the mutex held by
exactly the thread inside) that a thread's call fits its step (`CallsOK`), and that
an item is removed but not yet replaced only while one thread is about to insert
(`RemovedOK`). From it `QueueIsLinearizable`, with the abstract buffer
`items \o removed`: an eviction stutters, and the insertion evicts and inserts.
`NoItemSleptThrough` is inductive with `QueueInv`: a step that takes a taker away
takes an item, or wakes one.

**`ThreadPoolProofs`.** `PoolInv` is `ObjectsOK` (a thread object exists while
its thread runs, and is on one list at most), `RequestsOK` (stops asked for, and
those of which a thread has learnt, are no more than Stop's goal allows, so
that none is left when Stop returns) and `StartedOK`. A thread that has read the
counter and waits for the mutex ("looked") counts as running: it may find that
others were faster (`FindsNone`).

**`ConnectionsProofs`.** `HandlersOK`: a handler has a peer and a descriptor from
the time it is made, and owes no more answers than frames came in. `OwnedInv` adds
`OneToOne` (a connection's open descriptor and its watched handler determine each
other) and `AcceptorOK` (the acceptor's descriptor is its own);
`Attended` is
inductive only with it. All three are stated of the time before an answer has gone
astray. `UnwatchedIsLeftAlone` is the heart of it: what comes for a handler that has
ended changes no descriptor's owner and has no event pending again, unless somebody
has its descriptor. That the kernel gives the lowest free descriptor matters
only in that it is free.

**`ReactorsProofs`.** `ReactorInv` has each handler's data in order (`DataOK`: a
pending event has the handler's descriptor, its timers have different addresses),
no address in two handlers (`TimersApart`), a running timer of known range
(`ExpiringOK`), and the invariants themselves but for `WaitsUntilDeadline`. All theorems but one are about `Spec \/ ConnectorSpec`, so
they hold of handlers that do what they like and of connectors among them.
`SocketsHaveOneOwner` adds `ConnectorsOK`: a connector has no timers, is no
listener, and holds a descriptor only while it is one. The scan, in which
`SelectReactor` compares the wrong fields, only matters in that it finds a deadline
of some handler (`PicksOneOf`), which is one that was ever set: less than two seconds
of nanoseconds, and no more than `Horizon`. `WaitIsExact` is about any such deadline
and any time: the fields borrow once or carry once or neither, by cases.

**`ProtocolStreamProofs`.** `StreamInv` says there are places `pos` at which the
fields lie in the buffer one after the other (`Layout`), and that a reader which
knows the fields stands at the next of them (`InStep`). `ValueOfDigits` (a number
below `Max` is what its digits say) makes the length fields, of strings and of the
message, mean what the writer meant. `RoundTrip` and `HeaderAgrees` follow.

**`ConnectionBytesProofs`.** First `DataBlock`: each operation on a block
(`GoodBlock`: no more bytes count than there are) is a function of its contents,
whatever lies behind them, the source of a `Copy` within the block and the move to
a larger one included (`OperationsExact`). Then a stream's frames: they are the
first frame and the frames of the rest (`FramesUnfold`), and what follows a whole
frame does not change it (`MoreToCome`). `ChunkingIrrelevant` is not inductive: a
byte that is still to come can end a frame whose start is in the buffer. The
invariant is `Agree`: *whatever is sent next*, the frames of the stream are those
handed over and those of what is left with what is sent. `Idle` says what may be in
the buffer when Extract has returned, from which `NothingHeldBack`. `AnswersInOrder`
is inductive with `GoodBlock(sendbuffer)`, given the facts about `AppendTo` and `Left`.

### Recursion

`Value`, `FramesOf`, `Digits` and the scans of `Reactors` are recursive functions.
The library's induction theorems take an operator, which the provers here cannot
instantiate. `RecursionFacts` has the substitute: a set of counterexamples
in `0..n` without a least (or a greatest) member is empty, by the well-foundedness
of the numbers. So the proofs show that such a function exists, that it is the
only one, and what it gives for every argument.

### What stays with TLC

Liveness: `SettlesAll`, `PillsStopWorkers`, `StopReturns`, `ConnectionsEnd`,
`AttemptsEnd` and `TimersEnd`, since fairness is stated with ENABLED, which the
prover does not have. That there is no deadlock, for the same reason. And the
four disagreements of section 6, which are counterexamples.

## 5. Abstractions and what is left out

* The package pool's mutex is `NullMutex` (`utils/objectpool.h:18`) while workers
  and the reactor use the pool at once. `WorkPipeline` takes Create and
  Destroy as atomic, which the code does **not** ensure; what it says holds once
  the pool has a mutex.
* `puttime2` is written to a package after its push
  (`utils/workthreadpool.cpp:274`), when another thread may have it already.
  Nothing reads it; timestamps are left out.
* The processing itself is a choice: `Outcomes` has "push", "destroy" and, for
  the code as it is now (`CreateDataBlock` returns NULL and the next line
  clears it), "crash".
* The constructors `AppTextStreamProcpack` and `AppBinaryStreamProcpack` discard
  their arguments (`pros/procpack.cpp:65-68`, 109-112): `queuelimit_`, which only
  `SetQueueLimit` sets and nothing calls that, and the pointers to the queue, the
  allocator and the package manager, which `serverapp.cpp:170-173` hands over, are
  uninitialised. `WorkPipeline` takes them for what the caller gives, and `queuelimit_`
  for any limit or none (`QueueLimit`); of the program as it is, whose first
  `OnPackage` reads such a pointer, it says nothing.
* Handlers are never given back to their pool: after `ACF_MAX_CONNECTIONS`
  accepts none is accepted any more (`nets/addressfilteracceptor.cpp:10`).
  `Connections` has the bound as `MaxHandlers`; no text in the repository says it
  should be otherwise.
* An interrupted `recv` leaves a connection without its one-shot read event and
  so without a timeout (`nets/connecteventhandler.cpp:59-63`). `connections` has
  the step where `interrupts` is TRUE; `Attended` and `ConnectionsEnd` are about the
  behaviours where it is not.
* `KEEP_CONNECTION` is defined nowhere, so a full stack closes the connection.
* `SetLimit`, and cancelling a thread, are not called once threads run.
* `strtol` takes signs and blanks; `StreamFraming` has digits and other
  characters. Lengths have digits of a smaller base, and a message's contents
  are a repeated digit.
* The binary stream's `ReadNoCopy` (`pros/protocolstream.cpp:383`) does not look at
  the end, unlike the other reads. `ReadPast` is this step, and `CursorInBounds` is
  about all others. `ExtractStream` gives a stream of length 0 where a message is
  not complete; its position is past its end from the start, and no caller in the
  repository asks `IsEnd` of it. Readers are modelled on whole messages.
* `TextWriteStream::WriteContent` and `WriteLength` (`pros/protocolstream.cpp:283-309`)
  and `BinaryWriteStream::WriteLength` (703-720) are public and write without looking
  at the end of the buffer. In `ProtocolStream` they are parts of `Write`, which
  looks first; a program that calls them itself is left out.
* A block's allocations succeed: `HandleInput` does not look at what `Resize`
  returns (`nets/connecteventhandler.cpp:48`) and would receive into memory the
  block does not have.
* `Package::Serialize` and `Unserialize`, which nothing calls: the latter copies the
  protocol over the handler's id (`pros/package.cpp:89`).
* `Connector::Open` does not look whether an attempt is under way and would forget
  its descriptor (`nets/connector.cpp:43`); the model takes it as the caller's duty.
  A derived class that schedules a timer would not get `HandleClose` from Close;
  connectors of the model have none.
* An answer in `ConnectionBytes` is its request's bytes: what workers make of them
  is commented out.
* `SelectReactor` compares a timer's seconds with the nanoseconds of the least
  deadline so far (`nets/selectreactor.cpp:304`). `Reactors` has this as it is
  (`TimerEarlier`): a timer may be late by it. It takes `maxfd` from the wrong event
  (277), which `Ready` has as well: a handler that only writes is not watched, and a Connector without
  a timeout may wait for ever.
* A handler registers either always with a timeout or always without, as those
  of the repository do. `SelectReactor` keeps an old timeout (95); a handler that
  mixes the two would be timed out for ever, and its timers not served.
* No handler of the repository schedules a timer, so what one may do is open.
  In `Reactors` any handler may cancel any of its timers at any time. Under
  `SelectReactor` one that cancels a timer in the timer's own `HandleTimeout` breaks
  the assertion at 376, or leaves no reactor data to look at (374-375): `aborted`, and
  the process has ended. If it has scheduled another since, which got the same
  address, that one is deleted in its place, under either reactor. Under
  `LibEventReactor` cancelling is otherwise harmless: `CancelTimer` finds nothing, or
  calls `HandleClose` again where there is no reactor data (240-243), which changes
  no state of the reactor's and is not counted.
* In `Reactors` a unit of time is a microsecond, to which `select`'s timeout is
  rounded down (328): the wait ends at the deadline up to that. A timeout of an event closes its
  handler, as `ConnectEventHandler` and `Connector` do. Failing allocations and a
  failing `event_add` are left out.
* Start-up, addresses, logging: see section 1
  and `components` in `PROJECT.json`.

## 6. Where code and text disagree

* `pool_exhausted`: with an increment of 0 and the maximum not reached, which is
  `package_allocator_(128, 1000)`, `Create` takes the front of an empty list; the
  message at `pros/procpack.cpp:79` expects NULL.
* `phantom_thread`: `pthread_create`'s result is compared with -1
  (`utils/thread.cpp:37`), which it never is; a thread that does not exist is
  counted, and Stop, which waits "for exiting of all stopcount thread"
  (`utils/threadpool.cpp:106`), polls for ever.
* `late_answer`: a closed handler stays on the registry with its descriptor's
  number, so an answer that comes late is sent on whatever connection has the
  number now; the message at `nets/pusheventhandler.cpp:24` expects the handler
  to be gone. With `Close` for an answer, that connection loses its descriptor.
* `flush_asserts`: `TextWriteStream::IsValid` (`pros/protocolstream.cpp:320`) allows
  data of exactly `1 << (lenFieldLen * 4)` bytes, whose length has one digit more
  than the field; `Flush` asserts that it has not (333), and is called on what
  `IsValid` allows (`utils/workthreadpool.cpp:408`, at present commented out).

## 7. Plan

Done: the pipeline with its promise (first, as the system's purpose), the
queues it stands on, the thread pool, connections with their acceptor, framing
and the send buffer on data blocks, streams, reactors, connectors.

Also done: a theorem for every safety invariant, for both refinements of
safety and for the action property that the runs check.

Next: the pool's Create and Destroy at the grain of the list, with the null
mutex, which is the one part of the request pipeline that is taken as atomic
without the code ensuring it.

## 8. Running

    tlc -config Pipeline.cfg MCWorkPipeline
    tlapm WorkPipelineProofs.tla

and likewise for the other configurations and the other `*Proofs` modules
(`RecursionFacts` has proofs as well); `PROJECT.json` names each run's module
and configuration, and maps each definition to the lines it models.

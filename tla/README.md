# htcp_Multithread in TLA+

The repository is a small multi-threaded TCP server library in the style of
muduo: one event loop per thread, a base loop that accepts connections, and I/O
loops that the connections are spread over. These modules model what its
threads and callbacks share, check it with TLC on small instances, and prove
the most important parts for all sizes with TLAPS. `PROJECT.json` ties every
definition to the lines it models, every run to its properties and every
property to a change of the code that would break it.

## 1. Inventory

| Component | Files | State | Operations |
|---|---|---|---|
| EventLoop | EventLoop, CurrentThread | `quit_`, `callingPendingFunctors_`, `pendingFunctors_` (under `mutex_`), `wakeupFd_`, the batch of `doPendingFunctors` | `loop`, `quit`, `runInLoop`, `queueInLoop`, `wakeup`, `handleRead`, `doPendingFunctors` |
| Poller and Channel | EPollPoller, Poller, Channel | per channel `events_`, `index_`, `revents_`; `channels_`, `events_`; the epoll set in the kernel | `enable*`, `disable*`, `remove`, `poll`, `fillActiveChannels`, `handleEvent` |
| TcpConnection | TcpConnection | `state_` (atomic), `inputBuffer_`, `outputBuffer_`, its Channel and Socket, `tie_` | `send`, `sendInLoop`, `shutdown`, `shutdownInLoop`, `handleRead`, `handleWrite`, `handleClose`, `handleError`, `connectEstablished`, `connectDestroyed` |
| TcpServer, EventLoopThreadPool | TcpServer, EventLoopThreadPool | `started_`, `numThreads_`, `connections_`, `nextConnId_`, `loops_`, `next_` | `setThreadNum`, `start`, `newConnection`, `removeConnection`, `removeConnectionInLoop`, `getNextLoop`, the destructors |
| EventLoopThread, Thread | EventLoopThread, Thread | `loop_` (under `mutex_`, `cond_`), `thread_` | `startLoop`, `threadFunc`, `~EventLoopThread`, `Thread::start`, `join` |
| Buffer | Buffer | `buffer_`, `readerIndex_`, `writerIndex_` | `append`, `retrieve*`, `ensureWritableBytes`, `makeSpace`, `readFd`, `writeFd` |
| Acceptor, Socket | Acceptor, Socket | `listening_`, the listening socket with its backlog, its Channel | `listen`, `handleRead` (accept), `~Acceptor`, socket options |
| Logger | Logger | one shared `logLevel_`, the line on `std::cout` | `LOG_...`: `setLogLevel`, `log`, `exit` |
| InetAddress, Timestamp, Callbacks, noncopyable, DefaultPoller | | values | conversions |

### How they interact

* The base loop's thread runs the Acceptor. `TcpServer::newConnection` takes an
  I/O loop from the pool, makes a TcpConnection, and hands it
  `connectEstablished` by `runInLoop`.
* From then on the connection belongs to its I/O loop: the poller reports
  events, `Channel::handleEvent` calls the connection's handlers. Other threads
  reach it through the loop's functor queue only, with the exception of
  `state_`, which `send` and `shutdown` read and write in any thread.
* A close event runs `handleClose` in the I/O loop, which queues
  `removeConnectionInLoop` in the base loop, which drops the reference of
  `connections_` and queues `connectDestroyed` in the I/O loop. The functors
  hold the `shared_ptr`s that keep the connection alive in between.
* `~TcpServer` queues `connectDestroyed` for what is left; its pool then quits
  and joins the I/O threads one after another.
* `queueInLoop` and `quit` announce themselves by a store and, after it, a write
  to an eventfd that is a channel of the loop.

### What is hard

The order of a store and its wakeup, on both sides; callbacks that queue
callbacks; a flag that is reset at the start of `loop()`; a descriptor that is
closed and used again while pointers to the old channel are around; `state_`
tested in one thread and set in another; partial writes; a FIN that must wait
for buffered data; the last reference to a connection, dropped by either of two
threads; a call queued with a raw `this` while that reference goes; a destructor
that races functors, quits loops and joins their threads; descriptors that run
out while clients wait; one logger for all threads, without a lock.
`hazards` in `PROJECT.json` lists all of it at its line.

### What makes each component correct

* **EventLoop**: a mailbox. Each callback runs once, in order, soon; a quit ends
  the loop.
* **Poller/Channel**: `index_`, `channels_` and the kernel agree; no epoll_ctl
  call that would exit the process; no event for a channel that is gone.
* **TcpConnection**: bytes keep their order and are all sent; EPOLLOUT is on
  exactly while data waits; FIN after the data; silence after close; a queued
  call finds the object; the user is told up, messages, down, in this order.
* **TcpServer and Acceptor**: a connection outlives its registration, is
  destroyed once, and is freed after it closed; a client that waits is served;
  loops are taken in turn; the destructor returns, early quits aside.
* **EventLoopThread**: `startLoop` returns a real loop, and returns; the object
  outlives its thread; nobody finds `loop_` pointing to a loop that is gone.
* **Buffer**: a queue of bytes; no index outside the vector.
* **Logger**: a line that none overlaps is whole; a tag is wrong only by a line
  that began in between; LOG_FATAL ends the program.

## 2. Modules

Every component has `X.tla` (state, actions, specification), `XProps.tla`
(properties), `MCX.tla` (values for TLC) and, where something is proved,
`XProofs.tla`. Operators headed "Mutant" in a component are changes of the code
that a property must notice; no specification uses them.

### EventLoop (EventLoop.cc) and FunctorQueue

`pc` is the place of the loop's thread in `loop()`; `inCallback` says that user
code (thread-init callback, handler of another channel, functor) has control
there and may call any operation. Every other thread is either idle or in the
middle of a call: `emplaced`, between `pendingFunctors_.emplace_back` and the
test in `queueInLoop`, or `quitting`, between `quit_ = true` and `wakeup()`.
The eventfd is a Boolean, as only "readable or not" matters. All channels but
the wakeup channel are one, `io`.

`FunctorQueue` is the abstract specification: a mailbox. `MailboxSafety` and
`MailboxProgress` say that EventLoop implements it, with
`queue <- functors \o pendingFunctors_` (what is left of the batch, then what
came in since the swap) and `open <- pc # "stopped"`.

### EPollPoller (EPollPoller.cc, Channel.h, Poller.cc)

Channel objects come and go, on descriptors that are handed out again. `epoll`
is the kernel's set: pointer and interest per descriptor; `channels_` the
poller's map; `events_` and `index_` the channels' own view. `Enable`,
`Disable` and `DisableAll` are Channel's functions with the whole of
`updateChannel` in the action, including the epoll_ctl call and its failure,
which sets `fatal`. `Poll` reports any choice of ready channels, at most
`listSize` of them, which doubles when full. Channels are removed in functors,
between batches of events: this is where TcpServer puts `connectDestroyed`.

### TcpConnection (TcpConnection.cc, Channel.cc, part of TcpServer.cc)

One connection. The loop's thread is atomic between two user callbacks, since it
shares with others only `state_` and the functor queue; calls of other threads
are split at each access to either. Bytes are pairs of message and position, so
that order, loss and doubling show; byte 0 is what lies before a message, byte
-1 what is found where a destroyed string was. `Written` is the result of
write(2): any number of bytes, none, or -1, with a stale `errno` of any value
after a success. `revents_` is taken apart in the order of
`handleEventWithGuard`: hang-up, error, read, write, with user callbacks in
between. The removal by TcpServer is two actions of the environment.

A call of another thread is queued with a raw pointer (`QueueRaw`). `Owned` says
who holds a `shared_ptr` at that moment: `connections_` (until `erased`), other
threads (`kept`, until `Drop`), `handleEvent` by its tie, and the functors that
bind one. `deadUse` records a call that ran with none of them left, `late` one
that was queued after the connection had been erased.

`ConnectionView` is the abstract specification, what the user's callbacks are
promised; `ImplementsView` says that TcpConnection implements it, liveness
included: up, one callback at a time, and down in the end once the peer has
gone.

### Acceptor (Acceptor.cc, Socket.cc) and TcpServer (TcpServer.cc, EventLoopThreadPool.cc, part of EventLoop.cc)

Acceptor has the operations on the listening socket: `Listen`, `Accept`, which
fails at `MaxFd` descriptors and leaves the client in the backlog, and
`CloseAcceptor`. TcpServer extends it and puts them into its actions.

`start()` runs in the base loop's thread, in one step (`StartHere`), or in
another one (`StartElsewhere`, a `StartThread` for every loop of the pool,
`QueueListen`), while the base loop already runs; the number of I/O threads is
any from 0 to the length of `Threads`. Clients connect at any time
(`ClientConnects`).

A loop is in `loops_` as soon as its thread has published it
(EventLoopThread.cc:53), and `pc` is `"enter"` until the thread gets to `loop()`
(`EnterLoop`), which stores `quit_ = false` over whatever a `quit()` has stored
(EventLoop.cc:66) and goes on to the test of `quit_`, the same that follows a
batch (`EndFunctors`). What is queued in between waits in `pending`. The base
loop begins in the same way: the server may be started, and may go, before
`loop()`.

Each loop is reduced to what the EventLoop modules show it to implement: a queue
and a batch. Connections are numbered in order of acceptance. `Owned` is the set
of connections that somebody holds a `shared_ptr` to: the map, a queued functor,
a functor of the running batch (which is destroyed with the batch), the frame of
`handleClose`. Its size is the number of descriptors in use. `~TcpServer` is a
sequence of steps (`BeginDestroy`, `DestroyConnection`, `EndBody`, and
`QuitLoop`, `JoinLoop` for every worker, `EndDestroy`, which closes the
Acceptor), run by the base loop's thread in a functor or outside `loop()`; functors
of the user are not in `batch`, so `BeginDestroy` needs none there. `QuitLoop`
calls `quit()` once for each thread, and `server` is `"waiting"` from then until
its `JoinLoop`. `left` remembers what `connections_` held when it began.

`ConnectionLives` is the abstract specification, what a server promises of its
connections: accepted in turn, up once, closed or not, destroyed at most once.
`EachLivesOnce` says that TcpServer implements it. The same module is held
against TcpConnection by `LivesOnce`, for the one connection there: both models
have the same idea of a life.

### EventLoopThread (EventLoopThread.cc, Thread.cc, EventLoopThreadPool.cc)

The owner, which starts and destroys the workers in order, and per worker the
place of `threadFunc`. `cond_.wait` may return on its own. The owner's `quit()`
is a store and, as a second step, the uses of the loop after it; the final
unlock of `threadFunc` and the destruction of the loop on its stack are steps.

### Buffer (Buffer.h, Buffer.cc) and ByteQueue

The vector is a sequence of bytes, operations are functions of the record
`[buffer_, readerIndex_, writerIndex_]`, as in the class. `readFd` is
`Filled`: what fits goes to the vector, the rest by way of `extrabuf` to
`append`. `ByteQueue` is the abstract specification, a queue of bytes, and
`IsByteQueue` says that Buffer implements it, with `queue <- Content(buf)`.

### Logger (Logger.h, Logger.cc)

All threads share one `logLevel_`, which a line stores and later reads back, and
one `std::cout`, to which it is written in pieces: each is a step of its own.
`at` is the place of a thread in its LOG_ macro. `rivals` are the levels that
others stored since a thread stored its own, `alone` says that no other line
overlaps. The text of time and message is left out.

### How the models lean on each other

| Assumption | Made in | Shown in |
|---|---|---|
| A connection that is up hands its close to TcpServer once, and is gone after `connectDestroyed` | TcpServer | `ClosedStaysQuiet`, `ReportsCloseOnce`, `LivesOnce` of TcpConnection |
| TcpServer runs `connectEstablished` and, later, `connectDestroyed` once | TcpConnection | `EachLivesOnce` of TcpServer |
| A queued functor wakes its loop, a quit too | fairness of TcpServer, EventLoopThread, TcpConnection | `NoLostWakeup`, `QuitWakesPoll`, `PromptlyRun`, `QuitStopsLoop` of EventLoop |
| A loop is a FIFO of functors, run in batches | TcpServer, TcpConnection | `MailboxSafety` of EventLoop |
| Only a registered channel is reported | TcpConnection, TcpServer | `ViewsAgree`, `NoDanglingChannel` of EPollPoller |
| A channel is removed before it is destroyed | EPollPoller | `OwnedWhileInPoller` of TcpServer |
| `outputBuffer_` is a queue of bytes | TcpConnection | `IsByteQueue` of Buffer |
| The pool's loops exist and are distinct | TcpServer | `StartedLoopsAreReal` of EventLoopThread |

## 3. Runs

| Run | Instance | Shows |
|---|---|---|
| EventLoop | 3 callbacks (1 may be queued by the thread-init callback), 2 foreign threads | types; no lost wakeup, also of a quit; callbacks are run and a quit stops the loop without the poll timeout; the mailbox, safety and, with the timeout, progress |
| EventLoopEarlyQuit | same | violation: a quit before `loop()` is lost |
| EPollPoller | 3 channels, 2 descriptors, room for 1 event | types, agreement of the three views, nothing left behind, no fatal epoll_ctl, no dangling channel |
| TcpConnectionClose | 2 messages (2 bytes and 1), 1 foreign sender that may let go of the connection, all user callbacks set | types, a closed connection stays quiet, a queued call finds its connection, the user's view of the callbacks |
| TcpConnectionStream | 1 foreign sender, 1 thread that shuts down, a server that may go | order of bytes, EPOLLOUT, FIN after the drain and in the end |
| TcpConnectionPartialWrite | loop's thread only | violation: a partial or failed write |
| TcpConnectionForeignShutdown | 1 sender, 1 thread that shuts down | violation: a closed connection comes back |
| TcpServerPool | 3 clients, 2 descriptors, 0 to 2 I/O loops, `start()` in either thread, `~TcpServer` | types, owned while registered, round robin, the lives of connections, no closed connection forgotten, no functor on a dead server without I/O loops, closed is freed, every client is served, the destructor returns unless a loop is quit before it is entered |
| TcpServerDestructor | 2 clients, 2 descriptors, 0 to 2 I/O loops, `~TcpServer` | violation: a connection left in `connections_` is not destroyed, as its I/O loop stops before it runs the queued `connectDestroyed` |
| EventLoopThread | 3 workers, user code may quit them | types, `loop_` never dangles, real loops, joined before freed, `start()` returns |
| Logger | 2 threads, lines of all levels | tags and overlaps, a line alone is whole, a fatal line ends the program |
| Buffer | data of up to 3 bytes, 2 byte values, at most 4 readable, 1 kept in front, room for 2, extrabuf of 2 | types and index order, a queue of bytes, growth only when full |

**Bounds.** Three callbacks are enough for one in the batch, one behind it and
one that arrives in between; two foreign threads for a wakeup that is swallowed
by another one's. Three channels on two descriptors force reuse and leave one
waiting; one slot in `events_` makes it overflow. A message of two bytes can be
cut, a second one can overtake it. TcpConnectionStream leaves out the high-water
and write-complete callbacks, which TcpConnectionClose has. With two I/O loops
and three connections round robin wraps around, and one is removed while another
is destroyed; three clients and two descriptors make accept fail until one of
the others is freed. Two threads are enough for every overlap of two lines; a
third adds another rival. In Buffer every one of exact fit, move, and growth,
and of reading less than, as much as and more than the vector holds, occurs with
three bytes. Counters are bounded by `MaxConn` (clients), `MaxReadable` and the
numbers of messages and callbacks, each handed over once. The proofs do away
with these bounds where there are proofs. Symmetry is used in EPollPoller alone,
which has no liveness property.

**Fairness.** The scheduler runs every thread, and calls that are under way
return: weak fairness of each thread's steps. User callbacks return: strong,
because a callback may call `quit()` any number of times first. `epoll_wait`
reports what stays ready: strong in TcpConnection, where the loop may be doing
something else in between. The peer goes on reading, for `ShutdownCompletes`;
what a peer that has gone had sent comes to an end, and the kernel's error after
a reset is followed by end of file (`EndIsSeen`), for `ImplementsView`. In
TcpServer every thread of the pool goes on from publishing its loop to `loop()`,
and the user calls the base loop's `loop()` (weak, `EnterLoop`). There
the base loop accepts strongly fairly, since between two of its
chances it serves other channels and functors; `EveryClientServed` assumes
further that connections end (`ConnectionsEnd`), as nothing in the code makes
room otherwise. A thread that has begun a line goes on with it (weak, Logger).
The poll timeout (10 s) is not fair in any specification; `MailboxProgress`
alone assumes it (`Timeouts`), so that what needs the timeout is told from what
does not. No fairness makes anybody call `send`, `quit` or anything else.

**CHECK_DEADLOCK FALSE** stands where the system does stop: a connection that is
destroyed, a server that is gone, a pool that is gone. In EventLoopThread and
TcpServer there is one more stop, that of the code: a `quit()` that the
destructor calls before the thread has entered `loop()` is overwritten there
(EventLoopEarlyQuit), and `join` waits for ever. `~TcpServer` soon after
`start()` meets it. `DestructorReturns` therefore promises less than that the
destructor returns: it does, or it has told a loop to quit that was not entered
yet (`QuitTooEarly`). So every other stop of the destructor would be found, and
this one is exempt; a server that goes after all its I/O threads have entered
`loop()` is safe. `ClosedIsFreed` and `EveryClientServed` say that TcpServer does
not stop elsewhere as long as the server is up and its base loop is not quit.

**Findings.** The four violation runs are listed in `PROJECT.json` with the
sentence of the repository that each contradicts: a quit before `loop()` is
overwritten; what a partial write leaves is not what is buffered; `shutdown()`
in another thread can bring a closed connection back into the epoll set;
`~TcpServer` may end without `connectDestroyed` for a connection that was left in
`connections_`, as the I/O loop in which it queues the call may stop first. The
first of these is also what can keep `~TcpServer` in `join`.

Four more weaknesses are in the models, and reachable, but are not stated by a
run. A callback queued before `loop()` waits for the first event or the
timeout: `NoLostWakeup` and `PromptlyRun` exempt `InitFunctors`. `send()` from
another thread keeps a pointer into a string that may be gone (`DropString`). A
message queued before the shutdown is taken on after the FIN, against the
comment at TcpConnection.cc:198. `quit()` uses the loop after it has set `quit_`
(`QuitStore`, `QuitWakeup`).

## 4. Proofs

All for every value of the constants, under the named `ASSUME` of each module
(distinct names, sizes natural numbers).

* **EventLoopProofs.** `TypeCorrect`. `NoLostWakeupHolds`: the property speaks of
  `pc = "poll"` alone and is not inductive. `WakeupInv` claims a wakeup, made or
  due, from the start of a batch to the end of the next `epoll_wait`; while
  `callingPendingFunctors_` is set it may also be one that the loop's own thread
  is about to write. Between `handleRead` and the swap nothing is claimed, since
  the loop is on its way to the swap. `QuitWakesPollHolds`: inductive with the
  types, as a quit by the loop's own thread falls outside `epoll_wait` and is
  tested before the next one. `MailboxSafetyHolds`: every step of EventLoop is
  one of FunctorQueue or a stutter, by lemmas on what `Append`, `Head` and `Tail`
  do to the batch followed by the queue.
* **EPollPollerProofs.** `Inv` is the conjunction of types, distinct descriptors,
  `ViewsAgree` and `NothingLeftBehind`: none of them is inductive alone, because
  an ADD succeeds only if the descriptor's entry is empty, which is so because
  nothing was left behind by its last owner. `UpdateKeepsInv` does this for
  `Update` once, and the Channel functions are instances of it. `Safe` adds what
  the active channels need: they exist and are in the poller, and channels are
  removed only when there are none. `NeverFatalHolds`, `ViewsAgreeHolds`,
  `NothingLeftBehindHolds`, `NoDanglingChannelHolds`, `TypeCorrect` follow.
* **BufferProofs.** `TypeCorrect`, with the order of the indices, is inductive as
  it stands. `EnsureKeeps` (room is made, contents are kept, whether by moving or
  by growing), `CopyAppends`, `AppendPuts`, `FilledPuts` and `RetrieveDrops` say
  of each operation what it does to `Content`; with them
  `ImplementsByteQueue` is one abstract step for each concrete one, and
  `GrowsOnlyWhenFull` is arithmetic.
* **EventLoopThreadProofs.** Where a thread is in `threadFunc` fixes what is
  published (`LoopPublished`), where the owner is fixes how many loops it has been
  handed (`Counted`), and a loop that ends has a reason (`QuitHasReason`): user
  code, or the destructor that has come to it. `PublishedIsThere`,
  `StartReturnsLoops`, `ThreadsAreJoined` and `TypeCorrect` follow.
  `NotifyIsNotMissed` is the safety behind `StartReturns`: an owner goes to sleep
  only if the loop is still to be published, and `Publish` wakes it.
* **LoggerProofs.** What a thread may find in `logLevel_` (`LevelKnown`), who wrote
  the last piece (`LastIsWriting`), and what the line is while one thread alone
  is at it (`AloneWrites`). `TagsAreOfOverlaps`, `AloneMeansWhole`, and
  `TypeCorrect`, which no run checks.
* **TcpConnectionProofs.** The functor queue carries the argument: nothing has
  happened before `connectEstablished`, which is its head until it has run
  (`Fresh`), and once the connection is erased, `connectDestroyed` stands behind
  every raw call (`RawGuarded`). `Reports` ties what epoll reported to the channel,
  `WritesBuffered` EPOLLOUT to the buffer also while the poller has no interest,
  `Ordered` says besides the order that every byte is of a message taken on.
  `SendInLoopEffect` sums up every outcome of `sendInLoop` once, and
  `GrowsInOrder` what it does to the stream, wire and buffer together: bytes of
  the message that is taken on go in at its end. As `handleWrite` only moves the
  border between the two (`CutFacts`), nothing else touches it: `BytesAreKept`.
  `TypeCorrect`,
  `WritingMeansBuffered`, `BytesStayInOrder`, `QueuedCallsAreSafe` and `FinComesLast`
  hold for all threads; `DownIsQuiet` and `UserIsToldInOrder` (the safety part of
  `ImplementsView`) assume `Shutters = {}`, without which they are false.
  `RemovalInv`, on top of `Inv` and under the same assumption, follows a close to
  its end: at most one call is on its way to TcpServer (`CloseReported`), at most
  one `connectDestroyed` is queued, and it leaves no raw call behind it, unless
  one is `late` (`LastDestroyed`). So `CloseIsReportedOnce`, and
  `LivesAsPromised`: every step is one of ConnectionLives or a stutter. The
  exception for `late` calls is necessary: without it TLC finds a `send` that
  comes behind `connectDestroyed` and registers the channel of a connection in
  `kDisconnecting` again.
* **TcpServerProofs.** The life of a connection is told by the functors that wait
  for it. `Queues` says that a functor waits once, and that `connectEstablished`
  is never behind `connectDestroyed`, through the swap of the batch; `Home` in
  which loop each may wait; `ToBeEstablished`, `Closed`, `Destroyed` what
  waits together with what; `Kept` and `KeptByMap` what holds a connection whose
  channel is in the poller: the map, or a `connectDestroyed` on its way, or else
  its loop has stopped. Their conjunction with the types is inductive:
  `TypeCorrect`, `PolledIsOwned`, `DeadServerIsNotCalled`, and two that the runs
  check as part of `EachLivesOnce`, `NoneIsDestroyedTwice` (`DestroyedOnce`) and
  `DestroyedIsTheEnd` (`DestroyedStaysOut`). Round robin needs more than its own statement:
  `InTurn` says which loops are one ahead, and is inductive on top of it
  (`LoopsTakeTurns`).
* **TcpServerLifeProofs.** `LivesRefined`: TcpServer implements ConnectionLives,
  initial states and every step. The invariant above says where a connection is
  after `connectEstablished`; `LifeInv` adds where it is before, waiting for it
  unless its loop has ended (`EstablishedFirst`), that a closed one is in
  `handleClose`, in the base loop's queue or in its own (`OnItsWay`), and that I/O
  threads run while the server is up (`ThreadsRun`), without which the first two
  are not inductive. `ClosedIsNotForgotten` is the safety behind `ClosedIsFreed`:
  what liveness adds is only that queues are served.

`OutputKept`, `ReportsCloseOnce`, `LivesOnce`, `NoMissedNotify`, `DestroyedOnce` and
`DestroyedStaysOut` are proved and in no run: each sharpens, or is part of, what
the runs check of the same component.

**Model-checked only.** Liveness (`PromptlyRun`, `QuitStopsLoop`,
`MailboxProgress`, `ShutdownCompletes`, `ClosedIsFreed`, `EveryClientServed`,
`DestructorReturns`, `StartReturns`, `FatalEnds`, and that of `ImplementsView`):
out of the provers' reach.

## 5. Assumptions and limits

* SIGPIPE is ignored; the library does not do it, its user has to. `errno` after
  a successful write is any value, as the code reads it without a reset.
* A raw pointer that `send` or `shutdown` queues is good if it is queued before
  `connectDestroyed`, as `RawPointersLive` shows. The thread may be so slow,
  between its test of `state_` and the queue, that it comes behind; then nothing
  in the code keeps the object, and if a user's `TcpConnectionPtr` does, a send
  puts a connection in `kDisconnecting` back into the epoll set.
* `~TcpServer` is shown to return only if no I/O loop is told to quit before it
  has been entered; otherwise it does not (section 3, CHECK_DEADLOCK).
* `~TcpServer` runs after `start()` has come to its end, in the base loop's
  thread.
* Two threads in LOG_FATAL call `exit` at the same time, which is undefined; here
  the program ends.
* User code that quits a worker's loop is an exemption in `JoinedBeforeFreed`
  and `StartReturns`, which are false of such loops; the second read of `loop_` in
  `~EventLoopThread`, null then, is the end of the program.
  `NoCallOnDeadServer` is checked for a server without I/O threads, and is false
  with them.
* User code calls each operation in the threads it is meant for: channel and
  connection handlers in their loop. It may `send` and `shutdown` anywhere.
* The memory order of `quit_`, `callingPendingFunctors_` and `state_` is
  sequentially consistent, which is what `std::atomic` defaults to.
* Sizes in Buffer are far from the limits of `size_t`.

Not modelled: the socket options and the address given to `bind`, InetAddress,
Timestamp (values and formatting), DefaultPoller (one environment variable), the
example, build files, and the data in `inputBuffer_`, which is the user's. When
descriptors run out the base loop spins, awake and logging, until one is freed;
the model says that it accepts afterwards, not what it costs meanwhile.

## 6. Plan

Done, in this order, the most shared first: EventLoop with FunctorQueue;
EPollPoller; TcpConnection; TcpServer; EventLoopThread; Buffer with ByteQueue;
Acceptor and `start()` in TcpServer; raw pointers and ConnectionView in
TcpConnection; Logger; proofs of EventLoopThread, Logger, TcpServer
and TcpConnection; ConnectionLives, with the proofs that TcpServer and
TcpConnection follow it.

Next: TcpServer with the calls of other threads on its connections, in one module.

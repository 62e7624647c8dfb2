# A TLA+ verification of Dserver

Dserver is a C++ network library in the style of one event loop per thread: a
server owns a pool of IO threads, each with its own `EventLoop`, `EPollPoller`,
`TimerQueue` and (through `SO_REUSEPORT`) its own `Acceptor`; connections are
objects shared between the loop that serves them, the server's base loop and
the user's threads; a `ThreadPool` takes computation off the IO threads and an
`AsyncLogging` thread takes the log. An HTTP server and a file server are built
on top.

This directory specifies the library in TLA+, checks small instances with TLC
and proves the central results about the event loop, the thread pool's queue and
the buffer with TLAPS. Paths such as `net/EventLoop.cc` are relative to `src/src/`. `PROJECT.json` maps each
definition to the lines it models.

## 1. Inventory

| Component | State | Operations | Interaction | What makes it correct |
|---|---|---|---|---|
| `EventLoop` | `quit_`, `pendingFunctors_`, `callingPendingFunctors_`, `activeChannels_`, an eventfd | `loop`, `quit`, `runInLoop`, `queueInLoop`, `wakeup` | every other thread hands it functors; it calls channels and functors | no functor and no `quit()` is slept over; functors run in order, once |
| `EventLoopThread`, `Thread` | `loop_`, the thread | `startLoop`, `threadFunc`, destructor | the owner's destructor races with the thread | the owner uses a loop that exists; the destructor returns, after the thread is through with the object |
| `EventLoopThreadPool` | a vector of the above | `start`, `getAllLoops`, destructor | `TcpServer` | every loop is joined |
| `Channel`, `EPollPoller` | `events_`, `revents_`, `index_`, `tie_`; `channels_` | `handleEvent`, `update`, `remove`; `poll`, `updateChannel`, `removeChannel` | called by a loop, calls handlers | index and epoll set agree; with descriptors reused no event reaches the wrong object, nor a dead one |
| `TcpConnection` | `state_`, `reading_`, channel, buffers | `send`, `shutdown`, `startRead`, `stopRead`, the four handlers, `connectEstablished`, `connectDestroyed` | IO loop, base loop, user threads | the stream is whole and ordered; data goes out before a shutdown; closed connections are reclaimed; assertions hold |
| `TcpServer` | the pool, callbacks | `start`, `newConnection`, `removeConnection`, destructor | acceptors, connections, loops | clients are served, connections removed once and reclaimed, the server stops |
| `Acceptor`, `Socket` | listening socket, reserve descriptor | `listen`, `handleRead` | its loop; the process's descriptors | no descriptor leaks at the limit; every pending connection is accepted or refused, without spinning |
| `TimerQueue`, `Timer` | `timers_`, `activeTimers_`, `cancelingTimers_`, a timerfd | `addTimer`, `cancel`, `handleRead`, `reset` | its loop; other threads through functors | the two sets agree, the timerfd is set in time, a cancel is final, nothing leaks |
| `Buffer` | a vector and two indices | `append`, `retrieve*`, `prepend`, `readFd`, `shrink` | connections | a queue of bytes |
| `ThreadPool`, `BlockingQueue` | `queue_`, two conditions, `running_` | `start`, `run`, `put`, `take`, `stop` | producers, workers; tasks may call `run` | no lost notification; tasks run once; `stop` returns |
| `AsyncLogging` | four buffers and two vectors of them, `running_` | `append`, `start`, `stop`, `threadFunc` | every thread that logs | lines in order; spare buffers come back; `stop` returns |
| `LogFile`, `AppendFile` | the file, `writtenBytes_`, `lastRoll_` | `append`, `flush`, `rollFile` | the logging thread | nothing lost when rolling; what a failed write loses is all that is lost |
| HTTP | parse state, request | `parseRequest`, `onMessage`, `onRequest` | connections | each request answered once |
| `fileServer` | a password map and a directory shared by the IO threads | `onMessage` | connections | replies match requests; a download is what was uploaded |
| `Logger`, `LogStream` | a buffer per statement, a cached time per thread | the `LOG_` macros, `operator<<` | every thread; `AsyncLogging` | lines whole, within the buffer, with their own time |
| values | `Timestamp`, `InetAddress`, `Endian`, ... | conversions | - | - |

The hard parts are the hand-overs between threads: a functor is pushed and the
loop woken in two steps; `state_` is tested in one thread and changed in
another; objects are kept alive by whoever holds a `shared_ptr`, while functors
carry raw `this` pointers; destructors run while their thread still does; timers
are freed and their addresses used again; conditions are notified when nobody
waits; descriptor numbers come back as soon as they are closed. `PROJECT.json`
lists these hazards line by line.

## 2. Modules

| Module | Models | Notes |
|---|---|---|
| `LoopExecutor` | - | abstract: a FIFO executor that is active or not |
| `EventLoop` | `net/EventLoop.cc`, `EPollPoller::poll` | refines `LoopExecutor` |
| `EventLoopProofs` | - | the proofs about `EventLoop` |
| `EventLoopThread` | `net/EventLoopThread.cc`, `base/Thread.cc` | extends `EventLoop`: its loop is that loop, its owner the loop's only caller |
| `TcpConnection` | `net/TcpConnection.cc`, `net/Channel.cc`, `EPollPoller::updateChannel`, `removeChannel`, connection part of `net/TcpServer.cc` | one connection in all detail; uses loops as what `LoopExecutor` says they are |
| `Poller` | `net/Channel.cc`, `net/Epoller.cc` | channels, pollers, epoll sets and the descriptor table; operators the next two put in their actions |
| `Acceptor` | `net/Acceptor.cc`, `net/SocketOps.cc` | extends `Poller`: one acceptor per loop, and the clients |
| `TcpServer` | `net/TcpServer.cc`, `net/EventLoopThreadPool.cc`, `EventLoop::setAcceptor`, `~EventLoop` | extends `Acceptor`: all loops, the base loop, the life of connections and of the server |
| `ThreadPool` | `base/ThreadPool.h`, `base/ThreadPool.cc` | |
| `ThreadPoolProofs` | - | the proofs about `ThreadPool` |
| `TimerQueue` | `net/TimerQueue.cc`, `net/Timer.*` | |
| `LogFile`, `AsyncLogging` | `base/LogFile.cc`, `base/FileUtil.cc`, `base/AsyncLogging.*` | `AsyncLogging` extends `LogFile` and makes its operations part of its steps |
| `ByteQueue`, `Buffer` | `net/Buffer.h`, `net/Buffer.cc` | `ByteQueue` is abstract |
| `BufferProofs` | - | the proofs about `Buffer` |
| `HttpServer` | `net/http/` | on a connection that is what `TcpConnection` shows it to be |
| `FileServer` | `fileServer/fileServer.cc` | likewise, several connections |
| `LogStream`, `Logger` | `base/LogStream.*`, `base/Logging.*` | the buffer as pure operators, the statements of several threads |
| `MC*` | - | what the configurations instantiate |

An operator with the comment "Mutant of X" is a version of `X` with
a plausible mistake in it. It is used nowhere; putting it in place of `X` makes
TLC report the property `PROJECT.json` lists it for, which shows that the
property depends on `X` being right.

### EventLoop
`loopPc` is the place of the loop thread in `loop()` and `doPendingFunctors`.
The push of a functor, which is under `mutex_`, and the write to the eventfd are
two steps of a calling thread, as are the store to `quit_` and the write. The
swap of `pendingFunctors_` is one step. User code runs at `"callback"`,
`"functor"` and outside `loop()`, and may call `runInLoop`, `queueInLoop` and
`quit` there. `epoll_wait` may return any non-empty set of ready channels, or
nothing. The variable `early` marks what `queueInLoop` does not wake the loop
for: functors the loop thread itself queues while `loop()` is not running.

### EventLoopThread
`threadFunc`'s steps are construction, publication of `loop_`, the loop itself,
clearing of `loop_` under `mutex_`, unlocking. The destructor's steps are the
unlocked test of `loop_`, `quit()` (on the pointer tested, or on `loop_` read
anew), its wakeup, `join()`; the owner may destroy the object at any time between
two of its calls. `dangling` collects the calls made on a loop that no longer
exists, and `selfQuit` records that a functor called `quit()` on its own loop,
which is what the properties depend on: such a loop ends, and clears `loop_`,
without the owner's doing.

### TcpConnection
One connection. `ioPc` is the IO thread: polling, dispatching `revents_` in
`handleEvent`, or in user code. A message is `MsgLen` units; each write takes any
number of them, including none. The three owners of a connection are explicit in
`Referenced`: the loop's map, threads that hold a pointer, functors bound with
`shared_from_this()` (and the guard of the handler that runs). `Gone` is the
destruction. A thread's `send` and `shutdown` are two and three steps: test of
`state_`, its change, queueing. The kernel reports `POLLHUP` and `POLLERR`
without interest; the peer may send, half-close or reset at any time. The
program is taken to ignore `SIGPIPE`, which the `EPIPE` branch of `sendInLoop`
supposes and nothing in the library arranges.

What the user does is the variable `user`, chosen at the start from the constant
`Users`: `loopOps` and `callerOps` are the calls made in callbacks and by other
threads, `keepRef` says that a thread keeps its pointer while functors it queued
are pending, `askConnected` that it asks `connected()` before it sends.
`Careful` programs keep both rules and only send from other threads.

### Poller, Acceptor and TcpServer
`Poller` has the table of open descriptors (`open`, at most `limit`), each
channel's `fd_`, `events_` and `index_`, each poller's `channels_` and the
kernel's set behind it. A new descriptor is the lowest free number; closing one
takes it out of every epoll set but out of no poller's map. An acceptor's channel bears the
name of its loop, a connection's that of its client.

`Acceptor` takes `handleRead` apart at every system call, because the loops share
the descriptors: `"accept"`, `"refuse"` (the inner loop after the reserve was
given up), `"refused"`, `"reopen"`. As in Linux, `accept` fails for want of a descriptor
before it looks whether somebody waits. The two inner loops that try again are
steps that become possible when the call succeeds.

`TcpServer` runs `start()` and the base loop in the main thread and the IO loops
beside it: poll, handlers in any order, the swap of `pendingFunctors_`, its
functors, the destruction of the swapped vector. That last step, the end
of a loop and the end of the base loop are where connections die (`Gone`): the
step that drops the last reference evaluates the destructors' assertions and
closes the descriptor. `failed` collects what the process aborts on, and nothing
happens after it. The frozen variable `program` holds the descriptor limit,
whether the program quits only when it has no connections left (`quiet`), and
how often it calls `start()`. `EventLoopThread` shows what happens
when a thread is destroyed early; here every loop is looping when `start()` goes on.

### ThreadPool
A critical section is one step. Waiting threads are sets; `notify()` removes any
member of one, which then has to get the mutex again like everybody else; waits
may end spuriously. Tasks may call `run()` (`Nested`).

### TimerQueue
Timers are at addresses that are used again, so stale `TimerId`s are possible. A
tick is the 100 microseconds below which `resetTimerfd` does not go.
`timerfd_settime` forgets an expiration already signalled, and `polled` records
that `epoll_wait` may have returned it before.

### AsyncLogging and LogFile
Lines are numbered in the order of `append`. A `BufferPtr` is a sequence of at
most one buffer. The logging thread's round is taken apart at every release of
`mutex_` and every write. stdio may write out any prefix of what it holds, so
`OnDisk` is what a crash would leave. An `append` in which `fwrite` fails loses any
of the lines that stdio holds and of those being appended (`lost`), and goes on as
if it had written them (`FileUtil.cc:35-51`).

### Buffer
The vector and both indices, with every copy, move and resize.

### HttpServer
A line is a value that says how `processRequestLine` and `addHeader` take it. The
network completes any number of lines per `onMessage`, none included; each round
of `parseRequest`'s loop is a step. A request may have a body, which the parser
takes for the beginning of the next request: a line of its own, or bytes without
a CRLF that join the next request's line. Bodies that look like a request are left
out. A rejected request line stays in the buffer and a method already set stays
set, as in the code, so that the next piece makes `setMethod`'s assertion fail
(`"aborted"`), which ends the process. The HTTP callback may close the connection
or keep it open whatever the request asked for; an answer records both. The client
may or may not wait for answers.

### FileServer
A frame is two units, its length and its content; the network cuts between any
two. `together` says whether the data of an upload always arrives with its
request. `onMessage` is taken apart where another thread can see or change
something: opening (which truncates), writing (over what is there), recording the
password; looking up, opening, each read up to the one that finds the end of the
file. An access to `passwordMap` is two steps, so that two accesses that overlap
can be told from two that follow each other. A content is a sequence of bytes of
which one may be NUL, where `string(buffer)` ends it; `count` is the size that is
sent with it. Files that cannot be opened, for writing or for reading, make
`onMessage` return with the request still in the buffer. Files are shorter than
1000 bytes: from there on the `sprintf` into `len[4]` (123-125) runs past its array,
and at 1024 `string(buffer)` does (114-130), and no behaviour is defined. The
clients' requests are a constant, `Scripts`. `begun`, `ended` and `since` count
uploads, to say which of them a download overlapped; `DownloadsMatch` is about names
that one connection uploads, since two that upload one name at once write over each
other.

### LogStream and Logger
A buffer is the sequence of pieces it took and its length, with the sizes of the
code (4000 and 32). Numbers are converted digit by digit with the remainders of
C++ and read back by `Value`. A statement begins (its time is taken, the
second's text renewed or kept), inserts everything in its own thread, and ends
in `g_output`. The clock may also be set back.

## 3. Runs

| Run | Configuration | Bounds | Shows |
|---|---|---|---|
| `event_loop` | `MCEventLoop` | 3 functors, 2 callers, 1 channel, eventfd of 2 | `NoLostWakeup`, `NoLostQuit`; implements `LoopExecutor`; `EveryFunctorRuns`, `QuitStopsLoop` |
| `event_loop_thread` | `MCEventLoopThread` | 2 functors; a functor may quit the loop, the owner may destroy it at any time | `OwnerSafe`, `DestructorReturns` |
| `tcp_connection` | `MCTcpConnection` | 2 messages of 2 units, high-water mark 3, 1 other thread; a careful program with everything in callbacks, and one whose thread does anything | `StreamIntegrity` for both; for the careful one `SenderOrder`, `WritingIffBuffered`, `FlushedBeforeShutdown`, `AssertionsHold`, `ClosedIsReclaimed`, `ShutdownCompletes`; states after a failed assertion or a use of a destroyed connection are not explored |
| `tcp_server` | `MCTcpServer` | 2 loops, 2 clients; descriptors scarce, ample, and scarce with a careless program | `FdsOwned`, `NoCrossTalk` for all; `AssertionsHold` for careful programs; with ample descriptors `ClientsAnswered`, `ConnectionsReclaimed`, `StopReturns` |
| `thread_pool` | `MCThreadPool` | 2 workers, 2 producers, 4 tasks, queue of 2, nested `run` | `NoIdleWorker`, `NoIdleSlot`, `StopReturns`, `EveryTaskRuns` |
| `timer_queue` | `MCTimerQueue` | 2 addresses, 3 timers, 4 ticks, 1 other thread | `Consistent`, `ArmedInTime`, `CancelIsFinal` |
| `async_logging` | `MCAsyncLogging` | 4 lines of 1 or 2 bytes, buffers of 3, more than 2 buffers dropped, 2 seconds, 1 failed write | `SparesReturn`, `LinesInOrder`, `HolesAreNoted`, `EveryLineWritten`, `StopReturns` |
| `buffer` | `MCBuffer` | 2 byte values, calls of up to 3 bytes, vector of up to 6 | `IsByteQueue` |
| `http_server` | `MCHttpServer` | 3 requests of 12 kinds | `AnswersMatch`, `AnsweredAtOnce` |
| `file_server` | `MCFileServer` | 2 connections, their requests in a few scripts | `RepliesMatch`, `DownloadsMatch`, `EveryRequestAnswered`; states after two threads are in `passwordMap` at once, one of them writing, are not explored |
| `logger` | `MCLogger` | 2 threads, 7 statements, 2 seconds, no statement begins after 2 lines | `LineIsWhole`, `WithinBuffer` |
| `busy_loop` | `MCBusyLoop` | 1 loop, 2 clients, 1 descriptor for them | **violated**: `RefusalEnds` |

Why the bounds suffice for the cases of interest: two callers and three functors
let a push and a wakeup of different callers surround the loop's swap while a
third functor is queued by a functor; an eventfd of 2 overflows. Two units per
message are what a partial write needs, two messages what a direct write behind
a partial one needs, and the high-water mark of 3 is passed by both together but
not by one. With two workers and two producers on a queue of two, both
conditions have several waiters and all workers can be stuck in nested calls.
Two addresses and three timers make a freed address used again while another
timer is live. With at most two pending buffers of three bytes, three lines fill,
exchange and drop buffers and the fourth comes behind the hole. A vector of six bytes over an initial three is grown
and moved. Three requests put a good one before and after each kind of bad or
closing one, or one with a body. An upload repeated by a connection with a shorter
and with a longer content, and a download beside it, meet at every step. With two loops, two clients and one descriptor between them, both acceptors
can be at the limit at once, one taking what the other sets free, and a number
is reused while its former owner is being destroyed. Texts in the logger end a
few bytes before and behind the places where the next piece, a number, or
nothing but the newline fits.

A module's `TypeOK` describes its state. Those of `EventLoop`,
`ThreadPool` and `Buffer` are proved; the others are in no configuration, and hold when they are added to one.

Deadlock is checked in `event_loop` and `buffer`. The other systems stop by
themselves: a connection is destroyed, a pool or log is stopped, bounded clocks
and counters run out, a client sends nothing more, a server has ended.

### Fairness
Weak fairness of the steps a thread takes by itself (it is scheduled, callbacks
and functors return) in `EventLoop`, `EventLoopThread`, `TcpConnection` and
`AsyncLogging`; nothing forces a timeout of the poll, an arrival, or a call by
user code. A new loop is entered, as `threadFunc` does unconditionally. In
`TcpConnection` fairness is stated for careful programs, the only ones with
liveness properties; a thread finally drops its pointer (strong fairness, since
whether it may depends on the functors it queued), and the peer's window opens
again and again. In `ThreadPool` a thread that keeps finding the mutex taken, or
its slot or task gone, gets it at last (strong fairness): pthread mutexes
promise less, and this is what any statement about an individual thread needs. The timed wait
of the logging thread ends. In `TcpServer` the main thread and each IO thread
run; clients connect and leave and the user quits if they like. In `FileServer`
the IO threads run and what was sent arrives.

## 4. Proofs

`EventLoopProofs` proves, for any sets of functors, callers and channels and any
eventfd limit above zero (`WakeupAssumption`: the wakeup channel is none of the
user's; `EventfdAssumption`):

| Theorem | Statement |
|---|---|
| `TypeCorrect` | `Spec => []TypeOK` |
| `WakeupNeverLost` | `Spec => []NoLostWakeup` |
| `QuitNeverLost` | `Spec => []NoLostQuit` |
| `Refinement` | `Spec => ImplementsExecutor` |

`NoLostWakeup` only speaks of a loop that is in `epoll_wait`. It is not
inductive: that the loop comes there safely depends on what happened while it
was handling channels and functors. The inductive invariant is

    IInv == TypeOK /\ PhaseInv /\ CoveredInv /\ NoLostQuit /\ SubmittedInv

`PhaseInv` ties the flags and local vectors to the place of the loop thread
(functors remain only while they are being run, and `callingPendingFunctors_` is
set exactly then). `CoveredInv` says that a functor that
is pending anywhere but at `"handle"` and `"callback"` has a wakeup done or on the
way (or is an `early` one). Those two places are left out because there the eventfd may
have been drained already, and may be, since the swap is still to come before the
next `epoll_wait`. `SubmittedInv` says
that what is queued or done was submitted, so that a fresh functor is in neither
sequence, which the refinement needs for `LoopExecutor`'s submission step. The
refinement maps `functors \o pendingFunctors_` to the executor's queue: a swap is
a stutter, because concatenation does not see it.

`ThreadPoolProofs` proves, for any finite disjoint sets of workers and producers
(`ThreadsAssumption`), any tasks, any `maxQueueSize_` above zero
(`SizeAssumption`), and tasks that may or may not call `run()`:

| Theorem | Statement |
|---|---|
| `TasksFindWorkers` | `Spec => []NoIdleWorker` |
| `SlotsFindPutters` | `Spec => []NoIdleSlot` |

`notify()` wakes one thread, so "a queued task has some worker on the way" is not
inductive: two tasks could share that worker, and when it takes one the other is
left behind. Both properties therefore count: queued tasks against workers on
their way, free slots against threads on their way. The inductive invariant is

    IInv == TypeOK /\ WaitInv /\ NoIdleWorker /\ NoIdleSlot

where `WaitInv` says that a member of a wait set is inside the function that
waits on it, and that nobody waits before `start()`. It is what makes a notified
thread one more on the way: a worker taken out of `notEmpty_` is at `take`, hence
counted. `put` adds a task and, if anybody sleeps, a worker; `take` removes one
of each; a thread begins to wait only where the queue is empty (full), when there
is no task (slot) to count.

`BufferProofs` proves, for every set of bytes, every `kCheapPrepend`,
`kInitialSize` and size of `extrabuf`, and every bound on the length of a call and
of the vector (`ByteAssumption`, `SizeAssumption`):

| Theorem | Statement |
|---|---|
| `IndicesInOrder` | `Spec => []TypeOK` |
| `BufferIsByteQueue` | `Spec => IsByteQueue` |
| `BufferRefinesByteQueue` | `Spec => Queue!QueueSpec` |

Here `TypeOK`, which orders the indices within the vector, is inductive as it
stands. The work is in the lemmas: what `Copy` and `Resize` do to each byte,
that `MakeSpace` keeps the content and makes the space in both of its branches,
and from these what each operation does to the content. `IsByteQueue` is the
stronger of the two results about the queue, since it ties each call to its own
operation and argument; the refinement allows any operation at any step.

Checked by TLC only: the liveness properties (fairness is outside what the proof
system handles), and all properties of the other modules. `LogStream` is recursive and
stays with TLC in any case.

## 5. Where code and comments disagree

One disagreement is a run of its own (`busy_loop`, `findings` in `PROJECT.json`):
the reserve descriptor is there to avoid a busy loop, and the loop that uses it
spins in `accept` (`Acceptor.cc:77`) until another client comes, because the
failing `accept` that led there says nothing about somebody waiting. TLC finds
the following ones as well, when a configuration is changed as said; the
properties are defined in the modules.

| Property | Change | What happens |
|---|---|---|
| `FlushedForAll` | `MCTcpConnection` without `CONSTRAINT` | a thread's `shutdown()` stores `kDisconnecting` at once while its `send` is still queued; `handleWrite` shuts the socket in between, against "在写完数据后关闭链接" (`TcpConnection.cc:279`) |
| `CallbackOnDisconnect` | `MCTcpConnection` with `Users <- MCCareful` | `connectDestroyed` calls the connection callback only in `kConnected`, which `handleClose` has always left; `TcpServer.h:31` says it is called on disconnection |
| `DestroyedDisconnected` | `MCTcpConnection` without `CONSTRAINT` | `shutdown()` in a thread tests `state_`, the connection closes, the late store leaves `kDisconnecting`: the assertion at `TcpConnection.cc:44` fails |
| `NoDanglingFunctor` | the same | the functor bound to raw `this` (`TcpConnection.cc:60, 85, 154, 169, 188`) outlives the connection |
| `ClosedOnce` | the same | `stopReadInLoop` run after `handleClose` registers the channel again and `handleClose` is entered twice (`TcpConnection.cc:302`) |
| `NothingAborts` | `MCTcpServer` with a program that is not `quiet` | a loop ends with a connection open and destroys it in `kConnected`, its channel still registered (`TcpConnection.cc:44`, `Channel.cc:35`) |
| `NothingAborts` | `MCTcpServer` with `starts = 2` | the second `start()` destroys each loop's acceptor in the main thread: `assertInLoopThread` aborts (`EventLoop.cc:131`) |
| `NoMapRace` | `MCFileServer` without `CONSTRAINT` | two IO threads use the unprotected `passwordMap` at once, one of them writing (`fileServer.cc:77, 96`) |
| `AnsweredAnyway` | `MCFileServer` | the data of an upload arrives after its request: the IO thread waits at `fileServer.cc:63-73` for bytes that only it can read |
| `DownloadsAreWhole` | `MCFileServer` | a content with a NUL in it is sent up to the NUL, behind its full size (`fileServer.cc:125, 130`): fewer bytes follow than announced |
| `DownloadsAreOneUpload` | `MCFileServer` | a name is uploaded again while it is downloaded: the old password opens an empty or new content, or the beginning of the old with the end of the new (`fileServer.cc:53, 106-118`) |
| `GoodIsAccepted` | `MCHttpServer` | the body of a request is parsed as the next request (`HttpContext.cc:91-106`, both with a FIXME): the client gets a 400 and a closed connection |
| `MethodSetOnce` | `MCHttpServer` | a request line with a good method and a bad version is answered with 400 and stays in the buffer; when more bytes come it is parsed again and `assert(method_ == kInvalid)` (`HttpRequest.h:48`) aborts the process, all its connections included |
| `LinesEnd` | `MCLogger` | a statement that fills its buffer loses its newline, and the next line is appended to it (`Logging.cc:119`) |
| `AlwaysReturns` | `MCEventLoopThread` | a `quit()` that comes before `loop()` is erased by `loop()`'s reset of `quit_` (`EventLoop.cc:91`); the destructor waits in `join()` for ever |
| `OutlivesThread` | `MCEventLoopThread` | a functor quits the loop, `loop_` is cleared, the destructor joins nothing (`EventLoopThread.cc:21`), and the thread unlocks the `mutex_` of an object that is gone |
| `NoUseAfterDestroy` | `MCEventLoopThread` | the loop sees `quit_` and is destroyed between the two lines of `quit()`, whose `wakeup()` then writes to the eventfd of a loop that is gone (`EventLoop.cc:123-127`); if a functor quits the loop, `quit()` itself may be called on it |
| `SequenceReadIsSafe` | `MCTimerQueue` | `addTimer` in another thread reads `sequence()` of a `Timer` the loop may have run and deleted (`TimerQueue.cc:109`) |
| `NeverCanceling` | `MCTimerQueue` | a timer that cancels itself takes the branch that `TimerQueue.cc:176` supposes impossible; the branch is right |
| `CancelIsFinal` | `MCTimerQueue` with `ShareIds = TRUE` | a cancel in the loop thread overtakes the queued add of another thread (`TimerQueue.cc:169`) |
| `AllWrittenAtStop` | `MCAsyncLogging` | `threadFunc` leaves its loop without a last round (`AsyncLogging.cc:73`) |
| `RollsAtSize` | `MCAsyncLogging` | rolling is limited to once a second (`LogFile.cc:78`) |
| `ShrinkKeepsContent` | `MCBuffer` | `swap` exchanges `writerIndex_` with `rhs.readerIndex_` (`Buffer.h:36`); nothing calls it |

A server with no IO thread (`setThreadNum(0)`, the default of the echo test) has no
loop to give an acceptor to: `start()` returns and nothing listens
(`TcpServer.cc:40`).

## 6. Plan

Done, in this order: `EventLoop` with its abstract executor and proofs;
`EventLoopThread` on top of it; `TcpConnection`; `ThreadPool`; `TimerQueue`;
`LogFile` and `AsyncLogging`; `Buffer`; `HttpServer`; `Poller`, `Acceptor` and
`TcpServer`; `FileServer`; `LogStream` and `Logger`.

The proofs about `ThreadPool` and `Buffer` came after the models.

Next, proofs: `FdsOwned` of `TcpServer` for any number of loops and clients;
`SparesReturn` of `AsyncLogging` for any number of lines; `Consistent` of
`TimerQueue`; `StreamIntegrity` of `TcpConnection`.

## 7. What is not modelled

`InetAddress`, `Endian`, `Timestamp`, `CurrentThread` and `Exception` hold no
state of interest. `base/BlockingQueue.h` is commented out from its first line to
its last. Of `Socket` and `SocketOps`, addresses and socket options are left out, and
so are the errors of `accept` other than `EAGAIN` and `EMFILE`. `LogStream`'s
`Fmt` has no definition in the repository, and `double` is formatted by the C
library. A second `start()` of a `ThreadPool` after `stop()`, and `TimerQueue`'s
destructor, are left out; nothing in the repository does the first, and the second
runs when its loop has ended. A task of a `ThreadPool` does not throw (the handlers
of `runInThread` abort or rethrow). A failing `fflush` or `fclose`, whose result
`AppendFile` does not look at, is left out; a failing `fwrite` is not. Memory exhaustion, failing system calls other than those the code reacts
to, and memory-model effects beyond the interleavings of the steps above are left
out; `TcpConnection::state_`, a plain field read by several threads, is read and
written atomically in the model.

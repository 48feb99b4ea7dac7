# Verification of muduo-x

TLA+ modules that model the reactor library under `src/muduox`, TLC
configurations that check them on small instances, and TLAPS proofs of the
properties that do not depend on the instance. File names without a directory
are modules of this project; paths start at `src/`.

1. [The system](#1-the-system)
2. [Modules and how they follow the code](#2-modules-and-how-they-follow-the-code)
3. [Runs: what is checked, with which bounds](#3-runs)
4. [Fairness](#4-fairness)
5. [Proofs](#5-proofs)
6. [Where code and documentation disagree](#6-where-code-and-documentation-disagree)
7. [What is not modelled](#7-what-is-not-modelled)
8. [Plan](#8-plan)

## 1. The system

muduo-x is a C++ network library of the one-loop-per-thread kind. An accept
loop takes connections and hands each to an IO loop; user callbacks run on the
IO loops and may give long work to a thread pool, whose workers come back to the
connection through `runInLoop`.

| Component | State | Operations | Hard behaviour | Correct when |
|---|---|---|---|---|
| `EventLoop` (`muduox/net/core/EventLoop.cpp`) | `quit_`, `pendingFunctors_` under `mutex_`, `activeChannels_`, the wake-up socket pair | `loop`, `quit`, `runInLoop`, `queueInLoop`, `wakeup`, `doPendingFunctors` | calls from other threads at every point of the loop; a full wake-up socket; functors that queue functors | functors run once and in order, no wake-up is lost, `quit` ends the loop |
| `EventLoopThread` (`EventLoopThreadPool.cpp:5-49`) | `loop_` under `mutex_`/`cond_`, `thread_` | `startLoop`, `stop`, destructor, `threadFunc` | publishing the loop, stop before the loop is entered, restart | nobody touches a destroyed loop, `startLoop` and `stop` return |
| `EventLoopThreadPool` (`:53-81`) | `threads_`, `loops_`, `next_` | `start`, `getNextLoop`, destructor | order of destruction | connections get a loop that outlives them |
| `Channel`, `EpollPoller` (`Channel.cpp`, `poller/EpollPoller.cpp`) | `events_`, `revents_`, `index_`; `channels_` | `enable*`, `disable*`, `remove`, `handleEvent`; `poll`, `updateChannel`, `removeChannel` | several events in one poll, removal while events are outstanding | only live channels are watched and dispatched |
| `TcpConnection` (`tcp/TcpConnection.cpp`) | `state_`, `socket_`, `channel_`, `outputBuffer_`, references to itself | `send`, `shutdown`, `forceClose`, `connectEstablished`, `connectDestroyed`, the four event handlers | short writes, half-close with output pending, several causes of close in one poll, calls from workers | the byte stream is intact, output is flushed before a half-close, every close releases the connection once |
| `TcpServer`, `Acceptor` (`tcp/TcpServer.cpp`, `tcp/Acceptor.cpp`) | `connections_`, `acceptor_`, `started_`; the listening socket | `start`, `stop`, destructor, `newConnection`, `removeConnection(InLoop)`; `listen`, `handleRead` | the map belongs to the accept loop, connections to others; `stop` on a third thread; no descriptor left | a watched connection has an owner, a closed one is released, the backlog is served |
| `ThreadPool`, `BlockQueue` (`core/ThreadPool.cpp`, `core/BlockQueue.h`) | `queue_`, `stop_` under `mutex_`; `threads_` | `push`, `work`, `pop`, `stop`, destructor | notifications outside the mutex, spurious wake-ups, destruction with tasks queued | a task runs once and in order of popping, no task waits beside a sleeping worker, the destructor returns |
| `Buffer` (`tcp/Buffer.cpp`) | the vector, `readIndex_`, `writeIndex_` | `append`, `retrieve*`, `ensureWritable`, `makeSpace`, `readFd` | moving against growing, the header in front, overflow into `extrabuf` | a byte queue in bounded memory |
| `IocpPoller` (`poller/IocpPoller.cpp`, Windows) | the contexts with their two `OVERLAPPED`, `pendingPosts_`, `selectChannels_`, `deadContexts_` | `poll`, `updateChannel`, `removeChannel`, `postRead`, `postWrite` | posts that fail and are retried, completions after a removal | an `OVERLAPPED` is used once at a time, what a channel wants is posted, every readiness is reported |
| `AsyncLogging` (`muduox/base/logging/AsyncLogging.cpp`) | double buffers under `mutex_`, the background thread | `append`, `threadFunc`, `stop`, destructor | producers against the writer, spare buffers run out | lines keep their order and are written |
| `LogFile` (`muduox/base/logging/LogFile.cpp`) | `fp_`, `writtenBytes_`, `count_`, `startOfPeriod_`, `lastRoll_`, `lastFlush_` | `append`, `flush`, `rollFile` | checks every `checkEveryN_` lines only, two rolls in a second, failing `fopen`, a clock that is set back | one file is open, rolls and flushes come in time |
| Log front end, `Socket`, `InetAddress`, examples | a level; descriptors | formatting; wrappers of system calls | none | – |

How they interact: `TcpServer::newConnection` runs in the accept loop and queues
`connectEstablished` at the connection's IO loop; `TcpConnection::handleClose`
calls back into `TcpServer::removeConnection`, which queues
`removeConnectionInLoop` at the accept loop, which erases the map entry and
queues `connectDestroyed` at the IO loop. Everything that crosses threads is a
functor in some loop's `pendingFunctors_`, so `EventLoop` is the foundation and
the other modules rely on what it is shown to guarantee. References: the map,
the functors that capture the `shared_ptr`, and whatever the application keeps
own a connection; `Channel` holds none.

The hazards of each part, at the line where they bite and with the property
that watches over them, are the `hazards` of `PROJECT.json`.

## 2. Modules and how they follow the code

| Module | Role |
|---|---|
| `FunctorQueue` | abstract: items enter a queue once and are taken from its front |
| `ByteQueue` | abstract: bytes enter at the end, leave at the front |
| `EventLoop` | one loop and the threads that call it; implements `FunctorQueue` |
| `EventLoopThread` | an `EventLoopThread` object over its restarts |
| `TcpServer` | the server, its acceptor and pool, several connections, the owner |
| `TcpConnection` | one connection, its IO loop, the accept loop, workers, peer |
| `ThreadPool` | the pool with its `BlockQueue`; implements `FunctorQueue` |
| `Buffer` | the buffer's vector and indices; implements `ByteQueue` |
| `AsyncLogging` | producers and the background thread of the log |
| `LogFile` | the file it writes to, against the clock |
| `IocpPoller` | the poller of the Windows build and a completion port |
| `MC*` | the constants TLC uses |
| `*Proofs` | theorems and proofs |

`EventLoopThread`, `LogFile` and `TcpServer` need no MC module: their constants are
numbers.

The modules compose by contract, not by sharing variables. `EventLoop` is shown to
run every functor once, in order and without delay; `TcpConnection` and `TcpServer`
take a loop to be that: a queue whose vector is swapped out, run and destroyed.
`TcpServer` has several connections and loops with the life cycle of each connection
reduced to what its server sees; `TcpConnection` has one connection with all of
its states and data, and of the server its map entry.

**EventLoop.** A critical section under `mutex_` is one step; what comes after
the unlock is another. So `queueInLoop` from another thread is `QueueInLoop`
(the `push_back`) followed by `Wakeup` (the `send`), with every interleaving in
between, and `doPendingFunctors` is `SwapFunctors`, then one `RunFunctor` and
`ReturnFromCallback` per element, then `FinishFunctors`. `loop()` is `EnterLoop` (it
resets `quit_`), `TestQuit`, `PollEvents` or `PollTimeout`, and the dispatch of
`active`. `queueInLoop` and `quit` called by callbacks on the loop's own thread
send no wake-up: `QueueInLoopFromLoop`, `QuitFromLoop`. `wakeups` counts unread
messages of the socket pair and saturates at `WakeCapacity`, because the socket
is non-blocking and the result of `send` is ignored. `Unused` makes every functor
distinct, so that order and multiplicity can be spoken about; `ran` and
`nested` are history. `quit_` is a plain `bool` shared by threads, a data race by
the letter of C++; each access is an atomic step here, which is what a byte store
and a load in a loop with opaque calls compile to.

**EventLoopThread.** The owner's and the thread's positions between their
critical sections. `CheckLoop` is the predicate of `cond_.wait` with the falling
asleep; a spurious wake-up would repeat `CheckLoop` and is left out as it changes
nothing. `freed` collects destroyed loops: `PublishLoop` frees the loop an earlier
start left in `loop_`, `Join` in the destructor frees the last one. No name of the
module is one of `EventLoop`'s (`ThreadSpec`, `ThreadEntersLoop` for the thread's
call of `loop()`, `quitOf`), so that `EventLoopProofs` can extend both.

**TcpConnection.** `loopPc` says where the IO loop is: in a poll, in
`handleEvent` with `ev` still to be handled, in a user callback (with `cont` the
place to return to), between the write-complete callback and the rest of
`handleWrite`, or in `doPendingFunctors`. One action per event handler and
outcome of its system call: `SendResults` is the set of answers `send(2)` may
give, `Revents` what `epoll_wait` is bound to report, to which `Poll` may add data
and from which it may drop an error already read. Member functions called from
callbacks are one step, since they run on the loop thread; called from a worker
they are three -- the test of `state_`, the store, the queueing -- because other
threads run in between. Strong references are counted by what holds them
(`Alive`): the map, functors that capture the `shared_ptr` (in `pending`, in the
running vector until it is destroyed as a whole, or at the accept loop), workers,
and the argument of a running callback. A functor that captured `this` and runs
with `Alive` false is `RunDangling`; a `shutdownInLoop` after `socket_.reset()` is
`fault = "nullSocket"`. After either the program has no meaning; the model records
the fault and goes on. With `singleLoop` (no IO threads) the accept loop is the
IO loop: `connectEstablished` runs inside `newConnection`, and `removeConnection`
runs inline in `handleClose`. `socket = "null"` stands for the closed descriptor.
What the application does is chosen in `Init`: `use` is a record from the constant
`Uses` with the calls its callbacks, its write-complete callbacks and its
workers make, and the messages it sends. `AsDocumented` is the use the README shows
(workers come back through `runInLoop` with the `shared_ptr`); in `FromWorkers` a
worker calls `send`, `shutdown` and `forceClose` itself.

**TcpServer.** Loop 0 is the accept loop, the loops of the pool follow; `threadNum_` is
chosen in `Init`, zero included. A loop is `Poll`, the handling of `active`, then
`SwapFunctors`, the `Run*` actions and `FinishFunctors`. `Acceptor::handleRead` is
`Accept` or `NoDescriptor`, followed by `NewConnection`; `HandleClose` is what a
connection does at the end of its stream as far as its server is concerned, and is
repeated by every poll until `connectDestroyed` (`RunDestroy`) has run. The owner's
`stop()` is `Stop`, `Quit`, `Join`, the destructor `DropConnections`, `DropAcceptor`,
then `Quit` and `Join` for each loop, in the reverse order of the members of
`TcpServer.h:55-66`. Where a loop is about to use what the owner has destroyed
(`Destroyed`), `UseDestroyed` records it and ends the behaviour.

**ThreadPool.** `pop` is `FallAsleep`, `Pop` or `PopStopped`, by what the predicate
and the test after it find; `push` is `Push` then `NotifyOne`; the destructor is
`Stop`, `NotifyAll`, `Join`. What `pop` leaves in the local variable `task` is kept.

**Buffer.** The member functions are operators from a buffer to a buffer, as
they call one another; the vector is a function on `0..size-1`, so that an index
outside it is an error and not a silent value. `readFd` takes any string `readv`
may have delivered. `peak` records what has been asked for, `passed` the bytes last
passed in or handed out, so that losing some of them on the way in is seen.

**AsyncLogging.** `append` is one critical section with its notification
(`AppendToCurrent`, `AppendToNext`). The thread is `TestStop`, `FallAsleep` and what
ends the wait (`Timeout`, or the notification in `append` and `NotifyThread`), `Swap`
under `mutex_`, then `Write` and `Recycle` on its own buffers; after the loop
`FinalSwap` and `FinalWrite`. A buffer is the sequence of its lines, with their
bytes deciding whether another fits; `Null` is a moved-from `unique_ptr`.
`RequestStop` and `NotifyThread` are `stop()` and the body of the destructor. After the
latter the members go in reverse order of declaration, `thread_` last, so `ownerPc =
"join"` means that everything else is gone, and a thread that then needs
`mutex_` or a buffer takes `UseAfterDestruction`.

**LogFile.** `append_unlocked` is one action for each of its exits: `AppendOversized`,
`AppendUnchecked`, `AppendNextDay`, `AppendSameDay`. `Roll` is `rollFile`: refused within
the second of the last roll, and leaving `fp_` null when `fopen` fails. A file is the
second it was opened in, a line the second of its `append`; `lines` and `flushed` are
history, and with them what is still in the stdio buffer can be spoken about. `now` is
the wall clock: it ticks between calls and may be set back.

**IocpPoller.** A context belongs to one channel and has one `OVERLAPPED` for each
direction: `posted` are its `readPending` and `writePending`, `inflight` what the
kernel holds, `port` the queue of completions. `updateChannel` is `UpdateChannel`, or
`UpdateChannelUnbound` when the port refuses the descriptor; `removeChannel` is
`RemoveChannel`, or `RemoveChannelUnbound`, where `any_cast` of the missing context
throws. `poll` is `StartPoll` (the retries), `Reap` or `ReapDead` for each completion, and
`FinishPoll` with the `select` of the listening sockets. A post may fail while the socket
connects, or after a reset: `Accepted` is the set of directions whose post the kernel takes,
so a poll may post the read and fail with the write. `heard` is history.

## 3. Runs

| Run | Question | Shown |
|---|---|---|
| `EventLoop` | can a call from another thread be missed? | functors are swapped out when no event is left to handle (`LoopShape`); a loop asleep with work or with `quit_` set is being woken (`SleepingLoopIsWoken`); functors run once, in order (`ImplementsFunctorQueue`); every functor is run, those from other threads and from IO callbacks without poll time-outs (`QueuedFunctorsRun`); `quit` ends an entered loop (`QuitEndsLoop`) |
| `EventLoopThread` | is the loop of a thread, or the pointer of a single start, ever stale; can a call hang? | `LoopOutlivesItsUse`, `OwnerReturns` |
| `TcpConnection` | is a connection correct in both uses? | memory (`NoUseAfterDestroyed`, `WatchedIsAlive`), data (`StreamIntact`, `PendingOutputIsPolled`, `HalfCloseAfterDrain`), life cycle (`ClosedIsReleased`, `ShutdownCompletes`) |
| `TcpServer` | do connections, loops and owner agree on who owns what? | `WatchedIsOwned`, `LivesOnce`, `ClosedIsReleased`, `BacklogIsServed` |
| `ThreadPool` | does every task find a worker, does the pool stop? | `NoTaskSleptThrough`, `ImplementsFunctorQueue`, `PushedTasksRun`, `DestructorReturns` |
| `Buffer` | does moving, growing or overflowing damage bytes? | `ImplementsByteQueue`, `MemoryBounded` |
| `AsyncLogging` | does double buffering keep every line, and enough buffers? | `BuffersAtHand`, `LinesInOrder`, `LinesAreWritten` |
| `LogFile` | over how many lines can a roll or a flush be late? | `OneFileOpen`, `RolledInTime`, `FlushedInTime` |
| `IocpPoller` | are posts and completions matched across failures and removals? | `CompletionsAreSafe`, `InterestIsPosted` |
| `IocpPollerDeaf`, `TcpServerStop`, `LogFileFlush` | does the code do what its documentation and comments say? | no: section 6 |

Each passing run also checks the module's `TypeOK` (`ThreadTypeOK` in
`EventLoopThread`; in `EventLoop` it is part of `LoopShape`). Some properties hold for a
part of the behaviours only, and say so: the clauses of `LoopOutlivesItsUse` about the pointer
and about `quit()` are claimed of a single start, `NoUseAfterDestroyed`, `HalfCloseAfterDrain`
and `ShutdownCompletes` of connections used through their loop (`ThroughLoop`) --
`HalfCloseAfterDrain` of those only that nobody force-closes and whose write-complete callback
does not call `shutdown()` --, the last conjunct of `WatchedIsOwned` of servers that are destroyed
stopped and without connections, `FlushedInTime` and the second half of
`RolledInTime` of clocks that are not set back. Section 6 has what happens otherwise.

Bounds, and why they are enough:

* `EventLoop`: three functors (one running, one swapped out, one newly queued),
  two foreign threads (both may be between `push_back` and `send`), one IO
  channel besides the wake-up channel (both orders of dispatch), and a socket that
  holds two messages, so that a third is dropped. No symmetry: there are liveness
  properties.
* `EventLoopThread`: three starts, so that a restart follows a restart.
* `TcpConnection`: a two-byte and a one-byte message -- short writes, a write
  that fills the kernel, a second message behind a rest --, one worker,
  `MaxPending` 2 functors queued by the application, `MaxRemovals` 1. A second
  removal of the same connection finds the map entry gone and does nothing, so
  counting beyond one repeats that. In the worker's use there is one two-byte message.
  948,244 states, the largest run.
* `TcpServer`: three peers for two descriptors, so that `accept` fails and is served
  later; up to two IO loops, so that turns wrap round; none, so that everything runs in
  the accept loop. 328,836 states.
* `ThreadPool`: three tasks for two workers, two producers, so that tasks wait for
  workers and workers for tasks.
* `Buffer`: a header of one byte, two bytes of initial space, an `extrabuf` of two
  bytes, at most four readable bytes over two byte values: the vector moves at
  least once before it grows, and reads overflow by less than, exactly and more
  than the free space. The code's 8, 1024 and 65536 enter only by comparison.
* `AsyncLogging`: five lines over buffers of three bytes, two of one byte and three that
  fill a buffer: a buffer takes two short lines (`avail() > len` is strict), an
  empty buffer is put away for a long line, `nextBuffer_` and fresh buffers are taken,
  and both recycled spares come into use again.
* `LogFile`: days of three seconds, a check every three lines, a flush interval of one
  second, files of five bytes with lines of one and two; seven seconds cross midnight
  twice, six lines contain two checks. The clock is set back once: a second time would
  find the same state with another `now`. 289,609 states.
* `IocpPoller`: a connection and a listening socket, since contexts of two connections
  only share the port; two completions a poll, so that a third waits. The run
  `IocpPollerDeaf` needs the connection only.
* `TcpServerStop` and `LogFileFlush` take the bounds of their module's passing run.

`CHECK_DEADLOCK FALSE` stands where the system may stop: a loop that was left, a
destroyed object, a released connection, a pool that is gone, a poller that an
exception ended. A buffer and a log file never stop, so their runs check for deadlock.

## 4. Fairness

* `EventLoop!PromptSpec`: the loop thread is scheduled and callbacks return
  (`WF(LoopStep)`), and a thread that has queued a functor goes on to its
  `wakeup()` (`WF(Wakeup(t))`). A poll that finds nothing ready need not return:
  what is shown owes nothing to `kPollTimeMs`. Functors queued by functors send no
  wake-up and do need the time-out, so `QueuedFunctorsRun` assumes it for them as
  an antecedent. `loop()` passes 10 s to every poll.
* `EventLoopThread!ThreadSpec`: a call that has begun goes on, the thread is scheduled;
  the owner need not call anything.
* `TcpConnection!FairSpec`: both loops run -- justified by the `EventLoop` run --,
  callbacks return, a worker inside a member function goes on, and the peer
  reads whenever the kernel's buffer is full, without which no output could drain. The
  peer need not close; nobody has to call anything.
* `TcpServer!Spec`: every loop runs. Peers need not connect or close, the owner need not
  stop; a behaviour with `Stop` owes the connections nothing (`InService`).
* `ThreadPool!Spec`: threads are scheduled, tasks return, a `push` and a
  destructor that have begun go on. Spurious wake-ups need not happen.
* `AsyncLogging!Spec`: the thread is scheduled and its `wait_for` times out, as
  `flushInterval_` says; nobody has to append, stop or destroy.
* `IocpPoller!FairSpec`, for the counterexample only: polls go on and end, active channels
  are handled, the kernel completes what it can, and (strong fairness) a
  handler that is called again and again reads everything in the end.

`LogFile` has no liveness: nothing happens without a call.

But for that last clause all are weak fairness of one thread's next step, which is
what an operating system's scheduler gives.

## 5. Proofs

Proved by TLAPS for every value of the constants that satisfies the named
assumptions (`*Assumption` in the modules: finiteness where a set is counted,
values outside the sets they mark the absence of, sizes in `Nat`).

| Module | Theorem | Argument |
|---|---|---|
| `EventLoopProofs`, `EventLoop` | `TypeCorrect`, `LoopShapeCorrect`, `SleepingLoopIsWokenCorrect`, `PhaseCorrect`, `ImplementsFunctorQueueCorrect` | `PhaseInv` |
| `EventLoopProofs`, `EventLoopThread` | `ThreadTypeCorrect`, `LoopOutlivesItsUseCorrect` | `ThreadInv`, then `HandleInv` |
| `TcpConnectionProofs` | `TypeCorrect`, `StreamIntactCorrect`, `PendingOutputIsPolledCorrect`, `WatchedIsAliveCorrect`, `NoUseAfterDestroyedCorrect`, `HalfCloseAfterDrainCorrect`, `StateGoesForwardCorrect` | `ConnInv` |
| `TcpServerProofs` | `TypeCorrect`, `WatchedIsOwnedCorrect`, `LivesOnceCorrect` | `ServerInv`, `OnceInv` and `MadeInv` |
| `ThreadPoolProofs` | `TypeCorrect`, `NoTaskSleptThroughCorrect`, `ImplementsFunctorQueueCorrect` | `SleepInv` and counting |
| `BufferProofs` | `TypeCorrect`, `MemoryBoundedCorrect`, `ImplementsByteQueueCorrect` | one lemma per member function |
| `AsyncLoggingProofs` | `TypeCorrect`, `BuffersAtHandCorrect`, `LinesInOrderCorrect` | `NextInv` and `SpareInv`, then `OrderInv` |
| `LogFileProofs` | `TypeCorrect`, `OneFileOpenCorrect`, `RolledInTimeCorrect`, `FlushedInTimeCorrect` | `FileInv` |
| `IocpPollerProofs` | `TypeCorrect`, `CompletionsAreSafeCorrect`, `InterestIsPostedCorrect` | `PollerInv` |

*EventLoop.* `SleepingLoopIsWoken` has two parts. `NoLostWakeup` speaks of the points where
the loop may go to sleep; the one window it leaves out is from the poll to the swap, where the wake-up may be
consumed before the functor is taken. It is inductive with `TypeOK` and
`PhaseInv`: only `HandleWakeup` consumes a message, and only inside that window;
only `SwapFunctors` ends it, with nothing pending. `QuitWakesPoll` needs a little
more: `quit_` set while the loop sleeps comes from another thread, whose wake-up
follows, as `TestQuit` enters the poll only with `quit_` false. That the swapped-out
vector followed by `pendingFunctors_` implements the queue rests on `PhaseInv`: at a
swap the vector is empty.

*EventLoopThread.* `ThreadInv` relates the thread's position to `loop_` and to what
was destroyed: a published loop is the last one created (`PublishInv`), a thread
not yet joined is the reason why no other start can replace it (`JoinInv`), and
only loops created before the one in `loop_` are in `freed`, until the destructor
(`FreedInv`). The pointer of a single start equals `loop_` because the
owner reads it after the predicate held, though outside the mutex (`HandleInv`).
`LoopOutlivesItsUse` is the conjunction of what that gives the thread, through any number of
restarts, and the holder of the pointer and the owner in `stop()`, of a single start:
a restart does destroy the loop of the first (section 6, *Restart*).

*TcpConnection.* `ConnInv` has two layers, proved together. `SafeInv` holds of every
connection, whatever threads use it. `EstablishInv`: before `connectEstablished` the
only thing queued is that call. `LifeInv`: the socket is open until `connectDestroyed`
has run, and until then the map or the queued functor holds the connection
(`WatchedIsAlive`); a fetched event belongs to a registered channel; a connection
that is being removed is at least `kDisconnecting`. `OutputInv`: `StreamIntact`
itself, and write events asked for while output is pending on an open socket.
`StreamIntact` is inductive because each `send(2)` moves a prefix from the one sequence to
the other, and what `sendInLoop` appends follows what is there (`Split`, `Regroup`).
`LoopInv` and `DrainInv` hold of connections used through their loop (`ThroughLoop`).
`QuietInv`: no worker is inside a member function, no `send` or `shutdown` lambda is queued, and
who is being removed is `kDisconnected`, so a close is handled once. `CloseOrderInv`: a
queued `handleClose` runs before `connectDestroyed` or not at all, since `forceClose`
tests `state_` and `handleClose` sets it. A callback then finds the socket open, and no fault
occurs: this is `NoUseAfterDestroyed`, and it is just what fails once a worker calls a
member function. `Taken` and `Drained` give `HalfCloseAfterDrain`: what `send()` has
accepted without an error is in the stream, and the place in `handleWrite` that
half-closes without looking at `outputBuffer_` is reached with the buffer empty, unless the
write-complete callback calls `shutdown()`, which the theorem therefore excludes, as it does
forced closes. `StateGoesForward` is an action property that
no run lists: `state_` only moves forward, never back from `kDisconnected`. It needs
`QuietInv`: a worker inside `shutdown()` or `forceClose()` stores what it has tested
before, over whatever the loop has stored since; of unrestricted uses TLC refutes it.
`EstablishInv` makes the stores of `connectEstablished` and `handleClose` come in that order.
TLC checked `ConnInv` in the states of both uses before it was proved.

*TcpServer.* Three invariants are proved together. `ServerInv`: only loop 0 accepts, and
nobody knows what it has accepted (`AcceptInv`); a functor belongs to a connection that was made and sits in the loop that
connection has, a removal in loop 0 (`FunctorInv`); a connection that is up is in the map
or its `connectDestroyed` is queued (`UpInv`); a loop has events only of its own connections,
that are up (`ActiveInv`), which needs that events are handled before functors run and
`connectDestroyed` is a functor; a server that was stopped, or destroyed in peace, has an
accept loop that has ended and no connection (`PeaceInv`). `WatchedIsOwned` follows.
That `connectEstablished` puts a connection in service that is in the map, as `UpInv` asks,
and that no loop runs it for a server destroyed in peace, needs the order in the queues:
a connection with `connectEstablished` queued is made, and one that is made is in the map
(`MadeInv`). `OnceInv`, from which `LivesOnce` follows, says that
`connectEstablished` and `connectDestroyed` of a connection are in `Work` of its loop at
most once (`Single`), the former only while it is made, the latter only when it is up and
out of the map -- `removeConnectionInLoop` tests that it erased something, and the accept loop
alone changes the map --, and that whoever is in the map is not closed. Any number of
removals may be queued (`MaxRemovals`).

*ThreadPool.* `NoTaskSleptThrough` compares three counts: queued tasks, workers
about to pop, notifications under way. Each push adds a notification; a
notification that finds a sleeper turns into a worker about to pop; a worker falls
asleep only with the queue empty. What a notification that wakes nobody costs is
covered by the first disjunct: nobody sleeps then.

*Buffer.* `TypeOK` is the layout the member functions rely on. One lemma per
function states that it keeps the layout and what it does to `Content`; the
refinement combines them. `MemoryBounded` rests on `makeSpace` growing only when the
free bytes, front and end together, do not suffice.

*AsyncLogging.* `BuffersAtHand` is inductive with `TypeOK` and two facts: in the loop
`nextBuffer_` is missing only if a buffer was put away since the last swap
(`NextInv`), so a swap that gives away both spares takes out at least two buffers
(`SpareInv`), and the resize to two leaves as many as `Recycle` takes back.
`OrderInv` adds to these what `LinesInOrder` needs: the spares are empty, so a swap puts
no old lines among the new, and `buffersToWrite` is empty whenever the thread swaps. The
lines of a sequence of buffers are a fold, whose library definition is recursive; what it
gives for one buffer more (`FlattenSeqProperties`) is proved by the least index at which
two ways to compute it differ (`LeastNumber`, `FlattensUnique`).

*LogFile.* `FileInv` adds to `TypeOK` and `OneFileOpen` what makes lateness countable:
lines lie between `lastRoll_` and the clock (`ClockInv`), a file over its limit got its
last line in the second of the roll (`SizeInv`), and each line that is of another
day (`DayInv`), or for which a flush is due (`FlushInv`), was counted in `count_`
since. `count_` is less than `checkEveryN_`; the check that resets it either rolls or
finds the lines of the same day -- a second between two of one day is of that day,
`PeriodBetween` -- and flushes if one is due. A clock that goes back breaks
`ClockInv`, which is why the counts are claimed for clocks that do not.

*IocpPoller.* `PollerInv`: completions differ by their `OVERLAPPED` (`PortInv`), a context
is live while its channel is registered and dead once its socket is closed
(`LifeInv`), an operation under way has its `pending` flag set and no completion
queued (`OperationInv`) -- so a post, which asks for a flag that is not set, never takes an
`OVERLAPPED` that is in use --, and channels with events are registered (`ActiveInv`),
because a removal comes between polls with no handler pending. `InterestIsPosted` is
inductive with these: `Remaining` keeps a channel of which either direction is missing after
the two posts.

Only model-checked: every liveness property (ENABLED and fairness are beyond the
prover). `MaxStarts`, `MaxReadable`,
`MaxTime`, `MaxLines`, `MaxReap`, `MaxPending`, `MaxConns`, `MaxThreads`, `MaxDescriptors`,
`MaxRemovals` and `WakeCapacity` are constants of the theorems too: what is proved
holds for every bound.

## 6. Where code and documentation disagree

Three disagreements are runs that TLC ends with a counterexample.

* `IocpPollerDeaf`: the first read completion of a poll is reported and posted again at once.
  The data is still unread, so the zero-byte read completes again; when the same poll
  dequeues this second completion, `alreadyHasRead` skips the post (`IocpPoller.cpp:225-230`),
  and no other is tried before the next `updateChannel`. Data that is left or arrives
  later raises no event, while with epoll it does; `src/README.md:181` says the
  interface above is the same. `InterestIsPosted` is what does hold: the first readiness
  after an update is reported.
* `TcpServerStop`: `stop()` resets `acceptor_` on its caller's thread while the accept loop
  runs (`TcpServer.cpp:54`). A listen functor not run yet, or an accept event
  already fetched, then uses a destroyed `Acceptor`. `src/README.md:170` says the
  life of the loops prevents dangling pointers, and its example (`:143-144`) stops
  the server whenever Enter is pressed.
* `LogFileFlush`: `LogFile.h:19` says `flushInterval` seconds *or* `checkEveryN` writes; the
  code asks for both (`LogFile.cpp:115-125`). `AsyncLogging` appends once for a buffer and wakes
  every three seconds, so with `checkEveryN` 1024 lines may stay in the stdio buffer for
  some 51 minutes, as long as a megabyte does not fill. `FlushedInTime` is what does hold; it
  bounds the lines appended in the meantime, not the seconds.

Known deviations: what follows is in the models too, as far as the modules reach, but is
claimed by no property; a change of the code should be measured against it.

* *Early stop.* `loop()` resets `quit_` on entry (`EventLoop.cpp:52`): a `stop()` before
  the thread has entered `loop()` is forgotten, and `join()` waits for ever.
  `OwnerReturns` is about the stops that find `loop()` entered.
* *Restart.* A second `startLoop()` assigns over `loop_` and destroys the loop
  the first one returned (`EventLoopThreadPool.cpp:44`), while `src/README.md:170` says that
  it lives until the destructor of the `EventLoopThread`. A server started again would
  destroy the accept loop its connections still use.
* *Worker's calls.* `send`, `shutdown` and `forceClose` on a worker queue
  lambdas that capture `this` (`TcpConnection.cpp:100`). When the worker drops its
  reference and the connection is removed meanwhile, they run on freed memory,
  against `src/README.md:197`. `NoUseAfterDestroyed` holds when workers queue the
  `shared_ptr`, as the README's own example does.
* *Worker's shutdown.* On a worker, `send` then `shutdown` stores `kDisconnecting` before
  the queued `sendInLoop` runs, which finds the connection not connected and drops the
  data (`TcpConnection.cpp:130`); `shutdownInLoop` half-closes, although the comment
  at `:169` says that pending data goes first.
* *Shutdown in the write-complete callback.* `handleWrite`, back from the write-complete callback, tests
  only `state_` (`TcpConnection.cpp:82`) and half-closes over what the callback has sent just
  before its `shutdown()`, although the comment at `:81` says that the half-close comes
  after the rest. `HalfCloseAfterDrain` is what does hold.
* *Empty buffer.* `send(Buffer*)` with nothing readable asks for write events
  (`TcpConnection.cpp:115`); `handleWrite` takes the 0 of `send(2)` for an error and
  closes the connection (`:86`).
* *After `stop()`.* The accept loop has ended, so removals queued there never run:
  connections that close are not released, and their loops report them in every
  poll. Hence `InService` in the liveness properties.
* *Destruction with connections.* `connections_` and `acceptor_` go before the loops
  are stopped (`TcpServer.h:55-66`): a server that is destroyed without `stop()`, or with
  connections, leaves its loops with freed members. `WatchedIsOwned` shows these are
  the only ways.
* *~AsyncLogging.* It requests the stop and notifies but does not join; `thread_` is
  declared before what it shares (`AsyncLogging.h:46`), so `mutex_`, `cond_` and the buffers
  are destroyed under the running thread. After `stop()`, `LinesAreWritten` holds.
* *LogFile without a file.* A roll whose `fopen` fails leaves `fp_` null: lines are
  dropped silently (`LogFile.cpp:106`), and only a call of `rollFile` from outside opens
  a file again.
* *Days.* `kRollPerSeconds` divides seconds since the epoch, so a day ends at midnight
  UTC. A clock that was set back has rolls refused, without a flush in their place,
  until it passes `lastRoll_` (`LogFile.cpp:84`).

## 7. What is not modelled

* The log front end, `Socket`, `InetAddress`, `SocketOps` and `Platform.h`: formatting, and
  wrappers of system calls without state of their own; the answers of the kernel are
  modelled where they are used.
* The contents of received data: no decision of the library depends on it.
* `EpollPoller` beyond the interest, registration and dispatch that `TcpConnection`,
  `EventLoop` and `TcpServer` have: the failure of `epoll_ctl`, which needs exhausted
  kernel memory, and the growth of the event vector.
* `~IocpPoller`, which frees the contexts in `deadContexts_` although their operations may
  still be in flight (`IocpPoller.cpp:49`).
* `readFd` of the Windows build: it appends in the same way.
* A second `start` of `AsyncLogging`, a restart of `TcpServer`, the access of the owner's
  thread to the poller's table when `stop()` destroys the acceptor (`TcpServerStop` has
  the use after destruction, not the race on `channels_`).
* That `BlockQueue` has no bound although `src/README.md:64` calls it bounded, and that
  a worker keeps the last task, and the references it captured, alive until the next
  `pop`: consequences for memory, which the module does not count.
* The examples: programs that use the library; the order of the calls in the server is
  one of those `TcpServer` has.
* Memory order: critical sections and single accesses are atomic and take effect
  at once.

## 8. Plan

Every safety property of the passing runs is a theorem. What is left:

1. That output leaves `outputBuffer_` at its front only: a refinement of `ByteQueue` by
   `TcpConnection`.
2. An abstract life of a connection -- made, established, removed, destroyed --, which `TcpServer`
   and `TcpConnection` both implement, so that the contract between the two
   modules is stated once.

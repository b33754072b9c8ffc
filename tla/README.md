# armsy in TLA+

armsy (`src/src/`, C++) is a small TCP server library in the style of muduo: one
event loop per thread, channels that carry the events of a descriptor to
callbacks, connections owned by shared pointers, and functors as the only way
for one thread to make another one do something. This directory holds a model
of it, the configurations that check the model with TLC, and proofs checked by
TLAPS. `PROJECT.json` maps every definition to the lines it models.

## Inventory

| component (`src/src/`) | state | operations | talks to |
|---|---|---|---|
| `eventloop.*` | `quit_`, `calling_pending_functors_`, `pending_functors_` under `mutex_`, the eventfd, the thread's slot | `loop`, `quit`, `runLoopCallback`, `pushLoopCallback`, `wakeup`, `awake`, `executePendingFunctors`, ctor, dtor | any thread calls it; calls the poller, channels and functors |
| `channel.*` | `events_`, `revents_`, `state_`, `tie_` | enable/disable events, `remove`, `handleEvent` | its loop's poller; callbacks of its owner |
| `poller.*`, `epoll_poller.*` | map from descriptors to channels, array for `epoll_wait` | `poll`, `updateChannel`, `removeChannel` | the kernel's interest list, which holds raw channel pointers |
| `eventloop_thread.*`, `thread.*` | `loop_` under `mutex_`, `cond_`, `started_`, `joined_` | `startLoop`, `threadFunc`, destructor | two threads and the loop on one's stack |
| `eventloop_threadpool.*` | the threads, `next_` | `start`, `getNextLoop`, `getAllLoops` | the base thread only |
| `buffer.*` | a vector, two indices | `put`, `get`, `getAll`, `pushState`, `read`, `write` | one connection |
| `tcp_connection.*` | `state_`, two buffers, channel, socket | `send`, `shutdown`, `connEstablish`, `connDestory`, four handlers | its loop, user threads, the server |
| `tcp_server.*` | `connections_`, the pool, the acceptor | `start`, `newConnection`, `removeConnection`, destructor | base loop and all IO loops |
| `acceptor.*` | listening socket and channel | `listen`, `handleRead` | the server |
| `socket_wrapper`, `inet_address`, `logger`, `timestamp`, `current_thread`, `callbacks`, `noncpoyable` | none to speak of | wrappers of system calls, types, output | |

What is hard to get right, and hardly tested (`PROJECT.json`, "hazards", has
the lines):

* a push to a loop that is about to sleep in `epoll_wait`, and the flag and the
  eventfd that must make up for it;
* `quit()` against a loop that is not yet, or no longer, running;
* a pointer to a loop on another thread's stack, published and cleared;
* registrations changed and channels destroyed by callbacks in the middle of a
  round, descriptors used again, raw pointers in the kernel;
* a connection whose references are dropped by four parties in any order;
* bytes that are partly written at once and partly buffered, with a shutdown
  that must wait for them;
* a vector whose capacity is used although only its size is managed;
* a connection that is freed by three hops between two loops, and a server that
  is destroyed while loops still hold raw pointers to it.

## Modules

| module | models | checked by | proofs |
|---|---|---|---|
| `SerialExecutor` | what a loop promises: functors run one at a time, in the order they were handed over, each once | through `EventLoop` | |
| `EventLoop` | `eventloop.cc` with any number of calling threads | `MCEventLoop` | `EventLoopProofs` |
| `EpollPoller` | `channel.cc`, `poller.cc`, `epoll_poller.cc`, one round of `loop()` | `MCEpollPoller` | `EpollPollerProofs` |
| `EventLoopThread` | `eventloop_thread.cc`, `thread.cc`, over the actions of an instance of `EventLoop` | `MCEventLoopThread` | `EventLoopThreadProofs` |
| `Buffer` | `buffer.cc`, `buffer.h` | `MCBuffer` | `BufferProofs` |
| `ByteStream` | what the sending side of a connection promises: bytes delivered in the order they were taken, then one end | through `TcpConnection` | `TcpConnectionProofs` |
| `TcpConnection` | `tcp_connection.cc` and what `tcp_server.cc` does with one connection | `MCTcpConnection` | `TcpConnectionProofs` (bytes), `TcpConnectionLifeProofs` (life) |
| `TcpServer` | `tcp_server.cc`, `acceptor.cc`, `eventloop_threadpool.cc`: several connections over the base loop and the loops of the pool | `MCTcpServer` | `TcpServerProofs` (types, turns), `TcpServerLifeProofs` (pointers, reports) |

Variables and actions have the names of the members and functions they model.
Each module starts with a comment on what it leaves out. The conventions:

* A step is what one thread does between two points where another thread could
  see a difference. Every critical section in this code is one statement, so it
  is one step and mutexes need no variable. What follows it in the same call is
  a step of its own: `pushLoopCallback()` is `PushLoopCallback` and then
  `Wakeup`; `quit()` is `Quit` and then `Wakeup`; `shutdown()` by another
  thread is `ForeignCall` (the test), `SetDisconnecting`, `PushCall`.
* User code is a choice: in a callback it may call anything it is allowed to.
* `LOG_FATAL` ends the process: "fatal" in `EventLoop`, `EpollPoller` and
  `TcpServer`.
* Undefined behaviour ends a behaviour (`undefined`; in `EpollPoller`, `running =
  "undefined"`), and properties are about what leads there. This is why deadlock
  is not checked in those runs; in
  `EventLoop` and `Buffer` the system may simply have nothing left to do.
* Variables marked *history* are read by properties only.
* Operators marked *Mutant* are wrong versions of the definition that follows;
  each property is known to fail with one of them in place of the right one.

Abstractions worth knowing:

* `EventLoop`: the eventfd is a Boolean, since `awake()` ignores its value. All
  other channels are the one source "io". A functor is handed over once.
* `EventLoopThread`: the loop is `INSTANCE EventLoop` with the new thread as
  owner; thread names and `exiting_` (never read) are left out.
* `EpollPoller`: `channels_`, the interest list and the channels' states are
  kept apart, as in the program. A channel is destroyed after it was removed, as
  `connDestory()` and `~Acceptor()` do it, or without ever having been
  registered: `Destroy`, outside a round or in any callback of one, also of a
  channel the round still points at (`stale`), after which using that pointer is
  undefined. A connection is tied: while one of its callbacks runs,
  `handleEvent()` holds it, and a last reference given up meanwhile takes effect
  when the last callback returns (`Release`). `tie_` can always be locked,
  because it belongs to a channel that exists.
* `Buffer`: bytes are numbered in the order they enter, 0 is any other byte. The
  growth rule of `std::vector` is the one of libstdc++.
* `TcpConnection`: one batch of functors per round, as `EventLoop` justifies;
  the channel is `events_` and its state, as `EpollPoller` justifies; the output
  buffer is a queue of bytes, which the code's buffer is only until it has grown
  twice (see `PutKeepsContent`). The connection lives in a loop of the pool; when
  the pool is empty both loops are one, `removeConnectionInLoop()` follows
  `removeConnection()` at once, and that order is among those checked. SIGPIPE
  is assumed to be ignored by the application: the library does not do it.
  User code drops its reference only after its own calls have run, because
  `send()` and `shutdown()` bind a raw `this`.
* `TcpServer`: a loop is reduced to the round of `EventLoop` (poll, handle what
  was reported, swap, call the batch, test `quit_`); wakeups are shown there. A
  connection is `state_`, whether its channel is registered, and who holds it;
  its bytes are in `TcpConnection`, and any `send()` or `shutdown()` is one step
  after which it is no longer connected. User code keeps no `TcpConnectionPtr`
  and, but for `start()`, calls the server from the base thread, where it may
  also destroy it, inside or outside of `loop()`. `start()` of the pool is one
  step, since no connection can reach a loop before `listen()`. The user's
  `conn_callback_` runs inside two handlers of a channel, and they are taken
  apart there (`inside`): `handleClose` (`tcp_connection.cc:223`) is followed by
  `removeConnection` (line 224), and, without a pool, `handleRead` of the
  acceptor (line 148, called at `acceptor.cc:53`) by `AcceptReturns`
  (`channel.cc:132`); between the two the server may be destroyed. The message
  callback has no such step: what follows it uses the connection only, which
  `handleEvent()` holds. The destructor
  is taken apart as C++ does it: the body (connection by connection), then, as
  members, the threads of the pool (one `quit()` and one `join()` each), then
  the acceptor. The loop of a pool thread dies when `loop()` returns, with what
  was pushed to it since the last swap (`dropped`); the base loop belongs to the
  user and stays. The kernel's backlog is a number, and the limit of descriptors
  is any number up to the bound.

## Runs

| run | result | question |
|---|---|---|
| `event_loop` | passes | Three threads, three functors: can a push or a quit be missed, a functor be lost, repeated or overtaken? Does the loop implement `SerialExecutor`? |
| `loop_slot` | violated | Does the constructor only fail when "Another EventLoop exists in this thread"? |
| `poller` | passes | Three channels (one with a read callback only), two descriptors, an array of one entry: do kernel, map and channels agree after every order of operations? How can the loop come to use a destroyed channel? |
| `poller_read` | violated | Is the read callback called for input? |
| `thread` | passes | One thread and its loop, two functors: start-up, use, stop by the destructor or by user code. |
| `thread_dtor` | violated | Does the destructor stop the loop thread? |
| `thread_quit` | violated | Does `quit()` find the loop it wakes up? |
| `buffer` | passes | Ten bytes through a buffer of two with an extra buffer of three: indices, length, content. |
| `buffer_growth` | violated | Does what was put come out? |
| `connection` | passes | One connection, two bytes sent in the loop, two calls from another thread, three notifications, a high water mark of two. |
| `conn_end` | violated | Is the end of a connection reported? |
| `server` | passes | Up to two pool threads, two clients, one or two descriptors, a server destroyed at any moment, inside callbacks too: is anything used after it is gone, reported twice or never, or left behind? |

The violated ones are disagreements between the code and what the repository
says of it; "findings" in `PROJECT.json` quotes both sides.

Why the bounds are enough for the interesting cases:

* Three threads are the owner and two others, so that a wakeup of one can be
  consumed between the push and the write of the other. With three functors one
  can be in the batch, one pushed by it and one pushed by another thread. The
  proofs below remove these bounds for the safety properties.
* Two descriptors for three channels force a descriptor to be used again while
  an old channel is still there, and an array of one entry is full at once.
* Ten bytes make a buffer of two grow more than twice, and wrap in between.
* Two bytes allow a send that is split between the socket and the buffer, or two
  sends of which the second meets a full socket; two foreign calls allow a
  `send()` to race a `shutdown()`; three notifications are one more than right.
  The mark of two is reached by the second byte.
* A pool of zero, one or two threads covers the base loop serving by itself,
  one thread, and round robin with a wrap; two connections are one that is
  closing while the other is being accepted, established or destroyed; with one
  descriptor the second client meets `accept()` failing.

The symmetry in `MCEpollPoller` permutes descriptors and the channels with all
callbacks; that run has no temporal property.

### Fairness

* A thread keeps executing what it has begun, and callbacks return: weak
  fairness of the loop's steps, of the second halves of calls, and of the base
  loop. The code has no locks held across waits, so the operating system's
  scheduling is all that this takes.
* `epoll_wait` returns when the eventfd is readable. The poll timeout of ten
  seconds is *not* assumed, so that properties show wakeups to work without it;
  `EarlyIsRun` names it as its hypothesis, and `thread_dtor` includes it so that
  its counterexample does not hinge on it.
* `TcpConnection`: a loop that polls for ever is told of a ready descriptor,
  and of room in a socket that is not broken: strong fairness, because other
  descriptors may fill the array of one round but not, as it grows, of every
  round, and because a peer may take its time.
* `TcpServer`: each loop's thread keeps running its round (an `epoll_wait` ends
  for what is ready, for a wakeup or after its timeout), and the base thread
  keeps executing the destructor once it is in it: one weak fairness condition
  per thread. Nothing is assumed of clients or of user code, which need neither
  enter the base loop nor destroy the server.

## Properties

* `EventLoop`: `NoLostWakeup` and its inductive form `WakeupProtocol`;
  `ExactlyOnceInOrder`; `ImplementsExecutor`; `PushedIsRun`, `EarlyIsRun`,
  `QuitStopsLoop`.
* `EpollPoller`: `InterestMirrorsChannels` (the kernel watches exactly what the
  channels ask for), `MapAgreesWithState`, `CtlNeverFatal`, `RoundIsLive`,
  `ArrayBounded`. `RoundIsLive` says how the loop can come to use a destroyed
  channel: only if a callback destroyed one whose event the round had still to
  handle, or an acceptor's inside its own callback. Both occur (`~TcpServer()` in
  a callback of the base loop does it, `tcp_server.cc:42`), and the code has no
  defence. What is excluded is everything else: pointers in the kernel's list,
  descriptors and addresses used again, and a connection that loses its last
  reference in its own callback, which the lock of `tie_` keeps (`channel.cc:62`).
* `EventLoopThread`: `StartedLoopIsLive`, `PublishedIsLive`,
  `NoThreadOutlivesObject`, `DroppedOnlyByDtor`, `StartReturns`,
  `DtorReturnsOnceLooping`.
* `Buffer`: `IndicesInOrder`, `LengthExact` for output buffers;
  `IntactUntilRegrown` for both kinds.
* `TcpConnection`: `BytesInOrder`, `WriteInterest` (of `events_`, which
  outlives the registration of the channel), `ImplementsStream`, `NotifiedOnce`,
  `WatchedIsAlive`, `BufferedIsWritten`, `ClosedIsFreed`.
  `ImplementsStream` holds for calls of any thread: `given` is what was taken,
  `wire` what was delivered, `shut` the end. The conditions on `calls`, the
  number of calls by other threads, in three of the others (`NotifiedOnce`,
  `WatchedIsAlive`, `ClosedIsFreed`) are where the code falls short: see the
  divergence at `tcp_connection.cc:75` below. Calls in the loop's own thread do
  not count, and are unrestricted.
* `TcpServer`:
  * `NoUseAfterFree`: what a user must do to destroy a server safely, namely
    after the base loop has left `loop()`, when threads of the pool may still be
    closing connections: they are joined before the object is gone, and their
    removals are never run. Or inside `loop()` when there is no pool, the round
    has no channel left to handle, the base thread is not inside the
    `conn_callback_` of `handleClose()` or of a new connection, and no `listen()`
    is pending: from a functor, or from the message callback of the last channel
    of a round. All other cases are `exposed`; each of its four causes (a pool,
    a channel to handle, a handler to return to, a `listen()`) is needed, for
    without it TLC reaches a use of the freed server.
  * `ReportedOnce`: the peer's close, the removal and the destructor compete for
    the same connection, and the user is told of its end once. The exceptions
    are what the code does: a connection that has sent or was shut down, and one
    whose `connDestory()` was dropped by a loop that the destructor stopped.
  * `Balanced`: no loop of the pool is given two connections more than another.
    It counts all that were ever assigned; those still open may be spread
    unevenly, since `getNextLoop()` does not look at them.
  * `ClosedIsErased`: three hops, and the descriptor is free again.
  * `WaitingIsAccepted`: a failing `accept()` only delays a client.
  * `ServerDtorReturns`: base thread and pool do not wait for each other. Its
    hypothesis, that all threads have entered `loop()`, is the `thread_dtor` run.

## Proofs

Every invariant that a run checks is also a theorem, for every value of the
constants under the assumptions the modules name: the owner of a loop is one of
the threads (`OwnerAssumption`); the two threads of `EventLoopThread` differ
(`ThreadsAssumption`); `NULL` is no channel or descriptor, descriptors are
finitely many and the array has at least one entry (`NullAssumption`,
`FdsAssumption`, `SizeAssumption`); the sizes of a buffer and the bounds of the
other two modules are natural numbers (`SizesAssumption`,
`BoundsAssumption`). TLC evaluates all of them in its runs. Bounds that remain in a
guard (`MaxBytes`, `MaxConns`, ...) are arbitrary in the theorems.

Few of the invariants are inductive. TLC checked each strengthening on the
instance of the run before it was proved.

* `EventLoopProofs`. `TypeCorrect`. `WakeupProtocolHolds` is the inductive
  invariant behind `NoWakeupIsLost`: `NoLostWakeup` speaks of the sleeping loop
  only, but whether a push before that wrote the eventfd depends on the flag, so
  the invariant ties the flag to the place of the loop and follows the functors
  from the swap to the next poll. `FunctorsInOrder` needs `FunctorFlow`, which
  adds that the batch is empty outside the run of functors and that a destroyed
  loop is never used again. `Refinement` shows step by step that the loop
  implements `SerialExecutor`, with the batch and the pending vector as its
  queue.
* `EpollPollerProofs`. `TypeCorrect`, `KernelMirrorsChannels`, `MapIsRight`,
  `NoFatalCtl`, `RoundStaysLive`, `ArrayStaysBounded`. The invariants support
  each other: an ADD is refused only if the kernel already has the descriptor,
  which mirror and map together exclude. `RoundStaysLive` needs, beyond the
  mirror (what `poll()` returns is there), that every channel the round points at
  is there or was destroyed by a callback in one of the two ways named above, and
  that the channel under `handleEvent()` has no event left (`Round`), so that
  releasing it leaves no pointer behind.
* `EventLoopThreadProofs`. `TypeCorrect`, `LoopIsLive`, `ThreadIsJoined`,
  `NothingDroppedBefore`, `PointerNeverDangles`, all from `Lifetime`. It follows
  `threadFunc()`: at each of its lines, whether the loop exists, the pointer is
  set and where in `loop()` the thread is; and it relates that to the other
  thread, since the loop is asked to stop only by user code or by the destructor.
  The actions of the loop are those of the instance, so lemmas say once what
  they leave alone.
* `BufferProofs`. `TypeCorrect`, `OutputInBounds`, `OutputLength`,
  `ContentUntilRegrown`. The content rests on `Content`: until the first growth
  `size()` and `capacity()` agree, so that growth copies everything; after it they
  do not, and the bytes are only accounted for until the next one.
* `TcpConnectionProofs`. `TypeCorrect`; `SentInOrder`, `WatchedWhileWaiting` and
  the refinement `RefinesStream` from `StreamInv`: what is on the wire and what
  waits are numbered without a gap and add up to what was taken, unless the
  socket is broken, when nothing waits; and after `shutdownWrite()` bytes wait
  only in a closed connection. `RefinesStream` maps every step to a step of
  `ByteStream` or to a stutter.
* `TcpConnectionLifeProofs`. `ToldOnce` and `RegisteredIsAlive`. Both are
  stated for connections that no other thread has called (`calls = 0`; the loop's
  own thread may send and shut down), and neither holds without that. So is the
  invariant `Life`: `connEstablish()` is the first functor of all; a channel is
  watched exactly between the two notifications; a report is handled with the
  channel as it was; and a watched channel is held by the map or by a
  `connDestory()` that is still to come, which is why it cannot be freed.
* `TcpServerProofs`. `TypeCorrect` needs that a client waits whenever the
  acceptor's channel is reported, that nothing exists before `start()`, and that
  only existing threads are joined (`Typed`). `EvenlyServed` needs `InTurn`: the
  loops up to `next_` were given one connection more than those behind it.
* `TcpServerLifeProofs`. `NothingDangles` and `EndIsReported`, from one
  invariant, `Life`, that puts together what the parties know: the loops of the
  pool leave only for the destructor, one after the other (`Threads`); each
  functor is in the queue of the loop that may call it (`Placed`), establishing
  before destroying (`Ordered`, `Awaited`); a registered connection is in the map,
  or its `connDestory()` is due, or was dropped by a loop that has stopped
  (`Registered`); a connection whose removal is due is closed (`Closed`), which
  is why the end of no other is lost; a channel of the round is registered, or
  was freed with its connection (`Reported`); a connection whose `handleClose()`
  is in the user's callback is closed and one of that loop's own (`Closing`);
  and the base loop that was not exposed to the destroyed server has no pool, no
  channel to handle or to return to, and no `listen()` left (`Unknown`,
  `Hidden`). `Pushed`, `Called` and `Kept` say what a push, a call and any other
  step do to a queue, so that no proof of an action looks at sequences.

Checked by TLC only: liveness (`PushedIsRun`, `EarlyIsRun`, `QuitStopsLoop`,
`StartReturns`, `DtorReturnsOnceLooping`, `BufferedIsWritten`, `ClosedIsFreed`,
`ClosedIsErased`, `WaitingIsAccepted`, `ServerDtorReturns`), because the prover
handles neither fairness nor `ENABLED`; and that the six violated properties fail,
which is what their runs are for.

## Divergences without a run of their own

* `pushLoopCallback()` by the owner before `loop()` wakes nobody, against
  `eventloop.h:42`; `NoLostWakeup` has the exception (`early`), `EarlyIsRun`
  shows that the timeout repairs it.
* `disableAllEvent()` of a channel that is not registered adds it with an empty
  mask, against `epoll_poller.h:25-27`; the model does so, and the invariants
  allow it.
* After `extrabuf` was used once, `Buffer::read()` sets `write_index_` to
  `size()` though it wrote up to `capacity()` (`buffer.cc:95`).
* `sendInLoop()` assigns `kDisconnected`, which is zero, where it means to compare
  (`tcp_connection.cc:75`), so its branch "disconnected, give up writing" (line
  77) is dead. A `send()` of another thread that was checked before the close is
  carried out after it, and may register the removed channel again.
* A server destroyed while its base loop is running and a pool thread closes a
  connection leaves `removeConnectionInLoop()` with a raw `this` in that loop
  (`tcp_server.cc:62`); nothing in the repository says whether that is allowed.
* A server without a pool that is destroyed inside `conn_callback_` is used after
  that by the handler that called it: `removeConnection()` at
  `tcp_connection.cc:224`, or the acceptor's channel at `channel.cc:132`. Nothing
  in the repository says whether that is allowed, either.
* `connDestory()` of a connection that is not connected removes its channel and
  leaves `events_`. Called inside the message callback, it is followed by
  `handleWrite()` of the same event, which finds the write event set and
  registers the channel again (`tcp_connection.cc:193`); closing the socket takes
  it off the interest list, but the poller's map keeps its address. `EpollPoller`
  has only owners that remove a channel last.
* `~TcpServer()` pushes `connDestory()` to loops that stop next. A loop that reads
  `quit_` after the push and before its next swap drops it: the user is not told
  of the end, and the channel dies with the loop, still registered.
* `Acceptor` ignores its argument `reuseprot` and always sets the option
  (`acceptor.cc:27`).
* Since the first `send()` marks a connection as disconnected, the echo server
  of `src/example/` answers only the first message of each connection.
* `getAllLoops()` (`eventloop_threadpool.cc:53`) returns the base loop when there
  are threads and nothing when there are none, against the header.

## Not modelled

* `InetAddress` formats addresses; `Logger`, `Timestamp` and `CurrentThread` are
  output, a clock and a cached number; the other pollers are empty files. None
  has state that another component depends on.
* Socket options change nothing a property could speak of. `getAllLoops()` has no
  caller and changes nothing.
* Connections are named after `next_conn_id_`, an `int`; its overflow after 2^31
  connections is out of reach of the bounds.
* What a dangling `buf.c_str()` of a foreign `send()` reads: the lifetime of the
  string is the caller's, and the model numbers bytes when they are taken.
* User code that keeps connections beyond the server, or calls `send()` from
  another thread while the server is destroyed: `TcpConnection` has it for one
  connection, `TcpServer` does not.

## Plan

All safety properties of the runs are proved. What may follow:

1. The invariants of `TcpConnectionLifeProofs` without `calls = 0`: which part of
   them survives a `send()` of another thread, given that it leaves
   `kDisconnected` (`tcp_connection.cc:75`).
2. Action properties that the invariants imply and no run states yet: a freed
   connection is never held again, a loop that has stopped runs nothing.
3. A refinement from `TcpConnection` to the connections of `TcpServer`, which is
   an argument in comments so far.

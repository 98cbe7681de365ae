# TcFrame in TLA+

TLA+ modules for the Reactor framework TcFrame (`src/`), TLC configurations that
check them on small instances, and proofs for TLAPS. `PROJECT.json` has the
machine-readable index: which lines each definition models, which run checks
which property, and what was found.

## 1. The system

| Part | State | Operations | Talks to |
|---|---|---|---|
| `EventLoop` | `m_pendingFunctors`, `m_delayed_tasks` (heap), `m_timers`, `m_quit`, `m_threadId`, eventfd | `Loop`, `Quit`, `RunInLoop`, `QueueInLoop`, `RunAfter/At/Every`, `Cancel`, destructor | its poller; called by every thread |
| `Poller` (`EpollPoller`, `WSPollPoller`) | `m_fd_to_channel`, the epoll set | `Poll`, `UpdateChannel`, `RemoveChannel` | kernel, `Channel` |
| `Channel` | interest, returned events, `m_added` | `Enable…/Disable…`, `HandleEvent` | loop, callbacks of its owner |
| `TcpConnection` | `m_state`, socket, output buffer, pending byte count | `Send`, `Shutdown`, `ForceClose`, `ConnectEstablished/Destroyed`, event handlers | its io loop, `TcpServer` by the close callback, user callbacks |
| `TcpServer`, `Acceptor` | `m_connections` by fd, `m_started`, `m_stopping`, timers, counters | `Start`, `StopGracefully`, accept, remove, idle scan | main loop, io loops |
| `TcpClient` | `m_started`, `m_connecting`, `m_socket`, temporary channel, `m_connection` | `Connect`, `Disconnect`, `Send`, reconnect timer, destructor | loop, poller, `TcpConnection`, user callbacks |
| `Buffer` | vector, read and write index | append, prepend, retrieve, read and write an fd | `TcpConnection`, codec |
| `LengthFieldCodec` | maximal frame length | `OnMessage`, `Send` | `Buffer`, `TcpConnection` |
| `ThreadPool` | task queue, worker threads, target size | `Commit`, `Resize`, `Shutdown` | user threads |
| `Logger` | queue, writer thread, three appenders with their files | log, `Init`, `Shutdown`, `SetMinLevel` | everybody |
| `Socket`, `SocketUtils`, `Address`, `Config`, `main.cpp` | fd, constants | system calls, glue | |

Hard are: calls from other threads into a loop that is about to sleep; state of a
connection tested by one thread and stored by another; callbacks that change the
object they are called from; fd numbers that are reused while somebody still holds
the old one; two channels that share an fd number while the poller keeps one channel
per number; a stop that must end while connections come up; condition variables
whose predicate changes outside the mutex; a byte stream that is cut anywhere. `hazards` in `PROJECT.json` lists them by
line.

## 2. Modules

| Module | Models |
|---|---|
| `EventLoop` | the loop, its queue, timers, and its callers |
| `ThreadPool` | the pool, its workers and clients |
| `TcpConnection` | one connection with its channel and its place in the poller |
| `TcpServer` | the server with sub loops, connections reduced to state, fd and functors |
| `TcpClient` | the client and its connections, composed with `EpollPoller` |
| `ByteQueue` | abstract: what a buffer promises |
| `Buffer` | the buffer; implements `ByteQueue` |
| `LengthFieldCodec` | the codec on both ends of a stream, with the echo server's callback |
| `Poller` | abstract: what a poller promises to the loop |
| `EpollPoller`, `WSPollPoller` | the two pollers, as operators on a record |
| `Pollers` | channels that drive both pollers with the same calls; each implements `Poller` |
| `Logger` | logging threads, the writer, the appenders, start and stop |
| `MC…` | constants for TLC |
| `…Proofs` | the theorems about the module of that name, with their proofs; `StreamProofs` those about `Buffer` and `LengthFieldCodec` |

Definitions called *Mutant* are deliberate bugs. No specification uses them; they
are put in the place of the definition that follows them to see that the property
listed for them under `mutants` notices.

### EventLoop

`pc` is the control state of the loop thread. One round is `top`
(`GetPollTimeoutMs`), `poll`, `io` (`HandleWakeupRead`, handlers), `pending`
(`SwapPending`, then one `RunFunctor` per functor), `collect` (`CollectExpired`),
`timers` (`CheckTimer`, `CallTimer`, `SettleTimer`). What the code does under
`m_mutex` is one step. `handler`, `functor` and `timercb` are the inside of
callbacks, where the loop thread may call `QueueInLoop`, `RunAfter`, `RunEvery`,
`Cancel` and `Quit` on its own loop.

Foreign threads take two steps per call: the part under the mutex, and `Wakeup`,
which evaluates `!IsInLoopThread() || m_callingPendingFunctors` (or
`!IsInLoopThread()`) and writes the eventfd. `AutoStart` chooses between a loop with
a thread of its own, whose `m_threadId` is the creator's until `ThreadStart`, and a
loop run by its creator. The heap is the set of its ids with their expiry times; ties are broken
arbitrarily. Time is a counter that `Tick` moves; `PollCap` stands for 10 s.

Functors are numbered in the order they are queued, so that `FunctorsInOrder` can
say that the batch and the queue hold exactly the numbers after `nRun`.

### ThreadPool

A worker is in `loop` (wants the mutex), `checked` (predicate false, mutex still
held), `waiting`, `run` or `exit`. `Shutdown` stores the flag and notifies without the
mutex, so both may happen while a worker is `checked`. Clients carry the local
variables of `Resize`. `Workers` bounds the threads that are ever created: a `Resize` that
would need more stays where it is. Spurious wakeups are allowed and not promised.

### TcpConnection

The loop thread goes through `top` (`Poll`), `active` (dispatch: error, hangup, read),
`write`, `wrote`, and `pending` (functors). `conncb`, `msgcb`, `wccb` and `hwmcb` are
user callbacks; in them, and between dispatch and functors, user code on the loop
thread may call `Send`, `Shutdown` and `ForceClose`. Foreign threads test
`m_state`, store it, and queue their functor in three steps. `mapped` says whose
channel the poller holds under the fd number of this connection: nobody's, its own,
or that of another connection that was given the number (`FdReused`). The kernel gives a
closed number away whatever the poller's map says: if the map still has the closed connection's
channel, the registration of the next owner is an `EPOLL_CTL_MOD` that fails, and `harmed`
records it, as it records that a step of this connection removes or modifies the registration of
the next owner. `midSend` remembers that the connection was closed inside the high water mark
callback, so that the rest of `SendInLoop` still runs. `ServerDestroys` drops the server's
reference; when the last one is gone (`Freed`), `ChannelDestroyed` is what `~Channel` does: a channel that
still has interest disables itself, by number, on the loop thread only. The output
buffer is its length in units; the peer sends, closes, resets and makes room.
The branches for `EAGAIN` are not reachable: the model reads and writes only what the
poller reported. What a failing read does to the buffer is in `Buffer`.

### TcpServer

The main thread accepts, removes, scans for idle connections and stops; each
connection has an io loop. `HandleClose` is two steps, the close callback
(`BeginClose`) and `m_socket.Close()` (`SocketClose`), because the removal may read the
fd before or after; `ForceCloseInLoop` closes first (`CloseNow`). `storing` holds what
the main thread decided inside `Shutdown` and `ForceClose` and has not stored yet.
The rejection of a connection while stopping (`HandleNewConnection`) is not reachable:
the acceptor is off and its handler does not run in the same round.
The check timer of a stop never finds `m_connections` empty: whoever empties it while
stopping finishes the stop in the same step. Whether output is left when `ShutdownInLoop` runs is a free choice.

The destructor is a sequence of its own: `Destroy` (timers and acceptor off, `ForceClose`
for all), `QuitSubLoops`, one `LeaveLoop` after the other, since the code joins a loop
before it quits the next, and `JoinSubLoops`. A loop that has been asked to quit may leave
before it has run what is queued in it; the functors are destroyed with the loop. Sub loops are
taken to be inside `Loop()`; what happens otherwise is `DestructorReturns` of `EventLoop`.

### Buffer

Operators on a record `[size, buf, r, w]` follow `MakeSpace`, `EnsureWritableBytes`,
`Append` and `ReadFromFd`; the asserts are guards. `last` is the latest call with the
bytes handed over or given back, and is shared with `ByteQueue`, so that the
refinement also checks which bytes were put in and returned. `ErrorSpec` adds the failing read, with `size_t`
arithmetic modulo `SizeT`. The specification has names of its own (`BufferInit`, `BufferNext`, `BufferSpec`), so
that `StreamProofs` can extend it together with the codec.

### Poller, EpollPoller, WSPollPoller, Pollers

`Poller` is a registry: for each fd number the channel that registered first and the interest
announced last, the `m_added` flags, and what a Poll may report. The two implementations are
records with operators named after the functions. `EpollPoller` has `m_fd_to_channel`, the
epoll set of the kernel, and `m_events`, whose size grows; `epoll_ctl` fails where the kernel
makes it fail, and the failure is only logged. `WSPollPoller` has its two parallel vectors and
`m_fd_to_idx`. In `Pollers` channels enable and disable events and are removed, with two
channels on one number, and both pollers get the same calls. `EpollIsPoller` and
`WSPollIsPoller` are refinements, each with its own mapping; `SameAnswers` compares one Poll of
both. `EpollClosed`, the kernel's reaction to a close, is used by `TcpClient` only: it breaks the
agreement of map and set, which is why the pollers rely on their callers to remove first.

### LengthFieldCodec

A byte is a number below `Base`, a length has two bytes instead of four, and `PeekInt32` gives
the upper half of the range a negative sign as `int32_t` does. The peer sends frames, `Read`
takes any number of the bytes on the wire, and one pass of the loop in `OnMessage` is one of
`HeaderMissing`, `InvalidLength`, `HalfFrame` and `TakeFrame`. The callback is that of
`main.cpp` (heartbeat or echo), or closes the connection. `input` is the byte queue that
`Buffer` has been shown to implement.

### TcpClient

Everything is on the loop thread, so that what matters is nesting: `stack` has the callbacks the
thread is in (connection, message, write-complete and close callback), and in each of them, as between rounds, the user may call `Connect`, `Disconnect`, `Send` and
`SetAutoReconnect`. `Connect` has the three outcomes of `connect()`. In progress, a
temporary channel on the same fd waits for writability; `TempConnected` hands the socket in
`m_socket` to a connection, and `LeaveConnectionCallback` is the rest of that callback:
`m_socket.reset()` and `RemoveChannel(temp_ptr)`. The poller is the record of
`EpollPoller`, so that registration by number, and the map entry that outlives a closed fd, are
the code's. The temporary channel's callback tests its own fd and then hands over whatever is in
`m_socket`; if `Disconnect` and `Connect` were called in a close callback of the same round, that is
the socket of a later attempt, or there is none. The socket's side is one of `syn`, `up`, `data`, `eof`, `error`, `closed`. `aborted` records
that an assert failed or a null pointer was followed; nothing happens afterwards. A
connection is reduced to its state, fd, interest and whether output is left. An event with data and
room for output goes on with the output when the message callback has returned (`msgcb_w`). The user is
taken to hold a reference to the connection while its close callback runs: `LeaveCloseCallback`
is the rest of `HandleRemoveConnection` and of `HandleClose` on an object that is still there (section 5).

### Logger

A logging thread takes three steps: the unlocked test of flag and level with `BuildLogMeta`,
the push, and the notify. The writer is in `top`, `checked`, `waiting`, `append` or `exit`, as a
worker of `ThreadPool`; in `append` it has given up the mutex and goes through the three
appenders one by one. A file appender has the date of its file and whether it is open; opening may
fail. `InitLogger` and `StartWriter` are the two halves of `Init`, because events may be
queued in between; `Shutdown`, `NotifyAll`, `Join` and `Clear` are the steps of `Shutdown`,
which the destructor of the singleton repeats.

## 3. Runs

| Run | Shows | Bounds |
|---|---|---|
| `EventLoop` | `FunctorsInOrder`, `NoLostWakeup`, `NeverOversleeps`, `NoTimerLost`, `OneShotOnce`, `LoopCancelIsFinal` | one foreign thread, two functors and two timers from anywhere, one tick, a loop run by its creator |
| `EventLoopLive` | `QueuedFunctorRuns`, `DueTimerRuns`, `QuitEndsLoop` | a loop with its own thread (`auto_start`), one foreign thread, one functor, one timer |
| `ThreadPool` | `TasksInOrder`, `NothingAfterDrain`, `EveryTaskHasAWaker`, `CommittedTaskRuns` | two clients, three thread identities, two tasks, sizes 1 to 3 |
| `ConnectionThreads` | `ConnectedIsLive`, `OutputIsWatched`, `NoMessageAfterClose` | two interchangeable foreign threads, three calls |
| `ConnectionLoop` | `ClosedOnce`, `LeavesOthersAlone` (up to the connection's destruction, except after a close inside the high water mark callback), `PeerEndNoticed`, `OutputDrains` | no foreign threads, three calls, empty messages too |
| `Server` | `OpenIsTracked`, `NoSocketOutlivesStop`, `EntriesLeaveClosed`, `StopClosesAll` | two connections, two fd numbers, two stops, the destructor at any moment |
| `BufferQueue` | `IsByteQueue` (refinement), for every sequence of calls but a failing read | vectors up to 5 bytes, 3 bytes per call |
| `Pollers` | `SameAnswers`, `EpollIsPoller`, `WSPollIsPoller` (refinements) | three fd numbers, four channels of which two share a number, an event array that starts at 2 |
| `Logger` | `EventsInOrder`, `StopWritesAll`, `FlushedAtRest`, `LinesOfTheDay`, `QueuedIsPrinted` | two threads, two events, levels below and at `ERROR`, two calls of `Init`, one midnight, one file that fails to open |
| `Codec` | `FramesInStep`, `NoFrameLeftBehind`, `AnswersInOrder`, `MessageArrives` | four messages out of five: empty, PING, one that looks like a header, one above the limit, one with a negative length |
| `Client` | `OneOwner`, `WatchedIsOwned`, `AttemptCompletes` (unless the client is stopped) | two fd numbers, three attempts, five calls, two events of the peer |

The bounds let the interesting cases meet. One foreign thread acts between any two steps of
the loop thread, and its two functors, or two timers, are enough to be swapped, doubled or
overtaken; two foreign threads are enough for one to act between two steps of another. Two
connections are enough for one to be accepted, on a fresh number or on that of the first, while the
first is being removed, and two stops for a second call to meet the first. A buffer that
starts at 2 and grows to 5 takes every branch of `MakeSpace` and `ReadFromFd`. Three registered
fds give removal a first, a middle and a last index, and are more than the event array holds. Four
messages let two whole frames, a half header and a half payload be in the buffer at once. Three
attempts on two numbers let an old number come back while its map entry is still there. One case
of `TcpClient` needs three numbers and six calls: a connection closes, and a third attempt begins in its
close callback, while the event of the second one's temporary channel waits in the same round. With the
invariants alone TLC finishes that instance too; with `AttemptCompletes` it takes minutes, so the run
leaves it out and the theorems of section 4, which hold for every bound, cover it.

No run checks a type invariant: `TypeOK` documents each module, and is proved except in
`Pollers`, where the inductive invariant has it. `CHECK_DEADLOCK FALSE` is given where the
program may come to rest: a loop that has left `Loop()`, a pool or logger that is shut down, a server, a client or a codec that is idle once its
bounded inputs are used up.

One run ends in a violation; `findings` quotes the line of the code that says otherwise.

| Run | Property | What happens |
|---|---|---|
| `ClientListens` | `EstablishedIsWatched` | after a connect in progress the connection's `EnableReading` only modifies the fd that the temporary channel has registered; the temporary channel then removes itself by number, and the connection gets no event any more, until a `Send` of the user adds the fd again |

### Further promises the code does not keep

The modules state these too. None of them has a run of its own; each fails as described
when it is put in the place of the properties of one of the module's configurations, with
the constants given in brackets where they matter. They are the list to come back to when the code changes.

| Property | Module | What happens |
|---|---|---|
| `DestructorReturns` | `EventLoop` | `Loop()` resets `m_quit` after the destructor set it; `join` hangs (`AutoStart = TRUE`, `FairSpec`) |
| `RunsInLoopThread` | `EventLoop` | `RunInLoop`, called by the creator before the loop's thread has stored its id, runs the functor on the creator (`AutoStart = TRUE`) |
| `NeverSleepsOnFunctor` | `EventLoop` | a functor queued by a timer callback gets no wakeup and waits for the next timeout |
| `CancelIsFinal` | `EventLoop` | a foreign `Cancel` between the unlocked test of `cancelled` and the call returns true and the callback runs |
| `ShutdownReturns` | `ThreadPool` | `notify_all` falls between a worker's predicate and its block; `Shutdown` hangs in `join` |
| `PendingTasksExecuted` | `ThreadPool` | `Shutdown` empties the queue without running the tasks |
| `NeverMoreThanAsked` | `ThreadPool` | `Resize` to 1 and back to 2 adds a thread while both old ones are still there (`Sizes = {1, 2}` and three identities) |
| `AllWorkersReclaimed` | `ThreadPool` | a `Resize` that passed its test adds threads after `Shutdown` took the vector; nobody joins them |
| `ShutdownCompletes` | `TcpConnection` | with output left, `HandleWrite` returns at once unless the state is Connected, and `Shutdown` never completes (`FairSpec`) |
| `NeverClosedTwice` | `TcpConnection` | a foreign thread stores `Disconnecting` over `Disconnected` and the connection is closed again |
| `ClosedIsUnregistered` | `TcpConnection` | a high water mark callback closes the connection, `SendInLoop` then enables writing |
| `NextOwnerIsWatched` | `TcpConnection` | `Send` in the connection callback reaches the high water mark, the callback calls `ForceClose`, `SendInLoop` registers the closed channel again; the next connection on the number finds an entry in the map, and its `EPOLL_CTL_MOD` fails (configuration `ConnectionLoop`) |
| `ClosedForAReason` | `TcpConnection` | sending an empty message makes `WriteToFd` return 0, which closes the connection (`Lens` with 0) |
| `NoDanglingFunctor` | `TcpConnection` | a functor that captured `this` is queued behind the one that drops the last reference |
| `ClosedIsRemoved` | `TcpServer` | the removal reads fd -1, finds nothing to erase and leaves the entry |
| `StopCompletes` | `TcpServer` | a connection established after the stop began is force-closed at the deadline; its removal reads fd -1, the entry stays, and nobody finishes the stop |
| `DestroyedIsDisconnected` | `TcpServer` | `~TcpServer` quits a sub loop, which leaves before it runs the queued `ForceCloseInLoop`; the assert of `~TcpConnection` fails |
| `FailedReadKeepsData` | `Buffer` | under `ErrorSpec` the -1 of `readv` is taken for a huge count and the indices move |
| `NothingAfterClose` | `LengthFieldCodec` | the callback closes the connection and `OnMessage` goes on with the frames in the buffer |
| `ReconnectRetries` | `TcpClient` | the connection ends, the timer is set, and `DoReconnect` calls `Connect`, which returns because `m_started` is still true |
| `EstablishedIsUp` | `TcpClient` | a temporary channel's event waits while a close callback of the same round calls `Disconnect` and `Connect`; its callback then makes a connection of the new socket, which is still connecting (`Spec`, `Fds = {1, 2, 3}`, `MaxCalls = 6`, `MaxEvents = 1`) |
| `DisconnectGivesUp` | `TcpClient` | `Connect` in progress, `Disconnect`, which finds no `m_connection` and leaves socket and temporary channel alone; the peer accepts, and the temporary channel's callback makes a connection |
| `NeverAborts` | `TcpClient` | `Connect`, `Send`, `Disconnect` with output left, `Connect` again: `m_connection` is overwritten while the old connection is Disconnecting |
| `ShutdownReturns` | `Logger` | the notify falls between the writer's predicate and its block, as in `ThreadPool` |
| `NothingDropped` | `Logger` | a thread that passed the test of `m_is_running` pushes after the writer has left; `Shutdown` throws the event away |

Two more of `TcpClient` are visible in its states and stated by no property: a refused
connect is reported as an error with a hangup, for which the temporary channel has no
callback, so that `m_connecting` stays set and `Poll` reports it for ever; and a map entry left by a closed fd makes
the next attempt on that number a `MOD` of what the kernel has forgotten, which fails.

### Fairness

`EventLoop`: the loop thread goes on when it is not blocked in `Poll`, and a thread
that has begun a call finishes it; this is the scheduler. Neither the clock nor other
channels are fair, so `QueuedFunctorRuns` and `QuitEndsLoop` do not lean on timeouts.
`ThreadPool`: the same for workers and clients; spurious wakeups are not fair.
`TcpConnection`: the loop thread, foreign threads inside a call, and a peer that goes
on reading. `TcpServer`: the main loop runs removals and the two timers of the stop,
the io loops run their functors and leave when they are asked to; peers need not close, users need not act.
`TcpClient`: the loop thread polls, handles events, returns from callbacks and runs its timers; neither
peer nor user need act. `LengthFieldCodec`: the loop thread, and the bytes on the wire
arrive. `Logger`: the writer, and threads that have begun a call or are inside `Init` or `Shutdown`;
spurious wakeups and midnight are not fair. The unkept `ShutdownReturns` fails under the same fairness.

## 4. Proofs

Eight modules hold theorems, each about the module it is named after and `StreamProofs` about `Buffer`
and `LengthFieldCodec`, for every value of their constants: every set of threads, fds, channels, payloads,
every bound. The assumptions are the `ASSUME`s of those modules. They say what kind of value a constant is, and that sets of threads and fds are
finite, which is needed where the code or an argument counts them (`Cardinality`).

| Module | Theorems | Property of the run |
|---|---|---|
| `EventLoopProofs` | `InOrder`, `WakeupsArrive`, `TimersInTime`, `TimersKept`, `OneShotsFireOnce`, `LoopCancelFinal` | `FunctorsInOrder`, `NoLostWakeup`, `NeverOversleeps`, `NoTimerLost`, `OneShotOnce`, `LoopCancelIsFinal` |
| `ThreadPoolProofs` | `InOrder`, `DrainedForGood`, `NoLostNotification` | `TasksInOrder`, `NothingAfterDrain`, `EveryTaskHasAWaker` |
| `TcpConnectionProofs` | `ConnectedMeansLive`, `OutputAlwaysWatched`, `SilentAfterClose` | `ConnectedIsLive`, `OutputIsWatched`, `NoMessageAfterClose` (an action property) |
| | `ClosedAtMostOnce`, `OthersLeftAlone`, both for `Foreign = {}` | `ClosedOnce`, `LeavesOthersAlone` |
| `TcpServerProofs` | `OpenTracked`, `StopLeavesNoSocket`, `OnlyClosedLeave` | `OpenIsTracked`, `NoSocketOutlivesStop`, `EntriesLeaveClosed` (an action property) |
| | `DestroyedAtMostOnce` | `DestroyedOnce`, which no run checks: `EntriesLeaveClosed` implies it |
| `StreamProofs` | `BufferRefines` | `IsByteQueue` (refinement) |
| | `FramesKeptInStep`, `NoFrameStays`, `AnswersKeepOrder` | `FramesInStep`, `NoFrameLeftBehind`, `AnswersInOrder` |
| `PollersProofs` | `AnswersAgree`, `EpollRefines`, `WSPollRefines` | `SameAnswers`, `EpollIsPoller`, `WSPollIsPoller` (refinements) |
| `LoggerProofs` | `InOrder`, `WrittenAtStop`, `RestIsFlushed`, `RollOver` | `EventsInOrder`, `StopWritesAll`, `FlushedAtRest`, `LinesOfTheDay` |
| `TcpClientProofs` | `SocketsHaveOneOwner`, `NobodyMissingIsTold` | `OneOwner`, `WatchedIsOwned` |

All but `PollersProofs` also prove `TypeCorrect`, `StreamProofs` as `BufferTypeCorrect` and `CodecTypeCorrect`. The hypothesis `Foreign = {}` is that of the
run `ConnectionLoop`: with foreign threads the two properties are false (`NeverClosedTwice`
in section 3 is what happens then).

None of the properties is inductive as it stands. Each module has an `IInv` that is (in
`StreamProofs` `BufferInv` and `CodecInv`), with one lemma per conjunct or per action, and `IInvHolds` puts
them together. What had to be added:

**EventLoop.** `LoopInv`: where the loop thread is fixes `m_callingPendingFunctors`, that the
batch is empty outside `DoPendingFunctors`, and that `m_threadId` is right once the thread runs.
`WakeInv`: a functor that deserves a wakeup has it written, has it coming, or the loop is in `io`
and will swap it out in this round; `NoLostWakeup` only speaks of a loop that sleeps, the
invariant must carry the wakeup through the round. `SleepInv`: the deadline Poll was given covers
all live timers unless a wakeup is due. `TimerInv`: ids not yet handed out are fresh, a cancelled
timer has left `m_timers`, and the ready tasks exist only inside `ProcessDelayedTasks`, so that a
repeating timer put back is in no second place. `OneShotInv` and `CancelInv`: a one-shot that
fired waits nowhere, and a task about to be called was not cancelled by the loop thread.

**ThreadPool.** `CheckedIsIdle`: a worker between its false predicate and its block holds the
mutex, so the queue is still empty; this is why the `notify_one` of `Commit` cannot be lost although
that of `Shutdown` can. `ShutdownInv`: a thread inside `Shutdown` has cleared `m_is_running`
and nobody sets it again.

**TcpConnection.** `FreshInv` and `EstablishFirst`: until `ConnectEstablished`, which is queued
first and once, nothing else happens to the connection. `OpenIsUntold`: the close callback is never
called while the socket is open. `AboveTheMark`: a `Send` from inside the high water mark
callback does not enter it again. Alone on its loop, `AloneInv` adds that `m_state` never leaves
`Disconnected`, that only then the number may belong to another connection, and that a closed
connection is back in the poller's map only if it was closed in the high water mark
callback. `HeldInv`: a connection that is Connecting or Connected is in the server's map or its
destruction is queued, so that `~Channel` never runs on a live one.

**TcpServer.** `UnbornInv`, `EstablishFirst`: nothing refers to a connection before it is accepted,
and its first functor runs once. `SocketInv`: a closed connection has no socket unless `HandleClose` is about
to close it, and open sockets have different numbers. `EntryInv`: an entry of `m_connections` is
under the fd its connection has or had, no entry is in the way of an open socket, what is
destroyed is no entry; this is what keeps the removal by number from hitting a successor. `FlagInv` and
`CountInv` relate the flags and counters of the stops. `OnlyClosedLeave` needs `ClosedInv` on top: a
connection whose removal is queued, whose socket is about to be closed or is closed, does not become
`Connected` again. With it the entry that a removal erases by number is that of the connection that
asked, and the one a new socket overwrites has no socket any more.

**Buffer.** `BufferInv` is the order of the indices inside the vector. The refinement rests on lemmas
about the operators: moving, growing, copying and the scattered read each keep the unread
bytes and put the new ones behind them, stated for any record in order and then applied step by step.

**LengthFieldCodec.** Its input is the queue of bytes that `Buffer` was shown to be. `CodecInv` is
`TypeOK`, `FramesInStep`, `NoFrameLeftBehind` and `AnswerInv`, which says what the
callback is working on and how many answers are out. Even the types need `FramesInStep`: that
what `TakeFrame` cuts out of the buffer is a message at all follows only from the stream being in
step. `NextFrame` and `TakesNext` do this: two bytes in the buffer are the length of the next message sent,
since `NetLong` and `PeekInt32` agree wherever the length passes the test (`LengthBytes`), and
taking out a whole frame leaves the frames of the rest (`CutFront`). The properties compare the stream with
the frames of a sequence of messages, which `FlattenSeq` puts together recursively: what it does with
one message more at either end is proved by induction. The library's induction theorems take an
operator as a parameter, which the provers cannot instantiate; its theorems on well-founded
relations take sets, so `LeastNumber` and `SetInduction` are derived from `WFMin`, and `FlattenIsLast`
is the induction.

**Pollers.** `EpollInv`: map and epoll set have the same fds. `InStep`: the two vectors have the
same length and `m_fd_to_idx` points to the element of each fd; the lemma `SwapPop` is the removal by
swapping. `SameRegistry`: both know the same, so that one registry is enough for both refinements.

**Logger.** `WriterInv`: where the writer can be while the owner is in `Init` or `Shutdown`, and
that it leaves only when what was queued before the flag was cleared is printed. `CountInv`: threads
between `BuildLogMeta` and the push have logged what is not queued. `FlushInv`: only while it works
on the queue does the writer leave lines unflushed. `DayInv`: nothing is from a day that has not come.

**TcpClient.** `IInv` is `TypeOK`, and `Core` as long as nothing has aborted. `MapInv`: whatever
the poller knows under a number has that number, which is also the assert in `EpollPoller::Poll`.
`WatchInv`: what the kernel watches is open, and if it is known as a connection, as that in
`m_connection`. `HandedInv`: a temporary channel that has handed a socket over, and is still in
the map, is below the handler the thread is in and will remove itself. `StackInv`, `ClosingInv`: a connection is
closed once, and only the first callback of a round was called by a temporary channel. `ActiveInv`: no
event of a connection waits while user code runs. The actions fall into a few kinds of
effect on owners and registrations (`Quiet`, `SockGone`, `Opens`, `HandsOver`, `Closes`,
`CloseEnds`, `Destroys`, `Polls`), each a lemma, to which the steps of the code are then led back. The proof of
an earlier, stronger `WatchedIsOwned` failed for a good reason: a temporary channel can be served
while another attempt is under way; `EstablishedIsUp` in section 3 is the promise this breaks.

Only model-checked: the liveness properties of the runs, since fairness and `ENABLED` are out of the
prover's reach. Every invariant and every other action property or refinement that a passing run
checks is also proved.

## 5. Not modelled

- `TcpServer` with `thread_num = 0`: there a connection closes inside the loop of
  `StopGracefully` over `m_connections`, which invalidates its iterator; behaviour is undefined from
  that step on.
- A `TcpClient` whose connection is held by nobody but `m_connection`: `HandleRemoveConnection` resets it
  (tcpclient.cpp:124), the connection is destroyed with the argument of the close callback
  (tcpconnection.cpp:208), and `m_socket.Close()` and the rest of `HandleClose`, `ForceCloseInLoop` and
  `Channel::HandleEvent` run on freed memory. The model assumes that the user holds a reference. The
  socket is closed in either case, by `~Socket` or by `Close`.
- In `TcpClient`, a write that fails before the next `Poll` reports the error, and a peer that does not read.
- Functors and timers that outlive their server or client (`this` captured, object destroyed).
- `AddAppender` while the writer runs, a data race on `m_appenders`; the text of log lines.
- A socket that cannot be created in `TcpClient::Connect`; foreign threads calling a client, which
  asserts that they do not.
- Statistics and metrics, which only read; `FindCRLF` and `FindEOL`; `Address`, `Config` and the other
  functions of `Socket` and `SocketUtils`, which wrap one system call each.

## 6. Plan

1. `LengthFieldCodec` on top of `Buffer` in one module, with `PeekInt32` and `Retrieve` on the
   vector itself: both halves are proved, their composition is an argument of this document.
2. More action properties with proofs: what a `Resize` may do to the workers, what a step of the
   client may do to `m_connection`.
3. When the code changes: the table of promises it does not keep, run by run.

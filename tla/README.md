# rocket, verified: TLA+ models and proofs

`src/rocket` is a small C++ RPC framework: a reactor (`EventLoop`) per thread, timers,
TCP connections with byte buffers and a binary framing (`TinyPB`), a server that dispatches
requests to protobuf services, a client channel with timeouts, and an asynchronous logger.
This directory holds TLA+ modules translated from that code, TLC configurations that check
them on small instances, and theorems that TLAPS proves for every value of the constants.

Paths below are relative to `src/rocket`. `PROJECT.json` lists, machine-readably, the
components, runs, mutants, hazards, theorems, and the source lines of every definition.

## 1. The system

### 1.1 Components, their state and operations

| component | code | state | operations |
|---|---|---|---|
| Mutex, ScopeMutex | `common/mutex.h` | the pthread mutex; `m_is_lock` of each guard | constructor (lock), `unlock()`, destructor (unlock) |
| EventLoop | `net/eventloop.cc`, `wakeup_fd_event.cc` | `m_pending_tasks`, `m_stop_flag`, `m_listen_fds` and the kernel's interest set, the eventfd | `loop`, `addTask`, `addEpollEvent`, `deleteEpollEvent`, `wakeup`, `stop` |
| Timer | `net/timer.cc`, `timer_event.*` | `m_pending_events` (multimap by arrive time), the timerfd, `m_is_cancled` and `m_arrive_time` of each event | `onTimer`, `addTimerEvent`, `deleteTimerEvent`, `resetArriveTime`, `setCancled` |
| TcpBuffer | `net/tcp/tcp_buffer.cc` | `m_buffer`, `m_read_index`, `m_write_index` | `moveWriteIndex`, `moveReadIndex`, `readFromBuffer`, `writeToBuffer`, `resizeBuffer`, `adjustBuffer` |
| TcpConnection | `net/tcp/tcp_connection.cc` | two TcpBuffers, `m_state`, what its FdEvent listens for, `m_write_dones`, `m_read_dones` | `onRead`, `excute`, `onWrite`, `clear`, `listenRead`, `listenWrite`, `setState`, `pushSendMessage`, `pushReadMessage` |
| TinyPBCoder | `net/coder/tinypb_coder.cc` | none | `decode`, `encode` |
| RpcChannel, RpcController | `net/rpc/rpc_channel.cc`, `rpc_controller.cc` | `m_is_init`, the timer event, the controller's error and cancel flag, the response | `Init`, `CallMethod` and its callbacks: timeout, connect, write, read |
| RpcDispatcher | `net/rpc/rpc_dispatcher.cc` | `m_service_map`, constant once the server runs | `dispatch`, `registerService` |
| TcpClient | `net/tcp/tcp_client.cc` | the descriptor, `m_connect_error_code`, one TcpConnection | `connect`, `writeMessage`, `readMessage`, `addTimerEvent`, `stop` |
| Logger, AsyncLogger | `common/log.cc` | `m_buffer`s, the queue of batches, `m_date`, `m_no`, the open file | `pushLog`, `syncLoop`, `pushLogBuffer`, `Loop`, `stop` |
| IOThread, IOThreadGroup | `net/io_thread*.cc` | two semaphores, the thread, its EventLoop; `m_index` | constructor, `Main`, `start`, `join`, destructor; `getIOThread` |
| TcpServer, TcpAcceptor | `net/tcp/tcp_server.cc`, `tcp_acceptor.cc` | `m_client`, `m_client_count` | `onAccept`, `start`, `accept` |
| FdEvent, FdEventGroup | `net/fd_event*.cc` | events and callbacks of each descriptor; the table | `listen`, `cancleListen`, `getFdEvent` |
| MsgIdUtil | `common/msg_util.cc` | the thread's last id | `GenMsgId` |
| Config, RunTime, util, NetAddr | `common/`, `net/tcp/net_addr.cc` | read once, or per thread | |

Outside: `generator/` (writes project skeletons), generated protobuf code, `testcases/`.

### 1.2 How they interact

    application -- CALLRPC --> RpcChannel -- connect / write / read --> TcpClient
         ^                       |  addTimerEvent                          |
         | closure               v                                         v
         +---------- timeout: Timer <-- fd --- EventLoop -- handlers --> TcpConnection
                                                  ^                        |  TcpBuffer x 2
     TcpServer.onAccept -- addEpollEvent (other   |                        v
     thread) ----> addTask + eventfd -------------+     excute: decode, RpcDispatcher, encode

Everything in one IO thread runs as a handler that its EventLoop calls. Threads meet in four
places: the pending queue of an EventLoop (guarded by a ScopeMutex), the event map of a Timer
(likewise), the FdEventGroup, and the buffers of the logger. The server's main thread builds a
TcpConnection and the IO thread reads from it.

### 1.3 What is hard, and what would make each component correct

* **ScopeMutex.** `unlock()` does not clear `m_is_lock` and the destructor does not look at
  it, so every guard with an explicit `unlock()` releases the mutex twice. Correct would be
  mutual exclusion; what holds is mutual exclusion until the second release hits another
  thread's lock, and that the mutex never stays locked.
* **EventLoop.** Tasks of other threads must run once, in order, and not wait for a loop that
  sleeps: the wake-up, the swap of the queue, the task that reads the eventfd, and `stop()`
  interleave. epoll registrations of other threads take effect late.
* **Timer.** `resetArriveTime` sets the timerfd from a copy of the map taken before; threads
  adding and deleting events race with it and with `onTimer`. No pending event may be forgotten
  or late, no deleted one may run again and again.
* **TcpBuffer.** A byte queue over a vector that is grown, compacted and overwritten in place;
  indices at the boundaries, and a compaction with its source and destination confused.
* **TcpConnection and TinyPBCoder.** Requests arrive cut in any place; decode runs between the
  pieces, and inside frames that are not whole yet. Each request must be served once and in
  order, each answer sent once.
* **RpcChannel.** Answer, timeout, refused connection and closed peer race. The closure must
  run once, and the caller must find out in each case.
* **RpcDispatcher.** Each error must get into the answer.
* **TinyPB and MsgId.** encode and decode must agree where each part of a message is, for every
  length of every part, and decode's arrays must hold the texts; the increment of an id must come back.
* **TcpClient.** Connecting, writing, reading and their callbacks share one FdEvent, which outlives
  the client and is handed to the next one with its callbacks and its registration. A write
  callback must mean something, a connect must end, and nobody may be called after it is gone.
* **IOThread, IOThreadGroup, TcpServer.** The main thread waits for each thread's loop, hands it
  connections it is still completing while the thread already reads from them, and keeps them
  alive. Each connection must be served, closed for good once closed, and dealt out in turn.
* **AsyncLogger.** Lines pass four containers and three threads; files roll over by date and
  size; the process restarts; every guard on the way unlocks twice. No line may be lost, doubled or
  out of order.

## 2. Modules

| module | models | builds on |
|---|---|---|
| `ScopeMutex` | mutex.h: guards of both kinds on one mutex | |
| `TaskQueue` | abstract: each task runs once, in its thread's order | |
| `EventLoop` | the loop's thread and the threads that post | implements `TaskQueue`; its guards implement `ScopeMutex` |
| `Timer` (`TimerMC`) | one Timer, its loop and other threads | |
| `TcpBuffer` | the buffer, with any set of operations its owner uses | |
| `TcpConnection` (`TcpConnectionMC`) | a server's connection, with decode | `INSTANCE TcpBuffer` for the in-buffer |
| `TinyPB` | the layout of a frame: what encode writes, what decode reads | |
| `MsgId` | `GenMsgId` | |
| `RpcDispatcher` | dispatch as a set-valued function of the request | |
| `RpcCall` | abstract: the closure runs at most once | |
| `RpcChannel` (`RpcChannelMC`) | one call from CALLRPC to the closure | extends `RpcDispatcher`, `TinyPB`, `MsgId`; implements `RpcCall` |
| `TcpClient` | clients one after the other on one descriptor, with FdEvent, epoll registration and the client's TcpConnection | |
| `IOThread` | the threads of a group and their owner | |
| `TcpServer` | onAccept in the main thread beside the IO threads | extends `IOThread`; uses a loop's queue as `TaskQueue` promises |
| `Journal` | abstract: lines are kept in order, none left out, and stay kept when the process dies | |
| `AsyncLogger` | one pipeline from pushLog to the files | implements `Journal` |
| `*_proofs` | the theorems about the module of that name | |

`ScopeMutex` has no run of its own: `EventLoop`'s guards are checked, and proved, to be its guards
(`UsesScopeMutex`), and what is proved of `ScopeMutex` holds of them. Its theorems stand at the end
of `TcpClient_proofs`, as theorems of an instance `Lock`: the other mutex a client meets is that of
the FdEventGroup it has its FdEvent from. The logger's guards are spelled out in `AsyncLogger`.

### 2.1 Correspondence

Variables keep the code's names where there is one. Variables marked *history* in a module
are read by properties only and restrict no action. Definitions headed *Defect* are mutated
forms of the definition after or before them; no specification uses them.

**ScopeMutex.** A guard `g` is a place of the program that declares a ScopeMutex; `scope[g]`
walks out, waiting, held, (released,) out. `Explicit` are the places that call `unlock()`:
all in eventloop.cc, timer.cc and log.cc; `FdEventGroup::getFdEvent` is the other kind.

**EventLoop.** `pc` is the program point of each thread; one step is one access to shared
state: lock, push, unlock, write of the eventfd, destructor. The guards are spelled out here
(not as one atomic section), because their double release is what breaks the queue; while two
threads are inside, `Push` may lose its task. A task is a record of its poster, its number
and what it does. `Dispatch` queues the handler with the loop's own `addTask(cb, false)`.

**Timer.** Here a section under the mutex is one step: its races are those *between*
sections, in `Snapshot`/`SetTime` (the copy and the `timerfd_settime`). An entry is a pair of key and
event because `deleteTimerEvent` looks up the event's present time. Equal keys fire in any
order, which includes the multimap's order of insertion.

**TcpBuffer.** A byte is its position in the stream that passed through the buffer, so loss,
repetition and reordering are visible; 0 is a byte nobody sent. `calls` is the set of operations
this buffer's owner uses: a connection's in-buffer is `{receive, grow, moveRead}`. `moveWriteIndex(n)`
includes the `read(2)` that put the n bytes there. `moveReadIndex(n)` is called by decode only
for a frame it has found, which is its guard; n is what four bytes of the stream say, and may be below
zero.

**TcpConnection.** The in-buffer is a TcpBuffer over `Stream`, the bytes of the requests; `First` says
where each begins. A request is a frame: PB_START, the four bytes of its length, any bytes at all, PB_END
where the length says. Of the bytes in between, which are the request's fields, the model needs the
values only because decode looks at them: as long as a frame has not arrived whole, decode goes on
to the next byte, inside it (tinypb_coder.cc:50). `Decode` is one iteration of decode's outer loop,
with the length as a signed 32-bit number (`Int32`). `Byte` lets it look where the code looks,
including bytes of the length that have not arrived. A frame that begins inside a request sets
`misled`; what its bytes are decoded to is nothing, a garbled message, or the end of the process
(`Messages`, `DecodeStrays`), and a length below zero moves the read index back (`back`). A length
of 0, or one that moveReadIndex refuses, is found for ever (`Endless`, `pc = "stuck"`); one that
points outside the vector is undefined (`Wild`, also `pc = "dead"`). The
out-buffer only grows, so it is the sequence of the encoded answers; `writes` records how far
each `write(2)` got, and each starts at the first byte. A write that is cut counts as the number
of answers it touched. `setState` and `listenRead` are the end of `TcpServer::onAccept` and the
epoll change the constructor hands to the IO thread, in either order.

**TinyPB.** A message is the lengths of its parts, a frame a function from places to (part, number
of the byte in it). `encodeTinyPB` writes the parts in the code's order, each where the code's pointer
stands, so that a later part may lie over an earlier one; what is written past `pk_len` is not
sent. A place nobody wrote has what `malloc` left there, which may be PB_END or not. `Fits`: decode
copies the id, the method's name and the error's text into arrays of 100, 512 and 512 bytes and reads
them up to a NUL; a text as long as its array or longer is undefined behaviour. `Intact` says what
decode gets right, and needs `Fits`.

**MsgId.** Of the id the module keeps whether its digits are all nines: only then does the loop at
msg_util.cc:46 not run. `t_max_msg_id_no` is the number of times twenty nines were appended to it.
`GenMsgId` is the set of what it may leave and return.

**RpcDispatcher, RpcChannel.** All of a call's code runs in one thread; the actions are the
handlers the loop may call next. `wire` holds the answers decode will return: for each answer the
server gives, `Arrivals` asks `TinyPB` whether its frame is found and holds what was encoded; a
request decoded twice puts two there. If a text of the call or of an answer to it overruns an array
(`CallFits` is false), any answer may arrive, or none, and decode may end the process
(`OnReadOverruns`). The caller may set the id: `GivenIdLength` is its length. Whether a response parses
is left open (`parsed`). The write and the connection-closed paths include what kills the process.
`OtherCall` stands for calls of the same thread over other channels, which share its message ids.

**TcpClient.** One thread; a handler is one step, and the program may destroy the client between
two. `NewClient` gets the descriptor its predecessor closed, as the kernel gives the lowest free
number. `epoll.listed` is `m_listen_fds`, `epoll.kernel` the interest set: `close` changes only the
second. A callback carries the number of the client its `this` is; running one of a client that is
gone is the outcome `undefined`, after which nothing is said. `script` is what the caller's connect
callback does, `on_written` what the write callbacks do. A message is whole or not there; `sent` is
what was written whole. A peer that resets the connection during a write is in `RpcChannel`, not
here. A write callback that writes makes `m_write_dones` grow under the loop over it; the module
takes the case in which that callback returns at once.

**IOThread, TcpServer.** `owner` and `pc[i]` are the program points of the two sides of the
semaphores. `program = "server"` is the TcpServer; `"threads"` an owner that uses IOThread's own
interface and may destroy a thread, which no code of the repository does. A connection is the
number of its `accept()`; `New` is the one onAccept is still working on. `pending[i]` holds the
`addEpollEvent` tasks of connections for a thread. The destructor's `sem_destroy` on a semaphore with a waiter
is undefined for POSIX; the module has glibc's behaviour, in which the waiter stays.

**AsyncLogger.** `pc` is the program point of each thread that logs, of the thread whose loop calls
syncLoop (`Syncer`) and of the AsyncLogger's thread (`Writer`). As in `EventLoop` a guard is its
constructor (`Lock`), the `unlock()` at the end of its section, and its destructor
(`LogDestroy`, `QueueDestroy`, `SyncDestroy`, `WriterDestroy`), which unlocks again whoever has the
mutex by then; `stolen` records that it was another thread's. syncLoop's guard lives past
pushLogBuffer, the writer's past the write. While two threads are in a section,
what one of them adds may be lost. `TestEmpty`, `Wait` and `WakeUp` are the condition variable, spurious
wake-ups included. Lines are numbered within a run of the process, in the order of their
`push_back`. A file is identified by its date and number. `WriteBatch` goes from
`gettimeofday` to the stop flag. `Restart` kills the process between two steps; what a partly
executed `fwrite` leaves behind is not modelled. For `Journal`, `kept` is the set of the lines in
all files (`InFiles`), and `undefined`, which lets it leave lines out until the next start, is `stolen`.

## 3. Runs

| run | module | shows | distinct states |
|---|---|---|---|
| `loop` | EventLoop | tasks conserved and in order, registrations, wake-ups, guards as in `ScopeMutex`, `TaskQueue`; under fairness waiters of the mutex get on, tasks run and `stop()` ends the loop | 145 000 |
| `loop_race` | EventLoop | **violation**: two threads in the pending queue | |
| `timer` | TimerMC | nothing forgotten, nothing late unless shared, deleted events run at most once more | 445 000 |
| `buffer` | TcpBuffer | indices, intactness until damaged, order, in-buffer never full | 4 800 |
| `connection` | TcpConnectionMC | requests served once and in order until damaged or misled, garbling needs a dropped read or a false frame, only a length below zero lets a request come after a later one, everything written, requests served under fairness | 567 000 |
| `connection_resend` | TcpConnectionMC | **violation**: earlier answers are sent again | |
| `call` | RpcChannelMC | what the process can die of, what a closure without an error has received, `RpcCall`, a call leaves a trace | 571 000 |
| `call_error_answer` | RpcChannelMC | **violation**: an error answer never reaches the closure | |
| `log` | AsyncLogger | lines conserved until a lock is stolen, files in order, bounded overruns, the files are a journal, lines written | 635 000 |
| `server` | TcpServer | loops published before use, connections dealt out in turn, closed for good and served, destructors return | 4 400 |
| `client` | TcpClient | what a write callback means, when connect's runs again, who is called too late, that a connect ends and messages are sent | 42 000 |
| `client_done` | TcpClient | **violation**: a write callback runs though its message was not sent | |

Each property of a passing run has a mutant in `PROJECT.json`: a change to the mapped code
that makes TLC find the property violated under the same configuration.

### 3.1 Bounds, and why they are enough

* `EventLoop.cfg`: the loop and one poster that also stops, with two tasks, for the order of a
  thread's own tasks; `MaxEvents` 1, so that the descriptor and the eventfd compete for the array
  (the code's 10). Two posters are three times the states and add the stolen lock, which is `loop_race`'s
  subject; the theorems about this module hold for any number of posters.
* `EventLoopRace.cfg`: two posters and the loop are the three threads that stealing takes: one
  that unlocks twice, one whose lock is stolen, one that enters.
* `TimerShared.cfg`: a repeated event of interval 1 and a single one of interval 4, which lies
  beyond `now + Retry` (2) so that a timerfd set for the wrong event is late; one thread beside
  the loop; the clock up to 5, several periods of the repeated event.
* `TcpBuffer.cfg`: a vector of 4 (a third is 1) and a stream of 9, so that it grows, compacts
  and fills up. `Roles` has a connection's in-buffer and a buffer that is used in every way.
* `TcpConnection.cfg`: a vector of 40, a third of which is 13, and requests of 6, 6, 12, 13 and 6 bytes,
  43 in all: they can fill the vector, and two or three of them read compact it. The third has a frame of
  length -12 among its bytes, the fourth one of length 7; decode takes either if the end of the request
  has not arrived. Reads refused, bytes zeroed, requests lost, served twice or after a later one, garbled
  messages (of a refused read, and of a false frame), a length of 0 and the death of the process
  all occur (each was confirmed by a reachability check), requests served twice also without a false
  frame. `MaxServed` 6 never binds; `MaxWrites` 2 allows a cut write and its completion.
  `TcpConnectionResend.cfg` needs two plain requests and a third write.
* `RpcChannelCall.cfg`: two answers, the second for the repeated callback; a table of one
  service and one method has every outcome of dispatch. The lengths are those of the code's texts. A
  given id has 100 characters, the first length that overruns its array; a generated one has 20,
  which fits, and is longer than two of the four error texts and shorter than two, so an error's frame
  has its end mark before or after its place (`RpcChannelErrorAnswer.cfg` has the given id of 16
  characters with which one is right).
* `TcpServer.cfg`: two threads, four connections so that the index wraps and one is accepted after
  that, three descriptors so that the fourth accept fails.
* `TcpClient.cfg`: the second of two clients is the one that inherits; two messages, for a partial
  write between them.
* `AsyncLogger.cfg`: two threads that log, as a stolen lock takes a thread that unlocks twice, one
  whose lock is stolen and one that enters. A file any line fills (`m_max_file_size` 0: a file is
  closed once it is longer), two lines a run and a third if a stolen lock lets it in, two runs, two
  dates: roll-over onto the first file, onto a next one, on a new date and after a restart.

`CHECK_DEADLOCK FALSE` stands where the system may stop: the loop has ended, the process has died,
the bounded client or caller has nothing more to do, or the clock has reached its bound.

### 3.2 Fairness

* `EventLoop`: threads are scheduled, a free mutex goes to some waiter, not to a particular one,
  and `epoll_wait` returns after `g_epoll_max_timeout` (ten seconds). Nobody need post, send or hang up. Without that time limit tasks would wait for ever:
  the mutant `EpollWaitsForever` shows it.
* `TcpConnection`: onAccept ends, the IO thread runs its tasks and the handler of a readable
  descriptor (epoll is level-triggered: eventloop.cc adds no EPOLLET), handlers return. Nothing
  makes the client send or the socket take data, and no property needs it.
* `RpcChannel`: the handlers of a readable descriptor and of a due timer event are called.
* `TcpServer`: every thread is scheduled, and a server calls `start()` once its constructor is done.
  Nobody need connect or close.
* `TcpClient`: the loop takes its turns, a connection attempt ends, a full socket gets room again. Strong
  fairness on `OnWriteAll` is a peer that goes on reading: a socket that can take everything again
  and again at the time of a write takes it once. `MessagesSent` needs it, as the code starts from
  the first byte after each partial write.
* `AsyncLogger`: the repeated timer event runs `syncLoop` and its loop runs it to the end, the writer's
  thread and a thread that logs are scheduled. Strong fairness on `QueueLock` excludes only that spurious
  wake-ups, each of which takes the mutex, keep pushLogBuffer from it for ever.

## 4. Findings

The four violation runs state what a comment or test of the repository says, and find that it is not so:

1. `loop_race`: the lock announced at eventloop.cc:111 and 205 does not exclude, because
   `~ScopeMutex` (mutex.h:18) releases after `unlock()` has.
2. `connection_resend`: onWrite (tcp_connection.cc:166) never moves the out-buffer's read index.
3. `call_error_answer`: the read callback (rpc_channel.cc:114-121) returns without the closure.
4. `client_done`: tcp_client.h:38 and tcp_client.cc:96 say that `done` is called when the message has been
   sent. onWrite (tcp_connection.cc:185-190) calls the callbacks of all queued messages after its write loop,
   also when the socket took only a part, or nothing; and a message that one of the callbacks queues may
   have its callback run and is cleared before it is encoded. `WriteCallbacks` states what a callback does
   mean: its message was sent, or onWrite, still registered, goes on sending it, or a callback queued it.

Divergences met while modelling that have no run of their own; the models contain the behaviour
unless noted:

* A task added between the swap and the eventfd's handler loses its wake-up and waits up to ten
  seconds (eventloop.cc:100-113; `WakeupCoversTasks` says this is the only way).
* With a second thread in `addTimerEvent`, the timerfd may keep the later of two times
  (timer.cc:75-102; `InTimeUntilShared` says that takes a second thread).
* `memcpy(&buffer[0], &buffer[m_read_index], count)` in adjustBuffer (tcp_buffer.cc:81) copies within
  the new vector, so unread bytes become zeros, where the picture at tcp_buffer.h:15-18 keeps them
  (`zeroed`; `IntactUntilDamaged` fails without it).
* decode searches the bytes inside a frame that has not arrived whole (tinypb_coder.cc:50). Bytes of a
  request that look like a frame are taken for one, and the request, which no buffer damaged, is never
  found, though frames are there "to make it easy to split requests" (net/rpc/readme.md:6). Every property of
  `TcpConnection` about what is served says so (`misled`, `back`).
* The guards of the logger (log.cc:52, 155, 201, 274) release their mutex twice as those of the loop do:
  two threads get into push_back, or one beside syncLoop's swap or the queue's pop, and a line is
  lost, though "all the data of the buffer" is to be printed to the file (log.cc:193). A signal may be
  lost too, between log.cc:204 and 205, until the next batch. `LinesConserved`, `LinesWritten` and
  `ImplementsJournal` promise completeness only until then (`stolen`).
* An id of 100 characters or more, a method's name or an error's text of 512 or more overruns decode's
  arrays (tinypb_coder.cc:84, 99, 125; `Fits` in TinyPB, `CrashCauses`).
* A read that exactly fills the buffer is dropped (tcp_buffer.cc:100).
* decode takes a frame's length when one byte of it has arrived; the zeros after it make a frame of
  length 0, found for ever (tinypb_coder.cc:43-52; `Endless` in TcpConnection).
* After a damaged frame decode moves the read index into the next one (tinypb_coder.cc:69) and may
  serve that twice.
* An answer with an error is misframed unless its text is as long as the msg_id
  (tinypb_coder.cc:194; `Parts` in TinyPB). An answer without an error never is: `SuccessMeansResult`.
* After a refused connection the closure finds the timeout's code (rpc_channel.cc:69, 81).
* The error of an unknown service is set on the request (rpc_dispatcher.cc:54); the caller may find
  an empty success.
* The first roll-over of a date goes to the full file again (log.cc:253, `m_no++`).
* `GenMsgId` clears digits with the wrong loop variable (msg_util.cc:46): the second id a thread
  generates ends the process (`CrashCauses`).
* `~IOThread` joins a thread that may wait for a start that never comes (io_thread.cc:23-29;
  `DestructorReturns` excepts it).
* The server closes no descriptor, and a failed accept's -1 indexes the table of FdEvents
  (tcp_acceptor.cc:56-63, fd_event_group.cc:36; `AcceptDies`).
* `~TcpClient` closes its descriptor and leaves it in `m_listen_fds`; the next client's registration is then
  an EPOLL_CTL_MOD of a descriptor the kernel does not know, and its connect never ends
  (tcp_client.cc:33, eventloop.cc:11-24; `ConnectSettles` says this is the only way).
* A connect callback that only reads is run again, as the old write handler comes back with the
  registration (tcp_client.cc:73-78, fd_event.cc:29-36; `ConnectCallbackOnce`).

## 5. Proofs

Checked by tlapm, for every value of the constants that meets the module's assumption. The
assumptions are typing of the constants, and are evaluated by TLC in every run.

| module | theorems | argument |
|---|---|---|
| `TcpClient_proofs` | `Typing`, `StaleNeedsLeftovers`, `ConnectCallbackRunsOnce`, `WrittenOnce` | None of the three invariants is inductive. `OwnerInv` says whose callbacks there are: none of a client to come; the kernel reports no event the FdEvent lacks; connect and write callbacks end a turn of the loop; and while every client was destroyed in time, all that listens or is queued is the present client's (`OwnCallbacks`). `OnceInv` adds that nothing has been called before connect() ends (`NotYet`), and that after it the connect callback is queued nowhere, and is out of the FdEvent or out of the loop's reach, unless it only read (`Once`). `WrittenInv` adds where a message is between writeMessage and the peer: none of the queued callbacks has run (`Waiting`), a queued onWrite is still registered (`Pending`), and the out-buffer keeps what was encoded (`Encoded`). |
| `TcpClient_proofs`, instance `Lock` of `ScopeMutex` | `ScopeInvariant`, `StolenIsTheOnlyWay`, `LockAlwaysHasHolder`, `ScopeOnlyIsExclusive` | `ScopeInv` is inductive: the flag spans the scope. Until a lock is stolen a held section keeps `locked`, so no constructor returns beside it. If no guard is explicit, no destructor steals. |
| `EventLoop_proofs` | `Typing`, `GuardsAreScopeMutex`, `ExclusiveQueue`, `NoTaskLost`, `RegistrationsInOrder`, `WakeupLostOnlyByDrain`, `StopWakeupLostOnlyByDrain`, `LoopIsTaskQueue` | `ThreadsInv` ties the program points to the task in each thread's hands. `TasksConserved` (the two queues, one after the other, hold each thread's numbers `ran + 1 .. posted`) is preserved because a push appends the next number, a run removes the first, and the swap moves all when `tem_tasks` is empty. The refinement reads off: `Push` is `Post`, `RunTask` is `Run`, a stolen lock is `Break`. `RegistrationsInOrder` follows the adds and deletes of one descriptor through the queue: the last of them that is still queued, or else the epoll, is what the last call asked for (`Leads`); pushing appends to them, running takes the first. Both wake-up theorems follow the write to the eventfd from its thread's point to the loop's read. `GuardsAreScopeMutex` maps each program point to a stage of its guard; the loop's thread has two, its own and that of the addTask it calls. |
| `Timer_proofs` | `Typing`, `NothingForgotten`, `DeletedAtMostOnce`, `InTimeAlone` | `NeverForgotten` needs only that the first insertion goes to `Snapshot` and that `Drain` leads to `Rearm`. `DeletedAtMostOnce` needs `BatchInv`: an event occurs once in a batch and is then not in the map. `InTimeAlone` needs that while no other thread has added, the first of the copy is still the first of the map or the map only got smaller. |
| `TcpBuffer_proofs` | `BufferInvariant` with `IndicesStayInside`, `OnlyTwoWaysToDamage`; `NeverFull`, `UnreadNeverReordered` | `BufferInv` joins indices, typing and contents: unread cells hold `consumed + 1, ...` unless damaged. One lemma per operation, on `Copied`, `Moved` and `adjustBuffer`. `NeverFull` restricts the operations to a connection's. `UnreadNeverReordered` needs `UnreadRises`: no unread byte is past what was received, so what comes in next is behind all of them, damaged or not. |
| `TcpConnection_proofs` | `InBufferIsTcpBuffer`, `Typing`, `WholeOutBufferWritten`, `NoRequestAfterALaterOne`, `NoGarbledMessage`, `EachServedOnce` | For any bytes in the requests: all that is assumed is that each is a frame. `InBufferIsTcpBuffer`: a connection's steps are steps of its TcpBuffer, so what `TcpBuffer_proofs` proves holds of the in-buffer. `WritesInv` drops `pc = "idle"` from `AllWrittenWhenDone`, which makes it inductive. `NoRequestAfterALaterOne` needs `StaleBroken`: what is left in the buffer of a request before one already served has a gap, or decode, which takes the first frame, would have found it first; that ends with `back`, when taken bytes are unread again. `NoGarbledMessage` needs `TailInv`: unless bytes were refused, zeros come first and the rest are the last bytes received, so a frame that begins where a request does is that request, whole. `EachServedOnce` adds that the bytes taken out are those of the requests served (`StreamInv`); both end with `misled`. |
| `RpcChannel_proofs` | `ClosureOnce`, `CrashesHaveCauses`, `SuccessIsGenuine`, `ChannelIsRpcCall` | `ChannelInv` is not inductive: `CallInv` adds that a request waits in the connection only before the read callback is set, and that an answer is used up when the callback gives up its channel. `IdInv` ties the thread's id to how many it has generated. For `SuccessIsGenuine`, `FrameIntact` shows for all lengths that fit decode's arrays that what decode takes from a frame with no error text or no data is what was encoded, and dispatch gives no other answers; `AnswerInv` then says what may be on the wire of a call whose texts fit (`CallFits`, which no step changes once there is a wire: `FitStays`). Of other calls nothing is claimed but what they may die of (`CauseInv`). The refinement maps closure and cancel flag to `status`. |
| `TcpServer_proofs` | `Typing`, `LoopsPublished`, `DealtInTurn`, `HandlersHaveConnection`, `ClosedStaysClosed` | `ThreadsInv` ties each thread's point to its owner's and to the init semaphore: it is posted only after the loop is there. `DealInv` gives the threads of the last `Size` connections from `m_index`. `ConnInv` orders a connection's life: its task, its registration, its state and its place in `m_client`. `HandlersHaveConnection` states `HandlersAlive`, which follows from `ConnInv` alone and is checked by no run. |
| `AsyncLogger_proofs` | `PipelineAgrees`, `OverrunsStayBounded`, `FilesStayInOrder`, `NoLineLost`, `LoggerIsJournal` | `Exclusive`: until a lock is stolen a thread in a section has its mutex locked and is alone there; one lemma per kind of step of a guard. Nothing else depends on it but that lines are kept, so order and overruns hold whatever the guards do. `Target` says of every write which file it goes to: today's, never behind the open one, and to one that is too large only by a roll-over. `OverrunInv` strengthens `OverrunsBounded` by one for each file the run may still roll over to. `OrderInv` orders the lines on their way and puts them above every line in a file; `FileInv` has this run's lines in no file behind the open one; together they place each new line. `Kept`, which ends with `stolen`, follows a line through the places it passes (`StageOrder`), which makes `LinesConserved` a matter of where each line is, not of one long sequence. The refinement needs `OrderInv` and `Kept`: a batch is `Keep(n)` for its last line n, as every earlier line of the run is in the files or in the batch (`BatchIsNext`), and `WriteAdds` says a write keeps what there was. |

Only model-checked: liveness (`QueueWaitersProgress`, `TasksRun`, `StopEndsLoop`, `RequestsServed`,
`Settles`, `LinesWritten`, `ConnectionsServed`, `DestructorReturns`, `ConnectSettles`, `MessagesSent`),
which TLAPS does not do under fairness. Every other property of a passing run is a theorem.

## 6. What is not modelled

* Formatting and parsing of addresses and of the configuration file, the text of log lines, the
  code generator, generated protobuf code, the drivers in `testcases/`, `StringCoder`: nothing in them
  changes state that others read.
* An adjustment of the wall clock that arrive times are taken from, and a TimerEvent added to the
  timers of two loops, which only `testcases/test_eventloop.cc` does.
* The creation of the FdEventGroup by two threads at once: two unsynchronised writes to one pointer.
* The client's buffer: `TcpClient` and `RpcChannel` have answers arrive whole. What onRead and decode
  do to bytes is `TcpConnection`'s subject, whose code both ends share; a request decoded twice is in
  `RpcChannel` as a second answer.
* Functions no code calls: `TcpConnection::shutdown`, `TcpClient::stop`, `IOThreadGroup::join`,
  `ScopeMutex::lock`, `RpcController::Reset`, `AsyncLogger::stop`, `AsyncLogger::flush`; `Logger::log`, which is empty.
* What follows undefined behaviour: a model stops there (`undefined`, `crashed`, `owner = "dead"`), or, for
  the queue two threads are in, lets its contents be lost (`stolen`).

# LibSourcey: TLA+ models, checks and proofs

LibSourcey is a C++ library for networked and media applications: an event-loop and
packet-stream core (`base`), sockets (`net`), protocols built on them (`http`, `stun`,
`turn`, `socketio`, `symple`) and media libraries (`av`, `webrtc`). Paths below are
relative to `src/src/` of the repository, where the library's own code is;
`src/vendor` is third-party code and is not covered.

This directory holds models of the parts that are hard to test, the TLC runs that
check them on small instances, and TLAPS proofs of the most important results for
every instance. `PROJECT.json` lists, for each definition, the lines of code it
models, and for each property a faulty variant of the code that it catches. A helper
whose lines all belong to the definition that uses it has no entry of its own.

Modules that instantiate others for TLC begin with MC. To check a model: `tlc -config
TurnServer.cfg TurnServer`; to check proofs: `tlapm TurnServerProofs.tla`.

## 1. Inventory

| Component | State it keeps | Operations | Hard behaviour | What makes it correct |
|---|---|---|---|---|
| Signals and delegates (`base/signal.h`, `delegate.h`) | list of slots, flag per slot, last id, a mutex | attach, detach (by id, delegate, instance), detachAll, emit | emission walks a copy without the mutex while callbacks and other threads edit the list | attached slots are called, detached ones are not |
| PacketStream (`base/packetstream.*`, `stateful.h`) | atomic state, queue of states, adapters, two mutexes | start, stop, close, pause, resume, lock, reset, attach/detach, write, process | control threads against source threads; a mutex held over foreign code; exceptions | adapters run on one thread at a time and follow the state; stop and close return |
| Packet queues (`base/queue.h`, `packetqueue.h`, `synchronizer.h`) | deque, flags, a wake-up handle or a worker thread | push, dispatch, run, cancel, flush, close, destroy | coalesced wake-ups, the limit, timeouts, close against dispatch | FIFO, at most once, nothing forgotten, no use after deletion |
| Packet transactions (`base/packettransaction.h`, `net/transaction.h`, `stun`, `socketio/transaction.cpp`) | state, attempts, timer, deferred deletion | send, cancel, dispose, timeout, response | lost, late and duplicated responses; methods called from the delegate | one answer at most, all retries used, deleted in the end and not used afterwards |
| Garbage collector (`base/memory.*`) | pending and ready objects, a timer per loop, a global mutex | deleteLater, work, finalize | threads, destructors and finalize at once | deleted once, later, and in the end |
| TURN server (`turn/src/server`, `turn/src/iallocation.cpp`) | map of allocations; each with times, usage, permissions, sockets | Allocate, Refresh, CreatePermission, Send, Connect, ConnectionBind, peer data, timer, stop | expiry against refreshes and traffic; the quota on two paths; deletion inside handlers | limits hold, allocations last as told and end |
| TURN client (`turn/src/client`) | state, transactions, permissions, queued requests | allocate, refresh, permissions, send, shutdown | retries, 437 and stale nonces, timers | keeps an allocation or says it has lost it |
| Handles, timers, runners, threads (`base/handle.h`, `timer`, `runner`, `thread`, `idler`) | uv handle, shared context between thread and owner | init, start, stop, close, cancel, join | a handle outlived by its callback; cancel against start | no callback after close; cancel ends the runner |
| Task runner (`base/task.*`) | list of tasks, a thread | start, cancel, destroy, next | concurrent edits of the list | each task runs until cancelled and is destroyed once |
| Sockets (`net/tcpsocket`, `udpsocket`, `socketadapter`, `socketemitter`) | uv handle, peer, adapters | connect, bind, send, shutdown, close and their callbacks | order of callbacks, close inside one, DNS | one close, no event after it |
| TLS (`net/ssl*`) | SSL object, two memory BIOs, buffered data | handshake, encrypt, decrypt, shutdown | handshake while data is queued | data sent in order, after the handshake |
| HTTP (`http/connection`, `server`, `client`, `parser`) | parser state, headers sent, outgoing stream | send, receive, upgrade, close | close in callbacks, keep-alive, replaced adapters | one complete or close per connection |
| WebSocket (`http/websocket.cpp`) | handshake state, frame flags | handshake, frame, unframe, shutdown | frame lengths, split frames | unframe inverts frame |
| socket.io (`socketio/client.cpp`) and Symple (`symple/*`) | session, timers, roster | connect, handshake, heartbeats, reconnect, presence | lost heartbeats, reconnection | online means heard from recently |
| Scheduler (`sched/*`) | sorted list of tasks, triggers | schedule, cancel, run | scheduling while the thread sleeps | tasks run in order, no later than due |
| Collections, managers, rate limiter, timeouts (`base/collection.h`, `util`) | maps of owned pointers, expiry times | add, remove, free, expire | removal during iteration | freed once |
| Logging (`base/logger`) | queue of messages, a thread | write, flush | destruction against the writer | every message written |
| Media (`av`), WebRTC peers (`webrtc`) | capture threads, encoder state, peer maps | start, stop, encode, offer, answer | threads joined under the stream's mutex | stop returns |
| Messages, encodings, configuration, files, crypto, archives | values | parse, format | sequential | round trips |

How they interact: everything is wired with `Signal`. Sources emit packets into a
`PacketStream`, which runs them through processors; queues are processors that move
packets to another thread or to the event loop. Transactions attach to sockets with a
`SocketEmitter` and are deleted by the garbage collector. The TURN server and the
clients of `turn`, `socketio` and `symple` use sockets, timers and transactions.

`PROJECT.json` lists under "components" all parts, with the reason for those not
modelled, and under "hazards" what can go wrong at which line.

## 2. Plan

Done, in this order: Signal, PacketStream, the queues with their abstract
specification `LossyFifo`, Transaction, GarbageCollector, TurnServer; then the task
runner and scheduler, the calendar, encodings, buffers and STUN messages, settings;
HTTP connections and messages, TLS, receivers and packets of sockets, the handles of
the event loop; the TURN client and TURN over TCP, the Symple client, its messages and
forms; media capture, encoder, codecs and WebRTC media, the timed manager, the logger,
WebRTC peers and form uploads.

Proofs, in this order: Signal, PacketStream, SyncQueue, Transaction, TurnServer; then
AsyncQueue with its refinement of `LossyFifo`, TurnClient, GarbageCollector, the
whole of HttpConnection, and TurnTcp; then TaskRunner and Scheduler, SympleClient,
TimedManager, WebrtcPeers, SslSocket, MediaCapture, WebrtcMedia and LogWriter.

Left, most important first:

1. Proofs for what `LayersSound` joins: the packets of `SocketAdapter` and
   `LoopHandles`, whose modules use no RECURSIVE operator; and for the forms,
   codecs and sessions of an encoder that `DeliveredInOrder` joins.
2. The composition of `TurnClient` with the whole of `TurnServer`: the client sees
   today the part of the server its messages can tell apart.
3. `RealtimePacketQueue` of `av` and the copying of a Signal.

## 3. Modules

Conventions: one action per critical section or per access to shared state where
threads interleave, one action per handler where everything runs on one event loop.
Variables marked auxiliary record history for the properties and never guard an
action. The section "Faulty variants" of a module holds the mutations of its
definitions that `PROJECT.json` lists; no specification uses them. `src` is built with
`NDEBUG` (`cmake/LibSourceyCompilerOptions.cmake:93,119`), so an `assert` stops
nothing; where one would fail the module says what the code goes on to do. A call whose
caller can see that an assertion would fail is not made: `reset()` of a PacketStream is
called in the states None and Closed, and clears whatever the state is by then.

### Core (`base`)

**Signal** (`signal.h`, `delegate.h`). Each critical section of the signal's mutex is
an action: `attach()` is two of them, `ClearDuplicate` and `Push`. An emission is an
activity with a copy of the list (`todo`); overlapping emissions are two threads or
one nested in a callback of the other. `alive()` is `test_and_set`: `EmitNext` reports
the flag and sets it. `Slot::kill` is `Kill`. Exceptions leaving a callback, and
`StopPropagation`, are `CallThrows`. The list is a set: `std::sort` leaves the order
of equal priorities unspecified, and `First` gives the candidates.

**PacketStream** (`packetstream.cpp`, `stateful.h`). A thread is at a label `pc[t]`,
each label one access to shared state. `setState()` is two accesses (`assign`,
`queue`), which is how concurrent state changes can be queued in an order other than
the one they were made in. `_mutex` covers single actions; `_procMutex` is the
variable `holder`, because it is held over calls into adapters. Joining sources
(`av::MediaCapture::stop`) wait in `join` until their thread is out of the stream.
Exceptions in `setup`, processors and delegates are enabled by `Throwers`.

**LossyFifo** is the promise of a packet queue: order kept, nothing twice, packets
dropped only from the queue. **SyncQueue** is the queue drained by the event loop:
`Post` is `uv_async_send`, coalesced in `posted`; the callback that finds the queue
cancelled deletes its closure (`armed`), and running it again is `crashed`. `Guarded`
says that `process()` runs under the stream's `_procMutex`, as it does inside a
PacketStream. **AsyncQueue** is the queue with a worker thread; `flush()` in `close()`
is four accesses, as in the code, and undefined behaviour (front or pop of an empty
deque, joining a joined thread) is `broken`, which stops the model.

**Transaction** (one event loop). The delegate runs in the middle of a response
(`inCallback`), and may call `send`, `cancel` and `dispose`. A message stays in `net`
once sent, so it is delivered never, late, or repeatedly, in any order. `OverNet`
separates `net::Transaction`, whose `SocketEmitter` detaches in its destructor, from
`sockio::Transaction`, which does not. A packet that reaches a deleted transaction
(`touched`) stops the model.

**GarbageCollector**. `work()` is `Take`, one `DeleteNext` per object and, when
finalizing, `Check`. A destructor may call `deleteLater` (`Chain`). `finalize()` holds
the global mutex while it runs the loop; `getCleaner()` needs that mutex and the push
that follows it does not. No two destructors schedule the same object, as
`deleteLater()` takes over what it is given (`CollectorAssumption`).

**TaskRunner** (`task.cpp`): the list, the round robin of `run()`, and callers that
start, cancel and destroy tasks between any two of its accesses. **Scheduler**
(`sched`) is a TaskRunner whose `run()` sorts by the triggers; it extends the module,
adds time and the triggers (once, interval, times), and saves and reloads.

**MediaCapture** is `av::MediaCapture`, whose `start`, `stop` and `close` are called by
several threads and from the capture's own packets; it begins with what each call of
`Runner` and `Thread` does to the thread and to the context shared with it.

**LoopHandles**: a TCP or UDP socket, a timer and a child process. Contexts are
numbered; a request holds the one it was made for, answers come at any later time, and
what each callback does (nothing, connect, close) is fixed at the start by `app`.

**Dates**: Julian days, weeks, spans, formatting and parsing against a calendar that is
advanced day by day; local times over a change of the offset. **Encodings**: base64 and
hex in blocks that end anywhere; bit readers and writers with both byte orders, updates
in place, lines and words. **Settings**: the
configuration that threads share, its file and crashes in the middle of a save; texts,
numbers, paths, versions and network addresses.

**LogWriter**: streams, channels with rotation, the synchronous writer and the
asynchronous one with its thread and destructor. `setWriter()` takes no mutex, so it is
`setWriter` (or `Cancel`), the steps of the destructor (`JoinThread`, `FlushNext`,
`FlushWrite`, `DeleteWriter`) and `AssignWriter`, and `Flush`, in which a thread hands
its message over, runs between any two of them with the value `_writer` had at any time
since its stream was made: it may queue behind the last look at the queue, or call a
writer that is deleted (`late`). The memory of a deleted writer may still work as a
synchronous one, lose the message, or end the program (`crashed`). A run of the model
sets an asynchronous writer once and replaces it once. **TimedManager** (`util`): the map
and its timeouts, each under a mutex of its own, so that every operation is several
actions; freed addresses are used again.

### Network

**HttpConnection**: a client and a server of the library over one TCP connection. Each
end has a loop; what an end wrote is a sequence of tokens, a read takes any number of
them, and every callback of the application may send or close. WebSocket upgrade and
frames are part of it. Both ends are records of the same type `End`; `opt` holds what
the two applications and the network decide beforehand: upgrades, whether a response
has a length, who else holds a connection. **HttpMessage**: the parser's callbacks on
pieces cut anywhere, header collection, lengths, cookies, URLs, parameters, authentication, chunked output.
**FormWriter**: uploads, one piece per turn of the idler.

**SslSocket**: two ends with their memory BIOs, the calls in progress as a stack,
reads that hold any number of records; OpenSSL, which would keep the beginning of a
record cut inside, is external. **SocketAdapter**: the dispatch of socket
events, as a stack of nested dispatches, and the packets of `PacketSocketEmitter`,
where data and infos are numbered and each packet says which it holds and owns (`pk`).

**StunMessage**: writing and reading of attributes with their lengths and padding.
**TurnServer** (one event loop). `allocs` is the map `_allocations`, indexed by the
client's port because `FiveTuple::operator<` compares only ports. Each request handler
is an action; error responses set `reply`. `Expired` is `expired()` with the override
of `timeRemaining()`. A Send indication is handled although the allocation has
expired, as in `UDPAllocation::handleRequest`. `Tick` is one second of `time()` during
which `clock()`, which times the permissions, advances by any amount of `CpuPerTick`.
Times above the maximum lifetime and bytes above the limit are not told apart: no
comparison of the code does. Using `_server` after `delete this` answers or crashes.
What authentication decides is left open: `Stateless` refuses any request.
**TurnClient**: the client, a network that loses, repeats and reorders, and what the
server would answer, 401 to any request without credentials. **TurnTcp**: both ends of relayed TCP connections, the vector of
`SocketEmitter`s and which element hears which socket, early data, timeouts.

**SympleClient** on the socket.io client: connections are numbered, so that what
belongs to an earlier one can be told. **SympleMessage**: messages, packets and
commands between two parties; forms, as trees in which an element is a pointer into a
vector that moves.

### Media

**MediaEncoder**: the multiplexer with its streams, times and the sample buffer. A codec
may fail on any frame: in `flush()` that skips `uninit()`, and the next Stopping tries
again. What goes to a file is modelled; a header in streaming mode is not sent, see
section 7. **MediaCodec**: one codec with its converter, from creation to close, and the
resampler; a resampler may keep a frame back, and nothing is emitted for it.
**WebrtcPeers**: who deletes a peer; the destructor closes an open connection, whose
callback looks for the peer in the map once more. **WebrtcMedia**: the audio device
module with its process thread, the video source and the recorder.

### Instances

MCSignal, MCPacketStream and MCTransaction name the model values and functions a cfg
cannot write. **MCUnits**, **MCNet**, **MCClients** and **MCServices** put components
that do not share state side by side: the initial state picks one of them (`part`,
`layer`, `who`), the variables of the others keep their first value, and the fairness
is that of each component. The number of states is the sum, not the product, and no
property of a component depends on another.

## 4. Runs

| Run | Shows | Bounds |
|---|---|---|
| `signal_safety` | `NoMissedSlot`, `LateCallsBounded` | 3 slots, 2 emissions: two slots with equal delegates, a slot with an id of the caller's, two instances, two priorities. Two emissions are what a late call takes; three slots are a duplicate and a bystander |
| `stream` | `OneThreadInAdapters`, `AdaptersConverge`, `StopReturns` | a controller with two calls of any kind and a source with two packets of any kind, all exceptions, with auto-start or close-on-error set (never both or neither): every pair of calls meets a packet at every label (555,019 states) |
| `stream_stale` | violates `ChainAlive` | one packet, five calls |
| `syncqueue` | `NoCallbackAfterDelete`, `ImplementsFifo`, `EventuallyDispatched` | 2 producers, 6 packets, limit 2: the limit is exceeded several times, before and after a wake-up; one closing thread and a closing delegate (4,058 states) |
| `transaction` | `AnsweredOnce`, `FailsOutOfAttempts`, `NoPacketAfterDelete`, `SentIsDeleted` | one transaction per transport, with and without retries, two explicit sends each |
| `turn` | `QuotaKept`, `OnlyPermitted`, `PromiseKept`, `AllocationEnds` | two clients on one port, maximum lifetime 3, requested lifetimes 0, 1 and over the maximum, limit 3 with data of 1 and 2 bytes (reached exactly and exceeded), or none. Allocations of different ports share nothing but the timer (73,532 states) |
| `units` | `DeletedOnce`, `TasksOutliveTheirRun`, `ScheduledRunsSound`, `WrittenReadsBack`, `UnitsEnd` | 12 components, 238,564 states, below |
| `net` | `StreamFaithful`, `CallbacksOrdered`, `DestroyedWhenIdle`, `TlsSound`, `LayersSound`, `ConnectionsSettle` | 8 layers, 304,902 states, below |
| `clients` | `TurnClientSound`, `RelayFaithful`, `SessionIsolated`, `ClientsSettle` | 3 clients, 247,997 states, below |
| `clients_expiry` | violates `RefreshedBeforeExpiry` | the TURN client alone |
| `services` | `EveryPacketAccounted`, `FifoWhileOpen`, `ManagedAlive`, `PeersDeletedOnce`, `CaptureSound`, `WebrtcMediaSound`, `LogFaithful`, `DeliveredInOrder`, `ServicesEnd` | 12 components, 179,877 states, below |
| `services_length` | violates `LengthAnnounced` | form uploads alone |

The bounds of the four larger instances, each the smallest that lets the case in
question happen:

* `units`. Collector: 3 objects, one scheduled by the destructor of another, 2
  threads. Two tasks (a round robin needs two) and times up to 3. Dates: 450 days from
  December of 1899, 1999, 2023 and 2099, so that leap years, century years of both
  kinds and two turns of the year occur. Local time: 7 hours with the offset changed
  from 3 to 6. Texts of up to 4 of the bytes 0, 107 and 255, lines of 4: groups of
  three, every remainder and a line break inside a block. Messages of 3 attributes.
  Buffers of 9 bytes, 4 numbers of 1 to 3 bytes, lines up to 4: the last number does
  not fit. Configuration: 4 calls by two threads, one crash. Typed texts of 5
  characters, numbers up to 20. Messages with two edits and two sends; forms with 3
  field names, 4 elements and 4 calls, so that the vector grows past its capacity
  twice.
* `net`. One request and up to two sends by the server; two sends per end over TLS;
  two receivers, dispatches nested twice, three additions; lengths of 3 bits, three
  header fields set, three chunks; three contexts and three calls per socket, timers
  of period 0 and 2 up to time 4 with three calls, four calls on a process with two
  lines of output; two types of packets, two holders of packets, streams of two, three
  calls.
* `clients`. The server grants 2 where the client asked for 3; four requests, two data
  packets, ages up to 3. Two peers, with two writes, one write by the client. Symple:
  three connections, two peers told of.
* `services`. Queue: 2 producers, 6 packets, limit 2, closed on Error and on Closed.
  Capture: two frames, six calls by two callers. Encoder: times 1 to 4, a video codec
  that keeps one frame, an audio codec that keeps none, one or two, audio frames of 2
  samples, 6 packets. Codec: three formats, one frame kept, no frame or the first two
  too short for the resampler, 5 calls; resampler: 12 samples at four pairs of rates. Timed
  manager: one key, two addresses, delays 0 and 1, two ticks, three additions. Logger:
  two messages, two calls, one tick, rotation at every second. Two peers. Audio:
  frames of 2 samples, 5 captured, 5 calls; video: four packet times, 5 packets.
  Forms: two fields, two parts of 0, 2 or 3 bytes in chunks of 2.

All bounds are in guards of inputs: they limit how much work is offered, never what is
done with it. Deadlock is not checked, since every system here rests by design:
bounded calls or packets run out, all transactions end, the program ends, the server
has crashed. What must not rest is said by the liveness properties. The type
invariants of the modules with proofs are proved and not run again.

## 5. Fairness

Only weak fairness, and only of what the platform provides. Threads inside a call are
scheduled (`stream`, the queues, the collector, the task runner and the scheduler, the
capture, the logger, the audio module), the event loop runs its callbacks, timers and
idlers, delegates and adapters return. `AnswersCome` of LoopHandles: libuv answers
every request once and calls back for a closed handle. In `net` an end reads what the
other has written: a connect may fail, but TCP delivers what an open connection was
given. In `clients` nothing is assumed of a UDP network, a transaction that gets no
answer fails, and a reconnection timer fires. In `turn` time passes and the timer
fires. A contended mutex is not assumed to be fair. Nothing is assumed of peers and
users, of the application (nobody has to call, push, close or refresh), or of how fast
`clock()` advances.

## 6. Proofs

TLAPS checks these for every value of the constants, from the named assumption of each
module (sets are disjoint where the code has distinct objects, counts are natural
numbers). The statements name the definitions the runs check; `NeverPopEmpty`,
`NoRelayPastMax` and the type invariants are proved and in no run.

* **SignalProofs**: `TypeCorrect`, `EmissionCorrect` (`NoMissedSlot` and
  `LateCallsBounded`, also `LateCallsCorrect`), `AutoIdsCorrect` (ids that
  `attach()` assigns never repeat; proved and not run). `NoMissedSlot` needs that a slot which is not
  detached has its flag set (`FlagInv`) and that copies hold only slots once attached
  (`SnapInv`). `LateCallsBounded` is not inductive: `LateInv` adds that while the flag
  of a detached slot is clear nobody has called it, and that once it is set again some
  emission has skipped it. `IdInv` bounds ids by `_lastId`.
* **PacketStreamProofs**: `TypeCorrect`, `AdaptersProtected` (`OneThreadInAdapters`,
  `NeverPopEmpty`), `Convergence` (`AdaptersConverge`). The invariant adds `LockInv`:
  a thread at a label where it must own `_procMutex`, or in the chain, is its holder.
  There is one lemma per kind of step (test, acquire, release, pop, set state) and one
  per method.
* **SyncQueueProofs**: `CallbackAlive` assumes `Guarded`, and `WakeInv` is why: a
  producer between its test of `cancelled` and its post owns the mutex that cancelling
  needs, so no wake-up is pending once the callback has deleted itself.
  `SyncQueueImplementsFifo` proves the refinement of `LossyFifo`; its invariant says
  that the queue is increasing and lies between the packet held and the last pushed.
* **TransactionProofs**: `TransactionCorrect` (`AnsweredOnce`, `FailsOutOfAttempts`)
  with its corollary `FailureCorrect`, and `DeletedIsDetached`. The invariant (`TxInv`): once its delegate has returned, an
  answered transaction is disposed of and neither running nor timed; only cancelled or
  unlucky ones fail with attempts left; what is deleted is disposed of, untimed and,
  over a socket, detached.
* **TurnServerProofs**: `TypeCorrect`, `RelayCorrect` (`QuotaKept`, `NoRelayPastMax`,
  `OnlyPermitted`; the last one again as `PermissionsCorrect`), `PromiseCorrect`
  (`PromiseKept`). `Sound` says of each allocation
  that what was relayed is covered by the usage counted, that permissions were asked
  for, and that what is left of the promised lifetime fits both the lifetime since the
  last update and the maximum since the creation. Each operation on an allocation has
  a lemma.

* **AsyncQueueProofs**: `TypeCorrect`, `PacketsAccounted` (`EveryPacketAccounted`) and
  `OpenIsFifo` (`FifoWhileOpen`, a refinement of `LossyFifo` by every step taken while
  the queue is open). `LockInv`: a thread between its test of `cancelled` and its push
  owns `_procMutex`, so nobody has pushed since it saw room. `OpenInv` says of an open
  queue that it holds increasing numbers after the packet popped (`OrderInv`), and
  that what was purged is nowhere (`AccountInv`). After `close()` neither holds, as
  section 7 says: the properties are about the open queue because the code is.

  The module also holds the other services of `MCServices`. `ManagerCorrect`
  (`ManagedAlive`, TimedManager): what the map holds exists and is mapped once, and
  what a thread holds between its critical sections exists, is not in the map and is no
  other thread's (`TimedInv`). `PeersCorrect` (`PeersDeletedOnce`).
  `CaptureCorrect` (`CaptureSound`): from the return of `stop()` on, a thread still
  running has `_stopping` set and is not between its test and an emission; a `close()`
  that frees the decoders has joined the thread, missed it or been raced by a start;
  the thread tells of its end before the join returns (`CaptureInv`). `MediaCorrect`
  (`WebrtcMediaSound`) has one invariant for each of the audio device module's samples
  and calls, the video source and the recorder, which share no variable.
  `LogCorrect` (`LogFaithful`, LogWriter): everything a writer got is in the output, held
  by the thread or the destructor, queued, cleared or late (`SentRight`), in this order
  because a new message has the highest number and waits behind all others
  (`QueueRight`); the thread has exited when the destructor takes over, and what is
  queued after its last look, or goes to a deleted writer, is late (`ThreadRight`); files later than the
  open one are empty, so a rotation empties nothing (`OpenRight`); and what waits for a
  removed channel was made before the removal (`Meant`).
* **HttpConnectionProofs**: `InvHolds`, and from it `TypeCorrect`, `StreamCorrect`
  (`StreamFaithful`), `CallbacksCorrect` (`CallbacksOrdered`) and `DestructionSafe`
  (`DestroyedWhenIdle`), for any number of sends, any length of a response and every
  way to cut the stream. The invariant has two halves, one per end. `Between` is the
  life of a connection between two steps of its loop: closed with its socket, nothing
  left of a read, deleted only if nobody holds it; `Mid` is the same inside a read,
  where the application may have closed it. `HeadInv` says why the header is written
  first, `CountInv` why a client completes once, `CallsInv` why a responder's calls
  stay ordered. `CliStream` and `SrvStream` explain what an end has still to handle:
  up to two callbacks of the parser, then what the other end wrote up to `read`, the
  last packet perhaps cut (`Shape`); and that the application has been given one
  payload for each packet handled (`GotAll`), which is what makes the next one continue
  the prefix. Neither half is inductive alone: the client's handshake is handled with
  nothing after it only because the server has not answered yet. There is a lemma per
  handler and one per event of a loop. `TlsCorrect` is `TlsSound` of SslSocket: what an
  end writes is its two flights and then its packets in the order they were sent, none
  before the handshake is done (`OutputRight`), and what its peer has read is a run of
  these records, of which the BIO holds the last (`InputRight`).
* **ComponentProofs** holds six components. `TasksCorrect` (`TasksOutliveTheirRun`) and
  `SchedulingCorrect` (`ScheduledRunsSound`) are about TaskRunner and Scheduler;
  `SessionCorrect` is `SessionIsolated` of SympleClient, whose invariant says
  that what is under way on a connection is true of it (`ToldTrue`), and that nothing is
  announced or answered there before the client has read that it is connected
  (`HandshakeFirst`). `TypeCorrect` and `ClientCorrect` are about
  TurnClient (`TurnClientSound`): `Sound` adds that data is queued only while the
  client authorizes, so that nothing overtakes it, until a client has failed with data
  in its queue (`lapsed`). `CollectorCorrect` is `DeletedOnce` of GarbageCollector:
  `OnePlace` extends it to scheduling threads and the running destructor, and
  `GivenInv` says why no destructor schedules what is in a place already: its object is
  given only after it ran, and it runs once. `RelayedInOrder` is `RelayFaithful` of
  TurnTcp. `RelayInv` follows the data of one peer through the relay: each stream is a
  run of numbers that may end with the end of the stream (`Counts`), and it begins
  where what the other end has received stops. From the client (`DownInv`) that is the
  stream to the server, then the one to the peer, then `pgot`; from the peer (`UpInv`)
  the stream to the server, then the early data or the stream to the client, which
  begins with the response, then `got` behind the `l` items lost with it. The chain is
  broken once the allocation is deleted, when data is dropped, so the parts that reach
  back to the sender are stated while it is open. `BirthInv` says in which order peer,
  pair and connection come up, and `BindInv` why a connection is bound once: the
  request is the first thing its client writes, so nothing is in the other direction
  while it is under way. A lemma per handler is about one record; `UpdateKeeps` lifts
  them to all relays.

Beside assumptions that names are distinct and that counts are natural numbers
(`TasksAssumption`, `ClockAssumption`, `TimedAssumption`, `LogAssumption` and those of
the core), these are used: `AsyncQueueAssumption` (the limit is at least 1), `HttpAssumption` (`Eof`, the
length of a response that has none, is not a length), `TurnClientAssumption` (lifetimes
are natural numbers), `CollectorAssumption` (no object has two owners),
`CaptureAssumption` (the owner of a capture is one of its callers) and
`MediaAssumption` (a frame's size is a natural number, times are integers).

Only model-checked:

* the liveness properties (`StopReturns`, `EventuallyDispatched`, `SentIsDeleted`,
  `AllocationEnds`, `UnitsEnd`, `ConnectionsSettle`, `ClientsSettle`, `ServicesEnd`),
  which are beyond the prover;
* `WrittenReadsBack`: that reading inverts writing for every input is an induction over
  the input, and Settings, StunMessage and SympleMessage have recursive operators,
  about which the prover says nothing;
* `LayersSound` and `DeliveredInOrder`: they join components of
  their instance, compare sequences that `SelectSeq` and `FlattenSeq` compute, and have
  no proof yet (section 2).

`RefreshedBeforeExpiry`, `ChainAlive` and `LengthAnnounced` are violated by the code.

## 7. Where the code departs from its documentation

With a run of their own (details in `PROJECT.json`, "findings"):

* the first processor is read under one mutex and used under another: `stream_stale`;
* the lifetime of an Allocate response is not kept (`client.cpp:448`):
  `clients_expiry`;
* the Content-Length of a multipart form is two short (`form.cpp:376`):
  `services_length`.

Seen while modelling, without a run. Where the model reaches it, the property is
stated around it and its comment says so.

**Signal.** Asking a killed slot whether it is alive revives it (`signal.h:357`;
`LateCallsBounded` says how far that goes). Two threads attaching an equal delegate
both keep it, since `attach()` clears duplicates and pushes in two critical sections
(`signal.h:145`); "returns a unique ID" (`signal.h:72`) does not hold for ids chosen
by callers.

**PacketStream.** A delegate that throws inside the chain makes the stream wait for
itself (`packetstream.cpp:371`). `stop()` joins sources under `_procMutex`, and a
source waiting for it never ends (`packetstream.cpp:93`), nor does one that joins
itself (`thread.cpp:51-56`); these are in the model and excused by `StopReturns` as
`Stuck`. `assertCanModify` tests the state before the change (`packetstream.cpp:499`,
against `packetstream.h:227-228`). `detach()` of an owned adapter deletes it
(`packetstream.h:346-347`). `detachSource(PacketSignal&)` leaves it in the list
(`packetstream.cpp:485`).

**Queues.** A dispatch that runs out of its 20 ms leaves packets and posts no further
wake-up (`queue.h:184`), so they wait for the next push. Behind another queue
`process()` is not under `_procMutex`, and a push may reach the deleted callback
(`synchronizer.h:87-97`). The context's thread id is never set, so `cancel()` does not
close the handle (`queue.h:281-283`). `flush()` and the worker may take the same
packet, and closing on Error and again on Closed joins the worker twice
(`packetqueue.h:208-210`).

**Transaction.** A cancelled transaction still fails on its timeout
(`packettransaction.h:101-104`); a socket.io transaction stays attached after its
deletion.

**GarbageCollector.** `deleteLater` between `getCleaner` and its push can leave an
object behind when `finalize` runs (`memory.h:225`, `memory.cpp:127`); a destructor
that schedules under `finalize` waits for the mutex its own thread holds
(`memory.cpp:63`).

**Tasks, threads, capture.** A task destroyed after its cancellation is never deleted;
`~TaskRunner` clears the list while the thread may run a task of it; `destroy()` acts on
what `exists()` said before, without the mutex.
`assert(remove(task))` disappears with NDEBUG (`scheduler.cpp:131`); `maxTimes` is not
saved. A thread's context is never reset, so a looping capture started again after
`stop()` plays once; starting a joinable thread terminates the program; `waitForExit`
returns before a started thread is running, and `stop()` in that window does not
cancel it; `close()` then frees decoders under the thread; `stop()` in a packet's
callback while another caller joins waits for itself.

**Handles.** A request that fails at once is not freed (`request.h`), nor is its
handle. `reset()`, also on the first `bind`, drops without marking it a context made
by the Close callback. The `close()` at the end of `onError` closes a connection
opened in the callback. `_error` is never cleared, so `throwLastError` makes every
later `start` of a timer or `spawn` throw. `kill()` uses the pid of a reaped child.
`Timer::interval()` returns `min(repeat, 0)`; `restart()` of an active one-shot timer
does nothing.

**Dates.** Assigning a `LocalDateTime` a timestamp equal to that of its shifted fields
does nothing, and `timestamp()` is that of the local fields (`datetime.h:1027`,
`datetime.cpp:550-557`); `append(LocalDateTime)` prints UTC fields with the local
offset (`datetime.cpp:964-968`).

**Buffers, texts.** `readNextWord` counts skipped blanks in its length.
`DynamicBitWriter::update` inserts. `BitReader::skip` checks one step only against the
limit. `compareVersion("3.1", "2.5")` is false ("If L is greater than R returns
true"). `split` with a delimiter of several characters keeps its tail. `toUnderscore`
drops its lower-casing, `extname` gives nearly always the whole path, `mkdirr` makes
relative paths at the root. An address of port 0 does not read back; "-1" is port
65535; `operator<` of addresses ignores the host.

**Settings.** `PropertyChanged` is emitted with the mutex held, so a slot that reads
the configuration waits for itself ("This class is safe for multithreaded use").
`load` swallows errors and sets `_loaded`; `save` truncates, then writes; the two
scopes are read under separate locks; `removeAll` throws at the first match;
`getBool("2")` throws ("non zero becomes true").

**Logging, managers.** `setDefault` locks the logger's mutex twice; `setWriter` takes
none, so a message that `write()` queues after the destructor of the old writer has
looked for the last time is lost (`assert(_pending.empty())`, `logger.cpp:216`), and one
that it hands to the deleted writer is lost, written or the end of the program
(`logger.cpp:126-129`). `LogFaithful` calls these messages `late` and speaks of all
others. A message pending at `remove()` is written to the freed channel.
`Logger::write(const LogStream&)` copies a stream whose destructor logs it again. A
refresh after the timer's copy is lost; two additions of one key leak the first item;
a timeout may stay on an address that a new item inherits; `clear()` wipes timeouts of
items added meanwhile (`timedmanager.h`).

**HTTP.** What a callback of Connect sends overtakes the packets buffered
(`client.cpp:127-135`); closing there and then flushing meets an assertion
(`connection.cpp:50`); a connection closed in the Connection signal still gets a
responder (`server.cpp:239-242`); frames read with the upgrade request are dropped,
and a split frame closes the connection; `shutdown` leaves connections open. A URL
split over two reads keeps its last piece (`parser.cpp:173-179`); the last header of a
message comes again in a second one of the same buffer; basic authentication extracts
from the encoded text (`authenticator.cpp:277-280`); chunked output has no last chunk.
A form sent with GET puts its fields into the URI and still writes a body.

**TLS, sockets, packets.** The client hello is not flushed before the first send.
Adding again a receiver that was removed does nothing while its dead entry remains,
and a nested dispatch moves the entries under an outer one
(`socketadapter.cpp:192-193`). `StopPropagation` thrown by a transaction leaves the
packet and its info undeleted and drops the rest of the read; a message cut by a read
is lost; a queued write keeps a pointer to a temporary buffer; `size_t res < 0` is
never true, so a failed `sendPacket` is silent; an assigned `RawPacket` shares its
data with the other.

**STUN.** An 8-bit attribute is not padded, a list of 16-bit values reads nothing, an
unknown attribute's bytes are not skipped, and MESSAGE-INTEGRITY never adjusts the
length.

**TURN server.** "sending data to a peer does not refresh an allocation"
(`iallocation.h:69-70`), but `updateUsage` does, and revives an expired one that the
timer has not collected. A Refresh response carries the desired lifetime, not "the
current value of the time-to-expiry timer" (`serverallocation.cpp:110`), which the
maximum since the creation may cut short. The 5-tuple "MUST be unique"
(`iallocation.h:49-51`), but the map tells apart ports only (`fivetuple.cpp:53`), so a
second client with the same port is refused an allocation and its requests reach the
first's. An indication without an allocation is answered with 437 where the comment
says "silently ignored" (`server.cpp:252-254`). "Permission Lifetime MUST be 300
seconds" (`permission.h:28`), but the constant is 180000 ticks of `clock()`, a time
that stands still while the process sleeps. A refresh with lifetime 0 uses the
allocation after deleting it (`serverallocation.cpp:99`). Erasing from the vector of
`SocketEmitter`s leaves its last socket unheard (`server.cpp:198-201`).
`doPeerConnect` uses a client socket the pair does not have yet
(`tcpconnectionpair.cpp:78`), and failures are sent as success responses.

**TURN client.** `onAllocationFailed` is never called, permissions are not refreshed,
a late response revives or fails a client, a retransmitted Allocate is answered 437,
and `shutdown` does not tell the server. Data read together with the ConnectionBind
response is lost, the limit of early data is only warned about
(`tcpconnectionpair.cpp:192-198`), and one bind that times out fails the whole client.

**socket.io, Symple.** `_reconnecting` is uninitialised (both values are initial
states), `reconnectAttempts` is never read (`client.h:73-75`), the ping timeout does
nothing, `close()` without a session is ignored, a Close frame leaves the state
Online, a stale announce timeout tears down a later connection, and rooms are
forgotten. A packet with a namespace cannot be read (`packet.cpp:137-143`). Growing a
form moves its elements under the pointers of older ones (`form.cpp:168-192`),
`json::hasNestedKey` recurses without end (`json.h:112-122`), and `getField` finds
only an element whose id is "id" (`json.h:146`).

**Media, WebRTC.** The streams of an encoder share one `_pts`; `flush` drops less than
a frame of audio, and more if the codec keeps two or more frames back, since
`flushBuffer` stops at the first frame for which it gets nothing; a codec that fails in
`flush()` leaves the encoder Ready without its trailer, and the destructor does not
flush. The header is written before the state is Ready, so in streaming mode
`dispatchOutputPacket` drops it (`multiplexencoder.cpp:62-66`, 143, 151). An audio codec closed before its
`create()` has succeeded passes an uninitialised pointer to `avcodec_close`; the fifo
is made in the requested sample format; formats changed after `open()` are not
followed; emitted packets of video are never released. `PointerCollection::clear`
deletes peers with its mutex held, and they remove themselves; the callbacks of a
description may come after the peer's deletion. The audio fifo is not reset between
recordings; the first frames of two tracks may initialise the recorder twice.

## 8. Not modelled

Application, platform and random; enumeration of media devices and descriptions of
formats; cryptography and archives: wrappers of other libraries without protocol
state. Diagnostics and the rate limiter: no part of the library uses them. The Connect
request of TURN, whose handler crashes at once. ChannelBind, which the code does not
implement. The realtime packet queue of `av` and its deprecated sources. What FFmpeg,
OpenSSL, WebRTC, libuv, http_parser and nlohmann::json do inside: they are external,
and modelled by what the code here can see of them. Samples and tests of the
repository exercise the library and keep no state of their own.

Of the modelled components, left out are: copying a Signal, the destructor of
PacketStream and its `synchronizeOutput`, the plain Queue container, several event
loops with a cleaner each, `SharedObject`'s counts, signal handlers, IPC pipes, socket
options, contexts and sessions of TLS, keep-alive timers of the HTTP server, and the
text forms of values.

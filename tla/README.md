# A TLA+ model of caduvelox

caduvelox is an HTTP/HTTPS server built on io_uring. Every core runs one ring: a
thread that submits operations (accept, recv, write, splice, timeout, cancel) and
handles their completions one after the other, each in a *job* object taken from a
thread-local pool. Nothing is locked inside a ring; what makes the code hard is that
an object is referred to by operations that are still in the kernel, that operations
can be refused, cancelled late or complete after their owner is gone, and that a
foreign thread can stop the server at any time.

This directory holds TLA+ modules that model those parts, TLC configurations that
check them on small instances, and TLAPS proofs of the main invariants.

## 1. The system

| Part | Source | State | Operations |
|---|---|---|---|
| HTTP connection | `SingleRingHttpServer.cpp` (`HttpConnectionJob`), `HttpConnectionRecvHandler.cpp` | descriptor (current or deferred), request buffer, response slot, close flag, tracked recv and timer, their cancel flags | start, data received, read error, response complete or failed, idle timeout, close |
| Multishot recv | `MultishotRecvJob.hpp` | descriptor, owner and its generation | completion with or without `F_MORE`, re-arm, shutdown cancel |
| Idle timer, cancel | `IdleTimeoutJob.cpp`, `CancelJob.hpp` | owner and its generation | expire, be cancelled |
| Write | `WriteJob.cpp` | bytes written, captured owner | short write, resubmit, abandon, complete, fail |
| Pools | `ThreadLocalPool.hpp`, `PoolManager.hpp` | free list, live flags, generations | allocate, deallocate, isLive, sweep |
| Accept | `AcceptJob.cpp`, `SingleRingHttpServer.cpp` | armed accepts, the tracked one | connection, error, re-arm, cancel |
| Ring | `Server.cpp` | event loop, in-flight count, stop signal | run, stop, sweep, drain |
| Rings and server | `ServiceRing.cpp`, `HttpServer.cpp` | shared state, running flags, threads | listen, run, stop, join |
| File transfer | `HTTPFileJob.cpp`, `SpliceFileJob.cpp` | file, range, pipe contents, bytes sent | headers, linked splice, drain, errors |
| kTLS handshake | `KTLSJob.cpp` | handshake step, poll, timeout | step, ready, timeout, fail |
| Buffer ring | `BufferRingCoordinator.cpp`, `ProvidedBufferToken.hpp` | buffers owned by kernel or handler | select, recycle |
| Logger | `AsyncLogger.cpp`, `MPMCRingBuffer.hpp`, `NotifyingRingBuffer.hpp` | slots and sequences, waiting consumer, drop count | enqueue, dequeue, shut down |
| Pure functions | `HttpParser.cpp`, `HttpRouter.cpp`, `UrlDecode.cpp`, `RangeRequest.cpp`, `HttpResponseWriter.cpp` | none | parse, dispatch, decode, resolve a range, write a head |

How they interact: an accept completion hands a descriptor to the kTLS handshake or
straight to a new connection; the connection arms one recv and one idle timer, and
answers one request at a time with a write or a file transfer; each of those calls
the connection back. Recv and timer validate the connection's pool generation before
they touch it; response jobs do not, and rely on the connection outliving them. Stop
flips a shared state, signals every ring through an event descriptor, and the ring
then cancels what is idle once and drains until nothing is in flight.

PROJECT.json lists the hazards of this code, each at the line where it bites.

## 2. Modules

| Module | Contents |
|---|---|
| `HttpConnection` | all connections of one ring, with their recv, timer and response jobs, and stop and sweep as a connection sees them |
| `HttpConnectionClose` | the inductive invariant, the frame lemma, closing |
| `HttpConnectionRespond` | lemmas on timers, responses and request processing |
| `HttpConnectionRead` | lemmas on reading, on constructing a connection and on freeing jobs |
| `HttpConnectionProofs` | one lemma per action, and the theorems |
| `MCHttpConnection` | constants and symmetry for TLC |
| `ServerLifecycle` | the threads that run and stop the rings, each ring's event loop, accept, sweep and drain |
| `MCServerLifecycle` | constants and symmetry for TLC |
| `FileResponse` | what a connection relies on when it answers with a file |
| `FileTransfer` | `HTTPFileJob` and `SpliceFileJob` with the kernel's pipe and splices; implements `FileResponse` |
| `MCFileTransfer` | requests and file sizes for TLC |
| `KTLSHandshake` | `KTLSJob` with its polls and linked timeouts |
| `KTLSHandshakeProofs`, `MCKTLSHandshake` | its theorems; the module TLC runs |
| `MPMCRingBuffer` | the lock-free queue, one access to shared memory a step |
| `AsyncLogger` | `AsyncLogger` and `NotifyingRingBuffer` on top of that queue |
| `MPMCRingBufferProofs`, `AsyncLoggerProofs`, `MCAsyncLogger` | their theorems; the module TLC runs |
| `ThreadLocalPool` | a pool with its intrusive free list and generations, as operators |
| `RecvBuffers` | the receive path of one ring: both pools, recv jobs, queued completions, the buffer ring |
| `RecvBuffersProofs`, `MCRecvBuffers` | its theorems; the module TLC runs |
| `HttpText` | the few operations on text that the HTTP code uses |
| `HttpParser`, `UrlDecode`, `RangeRequest`, `HttpRouter`, `HttpResponseWriter` | the pure functions of the files of those names |
| `RequestPipeline` | a connection's way from bytes to responses, composed of those functions |
| `MCRequestPipeline` | streams, routes and handlers for TLC |

The split of the connection's proofs into four modules follows the code (closing,
responding, reading, actions); it also keeps each of them small enough for the provers.

### HttpConnection

*State.* `conn`, `recv`, `timer` and `write` map the slots of the four pools to the
job in them. A slot of `conn` keeps its generation when it is free. `fdOwner` says
which connection a descriptor is open for, `wire` what the client of a descriptor has
received last, `server` is the shared `ServerState` and `swept` whether this ring's
shutdown sweep has run. Fields keep the names of the members they stand for
(`client_fd`, `deferred_close_fd`, `close_pending`, `read_cancel_pending`, ...;
`in_flight` is `response_in_flight_`, `active_read` is `active_read_job_`,
`active_idle` is `active_idle_timeout_job_`). `responses` and `input` count, for the
properties and the bounds only, the responses started and the symbols received.

*Steps.* A step is the handling of one completion, with everything the handler calls,
which is atomic on a ring thread. A kernel operation needs no state besides whether
its cancel has been submitted: an armed one may deliver any result it can have at any
time; a cancelled one may still deliver a result that raced the cancel, but owes a
last one. So every order of completions is explored.

*Handlers are sets.* A job allocation or an SQE request can be refused whenever it is
made, and one handler makes several. A handler is therefore an operator from a state
to the set of states it may leave, and calls compose by union: `handleDataReceived`
uses `processHttpRequests` on every state that the timer cancel may leave, which uses
`sendResponse`, which may end in `closeConnection`, which submits up to two cancels.

| Action | Code |
|---|---|
| `NewConnection` | `handleNewConnection`, `createConnectionHandler`, the constructor, `start`, `startReading`, `armIdleTimeout` |
| `RecvData` | `MultishotRecvJob::handleCompletion` with data, `handleDataReceived`, then `shouldRearmRecv`, `rearm` or `onError` when the multishot ended |
| `RecvError` | the same with EOF, an error or an unusable buffer, `handleReadError` |
| `TimerCompletion` | `IdleTimeoutJob::handleCompletion`, `handleIdleTimeout` |
| `WritePartial`, `WriteComplete`, `WriteError` | `WriteJob::handleCompletion` with `submitWrite` and `abandon`, `onResponseComplete` and the error callback |
| `Stop`, `Settle`, `Sweep` | `Server::stop`, the last store of `HttpServer::stop`, the sweep function installed by `installRingLocalHooks` |

*Data.* The request stream is a sequence of four symbols, the cases the parser's answer
tells apart: part of a request, the end of a request that keeps the connection, the end
of one that closes it, and a malformed one. A response is written in `Pieces` pieces. A
file transfer is, for its connection, a response that completes or fails.

*What is assumed of the kernel.* `ErrorMore` says whether a failed recv completion may
still carry `IORING_CQE_F_MORE`. The code handles that case ("Rare: an error CQE that
does not end the multishot"), kernels do not produce it. The inductive invariant, and so
every theorem, covers it; `WireInOrder` and `NeverStranded` are checked without it.

### ServerLifecycle

*State.* `state` is `HttpServer::state_`, which every ring reads; `pc` says where the
owner's thread and the threads that call `stop` are; `ring` maps each ring to its
`ServiceRing`, `Server` and `SingleRingHttpServer` members, its thread, its stop signal,
its AcceptJob slots and counts of what else is in flight.

*Steps.* Threads interleave at every access to what they share, so `HttpServer::stop` is
one action per access (`StopCas`, `StopHttp`, `StopClose`, `StopLoad`, `StopStore`,
`StopSignalRing`, `StopCheck`, `StopSettle`), and so are `run` and the destructor
(`Run`, `StartRing`, `JoinRing`, `RunReturns`). A ring thread handles a completion in one
step, except for an accept that failed or ended, whose handler reads the shared state up to
three times (`AcceptError`, `AcceptOnError`, `ResubmitAccept`). `running_` and `server_fd_`
of `SingleRingHttpServer` are plain members that `stop` writes while the ring thread reads
them; the model gives each its own step, so the reader sees the old or the new value.

*Kernel.* A multishot accept that is armed stays armed when its descriptor is closed, and
ends when it is cancelled; one that is submitted on a closed descriptor fails. A connection
is one operation in flight here.

### FileTransfer

*State.* `http` and `splice` are the two jobs, `pipe` the bytes in the pipe (each is the
offset it was read from), `ops` the splices the kernel has not run, `cq` their results,
`wire` what the client's socket took, `disk` the size of the file now.

*Steps.* `Start` is `HTTPFileJob::start` with `openFile`, `startSendingHeaders` and
`sendError`; `HeadersSent` is `startSendingFile`; `HandleCompletion` is the handler of a
splice, with one operator per branch (`Cancelled`, `Again`, `Failed`, `FromFile`,
`ToSocket`). A completion does not say which of the two linked splices it is of, and the
model does not tell the handler either: it infers it, as the code does, from its own state.

*Kernel.* `RunFileLeg`, `RunSocketLeg` and `OpFails` run the splice at the head of the chain.
A pipe has `PipeSlots` slots of one page or part of a page; a short splice cancels its partner
or, when the constant `Severs` has `FALSE`, does not; a splice to an empty pipe waits while its
write end is open.

*Refinement.* `ImplementsFileResponse` maps the length of the head, the number of bytes on the
wire and the outcome to `FileResponse`: a response is complete only when the client has an
error reply, or a head and all the bytes it promised. `HttpConnection` relies on exactly that.

### KTLSHandshake

*State.* `job` has the members of `KTLSJob` that decide anything, and who has the descriptor;
`armed` is what is in the kernel, `cq` the completions that wait, in order.

*Steps.* `HandleNewConnection` is the code of that name with `prepareSqe`;
`HandleCompletion` is `KTLSJob::handleCompletion` with `performHandshakeStep`,
`submitPollOperation` and both callbacks. `SSL_accept` may succeed, fail or have to wait.

*Kernel.* A poll that is ready completes before its timeout is cancelled. A timeout that
expires cancels the poll, and the two completions come in either order; or it is too late,
and reports an error beside the readiness. `prepareSqe` runs `on_success_`, which submits the
ring, before it has written its NOP; the model takes the NOP for what the kernel sees (this
needs a peer that answers within the first `SSL_accept`; it is listed as a hazard).

### MPMCRingBuffer and AsyncLogger

*State.* `head_`, `tail_`, `sequence` and `data` are the queue; `pc`, `pos` and `item` say where a
thread is in `enqueue` or `dequeue` and what its locals hold. `caller`, `worker` and `dtor` say
where producers are in `enqueueLogMessage`, the worker in `workerThreadFunc` and `dequeue`, and the
destructor. `claims`, `entered`, `output`, `reported` and `overlap` are history for the properties.

*Steps.* Every load, compare-exchange and store of the queue is one (`EnqLoad`, `EnqCheck`, `EnqClaim`,
`EnqWrite`, `EnqPublish`, and the same for `dequeue`), so a thread can stall between any two of them
while the ring goes round. A producer decides whether to signal after it has published
(`wakeIfWorthIt`); the worker parks until a token or a bounded time (`ParkSignalled`, `ParkTimesOut`)
and looks again; the destructor clears `fRunning`, sets `shutdown_`, signals and joins, each a step.
`Join` waits for callers to be out, which the code leaves to the logger's owner and says so.

*Memory order.* Accesses take effect in one global order. The relaxed loads are of positions that a
later compare-exchange confirms. Positions do not wrap (64 bits).

### ThreadLocalPool and RecvBuffers

*State.* A pool is a record of the class's members. `next` shares its storage with the object: what a
live slot holds there is `Storage`. `tenant`, `allocs` and `order` are history. `RecvBuffers` has the
pool of connections and the pool of recv jobs, what each recv job's handler knows of its connection
(slot and generation), which jobs are armed, the entries of the buffer ring with its 16-bit tail and
the kernel's head, and the completions that wait.

*Steps.* The kernel posts a completion with or without a buffer (`PostData`, `PostError`), with or
without `IORING_CQE_F_MORE`. `handleCompletion` takes the first and has one operator per way through
the code: an error that does or does not end the multishot, data that goes on, ends or re-arms. In each
the buffer's token recycles its buffer, and the connection, when the handle is valid, may be closed by
its handler. `createConnectionHandler` and `Close` open and close connections between completions.
When a connection closes is `HttpConnection`'s subject; here it may close whenever the thread runs.

### RequestPipeline and the pure functions

*Text.* Values that the code takes apart (ranges, lengths, paths, `Connection` lists) are sequences
of ASCII codes; a word that is only compared with a fixed one is one code. A request buffer is a sequence of
symbols of length one: a line end, a request line, a field line, malformed text. `Word` and `SizeWord`
stand for 2^64, small enough that numbers overflow.

*Steps.* `handleDataReceived` appends a piece of any length of what the client sends, applies the
size limit and runs `processHttpRequests`: parse, `handleHttpRequest`, route, `sendResponse`.
`onResponseComplete` ends a response and goes on with what is buffered. A write may fail, a pool may be
exhausted, the server may begin to stop. Handlers are sets of responses, headers in any spelling
included, which may throw; files may be missing, empty or not.

*References.* The properties do not use the modelled functions to judge them: `FramedAsSent` has its own
grammar of a stream, `RangeServed` its own reading of a `Range` text as a set of byte positions,
`RoutedAsMeant` its own recursive definition of what a segment stands for.

## 3. Runs

All runs say `CHECK_DEADLOCK FALSE`: the bounds on incarnations and input end every
behaviour, a server with no client may stop, and a stopped server, a response that was
reported and a job that was freed do nothing more.

| Run | Instance | Shows |
|---|---|---|
| `conn_deep` | 1 connection slot used twice, 2 recvs, 2 timers, 2 writes, 2 descriptors, 2 pieces, 3 symbols | the safety invariants and `StaleCompletionIgnored` |
| `conn_liveness` | 1 incarnation, 1 recv, 2 timers, 2 writes, 2 symbols, fairness | `ClosingEnds`, `IdleEnds` |
| `server_one_ring` | 1 ring, 2 threads that stop, 2 accept jobs, 2 connections, 2 errors, refusals | the in-flight count is exact, a ring that exited left nothing in the kernel, `accept_job_` names a live job |
| `server_rings` | 2 rings, 1 thread that stops, fairness | a stop reaches every ring, none outlives the server, every stop ends |
| `server_drain_ends` | 1 ring with a connection and a fatal accept error, fairness | the drain ends |
| `file_transfer` | files of 0, 1, 5 and 9 bytes, chunks of 4, pages of 2, six requests, all faults, fairness | the range in order, one outcome, the refinement, and every response ends |
| `ktls_handshake` | 3 waits, refusals, a stop, fairness | the count is exact, the descriptor is given away once, a silent peer does not hold a handshake whose timeout was submitted |
| `async_logger` | 2 producers, a queue of 2, 3 messages, watermark 2, a destructor, fairness | one user per slot, lines whole and in claim order, nothing lost uncounted, every message written, the destructor ends |
| `recv_buffers` | 2 connection slots, 2 recv slots, 2 buffers, counters modulo 4, 4 connections, 3 waiting completions | free lists and handles exact, jobs outlive their completions, buffers conserved |
| `request_pipeline` | about 1,700 streams of one to three requests, cut anywhere; 20 responses of handlers; 3 file sizes | requests framed as sent, responses framed as announced, persistence as told, ranges and paths as meant, the buffer within its limit |
| `stop_hangs` | expected violation | two armed accepts after EMFILE |
| `unaligned_range` | expected violation | a range inside a page fails without a fault |

*Bounds of the connection.* `MaxGen` is the number of incarnations of a slot: two is the least with which a
job of a dead connection meets its slot recycled. `MaxInput` is the number of symbols one
incarnation receives: three allows a pipelined request behind a response, and a request
longer than `MaxRequestSize`. Two slots per pool let an old recv, timer or write coexist
with its successor, and let a pool be exhausted. `Pieces = 2` gives one short write.
`Exhaustion = TRUE` lets every allocation and every SQE request fail.

*Bounds of the server.* Two accept jobs are the least with which one replaces another;
`MaxErrors = 2` lets an error follow the recovery from one; two rings are the least with
which a stop can come between the starts of two. *Of a file:* a chunk of two pages and a
pipe of two slots keep the ratios of the code (64 KiB, 16 pages of 4 KiB) that matter: an
aligned chunk fills the pipe exactly. Nine bytes are three chunks, the last one short.
`MaxAgain` bounds retries. *Of a handshake:* `MaxSteps = 3` lets the last completion of one
pair meet the next pair, and that one's meet a third.

*Bounds of the logger.* Three messages in a queue of two go round it and meet it full; two producers are
the least that publish out of order. A watermark of 2 is reached by some batches and not by others.
*Of the receive path:* four connections over two slots recycle both, twice in a row for one; counters
modulo 4 over a ring of 2 wrap and are larger than the ring, as 2^16 is. Three waiting completions are one
more than there are buffers. *Of the pipeline:* three requests are the least with which one waits behind
a response and another behind it; lengths from 0 to two digits overflow `Word` = 16 and `SizeWord` = 32 and
sit on both sides of the limit 10; paths are of up to three pieces, each a plain character, an escape of a
dot, a slash, a percent sign or a control character, or a broken escape; `MAX_ROUTABLE_PATH` = 8 is
exceeded by some.

*Fairness of the connection* is assumed of the kernel only: an operation whose cancel it
was given ends, a timer expires, a write completes or fails. Nothing is assumed of a recv
that is merely armed, since no peer has to send. *Of the server:* threads run; a completion
that is due is handled; a cancelled or failing accept and a cancelled connection end; a
connection that no sweep cancelled ends by its idle timer, or, when its client has sent half
a request and no timer is armed, by that client (an assumption on clients, which the code
does not enforce). Nothing is assumed of an accept that was not cancelled. *Of a file:* the kernel runs
what was submitted, and the client reads or leaves. *Of a handshake:* completions are handled
and a timeout expires; a peer need not send. *Of the logger:* each thread runs, and a park ends, as
`try_acquire_for` does; nobody has to log. `Spurious` is `FALSE` there: `compare_exchange_weak` of the
x86-64 build fails only when another thread has moved the position.

## 4. Proofs

`HttpConnectionProofs` proves, for every number of slots, every set of chunks and every
pattern of refusals:

| Theorem | Statement |
|---|---|
| `Invariance` | `Spec => []IndInv` |
| `TypeCorrect` | `Spec => []TypeOK` |
| `ResponseOwnerHolds` | `Spec => []ResponseOwner` |
| `OneResponseHolds` | `Spec => []OneResponse` |
| `DescriptorOwnerHolds` | `Spec => []DescriptorOwner` |
| `JobsTrackedHolds` | `Spec => []JobsTracked` |
| `OneRecvHolds` | `Spec => []OneRecv` |

from the assumptions `JobsAssumption` (a null pointer is no slot), `ChunksAssumption`
(a recv completion carries at least one symbol) and `BoundsAssumption`.

*Argument.* No property above is inductive. `IndInv` is `TypeOK` and, for every
connection slot, five groups: `ConnInv` (how the fields of a connection constrain each
other; a live one has its descriptor in exactly one of `client_fd_` and
`deferred_close_fd_`, the latter only once it is closing), `FdInv` (its
descriptor), `ResponseInv` (its response slot and its response job), `ReadInv` and
`IdleInv` (the tracked recv and the tracked timer are live jobs of this incarnation; every
other live recv that names the slot belongs to an earlier generation, unless the connection
tracks none). The last part is what makes generations work: a recv is never younger than its
slot. Each group mentions one connection and the jobs that name
it, so a handler of connection `c` preserves the groups of all others by one frame lemma
(`FrameGood`: a handler touches no job of another connection except to leave its owner,
generation and descriptor alone), and only the groups of `c` are argued per operation.
Handlers being sets, each operation has a lemma of the form "every state it may leave
from a good state is good", and an action is then a composition of these lemmas.

`KTLSHandshakeProofs` proves `PendingExactHolds`, `OneOwnerHolds` and `GivenAwayHolds` (with
`Invariance` of its own `IndInv`) for every number of steps, from its `BoundsAssumption`. An
exact count is not inductive: a second pair must not be submitted while a readiness of an
earlier one still waits, or the count would be right and the pair lost. `QueueInv` adds that at
most one readiness waits, none while something is armed, and that the NOP comes alone.

`MPMCRingBufferProofs` proves `RingExclusive` (`SlotsExclusive`: no slot is filled by two threads, emptied by
two, or filled and emptied at once) for every capacity of at least 2, any producers and consumers, and with
spurious failures of the compare-exchange, from `RingAssumption`. `RingInv` says of every slot which position
it stands for: a position from `tail_` to `head_` that nobody is filling has its item in its slot, with the
next sequence number (`Ready`); one of the `Size` positions after `tail_` that is not claimed yet, and whose slot
nobody is emptying, has a slot with its own number (`Free`); a thread between claim and publication is the
only one with its position (`Fillers`, `Emptiers`); and what a thread has checked is still true when its claim
can succeed (`Claimers`). That two positions
less than a round apart use different slots is `SlotGap`, from integer division.

`AsyncLoggerProofs` proves `LoggerExclusive`, `LoggerOrder` and `LoggerLosesNothing` for any producers, queue size,
watermark and number of messages. Every step of the logger is a step of the queue or leaves it alone, so `RingInv`
carries over; `OutputInv` ties the output to the worker's position, `CountInv` says that every call that
entered is undecided, has a position, or was counted as dropped, and `ShutdownInv` that the drain is left only
with the queue empty, if nobody was inside a call when the destructor began.

`RecvBuffersProofs` proves `RecvPools`, `RecvHandles`, `RecvJobs` and `RecvConserves` for every size of the two pools
and of the buffer ring, from `BufferAssumption` (the ring's size divides the modulus of its counters and is
less). `RecvInv` has one group for each property. `PoolOK` says that the free list is the sequence `order`,
without repetition, linked by `next` and made of the slots that are not live; it holds of a pool whatever
else the system does, so `allocate` and `deallocate` are argued once. Only `Handles` is
stronger than its property: the stored generation is never ahead of its slot's, nor the tenant ahead of the
number of allocations, which is what makes the next tenant a new one. `Jobs` is `JobOutlivesCompletions` over the
members it mentions. `Conserved` counts entries from the
head instead of by their index: the k-th untaken entry stays the same one when the tail wraps, and recycling
finds room because there are no more buffers than entries (a pigeonhole argument).

*Only model-checked:* `NeverStranded`, `WireInOrder`, `StaleCompletionIgnored`, everything of
`ServerLifecycle`, `FileTransfer` and `RequestPipeline`, the refinement, and all liveness properties. Liveness
under fairness is out of the prover's reach, and so is what a fold or a recursive definition computes for
every input, which is what the properties of `RequestPipeline` are about. `TypeOK` of `HttpConnection` and
`KTLSHandshake` is part of their inductive invariants, those of the logger and of the receive path are in
`RingInv`, `LoggerInv` and `RecvInv`; `TypeOK` of `ServerLifecycle` and `FileTransfer` documents their variables.

## 5. Findings

Two runs are expected to be violated. Each states what a comment or a doc of the repository
says; PROJECT.json quotes the line.

* `StopCompletes` (`stop_hangs`): on EMFILE the error callback arms a second accept job and the
  first resubmits itself; the sweep cancels the tracked one, and the drain waits for the other.
* `FailureHasCause` (`unaligned_range`): a chunk that starts inside a page does not fit the pipe;
  the short splice cancels its partner, which is taken for an error.

More observations are steps of the models and have no run of their own:

* Data has arrived and the timer's cancel was submitted, but the timer had already expired;
  `handleIdleTimeout` does not look at `idle_cancel_pending_` and closes.
* `startReading` returns without a recv when its pool or the submission queue is exhausted, and
  leaves the connection with nothing to call it back.
* The sweep runs once, an accept completion behind it still creates a connection, and its recv is
  cancelled by nothing.
* `ServiceRing::stop` clears `running_` before its thread has drained, so `HttpServer::stop` stores
  `Stopped` while rings unwind.
* A stop between the two reads of the state in an accept's completion leaves a job that is neither
  resubmitted nor freed, which the comment at `AcceptJob.cpp:163` asks the callers to do.
* A handshake that completes when nothing else is in flight (its first `SSL_accept` succeeded, or its last
  poll had no timeout) leaves its job out of the pool: `KTLSJob.cpp:322` frees only on the other path.
* An application's offset equal to the size is answered 206 with an empty range.
* A recv that finds no provided buffer ends with `-ENOBUFS`, and the connection is closed like one with
  any other error.
* A producer that stalls between claim and publication while the destructor runs makes the drain stop at its
  slot; messages behind it are not written. `NothingLost` therefore excludes that overlap, as the comment at
  `AsyncLogger.cpp:121` does.
* The comment at `AsyncLogger.cpp:142` says that overflow is written synchronously; the code counts and
  drops, which is what the model does.
* The `static_assert` of `MPMCRingBuffer` accepts a size of 1, with which a published slot looks free. No
  instance has it, and `RingAssumption` excludes it.
* A handler that throws after `sendFile` leaves its file name set: the file is sent instead of the 500.
* A head without its end is limited in total without counting line ends, so a head of the largest legal
  size is accepted in one piece and refused in several.
* The fallback answer to a refused head does not say `connection: keep-alive` to an HTTP/1.0 client whose
  connection is kept.

## 6. Not modelled, and the plan

1. Theorems for `NeverStranded`, `WireInOrder` and `StaleCompletionIgnored`; for the in-flight
   count of `ServerLifecycle`; for `FileTransfer`, that it implements `FileResponse`.
2. `RecvBuffers` and `HttpConnection` share the recv job and the pools and are two models of them: the first
   lets a connection close at any time, which includes what the second does. A refinement between the two is
   not stated.
3. `std::regex` (a route is a prefix here), query parameters, MIME types and dates: data that no property
   tells apart. `HEAD` is not special in the code either.
4. Setting up rings, sockets, the buffer ring's memory and the TLS context: their failures end the
   constructor, before there is a state to speak of.
5. `io_uring` itself, beyond what each module says of it under *Kernel*.

The worker pool, the SPSC queue and the job transaction are not used by the server; the
synchronous loggers are pure output; configuration is constants; the example programs are users of
the library.

# Connect for ECMAScript in TLA+

Specifications of this repository: a call from its client to the implementation
of the method and back, the runtime of Node.js under it on both sides, the
router, and the migration tool. Each is checked with TLC on small instances;
every safety property that a run finds to hold is also proved with TLAPS, for all
instances.

Paths below are relative to `packages/`. These are abbreviated:
`sm.ts` is `connect-node/src/http2-session-manager.ts`, `ai.ts`
`connect/src/protocol/async-iterable.ts`, `nuc.ts` and `nuh.ts`
`connect-node/src/node-universal-client.ts` and `-handler.ts`.

    tlc -workers 2 -config rpc.cfg MCRpc                  # a run
    tlapm ClientCallProofs.tla                            # the proofs of a module

## The system

A client method (`promise-client.ts`, `callback-client.ts`) calls a transport
(`protocol-connect`, `protocol-grpc`, `protocol-grpc-web`, and those of
`connect-web`), which runs the call under a signal (`run-call.ts`, `signals.ts`),
turns messages into enveloped bytes through a pipe of async generators (`ai.ts`,
`envelope.ts`) and hands them to a universal HTTP client: `fetch()`, or Node.js
(`nuc.ts`), which for HTTP/2 asks a session manager (`sm.ts`) for a stream. On the
server an adapter finds the handler of a path in the table of the router and hands
it the request (`handler-factory.ts` of each protocol); the handler invokes the
implementation and returns an iterable that `nuh.ts` writes to the response.

| component | state | operations | what makes it hard | what makes it correct |
|---|---|---|---|---|
| HTTP/2 session manager, `sm.ts` | the state object (closed, connecting, verifying, ready, error), connections shutting down; per connection a stream count, timers, listeners, hooks | `connect`, `request`, `abort`, `notifyResponseByteRead`; events of sessions and streams; timers | a state left behind still has promises, listeners and timers; several callers share one promise | exact stream count, only the current connection decides, no caller lost, streams are watched, idle connections close |
| writable iterable, `ai.ts` | queues of reads and payloads, the promise for the next read | `write`, `close`, `next`, `throw`, `return` | promises settled by the other side, counted by a loop | FIFO delivery, a write resolves once its payload was taken |
| Node.js HTTP clients, `nuc.ts` | the sentinel, request and response iterators | `h1Request`, `h2Request`, `sinkRequest`, `next` | four sources race to settle the sentinel | success means that the response was read, streams are closed |
| call signals, `run-call.ts`, `signals.ts` | deadline timer, linked controller, flag for done | `setupSignal`, `abort`, `done` | deadline against result | the deadline is reported, and bounds the call; the request iterable is released |
| envelopes and body readers, `envelope.ts`, `ai.ts` | byte buffer, header | split, join, read all | chunk boundaries, truncated input, limits | what was written is what is read, bounded memory |
| serialization, compression | none | serialize, compress, limits | several limits that meet | errors and limits on both sides |
| pipes and abortable iterables, `ai.ts` | pending `next()`, abort state | `pipe`, `abort` | an abort that meets a pending read | the source hears of the end |
| client transports, validation, trailers | end-of-stream flag, trailers | `unary`, `stream` | truncated or repeated ends, foreign servers | a truncated response is never a success, an error is never lost |
| server handlers | handler context and its signal | `handle` | early errors, several messages where one is due, foreign clients | one end of stream, the implementation gets what was sent |
| Node.js response writer, `nuh.ts` | listeners per write | `write`, `universalResponseToNodeResponse` | drain, error and callback | what is on the wire is complete; nobody stays suspended |
| negotiation, timeouts, codes, statuses, headers | none | pure | partial tables, boundaries | both sides agree |
| clients | none | wrappers of a transport | callbacks against cancellation | the caller is told once |
| router, adapters | tables built once, a request per adapter | registration, look-up | options spread over options | the right implementation answers |
| fetch handler and client | none | conversions | | |
| `connect-migrate` | the project on disk | scan, manifests, sources, lock files | it stops half way, and is run again | a run that ends well left nothing half migrated |
| `protoc-gen-connect-es` | none | prints source text | | |

`PROJECT.json` lists the sources of each, what is modelled, and the hazards.

## Modules

| module | what it is |
|---|---|
| `Codes` | codes, HTTP statuses, reset codes, errors of Node.js |
| `Metadata` | header fields, errors as JSON, the end of a Connect stream, trailers |
| `Negotiation` | content types, timeouts, compression, protocol version, GET requests |
| `Handler` | the server's side of a call |
| `Transport` | the client's side, flavours "node" and "web" |
| `CallContract` | what a call promises its caller |
| `Rpc`, `MCRpc`, `RpcProofs` | both sides, the connection and its loss, and either side against any other peer |
| `NodeClient`, `ClientCall`, `MCClientCall`, `ClientCallProofs` | a call in the runtime of Node.js, from the signals of the call to the HTTP stream |
| `ServerResponse`, `ServerResponseProofs` | a streaming response in the runtime of Node.js, from the implementation to the wire |
| `Codec`, `Bodies`, `MCBodies`, `BodiesProofs` | messages and envelopes as bytes, and the readers of chunks |
| `Http2Session`, `MCHttp2Session`, `Http2SessionProofs` | the session manager with the sessions, streams and timers of Node.js |
| `FifoChannel`, `WritableIterable`, `WritableIterableProofs` | the writable iterable and what it promises |
| `Router`, `MCRouter`, `RouterProofs` | registrations, table of paths, adapters |
| `Migrate`, `MCMigrate`, `MigrateProofs` | the migration tool |

`MC` modules have the sets the runs use. `Handler` EXTENDS `Negotiation`, that
`Metadata` and `Codes`; `Transport` EXTENDS `Handler`, and `Rpc` composes the two.
`ClientCall`, `ServerResponse` and `Bodies` are the same call one level down: what
`Rpc` does in a step (a message is read, a call fails, a body ends) is there a race
of callbacks, and what the messages say, which `Rpc` has, is left out.

Definitions whose comment begins with "Variant" are faulty forms of the definition
that follows them. No specification uses them; `PROJECT.json` names, for each
property, a variant that breaks it.

### One call: `Handler`, `Transport`, `Rpc`, `CallContract`

*State.* `call` is the request head and the options of the server, `peer` the
client with its options; `up` and `down` are the bodies in flight, sequences of
envelopes with how they end; `srv` is the handler with its implementation, `cl`
the transport with what its caller got. A message is its number, or one that does
not parse; compressed or not.

*Actions.* The handler negotiates a protocol (or answers 405, 415 or 505), makes its
early errors, pulls messages as the implementation asks for them, writes what
it yields, and ends the response in the way of its protocol. The transport writes
messages, validates the head, reads envelopes and trailers, and settles the call.
`Lose` drops the connection, with any suffix of what was written and not read.
Three kinds of initial state: a client and a server of this repository
(`InitCall`), the server with the request of another client (`InitRequest`), a
client with the response of another server (`InitResponse`). The body of another server
may break off within an envelope. On Node.js that is an error, and in a browser too if
it is in the prefix of the envelope (`partial`); else a browser passes on what there is
of it (`within`, `CutShort`).

*Abstract specification.* `CallContract` has neither protocol nor envelopes: the
server emits messages and answers once, the caller receives them in order,
succeeds only with all of them and the trailer of the server, and fails with the
server's error, or with any other error only if the connection was lost.
`KeepsContract` maps `Rpc` to it.

### One call on Node.js: `NodeClient`, `ClientCall`

The state is one record `x`: the signal of the user and the linked one, the timer,
the sentinel of `nuc.ts`, the HTTP stream, how far `sinkRequest()` is, the response
iterator, the outcome, and what a callback client told its caller. `NodeClient` has
one operator per callback from a record to a record, so that a callback which calls
another is an operator applied to another (`Reject` of a waiting reader is `Abort` of
`run-call.ts`, which is `SettleSentinel`, which is `Destroyed` of the stream). An action
of `ClientCall` is one turn of the event loop with the promise reactions it causes. What
the server sends is any head, number of chunks, end or reset, with an error of any of
`ErrorCodes`, which has `deadline_exceeded`; `foreign` records that a server or the
caller's own abort reason said so.

### A streaming response on Node.js: `ServerResponse`

The implementation yields or ends (`impl`); the pipeline of the handler pulls from
it and appends the end of the stream (`pipe`, `transformCatchFinally`); the writer
awaits a drain, an error or a callback for each chunk (`writer`); `node` is the
response object with its unsent chunks; `ctx` the context with its abort reason and
timer. Deadline, shutdown, a lost connection and code that ends the response
elsewhere (Fastify, middleware) are actions of their own. The event `close` of the
request (`RequestCloses`) follows a lost connection, but over HTTP/1.1 also comes as soon
as the request was read. Anything from serializing a message to setting the
trailers may throw (`PipelineFails`, `Write`, `WriteEnd`). Node's stream is external:
events are emitted in later steps, `drain` when nothing is left unsent.

### Bytes: `Codec`, `Bodies`

`Codec` is what happens to one message: serialization and limits, compression and
the flag of its envelope, and the reverse. An envelope with the flag for the end is
parsed by the clients of Connect and gRPC-web, skipped by their servers, and a message
like any other to gRPC (`EndIs`). `Bodies` lays envelopes out as bytes,
lets any number of them arrive in chunks of any size, and runs the three readers:
`transformSplitEnvelope()`, `readAllBytes()` and `createEnvelopeReadableStream()`.
A byte is its place in the stream. `SignBit` is the highest bit of a length, 2^31 in
the code: the reader of `connect-web` computes it with signed shifts, so that a length
from there on is negative.

### `Http2Session`

*State.* `s` and `shuttingDown` are the manager's fields. A closure of `connect()`
is a record of `dial` (its listeners, its promise, the callers awaiting it), the
promise of `verify()` one of `ver`, the closure of `ready()` one of `rs` (listeners,
`onClose`/`onError` hooks, `streamCount`, `receivedGoAway`, whether `lastAliveAt` is
older than `pingIntervalMs`, and which of its three timers run). `sess` is Node's
session: its progress, the event it is going to emit, the PINGs in flight, whether
the peer still answers. `call` is the progress of each caller, `jobs` the queue of
microtasks, `proc` whether the process is up, was ended by an exception, or spins.

*Actions.* One per public method, per listener, per timer and per promise reaction;
`setState`, `onExitState`, `cleanup`, `gotoReady` and its loop are operators the
actions are made of, so that an action is a whole handler. `GotoReady` is the part
of `gotoReady()` before its loop with the first turn of the loop, `Await` a turn of
the loop. Node's session is external and described by how the manager uses it:
`destroy()` cancels PINGs and reports the end in a later task, when the session's
streams have closed; `close()` lets streams finish; a GOAWAY closes or destroys the
session before the listener runs.

*Interleaving.* JavaScript runs a handler to its end. Events and timers are tasks
and wait for `jobs = <<>>` (`Quiet`); calls of the application need no empty queue,
since application code also runs in microtasks, between any two of the manager's.
Reactions that were registered on one promise and run one after the other are one
microtask when nothing else may come between that they could tell apart: the
manager's own reaction to a dialled connection and those of the callers that await
it are `Dialled`. A caller that leaves `gotoReady()` takes one microtask more
(`Resume`), in which the connection may be found closed: then `request()` tries again.

*Data left out.* Headers, URLs, timestamps (`Elapse` says that an interval has
passed), error texts: an error is a cancellation or not, which is all
`closedOrError()` asks.

### `WritableIterable` and `FifoChannel`

`readQueue`, `writeQueue`, `mode` (`closed`, and whether the consumer stopped, which
the code keeps by emptying the queue) and `next` (the current `nextPromise` with the
writes that await it) are the variables of the closure; `write` and `reads` are the
promises its users hold; `jobs` the microtasks; `sent` is a history variable.
`Refuse`, `Enqueue` and `HandOver` are the three ways of `write()`, `NextTakes`,
`NextEnds`, `NextWaits` those of `next()`; `Stop` is `throw()` and `return()`, which
differ in how they settle the promise that writes await.

`FifoChannel` has neither queue nor promise: the n-th read is answered with the n-th
payload, reads are answered as soon as their answer is known, and with `Done` after
the end. `FifoDelivery` maps `asked` to the number of reads and `answers` to the
values of all but those still in `readQueue`.

### `Router` and `Migrate`

`Router` registers services and single methods with and without options of their
own, builds the table of an adapter, and serves requests until the response of the
handler: a path it does not have, a request without authority, a body that was
parsed before, an implementation that fails, a caller in memory that aborts.

`Migrate` is a run of the tool from its command line to its exit over a project on
disk: scan, choice of the migration, the warning, each manifest, each source, each
lock file, in the order in which they were found. The patterns of `--ignore-pattern`
apply to all three kinds of file: what they match is a set of directories. Optional
dependencies of a manifest are kept as they are, as the code does. Any step may fail and
the user may stop it between two (`Killed`); then the user runs it again on what is left
(`Rerun`). A version range is the set of the versions in it.

## What is checked

| run | asks | shows |
|---|---|---|
| `rpc` | every protocol, kind of method and flavour of client, two messages each way, the connection lost anywhere; then the server against other clients, and each transport against other servers, with up to three envelopes | `KeepsContract`, `InputsInOrder`, `CallSettles`, `HandlerStops`: between peers of this repository a call is what `CallContract` promises, and both sides end. `ResponseWellFormed`, `OneInput`, `EarlyErrorsFirst`: what the server makes of any request. `SuccessIsComplete`, `ErrorsAreRaised`: what a transport makes of any response |
| `client_call` | unary and streaming calls, both versions of HTTP, with and without body, timeout, signal, callbacks; two chunks, two messages; servers and callers whose errors are `deadline_exceeded` or another | `SuccessReadAll`, `DeadlineReported`, `CleanReturn` (how it settles), `DeadlineBounds`, `StreamReleased`, `LiveRequestReleased` (what it leaves behind) |
| `server_response` | three messages, a high water mark of two, both versions of HTTP, failures of pipeline and writer | `TypeOK`, `ResponseFaithful`, `ContextScope`, `NoUncaughtError`, `ImplReleased`, `ResponseEnds` |
| `bodies` | up to two envelopes out of ten, cut into chunks in every way, broken off at every byte; three readers; with and without decompression; an end that is parsed, skipped or a message | `ReadAsWritten`, `BufferBounded` |
| `h2_all` | three callers, two connections, all faults, PINGs, `abort()` | `TypeOK`, `HookIsCurrent`, `StreamCountExact`, `ClosuresConsistent`, `NoLostCaller`, `OpenStreamsWatched`, `OnlyIdleConnectionsClose` |
| `h2_defaults` | default options, Node.js 16, three connections, no `abort()` | `WaitedDialIsHeard`, `OpenStreamsTracked`: with the defaults (no PINGs, so no verifications) the manager never loses sight of a connection |
| `h2_settles` | fair behaviours, no PINGs, sessions that end | `RequestSettles`, `IdleConnectionCloses` |
| `h2_dead_peer` | fair behaviours, PINGs, two callers that make requests, a peer that falls silent | `DeadPeerClosesStreams`: unless a further request verifies the connection (see below) |
| `writable_iterable` | three writes, five reads, a consumer that is eager or awaits each result, `close`, `throw`, `return` at any time | `FifoDelivery`, `ResolvedWasDelivered`, `AcknowledgedInTime`, `WritesSettle` |
| `migrate` | projects of up to two manifests, sources and lock files, seven command lines, some of which ignore a directory, two runs of the tool | `MigratedIsComplete` |
| `h2_abort_spins`, `router_disabled` | | end in a counterexample, see below |

### Bounds

`MaxOut`, `MaxIn`, `MaxSent`, `MaxChunks`, `MaxEnvelopes` are the messages and chunks
of a body. One message shows none missing, two show an order and one too many for a
unary call; a third envelope may follow an end that came too early. `MaxOut` of
`server_response` is above `HighWater`, so that the writer has to wait for a drain.
`SignBit` is 4, so that lengths have both signs when read with shifts; the limits of
`bodies` lie between the sizes of its messages, so that some exceed the
limit for writing, some that for reading, and some only when decompressed; `MaxChunk`
holds a header and the first byte after it, so that a chunk may end before, in and
after a header. `MaxRuns` is a run that fails or is stopped and the one after it.

`Conn` is finite, and a connection is never used again, so faults that break a
connection need a fresh one to replace it (`May`, `Fresh # {}`): every behaviour is
cut where connections run out, and liveness properties exempt that case
(`Fresh = {}`). Two connections show one that is replaced with its successor; three
show a successor that is replaced while its predecessor is still shutting down.
`MaxPings` merges further unanswered keep-alive PINGs into one; the code treats them
alike. `MaxDoublings` is how often `pingIntervalMs` doubles before it exceeds what
`setTimeout()` takes. `RequestsSpec` is `FairSpec` for callers that only make requests,
each in a task of its own: `h2_dead_peer` needs no more for a second caller to meet a
silent peer at any moment. `ErrorCodes` of `client_call` are `deadline_exceeded` and
one other, which is all that `DeadlineReported` tells apart. `MaxReads` bounds calls of `next()`; one more than the writes is
enough for each to settle. At most one result of `throw()`/`return()` is outstanding.

Deadlock is checked for `writable_iterable` alone: everywhere else a behaviour ends
when the call, the process or the tool does, and that it does not end too early is
what the liveness properties say.

### Fairness

Nothing is assumed of a peer: no response, PING acknowledgement, end of stream or
reset is owed, unless stated here.

`Rpc`: the event loops of both sides run (`Client`, `Server`, `Stop`), which includes
that an implementation ends and that a caller ends its requests; the connection need
not be lost. `ClientCall`: timers fire, connections are made or fail, a closed stream
closes and fails its writes, a request iterable that was told ends, the caller of a
stream reads on. The callback of a write on an open stream is not assumed: the server
may stop to read, and flow control then holds it back. `ServerResponse`: the pipeline
and the writer run, what is written is sent or the connection closes, a request whose
connection closed is closed, and an implementation ends once its signal is aborted; it
is not assumed to end without. `WritableIterable`: microtasks run and the
consumer keeps iterating; the writer owes nothing.

`Http2Session`: `WF(RunJob)`, microtasks run. `[]<>(jobs = <<>>)`, the application does
not call the manager without end within one task; without it no event would ever be
delivered. `SF` on attempts to connect (each succeeds or fails), on the end of
sessions, on each timer that is running and on the close of streams whose session was
destroyed: the event loop gets round to what is due, but a task is enabled only while
the queue of microtasks is empty, hence strong fairness.

## Where code and documentation disagree

Two runs end in a counterexample; `PROJECT.json` quotes the lines.

| run | what happens |
|---|---|
| `h2_abort_spins` | `abort()` between the connect event and its reaction: the state stays closed while a caller is inside the loop of `gotoReady()`, which awaits nothing |
| `router_disabled` | a service registered with options of its own is served in a protocol that the options of the router disable: `whichProtocols()` asks only the former (`router.ts:165`) |

The modules state more properties that do not hold. Each is refuted by the
configuration named, changed as given, with the property in the place of those listed
there. The properties that hold say how far: `DeadPeerClosesStreams` exempts a
connection that is verified, `StreamReleased` a write that a server never reads,
`ReadAsWritten` a last message that breaks off in a browser, `SuccessIsComplete` a
gRPC-web body there that breaks off in an envelope, and what follows an end,
`MigratedIsComplete` optional dependencies.

| property | configuration | what happens |
|---|---|---|
| `Http2Session!AbortIsFinal` | `h2_abort_spins` with `Keepalive` and `PingIdle` TRUE | `abort()` while verifying: `ping()` resolves `false`, and a connection is opened that nobody asked for |
| `Http2Session!WaitedDialIsHeard` | `h2_abort_spins` with two callers | `abort()`, then `request()` in the same turn: the rejection of the aborted connection arrives later, exits the new connecting state, and its caller waits forever |
| `Http2Session!VerificationEnds` | `h2_abort_spins`, `Keepalive` and `PingIdle` TRUE, `OnlySilence`, `FairSpec` | leaving the ready state for verifying clears the timeout of the PING just sent, so an unanswered PING is waited for until the transport gives up |
| `Http2Session!OpenStreamsTracked` | the same with `OnlyGoaway`, `Spec`, two callers | a verification removes the listener for GOAWAY and nothing attaches it again: the connection is replaced without being maintained, and `abort()` does not reach its streams |
| `Http2Session!SilenceClosesStreams` | `h2_dead_peer` | a PING that is not answered is to close the connection (`sm.ts:100-104`). A second request on a connection that was silent for `pingIntervalMs` verifies it, and leaving the ready state clears both PING timers (`sm.ts:665-676`): a peer that is silent from then on leaves the streams of the first caller open until the transport gives up |
| `Http2Session!ErrorsAreHeard` | `h2_abort_spins` with `OnlyLost` | a request between the destruction of a session and its error event removes the listener, and the error is uncaught |
| `ClientCall!CancelRaisesCanceled` | `client_call` | `call-options.ts:32` says that a call that is cancelled raises Canceled: it raises the reason given to `abort()`, made a ConnectError, or the error that came first |
| `ClientCall!RequestReleased` | `client_call` | the listener that tells the request iterable is added after the signals are linked (`run-call.ts:106`), so a call that is aborted before it begins never tells it |
| `ClientCall!NothingLeaks` | `client_call` | `done()` aborts the signal of a call that succeeded (`run-call.ts:157`), but its sentinel is resolved by then, and nobody closes the stream: a server that ends its response without reading the request leaves the write, and with it the stream, open for ever |
| `ServerResponse!SignalMeansClosed` | `server_response` | the signal of the context is to be aborted when the connection is closed or the deadline reached (`implementation.ts:79-80`). It is when the request closes (`nuh.ts:96-119`), which over HTTP/1.1 is when it was read, with the connection open and the implementation running |
| `Bodies!PartIsNoMessage` | `bodies` | "premature end of stream" (`envelope.ts:92`) is raised for a header that breaks off only: a browser takes a part of a message for the message |
| `Rpc!NoneBreaksOff` | `rpc` | for the same reason, a browser takes a gRPC-web response for a success whose trailer breaks off before its `grpc-status`, and any that breaks off in an envelope after its end |
| `Rpc!RequiredVersionEnforced` | `rpc` with `Spec` | the error is put before the messages of the request, so a streaming implementation that does not read its input succeeds without the version |
| `Rpc!KeepsContract` | `rpc` with `Calls <- OptedOut`, clients that do not accept what they send | an empty array of accepted compressions is to opt out of response compression (`transport-options.ts`): no header is sent, the server then answers with the compression of the request, and the client rejects it |
| `Migrate!CurrentIsMigrated` | `migrate` with `OneProject` and `Plain` | manifests are written first, so after a source that failed, or a run that was stopped, the next run says "already up to date" (`cli.ts:63`) and the sources are left |
| `Migrate!NoOldDependency` | `migrate` | all dependencies that match are to be replaced (`replace-dependencies.ts:27`); optional ones, which `package-json.ts:27` knows, are not, and the run ends well |
| `Router!EveryRequestIsAnswered` | `router_disabled` | a body that was parsed before, for a handler that needs the bytes: the error is logged and the response stays open |
| `Router!LimitsInRange` | `router_disabled` | limits in the options of a registration are not validated, and `undefined` there overrides the limit of the router |

Other differences met while modelling, without a property of their own:

- HTTP/2 sessions: a verified connection has no idle timer and no PING interval
  until a stream opens, answers or closes. The close of a stream after `abort()`
  restarts the PING interval of the destroyed session, whose `ping()` throws. A
  connection that ends as the current one after a GOAWAY stays in `shuttingDown`.
  A verification that `abort()` did not reach ends as if nothing had happened (the
  row `AbortIsFinal` above), and takes the manager away from the connection it
  opened in the meantime, with the timers of its streams; this takes three
  connections. `OpenStreamsWatched` therefore speaks of connections that the
  manager maintains (`Maintains`), before their first verification.
- Writable iterable: a consumer that calls `next()` twice in a turn wakes writes
  once, so a write waits for one call more than `ai.ts:1354-1358` says; `next()` in
  the same turn as `return()` replaces the rejected promise before the writes awake.
  `ResolvedWasDelivered` and `AcknowledgedInTime` are therefore stated of a consumer
  that awaits each result, as `for await` does; `FifoDelivery` holds of every one.
- Node.js client: after a success the sentinel no longer listens, so a stream whose
  request iterable never ends stays half open (and see `NothingLeaks`, above). A deadline closes an HTTP/2 stream
  with INTERNAL_ERROR rather than CANCEL. A reset with NO_ERROR before the response
  leaves the call pending unless it has a timeout, and in the middle of a body looks
  like its end.
- Callback client: if `onClose()` throws after a server stream that succeeded, it is
  called again with the error.
- Node.js server: the promise of `universalResponseToNodeResponse()` waits for an
  event `end` that responses never emit. A Connect or gRPC-web message, or end,
  that does not compress leaves the response open (`ReadFails`), since the error comes
  after `transformCatchFinally()`; so do `writeHead()` and trailers that throw. A write that waits for a drain stays pending when
  someone else ends the response.
- Trailers: gRPC sets `grpc-status: 0` before the trailers of the implementation
  (`protocol-grpc/handler-factory.ts:129`), so a `grpc-status` among these wins, and a
  call that succeeded fails, or the reverse. `TrailersAssumption` excludes it.
- Errors: gRPC and gRPC-web drop the metadata of an error. Early errors of a stream
  are raised only when the implementation pulls its input. `transformCatchFinally()`
  takes a thrown `undefined` for success.
- Other servers: a gRPC unary or streaming response without trailers is accepted as
  a success; a trailers-only head makes the trailer of a gRPC stream ignored;
  `connect-web` accepts messages after the end of a stream.
- Bodies: `createEnvelopeReadableStream()` does not read lengths of 2^31 or more. `compression.ts:43`
  says that a decompression over the limit raises InvalidArgument; it raises
  ResourceExhausted.
- Timeouts: gRPC ones of 10^8 ms or more are written in a form the server rejects;
  neither side clamps what it passes to `setTimeout()`.
- Migration: a version range that semver does not parse ("workspace:*") ends the run
  with an exception, possibly between two manifests; `bundleDependencies: true`
  fails the scan; re-exports and dynamic imports are not rewritten.

## What is proved

For every value of the constants that satisfies the assumptions named:

| theorem | module, assumptions | statement |
|---|---|---|
| `Invariance`; `TypesHold`, `StreamCountsAreExact`, `HooksAreCurrent`, `ClosuresAreConsistent` | `Http2SessionProofs`; `ConfigAssumption` | `Spec => []Inv`, and the conjuncts |
| `OnlyIdleClose` | the same | `Spec => OnlyIdleConnectionsClose` |
| `StreamsAreTracked` | the same, and `~Keepalive`, as by default | `Spec => []OpenStreamsTracked` |
| `StreamsAreWatched`, `CallersAreNotLost` | the same, with `ConfigAssumption` alone | `Spec => []OpenStreamsWatched`, `Spec => []NoLostCaller` |
| `WaitedDialsAreHeard` | the same, and `"abort" \notin Events`: nobody calls `abort()` | `Spec => []WaitedDialIsHeard` |
| `CallInvariant` | `ClientCallProofs`; `ErrorCodesAssumption` | `Spec => []Inv /\ [][Step]_vars` |
| `SuccessIsRead`, `DeadlineIsReported`, `ReturnIsClean` | the same | `Spec => []SuccessReadAll`, `DeadlineReported`, `CleanReturn` |
| `ResponseInvariant`; `TypeCorrect`, `ContextIsScoped`, `ResponseIsFaithful`, `ErrorsAreHeard` | `ServerResponseProofs`; `OutAssumption` | `Spec => []Inv`; `[]TypeOK`, `[]ContextScope`, `[]ResponseFaithful`, `[]NoUncaughtError` |
| `QueuesAreRests`, `ChannelImplemented` | `WritableIterableProofs`; `WriteAssumption` | `Spec => []Inv`, `Spec => FifoDelivery` |
| `WritesCount`; `ResolvedIsDelivered`, `AcknowledgedOnTime` | the same | the invariant of the answers; `Spec => []ResolvedWasDelivered`, `Spec => []AcknowledgedInTime` |
| `CallsAreInOrder` | `RpcProofs`; `BodyAssumption` | `Spec => []InputsInOrder` |
| `RequestInvariant`; `OneInputOnly`, `EarlyErrorsComeFirst`, `ResponsesEndOnce` | the same | `Spec => [](Shapes /\ RequestInv)`; `[]OneInput`, `[]EarlyErrorsFirst`, `[]ResponseWellFormed` |
| `SuccessesAreComplete`, `NoErrorIsLost` | the same, and `CallsAssumption` | `Spec => []SuccessIsComplete`, `Spec => []ErrorsAreRaised` |
| `CallsKeepTheContract` | `BodyAssumption`, `ErrorsAssumption`, `TrailersAssumption`, `CallsAssumption`, and that every client `AcceptsWhatItSends` | `Spec => KeepsContract` |
| `BuffersAreBounded`, `BodiesAreReadAsWritten` | `BodiesProofs`; `LimitAssumption`, `ChunkAssumption`, `HintsAssumption`, `StreamsAssumption`, `SignAssumption` | `Spec => []BufferBounded`, `Spec => []ReadAsWritten` |
| `RouterInvariant`, `AnswersLatest` | `RouterProofs`; none | `Spec => []Inv`, `Spec => []LatestAnswers` |
| `MigrationIsComplete` | `MigrateProofs`; `ProjectsAssumption` | `Spec => []MigratedIsComplete` |

The assumptions say what the code has checked, or what JavaScript and the formats rule
out. `ErrorsAssumption`: an error of an implementation has a code, a message that is a
string, and details that serialize, as `ConnectError` has them.
`TrailersAssumption`: a trailer has finitely many fields, none of which is the library's
own for the status or the details of an error: one that is contradicts what the
library says itself (`Settable`; see "Trailers" above).
`ErrorCodesAssumption`: what servers and transports fail with are codes. `CallsAssumption`: a call is one that the transport of
its client makes, with the header and the method that the transport computes
(`askedHeader`, `transformConnectPostToGetRequest()`); a browser has no gRPC, no streams
of the caller and no compression. `StreamsAssumption`: messages have a number of bytes.
`ProjectsAssumption`: a manifest has the sections, optional dependencies among them, and
what it bundles or has meta data for is a dependency in one of them, as npm asks: without that, nothing renames the
names it bundles. That a client `AcceptsWhatItSends` is a hypothesis of the theorem, since
the options do not rule out the contrary; the contract fails then (`OptedOut`, above).

**Session manager.** `Inv` is `TypeOK /\ StreamCountExact /\ HookIsCurrent /\
ClosuresConsistent`. None is inductive alone. The types need the counts:
`streamCount` stays a natural number only because a stream that closes was counted.
The counts need the closures: `Dialled` creates a closure with count zero, which is
exact only if no stream was ever opened on that connection, so each connection is
dialled at most once (`DialledOnce`), its reaction comes before anything refers to
it (`MadeConsistent`), and the microtasks queued keep to that order (`AllExpected`).
The hooks need the closures too: a reaction that makes a connection ready must not
meet the hook of another. There is one lemma per group of actions and obligation
(`UserStep`, `StreamStep`, `SessionStep`, `TimerStep`, `DialledStep`, `ReactionStep`,
`ResumeStep` for the counts, hooks and closures; `TypeStep` for the types), put
together in `NextInv`. `CalmStep` covers steps that touch no count, hook or closure.
`OnlyIdleClose` follows in one step: the idle timer runs only with a count of zero,
the listener for GOAWAY destroys only with a count of zero, and the count is exact.

`StreamsAreWatched` adds `WatchInv` to `Inv`. A connection becomes ready again only
after a verification, so a reaction to one, and a PING of one, belong to a connection
whose `ver` says so (`Noted`); and what is maintained beside the current connection
received a GOAWAY (`LeavingIsMade`), so `setState()` never stops its timers. With
that, every step tends every connection (`Tended`): it leaves the timers running, or
starts one, or the connection has no stream, is destroyed, was verified or is no longer
maintained. There is one lemma per group of actions for each of the two halves
(`...Noted` and `...Watched`), put together in `NextWatched`.

`CallersAreNotLost` needs where a caller can be held at all: in the queue of one
closure of `connect()`, of one promise of `verify()`, or in one microtask (`Held`,
which also has the callers that a handler holds between two of its lines). A promise
that settles gives its callers to a microtask just once, because a connection is
verified once at a time (`PingsOnce`, `ReactionsOnce`) and what the manager's state
says of a promise agrees with the promise (`PromiseFits`, `DialFits`). The proof goes
through the operators a handler is made of, as the code does, with lemmas that move
callers from one place to the next.

`StreamsAreTracked` needs that there is no keep-alive, the default, and fails with it;
`WaitedDialsAreHeard` needs that `abort()` is never called, and fails when it is called
while the manager connects (see the further disagreements). Neither needs more than
that. For the first, `TrackInv` says that no PING is due, sent or awaited (`NeverPings`),
so nothing is ever verified; that only the connecting state has listeners on a
connection that is dialled, and is left by the one reaction that makes the connection
ready (`Listens`, `OneSettled`); and that the current connection keeps its listeners and
hooks, so one that was closed by a GOAWAY was seen to be (`ReadyHeard`). `setState()`
therefore lists each connection that still has streams when it replaces it, and a caller
that is about to open a stream does so on such a connection (`StreamsTracked`); and
`abort()` destroys all that is listed. For the second, `HearInv` says that what a
reaction will find is there (`Due`), so that at most one reaction is due: the connecting
state is left only by the end of the listeners on its connection, the verifying state
only by the end of its verification. A promise of `connect()` that is pending has its
listeners, and what has listeners is the connection of the connecting state or the one
that the reaction to a verification goes on to (`Hears`).

**Call.** A step of `ClientCall` is a composition of operators on the record `x`, and
so is the proof. `Lawful(y, z)` says of a part of a handler that leads from `y` to
`z` that `z` is again `Good`, a deadline is reported if it has passed, and only if it
has or somebody else said so (`foreign`), the request
iterable is thrown an error only with a call that fails, and a sentinel that is
rejected stays so. It is proved of each operator (`AbortLawful`, `DoneLawful`,
`RejectLawful`, `SignalledLawful`), then of each action. `Good` is what makes the
three properties inductive: `Sound` ties the outcome to sentinel, chunks and deadline,
`Tells` the listener for the request iterable to the signal, `Waits` the reader to
the sentinel. A success has read everything since only a reader at the end of the
body resolves the sentinel, and a sentinel settles once.

**Response.** `Inv` adds to the types whose turn it is of implementation, pipeline and
writer (`Turns`), why the context is aborted (`Context`), how many of the messages
yielded are in the body (`Progress`), and that the body is a prefix of the messages
with at most one end (`Shape`). What is unsent stays within the high water mark only
because the writer is in `drain` from the chunk that reaches it on. That no error of
the response is uncaught (`ErrorsAreHeard`) follows from the types and the turns of
the writer, whose listener is there when an error is emitted.

**Channel.** `readQueue` is exactly the reads without an answer, in order, and
`writeQueue` exactly the payloads without a read (`ReadQueueIsRest`,
`WriteQueueIsRest`), so one of them is empty. Each action then maps to an action of
`FifoChannel` or to a stutter; the proof is by the action, with lemmas about the
answers that a step of the queues adds (`Seen`).

That a write resolves for what was delivered, and in time, is a matter of counting
(`WriteInv`). Every write that waits is in one place, the queue of `nextPromise` or a
microtask (`OnePlace`). If it is the k-th payload and awaits the promise, it has
`k - Len(reads) + 1` turns left (`QueueCounts`): the reads still to come up to its
own, and one more; with a microtask under way, one more than that, since the read that
woke it is not counted off yet (`GoingCounts`). Such a microtask runs before the
consumer receives the answer it asked for (`BeforeNext`), so a consumer that awaits
each result cannot make a further read in between; an eager one can, which is why the
properties are not stated of it.

**Calls over the wire.** `Shapes` says which fields the records have. The rest is one
invariant for each kind of initial state; `ServerCases` and `ClientCases` take the steps
apart, and a lemma per step (`...Fields`) says what it does to the fields. `CallInv`: the
messages in flight are numbered, those taken by the pipeline are a prefix, and the
implementation has them in order. `RequestInv`: what was taken of any request was
readable, and which messages are in it, depending on where the handler is; a
unary call is made with the only message, a stream handler calls with the first and
drains the rest before it succeeds. `AnswerInv`: until a handler ends, the response has
messages only. `ResponseInv`: the body has an end that the transport's flavour admits, the
messages read are those of the response so far, by
their number among the envelopes (`MessagesRead`), the ends so far had no error or,
in a unary gRPC-web call, one kept in `cl.trailer` (`EndsRead`, `FineEnd`); so that at the
end of the body the checks of each transport say all that `SuccessIsComplete` and
`ErrorsAreRaised` ask. Nothing is assumed of calls, heads, envelopes, trailers or errors of
the other side, nor of their number, but that a body given as a whole has at most
`MaxEnvelopes` envelopes.

**The contract of a call.** `NextContract` maps each step of `Rpc` to one of `CallContract`
or to a stutter. Three things are needed for that. First, that the two sides agree:
from the header that a transport makes, the handler takes the transport's protocol, and
a compression that the transport accepts (`Agreed`, proved through
`negotiateProtocol`, `compressionNegotiate`, the content types, and the GET request that
stands for a POST). Second, that what the server says at the end comes back from the
wire as it went: an error as JSON, as `grpc-status` and its details, or as the trailer of
a stream, and trailers as fields with the prefix `trailer-`, as a block or in the end of
the stream (`JsonKeepsErrors`, `StatusFieldsKeep`, `MuxSurvives`, `BlockSurvives`,
`EndStreamKeeps`). These are lemmas about the operators of `Metadata` and `Codes` for all
errors and trailers; a block of fields is parsed by a function on its lines, whose
value is shown to be what was written line by line. Third, an invariant, `OursInv`: a
handler has written what it has emitted, in order, and after its end the one that its
protocol puts there (`WrittenInv`); and a transport that is not done has the messages
of a prefix of it and no error, with a trailer only if it read the end
(`ReadInv`). `OutputInv` keeps errors and trailers of the implementation in the sets of
the assumptions. `ServerKeepsContract`, `CallerKeepsContract` and `LossKeeps` then take the
steps apart.

**Bodies.** The bound is inductive with the fact that lengths and what is held are
natural numbers: a reader with a limit fails as soon as the header, or the bytes,
exceed it, before it takes another chunk.

For `ReadAsWritten`, `ReadInv` says of a reader that has not stopped that it has yielded
the first messages of the stream, all of which pass, and that it holds what it has taken
of the bytes after them (`Advanced`); of one that has, that its result is one of `Outcomes` (`Arrived`). Where the
envelopes begin is a recursive sum (`Begins`), which the provers cannot evaluate: that it
exists for every list of lengths, and that it grows, is proved with `LeastNatural`, from
the least number of envelopes for which it would fail (`BeginsExist`, `BeginsGrow`). From
it follow which envelopes are complete in a body that breaks off (`CompleteIs`), which
is the first that does not pass (`GoodIs`), and for each place in the body the one
envelope a reader can stand in (`Interval`, `StandsAt`). Each action of a reader then
moves it to the next envelope (`Steps`), stops it at one that does not pass (`Stops`), or
ends it with the rest of the body (`Ends`).

**Router.** A registered method has a latest handler (`HasLatest`: by induction over
registrations, each of which adds one at the end), the table has it for the path
(`TableIsCurrent`), and what answers is from the table (`AnswerIsOfTable`).

**Migration.** `RunInv` follows a run: before it writes, it has what is on disk; while it
rewrites manifests, those no longer `left` are complete and the others are as they were
scanned; the sources that are no longer `left` have no old reference unless an error was
counted, and so with the lock files that were found. An earlier run that was killed, or failed, leaves
a project of the same kind (`IsProject`), so nothing else is asked of the start of a run.
That a rewritten manifest is complete (`ReplacedIsComplete`) goes through the five
replacements one by one: `Found` says that the old names of those done are gone from the sections that are
replaced, that
what was renamed is a dependency by its new name, and that what was not is one by its
old. A replacement for a part of the versions may leave an old name, which a later one
for all versions takes (`ReplacementsAre`).

Only model-checked: all liveness properties (`CallSettles`, `HandlerStops`,
`DeadlineBounds`, `StreamReleased`, `LiveRequestReleased`, `ImplReleased`,
`ResponseEnds`, `WritesSettle`, `RequestSettles`, `IdleConnectionCloses`,
`DeadPeerClosesStreams`), since fairness needs ENABLED, which is beyond the prover.

## Not modelled

- `protoc-gen-connect-es` prints source text for a schema, without state.
- Interceptors, which are functions of the caller; `normalize.ts`; the wrappers of the
  promise and callback clients that pass arguments on.
- The combinators of `ai.ts` on their own (`transformParseEnvelope()` and the like are
  in `Rpc` and `Bodies` as what they do to messages; `pipe()` and
  `makeIterableAbortable()` in `ServerResponse` as the pipeline uses them).
- The conversion of Node.js requests and headers to universal ones, base64, the CORS
  lists, and the conversions between the universal types and those of `fetch()`.
- Generated code (`src/gen`), test servers, conformance and benchmark packages,
  examples.

What is left for further work: the composition of `ClientCall` with `Http2Session`,
of which a call takes its stream.

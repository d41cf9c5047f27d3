# TLA+ models of rsocket-cpp

This directory holds TLA+ models of the protocol state machines in
`src/src`. It also holds the TLC configurations that check them.

## The system

An RSocket connection is owned by an `RSocketStateMachine` (`src/src/statemachine/RSocketStateMachine.cpp`). The parts that interact with it:

- **Frame transport.** A `FrameTransport` over a `DuplexConnection` (TCP in
  `src/src/transports/tcp`). It delivers inbound frames through
  `processFrame`, and the end of the connection through `onTerminal`.
  Both calls re-post themselves to the automaton's event base with
  `runInExecutor`. The real work is done later in `processFrameImpl` and
  `onTerminalImpl`.
- **Connection automaton.** It owns the following:
  - the stream registry (`streams_`);
  - the frames queued while no transport is attached (`pendingFrames`);
  - the `ResumeCache`, which counts and stores every sent frame of a
    tracked type;
  - the keepalive timer;
  - the `ClientResumeStatusCallback` of a resume attempt in progress.

  Its lifecycle:
  - A client connects with `setUpFrame`.
  - After a transport failure it `disconnect`s, provided it is resumable.
  - It resumes on a new transport with `tryClientResume`. That sends
    RESUME and installs the callback.
  - The server's answer settles the attempt. RESUME_OK leads to
    `resumeFromPosition`, which replays the cache. An ERROR closes the
    automaton.
  - `close`/`closeWithError` end every stream and are final.
- **Stream state machines.** Examples are `ChannelRequester`,
  `RequestResponseRequester` and `StreamResponder`. Each stream writes
  frames through the automaton and receives its frames from
  `handleStreamFrame`. The automaton's `endStream` /
  `endStreamInternal` removes a stream from the registry before
  telling the stream that it ended.
- **Application.** The application is the local producer and consumer of
  each stream (yarpl `Subscriber`/`Subscription`), and the caller of
  `tryClientResume`.
- **Server.** `RSocketServer` starts a `ConnectionAcceptor` whose
  callback hands each new connection to the `ServerConnectionAcceptor`.
  When that connection's SETUP arrives, `getHandler` asks the
  application's `onAccept` for a responder and `manageSocket` adds the
  new automaton to `sockets_`. The destructor posts a `close` of each
  automaton in `sockets_` to its event base.
- **Framing and serialization.** `FramedWriter`, `Frame.cpp` and
  `FrameSerializer.h` turn frames into length-prefixed bytes.

## Modules

| Module | Models | Sources |
|---|---|---|
| `ReliableSession` | Abstract promise of the connection: the server receives a prefix of what the client produced, in order, with no gaps or duplicates. | spec.md (resumption) |
| `RSocketStateMachine` | The client-mode connection automaton. It includes its transports, the event-base queue and an honest server. | `RSocketStateMachine.cpp`, `ResumeCache` (spec) |
| `ChannelRequester` | The requester side of a channel, with the `ConsumerBase`/`PublisherBase` helpers it calls. The application and the responder are its environment. | `ChannelRequester.cpp/.h` |
| `RequestResponseRequester` | The requester side of request-response. Its subscriber may call `request`/`cancel` at any time. The responder's answer may cross a CANCEL on the wire. | `RequestResponseRequester.cpp` |
| `StreamResponder` | The responder side of request-stream, with `PublisherBase`'s demand forwarding. The producer may subscribe late and deliver in-flight signals after a cancel. | `StreamResponder.cpp` |
| `FramedWriter` | Length-prefix framing: the length field byte by byte for both versions, the 24-bit limit, and the writer's signal handling, with `SubscriptionBase::cancel` posting `cancelImpl`. A reference reader (`Parse`, RECURSIVE) reads the wire back. | `FramedWriter.cpp`, `SubscriptionBase.h`, FramedReader (spec) |
| `ConnectionAutomaton` | The older connection automaton in server mode: SETUP and RESUME handling, `resumeFromPositionOrClose`, `handleUnknownStream`, keepalive, resume replay. Its client is the same class in client mode, reduced to the frames it writes and reads. The server-to-client direction is shown against `ReliableSession`. | `ConnectionAutomaton.cpp`, `ResumeCache`, `StreamsFactory` (spec) |
| `RSocketServer` | The server's connection set: `start`, the acceptor callback, SETUP handled through `getHandler`/`manageSocket`, the closed listener, `addConnection` and the destructor's posted closes. | `RSocketServer.cpp`, `ServerConnectionAcceptor` (spec) |
| `MC_*` | The constants that TLC needs. | |

### RSocketStateMachine

The automaton's fields are one record variable, `st`. Each helper in the
code is therefore an operator on that record, for example
`CloseWithError`, `Close`, `CloseStreams`, `CloseFrameTransport`,
`Connect`, `ResumeFromPosition` and `OutputFrameOrEnqueue`. A handler
is the composition of those operators in the order the code calls them.
For example, `closeWithError` is `Close(OutputFrameOrEnqueue(...))`,
and `close` calls, in the code's order:

1. the resume callback;
2. `closeStreams`;
3. `closeFrameTransport`.

Transports are numbered `1..MaxTransports`. Each one has a state:

| State | Meaning |
|---|---|
| `idle` | |
| `open` | |
| `closed` | A graceful close. The peer may still drain it. |
| `broken` | The wire is lost, and an `onTerminal` task is queued. |

Each transport also has an outbound and an inbound wire.
`ProcessFrame(t)` and `OnTerminal(t)` model the transport's callbacks.
They only append a task, tagged with its transport, to `st.queue`.
`RunQueued` runs the head task on the event base: `ProcessFrameImpl` or
`OnTerminalImpl`. As in the code, the task runs against whatever
transport is current; its tag is never checked.

The application's actions are:

- `ConnectClientSendSetup`
- `TryClientResume`. No caller in this tree calls `tryClientResume`.
  The model lets it run only on an open automaton, a guard the code does
  not have (on a closed automaton `connect` still succeeds, and the
  frames that would settle the callback are dropped). It also needs no
  attempt to be pending, which is `reconnect`'s `CHECK(!resumeCallback_)`.
- `OpenStream` (`writeNewStream`)
- `RequestFireAndForget`
- `WritePayload`
- `WriteCloseStream`
- `MetadataPush`
- `SendKeepalive`

`OpenStream` and `MetadataPush` likewise run only on an open automaton.

The server is an honest RSocket server and reads only its current
transport:

- `PeerAccept` answers SETUP or RESUME. It gives `RESUME_OK(position)`
  if its session is resumable. Otherwise it gives
  `ERROR(CONNECTION_ERROR)`.
- `PeerReceive` consumes client frames and answers keepalives with its
  position.
- `PeerSend` writes stream frames for the client's open streams.

Ghost fields record what the properties need:

| Ghost field | Records |
|---|---|
| `produced` | The tracked frames the application produced, in order. |
| `resumeCalls` | The calls of each resume callback. |
| `ended` | How often each stream was told it ended. |
| `closeCause` | Why the automaton closed. |
| `preResume` | The streams registered when the last resume started. |

`ResumeCache` is not in this tree, so it is modelled from spec.md:

- Its position is `Len(sentFrames)`.
- `resetUpToPosition` clamps to the position.
- `isPositionAvailable(p)` holds iff `p` is the position, or
  `resetPosition <= p < position`.

### ChannelRequester

The stream is one record, `rq`. It holds:

- the code's `state_` and `initialResponseAllowance_`;
- `allowance` and `pendingAllowance` (from `ConsumerBase`);
- the consumer and publisher states;
- the producer's `demand`;
- whether the connection still has it registered;
- the frames it wrote.

Each handler (`onSubscribe`, `onNext`, `onComplete`, `onError`,
`request`, `cancel`, `endStream`, `handlePayload`, `handleError`,
`handleRequestN`) is one operator. An action calls it when its caller can.
SubscriptionBase marshals the application's calls to the event base, so
each call is atomic. A `CHECK` failure sets `aborted`, and no step
follows it.

### RequestResponseRequester, StreamResponder

These follow the same pattern as ChannelRequester.

- **Stream record.** Each stream is a record: `rr` and `sr`.
  - `registered` says whether the connection's map still holds the
    stream.
  - `closeStream` goes through the connection's `endStream`. That
    erases the stream first and then calls the stream's `endStream`.
- **Requester side.**
  - `rr.subscriber` is `consumingSubscriber_`.
  - `rr.signals` is what the subscriber was told.
  - The responder reads the requester's frames in order, stops on
    CANCEL, and answers once.
  - `DeliverFrame` hands an inbound frame to the stream only while it
    is registered, as `handleStreamFrame` does.
- **Responder side.**
  - `sr.pending` is the demand held before the producer subscribes.
  - `sr.demand` is what the producer was asked for.
  - `sr.received` is all the demand the requester granted.

### FramedWriter

The writer's fields, the wire, and the signals sent downstream are
combined in one record (`State`). The code's helpers are operators on
that record:

- `CancelImpl`
- `OnNextImpl`
- `OnNextMultiple`
- `OnTerminalImpl`
- `SubscriptionCancel`: `SubscriptionBase::cancel` only posts
  `cancelImpl` to the executor (`w.posted` counts them). The oversized
  path in `onNextImpl`/`onNextMultiple` and downstream's `Cancel` both
  go through it. `RunCancel` is the executor running a posted
  `cancelImpl`. Until it runs, the signals already queued and direct
  `onNextMultiple` calls still write frames, so frames after a dropped
  one can reach the wire.

The base class drops `onNext`/`onComplete`/`onError` once the writer is
cancelled. `onNextMultiple` is called directly. The model assumes that
upstream stops calling it once cancelled; see the hazards.

### ConnectionAutomaton

`ConnectionAutomaton.cpp` is the predecessor of `RSocketStateMachine`
with the same structure. Unlike it, it handles SETUP and RESUME itself
when it runs as a server, so the model takes the server's side.

- `sv` is the server automaton: the fields of the class (`frameTransport`,
  `isClosed`, `isResumable`, `remoteResumeable`, `streams`, the last
  peer stream id, `pendingFrames`, the resume cache as `sentFrames`,
  `resetPosition` and `impliedPosition`), the per-transport wires and
  states, and the event-base queue of `processFrame`/`onTerminal` tasks.
  Each task remembers its transport only for the model's bookkeeping;
  `processFrameImpl`, like the code, never looks at it.
- Every handler is an operator on `sv` in the code's call order:
  `ProcessFrameImpl` tracks the frame and then dispatches to
  `HandleConnectionFrame`, `HandleStreamFrame` or `HandleUnknownStream`;
  `CloseWithError` writes the ERROR and then `Close`s. PAYLOAD and ERROR
  on a live stream go to `handlePayload`/`handleError`, which
  `StreamResponder` inherits from a base class that is not in this tree.
  The honest client never sends them on a responder's stream, so that
  arm leaves the automaton as it is and is never reached.
- `HandleResume` is the RESUME arm of `handleConnectionFrame`. The call
  to the request handler's `handleResume` (not in this tree) is modelled
  from spec.md: it detaches the old transport, connects the new one
  without flushing, and calls `resumeFromPositionOrClose`.
- `AcceptResume(t)` is the RESUME read on a new connection, which the
  server routes to the existing session.
- `cl` is the client: `setUpFrame`, `writeNewStream`, `writeRequestN`,
  `writeCloseStream`, `sendKeepalive` and `tryClientResume` with
  `createResumeFrame`. It replays what it produced from the RESUME_OK
  position. It resumes only after the server saw its transport break.
- Ghost fields: `sv.produced`/`cl.produced` (tracked frames each side
  sent), `sv.handled`/`cl.received` (what each side took in), and
  `sv.closeCause`.

### RSocketServer

`srv` holds the server's fields (`started`, whether the acceptor is
listening, whether the object is still alive, `shutdown_`, and `sockets_`
as a set of connections). `conn` is each connection's state: `none`,
`accepted` (held by the `ServerConnectionAcceptor`), `rejected`
(`onAccept` gave no responder), `open` or `closed`. `exec` is the set of
posted close tasks. The ghost `late` records connections that
`addConnection` added after the destructor ran.

- `Start` is `start`. A second call throws, so it is a guard.
- `Accept(c)` is the acceptor callback.
- `Setup(c, responder)` is the SETUP handled on the connection's event
  base: `getHandler`, then `manageSocket` and `addConnection` when a
  responder is returned. `ServerConnectionAcceptor` is not in the tree,
  so this step is modelled from spec.md.
- `Close(c)` is the automaton closing; its closed listener does nothing,
  because the `removeConnection` call is commented out.
- `Destroy` is `~RSocketServer`: `stop` is synchronous, then either an
  early return or `shutdown_` and a close posted per socket. The wait is
  commented out, so the destructor returns at once.
- `RunClose(c)` is a posted close running on its executor.

## Runs

| Run | Checks | Expect | What it shows |
|---|---|---|---|
| client | `TypeOK`, `ResumeCallbackOnce`, `KeepaliveOnlyWhenLive`, `StreamEndedOnce`, `SessionPreserved` (refinement of `ReliableSession`), `ResumeSettles` | pass | Through up to 3 transports: every resume callback fires exactly once and every attempt settles; the keepalive timer runs only on a live, resumed connection; every stream ends exactly once; replay from the server's position followed by the pending flush loses, duplicates and reorders nothing. |
| stale | `HonestPeerNeverAccused` | violation | After a SETUP with RESUME_ENABLE that the server accepted, a PAYLOAD queued from the old transport runs after `tryClientResume`. It counts as a "stream frame during resumption", and `closeWithError` ends a session the server, still open and resumable, would have resumed. |
| resumefail | `ResumeFailureKeepsStreams` | violation | A rejected RESUME calls `onResumeError` (line 489) and then `close` (line 495), which ends the streams that existed before the attempt. spec.md prescribes this close in §4 (lines 74, 76) and §7 (line 113), but line 111 says a failed resume leaves earlier application state alone. The spec is ambiguous, and this run shows which reading the code takes. In the trace the SETUP did not ask for resumption. |
| channel | `TypeOK`, `DemandConserved`, `WireSequenceLegal`, `RegisteredUntilTerminated` | pass | Demand is conserved exactly: the sum of advertised credit, initial allowance and pending allowance equals what the application asked for. REQUEST_CHANNEL comes first. Every REQUEST_N is in `1..kMaxRequestN`. Nothing follows a terminal frame. |
| onsubscribe | `OnSubscribeNeverAborts` | violation | `onSubscribe` after `cancel` fails `CHECK(NEW == state_)`. |
| rr | `TypeOK`, `SubscriberSignalsLegal`, `LateFrameNeverAborts`, `RequestEventuallyEnds` | pass | The request-response subscriber sees `onSubscribe`, at most one `onNext`, then exactly one terminal once the stream leaves the map. A response crossing CANCEL never reaches the CLOSED stream's `CHECK(false)`. A request that was sent always ends for its subscriber, whichever of `handlePayload`'s three paths the answer takes. |
| responder | `TypeOK`, `NothingAfterTerminal`, `ProducerReleased`, `DemandForwarded` | pass | Nothing is written after a terminal frame or a handled CANCEL. A producer that subscribes after the stream ended is cancelled. Demand granted before `onSubscribe` is held and forwarded. |
| framing | `TypeOK`, `FramingRoundTrip`, `DownstreamTerminalOnce` | pass | The wire parses back to intact frames handed over, in their order and none twice, for 3- and 4-byte fields at the 24-bit boundary. This holds even though the deferred `cancelImpl` lets frames after a dropped one be written. Which frames are missing is the oversized run's question. Downstream gets one terminal signal. |
| server_leak | `ClosedConnectionsReleased` | violation | While the server runs, an automaton that has closed stays in `sockets_` for ever: the closed listener's `removeConnection` is commented out. |
| server_late | `NoConnectionAfterDestroy` | violation | A connection accepted before `~RSocketServer` whose SETUP is handled after it is added through `server_` to the destroyed server. |
| oversized | `OversizedFailsOnlyItself` | violation | A frame over 0xFFFFFF cancels the whole writer. A batch in `onNextMultiple` is dropped whole. Once the posted `cancelImpl` runs, later frames are lost, and downstream sees `onComplete`. |
| ca | `TypeOK`, `HonestPeerNeverAccused`, `ServerSessionPreserved` (refinement of `ReliableSession`, server to client), `ResumeAnswered` | pass | With a client that resumes after the server saw the break, across up to two resumptions: nothing the server sends is lost, duplicated or reordered, every RESUME is answered, and a correct client is never closed with a protocol, invalid-frame or position error, also when its REQUEST_N or CANCEL crosses the responder's COMPLETE. |

Notes on the ConnectionAutomaton runs:

- A client that resumes while the server still reads its old transport
  (a half-open connection) would have a REQUEST_STREAM queued from the
  old transport handled after RESUME_OK and then replayed. That is the
  same cause as the stale run in `RSocketStateMachine`: a queued
  `processFrame` task does not remember its transport. The model's
  client therefore only resumes after the server saw the break.
- `onTerminalImpl` (line 417) chooses disconnect over close by
  `isResumable_` alone. A client whose SETUP did not ask for resumption
  can never come back, yet the server keeps its session after a
  transport failure. spec.md states no requirement here, so this is
  listed as a hazard, not checked as a property.

Each property of a passing run has a mutant in `PROJECT.json`. A mutant
is a plausible bug in the mapped code, and TLC finds it:

- a missing clamp;
- a callback not reset;
- a keepalive started while resuming;
- a stream notified without being erased;
- a flush before the replay;
- a transport close that keeps the callback;
- an unclamped REQUEST_N;
- a publisher not cancelled;
- a dropped remainder;
- a missing implicit allowance;
- an un-started channel writing COMPLETE;
- a cancelled request-response left in the map;
- `endStream` keeping the subscriber;
- request-N passed through;
- `onSubscribe` ignoring termination;
- `onNext` ignoring state;
- `handleCancel` echoing CANCEL;
- demand dropped before subscribe;
- a short length field;
- a legacy length that does not count its field;
- `cancelImpl` keeping `stream_`;
- `handleUnknownStream` taking every unknown id as new;
- a KEEPALIVE position applied without the clamp;
- the pending frames flushed before the replay on resume;
- a refused RESUME closing the connection without an ERROR.
- a bare COMPLETE answer that returns without `closeStream`.

## Bounds

- **RSocketStateMachine.**
  - Three transports allow setup, a resume, and a second resume after
    the first fails or succeeds.
  - Two application frames let replay and the pending flush
    interleave.
  - One keepalive and one server frame reach the keepalive clamp and
    stale stream frames.
  - `MaxQueued` = 1 bounds the frames read into the event-base queue;
    a terminal task can still wait behind a frame, which is the order
    the stale run needs.
  - A single stream id is enough: streams do not interact, and the
    properties quantify over ids.
- **ChannelRequester.**
  - `kMaxRequestN` is 2.
  - Requests are 1 or 3, so a request of 3 must be split into REQUEST_N
    frames of 2 and 1.
  - Up to 3 requests, items and peer frames reach every state of
    `state_` with allowance carried over.

- **RequestResponseRequester.**
  - Requests are 0, 1 and 2. A 0 is ignored. A 2 would be a wrong
    request-N if passed through.
  - The answers are NEXT|COMPLETE, a bare COMPLETE, and a malformed
    PAYLOAD, which reaches `errorStream`.
  - With 4 subscriber calls, request and cancel can come before, between
    and after the response.
- **StreamResponder.**
  - Initial N is 1, with two REQUEST_Ns of 1 or 2 and 3 items.
  - The producer can subscribe before or after each frame.
- **FramedWriter.**
  - Lengths are 0, 256, 65535, 16777211, 16777215 and 16777216. These
    sit at the byte boundaries, at the largest legacy body (the field
    counts itself), at the largest 1.0 body, and one past it.
  - Up to 3 frames are allowed, so a batch of two follows a single frame.

- **ConnectionAutomaton.**
  - Three transports: setup, and two resumptions, so a resume can be
    retried.
  - Two frames per side (`MaxFrames`) and stream ids 1 and 3: one stream
    opened and one REQUEST_N or CANCEL, or two streams; enough for a
    frame lost on a broken transport and one queued while disconnected.
  - One keepalive reaches the clamp on a server that does not track.
  - `ServerResumable` is both values, so refused RESUMEs happen.

- **RSocketServer.** Two connections: one can close while the server
  runs and the other can wait for SETUP across the destructor. Both
  violations need no more.

## Fairness

The client run assumes weak fairness of:

- `RunQueued`, because the event base runs every task it is given;
- the transport delivering the server's frames to the client
  (`ProcessFrame(t)`);
- the server answering SETUP or RESUME (`PeerAccept(t)`).

The server's reading of ordinary client frames (`PeerReceive(t)`) is not
assumed: `ResumeSettles` holds without it.

The rr run assumes weak fairness of the responder reading the
requester's frames (`PeerRead`), of it answering once (`PeerPayload` or
`PeerError`), and of the connection handing each inbound frame to the
stream (`DeliverFrame`). `RequestEventuallyEnds` is therefore a statement
about a responder that answers: the requester has no timeout of its own.

The ca run assumes weak fairness of `RunQueued`, `Accept`,
`ProcessFrame(t)`, `AcceptResume(t)` and `ClientReceive`, for the same
reasons: the event base runs its tasks, and the transport delivers and
reads what is on an open wire.

The RSocketServer runs assume weak fairness of `RunClose(c)`: an event
base runs what is posted to it. `ClosedConnectionsReleased` needs no
other fairness, because nothing in the code would remove a closed
connection however long it runs.

Transport failures and application calls are never assumed to happen.

## Not modelled

- Server mode of `RSocketStateMachine`: it is modelled in
  `ConnectionAutomaton`, whose server code is the same apart from SETUP
  and RESUME handling.
- In `ConnectionAutomaton`: connected/disconnected/closed listeners,
  `pauseStreams`/`resumeStreams`, stats, and the responder kinds that
  `handleUnknownStream` creates (one stream kind stands for them all).
- `pauseStream`/`resumeStream`. They only hand the subscriber to the
  request handler.
- `FramedWriter::requestImpl`. It forwards demand only.
- Frame serialization, `Payload`, and the TCP transport (I/O).
- In `RSocketServer`: `startAndPark`/`unpark` (they only block a
  thread), `ScheduledRSocketResponder` (it re-posts responder calls), and
  the protocol-version detection of the `ServerConnectionAcceptor`.
- `src/tck-test/server.cpp`: a test harness that answers from marble
  scripts on detached threads; its `MarbleProcessor` is not in the tree,
  and its connection list repeats `RSocketServer`'s pattern.
- yarpl (`src/yarpl`): `Single`, `Observables` and `Refcounted` only
  forward calls; the observer and subscriber base classes that hold the
  protocol state are not in the tree. `TestSubscriber` is test support.
- `RSocketClient` and the `RSocket` requester/responder API: thin
  wrappers that create a state machine and forward calls to it.

The hazards section of `PROJECT.json` lists what these omissions leave
unchecked.

## Plan for later sittings

1. Compose a stream module with `RSocketStateMachine`, so that stream
   frames and resumption interact.
2. Add a property that a `closeWithError` while disconnected loses its
   ERROR frame.
3. The project uses every run slot it may have. A further component
   (the client-initiated half of `handleUnknownStream` in
   `RSocketStateMachine`, `RSocketClient::connect`, whose `rsockets_`
   also only grows) needs a run merged or retired first.
4. `FramedWriter::onNextMultiple` (line 109) after a cancel: no caller is
   in this tree, so whether upstream stops calling it is unknown.

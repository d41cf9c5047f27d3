--------------------------- MODULE ChannelRequester ---------------------------
(***************************************************************************)
(* The requester side of a request-channel stream (ChannelRequester.cpp)   *)
(* with the parts of its bases it drives: StreamStateMachineBase (frame    *)
(* writers; closeStream goes through the connection's endStream, which     *)
(* unregisters the stream before calling its endStream), ConsumerBase      *)
(* (inbound allowance and REQUEST_N generation) and PublisherBase (the     *)
(* local producer's subscription).  The other ends are the application     *)
(* (local producer and consumer) and the responder; the connection         *)
(* delivers a frame only to a registered stream.                           *)
(*                                                                         *)
(* The stream's fields are one record `rq`, so that a handler that calls   *)
(* several helpers in sequence is a composition of operators.              *)
(***************************************************************************)
EXTENDS Integers, Sequences, SequencesExt

CONSTANTS
    kMaxRequestN,     \* Frame_REQUEST_N::kMaxRequestN
    RequestNs,        \* values the application passes to request(n)
    MaxRequests,      \* bound on request(n) calls
    MaxItems,         \* bound on items the local producer emits
    MaxPeerFrames     \* bound on frames the responder sends

ASSUME kMaxRequestN \in Nat \ {0} /\ RequestNs \subseteq Nat \ {0}

VARIABLES
    rq,     \* the stream state machine and its bases
    app,    \* the application: [requested, requests, items]
    peer    \* the responder: [credit it has seen, payloads sent, frames sent, done]

vars == <<rq, app, peer>>

Frame(t, n) == [type |-> t, n |-> n]

Min2(a, b) == IF a < b THEN a ELSE b

-----------------------------------------------------------------------------
(* StreamStateMachineBase and ConsumerBase / PublisherBase helpers (their  *)
(* sources are not in this tree).                                          *)
(***************************************************************************)
\* connection_->write*(streamId_, ...)
WriteFrame(r, t, n) == [r EXCEPT !.written = Append(@, Frame(t, n))]

\* ConsumerBase::sendRequests: sync at most kMaxRequestN of the pending
\* allowance with one REQUEST_N.
SendRequests(r) ==
    LET toSync == Min2(r.pendingAllowance, kMaxRequestN)
        r1 == [r EXCEPT !.pendingAllowance = @ - toSync]
    IN IF toSync > 0 THEN WriteFrame(r1, "REQUEST_N", toSync) ELSE r1

\* ConsumerBase::generateRequest(n)
GenerateRequest(r, n) ==
    SendRequests([r EXCEPT !.allowance = @ + n, !.pendingAllowance = @ + n])

\* ConsumerBase::addImplicitAllowance(n)
AddImplicitAllowance(r, n) == [r EXCEPT !.allowance = @ + n]

\* ConsumerBase::processPayload: a NEXT payload uses one unit of allowance,
\* tops the remote end up and is delivered to the consumer.
ProcessPayload(r, next) ==
    IF next /\ r.consumer = "active"
    THEN SendRequests([r EXCEPT !.allowance = @ - 1, !.delivered = @ + 1])
    ELSE r

\* ConsumerBase::onError / endStream: the consumer's one terminal signal.
ConsumerTerminate(r) ==
    IF r.consumer = "active"
    THEN [r EXCEPT !.consumer = "done", !.ends = Append(@, "consumer")]
    ELSE r

\* PublisherBase::terminatePublisher: cancel the local producer's
\* subscription if there still is one.
TerminatePublisher(r) ==
    IF r.publisher = "subscribed"
    THEN [r EXCEPT !.publisher = "cancelled", !.ends = Append(@, "publisher")]
    ELSE r

-----------------------------------------------------------------------------
(* ChannelRequester.                                                       *)
(***************************************************************************)
\* Fault: endStream leaves the local producer's subscription live.
EndStreamKeepsPublisher(r) ==
    ConsumerTerminate([r EXCEPT !.state = "CLOSED"])

\* endStream: NEW and REQUESTED go to CLOSED, then the publisher half and
\* then the consumer half are terminated.
EndStream(r) ==
    ConsumerTerminate(TerminatePublisher(
        [r EXCEPT !.state = "CLOSED"]))

\* closeStream -> RSocketStateMachine::endStream -> endStreamInternal:
\* erase from the map, then call endStream; a second call finds nothing.
CloseStream(r) ==
    IF r.registered THEN EndStream([r EXCEPT !.registered = FALSE]) ELSE r

\* completeStream / cancelStream / applicationError: the terminal frame, then
\* closeStream.
CloseStreamWith(r, t) == CloseStream(WriteFrame(r, t, 0))

\* request(n)
Request(r, n) ==
    CASE r.state = "NEW"       -> [r EXCEPT !.initialResponseAllowance = @ + n]
      [] r.state = "REQUESTED" -> GenerateRequest(r, n)
      [] r.state = "CLOSED"    -> r

\* Fault: the allowance beyond the initial frame is dropped.
OnNextDropsRemainder(r) ==
    CASE r.state = "NEW" ->
            LET initialN == Min2(r.initialResponseAllowance, kMaxRequestN)
                r1 == WriteFrame([r EXCEPT !.state = "REQUESTED", !.initialResponseAllowance = 0],
                                 "REQUEST_CHANNEL", initialN)
            IN AddImplicitAllowance(r1, initialN)
      [] r.state = "REQUESTED" -> WriteFrame(r, "PAYLOAD", 0)
      [] r.state = "CLOSED" -> r

\* Fault: ConsumerBase is not told about the initial frame's allowance.
OnNextNoImplicitAllowance(r) ==
    CASE r.state = "NEW" ->
            LET initialN   == Min2(r.initialResponseAllowance, kMaxRequestN)
                remainingN == r.initialResponseAllowance - initialN
                r1 == WriteFrame([r EXCEPT !.state = "REQUESTED", !.initialResponseAllowance = 0],
                                 "REQUEST_CHANNEL", initialN)
            IN IF remainingN > 0 THEN GenerateRequest(r1, remainingN) ELSE r1
      [] r.state = "REQUESTED" -> WriteFrame(r, "PAYLOAD", 0)
      [] r.state = "CLOSED" -> r

\* onNext: the first item opens the stream with as much of the accumulated
\* allowance as fits in the initial frame; the rest goes out afterwards.
OnNext(r) ==
    CASE r.state = "NEW" ->
            LET initialN   == Min2(r.initialResponseAllowance, kMaxRequestN)
                remainingN == r.initialResponseAllowance - initialN
                r1 == WriteFrame([r EXCEPT !.state = "REQUESTED", !.initialResponseAllowance = 0],
                                 "REQUEST_CHANNEL", initialN)
                r2 == AddImplicitAllowance(r1, initialN)
            IN IF remainingN > 0 THEN GenerateRequest(r2, remainingN) ELSE r2
      [] r.state = "REQUESTED" -> WriteFrame(r, "PAYLOAD", 0)
      [] r.state = "CLOSED" -> r

\* Fault: an un-started stream also writes a COMPLETE frame.
OnCompleteWritesInNew(r) ==
    CASE r.state = "NEW"       -> CloseStreamWith([r EXCEPT !.state = "CLOSED"], "COMPLETE")
      [] r.state = "REQUESTED" -> CloseStreamWith([r EXCEPT !.state = "CLOSED"], "COMPLETE")
      [] r.state = "CLOSED"    -> r

\* onComplete
OnComplete(r) ==
    CASE r.state = "NEW"       -> CloseStream([r EXCEPT !.state = "CLOSED"])
      [] r.state = "REQUESTED" -> CloseStreamWith([r EXCEPT !.state = "CLOSED"], "COMPLETE")
      [] r.state = "CLOSED"    -> r

\* onError: REQUESTED reports an application error and leaves state_ to
\* endStream.
OnError(r) ==
    CASE r.state = "NEW"       -> CloseStream([r EXCEPT !.state = "CLOSED"])
      [] r.state = "REQUESTED" -> CloseStreamWith(r, "APPLICATION_ERROR")
      [] r.state = "CLOSED"    -> r

\* cancel
Cancel(r) ==
    CASE r.state = "NEW"       -> CloseStream([r EXCEPT !.state = "CLOSED"])
      [] r.state = "REQUESTED" -> CloseStreamWith([r EXCEPT !.state = "CLOSED"], "CANCEL")
      [] r.state = "CLOSED"    -> r

\* handlePayload: a COMPLETE payload is processed and then closes the stream.
HandlePayload(r, complete, next) ==
    LET end == r.state = "REQUESTED" /\ complete
        r1  == ProcessPayload(IF end THEN [r EXCEPT !.state = "CLOSED"] ELSE r, next)
    IN IF end THEN CloseStream(r1) ELSE r1

\* handleError: the consumer is told first, then the stream is closed.
HandleError(r) ==
    IF r.state = "REQUESTED"
    THEN CloseStream(ConsumerTerminate([r EXCEPT !.state = "CLOSED"]))
    ELSE r

\* handleRequestN -> PublisherBase::processRequestN: more demand for the
\* local producer.
HandleRequestN(r, n) ==
    IF r.publisher = "subscribed" THEN [r EXCEPT !.demand = @ + n] ELSE r

\* onSubscribe from the local producer: CHECK(NEW == state_) comes first; a
\* terminated consumer cancels the subscription, otherwise it is kept and
\* one item is requested.
OnSubscribe(r) ==
    IF r.state # "NEW" THEN [r EXCEPT !.aborted = TRUE]
    ELSE IF r.consumer # "active" THEN [r EXCEPT !.publisher = "cancelled"]
    ELSE [r EXCEPT !.publisher = "subscribed", !.demand = 1]

-----------------------------------------------------------------------------
Init ==
    /\ rq = [state |-> "NEW", initialResponseAllowance |-> 0,
             allowance |-> 0, pendingAllowance |-> 0, consumer |-> "active",
             publisher |-> "none", demand |-> 0, registered |-> TRUE,
             written |-> <<>>, delivered |-> 0, ends |-> <<>>, aborted |-> FALSE]
    /\ app = [requested |-> 0, requests |-> 0, items |-> 0]
    /\ peer = [payloads |-> 0, frames |-> 0, done |-> FALSE]

\* A CHECK failure aborts the process: nothing happens after it.
Running == ~rq.aborted

\* Total demand the stream has advertised: initial N plus every REQUEST_N.
Advertised ==
    FoldLeft(LAMBDA acc, f : IF f.type \in {"REQUEST_CHANNEL", "REQUEST_N"} THEN acc + f.n ELSE acc,
             0, rq.written)

Opened == \E i \in DOMAIN rq.written : rq.written[i].type = "REQUEST_CHANNEL"

\* Local application: the producer's signals and the consumer's subscription
\* calls, all run on the event base (SubscriptionBase marshals them).
AppOnSubscribe ==
    /\ Running /\ rq.publisher = "none"
    /\ rq' = OnSubscribe(rq)
    /\ UNCHANGED <<app, peer>>

AppOnNext ==
    /\ Running /\ rq.publisher = "subscribed" /\ rq.demand > 0
    /\ app.items < MaxItems
    /\ rq' = OnNext([rq EXCEPT !.demand = @ - 1])
    /\ app' = [app EXCEPT !.items = @ + 1]
    /\ UNCHANGED peer

AppOnComplete ==
    /\ Running /\ rq.publisher = "subscribed"
    /\ rq' = OnComplete([rq EXCEPT !.publisher = "finished"])
    /\ UNCHANGED <<app, peer>>

AppOnError ==
    /\ Running /\ rq.publisher = "subscribed"
    /\ rq' = OnError([rq EXCEPT !.publisher = "finished"])
    /\ UNCHANGED <<app, peer>>

AppRequest(n) ==
    /\ Running /\ rq.consumer = "active"
    /\ app.requests < MaxRequests
    /\ rq' = Request(rq, n)
    /\ app' = [app EXCEPT !.requests = @ + 1, !.requested = @ + n]
    /\ UNCHANGED peer

AppCancel ==
    /\ Running /\ rq.consumer = "active"
    /\ rq' = Cancel(rq)
    /\ UNCHANGED <<app, peer>>

\* The responder, through the connection: it has seen the REQUEST_CHANNEL,
\* sends a NEXT payload only within the demand it was given, and stops
\* after its own terminal frame.
PeerCanSend ==
    /\ Running /\ rq.registered /\ Opened /\ ~peer.done
    /\ peer.frames < MaxPeerFrames

PeerPayload(complete, next) ==
    /\ PeerCanSend
    /\ next => peer.payloads < Advertised
    /\ complete \/ next
    /\ rq' = HandlePayload(rq, complete, next)
    /\ peer' = [peer EXCEPT !.payloads = @ + (IF next THEN 1 ELSE 0),
                            !.frames = @ + 1, !.done = complete]
    /\ UNCHANGED app

PeerError ==
    /\ PeerCanSend
    /\ rq' = HandleError(rq)
    /\ peer' = [peer EXCEPT !.frames = @ + 1, !.done = TRUE]
    /\ UNCHANGED app

PeerRequestN(n) ==
    /\ PeerCanSend
    /\ rq' = HandleRequestN(rq, n)
    /\ peer' = [peer EXCEPT !.frames = @ + 1]
    /\ UNCHANGED app

\* The connection closes (closeStreams): endStreamInternal unregisters the
\* stream and calls endStream.
ConnectionClose ==
    /\ Running /\ rq.registered
    /\ rq' = EndStream([rq EXCEPT !.registered = FALSE])
    /\ UNCHANGED <<app, peer>>

Next ==
    \/ AppOnSubscribe \/ AppOnNext \/ AppOnComplete \/ AppOnError \/ AppCancel
    \/ \E n \in RequestNs : AppRequest(n) \/ PeerRequestN(n)
    \/ \E c, x \in BOOLEAN : PeerPayload(c, x)
    \/ PeerError
    \/ ConnectionClose

Spec == Init /\ [][Next]_vars
-----------------------------------------------------------------------------
(* Properties.                                                             *)
(***************************************************************************)
FrameTypes == {"REQUEST_CHANNEL", "REQUEST_N", "PAYLOAD", "COMPLETE", "CANCEL", "APPLICATION_ERROR"}
TerminalTypes == {"COMPLETE", "CANCEL", "APPLICATION_ERROR"}

TypeOK ==
    /\ rq.state \in {"NEW", "REQUESTED", "CLOSED"}
    /\ rq.initialResponseAllowance \in Nat /\ rq.allowance \in Nat /\ rq.pendingAllowance \in Nat
    /\ rq.consumer \in {"active", "done"}
    /\ rq.publisher \in {"none", "subscribed", "cancelled", "finished"}
    /\ rq.written \in Seq([type : FrameTypes, n : Nat])
    /\ rq.registered \in BOOLEAN

\* Flow-control conservation (clamp and carry): while the stream is open,
\* every unit of demand the consumer asked for with request(n) has either
\* been advertised to the responder (REQUEST_CHANNEL's initial N plus the
\* REQUEST_N frames ConsumerBase sends) or is still held, in
\* initialResponseAllowance_ before the first item or in the pending
\* allowance after it; none is lost or advertised twice.
DemandConserved ==
    rq.state # "CLOSED" =>
        app.requested = Advertised + rq.initialResponseAllowance + rq.pendingAllowance

\* The frames the requester writes form a legal stream: REQUEST_CHANNEL
\* first and once, its N and every REQUEST_N within the wire's bound (a
\* REQUEST_N is never 0), and nothing after a terminal frame.
WireSequenceLegal ==
    \A i \in DOMAIN rq.written :
        LET f == rq.written[i] IN
        /\ (i = 1) = (f.type = "REQUEST_CHANNEL")
        /\ f.type = "REQUEST_CHANNEL" => f.n <= kMaxRequestN
        /\ f.type = "REQUEST_N" => f.n \in 1..kMaxRequestN
        /\ f.type \in TerminalTypes => i = Len(rq.written)

\* The stream stays in the connection's map exactly as long as its local
\* consumer has not been given a terminal signal, and once it has left the
\* map the local producer's subscription is no longer live.
RegisteredUntilTerminated ==
    /\ rq.registered = (rq.consumer = "active")
    /\ ~rq.registered => rq.publisher # "subscribed"

\* The producer's onSubscribe never fails its CHECK(NEW == state_).
OnSubscribeNeverAborts == ~rq.aborted
=============================================================================

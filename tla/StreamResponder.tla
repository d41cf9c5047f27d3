--------------------------- MODULE StreamResponder ---------------------------
(***************************************************************************)
(* The responder side of a request-stream (StreamResponder.cpp) with the   *)
(* PublisherBase part it drives: the demand the requester granted (the     *)
(* REQUEST_STREAM's initial N, then REQUEST_N frames) is held until the    *)
(* local producer subscribes and then forwarded to it.  The producer is    *)
(* handed the stream by the request handler and subscribes whenever it     *)
(* likes, so the connection may close, or the requester cancel, first.     *)
(* Once cancelled, a producer may still deliver signals already in flight. *)
(*                                                                         *)
(* The stream is one record `sr`; closeStream goes through the             *)
(* connection's endStream, which erases the stream and then calls its      *)
(* endStream.                                                              *)
(***************************************************************************)
EXTENDS Naturals, Sequences

CONSTANTS
    InitialN,      \* the REQUEST_STREAM's initial request-N
    RequestNs,     \* values of the requester's REQUEST_N frames
    MaxRequestNs,  \* bound on REQUEST_N frames
    MaxItems       \* bound on items the producer emits

ASSUME InitialN \in Nat /\ RequestNs \subseteq Nat \ {0}

VARIABLES
    sr,    \* the stream state machine and its bases
    app,   \* the producer: [items emitted]
    peer   \* the requester: [REQUEST_N frames sent, cancelled]

vars == <<sr, app, peer>>

-----------------------------------------------------------------------------
(* StreamStateMachineBase and PublisherBase helpers (their sources are not *)
(* in this tree).                                                          *)
(***************************************************************************)
\* connection_->writePayload / writeCloseStream
WriteFrame(r, t) == [r EXCEPT !.written = Append(@, t)]

\* PublisherBase::publisherSubscribe: keep the subscription and request the
\* allowance accumulated so far.
PublisherSubscribe(r) ==
    [r EXCEPT !.publisher = "subscribed", !.demand = @ + r.pending, !.pending = 0]

\* PublisherBase::processRequestN: forward to the producer, or accumulate
\* until it subscribes.
ProcessRequestN(r, n) ==
    CASE r.publisher = "subscribed" -> [r EXCEPT !.demand = @ + n]
      [] r.publisher = "none"       -> [r EXCEPT !.pending = @ + n]
      [] OTHER                      -> r

\* PublisherBase::terminatePublisher: cancel a live subscription.
TerminatePublisher(r) ==
    IF r.publisher = "subscribed" THEN [r EXCEPT !.publisher = "cancelled"] ELSE r

\* RSocketStateMachine::endStreamInternal's erase from the map.
Unregister(r) == [r EXCEPT !.registered = FALSE]

-----------------------------------------------------------------------------
(* StreamResponder.                                                        *)
(***************************************************************************)
\* endStream: CLOSED, cancel the producer, mark the base terminated.
EndStream(r) ==
    [TerminatePublisher([r EXCEPT !.state = "CLOSED"]) EXCEPT !.terminated = TRUE]

\* closeStream -> RSocketStateMachine::endStream -> endStreamInternal:
\* erase, then endStream; a second call finds nothing.
CloseStream(r) == IF r.registered THEN EndStream(Unregister(r)) ELSE r

\* Fault: onSubscribe keeps the subscription of a terminated stream.
OnSubscribeIgnoresTerminated(r) == PublisherSubscribe(r)

\* onSubscribe: a terminated stream cancels the subscription at once.
OnSubscribe(r) ==
    IF r.terminated THEN [r EXCEPT !.publisher = "cancelled"] ELSE PublisherSubscribe(r)

\* Fault: onNext writes whatever the state.
OnNextIgnoresState(r) == WriteFrame(r, "PAYLOAD")

\* onNext: a NEXT payload while RESPONDING, dropped once CLOSED.
OnNext(r) == IF r.state = "RESPONDING" THEN WriteFrame(r, "PAYLOAD") ELSE r

\* onComplete: COMPLETE on the wire, then closeStream (completeStream).
OnComplete(r) ==
    IF r.state = "RESPONDING"
    THEN CloseStream(WriteFrame([r EXCEPT !.state = "CLOSED"], "COMPLETE"))
    ELSE r

\* onError: APPLICATION_ERROR on the wire, then closeStream
\* (applicationError).
OnError(r) ==
    IF r.state = "RESPONDING"
    THEN CloseStream(WriteFrame([r EXCEPT !.state = "CLOSED"], "APPLICATION_ERROR"))
    ELSE r

\* Fault: handleCancel answers with a CANCEL of its own (cancelStream).
HandleCancelEchoes(r) ==
    IF r.state = "RESPONDING"
    THEN CloseStream(WriteFrame([r EXCEPT !.state = "CLOSED"], "CANCEL"))
    ELSE r

\* handleCancel: CLOSED, then closeStream(CANCEL); nothing is written.
HandleCancel(r) ==
    IF r.state = "RESPONDING" THEN CloseStream([r EXCEPT !.state = "CLOSED"]) ELSE r

\* Fault: handleRequestN hands demand only to a subscribed producer.
HandleRequestNDirect(r, n) ==
    IF r.publisher = "subscribed" THEN [r EXCEPT !.demand = @ + n] ELSE r

\* handleRequestN -> PublisherBase::processRequestN.
HandleRequestN(r, n) == ProcessRequestN(r, n)

-----------------------------------------------------------------------------
\* The constructor: RESPONDING, registered, PublisherBase(initialRequestN).
Init ==
    /\ sr = [state |-> "RESPONDING", registered |-> TRUE, terminated |-> FALSE,
             publisher |-> "none", pending |-> InitialN, demand |-> 0,
             received |-> InitialN, written |-> <<>>, cancelHandled |-> FALSE,
             afterCancel |-> 0]
    /\ app = [items |-> 0]
    /\ peer = [requestNs |-> 0, cancelled |-> FALSE]

\* Counts what is written after the requester's CANCEL was handled.
Written(r, r1) ==
    IF r.cancelHandled
    THEN [r1 EXCEPT !.afterCancel = @ + (Len(r1.written) - Len(r.written))]
    ELSE r1

\* The producer subscribes once.
AppOnSubscribe ==
    /\ sr.publisher = "none"
    /\ sr' = OnSubscribe(sr)
    /\ UNCHANGED <<app, peer>>

\* The producer emits within the demand it was given; a cancelled producer
\* may still deliver a signal that was in flight.
AppOnNext ==
    /\ sr.publisher \in {"subscribed", "cancelled"} /\ sr.demand > 0
    /\ app.items < MaxItems
    /\ sr' = Written(sr, OnNext([sr EXCEPT !.demand = @ - 1]))
    /\ app' = [app EXCEPT !.items = @ + 1]
    /\ UNCHANGED peer

AppOnComplete ==
    /\ sr.publisher \in {"subscribed", "cancelled"}
    /\ sr' = Written(sr, OnComplete([sr EXCEPT !.publisher = "finished"]))
    /\ UNCHANGED <<app, peer>>

AppOnError ==
    /\ sr.publisher \in {"subscribed", "cancelled"}
    /\ sr' = Written(sr, OnError([sr EXCEPT !.publisher = "finished"]))
    /\ UNCHANGED <<app, peer>>

\* The requester's frames; the connection hands them over only while the
\* stream is in its map.
PeerRequestN(n) ==
    /\ ~peer.cancelled /\ peer.requestNs < MaxRequestNs
    /\ sr' = IF sr.registered THEN [HandleRequestN(sr, n) EXCEPT !.received = @ + n] ELSE sr
    /\ peer' = [peer EXCEPT !.requestNs = @ + 1]
    /\ UNCHANGED app

PeerCancel ==
    /\ ~peer.cancelled
    /\ sr' = IF sr.registered
             THEN Written(sr, [HandleCancel(sr) EXCEPT !.cancelHandled = TRUE])
             ELSE sr
    /\ peer' = [peer EXCEPT !.cancelled = TRUE]
    /\ UNCHANGED app

\* The connection closes (closeStreams -> endStreamInternal).
ConnectionClose ==
    /\ sr.registered
    /\ sr' = EndStream(Unregister(sr))
    /\ UNCHANGED <<app, peer>>

Next ==
    \/ AppOnSubscribe \/ AppOnNext \/ AppOnComplete \/ AppOnError
    \/ \E n \in RequestNs : PeerRequestN(n)
    \/ PeerCancel
    \/ ConnectionClose

Spec == Init /\ [][Next]_vars
-----------------------------------------------------------------------------
(* Properties.                                                             *)
(***************************************************************************)
TypeOK ==
    /\ sr.state \in {"RESPONDING", "CLOSED"}
    /\ sr.publisher \in {"none", "subscribed", "cancelled", "finished"}
    /\ sr.pending \in Nat /\ sr.demand \in Nat
    /\ sr.written \in Seq({"PAYLOAD", "COMPLETE", "APPLICATION_ERROR"})

\* Nothing follows a terminal frame, and once the requester's CANCEL has
\* been handled the responder writes nothing more, even when the producer
\* delivers an item or a completion that crossed the cancellation.
NothingAfterTerminal ==
    /\ \A i \in DOMAIN sr.written :
          sr.written[i] # "PAYLOAD" => i = Len(sr.written)
    /\ sr.afterCancel = 0

\* A stream that has left the connection's map never leaves a live
\* subscription behind, also when the producer subscribes only after the
\* connection closed or the requester cancelled.
ProducerReleased == ~sr.registered => sr.publisher # "subscribed"

\* While the stream responds, all the demand the requester granted is
\* accounted for: held until the producer subscribes, requested from it,
\* or spent on an item.
DemandForwarded ==
    sr.state = "RESPONDING" => sr.received = sr.pending + sr.demand + app.items
=============================================================================

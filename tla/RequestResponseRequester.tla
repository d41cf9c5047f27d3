---------------------- MODULE RequestResponseRequester ----------------------
(***************************************************************************)
(* The requester side of a request-response stream                         *)
(* (RequestResponseRequester.cpp) between its local subscriber and a       *)
(* responder on the other end of the connection.                           *)
(*                                                                         *)
(* The stream is one record `rr`.  The connection hands an inbound frame   *)
(* to the stream only while the stream is in its map; closeStream goes     *)
(* through the connection's endStream, which erases the stream and then    *)
(* calls its endStream, so a second closeStream finds nothing.  Frames     *)
(* cross the wire in order in both directions, so a responder's answer     *)
(* and the requester's CANCEL can cross.                                   *)
(***************************************************************************)
EXTENDS Naturals, Sequences

CONSTANTS
    RequestNs,    \* values the subscriber passes to request(n), 0 included
    PeerAnswers,  \* PAYLOAD flag sets the responder may answer with
    MaxCalls      \* bound on the subscriber's request/cancel calls

ASSUME RequestNs \subseteq Nat /\ MaxCalls \in Nat
ASSUME PeerAnswers \subseteq [payload : BOOLEAN, next : BOOLEAN, complete : BOOLEAN]

VARIABLES
    rr,       \* the stream state machine
    inbound,  \* frames the responder sent that the requester has not handled
    peer,     \* the responder: [read, answered, cancelled]
    calls     \* subscriber calls made so far

vars == <<rr, inbound, peer, calls>>

Frame(t, n) == [type |-> t, n |-> n]

NoFlags == [payload |-> FALSE, next |-> FALSE, complete |-> FALSE]

-----------------------------------------------------------------------------
(* StreamStateMachineBase helpers (their source is not in this tree).      *)
(***************************************************************************)
\* connection_->writeNewStream / writeCloseStream
WriteFrame(r, t, n) == [r EXCEPT !.written = Append(@, Frame(t, n))]

\* A signal to consumingSubscriber_, which is then released.
SignalSubscriber(r, sig) ==
    IF r.subscriber = "held"
    THEN [r EXCEPT !.subscriber = "released", !.signals = Append(@, sig)]
    ELSE r

-----------------------------------------------------------------------------
(* RequestResponseRequester.                                               *)
(***************************************************************************)
\* Fault: endStream signals the subscriber but keeps it.
EndStreamKeepsSubscriber(r, signal) ==
    LET r1 == [r EXCEPT !.state = "CLOSED"] IN
    IF r1.subscriber = "held"
    THEN [r1 EXCEPT !.signals = Append(@, IF signal \in {"COMPLETE", "CANCEL"}
                                         THEN "onComplete" ELSE "onError")]
    ELSE r1

\* endStream: CLOSED, then the subscriber (if still held) is completed on
\* COMPLETE or CANCEL and errored otherwise.
EndStream(r, signal) ==
    SignalSubscriber([r EXCEPT !.state = "CLOSED"],
                     IF signal \in {"COMPLETE", "CANCEL"} THEN "onComplete" ELSE "onError")

\* closeStream -> RSocketStateMachine::endStream -> endStreamInternal.
CloseStream(r, signal) ==
    IF r.registered THEN EndStream([r EXCEPT !.registered = FALSE], signal) ELSE r

\* cancelStream: CANCEL on the wire, then closeStream(CANCEL).
CancelStream(r) == CloseStream(WriteFrame(r, "CANCEL", 0), "CANCEL")

\* errorStream: ERROR on the wire, then closeStream(ERROR).
ErrorStream(r) == CloseStream(WriteFrame(r, "ERROR", 0), "ERROR")

\* Fault: the subscriber's n is passed as the initial request-N.
RequestPassesN(r, n) ==
    CASE n = 0 -> r
      [] r.state = "NEW" -> WriteFrame([r EXCEPT !.state = "REQUESTED"], "REQUEST_RESPONSE", n)
      [] OTHER -> CloseStream(SignalSubscriber(r, "onError"), "ERROR")

\* request(n): the first non-zero request writes REQUEST_RESPONSE (newStream
\* with request-N 1); any later one errors the subscriber and closes.
Request(r, n) ==
    CASE n = 0 -> r
      [] r.state = "NEW" -> WriteFrame([r EXCEPT !.state = "REQUESTED"], "REQUEST_RESPONSE", 1)
      [] OTHER -> CloseStream(SignalSubscriber(r, "onError"), "ERROR")

\* Fault: cancel after the request writes CANCEL but leaves the stream in
\* the map.
CancelNoClose(r) ==
    CASE r.state = "NEW"       -> CloseStream([r EXCEPT !.state = "CLOSED"], "CANCEL")
      [] r.state = "REQUESTED" -> WriteFrame([r EXCEPT !.state = "CLOSED"], "CANCEL", 0)
      [] r.state = "CLOSED"    -> r

\* cancel
Cancel(r) ==
    CASE r.state = "NEW"       -> CloseStream([r EXCEPT !.state = "CLOSED"], "CANCEL")
      [] r.state = "REQUESTED" -> CancelStream([r EXCEPT !.state = "CLOSED"])
      [] r.state = "CLOSED"    -> r

\* handleError: CHECK(false) in NEW; REQUESTED errors the subscriber, then
\* closes.
HandleError(r) ==
    CASE r.state = "NEW"       -> [r EXCEPT !.aborted = TRUE]
      [] r.state = "REQUESTED" -> CloseStream(SignalSubscriber([r EXCEPT !.state = "CLOSED"], "onError"), "ERROR")
      [] r.state = "CLOSED"    -> r

\* Fault: the return of the stream-error branch also skips closeStream for
\* a bare COMPLETE.
HandlePayloadCompleteNoClose(r, a) ==
    IF r.state # "REQUESTED" THEN [r EXCEPT !.aborted = TRUE]
    ELSE LET r1 == [r EXCEPT !.state = "CLOSED"] IN
         CASE a.payload \/ a.next ->
                IF r1.subscriber # "held" THEN [r1 EXCEPT !.aborted = TRUE]
                ELSE CloseStream([r1 EXCEPT !.signals = Append(@, "onNext")], "COMPLETE")
           [] ~a.complete -> ErrorStream(r1)
           [] OTHER -> r1

\* handlePayload: CHECK(false) unless REQUESTED.  A payload or NEXT goes to
\* consumingSubscriber_->onNext (a released subscriber is a null
\* dereference), a frame with neither and no COMPLETE is a stream error,
\* and the stream then closes with COMPLETE.
HandlePayload(r, a) ==
    IF r.state # "REQUESTED" THEN [r EXCEPT !.aborted = TRUE]
    ELSE LET r1 == [r EXCEPT !.state = "CLOSED"] IN
         CASE a.payload \/ a.next ->
                IF r1.subscriber # "held" THEN [r1 EXCEPT !.aborted = TRUE]
                ELSE CloseStream([r1 EXCEPT !.signals = Append(@, "onNext")], "COMPLETE")
           [] ~a.complete -> ErrorStream(r1)
           [] OTHER -> CloseStream(r1, "COMPLETE")

-----------------------------------------------------------------------------
(* The subscriber, created by subscribe(): it holds the subscription and   *)
(* has been given onSubscribe.                                             *)
(***************************************************************************)
Init ==
    /\ rr = [state |-> "NEW", subscriber |-> "held", signals |-> <<"onSubscribe">>,
             registered |-> TRUE, written |-> <<>>, aborted |-> FALSE, endedBy |-> "none"]
    /\ inbound = <<>>
    /\ peer = [read |-> 0, answered |-> FALSE, cancelled |-> FALSE]
    /\ calls = 0

Running == ~rr.aborted

\* Records who took the stream out of the connection's map.
Ended(r, r1, who) ==
    IF r.registered /\ ~r1.registered THEN [r1 EXCEPT !.endedBy = who] ELSE r1

\* Subscription calls are marshaled onto the event base; a subscriber may
\* call them at any time, also after its terminal signal.
AppRequest(n) ==
    /\ Running /\ calls < MaxCalls
    /\ rr' = Ended(rr, Request(rr, n), "requester")
    /\ calls' = calls + 1
    /\ UNCHANGED <<inbound, peer>>

AppCancel ==
    /\ Running /\ calls < MaxCalls
    /\ rr' = Ended(rr, Cancel(rr), "requester")
    /\ calls' = calls + 1
    /\ UNCHANGED <<inbound, peer>>

\* The responder reads the requester's frames in order; CANCEL or ERROR
\* stops it.
PeerRead ==
    /\ Running /\ peer.read < Len(rr.written)
    /\ peer' = [peer EXCEPT !.read = @ + 1,
                            !.cancelled = @ \/ rr.written[peer.read + 1].type \in {"CANCEL", "ERROR"}]
    /\ UNCHANGED <<rr, inbound, calls>>

\* The responder answers a request it has read once, unless cancelled.
PeerCanAnswer == Running /\ peer.read >= 1 /\ ~peer.answered /\ ~peer.cancelled

PeerPayload(a) ==
    /\ PeerCanAnswer
    /\ inbound' = Append(inbound, [type |-> "PAYLOAD", flags |-> a])
    /\ peer' = [peer EXCEPT !.answered = TRUE]
    /\ UNCHANGED <<rr, calls>>

PeerError ==
    /\ PeerCanAnswer
    /\ inbound' = Append(inbound, [type |-> "ERROR", flags |-> NoFlags])
    /\ peer' = [peer EXCEPT !.answered = TRUE]
    /\ UNCHANGED <<rr, calls>>

\* handleStreamFrame: the next inbound frame goes to the stream if it is
\* still in the map, and is ignored otherwise.
DeliverFrame ==
    /\ Running /\ inbound # <<>>
    /\ LET f == Head(inbound) IN
       rr' = IF ~rr.registered THEN rr
             ELSE Ended(rr, IF f.type = "ERROR" THEN HandleError(rr) ELSE HandlePayload(rr, f.flags),
                        "responder")
    /\ inbound' = Tail(inbound)
    /\ UNCHANGED <<peer, calls>>

\* The connection closes (closeStreams -> endStreamInternal).
ConnectionClose ==
    /\ Running /\ rr.registered
    /\ rr' = Ended(rr, EndStream([rr EXCEPT !.registered = FALSE], "ERROR"), "connection")
    /\ UNCHANGED <<inbound, peer, calls>>

Next ==
    \/ \E n \in RequestNs : AppRequest(n)
    \/ AppCancel
    \/ PeerRead
    \/ \E a \in PeerAnswers : PeerPayload(a)
    \/ PeerError
    \/ DeliverFrame
    \/ ConnectionClose

\* The responder reads and answers what reaches it, and the connection
\* hands every inbound frame to handleStreamFrame.  The subscriber's calls
\* and a connection close are never assumed to happen.
Fairness ==
    /\ WF_vars(PeerRead)
    /\ WF_vars(PeerError \/ \E a \in PeerAnswers : PeerPayload(a))
    /\ WF_vars(DeliverFrame)

Spec == Init /\ [][Next]_vars /\ Fairness
-----------------------------------------------------------------------------
(* Properties.                                                             *)
(***************************************************************************)
Signals == {"onSubscribe", "onNext", "onComplete", "onError"}
FrameTypes == {"REQUEST_RESPONSE", "CANCEL", "ERROR"}

TypeOK ==
    /\ rr.state \in {"NEW", "REQUESTED", "CLOSED"}
    /\ rr.subscriber \in {"held", "released"}
    /\ rr.signals \in Seq(Signals)
    /\ rr.written \in Seq([type : FrameTypes, n : {0, 1}])
    /\ rr.registered \in BOOLEAN /\ rr.endedBy \in {"none", "requester", "responder", "connection"}

\* Terminal-signal exclusivity: the subscriber sees onSubscribe, at most
\* one onNext, and then exactly one of onComplete / onError once the stream
\* has left the connection's map (endStream, handleError and request's
\* error path each release consumingSubscriber_ as they signal it), and
\* nothing after it, whatever the order of cancel, request, the response
\* and a connection close.
SubscriberSignalsLegal ==
    LET sig == rr.signals
        terminal(i) == sig[i] \in {"onComplete", "onError"}
    IN /\ sig[1] = "onSubscribe"
       /\ \A i \in 2..Len(sig) : sig[i] # "onSubscribe"
       /\ \A i \in DOMAIN sig : terminal(i) => i = Len(sig)
       /\ Len(SelectSeq(sig, LAMBDA x : x = "onNext")) <= 1
       /\ ~rr.registered = (Len(sig) > 0 /\ terminal(Len(sig)))

\* A response that crosses the requester's CANCEL is never handed to the
\* closed stream: handlePayload's and handleError's CHECK(false) and the
\* onNext on a released subscriber are never reached with a responder that
\* answers once and stops on CANCEL.
LateFrameNeverAborts == ~rr.aborted

\* A request that has been sent is always answered to the subscriber: once
\* request(n) wrote REQUEST_RESPONSE, the subscriber eventually receives
\* onComplete or onError, whichever of the answer's paths handlePayload
\* takes (data, bare COMPLETE, malformed PAYLOAD), and also when cancel,
\* a second request or a connection close ends the stream first.
RequestEventuallyEnds ==
    rr.state = "REQUESTED" ~>
        rr.signals[Len(rr.signals)] \in {"onComplete", "onError"}
=============================================================================

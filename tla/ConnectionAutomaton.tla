------------------------- MODULE ConnectionAutomaton -------------------------
(***************************************************************************)
(* The older connection automaton (ConnectionAutomaton.cpp) in SERVER      *)
(* mode, with the transports a client connects, the event base onto which  *)
(* processFrame / onTerminal marshal their work, and an honest resumable   *)
(* client.  Unlike its successor, this automaton handles SETUP and RESUME  *)
(* itself: a RESUME read on a new connection is handed (handleResume) to   *)
(* the session it names, which is detached from its old transport,         *)
(* attached to the new one and resumed with resumeFromPositionOrClose.     *)
(*                                                                         *)
(* The server's fields are one record `sv`; a handler is the composition   *)
(* of pure operators in the order the code calls them.  Frames are records *)
(* [type, sid, arg, flag]: `arg` is the position of KEEPALIVE, RESUME and  *)
(* RESUME_OK and a unique identity otherwise; RESUME's `flag` is its       *)
(* client position.                                                        *)
(***************************************************************************)
EXTENDS Integers, Sequences, SequencesExt, FiniteSets

CONSTANTS
    StreamIds,         \* stream ids the client opens, in increasing order
    ServerResumable,   \* values of the server's setResumable configuration
    MaxTransports,     \* transports the client may connect: 1 setup + resumes
    MaxFrames,         \* bound on frames each side's application produces
    MaxKeepalives,     \* bound on the client's keepalives
    MaxQueued          \* bound on tasks waiting on the event base

ASSUME StreamIds \subseteq Nat \ {0} /\ ServerResumable \subseteq BOOLEAN
ASSUME MaxTransports \in Nat \ {0} /\ MaxQueued \in Nat \ {0}

Transports == 1..MaxTransports

\* ResumeCache::shouldTrackFrame: stream-level frames and ERROR move the
\* positions; SETUP, KEEPALIVE, RESUME, RESUME_OK and METADATA_PUSH do not.
TrackedTypes == {"REQUEST_STREAM", "REQUEST_N", "CANCEL", "PAYLOAD", "ERROR"}
Tracked(f) == f.type \in TrackedTypes

Fr(t, sid, arg, flag) == [type |-> t, sid |-> sid, arg |-> arg, flag |-> flag]

\* An event-base task: processFrameImpl of a frame, the RESUME of a new
\* connection, or onTerminalImpl.
Task(kind, f, t) == [kind |-> kind, frame |-> f, from |-> t]
Terminal(t) == Task("terminal", Fr("NONE", 0, 0, "NONE"), t)

VARIABLES
    sv,   \* the server automaton, the transports and the event-base queue
    cl    \* the client at the other end

vars == <<sv, cl>>

-----------------------------------------------------------------------------
(* ResumeCache and StreamsFactory (their sources are not in this tree).    *)
(* position_ is Len(sentFrames); frames before resetPosition are evicted.  *)
(***************************************************************************)
\* Fault: the reset position is not clamped to position_.
ResetUpToPositionUnclamped(s, p) ==
    IF p <= s.resetPosition THEN s ELSE [s EXCEPT !.resetPosition = p]

ResetUpToPosition(s, p) ==
    IF p <= s.resetPosition THEN s
    ELSE [s EXCEPT !.resetPosition = IF p > Len(s.sentFrames) THEN Len(s.sentFrames) ELSE p]

IsPositionAvailable(s, p) ==
    \/ p = Len(s.sentFrames)
    \/ s.resetPosition <= p /\ p < Len(s.sentFrames)

\* canResumeFrom: the client's first retained frame is not past what this
\* side has received.
CanResumeFrom(s, p) == p <= s.impliedPosition

\* trackReceivedFrame; `handled` records the tracked frames in order.
TrackReceivedFrame(s, f) ==
    IF Tracked(f) THEN [s EXCEPT !.impliedPosition = @ + 1, !.handled = Append(@, f)] ELSE s

\* registerNewPeerStreamId: peer ids must strictly increase.
RegisterNewPeerStreamId(s, sid) ==
    IF sid > s.lastPeerId THEN [s EXCEPT !.lastPeerId = sid] ELSE s

-----------------------------------------------------------------------------
(* Output and teardown.                                                    *)
(***************************************************************************)
\* transport t's outputFrameOrEnqueue: a closed or broken transport drops it.
Put(s, t, f) == [s EXCEPT !.wireOut[t] = IF s.tstate[t] = "open" THEN Append(@, f) ELSE @]

\* outputFrame: recorded in the resume cache if resumable, then written.
OutputFrame(s, f) ==
    Put([s EXCEPT !.sentFrames = IF s.isResumable /\ Tracked(f) THEN Append(@, f) ELSE @],
        s.frameTransport, f)

\* outputFrameOrEnqueue: write when connected, queue otherwise (the server
\* never has a resumeCallback_).
OutputFrameOrEnqueue(s, f) ==
    IF s.frameTransport # 0 THEN OutputFrame(s, f)
    ELSE [s EXCEPT !.pendingFrames = Append(@, f)]

\* moveOutputPendingFrames followed by outputFrameOrEnqueue of each.
FlushPending(s) ==
    FoldLeft(OutputFrameOrEnqueue, [s EXCEPT !.pendingFrames = <<>>], s.pendingFrames)

\* A frame the server produces; `produced` is the order of production.
Emit(s, f) ==
    OutputFrameOrEnqueue([s EXCEPT !.produced = IF Tracked(f) THEN Append(@, f) ELSE @,
                                    !.nextId = @ + 1], f)

\* closeFrameTransport: close and drop the transport.
CloseFrameTransport(s) ==
    IF s.frameTransport = 0 THEN s
    ELSE [s EXCEPT !.tstate[s.frameTransport] = IF @ = "open" THEN "closed" ELSE @,
                   !.frameTransport = 0]

\* endStreamInternal: remove from the map, then notify the stream.
EndStreamInternal(s, sid) ==
    IF sid \notin s.streams THEN s
    ELSE [s EXCEPT !.streams = @ \ {sid}, !.ended[sid] = @ + 1]

\* closeStreams: endStreamInternal on every registered stream.
CloseStreams(s) ==
    [s EXCEPT !.streams = {},
              !.ended = [x \in StreamIds |-> IF x \in s.streams THEN s.ended[x] + 1 ELSE s.ended[x]]]

\* disconnect: closeFrameTransport(CONNECTION_END), then pauseStreams.
Disconnect(s) == CloseFrameTransport(s)

\* close: idempotent; close every stream, then the transport.
Close(s, cause) ==
    IF s.isClosed THEN s
    ELSE CloseFrameTransport(CloseStreams([s EXCEPT !.isClosed = TRUE, !.closeCause = cause]))

\* closeWithError: an ERROR frame through outputFrameOrEnqueue (only once a
\* serializer exists), then close.
CloseWithError(s, cause) ==
    Close(IF s.serializer THEN Emit(s, Fr("ERROR", 0, s.nextId, "CONNECTION_ERROR")) ELSE s, cause)

-----------------------------------------------------------------------------
(* Connect and resume.                                                     *)
(***************************************************************************)
\* connect: attach the transport (setFrameProcessor hands the automaton a
\* terminal the transport has already seen); flush the pending frames only
\* when sendingPendingFrames (the server has no keepalive timer).
Connect(s, t, sendingPendingFrames) ==
    LET s1 == [s EXCEPT !.frameTransport = t,
                        !.queue = IF s.tstate[t] = "broken" THEN Append(@, Terminal(t)) ELSE @] IN
    IF sendingPendingFrames THEN FlushPending(s1) ELSE s1

\* Fault: the pending frames are flushed before the cache is replayed.
ResumeFromPositionFlushFirst(s, p) ==
    LET s1 == FlushPending(s)
        t  == s1.frameTransport
    IN [s1 EXCEPT !.wireOut[t] =
           IF s1.tstate[t] = "open"
           THEN @ \o SubSeq(s.sentFrames, p + 1, Len(s.sentFrames)) ELSE @]

\* resumeFromPosition: resumeStreams, replay the cache from `p` straight
\* onto the transport, then flush the pending frames.
ResumeFromPosition(s, p) ==
    LET t == s.frameTransport IN
    FlushPending([s EXCEPT !.wireOut[t] =
                      IF s.tstate[t] = "open"
                      THEN @ \o SubSeq(s.sentFrames, p + 1, Len(s.sentFrames)) ELSE @])

\* resumeFromPositionOrClose: RESUME_OK(impliedPosition) straight onto the
\* transport and resume, or close with a CONNECTION_ERROR.
ResumeFromPositionOrClose(s, serverPosition, clientPosition) ==
    IF CanResumeFrom(s, clientPosition) /\ IsPositionAvailable(s, serverPosition)
    THEN ResumeFromPosition(Put(s, s.frameTransport, Fr("RESUME_OK", 0, s.impliedPosition, "NONE")),
                            serverPosition)
    ELSE CloseWithError(s, "position")

\* Fault: a refused RESUME closes the new connection without an ERROR.
HandleResumeNoError(s, t, f) ==
    IF ~s.isResumable \/ ~s.setupSeen \/ s.isClosed
    THEN [s EXCEPT !.tstate[t] = IF @ = "open" THEN "closed" ELSE @]
    ELSE ResumeFromPositionOrClose(Connect(Disconnect(s), t, FALSE), f.arg, f.flag)

\* A RESUME read by the automaton of a new connection on transport t: not
\* resumable, or handleResume finds no live session, closes t with an
\* ERROR (a session is known by its token only once handleSetupPayload
\* has run); otherwise the session is detached from its transport, attached to
\* t without flushing, and resumed.
HandleResume(s, t, f) ==
    IF ~s.isResumable \/ ~s.setupSeen \/ s.isClosed
    THEN [Put(s, t, Fr("ERROR", 0, 0, "CONNECTION_ERROR")) EXCEPT !.tstate[t] = IF @ = "open" THEN "closed" ELSE @]
    ELSE ResumeFromPositionOrClose(Connect(Disconnect(s), t, FALSE), f.arg, f.flag)

-----------------------------------------------------------------------------
(* Inbound frames.                                                         *)
(***************************************************************************)
\* Fault: the KEEPALIVE position is applied without resetUpToPosition's clamp.
HandleConnectionFrameUnclamped(s, f) ==
    CASE f.type = "KEEPALIVE" ->
            LET s1 == ResetUpToPositionUnclamped(s, f.arg) IN
            IF f.flag = "RESPOND"
            THEN OutputFrameOrEnqueue(s1, Fr("KEEPALIVE", 0, s1.impliedPosition, "NONE"))
            ELSE CloseWithError(s1, "protocol")
      [] f.type = "SETUP" -> [s EXCEPT !.remoteResumeable = (f.flag = "RESUME_ENABLE"),
                                       !.setupSeen = TRUE]
      [] f.type = "METADATA_PUSH" -> s
      [] f.type = "ERROR" -> Close(s, "peer")
      [] OTHER -> CloseWithError(s, "protocol")

\* handleConnectionFrame, server mode.  KEEPALIVE must ask for a response
\* and is echoed with this side's implied position (sendKeepalive(EMPTY)).
HandleConnectionFrame(s, f) ==
    CASE f.type = "KEEPALIVE" ->
            LET s1 == ResetUpToPosition(s, f.arg) IN
            IF f.flag = "RESPOND"
            THEN OutputFrameOrEnqueue(s1, Fr("KEEPALIVE", 0, s1.impliedPosition, "NONE"))
            ELSE CloseWithError(s1, "protocol")
      [] f.type = "SETUP" -> [s EXCEPT !.remoteResumeable = (f.flag = "RESUME_ENABLE"),
                                       !.setupSeen = TRUE]
      [] f.type = "METADATA_PUSH" -> s
      [] f.type = "ERROR" -> Close(s, "peer")
      [] OTHER -> CloseWithError(s, "protocol")
\* (A RESUME is the first frame of a new connection and reaches the session
\* through HandleResume, never through its own transport.)

\* Fault: every unknown id is taken as new.
HandleUnknownStreamNoIdCheck(s, f) ==
    LET s1 == RegisterNewPeerStreamId(s, f.sid) IN
    IF f.type = "REQUEST_STREAM" THEN [s1 EXCEPT !.streams = @ \cup {f.sid}]
    ELSE CloseWithError(s1, "protocol")

\* handleUnknownStream: an id that is not new is ignored; a new id may only
\* open a stream (createStreamResponder + addStream).
HandleUnknownStream(s, f) ==
    IF f.sid <= s.lastPeerId THEN s
    ELSE LET s1 == RegisterNewPeerStreamId(s, f.sid) IN
         IF f.type = "REQUEST_STREAM" THEN [s1 EXCEPT !.streams = @ \cup {f.sid}]
         ELSE CloseWithError(s1, "protocol")

\* handleStreamFrame: REQUEST_N goes to the responder; CANCEL ends it
\* (StreamResponder::handleCancel -> closeStream); PAYLOAD and ERROR go to
\* handlePayload/handleError, which StreamResponder inherits from a base
\* class not in this tree (the honest client never sends them on a
\* responder's stream, so the automaton is left as it is); a request frame
\* on a live stream is unexpected.
HandleStreamFrame(s, f) ==
    IF f.sid \notin s.streams THEN HandleUnknownStream(s, f)
    ELSE CASE f.type = "REQUEST_N" -> s
           [] f.type = "CANCEL" -> EndStreamInternal(s, f.sid)
           [] f.type \in {"PAYLOAD", "ERROR"} -> s
           [] OTHER -> CloseWithError(s, "protocol")

\* ensureOrAutodetectFrameSerializer, server mode: the first frame must be
\* a SETUP or a RESUME for the version to be detected.
Autodetects(s, f) == s.serializer \/ f.type \in {"SETUP", "RESUME"}

\* processFrameImpl: drop when closed; detect the serializer; track the
\* frame; connection frames and stream frames.  It does not ask from which
\* transport the frame came.
ProcessFrameImpl(s, f) ==
    IF s.isClosed THEN s
    ELSE IF ~Autodetects(s, f) THEN CloseWithError(s, "invalid")
    ELSE LET s1 == TrackReceivedFrame([s EXCEPT !.serializer = TRUE], f) IN
         IF f.sid = 0 THEN HandleConnectionFrame(s1, f) ELSE HandleStreamFrame(s1, f)

\* onTerminalImpl: a resumable automaton only disconnects.
OnTerminalImpl(s) ==
    IF s.isResumable THEN Disconnect(s) ELSE Close(s, "transport")
-----------------------------------------------------------------------------
(* Initial state: the automaton the acceptor created for a first           *)
(* connection, before it is connected; no serializer is chosen yet.        *)
(***************************************************************************)
NoWire == [t \in Transports |-> <<>>]

Init ==
    /\ \E r \in ServerResumable :
         sv = [frameTransport |-> 0, isClosed |-> FALSE, isResumable |-> r,
               remoteResumeable |-> FALSE, serializer |-> FALSE, streams |-> {},
               lastPeerId |-> 0, pendingFrames |-> <<>>, sentFrames |-> <<>>,
               resetPosition |-> 0, impliedPosition |-> 0,
               tstate |-> [t \in Transports |-> "idle"], wireOut |-> NoWire,
               wireIn |-> NoWire, queue |-> <<>>, setupSeen |-> FALSE,
               \* history, not program state
               produced |-> <<>>, handled |-> <<>>, nextId |-> 1,
               ended |-> [x \in StreamIds |-> 0], closeCause |-> "none"]
    /\ cl = [state |-> "idle", cur |-> 0, resumable |-> FALSE, produced |-> <<>>,
             received |-> <<>>, resetPos |-> 0, nextId |-> 1, open |-> {},
             opened |-> {}, keepalives |-> 0]

\* The next transport the client connects.
FreshTransport == Cardinality({t \in Transports : sv.tstate[t] # "idle"}) + 1

-----------------------------------------------------------------------------
(* Server operations.                                                      *)
(***************************************************************************)
\* The acceptor hands the first connection to the automaton: connect(t, true).
Accept ==
    /\ sv.tstate[1] = "open" /\ sv.frameTransport = 0 /\ ~sv.isClosed
    /\ sv' = Connect(sv, 1, TRUE)
    /\ UNCHANGED cl

\* A responder emits (writePayload), or completes and ends its stream
\* (writeCloseStream(COMPLETE), then endStream).
ResponderWrite(sid, complete) ==
    /\ sid \in sv.streams /\ sv.nextId <= MaxFrames
    /\ LET f == Fr("PAYLOAD", sid, sv.nextId, IF complete THEN "COMPLETE" ELSE "NONE") IN
       sv' = IF complete THEN EndStreamInternal(Emit(sv, f), sid) ELSE Emit(sv, f)
    /\ UNCHANGED cl

\* processFrame: the attached transport hands over a frame, and
\* processFrameImpl is queued on the event base.
ProcessFrame(t) ==
    /\ sv.frameTransport = t /\ sv.tstate[t] = "open" /\ sv.wireIn[t] # <<>>
    /\ Len(sv.queue) < MaxQueued
    /\ sv' = [sv EXCEPT !.queue = Append(@, Task("frame", Head(sv.wireIn[t]), t)),
                        !.wireIn[t] = Tail(@)]
    /\ UNCHANGED cl

\* The automaton of a new connection reads its first frame, a RESUME.
AcceptResume(t) ==
    /\ sv.frameTransport # t /\ sv.tstate[t] = "open" /\ sv.wireIn[t] # <<>>
    /\ Head(sv.wireIn[t]).type = "RESUME"
    /\ Len(sv.queue) < MaxQueued
    /\ sv' = [sv EXCEPT !.queue = Append(@, Task("resume", Head(sv.wireIn[t]), t)),
                        !.wireIn[t] = Tail(@)]
    /\ UNCHANGED cl

\* The connection breaks: what is in flight is lost; an attached transport
\* queues onTerminalImpl.
OnTerminal(t) ==
    /\ sv.tstate[t] = "open"
    /\ sv' = [sv EXCEPT !.tstate[t] = "broken", !.wireOut[t] = <<>>, !.wireIn[t] = <<>>,
                        !.queue = IF sv.frameTransport = t
                                  THEN Append(@, Terminal(t)) ELSE @]
    /\ UNCHANGED cl

\* The event base runs the oldest task.
RunQueued ==
    /\ sv.queue # <<>>
    /\ LET task == Head(sv.queue)
           s1   == [sv EXCEPT !.queue = Tail(@)]
       IN sv' = CASE task.kind = "frame"  -> ProcessFrameImpl(s1, task.frame)
                  [] task.kind = "resume" -> HandleResume(s1, task.from, task.frame)
                  [] OTHER                -> OnTerminalImpl(s1)
    /\ UNCHANGED cl

-----------------------------------------------------------------------------
(* The client: it follows the protocol, keeps every frame it produced for  *)
(* replay, and reads only the transport it last connected.                 *)
(***************************************************************************)
\* The client writes f on its current transport (lost if that is gone).
ClientWrite(c, f) ==
    /\ cl' = [c EXCEPT !.produced = Append(@, f), !.nextId = @ + 1]
    /\ sv' = [sv EXCEPT !.wireIn[cl.cur] = IF sv.tstate[cl.cur] = "open" THEN Append(@, f) ELSE @]

\* SETUP on the first connection, which the acceptor takes.
ClientSetup(resumable) ==
    /\ cl.state = "idle"
    /\ sv' = [sv EXCEPT !.tstate[1] = "open",
                        !.wireIn[1] = <<Fr("SETUP", 0, 0, IF resumable THEN "RESUME_ENABLE" ELSE "NONE")>>]
    /\ cl' = [cl EXCEPT !.state = "connected", !.cur = 1, !.resumable = resumable]

\* REQUEST_STREAM on the next stream id.
ClientOpen(sid) ==
    /\ cl.state = "connected" /\ cl.nextId <= MaxFrames
    /\ sid \notin cl.opened /\ \A x \in cl.opened : x < sid
    /\ ClientWrite([cl EXCEPT !.open = @ \cup {sid}, !.opened = @ \cup {sid}],
                   Fr("REQUEST_STREAM", sid, cl.nextId, "NONE"))

ClientRequestN(sid) ==
    /\ cl.state = "connected" /\ cl.nextId <= MaxFrames /\ sid \in cl.open
    /\ ClientWrite(cl, Fr("REQUEST_N", sid, cl.nextId, "NONE"))

ClientCancel(sid) ==
    /\ cl.state = "connected" /\ cl.nextId <= MaxFrames /\ sid \in cl.open
    /\ ClientWrite([cl EXCEPT !.open = @ \ {sid}], Fr("CANCEL", sid, cl.nextId, "NONE"))

\* KEEPALIVE_RESPOND carrying what the client has received.
ClientKeepalive ==
    /\ cl.state = "connected" /\ cl.keepalives < MaxKeepalives
    /\ cl' = [cl EXCEPT !.keepalives = @ + 1]
    /\ sv' = [sv EXCEPT !.wireIn[cl.cur] =
                  IF sv.tstate[cl.cur] = "open"
                  THEN Append(@, Fr("KEEPALIVE", 0, Len(cl.received), "RESPOND")) ELSE @]

\* The client reads the next frame of its transport.  RESUME_OK at a
\* position it still holds replays its frames from there; an ERROR ends a
\* resume attempt; a KEEPALIVE moves its reset position.
ClientReceive ==
    /\ cl.state \in {"connected", "resuming"} /\ sv.wireOut[cl.cur] # <<>>
    /\ LET t == cl.cur
           f == Head(sv.wireOut[t])
           sv1 == [sv EXCEPT !.wireOut[t] = Tail(@)]
       IN CASE f.type = "RESUME_OK" /\ cl.state = "resuming" ->
                 IF cl.resetPos <= f.arg /\ f.arg <= Len(cl.produced)
                 THEN /\ cl' = [cl EXCEPT !.state = "connected"]
                      /\ sv' = [sv1 EXCEPT !.wireIn[t] =
                                 IF sv.tstate[t] = "open"
                                 THEN @ \o SubSeq(cl.produced, f.arg + 1, Len(cl.produced)) ELSE @]
                 ELSE cl' = [cl EXCEPT !.state = "failed"] /\ sv' = sv1
            [] cl.state = "resuming" -> cl' = [cl EXCEPT !.state = "closed"] /\ sv' = sv1
            [] f.type = "KEEPALIVE" ->
                 /\ cl' = [cl EXCEPT !.resetPos =
                             IF f.arg > @ THEN IF f.arg > Len(cl.produced) THEN Len(cl.produced) ELSE f.arg
                             ELSE @]
                 /\ sv' = sv1
            [] Tracked(f) ->
                 /\ cl' = [cl EXCEPT !.received = Append(@, f),
                             !.open = IF f.type = "PAYLOAD" /\ f.flag = "COMPLETE" THEN @ \ {f.sid} ELSE @,
                             !.state = IF f.type = "ERROR" /\ f.sid = 0 THEN "closed" ELSE @]
                 /\ sv' = sv1
            [] OTHER -> cl' = cl /\ sv' = sv1

\* The client gives up its transport and sends RESUME on a new one, once
\* that transport broke.
ClientResume ==
    /\ cl.resumable /\ cl.state \in {"connected", "resuming"}
    /\ FreshTransport <= MaxTransports
    /\ sv.tstate[cl.cur] = "broken"
    /\ LET t == FreshTransport IN
       /\ sv' = [sv EXCEPT !.tstate[t] = "open",
                           !.wireIn[t] = <<Fr("RESUME", 0, Len(cl.received), cl.resetPos)>>]
       /\ cl' = [cl EXCEPT !.state = "resuming", !.cur = t]

-----------------------------------------------------------------------------
Next ==
    \/ \E r \in BOOLEAN : ClientSetup(r)
    \/ Accept
    \/ \E sid \in StreamIds : \/ ClientOpen(sid) \/ ClientRequestN(sid) \/ ClientCancel(sid)
                              \/ ResponderWrite(sid, FALSE) \/ ResponderWrite(sid, TRUE)
    \/ ClientKeepalive \/ ClientReceive \/ ClientResume
    \/ \E t \in Transports : ProcessFrame(t) \/ AcceptResume(t) \/ OnTerminal(t)
    \/ RunQueued

\* The event base runs every queued task, the acceptor and the transports
\* deliver what was written, and the client reads.  Breaks and application
\* calls are not assumed to happen.
Fairness ==
    /\ WF_vars(RunQueued) /\ WF_vars(Accept) /\ WF_vars(ClientReceive)
    /\ \A t \in Transports : WF_vars(ProcessFrame(t)) /\ WF_vars(AcceptResume(t))

Spec == Init /\ [][Next]_vars /\ Fairness
-----------------------------------------------------------------------------
(* Properties.                                                             *)
(***************************************************************************)
\* A frame; only RESUME carries a number (its client position) as flag.
FrameOK(f) ==
    /\ f.type \in TrackedTypes \cup {"SETUP", "RESUME", "RESUME_OK", "KEEPALIVE"}
    /\ f.sid \in StreamIds \cup {0} /\ f.arg \in Nat
    /\ IF f.type = "RESUME" THEN f.flag \in Nat ELSE f.flag \in STRING
FramesOK(q) == \A i \in DOMAIN q : FrameOK(q[i])

TypeOK ==
    /\ sv.frameTransport \in Transports \cup {0}
    /\ sv.streams \subseteq StreamIds /\ sv.lastPeerId \in StreamIds \cup {0}
    /\ FramesOK(sv.pendingFrames) /\ FramesOK(sv.sentFrames)
    /\ sv.resetPosition \in 0..Len(sv.sentFrames) /\ sv.impliedPosition = Len(sv.handled)
    /\ sv.tstate \in [Transports -> {"idle", "open", "closed", "broken"}]
    /\ \A t \in Transports : FramesOK(sv.wireOut[t]) /\ FramesOK(sv.wireIn[t])
    /\ cl.state \in {"idle", "connected", "resuming", "closed", "failed"}

\* Server-to-client session: the frames the client has received are the
\* beginning of what the server produced, in order, with no gap and no
\* duplicate, across broken transports and resumptions (resumeFromPosition
\* replays the cache from the client's position before the pending frames).
ServerSession == INSTANCE ReliableSession WITH sent <- sv.produced, delivered <- cl.received
ServerSessionPreserved == ServerSession!Spec

\* The server never closes the connection with an error against a client
\* that follows the protocol: a REQUEST_N or CANCEL that crosses the
\* responder's completion, a keepalive or a resume is never taken for a
\* protocol violation, and a resume is never refused for its positions.
HonestPeerNeverAccused ==
    /\ sv.closeCause \notin {"protocol", "invalid", "position"}
    /\ cl.state # "failed"

\* A RESUME is answered: unless the new transport breaks, the client's
\* resume attempt eventually ends with RESUME_OK or an ERROR.
ResumeAnswered ==
    \A t \in Transports :
        cl.state = "resuming" /\ cl.cur = t ~> cl.state # "resuming" \/ sv.tstate[t] = "broken"
=============================================================================

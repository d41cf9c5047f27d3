------------------------- MODULE RSocketStateMachine -------------------------
(***************************************************************************)
(* The connection automaton of rsocket-cpp (RSocketStateMachine.cpp) in    *)
(* client mode, together with the transports it is attached to, the        *)
(* event-base queue onto which processFrame / onTerminal marshal their     *)
(* work, and an honest server peer.                                        *)
(*                                                                         *)
(* The automaton's fields are one record `st`, so that a handler that      *)
(* calls several helpers in sequence (closeWithError -> outputFrameOrEnq.  *)
(* -> close -> closeStreams -> closeFrameTransport) is the composition of  *)
(* pure operators, in the order the code calls them.                       *)
(*                                                                         *)
(* Frames are records [type, sid, arg, flag]. `arg` is the resume position *)
(* of KEEPALIVE / RESUME / RESUME_OK and a unique identity for every other *)
(* frame; `flag` carries COMPLETE, KEEPALIVE_RESPOND, RESUME_ENABLE or an  *)
(* error code.                                                             *)
(***************************************************************************)
EXTENDS Integers, Sequences, SequencesExt, FiniteSets

CONSTANTS
    StreamIds,      \* stream ids the client may allocate (its own parity)
    MaxTransports,  \* transports the client may attach: 1 setup + resumes
    MaxFrames,      \* bound on frames the application writes
    MaxKeepalives,  \* bound on keepalive timer ticks
    MaxPeerFrames,  \* bound on stream frames the peer sends
    MaxQueued       \* bound on frames read into the event-base queue

ASSUME MaxTransports \in Nat \ {0} /\ MaxFrames \in Nat /\ MaxQueued \in Nat \ {0}

Transports == 1..MaxTransports

\* ResumeCache::shouldTrackFrame: only stream-level traffic and ERROR frames
\* move resume positions; KEEPALIVE, SETUP, RESUME, RESUME_OK, METADATA_PUSH
\* do not.
TrackedTypes == {"REQUEST", "REQUEST_FNF", "REQUEST_N", "CANCEL", "PAYLOAD", "ERROR"}
Tracked(f) == f.type \in TrackedTypes

Fr(t, sid, arg, flag) == [type |-> t, sid |-> sid, arg |-> arg, flag |-> flag]

VARIABLES
    st,     \* the automaton, its transports and the event-base queue
    peer    \* the server session at the other end

vars == <<st, peer>>

-----------------------------------------------------------------------------
(* ResumeCache (ResumeCache.cpp is not in this tree).  position_ is        *)
(* Len(sentFrames); frames before resetPosition have been evicted.         *)
(***************************************************************************)
\* Fault: the reset position is not clamped to position_.
ResetUpToPositionUnclamped(s, p) ==
    IF p <= s.resetPosition THEN s ELSE [s EXCEPT !.resetPosition = p]

ResetUpToPosition(s, p) ==
    IF p <= s.resetPosition THEN s
    ELSE [s EXCEPT !.resetPosition = IF p > Len(s.sentFrames) THEN Len(s.sentFrames) ELSE p]

IsPositionAvailable(s, p) ==
    \/ p = Len(s.sentFrames)
    \/ s.resetPosition <= p /\ p < Len(s.sentFrames)

TrackReceivedFrame(s, f) ==
    [s EXCEPT !.impliedPosition = IF Tracked(f) THEN @ + 1 ELSE @]

-----------------------------------------------------------------------------
(* Output path.                                                            *)
(***************************************************************************)
\* outputFrame: record the frame in the resume cache if resumable, then
\* hand it to the transport (a broken transport swallows it).
OutputFrame(s, f) ==
    LET t == s.frameTransport IN
    [s EXCEPT !.sentFrames = IF s.isResumable /\ Tracked(f) THEN Append(@, f) ELSE @,
              !.wireOut[t] = IF s.tstate[t] = "open" THEN Append(@, f) ELSE @]

\* outputFrameOrEnqueue: send only when connected and not resuming.
OutputFrameOrEnqueue(s, f) ==
    IF s.frameTransport # 0 /\ ~s.resumeCallback
    THEN OutputFrame(s, f)
    ELSE [s EXCEPT !.pendingFrames = Append(@, f)]

\* moveOutputPendingFrames followed by outputFrameOrEnqueue of each.
FlushPending(s) ==
    FoldLeft(OutputFrameOrEnqueue, [s EXCEPT !.pendingFrames = <<>>], s.pendingFrames)

\* A frame produced by the application or by closeWithError: `produced`
\* is the order in which frames were handed to the automaton.
Emit(s, f) ==
    OutputFrameOrEnqueue([s EXCEPT !.produced = IF Tracked(f) THEN Append(@, f) ELSE @,
                                    !.nextId = @ + 1], f)

-----------------------------------------------------------------------------
(* Teardown.                                                               *)
(***************************************************************************)
\* Fault: the callback is called but resumeCallback_ is not reset.
FireResumeCallbackNoReset(s) ==
    [s EXCEPT !.resumeCalls[Len(s.resumeCalls)] = @ + 1]

\* resumeCallback_->onResumeOk / onResumeError / onConnectionError, then reset.
FireResumeCallback(s) ==
    [s EXCEPT !.resumeCalls[Len(s.resumeCalls)] = @ + 1, !.resumeCallback = FALSE]

\* Fault: closeFrameTransport leaves a pending resume callback alone.
CloseFrameTransportKeepsCallback(s) ==
    IF s.frameTransport = 0 THEN s
    ELSE [s EXCEPT !.keepaliveOn = FALSE,
                   !.tstate[s.frameTransport] = IF @ = "open" THEN "closed" ELSE @,
                   !.frameTransport = 0]

\* closeFrameTransport: stop keepalives, fail the resume callback, close and
\* drop the transport.
CloseFrameTransport(s) ==
    IF s.frameTransport = 0 THEN s
    ELSE LET s1 == IF s.resumeCallback THEN FireResumeCallback(s) ELSE s
             t  == s.frameTransport
         IN [s1 EXCEPT !.keepaliveOn = FALSE,
                       !.tstate[t] = IF @ = "open" THEN "closed" ELSE @,
                       !.frameTransport = 0]

\* Fault: the stream is notified but left in the map.
EndStreamInternalNoErase(s, sid) ==
    IF sid \notin s.streams THEN s ELSE [s EXCEPT !.ended[sid] = @ + 1]

\* endStreamInternal: remove from the map before notifying the stream.
EndStreamInternal(s, sid) ==
    IF sid \notin s.streams THEN s
    ELSE [s EXCEPT !.streams = @ \ {sid}, !.ended[sid] = @ + 1]

\* closeStreams: endStreamInternal on every registered stream.
CloseStreams(s) ==
    [s EXCEPT !.streams = {},
              !.ended = [x \in StreamIds |-> IF x \in s.streams THEN s.ended[x] + 1 ELSE s.ended[x]]]

\* disconnect: listeners, then closeFrameTransport(CONNECTION_END), pauseStreams.
Disconnect(s) ==
    IF s.frameTransport = 0 THEN s ELSE CloseFrameTransport(s)

\* close: idempotent; fail the resume callback, run the close listeners,
\* close every stream, then the transport.
Close(s, cause) ==
    IF s.isClosed THEN s
    ELSE LET s1 == [s EXCEPT !.isClosed = TRUE, !.closeCalls = @ + 1, !.closeCause = cause]
             s2 == IF s1.resumeCallback THEN FireResumeCallback(s1) ELSE s1
         IN CloseFrameTransport(CloseStreams(s2))

\* closeWithError: the ERROR frame goes through outputFrameOrEnqueue, then close.
CloseWithError(s, code, cause) ==
    Close(Emit(s, Fr("ERROR", 0, s.nextId, code)), cause)

-----------------------------------------------------------------------------
(* Connect and resume.                                                     *)
(***************************************************************************)
\* Fault: connect starts the keepalive timer even while resuming.
ConnectAlwaysStartsKeepalive(s, t, sendingPendingFrames) ==
    LET s1 == [s EXCEPT !.frameTransport = t, !.keepaliveOn = TRUE] IN
    IF sendingPendingFrames THEN FlushPending(s1) ELSE s1

\* connect: attach the transport; flush pending frames and start the
\* keepalive timer only when sendingPendingFrames.
Connect(s, t, sendingPendingFrames) ==
    LET s1 == [s EXCEPT !.frameTransport = t] IN
    IF sendingPendingFrames THEN [FlushPending(s1) EXCEPT !.keepaliveOn = TRUE]
    ELSE s1

\* Fault: pending frames are flushed before the cache is replayed.
ResumeFromPositionFlushFirst(s, p) ==
    LET s1 == FlushPending(s)
        t  == s1.frameTransport
        s2 == [s1 EXCEPT !.wireOut[t] =
                   IF s1.tstate[t] = "open"
                   THEN @ \o SubSeq(s.sentFrames, p + 1, Len(s.sentFrames)) ELSE @]
    IN [s2 EXCEPT !.keepaliveOn = s2.frameTransport # 0]

\* resumeFromPosition: replay the cache from `p` straight onto the
\* transport, then flush the pending frames, then start keepalives.
ResumeFromPosition(s, p) ==
    LET t  == s.frameTransport
        s1 == [s EXCEPT !.wireOut[t] =
                   IF s.tstate[t] = "open"
                   THEN @ \o SubSeq(s.sentFrames, p + 1, Len(s.sentFrames)) ELSE @]
        s2 == FlushPending(s1)
    IN [s2 EXCEPT !.keepaliveOn = s2.frameTransport # 0]

\* setResumable (only while disconnected).
SetResumable(s, resumable) == [s EXCEPT !.isResumable = resumable]

\* reconnect: set resumeCallback_ and connect(t, false): nothing queued is
\* written before RESUME_OK.
Reconnect(s, t) ==
    Connect([s EXCEPT !.resumeCallback = TRUE, !.resumeCalls = Append(@, 0),
                      !.preResume = s.streams], t, FALSE)

\* addStream: register the stream's state machine in the map.
AddStream(s, sid) == [s EXCEPT !.streams = @ \cup {sid}]

\* A new transport: the first frame the client writes on it goes first.
OpenTransport(s, t, f) ==
    [s EXCEPT !.tstate[t] = "open", !.wireOut[t] = <<f>>]

-----------------------------------------------------------------------------
(* Inbound frames.                                                         *)
(***************************************************************************)
\* Fault: the KEEPALIVE position is applied without resetUpToPosition's clamp.
HandleConnectionFrameUnclamped(s, f) ==
    CASE f.type = "KEEPALIVE" ->
            LET s1 == ResetUpToPositionUnclamped(s, f.arg) IN
            IF f.flag = "RESPOND" THEN CloseWithError(s1, "CONNECTION_ERROR", "protocol")
            ELSE s1
      [] f.type = "METADATA_PUSH" -> s
      [] f.type = "RESUME_OK" ->
            IF ~s.resumeCallback THEN CloseWithError(s, "CONNECTION_ERROR", "protocol")
            ELSE IF IsPositionAvailable(s, f.arg)
                 THEN ResumeFromPosition(FireResumeCallback(s), f.arg)
                 ELSE CloseWithError(s, "CONNECTION_ERROR", "position")
      [] f.type = "ERROR" ->
            LET s1 == IF f.flag = "CONNECTION_ERROR" /\ s.resumeCallback
                      THEN FireResumeCallback(s) ELSE s
            IN Close(s1, "peer")
      [] OTHER -> CloseWithError(s, "CONNECTION_ERROR", "protocol")

\* handleConnectionFrame, client mode.
HandleConnectionFrame(s, f) ==
    CASE f.type = "KEEPALIVE" ->
            LET s1 == ResetUpToPosition(s, f.arg) IN
            IF f.flag = "RESPOND" THEN CloseWithError(s1, "CONNECTION_ERROR", "protocol")
            ELSE s1
      [] f.type = "METADATA_PUSH" -> s
      [] f.type = "RESUME_OK" ->
            IF ~s.resumeCallback THEN CloseWithError(s, "CONNECTION_ERROR", "protocol")
            ELSE IF IsPositionAvailable(s, f.arg)
                 THEN ResumeFromPosition(FireResumeCallback(s), f.arg)
                 ELSE CloseWithError(s, "CONNECTION_ERROR", "position")
      [] f.type = "ERROR" ->
            LET s1 == IF f.flag = "CONNECTION_ERROR" /\ s.resumeCallback
                      THEN FireResumeCallback(s) ELSE s
            IN Close(s1, "peer")
      [] OTHER -> CloseWithError(s, "CONNECTION_ERROR", "protocol")

\* handleStreamFrame with the requester's reaction: a terminal PAYLOAD or
\* an ERROR ends the stream (closeStream -> endStream); PAYLOAD(next) and
\* REQUEST_N leave the registry alone.  A frame for a stream not in the map
\* goes to handleUnknownStream, which ignores ids of the client's own parity.
HandleStreamFrame(s, f) ==
    IF f.sid \notin s.streams THEN s
    ELSE CASE f.type = "PAYLOAD" /\ f.flag = "COMPLETE" -> EndStreamInternal(s, f.sid)
           [] f.type = "ERROR" -> EndStreamInternal(s, f.sid)
           [] f.type \in {"PAYLOAD", "REQUEST_N", "CANCEL"} -> s
           [] OTHER -> CloseWithError(s, "CONNECTION_ERROR", "protocol")

\* processFrameImpl: drop if closed; track; connection frames; stream frames
\* are illegal while resuming.
ProcessFrameImpl(s, f) ==
    IF s.isClosed THEN s
    ELSE LET s1 == TrackReceivedFrame(s, f) IN
         IF f.sid = 0 THEN HandleConnectionFrame(s1, f)
         ELSE IF s1.resumeCallback THEN CloseWithError(s1, "INVALID", "protocol")
         ELSE HandleStreamFrame(s1, f)

\* onTerminalImpl: a resumable automaton only disconnects.
OnTerminalImpl(s) ==
    IF s.isResumable THEN Disconnect(s) ELSE Close(s, "transport")
-----------------------------------------------------------------------------
(* Initial state: a constructed client automaton, no transport yet.       *)
(***************************************************************************)
NoWire == [t \in Transports |-> <<>>]

Init ==
    /\ st = [frameTransport |-> 0, isClosed |-> FALSE, resumeCallback |-> FALSE,
             isResumable |-> FALSE, streams |-> {}, pendingFrames |-> <<>>,
             sentFrames |-> <<>>, resetPosition |-> 0, impliedPosition |-> 0,
             keepaliveOn |-> FALSE, keepalives |-> 0,
             tstate |-> [t \in Transports |-> "idle"], wireOut |-> NoWire,
             wireIn |-> NoWire, queue |-> <<>>,
             \* history, not program state
             produced |-> <<>>, nextId |-> 1, opened |-> {},
             ended |-> [x \in StreamIds |-> 0], resumeCalls |-> <<>>,
             closeCalls |-> 0, closeCause |-> "none", preResume |-> {}]
    /\ peer = [cur |-> 0, received |-> <<>>, resumable |-> FALSE,
               streams |-> {}, closed |-> FALSE, sent |-> 0]

\* The next transport to be handed to the automaton.
FreshTransport == Cardinality({t \in Transports : st.tstate[t] # "idle"}) + 1

-----------------------------------------------------------------------------
(* Client operations, each one task on the event base.                    *)
(***************************************************************************)
\* connectClientSendSetup: setResumable, then setUpFrame, which writes
\* SETUP straight to the transport and calls connect(t, true).
ConnectClientSendSetup(resumable) ==
    /\ st.tstate[1] = "idle"
    /\ ~st.isClosed
    /\ st' = Connect(OpenTransport(SetResumable(st, resumable), 1,
                         Fr("SETUP", 0, 0, IF resumable THEN "RESUME_ENABLE" ELSE "NONE")),
                     1, TRUE)
    /\ UNCHANGED peer

\* tryClientResume: RESUME goes straight to the new transport, then
\* disconnect, setResumable(true), reconnect (resumeCallback_ set,
\* connect(t, false)).  reconnect CHECKs !resumeCallback_, so a retry while
\* an attempt is pending aborts the process and is not a step.  No caller
\* in this tree calls tryClientResume; the model assumes its caller does
\* not resume an automaton that is already closed (~isClosed is not in
\* the code: on a closed automaton connect still succeeds and the frames
\* that would settle the callback are dropped).
TryClientResume ==
    /\ st.tstate[1] # "idle"
    /\ FreshTransport <= MaxTransports
    /\ ~st.isClosed
    /\ ~st.resumeCallback
    /\ LET t  == FreshTransport
           s1 == OpenTransport(st, t, Fr("RESUME", 0, st.impliedPosition, "NONE"))
       IN st' = Reconnect(SetResumable(Disconnect(s1), TRUE), t)
    /\ UNCHANGED peer

\* A requester's first frame: StreamsFactory registers the stream
\* (addStream) and the state machine calls writeNewStream.
OpenStream(sid) ==
    /\ ~st.isClosed
    /\ sid \notin st.opened
    /\ st.nextId <= MaxFrames
    /\ st' = Emit(AddStream([st EXCEPT !.opened = @ \cup {sid}], sid),
                  Fr("REQUEST", sid, st.nextId, "NONE"))
    /\ UNCHANGED peer

\* requestFireAndForget: a fresh stream id, no stream tracking.
RequestFireAndForget(sid) ==
    /\ ~st.isClosed
    /\ sid \notin st.opened
    /\ st.nextId <= MaxFrames
    /\ st' = Emit([st EXCEPT !.opened = @ \cup {sid}], Fr("REQUEST_FNF", sid, st.nextId, "NONE"))
    /\ UNCHANGED peer

\* writePayload of a live stream.
WritePayload(sid) ==
    /\ sid \in st.streams
    /\ st.nextId <= MaxFrames
    /\ st' = Emit(st, Fr("PAYLOAD", sid, st.nextId, "NONE"))
    /\ UNCHANGED peer

\* writeCloseStream(COMPLETE | CANCEL) followed by endStream.
WriteCloseStream(sid, signal) ==
    /\ sid \in st.streams
    /\ st.nextId <= MaxFrames
    /\ LET f == IF signal = "COMPLETE" THEN Fr("PAYLOAD", sid, st.nextId, "COMPLETE")
                ELSE Fr("CANCEL", sid, st.nextId, "NONE")
       IN st' = EndStreamInternal(Emit(st, f), sid)
    /\ UNCHANGED peer

\* metadataPush: an untracked connection-level frame.
MetadataPush ==
    /\ ~st.isClosed
    /\ st.nextId <= MaxFrames
    /\ st' = Emit(st, Fr("METADATA_PUSH", 0, st.nextId, "NONE"))
    /\ UNCHANGED peer

\* The keepalive timer fires: sendKeepalive(KEEPALIVE_RESPOND).
SendKeepalive ==
    /\ st.keepaliveOn
    /\ st.keepalives < MaxKeepalives
    /\ st' = OutputFrameOrEnqueue([st EXCEPT !.keepalives = @ + 1],
                                  Fr("KEEPALIVE", 0, st.impliedPosition, "RESPOND"))
    /\ UNCHANGED peer

-----------------------------------------------------------------------------
(* Transport and event base.                                               *)
(***************************************************************************)
\* processFrame: the transport hands a frame to the attached automaton,
\* which queues processFrameImpl on the event base.
ProcessFrame(t) ==
    /\ st.frameTransport = t
    /\ st.tstate[t] = "open"
    /\ st.wireIn[t] # <<>>
    /\ Len(st.queue) < MaxQueued
    /\ st' = [st EXCEPT !.queue = Append(@, [kind |-> "frame", from |-> t, frame |-> Head(st.wireIn[t])]),
                        !.wireIn[t] = Tail(@)]
    /\ UNCHANGED peer

\* The connection breaks: frames in flight are lost and onTerminal queues
\* onTerminalImpl.
OnTerminal(t) ==
    /\ st.tstate[t] = "open"
    /\ st' = [st EXCEPT !.tstate[t] = "broken", !.wireOut[t] = <<>>, !.wireIn[t] = <<>>,
                        !.queue = Append(@, [kind |-> "terminal", from |-> t, frame |-> Fr("NONE", 0, 0, "NONE")])]
    /\ UNCHANGED peer

\* The event base runs the oldest queued task.  Neither task checks which
\* transport it came from.
RunQueued ==
    /\ st.queue # <<>>
    /\ LET task == Head(st.queue)
           s1   == [st EXCEPT !.queue = Tail(@)]
       IN st' = IF task.kind = "frame" THEN ProcessFrameImpl(s1, task.frame)
                ELSE OnTerminalImpl(s1)
    /\ UNCHANGED peer

-----------------------------------------------------------------------------
(* The server peer: it follows the protocol and reads only the transport   *)
(* it last accepted.                                                       *)
(***************************************************************************)
\* SETUP or RESUME on a new transport.  A resumable session answers RESUME
\* with RESUME_OK(its implied position) or rejects it; any other session
\* rejects it with a CONNECTION_ERROR.
PeerAccept(t) ==
    /\ t > peer.cur
    /\ st.tstate[t] \in {"open", "closed"}
    /\ st.wireOut[t] # <<>>
    /\ LET f == Head(st.wireOut[t])
           Reply(g) == [st EXCEPT !.wireOut[t] = Tail(@),
                                  !.wireIn[t] = IF st.tstate[t] = "open" THEN Append(@, g) ELSE @]
       IN \/ /\ f.type = "SETUP" /\ peer.cur = 0 /\ ~peer.closed
             /\ peer' = [peer EXCEPT !.cur = t, !.resumable = (f.flag = "RESUME_ENABLE")]
             /\ st' = [st EXCEPT !.wireOut[t] = Tail(@)]
          \/ /\ f.type = "RESUME" /\ peer.resumable /\ ~peer.closed
             /\ peer' = [peer EXCEPT !.cur = t]
             /\ st' = Reply(Fr("RESUME_OK", 0, Len(peer.received), "NONE"))
          \/ /\ f.type = "RESUME"
             /\ peer' = [peer EXCEPT !.cur = t, !.closed = TRUE]
             /\ st' = Reply(Fr("ERROR", 0, 0, "CONNECTION_ERROR"))

\* The peer reads the next frame of its current transport; it answers a
\* KEEPALIVE_RESPOND with its own implied position.
PeerReceive(t) ==
    /\ t = peer.cur
    /\ ~peer.closed
    /\ st.tstate[t] \in {"open", "closed"}
    /\ st.wireOut[t] # <<>>
    /\ LET f  == Head(st.wireOut[t])
           rc == IF Tracked(f) THEN Append(peer.received, f) ELSE peer.received
       IN /\ peer' = [peer EXCEPT
                 !.received = rc,
                 !.streams = CASE f.type = "REQUEST" -> @ \cup {f.sid}
                               [] f.type = "CANCEL" \/ (f.type = "PAYLOAD" /\ f.flag = "COMPLETE") -> @ \ {f.sid}
                               [] OTHER -> @,
                 !.closed = (f.type = "ERROR" /\ f.sid = 0)]
          /\ st' = [st EXCEPT !.wireOut[t] = Tail(@),
                              !.wireIn[t] = IF f.type = "KEEPALIVE" /\ f.flag = "RESPOND" /\ st.tstate[t] = "open"
                                            THEN Append(@, Fr("KEEPALIVE", 0, Len(rc), "NONE")) ELSE @]

\* The peer writes a stream frame for a stream it knows.
PeerSend(t, sid, kind) ==
    /\ t = peer.cur
    /\ ~peer.closed
    /\ st.tstate[t] = "open"
    /\ sid \in peer.streams
    /\ peer.sent < MaxPeerFrames
    /\ LET f == CASE kind = "next"     -> Fr("PAYLOAD", sid, 0, "NONE")
                  [] kind = "complete" -> Fr("PAYLOAD", sid, 0, "COMPLETE")
                  [] kind = "requestN" -> Fr("REQUEST_N", sid, 0, "NONE")
                  [] kind = "error"    -> Fr("ERROR", sid, 0, "APPLICATION_ERROR")
       IN /\ st' = [st EXCEPT !.wireIn[t] = Append(@, f)]
          /\ peer' = [peer EXCEPT !.sent = @ + 1,
                        !.streams = IF kind \in {"complete", "error"} THEN @ \ {sid} ELSE @]

-----------------------------------------------------------------------------
Next ==
    \/ \E r \in BOOLEAN : ConnectClientSendSetup(r)
    \/ TryClientResume
    \/ \E sid \in StreamIds : \/ OpenStream(sid)
                              \/ RequestFireAndForget(sid)
                              \/ WritePayload(sid)
                              \/ WriteCloseStream(sid, "COMPLETE")
                              \/ WriteCloseStream(sid, "CANCEL")
    \/ MetadataPush
    \/ SendKeepalive
    \/ \E t \in Transports : ProcessFrame(t) \/ OnTerminal(t) \/ PeerAccept(t) \/ PeerReceive(t)
    \/ RunQueued
    \/ \E t \in Transports, sid \in StreamIds, k \in {"next", "complete", "requestN", "error"} :
           PeerSend(t, sid, k)

\* The event base runs every queued task, transports deliver the server's
\* frames, and the server answers SETUP and RESUME.  Transport failures,
\* application calls and the server's reading of other frames are not
\* assumed to happen.
Fairness ==
    /\ WF_vars(RunQueued)
    /\ \A t \in Transports : WF_vars(ProcessFrame(t)) /\ WF_vars(PeerAccept(t))

Spec == Init /\ [][Next]_vars /\ Fairness
-----------------------------------------------------------------------------
(* Properties.                                                             *)
(***************************************************************************)
Frames == [type : TrackedTypes \cup {"SETUP", "RESUME", "RESUME_OK", "KEEPALIVE", "METADATA_PUSH"},
           sid : StreamIds \cup {0}, arg : Nat, flag : STRING]

TypeOK ==
    /\ st.frameTransport \in Transports \cup {0}
    /\ st.isClosed \in BOOLEAN /\ st.resumeCallback \in BOOLEAN /\ st.isResumable \in BOOLEAN
    /\ st.streams \subseteq StreamIds
    /\ st.pendingFrames \in Seq(Frames) /\ st.sentFrames \in Seq(Frames)
    /\ st.resetPosition \in 0..Len(st.sentFrames)
    /\ st.impliedPosition \in Nat
    /\ st.tstate \in [Transports -> {"idle", "open", "closed", "broken"}]
    /\ st.wireOut \in [Transports -> Seq(Frames)] /\ st.wireIn \in [Transports -> Seq(Frames)]
    /\ peer.cur \in Transports \cup {0} /\ peer.received \in Seq(Frames)

\* Resume replay (resumeFromPosition replays the cache from the server's
\* position and only then flushes the frames queued by outputFrameOrEnqueue)
\* preserves the session: what the server has received is always the
\* beginning of what the client produced, in order, without gaps or
\* duplicates, across any number of broken transports and resumptions.
Session == INSTANCE ReliableSession WITH sent <- st.produced, delivered <- peer.received
SessionPreserved == Session!Spec

\* Every ClientResumeStatusCallback handed to reconnect is called exactly
\* once (onResumeOk, onResumeError or onConnectionError) unless the attempt
\* is still in progress; close, closeFrameTransport, RESUME_OK and ERROR
\* each reset resumeCallback_ after calling it.
ResumeCallbackOnce ==
    \A i \in DOMAIN st.resumeCalls :
        /\ st.resumeCalls[i] <= 1
        /\ (st.resumeCalls[i] = 0) = (st.resumeCallback /\ i = Len(st.resumeCalls))

\* The keepalive timer runs only on a live, resumed, open connection: it is
\* stopped by closeFrameTransport and started only by connect(.., true) and
\* resumeFromPosition.
KeepaliveOnlyWhenLive ==
    st.keepaliveOn => st.frameTransport # 0 /\ ~st.resumeCallback /\ ~st.isClosed

\* Every stream the map held is told it ended exactly once (endStreamInternal
\* removes it before notifying), and a closed automaton holds no stream.
StreamEndedOnce ==
    /\ \A x \in StreamIds : st.ended[x] <= 1 /\ (x \in st.streams => st.ended[x] = 0)
    /\ st.isClosed => st.streams = {}

\* A resume attempt is always settled: reconnect's callback is eventually
\* called and resumeCallback_ cleared.
ResumeSettles == st.resumeCallback ~> ~st.resumeCallback

\* The client never closes with a protocol error a session that an honest
\* server accepted as resumable (SETUP with RESUME_ENABLE) and would
\* therefore resume.
HonestPeerNeverAccused == peer.resumable => st.closeCause # "protocol"

\* A resume attempt that fails (the server rejects RESUME, or its position
\* is no longer in the resume cache) fails the attempt's callback without
\* ending the streams that were registered when the attempt started.
ResumeFailureKeepsStreams ==
    [][st.resumeCallback /\ ~st'.resumeCallback =>
         \A x \in st.preResume : st'.ended[x] = st.ended[x]]_vars
=============================================================================

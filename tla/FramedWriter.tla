---------------------------- MODULE FramedWriter ----------------------------
(***************************************************************************)
(* The length-prefix writer of the framing layer (FramedWriter.cpp).  It   *)
(* sits between the connection's frame output (upstream, which calls      *)
(* onNext / onNextMultiple / onComplete / onError) and the transport's     *)
(* byte stream (downstream, `stream_`, which may request and cancel).      *)
(*                                                                         *)
(* A frame's body is abstracted to its length; the length field is         *)
(* modelled byte by byte, so that what the writer puts on the wire can be  *)
(* parsed back by a reference reader.  The base class's signal methods     *)
(* drop signals once the writer is cancelled; onNextMultiple is called     *)
(* directly.  cancel() (SubscriptionBase) only posts cancelImpl to the     *)
(* executor, so signals already queued, and direct onNextMultiple calls,   *)
(* still run before the posted cancelImpl does.                            *)
(***************************************************************************)
EXTENDS Naturals, Sequences, SequencesExt

CONSTANTS
    Versions,   \* protocol versions the connection may negotiate
    Lengths,    \* frame body lengths the connection may hand over
    MaxFrames   \* bound on frames handed over

ASSUME Versions \subseteq {"0.1", "1.0"} /\ Lengths \subseteq Nat

VARIABLES
    w,      \* the writer: [version, stream, subscription, cancelled, posted]
    wire,   \* what downstream received: headers and bodies, in order
    down,   \* terminal signals downstream received
    given,  \* frame lengths upstream handed over, in order
    ended   \* which side ended the exchange: [upstream, downstream]

vars == <<w, wire, down, given, ended>>

\* kMaxFrameLength: the 24-bit maximum.
kMaxFrameLength == 16777215

Header(bytes) == [kind |-> "header", bytes |-> bytes]
Body(len) == [kind |-> "body", len |-> len]

-----------------------------------------------------------------------------
(* Length encoding.                                                        *)
(***************************************************************************)
\* getFrameSizeFieldLength: 4 bytes before 1.0, 3 from 1.0 on.
GetFrameSizeFieldLength(v) == IF v = "0.1" THEN 4 ELSE 3

\* Fault: the length never counts the field, whatever the version.
GetPayloadLengthNoField(v, len) == len

\* getPayloadLength: before 1.0 the length counts the field itself.
GetPayloadLength(v, len) == IF v = "0.1" THEN len + GetFrameSizeFieldLength(v) ELSE len

\* Fault: the loop writes one byte less than the field length.
WriteFrameLengthShort(frameLength, n) ==
    [i \in 1..(n - 1) |-> (frameLength \div 2^(8 * (n - i))) % 256]

\* writeFrameLength: the field's bytes, highest first
\* ((frameLength >> shift) & 0xFF, shift from (n-1)*8 down to 0).
WriteFrameLength(frameLength, n) ==
    [i \in 1..n |-> (frameLength \div 2^(8 * (n - i))) % 256]

\* appendSize: the sized frame, or nothing when it is too long.
AppendSize(v, len) ==
    LET payloadLength == GetPayloadLength(v, len) IN
    IF payloadLength > kMaxFrameLength THEN <<>>
    ELSE <<Header(WriteFrameLength(payloadLength, GetFrameSizeFieldLength(v))), Body(len)>>

-----------------------------------------------------------------------------
(* Reference reader: a length field read big-endian, then the body.        *)
(***************************************************************************)
FieldValue(bytes) == FoldLeft(LAMBDA acc, b : acc * 256 + b, 0, bytes)

RECURSIVE Parse(_, _)
Parse(v, s) ==
    IF Len(s) < 2 THEN <<>>
    ELSE IF s[1].kind # "header" \/ s[2].kind # "body" THEN <<-1>>
    ELSE LET n == FieldValue(s[1].bytes)
             len == IF v = "0.1" THEN n - 4 ELSE n
         IN IF s[2].len = len THEN <<len>> \o Parse(v, Tail(Tail(s))) ELSE <<-1>>

-----------------------------------------------------------------------------
(* FramedWriter.                                                           *)
(***************************************************************************)
\* Fault: cancelImpl completes downstream but keeps stream_.
CancelImplKeepsStream(x) ==
    [x EXCEPT !.subscription = "released", !.cancelled = TRUE,
              !.down = IF x.stream = "held" THEN Append(@, "onComplete") ELSE @]

\* cancelImpl: cancel upstream, complete downstream, release both.
CancelImpl(x) ==
    [x EXCEPT !.subscription = "released", !.cancelled = TRUE,
              !.down = IF x.stream = "held" THEN Append(@, "onComplete") ELSE @,
              !.stream = "released"]

\* SubscriptionBase::cancel: post cancelImpl to the executor.
SubscriptionCancel(x) == [x EXCEPT !.posted = @ + 1]

\* onNextImpl: a frame that cannot be sized cancels the writer.
OnNextImpl(x, len) ==
    LET sized == AppendSize(x.version, len) IN
    IF sized = <<>> THEN SubscriptionCancel(x) ELSE [x EXCEPT !.wire = @ \o sized]

\* onNextMultiple: all frames are sized first; any failure cancels the
\* writer and drops the whole batch.
OnNextMultiple(x, lens) ==
    LET sized == [i \in DOMAIN lens |-> AppendSize(x.version, lens[i])] IN
    IF \E i \in DOMAIN sized : sized[i] = <<>> THEN SubscriptionCancel(x)
    ELSE [x EXCEPT !.wire = @ \o FlattenSeq(sized)]

\* onCompleteImpl / onErrorImpl: the terminal goes downstream, then the
\* subscription is cancelled.
OnTerminalImpl(x, sig) ==
    [x EXCEPT !.down = IF x.stream = "held" THEN Append(@, sig) ELSE @,
              !.stream = "released", !.subscription = "released"]

-----------------------------------------------------------------------------
(* Writer state as one record, with the wire and the signals it produced.  *)
(***************************************************************************)
State == [version |-> w.version, stream |-> w.stream, subscription |-> w.subscription,
          cancelled |-> w.cancelled, posted |-> w.posted, wire |-> wire, down |-> down]

Apply(x) ==
    /\ w' = [version |-> x.version, stream |-> x.stream,
             subscription |-> x.subscription, cancelled |-> x.cancelled,
             posted |-> x.posted]
    /\ wire' = x.wire
    /\ down' = x.down

\* onSubscribeImpl has run: both handles are held.
Init ==
    /\ w \in [version : Versions, stream : {"held"}, subscription : {"held"},
              cancelled : {FALSE}, posted : {0}]
    /\ wire = <<>> /\ down = <<>> /\ given = <<>>
    /\ ended = [upstream |-> FALSE, downstream |-> FALSE]

\* Upstream calls onNextMultiple only while it holds the subscription; a
\* signal through the base class may still be in flight after a cancel and
\* is then dropped.
UpstreamLive == w.subscription = "held"

OnNext(len) ==
    /\ ~ended.upstream /\ Len(given) < MaxFrames
    /\ Apply(IF w.cancelled THEN State ELSE OnNextImpl(State, len))
    /\ given' = Append(given, len)
    /\ UNCHANGED ended

OnNextMultipleCall(l1, l2) ==
    /\ UpstreamLive /\ Len(given) + 2 <= MaxFrames
    /\ Apply(OnNextMultiple(State, <<l1, l2>>))
    /\ given' = given \o <<l1, l2>>
    /\ UNCHANGED ended

OnComplete ==
    /\ ~ended.upstream
    /\ Apply(IF w.cancelled THEN State ELSE OnTerminalImpl(State, "onComplete"))
    /\ ended' = [ended EXCEPT !.upstream = TRUE]
    /\ UNCHANGED given

OnError ==
    /\ ~ended.upstream
    /\ Apply(IF w.cancelled THEN State ELSE OnTerminalImpl(State, "onError"))
    /\ ended' = [ended EXCEPT !.upstream = TRUE]
    /\ UNCHANGED given

\* Downstream cancels (the transport goes away): cancel() posts cancelImpl.
Cancel ==
    /\ w.stream = "held" /\ ~ended.downstream
    /\ Apply(SubscriptionCancel(State))
    /\ ended' = [ended EXCEPT !.downstream = TRUE]
    /\ UNCHANGED given

\* The executor runs a posted cancelImpl.
RunCancel ==
    /\ w.posted > 0
    /\ Apply([CancelImpl(State) EXCEPT !.posted = @ - 1])
    /\ UNCHANGED <<given, ended>>

Next ==
    \/ \E len \in Lengths : OnNext(len)
    \/ \E l1, l2 \in Lengths : OnNextMultipleCall(l1, l2)
    \/ OnComplete \/ OnError \/ Cancel \/ RunCancel

Spec == Init /\ [][Next]_vars
-----------------------------------------------------------------------------
(* Properties.                                                             *)
(***************************************************************************)
Fits(v, len) == GetPayloadLength(v, len) <= kMaxFrameLength

\* Every header has the width the negotiated version prescribes and holds
\* bytes; every body follows its header.
TypeOK ==
    /\ w.version \in Versions /\ w.cancelled \in BOOLEAN /\ w.posted \in Nat
    /\ \A i \in DOMAIN wire :
         IF i % 2 = 1
         THEN wire[i].kind = "header" /\ Len(wire[i].bytes) = GetFrameSizeFieldLength(w.version)
              /\ \A j \in DOMAIN wire[i].bytes : wire[i].bytes[j] \in 0..255
         ELSE wire[i].kind = "body"

\* s is t with some elements left out, the rest in their order.
IsOrderedSubSeq(s, t) ==
    \E kept \in SUBSET DOMAIN t :
        /\ Cardinality(kept) = Len(s)
        /\ LET at == SetToSortSeq(kept, <) IN \A i \in DOMAIN s : s[i] = t[at[i]]

\* Framing correctness: reading the byte stream back with the version's
\* length field gives frames upstream handed over, each one intact, in the
\* order they were handed over, none twice and none too long for the field.
\* Which frames are missing (an oversized one, its batch, those after the
\* posted cancelImpl ran) is OversizedFailsOnlyItself's question.
FramingRoundTrip ==
    IsOrderedSubSeq(Parse(w.version, wire), SelectSeq(given, LAMBDA len : Fits(w.version, len)))

\* Downstream gets at most one terminal signal, whichever of upstream's
\* completion, its error, its own cancel or an oversized frame ends the
\* writer first.
DownstreamTerminalOnce == Len(down) <= 1

\* A frame longer than the 24-bit maximum fails that write only: until
\* either side ends the exchange, every frame that fits is written, also
\* those handed over after an oversized one.
OversizedFailsOnlyItself ==
    ~ended.upstream /\ ~ended.downstream =>
        Parse(w.version, wire) = SelectSeq(given, LAMBDA len : Fits(w.version, len))
=============================================================================

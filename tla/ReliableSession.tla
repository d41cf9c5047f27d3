--------------------------- MODULE ReliableSession ---------------------------
(***************************************************************************)
(* What a resumable RSocket connection promises its peer: the stream-level *)
(* frames one side produces reach the other side in production order, with *)
(* no frame lost from the middle and none delivered twice, whatever happens *)
(* to the transports underneath.  The connection may stop at any point, so *)
(* nothing is promised to arrive.                                          *)
(***************************************************************************)
EXTENDS Naturals, Sequences

VARIABLES
    sent,       \* frames the sender has produced, in order
    delivered   \* frames the receiver has accepted, in order

vars == <<sent, delivered>>

Init == sent = <<>> /\ delivered = <<>>

\* The sender produces one more frame, whatever it is.
Produce ==
    /\ Len(sent') = Len(sent) + 1
    /\ SubSeq(sent', 1, Len(sent)) = sent
    /\ UNCHANGED delivered

\* The receiver accepts the oldest frame it has not got yet.
Deliver ==
    /\ Len(delivered) < Len(sent)
    /\ delivered' = Append(delivered, sent[Len(delivered) + 1])
    /\ UNCHANGED sent

Next == Produce \/ Deliver

Spec == Init /\ [][Next]_vars
=============================================================================

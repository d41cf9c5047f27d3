------------------------- MODULE MC_StreamResponder -------------------------
(* Model-checking instance of the stream responder.                       *)
EXTENDS StreamResponder

\* REQUEST_N values the requester sends.
MCRequestNs == {1, 2}
=============================================================================

------------------------- MODULE MC_ChannelRequester -------------------------
(* Model-checking instance: kMaxRequestN shrunk to 2 so that clamp and     *)
(* carry happen with small demands.                                        *)
EXTENDS ChannelRequester

\* Demands below, at and above the clamp.
MCRequestNs == {1, 3}
=============================================================================

--------------------------- MODULE MC_RSocketServer ---------------------------
EXTENDS RSocketServer

CONSTANTS c1, c2

MCConns == {c1, c2}
=============================================================================

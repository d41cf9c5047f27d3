------------------------ MODULE MC_ConnectionAutomaton ------------------------
(* Model-checking instance of the server automaton and an honest client.   *)
EXTENDS ConnectionAutomaton

\* Stream ids of the client's parity.
MCStreamIds == {1, 3}
=============================================================================

------------------------ MODULE MC_RSocketStateMachine ------------------------
(* Model-checking instance: two stream ids, one setup and two resumptions. *)
EXTENDS RSocketStateMachine

\* Stream ids of the client's parity.
MCStreamIds == {1}
=============================================================================

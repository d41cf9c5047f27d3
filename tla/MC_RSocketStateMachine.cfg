\* Client automaton, honest server, up to two resumptions: the safety
\* invariants, the session refinement and resume-callback liveness under
\* fair scheduling.
CONSTANTS
    StreamIds <- MCStreamIds
    MaxTransports = 3
    MaxFrames = 2
    MaxKeepalives = 1
    MaxPeerFrames = 1
    MaxQueued = 1
SPECIFICATION Spec
INVARIANT TypeOK ResumeCallbackOnce KeepaliveOnlyWhenLive StreamEndedOnce
PROPERTY SessionPreserved ResumeSettles
\* A closed automaton with nothing in flight takes no further step.
CHECK_DEADLOCK FALSE

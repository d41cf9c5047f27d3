\* A frame read from an abandoned transport, processed after tryClientResume.
CONSTANTS
    StreamIds <- MCStreamIds
    MaxTransports = 2
    MaxFrames = 2
    MaxKeepalives = 1
    MaxPeerFrames = 1
    MaxQueued = 1
SPECIFICATION Spec
INVARIANT HonestPeerNeverAccused
\* A closed automaton with nothing in flight takes no further step.
CHECK_DEADLOCK FALSE

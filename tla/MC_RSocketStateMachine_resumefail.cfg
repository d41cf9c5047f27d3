\* A resume attempt the server rejects, with a stream open.
CONSTANTS
    StreamIds <- MCStreamIds
    MaxTransports = 2
    MaxFrames = 2
    MaxKeepalives = 1
    MaxPeerFrames = 1
    MaxQueued = 1
SPECIFICATION Spec
PROPERTY ResumeFailureKeepsStreams
\* A closed automaton with nothing in flight takes no further step.
CHECK_DEADLOCK FALSE

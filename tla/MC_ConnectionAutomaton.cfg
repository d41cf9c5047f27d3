\* Server automaton, honest client that resumes after the server saw the
\* break: the server-to-client session, every resume answered, and the
\* client never accused of a protocol error.
CONSTANTS
    StreamIds <- MCStreamIds
    ServerResumable = {TRUE, FALSE}
    MaxTransports = 3
    MaxFrames = 2
    MaxKeepalives = 1
    MaxQueued = 2
SPECIFICATION Spec
INVARIANT TypeOK HonestPeerNeverAccused
PROPERTY ServerSessionPreserved ResumeAnswered
\* A closed session with nothing in flight takes no further step.
CHECK_DEADLOCK FALSE

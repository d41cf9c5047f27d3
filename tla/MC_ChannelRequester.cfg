\* Channel requester with its application and an honest responder.
CONSTANTS
    kMaxRequestN = 2
    RequestNs <- MCRequestNs
    MaxRequests = 3
    MaxItems = 3
    MaxPeerFrames = 3
SPECIFICATION Spec
INVARIANT TypeOK DemandConserved WireSequenceLegal RegisteredUntilTerminated
\* A stream that has ended, or whose bounds are spent, takes no more steps.
CHECK_DEADLOCK FALSE

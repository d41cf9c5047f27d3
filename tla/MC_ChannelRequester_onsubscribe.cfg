\* The local producer subscribes after the stream was already closed.
CONSTANTS
    kMaxRequestN = 2
    RequestNs <- MCRequestNs
    MaxRequests = 1
    MaxItems = 1
    MaxPeerFrames = 1
SPECIFICATION Spec
INVARIANT OnSubscribeNeverAborts
\* A stream that has ended, or whose bounds are spent, takes no more steps.
CHECK_DEADLOCK FALSE

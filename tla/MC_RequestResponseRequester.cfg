\* Request-response requester with its subscriber and a responder whose
\* answer may cross the requester's CANCEL.
CONSTANTS
    RequestNs <- MCRequestNs
    PeerAnswers <- MCPeerAnswers
    MaxCalls = 4
SPECIFICATION Spec
INVARIANT TypeOK SubscriberSignalsLegal LateFrameNeverAborts
PROPERTY RequestEventuallyEnds
\* A stream that has ended, or whose bounds are spent, takes no more steps.
CHECK_DEADLOCK FALSE

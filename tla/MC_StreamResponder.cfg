\* Stream responder with a producer that subscribes late and a requester
\* that may cancel or grant more demand at any time.
CONSTANTS
    InitialN = 1
    RequestNs <- MCRequestNs
    MaxRequestNs = 2
    MaxItems = 3
SPECIFICATION Spec
INVARIANT TypeOK NothingAfterTerminal ProducerReleased DemandForwarded
\* A stream that has ended, or whose bounds are spent, takes no more steps.
CHECK_DEADLOCK FALSE

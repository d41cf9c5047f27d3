\* Does an oversized frame fail only its own write?
CONSTANTS
    Versions = {"0.1", "1.0"}
    Lengths <- MCLengths
    MaxFrames = 2
SPECIFICATION Spec
INVARIANT OversizedFailsOnlyItself
CHECK_DEADLOCK FALSE

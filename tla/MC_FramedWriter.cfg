\* Framing writer for both protocol versions.
CONSTANTS
    Versions = {"0.1", "1.0"}
    Lengths <- MCLengths
    MaxFrames = 3
SPECIFICATION Spec
INVARIANT TypeOK FramingRoundTrip DownstreamTerminalOnce
\* Once upstream has finished or been cancelled nothing more happens.
CHECK_DEADLOCK FALSE

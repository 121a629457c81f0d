CONSTANTS
    State = {"A", "B", "C"}
    Event = {"x", "y"}
    NoEvent = "none"
    InitialState = "A"
    ImplBlock <- Blocks
    MaxMethods = 2
SPECIFICATION FairSpec
INVARIANT AcceptedStatesAreReachable
\* The macro stops at its verdict.
CHECK_DEADLOCK FALSE

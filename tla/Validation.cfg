CONSTANTS
    State = {"A", "B", "C"}
    Event = {"x", "y"}
    NoEvent = "none"
    InitialState = "A"
    ImplBlock <- Blocks
    MaxMethods = 3
SPECIFICATION FairSpec
INVARIANTS
    AcceptedIsDefinition
    RejectedIsInvalid
PROPERTIES VerdictIsRight EveryStepProgresses VerdictIsReached
\* The macro stops at its verdict.
CHECK_DEADLOCK FALSE

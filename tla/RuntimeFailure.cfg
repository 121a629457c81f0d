\* ErrorPropagationFsm: its handler returns a Result with an error type.
CONSTANTS
    State <- ErrorStates
    Event <- ErrorEvents
    Handlers <- ErrorHandlers
    NoEvent = "none"
    InitialState = "Idle"
    ChannelSize = 1
    Client = {c1, c2}
    MaxAge = 1
SYMMETRY ClientSymmetry
SPECIFICATION OutcomeSpec
INVARIANT ResultTellsTheEnd
\* The machine may be over and every handle dropped.
CHECK_DEADLOCK FALSE

\* MyFsm: it comes back to its first state.
CONSTANTS
    State <- MyStates
    Event <- MyEvents
    Handlers <- MyHandlers
    NoEvent = "none"
    InitialState = "Idle"
    ChannelSize = 1
    Client = {c1, c2}
    MaxAge = 0
SYMMETRY ClientSymmetry
SPECIFICATION ObserversSpec
INVARIANT ErrMeansElsewhere
PROPERTY OkMeansReached
\* The machine may be over and every handle dropped.
CHECK_DEADLOCK FALSE

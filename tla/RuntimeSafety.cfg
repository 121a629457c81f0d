\* IntegrationFsm: two states with a timeout, a self-transition.
CONSTANTS
    State <- IntegrationStates
    Event <- IntegrationEvents
    Handlers <- IntegrationHandlers
    NoEvent = "none"
    InitialState = "Idle"
    ChannelSize = 1
    Client = {c1, c2}
    MaxAge = 2
SYMMETRY ClientSymmetry
SPECIFICATION Spec
INVARIANTS
    TypeOK
    DispatchLegal
    TimerMatchesState
    TimeoutPunctual
    ObserverCurrent
PROPERTIES
    GraphSpec
    MachineSpec
\* The machine may be over and every handle dropped.
CHECK_DEADLOCK FALSE

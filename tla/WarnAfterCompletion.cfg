\* MyFsm, the quick start of README.md.
CONSTANTS
    State <- MyStates
    Event <- MyEvents
    Handlers <- MyHandlers
    NoEvent = "none"
    InitialState = "Idle"
    ChannelSize = 1
    Client = {c1}
    MaxAge = 0
SPECIFICATION Spec
PROPERTY WarnsOnlyBeforeCompletion
CHECK_DEADLOCK FALSE

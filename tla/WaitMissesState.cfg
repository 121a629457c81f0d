\* MyFsm, the quick start of README.md.
CONSTANTS
    State <- MyStates
    Event <- MyEvents
    Handlers <- MyHandlers
    NoEvent = "none"
    InitialState = "Idle"
    ChannelSize = 2
    Client = {c1}
    MaxAge = 0
SPECIFICATION ObserversFairSpec
PROPERTY ReachingEndsWait
CHECK_DEADLOCK FALSE

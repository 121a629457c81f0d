\* TimeoutChainFsm: on_timeout moves to a state that has a timeout itself.
CONSTANTS
    State <- ChainStates
    Event <- ChainEvents
    Handlers <- ChainHandlers
    NoEvent = "none"
    InitialState = "Idle"
    ChannelSize = 1
    Client = {c1}
    MaxAge = 2
SPECIFICATION ObserversFairSpec
PROPERTIES
    RestingStateIsSeen
    EndReleasesWaiters
\* The machine may be over and every handle dropped.
CHECK_DEADLOCK FALSE

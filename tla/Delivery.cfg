\* WorkerFsm: its Failed state re-arms its own timeout for ever.
CONSTANTS
    State <- WorkerStates
    Event <- WorkerEvents
    Handlers <- WorkerHandlers
    NoEvent = "none"
    InitialState = "Idle"
    ChannelSize = 2
    Client = {c1, c2}
    MaxAge = 1
    MaxSends = 3
SPECIFICATION BoundedSpec
INVARIANTS
    InOrderOnce
    DrainedOnClose
    LossIsBounded
PROPERTY SentIsTaken
\* The machine may be over and every handle dropped.
CHECK_DEADLOCK FALSE

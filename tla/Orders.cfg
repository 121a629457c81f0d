\* Two requests at a time race for one id; two machines are spawned,
\* one route of the three that send an event is used.
CONSTANTS
    OrderId = {o1}
    Request = {r1, r2}
    ChannelSize = 1
    Route = {"validate"}
    MaxSpawns = 2
SPECIFICATION FairSpec
INVARIANTS
    OneOwner
    RegisteredIsLive
    StoppedIsOver
    GoneIsFree
PROPERTIES
    RegisteredIsSpared
    EveryRequestAnswered

\* Three machines: one cancelled, one spared, one spawned late.
CONSTANT Fsm = {f1, f2, f3}
SPECIFICATION FairSpec
INVARIANTS
    CancelledWasAsked
    CancelIsComplete
PROPERTY CancelReachesAll
\* Every machine may be over.
CHECK_DEADLOCK FALSE

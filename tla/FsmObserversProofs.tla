------------------------- MODULE FsmObserversProofs -------------------------
(***************************************************************************)
(* What wait_for_state returns, for every definition the validator accepts *)
(* and any number of waiters.                                              *)
(***************************************************************************)
EXTENDS FsmObservers, FsmRuntimeProofs

WaitType ==
    /\ wait \in [Client -> {"none", "check", "changed", "Ok", "Err"}]
    /\ target \in [Client -> State]
    /\ seen \in [Client -> BOOLEAN]

\* The watch Sender lives as long as the loop.
LoopPublishes == pc \in {"spawned", "select", "handler"} => watch_open

\* A waiter inside changed() that has seen the latest version has seen that it is
\* not the state it waits for.
SeenIsElsewhere ==
    \A c \in Client : wait[c] = "changed" /\ seen[c] => published # target[c]

OInv ==
    /\ TypeOK
    /\ WaitType
    /\ LoopPublishes
    /\ SeenIsElsewhere
    /\ ErrMeansElsewhere

LEMMA InitOInv == ObserversInit => OInv
<1> SUFFICES ASSUME ObserversInit PROVE OInv
  OBVIOUS
<1>1. TypeOK
  BY InitTypeOK DEF ObserversInit
<1>2. WaitType
  BY HandlersType DEF ObserversInit, WaitType
<1>3. LoopPublishes /\ SeenIsElsewhere /\ ErrMeansElsewhere
  BY DEF ObserversInit, Init, LoopPublishes, SeenIsElsewhere, ErrMeansElsewhere
<1> QED BY <1>1, <1>2, <1>3 DEF OInv

LEMMA ObserversStepIsStep == [ObserversNext]_observerVars => [Next]_vars
<1> SUFFICES ASSUME [ObserversNext]_observerVars PROVE [Next]_vars
  OBVIOUS
<1>1. ASSUME NEW c \in Client, NEW s, WaitBegin(c, s) PROVE UNCHANGED vars
  BY <1>1 DEF WaitBegin
<1>2. ASSUME NEW c \in Client, WaitCheck(c) \/ WaitChanged(c) \/ WaitEnd(c) PROVE UNCHANGED vars
  BY <1>2 DEF WaitCheck, WaitChanged, WaitEnd
<1> QED BY <1>1, <1>2 DEF ObserversNext, Next, observerVars

\* The steps that publish nothing and do not bring the loop back.
LEMMA UnpublishedStep ==
    ASSUME OInv, UNCHANGED <<published, wait, target, seen>>,
           pc \in {"exit", "done"} => pc' \in {"exit", "done"},
           watch_open' = watch_open \/ pc' \in {"exit", "done"}, TypeOK'
    PROVE  LoopPublishes' /\ SeenIsElsewhere' /\ ErrMeansElsewhere'
BY DEF OInv, TypeOK, LoopPublishes, SeenIsElsewhere, ErrMeansElsewhere

LEMMA NextOInv == OInv /\ [ObserversNext]_observerVars => OInv'
<1> SUFFICES ASSUME OInv, [ObserversNext]_observerVars
             PROVE  WaitType' /\ LoopPublishes' /\ SeenIsElsewhere' /\ ErrMeansElsewhere'
  BY NextTypeOK, ObserversStepIsStep DEF OInv
<1> USE DEF taskVars, channelVars, watchVars, ownerVars, clientVars
<1>0. /\ TypeOK /\ WaitType /\ LoopPublishes /\ SeenIsElsewhere /\ ErrMeansElsewhere /\ TypeOK'
  BY NextTypeOK, ObserversStepIsStep DEF OInv
<1>1. CASE HandlerReturn /\ NotifyObservers /\ UNCHANGED <<wait, target>>
  <2>1. pc = "handler" /\ pc' = "select" /\ watch_open' = watch_open
    BY <1>1 DEF HandlerReturn
  <2>2. CASE live = {}
    <3>1. published' = published /\ seen' = seen
      BY <1>1, <2>2 DEF HandlerReturn, ApplyTransition, NotifyObservers
    <3> QED BY <1>0, <1>1, <2>1, <3>1
            DEF WaitType, LoopPublishes, SeenIsElsewhere, ErrMeansElsewhere
  <2>3. CASE live # {}
    <3>1. seen' = [c \in Client |-> FALSE]
      BY <1>1, <2>3 DEF NotifyObservers
    <3> QED BY <1>0, <1>1, <2>1, <3>1
            DEF WaitType, LoopPublishes, SeenIsElsewhere, ErrMeansElsewhere
  <2> QED BY <2>2, <2>3
<1>2. CASE /\ SelectRecv \/ HandlerFails \/ (\E c \in Client : SendPush(c)) \/ OtherNext
           /\ HandlesInUse
           /\ UNCHANGED <<wait, target, seen>>
  <2>0. WaitType'
    BY <1>0, <1>2 DEF WaitType
  <2>1. CASE SelectRecv
    BY <1>0, <1>2, <2>0, <2>1, UnpublishedStep DEF SelectRecv, RecvMatched, RecvUnmatched, Receive
  <2>2. ASSUME NEW c \in Client, SendPush(c) \/ ClientNext(c)
        PROVE  LoopPublishes' /\ SeenIsElsewhere' /\ ErrMeansElsewhere'
    <3>1. UNCHANGED <<pc, published, watch_open>>
      BY <2>2 DEF ClientNext, SendBegin, SendReserve, TrySend, SendPush, SendRefused,
                  SendAbandoned, CloneHandle, DropHandle, Shutdown
    <3> QED BY <1>0, <1>2, <3>1, UnpublishedStep
  <2>3. CASE Tick \/ AwaitTask \/ DropTask \/ ParentCancel
    BY <1>0, <1>2, <2>0, <2>3, UnpublishedStep DEF Tick, AwaitTask, DropTask, ParentCancel
  <2>4. CASE Start \/ SelectTimer \/ SelectCancelled \/ SelectClosed \/ Abort
    BY <1>0, <1>2, <2>0, <2>4, UnpublishedStep DEF Start, SelectTimer, SelectCancelled, SelectClosed, Abort
  <2>5. ASSUME NEW why, LeaveHandler(why)
        PROVE  LoopPublishes' /\ SeenIsElsewhere' /\ ErrMeansElsewhere'
    BY <1>0, <1>2, <2>5, UnpublishedStep DEF LeaveHandler
  <2>6. CASE DropReceiver \/ DropStateTx \/ Complete
    BY <1>0, <1>2, <2>0, <2>6, UnpublishedStep DEF DropReceiver, DropStateTx, Complete
  <2> QED
    BY <1>2, <2>0, <2>1, <2>2, <2>3, <2>4, <2>5, <2>6
    DEF OtherNext, TaskNext, HandlerFails, HandlerFailsAs, Failure, HandlerCancelled
<1>3. ASSUME NEW c \in Client, NEW s \in States(Handlers, InitialState), WaitBegin(c, s)
      PROVE  WaitType' /\ LoopPublishes' /\ SeenIsElsewhere' /\ ErrMeansElsewhere'
  <2>1. UNCHANGED <<pc, published, watch_open>>
    BY <1>3 DEF WaitBegin, vars
  <2>2. s \in State
    BY HandlersType DEF States, Handler
  <2> QED BY <1>0, <1>3, <2>1, <2>2
          DEF WaitBegin, WaitType, LoopPublishes, SeenIsElsewhere, ErrMeansElsewhere
<1>4. ASSUME NEW c \in Client, WaitCheck(c)
      PROVE  WaitType' /\ LoopPublishes' /\ SeenIsElsewhere' /\ ErrMeansElsewhere'
  <2>1. UNCHANGED <<pc, published, watch_open>>
    BY <1>4 DEF WaitCheck, vars
  <2> QED BY <1>0, <1>4, <2>1
          DEF WaitCheck, WaitType, LoopPublishes, SeenIsElsewhere, ErrMeansElsewhere
<1>5. ASSUME NEW c \in Client, WaitChanged(c)
      PROVE  WaitType' /\ LoopPublishes' /\ SeenIsElsewhere' /\ ErrMeansElsewhere'
  <2>1. UNCHANGED <<pc, published, watch_open, target>>
    BY <1>5 DEF WaitChanged, vars
  <2>2. CASE ~seen[c] /\ wait' = [wait EXCEPT ![c] = "check"]
    BY <1>0, <1>5, <2>1, <2>2
    DEF WaitChanged, WaitType, LoopPublishes, SeenIsElsewhere, ErrMeansElsewhere
  <2>3. CASE seen[c] /\ ~watch_open /\ wait' = [wait EXCEPT ![c] = "Err"]
    <3>1. pc \in {"exit", "done"} /\ published # target[c]
      BY <1>0, <1>5, <2>3 DEF WaitChanged, LoopPublishes, SeenIsElsewhere, TypeOK
    <3> QED BY <1>0, <1>5, <2>1, <2>3, <3>1
            DEF WaitChanged, WaitType, LoopPublishes, SeenIsElsewhere, ErrMeansElsewhere
  <2> QED BY <1>5, <2>2, <2>3 DEF WaitChanged
<1>6. ASSUME NEW c \in Client, WaitEnd(c)
      PROVE  WaitType' /\ LoopPublishes' /\ SeenIsElsewhere' /\ ErrMeansElsewhere'
  <2>1. UNCHANGED <<pc, published, watch_open>>
    BY <1>6 DEF WaitEnd, vars
  <2> QED BY <1>0, <1>6, <2>1, HandlersType
          DEF WaitEnd, WaitType, LoopPublishes, SeenIsElsewhere, ErrMeansElsewhere
<1>7. CASE UNCHANGED observerVars
  <2>1. UNCHANGED <<pc, published, watch_open, wait, target, seen>>
    BY <1>7 DEF observerVars, vars
  <2> QED BY <1>0, <2>1 DEF WaitType, LoopPublishes, SeenIsElsewhere, ErrMeansElsewhere
<1> QED BY <1>1, <1>2, <1>3, <1>4, <1>5, <1>6, <1>7 DEF ObserversNext

LEMMA ObserversInvariance == ObserversSpec => []OInv
BY InitOInv, NextOInv, PTL DEF ObserversSpec

\* An error from wait_for_state means that the machine ended in another state.
THEOREM WaitErrorCorrect == ObserversSpec => []ErrMeansElsewhere
<1>1. OInv => ErrMeansElsewhere
  BY DEF OInv
<1> QED BY <1>1, ObserversInvariance, PTL

\* Ok from wait_for_state is given in the state that was waited for.
THEOREM WaitOkCorrect == ObserversSpec => OkMeansReached
<1> DEFINE Reached ==
        \A c \in Client : wait[c] # "Ok" /\ wait'[c] = "Ok" => published = target[c]
<1>1. ASSUME OInv, [ObserversNext]_observerVars PROVE Reached
  <2>0. WaitType
    BY <1>1 DEF OInv
  <2>1. CASE UNCHANGED wait
    BY <2>1
  <2>2. ASSUME NEW c \in Client, NEW s, WaitBegin(c, s) PROVE Reached
    BY <2>0, <2>2 DEF WaitBegin, WaitType
  <2>3. ASSUME NEW c \in Client, WaitCheck(c) PROVE Reached
    BY <2>0, <2>3 DEF WaitCheck, WaitType
  <2>4. ASSUME NEW c \in Client, WaitChanged(c) \/ WaitEnd(c) PROVE Reached
    BY <2>0, <2>4 DEF WaitChanged, WaitEnd, WaitType
  <2>5. CASE UNCHANGED observerVars
    BY <2>1, <2>5 DEF observerVars
  <2> QED BY <1>1, <2>1, <2>2, <2>3, <2>4, <2>5 DEF ObserversNext
<1> QED BY <1>1, ObserversInvariance, PTL DEF ObserversSpec, OkMeansReached

\* A waiter that sleeps in changed() has something to wait for: the machine is
\* in another state than the one waited for, and is not over without its Sender
\* being gone, which wakes the waiter.
NoWakeupIsLost ==
    \A c \in Client : wait[c] = "changed" /\ seen[c] =>
        /\ published # target[c]
        /\ pc = "done" => ~watch_open

\* No waiter sleeps through the state it waits for, nor past the machine's end.
THEOREM WaitersAreWoken == ObserversSpec => []NoWakeupIsLost
<1>1. OInv /\ EndClosesAll => NoWakeupIsLost
  BY DEF OInv, SeenIsElsewhere, EndClosesAll, NoWakeupIsLost
<1>2. ObserversInit => EndClosesAll
  BY DEF ObserversInit, Init, EndClosesAll
<1>3. EndClosesAll /\ [ObserversNext]_observerVars => EndClosesAll'
  BY ObserversStepIsStep, NextEndClosesAll
<1>4. ObserversSpec => []EndClosesAll
  BY <1>2, <1>3, PTL DEF ObserversSpec
<1> QED BY <1>1, <1>4, ObserversInvariance, PTL
=============================================================================

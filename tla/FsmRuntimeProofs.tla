-------------------------- MODULE FsmRuntimeProofs --------------------------
(***************************************************************************)
(* The safety properties of FsmRuntime, for every definition the validator *)
(* accepts, every channel size and every finite set of clients.            *)
(***************************************************************************)
EXTENDS FsmRuntime, FsmDefinitionProofs, FiniteSetTheorems

-----------------------------------------------------------------------------
(* What the assumptions give.                                              *)

LEMMA HandlersType ==
    /\ Handlers \in Seq(Handler)
    /\ InitialState \in State
    /\ \A i \in DOMAIN Handlers : Handlers[i] \in Handler /\ Handlers[i].return_states \subseteq State
    /\ \A i \in DOMAIN Handlers : i \in 1..Len(Handlers)
    /\ Len(Handlers) \in Nat
<1>1. Handlers \in Seq(Handler) /\ InitialState \in State
  BY DefinitionAssumption DEF IsDefinition
<1>2. ASSUME NEW i \in DOMAIN Handlers
      PROVE  Handlers[i] \in Handler /\ Handlers[i].return_states \subseteq State
  <2>1. Handlers[i] \in Handler
    BY <1>1
  <2>2. Handlers[i].return_states \subseteq State
    BY <2>1 DEF Handler
  <2> QED BY <2>1, <2>2
<1>3. \A i \in DOMAIN Handlers : i \in 1..Len(Handlers)
  BY <1>1
<1>4. Len(Handlers) \in Nat
  BY <1>1
<1> QED BY <1>1, <1>2, <1>3, <1>4

LEMMA EventsAreEvents == Events(Handlers) \subseteq Event
<1> SUFFICES ASSUME NEW i \in DOMAIN Handlers, Handlers[i].event # NoEvent
             PROVE  Handlers[i].event \in Event
  BY DEF Events
<1> QED BY HandlersType DEF Handler

\* The sleep is armed with a duration the age can reach.
LEMMA TimeoutInRange ==
    ASSUME NEW s \in State
    PROVE  /\ TimeoutOf(Handlers, s) \in Duration
           /\ s \in StatesWithTimeout(Handlers) <=> TimeoutOf(Handlers, s) # NoTimeout
           /\ TimeoutOf(Handlers, s) <= MaxAge
<1>1. /\ TimeoutOf(Handlers, s) \in Duration
      /\ s \in StatesWithTimeout(Handlers) <=> TimeoutOf(Handlers, s) # NoTimeout
  BY HandlersType, TimeoutOfType
<1>2. TimeoutOf(Handlers, s) <= MaxAge
  <2>1. CASE s \in StatesWithTimeout(Handlers)
    BY <2>1, HandlersType, TimeoutOfArming, MaxAgeAssumption
  <2>2. CASE s \notin StatesWithTimeout(Handlers)
    BY <1>1, <2>2, MaxAgeAssumption DEF NoTimeout
  <2> QED BY <2>1, <2>2
<1> QED BY <1>1, <1>2

\* An #[on] arm belongs to a handler that is not the timeout handler.
LEMMA EventArmSource ==
    ASSUME NEW i, NEW s, NEW e \in Event, IsArm(Handlers, i, s, e)
    PROVE  i \in DOMAIN Handlers /\ ~Handlers[i].is_timeout_handler /\ s \in Sources(Handlers, i)
<1>1. i \in DOMAIN Handlers /\ Handlers[i].event = e /\ s \in Handlers[i].source_states
  BY DEF IsArm, Matches
<1>2. ~Handlers[i].is_timeout_handler
  BY <1>1, DefinitionAssumption, NoEventAssumption DEF IsDefinition, IsParsed
<1> QED BY <1>1, <1>2 DEF Sources

LEMMA TimeoutArmSource ==
    ASSUME NEW i, NEW s, IsTimeoutArm(Handlers, i), s \in StatesWithTimeout(Handlers)
    PROVE  i \in DOMAIN Handlers /\ Handlers[i].is_timeout_handler /\ s \in Sources(Handlers, i)
BY DEF IsTimeoutArm, Sources

-----------------------------------------------------------------------------
(* Type correctness.                                                       *)

LEMMA InitTypeOK == Init => TypeOK
<1> SUFFICES ASSUME Init PROVE TypeOK
  OBVIOUS
<1>1. arm = 0 /\ pc = "spawned" /\ cause = "none" /\ timer \in Duration /\ age \in 0..MaxAge
  BY HandlersType, MaxAgeAssumption DEF Init, Duration
<1>2. queue \in Seq(Event) /\ live \in SUBSET Client
  BY DEF Init
<1>3. /\ op \in [Client -> {"idle", "sending", "reserved"}]
      /\ msg \in [Client -> Event \cup {NoEvent}]
      /\ \A c \in Client : op[c] # "idle" => msg[c] \in Event
  BY DEF Init
<1>4. state \in State /\ published \in State
  BY HandlersType DEF Init
<1> QED BY <1>1, <1>2, <1>3, <1>4 DEF Init, TypeOK

LEMMA NextTypeOK == TypeOK /\ [Next]_vars => TypeOK'
<1> SUFFICES ASSUME TypeOK, [Next]_vars PROVE TypeOK'
  OBVIOUS
<1> USE DEF TypeOK, taskVars, channelVars, watchVars, ownerVars, clientVars
<1>1. CASE UNCHANGED vars
  BY <1>1 DEF vars
<1>2. CASE Start
  BY <1>2, TimeoutInRange, MaxAgeAssumption DEF Start
<1>3. CASE SelectTimer
  BY <1>3, HandlersType DEF SelectTimer
<1>4. CASE SelectCancelled
  BY <1>4 DEF SelectCancelled
<1>5. CASE SelectClosed
  BY <1>5 DEF SelectClosed
<1>6. CASE RecvMatched
  BY <1>6, HandlersType DEF RecvMatched, Receive
<1>7. CASE RecvUnmatched
  BY <1>7 DEF RecvUnmatched, Receive
<1>8. CASE HandlerReturn
  BY <1>8, HandlersType, TimeoutInRange, MaxAgeAssumption DEF HandlerReturn, ApplyTransition
<1>9. ASSUME NEW why \in {"error", "panic", "cancelled"}, LeaveHandler(why) PROVE TypeOK'
  BY <1>9, HandlersType DEF LeaveHandler
<1>10. CASE Abort
  BY <1>10, HandlersType DEF Abort
<1>11. CASE DropReceiver
  <2>1. queue' \in Seq(Event)
    BY <1>11 DEF DropReceiver
  <2> QED BY <1>11, <2>1 DEF DropReceiver
<1>12. CASE DropStateTx
  BY <1>12 DEF DropStateTx
<1>13. CASE Complete
  BY <1>13 DEF Complete
<1>14. CASE Tick
  BY <1>14, MaxAgeAssumption DEF Tick, Duration, NoTimeout
<1>15. CASE AwaitTask
  BY <1>15 DEF AwaitTask, TaskResult
<1>16. CASE DropTask
  BY <1>16 DEF DropTask
<1>17. CASE ParentCancel
  BY <1>17 DEF ParentCancel
<1>18. ASSUME NEW c \in Client, NEW e \in Events(Handlers), SendBegin(c, e) \/ TrySend(c, e)
       PROVE TypeOK'
  BY <1>18, EventsAreEvents DEF SendBegin, TrySend
<1>19. ASSUME NEW c \in Client, SendReserve(c) PROVE TypeOK'
  BY <1>19 DEF SendReserve
<1>20. ASSUME NEW c \in Client, SendPush(c) PROVE TypeOK'
  BY <1>20 DEF SendPush, SendEnd
<1>21. ASSUME NEW c \in Client, SendRefused(c) \/ SendAbandoned(c) PROVE TypeOK'
  BY <1>21 DEF SendRefused, SendAbandoned, SendEnd
<1>22. ASSUME NEW c \in Client, DropHandle(c) PROVE TypeOK'
  BY <1>22 DEF DropHandle
<1>23. ASSUME NEW c \in Client, Shutdown(c) PROVE TypeOK'
  BY <1>23 DEF Shutdown
<1>24. ASSUME NEW c \in Client, NEW d \in Client, CloneHandle(c, d) PROVE TypeOK'
  BY <1>24 DEF CloneHandle
<1> QED
  BY <1>1, <1>2, <1>3, <1>4, <1>5, <1>6, <1>7, <1>8, <1>9, <1>10, <1>11, <1>12, <1>13, <1>14,
     <1>15, <1>16, <1>17, <1>18, <1>19, <1>20, <1>21, <1>22, <1>23, <1>24
  DEF Next, SelectRecv, OtherNext, TaskNext, ClientNext, HandlerFails, HandlerFailsAs, Failure, HandlerCancelled

\* Every variable always has its type.
THEOREM TypeCorrect == Spec => []TypeOK
BY InitTypeOK, NextTypeOK, PTL DEF Spec

-----------------------------------------------------------------------------
(* The timer, the dispatch and the watch channel.  They stand together: a  *)
(* sleep that fires tells the state's timeout only because it has been     *)
(* counted down from there, the handler it starts may return only because  *)
(* the state has a timeout, and the move it publishes is an edge only      *)
(* because the watch channel still shows the state it started in.          *)

IInv ==
    /\ TypeOK
    /\ DispatchLegal
    /\ TimerMatchesState
    /\ TimeoutPunctual
    /\ ObserverCurrent

LEMMA InitIInv == Init => IInv
BY InitTypeOK DEF Init, IInv, DispatchLegal, TimerMatchesState, TimeoutPunctual, ObserverCurrent

\* The steps that touch neither the task, nor the watch channel, nor who is live.
LEMMA QuietStep ==
    ASSUME IInv, UNCHANGED <<pc, state, arm, timer, age, published, live>>
    PROVE  /\ DispatchLegal' /\ TimerMatchesState' /\ TimeoutPunctual' /\ ObserverCurrent'
BY DEF IInv, DispatchLegal, TimerMatchesState, TimeoutPunctual, ObserverCurrent

\* The steps that leave the loop.
LEMMA LeavingStep ==
    ASSUME IInv, pc' \in {"exit", "done"}, UNCHANGED <<state, published, live>>
    PROVE  /\ DispatchLegal' /\ TimerMatchesState' /\ TimeoutPunctual' /\ ObserverCurrent'
BY DEF IInv, DispatchLegal, TimerMatchesState, TimeoutPunctual, ObserverCurrent

LEMMA NextIInv == IInv /\ [Next]_vars => IInv'
<1> SUFFICES ASSUME IInv, [Next]_vars
             PROVE  DispatchLegal' /\ TimerMatchesState' /\ TimeoutPunctual' /\ ObserverCurrent'
  BY NextTypeOK DEF IInv
<1> USE DEF taskVars, channelVars, watchVars, ownerVars, clientVars
<1>0. /\ TypeOK /\ DispatchLegal /\ TimerMatchesState /\ TimeoutPunctual /\ ObserverCurrent
      /\ state \in State /\ age \in 0..MaxAge /\ timer \in Duration
  BY DEF IInv, TypeOK
<1>1. CASE UNCHANGED vars
  BY <1>1, QuietStep DEF vars
<1>2. CASE Start
  <2>1. pc' = "select" /\ state' = state /\ age' = 0 /\ timer' = TimeoutOf(Handlers, state)
    BY <1>2 DEF Start
  <2>2. TimerMatchesState'
    BY <1>0, <2>1, TimeoutInRange DEF TimerMatchesState, Duration, NoTimeout
  <2> QED
    BY <1>0, <1>2, <2>1, <2>2 DEF Start, DispatchLegal, TimeoutPunctual, ObserverCurrent
<1>3. CASE SelectTimer
  <2>1. PICK i \in DOMAIN Handlers : IsTimeoutArm(Handlers, i) /\ arm' = i
    BY <1>3 DEF SelectTimer
  <2>2. state \in StatesWithTimeout(Handlers) /\ age >= TimeoutOf(Handlers, state)
    <3>1. timer = 0 /\ pc = "select"
      BY <1>3 DEF SelectTimer
    <3>2. TimeoutOf(Handlers, state) # NoTimeout
      BY <1>0, <3>1 DEF TimerMatchesState, NoTimeout
    <3>3. ~(age < TimeoutOf(Handlers, state))
      BY <1>0, <3>1, <3>2, TimeoutInRange DEF TimerMatchesState, Duration
    <3> QED BY <1>0, <3>2, <3>3, TimeoutInRange DEF Duration, NoTimeout
  <2>3. state' \in Sources(Handlers', arm')
    BY <1>3, <2>1, <2>2, TimeoutArmSource DEF SelectTimer
  <2> QED
    BY <1>0, <1>3, <2>1, <2>2, <2>3
    DEF SelectTimer, DispatchLegal, TimerMatchesState, TimeoutPunctual, ObserverCurrent
<1>4. CASE SelectCancelled
  BY <1>4, LeavingStep DEF SelectCancelled
<1>5. CASE SelectClosed
  BY <1>5, LeavingStep DEF SelectClosed
<1>6. CASE RecvMatched
  <2>1. PICK i \in DOMAIN Handlers : IsArm(Handlers, i, state, Head(queue)) /\ arm' = i
    BY <1>6 DEF RecvMatched
  <2>2. Head(queue) \in Event
    BY <1>0, <1>6 DEF RecvMatched, Receive, TypeOK
  <2>3. ~Handlers[i].is_timeout_handler /\ state \in Sources(Handlers, i)
    BY <2>1, <2>2, EventArmSource
  <2> QED
    BY <1>0, <1>6, <2>1, <2>3
    DEF RecvMatched, Receive, DispatchLegal, TimerMatchesState, TimeoutPunctual, ObserverCurrent
<1>7. CASE RecvUnmatched
  BY <1>7, QuietStep DEF RecvUnmatched
<1>8. CASE HandlerReturn
  <2>1. PICK next \in Handlers[arm].return_states : ApplyTransition(next)
    BY <1>8 DEF HandlerReturn
  <2>2. next \in State
    BY <1>0, <1>8, HandlersType DEF HandlerReturn, TypeOK
  <2>3. TimerMatchesState'
    BY <2>1, <2>2, TimeoutInRange DEF ApplyTransition, TimerMatchesState, Duration, NoTimeout
  <2>4. ObserverCurrent'
    BY <1>0, <1>8, <2>1 DEF HandlerReturn, ApplyTransition, ObserverCurrent
  <2> QED BY <1>8, <2>3, <2>4 DEF HandlerReturn, DispatchLegal, TimeoutPunctual
<1>9. ASSUME NEW why, LeaveHandler(why)
      PROVE  DispatchLegal' /\ TimerMatchesState' /\ TimeoutPunctual' /\ ObserverCurrent'
  BY <1>9, LeavingStep DEF LeaveHandler
<1>10. CASE Abort
  BY <1>10, LeavingStep DEF Abort
<1>11. CASE DropReceiver \/ DropStateTx
  BY <1>11, QuietStep DEF DropReceiver, DropStateTx
<1>12. CASE Complete
  BY <1>12, LeavingStep DEF Complete
<1>13. CASE Tick
  <2>1. age' >= age /\ UNCHANGED <<pc, state, arm, published, live>>
    BY <1>0, <1>13, MaxAgeAssumption DEF Tick
  <2>2. TimerMatchesState'
    BY <1>0, <1>13, TimeoutInRange, MaxAgeAssumption
    DEF Tick, TimerMatchesState, Duration, NoTimeout
  <2>3. TimeoutPunctual'
    BY <1>0, <1>13, <2>1, TimeoutInRange, MaxAgeAssumption DEF Tick, TimeoutPunctual, Duration, NoTimeout
  <2> QED BY <1>0, <2>1, <2>2, <2>3 DEF DispatchLegal, ObserverCurrent
<1>14. CASE AwaitTask \/ DropTask \/ ParentCancel
  BY <1>14, QuietStep DEF AwaitTask, DropTask, ParentCancel
<1>15. ASSUME NEW c \in Client, SendPush(c)
       PROVE  DispatchLegal' /\ TimerMatchesState' /\ TimeoutPunctual' /\ ObserverCurrent'
  BY <1>15, QuietStep DEF SendPush
<1>16. ASSUME NEW c \in Client, ClientNext(c)
       PROVE  DispatchLegal' /\ TimerMatchesState' /\ TimeoutPunctual' /\ ObserverCurrent'
  <2>1. CASE DropHandle(c)
    BY <1>0, <2>1
    DEF DropHandle, DispatchLegal, TimerMatchesState, TimeoutPunctual, ObserverCurrent
  <2>2. ASSUME NEW d \in Client, CloneHandle(c, d)
        PROVE  DispatchLegal' /\ TimerMatchesState' /\ TimeoutPunctual' /\ ObserverCurrent'
    BY <1>0, <2>2
    DEF CloneHandle, DispatchLegal, TimerMatchesState, TimeoutPunctual, ObserverCurrent
  <2>3. CASE Shutdown(c) \/ SendReserve(c) \/ SendRefused(c) \/ SendAbandoned(c)
    BY <2>3, QuietStep DEF Shutdown, SendReserve, SendRefused, SendAbandoned
  <2>4. ASSUME NEW e \in Events(Handlers), SendBegin(c, e) \/ TrySend(c, e)
        PROVE  DispatchLegal' /\ TimerMatchesState' /\ TimeoutPunctual' /\ ObserverCurrent'
    BY <2>4, QuietStep DEF SendBegin, TrySend
  <2> QED BY <1>16, <2>1, <2>2, <2>3, <2>4 DEF ClientNext
<1> QED
  BY <1>1, <1>2, <1>3, <1>4, <1>5, <1>6, <1>7, <1>8, <1>9, <1>10, <1>11, <1>12, <1>13,
     <1>14, <1>15, <1>16
  DEF Next, SelectRecv, OtherNext, TaskNext, HandlerFails, HandlerFailsAs, Failure, HandlerCancelled

LEMMA Invariance == Spec => []IInv
BY InitIInv, NextIInv, PTL DEF Spec

\* The sleep always counts down the timeout of the current state.
THEOREM TimerCorrect == Spec => []TimerMatchesState
<1>1. IInv => TimerMatchesState
  BY DEF IInv
<1> QED BY <1>1, Invariance, PTL

\* A timeout is never handled early, late deadlines of earlier states never fire.
THEOREM TimeoutCorrect == Spec => []TimeoutPunctual
<1>1. IInv => TimeoutPunctual
  BY DEF IInv
<1> QED BY <1>1, Invariance, PTL

\* A handler runs only in a state it was declared for.
THEOREM DispatchCorrect == Spec => []DispatchLegal
<1>1. IInv => DispatchLegal
  BY DEF IInv
<1> QED BY <1>1, Invariance, PTL

\* Whoever holds a handle reads the state the loop is in.
THEOREM ObserverCorrect == Spec => []ObserverCurrent
<1>1. IInv => ObserverCurrent
  BY DEF IInv
<1> QED BY <1>1, Invariance, PTL

-----------------------------------------------------------------------------
(* The runtime implements the graph the validator checked.                 *)

LEMMA InitGraph == Init => Graph!Init
BY DEF Init, Graph!Init

LEMMA StepGraph == IInv /\ [Next]_vars => [Graph!Next]_(Graph!vars)
<1> SUFFICES ASSUME IInv, [Next]_vars PROVE [Graph!Next]_(Graph!vars)
  OBVIOUS
<1> USE DEF taskVars, channelVars, watchVars, ownerVars, clientVars, Graph!vars
<1>0. TypeOK /\ DispatchLegal /\ ObserverCurrent
  BY DEF IInv
<1>1. CASE HandlerReturn
  <2>1. PICK next \in Handlers[arm].return_states : ApplyTransition(next)
    BY <1>1 DEF HandlerReturn
  <2>2. CASE live = {}
    BY <1>1, <2>1, <2>2 DEF HandlerReturn, ApplyTransition
  <2>3. CASE live # {}
    <3>1. published = state /\ arm \in DOMAIN Handlers /\ state \in Sources(Handlers, arm)
      BY <1>0, <1>1, <2>3 DEF HandlerReturn, ObserverCurrent, DispatchLegal, TypeOK
    <3>2. state \in State /\ next \in State
      BY <1>0, <3>1, HandlersType DEF TypeOK
    <3>3. <<published, next>> \in Edges(Handlers)
      BY <3>1, <3>2 DEF Edges
    <3> QED
      BY <1>1, <2>1, <2>3, <3>2, <3>3 DEF HandlerReturn, ApplyTransition, Graph!Next, Graph!Move
  <2> QED BY <2>2, <2>3
<1>2. CASE SelectCancelled \/ SelectClosed \/ Abort
  BY <1>2 DEF SelectCancelled, SelectClosed, Abort, Graph!Next, Graph!Stop
<1>3. ASSUME NEW why, LeaveHandler(why) PROVE [Graph!Next]_(Graph!vars)
  BY <1>3 DEF LeaveHandler, Graph!Next, Graph!Stop
<1>4. CASE Start \/ SelectTimer \/ RecvMatched \/ RecvUnmatched \/ Tick
  BY <1>4 DEF Start, SelectTimer, RecvMatched, RecvUnmatched, Receive, Tick
<1>6. CASE DropReceiver \/ DropStateTx \/ Complete \/ AwaitTask \/ DropTask \/ ParentCancel
  BY <1>6 DEF DropReceiver, DropStateTx, Complete, AwaitTask, DropTask, ParentCancel
<1>7. CASE UNCHANGED vars
  BY <1>7 DEF vars
<1>5. ASSUME NEW c \in Client, ClientNext(c) \/ SendPush(c) PROVE [Graph!Next]_(Graph!vars)
  BY <1>5 DEF ClientNext, SendBegin, SendReserve, TrySend, SendPush, SendRefused,
              SendAbandoned, CloneHandle, DropHandle, Shutdown
<1> QED
  BY <1>1, <1>2, <1>3, <1>4, <1>5, <1>6, <1>7
  DEF Next, SelectRecv, OtherNext, TaskNext, HandlerFails, HandlerFailsAs, Failure, HandlerCancelled

\* Through the watch channel a machine is seen to move only along the edges of
\* the graph the validator checked, and not at all once its loop has ended.
THEOREM ImplementsGraph == Spec => GraphSpec
BY InitGraph, StepGraph, Invariance, PTL DEF Spec, GraphSpec, Graph!Spec

-----------------------------------------------------------------------------
(* The buffer.  Its permits, the events buffered and the slots reserved,   *)
(* are what the channel has.                                               *)

QueueBounded == PermitsTaken <= ChannelSize

LEMMA ReservedFinite == IsFiniteSet(Reserved) /\ Cardinality(Reserved) \in Nat
BY ClientAssumption, FS_Subset, FS_CardinalityType DEF Reserved

\* A step that reserves no slot and appends nothing takes no permit.
LEMMA NoPermitTaken ==
    ASSUME QueueBounded, TypeOK, Len(queue') <= Len(queue), Len(queue') \in Nat, Reserved' = Reserved
    PROVE  QueueBounded'
BY ReservedFinite, ChannelSizeAssumption DEF QueueBounded, PermitsTaken, TypeOK

LEMMA OneMoreReserved ==
    ASSUME TypeOK, NEW c \in Client, op[c] # "reserved", op' = [op EXCEPT ![c] = "reserved"]
    PROVE  Cardinality(Reserved') = Cardinality(Reserved) + 1
<1>1. Reserved' = Reserved \cup {c} /\ c \notin Reserved
  BY DEF Reserved, TypeOK
<1> QED BY <1>1, ReservedFinite, FS_AddElement

LEMMA OneLessReserved ==
    ASSUME TypeOK, NEW c \in Client, SendPush(c)
    PROVE  Cardinality(Reserved') = Cardinality(Reserved) - 1
<1>1. Reserved' = Reserved \ {c} /\ c \in Reserved
  BY DEF SendPush, SendEnd, Reserved, TypeOK
<1> QED BY <1>1, ReservedFinite, FS_RemoveElement

LEMMA PermitReserved ==
    ASSUME TypeOK, NEW c \in Client, HasCapacity, queue' = queue,
           op[c] # "reserved", op' = [op EXCEPT ![c] = "reserved"]
    PROVE  QueueBounded'
<1>1. Cardinality(Reserved') = Cardinality(Reserved) + 1
  BY OneMoreReserved
<1>2. Len(queue) \in Nat
  BY DEF TypeOK
<1> QED
  BY <1>1, <1>2, ReservedFinite, ChannelSizeAssumption DEF QueueBounded, PermitsTaken, HasCapacity

LEMMA PermitUsed ==
    ASSUME QueueBounded, TypeOK, NEW c \in Client, SendPush(c)
    PROVE  QueueBounded'
<1>1. Cardinality(Reserved') = Cardinality(Reserved) - 1
  BY OneLessReserved
<1>2. Len(queue) \in Nat /\ Len(queue') \in Nat /\ Len(queue') <= Len(queue) + 1
  BY DEF SendPush, SendEnd, TypeOK
<1> QED
  BY <1>1, <1>2, ReservedFinite, ChannelSizeAssumption DEF QueueBounded, PermitsTaken

LEMMA InitQueueBounded == Init => QueueBounded
<1> SUFFICES ASSUME Init PROVE QueueBounded
  OBVIOUS
<1>1. Reserved = {}
  BY DEF Init, Reserved
<1>2. Cardinality(Reserved) = 0 /\ Len(queue) = 0
  BY <1>1, FS_EmptySet DEF Init
<1> QED BY <1>2, ChannelSizeAssumption DEF QueueBounded, PermitsTaken

LEMMA NextQueueBounded == TypeOK /\ QueueBounded /\ [Next]_vars => QueueBounded'
<1> SUFFICES ASSUME TypeOK, QueueBounded, [Next]_vars PROVE QueueBounded'
  OBVIOUS
<1> USE DEF taskVars, channelVars, watchVars, ownerVars, clientVars
<1>0. Len(queue) \in Nat
  BY DEF TypeOK
<1>1. CASE UNCHANGED <<queue, op>>
  BY <1>0, <1>1, NoPermitTaken DEF Reserved
<1>2. CASE SelectRecv
  <2>1. op' = op /\ queue # <<>> /\ queue' = Tail(queue)
    BY <1>2 DEF SelectRecv, RecvMatched, RecvUnmatched, Receive
  <2>2. Len(queue') \in Nat /\ Len(queue') <= Len(queue)
    BY <2>1 DEF TypeOK
  <2> QED BY <2>1, <2>2, NoPermitTaken DEF Reserved
<1>3. CASE DropReceiver
  <2>1. op' = op /\ Len(queue') = 0
    BY <1>3 DEF DropReceiver
  <2> QED BY <1>0, <2>1, NoPermitTaken DEF Reserved
<1>4. ASSUME NEW c \in Client, SendPush(c) PROVE QueueBounded'
  BY <1>4, PermitUsed
<1>5. ASSUME NEW c \in Client, SendReserve(c) PROVE QueueBounded'
  BY <1>5, PermitReserved DEF SendReserve
<1>6. ASSUME NEW c \in Client, NEW e, TrySend(c, e) PROVE QueueBounded'
  BY <1>6, PermitReserved DEF TrySend
<1>7. ASSUME NEW c \in Client, NEW e, SendBegin(c, e) PROVE QueueBounded'
  <2>1. queue' = queue /\ Reserved' = Reserved
    BY <1>7 DEF SendBegin, Reserved, TypeOK
  <2> QED BY <1>0, <2>1, NoPermitTaken
<1>8. ASSUME NEW c \in Client, SendRefused(c) \/ SendAbandoned(c) PROVE QueueBounded'
  <2>1. queue' = queue /\ Reserved' = Reserved
    BY <1>8 DEF SendRefused, SendAbandoned, SendEnd, Reserved, TypeOK
  <2> QED BY <1>0, <2>1, NoPermitTaken
<1>9. ASSUME NEW c \in Client, DropHandle(c) \/ Shutdown(c) \/ \E d \in Client : CloneHandle(c, d)
      PROVE  QueueBounded'
  BY <1>1, <1>9 DEF DropHandle, Shutdown, CloneHandle
<1>10. CASE TaskNext \/ HandlerFails
  <2>1. TaskNext \/ HandlerFails => DropReceiver \/ UNCHANGED <<queue, op>>
    BY DEF TaskNext, HandlerFails, HandlerFailsAs, Start, SelectTimer, SelectCancelled, SelectClosed,
           HandlerCancelled, LeaveHandler, Abort, DropStateTx, Complete
  <2> QED BY <1>1, <1>3, <1>10, <2>1
<1>11. CASE HandlerReturn \/ Tick \/ AwaitTask \/ DropTask \/ ParentCancel
  BY <1>1, <1>11 DEF HandlerReturn, Tick, AwaitTask, DropTask, ParentCancel
<1>12. CASE UNCHANGED vars
  BY <1>1, <1>12 DEF vars
<1> QED
  BY <1>2, <1>4, <1>5, <1>6, <1>7, <1>8, <1>9, <1>10, <1>11, <1>12 DEF Next, OtherNext, ClientNext

\* A machine that is over has closed both of its channels.
EndClosesAll == pc = "done" => ~rx_open /\ ~watch_open

LEMMA NextEndClosesAll == EndClosesAll /\ [Next]_vars => EndClosesAll'
<1> SUFFICES ASSUME EndClosesAll, [Next]_vars PROVE EndClosesAll'
  OBVIOUS
<1> USE DEF EndClosesAll, taskVars, channelVars, watchVars, ownerVars, clientVars
<1>1. CASE HandlerReturn \/ SelectRecv
  BY <1>1 DEF HandlerReturn, SelectRecv, RecvMatched, RecvUnmatched, Receive
<1>2. CASE TaskNext \/ HandlerFails
  BY <1>2 DEF TaskNext, HandlerFails, HandlerFailsAs, Start, SelectTimer, SelectCancelled, SelectClosed,
              HandlerCancelled, LeaveHandler, Abort, DropReceiver, DropStateTx, Complete
<1>3. CASE Tick \/ AwaitTask \/ DropTask \/ ParentCancel \/ UNCHANGED vars
  BY <1>3 DEF Tick, AwaitTask, DropTask, ParentCancel, vars
<1>4. ASSUME NEW c \in Client, ClientNext(c) \/ SendPush(c) PROVE EndClosesAll'
  BY <1>4 DEF ClientNext, SendBegin, SendReserve, TrySend, SendPush, SendRefused,
              SendAbandoned, CloneHandle, DropHandle, Shutdown
<1> QED BY <1>1, <1>2, <1>3, <1>4 DEF Next, OtherNext

LEMMA EndInvariance == Spec => []EndClosesAll
<1>1. Init => EndClosesAll
  BY DEF Init, EndClosesAll
<1> QED BY <1>1, NextEndClosesAll, PTL DEF Spec

\* A send has something to wait for: a slot it may reserve, an event the loop is
\* still there to take, or a reservation that will be written; or else it is refused.
NoSendIsStranded ==
    \A c \in Client : op[c] = "sending" =>
        \/ ~rx_open
        \/ HasCapacity
        \/ pc # "done" /\ queue # <<>>
        \/ Reserved # {}

\* Senders, the loop and the machine's end never wait for one another in a circle.
THEOREM SendersAreServed == Spec => []NoSendIsStranded
<1>1. TypeOK /\ EndClosesAll => NoSendIsStranded
  <2> SUFFICES ASSUME TypeOK, EndClosesAll, rx_open, ~HasCapacity, queue = <<>>, Reserved = {}
               PROVE  FALSE
    BY DEF NoSendIsStranded, EndClosesAll
  <2>1. Cardinality(Reserved) = 0 /\ Len(queue) = 0
    BY FS_EmptySet
  <2> QED BY <2>1, ChannelSizeAssumption DEF HasCapacity, PermitsTaken
<1>2. Spec => []TypeOK
  BY InitTypeOK, NextTypeOK, PTL DEF Spec
<1> QED BY <1>1, <1>2, EndInvariance, PTL

-----------------------------------------------------------------------------
(* The runtime implements the automaton its senders see.                   *)

\* The handler that runs is the first arm for the event it took, or the timeout
\* arm of a state that has a timeout.
ArmIsFirst ==
    pc = "handler" =>
        IF Handlers[arm].is_timeout_handler
        THEN IsTimeoutArm(Handlers, arm) /\ state \in StatesWithTimeout(Handlers)
        ELSE /\ Handlers[arm].event \in Event
             /\ IsArm(Handlers, arm, state, Handlers[arm].event)

LoopReceives == pc \in {"spawned", "select", "handler"} => rx_open

MInv == IInv /\ QueueBounded /\ ArmIsFirst /\ LoopReceives

LEMMA InitMInv == Init => MInv
BY InitIInv, InitQueueBounded DEF Init, MInv, ArmIsFirst, LoopReceives

LEMMA NextMInv == MInv /\ [Next]_vars => MInv'
<1> SUFFICES ASSUME MInv, [Next]_vars PROVE ArmIsFirst' /\ LoopReceives'
  BY NextIInv, NextQueueBounded DEF MInv, IInv
<1> USE DEF taskVars, channelVars, watchVars, ownerVars, clientVars
<1>0. IInv /\ TypeOK /\ ArmIsFirst /\ LoopReceives
  BY DEF MInv, IInv
<1>1. CASE UNCHANGED <<pc, state, arm, rx_open>>
  BY <1>0, <1>1 DEF ArmIsFirst, LoopReceives
<1>2. CASE SelectTimer
  <2>1. PICK i \in DOMAIN Handlers : IsTimeoutArm(Handlers, i) /\ arm' = i
    BY <1>2 DEF SelectTimer
  <2>2. timer = 0 /\ pc = "select" /\ state' = state /\ rx_open' = rx_open
    BY <1>2 DEF SelectTimer
  <2>3. state \in StatesWithTimeout(Handlers)
    BY <1>0, <2>2, TimeoutInRange DEF IInv, TypeOK, TimerMatchesState, NoTimeout
  <2>4. Handlers[arm'].is_timeout_handler
    BY <2>1 DEF IsTimeoutArm
  <2> QED BY <1>0, <2>1, <2>2, <2>3, <2>4 DEF ArmIsFirst, LoopReceives
<1>3. CASE RecvMatched
  <2>1. PICK i \in DOMAIN Handlers : IsArm(Handlers, i, state, Head(queue)) /\ arm' = i
    BY <1>3 DEF RecvMatched
  <2>2. Head(queue) \in Event
    BY <1>0, <1>3 DEF RecvMatched, Receive, TypeOK
  <2>3. ~Handlers[i].is_timeout_handler
    BY <2>1, <2>2, EventArmSource
  <2>4. Handlers[i].event = Head(queue)
    BY <2>1 DEF IsArm, Matches
  <2>5. pc = "select" /\ state' = state /\ rx_open' = rx_open
    BY <1>3 DEF RecvMatched, Receive
  <2> QED BY <1>0, <2>1, <2>2, <2>3, <2>4, <2>5 DEF ArmIsFirst, LoopReceives
<1>4. CASE pc' # "handler" /\ (rx_open' \/ pc' \in {"exit", "done"})
  BY <1>0, <1>4 DEF ArmIsFirst, LoopReceives, TypeOK
<1>5. CASE Start \/ SelectCancelled \/ SelectClosed \/ HandlerReturn \/ Abort \/ Complete \/ DropReceiver
  BY <1>0, <1>4, <1>5
  DEF Start, SelectCancelled, SelectClosed, HandlerReturn, Abort, Complete, DropReceiver, LoopReceives
<1>6. ASSUME NEW why, LeaveHandler(why) PROVE ArmIsFirst' /\ LoopReceives'
  BY <1>4, <1>6 DEF LeaveHandler
<1>7. CASE RecvUnmatched \/ DropStateTx \/ Tick \/ AwaitTask \/ DropTask \/ ParentCancel
  BY <1>1, <1>7 DEF RecvUnmatched, DropStateTx, Tick, AwaitTask, DropTask, ParentCancel
<1>8. ASSUME NEW c \in Client, ClientNext(c) \/ SendPush(c) PROVE ArmIsFirst' /\ LoopReceives'
  BY <1>1, <1>8 DEF ClientNext, SendBegin, SendReserve, TrySend, SendPush, SendRefused,
                    SendAbandoned, CloneHandle, DropHandle, Shutdown
<1>9. CASE UNCHANGED vars
  BY <1>1, <1>9 DEF vars
<1> QED
  BY <1>2, <1>3, <1>5, <1>6, <1>7, <1>8, <1>9
  DEF Next, SelectRecv, OtherNext, TaskNext, HandlerFails, HandlerFailsAs, Failure, HandlerCancelled

\* The moves of an event are what the first matching arm may return.
LEMMA ArmMoves ==
    ASSUME NEW i, NEW s \in State, NEW e \in Event, IsArm(Handlers, i, s, e),
           NEW t \in Handlers[i].return_states
    PROVE  t \in Machine!Moves(s, e)
<1>1. i \in DOMAIN Handlers /\ t \in State
  BY HandlersType DEF IsArm
<1>2. <<s, e, t>> \in Transitions(Handlers)
  BY <1>1 DEF Transitions
<1> QED BY <1>1, <1>2 DEF Machine!Moves

LEMMA TimeoutMoves ==
    ASSUME NEW i, NEW s \in State, IsTimeoutArm(Handlers, i), s \in StatesWithTimeout(Handlers),
           NEW t \in Handlers[i].return_states
    PROVE  t \in Machine!Moves(s, NoEvent)
<1>1. i \in DOMAIN Handlers /\ t \in State
  BY HandlersType DEF IsTimeoutArm
<1>2. <<s, NoEvent, t>> \in Transitions(Handlers)
  BY <1>1 DEF Transitions
<1> QED BY <1>1, <1>2 DEF Machine!Moves

\* A handler that is not a helper method returns some state.
LEMMA HandlersReturn ==
    ASSUME NEW i \in DOMAIN Handlers,
           Handlers[i].is_timeout_handler \/ Handlers[i].event \in Event
    PROVE  Handlers[i].return_states # {}
BY DefinitionAssumption, NoEventAssumption DEF IsDefinition, IsParsed

LEMMA UnmatchedStays ==
    ASSUME NEW s \in State, NEW e \in Event, Unmatched(Handlers, s, e)
    PROVE  Machine!Moves(s, e) = {}
<1> SUFFICES ASSUME NEW t \in State, <<s, e, t>> \in Transitions(Handlers) PROVE FALSE
  BY DEF Machine!Moves
<1> QED BY NoEventAssumption DEF Transitions, IsArm, Unmatched

LEMMA TimeoutHandlerEvent ==
    ASSUME NEW i \in DOMAIN Handlers, Handlers[i].is_timeout_handler
    PROVE  Handlers[i].event = NoEvent
BY DefinitionAssumption DEF IsDefinition, IsParsed

LEMMA InitMachine == Init => Machine!Init
BY DEF Init, Machine!Init, Over

LEMMA StepMachine == MInv /\ [Next]_vars => [Machine!Next]_(Machine!vars)
<1> SUFFICES ASSUME MInv, [Next]_vars PROVE [Machine!Next]_(Machine!vars)
  OBVIOUS
<1> USE DEF taskVars, channelVars, watchVars, ownerVars, clientVars, Machine!vars
<1>0. TypeOK /\ ArmIsFirst /\ LoopReceives /\ QueueBounded /\ state \in State
  BY DEF MInv, IInv, TypeOK
<1>1. CASE SelectTimer
  <2>1. PICK i \in DOMAIN Handlers : IsTimeoutArm(Handlers, i) /\ arm' = i
    BY <1>1 DEF SelectTimer
  <2>2. state \in StatesWithTimeout(Handlers)
    BY <1>0, <1>1, TimeoutInRange DEF MInv, IInv, TypeOK, TimerMatchesState, NoTimeout, SelectTimer
  <2>3. Handlers[i].event = NoEvent /\ Handlers[i].return_states # {} /\ i # 0
    BY <2>1, TimeoutHandlerEvent, HandlersReturn, HandlersType DEF IsTimeoutArm
  <2>4. Machine!Moves(state, NoEvent) # {}
    BY <1>0, <2>1, <2>2, <2>3, TimeoutMoves
  <2>5. pc = "select" /\ arm = 0 /\ pc' = "handler" /\ state' = state /\ queue' = queue
    BY <1>0, <1>1 DEF SelectTimer, TypeOK
  <2>6. Machine!Expire
    BY <2>1, <2>3, <2>4, <2>5 DEF Machine!Expire, Over
  <2> QED BY <2>6 DEF Machine!Next
<1>2. CASE RecvMatched
  <2>1. PICK i \in DOMAIN Handlers : IsArm(Handlers, i, state, Head(queue)) /\ arm' = i
    BY <1>2 DEF RecvMatched
  <2>2. Head(queue) \in Event
    BY <1>0, <1>2 DEF RecvMatched, Receive, TypeOK
  <2>3. Handlers[i].event = Head(queue) /\ i # 0
    BY <2>1, HandlersType DEF IsArm, Matches
  <2>4. Machine!Moves(state, Head(queue)) # {}
    BY <1>0, <2>1, <2>2, <2>3, ArmMoves, HandlersReturn
  <2>5. /\ pc = "select" /\ arm = 0 /\ pc' = "handler" /\ state' = state
        /\ queue # <<>> /\ queue' = Tail(queue)
    BY <1>0, <1>2 DEF RecvMatched, Receive, TypeOK
  <2>6. Machine!Take
    BY <2>1, <2>3, <2>4, <2>5 DEF Machine!Take, Over
  <2> QED BY <2>6 DEF Machine!Next
<1>3. CASE RecvUnmatched
  <2>1. Head(queue) \in Event
    BY <1>0, <1>3 DEF RecvUnmatched, Receive, TypeOK
  <2>2. Machine!Moves(state, Head(queue)) = {}
    BY <1>0, <1>3, <2>1, UnmatchedStays DEF RecvUnmatched
  <2>3. /\ pc = "select" /\ arm = 0 /\ pc' = pc /\ arm' = arm /\ state' = state
        /\ queue # <<>> /\ queue' = Tail(queue)
    BY <1>0, <1>3 DEF RecvUnmatched, Receive, TypeOK
  <2>4. Machine!Take
    BY <2>2, <2>3 DEF Machine!Take, Over
  <2> QED BY <2>4 DEF Machine!Next
<1>4. CASE HandlerReturn
  <2>1. PICK next \in Handlers[arm].return_states : ApplyTransition(next)
    BY <1>4 DEF HandlerReturn
  <2>2. /\ pc = "handler" /\ pc' = "select" /\ arm' = 0 /\ arm # 0 /\ arm \in DOMAIN Handlers
        /\ queue' = queue /\ state' = next
    BY <1>0, <1>4, <2>1, HandlersType DEF HandlerReturn, ApplyTransition, TypeOK
  <2>3. next \in Machine!Moves(state, Handlers[arm].event)
    <3>1. CASE Handlers[arm].is_timeout_handler
      BY <1>0, <2>2, <3>1, TimeoutMoves, TimeoutHandlerEvent DEF ArmIsFirst
    <3>2. CASE ~Handlers[arm].is_timeout_handler
      BY <1>0, <2>2, <3>2, ArmMoves DEF ArmIsFirst
    <3> QED BY <3>1, <3>2
  <2>4. Machine!Finish
    BY <2>2, <2>3 DEF Machine!Finish, Over
  <2> QED BY <2>4 DEF Machine!Next
<1>5. CASE SelectCancelled \/ SelectClosed \/ Abort
  <2>1. Machine!End
    BY <1>0, <1>5 DEF SelectCancelled, SelectClosed, Abort, Machine!End, Over, TypeOK
  <2> QED BY <2>1 DEF Machine!Next
<1>6. ASSUME NEW why, LeaveHandler(why) PROVE [Machine!Next]_(Machine!vars)
  <2>1. Machine!End
    BY <1>6 DEF LeaveHandler, Machine!End, Over
  <2> QED BY <2>1 DEF Machine!Next
<1>7. ASSUME NEW c \in Client, SendPush(c) PROVE [Machine!Next]_(Machine!vars)
  <2>1. CASE Over
    BY <1>7, <2>1 DEF SendPush, Over
  <2>2. CASE ~Over
    <3>1. rx_open /\ msg[c] \in Event
      BY <1>0, <1>7, <2>2 DEF SendPush, Over, LoopReceives, TypeOK
    <3>2. Len(queue) < ChannelSize
      <4>1. Reserved # {}
        BY <1>7 DEF SendPush, Reserved
      <4>2. Cardinality(Reserved) # 0
        BY <4>1, ReservedFinite, FS_EmptySet
      <4>3. Len(queue) \in Nat
        BY <1>0 DEF TypeOK
      <4> QED
        BY <1>0, <4>2, <4>3, ReservedFinite, ChannelSizeAssumption DEF QueueBounded, PermitsTaken
    <3>3. Machine!Accept
      BY <1>7, <2>2, <3>1, <3>2 DEF SendPush, Machine!Accept, Over
    <3> QED BY <3>3 DEF Machine!Next
  <2> QED BY <2>1, <2>2
<1>8. CASE UNCHANGED <<pc, arm, state, queue>>
  BY <1>8 DEF Over
<1>9. CASE Start
  BY <1>9 DEF Start, Over
<1>10. CASE DropReceiver \/ Complete
  BY <1>0, <1>10 DEF DropReceiver, Complete, Over
<1>11. CASE DropStateTx \/ Tick \/ AwaitTask \/ DropTask \/ ParentCancel
  BY <1>8, <1>11 DEF DropStateTx, Tick, AwaitTask, DropTask, ParentCancel
<1>12. ASSUME NEW c \in Client, ClientNext(c) PROVE [Machine!Next]_(Machine!vars)
  BY <1>8, <1>12 DEF ClientNext, SendBegin, SendReserve, TrySend, SendRefused,
                     SendAbandoned, CloneHandle, DropHandle, Shutdown
<1>13. CASE UNCHANGED vars
  BY <1>8, <1>13 DEF vars
<1> QED
  BY <1>1, <1>2, <1>3, <1>4, <1>5, <1>6, <1>7, <1>9, <1>10, <1>11, <1>12, <1>13
  DEF Next, SelectRecv, OtherNext, TaskNext, HandlerFails, HandlerFailsAs, Failure, HandlerCancelled

\* Seen by its senders a machine is the automaton of its match arms behind a
\* bounded inbox, in every interleaving and however it ends.
THEOREM ImplementsMachine == Spec => MachineSpec
<1>1. MInv /\ [Next]_vars => [Machine!Next]_(Machine!vars)
  BY StepMachine
<1> QED BY <1>1, InitMachine, InitMInv, NextMInv, PTL DEF Spec, MachineSpec, Machine!Spec

=============================================================================

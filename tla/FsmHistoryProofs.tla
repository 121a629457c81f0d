-------------------------- MODULE FsmHistoryProofs --------------------------
(***************************************************************************)
(* The histories of FsmDelivery and FsmOutcome: what becomes of an event,  *)
(* and what is told of a machine's end, for every definition the validator *)
(* accepts, every channel size and every number of clients and sends.      *)
(***************************************************************************)
EXTENDS FsmDelivery, FsmOutcome, FsmRuntimeProofs

-----------------------------------------------------------------------------
(* Sequences: handing the head of the right part to the left part, and     *)
(* appending to the right part, are what they should be on the whole.      *)

LEMMA ConcatShift ==
    ASSUME NEW S, NEW a \in Seq(S), NEW b \in Seq(S), b # <<>>
    PROVE  Append(a, Head(b)) \o Tail(b) = a \o b
<1> DEFINE l == Append(a, Head(b)) \o Tail(b)
           r == a \o b
<1>1. l \in Seq(S) /\ r \in Seq(S) /\ Len(l) = Len(r)
  OBVIOUS
<1>2. ASSUME NEW i \in 1..Len(r) PROVE l[i] = r[i]
  OBVIOUS
<1> QED BY <1>1, <1>2

LEMMA ConcatAppend ==
    ASSUME NEW a \in Seq(Event), NEW b \in Seq(Event), NEW e \in Event
    PROVE  Append(a \o b, e) = a \o Append(b, e)
<1> DEFINE l == Append(a \o b, e)
           r == a \o Append(b, e)
<1>1. l \in Seq(Event) /\ r \in Seq(Event) /\ Len(l) = Len(r)
  OBVIOUS
<1>2. ASSUME NEW i \in 1..Len(r) PROVE l[i] = r[i]
  OBVIOUS
<1> QED BY <1>1, <1>2

-----------------------------------------------------------------------------
(* The Receiver outlives the loop, whoever sends holds a handle, and a     *)
(* machine that ended for want of handles has none: after the loop has     *)
(* seen the channel closed and empty, no send is under way that could      *)
(* still return Ok.                                                        *)

HistoryType == sent \in Seq(Event) /\ taken \in Seq(Event)
SendersAreLive == \A c \in Client : op[c] # "idle" => c \in live
ClosedIsAlone == cause = "closed" => live = {}

DInv ==
    /\ TypeOK
    /\ HistoryType
    /\ LoopReceives
    /\ SendersAreLive
    /\ ClosedIsAlone
    /\ InOrderOnce
    /\ DrainedOnClose

LEMMA InitDInv == DeliveryInit => DInv
<1> SUFFICES ASSUME DeliveryInit PROVE DInv
  OBVIOUS
<1>1. TypeOK
  BY InitTypeOK DEF DeliveryInit
<1>2. sent = <<>> /\ taken = <<>> /\ queue = <<>>
  BY DEF DeliveryInit, Init
<1>3. InOrderOnce /\ DrainedOnClose /\ HistoryType
  BY <1>2 DEF InOrderOnce, DrainedOnClose, HistoryType
<1>4. LoopReceives /\ ClosedIsAlone
  BY DEF DeliveryInit, Init, LoopReceives, ClosedIsAlone
<1>5. SendersAreLive
  BY DEF DeliveryInit, Init, SendersAreLive
<1> QED BY <1>1, <1>3, <1>4, <1>5 DEF DInv

LEMMA DeliveryStepIsStep == [DeliveryNext]_deliveryVars => [Next]_vars
BY DEF DeliveryNext, Next, deliveryVars

\* A step that leaves the channel, its handles and the histories alone, and
\* does not see the channel closed.
LEMMA ElsewhereStep ==
    ASSUME DInv, UNCHANGED <<queue, rx_open, live, op, sent, taken>>,
           pc' \in {"spawned", "select", "handler"} => pc \in {"spawned", "select", "handler"},
           cause' = "closed" => cause = "closed"
    PROVE  /\ LoopReceives' /\ SendersAreLive' /\ ClosedIsAlone'
           /\ HistoryType' /\ InOrderOnce' /\ DrainedOnClose'
BY DEF DInv, HistoryType, LoopReceives, SendersAreLive, ClosedIsAlone, InOrderOnce, DrainedOnClose

LEMMA NextDInv == DInv /\ [DeliveryNext]_deliveryVars => DInv'
<1> SUFFICES ASSUME DInv, [DeliveryNext]_deliveryVars
             PROVE  /\ LoopReceives' /\ SendersAreLive' /\ ClosedIsAlone'
                    /\ HistoryType' /\ InOrderOnce' /\ DrainedOnClose'
  BY NextTypeOK, DeliveryStepIsStep DEF DInv
<1> USE DEF taskVars, channelVars, watchVars, ownerVars, clientVars
<1>0. /\ TypeOK /\ HistoryType /\ LoopReceives /\ SendersAreLive /\ ClosedIsAlone
      /\ InOrderOnce /\ DrainedOnClose
  BY DEF DInv
<1>1. ASSUME NEW c \in Client, SendPush(c), sent' = Append(sent, msg[c]), UNCHANGED taken
      PROVE  /\ LoopReceives' /\ SendersAreLive' /\ ClosedIsAlone'
             /\ HistoryType' /\ InOrderOnce' /\ DrainedOnClose'
  <2>1. msg[c] \in Event /\ op[c] = "reserved" /\ c \in live
    BY <1>0, <1>1 DEF SendPush, TypeOK, SendersAreLive
  <2>2. HistoryType'
    BY <1>0, <1>1, <2>1 DEF HistoryType
  <2>3. InOrderOnce'
    <3>1. CASE rx_open
      <4>1. queue' = Append(queue, msg[c]) /\ sent = taken \o queue
        BY <1>0, <1>1, <3>1 DEF SendPush, InOrderOnce
      <4>2. Append(taken \o queue, msg[c]) = taken \o Append(queue, msg[c])
        <5>1. taken \in Seq(Event) /\ queue \in Seq(Event) /\ msg[c] \in Event
          BY <1>0, <2>1 DEF HistoryType, TypeOK
        <5> QED BY <5>1, ConcatAppend, Zenon
      <4> QED BY <1>1, <4>1, <4>2 DEF InOrderOnce
    <3>2. CASE ~rx_open
      BY <1>1, <3>2 DEF SendPush, InOrderOnce
    <3> QED BY <3>1, <3>2
  <2>4. cause # "closed" /\ cause' = cause
    BY <1>0, <1>1, <2>1 DEF SendPush, ClosedIsAlone
  <2>5. ClosedIsAlone' /\ DrainedOnClose'
    BY <2>4 DEF ClosedIsAlone, DrainedOnClose
  <2>6. LoopReceives'
    BY <1>0, <1>1 DEF SendPush, LoopReceives
  <2>7. SendersAreLive'
    BY <1>0, <1>1 DEF SendPush, SendEnd, SendersAreLive, TypeOK
  <2> QED BY <2>2, <2>3, <2>5, <2>6, <2>7
<1>2. ASSUME SelectRecv, taken' = Append(taken, Head(queue)), UNCHANGED sent
      PROVE  /\ LoopReceives' /\ SendersAreLive' /\ ClosedIsAlone'
             /\ HistoryType' /\ InOrderOnce' /\ DrainedOnClose'
  <2>1. /\ pc = "select" /\ queue # <<>> /\ queue' = Tail(queue)
        /\ UNCHANGED <<cause, rx_open, live, op>>
    BY <1>2 DEF SelectRecv, RecvMatched, RecvUnmatched, Receive
  <2>2. HistoryType'
    BY <1>0, <1>2, <2>1 DEF HistoryType, TypeOK
  <2>3. Append(taken, Head(queue)) \o Tail(queue) = taken \o queue
    BY <1>0, <2>1, ConcatShift DEF HistoryType, TypeOK
  <2>4. InOrderOnce'
    BY <1>0, <1>2, <2>1, <2>3 DEF InOrderOnce
  <2>5. cause' # "closed"
    BY <1>0, <2>1 DEF TypeOK
  <2>6. LoopReceives' /\ SendersAreLive'
    BY <1>0, <2>1 DEF LoopReceives, SendersAreLive
  <2> QED BY <2>2, <2>4, <2>5, <2>6 DEF ClosedIsAlone, DrainedOnClose
<1>3. ASSUME SelectClosed, UNCHANGED <<sent, taken>>
      PROVE  /\ LoopReceives' /\ SendersAreLive' /\ ClosedIsAlone'
             /\ HistoryType' /\ InOrderOnce' /\ DrainedOnClose'
  <2>1. /\ pc = "select" /\ live = {} /\ queue = <<>> /\ pc' = "exit"
        /\ UNCHANGED <<queue, rx_open, live, op>>
    BY <1>3 DEF SelectClosed
  <2>2. sent = taken
    BY <1>0, <2>1 DEF LoopReceives, InOrderOnce, HistoryType
  <2> QED
    BY <1>0, <1>3, <2>1, <2>2
    DEF LoopReceives, SendersAreLive, ClosedIsAlone, HistoryType, InOrderOnce, DrainedOnClose
<1>4. ASSUME DropReceiver, UNCHANGED <<sent, taken>>
      PROVE  /\ LoopReceives' /\ SendersAreLive' /\ ClosedIsAlone'
             /\ HistoryType' /\ InOrderOnce' /\ DrainedOnClose'
  BY <1>0, <1>4
  DEF DropReceiver, LoopReceives, SendersAreLive, ClosedIsAlone, HistoryType, InOrderOnce, DrainedOnClose
<1>5. ASSUME NEW c \in Client, ClientNext(c), UNCHANGED <<sent, taken>>
      PROVE  /\ LoopReceives' /\ SendersAreLive' /\ ClosedIsAlone'
             /\ HistoryType' /\ InOrderOnce' /\ DrainedOnClose'
  <2>1. UNCHANGED <<pc, cause, queue, rx_open>>
    BY <1>5 DEF ClientNext, SendBegin, TrySend, SendReserve, SendRefused, SendAbandoned,
                DropHandle, Shutdown, CloneHandle
  <2>2. SendersAreLive'
    <3>1. CASE \E e \in Events(Handlers) : SendBegin(c, e) \/ TrySend(c, e)
      BY <1>0, <3>1 DEF SendBegin, TrySend, SendersAreLive, TypeOK
    <3>2. CASE SendReserve(c) \/ SendRefused(c) \/ SendAbandoned(c)
      BY <1>0, <3>2 DEF SendReserve, SendRefused, SendAbandoned, SendEnd, SendersAreLive, TypeOK
    <3>3. CASE DropHandle(c) \/ Shutdown(c) \/ \E d \in Client : CloneHandle(c, d)
      BY <1>0, <3>3 DEF DropHandle, Shutdown, CloneHandle, SendersAreLive
    <3> QED BY <1>5, <3>1, <3>2, <3>3 DEF ClientNext
  <2>3. live = {} => live' = {}
    BY <1>0, <1>5 DEF ClientNext, SendBegin, TrySend, SendReserve, SendRefused, SendAbandoned,
                      DropHandle, Shutdown, CloneHandle, SendersAreLive
  <2>4. ClosedIsAlone'
    BY <1>0, <2>1, <2>3 DEF ClosedIsAlone
  <2> QED
    BY <1>0, <1>5, <2>1, <2>2, <2>4 DEF LoopReceives, HistoryType, InOrderOnce, DrainedOnClose
<1>6. ASSUME HandlerReturn \/ Tick \/ AwaitTask \/ DropTask \/ ParentCancel, UNCHANGED <<sent, taken>>
      PROVE  /\ LoopReceives' /\ SendersAreLive' /\ ClosedIsAlone'
             /\ HistoryType' /\ InOrderOnce' /\ DrainedOnClose'
  BY <1>6, ElsewhereStep DEF HandlerReturn, Tick, AwaitTask, DropTask, ParentCancel
<1>7. ASSUME Start \/ SelectTimer \/ SelectCancelled \/ Abort \/ DropStateTx \/ Complete,
             UNCHANGED <<sent, taken>>
      PROVE  /\ LoopReceives' /\ SendersAreLive' /\ ClosedIsAlone'
             /\ HistoryType' /\ InOrderOnce' /\ DrainedOnClose'
  BY <1>7, ElsewhereStep DEF Start, SelectTimer, SelectCancelled, Abort, DropStateTx, Complete
<1>8. ASSUME HandlerFails \/ HandlerCancelled, UNCHANGED <<sent, taken>>
      PROVE  /\ LoopReceives' /\ SendersAreLive' /\ ClosedIsAlone'
             /\ HistoryType' /\ InOrderOnce' /\ DrainedOnClose'
  BY <1>8, ElsewhereStep DEF HandlerFails, HandlerFailsAs, Failure, HandlerCancelled, LeaveHandler
<1>9. CASE UNCHANGED deliveryVars
  BY <1>9, ElsewhereStep DEF deliveryVars, vars
<1> QED
  BY <1>1, <1>2, <1>3, <1>4, <1>5, <1>6, <1>7, <1>8, <1>9 DEF DeliveryNext, OtherNext, TaskNext

LEMMA DeliveryInvariance == DeliverySpec => []DInv
BY InitDInv, NextDInv, PTL DEF DeliverySpec

\* While the loop can receive, no accepted event is lost, doubled or overtaken.
THEOREM DeliveryInOrder == DeliverySpec => []InOrderOnce
<1>1. DInv => InOrderOnce
  BY DEF DInv
<1> QED BY <1>1, DeliveryInvariance, PTL

\* A machine that ends with its last handle has taken every event whose send
\* returned Ok.
THEOREM DeliveryDrained == DeliverySpec => []DrainedOnClose
<1>1. DInv => DrainedOnClose
  BY DEF DInv
<1> QED BY <1>1, DeliveryInvariance, PTL

-----------------------------------------------------------------------------
(* What an early end loses.  A slot counts from the moment it is reserved: *)
(* the Receiver may go before it is written, and send returns Ok all the   *)
(* same.                                                                   *)

TakenIsPrefix ==
    /\ Len(taken) <= Len(sent)
    /\ \A i \in 1..Len(taken) : taken[i] = sent[i]

AheadIsBounded == Len(sent) - Len(taken) + Cardinality(Reserved) <= ChannelSize

LossInv == DInv /\ TakenIsPrefix /\ AheadIsBounded

LEMMA InitLossInv == DeliveryInit => LossInv
<1> SUFFICES ASSUME DeliveryInit PROVE TakenIsPrefix /\ AheadIsBounded
  BY InitDInv DEF LossInv
<1>1. Len(sent) = 0 /\ Len(taken) = 0 /\ Reserved = {}
  BY DEF DeliveryInit, Init, Reserved
<1> QED BY <1>1, FS_EmptySet, ChannelSizeAssumption DEF TakenIsPrefix, AheadIsBounded

\* A step that neither sends nor takes and reserves no slot.
LEMMA LossElsewhere ==
    ASSUME LossInv, UNCHANGED <<sent, taken>>, Reserved' = Reserved
    PROVE  TakenIsPrefix' /\ AheadIsBounded'
BY DEF LossInv, TakenIsPrefix, AheadIsBounded

\* What is ahead of the loop while it lives is what is buffered.
LEMMA LossReserve ==
    ASSUME LossInv, UNCHANGED <<sent, taken>>, HasCapacity, NEW c \in Client,
           op[c] # "reserved", op' = [op EXCEPT ![c] = "reserved"]
    PROVE  TakenIsPrefix' /\ AheadIsBounded'
<1>1. Cardinality(Reserved') = Cardinality(Reserved) + 1
  BY OneMoreReserved DEF LossInv, DInv
<1>2. sent = taken \o queue /\ queue \in Seq(Event) /\ taken \in Seq(Event)
  BY DEF LossInv, DInv, HasCapacity, InOrderOnce, HistoryType, TypeOK
<1>3. Len(sent) = Len(taken) + Len(queue) /\ Len(taken) \in Nat /\ Len(queue) \in Nat
  BY <1>2
<1>4. AheadIsBounded'
  BY <1>1, <1>3, ReservedFinite, ChannelSizeAssumption DEF AheadIsBounded, HasCapacity, PermitsTaken
<1> QED BY <1>4 DEF LossInv, TakenIsPrefix

LEMMA NextLossInv == LossInv /\ [DeliveryNext]_deliveryVars => LossInv'
<1> SUFFICES ASSUME LossInv, [DeliveryNext]_deliveryVars
             PROVE  TakenIsPrefix' /\ AheadIsBounded'
  BY NextDInv DEF LossInv
<1> USE DEF taskVars, channelVars, watchVars, ownerVars, clientVars
<1>0. /\ DInv /\ TypeOK /\ TakenIsPrefix /\ AheadIsBounded /\ LoopReceives /\ InOrderOnce
      /\ sent \in Seq(Event) /\ taken \in Seq(Event) /\ queue \in Seq(Event)
  BY DEF LossInv, DInv, HistoryType, TypeOK
<1>1. ASSUME NEW c \in Client, SendPush(c), sent' = Append(sent, msg[c]), UNCHANGED taken
      PROVE  TakenIsPrefix' /\ AheadIsBounded'
  <2>1. Cardinality(Reserved') = Cardinality(Reserved) - 1
    BY <1>0, <1>1, OneLessReserved
  <2>2. Len(sent') = Len(sent) + 1 /\ \A i \in 1..Len(sent) : sent'[i] = sent[i]
    BY <1>0, <1>1
  <2> QED BY <1>0, <1>1, <2>1, <2>2, ReservedFinite, ChannelSizeAssumption
          DEF TakenIsPrefix, AheadIsBounded
<1>2. ASSUME SelectRecv, taken' = Append(taken, Head(queue)), UNCHANGED sent
      PROVE  TakenIsPrefix' /\ AheadIsBounded'
  <2>1. pc = "select" /\ queue # <<>> /\ op' = op
    BY <1>2 DEF SelectRecv, RecvMatched, RecvUnmatched, Receive
  <2>2. sent = taken \o queue
    BY <1>0, <2>1 DEF LoopReceives, InOrderOnce
  <2>3. Len(sent) = Len(taken) + Len(queue) /\ Len(queue) >= 1 /\ Len(taken') = Len(taken) + 1
    BY <1>0, <1>2, <2>1, <2>2
  <2>4. sent[Len(taken) + 1] = Head(queue)
    BY <1>0, <2>1, <2>2, <2>3
  <2>5. \A i \in 1..Len(taken') : taken'[i] = sent[i]
    BY <1>0, <1>2, <2>3, <2>4 DEF TakenIsPrefix
  <2>6. Reserved' = Reserved
    BY <2>1 DEF Reserved
  <2> QED BY <1>0, <1>2, <2>3, <2>5, <2>6, ReservedFinite, ChannelSizeAssumption
          DEF TakenIsPrefix, AheadIsBounded
<1>3. ASSUME UNCHANGED <<sent, taken, op>>
      PROVE  TakenIsPrefix' /\ AheadIsBounded'
  BY <1>3, LossElsewhere DEF Reserved
<1>4. ASSUME TaskNext \/ HandlerFails, UNCHANGED <<sent, taken>>
      PROVE  TakenIsPrefix' /\ AheadIsBounded'
  BY <1>3, <1>4 DEF TaskNext, Start, SelectTimer, SelectCancelled, SelectClosed, HandlerFails,
     HandlerFailsAs, HandlerCancelled, LeaveHandler, Abort, DropReceiver, DropStateTx, Complete
<1>5. ASSUME HandlerReturn \/ Tick \/ AwaitTask \/ DropTask \/ ParentCancel, UNCHANGED <<sent, taken>>
      PROVE  TakenIsPrefix' /\ AheadIsBounded'
  BY <1>3, <1>5 DEF HandlerReturn, Tick, AwaitTask, DropTask, ParentCancel
<1>6. ASSUME NEW c \in Client, ClientNext(c), UNCHANGED <<sent, taken>>
      PROVE  TakenIsPrefix' /\ AheadIsBounded'
  <2>1. CASE SendReserve(c)
    BY <1>6, <2>1, LossReserve DEF SendReserve
  <2>2. CASE \E e \in Events(Handlers) : TrySend(c, e)
    BY <1>6, <2>2, LossReserve DEF TrySend
  <2>3. CASE \E e \in Events(Handlers) : SendBegin(c, e)
    <3>1. Reserved' = Reserved
      BY <1>0, <2>3 DEF SendBegin, Reserved, TypeOK
    <3> QED BY <1>6, <3>1, LossElsewhere
  <2>4. CASE SendRefused(c) \/ SendAbandoned(c)
    <3>1. Reserved' = Reserved
      BY <1>0, <2>4 DEF SendRefused, SendAbandoned, SendEnd, Reserved, TypeOK
    <3> QED BY <1>6, <3>1, LossElsewhere
  <2>5. CASE DropHandle(c) \/ Shutdown(c) \/ \E d \in Client : CloneHandle(c, d)
    BY <1>3, <1>6, <2>5 DEF DropHandle, Shutdown, CloneHandle
  <2> QED BY <1>6, <2>1, <2>2, <2>3, <2>4, <2>5 DEF ClientNext
<1>7. CASE UNCHANGED deliveryVars
  BY <1>3, <1>7 DEF deliveryVars, vars
<1> QED
  BY <1>1, <1>2, <1>4, <1>5, <1>6, <1>7 DEF DeliveryNext, OtherNext

LEMMA LossBoundHolds == LossInv => LossIsBounded
<1> SUFFICES ASSUME LossInv PROVE LossIsBounded
  OBVIOUS
<1>1. sent \in Seq(Event) /\ taken \in Seq(Event) /\ TakenIsPrefix /\ AheadIsBounded
  BY DEF LossInv, DInv, HistoryType
<1> DEFINE begun == SubSeq(sent, 1, Len(taken))
<1>2. begun \in Seq(Event) /\ Len(begun) = Len(taken)
  BY <1>1 DEF TakenIsPrefix
<1>3. \A i \in 1..Len(taken) : begun[i] = taken[i]
  BY <1>1 DEF TakenIsPrefix
<1>4. taken = begun
  <2> HIDE DEF begun
  <2> QED BY <1>1, <1>2, <1>3
<1>5. Len(sent) - Len(taken) <= ChannelSize
  BY <1>1, ReservedFinite, ChannelSizeAssumption DEF AheadIsBounded
<1> QED BY <1>1, <1>4, <1>5 DEF LossIsBounded, TakenIsPrefix

\* However a machine ends, it loses at most channel_size events whose send
\* returned Ok, and they are the last ones.
THEOREM DeliveryLossBounded == DeliverySpec => []LossIsBounded
<1>1. DeliverySpec => []LossInv
  BY InitLossInv, NextLossInv, PTL DEF DeliverySpec
<1> QED BY <1>1, LossBoundHolds, PTL

-----------------------------------------------------------------------------
(* The result.  The loop's cause tells how its handler failed; why it was  *)
(* asked to stop stays true until the task is awaited, a token never being *)
(* uncancelled and a handle being cloned only from another; a task that    *)
(* was aborted has nobody left to await it; and nothing is answered before *)
(* the end.                                                                *)

CauseTellsFailure ==
    /\ failure \in {"none", "error", "panic"}
    /\ failure = "error" <=> cause = "error"
    /\ failure = "panic" <=> cause = "panic"
EndIsAsked ==
    /\ cause = "closed" => live = {}
    /\ cause = "cancelled" => cancelled
AbortedIsDropped == cause = "aborted" => task = "dropped"
AnsweredIsDone == result # "none" => pc = "done"

OutcomeParts ==
    CauseTellsFailure /\ EndIsAsked /\ AbortedIsDropped /\ AnsweredIsDone /\ ResultTellsTheEnd

OInv == TypeOK /\ OutcomeParts

LEMMA InitOInv == OutcomeInit => OInv
BY InitTypeOK DEF OutcomeInit, Init, OInv, OutcomeParts, CauseTellsFailure, EndIsAsked,
                  AbortedIsDropped, AnsweredIsDone, ResultTellsTheEnd

LEMMA OutcomeStepIsStep == [OutcomeNext]_outcomeVars => [Next]_vars
BY DEF OutcomeNext, Next, HandlerFails, outcomeVars

\* The steps that do not end the loop, answer nobody and take away no reason
\* to end it.
LEMMA RunningStep ==
    ASSUME OInv, UNCHANGED <<cause, result, failure>>, pc = "done" => pc' = "done",
           cancelled => cancelled', live = {} => live' = {}, task = "dropped" => task' = "dropped"
    PROVE  OutcomeParts'
BY DEF OInv, OutcomeParts, CauseTellsFailure, EndIsAsked, AbortedIsDropped, AnsweredIsDone, ResultTellsTheEnd

\* A step that ends the loop.
LEMMA EndingStep ==
    ASSUME OInv, pc \in {"spawned", "select", "handler"}, UNCHANGED <<cancelled, live, task, result>>,
           cause' \in {"closed", "cancelled", "error", "panic", "aborted"},
           EndIsAsked', AbortedIsDropped',
           failure' = IF cause' \in {"error", "panic"} THEN cause' ELSE failure
    PROVE  OutcomeParts'
<1>1. cause = "none" /\ failure = "none" /\ result = "none"
  BY DEF OInv, OutcomeParts, TypeOK, CauseTellsFailure, AnsweredIsDone
<1>2. CauseTellsFailure'
  BY <1>1 DEF CauseTellsFailure
<1> QED BY <1>1, <1>2 DEF OutcomeParts, AnsweredIsDone, ResultTellsTheEnd

\* What the task returns is read off the cause.
LEMMA AnswerStep == OInv /\ AwaitTask /\ UNCHANGED failure => OutcomeParts'
<1> SUFFICES ASSUME OInv, AwaitTask, UNCHANGED failure PROVE OutcomeParts'
  OBVIOUS
<1>1. /\ UNCHANGED <<pc, cause, cancelled, live, failure>>
      /\ pc = "done" /\ task = "held" /\ task' = "joined" /\ result' = TaskResult
  BY DEF AwaitTask, taskVars, clientVars
<1>2. cause \in {"closed", "cancelled", "error", "panic"}
  BY <1>1 DEF OInv, OutcomeParts, TypeOK, AbortedIsDropped
<1>3. CauseTellsFailure' /\ EndIsAsked' /\ AbortedIsDropped' /\ AnsweredIsDone'
  BY <1>1, <1>2 DEF OInv, OutcomeParts, CauseTellsFailure, EndIsAsked, AbortedIsDropped, AnsweredIsDone
<1>4. CASE cause \in {"closed", "cancelled"}
  <2>1. result' = "Ok" /\ failure = "none" /\ (cancelled \/ live = {})
    BY <1>1, <1>4 DEF TaskResult, OInv, OutcomeParts, CauseTellsFailure, EndIsAsked
  <2> QED BY <1>1, <1>3, <2>1 DEF OutcomeParts, ResultTellsTheEnd
<1>5. CASE cause = "error"
  <2>1. result' = "Fsm" /\ failure = "error"
    BY <1>1, <1>5 DEF TaskResult, OInv, OutcomeParts, CauseTellsFailure
  <2> QED BY <1>1, <1>3, <2>1 DEF OutcomeParts, ResultTellsTheEnd
<1>6. CASE cause = "panic"
  <2>1. result' = "Join" /\ failure = "panic"
    BY <1>1, <1>6 DEF TaskResult, OInv, OutcomeParts, CauseTellsFailure
  <2> QED BY <1>1, <1>3, <2>1 DEF OutcomeParts, ResultTellsTheEnd
<1> QED BY <1>2, <1>4, <1>5, <1>6

LEMMA NextOInv == OInv /\ [OutcomeNext]_outcomeVars => OInv'
<1> SUFFICES ASSUME OInv, [OutcomeNext]_outcomeVars PROVE OutcomeParts'
  BY NextTypeOK, OutcomeStepIsStep DEF OInv
<1> USE DEF taskVars, channelVars, watchVars, ownerVars, clientVars
<1>1. CASE UNCHANGED outcomeVars
  BY <1>1, RunningStep DEF outcomeVars, vars
<1>2. ASSUME NEW how \in Failure, HandlerFailsAs(how), failure' = how PROVE OutcomeParts'
  BY <1>2, EndingStep DEF HandlerFailsAs, Failure, LeaveHandler, EndIsAsked, AbortedIsDropped
<1>3. ASSUME SelectCancelled \/ SelectClosed \/ HandlerCancelled \/ Abort, UNCHANGED failure PROVE OutcomeParts'
  BY <1>3, EndingStep
  DEF SelectCancelled, SelectClosed, HandlerCancelled, LeaveHandler, Abort, EndIsAsked, AbortedIsDropped
<1>4. ASSUME Start \/ SelectTimer \/ SelectRecv \/ HandlerReturn \/ DropReceiver \/ DropStateTx \/ Complete \/ Tick,
             UNCHANGED failure
      PROVE  OutcomeParts'
  BY <1>4, RunningStep
  DEF Start, SelectTimer, SelectRecv, RecvMatched, RecvUnmatched, Receive, HandlerReturn, DropReceiver, DropStateTx,
      Complete, Tick
<1>5. ASSUME DropTask \/ ParentCancel, UNCHANGED failure PROVE OutcomeParts'
  BY <1>5, RunningStep DEF DropTask, ParentCancel
<1>6. ASSUME NEW c \in Client, SendPush(c) \/ ClientNext(c), UNCHANGED failure PROVE OutcomeParts'
  <2>1. CASE SendPush(c) \/ SendReserve(c) \/ SendRefused(c) \/ SendAbandoned(c) \/ Shutdown(c)
    BY <1>6, <2>1, RunningStep DEF SendPush, SendReserve, SendRefused, SendAbandoned, Shutdown
  <2>2. CASE DropHandle(c) \/ \E d \in Client : CloneHandle(c, d)
    BY <1>6, <2>2, RunningStep DEF DropHandle, CloneHandle
  <2>3. CASE \E e \in Events(Handlers) : SendBegin(c, e) \/ TrySend(c, e)
    BY <1>6, <2>3, RunningStep DEF SendBegin, TrySend
  <2> QED BY <1>6, <2>1, <2>2, <2>3 DEF ClientNext
<1>7. ASSUME AwaitTask, UNCHANGED failure PROVE OutcomeParts'
  BY <1>7, AnswerStep
<1>8. ASSUME OtherNext, UNCHANGED failure PROVE OutcomeParts'
  BY <1>3, <1>4, <1>5, <1>6, <1>7, <1>8 DEF OtherNext, TaskNext
<1>9. ASSUME SelectRecv \/ HandlerReturn \/ (\E c \in Client : SendPush(c)) \/ OtherNext, UNCHANGED failure
      PROVE  OutcomeParts'
  <2>1. CASE SelectRecv \/ HandlerReturn
    BY <1>4, <1>9, <2>1
  <2>2. CASE \E c \in Client : SendPush(c)
    BY <1>6, <1>9, <2>2
  <2>3. CASE OtherNext
    BY <1>8, <1>9, <2>3
  <2> QED BY <1>9, <2>1, <2>2, <2>3
<1> QED BY <1>1, <1>2, <1>9 DEF OutcomeNext

\* Whoever awaits the task learns how the machine ended: an error and a panic as
\* what they were, an ordered end only if it was asked for and nothing failed.
THEOREM ResultCorrect == OutcomeSpec => []ResultTellsTheEnd
<1>1. OInv => ResultTellsTheEnd
  BY DEF OInv, OutcomeParts
<1> QED BY <1>1, InitOInv, NextOInv, PTL DEF OutcomeSpec
=============================================================================

---------------------------- MODULE FsmDelivery ----------------------------
(***************************************************************************)
(* What becomes of an event: the runtime with two histories, the events    *)
(* whose send returned Ok, in the order their slots were written, and the  *)
(* events recv() handed to the loop.                                       *)
(***************************************************************************)
EXTENDS FsmRuntime

VARIABLES
    sent,   \* the events whose send or try_send returned Ok
    taken   \* the events recv() returned

deliveryVars == <<vars, sent, taken>>

DeliveryInit == Init /\ sent = <<>> /\ taken = <<>>

DeliveryNext ==
    \/ \E c \in Client : SendPush(c) /\ sent' = Append(sent, msg[c]) /\ UNCHANGED taken
    \/ SelectRecv /\ taken' = Append(taken, Head(queue)) /\ UNCHANGED sent
    \/ (HandlerReturn \/ HandlerFails \/ OtherNext) /\ UNCHANGED <<sent, taken>>

DeliverySpec == DeliveryInit /\ [][DeliveryNext]_deliveryVars

DeliveryFairSpec == DeliverySpec /\ Fairness

-----------------------------------------------------------------------------
\* While the loop can receive, the events whose send returned Ok are those it
\* took followed by those still buffered: none lost, none twice, none out of
\* order, whichever branches of the select! win and whichever sends are
\* abandoned.
InOrderOnce == rx_open => sent = taken \o queue

\* A machine that ends because its last handle was dropped has taken every
\* event whose send ever returned Ok.
DrainedOnClose == cause = "closed" => taken = sent

\* However the machine ends, what it took is a beginning of what was sent, and
\* at most channel_size events are lost at the end whose send returned Ok: the
\* buffered ones and those whose slot is written after the Receiver is gone.
LossIsBounded ==
    /\ Len(taken) <= Len(sent)
    /\ taken = SubSeq(sent, 1, Len(taken))
    /\ Len(sent) - Len(taken) <= ChannelSize

\* The n-th event sent is taken, unless the machine ends.
NthIsTaken(n) == Len(sent) >= n ~> (Len(taken) >= n \/ pc = "done")
=============================================================================

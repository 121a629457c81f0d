----------------------------- MODULE FsmOutcome -----------------------------
(***************************************************************************)
(* How a machine came to its end, and what whoever awaits its task learns  *)
(* of it: the runtime with a history of how its handler failed.  The loop  *)
(* itself keeps no record of that: an error travels out of run() as the    *)
(* value it returns, a panic through the JoinHandle.                       *)
(***************************************************************************)
EXTENDS FsmRuntime

VARIABLE failure    \* how a handler failed: "none", "error" or "panic"

outcomeVars == <<vars, failure>>

OutcomeInit == Init /\ failure = "none"

OutcomeNext ==
    \/ \E how \in Failure : HandlerFailsAs(how) /\ failure' = how
    \/ /\ SelectRecv \/ HandlerReturn \/ (\E c \in Client : SendPush(c)) \/ OtherNext
       /\ UNCHANGED failure

OutcomeSpec == OutcomeInit /\ [][OutcomeNext]_outcomeVars

-----------------------------------------------------------------------------
\* What awaiting the task returns is how the machine ended, whatever raced with
\* its end.  Ok: no handler failed, and the machine was asked to stop, by its
\* token or by the last handle's drop.  An error or a panic of a handler is
\* reported as what it was even if a shutdown, or the drop of the last handle,
\* came before it or after it; and neither is reported of a machine whose
\* handlers did not fail.
ResultTellsTheEnd ==
    /\ result = "Ok"   => failure = "none" /\ (cancelled \/ live = {})
    /\ result = "Fsm"  => failure = "error"
    /\ result = "Join" => failure = "panic"
=============================================================================

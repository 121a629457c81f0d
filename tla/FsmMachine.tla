----------------------------- MODULE FsmMachine -----------------------------
(***************************************************************************)
(* What a spawned machine promises whoever sends it events: the automaton  *)
(* (Q, Sigma, delta, q0) of the documentation behind a bounded inbox.  It  *)
(* takes events one at a time and in order, makes exactly the moves its    *)
(* transition relation has for the event it took, drops the events that    *)
(* have none, and may move by itself where a timeout has moves.  When it   *)
(* ends, what is left in the inbox is lost.                                *)
(*                                                                         *)
(* NoEvent labels the moves of a timeout.                                  *)
(***************************************************************************)
EXTENDS Integers, Sequences

CONSTANTS State, Event, NoEvent, InitialState, Delta, Capacity

VARIABLES
    state,
    job,        \* <<>>, or <<label>> while a handler runs
    inbox,
    running

vars == <<state, job, inbox, running>>

Moves(s, label) == {t \in State : <<s, label, t>> \in Delta}

Init ==
    /\ state = InitialState
    /\ job = <<>>
    /\ inbox = <<>>
    /\ running = TRUE

Accept ==
    /\ running
    /\ Len(inbox) < Capacity
    /\ \E e \in Event : inbox' = Append(inbox, e)
    /\ UNCHANGED <<state, job, running>>

Take ==
    /\ running
    /\ job = <<>>
    /\ inbox # <<>>
    /\ inbox' = Tail(inbox)
    /\ job' = IF Moves(state, Head(inbox)) = {} THEN <<>> ELSE <<Head(inbox)>>
    /\ UNCHANGED <<state, running>>

Expire ==
    /\ running
    /\ job = <<>>
    /\ Moves(state, NoEvent) # {}
    /\ job' = <<NoEvent>>
    /\ UNCHANGED <<state, inbox, running>>

Finish ==
    /\ running
    /\ job # <<>>
    /\ state' \in Moves(state, job[1])
    /\ job' = <<>>
    /\ UNCHANGED <<inbox, running>>

End ==
    /\ running
    /\ running' = FALSE
    /\ job' = <<>>
    /\ inbox' = <<>>
    /\ UNCHANGED state

Next == Accept \/ Take \/ Expire \/ Finish \/ End

Spec == Init /\ [][Next]_vars
=============================================================================

------------------------------ MODULE FsmGraph ------------------------------
(***************************************************************************)
(* What a generated machine promises whoever observes it: it starts in its *)
(* initial state, moves only along the edges of the graph the macro        *)
(* validated at compile time, and once it has stopped it never moves again.*)
(***************************************************************************)
CONSTANTS State, InitialState, Edge

VARIABLES state, running

vars == <<state, running>>

Init == state = InitialState /\ running = TRUE

Move ==
    /\ running
    /\ \E next \in State : <<state, next>> \in Edge /\ state' = next
    /\ UNCHANGED running

Stop == running /\ running' = FALSE /\ UNCHANGED state

Next == Move \/ Stop

Spec == Init /\ [][Next]_vars
=============================================================================

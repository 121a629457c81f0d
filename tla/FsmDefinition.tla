--------------------------- MODULE FsmDefinition ---------------------------
(***************************************************************************)
(* What the `#[fsm]` macro knows about a machine: the sequence of handlers *)
(* it parsed, in source order, and the tables the code generator derives   *)
(* from it.                                                                *)
(*                                                                         *)
(* A handler is a record with the fields of validation/types.rs that the   *)
(* generated code depends on:                                              *)
(*                                                                         *)
(*   event               the event of its #[on] attributes, or NoEvent     *)
(*   is_timeout_handler  it carries #[on_timeout]                          *)
(*   source_states       the states of its #[on] attributes (a set: the    *)
(*                       parser rejects a repeated one)                    *)
(*   return_states       the states of the Transition<S> it returns        *)
(*   return_kind         which of them are wrapped in Result               *)
(*   timeout             the #[state_timeout] duration, or NoTimeout       *)
(*                                                                         *)
(* The operators take the handler sequence hs as an argument, so that the  *)
(* validator can be checked over many definitions and the runtime run over *)
(* one.                                                                    *)
(***************************************************************************)
EXTENDS Integers, Sequences

CONSTANTS
    State,      \* the identifiers used as states
    Event,      \* the identifiers used as events
    NoEvent     \* the event field of a method without #[on]

ASSUME NoEventAssumption == NoEvent \notin Event

\* "No #[state_timeout]" and "the timer is parked NO_TIMEOUT_SECS (100 years)
\* in the future" are the same value: a deadline no tick brings nearer.
NoTimeout == -1
Duration == Nat \cup {NoTimeout}

\* The result types the parser distinguishes.  "none" is a helper method, whose
\* signature is not parsed.
HandlerReturnKind == {"Transition", "ResultTransition", "ResultError", "none"}

Handler == [event: Event \cup {NoEvent},
            is_timeout_handler: BOOLEAN,
            source_states: SUBSET State,
            return_states: SUBSET State,
            return_kind: HandlerReturnKind,
            timeout: Duration]

\* The shapes Handler::parse lets through.
IsParsed(h) ==
    /\ h \in Handler
    /\ h.event = NoEvent <=> h.source_states = {}
    /\ ~(h.is_timeout_handler /\ h.event # NoEvent)
    /\ h.return_kind = "none" <=> ~h.is_timeout_handler /\ h.event = NoEvent
    /\ h.return_kind = "none" <=> h.return_states = {}
    /\ \/ h.return_kind \in {"none", "ResultTransition"}
       \/ \A s, t \in h.return_states : s = t
    /\ h.return_kind = "ResultTransition" =>
         \E ok, err \in State : h.return_states = {ok, err}

-----------------------------------------------------------------------------
(* Event dispatch: one match arm per #[on], the handlers in source order.  *)

\* Mutant: the arm's pattern binds the event and leaves the state open.
Matches_AnyState(h, s, e) == h.event = e

Matches(h, s, e) == h.event = e /\ s \in h.source_states

\* Handler i is the one a match on (s, e) runs: the first arm that matches.
IsArm(hs, i, s, e) ==
    /\ i \in DOMAIN hs
    /\ Matches(hs[i], s, e)
    /\ \A j \in 1..(i - 1) : ~Matches(hs[j], s, e)

Unmatched(hs, s, e) == \A i \in DOMAIN hs : ~Matches(hs[i], s, e)

-----------------------------------------------------------------------------
(* Timeout dispatch.                                                       *)

IsTimeoutArm(hs, i) ==
    /\ i \in DOMAIN hs
    /\ hs[i].is_timeout_handler
    /\ \A j \in 1..(i - 1) : ~hs[j].is_timeout_handler

HasTimeoutHandler(hs) == \E i \in DOMAIN hs : hs[i].is_timeout_handler

\* A #[state_timeout] arms every state its method returns, the one in the Err
\* of a Result included.
Arms(h, s) == h.timeout # NoTimeout /\ s \in h.return_states

StatesWithTimeout(hs) == {s \in State : \E i \in DOMAIN hs : Arms(hs[i], s)}

\* The first method that arms a state gives the state its duration.
IsFirstArming(hs, i, s) ==
    /\ i \in DOMAIN hs
    /\ Arms(hs[i], s)
    /\ \A j \in 1..(i - 1) : ~Arms(hs[j], s)

TimeoutOf(hs, s) ==
    IF s \in StatesWithTimeout(hs)
    THEN hs[CHOOSE i \in DOMAIN hs : IsFirstArming(hs, i, s)].timeout
    ELSE NoTimeout

-----------------------------------------------------------------------------
(* The graph the validator walks, and its verdict.                         *)

States(hs, initial) ==
    {initial} \cup UNION {hs[i].return_states \cup hs[i].source_states : i \in DOMAIN hs}

\* The generated event enum has exactly the events the handlers name.
Events(hs) == {hs[i].event : i \in DOMAIN hs} \ {NoEvent}

\* A timeout handler may run in every state with a timeout.
Sources(hs, i) ==
    IF hs[i].is_timeout_handler THEN StatesWithTimeout(hs) ELSE hs[i].source_states

Edges(hs) == {edge \in State \X State :
    \E i \in DOMAIN hs : edge[1] \in Sources(hs, i) /\ edge[2] \in hs[i].return_states}

\* The transition relation of the generated loop: what the arm that matches, or
\* the timeout arm, may return.  NoEvent labels the moves of the timeout.
Transitions(hs) == {move \in State \X (Event \cup {NoEvent}) \X State :
    \E i \in DOMAIN hs :
        /\ move[3] \in hs[i].return_states
        /\ \/ move[2] \in Event /\ IsArm(hs, i, move[1], move[2])
           \/ /\ move[2] = NoEvent
              /\ IsTimeoutArm(hs, i)
              /\ move[1] \in StatesWithTimeout(hs)}

\* t can be reached from s: t lies in every set that contains s and is closed
\* under the edges.
Reaches(edges, s, t) ==
    \A C \in SUBSET State :
        s \in C /\ (\A e \in edges : e[1] \in C => e[2] \in C) => t \in C

OneTimeoutHandler(hs) ==
    \A i, j \in DOMAIN hs :
        hs[i].is_timeout_handler /\ hs[j].is_timeout_handler => i = j

TimeoutsAreHandled(hs) ==
    (\E i \in DOMAIN hs : hs[i].timeout # NoTimeout) => HasTimeoutHandler(hs)

TimeoutsAreConsistent(hs) ==
    \A i, j \in DOMAIN hs : \A s \in State :
        Arms(hs[i], s) /\ Arms(hs[j], s) => hs[i].timeout = hs[j].timeout

AllReachable(hs, initial) ==
    \A s \in States(hs, initial) : Reaches(Edges(hs), initial, s)

\* FsmStructure::validate returns Ok.
IsValid(hs, initial) ==
    /\ OneTimeoutHandler(hs)
    /\ TimeoutsAreHandled(hs)
    /\ TimeoutsAreConsistent(hs)
    /\ AllReachable(hs, initial)

IsDefinition(hs, initial) ==
    /\ hs \in Seq(Handler)
    /\ initial \in State
    /\ \A i \in DOMAIN hs : IsParsed(hs[i])
    /\ IsValid(hs, initial)
=============================================================================

------------------------- MODULE FsmDefinitionProofs -------------------------
(***************************************************************************)
(* Facts about the tables the code generator derives from a handler        *)
(* sequence: the arms it emits are the ones it needs, and, for a sequence  *)
(* the validator accepts, what the first handler says is what all say.     *)
(***************************************************************************)
EXTENDS FsmDefinition, TLAPS, WellFoundedInduction

Before == {p \in Nat \X Nat : p[1] < p[2]}

\* The least-number principle, as a set: the order of Nat is well founded.
LEMMA NonemptyHasLeast ==
    ASSUME NEW T \in SUBSET Nat, T # {}
    PROVE  \E x \in T : \A y \in T : x <= y
<1>1. IsWellFoundedOn(Before, Nat)
  BY NatLessThanWellFounded, SMT DEF OpToRel, Before
<1>2. PICK x \in T : \A y \in T : ~(<<y, x>> \in Before)
  BY <1>1, WFMin
<1>3. ASSUME NEW y \in T PROVE x <= y
  <2>1. <<y, x>> \notin Before
    BY <1>2
  <2>2. x \in Nat /\ y \in Nat
    OBVIOUS
  <2>3. y < x => <<y, x>> \in Before
    BY <2>2 DEF Before
  <2> QED BY <2>1, <2>2, <2>3
<1> QED BY <1>3

\* A nonempty set of handler positions has a first one: whatever property
\* selects the positions, the generator's scan in source order finds it.
LEMMA FirstPosition ==
    ASSUME NEW hs \in Seq(Handler), NEW T \in SUBSET DOMAIN hs, T # {}
    PROVE  \E i \in T : \A j \in 1..(i - 1) : j \notin T
<1>1. T \in SUBSET Nat
  OBVIOUS
<1>2. PICK i \in T : \A j \in T : i <= j
  BY <1>1, NonemptyHasLeast
<1>3. ASSUME NEW j \in 1..(i - 1) PROVE j \notin T
  BY <1>1, <1>2
<1> QED BY <1>3

\* Every state with a timeout has an arm in reset_timeout_for_current_state.
LEMMA FirstArmingExists ==
    ASSUME NEW hs \in Seq(Handler), NEW s \in StatesWithTimeout(hs)
    PROVE  \E i \in DOMAIN hs : IsFirstArming(hs, i, s)
<1> DEFINE T == {i \in DOMAIN hs : Arms(hs[i], s)}
<1>1. T \in SUBSET DOMAIN hs /\ T # {}
  BY DEF StatesWithTimeout
<1>2. PICK i \in T : \A j \in 1..(i - 1) : j \notin T
  BY <1>1, FirstPosition
<1>3. ASSUME NEW j \in 1..(i - 1) PROVE ~Arms(hs[j], s)
  <2>1. j \in DOMAIN hs
    OBVIOUS
  <2> QED BY <1>2, <2>1
<1> QED BY <1>2, <1>3 DEF IsFirstArming

LEMMA TimeoutOfArming ==
    ASSUME NEW hs \in Seq(Handler), NEW s \in StatesWithTimeout(hs)
    PROVE  \E i \in DOMAIN hs : IsFirstArming(hs, i, s) /\ TimeoutOf(hs, s) = hs[i].timeout
<1> DEFINE i == CHOOSE i \in DOMAIN hs : IsFirstArming(hs, i, s)
<1>1. i \in DOMAIN hs /\ IsFirstArming(hs, i, s)
  BY FirstArmingExists
<1>2. TimeoutOf(hs, s) = hs[i].timeout
  BY DEF TimeoutOf
<1> QED BY <1>1, <1>2

\* The sleep is armed for exactly the states with a timeout.
LEMMA TimeoutOfType ==
    ASSUME NEW hs \in Seq(Handler), NEW s \in State
    PROVE  /\ TimeoutOf(hs, s) \in Duration
           /\ s \in StatesWithTimeout(hs) <=> TimeoutOf(hs, s) # NoTimeout
<1>1. CASE s \in StatesWithTimeout(hs)
  <2>1. PICK i \in DOMAIN hs : IsFirstArming(hs, i, s) /\ TimeoutOf(hs, s) = hs[i].timeout
    BY <1>1, TimeoutOfArming
  <2>2. hs[i] \in Handler
    OBVIOUS
  <2>3. hs[i].timeout \in Duration /\ hs[i].timeout # NoTimeout
    BY <2>1, <2>2 DEF IsFirstArming, Arms, Handler
  <2> QED BY <1>1, <2>1, <2>3
<1>2. CASE s \notin StatesWithTimeout(hs)
  BY <1>2 DEF TimeoutOf, Duration
<1> QED BY <1>1, <1>2

\* In a definition the validator accepts the order of the methods does not
\* matter to the timers: every method that arms a state gives it the duration
\* the generated code uses.
THEOREM EveryArmingAgrees ==
    ASSUME NEW hs, NEW initial, IsDefinition(hs, initial),
           NEW s \in State, NEW i \in DOMAIN hs, Arms(hs[i], s)
    PROVE  TimeoutOf(hs, s) = hs[i].timeout
<1>1. hs \in Seq(Handler) /\ TimeoutsAreConsistent(hs)
  BY DEF IsDefinition, IsValid
<1>2. s \in StatesWithTimeout(hs)
  BY DEF StatesWithTimeout
<1>3. PICK j \in DOMAIN hs : IsFirstArming(hs, j, s) /\ TimeoutOf(hs, s) = hs[j].timeout
  BY <1>1, <1>2, TimeoutOfArming
<1>4. Arms(hs[j], s)
  BY <1>3 DEF IsFirstArming
<1> QED BY <1>1, <1>3, <1>4 DEF TimeoutsAreConsistent

\* A sleep that fires finds a handler to run: no state of an accepted definition
\* has a timeout and nothing to handle it.
THEOREM TimedStatesAreHandled ==
    ASSUME NEW hs, NEW initial, IsDefinition(hs, initial), StatesWithTimeout(hs) # {}
    PROVE  \E i \in DOMAIN hs : IsTimeoutArm(hs, i)
<1>1. hs \in Seq(Handler) /\ HasTimeoutHandler(hs)
  BY DEF IsDefinition, IsValid, TimeoutsAreHandled, StatesWithTimeout, Arms
<1> DEFINE T == {i \in DOMAIN hs : hs[i].is_timeout_handler}
<1>2. T \in SUBSET DOMAIN hs /\ T # {}
  BY <1>1 DEF HasTimeoutHandler
<1>3. PICK i \in T : \A j \in 1..(i - 1) : j \notin T
  BY <1>1, <1>2, FirstPosition
<1>4. ASSUME NEW j \in 1..(i - 1) PROVE ~hs[j].is_timeout_handler
  <2>1. j \in DOMAIN hs
    BY <1>1
  <2> QED BY <1>3, <2>1
<1> QED BY <1>3, <1>4 DEF IsTimeoutArm

-----------------------------------------------------------------------------
(* The graph the validator walks against the moves the loop can make.      *)

Taken(hs) == {edge \in State \X State :
    \E label \in Event \cup {NoEvent} : <<edge[1], label, edge[2]>> \in Transitions(hs)}

\* No two handlers declare the same event in the same state: every match arm
\* the macro emits can be taken.
ArmsAreDistinct(hs) ==
    \A i, j \in DOMAIN hs : \A s \in State, e \in Event :
        Matches(hs[i], s, e) /\ Matches(hs[j], s, e) => i = j

\* Everything the generated loop can do is an edge of the graph the macro
\* validated, for every definition it accepts.
THEOREM TransitionsAreEdges ==
    ASSUME NEW hs, NEW initial, IsDefinition(hs, initial)
    PROVE  Taken(hs) \subseteq Edges(hs)
<1> SUFFICES ASSUME NEW edge \in Taken(hs) PROVE edge \in Edges(hs)
  OBVIOUS
<1>1. edge \in State \X State
  BY DEF Taken
<1>2. PICK label \in Event \cup {NoEvent} : <<edge[1], label, edge[2]>> \in Transitions(hs)
  BY DEF Taken
<1>3. PICK i \in DOMAIN hs :
        /\ edge[2] \in hs[i].return_states
        /\ \/ label \in Event /\ IsArm(hs, i, edge[1], label)
           \/ IsTimeoutArm(hs, i) /\ edge[1] \in StatesWithTimeout(hs)
  BY <1>2 DEF Transitions
<1>4. edge[1] \in Sources(hs, i)
  <2>1. CASE label \in Event /\ IsArm(hs, i, edge[1], label)
    <3>1. hs[i].event = label /\ edge[1] \in hs[i].source_states /\ hs[i].event # NoEvent
      BY <2>1, NoEventAssumption DEF IsArm, Matches
    <3>2. ~hs[i].is_timeout_handler
      BY <3>1 DEF IsDefinition, IsParsed
    <3> QED BY <3>1, <3>2 DEF Sources
  <2>2. CASE IsTimeoutArm(hs, i) /\ edge[1] \in StatesWithTimeout(hs)
    BY <2>2 DEF IsTimeoutArm, Sources
  <2> QED BY <1>3, <2>1, <2>2
<1> QED BY <1>1, <1>3, <1>4 DEF Edges

LEMMA EdgesAreTransitions ==
    ASSUME NEW hs, NEW initial, IsDefinition(hs, initial), ArmsAreDistinct(hs)
    PROVE  Edges(hs) \subseteq Taken(hs)
<1> SUFFICES ASSUME NEW edge \in Edges(hs) PROVE edge \in Taken(hs)
  OBVIOUS
<1>1. edge \in State \X State
  BY DEF Edges
<1>2. PICK i \in DOMAIN hs : edge[1] \in Sources(hs, i) /\ edge[2] \in hs[i].return_states
  BY DEF Edges
<1>3. IsParsed(hs[i]) /\ hs \in Seq(Handler)
  BY DEF IsDefinition
<1>4. CASE hs[i].is_timeout_handler
  <2>1. edge[1] \in StatesWithTimeout(hs)
    BY <1>2, <1>4 DEF Sources
  <2>2. ASSUME NEW j \in 1..(i - 1) PROVE ~hs[j].is_timeout_handler
    <3>1. j \in DOMAIN hs /\ j # i
      BY <1>3
    <3> QED BY <1>4, <3>1 DEF IsDefinition, IsValid, OneTimeoutHandler
  <2>3. IsTimeoutArm(hs, i)
    BY <1>4, <2>2 DEF IsTimeoutArm
  <2>4. <<edge[1], NoEvent, edge[2]>> \in Transitions(hs)
    BY <1>1, <1>2, <2>1, <2>3 DEF Transitions
  <2> QED BY <1>1, <2>4 DEF Taken
<1>5. CASE ~hs[i].is_timeout_handler
  <2> DEFINE e == hs[i].event
  <2>1. edge[1] \in hs[i].source_states
    BY <1>2, <1>5 DEF Sources
  <2>2. e \in Event
    BY <1>3, <2>1 DEF IsParsed, Handler
  <2>3. Matches(hs[i], edge[1], e)
    BY <2>1 DEF Matches
  <2>4. ASSUME NEW j \in 1..(i - 1) PROVE ~Matches(hs[j], edge[1], e)
    <3>1. j \in DOMAIN hs /\ j # i
      BY <1>3
    <3> QED BY <1>1, <2>2, <2>3, <3>1 DEF ArmsAreDistinct
  <2>5. IsArm(hs, i, edge[1], e)
    BY <2>3, <2>4 DEF IsArm
  <2>6. <<edge[1], e, edge[2]>> \in Transitions(hs)
    BY <1>1, <1>2, <2>2, <2>5 DEF Transitions
  <2> QED BY <1>1, <2>2, <2>6 DEF Taken
<1> QED BY <1>4, <1>5

\* In an accepted definition without shadowed arms every state is reached by a
\* sequence of events and timeouts.
THEOREM DistinctArmsReachAll ==
    ASSUME NEW hs, NEW initial, IsDefinition(hs, initial), ArmsAreDistinct(hs),
           NEW s \in States(hs, initial)
    PROVE  Reaches(Taken(hs), initial, s)
<1>1. Taken(hs) = Edges(hs)
  BY TransitionsAreEdges, EdgesAreTransitions
<1>2. Reaches(Edges(hs), initial, s)
  BY DEF IsDefinition, IsValid, AllReachable
<1> QED BY <1>1, <1>2
=============================================================================

--------------------------- MODULE FsmValidation ---------------------------
(***************************************************************************)
(* The compile-time half: how the #[fsm] macro turns the methods of an     *)
(* impl block into handlers, and the procedure that accepts or rejects     *)
(* them.  One step per attribute of a method, per check of validate() and  *)
(* per node of its depth-first search.  FsmDefinition says what the        *)
(* verdict should be; here is the code that reaches it.                    *)
(*                                                                         *)
(* An impl block is what the macro is given:                               *)
(*   channel_size  the argument of #[fsm(...)], Unset without one          *)
(*   self_ty       what it is an impl of: a type path, or something else   *)
(*   types         the names of its associated types                       *)
(*   methods       its methods, in source order                            *)
(*                                                                         *)
(* A method is what the macro looks at:                                    *)
(*   is_async   it is an async fn                                          *)
(*   attrs      those of its attributes that are the macro's, in order     *)
(*   payload    the type of its payload argument, "none" without one       *)
(*   output     its return type, by the name of the outermost type and the *)
(*              type arguments: a state S stands for the type of that name *)
(*              under Transition and for Transition<S> under Result        *)
(***************************************************************************)
EXTENDS FsmDefinition, FiniteSets, SequencesExt

CONSTANTS
    InitialState,   \* #[fsm(initial = ...)]
    ImplBlock       \* the impl blocks considered

On(s, e) == [kind |-> "on", state |-> s, event |-> e]
OnTimeout == [kind |-> "on_timeout"]
StateTimeout(d) == [kind |-> "state_timeout", duration |-> d]
\* An #[on] or a #[state_timeout] with arguments it does not take; those of an
\* #[on_timeout] are never read.
Malformed == [kind |-> "malformed"]

BadDuration == -2   \* a duration string humantime does not parse
Unset == -1         \* no channel_size argument: FsmArgs has 100

Attribute ==
    [kind: {"on"}, state: State, event: Event]
        \cup [kind: {"on_timeout"}]
        \cup [kind: {"state_timeout"}, duration: Nat \cup {BadDuration}]
        \cup [kind: {"malformed"}]

IsMethod(m) ==
    /\ m.is_async \in BOOLEAN
    /\ m.attrs \in Seq(Attribute)
    /\ m.output.args \in Seq(ToSet(m.output.args))

ASSUME StateAssumption == IsFiniteSet(State)
ASSUME InitialStateAssumption == InitialState \in State
ASSUME ImplBlockAssumption ==
    \A b \in ImplBlock :
        /\ b.channel_size \in Nat \cup {Unset}
        /\ b.methods \in Seq(ToSet(b.methods))
        /\ \A m \in ToSet(b.methods) : IsMethod(m)

VARIABLES
    block,      \* the impl block
    phase,      \* what is done next, or the verdict
    handlers,   \* the handlers parsed so far
    payloads,   \* the payload type of each event seen: a set of <<event, type>>
    looked,     \* how many attributes of the current method have been looked at
    parsed,     \* what they say: the local variables of Handler::parse
    stack,      \* the stack of the depth-first search
    discovered, \* the nodes it has visited
    error       \* the error reported, "none" so far

structure == <<block, handlers, payloads>>
locals == <<looked, parsed>>
search == <<stack, discovered>>
vars == <<structure, locals, search, phase, error>>

-----------------------------------------------------------------------------
NoAttrs == [event |-> NoEvent, source_states |-> {}, is_timeout_handler |-> FALSE,
            timeout |-> NoTimeout]

Init ==
    /\ block \in ImplBlock
    /\ phase = "args"
    /\ handlers = <<>>
    /\ payloads = {}
    /\ looked = 0
    /\ parsed = NoAttrs
    /\ stack = <<>>
    /\ discovered = {}
    /\ error = "none"

Reject(e) ==
    /\ phase' = "rejected"
    /\ error' = e
    /\ UNCHANGED <<structure, locals, search>>

Enter(next) ==
    /\ phase' = next
    /\ UNCHANGED <<structure, locals, search, error>>

channel_size == IF block.channel_size = Unset THEN 100 ELSE block.channel_size

\* FsmArgs::from_list.
CheckArgs ==
    /\ phase = "args"
    /\ IF channel_size = 0 THEN Reject("ChannelSize") ELSE Enter("types")

\* The machine's name and the associated types, before any method is looked at.
CheckTypes ==
    /\ phase = "types"
    /\ IF block.self_ty # "path" THEN Reject("NoTypePath")
       ELSE IF "Context" \notin block.types THEN Reject("MissingContext")
       ELSE IF "Error" \notin block.types THEN Reject("MissingError")
       ELSE Enter("parse")

methods == block.methods
NextMethod == methods[Len(handlers) + 1]

-----------------------------------------------------------------------------
(* Handler::parse, for one method: the first error ends it.                *)

ParseBegins ==
    /\ phase = "parse"
    /\ Len(handlers) < Len(methods)
    /\ IF ~NextMethod.is_async THEN Reject("NotAsync")
       ELSE /\ phase' = "attrs"
            /\ looked' = 0
            /\ parsed' = NoAttrs
            /\ UNCHANGED <<structure, search, error>>

NextAttr == NextMethod.attrs[looked + 1]

IsNextAttr(kind) ==
    /\ phase = "attrs"
    /\ looked < Len(NextMethod.attrs)
    /\ NextAttr.kind = kind

Record(now) ==
    /\ looked' = looked + 1
    /\ parsed' = now
    /\ UNCHANGED <<structure, search, phase, error>>

\* One #[on(state, event)]: the source is new to the method, the event is not.
ParseOn ==
    /\ IsNextAttr("on")
    /\ IF NextAttr.state \in parsed.source_states THEN Reject("DuplicateSource")
       ELSE IF parsed.event \notin {NoEvent, NextAttr.event} THEN Reject("MixedEvents")
       ELSE Record([parsed EXCEPT !.event = NextAttr.event,
                                  !.source_states = @ \cup {NextAttr.state}])

ParseOnTimeout ==
    /\ IsNextAttr("on_timeout")
    /\ Record([parsed EXCEPT !.is_timeout_handler = TRUE])

\* A later #[state_timeout] replaces an earlier one.
ParseStateTimeout ==
    /\ IsNextAttr("state_timeout")
    /\ Record([parsed EXCEPT !.timeout = NextAttr.duration])

ParseMalformed == IsNextAttr("malformed") /\ Reject("MalformedAttribute")

\* Transition<S>, Result<Transition<S>, Transition<T>> and
\* Result<Transition<S>, E> are the return types of a handler.
IsTransition(out) == out.name = "Transition" /\ Len(out.args) = 1 /\ out.args[1] \in State
IsResult(out) == out.name = "Result" /\ Len(out.args) = 2 /\ out.args[1] \in State

ReturnStates(out) == ToSet(out.args) \cap State

ReturnKind(out) ==
    IF out.name = "Transition" THEN "Transition"
    ELSE IF ToSet(out.args) \subseteq State THEN "ResultTransition" ELSE "ResultError"

IsHandlerParsed == parsed.event # NoEvent \/ parsed.is_timeout_handler

ParsedHandler ==
    [event |-> parsed.event,
     is_timeout_handler |-> parsed.is_timeout_handler,
     source_states |-> parsed.source_states,
     return_states |-> IF IsHandlerParsed THEN ReturnStates(NextMethod.output) ELSE {},
     return_kind |-> IF IsHandlerParsed THEN ReturnKind(NextMethod.output) ELSE "none",
     timeout |-> parsed.timeout]

PayloadMismatch == \E q \in payloads : q[1] = parsed.event /\ q[2] # NextMethod.payload

MethodError ==
    IF parsed.timeout = BadDuration THEN "InvalidDuration"
    ELSE IF IsHandlerParsed /\ ~IsTransition(NextMethod.output) /\ ~IsResult(NextMethod.output)
         THEN "ReturnType"
    ELSE IF parsed.event # NoEvent /\ parsed.is_timeout_handler THEN "OnAndOnTimeout"
    ELSE IF PayloadMismatch THEN "PayloadMismatch"
    ELSE "none"

\* After the attributes: the rest of Handler::parse, the payload compared with
\* that of earlier handlers of the event, and the handler added.
ParseEnds ==
    /\ phase = "attrs"
    /\ looked = Len(NextMethod.attrs)
    /\ IF MethodError # "none" THEN Reject(MethodError)
       ELSE /\ phase' = "parse"
            /\ handlers' = Append(handlers, ParsedHandler)
            /\ payloads' = IF parsed.event = NoEvent THEN payloads
                           ELSE payloads \cup {<<parsed.event, NextMethod.payload>>}
            /\ UNCHANGED <<block, locals, search, error>>

AllParsed ==
    /\ phase = "parse"
    /\ Len(handlers) = Len(methods)
    /\ Enter("contract")

-----------------------------------------------------------------------------
(* FsmStructure::validate.                                                 *)

TimeoutHandlers == {i \in DOMAIN handlers : handlers[i].is_timeout_handler}

\* Mutant: one #[on_timeout] handler is one too many.
CheckContract_OffByOne ==
    /\ phase = "contract"
    /\ IF TimeoutHandlers # {} THEN Reject("MultipleTimeoutHandlers") ELSE Enter("consistency")

\* validate_timeout_contract, then identify_states_with_timeout.
CheckContract ==
    /\ phase = "contract"
    /\ IF Cardinality(TimeoutHandlers) > 1
       THEN Reject("MultipleTimeoutHandlers")
       ELSE IF TimeoutHandlers = {} /\ \E i \in DOMAIN handlers :
                                                   handlers[i].timeout # NoTimeout
       THEN Reject("TimeoutWithoutHandler")
       ELSE Enter("consistency")

\* The map of validate_state_timeout_consistency: the duration the methods
\* before i give to s, the first of them deciding, for a method i that arms s.
Existing(i, s) == TimeoutOf(SubSeq(handlers, 1, i - 1), s)

\* Mutant: a method is compared with the one just before it.
Conflict_Neighbours(i, s) ==
    /\ i > 1
    /\ Arms(handlers[i], s)
    /\ Arms(handlers[i - 1], s)
    /\ handlers[i - 1].timeout # handlers[i].timeout

Conflict(i, s) ==
    Arms(handlers[i], s) /\ Existing(i, s) \notin {NoTimeout, handlers[i].timeout}

CheckConsistency ==
    /\ phase = "consistency"
    /\ IF \E i \in DOMAIN handlers : \E s \in State : Conflict(i, s)
       THEN Reject("ConflictingTimeouts")
       ELSE /\ phase' = "search"
            /\ stack' = <<InitialState>>
            /\ UNCHANGED <<structure, locals, discovered, error>>

\* Mutant: a timeout handler has no source states, so its edges are left out.
Successors_NoTimeouts(s) ==
    {t \in State : \E i \in DOMAIN handlers :
        s \in handlers[i].source_states /\ t \in handlers[i].return_states}

Successors(s) == {t \in State : <<s, t>> \in Edges(handlers)}

\* Mutant: the node is looked at and left on the stack.
SearchVisit_Peeks ==
    /\ phase = "search"
    /\ stack # <<>>
    /\ stack' = stack \o SetToSeq(Successors(Last(stack)) \ (discovered \cup {Last(stack)}))
    /\ discovered' = discovered \cup {Last(stack)}
    /\ UNCHANGED <<structure, locals, phase, error>>

\* Mutant: a node that was visited before is visited again.
SearchVisit_Again ==
    /\ phase = "search"
    /\ stack # <<>>
    /\ stack' = Front(stack) \o SetToSeq(Successors(Last(stack)))
    /\ discovered' = discovered \cup {Last(stack)}
    /\ UNCHANGED <<structure, locals, phase, error>>

\* Dfs::next: pop until a node that has not been visited, visit it, push its
\* successors that have not.  (Their order is petgraph's: here, any fixed one.)
SearchVisit ==
    /\ phase = "search"
    /\ stack # <<>>
    /\ LET node == Last(stack)
           fresh == IF node \in discovered THEN {}
                    ELSE Successors(node) \ (discovered \cup {node})
       IN  /\ stack' = Front(stack) \o SetToSeq(fresh)
           /\ discovered' = discovered \cup {node}
    /\ UNCHANGED <<structure, locals, phase, error>>

SearchEnds ==
    /\ phase = "search"
    /\ stack = <<>>
    /\ IF States(handlers, InitialState) \subseteq discovered
       THEN Enter("accepted")
       ELSE Reject("Unreachable")

Next ==
    \/ CheckArgs \/ CheckTypes
    \/ ParseBegins \/ ParseOn \/ ParseOnTimeout \/ ParseStateTimeout \/ ParseMalformed
    \/ ParseEnds \/ AllParsed
    \/ CheckContract \/ CheckConsistency
    \/ SearchVisit \/ SearchEnds

Spec == Init /\ [][Next]_vars

FairSpec == Spec /\ WF_vars(Next)

-----------------------------------------------------------------------------
(* The reference: what a well-formed method is, whatever the order of its  *)
(* attributes and of the checks.                                           *)

OnAttrs(m) == {i \in DOMAIN m.attrs : m.attrs[i].kind = "on"}
HasAttr(m, kind) == \E i \in DOMAIN m.attrs : m.attrs[i].kind = kind
IsHandler(m) == HasAttr(m, "on") \/ HasAttr(m, "on_timeout")

\* A repeated #[state_timeout] counts where it comes last.
DeclaredTimeout(m) ==
    IF ~HasAttr(m, "state_timeout") THEN NoTimeout
    ELSE LET last == CHOOSE i \in DOMAIN m.attrs :
                        /\ m.attrs[i].kind = "state_timeout"
                        /\ \A j \in DOMAIN m.attrs : j > i => m.attrs[j].kind # "state_timeout"
         IN  m.attrs[last].duration

WellFormed(m) ==
    /\ m.is_async
    /\ \A i, j \in OnAttrs(m) : i # j => /\ m.attrs[i].state # m.attrs[j].state
                                         /\ m.attrs[i].event = m.attrs[j].event
    /\ ~HasAttr(m, "malformed")
    /\ DeclaredTimeout(m) # BadDuration
    /\ ~(HasAttr(m, "on") /\ HasAttr(m, "on_timeout"))
    /\ IsHandler(m) => IsTransition(m.output) \/ IsResult(m.output)

\* The handler a well-formed method declares.
HandlerOf(m) ==
    [event |-> IF HasAttr(m, "on") THEN m.attrs[CHOOSE i \in OnAttrs(m) : TRUE].event ELSE NoEvent,
     is_timeout_handler |-> HasAttr(m, "on_timeout"),
     source_states |-> {m.attrs[i].state : i \in OnAttrs(m)},
     return_states |-> {s \in State : IsHandler(m) /\ s \in ToSet(m.output.args)},
     return_kind |-> IF IsHandler(m) THEN ReturnKind(m.output) ELSE "none",
     timeout |-> DeclaredTimeout(m)]

HandlersOf(ms) == [i \in DOMAIN ms |-> HandlerOf(ms[i])]

\* Two methods that handle one event take the same payload.
SamePayload(m, n) ==
    (\E i \in OnAttrs(m) : \E j \in OnAttrs(n) : m.attrs[i].event = n.attrs[j].event)
        => m.payload = n.payload

WellFormedBlock ==
    /\ block.channel_size \in {Unset} \cup (Nat \ {0})
    /\ block.self_ty = "path"
    /\ {"Context", "Error"} \subseteq block.types
    /\ \A i \in DOMAIN methods : WellFormed(methods[i])
    /\ \A i, j \in DOMAIN methods : SamePayload(methods[i], methods[j])

-----------------------------------------------------------------------------
\* What the macro accepts is a definition the generated code can rely on, made
\* of the handlers the impl block declares: every handler has one event or is
\* the one timeout handler, every timeout can be handled, no state has two
\* durations, every state is on a path of the graph from the first, and the
\* channel has room for an event (tokio's mpsc::channel panics on 0).
AcceptedIsDefinition ==
    phase = "accepted" =>
        /\ WellFormedBlock
        /\ channel_size > 0
        /\ handlers = HandlersOf(methods)
        /\ IsDefinition(handlers, InitialState)

\* And nothing else is rejected: an error is never reported for an impl block
\* that is well formed and whose handlers are valid.
RejectedIsInvalid ==
    phase = "rejected" =>
        ~(WellFormedBlock /\ IsValid(HandlersOf(methods), InitialState))

\* validate() by itself, on whatever handlers the parser gives it: it returns Ok
\* when they are valid and an error when they are not.  Its map of durations,
\* filled method by method, finds every conflict and no other; its search visits
\* every reachable state and no other.
VerdictIsRight ==
    [][/\ phase # "accepted" /\ phase' = "accepted" => IsValid(handlers, InitialState)
       /\ phase \in {"contract", "consistency", "search"} /\ phase' = "rejected"
            => ~IsValid(handlers, InitialState)]_vars

\* What the macro has left to do: the phases to come, the methods, whether the
\* next one has been begun, its attributes, the nodes not visited and the stack.
Rank(p) ==
    CASE p = "args" -> 6 [] p = "types" -> 5 [] p \in {"parse", "attrs"} -> 4
      [] p = "contract" -> 3 [] p = "consistency" -> 2 [] p = "search" -> 1
      [] OTHER -> 0

Remaining ==
    <<Rank(phase),
      Len(methods) - Len(handlers),
      IF phase = "attrs" THEN 0 ELSE 1,
      IF phase = "attrs" THEN Len(NextMethod.attrs) - looked ELSE 0,
      Cardinality(State \ discovered),
      Len(stack)>>

Precedes(a, b) ==
    \E i \in 1..6 : a[i] < b[i] /\ \A j \in 1..(i - 1) : a[j] = b[j]

\* No step is for nothing: each leaves less to do, in the lexicographic order of
\* six numbers that never fall below zero, so that no impl block, however many
\* cycles its graph has, keeps the compiler busy for ever.
EveryStepProgresses ==
    [][/\ Precedes(Remaining', Remaining)
       /\ \A i \in 1..6 : Remaining'[i] >= 0]_vars

\* The macro always comes to a verdict: the search ends on cyclic graphs too.
VerdictIsReached == <>(phase \in {"accepted", "rejected"})

\* "If a state has no path from q0, compilation fails"
\* (examples/validation_comparison/README.md), a path being a sequence of events:
\* along the arms that can be taken, an event's first arm in a state.
RuntimeEdges ==
    {edge \in State \X State :
        \E label \in Event \cup {NoEvent} : <<edge[1], label, edge[2]>> \in Transitions(handlers)}

AcceptedStatesAreReachable ==
    phase = "accepted" =>
        \A s \in States(handlers, InitialState) : Reaches(RuntimeEdges, InitialState, s)
=============================================================================

-------------------------- MODULE FsmParserProofs --------------------------
(***************************************************************************)
(* What the macro makes of an impl block, for every set of identifiers and *)
(* every impl block: the handlers it hands to validate() are those the     *)
(* methods declare, so that what it accepts is a definition and what it    *)
(* rejects is not one.                                                     *)
(***************************************************************************)
EXTENDS FsmValidationProofs

-----------------------------------------------------------------------------
(* The loop of Handler::parse over the attributes of a method.             *)

LEMMA AttributeFields ==
    ASSUME NEW a \in Attribute
    PROVE  /\ a.kind \in {"on", "on_timeout", "state_timeout", "malformed"}
           /\ a.kind = "on" => a.state \in State /\ a.event \in Event
           /\ a.kind = "state_timeout" => a.duration \in Nat \cup {BadDuration}
  BY DEF Attribute

Locals == [event: Event \cup {NoEvent}, source_states: SUBSET State,
           is_timeout_handler: BOOLEAN, timeout: Nat \cup {NoTimeout, BadDuration}]

OnIn(attrs, k) == {i \in 1..k : attrs[i].kind = "on"}

\* t is the duration of the last #[state_timeout] among the first k attributes.
TimeoutRead(attrs, k, t) ==
    \/ t = NoTimeout /\ \A i \in 1..k : attrs[i].kind # "state_timeout"
    \/ \E l \in 1..k : /\ attrs[l].kind = "state_timeout"
                       /\ t = attrs[l].duration
                       /\ \A j \in (l + 1)..k : attrs[j].kind # "state_timeout"

\* What the locals p hold once the first k of the attributes attrs are read.
ReadSoFar(attrs, k, p) ==
    /\ p \in Locals
    /\ \A i \in 1..k : attrs[i].kind # "malformed"
    /\ \A i, j \in OnIn(attrs, k) : i # j => attrs[i].state # attrs[j].state
    /\ \A i \in OnIn(attrs, k) : attrs[i].event = p.event
    /\ OnIn(attrs, k) = {} => p.event = NoEvent
    /\ p.source_states = {attrs[i].state : i \in OnIn(attrs, k)}
    /\ p.is_timeout_handler <=> \E i \in 1..k : attrs[i].kind = "on_timeout"
    /\ TimeoutRead(attrs, k, p.timeout)

LEMMA NothingRead == ASSUME NEW attrs PROVE ReadSoFar(attrs, 0, NoAttrs)
<1>1. 1..0 = {}
  OBVIOUS
<1>2. NoAttrs \in Locals
  BY DEF NoAttrs, Locals
<1>3. OnIn(attrs, 0) = {}
  BY <1>1 DEF OnIn
<1> QED BY <1>1, <1>2, <1>3 DEF ReadSoFar, NoAttrs, TimeoutRead

LEMMA AttributeAt ==
    ASSUME NEW attrs \in Seq(Attribute), NEW i \in 1..Len(attrs)
    PROVE  attrs[i] \in Attribute
  OBVIOUS

LEMMA TimeoutKept ==
    ASSUME NEW attrs, NEW k \in Nat, NEW t, TimeoutRead(attrs, k, t), attrs[k + 1].kind # "state_timeout"
    PROVE  TimeoutRead(attrs, k + 1, t)
<1>1. CASE t = NoTimeout /\ \A i \in 1..k : attrs[i].kind # "state_timeout"
  <2>1. \A i \in 1..(k + 1) : i \in 1..k \/ i = k + 1
    OBVIOUS
  <2> QED BY <1>1, <2>1 DEF TimeoutRead
<1>2. ASSUME NEW l \in 1..k, attrs[l].kind = "state_timeout", t = attrs[l].duration,
             \A j \in (l + 1)..k : attrs[j].kind # "state_timeout"
      PROVE  TimeoutRead(attrs, k + 1, t)
  <2>1. \A j \in (l + 1)..(k + 1) : j \in (l + 1)..k \/ j = k + 1
    OBVIOUS
  <2>2. \A j \in (l + 1)..(k + 1) : attrs[j].kind # "state_timeout"
    BY <1>2, <2>1
  <2>3. l \in 1..(k + 1)
    OBVIOUS
  <2> QED BY <1>2, <2>2, <2>3 DEF TimeoutRead
<1> QED BY <1>1, <1>2 DEF TimeoutRead

LEMMA ReadOn ==
    ASSUME NEW attrs \in Seq(Attribute), NEW k \in Nat, k < Len(attrs), NEW p, ReadSoFar(attrs, k, p),
           attrs[k + 1].kind = "on", attrs[k + 1].state \notin p.source_states,
           p.event \in {NoEvent, attrs[k + 1].event}
    PROVE  ReadSoFar(attrs, k + 1, [p EXCEPT !.event = attrs[k + 1].event,
                                          !.source_states = @ \cup {attrs[k + 1].state}])
<1> DEFINE a == attrs[k + 1]
           q == [p EXCEPT !.event = a.event, !.source_states = @ \cup {a.state}]
<1>1. a \in Attribute /\ a.state \in State /\ a.event \in Event
  <2>1. k + 1 \in 1..Len(attrs)
    OBVIOUS
  <2>2. a \in Attribute
    BY <2>1, AttributeAt
  <2> QED BY <2>2, AttributeFields
<1>2. /\ q \in Locals
      /\ q.event = a.event /\ q.source_states = p.source_states \cup {a.state}
      /\ q.is_timeout_handler = p.is_timeout_handler /\ q.timeout = p.timeout
  BY <1>1 DEF ReadSoFar, Locals
<1>3. 1..(k + 1) = 1..k \cup {k + 1} /\ k + 1 \notin 1..k
  OBVIOUS
<1>4. OnIn(attrs, k + 1) = OnIn(attrs, k) \cup {k + 1} /\ k + 1 \notin OnIn(attrs, k)
  BY <1>3 DEF OnIn
<1> HIDE DEF q
<1>5. \A i \in OnIn(attrs, k) : attrs[i].event = a.event
  <2> SUFFICES ASSUME NEW i \in OnIn(attrs, k) PROVE attrs[i].event = a.event
    OBVIOUS
  <2>1. attrs[i] \in Attribute /\ attrs[i].kind = "on"
    <3>1. i \in 1..Len(attrs) /\ attrs[i].kind = "on"
      BY DEF OnIn
    <3> QED BY <3>1, AttributeAt
  <2>2. attrs[i].event = p.event /\ attrs[i].event \in Event
    BY <2>1, AttributeFields DEF ReadSoFar
  <2> QED BY <2>2, NoEventAssumption
<1>6. \A i \in OnIn(attrs, k) : attrs[i].state # a.state
  BY DEF ReadSoFar
<1>7. \A i, j \in OnIn(attrs, k + 1) : i # j => attrs[i].state # attrs[j].state
  BY <1>4, <1>6 DEF ReadSoFar
<1>8. \A i \in OnIn(attrs, k + 1) : attrs[i].event = q.event
  BY <1>2, <1>4, <1>5
<1>9. q.source_states = {attrs[i].state : i \in OnIn(attrs, k + 1)}
  <2>1. p.source_states = {attrs[i].state : i \in OnIn(attrs, k)}
    BY DEF ReadSoFar
  <2> QED BY <1>2, <1>4, <2>1
<1>10. q.is_timeout_handler <=> \E i \in 1..(k + 1) : attrs[i].kind = "on_timeout"
  BY <1>2, <1>3 DEF ReadSoFar
<1>11. TimeoutRead(attrs, k + 1, q.timeout)
  BY <1>2, TimeoutKept DEF ReadSoFar
<1>12. \A i \in 1..(k + 1) : attrs[i].kind # "malformed"
  BY <1>3 DEF ReadSoFar
<1> QED BY <1>2, <1>4, <1>7, <1>8, <1>9, <1>10, <1>11, <1>12 DEF ReadSoFar, q

LEMMA ReadOnTimeout ==
    ASSUME NEW attrs \in Seq(Attribute), NEW k \in Nat, k < Len(attrs), NEW p, ReadSoFar(attrs, k, p),
           attrs[k + 1].kind = "on_timeout"
    PROVE  ReadSoFar(attrs, k + 1, [p EXCEPT !.is_timeout_handler = TRUE])
<1> DEFINE q == [p EXCEPT !.is_timeout_handler = TRUE]
<1>1. /\ q \in Locals
      /\ q.event = p.event /\ q.source_states = p.source_states
      /\ q.is_timeout_handler = TRUE /\ q.timeout = p.timeout
  BY DEF ReadSoFar, Locals
<1>2. 1..(k + 1) = 1..k \cup {k + 1}
  OBVIOUS
<1>3. OnIn(attrs, k + 1) = OnIn(attrs, k)
  BY <1>2 DEF OnIn
<1> HIDE DEF q
<1>4. TimeoutRead(attrs, k + 1, q.timeout)
  BY <1>1, TimeoutKept DEF ReadSoFar
<1>5. \A i \in 1..(k + 1) : attrs[i].kind # "malformed"
  BY <1>2 DEF ReadSoFar
<1>6. \E i \in 1..(k + 1) : attrs[i].kind = "on_timeout"
  BY <1>2
<1> QED BY <1>1, <1>3, <1>4, <1>5, <1>6 DEF ReadSoFar, q

LEMMA ReadStateTimeout ==
    ASSUME NEW attrs \in Seq(Attribute), NEW k \in Nat, k < Len(attrs), NEW p, ReadSoFar(attrs, k, p),
           attrs[k + 1].kind = "state_timeout"
    PROVE  ReadSoFar(attrs, k + 1, [p EXCEPT !.timeout = attrs[k + 1].duration])
<1> DEFINE q == [p EXCEPT !.timeout = attrs[k + 1].duration]
<1>1. attrs[k + 1].duration \in Nat \cup {BadDuration}
  <2>1. k + 1 \in 1..Len(attrs)
    OBVIOUS
  <2>2. attrs[k + 1] \in Attribute
    BY <2>1, AttributeAt
  <2> QED BY <2>2, AttributeFields
<1>2. /\ q \in Locals
      /\ q.event = p.event /\ q.source_states = p.source_states
      /\ q.is_timeout_handler = p.is_timeout_handler /\ q.timeout = attrs[k + 1].duration
  BY <1>1 DEF ReadSoFar, Locals
<1>3. 1..(k + 1) = 1..k \cup {k + 1}
  OBVIOUS
<1>4. OnIn(attrs, k + 1) = OnIn(attrs, k)
  BY <1>3 DEF OnIn
<1> HIDE DEF q
<1>5. TimeoutRead(attrs, k + 1, q.timeout)
  <2>1. k + 1 \in 1..(k + 1) /\ (k + 1 + 1)..(k + 1) = {}
    OBVIOUS
  <2> QED BY <1>2, <2>1 DEF TimeoutRead
<1>6. \A i \in 1..(k + 1) : attrs[i].kind # "malformed"
  BY <1>3 DEF ReadSoFar
<1>7. q.is_timeout_handler <=> \E i \in 1..(k + 1) : attrs[i].kind = "on_timeout"
  BY <1>2, <1>3 DEF ReadSoFar
<1> QED BY <1>2, <1>4, <1>5, <1>6, <1>7 DEF ReadSoFar, q

-----------------------------------------------------------------------------
(* The method once its attributes are read.                                *)

\* The last #[state_timeout] is the one that counts.
LEMMA TimeoutDeclared ==
    ASSUME NEW m, IsMethod(m), NEW t, TimeoutRead(m.attrs, Len(m.attrs), t)
    PROVE  DeclaredTimeout(m) = t
<1> DEFINE attrs == m.attrs
           n == Len(attrs)
           IsLast(i) == /\ attrs[i].kind = "state_timeout"
                        /\ \A j \in DOMAIN attrs : j > i => attrs[j].kind # "state_timeout"
<1>1. attrs \in Seq(Attribute) /\ n \in Nat /\ DOMAIN attrs = 1..n
  BY DEF IsMethod
<1>2. CASE t = NoTimeout /\ \A i \in 1..n : attrs[i].kind # "state_timeout"
  BY <1>1, <1>2 DEF DeclaredTimeout, HasAttr
<1>3. ASSUME NEW l \in 1..n, attrs[l].kind = "state_timeout", t = attrs[l].duration,
             \A j \in (l + 1)..n : attrs[j].kind # "state_timeout"
      PROVE  DeclaredTimeout(m) = t
  <2>1. \A j \in DOMAIN attrs : j > l => j \in (l + 1)..n
    BY <1>1
  <2>2. l \in DOMAIN attrs /\ IsLast(l)
    BY <1>1, <1>3, <2>1
  <2> DEFINE last == CHOOSE i \in DOMAIN attrs : IsLast(i)
  <2>3. last \in DOMAIN attrs /\ IsLast(last)
    BY <2>2, Zenon
  <2>4. DeclaredTimeout(m) = attrs[last].duration
    BY <1>1, <1>3 DEF DeclaredTimeout, HasAttr
  <2> HIDE DEF last
  <2>5. last = l
    <3>1. ~(last > l) /\ ~(l > last)
      BY <2>2, <2>3
    <3> QED BY <1>1, <2>3, <3>1
  <2> QED BY <1>3, <2>4, <2>5
<1> HIDE DEF attrs, n
<1>4. TimeoutRead(attrs, n, t)
  BY DEF attrs, n
<1> QED BY <1>2, <1>3, <1>4 DEF TimeoutRead

\* The attributes say what the locals hold.
AttrsRead(m, p) ==
    /\ p \in Locals
    /\ \A i, j \in OnAttrs(m) : i # j => /\ m.attrs[i].state # m.attrs[j].state
                                         /\ m.attrs[i].event = m.attrs[j].event
    /\ \A i \in OnAttrs(m) : m.attrs[i].event = p.event
    /\ OnAttrs(m) = {} <=> p.event = NoEvent
    /\ p.source_states = {m.attrs[i].state : i \in OnAttrs(m)}
    /\ HasAttr(m, "on") <=> p.event # NoEvent
    /\ HasAttr(m, "on_timeout") <=> p.is_timeout_handler
    /\ ~HasAttr(m, "malformed")
    /\ DeclaredTimeout(m) = p.timeout

LEMMA AllRead ==
    ASSUME NEW m, IsMethod(m), NEW p, ReadSoFar(m.attrs, Len(m.attrs), p)
    PROVE  AttrsRead(m, p)
<1> DEFINE attrs == m.attrs
           n == Len(attrs)
<1>1. attrs \in Seq(Attribute) /\ n \in Nat /\ DOMAIN attrs = 1..n
  BY DEF IsMethod
<1>2. OnAttrs(m) = OnIn(attrs, n)
  BY <1>1 DEF OnAttrs, OnIn
<1>3. DeclaredTimeout(m) = p.timeout
  BY TimeoutDeclared DEF ReadSoFar
<1>4. HasAttr(m, "on") <=> OnAttrs(m) # {}
  BY DEF HasAttr, OnAttrs
<1>5. OnAttrs(m) = {} <=> p.event = NoEvent
  <2>1. ASSUME NEW i \in OnAttrs(m) PROVE p.event # NoEvent
    <3>1. i \in 1..Len(attrs) /\ attrs[i].kind = "on"
      BY <1>1, <1>2 DEF OnIn
    <3> HIDE DEF attrs
    <3>2. attrs[i] \in Attribute
      BY <1>1, <3>1
    <3>3. attrs[i].event \in Event
      BY <3>1, <3>2, AttributeFields
    <3>4. attrs[i].event = p.event
      BY <1>2 DEF ReadSoFar, attrs
    <3> QED BY <3>3, <3>4, NoEventAssumption
  <2> QED BY <1>2, <2>1 DEF ReadSoFar
<1>6. (HasAttr(m, "on_timeout") <=> p.is_timeout_handler) /\ ~HasAttr(m, "malformed")
  BY <1>1 DEF HasAttr, ReadSoFar
<1>7. p.source_states = {m.attrs[i].state : i \in OnAttrs(m)}
  BY <1>2 DEF ReadSoFar
<1>8. \A i, j \in OnAttrs(m) : i # j => /\ m.attrs[i].state # m.attrs[j].state
                                        /\ m.attrs[i].event = m.attrs[j].event
  BY <1>2 DEF ReadSoFar
<1>9. p \in Locals /\ \A i \in OnAttrs(m) : m.attrs[i].event = p.event
  BY <1>2 DEF ReadSoFar
<1> HIDE DEF attrs, n
<1> QED BY <1>3, <1>4, <1>5, <1>6, <1>7, <1>8, <1>9 DEF AttrsRead

\* The handler built from the locals is the one the method declares.
LEMMA HandlerRead ==
    ASSUME AttrsRead(NextMethod, parsed)
    PROVE  HandlerOf(NextMethod) = ParsedHandler
<1> DEFINE m == NextMethod
<1> HIDE DEF m
<1>1. AttrsRead(m, parsed)
  BY DEF m
<1>2. IsHandler(m) <=> IsHandlerParsed
  BY <1>1 DEF AttrsRead, IsHandler, IsHandlerParsed
<1>3. (IF HasAttr(m, "on") THEN m.attrs[CHOOSE i \in OnAttrs(m) : TRUE].event ELSE NoEvent)
        = parsed.event
  <2>1. CASE OnAttrs(m) = {}
    BY <1>1, <2>1 DEF AttrsRead
  <2>2. CASE OnAttrs(m) # {}
    <3>1. (CHOOSE i \in OnAttrs(m) : TRUE) \in OnAttrs(m)
      BY <2>2, Zenon
    <3> QED BY <1>1, <2>2, <3>1, Zenon DEF AttrsRead
  <2> QED BY <2>1, <2>2
<1>4. HasAttr(m, "on_timeout") = parsed.is_timeout_handler
  <2>1. parsed.is_timeout_handler \in BOOLEAN /\ HasAttr(m, "on_timeout") \in BOOLEAN
    BY <1>1 DEF AttrsRead, Locals, HasAttr
  <2> QED BY <1>1, <2>1 DEF AttrsRead
<1>5. {s \in State : IsHandler(m) /\ s \in ToSet(m.output.args)}
        = IF IsHandlerParsed THEN ReturnStates(m.output) ELSE {}
  BY <1>2 DEF ReturnStates
<1>6. (IF IsHandler(m) THEN ReturnKind(m.output) ELSE "none")
        = IF IsHandlerParsed THEN ReturnKind(m.output) ELSE "none"
  BY <1>2
<1>7. {m.attrs[i].state : i \in OnAttrs(m)} = parsed.source_states /\ DeclaredTimeout(m) = parsed.timeout
  BY <1>1 DEF AttrsRead
<1>8. ParsedHandler = [event |-> parsed.event, is_timeout_handler |-> parsed.is_timeout_handler,
                       source_states |-> parsed.source_states,
                       return_states |-> IF IsHandlerParsed THEN ReturnStates(m.output) ELSE {},
                       return_kind |-> IF IsHandlerParsed THEN ReturnKind(m.output) ELSE "none",
                       timeout |-> parsed.timeout]
  BY DEF ParsedHandler, m
<1>9. HandlerOf(m) = ParsedHandler
  BY <1>3, <1>4, <1>5, <1>6, <1>7, <1>8, Zenon DEF HandlerOf
<1> QED BY <1>9 DEF m

\* With its attributes read, what is left to check of a method is what the last
\* part of Handler::parse checks.
LEMMA WellFormedRead ==
    ASSUME AttrsRead(NextMethod, parsed), NextMethod.is_async
    PROVE  WellFormed(NextMethod) <=>
              /\ parsed.timeout # BadDuration
              /\ IsHandlerParsed => IsTransition(NextMethod.output) \/ IsResult(NextMethod.output)
              /\ ~(parsed.event # NoEvent /\ parsed.is_timeout_handler)
<1> DEFINE m == NextMethod
<1> HIDE DEF m
<1>1. AttrsRead(m, parsed) /\ m.is_async
  BY DEF m
<1>2. IsHandler(m) <=> IsHandlerParsed
  BY <1>1 DEF AttrsRead, IsHandler, IsHandlerParsed
<1>3. WellFormed(m) <=>
        /\ parsed.timeout # BadDuration
        /\ IsHandlerParsed => IsTransition(m.output) \/ IsResult(m.output)
        /\ ~(parsed.event # NoEvent /\ parsed.is_timeout_handler)
  BY <1>1, <1>2 DEF AttrsRead, WellFormed
<1> QED BY <1>3 DEF m

LEMMA ReturnTypeRead ==
    ASSUME NEW out, out.args \in Seq(ToSet(out.args)), IsTransition(out) \/ IsResult(out)
    PROVE  /\ ReturnStates(out) \in SUBSET State
           /\ ReturnStates(out) # {}
           /\ ReturnKind(out) \in {"Transition", "ResultTransition", "ResultError"}
           /\ ReturnKind(out) # "ResultTransition" =>
                \A s, t \in ReturnStates(out) : s = t
           /\ ReturnKind(out) = "ResultTransition" =>
                \E ok, err \in State : ReturnStates(out) = {ok, err}
<1> DEFINE args == out.args
           R == ReturnStates(out)
<1>1. args \in Seq(ToSet(args)) /\ Len(args) \in Nat /\ DOMAIN args = 1..Len(args)
  OBVIOUS
<1>2. ToSet(args) = {args[i] : i \in 1..Len(args)}
  BY <1>1, Zenon DEF ToSet
<1>3. args[1] \in State /\ R = ToSet(args) \cap State
  BY DEF IsTransition, IsResult, ReturnStates
<1>4. CASE out.name = "Transition"
  <2>1. Len(args) = 1 /\ 1..1 = {1}
    BY <1>4 DEF IsTransition, IsResult
  <2> HIDE DEF args
  <2>2. ToSet(args) = {args[1]}
    BY <1>2, <2>1
  <2>3. R = {args[1]} /\ ReturnKind(out) = "Transition"
    BY <1>3, <1>4, <2>2 DEF ReturnKind
  <2> QED BY <1>3, <2>3
<1>5. CASE out.name # "Transition"
  <2>1. Len(args) = 2 /\ 1..2 = {1, 2}
    BY <1>5 DEF IsTransition, IsResult
  <2>2. ToSet(args) = {args[1], args[2]}
    <3> HIDE DEF args
    <3> QED BY <1>2, <2>1
  <2>3. CASE args[2] \in State
    <3>1. R = {args[1], args[2]}
      BY <1>3, <2>2, <2>3
    <3>2. ReturnKind(out) = "ResultTransition"
      BY <1>3, <1>5, <2>2, <2>3 DEF ReturnKind
    <3> QED BY <1>3, <2>3, <3>1, <3>2
  <2>4. CASE args[2] \notin State
    <3>1. R = {args[1]}
      BY <1>3, <2>2, <2>4
    <3>2. ReturnKind(out) = "ResultError"
      BY <1>5, <2>2, <2>4 DEF ReturnKind
    <3> QED BY <1>3, <3>1, <3>2
  <2> QED BY <2>3, <2>4
<1> QED BY <1>4, <1>5

\* The handler of a method that passes every check has one of the shapes the
\* code generator relies on.
LEMMA ReadIsParsed ==
    ASSUME IsMethod(NextMethod), AttrsRead(NextMethod, parsed),
           parsed.timeout # BadDuration,
           IsHandlerParsed => IsTransition(NextMethod.output) \/ IsResult(NextMethod.output),
           ~(parsed.event # NoEvent /\ parsed.is_timeout_handler)
    PROVE  IsParsed(ParsedHandler)
<1> DEFINE out == NextMethod.output
           h == ParsedHandler
           R == IF IsHandlerParsed THEN ReturnStates(out) ELSE {}
           K == IF IsHandlerParsed THEN ReturnKind(out) ELSE "none"
<1>1. /\ h = [event |-> parsed.event, is_timeout_handler |-> parsed.is_timeout_handler,
              source_states |-> parsed.source_states, return_states |-> R,
              return_kind |-> K, timeout |-> parsed.timeout]
  BY DEF ParsedHandler
<1>2. /\ parsed.event \in Event \cup {NoEvent} /\ parsed.source_states \in SUBSET State
      /\ parsed.is_timeout_handler \in BOOLEAN
      /\ parsed.timeout \in Nat \cup {NoTimeout}
  BY DEF AttrsRead, Locals
<1>3. /\ R \in SUBSET State
      /\ K \in HandlerReturnKind
      /\ K = "none" <=> ~IsHandlerParsed
      /\ K = "none" <=> R = {}
      /\ K \in {"none", "ResultTransition"} \/ \A s, t \in R : s = t
      /\ K = "ResultTransition" => \E ok, err \in State : R = {ok, err}
  <2>1. CASE IsHandlerParsed
    <3>1. out.args \in Seq(ToSet(out.args)) /\ (IsTransition(out) \/ IsResult(out))
      BY <2>1 DEF IsMethod
    <3> HIDE DEF out
    <3> QED BY <2>1, <3>1, ReturnTypeRead DEF HandlerReturnKind
  <2>2. CASE ~IsHandlerParsed
    BY <2>2 DEF HandlerReturnKind
  <2> QED BY <2>1, <2>2
<1>4. parsed.event = NoEvent <=> parsed.source_states = {}
  <2> DEFINE S == OnAttrs(NextMethod)
             src(i) == NextMethod.attrs[i].state
  <2>1. parsed.event = NoEvent <=> S = {}
    BY DEF AttrsRead
  <2>2. parsed.source_states = {src(i) : i \in S}
    BY DEF AttrsRead
  <2> HIDE DEF S, src
  <2> QED BY <2>1, <2>2
<1> HIDE DEF R, K, h
<1>5. h \in Handler
  BY <1>1, <1>2, <1>3 DEF Handler, Duration
<1>6. /\ h.event = parsed.event /\ h.is_timeout_handler = parsed.is_timeout_handler
      /\ h.source_states = parsed.source_states /\ h.return_states = R /\ h.return_kind = K
  BY <1>1
<1>7. K = "none" <=> ~parsed.is_timeout_handler /\ parsed.event = NoEvent
  BY <1>3 DEF IsHandlerParsed
<1>8. IsParsed(h)
  BY <1>3, <1>4, <1>5, <1>6, <1>7 DEF IsParsed
<1> QED BY <1>8 DEF h

-----------------------------------------------------------------------------
(* The invariant of the parser.                                            *)

\* The attributes of m name the event e, or there are none and e is NoEvent.
Names(m, e) ==
    /\ \A i \in OnAttrs(m) : m.attrs[i].event = e
    /\ OnAttrs(m) = {} <=> e = NoEvent

LEMMA PayloadByEvent ==
    ASSUME NEW m, NEW n, NEW e, NEW f, Names(m, e), Names(n, f)
    PROVE  SamePayload(m, n) <=> (e = f /\ e # NoEvent => m.payload = n.payload)
  BY DEF Names, SamePayload

Declares(m, h) ==
    /\ WellFormed(m)
    /\ h = HandlerOf(m)
    /\ IsParsed(h)
    /\ Names(m, h.event)

PayloadsSeen ==
    {<<handlers[i].event, methods[i].payload>> :
        i \in {i \in DOMAIN handlers : handlers[i].event # NoEvent}}

\* The arguments and the associated types, once they are checked.
FrameInv ==
    /\ block \in ImplBlock
    /\ phase \in {"args", "types", "parse", "attrs", "contract", "consistency", "search",
                  "accepted", "rejected"}
    /\ phase \notin {"args", "rejected"} => block.channel_size # 0
    /\ phase \notin {"args", "types", "rejected"} =>
            block.self_ty = "path" /\ {"Context", "Error"} \subseteq block.types

\* The methods behind the handlers, all of them once the parser is done.
MethodsInv ==
    /\ IsSequence(handlers)
    /\ Len(handlers) <= Len(methods)
    /\ \A i \in DOMAIN handlers : Declares(methods[i], handlers[i])
    /\ payloads = PayloadsSeen
    /\ \A i, j \in DOMAIN handlers : SamePayload(methods[i], methods[j])
    /\ phase \in {"contract", "consistency", "search", "accepted"} => Len(handlers) = Len(methods)

\* The method being parsed.
AttrsInv ==
    phase = "attrs" =>
        /\ Len(handlers) < Len(methods)
        /\ NextMethod.is_async
        /\ looked \in 0..Len(NextMethod.attrs)
        /\ ReadSoFar(NextMethod.attrs, looked, parsed)

VerdictInv ==
    /\ phase = "accepted" => IsValid(handlers, InitialState)
    /\ RejectedIsInvalid

ParseInv == FrameInv /\ MethodsInv /\ AttrsInv /\ VerdictInv

\* The method the parser is at is a method.
LEMMA NextIsMethod ==
    ASSUME FrameInv, MethodsInv, Len(handlers) < Len(methods)
    PROVE  /\ methods \in Seq(ToSet(methods))
           /\ Len(handlers) + 1 \in DOMAIN methods
           /\ IsMethod(NextMethod)
<1>1. block \in ImplBlock
  BY DEF FrameInv
<1>2. /\ methods \in Seq(ToSet(methods))
      /\ \A m \in ToSet(methods) : IsMethod(m)
  BY <1>1, ImplBlockAssumption DEF methods
<1>3. Len(handlers) \in Nat
  BY DEF MethodsInv, IsSequence
<1> DEFINE ms == methods
<1> HIDE DEF ms
<1>4. ms \in Seq(ToSet(ms)) /\ Len(handlers) < Len(ms)
  BY <1>2 DEF ms
<1>5. Len(handlers) + 1 \in DOMAIN ms
  BY <1>3, <1>4
<1>6. ms[Len(handlers) + 1] \in ToSet(ms)
  BY <1>5, Zenon DEF ToSet
<1> QED BY <1>2, <1>5, <1>6 DEF ms, NextMethod

-----------------------------------------------------------------------------
(* The steps.                                                              *)

LEMMA ParseInit == Init => ParseInv
<1> SUFFICES ASSUME Init PROVE ParseInv
  OBVIOUS
<1>1. block \in ImplBlock /\ phase = "args" /\ handlers = <<>> /\ payloads = {}
  BY DEF Init
<1>2. FrameInv
  BY <1>1 DEF FrameInv
<1>3. methods \in Seq(ToSet(methods))
  BY <1>1, ImplBlockAssumption DEF methods
<1>4. Len(handlers) <= Len(methods) /\ DOMAIN handlers = {} /\ IsSequence(handlers)
  <2> DEFINE ms == methods
  <2> HIDE DEF ms
  <2>1. ms \in Seq(ToSet(ms))
    BY <1>3 DEF ms
  <2>2. Len(handlers) <= Len(ms)
    BY <1>1, <2>1
  <2> QED BY <1>1, <2>2 DEF ms, IsSequence
<1>5. MethodsInv
  BY <1>1, <1>4 DEF MethodsInv, PayloadsSeen
<1> QED BY <1>1, <1>2, <1>5 DEF ParseInv, AttrsInv, VerdictInv, RejectedIsInvalid

\* A step that adds no handler keeps what is known of the methods, as long as
\* it does not leave the parser too early.
LEMMA MethodsKept ==
    ASSUME MethodsInv, structure' = structure,
           phase' \in {"contract", "consistency", "search", "accepted"}
                => Len(handlers) = Len(methods)
    PROVE  MethodsInv'
<1>1. block' = block /\ handlers' = handlers /\ payloads' = payloads
  BY DEF structure
<1>2. methods' = methods /\ PayloadsSeen' = PayloadsSeen
  BY <1>1 DEF methods, PayloadsSeen
<1> QED BY <1>1, <1>2 DEF MethodsInv, IsSequence

\* An impl block that is rejected stays as it was: what has to be shown is that
\* it is not a valid one.
LEMMA Rejects ==
    ASSUME ParseInv, NEW e, Reject(e),
           ~(WellFormedBlock /\ IsValid(HandlersOf(methods), InitialState))
    PROVE  ParseInv'
<1>1. phase' = "rejected" /\ structure' = structure
  BY DEF Reject
<1>2. block' = block
  BY <1>1 DEF structure
<1>3. FrameInv'
  BY <1>1, <1>2 DEF ParseInv, FrameInv
<1>4. MethodsInv'
  BY <1>1, MethodsKept DEF ParseInv
<1>5. WellFormedBlock' = WellFormedBlock /\ methods' = methods
  BY <1>2 DEF WellFormedBlock, methods
<1>6. RejectedIsInvalid'
  BY <1>5 DEF RejectedIsInvalid
<1> QED BY <1>1, <1>3, <1>4, <1>6 DEF ParseInv, AttrsInv, VerdictInv

\* Once the parser is done the handlers are those the methods declare.
LEMMA AllDeclared ==
    ASSUME FrameInv, MethodsInv, Len(handlers) = Len(methods)
    PROVE  handlers = HandlersOf(methods)
<1>1. methods \in Seq(ToSet(methods))
  BY ImplBlockAssumption DEF FrameInv, methods
<1> DEFINE ms == methods
<1> HIDE DEF ms
<1>2. DOMAIN handlers = DOMAIN ms /\ handlers \in Seq(ToSet(handlers))
  BY <1>1 DEF ms, MethodsInv, IsSequence
<1>3. \A i \in DOMAIN handlers : handlers[i] = HandlerOf(ms[i])
  BY DEF ms, MethodsInv, Declares
<1>4. handlers = HandlersOf(ms)
  BY <1>2, <1>3 DEF HandlersOf
<1> QED BY <1>4 DEF ms

LEMMA CheckArgsStep == ASSUME ParseInv, CheckArgs PROVE ParseInv'
<1>1. phase = "args"
  BY DEF CheckArgs
<1>2. CASE channel_size = 0
  <2>1. block.channel_size = 0
    BY <1>2 DEF channel_size
  <2>2. ~WellFormedBlock
    BY <2>1 DEF WellFormedBlock, Unset
  <2> QED BY <1>2, <2>2, Rejects DEF CheckArgs
<1>3. CASE channel_size # 0
  <2>1. phase' = "types" /\ structure' = structure
    BY <1>3 DEF CheckArgs, Enter
  <2>2. block.channel_size # 0
    BY <1>3 DEF channel_size, Unset
  <2>3. FrameInv'
    BY <2>1, <2>2 DEF ParseInv, FrameInv, structure
  <2>4. MethodsInv'
    BY <2>1, MethodsKept DEF ParseInv
  <2> QED BY <2>1, <2>3, <2>4 DEF ParseInv, AttrsInv, VerdictInv, RejectedIsInvalid
<1> QED BY <1>2, <1>3

LEMMA CheckTypesStep == ASSUME ParseInv, CheckTypes PROVE ParseInv'
<1>1. phase = "types"
  BY DEF CheckTypes
<1>2. CASE ~(block.self_ty = "path" /\ {"Context", "Error"} \subseteq block.types)
  <2>1. \E e : Reject(e)
    BY <1>2 DEF CheckTypes
  <2>2. ~WellFormedBlock
    BY <1>2 DEF WellFormedBlock
  <2> QED BY <2>1, <2>2, Rejects
<1>3. CASE block.self_ty = "path" /\ {"Context", "Error"} \subseteq block.types
  <2>1. phase' = "parse" /\ structure' = structure
    BY <1>3 DEF CheckTypes, Enter
  <2>2. FrameInv'
    BY <1>1, <1>3, <2>1 DEF ParseInv, FrameInv, structure
  <2>3. MethodsInv'
    BY <2>1, MethodsKept DEF ParseInv
  <2> QED BY <2>1, <2>2, <2>3 DEF ParseInv, AttrsInv, VerdictInv, RejectedIsInvalid
<1> QED BY <1>2, <1>3

\* One method that is not well formed spoils the block.
LEMMA BadMethod ==
    ASSUME ParseInv, Len(handlers) < Len(methods), ~WellFormed(NextMethod)
    PROVE  ~WellFormedBlock
<1>1. Len(handlers) + 1 \in DOMAIN methods
  BY NextIsMethod DEF ParseInv
<1> QED BY <1>1 DEF WellFormedBlock, NextMethod

LEMMA ParseBeginsStep == ASSUME ParseInv, ParseBegins PROVE ParseInv'
<1>1. phase = "parse" /\ Len(handlers) < Len(methods)
  BY DEF ParseBegins
<1>2. CASE ~NextMethod.is_async
  <2>1. ~WellFormedBlock
    BY <1>1, <1>2, BadMethod DEF WellFormed
  <2> QED BY <1>2, <2>1, Rejects DEF ParseBegins
<1>3. CASE NextMethod.is_async
  <2>1. /\ phase' = "attrs" /\ looked' = 0 /\ parsed' = NoAttrs
        /\ structure' = structure
    BY <1>3 DEF ParseBegins
  <2>2. block' = block /\ handlers' = handlers
    BY <2>1 DEF structure
  <2>3. methods' = methods /\ NextMethod' = NextMethod
    BY <2>2 DEF methods, NextMethod
  <2>4. FrameInv'
    BY <1>1, <2>1, <2>2 DEF ParseInv, FrameInv
  <2>5. MethodsInv'
    BY <2>1, MethodsKept DEF ParseInv
  <2>6. IsMethod(NextMethod)
    BY <1>1, NextIsMethod DEF ParseInv
  <2>7. Len(NextMethod.attrs) \in Nat
    BY <2>6 DEF IsMethod
  <2>8. ReadSoFar(NextMethod.attrs, 0, NoAttrs)
    BY NothingRead
  <2>9. AttrsInv'
    BY <1>1, <1>3, <2>1, <2>2, <2>3, <2>7, <2>8 DEF AttrsInv
  <2> QED BY <2>1, <2>4, <2>5, <2>9 DEF ParseInv, VerdictInv, RejectedIsInvalid
<1> QED BY <1>2, <1>3

\* The attribute looked at next is one of the method's.
LEMMA NextAttrFacts ==
    ASSUME ParseInv, NEW kind, IsNextAttr(kind)
    PROVE  /\ phase = "attrs" /\ Len(handlers) < Len(methods)
           /\ NextMethod.attrs \in Seq(Attribute)
           /\ looked \in Nat /\ looked < Len(NextMethod.attrs)
           /\ NextMethod.attrs[looked + 1].kind = kind
           /\ ReadSoFar(NextMethod.attrs, looked, parsed)
<1>1. phase = "attrs" /\ looked < Len(NextMethod.attrs) /\ NextAttr.kind = kind
  BY DEF IsNextAttr
<1>2. /\ Len(handlers) < Len(methods)
      /\ looked \in 0..Len(NextMethod.attrs)
      /\ ReadSoFar(NextMethod.attrs, looked, parsed)
  BY <1>1 DEF ParseInv, AttrsInv
<1>3. IsMethod(NextMethod)
  BY <1>2, NextIsMethod DEF ParseInv
<1> QED BY <1>1, <1>2, <1>3 DEF IsMethod, NextAttr

LEMMA Records ==
    ASSUME ParseInv, NEW kind, IsNextAttr(kind), NEW now, Record(now),
           ReadSoFar(NextMethod.attrs, looked + 1, now)
    PROVE  ParseInv'
<1>1. /\ phase' = phase /\ phase = "attrs" /\ looked' = looked + 1 /\ parsed' = now
      /\ structure' = structure
  BY DEF Record, IsNextAttr
<1>2. block' = block /\ handlers' = handlers
  BY <1>1 DEF structure
<1>3. methods' = methods /\ NextMethod' = NextMethod
  BY <1>2 DEF methods, NextMethod
<1>4. FrameInv'
  BY <1>1, <1>2 DEF ParseInv, FrameInv
<1>5. MethodsInv'
  BY <1>1, MethodsKept DEF ParseInv
<1>6. looked \in Nat /\ looked < Len(NextMethod.attrs) /\ NextMethod.attrs \in Seq(Attribute)
  BY NextAttrFacts
<1>7. looked + 1 \in 0..Len(NextMethod.attrs)
  BY <1>6
<1>8. AttrsInv'
  BY <1>1, <1>2, <1>3, <1>7 DEF ParseInv, AttrsInv
<1> QED BY <1>1, <1>4, <1>5, <1>8 DEF ParseInv, VerdictInv, RejectedIsInvalid

LEMMA ParseOnStep == ASSUME ParseInv, ParseOn PROVE ParseInv'
<1> DEFINE attrs == NextMethod.attrs
           k == looked
           a == attrs[k + 1]
<1>1. IsNextAttr("on") /\ NextAttr = a
  BY DEF ParseOn, NextAttr
<1>2. /\ Len(handlers) < Len(methods)
      /\ attrs \in Seq(Attribute) /\ k \in Nat /\ k < Len(attrs) /\ a.kind = "on"
      /\ ReadSoFar(attrs, k, parsed)
  BY <1>1, NextAttrFacts
<1>3. /\ k + 1 \in OnAttrs(NextMethod) /\ k + 1 \notin OnIn(attrs, k)
      /\ OnIn(attrs, k) \subseteq OnAttrs(NextMethod)
  BY <1>2 DEF OnAttrs, OnIn
<1>4. CASE a.state \in parsed.source_states
  <2>1. PICK i \in OnIn(attrs, k) : attrs[i].state = a.state
    BY <1>2, <1>4 DEF ReadSoFar
  <2>2. ~WellFormed(NextMethod)
    BY <1>3, <2>1 DEF WellFormed
  <2>3. ~WellFormedBlock
    BY <1>2, <2>2, BadMethod
  <2> QED BY <1>1, <1>4, <2>3, Rejects DEF ParseOn
<1>5. CASE a.state \notin parsed.source_states /\ parsed.event \notin {NoEvent, a.event}
  <2>1. PICK i \in OnIn(attrs, k) : attrs[i].event = parsed.event
    BY <1>2, <1>5 DEF ReadSoFar
  <2>2. ~WellFormed(NextMethod)
    BY <1>3, <1>5, <2>1 DEF WellFormed
  <2>3. ~WellFormedBlock
    BY <1>2, <2>2, BadMethod
  <2> QED BY <1>1, <1>5, <2>3, Rejects DEF ParseOn
<1>6. CASE a.state \notin parsed.source_states /\ parsed.event \in {NoEvent, a.event}
  <2> DEFINE now == [parsed EXCEPT !.event = a.event, !.source_states = @ \cup {a.state}]
  <2>1. Record(now)
    BY <1>1, <1>6 DEF ParseOn
  <2>2. ReadSoFar(attrs, k + 1, now)
    BY <1>2, <1>6, ReadOn
  <2> HIDE DEF now
  <2> QED BY <1>1, <2>1, <2>2, Records
<1> QED BY <1>4, <1>5, <1>6

LEMMA OtherAttrStep ==
    ASSUME ParseInv, ParseOnTimeout \/ ParseStateTimeout \/ ParseMalformed
    PROVE  ParseInv'
<1>1. CASE ParseOnTimeout
  <2> DEFINE now == [parsed EXCEPT !.is_timeout_handler = TRUE]
  <2>1. IsNextAttr("on_timeout") /\ Record(now)
    BY <1>1 DEF ParseOnTimeout
  <2>2. ReadSoFar(NextMethod.attrs, looked + 1, now)
    BY <2>1, NextAttrFacts, ReadOnTimeout
  <2> HIDE DEF now
  <2> QED BY <2>1, <2>2, Records
<1>2. CASE ParseStateTimeout
  <2> DEFINE now == [parsed EXCEPT !.timeout = NextMethod.attrs[looked + 1].duration]
  <2>1. IsNextAttr("state_timeout") /\ Record(now)
    BY <1>2 DEF ParseStateTimeout, NextAttr
  <2>2. ReadSoFar(NextMethod.attrs, looked + 1, now)
    BY <2>1, NextAttrFacts, ReadStateTimeout
  <2> HIDE DEF now
  <2> QED BY <2>1, <2>2, Records
<1>3. CASE ParseMalformed
  <2> DEFINE attrs == NextMethod.attrs
  <2>1. IsNextAttr("malformed") /\ Reject("MalformedAttribute")
    BY <1>3 DEF ParseMalformed
  <2>2. /\ Len(handlers) < Len(methods)
        /\ attrs \in Seq(Attribute) /\ looked \in Nat /\ looked < Len(attrs)
        /\ attrs[looked + 1].kind = "malformed"
    BY <2>1, NextAttrFacts
  <2>3. looked + 1 \in DOMAIN attrs
    BY <2>2
  <2>4. ~WellFormed(NextMethod)
    BY <2>2, <2>3 DEF WellFormed, HasAttr
  <2>5. ~WellFormedBlock
    BY <2>2, <2>4, BadMethod
  <2> QED BY <2>1, <2>5, Rejects
<1> QED BY <1>1, <1>2, <1>3

\* What is known when the attributes of a method are read.
LEMMA EndFacts ==
    ASSUME ParseInv, ParseEnds
    PROVE  /\ Len(handlers) < Len(methods)
           /\ NextMethod.is_async /\ IsMethod(NextMethod)
           /\ AttrsRead(NextMethod, parsed)
           /\ Names(NextMethod, parsed.event)
<1>1. phase = "attrs" /\ looked = Len(NextMethod.attrs)
  BY DEF ParseEnds
<1>2. /\ Len(handlers) < Len(methods) /\ NextMethod.is_async
      /\ ReadSoFar(NextMethod.attrs, Len(NextMethod.attrs), parsed)
  BY <1>1 DEF ParseInv, AttrsInv
<1>3. IsMethod(NextMethod)
  BY <1>2, NextIsMethod DEF ParseInv
<1>4. AttrsRead(NextMethod, parsed)
  BY <1>2, <1>3, AllRead
<1> QED BY <1>2, <1>3, <1>4 DEF Names, AttrsRead

LEMMA ParseEndsRejects ==
    ASSUME ParseInv, ParseEnds, MethodError # "none"
    PROVE  ~WellFormedBlock
<1>1. /\ Len(handlers) < Len(methods) /\ NextMethod.is_async
      /\ AttrsRead(NextMethod, parsed) /\ Names(NextMethod, parsed.event)
  BY EndFacts
<1>2. CASE ~WellFormed(NextMethod)
  BY <1>1, <1>2, BadMethod
<1>3. CASE WellFormed(NextMethod)
  <2>1. PayloadMismatch
    BY <1>1, <1>3, WellFormedRead DEF MethodError
  <2>2. PICK q \in PayloadsSeen : q[1] = parsed.event /\ q[2] # NextMethod.payload
    BY <2>1 DEF PayloadMismatch, ParseInv, MethodsInv
  <2>3. PICK i \in DOMAIN handlers : /\ handlers[i].event # NoEvent
                                     /\ q = <<handlers[i].event, methods[i].payload>>
    BY DEF PayloadsSeen
  <2>4. Names(methods[i], handlers[i].event)
    BY DEF ParseInv, MethodsInv, Declares
  <2>5. ~SamePayload(methods[i], NextMethod)
    BY <1>1, <2>2, <2>3, <2>4, PayloadByEvent
  <2>6. i \in DOMAIN methods /\ Len(handlers) + 1 \in DOMAIN methods
    <3>1. methods \in Seq(ToSet(methods)) /\ Len(handlers) + 1 \in DOMAIN methods
      BY <1>1, NextIsMethod DEF ParseInv
    <3>2. handlers \in Seq(ToSet(handlers))
      BY DEF ParseInv, MethodsInv, IsSequence
    <3> DEFINE ms == methods
    <3> HIDE DEF ms
    <3>3. i \in DOMAIN ms
      <4>1. ms \in Seq(ToSet(ms)) /\ Len(handlers) < Len(ms)
        BY <1>1, <3>1 DEF ms
      <4> QED BY <3>2, <4>1
    <3> QED BY <3>1, <3>3 DEF ms
  <2> QED BY <2>5, <2>6 DEF WellFormedBlock, NextMethod
<1> QED BY <1>2, <1>3

\* A method that passes every check adds the handler it declares.
LEMMA ParseEndsAdds ==
    ASSUME ParseInv, ParseEnds, MethodError = "none"
    PROVE  MethodsInv'
<1> DEFINE n == Len(handlers)
           ms == methods
           hs == handlers'
           new == ParsedHandler
<1>1. /\ n < Len(ms) /\ NextMethod.is_async /\ IsMethod(NextMethod)
      /\ AttrsRead(NextMethod, parsed) /\ Names(NextMethod, parsed.event)
  BY EndFacts
<1>2. /\ phase' = "parse" /\ block' = block
      /\ hs = Append(handlers, new)
      /\ payloads' = IF parsed.event = NoEvent THEN payloads
                     ELSE payloads \cup {<<parsed.event, NextMethod.payload>>}
  BY DEF ParseEnds
<1>3. methods' = ms
  BY <1>2 DEF methods
<1>4. /\ handlers \in Seq(ToSet(handlers)) /\ ms \in Seq(ToSet(ms))
      /\ n + 1 \in DOMAIN ms /\ ms[n + 1] = NextMethod
  BY <1>1, NextIsMethod DEF ParseInv, MethodsInv, IsSequence, NextMethod
<1>5. IsSequence(hs)
  BY <1>2, <1>4, AppendIsSequence DEF IsSequence
<1>6. Declares(NextMethod, new) /\ new.event = parsed.event
  <2>1. WellFormed(NextMethod)
    BY <1>1, WellFormedRead DEF MethodError
  <2>2. HandlerOf(NextMethod) = new
    BY <1>1, HandlerRead
  <2>3. IsParsed(new)
    BY <1>1, ReadIsParsed DEF MethodError
  <2>4. new.event = parsed.event
    BY DEF ParsedHandler
  <2> HIDE DEF new
  <2> QED BY <1>1, <2>1, <2>2, <2>3, <2>4 DEF Declares
<1>7. ~PayloadMismatch
  BY <1>1 DEF MethodError
<1> HIDE DEF ms, new
<1>8. /\ n \in Nat /\ Len(hs) = n + 1 /\ DOMAIN hs = 1..(n + 1)
      /\ DOMAIN handlers = 1..n
      /\ \A i \in 1..n : hs[i] = handlers[i]
      /\ hs[n + 1] = new
  <2>1. n \in Nat /\ DOMAIN handlers = 1..n
    BY <1>4
  <2> DEFINE S == ToSet(handlers) \cup {new}
  <2>2. handlers \in Seq(S) /\ new \in S
    BY <1>4
  <2> HIDE DEF S
  <2>3. /\ Append(handlers, new) \in Seq(S)
        /\ Len(Append(handlers, new)) = n + 1
        /\ \A i \in 1..n : Append(handlers, new)[i] = handlers[i]
        /\ Append(handlers, new)[n + 1] = new
    BY <2>2
  <2> QED BY <1>2, <2>1, <2>3
<1> HIDE DEF hs
<1>9. n + 1 <= Len(ms)
  BY <1>1, <1>4, <1>8 DEF ms
<1>10. \A i \in 1..(n + 1) : i \in 1..n \/ i = n + 1
  BY <1>8
<1>11. \A i \in DOMAIN hs : Declares(ms[i], hs[i])
  <2>1. \A i \in DOMAIN handlers : Declares(ms[i], handlers[i])
    BY DEF ParseInv, MethodsInv, ms
  <2> QED BY <1>4, <1>6, <1>8, <1>10, <2>1
<1>12. payloads = {<<handlers[i].event, ms[i].payload>> :
                    i \in {i \in DOMAIN handlers : handlers[i].event # NoEvent}}
  BY DEF ParseInv, MethodsInv, PayloadsSeen, ms
<1>13. payloads' = {<<hs[i].event, ms[i].payload>> : i \in {i \in DOMAIN hs : hs[i].event # NoEvent}}
  <2> DEFINE I == {i \in DOMAIN handlers : handlers[i].event # NoEvent}
             J == {i \in DOMAIN hs : hs[i].event # NoEvent}
             seen(i) == <<hs[i].event, ms[i].payload>>
  <2>1. payloads = {seen(i) : i \in I}
    BY <1>8, <1>12
  <2>2. J = IF parsed.event = NoEvent THEN I ELSE I \cup {n + 1}
    BY <1>6, <1>8, <1>10
  <2>3. seen(n + 1) = <<parsed.event, NextMethod.payload>>
    BY <1>4, <1>6, <1>8
  <2> HIDE DEF I, J, seen
  <2>4. payloads' = {seen(i) : i \in J}
    BY <1>2, <2>1, <2>2, <2>3
  <2> QED BY <2>4 DEF J, seen
<1>14. ASSUME NEW i \in 1..n
       PROVE  SamePayload(ms[i], NextMethod) /\ SamePayload(NextMethod, ms[i])
  <2>1. Names(ms[i], handlers[i].event)
    BY <1>8 DEF ParseInv, MethodsInv, Declares, ms
  <2>2. handlers[i].event = parsed.event /\ parsed.event # NoEvent
          => ms[i].payload = NextMethod.payload
    <3>1. handlers[i].event # NoEvent => <<handlers[i].event, ms[i].payload>> \in payloads
      BY <1>8, <1>12
    <3> QED BY <1>7, <3>1 DEF PayloadMismatch
  <2> QED BY <1>1, <2>1, <2>2, PayloadByEvent
<1>15. \A i, j \in DOMAIN hs : SamePayload(ms[i], ms[j])
  <2>1. \A i, j \in 1..n : SamePayload(ms[i], ms[j])
    BY <1>8 DEF ParseInv, MethodsInv, ms
  <2>2. SamePayload(NextMethod, NextMethod)
    BY DEF SamePayload
  <2> QED BY <1>4, <1>8, <1>10, <1>14, <2>1, <2>2
<1>16. PayloadsSeen' = {<<hs[i].event, ms[i].payload>> : i \in {i \in DOMAIN hs : hs[i].event # NoEvent}}
  BY <1>3 DEF PayloadsSeen, hs
<1> QED BY <1>2, <1>3, <1>5, <1>8, <1>9, <1>11, <1>13, <1>15, <1>16 DEF MethodsInv, hs

LEMMA ParseEndsStep == ASSUME ParseInv, ParseEnds PROVE ParseInv'
<1>1. CASE MethodError # "none"
  <2>1. Reject(MethodError)
    BY <1>1 DEF ParseEnds
  <2> QED BY <1>1, <2>1, ParseEndsRejects, Rejects
<1>2. CASE MethodError = "none"
  <2>1. MethodsInv'
    BY <1>2, ParseEndsAdds
  <2>2. phase = "attrs" /\ phase' = "parse" /\ block' = block
    BY <1>2 DEF ParseEnds
  <2>3. FrameInv'
    BY <2>2 DEF ParseInv, FrameInv
  <2> QED BY <2>1, <2>2, <2>3 DEF ParseInv, AttrsInv, VerdictInv, RejectedIsInvalid
<1> QED BY <1>1, <1>2

\* validate() changes no handler, and its verdict is right.
LEMMA ValidateStep ==
    ASSUME ParseInv, VInv, CheckContract \/ CheckConsistency \/ SearchVisit \/ SearchEnds
    PROVE  ParseInv'
<1>1. /\ structure' = structure
      /\ phase \in {"contract", "consistency", "search"}
      /\ phase' \in {"consistency", "search", "accepted", "rejected"}
  <2>1. CASE CheckContract
    BY <2>1 DEF CheckContract, Reject, Enter
  <2>2. CASE CheckConsistency
    BY <2>2 DEF CheckConsistency, Reject
  <2>3. CASE SearchVisit
    BY <2>3 DEF SearchVisit
  <2>4. CASE SearchEnds
    BY <2>4 DEF SearchEnds, Reject, Enter
  <2> QED BY <2>1, <2>2, <2>3, <2>4
<1>2. Len(handlers) = Len(methods)
  BY <1>1 DEF ParseInv, MethodsInv
<1>3. Verdict
  BY VerdictStep DEF Next
<1>4. block' = block /\ handlers' = handlers
  BY <1>1 DEF structure
<1>5. methods' = methods
  BY <1>4 DEF methods
<1>6. FrameInv'
  BY <1>1, <1>4 DEF ParseInv, FrameInv
<1>7. MethodsInv'
  BY <1>1, <1>2, MethodsKept DEF ParseInv
<1>8. handlers = HandlersOf(methods)
  BY <1>2, AllDeclared DEF ParseInv
<1>9. phase' = "accepted" => IsValid(handlers', InitialState)
  BY <1>1, <1>3, <1>4 DEF Verdict
<1>10. RejectedIsInvalid'
  BY <1>1, <1>3, <1>5, <1>8 DEF Verdict, RejectedIsInvalid
<1> QED BY <1>1, <1>6, <1>7, <1>9, <1>10 DEF ParseInv, AttrsInv, VerdictInv

LEMMA ParseNext == ParseInv /\ VInv /\ [Next]_vars => ParseInv'
<1> SUFFICES ASSUME ParseInv, VInv, [Next]_vars PROVE ParseInv'
  OBVIOUS
<1>1. CASE CheckArgs
  BY <1>1, CheckArgsStep
<1>2. CASE CheckTypes
  BY <1>2, CheckTypesStep
<1>3. CASE ParseBegins
  BY <1>3, ParseBeginsStep
<1>4. CASE ParseOn
  BY <1>4, ParseOnStep
<1>5. CASE ParseOnTimeout \/ ParseStateTimeout \/ ParseMalformed
  BY <1>5, OtherAttrStep
<1>6. CASE ParseEnds
  BY <1>6, ParseEndsStep
<1>7. CASE AllParsed
  <2>1. /\ structure' = structure /\ phase = "parse" /\ phase' = "contract"
        /\ Len(handlers) = Len(methods)
    BY <1>7 DEF AllParsed, Enter
  <2>2. MethodsInv'
    BY <2>1, MethodsKept DEF ParseInv
  <2>3. FrameInv'
    BY <2>1 DEF ParseInv, FrameInv, structure
  <2> QED BY <2>1, <2>2, <2>3 DEF ParseInv, AttrsInv, VerdictInv, RejectedIsInvalid
<1>8. CASE CheckContract \/ CheckConsistency \/ SearchVisit \/ SearchEnds
  BY <1>8, ValidateStep
<1>9. CASE UNCHANGED vars
  <2>1. /\ structure' = structure /\ phase' = phase /\ looked' = looked /\ parsed' = parsed
    BY <1>9 DEF vars, locals
  <2>2. block' = block /\ handlers' = handlers
    BY <2>1 DEF structure
  <2>3. methods' = methods /\ NextMethod' = NextMethod /\ WellFormedBlock' = WellFormedBlock
    BY <2>2 DEF methods, NextMethod, WellFormedBlock
  <2>4. MethodsInv'
    BY <2>1, MethodsKept DEF ParseInv, MethodsInv
  <2>5. FrameInv'
    BY <2>1, <2>2 DEF ParseInv, FrameInv
  <2>6. AttrsInv'
    BY <2>1, <2>2, <2>3 DEF ParseInv, AttrsInv
  <2>7. VerdictInv'
    BY <2>1, <2>2, <2>3 DEF ParseInv, VerdictInv, RejectedIsInvalid
  <2> QED BY <2>4, <2>5, <2>6, <2>7 DEF ParseInv
<1> QED BY <1>1, <1>2, <1>3, <1>4, <1>5, <1>6, <1>7, <1>8, <1>9 DEF Next

LEMMA ParserInvariant == Spec => []ParseInv
<1>1. Spec => []VInv
  BY VInit, VNext, PTL DEF Spec
<1> QED BY <1>1, ParseInit, ParseNext, PTL DEF Spec

-----------------------------------------------------------------------------
(* The theorems.                                                           *)

LEMMA AcceptedFollows == ParseInv => AcceptedIsDefinition
<1> SUFFICES ASSUME ParseInv, phase = "accepted"
             PROVE  /\ WellFormedBlock
                    /\ channel_size > 0
                    /\ handlers = HandlersOf(methods)
                    /\ IsDefinition(handlers, InitialState)
  BY DEF AcceptedIsDefinition
<1>1. /\ block \in ImplBlock /\ block.channel_size # 0
      /\ block.self_ty = "path" /\ {"Context", "Error"} \subseteq block.types
  BY DEF ParseInv, FrameInv
<1>2. block.channel_size \in Nat \cup {Unset}
  BY <1>1, ImplBlockAssumption
<1>3. Len(handlers) = Len(methods)
  BY DEF ParseInv, MethodsInv
<1>4. handlers = HandlersOf(methods)
  BY <1>3, AllDeclared DEF ParseInv
<1>5. DOMAIN methods = DOMAIN handlers
  <2> DEFINE ms == methods
  <2> HIDE DEF ms
  <2>1. DOMAIN HandlersOf(ms) = DOMAIN ms
    BY DEF HandlersOf
  <2> QED BY <1>4, <2>1 DEF ms
<1>6. WellFormedBlock
  BY <1>1, <1>2, <1>5 DEF ParseInv, MethodsInv, Declares, WellFormedBlock
<1>7. channel_size > 0
  BY <1>1, <1>2 DEF channel_size, Unset
<1>8. handlers \in Seq(Handler)
  <2>1. handlers \in Seq(ToSet(handlers))
    BY DEF ParseInv, MethodsInv, IsSequence
  <2>2. \A i \in DOMAIN handlers : handlers[i] \in Handler
    BY DEF ParseInv, MethodsInv, Declares, IsParsed
  <2> QED BY <2>1, <2>2
<1>9. IsDefinition(handlers, InitialState)
  BY <1>8, InitialStateAssumption
     DEF IsDefinition, ParseInv, MethodsInv, Declares, VerdictInv
<1> QED BY <1>4, <1>6, <1>7, <1>9

\* For every set of identifiers and every impl block: what the macro accepts is
\* a definition the generated code can rely on, made of the handlers the methods
\* declare (parser.rs, graph.rs).
THEOREM AcceptedCorrect == Spec => []AcceptedIsDefinition
  BY ParserInvariant, AcceptedFollows, PTL

\* And what it rejects is not one: no error is reported for an impl block that is
\* well formed and whose handlers are valid (parser.rs, graph.rs).
THEOREM RejectedCorrect == Spec => []RejectedIsInvalid
<1>1. ParseInv => RejectedIsInvalid
  BY DEF ParseInv, VerdictInv
<1> QED BY <1>1, ParserInvariant, PTL

\* The macro's promise that "if a state has no path from q0, compilation fails"
\* holds of every impl block in which no handler shadows another: a shadowed arm
\* is the only way to an accepted machine with a state no event leads to.
THEOREM UnshadowedStatesAreReachable ==
    Spec => [](ArmsAreDistinct(handlers) => AcceptedStatesAreReachable)
<1>1. AcceptedIsDefinition => (ArmsAreDistinct(handlers) => AcceptedStatesAreReachable)
  <2> SUFFICES ASSUME AcceptedIsDefinition, ArmsAreDistinct(handlers), phase = "accepted",
                      NEW s \in States(handlers, InitialState)
               PROVE  Reaches(RuntimeEdges, InitialState, s)
    BY DEF AcceptedStatesAreReachable
  <2>1. IsDefinition(handlers, InitialState)
    BY DEF AcceptedIsDefinition
  <2>2. RuntimeEdges = Taken(handlers)
    BY DEF RuntimeEdges, Taken
  <2> QED BY <2>1, <2>2, DistinctArmsReachAll
<1> QED BY <1>1, AcceptedCorrect, PTL

-----------------------------------------------------------------------------
(* Every step leaves less to do.                                           *)

LEMMA RemainingIsNatural ==
    ASSUME ParseInv, VInv
    PROVE  \A i \in 1..6 : Remaining[i] \in Nat
<1>1. Rank(phase) \in Nat
  BY DEF Rank
<1>2. Len(methods) - Len(handlers) \in Nat
  <2>1. methods \in Seq(ToSet(methods))
    BY ImplBlockAssumption DEF ParseInv, FrameInv, methods
  <2> DEFINE ms == methods
  <2> HIDE DEF ms
  <2>2. Len(ms) \in Nat
    BY <2>1 DEF ms
  <2>3. Len(handlers) \in Nat /\ Len(handlers) <= Len(ms)
    BY DEF ParseInv, MethodsInv, IsSequence, ms
  <2>4. Len(ms) - Len(handlers) \in Nat
    BY <2>2, <2>3
  <2> QED BY <2>4 DEF ms
<1>3. phase = "attrs" => Len(NextMethod.attrs) - looked \in Nat
  <2> SUFFICES ASSUME phase = "attrs" PROVE Len(NextMethod.attrs) - looked \in Nat
    OBVIOUS
  <2>1. Len(handlers) < Len(methods) /\ looked \in 0..Len(NextMethod.attrs)
    BY DEF ParseInv, AttrsInv
  <2>2. IsMethod(NextMethod)
    BY <2>1, NextIsMethod DEF ParseInv
  <2>3. Len(NextMethod.attrs) \in Nat
    BY <2>2 DEF IsMethod
  <2> QED BY <2>1, <2>3
<1>4. Cardinality(State \ discovered) \in Nat
  BY StateAssumption, FS_Difference, FS_CardinalityType
<1>5. Len(stack) \in Nat
  BY DEF VInv
<1>6. \A i \in 1..6 : i = 1 \/ i = 2 \/ i = 3 \/ i = 4 \/ i = 5 \/ i = 6
  OBVIOUS
<1> QED BY <1>1, <1>2, <1>3, <1>4, <1>5, <1>6 DEF Remaining

\* A later phase is a step forward whatever happens to the rest.
LEMMA LowerRank ==
    ASSUME Rank(phase') < Rank(phase)
    PROVE  Precedes(Remaining', Remaining)
<1>1. Remaining'[1] < Remaining[1]
  BY DEF Remaining
<1>2. 1 \in 1..6 /\ 1..(1 - 1) = {}
  OBVIOUS
<1> HIDE DEF Remaining
<1> QED BY <1>1, <1>2 DEF Precedes

\* A visit adds a node to the visited ones or takes one off the stack.
LEMMA VisitProgresses ==
    ASSUME VInv, SearchVisit
    PROVE  \/ Cardinality(State \ discovered') < Cardinality(State \ discovered)
           \/ discovered' = discovered /\ Len(stack') < Len(stack)
<1> DEFINE node == Last(stack)
           fresh == IF node \in discovered THEN {}
                    ELSE Successors(node) \ (discovered \cup {node})
<1>1. /\ stack \in Seq(State) /\ stack # <<>> /\ discovered \in SUBSET State
      /\ stack' = Front(stack) \o SetToSeq(fresh)
      /\ discovered' = discovered \cup {node}
  BY DEF VInv, SearchVisit
<1>2. node \in State
  <2>1. Len(stack) \in Nat \ {0}
    BY <1>1
  <2> QED BY <1>1, <2>1 DEF Last
<1>3. CASE node \notin discovered
  <2> HIDE DEF node
  <2>1. State \ discovered' = (State \ discovered) \ {node}
    BY <1>1
  <2>2. IsFiniteSet(State \ discovered) /\ node \in State \ discovered
    BY <1>2, <1>3, StateAssumption, FS_Difference
  <2>3. /\ Cardinality(State \ discovered) \in Nat
        /\ Cardinality((State \ discovered) \ {node}) = Cardinality(State \ discovered) - 1
    BY <2>2, FS_RemoveElement, FS_CardinalityType
  <2> DEFINE C == State \ discovered
             D == State \ discovered'
  <2>4. D = C \ {node} /\ Cardinality(C) \in Nat /\ Cardinality(C \ {node}) = Cardinality(C) - 1
    BY <2>1, <2>3
  <2> HIDE DEF C, D
  <2>5. Cardinality(D) < Cardinality(C)
    BY <2>4
  <2> QED BY <2>5 DEF C, D
<1>4. CASE node \in discovered
  <2>1. fresh = {}
    BY <1>4
  <2>2. SetToSeq({}) \in Seq({})
    BY FS_EmptySet, SetToSeqEnumerates
  <2> DEFINE seq == SetToSeq({})
  <2> HIDE DEF seq
  <2>3. seq \in Seq({})
    BY <2>2 DEF seq
  <2>4. seq = <<>>
    <3>1. Len(seq) \in Nat /\ \A i \in 1..Len(seq) : seq[i] \in {}
      BY <2>3
    <3>2. Len(seq) = 0
      <4>1. Len(seq) > 0 => 1 \in 1..Len(seq)
        BY <3>1
      <4> QED BY <3>1, <4>1
    <3> QED BY <2>3, <3>2
  <2>5. Front(stack) \in Seq(State) /\ Len(Front(stack)) = Len(stack) - 1 /\ Len(stack) \in Nat
    <3>1. Len(stack) \in Nat \ {0}
      BY <1>1
    <3>2. Front(stack) \in Seq(State) /\ DOMAIN Front(stack) = 1..(Len(stack) - 1)
      BY <1>1, <3>1 DEF Front
    <3> DEFINE front == Front(stack)
    <3> HIDE DEF front
    <3>3. front \in Seq(State) /\ DOMAIN front = 1..(Len(stack) - 1)
      BY <3>2 DEF front
    <3>4. Len(front) = Len(stack) - 1
      BY <3>1, <3>3
    <3> QED BY <3>1, <3>3, <3>4 DEF front
  <2>6. stack' = Front(stack) \o seq
    BY <1>1, <2>1 DEF seq
  <2>7. Len(stack') = Len(Front(stack))
    BY <2>4, <2>5, <2>6
  <2> QED BY <1>1, <1>4, <2>5, <2>7
<1> QED BY <1>3, <1>4

LEMMA StepPrecedes ==
    ASSUME ParseInv, VInv, Next
    PROVE  Precedes(Remaining', Remaining)
<1> USE DEF structure, locals, search
<1> DEFINE now == Remaining
           new == Remaining'
<1>1. ASSUME NEW e, Reject(e), phase \notin {"accepted", "rejected"}
      PROVE  Precedes(Remaining', Remaining)
  <2>1. phase' = "rejected"
    BY <1>1 DEF Reject
  <2>2. Rank(phase') < Rank(phase)
    BY <1>1, <2>1 DEF Rank, ParseInv, FrameInv
  <2> QED BY <2>2, LowerRank
<1>2. ASSUME NEW e, Enter(e), Rank(e) < Rank(phase)
      PROVE  Precedes(Remaining', Remaining)
  BY <1>2, LowerRank DEF Enter
<1>3. CASE CheckArgs
  <2>1. phase = "args" /\ (Reject("ChannelSize") \/ Enter("types"))
    BY <1>3 DEF CheckArgs
  <2>2. Rank("types") < Rank(phase)
    BY <2>1 DEF Rank
  <2> QED BY <1>1, <1>2, <2>1, <2>2
<1>4. CASE CheckTypes
  <2>1. phase = "types" /\ ((\E e : Reject(e)) \/ Enter("parse"))
    BY <1>4 DEF CheckTypes
  <2>2. Rank("parse") < Rank(phase)
    BY <2>1 DEF Rank
  <2> QED BY <1>1, <1>2, <2>1, <2>2
<1>5. CASE ParseBegins
  <2>1. CASE ~NextMethod.is_async
    <3>1. phase = "parse" /\ Reject("NotAsync")
      BY <1>5, <2>1 DEF ParseBegins
    <3> QED BY <1>1, <3>1
  <2>2. CASE NextMethod.is_async
    <3>1. phase = "parse" /\ phase' = "attrs" /\ handlers' = handlers /\ methods' = methods
      BY <1>5, <2>2 DEF ParseBegins, methods
    <3>2. new[1] = now[1] /\ new[2] = now[2] /\ new[3] < now[3]
      BY <3>1 DEF Remaining, Rank
    <3>3. 3 \in 1..6 /\ 1..(3 - 1) = {1, 2}
      OBVIOUS
    <3> HIDE DEF now, new
    <3>4. Precedes(new, now)
      BY <3>2, <3>3 DEF Precedes
    <3> QED BY <3>4 DEF new, now
  <2> QED BY <2>1, <2>2
<1>6. ASSUME NEW kind, IsNextAttr(kind), NEW p, Record(p)
      PROVE  Precedes(Remaining', Remaining)
  <2>1. /\ phase = "attrs" /\ phase' = phase /\ handlers' = handlers /\ methods' = methods
        /\ NextMethod' = NextMethod /\ looked' = looked + 1
    BY <1>6 DEF IsNextAttr, Record, methods, NextMethod
  <2>2. Len(NextMethod.attrs) \in Nat /\ looked \in Nat
    BY <1>6, NextAttrFacts
  <2>3. new[1] = now[1] /\ new[2] = now[2] /\ new[3] = now[3]
    BY <2>1 DEF Remaining
  <2>4. new[4] < now[4]
    <3>1. now[4] = Len(NextMethod.attrs) - looked
      BY <2>1 DEF Remaining
    <3>2. new[4] = Len(NextMethod.attrs) - (looked + 1)
      BY <2>1 DEF Remaining
    <3> HIDE DEF now, new
    <3> QED BY <2>2, <3>1, <3>2
  <2>5. 4 \in 1..6 /\ 1..(4 - 1) = {1, 2, 3}
    OBVIOUS
  <2> HIDE DEF now, new
  <2>6. Precedes(new, now)
    BY <2>3, <2>4, <2>5 DEF Precedes
  <2> QED BY <2>6 DEF new, now
<1>7. CASE ParseOn \/ ParseOnTimeout \/ ParseStateTimeout \/ ParseMalformed
  <2>1. \/ \E kind, p : IsNextAttr(kind) /\ Record(p)
        \/ phase = "attrs" /\ \E e : Reject(e)
    BY <1>7 DEF ParseOn, ParseOnTimeout, ParseStateTimeout, ParseMalformed, IsNextAttr
  <2> QED BY <1>1, <1>6, <2>1
<1>8. CASE ParseEnds
  <2>1. CASE MethodError # "none"
    <3>1. phase = "attrs" /\ Reject(MethodError)
      BY <1>8, <2>1 DEF ParseEnds
    <3> QED BY <1>1, <3>1
  <2>2. CASE MethodError = "none"
    <3>1. /\ phase = "attrs" /\ phase' = "parse" /\ methods' = methods
          /\ handlers' = Append(handlers, ParsedHandler)
      BY <1>8, <2>2 DEF ParseEnds, methods
    <3>2. now[2] \in Nat /\ Len(handlers) \in Nat /\ Len(handlers') = Len(handlers) + 1
      <4>1. handlers \in Seq(ToSet(handlers))
        BY DEF ParseInv, MethodsInv, IsSequence
      <4>2. now[2] \in Nat
        BY RemainingIsNatural
      <4> DEFINE S == ToSet(handlers) \cup {ParsedHandler}
      <4>3. handlers \in Seq(S) /\ ParsedHandler \in S
        BY <4>1
      <4> HIDE DEF S, now
      <4>4. Len(Append(handlers, ParsedHandler)) = Len(handlers) + 1 /\ Len(handlers) \in Nat
        BY <4>3
      <4> QED BY <3>1, <4>2, <4>4
    <3>3. new[1] = now[1]
      BY <3>1 DEF Remaining, Rank
    <3>4. now[2] = Len(methods) - Len(handlers) /\ new[2] = Len(methods) - Len(handlers')
      BY <3>1 DEF Remaining
    <3>5. Len(methods) \in Nat
      <4>1. methods \in Seq(ToSet(methods))
        BY ImplBlockAssumption DEF ParseInv, FrameInv, methods
      <4> DEFINE ms == methods
      <4> HIDE DEF ms
      <4>2. ms \in Seq(ToSet(ms))
        BY <4>1 DEF ms
      <4>3. Len(ms) \in Nat
        BY <4>2
      <4> QED BY <4>3 DEF ms
    <3>6. 2 \in 1..6 /\ 1..(2 - 1) = {1}
      OBVIOUS
    <3> HIDE DEF now, new
    <3>7. new[2] < now[2]
      BY <3>2, <3>4, <3>5
    <3>8. Precedes(new, now)
      BY <3>3, <3>6, <3>7 DEF Precedes
    <3> QED BY <3>8 DEF new, now
  <2> QED BY <2>1, <2>2
<1>9. CASE AllParsed
  <2>1. phase = "parse" /\ Enter("contract")
    BY <1>9 DEF AllParsed
  <2>2. Rank("contract") < Rank(phase)
    BY <2>1 DEF Rank
  <2> QED BY <1>2, <2>1, <2>2
<1>10. CASE CheckContract
  <2>1. phase = "contract" /\ ((\E e : Reject(e)) \/ Enter("consistency"))
    BY <1>10 DEF CheckContract
  <2>2. Rank("consistency") < Rank(phase)
    BY <2>1 DEF Rank
  <2> QED BY <1>1, <1>2, <2>1, <2>2
<1>11. CASE CheckConsistency
  <2>1. phase = "consistency" /\ phase' \in {"rejected", "search"}
    BY <1>11 DEF CheckConsistency, Reject
  <2>2. Rank(phase') < Rank(phase)
    BY <2>1 DEF Rank
  <2> QED BY <2>2, LowerRank
<1>12. CASE SearchVisit
  <2>1. /\ phase' = phase /\ phase = "search" /\ handlers' = handlers /\ methods' = methods
    BY <1>12 DEF SearchVisit, methods
  <2>2. new[1] = now[1] /\ new[2] = now[2] /\ new[3] = now[3] /\ new[4] = now[4]
    BY <2>1 DEF Remaining
  <2>3. /\ now[5] = Cardinality(State \ discovered) /\ new[5] = Cardinality(State \ discovered')
        /\ now[6] = Len(stack) /\ new[6] = Len(stack')
    BY DEF Remaining
  <2>4. new[5] < now[5] \/ (new[5] = now[5] /\ new[6] < now[6])
    <3>1. CASE Cardinality(State \ discovered') < Cardinality(State \ discovered)
      BY <2>3, <3>1
    <3>2. CASE discovered' = discovered /\ Len(stack') < Len(stack)
      BY <2>3, <3>2
    <3> QED BY <1>12, <3>1, <3>2, VisitProgresses
  <2>5. 5 \in 1..6 /\ 6 \in 1..6 /\ 1..(5 - 1) = {1, 2, 3, 4} /\ 1..(6 - 1) = {1, 2, 3, 4, 5}
    OBVIOUS
  <2> HIDE DEF now, new
  <2>6. Precedes(new, now)
    BY <2>2, <2>4, <2>5 DEF Precedes
  <2> QED BY <2>6 DEF new, now
<1>13. CASE SearchEnds
  <2>1. phase = "search" /\ phase' \in {"accepted", "rejected"}
    BY <1>13 DEF SearchEnds, Enter, Reject
  <2>2. Rank(phase') < Rank(phase)
    BY <2>1 DEF Rank
  <2> QED BY <2>2, LowerRank
<1> QED BY <1>3, <1>4, <1>5, <1>7, <1>8, <1>9, <1>10, <1>11, <1>12, <1>13 DEF Next

\* For every set of identifiers and every impl block, each step of the macro
\* leaves less to do in a well-founded order: no machine, whatever the cycles of
\* its graph, keeps the parser or the depth-first search going for ever.
THEOREM MacroTerminates == Spec => EveryStepProgresses
<1> DEFINE Natural == \A i \in 1..6 : Remaining[i] \in Nat
           Progress == /\ Precedes(Remaining', Remaining)
                       /\ \A i \in 1..6 : Remaining'[i] >= 0
<1>1. ParseInv /\ VInv => Natural
  BY RemainingIsNatural
<1>2. ASSUME ParseInv, VInv, Next, Natural'
      PROVE  Progress
  <2>1. Precedes(Remaining', Remaining)
    BY <1>2, StepPrecedes
  <2> DEFINE new == Remaining'
  <2>2. \A i \in 1..6 : new[i] \in Nat
    BY <1>2
  <2> HIDE DEF new
  <2>3. \A i \in 1..6 : new[i] >= 0
    BY <2>2
  <2> QED BY <2>1, <2>3 DEF new
<1> HIDE DEF Progress, Natural
<1>3. ParseInv /\ VInv /\ Natural' /\ [Next]_vars => [Progress]_vars
  BY <1>2
<1>4. Spec => []VInv
  BY VInit, VNext, PTL DEF Spec
<1>5. Spec => [][Progress]_vars
  BY <1>1, <1>3, <1>4, ParserInvariant, PTL DEF Spec
<1> QED BY <1>5 DEF Progress, EveryStepProgresses
=============================================================================

------------------------ MODULE FsmValidationProofs ------------------------
(***************************************************************************)
(* The verdict of FsmStructure::validate, for every set of identifiers,    *)
(* every impl block and whatever handlers the parser makes of it.          *)
(***************************************************************************)
EXTENDS FsmValidation, FsmDefinitionProofs, FiniteSetTheorems

-----------------------------------------------------------------------------
(* Sequences.                                                              *)

\* SetToSeq enumerates a finite set: all of it and nothing else.
LEMMA SetToSeqEnumerates ==
    ASSUME NEW S, IsFiniteSet(S)
    PROVE  SetToSeq(S) \in Seq(S) /\ ToSet(SetToSeq(S)) = S
<1> DEFINE n == Cardinality(S)
           f == SetToSeq(S)
<1>1. n \in Nat /\ ExistsBijection(1..n, S)
  BY FS_CardinalityType
<1>2. \E g \in [1..n -> S] : IsInjective(g)
  BY <1>1, Zenon DEF ExistsBijection, Bijection, Injection
<1>3. f \in [1..n -> S] /\ IsInjective(f)
  BY <1>2, Zenon DEF SetToSeq
<1>4. f \in Injection(1..n, S)
  BY <1>3, Zenon DEF Injection
<1>5. Cardinality(1..n) = n
  BY <1>1, FS_Interval, SMT
<1>6. f \in Surjection(1..n, S)
  BY <1>4, <1>5, FS_Injection, Zenon
<1>7. \A x \in S : \E i \in 1..n : f[i] = x
  BY <1>6, Zenon DEF Surjection
<1>8. DOMAIN f = 1..n /\ \A i \in 1..n : f[i] \in S
  BY <1>3
<1>9. ToSet(f) = S
  BY <1>7, <1>8, Zenon DEF ToSet
<1>10. f \in Seq(S)
  <2> HIDE DEF f, n
  <2> QED BY <1>1, <1>3
<1> QED BY <1>9, <1>10

\* What a stack holds after its top is popped and others are pushed.
LEMMA PopAndPush ==
    ASSUME NEW S, NEW s \in Seq(S), s # <<>>, NEW t \in Seq(S)
    PROVE  /\ Last(s) \in S
           /\ Front(s) \o t \in Seq(S)
           /\ ToSet(s) = ToSet(Front(s)) \cup {Last(s)}
           /\ ToSet(Front(s) \o t) = ToSet(Front(s)) \cup ToSet(t)
<1>1. Len(s) \in Nat \ {0} /\ DOMAIN s = 1..Len(s)
  OBVIOUS
<1>2. /\ Front(s) \in Seq(S)
      /\ DOMAIN Front(s) = 1..(Len(s) - 1)
      /\ \A i \in 1..(Len(s) - 1) : Front(s)[i] = s[i]
  BY <1>1 DEF Front
<1>3. Last(s) = s[Len(s)] /\ Last(s) \in S
  BY <1>1 DEF Last
<1>4. ToSet(s) = ToSet(Front(s)) \cup {Last(s)}
  <2>1. 1..Len(s) = 1..(Len(s) - 1) \cup {Len(s)}
    BY <1>1
  <2> QED BY <1>1, <1>2, <1>3, <2>1, Zenon DEF ToSet
<1> DEFINE a == Front(s)
           b == a \o t
<1> HIDE DEF a
<1>5. a \in Seq(S)
  BY <1>2 DEF a
<1>6. /\ b \in Seq(S)
      /\ \A i \in DOMAIN b : b[i] \in ToSet(a) \cup ToSet(t)
      /\ \A i \in DOMAIN a : i \in DOMAIN b /\ b[i] = a[i]
      /\ \A i \in DOMAIN t : Len(a) + i \in DOMAIN b /\ b[Len(a) + i] = t[i]
  <2>1. b \in Seq(S) /\ Len(b) = Len(a) + Len(t)
    BY <1>5
  <2>2. ASSUME NEW i \in DOMAIN b PROVE b[i] \in ToSet(a) \cup ToSet(t)
    <3>1. CASE i <= Len(a)
      BY <1>5, <2>1, <3>1 DEF ToSet
    <3>2. CASE i > Len(a)
      <4>1. i - Len(a) \in DOMAIN t /\ b[i] = t[i - Len(a)]
        BY <1>5, <2>1, <3>2
      <4> QED BY <4>1 DEF ToSet
    <3> QED BY <1>5, <2>1, <3>1, <3>2
  <2>3. ASSUME NEW i \in DOMAIN a PROVE i \in DOMAIN b /\ b[i] = a[i]
    BY <1>5, <2>1
  <2>4. ASSUME NEW i \in DOMAIN t PROVE Len(a) + i \in DOMAIN b /\ b[Len(a) + i] = t[i]
    BY <1>5, <2>1
  <2> QED BY <2>1, <2>2, <2>3, <2>4
<1>7. ToSet(b) = ToSet(a) \cup ToSet(t)
  <2> HIDE DEF b
  <2>1. ToSet(b) \subseteq ToSet(a) \cup ToSet(t)
    BY <1>6 DEF ToSet
  <2>2. ToSet(a) \cup ToSet(t) \subseteq ToSet(b)
    BY <1>6, Zenon DEF ToSet
  <2> QED BY <2>1, <2>2
<1> QED BY <1>3, <1>4, <1>6, <1>7 DEF a

-----------------------------------------------------------------------------
(* The checks before the search.                                           *)

IsSequence(s) == s \in Seq(ToSet(s))

\* validate_timeout_contract counts the timeout handlers.
LEMMA ContractCounts ==
    ASSUME IsSequence(handlers)
    PROVE  Cardinality(TimeoutHandlers) > 1 <=> ~OneTimeoutHandler(handlers)
<1> DEFINE T == TimeoutHandlers
<1>1. IsFiniteSet(T)
  <2>1. Len(handlers) \in Nat /\ DOMAIN handlers = 1..Len(handlers)
    BY DEF IsSequence
  <2>2. IsFiniteSet(1..Len(handlers))
    BY <2>1, FS_Interval
  <2>3. T \in SUBSET (1..Len(handlers))
    BY <2>1 DEF TimeoutHandlers
  <2> QED BY <2>2, <2>3, FS_Subset, Zenon
<1>2. Cardinality(T) \in Nat
  BY <1>1, FS_CardinalityType
<1>3. ASSUME NEW i \in T, NEW j \in T, i # j PROVE Cardinality(T) > 1
  <2>1. IsFiniteSet({i}) /\ Cardinality({i}) = 1
    BY FS_Singleton
  <2>2. Cardinality({i} \cup {j}) = 2
    BY <1>3, <2>1, FS_AddElement
  <2>3. Cardinality({i} \cup {j}) <= Cardinality(T)
    BY <1>1, FS_Subset
  <2> QED BY <1>2, <2>2, <2>3
<1>4. ASSUME \A i, j \in T : i = j PROVE Cardinality(T) <= 1
  <2>1. CASE T = {}
    BY <2>1, FS_EmptySet
  <2>2. CASE T # {}
    <3>1. PICK i \in T : T = {i}
      BY <1>4, <2>2
    <3> QED BY <3>1, FS_Singleton
  <2> QED BY <2>1, <2>2
<1>5. OneTimeoutHandler(handlers) <=> \A i, j \in T : i = j
  BY DEF OneTimeoutHandler, TimeoutHandlers
<1> QED BY <1>2, <1>3, <1>4, <1>5

\* What the map of validate_state_timeout_consistency holds for s when method i
\* is looked at: the duration of the first method that arms s, if one did.
LEMMA PrefixTimeout ==
    ASSUME NEW S, NEW h \in Seq(S), NEW i \in DOMAIN h, NEW s \in State
    PROVE  \/ /\ TimeoutOf(SubSeq(h, 1, i - 1), s) = NoTimeout
              /\ \A j \in 1..(i - 1) : ~Arms(h[j], s)
           \/ \E k \in 1..(i - 1) :
                 /\ Arms(h[k], s)
                 /\ \A j \in 1..(k - 1) : ~Arms(h[j], s)
                 /\ TimeoutOf(SubSeq(h, 1, i - 1), s) = h[k].timeout
<1> DEFINE p == SubSeq(h, 1, i - 1)
           T == {k \in 1..(i - 1) : Arms(h[k], s)}
<1>1. i \in 1..Len(h) /\ Len(h) \in Nat
  OBVIOUS
<1>2. DOMAIN p = 1..(i - 1) /\ \A k \in 1..(i - 1) : p[k] = h[k]
  BY <1>1
<1> HIDE DEF p
<1>3. s \in StatesWithTimeout(p) <=> T # {}
  BY <1>2 DEF StatesWithTimeout
<1>4. CASE T = {}
  BY <1>3, <1>4 DEF p, TimeoutOf
<1>5. CASE T # {}
  <2>1. PICK least \in T : \A y \in T : least <= y
    <3>1. T \in SUBSET Nat
      BY <1>1
    <3> HIDE DEF T
    <3> QED BY <1>5, <3>1, NonemptyHasLeast
  <2>2. IsFirstArming(p, least, s)
    BY <1>1, <1>2, <2>1 DEF IsFirstArming
  <2> DEFINE k == CHOOSE k \in DOMAIN p : IsFirstArming(p, k, s)
  <2>3. k \in DOMAIN p /\ IsFirstArming(p, k, s)
    BY <1>2, <2>1, <2>2, Zenon
  <2>4. TimeoutOf(p, s) = p[k].timeout
    BY <1>3, <1>5, Zenon DEF TimeoutOf
  <2> HIDE DEF k
  <2>5. k \in 1..(i - 1) /\ p[k] = h[k]
    BY <1>2, <2>3
  <2>6. \A j \in 1..(k - 1) : p[j] = h[j]
    BY <1>1, <1>2, <2>5
  <2>7. Arms(h[k], s) /\ \A j \in 1..(k - 1) : ~Arms(h[j], s)
    BY <2>3, <2>5, <2>6 DEF IsFirstArming
  <2> QED BY <2>4, <2>5, <2>7 DEF p
<1> QED BY <1>4, <1>5

\* Comparing each method with the first that arms the state finds every conflict.
LEMMA ConsistencyChecked ==
    ASSUME IsSequence(handlers)
    PROVE  (\E i \in DOMAIN handlers : \E s \in State : Conflict(i, s))
              <=> ~TimeoutsAreConsistent(handlers)
<1> DEFINE S == ToSet(handlers)
<1>1. handlers \in Seq(S) /\ DOMAIN handlers \in SUBSET Nat
  BY DEF IsSequence
<1> HIDE DEF S
<1>2. ASSUME NEW i \in DOMAIN handlers, NEW s \in State, Conflict(i, s)
      PROVE  ~TimeoutsAreConsistent(handlers)
  <2>1. Existing(i, s) \notin {NoTimeout, handlers[i].timeout} /\ Arms(handlers[i], s)
    BY <1>2 DEF Conflict
  <2>2. PICK k \in 1..(i - 1) : Arms(handlers[k], s) /\ Existing(i, s) = handlers[k].timeout
    BY <1>1, <2>1, PrefixTimeout DEF Existing
  <2>3. k \in DOMAIN handlers
    BY <1>1
  <2> QED BY <2>1, <2>2, <2>3 DEF TimeoutsAreConsistent
<1>3. ASSUME NEW s \in State, \A i \in DOMAIN handlers : ~Conflict(i, s),
             NEW a \in DOMAIN handlers, NEW b \in DOMAIN handlers,
             Arms(handlers[a], s), Arms(handlers[b], s)
      PROVE  handlers[a].timeout = handlers[b].timeout
  <2> DEFINE T == {i \in DOMAIN handlers : Arms(handlers[i], s)}
  <2>1. PICK k \in T : \A j \in T : k <= j
    <3>1. T \in SUBSET Nat /\ T # {}
      BY <1>1, <1>3
    <3> HIDE DEF T
    <3> QED BY <3>1, NonemptyHasLeast
  <2>2. ASSUME NEW j \in T PROVE handlers[j].timeout = handlers[k].timeout
    <3>1. CASE j = k
      BY <3>1
    <3>2. CASE j # k
      <4>1. k \in 1..(j - 1)
        BY <1>1, <2>1, <3>2
      <4>2. PICK first \in 1..(j - 1) : /\ Arms(handlers[first], s)
                                        /\ \A l \in 1..(first - 1) : ~Arms(handlers[l], s)
                                        /\ Existing(j, s) = handlers[first].timeout
        BY <1>1, <2>1, <4>1, PrefixTimeout DEF Existing
      <4>3. first \in T
        BY <1>1, <4>2
      <4>4. first = k
        <5>1. k <= first
          BY <2>1, <4>3
        <5>2. ~(k < first)
          BY <1>1, <2>1, <4>2
        <5> QED BY <1>1, <4>2, <5>1, <5>2
      <4>5. Existing(j, s) = handlers[k].timeout /\ Existing(j, s) # NoTimeout
        BY <2>1, <4>2, <4>4 DEF Arms
      <4>6. ~Conflict(j, s)
        BY <1>3
      <4> QED BY <4>5, <4>6 DEF Conflict
    <3> QED BY <3>1, <3>2
  <2>3. a \in T /\ b \in T
    BY <1>3
  <2> QED BY <2>2, <2>3
<1>4. ASSUME \A i \in DOMAIN handlers : \A s \in State : ~Conflict(i, s)
      PROVE  TimeoutsAreConsistent(handlers)
  BY <1>3, <1>4 DEF TimeoutsAreConsistent
<1> QED BY <1>2, <1>4

-----------------------------------------------------------------------------
(* The search.                                                             *)

Found == discovered \cup ToSet(stack)

\* No node outside of what can be reached is found, the first is, and the
\* successors of a visited node are not forgotten.
SearchInv ==
    /\ stack \in Seq(State)
    /\ discovered \in SUBSET State
    /\ \A C \in SUBSET State :
        InitialState \in C /\ (\A e \in Edges(handlers) : e[1] \in C => e[2] \in C) => Found \subseteq C
    /\ InitialState \in Found
    /\ \A s \in discovered : Successors(s) \subseteq Found

VInv ==
    /\ IsSequence(handlers)
    /\ stack \in Seq(State) /\ discovered \in SUBSET State
    /\ phase \in {"args", "types", "parse", "attrs", "contract", "consistency"} => discovered = {}
    /\ phase \in {"consistency", "search"} =>
            OneTimeoutHandler(handlers) /\ TimeoutsAreHandled(handlers)
    /\ phase = "search" => TimeoutsAreConsistent(handlers) /\ SearchInv

\* What a visit adds is found from what was found.
LEMMA VisitKeepsSearchInv ==
    ASSUME SearchInv, SearchVisit
    PROVE  SearchInv'
<1> DEFINE node == Last(stack)
           fresh == IF node \in discovered THEN {}
                    ELSE Successors(node) \ (discovered \cup {node})
           seq == SetToSeq(fresh)
<1>1. /\ stack \in Seq(State) /\ stack # <<>> /\ discovered \in SUBSET State
      /\ stack' = Front(stack) \o seq
      /\ discovered' = discovered \cup {node}
      /\ handlers' = handlers
  BY DEF SearchInv, SearchVisit, structure
<1>2. fresh \in SUBSET State /\ IsFiniteSet(fresh)
  <2>1. fresh \in SUBSET State
    BY DEF Successors
  <2> HIDE DEF fresh
  <2> QED BY <2>1, StateAssumption, FS_Subset
<1>3. seq \in Seq(State) /\ ToSet(seq) = fresh
  <2> HIDE DEF fresh
  <2>1. seq \in Seq(fresh) /\ ToSet(seq) = fresh
    BY <1>2, SetToSeqEnumerates
  <2> HIDE DEF seq
  <2> QED BY <1>2, <2>1
<1>4. /\ node \in State
      /\ stack' \in Seq(State)
      /\ ToSet(stack) = ToSet(Front(stack)) \cup {node}
      /\ ToSet(stack') = ToSet(Front(stack)) \cup fresh
  <2> HIDE DEF fresh, seq
  <2> DEFINE Popped(s, t) ==
                /\ Last(s) \in State
                /\ Front(s) \o t \in Seq(State)
                /\ ToSet(s) = ToSet(Front(s)) \cup {Last(s)}
                /\ ToSet(Front(s) \o t) = ToSet(Front(s)) \cup ToSet(t)
  <2>1. \A s, t \in Seq(State) : s # <<>> => Popped(s, t)
    BY PopAndPush
  <2> HIDE DEF Popped
  <2>2. Popped(stack, seq)
    BY <1>1, <1>3, <2>1, Zenon
  <2> QED BY <1>1, <1>3, <2>2, Zenon DEF Popped
<1>5. Found' = Found \cup fresh /\ node \in Found
  <2>1. Found' = (discovered \cup {node}) \cup (ToSet(Front(stack)) \cup fresh)
    BY <1>1, <1>4 DEF Found
  <2>2. Found = discovered \cup (ToSet(Front(stack)) \cup {node})
    BY <1>4 DEF Found
  <2> QED BY <2>1, <2>2
<1>6. fresh \subseteq Successors(node)
  OBVIOUS
<1> HIDE DEF node, fresh, seq
<1>7. ASSUME NEW C \in SUBSET State, InitialState \in C,
             \A e \in Edges(handlers) : e[1] \in C => e[2] \in C
      PROVE  Found' \subseteq C
  <2>1. Found \subseteq C
    BY <1>7 DEF SearchInv
  <2>2. ASSUME NEW t \in fresh PROVE t \in C
    <3>1. <<node, t>> \in Edges(handlers)
      BY <1>6 DEF Successors
    <3> QED BY <1>5, <1>7, <2>1, <3>1
  <2> QED BY <1>5, <2>1, <2>2
<1>8. ASSUME NEW s \in discovered' PROVE Successors(s) \subseteq Found'
  <2>1. CASE s \in discovered
    BY <1>5, <2>1 DEF SearchInv
  <2>2. CASE s = node /\ node \notin discovered
    BY <1>1, <1>5, <2>2 DEF fresh, Found
  <2> QED BY <1>1, <1>8, <2>1, <2>2
<1>9. \A s : Successors(s)' = Successors(s)
  BY <1>1 DEF Successors
<1>10. Edges(handlers)' = Edges(handlers)
  BY <1>1
<1>11. InitialState \in Found'
  BY <1>5 DEF SearchInv
<1>12. discovered' \in SUBSET State
  BY <1>1, <1>4
<1>13. \A s \in discovered' : Successors(s)' \subseteq Found'
  BY <1>8, <1>9, Zenon
<1>14. \A C \in SUBSET State :
        InitialState \in C /\ (\A e \in Edges(handlers)' : e[1] \in C => e[2] \in C) => Found' \subseteq C
  BY <1>7, <1>10, Zenon
<1> QED BY <1>4, <1>11, <1>12, <1>13, <1>14, Zenon DEF SearchInv

\* When the stack is empty, what the search has visited is what can be reached.
LEMMA SearchDecides ==
    ASSUME SearchInv, stack = <<>>
    PROVE  States(handlers, InitialState) \subseteq discovered <=> AllReachable(handlers, InitialState)
<1>1. Found = discovered
  BY DEF Found, ToSet
<1>2. ASSUME NEW s \in discovered PROVE Reaches(Edges(handlers), InitialState, s)
  BY <1>1 DEF SearchInv, Reaches
<1>3. ASSUME NEW s, Reaches(Edges(handlers), InitialState, s) PROVE s \in discovered
  <2>1. discovered \in SUBSET State /\ InitialState \in discovered
    BY <1>1 DEF SearchInv
  <2>2. ASSUME NEW e \in Edges(handlers), e[1] \in discovered PROVE e[2] \in discovered
    <3>1. e[2] \in Successors(e[1])
      BY DEF Edges, Successors
    <3> QED BY <1>1, <2>2, <3>1 DEF SearchInv
  <2> QED BY <1>3, <2>1, <2>2 DEF Reaches
<1> QED BY <1>2, <1>3 DEF AllReachable

-----------------------------------------------------------------------------
(* The steps.                                                              *)

LEMMA VInit == Init => VInv
<1> SUFFICES ASSUME Init PROVE VInv
  OBVIOUS
<1>1. handlers = <<>> /\ phase = "args" /\ discovered = {} /\ stack = <<>>
  BY DEF Init
<1>2. IsSequence(handlers)
  BY <1>1 DEF IsSequence
<1> QED BY <1>1, <1>2 DEF VInv

LEMMA AppendIsSequence ==
    ASSUME NEW s, IsSequence(s), NEW x
    PROVE  IsSequence(Append(s, x))
<1> DEFINE S == ToSet(s) \cup {x}
           t == Append(s, x)
<1>1. s \in Seq(ToSet(s))
  BY DEF IsSequence
<1>2. t \in Seq(S)
  <2>1. s \in Seq(S)
    BY <1>1
  <2> HIDE DEF S
  <2>2. x \in S
    BY DEF S
  <2> QED BY <2>1, <2>2
<1> HIDE DEF t
<1>3. \A i \in 1..Len(t) : t[i] \in ToSet(t)
  BY <1>2 DEF ToSet
<1> HIDE DEF S
<1>4. t \in Seq(ToSet(t))
  BY <1>2, <1>3
<1> QED BY <1>4 DEF t, IsSequence

\* Before the search a step of the parser touches neither the stack nor the
\* set of visited nodes, and only its last adds a handler.
Parses ==
    \/ ParseBegins \/ ParseOn \/ ParseOnTimeout \/ ParseStateTimeout \/ ParseMalformed
    \/ ParseEnds \/ AllParsed

LEMMA ParsesKeeps ==
    ASSUME Parses
    PROVE  /\ phase \in {"parse", "attrs"}
           /\ phase' \in {"parse", "attrs", "contract", "rejected"}
           /\ stack' = stack /\ discovered' = discovered
           /\ handlers' = handlers \/ handlers' = Append(handlers, ParsedHandler)
<1> USE DEF Reject, Enter, structure, locals, search
<1>1. CASE ParseBegins
  BY <1>1, Zenon DEF ParseBegins
<1>2. CASE ParseOn
  BY <1>2, Zenon DEF ParseOn, IsNextAttr, Record
<1>3. CASE ParseOnTimeout \/ ParseStateTimeout \/ ParseMalformed
  BY <1>3, Zenon DEF ParseOnTimeout, ParseStateTimeout, ParseMalformed, IsNextAttr, Record
<1>4. CASE ParseEnds
  BY <1>4, Zenon DEF ParseEnds
<1>5. CASE AllParsed
  BY <1>5, Zenon DEF AllParsed
<1> QED BY <1>1, <1>2, <1>3, <1>4, <1>5 DEF Parses

LEMMA VNext == VInv /\ [Next]_vars => VInv'
<1> SUFFICES ASSUME VInv, [Next]_vars PROVE VInv'
  OBVIOUS
<1> USE DEF structure, locals, search
<1>1. CASE CheckArgs
  BY <1>1, Zenon DEF VInv, CheckArgs, Reject, Enter
<1>2. CASE CheckTypes
  BY <1>2, Zenon DEF VInv, CheckTypes, Reject, Enter
<1>3. CASE Parses
  <2>1. IsSequence(handlers')
    BY <1>3, ParsesKeeps, AppendIsSequence DEF VInv
  <2> QED BY <1>3, <2>1, ParsesKeeps, Zenon DEF VInv, IsSequence
<1>4. CASE CheckContract
  <2>1. CASE phase' = "consistency"
    <3>1. phase = "contract" /\ handlers' = handlers /\ stack' = stack /\ discovered' = discovered
      BY <1>4, <2>1 DEF CheckContract, Reject, Enter
    <3>2. /\ ~(Cardinality(TimeoutHandlers) > 1)
          /\ ~(TimeoutHandlers = {} /\ \E i \in DOMAIN handlers : handlers[i].timeout # NoTimeout)
      BY <1>4, <2>1 DEF CheckContract, Reject, Enter
    <3>3. OneTimeoutHandler(handlers)
      BY <3>2, ContractCounts DEF VInv
    <3>4. TimeoutsAreHandled(handlers)
      BY <3>2 DEF TimeoutsAreHandled, HasTimeoutHandler, TimeoutHandlers
    <3> QED BY <2>1, <3>1, <3>3, <3>4 DEF VInv, IsSequence
  <2>2. CASE phase' # "consistency"
    <3>1. phase' = "rejected" /\ handlers' = handlers /\ stack' = stack /\ discovered' = discovered
      BY <1>4, <2>2 DEF CheckContract, Reject, Enter
    <3> QED BY <3>1 DEF VInv, IsSequence
  <2> QED BY <2>1, <2>2
<1>5. CASE CheckConsistency
  <2>1. CASE \E i \in DOMAIN handlers : \E s \in State : Conflict(i, s)
    <3>1. phase' = "rejected" /\ handlers' = handlers /\ stack' = stack /\ discovered' = discovered
      BY <1>5, <2>1 DEF CheckConsistency, Reject
    <3> QED BY <3>1 DEF VInv, IsSequence
  <2>2. CASE ~(\E i \in DOMAIN handlers : \E s \in State : Conflict(i, s))
    <3>1. /\ phase = "consistency" /\ phase' = "search" /\ stack' = <<InitialState>>
          /\ handlers' = handlers /\ discovered' = discovered
      BY <1>5, <2>2 DEF CheckConsistency
    <3>2. discovered' = {} /\ OneTimeoutHandler(handlers) /\ TimeoutsAreHandled(handlers)
      BY <3>1 DEF VInv
    <3>3. TimeoutsAreConsistent(handlers)
      BY <2>2, ConsistencyChecked DEF VInv
    <3>4. ToSet(stack') = {InitialState} /\ stack' \in Seq(State)
      BY <3>1, InitialStateAssumption DEF ToSet
    <3>5. Found' = {InitialState}
      BY <3>2, <3>4 DEF Found
    <3>6. SearchInv'
      BY <3>2, <3>4, <3>5 DEF SearchInv
    <3>7. stack' \in Seq(State) /\ discovered' \in SUBSET State
      BY <3>2, <3>4
    <3> QED BY <3>1, <3>2, <3>3, <3>6, <3>7 DEF VInv, IsSequence
  <2> QED BY <2>1, <2>2
<1>6. CASE SearchVisit
  <2>1. phase = "search" /\ phase' = "search" /\ handlers' = handlers
    BY <1>6 DEF SearchVisit
  <2>2. SearchInv'
    BY <1>6, <2>1, VisitKeepsSearchInv DEF VInv
  <2>3. stack' \in Seq(State) /\ discovered' \in SUBSET State
    BY <2>2 DEF SearchInv
  <2> QED BY <2>1, <2>2, <2>3 DEF VInv, IsSequence
<1>7. CASE SearchEnds
  <2>1. /\ phase' \in {"accepted", "rejected"} /\ handlers' = handlers
        /\ stack' = stack /\ discovered' = discovered
    BY <1>7 DEF SearchEnds, Enter, Reject
  <2> QED BY <2>1 DEF VInv, IsSequence
<1>8. CASE UNCHANGED vars
  <2>1. /\ phase' = phase /\ handlers' = handlers
        /\ stack' = stack /\ discovered' = discovered
    BY <1>8 DEF vars
  <2>2. SearchInv => SearchInv'
    BY <2>1 DEF SearchInv, Found, Successors
  <2> QED BY <2>1, <2>2 DEF VInv, IsSequence
<1> QED BY <1>1, <1>2, <1>3, <1>4, <1>5, <1>6, <1>7, <1>8 DEF Next, Parses

-----------------------------------------------------------------------------
Verdict ==
    /\ phase # "accepted" /\ phase' = "accepted" => IsValid(handlers, InitialState)
    /\ phase \in {"contract", "consistency", "search"} /\ phase' = "rejected"
            => ~IsValid(handlers, InitialState)

LEMMA VerdictStep == VInv /\ Next => Verdict
<1> SUFFICES ASSUME VInv, Next PROVE Verdict
  OBVIOUS
<1>1. CASE CheckArgs \/ CheckTypes
  BY <1>1 DEF Verdict, CheckArgs, CheckTypes, Reject, Enter
<1>2. CASE Parses
  BY <1>2, ParsesKeeps DEF Verdict
<1>3. CASE CheckContract
  <2>1. phase' # "accepted"
    BY <1>3 DEF CheckContract, Reject, Enter
  <2>2. ASSUME phase' = "rejected" PROVE ~IsValid(handlers, InitialState)
    <3>1. \/ Cardinality(TimeoutHandlers) > 1
          \/ TimeoutHandlers = {} /\ \E i \in DOMAIN handlers : handlers[i].timeout # NoTimeout
      BY <1>3, <2>2 DEF CheckContract, Enter
    <3>2. CASE Cardinality(TimeoutHandlers) > 1
      BY <3>2, ContractCounts DEF VInv, IsValid
    <3>3. CASE TimeoutHandlers = {} /\ \E i \in DOMAIN handlers : handlers[i].timeout # NoTimeout
      BY <3>3 DEF IsValid, TimeoutsAreHandled, HasTimeoutHandler, TimeoutHandlers
    <3> QED BY <3>1, <3>2, <3>3
  <2> QED BY <2>1, <2>2 DEF Verdict
<1>4. CASE CheckConsistency
  <2>1. phase' # "accepted"
    BY <1>4 DEF CheckConsistency, Reject
  <2>2. ASSUME phase' = "rejected" PROVE ~IsValid(handlers, InitialState)
    <3>1. \E i \in DOMAIN handlers : \E s \in State : Conflict(i, s)
      BY <1>4, <2>2 DEF CheckConsistency
    <3> QED BY <3>1, ConsistencyChecked DEF VInv, IsValid
  <2> QED BY <2>1, <2>2 DEF Verdict
<1>5. CASE SearchVisit
  BY <1>5 DEF Verdict, SearchVisit
<1>6. CASE SearchEnds
  <2>1. /\ OneTimeoutHandler(handlers) /\ TimeoutsAreHandled(handlers)
        /\ TimeoutsAreConsistent(handlers)
        /\ SearchInv /\ stack = <<>>
    BY <1>6 DEF VInv, SearchEnds
  <2>2. States(handlers, InitialState) \subseteq discovered <=> AllReachable(handlers, InitialState)
    BY <2>1, SearchDecides
  <2>3. phase' = "accepted" <=> States(handlers, InitialState) \subseteq discovered
    BY <1>6 DEF SearchEnds, Enter, Reject
  <2>4. phase' = "rejected" => ~(States(handlers, InitialState) \subseteq discovered)
    BY <1>6 DEF SearchEnds, Enter, Reject
  <2> QED BY <2>1, <2>2, <2>3, <2>4 DEF Verdict, IsValid
<1> QED BY <1>1, <1>2, <1>3, <1>4, <1>5, <1>6 DEF Next, Parses

\* For every set of identifiers and every impl block: validate() returns Ok
\* exactly for the handlers that make a valid machine (graph.rs).
THEOREM ValidatorCorrect == Spec => VerdictIsRight
<1>1. VInv /\ [Next]_vars => [Verdict]_vars
  BY VerdictStep
<1>2. Spec => []VInv
  BY VInit, VNext, PTL DEF Spec
<1>3. Spec => [][Verdict]_vars
  BY <1>1, <1>2, PTL DEF Spec
<1> QED BY <1>3 DEF Verdict, VerdictIsRight
=============================================================================

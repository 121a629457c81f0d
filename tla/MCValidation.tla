---------------------------- MODULE MCValidation ----------------------------
(***************************************************************************)
(* FsmValidation over three states, two events and three families of impl  *)
(* blocks: every sequence of up to MaxMethods well-formed methods, and of  *)
(* up to three methods among which are all the malformed ones; with every  *)
(* channel size, self type and set of associated types for two methods.    *)
(***************************************************************************)
EXTENDS FsmValidation

CONSTANT MaxMethods

Async(attrs, output) == [is_async |-> TRUE, attrs |-> attrs, payload |-> "none", output |-> output]
Transition(s) == [name |-> "Transition", args |-> <<s>>]
Result(ok, err) == [name |-> "Result", args |-> <<ok, err>>]

PlainMethods == {Async(<<On(s, "x")>>, Transition(t)) : s, t \in State}
TimedMethods == {Async(<<On(s, "x"), StateTimeout(d)>>, Transition(t)) :
                    s \in {"A", "B"}, t \in {"B", "C"}, d \in {1, 2}}
TimeoutMethods == {Async(<<OnTimeout>>, Transition(t)) : t \in State}
ResultMethods ==
    {Async(<<On("A", "y"), StateTimeout(1)>>, Result("B", "C")),
     Async(<<On("B", "y"), On("A", "y")>>, Result("C", "Error")),
     Async(<<OnTimeout, StateTimeout(2)>>, Result("C", "B"))}

WellFormedMethods == PlainMethods \cup TimedMethods \cup TimeoutMethods \cup ResultMethods

OddMethods ==
    {[Async(<<On("A", "x")>>, Transition("B")) EXCEPT !.is_async = FALSE],
     [Async(<<On("A", "x")>>, Transition("B")) EXCEPT !.payload = "Job"],
     [Async(<<On("B", "x")>>, Transition("A")) EXCEPT !.payload = "Job"],
     Async(<<On("A", "x"), On("A", "x")>>, Transition("B")),
     Async(<<On("A", "x"), On("A", "y")>>, Transition("B")),
     Async(<<On("A", "x"), On("B", "y")>>, Transition("B")),
     Async(<<On("A", "x"), OnTimeout>>, Transition("B")),
     Async(<<On("A", "x"), Malformed>>, Transition("B")),
     Async(<<OnTimeout>>, [name |-> "unit", args |-> <<>>]),
     Async(<<On("A", "x")>>, [name |-> "Transition", args |-> <<"B", "C">>]),
     Async(<<On("A", "x")>>, [name |-> "Result", args |-> <<"Error", "B">>]),
     Async(<<On("A", "x")>>, [name |-> "Result", args |-> <<"B">>]),
     Async(<<>>, [name |-> "unit", args |-> <<>>]),
     Async(<<StateTimeout(1)>>, [name |-> "unit", args |-> <<>>]),
     Async(<<On("A", "x"), StateTimeout(BadDuration)>>, Transition("B")),
     Async(<<StateTimeout(1), On("A", "x"), StateTimeout(2)>>, Transition("B")),
     Async(<<On("A", "x")>>, Transition("B")),
     Async(<<On("B", "x")>>, Transition("B")),
     Async(<<OnTimeout>>, Transition("B"))}

Block(size, self_ty, types, ms) ==
    [channel_size |-> size, self_ty |-> self_ty, types |-> types, methods |-> ms]

MethodLists ==
    UNION {[1..n -> WellFormedMethods] : n \in 0..MaxMethods}
        \cup UNION {[1..n -> OddMethods] : n \in 1..3}

Frames == {Block(size, self_ty, types, <<m>>) :
    size \in {Unset, 0, 1}, self_ty \in {"path", "tuple"}, types \in SUBSET {"Context", "Error", "Other"},
    m \in {Async(<<On("A", "x")>>, Transition("B")), Async(<<On("A", "x")>>, Transition("C"))}}

Blocks == {Block(Unset, "path", {"Context", "Error"}, ms) : ms \in MethodLists} \cup Frames
=============================================================================

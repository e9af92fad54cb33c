---------------------------- MODULE MCHeuristics ----------------------------
(* Heuristics on small problems: the delete relaxation with three leaves and *)
(* up to three actions, and the novelty measure with four subgoals.          *)
EXTENDS Heuristics

-----------------------------------------------------------------------------
(* The delete relaxation. *)
RelaxationData == INSTANCE DeleteRelaxation WITH Tasks <- {}, Kinds <- {}
Leaf(c) == RelaxationData!Leaf(c)
And(n) == RelaxationData!And(n)
Or(n) == RelaxationData!Or(n)
Inf == RelaxationData!Inf

Fact(c) == <<Leaf(<<0, c>>)>>
Both2(a, b) == Fact(a) \o Fact(b) \o <<And(2)>>
Either(a, b) == Fact(a) \o Fact(b) \o <<Or(2)>>
Nested == Fact(1) \o Fact(2) \o Fact(3) \o <<Or(2), And(2)>>

Rep(c, n) == <<[cond |-> <<0, c>>, rep |-> n]>>
Event(pre, adds, reps) ==
  [pre |-> pre, adds |-> [i \in DOMAIN adds |-> <<0, adds[i]>>], reps |-> reps, possible |-> TRUE]

Simple == {<<Event(pre, adds, <<>>)>> :
             pre \in {<<>>, Fact(1), Fact(2), Either(1, 3), Both2(1, 2)}, adds \in {<<2>>, <<3>>, <<1, 3>>}}
Numeric == {<<Event(pre, <<>>, Rep(c, n))>> : pre \in {<<>>, Fact(1)}, c \in {2, 3}, n \in {1, 3}}
Durative == {<<Event(Fact(1), <<2>>, <<>>), Event(pre, <<3>>, <<>>)>> : pre \in {<<>>, Fact(2)}}

Task(start, todo, events, timed, goal) ==
  [start |-> start, todo |-> todo, events |-> events, timed |-> timed, goal |-> goal]

Counted == {Task(<<0, 0, Inf>>, <<0, 0>>, <<a, b>>, 0, g) :
              a \in Numeric, b \in {<<[Event(p, <<3>>, <<>>) EXCEPT !.possible = x]>> :
                                    p \in {<<>>, Fact(2)}, x \in BOOLEAN}, g \in {Fact(3), Both2(2, 3)}}

Starts == {<<0, Inf, Inf>>, <<Inf, Inf, 1>>}

MCRelaxationTasks ==
  Counted
  \cup {Task(s, <<0, 0>>, <<a, b>>, 0, g) : s \in Starts, a \in Simple, b \in Simple \cup Numeric, g \in {Both2(2, 3), Nested}}
  \cup {Task(s, <<0, 0, 0>>, <<a, b, c>>, 0, Both2(2, 3)) :
          s \in Starts, a \in Numeric, b \in {x \in Numeric : x[1].pre = <<>>}, c \in {x \in Simple : Len(x[1].adds) = 2}}
  \cup {Task(s, <<j, 0>>, <<d, a>>, t, g) :
          s \in Starts, j \in {0, 1}, d \in Durative, a \in Simple, t \in {0, 2}, g \in {Nested}}

MCKinds == {"hmax", "hadd", "hff", "reach"}

-----------------------------------------------------------------------------
(* The conditions it sees, and the explicit hmax. *)
ConditionData == INSTANCE MCHeuristicConditions WITH Tasks <- {}, Objects <- <<>>, Booleans <- {}
MCConditionTasks == ConditionData!MCTasks
MCObjects == ConditionData!MCObjects
MCBooleans == ConditionData!MCBooleans
ExplicitData == INSTANCE MCExplicitHMax WITH Tasks <- {}
MCExplicitTasks == ExplicitData!MCTasks

-----------------------------------------------------------------------------
(* The novelty measure. *)
Is(v) == [is |-> v]
Reads(f) == [reads |-> f]
Prop(f, v) == [kind |-> "proposition", operand |-> Reads(f), value |-> v]
Compare(relation, l, r) == [kind |-> relation, lhs |-> l, rhs |-> r]

(* p; x >= 1; x = 2; x > y, which is not satisfied at distance zero. *)
MCLeaves == <<Prop("p", TRUE), Compare("<=", Is(1), Reads("x")), Compare("==", Reads("x"), Is(2)),
              Compare("<", Reads("y"), Reads("x"))>>
MCStates == [p : BOOLEAN, x : 0 .. 2, y : {1}]
=============================================================================

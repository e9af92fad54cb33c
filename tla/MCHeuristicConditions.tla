----------------------- MODULE MCHeuristicConditions -----------------------
(* HeuristicConditions over two numbers, a truth value and two objects. *)
EXTENDS HeuristicConditions

X == <<Fluent(1)>>
Y == <<Fluent(2)>>
P == <<Fluent(3)>>
O == <<Fluent(4)>>
U == <<Fluent(5)>>
N(n) == <<Number(n)>>
MCObjects == <<<<>>, <<>>, <<>>, <<1, 2>>, <<2, 1, 3>>>>
MCBooleans == {3}

Not(e) == Applied("not", <<e>>)
Terms == {X, Applied("*", <<N(2), X>>), Applied("-", <<X, Y>>), Applied("*", <<X, Y>>),
          Applied("+", <<Y, Applied("/", <<X, N(2)>>)>>)}
Comparisons == {Applied(k, <<a, b>>) : k \in {"<", "<=", "=="}, a \in Terms, b \in {N(1), Y}}
                 \cup {Applied(k, <<N(1), X>>) : k \in {"<", "<="}}
                 \cup {Applied("<=", <<Applied("call", <<X>>), N(1)>>)}
Facts == {P, Equals(<<Object(2)>>, O, {}), Equals(O, U, {})}
Atoms == Comparisons \cup Facts
Literals == Atoms \cup {Not(a) : a \in Atoms}
Mixed == {Junction(k, <<a, Junction("and", <<b, Junction("or", <<P, c>>)>>)>>) :
            k \in {"or", "and"}, a \in {Not(Equals(O, U, {4})), Not(Applied("==", <<X, N(1)>>))},
            b \in {Not(P), Applied("<=", <<Y, X>>)}, c \in {Equals(O, U, {}), <<True>>}}

Set(f, e) == [fluent |-> f, value |-> e]
More(f, n) == Set(f, Applied("+", <<<<Fluent(f)>>, N(n)>>))
Less(f, n) == Set(f, Applied("-", <<<<Fluent(f)>>, N(n)>>))
Operators == {<<More(1, 1)>>, <<Less(1, 4)>>, <<Less(1, 1), More(2, 2)>>, <<Set(1, N(1))>>, <<Set(1, Y), Less(2, 1)>>,
              <<Set(3, <<False>>), Set(4, <<Object(2)>>), Set(1, Applied("*", <<X, N(2)>>))>>,
              <<Set(3, Not(P)), Set(5, O), More(1, 5)>>}

Start(x, y, p, o, u) == <<Number(x), Number(y), Truth(p), Object(o), Object(u)>>

Task(c, a, b, s, d, i) ==
  [cond |-> c, ops |-> <<a, b>>, start |-> s, disabled |-> d, inadmissible |-> i]
Mover == <<Set(3, Not(P)), Set(5, O), More(1, 5)>>

MCTasks ==
  {Task(c, a, <<Less(1, 1), More(2, 2)>>, x[1], FALSE, x[2]) :
     c \in Comparisons, a \in Operators,
     x \in {<<Start(8, 2, FALSE, 1, 3), FALSE>>, <<Start(8, 2, FALSE, 1, 3), TRUE>>, <<Start(0, 2, TRUE, 2, 2), FALSE>>}}
  \cup {Task(c, a, Mover, x[1], x[2], FALSE) :
          c \in Literals \cup Mixed, a \in {<<Less(1, 4)>>, <<Set(4, <<Object(2)>>)>>},
          x \in {<<Start(8, 2, FALSE, 1, 3), FALSE>>, <<Start(8, 2, FALSE, 1, 3), TRUE>>, <<Start(1, -1, TRUE, 1, 2), FALSE>>}}
=============================================================================

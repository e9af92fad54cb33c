--------------------------- MODULE MCExplicitHMax ---------------------------
(* ExplicitHMax with two numbers among -1, 0 and 1, and a truth value; and   *)
(* with a number that grows without end.                                     *)
EXTENDS ExplicitHMax

X == <<Fluent(1)>>
Y == <<Fluent(2)>>
P == <<Fluent(3)>>
N(n) == <<Number(n)>>
Not(e) == Applied("not", <<e>>)
Eq(a, b) == Applied("==", <<a, b>>)
Product == Applied("*", <<X, Y>>)
Minus1 == Applied("-", <<N(0), X>>)
Below0(a) == Applied("<", <<a, N(0)>>)

Event(conditions, effects) == [conditions |-> conditions, effects |-> effects]
Set(f, e) == <<[fluent |-> f, value |-> e]>>

Singles == {<<Event(c, e)>> :
              c \in {<<>>, <<P>>, <<Not(P), Below0(Y)>>, <<Eq(X, Y), P>>},
              e \in {Set(1, Y), Set(1, Product), Set(2, Minus1), Set(2, N(-1)),
                     Set(3, Below0(Applied("+", <<X, Y>>))) \o Set(1, N(0))}}
Durative == {<<Event(<<>>, Set(3, Not(P))), Event(<<Below0(X)>>, Set(2, Product))>>,
             <<Event(<<P>>, Set(3, <<False>>)), Event(<<<<False>>>>, Set(1, N(-1)))>>}
MCGoals == {Junction("and", <<P, Below0(X)>>), Eq(Product, N(-1)), Junction("and", <<Not(P), Below0(Y), Eq(X, N(0))>>)}
Task(events, goal, start, todo, timed) ==
  [events |-> events, goal |-> goal, start |-> start, todo |-> todo, timed |-> timed]

(* What an action with a condition on P can enable, and two events at once.  *)
Others == {x \in Singles : x[1].conditions # <<P>>}
MCTasks ==
  {Task(<<a, <<Event(<<P>>, Set(1, e))>>, <<Event(<<>>, Set(2, Minus1))>>>>, g,
        <<Number(1), Number(0), Truth(TRUE)>>, <<0, 0, 0>>, 0) : a \in Others, e \in {Y, Product}, g \in MCGoals}
  \cup {Task(<<d, a>>, g, <<Number(1), Number(1), Truth(x[1] = 0)>>, <<x[1], 0>>, x[2]) :
          d \in Durative, a \in Others, g \in MCGoals \ {Eq(Product, N(-1))}, x \in {<<0, 0>>, <<1, 0>>, <<0, 1>>}}
  \cup {Task(<<<<Event(c, Set(1, Applied("+", <<X, N(1)>>)))>>, <<Event(<<>>, e)>>>>, g,
             <<Number(0), Number(0), Truth(TRUE)>>, <<0, 0>>, 0) :
          c \in {<<>>, <<Eq(X, Y)>>}, e \in {Set(2, X), Set(3, <<False>>)},
          g \in {Below0(X), Eq(X, N(3)), Junction("and", <<Eq(X, N(2)), Not(P)>>)}}
=============================================================================

----------------------------- MODULE MCEncoder ------------------------------
(* The instances of the encoder's analyses. *)
EXTENDS Encoder, Integers, FiniteSets, TLC

EventData == INSTANCE MCEventEncoding WITH Items <- {}, InitialStates <- {}
MCItems == EventData!MCItems
MCItemStates == EventData!MCInitialStates
SymmetryData == INSTANCE MCObjectSymmetry WITH Problems <- {}
MCSymmetryProblems == SymmetryData!MCProblems

-----------------------------------------------------------------------------
(* Relevance: up to four of seven actions over three fluents, with a timed   *)
(* one or without.                                                           *)
RelevanceData == INSTANCE Relevance WITH Fluents <- <<>>, Problems <- {}
MCFluents == <<"x", "y", "z">>
Nothing == <<>>
Action_(es, held, lasts) ==
  [events |-> es, maintained |-> held, duration |-> lasts, impossible |-> FALSE]
Event(pre, effects) == [pre |-> pre, effects |-> effects]
Sets(f) == f :> RelevanceData!Constant(TRUE)
Resets(f) == f :> RelevanceData!Constant(FALSE)
Copies(f, g) == f :> RelevanceData!Value(g)
Instant(pre, effects) == Action_(<<Event(pre, effects)>>, Nothing, RelevanceData!NoFluent)

RelevanceLibrary ==
  [ sets     |-> Instant("y" :> TRUE, Sets("x")),
    copies   |-> Instant(Nothing, Copies("y", "z")),
    frees    |-> Instant("x" :> FALSE, Sets("z")),
    clears   |-> Instant("z" :> TRUE, Resets("x") @@ Resets("z")),
    waits    |-> Action_(<<Event("z" :> FALSE, Resets("y")), Event(Nothing, Sets("y"))>>, "z" :> FALSE, "x"),
    carries  |-> Action_(<<Event(Nothing, Copies("x", "y")), Event("y" :> TRUE, Copies("z", "x"))>>, Nothing, "z"),
    never    |-> [Instant("x" :> TRUE, Sets("y")) EXCEPT !.impossible = TRUE] ]
TimedItems ==
  [ opens   |-> Action_(<<Event(Nothing, Sets("y")), Event("x" :> TRUE, Resets("z"))>>, Nothing, RelevanceData!NoFluent),
    closes  |-> Action_(<<Event("y" :> FALSE, Copies("z", "y")), Event(Nothing, Sets("x"))>>, "z" :> FALSE,
                        RelevanceData!NoFluent),
    strikes |-> Instant("x" :> FALSE, Sets("y") @@ Copies("z", "y")) ]

RelevanceProblem(names, timed, goal, init) ==
  [actions |-> [a \in names |-> RelevanceLibrary[a]]
                 @@ (IF timed = RelevanceData!NoTimed THEN <<>> ELSE timed :> TimedItems[timed]),
   timed |-> timed, goal |-> goal, init |-> init]
MCRelevanceProblems ==
  {RelevanceProblem(names, timed, goal, init) :
     names \in {s \in SUBSET DOMAIN RelevanceLibrary : Cardinality(s) \in 1 .. 4},
     timed \in {RelevanceData!NoTimed, "opens", "closes", "strikes"},
     goal \in {"x" :> TRUE, "y" :> TRUE @@ "z" :> FALSE, "x" :> FALSE @@ "z" :> TRUE},
     init \in {[f \in {"x", "y", "z"} |-> FALSE], [f \in {"x", "y", "z"} |-> f # "z"]}}

-----------------------------------------------------------------------------
(* Compression: up to three of fifteen actions over four fluents.            *)
CompressionData == INSTANCE CompressionSafety WITH Problems <- {}
F == <<"f", 1>>
F2 == <<"f", 2>>
P == <<"p", 1>>
Q == <<"q", 1>>

Literal(f, v) == CompressionData!Literal(f, v)
Between(i, j, lo, ro, c) == [lower |-> i, upper |-> j, leftOpen |-> lo, rightOpen |-> ro, that |-> c]
Over(i, j, c) == Between(i, j, i # j, i # j, c)
Makes(i, f, v) == [at |-> i, fluent |-> f, value |-> CompressionData!Constant(v)]
Takes(i, f, g) == [at |-> i, fluent |-> f, value |-> CompressionData!Value(g)]
Lasting(conditions, effects) ==
  [durative |-> TRUE, conditions |-> conditions, effects |-> effects, duration |-> {}]
Sudden(conditions, effects) == [Lasting(conditions, effects) EXCEPT !.durative = FALSE]

CompressionLibrary ==
  [ lights   |-> Lasting({Over(0, 0, Literal(P, FALSE))}, {Makes(0, P, TRUE), Makes(2, F, TRUE)}),
    burns    |-> Lasting({Over(0, 2, Literal(P, TRUE)), Over(2, 2, Literal(P, TRUE))}, {Makes(2, F, TRUE)}),
    ends     |-> Lasting({Over(2, 2, Literal(Q, TRUE))}, {Makes(2, F, TRUE)}),
    passes   |-> Lasting({Over(1, 1, Literal(Q, TRUE))}, {Makes(2, F, TRUE)}),
    midway   |-> Lasting({Between(0, 2, FALSE, TRUE, Literal(Q, TRUE))}, {Makes(1, F, FALSE), Makes(2, P, TRUE)}),
    clears   |-> Lasting({}, {Makes(0, P, TRUE), Makes(2, F, FALSE)}),
    copies   |-> Lasting({}, {Takes(2, Q, P)}),
    reads    |-> Sudden({}, {Takes(0, Q, F)}),
    needs    |-> Sudden({Over(0, 0, Literal(F, TRUE))}, {Makes(0, Q, TRUE)}),
    lacks    |-> Sudden({Over(0, 0, Literal(F2, FALSE))}, {Makes(0, Q, TRUE), Makes(0, P, FALSE)}),
    keeps    |-> Lasting({Between(0, 2, FALSE, FALSE, CompressionData!Same(F, Q))}, {Makes(0, P, FALSE), Makes(2, P, TRUE)}),
    compares |-> Sudden({Over(0, 0, CompressionData!Same(F, F2))}, {Makes(0, P, FALSE)}),
    follows  |-> Lasting({Over(0, 0, Literal(P, TRUE))}, {Makes(0, P, FALSE), Makes(0, F, TRUE), Makes(2, Q, TRUE)}),
    drops    |-> Sudden({Over(0, 0, Literal(P, TRUE))}, {Makes(0, F, FALSE), Makes(0, P, FALSE)}),
    takes    |-> [Lasting({Between(0, 2, TRUE, FALSE, Literal(P, FALSE))}, {Makes(0, Q, FALSE)}) EXCEPT !.duration = {F}] ]

CompressionProblem(names, init) ==
  [actions |-> [a \in names |-> CompressionLibrary[a]], init |-> init, goal |-> {}, timed |-> FALSE]
MCCompressionProblems ==
  {CompressionProblem(names, init) :
     names \in {s \in SUBSET DOMAIN CompressionLibrary : Cardinality(s) \in 2 .. 3},
     init \in {[f \in {F, F2, P, Q} |-> FALSE], [f \in {F, F2, P, Q} |-> f = Q]}}
  \cup {[CompressionProblem({"lights", a}, [f \in {F, F2, P, Q} |-> FALSE]) EXCEPT !.timed = TRUE] :
          a \in DOMAIN CompressionLibrary}

(* The second action can only be carried out while the first is, and the     *)
(* first has to be over last.                                                *)
Clears == [CompressionLibrary["clears"] EXCEPT !.conditions = {Over(0, 0, Literal(Q, FALSE))}]
Follows == Lasting({Over(0, 0, Literal(P, TRUE))}, {Makes(0, P, FALSE), Makes(0, F, TRUE), Makes(0, Q, TRUE)})
SequentialProblems ==
  {[actions |-> [clears |-> Clears, follows |-> Follows],
    init |-> [f \in {F, F2, P, Q} |-> FALSE], goal |-> {Literal(Q, TRUE), Literal(F, FALSE)}, timed |-> FALSE]}

-----------------------------------------------------------------------------
(* Expressions over two numeric fluents, two truth values and an object.     *)
Exp(x) == <<x>>
Syntax == INSTANCE Expressions
Reading(i) == Exp(Syntax!Fluent(i))
N(n) == Exp(Syntax!Number(n))
O == Syntax!Object(1)
On(k, args) == Syntax!Applied(k, args)
Either(k, args) == Syntax!Junction(k, args)
SameAs(a, b) == Syntax!Equals(a, b, {})

Terms == {Reading(1), Reading(2), N(0), N(2)}
Sums == {On(k, <<a, b>>) : k \in {"+", "-", "*"}, a \in Terms, b \in Terms}
          \cup {On("/", <<a, b>>) : a \in Terms, b \in {Reading(2), N(2)}}
          \cup {On(k, <<N(1), a, N(2), Reading(2)>>) : k \in {"+", "*"}, a \in Terms}
Comparisons == {On(k, <<a, b>>) : k \in {"<=", "<"}, a \in Sums, b \in {Reading(1), N(1)}}
                 \cup {SameAs(a, b) : a \in Sums, b \in Terms}
                 \cup {On("<", <<On("call", <<a>>), b>>) : a \in Terms, b \in Terms}
Facts == {Reading(3), Reading(4), Exp(Syntax!True), On("not", <<Reading(3)>>), On("<", <<N(1), Reading(1)>>),
          SameAs(Exp(O), Reading(5)), SameAs(Reading(5), Reading(5)),
          SameAs(N(2), On("+", <<Reading(1), N(1), Reading(2)>>)),
          Either("or", <<Reading(4), On("<=", <<Reading(2), N(1)>>)>>)}
Nested == {Either(k, <<a, b, On("not", <<c>>)>>) : k \in {"and", "or"}, a \in Facts, b \in Facts, c \in Facts}
            \cup {Either("and", <<>>), Either("or", <<>>), Either("and", <<Reading(3)>>)}

MCSources == Comparisons \cup Nested
MCAssignments ==
  {<<Syntax!Number(1), Syntax!Number(2), Syntax!True, Syntax!False, O>>,
   <<Syntax!Rational(<<1, 2>>), Syntax!Number(-1), Syntax!False, Syntax!False, Syntax!Object(2)>>}
=============================================================================

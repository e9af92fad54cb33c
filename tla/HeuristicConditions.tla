------------------------ MODULE HeuristicConditions ------------------------
(****************************************************************************)
(* How the delete relaxation sees a condition: as conjunctions and           *)
(* disjunctions of leaves that its table of costs can hold. A leaf it cannot *)
(* hold is rewritten; a linear numeric one is a weighted sum, and an         *)
(* operator that lowers the sum may have to be applied several times.        *)
(*                                                                           *)
(* The state machine applies operators from the state that was evaluated: it *)
(* is what the estimates are compared with.                                  *)
(****************************************************************************)
EXTENDS Expressions

CONSTANTS
  Tasks,      \* [cond, ops, start, disabled, inadmissible]: what is evaluated, and where
  Objects,    \* per fluent, its objects in order; <<>> if it holds none
  Booleans,   \* the fluents that hold truth values
  MaxSteps    \* bound on the operators applied

Inf == 1000   \* bound: more than any cost

VARIABLES
  task,       \* never changes
  condition,  \* it rewritten; never changes
  sums,       \* _simple_numeric_conds: the weighted sums of its leaves; never changes
  estimate,   \* what the heuristic answered at the start; never changes
  state,
  steps       \* how many operators led to it

vars == <<task, condition, sums, estimate, state, steps>>

IsObject(f) == f \notin Booleans /\ Objects[f] # <<>>
-----------------------------------------------------------------------------
(* _convert_to_heuristic_expression: only "and" and "or" are inner nodes,    *)
(* and their operands come out in reverse. `True` is the empty conjunction.  *)
Leaf(exp) == [kind |-> "leaf", exp |-> exp, n |-> 0]
Inner(kind, n) == [kind |-> kind, exp |-> <<>>, n |-> n]

Truism == <<Inner("and", 0)>>
Converted(exp) ==
  LET converted[i \in DOMAIN exp] ==
        IF exp[i] = True THEN Truism
        ELSE IF exp[i].kind \in {"and", "or"}
          THEN FlattenSeq(Reverse([k \in DOMAIN exp[i].operands |-> converted[exp[i].operands[k]]]))
                 \o <<Inner(exp[i].kind, Len(exp[i].operands))>>
        ELSE <<Leaf(SubExpression(exp, i))>>
  IN  converted[Len(exp)]

HasCall(exp) == \E i \in DOMAIN exp : exp[i].kind = "call"
Root(exp) == exp[Len(exp)]
Negated(exp) == Root(exp).kind = "not"
(* The operator of a leaf, below its negation if it has one.                 *)
Core(exp) == IF Negated(exp) THEN exp[Root(exp).operands[1]] ELSE Root(exp)

IsObjectOperand(e) == e.kind = "object" \/ (e.kind = "fluent" /\ IsObject(FluentOf(e)))
IsNumericLeaf(exp) ==
  /\ Root(exp).operands # <<>>
  /\ Core(exp).operands # <<>>
  /\ Core(exp).kind = "==" =>
       ~IsObjectOperand(exp[Core(exp).operands[1]]) /\ ~IsObjectOperand(exp[Core(exp).operands[2]])
-----------------------------------------------------------------------------
(* _to_linear_polynomial: weights by fluent, 0 for the constant term; or     *)
(* that it is not linear.                                                    *)
NotLinear == [linear |-> FALSE, weights |-> <<>>]
Linear(weights) == [linear |-> TRUE, weights |-> weights]
Zero == <<0, 1>>
Weight(w, f) == IF f \in DOMAIN w THEN w[f] ELSE Zero
Constant(w) == DOMAIN w = {0}
Monomial(f, w) == [g \in {f} |-> w]
Nonzero(w) == [f \in {g \in DOMAIN w : w[g] # Zero \/ g = 0} |-> w[f]]
Added(a, b) == Nonzero([f \in DOMAIN a \cup DOMAIN b |-> Plus(Weight(a, f), Weight(b, f))])
Scaled(a, r) == [f \in DOMAIN a |-> Times(a[f], r)]

Combined(kind, ps) ==
  LET constants == SelectSeq(ps, Constant)
      others == SelectSeq(ps, LAMBDA p : ~Constant(p))
      factor == FoldLeft(LAMBDA r, p : Times(r, p[0]), <<1, 1>>, constants)
  IN  CASE kind = "+" -> Linear(FoldLeft(Added, <<>>, ps))
        [] kind = "-" -> Linear(Added(ps[1], Scaled(ps[2], <<-1, 1>>)))
        [] kind = "/" -> IF Constant(ps[2]) /\ ps[2][0] # Zero
                           THEN Linear(Scaled(ps[1], Over(<<1, 1>>, ps[2][0]))) ELSE NotLinear
        [] kind = "*" -> IF Len(others) > 1 THEN NotLinear
                         ELSE IF others = <<>> \/ factor = Zero THEN Linear(Monomial(0, factor))
                         ELSE Linear(Scaled(others[1], factor))
        [] OTHER -> NotLinear

PolynomialOf(stack, e) ==
  LET rest == Len(stack) - Len(e.operands)
      ps == SubSeq(stack, rest + 1, Len(stack))
      p == CASE e.kind = "number" -> Linear(Monomial(0, e.value))
             [] e.kind = "fluent" -> Linear(Monomial(FluentOf(e), <<1, 1>>))
             [] OTHER -> IF \A k \in DOMAIN ps : ps[k].linear
                           THEN Combined(e.kind, [k \in DOMAIN ps |-> ps[k].weights]) ELSE NotLinear
  IN  Append(SubSeq(stack, 1, rest), p)
Polynomial(exp) ==
  FoldLeft(LAMBDA stack, e : CHOOSE r \in {PolynomialOf(x, e) : x \in {stack}} : TRUE, <<>>, exp)[1]

(* The difference of the two sides of a comparison.                          *)
Difference(exp) == Polynomial(SubSeq(exp, 1, Len(exp) - 1) \o <<Op("-", Root(exp).operands)>>)
-----------------------------------------------------------------------------
(* The comparison with its sides as they are, or exchanged.                  *)
Compared(exp, kind) ==
  SubSeq(exp, 1, Core(exp).operands[2]) \o <<Op(kind, Core(exp).operands)>>
Inverted(exp, kind) ==
  LET middle == Core(exp).operands[1]
      end == Core(exp).operands[2]
  IN  Shift(SubSeq(exp, middle + 1, end), -middle) \o Shift(SubSeq(exp, 1, middle), end - middle)
        \o <<Op(kind, <<end - middle, end>>)>>

(* _simplify_numeric_leaf_node, for what is linear.                          *)
RewrittenNumeric(exp) ==
  LET new == CASE Root(exp).kind = "==" -> <<Leaf(Compared(exp, "<=")), Leaf(Inverted(exp, "<=")), Inner("and", 2)>>
               [] Negated(exp) /\ Core(exp).kind = "==" ->
                    <<Leaf(Compared(exp, "<")), Leaf(Inverted(exp, "<")), Inner("or", 2)>>
               [] Negated(exp) /\ Core(exp).kind = "<" -> <<Leaf(Inverted(exp, "<="))>>
               [] Negated(exp) /\ Core(exp).kind = "<=" -> <<Leaf(Inverted(exp, "<"))>>
               [] OTHER -> <<Leaf(exp)>>
  IN  IF Difference(new[1].exp).linear THEN new ELSE <<Leaf(exp)>>

Holding(f, o) == Leaf(<<Fluent(f), Object(o), Op("==", <<1, 2>>)>>)
Disjunction(parts) ==
  IF parts = <<>> THEN <<Leaf(<<False>>)>>
  ELSE FlattenSeq(parts) \o (IF Len(parts) > 1 THEN <<Inner("or", Len(parts))>> ELSE <<>>)

(* A fluent other than an object is one of the other objects.                *)
Others(f, o) == SelectSeq(Objects[f], LAMBDA x : x # o)
(* Two fluents are equal, or not, for some pair of their objects.            *)
Pairs(f1, f2, equal) ==
  LET pairs == FlattenSeq([i \in DOMAIN Objects[f1] |->
                 [j \in DOMAIN Objects[f2] |-> <<Objects[f1][i], Objects[f2][j]>>]])
  IN  SelectSeq(pairs, LAMBDA p : (p[1] = p[2]) = equal)
BothHold(f1, f2, p) == <<Holding(f1, p[1]), Holding(f2, p[2]), Inner("and", 2)>>

(* _simplify_leaf: the first rule that matches.                              *)
RewrittenLeaf(exp, disabled) ==
  LET left == exp[1]
      right == exp[2]
  IN  IF HasCall(exp) THEN <<Leaf(exp)>>
      ELSE IF IsNumericLeaf(exp) THEN (IF disabled THEN <<Leaf(exp)>> ELSE RewrittenNumeric(exp))
      ELSE IF Core(exp).kind # "==" \/ left.kind # "fluent" THEN <<Leaf(exp)>>
      ELSE IF right.kind = "object"
        THEN (IF Negated(exp)
                THEN Disjunction([k \in DOMAIN Others(FluentOf(left), right.value[1]) |->
                                    <<Holding(FluentOf(left), Others(FluentOf(left), right.value[1])[k])>>])
                ELSE <<Leaf(exp)>>)
      ELSE IF right.kind = "fluent" /\ IsObject(FluentOf(left)) /\ IsObject(FluentOf(right))
        THEN LET pairs == Pairs(FluentOf(left), FluentOf(right), ~Negated(exp))
             IN  Disjunction([k \in DOMAIN pairs |-> BothHold(FluentOf(left), FluentOf(right), pairs[k])])
      ELSE <<Leaf(exp)>>

Rewritten(hexp, disabled) ==
  FlattenSeq([i \in DOMAIN hexp |->
    IF hexp[i].kind = "leaf" THEN RewrittenLeaf(hexp[i].exp, disabled) ELSE <<hexp[i]>>])

(* _build_operator_condition leaves out what is true.                        *)
LeavesOf(hexp) == {hexp[i].exp : i \in {j \in DOMAIN hexp : hexp[j].kind = "leaf"}}
-----------------------------------------------------------------------------
(* _update_numeric_conditions: simple ones are weighted sums at most 0.      *)
Sums(leaves, disabled) ==
  [e \in {x \in leaves : /\ IsNumericLeaf(x) /\ ~HasCall(x) /\ ~disabled
                         /\ Root(x).kind \in {"<", "<="} /\ Difference(x).linear}
     |-> Difference(e).weights]
Simple(exp) == exp \in DOMAIN sums
Complex(exp) == HasCall(exp) \/ (IsNumericLeaf(exp) /\ ~Simple(exp))
Strict(exp) == Root(exp).kind = "<"

(* _initial_condition_costs, by the form of the leaf.                        *)
InitialCost(exp, s) ==
  LET zeroIf(b, other) == IF b THEN 0 ELSE other IN
  CASE Complex(exp) -> zeroIf(Evaluate(exp, s) = True, 1)
    [] Simple(exp) -> zeroIf(Evaluate(exp, s) = True, Inf)
    [] Len(exp) = 1 /\ exp[1].kind = "fluent" -> zeroIf(s[FluentOf(exp[1])] = True, Inf)
    [] Len(exp) = 2 /\ exp[1].kind = "fluent" /\ Negated(exp) -> zeroIf(s[FluentOf(exp[1])] = False, Inf)
    [] Len(exp) = 3 /\ exp[1].kind = "fluent" /\ exp[3].kind = "==" -> zeroIf(s[FluentOf(exp[1])] = exp[2], Inf)
    [] OTHER -> Inf
-----------------------------------------------------------------------------
(* An operator is a sequence of effects [fluent, value]. A numeric effect is *)
(* an assignment, an increase by a constant, or anything else.               *)
Effects(o) == {o[i] : i \in DOMAIN o}
On(o, f) == {e \in Effects(o) : e.fluent = f}
Assigns(e) == Len(e.value) = 1 /\ e.value[1].kind = "number"
Increases(e) ==
  LET p == Polynomial(e.value) IN
  ~Assigns(e) /\ p.linear /\ DOMAIN p.weights \ {0} = {e.fluent} /\ p.weights[e.fluent] = <<1, 1>>
Increase(e) == Weight(Polynomial(e.value).weights, 0)
AssignsOrComplex(o, w) == \E f \in DOMAIN w \ {0} : \E e \in On(o, f) : ~Increases(e)

(* _net_effect: what one application adds to the weighted sum.               *)
NetEffect(o, w, inadmissible) ==
  LET change(e) == IF e.fluent \notin DOMAIN w THEN Zero
                   ELSE IF Increases(e) THEN Times(w[e.fluent], Increase(e))
                   ELSE IF inadmissible THEN <<-1, 1>> ELSE Zero
  IN  FoldLeft(LAMBDA r, e : Plus(r, change(e)), Zero, o)

Lowers(o, w, inadmissible) == Below(NetEffect(o, w, inadmissible), Zero)
OnlyIfItLowers(o, w, inadmissible) == Lowers(o, w, inadmissible)
Achieves(o, w, inadmissible) == AssignsOrComplex(o, w) \/ Lowers(o, w, inadmissible)

(* The epsilon of the strict ones: half the smallest progress that any       *)
(* operator makes on any condition.                                          *)
Considered ==
  {r \in {NetEffect(x[1], sums[x[2]], task.inadmissible) :
            x \in {y \in Range(task.ops) \X DOMAIN sums :
                     task.inadmissible \/ ~AssignsOrComplex(y[1], sums[y[2]])}} :
     Below(r, Zero)}
Epsilon ==
  LET largest == CHOOSE r \in Considered : \A x \in Considered : AtMost(x, r)
  IN  Times(largest, <<-1, 2>>)

Ceiling(r) == -((-r[1]) \div r[2])
Weighted(w, s) ==
  LET fluents == SetToSeq(DOMAIN w \ {0})
  IN  FoldLeft(LAMBDA r, f : Plus(r, Times(w[f], s[f].value)), Weight(w, 0), fluents)

(* _repetitions, of an operator that achieves an unsatisfied leaf.           *)
Repetitions(o, exp) ==
  LET net == NetEffect(o, sums[exp], task.inadmissible)
      sum == Weighted(sums[exp], task.start)
      v == IF Strict(exp) THEN Plus(sum, Epsilon) ELSE sum
  IN  IF AssignsOrComplex(o, sums[exp]) /\ ~task.inadmissible THEN 1
      ELSE IF Below(net, Zero) THEN Ceiling(Over(Times(v, <<-1, 1>>), net))
      ELSE 1

(* What an effect on a fluent may make true; one on an object fluent that is *)
(* not a constant, any object of the fluent.                                 *)
Sets(e, exp) ==
  LET value == e.value[1] IN
  /\ exp[1] = Fluent(e.fluent)
  /\ \/ Len(exp) = 1 /\ (Len(e.value) > 1 \/ value # False)
     \/ Len(exp) = 2 /\ (Len(e.value) > 1 \/ value # True)
     \/ Len(exp) = 3 /\ IF Len(e.value) > 1 \/ ~IsConstant(value)
                           THEN exp[2].value[1] \in Range(Objects[e.fluent]) ELSE value = exp[2]

(* The cost of a leaf when every operator is applicable, for hmax.           *)
LeafCost(exp) ==
  LET initially == InitialCost(exp, task.start)
      achievers == {i \in DOMAIN task.ops : Achieves(task.ops[i], sums[exp], task.inadmissible)}
  IN  IF initially < Inf THEN initially
      ELSE IF Simple(exp) THEN Min({Inf} \cup {Repetitions(task.ops[i], exp) : i \in achievers})
      ELSE IF \E i \in DOMAIN task.ops : \E e \in Effects(task.ops[i]) : Sets(e, exp) THEN 1 ELSE Inf

(* A condition over its leaves: `on` conjunctions, `off` disjunctions.       *)
Folded(hexp, leaf(_), on(_), off(_)) ==
  FoldLeft(LAMBDA s, node :
             CHOOSE r \in {IF node.kind = "leaf" THEN Append(x, leaf(node.exp))
                           ELSE Append(SubSeq(x, 1, Len(x) - node.n),
                                       IF node.kind = "and" THEN on(Range(SubSeq(x, Len(x) - node.n + 1, Len(x))))
                                       ELSE off(Range(SubSeq(x, Len(x) - node.n + 1, Len(x))))) : x \in {s}} : TRUE,
           <<>>, hexp)[1]

Cost == Folded(condition, LeafCost, LAMBDA S : Max(S \cup {0}), LAMBDA S : Min(S \cup {Inf}))
-----------------------------------------------------------------------------
Init ==
  /\ task \in Tasks
  /\ condition = Rewritten(Converted(task.cond), task.disabled)
  /\ sums = Sums(LeavesOf(condition), task.disabled)
  /\ estimate = Cost
  /\ state = task.start
  /\ steps = 0

Apply(o) ==
  /\ steps < MaxSteps
  /\ state' = [f \in DOMAIN state |->
                 IF On(o, f) = {} THEN state[f]
                 ELSE Evaluate((CHOOSE e \in On(o, f) : TRUE).value, state)]
  /\ steps' = steps + 1
  /\ UNCHANGED <<task, condition, sums, estimate>>

Next == \E i \in DOMAIN task.ops : Apply(task.ops[i])

Spec == Init /\ [][Next]_vars
-----------------------------------------------------------------------------
TypeOK ==
  /\ steps \in 0..MaxSteps
  /\ \A f \in DOMAIN state : state[f].kind = task.start[f].kind /\ IsConstant(state[f])

(* Rewriting keeps the meaning, in every state: the tests of two fluents     *)
(* over their objects, the numeric comparisons with their sides exchanged,   *)
(* the order of the operands.                                                *)
MeansTheSame ==
  LET truth == Folded(condition, LAMBDA e : Evaluate(e, state) = True,
                      LAMBDA S : FALSE \notin S, LAMBDA S : TRUE \in S)
  IN  truth = (Evaluate(task.cond, state) = True)

(* Every leaf has a place in the table of costs: it costs nothing exactly in *)
(* the states where it holds. Otherwise the heuristic would take a condition *)
(* that holds for one still to be reached, or the reverse.                   *)
TableIsRight ==
  \A e \in LeavesOf(condition) :
    (InitialCost(e, state) = 0) = (Evaluate(e, state) = True)

(* A simple numeric leaf is its weighted sum.                                *)
SumsAreExact ==
  \A e \in LeavesOf(condition) : Simple(e) =>
    LET sum == Weighted(sums[e], state) IN
    (Evaluate(e, state) = True) = (IF Strict(e) THEN Below(sum, Zero) ELSE AtMost(sum, Zero))

(* A condition that some sequence of operators makes true is never taken for *)
(* unreachable, "that would prune states a plan exists from", in either      *)
(* variant.                                                                  *)
NeverPrunes == Evaluate(task.cond, state) = True => estimate < Inf

(* hmax "does not [overestimate], in actions": a condition is not made true  *)
(* in fewer operators than estimated. That does not hold ...                 *)
NeverOverestimates ==
  ~task.inadmissible /\ Evaluate(task.cond, state) = True => estimate <= steps
(* ... and does if the condition needs no strict comparison.                 *)
LooseIsAdmissible ==
  (\A e \in LeavesOf(condition) : ~Strict(e)) => NeverOverestimates
=============================================================================

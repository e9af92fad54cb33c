---------------------------- MODULE Expressions ----------------------------
(****************************************************************************)
(* Expressions as the search evaluates them: a sequence of nodes, operands   *)
(* before the operator, which names them by their positions. Converting,     *)
(* shifting, splitting, evaluating and simplifying them all rewrite          *)
(* positions.                                                                *)
(*                                                                           *)
(* A number is a fraction in lowest terms. As in Python, a truth value is a  *)
(* number too.                                                               *)
(****************************************************************************)
EXTENDS Integers, Sequences, FiniteSets, SequencesExt

CommonDivisors(n, d) == {k \in 1..d : n % k = 0 /\ d % k = 0}
Greatest(S) == CHOOSE k \in S : \A j \in S : j <= k
Fraction(n, d) ==
  LET sign == IF d < 0 THEN -1 ELSE 1
      g == Greatest(CommonDivisors(n, sign * d))
  IN  <<(sign * n) \div g, (sign * d) \div g>>
Plus(a, b) == Fraction(a[1] * b[2] + b[1] * a[2], a[2] * b[2])
Minus(a, b) == Fraction(a[1] * b[2] - b[1] * a[2], a[2] * b[2])
Times(a, b) == Fraction(a[1] * b[1], a[2] * b[2])
Over(a, b) == Fraction(a[1] * b[2], a[2] * b[1])
Below(a, b) == a[1] * b[2] < b[1] * a[2]
AtMost(a, b) == a[1] * b[2] <= b[1] * a[2]

Number(n) == [kind |-> "number", value |-> <<n, 1>>, operands |-> <<>>]
Rational(r) == [kind |-> "number", value |-> r, operands |-> <<>>]
Truth(b) == [kind |-> "bool", value |-> IF b THEN <<1, 1>> ELSE <<0, 1>>, operands |-> <<>>]
Object(o) == [kind |-> "object", value |-> <<o, 1>>, operands |-> <<>>]
Fluent(f) == [kind |-> "fluent", value |-> <<f, 1>>, operands |-> <<>>]
Op(kind, operands) == [kind |-> kind, value |-> <<0, 1>>, operands |-> operands]
True == Truth(TRUE)
False == Truth(FALSE)

IsNumeric(node) == node.kind \in {"number", "bool"}
IsConstant(node) == node.kind \in {"number", "bool", "object"}
FluentOf(node) == node.value[1]

Shift(exp, offset) ==
  [i \in DOMAIN exp |-> [exp[i] EXCEPT !.operands = [k \in DOMAIN @ |-> @[k] + offset]]]

(* The parts one after the other, and the operator over their roots.         *)
Joined(op, parts) ==
  FoldLeft(LAMBDA exp, part : exp \o Shift(part, Len(exp)), <<>>, parts)
    \o <<[op EXCEPT !.operands = [k \in DOMAIN parts |-> Len(FlattenSeq(SubSeq(parts, 1, k)))]]>>

(* walk_and and walk_or; walk_plus, walk_minus, ..., walk_not.               *)
Junction(kind, parts) ==
  IF parts = <<>> THEN <<Truth(kind = "and")>>
  ELSE IF Len(parts) = 1 THEN parts[1]
  ELSE Joined(Op(kind, <<>>), parts)
Applied(kind, parts) == Joined(Op(kind, <<>>), parts)

(* walk_equals puts a fluent before what is not one, or never changes.       *)
Equals(a, b, static) ==
  IF /\ a[Len(a)].kind # "fluent" \/ FluentOf(a[Len(a)]) \in static
     /\ b[Len(b)].kind = "fluent"
    THEN Applied("==", <<b, a>>) ELSE Applied("==", <<a, b>>)

(* split_expression: the operands of a conjunction.                          *)
Conjuncts(exp) ==
  LET root == exp[Len(exp)]
      start(k) == IF k = 1 THEN 1 ELSE root.operands[k - 1] + 1
  IN  IF root.kind # "and" THEN <<exp>>
      ELSE [k \in DOMAIN root.operands |->
              Shift(SubSeq(exp, start(k), root.operands[k]), 1 - start(k))]

(* extract_sub_expression: down the first operands to where it starts.       *)
StartOf(exp, i) ==
  LET start[k \in DOMAIN exp] == IF exp[k].operands = <<>> THEN k ELSE start[exp[k].operands[1]]
  IN  start[i]
SubExpression(exp, i) == Shift(SubSeq(exp, StartOf(exp, i), i), 1 - StartOf(exp, i))
-----------------------------------------------------------------------------
(* What an operator makes of constant operands. An interpreted function is   *)
(* any function of its arguments: here the first, plus one.                  *)
Result(kind, args) ==
  CASE kind = "and" -> Truth(\A k \in DOMAIN args : args[k] # False)
    [] kind = "or" -> Truth(\E k \in DOMAIN args : args[k] = True)
    [] kind = "not" -> Truth(args[1] = False)
    [] kind = "==" -> Truth(args[1].value = args[2].value)
    [] kind = "<=" -> Truth(AtMost(args[1].value, args[2].value))
    [] kind = "<" -> Truth(Below(args[1].value, args[2].value))
    [] kind = "+" -> Rational(FoldLeft(LAMBDA v, a : Plus(v, a.value), <<0, 1>>, args))
    [] kind = "*" -> Rational(FoldLeft(LAMBDA v, a : Times(v, a.value), <<1, 1>>, args))
    [] kind = "-" -> Rational(Minus(args[1].value, args[2].value))
    [] kind = "/" -> Rational(Over(args[1].value, args[2].value))
    [] kind = "call" -> Rational(Plus(args[1].value, <<1, 1>>))

(* The values of the nodes, in order, that of a fluent from the state.       *)
InState(exp, state) ==
  [i \in DOMAIN exp |-> IF exp[i].kind = "fluent" THEN state[FluentOf(exp[i])] ELSE exp[i]]
ValueOf(node, res) ==
  IF IsConstant(node) THEN node ELSE Result(node.kind, [k \in DOMAIN node.operands |-> res[node.operands[k]]])
Values(exp, state) ==
  LET nodes == InState(exp, state)
      values[n \in 0..Len(exp)] ==
        IF n = 0 THEN <<>>
        ELSE CHOOSE r \in {Append(res, ValueOf(nodes[n], res)) : res \in {values[n - 1]}} : TRUE
  IN  values[Len(exp)]
Evaluate(exp, state) == Values(exp, state)[Len(exp)]
-----------------------------------------------------------------------------
(* simplify: what is constant is folded, a conjunction or disjunction is     *)
(* left with the operands that are not.                                      *)
SimplifiedJunction(e, res) ==
  LET absorbing == Truth(e.kind = "or")
      open == SelectSeq(e.operands, LAMBDA i : res[i].kind # "bool")
  IN  IF \E i \in Range(e.operands) : res[i] = absorbing THEN absorbing
      ELSE IF open = <<>> THEN Truth(e.kind = "and")
      ELSE IF Len(open) = 1 THEN res[open[1]]
      ELSE Op(e.kind, open)

(* The constants of a sum or a product are gathered at the first of them.    *)
Gathered(e, res) ==
  LET constants == SelectSeq(e.operands, LAMBDA i : IsNumeric(res[i]))
      kept == SelectSeq(e.operands, LAMBDA i : ~IsNumeric(res[i]) \/ i = constants[1])
      total == Result(e.kind, [k \in DOMAIN constants |-> res[constants[k]]])
  IN  IF constants = <<>> THEN Append(res, e)
      ELSE IF Len(kept) = 1 THEN Append(res, total)
      ELSE Append([res EXCEPT ![constants[1]] = total], Op(e.kind, kept))

FirstOperand(e, res) == IsNumeric(res[e.operands[1]])
AllNumeric(e, res) == \A k \in DOMAIN e.operands : IsNumeric(res[e.operands[k]])

SimplifiedNode(e, res, known, calls) ==
  LET args == [k \in DOMAIN e.operands |-> res[e.operands[k]]] IN
  CASE IsConstant(e) -> Append(res, e)
    [] e.kind = "fluent" -> Append(res, IF FluentOf(e) \in DOMAIN known THEN known[FluentOf(e)] ELSE e)
    [] e.kind = "call" -> Append(res, IF calls /\ \A k \in DOMAIN args : IsConstant(args[k])
                                        THEN Result("call", args) ELSE e)
    [] e.kind \in {"and", "or"} -> Append(res, SimplifiedJunction(e, res))
    [] e.kind = "not" -> Append(res, IF args[1].kind = "bool" THEN Result("not", args) ELSE e)
    [] e.kind = "==" -> Append(res, IF args[1] = args[2] THEN True
                                    ELSE IF AllNumeric(e, res) THEN Result("==", args) ELSE e)
    [] e.kind \in {"<=", "<", "-", "/"} -> Append(res, IF AllNumeric(e, res) THEN Result(e.kind, args) ELSE e)
    [] e.kind \in {"+", "*"} -> Gathered(e, res)

(* Only what the root reaches is kept, in depth-first order.                 *)
Emitted(res) ==
  LET emitted[i \in DOMAIN res] ==
        IF res[i].operands = <<>> THEN <<res[i]>>
        ELSE Joined(res[i], [k \in DOMAIN res[i].operands |-> emitted[res[i].operands[k]]])
  IN  emitted[Len(res)]

Simplify(exp, known, calls) ==
  Emitted(FoldLeft(LAMBDA res, e : CHOOSE r \in {SimplifiedNode(e, x, known, calls) : x \in {res}} : TRUE, <<>>, exp))
=============================================================================

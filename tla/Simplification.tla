--------------------------- MODULE Simplification ---------------------------
(****************************************************************************)
(* An expression that is simplified, as more and more of its fluents become  *)
(* known. `Expressions` has the functions.                                   *)
(****************************************************************************)
EXTENDS Expressions

CONSTANTS
  Sources,    \* the expressions of a problem
  States      \* what the fluents may hold: functions from fluents to constants

VARIABLES
  source,     \* the expression as converted; never changes
  state,      \* never changes
  known,      \* the fluents whose value was used to simplify
  calls,      \* whether interpreted functions were called
  exp         \* the expression now

vars == <<source, state, known, calls, exp>>

Init ==
  /\ source \in Sources
  /\ state \in States
  /\ known = {} /\ calls = FALSE
  /\ exp = source

(* Simplified with the values of some fluents, again and again.              *)
Learn(fluents, call) ==
  /\ ~(fluents \subseteq known /\ (call => calls))
  /\ known' = known \cup fluents
  /\ calls' = (calls \/ call)
  /\ exp' = Simplify(exp, [f \in fluents |-> state[f]], call)
  /\ UNCHANGED <<source, state>>

Next == \E f \in DOMAIN state, call \in BOOLEAN : Learn({f}, call)

Spec == Init /\ [][Next]_vars
-----------------------------------------------------------------------------
Kinds == {"number", "bool", "object", "fluent", "and", "or", "not", "==", "<=", "<", "+", "-", "*", "/", "call"}
TypeOK ==
  /\ known \subseteq DOMAIN state
  /\ \A i \in DOMAIN exp :
       /\ exp[i].kind \in Kinds
       /\ exp[i].operands \in Seq(1..(i - 1))

(* However often it is simplified, and with whichever fluents known, an      *)
(* expression keeps its value.                                               *)
ValueKept == Evaluate(exp, state) = Evaluate(source, state)

(* Every subexpression is the run of nodes that ends with its root, as       *)
(* extract_sub_expression and split_expression take for granted: taken out   *)
(* on its own, it has the value it has inside; and an expression is the      *)
(* conjunction of what it is split into.                                     *)
PartsStandAlone ==
  LET values == Values(exp, state) IN
  /\ \A i \in DOMAIN exp : Evaluate(SubExpression(exp, i), state) = values[i]
  /\ exp[Len(exp)].kind = "and" =>
       values[Len(exp)] = Truth(\A k \in DOMAIN Conjuncts(exp) : Evaluate(Conjuncts(exp)[k], state) = True)

(* A fluent once known occurs no more, and all known leave a constant, up to *)
(* calls that were not made and objects that differ.                         *)
KnownAreGone ==
  /\ \A i \in DOMAIN exp : exp[i].kind = "fluent" => FluentOf(exp[i]) \notin known
  /\ known = DOMAIN state /\ Len(exp) > 1 => \E i \in DOMAIN exp : exp[i].kind \in {"call", "object"}

(* A second pass with nothing new changes nothing.                           *)
Settled == known # {} => Simplify(exp, <<>>, FALSE) = exp
=============================================================================

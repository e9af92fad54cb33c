------------------------ MODULE LayeredReachability ------------------------
(****************************************************************************)
(* What the explicit hmax promises: layer after layer, every fluent holds    *)
(* what it held and what any operator whose conditions can be true gives it  *)
(* from any values of the layer. The answer is the first layer where every   *)
(* goal can be true, if there is one.                                        *)
(****************************************************************************)
EXTENDS Integers

CONSTANTS
  CanBeTrue(_, _),   \* whether an expression is true for some values of a layer
  Given(_, _, _),    \* what an operator gives a fluent, from a layer
  Undecided, Impossible

VARIABLES layer, operators, goals, depth, moved, answer

vars == <<layer, operators, goals, depth, moved, answer>>

Possible(exps, now) == \A e \in exps : CanBeTrue(e, now)
Following(able, now) == [f \in DOMAIN now |-> now[f] \cup UNION {Given(o, f, now) : o \in able}]

Init ==
  /\ depth = 0
  /\ moved = TRUE
  /\ answer = Undecided

Advance ==
  /\ answer = Undecided /\ moved
  /\ \E now \in {layer} :
       /\ ~Possible(goals, now)
       /\ \E able \in {{o \in operators : Possible(o.conditions, now)}} : layer' = Following(able, now)
  /\ moved' = (layer' # layer)
  /\ depth' = depth + 1
  /\ UNCHANGED <<operators, goals, answer>>

Answer ==
  /\ answer = Undecided
  /\ answer' = IF moved THEN depth ELSE Impossible
  /\ moved => Possible(goals, layer)
  /\ UNCHANGED <<layer, operators, goals, depth, moved>>

Next == Advance \/ Answer

Spec == Init /\ [][Next]_vars
=============================================================================

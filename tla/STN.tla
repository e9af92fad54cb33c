-------------------------------- MODULE STN --------------------------------
(****************************************************************************)
(* What a simple temporal network promises to the search: constraints       *)
(* y - x <= b are asserted one at a time; the network says whether they are  *)
(* jointly satisfiable and, as long as they are, holds the schedule that     *)
(* puts every time point as early as possible.                               *)
(*                                                                           *)
(* The network works on distances: the date of a time point is minus its     *)
(* distance, distances are never positive, and the earliest dates are the    *)
(* largest distances.                                                        *)
(****************************************************************************)
EXTENDS Integers

CONSTANTS
  Point,           \* the time points
  Bound,           \* the bounds b of the constraints that may be asserted
  Dates            \* the candidate distances: all of Int, or a range TLC can enumerate

VARIABLES
  asserted,        \* the constraints y - x <= b asserted so far
  sat,             \* the verdict on them
  model            \* the distance of every mentioned time point

vars == <<asserted, sat, model>>

Constraint == {c \in [src : Point, dst : Point, bound : Bound] : c.src # c.dst}

Satisfies(s, E) == \A e \in E : s[e.dst] <= s[e.src] + e.bound

Consistent(E) == \E s \in [Point -> Dates] : Satisfies(s, E)

Mentioned(E) == UNION {{e.src, e.dst} : e \in E}

(* d is the largest nonpositive solution of E: the earliest dates. *)
Earliest(d, E) ==
  /\ Satisfies(d, E)
  /\ \A p \in Mentioned(E) : d[p] <= 0
  /\ \A s \in [Point -> Dates] :
       Satisfies(s, E) /\ (\A p \in Point : s[p] <= 0)
         => \A p \in Mentioned(E) : s[p] <= d[p]

Init == asserted = {} /\ sat = TRUE /\ model = <<>>

Add(c) ==
  /\ sat
  /\ asserted' = asserted \cup {c}
  /\ sat' = Consistent(asserted')
  /\ IF sat'
       THEN /\ DOMAIN model' = Mentioned(asserted')
            /\ Earliest(model', asserted')
       ELSE UNCHANGED model

Next == \E c \in Constraint : Add(c)

Spec == Init /\ [][Next]_vars
=============================================================================

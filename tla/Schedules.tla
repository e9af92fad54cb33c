----------------------------- MODULE Schedules -----------------------------
(****************************************************************************)
(* The temporal networks of the search and of plan extraction, as a whole   *)
(* `add` leaves them (module DeltaSTN models the propagation itself): a set  *)
(* of constraints dst - src <= bound between distances, and the largest      *)
(* nonpositive distances that satisfy them. The date of a time point is      *)
(* minus its distance.                                                       *)
(****************************************************************************)
EXTENDS Integers, FiniteSets, FiniteSetsExt

(* t(q) >= t(p) + w, that is `add(p, q, -w)`. *)
Before(p, q, w) == [src |-> p, dst |-> q, bound |-> -w]

(* l <= t(q) - t(p) <= u, that is `insert_interval(p, q, l, u)`. *)
Between(p, q, l, u) == {Before(p, q, l), Before(q, p, -u)}

Points(cs) == UNION {{c.src, c.dst} : c \in cs}

Satisfied(d, cs) == \A c \in cs : d[c.dst] <= d[c.src] + c.bound

(* One relaxation of every constraint. *)
Relaxed(d, cs) ==
  [p \in DOMAIN d |-> Min({d[p]} \cup {d[c.src] + c.bound : c \in {e \in cs : e.dst = p}})]

(* The distances after as many rounds as there are time points: the fixpoint *)
(* when the constraints are consistent.                                      *)
Distances(cs) ==
  LET start == [p \in Points(cs) |-> 0]
      round[n \in 0 .. Cardinality(Points(cs))] ==
        IF n = 0 THEN start
        ELSE LET d == round[n - 1]
                 next == Relaxed(d, cs)
             IN  IF next = d THEN d ELSE next
  IN  round[Cardinality(Points(cs))]

(* The network holding cs. Constraints are never retracted, so asserting     *)
(* them one by one or together leaves the same network.                      *)
Network(cs) == [constraints |-> cs, distances |-> Distances(cs)]

Sat(tn) == Satisfied(tn.distances, tn.constraints)

Date(tn, p) == -tn.distances[p]
=============================================================================

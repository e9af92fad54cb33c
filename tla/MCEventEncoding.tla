-------------------------- MODULE MCEventEncoding --------------------------
EXTENDS EventEncoding

P == [fluent |-> "p", value |-> TRUE]
Between(l, u, lo, ro) == [lower |-> l, upper |-> u, leftOpen |-> lo, rightOpen |-> ro, holds |-> P]
During(a, b) == Between(a, b, FALSE, FALSE)
Effect_(at, f, kind, v) == [at |-> at, fluent |-> f, kind |-> kind, value |-> v]
Assign(at, f, v) == Effect_(at, f, "assign", v)

MCTimings == {At(0), At(2), At(3), ToEnd(0), ToEnd(-2)}
(* From the end to the start: empty whenever the events can be placed.       *)
Backwards(c) == c.lower.end /\ ~c.upper.end
MCIntervals ==
  {c \in {Between(l, u, lo, ro) : l, u \in MCTimings, lo, ro \in BOOLEAN} : ~Backwards(c)}

(* Nothing; a condition lost at the start and won back at the end; effects   *)
(* from both ends that meet in one instant when the action lasts 5 or 6; one *)
(* from the end that is at the start when it lasts 5.                        *)
MCEffects ==
  {<<>>,
   <<Assign(At(0), "p", Constant(FALSE)), Assign(ToEnd(0), "p", Constant(TRUE))>>,
   <<Assign(At(2), "p", Constant(TRUE)), Assign(At(2), "q", Reads("p")),
     Assign(ToEnd(-3), "p", Constant(FALSE)), Effect_(At(2), "n", "increase", Constant(1)),
     Effect_(ToEnd(-3), "n", "decrease", Constant(2))>>,
   <<Assign(At(3), "q", Constant(FALSE)), Assign(ToEnd(-2), "q", Reads("p")),
     Assign(At(3), "n", Constant(1)), Assign(ToEnd(-2), "n", Constant(1))>>,
   <<Assign(At(3), "n", Constant(1)), Effect_(ToEnd(-3), "n", "increase", Constant(1))>>,
   <<Assign(At(2), "q", Reads("p")), Assign(ToEnd(-3), "q", Reads("q"))>>,
   <<Assign(At(2), "p", Constant(TRUE)), Assign(ToEnd(-5), "q", Reads("p"))>>}

Lasts(lower, upper, leftOpen, rightOpen, known) ==
  [lower |-> lower, upper |-> upper, leftOpen |-> leftOpen, rightOpen |-> rightOpen, known |-> known,
   spelled |-> known]
(* The last is known only once its bounds are simplified.                    *)
MCDurations ==
  {Lasts(5, 5, FALSE, FALSE, TRUE), Lasts(6, 6, FALSE, FALSE, TRUE), Lasts(3, 5, FALSE, TRUE, TRUE),
   Lasts(2, 4, TRUE, FALSE, FALSE), Lasts(1, 2, FALSE, FALSE, TRUE),
   [Lasts(3, 3, FALSE, FALSE, TRUE) EXCEPT !.spelled = FALSE]}

Durative(cs, es, d) ==
  [timed |-> FALSE, conditions |-> cs, effects |-> es, numeric |-> {"n"}, lower |-> d.lower,
   upper |-> d.upper, leftOpen |-> d.leftOpen, rightOpen |-> d.rightOpen, known |-> d.known, spelled |-> d.spelled]
Timed(cs, es) == [Durative(cs, es, Lasts(0, 0, FALSE, FALSE, TRUE)) EXCEPT !.timed = TRUE]

AllDurative == {Durative({c}, es, d) : c \in MCIntervals, es \in MCEffects, d \in MCDurations}
               \cup {Durative({During(At(0), ToEnd(0)), During(At(2), At(3))}, es, d) :
                       es \in MCEffects, d \in MCDurations}
MCTimed ==
  {Timed({Between(At(2), u, lo, ro)}, es) :
     u \in {At(0), At(2), At(5), ToEnd(0)}, lo \in BOOLEAN, ro \in BOOLEAN,
     es \in {<<>>, <<Assign(At(2), "p", Constant(FALSE)), Assign(At(5), "p", Constant(TRUE))>>,
             <<Assign(At(2), "p", Constant(TRUE)), Assign(At(5), "p", Constant(FALSE))>>,
             <<Assign(At(4), "n", Constant(1)), Effect_(At(4), "n", "increase", Constant(2))>>,
             <<Assign(At(1), "q", Constant(TRUE))>>}}
  \cup {Timed({During(ToEnd(0), ToEnd(0))}, <<>>), Timed({During(At(-1), At(3))}, <<>>)}

(* An interval that folding turns out to be empty, or a point.               *)
Collapses(i) == Folded(i) /\ \E c \in Kept(i) : ~IsPoint(c) /\ Bucket(i, c.lower).delay >= Bucket(i, c.upper).delay
MCItems == {i \in AllDurative : ~Collapses(i)} \cup MCTimed
CollapsingItems == {i \in AllDurative : Collapses(i) /\ i.effects = <<>>}
MCInitialStates == {[p |-> b, q |-> FALSE, n |-> 0] : b \in BOOLEAN}
=============================================================================

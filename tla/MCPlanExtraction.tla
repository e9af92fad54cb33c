-------------------------- MODULE MCPlanExtraction --------------------------
(* Small temporal problems for TLC.                                          *)
EXTENDS PlanExtraction

(* Conditions, values and events. *)
Always == [reads |-> {}, holds |-> Assignment]
Is(f, x) == [reads |-> {f}, holds |-> {v \in Assignment : v[f] = x}]
Both(c, d) == [reads |-> c.reads \cup d.reads, holds |-> c.holds \cap d.holds]
Either(c, d) == [reads |-> c.reads \cup d.reads, holds |-> c.holds \cup d.holds]

To(f, x) == f :> [reads |-> {}, value |-> [v \in Assignment |-> x]]
Copy(f, e) == f :> [reads |-> {e}, value |-> [v \in Assignment |-> v[e]]]

At(delay, fromStart, conditions, start, end, effects) ==
  [delay |-> delay, fromStart |-> fromStart, conditions |-> conditions,
   start |-> start, end |-> end, effects |-> effects]
Instant(conditions, effects) == <<At(0, TRUE, conditions, {}, {}, effects)>>

Lasts(l, u) ==
  [lower |-> [v \in Assignment |-> l], upper |-> [v \in Assignment |-> u],
   reads |-> {}, leftOpen |-> FALSE, rightOpen |-> FALSE]

Zero == [f \in Fluent |-> 0]

(* A problem without deadline, timed action, symmetric objects or            *)
(* compression-safe actions.                                                 *)
Plain(events, duration, goal) ==
  [events |-> events, duration |-> duration, goal |-> goal, init |-> Zero,
   relevant |-> DOMAIN events, epsilon |-> 1, deadline |-> NoDeadline, timed |-> NoTimed,
   safe |-> [a \in DOMAIN events |-> FALSE], objects |-> [a \in DOMAIN events |-> {}],
   earlier |-> <<>>]

(* Intermediate effects: "run" switches g on one unit after its start, "use" *)
(* needs g throughout, "stop" switches g off again before "run" ends.          *)
Intermediate ==
  Plain("run" :> <<At(0, TRUE, Is("f", 0), {}, {}, To("f", 1)),
                   At(1, TRUE, Always, {}, {}, To("g", 1)),
                   At(0, FALSE, Is("g", 0), {}, {}, To("f", 0))>>
        @@ "use" :> <<At(0, TRUE, Is("g", 1), {Is("g", 1)}, {}, <<>>),
                      At(0, FALSE, Is("g", 1), {}, {Is("g", 1)}, To("h", 1))>>
        @@ "stop" :> Instant(Is("f", 1), To("g", 0)),
        "run" :> [Lasts(4, 6) EXCEPT !.leftOpen = TRUE]
        @@ "use" :> [Lasts(2, 4) EXCEPT !.rightOpen = TRUE]
        @@ "stop" :> NoDuration,
        Both(Is("h", 1), Is("g", 0)))

(* Open intervals: "keep" switches f on itself and needs it strictly inside; *)
(* "drop" and "restore" write it.                                            *)
OpenInterval ==
  Plain("keep" :> <<At(0, TRUE, Always, {Is("f", 1)}, {}, To("f", 1)),
                    At(0, FALSE, Always, {}, {Is("f", 1)}, To("h", 1))>>
        @@ "watch" :> <<At(0, TRUE, Always, {Is("f", 1)}, {}, <<>>),
                        At(-1, FALSE, Always, {}, {Is("f", 1)}, <<>>)>>
        @@ "drop" :> Instant(Is("f", 1), To("f", 0) @@ To("g", 1)),
        "keep" :> Lasts(2, 2) @@ "watch" :> Lasts(4, 4) @@ "drop" :> NoDuration,
        Both(Both(Is("h", 1), Is("g", 1)), Is("f", 0)))

(* A duration that depends on a fluent another action writes. *)
StateDuration ==
  Plain("slow" :> <<At(0, TRUE, Is("g", 0), {}, {}, <<>>),
                    At(0, FALSE, Always, {}, {}, To("g", 1))>>
        @@ "brake" :> <<At(0, TRUE, Always, {}, {}, <<>>),
                        At(0, FALSE, Always, {}, {}, To("f", 1))>>
        @@ "copy" :> Instant(Is("g", 1), Copy("h", "f")),
        "slow" :> [reads |-> {"f"}, lower |-> [v \in Assignment |-> 1 + 3 * v["f"]],
                   upper |-> [v \in Assignment |-> 2 + 3 * v["f"]],
                   leftOpen |-> FALSE, rightOpen |-> FALSE]
        @@ "brake" :> Lasts(2, 2) @@ "copy" :> NoDuration,
        Both(Is("h", 1), Is("g", 1)))

(* Timed effects open and close a window for "work"; the plan has a deadline.*)
Timed(deadline) ==
  [Plain("til" :> <<At(0, TRUE, Always, {}, {}, <<>>),
                    At(2, TRUE, Is("h", 0), {}, {}, To("f", 1)),
                    At(5, TRUE, Always, {}, {}, To("f", 0))>>
         @@ "work" :> <<At(0, TRUE, Is("f", 1), {Is("f", 1)}, {}, <<>>),
                        At(0, FALSE, Always, {}, {Is("f", 1)}, To("g", 1))>>
         @@ "rest" :> Instant(Is("g", 1), To("h", 1)),
         "til" :> Lasts(5, 5) @@ "work" :> Lasts(1, 3) @@ "rest" :> NoDuration,
         Is("h", 1))
   EXCEPT !.timed = "til", !.deadline = deadline]

(* Compression-safe actions of two equivalent objects, inside a window that  *)
(* "lit" has to stay on in; "dim" ends it.                                   *)
Compressed(window) ==
  [Plain("move1" :> <<At(0, TRUE, Is("f", 1), {Is("f", 1)}, {}, <<>>),
                      At(0, FALSE, Is("f", 1), {}, {Is("f", 1)}, To("g", 1))>>
         @@ "move2" :> <<At(0, TRUE, Is("f", 1), {Is("f", 1)}, {}, <<>>),
                         At(0, FALSE, Is("f", 1), {}, {Is("f", 1)}, To("h", 1))>>
         @@ "light" :> <<At(0, TRUE, Always, {}, {}, To("f", 1)),
                         At(0, FALSE, Always, {}, {}, To("f", 0))>>,
         "move1" :> Lasts(2, 2) @@ "move2" :> Lasts(2, 2) @@ "light" :> window,
         Both(Both(Is("g", 1), Is("h", 1)), Is("f", 0)))
   EXCEPT !.safe = [a \in {"move1", "move2", "light"} |-> a # "light"],
          !.objects = ("move1" :> {"o1"} @@ "move2" :> {"o2"} @@ "light" :> {}),
          !.earlier = ("o1" :> {} @@ "o2" :> {"move1"}),
          !.deadline = 9]

MCProblems ==
  {Intermediate, OpenInterval, StateDuration, Timed(NoDeadline), Timed(7), Compressed(Lasts(3, 7))}

(* A condition over two fluents that one action makes true before another    *)
(* stops making it true: "guard" needs f or g throughout.                    *)
Handover ==
  [Plain("guard" :> <<At(0, TRUE, Either(Is("f", 1), Is("g", 1)), {Either(Is("f", 1), Is("g", 1))}, {}, <<>>),
                      At(0, FALSE, Either(Is("f", 1), Is("g", 1)), {}, {Either(Is("f", 1), Is("g", 1))}, To("h", 1))>>
         @@ "replace" :> <<At(0, TRUE, Always, {}, {}, <<>>),
                           At(0, FALSE, Always, {}, {}, To("g", 1))>>
         @@ "leave" :> Instant(Always, To("f", 0)),
         "guard" :> Lasts(5, 5) @@ "replace" :> Lasts(3, 3) @@ "leave" :> NoDuration,
         Both(Is("h", 1), Is("f", 0)))
   EXCEPT !.init = [f \in Fluent |-> IF f = "f" THEN 1 ELSE 0]]

(* "light" cannot be lit twice, and lasts long enough for two moves at the   *)
(* same time but not for one after the other.                                *)
ShortLight ==
  [Compressed(Lasts(3, 5)) EXCEPT
     !.init = [f \in Fluent |-> IF f = "m" THEN 1 ELSE 0],
     !.events["light"][1].conditions = Is("m", 1),
     !.events["light"][1].effects = To("f", 1) @@ To("m", 0),
     !.deadline = NoDeadline]

MCShortLight == {ShortLight}

MCHandover == {Handover}

MCActions ==
  {"run", "use", "stop", "keep", "watch", "drop", "slow", "brake", "copy", "til", "work", "rest",
   "move1", "move2", "light", "guard", "replace", "leave"}
=============================================================================

--------------------------- MODULE PlanExtraction ---------------------------
(****************************************************************************)
(* From a goal state to a plan: the branch is replayed, without compression, *)
(* into a network of its own that keeps only the orderings of mutex and      *)
(* precedence pairs, and the earliest dates are the plan. What a plan must   *)
(* satisfy is stated apart, from the problem alone.                          *)
(****************************************************************************)
EXTENDS TemporalSpace

(* The first entry of a path that the search applied: with a timed action,   *)
(* the path begins with an event fired by the initial state.                 *)
Applied == IF problem.timed = NoTimed THEN 1 ELSE 2

(* The states the replay of s's path goes through; the ids are the path's.   *)
Replay(s) ==
  LET after[n \in Applied - 1 .. Len(s.path)] ==
        IF n = Applied - 1 THEN InitialStates
        ELSE UNION {Successors(r, s.path[n].action, FALSE) : r \in after[n - 1]}
  IN  after

(* The duration bounds, the anchors and, with a timed action, the start.     *)
PlanOpening(a, k, v) ==
  Lasting(a, k, v) \cup Anchored(a, k)
    \cup (IF problem.timed = NoTimed THEN {} ELSE {Before(PlanStart, StartOf(a, k), 0)})
    \cup (IF a = problem.timed THEN {Before(StartOf(a, k), PlanStart, 0)} ELSE {})

(* What keeps the older event e before the newer one f. *)
PlanOrderMutexOnly(e, f) ==
  IF Mutex(f.action, f.pos, e.action, e.pos)
    THEN {Before(PointOf(e), PointOf(f), problem.epsilon)} ELSE {}
PlanOrderStrict(e, f) ==
  IF \/ Mutex(f.action, f.pos, e.action, e.pos)
     \/ Precedence(e.action, e.pos, f.action, f.pos)
    THEN {Before(PointOf(e), PointOf(f), problem.epsilon)} ELSE {}
PlanOrder(e, f) ==
  IF Mutex(f.action, f.pos, e.action, e.pos)
    THEN {Before(PointOf(e), PointOf(f), problem.epsilon)}
  ELSE IF Precedence(e.action, e.pos, f.action, f.pos)
    THEN {Before(PointOf(e), PointOf(f), 0)} ELSE {}

(* Event f before the pending events it is mutex with; those of an action    *)
(* just opened are not pending yet.                                          *)
PlanPending(todo, f) ==
  {c \in BeforeTodo(IF f.pos = 1 THEN Without(todo, f.action) ELSE todo, f.action, f.pos, f.id) :
     c.bound # 0}

(* The network of build_plan for the branch of s, given the states the       *)
(* replay goes through.                                                      *)
ReplayedConstraints(s, replay) ==
  LET At(n) == CHOOSE r \in replay[n] : TRUE
      Step(n) == s.path[n]
      Parent(n) == At(Max({n, Applied}) - 1).assignments
  IN  UNION {(IF Step(n).pos = 1 THEN PlanOpening(Step(n).action, Step(n).id, Parent(n)) ELSE {})
               \cup (UNION {PlanOrder(Step(m), Step(n)) : m \in 1 .. n - 1})
               \cup (IF n < Applied THEN {} ELSE PlanPending(At(n).todo, Step(n))) :
             n \in DOMAIN s.path}
PlanNetworks(s) == {Network(cs) : cs \in {ReplayedConstraints(s, r) : r \in {Replay(s)}}}

(* The actions of the plan with their dates. *)
Instances(s) == {[action |-> s.path[n].action, id |-> s.path[n].id] :
                   n \in {m \in DOMAIN s.path : s.path[m].pos = 1}}

Scheduled(s, tn) ==
  LET origin == IF problem.timed = NoTimed THEN 0 ELSE Date(tn, PlanStart)
  IN  {[action |-> x.action, id |-> x.id,
        start |-> Date(tn, StartOf(x.action, x.id)) - origin,
        end |-> Date(tn, EndOf(x.action, x.id)) - origin] :
         x \in {y \in Instances(s) : y.action # problem.timed}}

(* The plans (exactly one) that build_plan makes of a goal state. *)
BuildPlan(s) == {Scheduled(s, tn) : tn \in PlanNetworks(s)}

-----------------------------------------------------------------------------
(* What makes a plan valid, by the dates alone: the problem's own timed      *)
(* action is part of every execution, at time 0.                             *)
Execution(plan) ==
  plan \cup (IF problem.timed = NoTimed THEN {}
             ELSE {[action |-> problem.timed, id |-> 0, start |-> 0,
                    end |-> problem.duration[problem.timed].upper[problem.init]]})

(* The events of an execution, each at its time. *)
Happenings(plan) ==
  UNION {{[action |-> x.action, id |-> x.id, pos |-> i,
           time |-> (IF Events(x.action)[i].fromStart THEN x.start ELSE x.end)
                      + Events(x.action)[i].delay] : i \in From(x.action, 1)} :
         x \in Execution(plan)}

Times(H) == {h.time : h \in H}

(* The state after what happens at time t, all at once, given the state before.*)
Happen(H, t, v) ==
  [f \in Fluent |->
     LET writers == {h \in H : h.time = t /\ f \in Writes(h.action, h.pos)}
     IN  IF writers = {} THEN v[f]
         ELSE LET h == CHOOSE h \in writers : TRUE
              IN  Events(h.action)[h.pos].effects[f].value[v]]

(* The state after each time at which something happens. *)
Timeline(H) ==
  LET after[t \in Times(H)] ==
        LET earlier == {u \in Times(H) : u < t}
        IN  Happen(H, t, IF earlier = {} THEN problem.init ELSE after[Max(earlier)])
  IN  after

(* Two events interfere when one writes what the other writes or looks at.   *)
LooksAt(h) == Reads(h.action, h.pos)
Interfere(h, j) ==
  \/ Writes(h.action, h.pos) \cap (Writes(j.action, j.pos) \cup LooksAt(j)) # {}
  \/ Writes(j.action, j.pos) \cap LooksAt(h) # {}

Separated(H) ==
  \A h, j \in H :
    h # j /\ Interfere(h, j) =>
      h.time >= j.time + problem.epsilon \/ j.time >= h.time + problem.epsilon

(* The time at which h's instance stops maintaining what h starts to. *)
Until(H, h, c) ==
  LET ends == {j.time : j \in {e \in H : /\ <<e.action, e.id>> = <<h.action, h.id>>
                                         /\ e.pos > h.pos
                                         /\ c \in Events(e.action)[e.pos].end}}
  IN  IF ends = {} THEN Max(Times(H)) + 1 ELSE Min(ends)

Maintained(H, after) ==
  \A h \in H : \A c \in Events(h.action)[h.pos].start : \A t \in Times(H) :
    h.time <= t /\ t < Until(H, h, c) => Holds(c, after[t])

DurationOK(x, v) ==
  LET d == problem.duration[x.action]
      lasts == x.end - x.start
  IN  /\ IF d.leftOpen THEN lasts > d.lower[v] ELSE lasts >= d.lower[v]
      /\ IF d.rightOpen THEN lasts < d.upper[v] ELSE lasts <= d.upper[v]

Valid(plan) ==
  LET H == Happenings(plan)
      after == Timeline(H)
      Prior(t) == LET earlier == {u \in Times(H) : u < t}
                  IN  IF earlier = {} THEN problem.init ELSE after[Max(earlier)]
      final == IF H = {} THEN problem.init ELSE after[Max(Times(H))]
  IN  /\ \A x \in Execution(plan) : x.start >= 0 /\ DurationOK(x, Prior(x.start))
      /\ \A h \in H : Holds(Events(h.action)[h.pos].conditions, Prior(h.time))
      /\ Separated(H)
      /\ Maintained(H, after)
      /\ Holds(problem.goal, final)

PlanMakespan(plan) == Max({0} \cup {x.end : x \in plan})

-----------------------------------------------------------------------------
(* The replay of a branch never gets stuck, although it fires the events of  *)
(* a compressed action one at a time and checks the conditions compression   *)
(* skips: build_plan asserts it (search_space.py:1406-1407). It makes a      *)
(* network that can be scheduled: build_plan reads its distances without     *)
(* asking.                                                                   *)
Extractable(s) == Replay(s)[Len(s.path)] # {} /\ \A tn \in PlanNetworks(s) : Sat(tn)

(* The plan that the network of a goal state gives is valid.                 *)
PlanValid ==
  /\ Extractable(state)
  /\ GoalReached(state) => \A plan \in BuildPlan(state) : Valid(plan)

(* The plan reaches no further than the branch: what extraction adds of its  *)
(* own is already implied by the orderings of the search. So it meets the    *)
(* deadline, with the epsilon that makes an anytime improvement strict. The  *)
(* empty branch is left out: its plan has makespan 0, nothing is before.     *)
NoLaterThanBranch ==
  GoalReached(state) /\ state.path # <<>> =>
    \A plan \in BuildPlan(state) :
      /\ PlanMakespan(plan) + problem.epsilon <= Date(state.tn, PlanEnd)
      /\ problem.deadline # NoDeadline => PlanMakespan(plan) + problem.epsilon <= problem.deadline

(* `makespan` of a state is a lower bound on the makespan of the plans       *)
(* through it (search_space.py:789-790); a goal state has one plan. It is not,*)
(* where extraction drops orderings that the branch has.                     *)
MakespanIsLowerBound ==
  GoalReached(state) => \A plan \in BuildPlan(state) : Makespan(state) <= PlanMakespan(plan)
=============================================================================

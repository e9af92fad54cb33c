--------------------------- MODULE TemporalSpace ---------------------------
(****************************************************************************)
(* The search space of a temporal problem: search states, the successor of a *)
(* state by an action's next event, and the initial state. A behaviour walks *)
(* down one branch of the search; what the search does with the branches is  *)
(* module PrioritySearch.                                                    *)
(*                                                                           *)
(* An action is a sequence of events. Opening it fires the first one and     *)
(* puts the others in `todo`; applying an action in `todo` fires its next    *)
(* event. A compression-safe action fires all its events in one successor.   *)
(*                                                                           *)
(* A problem is what the encoder hands over: an expression is its value in   *)
(* every assignment and the set of fluents it mentions; times count          *)
(* multiples of the finest time unit of the problem.                         *)
(****************************************************************************)
EXTENDS Schedules, Sequences, SequencesExt, Bags

CONSTANTS
  Fluent,
  Value,
  Action,
  Problems,    \* the encoded problems
  MaxPath      \* how many events a branch fires at most

Assignment == [Fluent -> Value]

(* An instantaneous action lasts exactly zero. *)
NoDuration == [lower |-> [v \in Assignment |-> 0], upper |-> [v \in Assignment |-> 0],
               reads |-> {}, leftOpen |-> FALSE, rightOpen |-> FALSE]
NoDeadline == -1
NoTimed == "no timed action"

(* The first event of an action is not before its start: there is one at the *)
(* start, or folded there from the end (encoder.py:1700-1750).               *)
StartsFirst(duration, e) ==
  IF e.fromStart THEN e.delay >= 0 ELSE \A v \in Assignment : duration.lower[v] + e.delay >= 0

(* An action does not end before it starts: its last event, which comes      *)
(* after the first, is not after its end, or its duration is not negative.   *)
EndsAfterStart(duration, e) ==
  \/ ~e.fromStart /\ e.delay <= 0
  \/ \A v \in Assignment : duration.lower[v] >= 0

(* The timed action lasts until its last event (encoder.py:549-558).         *)
Constant(duration) ==
  \A v, w \in Assignment : duration.lower[v] = duration.lower[w] /\ duration.upper[v] = duration.upper[w]

(* What an event of a compression-safe action needs is maintained from the   *)
(* first event up to it (encoder.py:1235-1264).                              *)
Compressible(events) ==
  \A i \in 2 .. Len(events) : \A v \in Assignment :
    (\A c \in events[1].start \ UNION {events[j].end : j \in 2 .. i - 1} : v \in c.holds)
      => v \in events[i].conditions.holds

(* What the encoder guarantees of a problem.                                 *)
ASSUME ProblemsAssumption ==
  \A p \in Problems :
    /\ p.init \in Assignment
    /\ p.epsilon \in Nat
    /\ p.deadline \in Int
    /\ p.relevant \subseteq Action
    /\ p.timed # NoTimed => p.timed \in Action
    /\ \A a \in p.relevant \cup ({p.timed} \ {NoTimed}) :
         /\ Len(p.events[a]) \in Nat \ {0}
         /\ \A v \in Assignment : p.duration[a].lower[v] \in Int /\ p.duration[a].upper[v] \in Int
         /\ \A i \in 1 .. Len(p.events[a]) :
              /\ p.events[a][i].delay \in Int
              /\ \A f \in DOMAIN p.events[a][i].effects : \A v \in Assignment :
                   p.events[a][i].effects[f].value[v] \in Value
         /\ StartsFirst(p.duration[a], p.events[a][1])
         /\ EndsAfterStart(p.duration[a], p.events[a][Len(p.events[a])])
         /\ a = p.timed => Constant(p.duration[a])
         /\ p.safe[a] => Compressible(p.events[a])

VARIABLES
  problem,     \* the problem being solved; never changes
  state        \* the search state

vars == <<problem, state>>

Events(a) == problem.events[a]

(* The events an action still has to fire, from its index i on. *)
From(a, i) == i .. Len(Events(a))

Writes(a, i) == DOMAIN Events(a)[i].effects

(* The first event of a durative action also reads the duration bounds. *)
EventReads(a, i) ==
  Events(a)[i].conditions.reads \cup UNION {Events(a)[i].effects[f].reads : f \in Writes(a, i)}
Reads(a, i) ==
  EventReads(a, i)
    \cup (IF i = 1 THEN problem.duration[a].reads ELSE {})

StartReads(a, i) == UNION {c.reads : c \in Events(a)[i].start}
EndReads(a, i) == UNION {c.reads : c \in Events(a)[i].end}

(* Two events that must be epsilon apart. *)
Mutex(a, i, b, j) ==
  \/ a = b
  \/ Reads(b, j) \cap Writes(a, i) # {}
  \/ (Reads(a, i) \cup Writes(a, i)) \cap Writes(b, j) # {}

(* Event (a, i), fired first, must not come after (b, j) in the plan: it     *)
(* writes what (b, j) starts maintaining, or stops maintaining what (b, j)   *)
(* writes.                                                                   *)
Precedence(a, i, b, j) ==
  \/ a = b
  \/ Writes(a, i) \cap StartReads(b, j) # {}
  \/ Writes(b, j) \cap EndReads(a, i) # {}

(* The time points: the plan's, an action instance's, and its events'. *)
PlanStart == <<"plan start", "plan", 0, 0>>
PlanEnd == <<"plan end", "plan", 0, 0>>
StartOf(a, k) == <<"start", a, k, 0>>
EndOf(a, k) == <<"end", a, k, 0>>
EventOf(a, k, i) == <<"event", a, k, i>>
PointOf(step) == EventOf(step.action, step.id, step.pos)

(* Event k of an action is tied to the action's start or end. *)
Anchored(a, k) ==
  UNION {LET e == Events(a)[i]
             anchor == IF e.fromStart THEN StartOf(a, k) ELSE EndOf(a, k)
         IN  Between(anchor, EventOf(a, k, i), e.delay, e.delay) : i \in From(a, 1)}

(* The duration bounds, read in the assignment v the action is opened in; an *)
(* open bound is moved inwards by epsilon.                                   *)
Lasting(a, k, v) ==
  LET d == problem.duration[a]
  IN  Between(StartOf(a, k), EndOf(a, k),
              d.lower[v] + (IF d.leftOpen THEN problem.epsilon ELSE 0),
              d.upper[v] - (IF d.rightOpen THEN problem.epsilon ELSE 0))

(* The constraints of an action opened in assignment v. The timed action     *)
(* starts exactly at the plan start.                                         *)
OpeningConstraints(a, k, v) ==
  Lasting(a, k, v) \cup Anchored(a, k)
    \cup {Before(PlanStart, StartOf(a, k), 0), Before(EndOf(a, k), PlanEnd, problem.epsilon)}
    \cup (IF a = problem.timed THEN {Before(StartOf(a, k), PlanStart, 0)} ELSE {})

Gap(a, i, b, j) == IF Mutex(a, i, b, j) THEN problem.epsilon ELSE 0

(* The new event (a, i) of instance k after the events already fired: after  *)
(* the last one, and epsilon after the last one it is mutex with.            *)
AfterPrevious(path, a, i, k) ==
  {Before(PointOf(path[n]), EventOf(a, k, i), Gap(a, i, path[n].action, path[n].pos)) :
     n \in {m \in DOMAIN path : m = Len(path)}}
AfterRivals(path, a, i, k) ==
  {Before(PointOf(path[n]), EventOf(a, k, i), problem.epsilon) :
     n \in {m \in DOMAIN path : Mutex(a, i, path[m].action, path[m].pos)}}
AfterPath(path, a, i, k) ==
  LET rivals == {n \in DOMAIN path : Mutex(a, i, path[n].action, path[n].pos)}
  IN  {Before(PointOf(path[n]), EventOf(a, k, i), Gap(a, i, path[n].action, path[n].pos)) :
         n \in {m \in DOMAIN path : m = Len(path) \/ (rivals # {} /\ m = Max(rivals))}}

(* ... and before the events that open actions still have to fire.           *)
BeforeTodo(todo, a, i, k) ==
  UNION {{Before(EventOf(a, k, i), EventOf(b, todo[b].id, j), Gap(a, i, b, j)) :
            j \in From(b, todo[b].next)} : b \in DOMAIN todo}

-----------------------------------------------------------------------------
Holds(c, v) == v \in c.holds

(* Start conditions the event's own effects cannot change. *)
EffectIndependent(a, i) == {c \in Events(a)[i].start : c.reads \cap Writes(a, i) = {}}

MayStartAlways(a, i, s) == TRUE
MayStart(a, i, s) == \A c \in EffectIndependent(a, i) : Holds(c, s.assignments)

Applicable(a, i, s) == Holds(Events(a)[i].conditions, s.assignments) /\ MayStart(a, i, s)

AfterEffects(a, i, v) ==
  [f \in Fluent |-> IF f \in Writes(a, i) THEN Events(a)[i].effects[f].value[v] ELSE v[f]]

ActiveAfter(a, i, active) == (active (-) SetToBag(Events(a)[i].end)) (+) SetToBag(Events(a)[i].start)

(* The active conditions are checked on the child, and only when the event   *)
(* has effects.                                                              *)
ActiveHold(a, i, s, active) ==
  Writes(a, i) # {} => \A c \in BagToSet(active) : Holds(c, AfterEffects(a, i, s.assignments))

(* The states (at most one) after event i of instance k of a: s is the       *)
(* parent, todo and g are the child's, opening the constraints of an action  *)
(* being opened.                                                             *)
Expand(s, todo, g, a, i, k, opening) ==
  LET active == ActiveAfter(a, i, s.active)
      tn == Network(s.tn.constraints \cup opening
                      \cup AfterPath(s.path, a, i, k) \cup BeforeTodo(todo, a, i, k))
  IN  {c \in {[assignments |-> AfterEffects(a, i, s.assignments),
               todo |-> todo,
               active |-> active,
               path |-> Append(s.path, [action |-> a, pos |-> i, id |-> k]),
               tn |-> tn,
               g |-> g]} :
         ActiveHold(a, i, s, active) /\ Sat(c.tn)}

(* The ids of instances: a fresh one for every opening in the branch. *)
FreshId(s) == 1 + Cardinality({n \in DOMAIN s.path : s.path[n].pos = 1})

Without(todo, a) == [b \in DOMAIN todo \ {a} |-> todo[b]]
Advanced(todo, a, next, id) ==
  IF next > Len(Events(a)) THEN Without(todo, a)
  ELSE [b \in DOMAIN todo \cup {a} |-> IF b = a THEN [next |-> next, id |-> id] ELSE todo[b]]

Open(s, a, g) ==
  LET k == FreshId(s)
  IN  Expand(s, Advanced(s.todo, a, 2, k), g, a, 1, k, OpeningConstraints(a, k, s.assignments))

(* The rest of a compression-safe action, in one go: only its start          *)
(* conditions and the active conditions are checked.                         *)
Finish(s, a) ==
  LET chain[i \in From(a, 1)] ==
        IF i = 1 THEN {[s EXCEPT !.todo = Without(s.todo, a)]}
        ELSE UNION {Expand(c, c.todo, c.g + 1, a, i, s.todo[a].id, {}) :
                      c \in {r \in chain[i - 1] : MayStart(a, i, r)}}
  IN  chain[Len(Events(a))]

(* Of equivalent objects, the earlier one must have been used. *)
SymmetryAllows(s, a) ==
  \A o \in problem.objects[a] :
    LET earlier == problem.earlier[o]
    IN  earlier = {} \/ a \in earlier \/ \E n \in DOMAIN s.path : s.path[n].action \in earlier

Opened(s, a) ==
  IF a # problem.timed /\ SymmetryAllows(s, a) /\ Applicable(a, 1, s)
    THEN Open(s, a, s.g + 1) ELSE {}

Continued(s, a) ==
  LET i == s.todo[a].next
      k == s.todo[a].id
  IN  IF Applicable(a, i, s)
        THEN Expand(s, Advanced(s.todo, a, i + 1, k), s.g + 1, a, i, k, {}) ELSE {}

(* get_successor_state_with_compression *)
Successors(s, a, compress) ==
  IF a \in DOMAIN s.todo THEN Continued(s, a)
  ELSE IF compress /\ problem.safe[a] /\ Len(Events(a)) > 1
         THEN UNION {Finish(c, a) : c \in Opened(s, a)}
         ELSE Opened(s, a)

-----------------------------------------------------------------------------
(* The initial states (at most one): the timed action, if any, is already    *)
(* open and its first event fired.                                           *)
Root ==
  [assignments |-> problem.init,
   todo |-> <<>>,
   active |-> EmptyBag,
   path |-> <<>>,
   tn |-> Network(IF problem.deadline = NoDeadline THEN {}
                  ELSE Between(PlanStart, PlanEnd, problem.deadline, problem.deadline)),
   g |-> 0]

InitialStates ==
  IF problem.timed = NoTimed THEN {Root}
  ELSE IF Applicable(problem.timed, 1, Root) THEN Open(Root, problem.timed, 0) ELSE {}

GoalReached(s) == s.todo = <<>> /\ Holds(problem.goal, s.assignments)

(* A lower bound on the makespan of what the branch leads to. *)
Makespan(s) == IF s.path = <<>> THEN 0 ELSE Date(s.tn, PointOf(Last(s.path)))

Init ==
  /\ problem \in Problems
  /\ state \in InitialStates

Apply(a) ==
  /\ Len(state.path) < MaxPath
  /\ state' \in Successors(state, a, TRUE)
  /\ UNCHANGED problem

Next == \E a \in problem.relevant : Apply(a)

Spec == Init /\ [][Next]_vars

-----------------------------------------------------------------------------
TypeOK ==
  /\ problem \in Problems
  /\ state.assignments \in Assignment
  /\ DOMAIN state.todo \subseteq Action
  /\ \A a \in DOMAIN state.todo : state.todo[a].next \in 2 .. Len(Events(a))
  /\ IsABag(state.active)
  /\ state.path \in Seq([action : Action, pos : Nat, id : Nat])
  /\ state.g = Len(state.path) - (IF problem.timed = NoTimed THEN 0 ELSE 1)

(* Every maintained condition holds in every state the search is given,     *)
(* although inherited conditions are never checked on the parent and nothing *)
(* is checked after an event without effects (search_space.py:1148-1152).    *)
Kept(s) == \A c \in BagToSet(s.active) : Holds(c, s.assignments)
ActiveConditionsHold == Kept(state)

(* The two edges added from the path stand for the edges from every event    *)
(* fired before: adding those would change neither the verdict nor a date    *)
(* (search_space.py:1182-1188).                                              *)
PathEdgesSuffice ==
  \A n \in DOMAIN state.path : \A m \in 1 .. n - 1 :
    LET e == state.path[m]
        f == state.path[n]
    IN  Date(state.tn, PointOf(f)) >= Date(state.tn, PointOf(e)) + Gap(f.action, f.pos, e.action, e.pos)

(* The same of every schedule of the branch, not only of the earliest one:   *)
(* t gives distances, so a later time point has a smaller value.             *)
TimePoint ==
  {"plan start", "plan end", "start", "end", "event"} \X (Action \cup {"plan"}) \X Nat \X Nat
Ordered(s) ==
  \A t \in [TimePoint -> Int] :
    Satisfied(t, s.tn.constraints) =>
      \A n \in DOMAIN s.path : \A m \in 1 .. n - 1 :
        t[PointOf(s.path[n])]
          <= t[PointOf(s.path[m])]
               - Gap(s.path[n].action, s.path[n].pos, s.path[m].action, s.path[m].pos)
PathOrdered == Ordered(state)

(* `makespan` bounds the branch from below: the last event of the child is   *)
(* not before the last event of the parent, and no date moves backwards.     *)
DatesOnlyGrow ==
  [][/\ Makespan(state') >= Makespan(state)
     /\ \A n \in DOMAIN state.path :
          Date(state'.tn, PointOf(state.path[n])) >= Date(state.tn, PointOf(state.path[n]))]_vars
-----------------------------------------------------------------------------
(* The states n successors away from the initial one. *)
Level(compress) ==
  LET level[n \in 0 .. MaxPath] ==
        IF n = 0 THEN InitialStates
        ELSE UNION {Successors(s, a, compress) : s \in level[n - 1], a \in problem.relevant}
  IN  level

Solvable(compress) == \E n \in 0 .. MaxPath : \E s \in Level(compress)[n] : GoalReached(s)

(* A space searched exhaustively in vain has no plan: a problem with a plan  *)
(* keeps one when compression-safe actions are expanded in one go. An empty  *)
(* search is taken as a proof for every metric but the makespan              *)
(* (engine.py:1005-1012, 1154-1160).                                         *)
CompressionKeepsAPlan == state.path = <<>> /\ Solvable(FALSE) => Solvable(TRUE)
=============================================================================

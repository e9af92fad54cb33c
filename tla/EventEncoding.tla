--------------------------- MODULE EventEncoding ---------------------------
(****************************************************************************)
(* How the encoder turns an item of the problem into events: a durative      *)
(* action, with conditions over intervals and effects at timings, or the     *)
(* timed effects and timed goals of the whole problem, which become the      *)
(* events of one synthetic action that starts with the plan.                 *)
(*                                                                           *)
(* A behaviour encodes one item, gives it a duration and carries it out      *)
(* while the rest of the world changes the truth of its conditions between   *)
(* the item's instants. Two verdicts are kept: that of the events, as the    *)
(* search checks them, and that of the item's own intervals and effects.     *)
(*                                                                           *)
(* Times count the finest unit of the problem. A condition is a fluent and   *)
(* the value it asks for. A timing is a delay from the start or the end.     *)
(****************************************************************************)
EXTENDS Integers, FiniteSets, Sequences, SequencesExt, FiniteSetsExt, Bags

CONSTANTS
  Items,       \* the durative actions and timed problems that are encoded
  Epsilon,     \* the least distance between two events of one action
  InitialStates, \* where an item may begin
  MaxFlips     \* how often the rest of the world interferes

At(d) == [end |-> FALSE, delay |-> d]
ToEnd(d) == [end |-> TRUE, delay |-> d]

(* An effect assigns a constant or the value of a fluent. *)
Constant(v) == [is |-> v]
Reads(f) == [reads |-> f]
IsConstant(x) == "is" \in DOMAIN x

VARIABLES
  item,        \* what is encoded
  events,      \* its events, in order; <<>> when it is refused
  refusal,     \* why it is refused
  apart,       \* whether the encoder finds its events can be kept apart
  duration,    \* how long it lasts
  clock,       \* the next instant
  due,         \* whether the instant `clock` is still to come
  state,       \* the value of each fluent
  active,      \* the conditions the search maintains
  verdict,     \* whether every check of an event succeeded
  truth,       \* whether every interval of the item was respected
  flips

vars == <<item, events, refusal, apart, duration, clock, due, state, active, verdict, truth, flips>>
choice == <<item, events, refusal, apart, duration>>

(* No time point lies in the interval, whatever the duration. *)
Empty(c) ==
  /\ c.lower.end = c.upper.end
  /\ \/ c.lower.delay > c.upper.delay
     \/ c.lower.delay = c.upper.delay /\ (c.leftOpen \/ c.rightOpen)
IsPoint(c) == c.lower = c.upper

(* The intervals that are encoded; a timed goal that lasts until the end of  *)
(* the plan has no event to end on, and is a goal as well.                   *)
Lasting(i, c) == i.timed /\ c.upper.end
Kept(i) == {c \in i.conditions : i.timed \/ ~Empty(c)}
FinalGoals(i) == {c.holds : c \in {d \in i.conditions : Lasting(i, d)}}

(* The parts of the event at a timing. *)
ChecksOpenBounds(i, t) ==
  {c \in Kept(i) : c.lower = t \/ (c.upper = t /\ ~Lasting(i, c))}
Checked(i, t) ==
  {c \in Kept(i) :
     \/ c.lower = t /\ (IsPoint(c) \/ ~c.leftOpen)
     \/ c.upper = t /\ ~Lasting(i, c) /\ (IsPoint(c) \/ ~c.rightOpen)}
Starting(i, t) == {c \in Kept(i) : ~IsPoint(c) /\ c.lower = t}
Ending(i, t) == {c \in Kept(i) : ~IsPoint(c) /\ c.upper = t /\ ~Lasting(i, c)}
EffectsAt(i, t) == {e \in DOMAIN i.effects : i.effects[e].at = t}
Timings(i) ==
  {c.lower : c \in Kept(i)} \cup {c.upper : c \in {d \in Kept(i) : ~Lasting(i, d)}}
    \cup {i.effects[e].at : e \in DOMAIN i.effects}

(* Timings inside the action from both ends are only supported when its      *)
(* bounds are written as one constant (`spelled`): all are then counted from *)
(* the start.                                                                *)
FromBothEnds(i) ==
  /\ ~i.timed
  /\ \E t \in Timings(i) : ~t.end /\ t.delay > 0
  /\ \E t \in Timings(i) : t.end /\ t.delay < 0
FixedDuration(i) == i.spelled /\ i.lower = i.upper
Folded(i) == FromBothEnds(i) /\ FixedDuration(i)
Bucket(i, t) == IF Folded(i) /\ t.end THEN At(i.lower + t.delay) ELSE t

(* Every item owns an event at its start. *)
Buckets(i) == {Bucket(i, t) : t \in Timings(i)} \cup {At(0)}
Merged(i, b, Part(_, _)) == UNION {Part(i, t) : t \in {u \in Timings(i) : Bucket(i, u) = b}}

(* The timing the event keeps: a bucket made by folding alone, be it at the  *)
(* start, keeps that of the end it was counted from.                         *)
FromTheEnd(i, b) == ToEnd(b.delay - i.lower)
TimingOf(i, b) ==
  IF b \notin Timings(i) /\ Folded(i) /\ FromTheEnd(i, b) \in Timings(i) THEN FromTheEnd(i, b) ELSE b
EventAt(i, b) ==
  [timing |-> TimingOf(i, b), checks |-> Merged(i, b, Checked),
   starts |-> Merged(i, b, Starting), ends |-> Merged(i, b, Ending),
   effects |-> Merged(i, b, EffectsAt)]
(* Those counted from the start come first, each end in order of delay. *)
Precedes(a, b) == IF a.end = b.end THEN a.delay < b.delay ELSE b.end
Nth(i, n) == CHOOSE b \in Buckets(i) : Cardinality({a \in Buckets(i) : Precedes(a, b)}) = n - 1
EventsOf(i) == [n \in 1 .. Cardinality(Buckets(i)) |-> EventAt(i, Nth(i, n))]

(* The effects of one event on one fluent are merged: increases and          *)
(* decreases add up, the same value may be assigned twice, and a Boolean     *)
(* that is set and reset is set.                                             *)
On(i, e, f, kind) == {x \in e.effects : i.effects[x].fluent = f /\ i.effects[x].kind = kind}
Varying(i, assigns) == {x \in assigns : ~IsConstant(i.effects[x].value)}
Sets(i, assigns) == {x \in assigns : i.effects[x].value = Constant(TRUE)}
Conflict(i, e) ==
  \E f \in {i.effects[x].fluent : x \in e.effects} :
    LET assigns == On(i, e, f, "assign")
        changes == On(i, e, f, "increase") \cup On(i, e, f, "decrease")
    IN  \/ assigns # {} /\ changes # {}
        \/ /\ f \in i.numeric
           /\ Cardinality({i.effects[x].value : x \in assigns}) > 1
        \/ /\ f \notin i.numeric
           /\ Sets(i, assigns) = {} /\ Cardinality(Varying(i, assigns)) > 1

EffectValue(x, s) == IF IsConstant(x) THEN x.is ELSE s[x.reads]
Added(v) == LET sum[n \in 0 .. Len(v)] == IF n = 0 THEN 0 ELSE sum[n - 1] + v[n] IN sum[Len(v)]
Total(i, xs, s) ==
  Added([x \in DOMAIN i.effects |-> IF x \in xs THEN EffectValue(i.effects[x].value, s) ELSE 0])
NewestValue(i, e, f, s) ==
  LET x == Max({y \in e.effects : i.effects[y].fluent = f})
      v == EffectValue(i.effects[x].value, s)
  IN  IF i.effects[x].kind = "assign" THEN v
      ELSE IF i.effects[x].kind = "increase" THEN s[f] + v ELSE s[f] - v
NewValue(i, e, f, s) ==
  LET assigns == On(i, e, f, "assign")
      chosen == IF f \in i.numeric THEN assigns
                ELSE IF Sets(i, assigns) # {} THEN Sets(i, assigns)
                     ELSE IF Varying(i, assigns) # {} THEN Varying(i, assigns) ELSE assigns
  IN  IF assigns # {} THEN EffectValue(i.effects[CHOOSE x \in chosen : TRUE].value, s)
      ELSE s[f] + Total(i, On(i, e, f, "increase"), s) - Total(i, On(i, e, f, "decrease"), s)
Written(i, e) == {i.effects[x].fluent : x \in e.effects}
After(i, e, s) == [f \in DOMAIN s |-> IF f \in Written(i, e) THEN NewValue(i, e, f, s) ELSE s[f]]

(* Why an item is refused. *)
Refusal(i) ==
  IF i.timed
    THEN IF \E t \in Timings(i) : t.delay < 0 THEN "before the plan"
         ELSE IF \E c \in i.conditions : c.lower.end THEN "goal from the end"
         ELSE IF \E c \in i.conditions : ~c.upper.end /\ Empty(c) THEN "empty goal"
         ELSE IF \E a, b \in Buckets(i) : a.delay < b.delay /\ b.delay - a.delay < Epsilon
              THEN "too close"
         ELSE "none"
    ELSE IF FromBothEnds(i) /\ ~FixedDuration(i) THEN "both ends"
         ELSE IF \E b \in Buckets(i) : ~b.end /\ b.delay < 0 THEN "before the start"
         ELSE "none"
Refused(i) == IF Refusal(i) # "none" THEN Refusal(i)
              ELSE IF \E n \in DOMAIN EventsOf(i) : Conflict(i, EventsOf(i)[n]) THEN "conflict"
              ELSE "none"

(* The encoder looks for consecutive events no duration can keep apart; from *)
(* one end to the other, only a known upper bound tells: one that is written *)
(* as a constant or is simplified to one (`known`).                          *)
LongestKnown(i) == i.upper - (IF i.rightOpen THEN Epsilon ELSE 0)
IgnoresTheEnd(i, a, b) == a.end = b.end /\ b.delay - a.delay < Epsilon
TooClose(i, a, b) ==
  IF a.end = b.end THEN b.delay - a.delay < Epsilon
  ELSE i.known /\ LongestKnown(i) < a.delay - b.delay + Epsilon
Apart(i, es) == \A n \in 1 .. Len(es) - 1 : ~TooClose(i, es[n].timing, es[n + 1].timing)

(* The durations the search tries, and where they put an event. The timed    *)
(* item lasts until its last event.                                          *)
Durations(i) ==
  IF i.timed THEN {Max({b.delay : b \in Buckets(i)})}
  ELSE (i.lower + (IF i.leftOpen THEN Epsilon ELSE 0)) .. LongestKnown(i)
Instant(e, d) == IF e.timing.end THEN d + e.timing.delay ELSE e.timing.delay
Placed(es, d) == \A n \in 1 .. Len(es) - 1 : Instant(es[n + 1], d) - Instant(es[n], d) >= Epsilon

(* What the planning library builds: conditions and effects at timings in    *)
(* the finest unit, of which there are finitely many; a timed item is a set  *)
(* of instants from the start, and its goals may also last until the end of  *)
(* the plan. Fluents and effects are typed, and only a number is increased.  *)
(* An interval starts before it ends, also after folding: one that turns out *)
(* empty or a point is not dropped (finding `collapsed`).                    *)
Timing == [end : BOOLEAN, delay : Int]
IntervalsFit(i) ==
  \A c \in Kept(i) : ~IsPoint(c) =>
    /\ ~(c.lower.end /\ ~c.upper.end)
    /\ Folded(i) => Bucket(i, c.lower).delay < Bucket(i, c.upper).delay
ItemWellFormed(i) ==
  /\ IsFiniteSet(i.conditions) /\ DOMAIN i.effects = 1 .. Len(i.effects) /\ Len(i.effects) \in Nat
  /\ \A c \in i.conditions : /\ c.lower \in Timing /\ c.upper \in Timing
                             /\ {c.leftOpen, c.rightOpen} \subseteq BOOLEAN
  /\ \A e \in DOMAIN i.effects : i.effects[e].at \in Timing
  /\ {i.timed, i.known, i.spelled, i.leftOpen, i.rightOpen} \subseteq BOOLEAN
  /\ i.spelled => i.known
  /\ i.lower \in Nat /\ i.upper \in Nat
ValuesOf(i, f) == IF f \in i.numeric THEN Int ELSE BOOLEAN
Typed(i, s) == \A f \in DOMAIN s : s[f] \in ValuesOf(i, f)
EffectTyped(i, e, s) ==
  /\ e.fluent \in DOMAIN s
  /\ e.kind = "assign" \/ (e.kind \in {"increase", "decrease"} /\ e.fluent \in i.numeric)
  /\ IF IsConstant(e.value)
       THEN e.value = Constant(e.value.is) /\ e.value.is \in ValuesOf(i, e.fluent)
       ELSE /\ e.value.reads \in DOMAIN s
            /\ e.value.reads \in i.numeric <=> e.fluent \in i.numeric
EncodingAssumption ==
  /\ Epsilon \in Nat \ {0}
  /\ MaxFlips \in Nat
  /\ \A i \in Items, s \in InitialStates :
       Typed(i, s) /\ \A x \in DOMAIN i.effects : EffectTyped(i, i.effects[x], s)
  /\ \A i \in Items :
       /\ ItemWellFormed(i)
       /\ IF i.timed THEN \A e \in DOMAIN i.effects : ~i.effects[e].at.end ELSE IntervalsFit(i)

Init ==
  /\ item \in Items
  /\ refusal = Refused(item)
  /\ events = IF refusal = "none" THEN EventsOf(item) ELSE <<>>
  /\ apart = (refusal = "none" /\ (item.timed \/ Apart(item, events)))
  /\ duration \in Durations(item)
  /\ clock = 0
  /\ due = TRUE
  /\ state \in InitialStates
  /\ active = EmptyBag
  /\ verdict = TRUE
  /\ truth = TRUE
  /\ flips = 0

(* The action runs only if the search can place its events. *)
Runs == refusal = "none" /\ apart /\ Placed(events, duration)
(* Nothing keeps an effect inside its action: the plan outlasts both. *)
PlanEnd == Max({duration} \cup {Instant(events[n], duration) : n \in DOMAIN events}) + 1

Holds(literal, s) == s[literal.fluent] = literal.value
AllHold(literals, s) == \A l \in literals : Holds(l, s)
Literals(cs) == [l \in {c.holds : c \in cs} |-> Cardinality({c \in cs : c.holds = l})]
Released(bag, cs) == bag (-) Literals(cs)
Started(bag, cs) == bag (+) Literals(cs)

(* The item's own meaning: an interval is over the states between its bounds *)
(* and, unless it is left-open, the state its lower bound finds.             *)
When(t) == IF t.end THEN duration + t.delay ELSE t.delay
LowerOf(c) == When(c.lower)
UpperOf(c) == IF Lasting(item, c) THEN PlanEnd + 1 ELSE When(c.upper)
NoInstant(c) == \/ LowerOf(c) > UpperOf(c)
                \/ LowerOf(c) = UpperOf(c) /\ (c.leftOpen \/ c.rightOpen)
FoundAt(t) == {c.holds : c \in {d \in item.conditions : ~NoInstant(d) /\ ~d.leftOpen /\ LowerOf(d) = t}}
MaintainedIn(t) == {c.holds : c \in {d \in item.conditions : ~NoInstant(d) /\ LowerOf(d) <= t /\ t < UpperOf(d)}}

(* At each instant the event that is due fires, if there is one. *)
EventNow == {n \in DOMAIN events : Instant(events[n], duration) = clock}
Fire(e) ==
  /\ state' = After(item, e, state)
  /\ active' = Started(Released(active, e.ends), e.starts)
  /\ verdict' = (/\ verdict
                 /\ AllHold({c.holds : c \in e.checks}, state)
                 /\ AllHold(BagToSet(active'), state'))
Tick ==
  /\ Runs /\ due /\ clock <= PlanEnd
  /\ IF EventNow = {} THEN UNCHANGED <<state, active, verdict>>
     ELSE Fire(events[CHOOSE n \in EventNow : TRUE])
  /\ truth' = (truth /\ AllHold(FoundAt(clock), state) /\ AllHold(MaintainedIn(clock), state'))
  /\ due' = FALSE
  /\ UNCHANGED <<choice, clock, flips>>

(* Between two instants another action may change a Boolean fluent: the      *)
(* search then checks what is active, also when it ends the plan.            *)
Interfere ==
  /\ ~due /\ flips < MaxFlips
  /\ flips' = flips + 1
  /\ \E f \in DOMAIN state \ item.numeric : state' = [state EXCEPT ![f] = ~@]
  /\ verdict' = (verdict /\ AllHold(BagToSet(active), state'))
  /\ truth' = (truth /\ AllHold(MaintainedIn(clock), state'))
  /\ UNCHANGED <<choice, clock, due, active>>

Wait ==
  /\ ~due /\ clock < PlanEnd
  /\ clock' = clock + 1
  /\ due' = TRUE
  /\ UNCHANGED <<choice, state, active, verdict, truth, flips>>

Next == Tick \/ Interfere \/ Wait

Spec == Init /\ [][Next]_vars

----------------------------------------------------------------------------
Finished == ~due /\ clock = PlanEnd
(* The answer of the search: the events' checks, and the final goals. *)
Accepted == verdict /\ AllHold(FinalGoals(item), state)

TypeOK ==
  /\ refusal \in {"none", "both ends", "before the start", "conflict", "before the plan",
                  "goal from the end", "empty goal", "too close"}
  /\ (refusal # "none") => events = <<>> /\ ~apart
  /\ duration \in Durations(item)
  /\ clock \in 0 .. PlanEnd /\ flips \in 0 .. MaxFlips
  /\ IsABag(active)
  /\ Typed(item, state)
  /\ {due, apart, verdict, truth} \subseteq BOOLEAN

(* Splitting intervals over events loses nothing and adds nothing: when the  *)
(* plan ends the events' checks have succeeded exactly when every interval   *)
(* of the item was respected (_build_events, _group_timed_events).           *)
SameVerdict == Finished => (Accepted <=> truth)

(* A condition is maintained no longer than its action runs: at the end only *)
(* the goals that last until the end of the plan are left.                   *)
AllReleased == Finished => BagToSet(active) = FinalGoals(item)

(* The search sizes an action in the state its first event fires in, and     *)
(* numbers the events in the order they happen: the first is at the start,   *)
(* from whichever end it is counted, and in every duration that keeps them   *)
(* apart no other comes before it.                                           *)
FirstIsStart ==
  Runs => /\ Instant(events[1], duration) = 0
          /\ \A n \in DOMAIN events : Instant(events[n], duration) >= Epsilon * (n - 1)

(* An action left out because its events are too close has no duration that  *)
(* keeps them apart (_event_separation_problem).                             *)
SeparationIsRight == (refusal = "none" /\ ~apart) => ~Placed(events, duration)

(* Every action that could never be placed is found, as far as its duration  *)
(* is known and its timings are not folded.                                  *)
SeparationIsFound ==
  (apart /\ item.known /\ ~Folded(item)) => \E d \in Durations(item) : Placed(events, d)

(* The documentation of the same function, for every action whose duration   *)
(* is known: the events are found too close if no duration places them. It   *)
(* does not hold of folded timings, with an epsilon of 2.                    *)
SeparationIsExact ==
  (apart /\ item.known) => \E d \in Durations(item) : Placed(events, d)

(* A condition over an empty interval constrains no time point, so it holds  *)
(* vacuously (the comment of _build_events): an action with no other         *)
(* condition passes every check.                                             *)
EmptyConstrainsNothing == (Runs /\ \A c \in item.conditions : NoInstant(c)) => verdict

(* Effects that meet in one instant are merged: what an instant does to      *)
(* a fluent is what the item's effects at that instant add up to, wherever   *)
(* they were written (_convert_effects).                                     *)
Together(f) ==
  {x \in DOMAIN item.effects : item.effects[x].fluent = f /\ When(item.effects[x].at) = clock}
Intended(f) ==
  LET old == state[f]
      told == Together(f)
      assigned == {EffectValue(item.effects[x].value, state) :
                     x \in {y \in told : item.effects[y].kind = "assign"}}
      change(x) == LET v == EffectValue(item.effects[x].value, state)
                   IN  IF x \notin told THEN 0 ELSE IF item.effects[x].kind = "increase" THEN v ELSE -v
  IN  IF told = {} THEN {old}
      ELSE IF assigned = {} THEN {old + Added([x \in DOMAIN item.effects |-> change(x)])}
      ELSE IF f \in item.numeric \/ TRUE \notin assigned THEN assigned
      ELSE {TRUE}
AddsUp == Tick => \A f \in DOMAIN state : state'[f] \in Intended(f)
=============================================================================

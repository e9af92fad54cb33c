------------------------------- MODULE Engine -------------------------------
(****************************************************************************)
(* engine.py: one-shot solving and the anytime improvement loop. Each round  *)
(* of the loop solves the problem again with a bound that the incumbent      *)
(* fails, on what is left of one timeout.                                    *)
(*                                                                           *)
(* A plan is the sequence of its actions, an action here being what the      *)
(* metrics read: its cost, and the metric's value after it. A search is an   *)
(* oracle that returns some plan of its space, or none: if it is complete,   *)
(* only where there is none (PrioritySearch, MultiqueueSearch, DequeSearch). *)
(****************************************************************************)
EXTENDS Integers, Sequences

CONSTANTS
  Problems,    \* records [plans, initial, metrics, temporal, safe, compressed, encodable]
  Configs,     \* the parameters of the engine and of the call
  NoPlan,      \* what a result carries when it carries no plan
  NoQuality,   \* the quality of that, and the bound of the first round
  MaxWork,     \* bound: how many iterations a search makes
  MaxIdle      \* bound: how long the caller holds on to a result

NoTimeout == -1
Metrics == {"minimize", "maximize", "length", "costs", "makespan"}

(* What the metrics read of an action. Costs are added up in a fluent that   *)
(* is never negative (engine.py:943-946).                                    *)
MetricStep == [cost : Nat, value : Int]

(* The plans the compressed space keeps may be any.                          *)
ASSUME ProblemsAssumption ==
  \A p \in Problems :
    p.plans \subseteq Seq(MetricStep) /\ p.initial \in Int /\ p.compressed \subseteq p.plans

ASSUME ConfigsAssumption ==
  \A c \in Configs : c.timeout \in Nat \cup {NoTimeout} /\ c.weak \in BOOLEAN

ASSUME BoundsAssumption == MaxWork \in Nat /\ MaxIdle \in Nat

(* Python's None is neither a plan nor a number.                             *)
ASSUME NoneAssumption == NoQuality \notin Int /\ \A p \in Problems : NoPlan \notin p.plans

VARIABLES
  problem, config,   \* what the engine was called with; never change
  phase,             \* where the generator, or the one-shot call, stands
  incumbent,         \* the plan of the result yielded last
  bound,             \* the quality the plan searched for must beat
  clock, begun,      \* the time since the call; when the current search began
  allowed,           \* the timeout the current search was given
  encoding,          \* how long the last encoding took, read by properties only
  work,              \* how many iterations the current search made
  weak,              \* the current search uses the weak equality
  results            \* what the caller was given: sequence of [status, plan]

vars == <<problem, config, phase, incumbent, bound, clock, begun, allowed, encoding, work, weak, results>>
-----------------------------------------------------------------------------
(* A caller that names no metric gets the length of a sequential plan or the *)
(* makespan of a temporal one.                                               *)
Metric(p) ==
  IF p.metrics # <<>> THEN p.metrics[1] ELSE IF p.temporal THEN "makespan" ELSE "length"

(* The metrics that a bound can be put on (_check_anytime_metrics).          *)
Supported(p) ==
  \/ p.metrics = <<>>
  \/ /\ Len(p.metrics) = 1
     /\ p.metrics[1] \in Metrics
     /\ p.metrics[1] = "length" => ~p.temporal
     /\ p.metrics[1] = "makespan" => p.temporal

(* What the first i actions of a plan cost.                                  *)
CostOf(plan) ==
  LET cost[i \in 0 .. Len(plan)] == IF i = 0 THEN 0 ELSE cost[i - 1] + plan[i].cost IN cost

(* The metric once the actions of `prefix` were applied: for the length and  *)
(* the costs, the fluent that the bounded problem adds and every action      *)
(* increases.                                                                *)
Quality(p, prefix) ==
  CASE Metric(p) = "length" -> Len(prefix)
    [] Metric(p) = "costs"  -> CostOf(prefix)[Len(prefix)]
    [] OTHER -> IF prefix = <<>> THEN p.initial ELSE prefix[Len(prefix)].value

Beats(p, a, b) == IF Metric(p) = "maximize" THEN a > b ELSE a < b
Better(p, plan, other) == Beats(p, Quality(p, plan), Quality(p, other))

(* A deadline bounds the whole plan; any other bound is a goal and also a     *)
(* condition of every action, so it must hold of every state an action is     *)
(* applied in.                                                               *)
WithoutBound(p, v, plan) == TRUE
Bounded(p, v, plan) ==
  \/ v = NoQuality
  \/ /\ Beats(p, Quality(p, plan), v)
     /\ Metric(p) # "makespan"
          => \A i \in 0..(Len(plan) - 1) : Beats(p, Quality(p, SubSeq(plan, 1, i)), v)

(* The plans of the space that is searched: what compression cannot express  *)
(* is gone.                                                                  *)
Compresses == config.compression /\ problem.safe
Searched ==
  {plan \in problem.plans : Bounded(problem, bound, plan)
                              /\ (Compresses => plan \in problem.compressed)}
-----------------------------------------------------------------------------
(* The parameters of a search.                                               *)
HeuristicName(q) ==
  IF q # "default" THEN q ELSE IF config.callable THEN "custom" ELSE "hff"

HeuristicMayPruneSolvable(q) == HeuristicName(q) = "custom"

SearchIsComplete ==
  \/ config.search \in {"dfs", "bfs"}
  \/ /\ \A i \in DOMAIN config.queues : ~HeuristicMayPruneSolvable(config.queues[i])
     /\ config.search # "ehc" /\ ~config.bounded

(* What a search does, as the other modules show: the weak equality loses    *)
(* states; hill climbing and bounded memory do, and a custom heuristic may   *)
(* prune them, but not the searches that read none of this.                  *)
MayLoseStates ==
  \/ weak /\ problem.temporal
  \/ /\ config.search \notin {"dfs", "bfs"}
     /\ \/ config.search = "ehc" \/ config.bounded
        \/ \E i \in DOMAIN config.queues : HeuristicName(config.queues[i]) = "custom"
-----------------------------------------------------------------------------
Init ==
  /\ problem \in Problems
  /\ config \in Configs
  /\ phase = "called"
  /\ incumbent = NoPlan
  /\ bound = NoQuality
  /\ clock = 0 /\ begun = 0 /\ allowed = NoTimeout /\ encoding = 0
  /\ work = 0
  /\ weak = FALSE
  /\ results = <<>>

(* Time passes; a call without a timeout never looks.                        *)
Passes(d) == clock' = IF config.timeout = NoTimeout THEN clock ELSE clock + d

Give(status, plan) == results' = Append(results, [status |-> status, plan |-> plan])
Fail(status) == Give(status, NoPlan) /\ phase' = "ended"

(* The metrics and the problem are checked, then compiled and grounded.      *)
Compile ==
  /\ phase = "called"
  /\ \E d \in 0..1 : Passes(d)
  /\ IF (config.anytime /\ ~Supported(problem)) \/ ~problem.encodable
       THEN Fail("unsupported problem")
       ELSE phase' = "encode" /\ UNCHANGED results
  /\ UNCHANGED <<problem, config, incumbent, bound, begun, allowed, encoding, work, weak>>

(* The search gets what the time since the call has left, taken before the   *)
(* encoding.                                                                 *)
TimeLeft == IF config.timeout = NoTimeout THEN NoTimeout ELSE config.timeout - clock

(* The encoding of the problem has no initial state when a timed effect or   *)
(* goal cannot be placed: no plan exists then.                               *)
NoInitialState ==
  /\ problem.temporal
  /\ \A plan \in problem.plans : ~Bounded(problem, bound, plan)

(* A heuristic named "custom" needs a callable.                              *)
BadUsage ==
  \E i \in DOMAIN config.queues : config.queues[i] = "custom" /\ ~config.callable

Encode ==
  /\ phase = "encode"
  /\ \E d \in 0..(IF config.timeout = NoTimeout THEN 0 ELSE 1) : encoding' = d /\ Passes(d)
  /\ begun' = clock'
  /\ allowed' = TimeLeft
  /\ work' = 0
  /\ weak' = (config.weak /\ config.search \notin {"dfs", "bfs"})
  /\ \/ NoInitialState /\ phase' = "proven"
     \/ IF BadUsage THEN phase' = "raised" ELSE phase' = "search"
  /\ UNCHANGED <<problem, config, incumbent, bound, results>>

Late == config.timeout # NoTimeout /\ clock - begun > allowed

(* The loop head: it is only left late if the open list is empty, or if the  *)
(* initial state is a goal and the search looks at that first.               *)
SearchPlan(plan) ==
  /\ phase = "search"
  /\ Late => config.early /\ plan = <<>> /\ work = 0
  /\ incumbent' = plan
  /\ IF config.anytime THEN phase' = "intermediate" /\ Give("intermediate", plan)
     ELSE phase' = "ended" /\ Give("satisficing", plan)
  /\ UNCHANGED <<problem, config, bound, clock, begun, allowed, encoding, work, weak>>

Iterate ==
  /\ phase = "search" /\ ~Late /\ work < MaxWork
  /\ work' = work + 1
  /\ Passes(1)
  /\ UNCHANGED <<problem, config, phase, incumbent, bound, begun, allowed, encoding, weak, results>>

SearchTimeout ==
  /\ phase = "search" /\ Late
  /\ phase' = "timeout"
  /\ UNCHANGED <<problem, config, incumbent, bound, clock, begun, allowed, encoding, work, weak, results>>

(* Only a one-shot call can limit the expansions; no retry follows.          *)
SearchLimit ==
  /\ phase = "search" /\ config.limit /\ ~config.anytime
  /\ phase' = "limit"
  /\ UNCHANGED <<problem, config, incumbent, bound, clock, begun, allowed, encoding, work, weak, results>>

(* _remaining_timeout *)
RetryTimeout == allowed
RemainingTimeout ==
  IF config.timeout = NoTimeout THEN NoTimeout
  ELSE IF allowed - (clock - begun) > 0 THEN allowed - (clock - begun) ELSE 0

Retries == weak /\ problem.temporal
SearchNone ==
  /\ phase = "search"
  /\ Searched = {} \/ MayLoseStates
  /\ IF Retries
       THEN weak' = FALSE /\ begun' = clock /\ allowed' = RemainingTimeout /\ work' = 0
            /\ UNCHANGED phase
       ELSE phase' = "none" /\ UNCHANGED <<weak, begun, allowed, work>>
  /\ UNCHANGED <<problem, config, incumbent, bound, clock, encoding, results>>
-----------------------------------------------------------------------------
(* The caller takes a while; then the plan is validated, which evaluates the *)
(* metric, and the next round asks for a better one.                         *)
Resume ==
  /\ phase = "intermediate"
  /\ \E d \in 0..MaxIdle : Passes(d)
  /\ bound' = Quality(problem, incumbent)
  /\ phase' = "encode"
  /\ UNCHANGED <<problem, config, incumbent, begun, allowed, encoding, work, weak, results>>

(* Whether an empty round proves the incumbent the best: not without a        *)
(* metric in the problem, nor if the search, or compression, may have lost   *)
(* the better plan.                                                          *)
ProvesWithoutCompression(outcome) ==
  /\ problem.metrics # <<>>
  /\ outcome = "proven" \/ (outcome = "none" /\ SearchIsComplete)
Proves(outcome) ==
  /\ problem.metrics # <<>>
  /\ \/ outcome = "proven"
     \/ outcome = "none" /\ SearchIsComplete /\ ~(Metric(problem) = "makespan" /\ Compresses)

(* A round without a plan ends the run with the incumbent's.                 *)
Outcomes == {"none", "proven", "limit", "timeout"}
Conclude ==
  /\ phase \in Outcomes
  /\ phase' = "ended"
  /\ IF incumbent # NoPlan
       THEN Give(IF phase = "timeout" THEN "timeout"
                 ELSE IF Proves(phase) THEN "optimal" ELSE "satisficing", incumbent)
       ELSE Give(IF phase = "timeout" THEN "timeout"
                 ELSE IF phase = "proven" THEN "unsolvable" ELSE "unsolvable incompletely", NoPlan)
  /\ UNCHANGED <<problem, config, incumbent, bound, clock, begun, allowed, encoding, work, weak>>

Next ==
  \/ Compile \/ Encode
  \/ \E plan \in Searched : SearchPlan(plan)
  \/ Iterate \/ SearchTimeout \/ SearchLimit \/ SearchNone
  \/ Resume \/ Conclude

Spec == Init /\ [][Next]_vars
-----------------------------------------------------------------------------
Plans == problem.plans

(* The types; and the assertions of a round hold: its metric is known, and   *)
(* that of a temporal problem is not the length.                             *)
TypeOK ==
  /\ bound # NoQuality => Metric(problem) \in Metrics /\ ~(problem.temporal /\ Metric(problem) = "length")
  /\ phase \in {"called", "encode", "search", "intermediate", "none", "proven", "limit",
                "timeout", "raised", "ended"}
  /\ incumbent \in Plans \cup {NoPlan}
  /\ bound \in Int \cup {NoQuality}
  /\ clock \in Nat /\ begun \in Nat /\ allowed \in Int /\ work \in 0..MaxWork
  /\ encoding \in 0..1
  /\ weak \in BOOLEAN
  /\ \A i \in DOMAIN results : results[i].plan \in Plans \cup {NoPlan}

(* Compression may lose plans altogether (TemporalSpace's                    *)
(* CompressionKeepsAPlan). The engine can only answer for those of which the *)
(* space keeps one of as many actions with the same costs, which it takes    *)
(* compression to preserve (engine.py:1005-1012); where it trusts it with    *)
(* nothing, for the makespan, its "optimal" must be true of all plans.       *)
HasCounterpart(plan) ==
  \E other \in problem.compressed :
    Len(other) = Len(plan) /\ \A i \in DOMAIN plan : other[i].cost = plan[i].cost
Represented == {plan \in Plans : Compresses => HasCounterpart(plan)}
Rivals == IF Metric(problem) = "makespan" THEN Plans ELSE Represented

(* An answer called optimal is, when the metric never gets better along a    *)
(* plan.                                                                     *)
Monotone(p) == Metric(p) \in {"length", "costs", "makespan"}
OptimalIsBest ==
  \A i \in DOMAIN results :
    results[i].status = "optimal" /\ Monotone(problem)
      => \A plan \in Rivals : ~Better(problem, plan, results[i].plan)

(* The comment at engine.py:1002-1003: "A proven-unsolvable improvement step *)
(* means no better plan exists at all", for every metric.                    *)
OptimalMeansBest ==
  \A i \in DOMAIN results :
    results[i].status = "optimal" => \A plan \in Plans : ~Better(problem, plan, results[i].plan)

(* However many rounds and retries share the timeout, no search is past it   *)
(* by more than the encoding before it and the iteration it is in; the first *)
(* iteration of a retry excepted, which no clock prevents (its timeout is    *)
(* never negative).                                                          *)
TimeoutIsShared ==
  phase = "search" /\ config.timeout # NoTimeout /\ work > 1
    => clock <= config.timeout + encoding + 1

(* A plan that a complete engine could have found is not given up: with time *)
(* and expansions to spare, no plan means there is none, but perhaps one     *)
(* that compression lost.                                                    *)
NoPlanMeansNone ==
  /\ results # <<>> /\ results[Len(results)].status = "unsolvable incompletely"
  /\ SearchIsComplete /\ ~config.limit
  => Represented = {}

(* Nothing an engine says of the plans it did not find is more than it knows *)
(* (engine.py:998-1012): "optimal" rules out a better one, and giving up in  *)
(* spite of a complete search rules out any that its space represents.       *)
StatusesClaimNoMore == TypeOK /\ OptimalIsBest /\ NoPlanMeansNone

(* What the caller saw last, as the contract sees it: a plan's quality, and  *)
(* the answer, where "optimal" of a metric that may improve along a plan is  *)
(* taken for no more than satisficing.                                       *)
Signed(q) == IF Metric(problem) = "maximize" THEN 0 - q ELSE q
Qualities == {Signed(Quality(problem, plan)) : plan \in Rivals}
LastResult == results[Len(results)]
LastQuality ==
  IF ~config.anytime \/ results = <<>> \/ LastResult.plan = NoPlan THEN NoQuality
  ELSE Signed(Quality(problem, LastResult.plan))
LastAnswer ==
  IF ~config.anytime \/ results = <<>> \/ LastResult.status = "intermediate" THEN "none yet"
  ELSE IF LastResult.status = "optimal" THEN (IF Monotone(problem) THEN "optimal" ELSE "satisficing")
  ELSE IF LastResult.status \in {"satisficing", "timeout"} THEN LastResult.status
  ELSE "failed"

(* An anytime run keeps the contract of a planner of increasing quality      *)
(* (`ensures`), whatever the round that ends it ran into: every plan is      *)
(* better than the one before, and the last answer repeats the best.         *)
Contract == INSTANCE AnytimeContract WITH
              None <- NoQuality, qualities <- Qualities, quality <- LastQuality, answer <- LastAnswer
KeepsContract == Contract!Spec
=============================================================================

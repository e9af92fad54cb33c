---------------------------- MODULE Engine_proofs ----------------------------
(****************************************************************************)
(* What the engine says of the plans it did not find, how its rounds share   *)
(* one timeout, and that it keeps the contract of an anytime planner, for    *)
(* every problem, configuration and outcome of the searches.                 *)
(****************************************************************************)
EXTENDS Engine, TLAPS, WellFoundedInduction, SequenceTheorems

(* A non-empty set of natural numbers has a least one.                       *)
LEMMA LeastNumber ==
  ASSUME NEW S \in SUBSET Nat, S # {}
  PROVE  \E m \in S : \A k \in S : m <= k
<1> DEFINE R == OpToRel(<, Nat)
<1>1. PICK m \in S : \A k \in S : ~(<<k, m>> \in R)
  <2> HIDE DEF R
  <2>1. IsWellFoundedOn(R, Nat)
    BY NatLessThanWellFounded DEF R
  <2> QED
    BY <2>1, WFMin
<1>2. \A k \in S : ~(k < m)
  BY <1>1 DEF OpToRel
<1> QED
  BY <1>2

-----------------------------------------------------------------------------
(* The metrics.                                                              *)

(* The cost of a plan satisfies its recursive definition: a function that    *)
(* does exists up to every length.                                           *)
LEMMA CostOfUnfolds ==
  ASSUME NEW plan \in Seq(MetricStep)
  PROVE  CostOf(plan) =
           [i \in 0 .. Len(plan) |-> IF i = 0 THEN 0 ELSE CostOf(plan)[i - 1] + plan[i].cost]
<1> DEFINE Sums(g, n) == g = [i \in 0 .. n |-> IF i = 0 THEN 0 ELSE g[i - 1] + plan[i].cost]
           Bad == {n \in 0 .. Len(plan) : ~ \E g : Sums(g, n)}
<1>1. Len(plan) \in Nat
  OBVIOUS
<1>2. Bad = {}
  <2>1. SUFFICES ASSUME Bad # {} PROVE FALSE
    OBVIOUS
  <2>2. Bad \in SUBSET Nat
    BY <1>1
  <2>3. PICK n \in Bad : \A k \in Bad : n <= k
    <3> HIDE DEF Bad
    <3> QED
      BY <2>1, <2>2, LeastNumber
  <2>4. n \in 0 .. Len(plan) /\ ~ \E g : Sums(g, n)
    OBVIOUS
  <2>5. CASE n = 0
    <3>1. Sums([i \in 0 .. 0 |-> 0], 0)
      OBVIOUS
    <3> QED
      BY <2>4, <2>5, <3>1
  <2>6. CASE n # 0
    <3>1. n - 1 \in 0 .. Len(plan) /\ n - 1 \notin Bad
      BY <1>1, <2>2, <2>3, <2>4, <2>6
    <3>2. PICK g : Sums(g, n - 1)
      BY <3>1
    <3> DEFINE h == [i \in 0 .. n |-> IF i = n THEN g[n - 1] + plan[n].cost ELSE g[i]]
    <3>3. ASSUME NEW i \in 0 .. n
          PROVE  h[i] = IF i = 0 THEN 0 ELSE h[i - 1] + plan[i].cost
      <4>1. CASE i = n
        BY <4>1, <2>4, <2>6
      <4>2. CASE i # n
        <5>1. i \in 0 .. n - 1 /\ h[i] = g[i]
          BY <4>2, <2>4
        <5>2. g[i] = IF i = 0 THEN 0 ELSE g[i - 1] + plan[i].cost
          BY <5>1, <3>2
        <5>3. i # 0 => h[i - 1] = g[i - 1]
          BY <5>1, <2>4
        <5> QED
          BY <5>1, <5>2, <5>3
      <4> QED
        BY <4>1, <4>2
    <3>4. h = [i \in 0 .. n |-> h[i]]
      OBVIOUS
    <3> HIDE DEF h
    <3>5. Sums(h, n)
      BY <3>3, <3>4
    <3> QED
      BY <2>4, <3>5
  <2> QED
    BY <2>5, <2>6
<1>3. \E g : Sums(g, Len(plan))
  <2>1. Len(plan) \in 0 .. Len(plan)
    BY <1>1
  <2> QED
    BY <2>1, <1>2
<1> QED
  BY <1>3 DEF CostOf

(* What a plan costs grows by the cost of every action.                      *)
LEMMA CostOfSteps ==
  ASSUME NEW plan \in Seq(MetricStep)
  PROVE  /\ CostOf(plan)[0] = 0
         /\ \A i \in 1 .. Len(plan) :
              plan[i].cost \in Nat /\ CostOf(plan)[i] = CostOf(plan)[i - 1] + plan[i].cost
         /\ \A i \in 0 .. Len(plan) : CostOf(plan)[i] \in Nat
<1> DEFINE c == CostOf(plan)
           Bad == {i \in 0 .. Len(plan) : c[i] \notin Nat}
<1>1. Len(plan) \in Nat
  OBVIOUS
<1>2. c = [i \in 0 .. Len(plan) |-> IF i = 0 THEN 0 ELSE c[i - 1] + plan[i].cost]
  BY CostOfUnfolds
<1> HIDE DEF c
<1>3. c[0] = 0
  BY <1>1, <1>2
<1>4. \A i \in 1 .. Len(plan) : plan[i].cost \in Nat /\ c[i] = c[i - 1] + plan[i].cost
  <2>1. ASSUME NEW i \in 1 .. Len(plan) PROVE plan[i].cost \in Nat
    <3>1. plan[i] \in MetricStep
      OBVIOUS
    <3> QED
      BY <3>1 DEF MetricStep
  <2>2. ASSUME NEW i \in 1 .. Len(plan) PROVE c[i] = c[i - 1] + plan[i].cost
    <3>1. i \in 0 .. Len(plan) /\ i # 0
      BY <1>1
    <3> QED
      BY <3>1, <1>2
  <2> QED
    BY <2>1, <2>2
<1>5. Bad = {}
  <2>1. SUFFICES ASSUME Bad # {} PROVE FALSE
    OBVIOUS
  <2>2. Bad \in SUBSET Nat
    BY <1>1
  <2>3. PICK n \in Bad : \A k \in Bad : n <= k
    <3> HIDE DEF Bad
    <3> QED
      BY <2>1, <2>2, LeastNumber
  <2>4. n \in 1 .. Len(plan) /\ n - 1 \in 0 .. Len(plan) /\ c[n] \notin Nat
    BY <1>1, <1>3
  <2>5. n - 1 \notin Bad
    BY <2>2, <2>3, <2>4
  <2>6. c[n - 1] \in Nat
    BY <2>4, <2>5
  <2> QED
    BY <2>4, <2>6, <1>4
<1> QED
  BY <1>3, <1>4, <1>5 DEF c

(* A plan costs no less than any of its prefixes.                            *)
LEMMA CostsGrow ==
  ASSUME NEW plan \in Seq(MetricStep), NEW i \in 0 .. Len(plan)
  PROVE  CostOf(plan)[i] <= CostOf(plan)[Len(plan)]
<1> DEFINE c == CostOf(plan)
           Bad == {j \in i .. Len(plan) : ~(c[i] <= c[j])}
<1>1. Len(plan) \in Nat
  OBVIOUS
<1>2. /\ \A j \in 1 .. Len(plan) : plan[j].cost \in Nat /\ c[j] = c[j - 1] + plan[j].cost
      /\ \A j \in 0 .. Len(plan) : c[j] \in Nat
  BY CostOfSteps
<1> HIDE DEF c
<1>3. Bad = {}
  <2>1. SUFFICES ASSUME Bad # {} PROVE FALSE
    OBVIOUS
  <2>2. Bad \in SUBSET Nat
    BY <1>1
  <2>3. PICK n \in Bad : \A k \in Bad : n <= k
    <3> HIDE DEF Bad
    <3> QED
      BY <2>1, <2>2, LeastNumber
  <2>4. n \in i .. Len(plan) /\ ~(c[i] <= c[n])
    OBVIOUS
  <2>5. n # i
    BY <1>2, <2>4
  <2>6. n \in 1 .. Len(plan) /\ n - 1 \in i .. Len(plan) /\ n - 1 \in 0 .. Len(plan)
    BY <1>1, <2>4, <2>5
  <2>7. c[i] <= c[n - 1]
    BY <2>2, <2>3, <2>6
  <2> QED
    BY <1>2, <2>4, <2>6, <2>7
<1>4. Len(plan) \in i .. Len(plan)
  BY <1>1
<1> QED
  BY <1>3, <1>4 DEF c

(* Actions of the same costs add up to the same.                             *)
LEMMA SameCosts ==
  ASSUME NEW plan \in Seq(MetricStep), NEW other \in Seq(MetricStep), NEW n \in Nat,
         n <= Len(plan), n <= Len(other), \A i \in 1 .. n : other[i].cost = plan[i].cost
  PROVE  CostOf(other)[n] = CostOf(plan)[n]
<1> DEFINE c == CostOf(plan)
           d == CostOf(other)
           Bad == {j \in 0 .. n : d[j] # c[j]}
<1>1. Len(plan) \in Nat /\ Len(other) \in Nat
  OBVIOUS
<1>2. /\ c[0] = 0 /\ d[0] = 0
      /\ \A j \in 1 .. Len(plan) : c[j] = c[j - 1] + plan[j].cost
      /\ \A j \in 1 .. Len(other) : d[j] = d[j - 1] + other[j].cost
  BY CostOfSteps
<1> HIDE DEF c, d
<1>3. Bad = {}
  <2>1. SUFFICES ASSUME Bad # {} PROVE FALSE
    OBVIOUS
  <2>2. Bad \in SUBSET Nat
    OBVIOUS
  <2>3. PICK k \in Bad : \A l \in Bad : k <= l
    <3> HIDE DEF Bad
    <3> QED
      BY <2>1, <2>2, LeastNumber
  <2>4. k \in 0 .. n /\ d[k] # c[k]
    OBVIOUS
  <2>5. k # 0
    BY <1>2, <2>4
  <2>6. k \in 1 .. n /\ k - 1 \in 0 .. n /\ k \in 1 .. Len(plan) /\ k \in 1 .. Len(other)
    BY <1>1, <2>4, <2>5
  <2>7. d[k - 1] = c[k - 1]
    BY <2>2, <2>3, <2>6
  <2> QED
    BY <1>2, <2>4, <2>6, <2>7
<1>4. n \in 0 .. n
  OBVIOUS
<1> QED
  BY <1>3, <1>4 DEF c, d

(* The metric of a plan is a number.                                         *)
LEMMA QualityIsNumber ==
  ASSUME NEW p \in Problems, NEW prefix \in Seq(MetricStep)
  PROVE  Quality(p, prefix) \in Int
<1>1. CASE Metric(p) = "length"
  BY <1>1 DEF Quality
<1>2. CASE Metric(p) = "costs"
  <2>1. Len(prefix) \in 0 .. Len(prefix)
    OBVIOUS
  <2>2. CostOf(prefix)[Len(prefix)] \in Nat
    BY <2>1, CostOfSteps
  <2> QED
    BY <1>2, <2>2 DEF Quality
<1>3. CASE Metric(p) # "length" /\ Metric(p) # "costs"
  <2>1. p.initial \in Int
    BY ProblemsAssumption
  <2>2. prefix # <<>> => prefix[Len(prefix)].value \in Int
    <3>1. prefix # <<>> => prefix[Len(prefix)] \in MetricStep
      OBVIOUS
    <3> QED
      BY <3>1 DEF MetricStep
  <2> QED
    BY <1>3, <2>1, <2>2 DEF Quality
<1> QED
  BY <1>1, <1>2, <1>3

(* The length and the costs of a plan are no less than those of a prefix.    *)
LEMMA QualityGrows ==
  ASSUME NEW p \in Problems, Metric(p) \in {"length", "costs"},
         NEW plan \in Seq(MetricStep), NEW i \in 0 .. (Len(plan) - 1)
  PROVE  Quality(p, SubSeq(plan, 1, i)) <= Quality(p, plan)
<1> DEFINE prefix == SubSeq(plan, 1, i)
<1>1. Len(plan) \in Nat /\ i \in 0 .. Len(plan) /\ i \in Nat
  OBVIOUS
<1>2. prefix \in Seq(MetricStep) /\ Len(prefix) = i /\ \A j \in 1 .. i : prefix[j] = plan[j]
  BY <1>1
<1> HIDE DEF prefix
<1>3. CASE Metric(p) = "length"
  BY <1>1, <1>2, <1>3 DEF Quality, prefix
<1>4. CASE Metric(p) = "costs"
  <2>1. CostOf(prefix)[i] = CostOf(plan)[i]
    BY <1>1, <1>2, SameCosts
  <2>2. CostOf(plan)[i] <= CostOf(plan)[Len(plan)]
    BY <1>1, CostsGrow
  <2> QED
    BY <1>2, <1>4, <2>1, <2>2 DEF Quality, prefix
<1> QED
  BY <1>3, <1>4

(* Plans of as many actions of the same costs have the same length and costs.*)
LEMMA SameQuality ==
  ASSUME NEW p \in Problems, Metric(p) \in {"length", "costs"},
         NEW plan \in Seq(MetricStep), NEW other \in Seq(MetricStep),
         Len(other) = Len(plan), \A i \in DOMAIN plan : other[i].cost = plan[i].cost
  PROVE  Quality(p, other) = Quality(p, plan)
<1>1. Len(plan) \in Nat /\ DOMAIN plan = 1 .. Len(plan)
  OBVIOUS
<1>2. CostOf(other)[Len(plan)] = CostOf(plan)[Len(plan)]
  BY <1>1, SameCosts
<1> QED
  BY <1>2 DEF Quality

(* Where the metric never gets better along a plan, a plan that beats the    *)
(* bound passes it in every state on its way.                                *)
LEMMA BeatsIsBounded ==
  ASSUME NEW p \in Problems, Monotone(p), NEW plan \in p.plans, NEW v \in Int,
         Beats(p, Quality(p, plan), v)
  PROVE  Bounded(p, v, plan)
<1>1. plan \in Seq(MetricStep)
  BY ProblemsAssumption
<1>2. Metric(p) # "maximize" /\ Quality(p, plan) < v
  BY DEF Monotone, Beats
<1>3. ASSUME Metric(p) # "makespan", NEW i \in 0 .. (Len(plan) - 1)
      PROVE  Beats(p, Quality(p, SubSeq(plan, 1, i)), v)
  <2>1. Metric(p) \in {"length", "costs"}
    BY <1>3 DEF Monotone
  <2>2. Quality(p, SubSeq(plan, 1, i)) <= Quality(p, plan)
    BY <1>1, <2>1, QualityGrows
  <2>3. SubSeq(plan, 1, i) \in Seq(MetricStep)
    BY <1>1
  <2>4. Quality(p, SubSeq(plan, 1, i)) \in Int /\ Quality(p, plan) \in Int
    BY <1>1, <2>3, QualityIsNumber
  <2> QED
    BY <1>2, <2>2, <2>4 DEF Beats
<1> QED
  BY <1>3 DEF Bounded

-----------------------------------------------------------------------------
(* The inductive invariant. What was handed out last is the incumbent, and a *)
(* search looks for what beats it.                                           *)
Statuses ==
  {"intermediate", "satisficing", "optimal", "timeout", "unsolvable", "unsolvable incompletely",
   "unsupported problem"}
Result == [status : Statuses, plan : Plans \cup {NoPlan}]
Called == problem \in Problems /\ config \in Configs
HandedOut ==
  /\ results \in Seq(Result)
  /\ phase = "called" => results = <<>>
  /\ phase = "intermediate" => results # <<>>
  /\ phase # "ended" /\ results = <<>> => incumbent = NoPlan /\ bound = NoQuality
  /\ phase # "ended" /\ results # <<>> =>
       /\ config.anytime /\ incumbent \in Plans
       /\ LastResult = [status |-> "intermediate", plan |-> incumbent]
       /\ phase # "intermediate" => bound = Quality(problem, incumbent)

(* No round is run for a metric that cannot be bounded.                      *)
BoundIsSupported ==
  /\ config.anytime /\ phase \notin {"called", "ended"} => Supported(problem)
  /\ bound # NoQuality => Supported(problem)

(* What the outcome of a search tells of the plans it did not find.          *)
OutcomeIsKnown ==
  /\ phase = "proven" => \A plan \in Plans : ~Bounded(problem, bound, plan)
  /\ phase = "none" => Searched = {} \/ ~SearchIsComplete
  /\ phase = "limit" => config.limit

(* A search that did not start over has what the call's timeout leaves; one  *)
(* that did has that or nothing, which stops it after an iteration.          *)
TimeIsLeft ==
  phase = "search" /\ config.timeout # NoTimeout =>
    /\ clock = begun + work
    /\ work = 0 \/ work <= allowed + 1
    /\ begun + allowed = config.timeout + encoding \/ (allowed = 0 /\ work <= 1)

IInv ==
  /\ TypeOK /\ Called /\ HandedOut /\ BoundIsSupported /\ OutcomeIsKnown /\ TimeIsLeft
  /\ OptimalIsBest /\ NoPlanMeansNone
(* The inductive invariant holds initially.                                  *)
LEMMA InitIInv == Init => IInv
<1> SUFFICES ASSUME Init PROVE IInv
  OBVIOUS
<1>1. DOMAIN results = {}
  BY DEF Init
<1>2. TypeOK
  <2>1. /\ clock \in Nat /\ begun \in Nat /\ allowed \in Int /\ work \in 0 .. MaxWork
        /\ encoding \in 0 .. 1
    BY BoundsAssumption DEF Init, NoTimeout
  <2>2. weak \in BOOLEAN
    BY DEF Init
  <2> QED
    BY <1>1, <2>1, <2>2 DEF Init, TypeOK
<1>3. HandedOut
  <2>1. results = <<>> /\ phase = "called" /\ incumbent = NoPlan /\ bound = NoQuality
    BY DEF Init
  <2>2. results \in Seq(Result)
    BY <2>1
  <2> QED
    BY <2>1, <2>2 DEF HandedOut
<1> QED
  BY <1>1, <1>2, <1>3 DEF Init, IInv, Called, BoundIsSupported, OutcomeIsKnown, TimeIsLeft,
                      OptimalIsBest, NoPlanMeansNone

(* Handing out a result leaves the ones before it as they were.              *)
LEMMA GiveAppends ==
  ASSUME HandedOut, NEW status \in Statuses, NEW plan \in Plans \cup {NoPlan},
         results' = Append(results, [status |-> status, plan |-> plan])
  PROVE  /\ results' \in Seq(Result) /\ results' # <<>> /\ Len(results') = Len(results) + 1
         /\ results'[Len(results')] = [status |-> status, plan |-> plan]
         /\ \A i \in DOMAIN results' :
              results'[i] = [status |-> status, plan |-> plan] \/ (i \in DOMAIN results /\ results'[i] = results[i])
<1> DEFINE r == [status |-> status, plan |-> plan]
<1>1. r \in Result
  BY DEF Result
<1>2. results' = Append(results, r) /\ results \in Seq(Result)
  BY DEF HandedOut
<1> HIDE DEF r, Result
<1>3. /\ results' \in Seq(Result) /\ Len(results) \in Nat /\ Len(results') = Len(results) + 1
      /\ DOMAIN results' = 1 .. Len(results) + 1 /\ DOMAIN results = 1 .. Len(results)
      /\ results'[Len(results) + 1] = r
      /\ \A i \in 1 .. Len(results) : results'[i] = results[i]
  BY <1>1, <1>2
<1>4. ASSUME NEW i \in DOMAIN results'
      PROVE  results'[i] = r \/ (i \in DOMAIN results /\ results'[i] = results[i])
  BY <1>3
<1>5. results' # <<>> /\ results'[Len(results')] = r
  BY <1>3
<1>6. /\ results' \in Seq(Result) /\ results' # <<>> /\ Len(results') = Len(results) + 1
      /\ results'[Len(results')] = r
      /\ \A i \in DOMAIN results' : results'[i] = r \/ (i \in DOMAIN results /\ results'[i] = results[i])
  BY <1>3, <1>4, <1>5
<1> QED
  BY <1>6 DEF r

(* The plans the engine answers for never change.                            *)
LEMMA SameRivals ==
  ASSUME UNCHANGED <<problem, config>>
  PROVE  Represented' = Represented /\ Rivals' = Rivals
BY DEF Represented, Rivals, HasCounterpart, Compresses, Plans

(* Of the invariant, what was said about results handed out stays said.      *)
LEMMA ResultsStand ==
  ASSUME IInv, NEW status \in Statuses, NEW plan \in Plans \cup {NoPlan},
         results' = Append(results, [status |-> status, plan |-> plan]),
         problem' = problem, config' = config,
         status = "optimal" /\ Monotone(problem) => \A other \in Rivals : ~Better(problem, other, plan),
         status = "unsolvable incompletely" /\ SearchIsComplete /\ ~config.limit => Represented = {}
  PROVE  /\ OptimalIsBest' /\ NoPlanMeansNone'
         /\ \A i \in DOMAIN results' : results'[i].plan \in Plans \cup {NoPlan}
<1>1. /\ results' # <<>> /\ results'[Len(results')] = [status |-> status, plan |-> plan]
      /\ \A i \in DOMAIN results' :
           results'[i] = [status |-> status, plan |-> plan] \/ (i \in DOMAIN results /\ results'[i] = results[i])
  BY GiveAppends DEF IInv
<1> DEFINE r == [status |-> status, plan |-> plan]
<1>0. r.status = status /\ r.plan = plan
  OBVIOUS
<1> HIDE DEF r
<1>2. OptimalIsBest'
  <2> SUFFICES ASSUME NEW i \in DOMAIN results', results'[i].status = "optimal", Monotone(problem),
                      NEW other \in Rivals
               PROVE  ~Better(problem, other, results'[i].plan)
    BY SameRivals DEF OptimalIsBest
  <2>1. CASE results'[i] = r
    BY <1>0, <2>1
  <2>2. CASE i \in DOMAIN results /\ results'[i] = results[i]
    BY <2>2 DEF IInv, OptimalIsBest
  <2> QED
    BY <1>1, <2>1, <2>2 DEF r
<1>3. NoPlanMeansNone'
  <2>1. results'[Len(results')].status = status
    BY <1>0, <1>1 DEF r
  <2>2. SearchIsComplete' = SearchIsComplete /\ Represented' = Represented
    BY SameRivals DEF SearchIsComplete, HeuristicMayPruneSolvable, HeuristicName
  <2> QED
    BY <2>1, <2>2 DEF NoPlanMeansNone
<1>4. \A i \in DOMAIN results' : results'[i].plan \in Plans \cup {NoPlan}
  <2> SUFFICES ASSUME NEW i \in DOMAIN results' PROVE results'[i].plan \in Plans \cup {NoPlan}
    OBVIOUS
  <2>1. CASE results'[i] = r
    BY <1>0, <2>1
  <2>2. CASE i \in DOMAIN results /\ results'[i] = results[i]
    BY <2>2 DEF IInv, TypeOK
  <2> QED
    BY <1>1, <2>1, <2>2 DEF r
<1> QED
  BY <1>2, <1>3, <1>4

(* A step that hands out nothing says nothing.                               *)
LEMMA NothingSaid ==
  ASSUME IInv, UNCHANGED <<problem, config, results>>
  PROVE  /\ OptimalIsBest' /\ NoPlanMeansNone' /\ Called' /\ results' \in Seq(Result')
         /\ \A i \in DOMAIN results' : results'[i].plan \in Plans' \cup {NoPlan}
<1>1. OptimalIsBest'
  BY SameRivals DEF IInv, OptimalIsBest
<1>2. NoPlanMeansNone'
  BY SameRivals DEF IInv, NoPlanMeansNone, SearchIsComplete, HeuristicMayPruneSolvable, HeuristicName
<1>3. Called' /\ results' \in Seq(Result')
  BY DEF IInv, Called, HandedOut, Result, Plans
<1>4. \A i \in DOMAIN results' : results'[i].plan \in Plans' \cup {NoPlan}
  BY DEF IInv, TypeOK, Plans
<1> QED
  BY <1>1, <1>2, <1>3, <1>4

(* An empty search leaves no plan that beats the bound, among those that the *)
(* space represents.                                                         *)
LEMMA NothingBeatsTheBound ==
  ASSUME Called, Monotone(problem), bound \in Int, Searched = {},
         ~(Metric(problem) = "makespan" /\ Compresses), NEW plan \in Represented
  PROVE  ~Beats(problem, Quality(problem, plan), bound)
<1> SUFFICES ASSUME Beats(problem, Quality(problem, plan), bound) PROVE FALSE
  OBVIOUS
<1>1. problem \in Problems /\ plan \in problem.plans
  BY DEF Called, Plans, Represented
<1>2. CASE ~Compresses
  <2>1. Bounded(problem, bound, plan)
    BY <1>1, BeatsIsBounded
  <2> QED
    BY <1>1, <1>2, <2>1 DEF Searched
<1>3. CASE Compresses
  <2>1. Metric(problem) \in {"length", "costs"}
    BY <1>3 DEF Monotone
  <2>2. PICK other \in problem.compressed :
          Len(other) = Len(plan) /\ \A i \in DOMAIN plan : other[i].cost = plan[i].cost
    BY <1>3 DEF Represented, HasCounterpart
  <2>3. /\ other \in problem.plans
        /\ plan \in Seq(MetricStep) /\ other \in Seq(MetricStep)
    BY <1>1, <2>2, ProblemsAssumption
  <2>4. Quality(problem, other) = Quality(problem, plan)
    BY <1>1, <2>1, <2>2, <2>3, SameQuality
  <2>5. Bounded(problem, bound, other)
    BY <1>1, <2>3, <2>4, BeatsIsBounded
  <2> QED
    BY <1>3, <2>2, <2>3, <2>5 DEF Searched
<1> QED
  BY <1>2, <1>3

(* A round that proves the incumbent the best is right about it.             *)
LEMMA ProvesIsRight ==
  ASSUME IInv, phase \in Outcomes, incumbent # NoPlan, Proves(phase), Monotone(problem)
  PROVE  \A other \in Rivals : ~Better(problem, other, incumbent)
<1> SUFFICES ASSUME NEW other \in Rivals PROVE ~Beats(problem, Quality(problem, other), bound)
  <2>1. bound = Quality(problem, incumbent)
    BY DEF IInv, HandedOut, Outcomes
  <2> QED
    BY <2>1 DEF Better
<1>1. incumbent \in Plans /\ bound = Quality(problem, incumbent) /\ problem \in Problems
  BY DEF IInv, HandedOut, Outcomes, Called
<1>2. bound \in Int
  <2>1. incumbent \in Seq(MetricStep)
    BY <1>1, ProblemsAssumption DEF Plans
  <2> QED
    BY <1>1, <2>1, QualityIsNumber
<1>3. CASE phase = "proven"
  <2>1. other \in problem.plans
    BY DEF Rivals, Represented, Plans
  <2>2. ~Bounded(problem, bound, other)
    BY <1>3, <2>1 DEF IInv, OutcomeIsKnown, Plans
  <2> QED
    BY <1>1, <1>2, <2>1, <2>2, BeatsIsBounded
<1>4. CASE phase # "proven"
  <2>1. /\ phase = "none" /\ SearchIsComplete
        /\ ~(Metric(problem) = "makespan" /\ Compresses)
    BY <1>4 DEF Proves
  <2>2. Searched = {}
    BY <2>1 DEF IInv, OutcomeIsKnown
  <2>3. other \in Represented
    BY <2>1 DEF Rivals, Represented
  <2> QED
    BY <1>2, <2>1, <2>2, <2>3, NothingBeatsTheBound DEF IInv
<1> QED
  BY <1>3, <1>4

(* A complete search that was not stopped and found no first plan was right, *)
(* of the plans that its space represents.                                   *)
LEMMA GivingUpIsRight ==
  ASSUME IInv, phase \in Outcomes, phase \notin {"proven", "timeout"}, incumbent = NoPlan,
         SearchIsComplete, ~config.limit
  PROVE  Represented = {}
<1>1. /\ phase = "none" /\ Searched = {} /\ problem \in Problems
  BY DEF IInv, OutcomeIsKnown, Outcomes, Called
<1>2. NoPlan \notin Plans
  BY <1>1, NoneAssumption DEF Plans
<1>3. bound = NoQuality
  BY <1>1, <1>2 DEF IInv, HandedOut
<1>4. SUFFICES ASSUME NEW plan \in Represented PROVE FALSE
  OBVIOUS
<1>5. \E other \in problem.plans : Compresses => other \in problem.compressed
  <2>1. CASE ~Compresses
    BY <2>1 DEF Represented, Plans
  <2>2. CASE Compresses
    <3>1. PICK other \in problem.compressed : TRUE
      BY <2>2 DEF Represented, HasCounterpart
    <3> QED
      BY <1>1, <3>1, ProblemsAssumption
  <2> QED
    BY <2>1, <2>2
<1>6. Searched # {}
  BY <1>3, <1>5 DEF Searched, Bounded
<1> QED
  BY <1>1, <1>6

(* The metric of a supported problem is one that a bound can be put on.      *)
LEMMA SupportedMetric ==
  ASSUME Supported(problem)
  PROVE  Metric(problem) \in Metrics /\ ~(problem.temporal /\ Metric(problem) = "length")
BY DEF Supported, Metric, Metrics

(* The parts that a change of phase alone keeps.                             *)
LEMMA SameSearch ==
  ASSUME UNCHANGED <<problem, config, bound>>
  PROVE  /\ Plans' = Plans /\ Searched' = Searched /\ (SearchIsComplete <=> SearchIsComplete')
         /\ \A plan : Bounded(problem, bound, plan)' = Bounded(problem, bound, plan)
         /\ Supported(problem)' = Supported(problem)
<1>1. \A plan : Bounded(problem, bound, plan)' = Bounded(problem, bound, plan)
  OBVIOUS
<1>2. Plans' = Plans /\ Searched' = Searched /\ Supported(problem)' = Supported(problem)
  BY DEF Plans, Searched, Compresses
<1>3. SearchIsComplete <=> SearchIsComplete'
  BY DEF SearchIsComplete, HeuristicMayPruneSolvable, HeuristicName
<1> QED
  BY <1>1, <1>2, <1>3

(* Compiling keeps the invariant.                                            *)
LEMMA CompileIInv == IInv /\ Compile => IInv'
<1> SUFFICES ASSUME IInv, Compile PROVE IInv'
  OBVIOUS
<1>1. /\ phase = "called" /\ results = <<>> /\ incumbent = NoPlan /\ bound = NoQuality
      /\ UNCHANGED <<problem, config, incumbent, bound, begun, allowed, encoding, work, weak>>
  BY DEF Compile, IInv, HandedOut
<1>2. clock' \in Nat
  <2>1. PICK d \in 0 .. 1 : Passes(d)
    BY DEF Compile
  <2> QED
    BY <2>1 DEF Passes, IInv, TypeOK
<1>3. CASE /\ phase' = "ended"
             /\ results' = Append(results, [status |-> "unsupported problem", plan |-> NoPlan])
  <2>1. /\ OptimalIsBest' /\ NoPlanMeansNone'
        /\ \A i \in DOMAIN results' : results'[i].plan \in Plans \cup {NoPlan}
    BY <1>1, <1>3, ResultsStand DEF Statuses
  <2>2. results' \in Seq(Result)
    BY <1>3, GiveAppends DEF IInv, Statuses
  <2>3. Result' = Result /\ Plans' = Plans
    BY <1>1 DEF Result, Plans
  <2>4. TypeOK'
    BY <1>1, <1>2, <1>3, <2>1, <2>3 DEF IInv, TypeOK
  <2>5. HandedOut'
    BY <1>1, <1>3, <2>2, <2>3 DEF HandedOut
  <2> QED
    BY <1>1, <1>3, <2>1, <2>4, <2>5 DEF IInv, Called, BoundIsSupported, OutcomeIsKnown, TimeIsLeft
<1>4. CASE phase' = "encode" /\ results' = results /\ (config.anytime => Supported(problem))
  <2>1. /\ OptimalIsBest' /\ NoPlanMeansNone' /\ Called' /\ results' \in Seq(Result')
        /\ \A i \in DOMAIN results' : results'[i].plan \in Plans' \cup {NoPlan}
    BY <1>1, <1>4, NothingSaid
  <2>2. TypeOK'
    BY <1>1, <1>2, <1>4, <2>1 DEF IInv, TypeOK, Plans
  <2>3. HandedOut'
    BY <1>1, <1>4, <2>1 DEF HandedOut
  <2> QED
    BY <1>1, <1>4, <2>1, <2>2, <2>3 DEF IInv, BoundIsSupported, OutcomeIsKnown, TimeIsLeft
<1> QED
  BY <1>3, <1>4 DEF Compile, Fail, Give

(* Encoding keeps it: the search gets what is left of the timeout.           *)
LEMMA EncodeIInv == IInv /\ Encode => IInv'
<1> SUFFICES ASSUME IInv, Encode PROVE IInv'
  OBVIOUS
<1>1. /\ phase = "encode" /\ phase' \in {"proven", "raised", "search"}
      /\ phase' = "proven" => NoInitialState
      /\ work' = 0 /\ begun' = clock' /\ allowed' = TimeLeft
      /\ weak' = (config.weak /\ config.search \notin {"dfs", "bfs"})
      /\ UNCHANGED <<problem, config, incumbent, bound, results>>
  BY DEF Encode
<1>2. PICK d \in 0 .. (IF config.timeout = NoTimeout THEN 0 ELSE 1) : encoding' = d /\ Passes(d)
  BY DEF Encode
<1>3. /\ clock \in Nat /\ config.timeout \in Int /\ config.weak \in BOOLEAN
  BY ConfigsAssumption DEF IInv, TypeOK, Called, NoTimeout
<1>4. /\ clock' \in Nat /\ allowed' \in Int /\ encoding' \in 0 .. 1
      /\ config.timeout # NoTimeout => begun' + allowed' = config.timeout + encoding'
      /\ clock' = begun' + work'
  <2> DEFINE c == clock + (IF config.timeout = NoTimeout THEN 0 ELSE d)
  <2>1. c \in Nat /\ clock' = c /\ begun' = c /\ work' = 0
    BY <1>1, <1>2, <1>3 DEF Passes
  <2>2. allowed' \in Int /\ encoding' = d /\ d \in 0 .. 1
    BY <1>1, <1>2, <1>3 DEF TimeLeft, NoTimeout
  <2>3. config.timeout # NoTimeout => allowed' = config.timeout - clock /\ c = clock + d
    BY <1>1 DEF TimeLeft
  <2> QED
    BY <1>3, <2>1, <2>2, <2>3
<1>5. /\ OptimalIsBest' /\ NoPlanMeansNone' /\ Called' /\ results' \in Seq(Result')
      /\ \A i \in DOMAIN results' : results'[i].plan \in Plans' \cup {NoPlan}
  BY <1>1, NothingSaid
<1>6. TypeOK'
  <2>1. weak' \in BOOLEAN
    BY <1>1, <1>3
  <2>2. work' \in 0 .. MaxWork
    BY <1>1, BoundsAssumption
  <2> QED
    BY <1>1, <1>4, <1>5, <2>1, <2>2 DEF IInv, TypeOK, Plans
<1>7. HandedOut'
  BY <1>1, <1>5 DEF IInv, HandedOut, LastResult, Plans
<1>8. BoundIsSupported'
  BY <1>1 DEF IInv, BoundIsSupported
<1>9. OutcomeIsKnown'
  BY <1>1, SameSearch DEF OutcomeIsKnown, NoInitialState, Plans
<1>10. TimeIsLeft'
  BY <1>1, <1>4 DEF TimeIsLeft
<1> QED
  BY <1>5, <1>6, <1>7, <1>8, <1>9, <1>10 DEF IInv

(* A plan found is the incumbent, and is handed out.                         *)
LEMMA SearchPlanIInv == IInv /\ (\E plan \in Searched : SearchPlan(plan)) => IInv'
<1> SUFFICES ASSUME IInv, NEW plan \in Searched, SearchPlan(plan) PROVE IInv'
  OBVIOUS
<1>1. /\ phase = "search" /\ incumbent' = plan /\ plan \in Plans
      /\ UNCHANGED <<problem, config, bound, clock, begun, allowed, encoding, work, weak>>
  BY DEF SearchPlan, Searched, Plans
<1>2. PICK status \in {"intermediate", "satisficing"} :
        /\ results' = Append(results, [status |-> status, plan |-> plan])
        /\ IF config.anytime THEN status = "intermediate" /\ phase' = "intermediate" ELSE phase' = "ended"
  BY DEF SearchPlan, Give
<1>3. /\ OptimalIsBest' /\ NoPlanMeansNone'
      /\ \A i \in DOMAIN results' : results'[i].plan \in Plans \cup {NoPlan}
  BY <1>1, <1>2, ResultsStand DEF Statuses
<1>4. /\ results' \in Seq(Result) /\ results' # <<>>
      /\ results'[Len(results')] = [status |-> status, plan |-> plan]
  <2>1. HandedOut /\ status \in Statuses /\ plan \in Plans \cup {NoPlan}
    BY <1>1 DEF IInv, Statuses
  <2> QED
    BY <1>2, <2>1, GiveAppends
<1>5. Result' = Result /\ Plans' = Plans
  BY <1>1 DEF Result, Plans
<1>6. TypeOK'
  BY <1>1, <1>2, <1>3, <1>5 DEF IInv, TypeOK
<1>7. HandedOut'
  BY <1>1, <1>2, <1>4, <1>5 DEF HandedOut, LastResult
<1>8. BoundIsSupported'
  BY <1>1, <1>2 DEF IInv, BoundIsSupported
<1> QED
  BY <1>1, <1>2, <1>3, <1>6, <1>7, <1>8 DEF IInv, Called, OutcomeIsKnown, TimeIsLeft

(* A search that is not late makes one more iteration.                       *)
LEMMA IterateIInv == IInv /\ Iterate => IInv'
<1> SUFFICES ASSUME IInv, Iterate PROVE IInv'
  OBVIOUS
<1>1. /\ phase = "search" /\ ~Late /\ work < MaxWork /\ work' = work + 1 /\ Passes(1)
      /\ UNCHANGED <<problem, config, phase, incumbent, bound, begun, allowed, encoding, weak, results>>
  BY DEF Iterate
<1>2. /\ clock \in Nat /\ begun \in Nat /\ allowed \in Int /\ work \in 0 .. MaxWork
      /\ MaxWork \in Nat /\ encoding \in 0 .. 1 /\ config.timeout \in Int
  BY BoundsAssumption, ConfigsAssumption DEF IInv, TypeOK, Called, NoTimeout
<1>3. clock' \in Nat /\ work' \in 0 .. MaxWork
  BY <1>1, <1>2 DEF Passes
<1>4. /\ OptimalIsBest' /\ NoPlanMeansNone' /\ Called' /\ results' \in Seq(Result')
      /\ \A i \in DOMAIN results' : results'[i].plan \in Plans' \cup {NoPlan}
  BY <1>1, NothingSaid
<1>5. TypeOK'
  BY <1>1, <1>3, <1>4 DEF IInv, TypeOK, Plans
<1>6. HandedOut'
  BY <1>1, <1>4 DEF IInv, HandedOut, LastResult, Plans
<1>7. TimeIsLeft'
  <2> SUFFICES ASSUME config.timeout # NoTimeout
               PROVE  /\ clock' = begun + work'
                      /\ work' <= allowed + 1
                      /\ begun + allowed = config.timeout + encoding \/ (allowed = 0 /\ work' <= 1)
    BY <1>1 DEF TimeIsLeft
  <2>1. /\ clock = begun + work
        /\ begun + allowed = config.timeout + encoding \/ (allowed = 0 /\ work <= 1)
    BY <1>1 DEF IInv, TimeIsLeft
  <2>2. clock' = clock + 1 /\ clock - begun <= allowed
    BY <1>1, <1>2 DEF Passes, Late
  <2> QED
    BY <1>1, <1>2, <2>1, <2>2
<1> QED
  BY <1>1, <1>4, <1>5, <1>6, <1>7 DEF IInv, BoundIsSupported, OutcomeIsKnown

(* A search that stops, and what its outcome is worth.                       *)
LEMMA StopIInv ==
  ASSUME IInv, phase = "search", phase' \in {"timeout", "limit", "none"},
         phase' = "limit" => config.limit,
         phase' = "none" => Searched = {} \/ ~SearchIsComplete,
         UNCHANGED <<problem, config, incumbent, bound, clock, begun, allowed, encoding, work, weak, results>>
  PROVE  IInv'
<1>1. /\ OptimalIsBest' /\ NoPlanMeansNone' /\ Called' /\ results' \in Seq(Result')
      /\ \A i \in DOMAIN results' : results'[i].plan \in Plans' \cup {NoPlan}
  BY NothingSaid
<1>2. TypeOK'
  BY <1>1 DEF IInv, TypeOK, Plans
<1>3. HandedOut'
  BY <1>1 DEF IInv, HandedOut, LastResult, Plans
<1>4. OutcomeIsKnown'
  BY SameSearch DEF OutcomeIsKnown
<1>5. BoundIsSupported' /\ TimeIsLeft'
  BY DEF IInv, BoundIsSupported, TimeIsLeft
<1> QED
  BY <1>1, <1>2, <1>3, <1>4, <1>5 DEF IInv

(* A complete search that does not start over lost no state.                 *)
LEMMA CompleteLosesNone ==
  ASSUME SearchIsComplete, ~Retries
  PROVE  ~MayLoseStates
BY DEF SearchIsComplete, Retries, MayLoseStates, HeuristicMayPruneSolvable

(* An empty search starts over with strong equality and the time left, or    *)
(* ends.                                                                     *)
LEMMA SearchNoneIInv == IInv /\ SearchNone => IInv'
<1> SUFFICES ASSUME IInv, SearchNone PROVE IInv'
  OBVIOUS
<1>1. /\ phase = "search" /\ (Searched = {} \/ MayLoseStates)
      /\ UNCHANGED <<problem, config, incumbent, bound, clock, encoding, results>>
  BY DEF SearchNone
<1>2. CASE ~Retries
  <2>1. phase' = "none" /\ UNCHANGED <<weak, begun, allowed, work>>
    BY <1>2 DEF SearchNone
  <2>2. Searched = {} \/ ~SearchIsComplete
    BY <1>1, <1>2, CompleteLosesNone
  <2> QED
    BY <1>1, <2>1, <2>2, StopIInv
<1>3. CASE Retries
  <2>1. weak' = FALSE /\ begun' = clock /\ allowed' = RemainingTimeout /\ work' = 0 /\ phase' = phase
    BY <1>3 DEF SearchNone
  <2>2. /\ clock \in Nat /\ begun \in Nat /\ allowed \in Int /\ MaxWork \in Nat
        /\ encoding \in 0 .. 1 /\ config.timeout \in Int
    BY BoundsAssumption, ConfigsAssumption DEF IInv, TypeOK, Called, NoTimeout
  <2>3. allowed' \in Int
    BY <2>1, <2>2 DEF RemainingTimeout, NoTimeout
  <2>4. /\ OptimalIsBest' /\ NoPlanMeansNone' /\ Called' /\ results' \in Seq(Result')
        /\ \A i \in DOMAIN results' : results'[i].plan \in Plans' \cup {NoPlan}
    BY <1>1, NothingSaid
  <2>5. TypeOK'
    <3>1. begun' \in Nat /\ work' \in 0 .. MaxWork
      BY <2>1, <2>2
    <3>2. weak' \in BOOLEAN
      BY <2>1
    <3> QED
      BY <1>1, <2>1, <2>3, <2>4, <3>1, <3>2 DEF IInv, TypeOK, Plans
  <2>6. HandedOut'
    BY <1>1, <2>1, <2>4 DEF IInv, HandedOut, LastResult, Plans
  <2>7. TimeIsLeft'
    <3> SUFFICES ASSUME config.timeout # NoTimeout
                 PROVE  clock + allowed' = config.timeout + encoding \/ allowed' = 0
      <4>1. clock' = begun' + work'
        BY <1>1, <2>1, <2>2
      <4> QED
        BY <1>1, <2>1, <4>1 DEF TimeIsLeft
    <3>1. begun + allowed = config.timeout + encoding \/ allowed = 0
      BY <1>1 DEF IInv, TimeIsLeft
    <3>2. clock >= begun
      <4>1. clock = begun + work /\ work \in Nat
        BY <1>1, <2>2 DEF IInv, TypeOK, TimeIsLeft
      <4> QED
        BY <2>2, <4>1
    <3>3. allowed' = IF allowed - (clock - begun) > 0 THEN allowed - (clock - begun) ELSE 0
      BY <2>1 DEF RemainingTimeout
    <3> QED
      BY <2>2, <3>1, <3>2, <3>3
  <2> QED
    BY <1>1, <2>1, <2>4, <2>5, <2>6, <2>7 DEF IInv, BoundIsSupported, OutcomeIsKnown
<1> QED
  BY <1>2, <1>3

(* The next round asks for what beats the incumbent.                         *)
LEMMA ResumeIInv == IInv /\ Resume => IInv'
<1> SUFFICES ASSUME IInv, Resume PROVE IInv'
  OBVIOUS
<1>1. /\ phase = "intermediate" /\ phase' = "encode" /\ bound' = Quality(problem, incumbent)
      /\ UNCHANGED <<problem, config, incumbent, begun, allowed, encoding, work, weak, results>>
  BY DEF Resume
<1>2. clock' \in Nat
  <2>1. PICK d \in 0 .. MaxIdle : Passes(d)
    BY DEF Resume
  <2> QED
    BY <2>1, BoundsAssumption DEF Passes, IInv, TypeOK
<1>3. /\ results # <<>> /\ config.anytime /\ incumbent \in Plans /\ problem \in Problems
  BY <1>1 DEF IInv, HandedOut, Called
<1>4. bound' \in Int
  <2>1. incumbent \in Seq(MetricStep)
    BY <1>3, ProblemsAssumption DEF Plans
  <2> QED
    BY <1>1, <1>3, <2>1, QualityIsNumber
<1>5. Supported(problem)
  BY <1>1, <1>3 DEF IInv, BoundIsSupported
<1>6. /\ OptimalIsBest' /\ NoPlanMeansNone' /\ Called' /\ results' \in Seq(Result')
      /\ \A i \in DOMAIN results' : results'[i].plan \in Plans' \cup {NoPlan}
  BY <1>1, NothingSaid
<1>7. TypeOK'
  BY <1>1, <1>2, <1>4, <1>5, <1>6, SupportedMetric DEF IInv, TypeOK, Plans
<1>8. HandedOut'
  BY <1>1, <1>3, <1>6 DEF IInv, HandedOut, LastResult, Plans
<1> QED
  BY <1>1, <1>5, <1>6, <1>7, <1>8 DEF IInv, BoundIsSupported, OutcomeIsKnown, TimeIsLeft

(* The last answer claims no more than the round before it showed.           *)
LEMMA ConcludeIInv == IInv /\ Conclude => IInv'
<1> SUFFICES ASSUME IInv, Conclude PROVE IInv'
  OBVIOUS
<1>1. /\ phase \in Outcomes /\ phase' = "ended"
      /\ UNCHANGED <<problem, config, incumbent, bound, clock, begun, allowed, encoding, work, weak>>
  BY DEF Conclude
<1>2. PICK status \in Statuses :
        /\ results' = Append(results, [status |-> status, plan |-> incumbent])
        /\ status = "optimal" => incumbent # NoPlan /\ Proves(phase)
        /\ status = "unsolvable incompletely"
             => incumbent = NoPlan /\ phase \notin {"proven", "timeout"}
  BY DEF Conclude, Give, Statuses
<1>3. incumbent \in Plans \cup {NoPlan}
  BY DEF IInv, TypeOK
<1>4. /\ OptimalIsBest' /\ NoPlanMeansNone'
      /\ \A i \in DOMAIN results' : results'[i].plan \in Plans \cup {NoPlan}
  BY <1>1, <1>2, <1>3, ResultsStand, ProvesIsRight, GivingUpIsRight
<1>5. results' \in Seq(Result)
  BY <1>2, <1>3, GiveAppends DEF IInv
<1>6. Result' = Result /\ Plans' = Plans
  BY <1>1 DEF Result, Plans
<1>7. TypeOK'
  BY <1>1, <1>4, <1>6 DEF IInv, TypeOK
<1>8. HandedOut'
  BY <1>1, <1>5, <1>6 DEF HandedOut
<1> QED
  BY <1>1, <1>4, <1>7, <1>8 DEF IInv, Called, BoundIsSupported, OutcomeIsKnown, TimeIsLeft

(* Every step keeps the inductive invariant.                                 *)
LEMMA NextIInv == IInv /\ [Next]_vars => IInv'
<1> SUFFICES ASSUME IInv, [Next]_vars PROVE IInv'
  OBVIOUS
<1>1. CASE SearchTimeout
  BY <1>1, StopIInv DEF SearchTimeout
<1>2. CASE SearchLimit
  BY <1>2, StopIInv DEF SearchLimit
<1>3. CASE UNCHANGED vars
  <2>1. UNCHANGED <<problem, config, phase, incumbent, bound, clock, begun, allowed, encoding, work, weak, results>>
    BY <1>3 DEF vars
  <2>2. /\ OptimalIsBest' /\ NoPlanMeansNone' /\ Called' /\ results' \in Seq(Result')
        /\ \A i \in DOMAIN results' : results'[i].plan \in Plans' \cup {NoPlan}
    BY <2>1, NothingSaid
  <2>3. TypeOK' /\ HandedOut'
    BY <2>1, <2>2 DEF IInv, TypeOK, HandedOut, LastResult, Plans
  <2>4. OutcomeIsKnown'
    BY <2>1, SameSearch DEF IInv, OutcomeIsKnown
  <2> QED
    BY <2>1, <2>2, <2>3, <2>4 DEF IInv, BoundIsSupported, TimeIsLeft
<1> QED
  BY <1>1, <1>2, <1>3, CompileIInv, EncodeIInv, SearchPlanIInv, IterateIInv, SearchNoneIInv,
     ResumeIInv, ConcludeIInv DEF Next

-----------------------------------------------------------------------------
(* The inductive invariant of one-shot and anytime solving holds throughout. *)
THEOREM Invariance == Spec => []IInv
<1> QED
  BY InitIInv, NextIInv, PTL DEF Spec

(* "Optimal" rules out a better plan, and giving up in spite of a complete   *)
(* search rules out any, among the plans that the searched space represents  *)
(* (for "optimal" of the makespan, among all), for every problem, metric and *)
(* configuration, whatever compression lost and however the searches and     *)
(* retries went.                                                             *)
THEOREM ClaimsAreKnown == Spec => []StatusesClaimNoMore
<1>1. IInv => StatusesClaimNoMore
  BY DEF IInv, StatusesClaimNoMore
<1> QED
  BY <1>1, Invariance, PTL

(* However many rounds and retries share the timeout of a call, no search    *)
(* overruns it by more than its encoding and the iteration it is in.         *)
THEOREM TimeoutHolds == Spec => []TimeoutIsShared
<1>1. IInv => TimeoutIsShared
  <2> SUFFICES ASSUME IInv, phase = "search", config.timeout # NoTimeout, work > 1
               PROVE  clock <= config.timeout + encoding + 1
    BY DEF TimeoutIsShared
  <2>1. /\ clock \in Nat /\ begun \in Nat /\ allowed \in Int /\ work \in Int
        /\ encoding \in Int /\ config.timeout \in Int
    BY BoundsAssumption, ConfigsAssumption DEF IInv, TypeOK, Called, NoTimeout
  <2>2. clock = begun + work /\ work <= allowed + 1 /\ begun + allowed = config.timeout + encoding
    BY <2>1 DEF IInv, TimeIsLeft
  <2> QED
    BY <2>1, <2>2
<1> QED
  BY <1>1, Invariance, PTL
-----------------------------------------------------------------------------
(* The contract of an anytime planner.                                       *)

(* The plan a search returns beats the incumbent it was asked to beat.       *)
LEMMA PlansImprove ==
  ASSUME IInv, NEW plan \in Searched, phase = "search", results # <<>>
  PROVE  Signed(Quality(problem, plan)) < Signed(Quality(problem, LastResult.plan))
<1>1. /\ problem \in Problems /\ incumbent \in Plans /\ LastResult.plan = incumbent
      /\ bound = Quality(problem, incumbent)
  BY DEF IInv, Called, HandedOut
<1>2. /\ incumbent \in Seq(MetricStep) /\ plan \in Seq(MetricStep)
  BY <1>1, ProblemsAssumption DEF Plans, Searched
<1>3. Quality(problem, plan) \in Int /\ Quality(problem, incumbent) \in Int
  BY <1>1, <1>2, QualityIsNumber
<1>4. Beats(problem, Quality(problem, plan), Quality(problem, incumbent))
  BY <1>1, <1>3, NoneAssumption DEF Searched, Bounded
<1> QED
  BY <1>1, <1>3, <1>4 DEF Beats, Signed

(* The best plan of a metric that only gets worse has the least quality.     *)
LEMMA BestIsLeast ==
  ASSUME Called, Monotone(problem), NEW best \in Plans,
         \A other \in Rivals : ~Better(problem, other, best)
  PROVE  \A q \in Qualities : Signed(Quality(problem, best)) <= q
<1> SUFFICES ASSUME NEW other \in Rivals
             PROVE  Signed(Quality(problem, best)) <= Signed(Quality(problem, other))
  BY DEF Qualities
<1>1. Metric(problem) # "maximize"
  BY DEF Monotone
<1>2. best \in Seq(MetricStep) /\ other \in Seq(MetricStep) /\ problem \in Problems
  BY ProblemsAssumption DEF Plans, Called, Rivals, Represented
<1>3. Quality(problem, best) \in Int /\ Quality(problem, other) \in Int
  BY <1>2, QualityIsNumber
<1>4. ~(Quality(problem, other) < Quality(problem, best))
  BY <1>1 DEF Better, Beats
<1> QED
  BY <1>1, <1>3, <1>4 DEF Signed

(* What the contract sees of a state that hands out r.                       *)
LEMMA SeenOf ==
  ASSUME config' = config, problem' = problem, config.anytime,
         results' # <<>>, NEW r \in Result, results'[Len(results')] = r
  PROVE  /\ LastQuality' = IF r.plan = NoPlan THEN NoQuality ELSE Signed(Quality(problem, r.plan))
         /\ LastAnswer' = IF r.status = "intermediate" THEN "none yet"
                          ELSE IF r.status = "optimal"
                            THEN (IF Monotone(problem) THEN "optimal" ELSE "satisficing")
                          ELSE IF r.status \in {"satisficing", "timeout"} THEN r.status
                          ELSE "failed"
BY DEF LastQuality, LastAnswer, LastResult, Signed

(* The answer is open until the run ends.                                    *)
LEMMA SeenBefore ==
  ASSUME IInv, phase # "ended"
  PROVE  /\ LastAnswer = "none yet"
         /\ incumbent = NoPlan => LastQuality = NoQuality /\ results = <<>>
         /\ incumbent # NoPlan =>
              /\ results # <<>> /\ config.anytime /\ incumbent \in Plans
              /\ LastQuality = Signed(Quality(problem, incumbent)) /\ LastQuality # NoQuality
<1>1. NoPlan \notin Plans /\ problem \in Problems
  BY NoneAssumption DEF IInv, Called, Plans
<1>2. CASE results = <<>>
  BY <1>2 DEF IInv, HandedOut, LastAnswer, LastQuality
<1>3. CASE results # <<>>
  <2>1. /\ config.anytime /\ incumbent \in Plans
        /\ LastResult.status = "intermediate" /\ LastResult.plan = incumbent
    BY <1>3 DEF IInv, HandedOut
  <2>2. incumbent \in Seq(MetricStep)
    BY <1>1, <2>1, ProblemsAssumption DEF Plans
  <2>3. Signed(Quality(problem, incumbent)) \in Int
    BY <1>1, <2>2, QualityIsNumber DEF Signed
  <2> QED
    BY <1>1, <1>3, <2>1, <2>3, NoneAssumption DEF LastAnswer, LastQuality
<1> QED
  BY <1>2, <1>3

(* What the caller sees of a one-shot call, as far as the contract goes.     *)
LEMMA OneShotShowsNothing ==
  ASSUME ~config.anytime, config' = config
  PROVE  UNCHANGED <<LastQuality, LastAnswer>>
BY DEF LastQuality, LastAnswer

(* A step that hands out nothing is none of the contract.                    *)
LEMMA NothingShown ==
  ASSUME UNCHANGED <<problem, config, results>>
  PROVE  UNCHANGED <<Qualities, LastQuality, LastAnswer>>
BY SameRivals DEF Qualities, LastQuality, LastAnswer, LastResult, Signed

(* The plans, and so their qualities, never change.                          *)
LEMMA QualitiesStay ==
  ASSUME problem' = problem, config' = config
  PROVE  Qualities' = Qualities
BY SameRivals DEF Qualities, Signed

(* A plan that is handed out improves on the one before.                     *)
LEMMA SearchPlanImproves ==
  ASSUME IInv, NEW plan \in Searched, SearchPlan(plan)
  PROVE  [Contract!Next]_<<Qualities, LastQuality, LastAnswer>>
<1>1. /\ phase = "search" /\ problem' = problem /\ config' = config /\ plan \in Plans
  BY DEF SearchPlan, Searched, Plans
<1>2. CASE ~config.anytime
  BY <1>1, <1>2, OneShotShowsNothing, QualitiesStay
<1>3. CASE config.anytime
  <2> DEFINE r == [status |-> "intermediate", plan |-> plan]
  <2>1. results' = Append(results, r) /\ r \in Result /\ "intermediate" \in Statuses
    BY <1>1, <1>3 DEF SearchPlan, Give, Result, Statuses
  <2>2. results' # <<>> /\ results'[Len(results')] = r
    <3>1. HandedOut
      BY DEF IInv
    <3> QED
      BY <1>1, <2>1, <3>1, GiveAppends
  <2>3. NoPlan # plan /\ problem \in Problems
    BY <1>1, NoneAssumption DEF IInv, Called, Plans
  <2>4. r.status = "intermediate" /\ r.plan = plan
    OBVIOUS
  <2> HIDE DEF r
  <2>5. LastQuality' = Signed(Quality(problem, plan)) /\ LastAnswer' = "none yet"
    BY <1>1, <1>3, <2>1, <2>2, <2>3, <2>4, SeenOf
  <2>6. LastQuality' \in Qualities
    <3>1. Compresses => HasCounterpart(plan)
      BY DEF Searched, HasCounterpart
    <3>2. plan \in Rivals
      BY <1>1, <3>1 DEF Rivals, Represented
    <3> QED
      BY <2>5, <3>2 DEF Qualities
  <2>7. LastAnswer = "none yet"
    BY <1>1, SeenBefore
  <2>8. LastQuality = NoQuality \/ LastQuality' < LastQuality
    <3>1. CASE results = <<>>
      BY <3>1 DEF LastQuality
    <3>2. CASE results # <<>>
      <4>1. LastQuality = Signed(Quality(problem, LastResult.plan)) \/ LastQuality = NoQuality
        BY DEF LastQuality
      <4> QED
        BY <1>1, <2>5, <3>2, <4>1, PlansImprove
    <3> QED
      BY <3>1, <3>2
  <2> QED
    BY <1>1, <2>5, <2>6, <2>7, <2>8, QualitiesStay DEF Contract!Next, Contract!Improve
<1> QED
  BY <1>2, <1>3

(* A failure is an answer only when there is no plan to repeat.              *)
LEMMA FailureEnds ==
  ASSUME IInv, phase # "ended", incumbent = NoPlan, problem' = problem, config' = config,
         NEW status \in {"timeout", "unsolvable", "unsolvable incompletely", "unsupported problem"},
         results' = Append(results, [status |-> status, plan |-> NoPlan])
  PROVE  [Contract!Next]_<<Qualities, LastQuality, LastAnswer>>
<1>1. CASE ~config.anytime
  BY <1>1, OneShotShowsNothing, QualitiesStay
<1>2. CASE config.anytime
  <2> DEFINE r == [status |-> status, plan |-> NoPlan]
  <2>1. r \in Result /\ status \in Statuses
    BY DEF Result, Statuses
  <2>2. results' # <<>> /\ results'[Len(results')] = r
    <3>1. HandedOut
      BY DEF IInv
    <3> QED
      BY <2>1, <3>1, GiveAppends
  <2>3. r.status = status /\ r.plan = NoPlan
    OBVIOUS
  <2> HIDE DEF r
  <2>4. LastQuality' = NoQuality /\ LastAnswer' \in {"failed", "timeout"}
    BY <1>2, <2>1, <2>2, <2>3, SeenOf
  <2>5. LastAnswer = "none yet" /\ LastQuality = NoQuality
    BY SeenBefore
  <2> QED
    BY <2>4, <2>5, QualitiesStay DEF Contract!Next, Contract!End
<1> QED
  BY <1>1, <1>2

(* The last answer repeats the incumbent, and calls it optimal only if it is.*)
LEMMA ConcludeEnds ==
  ASSUME IInv, Conclude
  PROVE  [Contract!Next]_<<Qualities, LastQuality, LastAnswer>>
<1>1. /\ phase \in Outcomes /\ phase # "ended" /\ problem' = problem /\ config' = config
  BY DEF Conclude, Outcomes
<1>2. CASE incumbent = NoPlan
  <2>1. PICK status \in {"timeout", "unsolvable", "unsolvable incompletely"} :
          results' = Append(results, [status |-> status, plan |-> NoPlan])
    BY <1>2 DEF Conclude, Give
  <2> QED
    BY <1>1, <1>2, <2>1, FailureEnds
<1>3. CASE incumbent # NoPlan
  <2>1. /\ LastAnswer = "none yet" /\ config.anytime /\ incumbent \in Plans
        /\ LastQuality = Signed(Quality(problem, incumbent)) /\ LastQuality # NoQuality
    BY <1>1, <1>3, SeenBefore
  <2>2. PICK status \in {"timeout", "optimal", "satisficing"} :
          /\ results' = Append(results, [status |-> status, plan |-> incumbent])
          /\ status = "optimal" => Proves(phase)
    BY <1>3 DEF Conclude, Give
  <2> DEFINE r == [status |-> status, plan |-> incumbent]
  <2>3. r \in Result /\ status \in Statuses
    BY <2>1 DEF Result, Statuses
  <2>4. results' # <<>> /\ results'[Len(results')] = r
    <3>1. HandedOut
      BY DEF IInv
    <3> QED
      BY <2>1, <2>2, <2>3, <3>1, GiveAppends
  <2>5. r.status = status /\ r.plan = incumbent
    OBVIOUS
  <2> HIDE DEF r
  <2>6. /\ LastQuality' = LastQuality
        /\ \/ LastAnswer' \in {"satisficing", "timeout"}
           \/ LastAnswer' = "optimal" /\ status = "optimal" /\ Monotone(problem)
    BY <1>1, <1>3, <2>1, <2>3, <2>4, <2>5, SeenOf
  <2>7. status = "optimal" /\ Monotone(problem) => \A q \in Qualities : LastQuality <= q
    <3> SUFFICES ASSUME status = "optimal", Monotone(problem)
                 PROVE  \A q \in Qualities : LastQuality <= q
      OBVIOUS
    <3>1. \A other \in Rivals : ~Better(problem, other, incumbent)
      BY <1>1, <1>3, <2>2, ProvesIsRight
    <3>2. Called
      BY DEF IInv
    <3> QED
      BY <2>1, <3>1, <3>2, BestIsLeast
  <2> QED
    BY <1>1, <2>1, <2>6, <2>7, QualitiesStay DEF Contract!Next, Contract!End
<1> QED
  BY <1>2, <1>3

(* Every step of the engine is one of the contract, or none.                 *)
LEMMA NextKeepsContract ==
  IInv /\ [Next]_vars => [Contract!Next]_<<Qualities, LastQuality, LastAnswer>>
<1> SUFFICES ASSUME IInv, [Next]_vars
             PROVE  [Contract!Next]_<<Qualities, LastQuality, LastAnswer>>
  OBVIOUS
<1>1. CASE Compile
  <2>1. /\ phase # "ended" /\ incumbent = NoPlan /\ problem' = problem /\ config' = config
    BY <1>1 DEF Compile, IInv, HandedOut
  <2>2. \/ results' = results
        \/ results' = Append(results, [status |-> "unsupported problem", plan |-> NoPlan])
    BY <1>1 DEF Compile, Fail, Give
  <2> QED
    BY <2>1, <2>2, FailureEnds, NothingShown
<1>2. CASE Encode \/ Iterate \/ SearchTimeout \/ SearchLimit \/ SearchNone \/ Resume
  <2>1. UNCHANGED <<problem, config, results>>
    BY <1>2 DEF Encode, Iterate, SearchTimeout, SearchLimit, SearchNone, Resume
  <2> QED
    BY <2>1, NothingShown
<1>3. CASE UNCHANGED vars
  <2>1. UNCHANGED <<problem, config, results>>
    BY <1>3 DEF vars
  <2> QED
    BY <2>1, NothingShown
<1> QED
  BY <1>1, <1>2, <1>3, SearchPlanImproves, ConcludeEnds DEF Next

(* `get_solutions` implements the anytime contract, for every problem,       *)
(* metric, configuration and timeout: every plan handed out is better than   *)
(* the one before, the last answer repeats the best, and only the best of    *)
(* those the searched space represents may be called optimal.                *)
THEOREM EngineImplementsContract == Spec => KeepsContract
<1>1. Init => Contract!Init
  <2> SUFFICES ASSUME Init PROVE LastQuality = NoQuality /\ LastAnswer = "none yet"
    BY DEF Contract!Init
  <2> QED
    BY DEF Init, LastQuality, LastAnswer
<1> QED
  BY <1>1, NextKeepsContract, Invariance, PTL DEF Spec, KeepsContract, Contract!Spec
=============================================================================

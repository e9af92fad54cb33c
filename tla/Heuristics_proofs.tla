-------------------------- MODULE Heuristics_proofs -------------------------
(****************************************************************************)
(* The novelty of a state is what it is by definition, for every set of      *)
(* subgoals, order of evaluation and partition, although most of it comes    *)
(* from caches and tables. The explicit hmax computes the layers of its      *)
(* abstract specification, for every problem, although it skips operators    *)
(* and looks at no combination of values twice.                              *)
(****************************************************************************)
EXTENDS Heuristics, TLAPS, FiniteSetTheorems, SequenceTheorems, WellFoundedInduction

LeafId == Novelty!LeafId
Partition == Novelty!Partition
NoState == Novelty!NoState

(* What an evaluation meets is what there is to be met in a state s, as a    *)
(* child of the state t.                                                     *)
Met(met, s, t) ==
  /\ met.newly = {l \in LeafId : Novelty!IsNew(l, s, t)}
  /\ met.satisfied = {l \in LeafId : Novelty!Sat(l, s)}
  /\ met.persisting = {l \in LeafId : Novelty!Stays(l, s, t)}
  /\ met.improved = {l \in LeafId : Novelty!IsCloser(l, s, t)}
  /\ met.open = {l \in LeafId : Novelty!Numeric(l) /\ ~Novelty!Sat(l, s)}
  /\ \A l \in LeafId : met.dist[l] = Novelty!Dist(l, s)

(* What was met: leaves and pairs, each in its partition.                    *)
Entry(y) ==
  \/ \E p \in Partition, l \in LeafId : y = <<p, "leaf", {l}, 0>>
  \/ \E p \in Partition, l \in LeafId, v \in Int : y = <<p, "closer", <<l>>, v>>
  \/ \E p \in Partition, x \in SUBSET LeafId : y = <<p, "pair", x, 0>>
  \/ \E p \in Partition, k, l \in LeafId, v \in Int : y = <<p, "beside", <<k, l>>, v>>

(* The tables of the partitions, and the log they are an extract of.         *)
TablesOK ==
  /\ DOMAIN psiSeen = Partition /\ DOMAIN pairSeen = Partition
  /\ DOMAIN best = Partition /\ DOMAIN bestWith = Partition
  /\ \A p \in Partition : /\ psiSeen[p] \subseteq LeafId
                          /\ DOMAIN best[p] \subseteq LeafId
                          /\ DOMAIN bestWith[p] \subseteq LeafId \X LeafId
  /\ \A y \in log : Entry(y)
  /\ Novelty!TablesAreTheLog

(* The states evaluated, and the one being expanded.                         *)
StatesOK ==
  /\ generated \subseteq [state : Valuations, partition : Partition]
  /\ parent \in [state : Valuations \cup {NoState}, partition : Partition]
  /\ parent.partition <= maxPartition
  /\ DOMAIN cache \subseteq LeafId

(* The keys of the tables, comparisons and pairs.                            *)
KeysOK ==
  \A p \in Partition :
    /\ DOMAIN best[p] \subseteq {l \in LeafId : Novelty!Numeric(l)}
    /\ \A x \in pairSeen[p] : x \subseteq LeafId /\ Novelty!Cardinality(x) = 2

NoveltyInv ==
  /\ TablesOK /\ KeysOK /\ StatesOK
  /\ maxPartition \in Partition \cup {1}
  /\ answer \in 1 .. 3 /\ expected = answer
  /\ evals \in 0 .. MaxEvals /\ starts \in 0 .. MaxStarts
  /\ Novelty!CachesAreTheParents /\ Novelty!PartitionsStayLow
IInv == part = "novelty" => NoveltyInv

-----------------------------------------------------------------------------
(* Features.                                                                 *)

(* A feature is that of the fluents its leaf reads.                          *)
LEMMA SameFeature ==
  ASSUME NEW l \in LeafId, NEW s, NEW t, \A f \in Novelty!LeafReads(l) : s[f] = t[f]
  PROVE  Novelty!Feature(l, s) = Novelty!Feature(l, t)
<1>1. ASSUME NEW o, \A f \in Novelty!OperandReads(o) : s[f] = t[f]
      PROVE  Novelty!Operand(o, s) = Novelty!Operand(o, t)
  BY <1>1 DEF Novelty!Operand, Novelty!OperandReads
<1>2. CASE Novelty!Numeric(l)
  <2>1. /\ Novelty!Operand(Subgoals[l].lhs, s) = Novelty!Operand(Subgoals[l].lhs, t)
        /\ Novelty!Operand(Subgoals[l].rhs, s) = Novelty!Operand(Subgoals[l].rhs, t)
    BY <1>1, <1>2 DEF Novelty!LeafReads
  <2> QED
    BY <1>2, <2>1 DEF Novelty!Feature, Novelty!Distance
<1>3. CASE ~Novelty!Numeric(l)
  <2>1. Novelty!Operand(Subgoals[l].operand, s) = Novelty!Operand(Subgoals[l].operand, t)
    BY <1>1, <1>3 DEF Novelty!LeafReads
  <2> QED
    BY <1>3, <2>1 DEF Novelty!Feature
<1> QED
  BY <1>2, <1>3

(* How close a leaf is, is a number.                                         *)
LEMMA DistanceIsNumber ==
  ASSUME NEW l \in LeafId, NEW s \in Valuations
  PROVE  Novelty!Dist(l, s) \in Int
<1>1. CASE Novelty!Numeric(l)
  <2>1. /\ Novelty!Operand(Subgoals[l].lhs, s) \in Int
        /\ Novelty!Operand(Subgoals[l].rhs, s) \in Int
    BY <1>1, HeuristicsAssumption DEF Novelty!NoveltyAssumption, LeafId
  <2> DEFINE diff == Novelty!Operand(Subgoals[l].rhs, s) - Novelty!Operand(Subgoals[l].lhs, s)
  <2>2. diff \in Int
    BY <2>1
  <2> HIDE DEF diff
  <2>3. Novelty!Distance(l, s).dist \in {diff, -diff}
    BY DEF Novelty!Distance, diff
  <2> QED
    BY <1>1, <2>2, <2>3 DEF Novelty!Dist, Novelty!Feature
<1>2. CASE ~Novelty!Numeric(l)
  BY <1>2 DEF Novelty!Dist, Novelty!Feature
<1> QED
  BY <1>1, <1>2

(* An evaluation from nothing meets what there is.                           *)
LEMMA FreshMeets ==
  ASSUME NEW s \in Valuations
  PROVE  Met(Novelty!Fresh(s), s, NoState)
BY DEF Met, Novelty!Fresh, Novelty!IsNew, Novelty!Stays, Novelty!IsCloser, Novelty!Sat,
       Novelty!Dist, LeafId, NoState

(* A leaf that reads none of the fluents touched is as in the parent.        *)
LEMMA CleanIsUnchanged ==
  ASSUME NEW s \in Valuations, NEW touched, Novelty!Changed(s) \subseteq touched,
         NEW l \in LeafId \ Novelty!Dirty(touched)
  PROVE  Novelty!Feature(l, s) = Novelty!Feature(l, parent.state)
<1>1. Novelty!LeafReads(l) \cap touched = {}
  BY DEF Novelty!Dirty, LeafId
<1>2. Novelty!LeafReads(l) \subseteq Novelty!Fluent
  BY HeuristicsAssumption DEF Novelty!NoveltyAssumption, LeafId
<1>3. \A f \in Novelty!LeafReads(l) : s[f] = parent.state[f]
  BY <1>1, <1>2 DEF Novelty!Changed
<1> QED
  BY <1>3, SameFeature

(* A comparison that holds is closer than one that does not.                 *)
LEMMA LostIsFarther ==
  ASSUME NEW l \in LeafId, Novelty!Numeric(l), NEW s \in Valuations, NEW t \in Valuations,
         Novelty!Sat(l, t), ~Novelty!Sat(l, s)
  PROVE  Novelty!Dist(l, s) < Novelty!Dist(l, t)
<1> DEFINE gap(u) == Novelty!Operand(Subgoals[l].rhs, u) - Novelty!Operand(Subgoals[l].lhs, u)
<1>1. gap(s) \in Int /\ gap(t) \in Int
  <2>1. \A u \in Valuations : /\ Novelty!Operand(Subgoals[l].lhs, u) \in Int
                          /\ Novelty!Operand(Subgoals[l].rhs, u) \in Int
    BY HeuristicsAssumption DEF Novelty!NoveltyAssumption, LeafId
  <2> QED
    BY <2>1
<1>2. ASSUME NEW u
      PROVE  /\ Subgoals[l].kind = "==" =>
                  /\ Novelty!Dist(l, u) = IF gap(u) <= 0 THEN gap(u) ELSE -gap(u)
                  /\ Novelty!Sat(l, u) <=> gap(u) = 0
             /\ Subgoals[l].kind = "<=" =>
                  Novelty!Dist(l, u) = gap(u) /\ (Novelty!Sat(l, u) <=> gap(u) >= 0)
             /\ Subgoals[l].kind \notin {"==", "<="} =>
                  Novelty!Dist(l, u) = gap(u) /\ (Novelty!Sat(l, u) <=> gap(u) > 0)
  BY DEF Novelty!Dist, Novelty!Sat, Novelty!Feature, Novelty!Distance
<1> HIDE DEF gap
<1>4. CASE Subgoals[l].kind = "=="
  <2>1. gap(t) = 0 /\ gap(s) # 0
    BY <1>2, <1>4
  <2>2. /\ Novelty!Dist(l, t) = 0
        /\ Novelty!Dist(l, s) = IF gap(s) <= 0 THEN gap(s) ELSE -gap(s)
    BY <1>2, <1>4, <2>1
  <2> QED
    BY <1>1, <2>1, <2>2
<1>5. CASE Subgoals[l].kind = "<="
  <2>1. gap(t) >= 0 /\ ~(gap(s) >= 0)
    BY <1>2, <1>5
  <2>2. Novelty!Dist(l, t) = gap(t) /\ Novelty!Dist(l, s) = gap(s)
    BY <1>2, <1>5
  <2> QED
    BY <1>1, <2>1, <2>2
<1>6. CASE Subgoals[l].kind \notin {"==", "<="}
  <2>1. gap(t) > 0 /\ ~(gap(s) > 0)
    BY <1>2, <1>6
  <2>2. Novelty!Dist(l, t) = gap(t) /\ Novelty!Dist(l, s) = gap(s)
    BY <1>2, <1>6
  <2> QED
    BY <1>1, <2>1, <2>2
<1> QED
  BY <1>4, <1>5, <1>6

(* So what came closer did not hold before.                                  *)
LEMMA CloserDidNotHold ==
  ASSUME NEW l \in LeafId, NEW s \in Valuations, NEW t \in Valuations
  PROVE  /\ Novelty!IsCloser(l, s, t)
              <=> /\ Novelty!Numeric(l) /\ ~Novelty!Sat(l, s) /\ ~Novelty!Sat(l, t)
                  /\ Novelty!Dist(l, s) > Novelty!Dist(l, t)
         /\ Novelty!IsNew(l, s, t) <=> Novelty!Sat(l, s) /\ ~Novelty!Sat(l, t)
         /\ Novelty!Stays(l, s, t) <=> Novelty!Sat(l, s) /\ Novelty!Sat(l, t)
<1>1. t # NoState
  BY HeuristicsAssumption DEF Novelty!NoveltyAssumption, NoState
<1>2. Novelty!Dist(l, s) \in Int /\ Novelty!Dist(l, t) \in Int
  BY DistanceIsNumber
<1>3. Novelty!Numeric(l) /\ ~Novelty!Sat(l, s) /\ Novelty!Sat(l, t)
        => ~(Novelty!Dist(l, s) > Novelty!Dist(l, t))
  BY <1>2, LostIsFarther
<1> QED
  BY <1>1, <1>3 DEF Novelty!IsCloser, Novelty!IsNew, Novelty!Stays, NoState

(* What the caches hold are features of the parent.                          *)
LEMMA CachedFeatures ==
  ASSUME Novelty!CachesAreTheParents, NEW ls,
         NEW from, from = Novelty!CacheOf(cache, ls, parent.state)
  PROVE  /\ DOMAIN from = DOMAIN cache \cup ls
         /\ \A l \in DOMAIN from : from[l] = Novelty!Feature(l, parent.state)
BY DEF Novelty!CacheOf, Novelty!Looked, Novelty!CachesAreTheParents

(* Of the leaves that may have changed, an evaluation in the partition of    *)
(* the parent meets what there is; the others are as they were.              *)
LEMMA SparseMeets ==
  ASSUME NEW s \in Valuations, NEW touched, Novelty!Changed(s) \subseteq touched,
         parent.state \in Valuations,
         NEW dirty, dirty = Novelty!Dirty(touched),
         NEW from, \A l \in dirty : from[l] = Novelty!Feature(l, parent.state),
         NEW met, met = Novelty!Sparse(s, dirty, from)
  PROVE  /\ dirty \subseteq LeafId
         /\ met.newly = {l \in LeafId : Novelty!IsNew(l, s, parent.state)}
         /\ met.satisfied = {l \in dirty : Novelty!Sat(l, s)}
         /\ met.persisting = {l \in dirty : Novelty!Stays(l, s, parent.state)}
         /\ met.improved = {l \in LeafId : Novelty!IsCloser(l, s, parent.state)}
         /\ met.open = {l \in dirty : Novelty!Numeric(l) /\ ~Novelty!Sat(l, s)}
         /\ \A l \in dirty : met.dist[l] = Novelty!Dist(l, s)
         /\ \A l \in LeafId \ dirty : Novelty!Sat(l, s) <=> Novelty!Sat(l, parent.state)
         /\ \A l \in LeafId \ dirty : Novelty!Dist(l, s) = Novelty!Dist(l, parent.state)
<1> DEFINE t == parent.state
<1>1. \A l \in LeafId \ dirty : Novelty!Feature(l, s) = Novelty!Feature(l, t)
  BY CleanIsUnchanged
<1>2. dirty \subseteq LeafId
  BY DEF Novelty!Dirty, LeafId
<1>3. /\ \A l \in LeafId \ dirty : Novelty!Sat(l, s) <=> Novelty!Sat(l, t)
      /\ \A l \in LeafId \ dirty : Novelty!Dist(l, s) = Novelty!Dist(l, t)
  BY <1>1 DEF Novelty!Sat, Novelty!Dist
<1>4. \A l \in dirty : (from[l].sat <=> Novelty!Sat(l, t)) /\ from[l].dist = Novelty!Dist(l, t)
  BY DEF Novelty!Sat, Novelty!Dist
<1>5. /\ met.newly = {l \in dirty : Novelty!Sat(l, s) /\ ~from[l].sat}
      /\ met.satisfied = {l \in dirty : Novelty!Sat(l, s)}
      /\ met.persisting = {l \in dirty : Novelty!Sat(l, s) /\ from[l].sat}
      /\ met.improved = {l \in dirty : /\ ~Novelty!Sat(l, s) /\ Novelty!Numeric(l) /\ ~from[l].sat
                                       /\ Novelty!Dist(l, s) > from[l].dist}
      /\ met.open = {l \in dirty : ~Novelty!Sat(l, s) /\ Novelty!Numeric(l)}
      /\ \A l \in dirty : met.dist[l] = Novelty!Dist(l, s)
  BY <1>2 DEF Novelty!Sparse, Novelty!Sat, Novelty!Dist, LeafId
<1> HIDE DEF t
<1>6. t \in Valuations
  BY DEF t
<1>7. \A l \in LeafId :
        /\ Novelty!IsCloser(l, s, t)
             <=> /\ Novelty!Numeric(l) /\ ~Novelty!Sat(l, s) /\ ~Novelty!Sat(l, t)
                 /\ Novelty!Dist(l, s) > Novelty!Dist(l, t)
        /\ Novelty!IsNew(l, s, t) <=> Novelty!Sat(l, s) /\ ~Novelty!Sat(l, t)
        /\ Novelty!Stays(l, s, t) <=> Novelty!Sat(l, s) /\ Novelty!Sat(l, t)
  BY <1>6, CloserDidNotHold
<1>8. \A l \in LeafId \ dirty : ~Novelty!IsNew(l, s, t) /\ ~Novelty!IsCloser(l, s, t)
  <2> TAKE l \in LeafId \ dirty
  <2>1. Novelty!Dist(l, s) \in Int /\ Novelty!Dist(l, s) = Novelty!Dist(l, t)
    BY <1>3, DistanceIsNumber
  <2>2. ~(Novelty!Dist(l, s) > Novelty!Dist(l, t))
    BY <2>1
  <2> QED
    BY <1>3, <1>7, <2>2
<1>9. met.newly = {l \in LeafId : Novelty!IsNew(l, s, t)}
  BY <1>2, <1>4, <1>5, <1>7, <1>8
<1>10. met.improved = {l \in LeafId : Novelty!IsCloser(l, s, t)}
  BY <1>2, <1>4, <1>5, <1>7, <1>8
<1>11. met.persisting = {l \in dirty : Novelty!Stays(l, s, t)}
  BY <1>2, <1>4, <1>5, <1>7
<1> QED
  BY <1>2, <1>3, <1>5, <1>9, <1>10, <1>11 DEF t

(* Together with what the snapshot and the caches say of the others, it      *)
(* meets all there is.                                                       *)
LEMMA MergedMeets ==
  ASSUME NEW s \in Valuations, NEW touched, Novelty!Changed(s) \subseteq touched,
         parent.state \in Valuations,
         NEW dirty, dirty = Novelty!Dirty(touched),
         NEW from, \A l \in dirty : from[l] = Novelty!Feature(l, parent.state),
         NEW all, DOMAIN all = LeafId,
         \A l \in LeafId : all[l] = Novelty!Feature(l, parent.state),
         NEW shot, shot.sat = {l \in LeafId : Novelty!Sat(l, parent.state)},
         shot.open = {l \in LeafId : Novelty!Numeric(l) /\ ~Novelty!Sat(l, parent.state)}
  PROVE  Met(Novelty!Merged(Novelty!Sparse(s, dirty, from), dirty, shot, all), s, parent.state)
<1> DEFINE met == Novelty!Sparse(s, dirty, from)
           full == Novelty!Merged(met, dirty, shot, all)
           t == parent.state
<1>1. /\ dirty \subseteq LeafId
      /\ met.newly = {l \in LeafId : Novelty!IsNew(l, s, t)}
      /\ met.satisfied = {l \in dirty : Novelty!Sat(l, s)}
      /\ met.persisting = {l \in dirty : Novelty!Stays(l, s, t)}
      /\ met.improved = {l \in LeafId : Novelty!IsCloser(l, s, t)}
      /\ met.open = {l \in dirty : Novelty!Numeric(l) /\ ~Novelty!Sat(l, s)}
      /\ \A l \in dirty : met.dist[l] = Novelty!Dist(l, s)
      /\ \A l \in LeafId \ dirty : Novelty!Sat(l, s) <=> Novelty!Sat(l, t)
      /\ \A l \in LeafId \ dirty : Novelty!Dist(l, s) = Novelty!Dist(l, t)
  BY SparseMeets
<1>2. /\ full.newly = met.newly
      /\ full.satisfied = met.satisfied \cup (shot.sat \ dirty)
      /\ full.persisting = met.persisting \cup (shot.sat \ dirty)
      /\ full.improved = met.improved
      /\ full.open = met.open \cup (shot.open \ dirty)
      /\ \A l \in LeafId : full.dist[l] = IF l \in dirty THEN met.dist[l] ELSE all[l].dist
  BY DEF Novelty!Merged, Novelty!Sparse, LeafId
<1>3. t \in Valuations
  OBVIOUS
<1>4. \A l \in LeafId : all[l].dist = Novelty!Dist(l, t)
  BY DEF Novelty!Dist
<1> HIDE DEF met, full, t
<1>5. \A l \in LeafId : Novelty!Stays(l, s, t) <=> Novelty!Sat(l, s) /\ Novelty!Sat(l, t)
  BY <1>3, CloserDidNotHold
<1>6. full.satisfied = {l \in LeafId : Novelty!Sat(l, s)}
  BY <1>1, <1>2 DEF t
<1>7. full.persisting = {l \in LeafId : Novelty!Stays(l, s, t)}
  BY <1>1, <1>2, <1>5 DEF t
<1>8. full.open = {l \in LeafId : Novelty!Numeric(l) /\ ~Novelty!Sat(l, s)}
  BY <1>1, <1>2 DEF t
<1>9. \A l \in LeafId : full.dist[l] = Novelty!Dist(l, s)
  BY <1>1, <1>2, <1>4
<1>10. Met(full, s, t)
  BY <1>1, <1>2, <1>6, <1>7, <1>8, <1>9 DEF Met
<1> QED
  BY <1>10 DEF full, met, t

-----------------------------------------------------------------------------
(* Tables and log.                                                           *)

(* The entries of the log, by their kind.                                    *)
LEMMA EntryShape ==
  ASSUME NEW y, Entry(y)
  PROVE  /\ y[1] \in Partition
         /\ y[2] = "leaf" => \E l \in LeafId : y = <<y[1], "leaf", {l}, 0>>
         /\ y[2] = "closer" =>
              y[4] \in Int /\ \E l \in LeafId : y[3] = <<l>> /\ y = <<y[1], "closer", <<l>>, y[4]>>
         /\ y[2] = "pair" =>
              y[3] \in SUBSET LeafId /\ y = <<y[1], "pair", y[3], 0>>
         /\ y[2] = "beside" =>
              /\ y[4] \in Int /\ y[3] \in LeafId \X LeafId
              /\ y = <<y[1], "beside", y[3], y[4]>>
<1>1. CASE \E p \in Partition, l \in LeafId : y = <<p, "leaf", {l}, 0>>
  BY <1>1
<1>2. CASE \E p \in Partition, l \in LeafId, v \in Int : y = <<p, "closer", <<l>>, v>>
  BY <1>2
<1>3. CASE \E p \in Partition, x \in SUBSET LeafId : y = <<p, "pair", x, 0>>
  BY <1>3
<1>4. CASE \E p \in Partition, k, l \in LeafId, v \in Int :
             y = <<p, "beside", <<k, l>>, v>>
  <2>1. PICK p \in Partition, k \in LeafId, l \in LeafId, v \in Int :
          y = <<p, "beside", <<k, l>>, v>>
    BY <1>4
  <2>2. y[1] = p /\ y[2] = "beside" /\ y[3] = <<k, l>> /\ y[4] = v
    BY <2>1
  <2> QED
    BY <2>1, <2>2
<1> QED
  BY <1>1, <1>2, <1>3, <1>4 DEF Entry

(* How close a leaf came, alone or beside another, is a number.              *)
LEMMA TableNumbers ==
  ASSUME TablesOK, NEW p \in Partition
  PROVE  /\ \A l \in DOMAIN best[p] : best[p][l] \in Int
         /\ \A x \in DOMAIN bestWith[p] : bestWith[p][x] \in Int
<1>1. \A l \in DOMAIN best[p] : <<p, "closer", <<l>>, best[p][l]>> \in log
  BY DEF TablesOK, Novelty!TablesAreTheLog, Partition
<1>2. \A x \in DOMAIN bestWith[p] : <<p, "beside", x, bestWith[p][x]>> \in log
  BY DEF TablesOK, Novelty!TablesAreTheLog, Partition
<1>3. ASSUME NEW l \in DOMAIN best[p]
      PROVE  best[p][l] \in Int
  <2>1. PICK y : y = <<p, "closer", <<l>>, best[p][l]>>
    OBVIOUS
  <2>2. Entry(y) /\ y[2] = "closer" /\ y[4] = best[p][l]
    BY <1>1, <2>1 DEF TablesOK
  <2> QED
    BY <2>2, EntryShape
<1>4. ASSUME NEW x \in DOMAIN bestWith[p]
      PROVE  bestWith[p][x] \in Int
  <2>1. PICK y : y = <<p, "beside", x, bestWith[p][x]>>
    OBVIOUS
  <2>2. Entry(y) /\ y[2] = "beside" /\ y[4] = bestWith[p][x]
    BY <1>2, <2>1 DEF TablesOK
  <2> QED
    BY <2>2, EntryShape
<1> QED
  BY <1>3, <1>4

(* The tables know what was met before.                                      *)
LEMMA TablesKnow ==
  ASSUME TablesOK, NEW p \in Partition
  PROVE  /\ \A l \in LeafId : Novelty!MetBefore(<<"leaf", {l}, 0>>, p, log) <=> l \in psiSeen[p]
         /\ \A l \in LeafId : \A v \in Int :
              Novelty!MetBefore(<<"closer", <<l>>, v>>, p, log)
                <=> l \in DOMAIN best[p] /\ ~(v > best[p][l])
         /\ \A x \in SUBSET LeafId :
              Novelty!MetBefore(<<"pair", x, 0>>, p, log) <=> x \in pairSeen[p]
         /\ \A x \in LeafId \X LeafId : \A v \in Int :
              Novelty!MetBefore(<<"beside", x, v>>, p, log)
                <=> x \in DOMAIN bestWith[p] /\ ~(v > bestWith[p][x])
<1>1. /\ psiSeen[p] = {l \in LeafId : <<p, "leaf", {l}, 0>> \in log}
      /\ \A x \in pairSeen[p] : <<p, "pair", x, 0>> \in log
      /\ \A l \in DOMAIN best[p] : <<p, "closer", <<l>>, best[p][l]>> \in log
      /\ \A x \in DOMAIN bestWith[p] : <<p, "beside", x, bestWith[p][x]>> \in log
      /\ \A y \in log : y[1] = p =>
           /\ y[2] = "pair" => y[3] \in pairSeen[p]
           /\ y[2] = "closer" => y[3][1] \in DOMAIN best[p] /\ best[p][y[3][1]] >= y[4]
           /\ y[2] = "beside" => y[3] \in DOMAIN bestWith[p] /\ bestWith[p][y[3]] >= y[4]
  BY DEF TablesOK, Novelty!TablesAreTheLog, Partition, LeafId
<1>2. \A y \in log : Entry(y)
  BY DEF TablesOK
<1>3. /\ \A l \in DOMAIN best[p] : best[p][l] \in Int
      /\ \A x \in DOMAIN bestWith[p] : bestWith[p][x] \in Int
  BY TableNumbers
<1>4. ASSUME NEW tag, NEW x, NEW v
      PROVE  Novelty!MetBefore(<<tag, x, v>>, p, log)
               <=> \E y \in log : y[1] = p /\ y[2] = tag /\ y[3] = x /\ y[4] >= v
  BY DEF Novelty!MetBefore
<1>5. ASSUME NEW l \in LeafId
      PROVE  Novelty!MetBefore(<<"leaf", {l}, 0>>, p, log) <=> l \in psiSeen[p]
  <2>1. ASSUME NEW y \in log, y[1] = p, y[2] = "leaf", y[3] = {l}
        PROVE  l \in psiSeen[p]
    <3>1. PICK k \in LeafId : y = <<p, "leaf", {k}, 0>>
      BY <2>1, <1>2, EntryShape
    <3>2. k = l
      BY <2>1, <3>1
    <3> QED
      BY <1>1, <3>1, <3>2
  <2>2. ASSUME l \in psiSeen[p]
        PROVE  \E y \in log : y[1] = p /\ y[2] = "leaf" /\ y[3] = {l} /\ y[4] >= 0
    <3>1. <<p, "leaf", {l}, 0>> \in log
      BY <1>1, <2>2
    <3> QED
      BY <3>1
  <2> QED
    BY <1>4, <2>1, <2>2
<1>6. ASSUME NEW l \in LeafId, NEW v \in Int
      PROVE  Novelty!MetBefore(<<"closer", <<l>>, v>>, p, log)
               <=> l \in DOMAIN best[p] /\ ~(v > best[p][l])
  <2>1. ASSUME NEW y \in log, y[1] = p, y[2] = "closer", y[3] = <<l>>, y[4] >= v
        PROVE  l \in DOMAIN best[p] /\ ~(v > best[p][l])
    <3>1. y[4] \in Int
      BY <1>2, <2>1, EntryShape
    <3>2. y[3][1] = l
      BY <2>1
    <3>3. l \in DOMAIN best[p] /\ best[p][l] >= y[4]
      BY <1>1, <2>1, <3>2
    <3> QED
      BY <1>3, <2>1, <3>1, <3>3
  <2>2. ASSUME l \in DOMAIN best[p], ~(v > best[p][l])
        PROVE  \E y \in log : y[1] = p /\ y[2] = "closer" /\ y[3] = <<l>> /\ y[4] >= v
    <3>1. <<p, "closer", <<l>>, best[p][l]>> \in log
      BY <1>1, <2>2
    <3>2. best[p][l] \in Int
      BY <1>3, <2>2
    <3>3. best[p][l] >= v
      BY <2>2, <3>2
    <3> QED
      BY <3>1, <3>3
  <2> QED
    BY <1>4, <2>1, <2>2
<1>7. ASSUME NEW x \in SUBSET LeafId
      PROVE  Novelty!MetBefore(<<"pair", x, 0>>, p, log) <=> x \in pairSeen[p]
  <2>1. ASSUME NEW y \in log, y[1] = p, y[2] = "pair", y[3] = x
        PROVE  x \in pairSeen[p]
    BY <1>1, <2>1
  <2>2. ASSUME x \in pairSeen[p]
        PROVE  \E y \in log : y[1] = p /\ y[2] = "pair" /\ y[3] = x /\ y[4] >= 0
    <3>1. <<p, "pair", x, 0>> \in log
      BY <1>1, <2>2
    <3> QED
      BY <3>1
  <2> QED
    BY <1>4, <2>1, <2>2
<1>8. ASSUME NEW x, NEW v \in Int
      PROVE  Novelty!MetBefore(<<"beside", x, v>>, p, log)
               <=> x \in DOMAIN bestWith[p] /\ ~(v > bestWith[p][x])
  <2>1. ASSUME NEW y \in log, y[1] = p, y[2] = "beside", y[3] = x, y[4] >= v
        PROVE  x \in DOMAIN bestWith[p] /\ ~(v > bestWith[p][x])
    <3>1. y[4] \in Int
      BY <1>2, <2>1, EntryShape
    <3>2. x \in DOMAIN bestWith[p] /\ bestWith[p][x] >= y[4]
      BY <1>1, <2>1
    <3>3. bestWith[p][x] \in Int
      BY <1>3, <3>2
    <3> QED
      BY <2>1, <3>1, <3>2, <3>3
  <2>2. ASSUME x \in DOMAIN bestWith[p], ~(v > bestWith[p][x])
        PROVE  \E y \in log : y[1] = p /\ y[2] = "beside" /\ y[3] = x /\ y[4] >= v
    <3>1. <<p, "beside", x, bestWith[p][x]>> \in log
      BY <1>1, <2>2
    <3>2. bestWith[p][x] \in Int
      BY <1>3, <2>2
    <3>3. bestWith[p][x] >= v
      BY <2>2, <3>2
    <3> QED
      BY <3>1, <3>3
  <2> QED
    BY <1>4, <2>1, <2>2
<1> QED
  BY <1>5, <1>6, <1>7, <1>8

(* The features and pairs of a state are those an evaluation meets.          *)
SameFeatures(met, s, t) ==
  Novelty!Features(s, t) =
    {<<"leaf", {l}, 0>> : l \in met.newly}
      \cup {<<"closer", <<l>>, met.dist[l]>> : l \in met.improved}
SamePairs(met, s, t) ==
  Novelty!Pairs(s, t) =
    {<<"pair", x, 0>> : x \in Novelty!SatisfiedPairs(met)}
      \cup {<<"beside", x, met.dist[x[2]]>> : x \in Novelty!OpenPairs(met)}

(* The pairs an evaluation looks up are those there are.                     *)
LEMMA PairsAreMet ==
  ASSUME NEW s \in Valuations, NEW t \in Valuations \cup {NoState}, NEW met, Met(met, s, t)
  PROVE  /\ Novelty!SatisfiedPairs(met) \in SUBSET SUBSET LeafId
         /\ Novelty!OpenPairs(met) \in SUBSET (LeafId \X LeafId)
         /\ SameFeatures(met, s, t) /\ SamePairs(met, s, t)
<1>1. /\ met.newly = {l \in LeafId : Novelty!IsNew(l, s, t)}
      /\ met.satisfied = {l \in LeafId : Novelty!Sat(l, s)}
      /\ met.persisting = {l \in LeafId : Novelty!Stays(l, s, t)}
      /\ met.improved = {l \in LeafId : Novelty!IsCloser(l, s, t)}
      /\ met.open = {l \in LeafId : Novelty!Numeric(l) /\ ~Novelty!Sat(l, s)}
      /\ \A l \in LeafId : met.dist[l] = Novelty!Dist(l, s)
  BY DEF Met
<1>2. Novelty!SatisfiedPairs(met) \in SUBSET SUBSET LeafId
  BY <1>1 DEF Novelty!SatisfiedPairs
<1>3. \A l \in LeafId : /\ Novelty!Stays(l, s, t) => Novelty!Sat(l, s)
                        /\ Novelty!IsCloser(l, s, t) => ~Novelty!Sat(l, s)
  BY DEF Novelty!Stays, Novelty!IsCloser
<1>4. Novelty!OpenPairs(met) =
        {y \in LeafId \X LeafId :
           \/ Novelty!IsNew(y[1], s, t) /\ Novelty!Numeric(y[2]) /\ ~Novelty!Sat(y[2], s)
           \/ Novelty!Stays(y[1], s, t) /\ Novelty!IsCloser(y[2], s, t)}
  <2>1. (met.newly \X met.open) =
          {y \in LeafId \X LeafId :
             Novelty!IsNew(y[1], s, t) /\ Novelty!Numeric(y[2]) /\ ~Novelty!Sat(y[2], s)}
    BY <1>1
  <2>2. {x \in met.persisting \X met.improved : x[1] # x[2]} =
          {y \in LeafId \X LeafId : Novelty!Stays(y[1], s, t) /\ Novelty!IsCloser(y[2], s, t)}
    BY <1>1, <1>3
  <2> QED
    BY <2>1, <2>2 DEF Novelty!OpenPairs
<1>5. SameFeatures(met, s, t)
  <2>1. {<<"leaf", {l}, 0>> : l \in {k \in LeafId : Novelty!IsNew(k, s, t)}} =
          {<<"leaf", {l}, 0>> : l \in met.newly}
    BY <1>1
  <2>2. {<<"closer", <<l>>, Novelty!Dist(l, s)>> : l \in {k \in LeafId : Novelty!IsCloser(k, s, t)}} =
          {<<"closer", <<l>>, met.dist[l]>> : l \in met.improved}
    BY <1>1
  <2> QED
    BY <2>1, <2>2 DEF SameFeatures, Novelty!Features, LeafId
<1>6. SamePairs(met, s, t)
  <2> DEFINE satisfied == {{k, l} : k \in {f \in LeafId : Novelty!IsNew(f, s, t)},
                                    l \in {u \in LeafId : Novelty!Sat(u, s)}} \ {{l} : l \in LeafId}
             open_ == {y \in LeafId \X LeafId :
                         \/ Novelty!IsNew(y[1], s, t) /\ Novelty!Numeric(y[2]) /\ ~Novelty!Sat(y[2], s)
                         \/ Novelty!Stays(y[1], s, t) /\ Novelty!IsCloser(y[2], s, t)}
  <2>1. Novelty!SatisfiedPairs(met) = satisfied
    BY <1>1 DEF Novelty!SatisfiedPairs, LeafId
  <2>2. Novelty!OpenPairs(met) = open_
    BY <1>4
  <2>3. Novelty!Pairs(s, t) = {<<"pair", x, 0>> : x \in satisfied}
                                 \cup {<<"beside", x, Novelty!Dist(x[2], s)>> : x \in open_}
    BY DEF Novelty!Pairs, LeafId
  <2>4. open_ \subseteq LeafId \X LeafId
    OBVIOUS
  <2> HIDE DEF satisfied, open_
  <2>5. \A x \in open_ : met.dist[x[2]] = Novelty!Dist(x[2], s)
    BY <1>1, <2>4
  <2>6. {<<"beside", x, met.dist[x[2]]>> : x \in open_} =
          {<<"beside", x, Novelty!Dist(x[2], s)>> : x \in open_}
    BY <2>5
  <2> QED
    BY <2>1, <2>2, <2>3, <2>6 DEF SamePairs
<1> QED
  BY <1>2, <1>4, <1>5, <1>6

(* So the novelty looked up is the novelty by definition.                    *)
LEMMA NovelIsExpected ==
  ASSUME TablesOK, NEW p \in Partition, NEW s \in Valuations, NEW t \in Valuations \cup {NoState},
         NEW met, Met(met, s, t)
  PROVE  Novelty!Novel(met, p) = Novelty!Expected(s, t, p, log)
<1>1. /\ Novelty!SatisfiedPairs(met) \in SUBSET SUBSET LeafId
      /\ Novelty!OpenPairs(met) \in SUBSET (LeafId \X LeafId)
      /\ SameFeatures(met, s, t) /\ SamePairs(met, s, t)
  BY PairsAreMet
<1>2. /\ met.newly \subseteq LeafId /\ met.improved \subseteq LeafId
      /\ \A l \in LeafId : met.dist[l] \in Int
  BY DistanceIsNumber DEF Met
<1>3. (\E x \in Novelty!Features(s, t) : ~Novelty!MetBefore(x, p, log))
        <=> \/ \E l \in met.newly : ~Novelty!MetBefore(<<"leaf", {l}, 0>>, p, log)
            \/ \E l \in met.improved : ~Novelty!MetBefore(<<"closer", <<l>>, met.dist[l]>>, p, log)
  BY <1>1 DEF SameFeatures
<1>4. (\E x \in Novelty!Pairs(s, t) : ~Novelty!MetBefore(x, p, log))
        <=> \/ \E x \in Novelty!SatisfiedPairs(met) : ~Novelty!MetBefore(<<"pair", x, 0>>, p, log)
            \/ \E x \in Novelty!OpenPairs(met) :
                 ~Novelty!MetBefore(<<"beside", x, met.dist[x[2]]>>, p, log)
  BY <1>1 DEF SamePairs
<1>5. (\E l \in met.newly : ~Novelty!MetBefore(<<"leaf", {l}, 0>>, p, log))
        <=> met.newly \ psiSeen[p] # {}
  BY <1>2, TablesKnow
<1>6. (\E l \in met.improved : ~Novelty!MetBefore(<<"closer", <<l>>, met.dist[l]>>, p, log))
        <=> Novelty!Closer(met, best[p]) # {}
  BY <1>2, TablesKnow DEF Novelty!Closer, Novelty!Beats
<1>7. (\E x \in Novelty!SatisfiedPairs(met) : ~Novelty!MetBefore(<<"pair", x, 0>>, p, log))
        <=> Novelty!SatisfiedPairs(met) \ pairSeen[p] # {}
  BY <1>1, TablesKnow
<1>8. (\E x \in Novelty!OpenPairs(met) :
         ~Novelty!MetBefore(<<"beside", x, met.dist[x[2]]>>, p, log))
        <=> Novelty!CloserPairs(met, bestWith[p]) # {}
  <2>1. \A x \in Novelty!OpenPairs(met) : x \in LeafId \X LeafId /\ met.dist[x[2]] \in Int
    BY <1>1, <1>2
  <2> QED
    BY <2>1, TablesKnow DEF Novelty!CloserPairs, Novelty!Beats
<1> QED
  BY <1>3, <1>4, <1>5, <1>6, <1>7, <1>8 DEF Novelty!Novel, Novelty!Expected

(* A table of the closest values takes in new ones.                          *)
LEMMA TableGrows ==
  ASSUME NEW old, \A k \in DOMAIN old : old[k] \in Int,
         NEW K, NEW d, \A k \in K : d[k] \in Int,
         NEW closer, closer = {k \in K : k \notin DOMAIN old \/ d[k] > old[k]},
         NEW new, new = [k \in DOMAIN old \cup closer |-> IF k \in closer THEN d[k] ELSE old[k]]
  PROVE  /\ DOMAIN new = DOMAIN old \cup K
         /\ \A k \in DOMAIN new : \/ k \in DOMAIN old /\ new[k] = old[k]
                                  \/ k \in K /\ new[k] = d[k]
         /\ \A k \in DOMAIN old : new[k] >= old[k]
         /\ \A k \in K : new[k] >= d[k]
<1>1. \A k \in K : k \in closer \/ (k \in DOMAIN old /\ ~(d[k] > old[k]))
  OBVIOUS
<1>2. closer \subseteq K
  OBVIOUS
<1>3. DOMAIN new = DOMAIN old \cup closer
  OBVIOUS
<1>4. DOMAIN new = DOMAIN old \cup K
  BY <1>1, <1>2, <1>3
<1>5. \A k \in DOMAIN new : new[k] = IF k \in closer THEN d[k] ELSE old[k]
  BY <1>3
<1>6. \A k \in DOMAIN new : \/ k \in DOMAIN old /\ new[k] = old[k]
                            \/ k \in K /\ new[k] = d[k]
  BY <1>2, <1>3, <1>5
<1>7. ASSUME NEW k \in DOMAIN old
      PROVE  new[k] >= old[k]
  <2>1. CASE k \in closer
    <3>1. d[k] > old[k] /\ d[k] \in Int /\ old[k] \in Int /\ new[k] = d[k]
      BY <2>1, <1>2, <1>3, <1>5
    <3> QED
      BY <3>1
  <2>2. CASE k \notin closer
    <3>1. new[k] = old[k] /\ old[k] \in Int
      BY <2>2, <1>3, <1>5
    <3> QED
      BY <3>1
  <2> QED
    BY <2>1, <2>2
<1>8. ASSUME NEW k \in K
      PROVE  new[k] >= d[k]
  <2>1. CASE k \in closer
    <3>1. new[k] = d[k] /\ d[k] \in Int
      BY <2>1, <1>3, <1>5
    <3> QED
      BY <3>1
  <2>2. CASE k \notin closer
    <3>1. k \in DOMAIN old /\ ~(d[k] > old[k]) /\ new[k] = old[k]
      BY <2>2, <1>1, <1>3, <1>5
    <3>2. d[k] \in Int /\ old[k] \in Int
      BY <3>1
    <3> QED
      BY <3>1, <3>2
  <2> QED
    BY <2>1, <2>2
<1> QED
  BY <1>4, <1>6, <1>7, <1>8

(* What an evaluation adds to the log.                                       *)
LEMMA LogGrows ==
  ASSUME NEW p \in Partition, NEW s \in Valuations, NEW t \in Valuations \cup {NoState},
         NEW met, Met(met, s, t),
         NEW later, later = Novelty!Logged(s, t, p, log), NEW y
  PROVE  y \in later
           <=> \/ y \in log
               \/ \E l \in met.newly : y = <<p, "leaf", {l}, 0>>
               \/ \E l \in met.improved : y = <<p, "closer", <<l>>, met.dist[l]>>
               \/ \E x \in Novelty!SatisfiedPairs(met) : y = <<p, "pair", x, 0>>
               \/ \E x \in Novelty!OpenPairs(met) : y = <<p, "beside", x, met.dist[x[2]]>>
<1>1. SameFeatures(met, s, t) /\ SamePairs(met, s, t)
  BY PairsAreMet
<1>2. y \in later
        <=> y \in log \/ \E x \in Novelty!Features(s, t) \cup Novelty!Pairs(s, t) :
                           y = <<p, x[1], x[2], x[3]>>
  BY DEF Novelty!Logged
<1>3. \A x : x \in Novelty!Features(s, t)
               <=> \/ \E l \in met.newly : x = <<"leaf", {l}, 0>>
                   \/ \E l \in met.improved : x = <<"closer", <<l>>, met.dist[l]>>
  BY <1>1 DEF SameFeatures
<1>4. \A x : x \in Novelty!Pairs(s, t)
               <=> \/ \E z \in Novelty!SatisfiedPairs(met) : x = <<"pair", z, 0>>
                   \/ \E z \in Novelty!OpenPairs(met) : x = <<"beside", z, met.dist[z[2]]>>
  BY <1>1 DEF SamePairs
<1>5. ASSUME NEW tag, NEW z, NEW v, NEW x, x = <<tag, z, v>>
      PROVE  <<p, x[1], x[2], x[3]>> = <<p, tag, z, v>>
  BY <1>5
<1>6. ASSUME NEW x \in Novelty!Features(s, t) \cup Novelty!Pairs(s, t), y = <<p, x[1], x[2], x[3]>>
      PROVE  \/ \E l \in met.newly : y = <<p, "leaf", {l}, 0>>
             \/ \E l \in met.improved : y = <<p, "closer", <<l>>, met.dist[l]>>
             \/ \E z \in Novelty!SatisfiedPairs(met) : y = <<p, "pair", z, 0>>
             \/ \E z \in Novelty!OpenPairs(met) : y = <<p, "beside", z, met.dist[z[2]]>>
  <2>1. CASE \E l \in met.newly : x = <<"leaf", {l}, 0>>
    BY <2>1, <1>5, <1>6
  <2>2. CASE \E l \in met.improved : x = <<"closer", <<l>>, met.dist[l]>>
    BY <2>2, <1>5, <1>6
  <2>3. CASE \E z \in Novelty!SatisfiedPairs(met) : x = <<"pair", z, 0>>
    BY <2>3, <1>5, <1>6
  <2>4. CASE \E z \in Novelty!OpenPairs(met) : x = <<"beside", z, met.dist[z[2]]>>
    BY <2>4, <1>5, <1>6
  <2> QED
    BY <2>1, <2>2, <2>3, <2>4, <1>3, <1>4
<1>7. ASSUME NEW tag, NEW z, NEW v, y = <<p, tag, z, v>>,
             <<tag, z, v>> \in Novelty!Features(s, t) \cup Novelty!Pairs(s, t)
      PROVE  y \in later
  BY <1>2, <1>5, <1>7
<1>8. /\ \A l \in met.newly : <<"leaf", {l}, 0>> \in Novelty!Features(s, t)
      /\ \A l \in met.improved : <<"closer", <<l>>, met.dist[l]>> \in Novelty!Features(s, t)
      /\ \A z \in Novelty!SatisfiedPairs(met) : <<"pair", z, 0>> \in Novelty!Pairs(s, t)
      /\ \A z \in Novelty!OpenPairs(met) : <<"beside", z, met.dist[z[2]]>> \in Novelty!Pairs(s, t)
  BY <1>3, <1>4
<1>9. /\ (\E l \in met.newly : y = <<p, "leaf", {l}, 0>>) => y \in later
      /\ (\E l \in met.improved : y = <<p, "closer", <<l>>, met.dist[l]>>) => y \in later
      /\ (\E z \in Novelty!SatisfiedPairs(met) : y = <<p, "pair", z, 0>>) => y \in later
      /\ (\E z \in Novelty!OpenPairs(met) : y = <<p, "beside", z, met.dist[z[2]]>>) => y \in later
  BY <1>7, <1>8
<1> QED
  BY <1>2, <1>6, <1>9

(* The tables stay an extract of the log.                                    *)
LEMMA RecordKeeps ==
  ASSUME TablesOK, NEW p \in Partition, NEW s \in Valuations, NEW t \in Valuations \cup {NoState},
         NEW met, Met(met, s, t), Novelty!Record(met, p), log' = Novelty!Logged(s, t, p, log)
  PROVE  TablesOK'
<1> DEFINE closer == Novelty!Closer(met, best[p])
           beside == Novelty!CloserPairs(met, bestWith[p])
           d == [x \in Novelty!OpenPairs(met) |-> met.dist[x[2]]]
           bestP == [l \in DOMAIN best[p] \cup closer |-> IF l \in closer THEN met.dist[l] ELSE best[p][l]]
           withP == [x \in DOMAIN bestWith[p] \cup beside |-> IF x \in beside THEN d[x] ELSE bestWith[p][x]]
<1>1. /\ DOMAIN psiSeen = Partition /\ DOMAIN pairSeen = Partition
      /\ DOMAIN best = Partition /\ DOMAIN bestWith = Partition
      /\ \A q \in Partition : /\ psiSeen[q] \subseteq LeafId
                              /\ DOMAIN best[q] \subseteq LeafId
                              /\ DOMAIN bestWith[q] \subseteq LeafId \X LeafId
      /\ \A y \in log : Entry(y)
  BY DEF TablesOK
<1>2. /\ met.newly \subseteq LeafId /\ met.improved \subseteq LeafId
      /\ \A l \in LeafId : met.dist[l] \in Int
      /\ Novelty!SatisfiedPairs(met) \in SUBSET SUBSET LeafId
      /\ Novelty!OpenPairs(met) \in SUBSET (LeafId \X LeafId)
  BY DistanceIsNumber, PairsAreMet DEF Met
<1>3. \A y : y \in log'
               <=> \/ y \in log
                   \/ \E l \in met.newly : y = <<p, "leaf", {l}, 0>>
                   \/ \E l \in met.improved : y = <<p, "closer", <<l>>, met.dist[l]>>
                   \/ \E x \in Novelty!SatisfiedPairs(met) : y = <<p, "pair", x, 0>>
                   \/ \E x \in Novelty!OpenPairs(met) : y = <<p, "beside", x, met.dist[x[2]]>>
  BY LogGrows
<1>4. \A x \in Novelty!OpenPairs(met) : d[x] = met.dist[x[2]] /\ d[x] \in Int
  BY <1>2
<1>5. /\ psiSeen' = [psiSeen EXCEPT ![p] = @ \cup met.newly]
      /\ pairSeen' = [pairSeen EXCEPT ![p] = @ \cup Novelty!SatisfiedPairs(met)]
      /\ best' = [best EXCEPT ![p] = bestP]
  BY DEF Novelty!Record
<1>6. bestWith' = [bestWith EXCEPT ![p] = withP]
  <2>1. beside \subseteq Novelty!OpenPairs(met)
    BY DEF Novelty!CloserPairs
  <2>2. withP = [x \in DOMAIN bestWith[p] \cup beside |->
                   IF x \in beside THEN met.dist[x[2]] ELSE bestWith[p][x]]
    BY <2>1
  <2> QED
    BY <2>2 DEF Novelty!Record
<1>7. /\ \A l \in DOMAIN best[p] : best[p][l] \in Int
      /\ \A x \in DOMAIN bestWith[p] : bestWith[p][x] \in Int
  BY TableNumbers
<1>8. /\ DOMAIN bestP = DOMAIN best[p] \cup met.improved
      /\ \A l \in DOMAIN bestP : \/ l \in DOMAIN best[p] /\ bestP[l] = best[p][l]
                                 \/ l \in met.improved /\ bestP[l] = met.dist[l]
      /\ \A l \in DOMAIN best[p] : bestP[l] >= best[p][l]
      /\ \A l \in met.improved : bestP[l] >= met.dist[l]
  <2>1. closer = {l \in met.improved : l \notin DOMAIN best[p] \/ met.dist[l] > best[p][l]}
    BY DEF Novelty!Closer, Novelty!Beats
  <2> HIDE DEF closer
  <2>2. \A l \in met.improved : met.dist[l] \in Int
    BY <1>2
  <2> QED
    BY <1>7, <2>1, <2>2, TableGrows
<1>9. /\ DOMAIN withP = DOMAIN bestWith[p] \cup Novelty!OpenPairs(met)
      /\ \A x \in DOMAIN withP : \/ x \in DOMAIN bestWith[p] /\ withP[x] = bestWith[p][x]
                                 \/ x \in Novelty!OpenPairs(met) /\ withP[x] = d[x]
      /\ \A x \in DOMAIN bestWith[p] : withP[x] >= bestWith[p][x]
      /\ \A x \in Novelty!OpenPairs(met) : withP[x] >= d[x]
  <2>1. beside = {x \in Novelty!OpenPairs(met) : x \notin DOMAIN bestWith[p] \/ d[x] > bestWith[p][x]}
    BY <1>4 DEF Novelty!CloserPairs, Novelty!Beats
  <2> HIDE DEF beside, d
  <2> QED
    BY <1>4, <1>7, <2>1, TableGrows
<1> HIDE DEF closer, beside, d, bestP, withP
<1>10. /\ DOMAIN psiSeen' = Partition /\ DOMAIN pairSeen' = Partition
       /\ DOMAIN best' = Partition /\ DOMAIN bestWith' = Partition
       /\ psiSeen'[p] = psiSeen[p] \cup met.newly
       /\ pairSeen'[p] = pairSeen[p] \cup Novelty!SatisfiedPairs(met)
       /\ best'[p] = bestP /\ bestWith'[p] = withP
       /\ \A q \in Partition \ {p} : /\ psiSeen'[q] = psiSeen[q] /\ pairSeen'[q] = pairSeen[q]
                                     /\ best'[q] = best[q] /\ bestWith'[q] = bestWith[q]
  BY <1>1, <1>5, <1>6
<1>11. \A y \in log' : Entry(y)
  <2> SUFFICES ASSUME NEW y \in log' PROVE Entry(y)
    OBVIOUS
  <2>1. CASE y \in log
    BY <2>1, <1>1
  <2>2. CASE \E l \in met.newly : y = <<p, "leaf", {l}, 0>>
    BY <2>2, <1>2 DEF Entry
  <2>3. CASE \E l \in met.improved : y = <<p, "closer", <<l>>, met.dist[l]>>
    BY <2>3, <1>2 DEF Entry
  <2>4. CASE \E x \in Novelty!SatisfiedPairs(met) : y = <<p, "pair", x, 0>>
    BY <2>4, <1>2 DEF Entry
  <2>5. CASE \E x \in Novelty!OpenPairs(met) : y = <<p, "beside", x, met.dist[x[2]]>>
    <3>1. PICK x \in Novelty!OpenPairs(met) : y = <<p, "beside", x, met.dist[x[2]]>>
      BY <2>5
    <3>2. PICK k \in LeafId, l \in LeafId : x = <<k, l>>
      BY <1>2
    <3>3. met.dist[x[2]] \in Int
      BY <1>2, <3>2
    <3> QED
      BY <3>1, <3>2, <3>3 DEF Entry
  <2> QED
    BY <2>1, <2>2, <2>3, <2>4, <2>5, <1>3
<1>12. \A q \in Partition : /\ psiSeen'[q] \subseteq LeafId
                            /\ DOMAIN best'[q] \subseteq LeafId
                            /\ DOMAIN bestWith'[q] \subseteq LeafId \X LeafId
  <2> TAKE q \in Partition
  <2>1. CASE q = p
    <3>1. DOMAIN best'[p] = DOMAIN best[p] \cup met.improved
      BY <1>8, <1>10
    <3>2. DOMAIN bestWith'[p] = DOMAIN bestWith[p] \cup Novelty!OpenPairs(met)
      BY <1>9, <1>10
    <3> QED
      BY <2>1, <1>1, <1>2, <1>10, <3>1, <3>2
  <2>2. CASE q # p
    BY <2>2, <1>1, <1>10
  <2> QED
    BY <2>1, <2>2
<1>13. Novelty!TablesAreTheLog'
  <2>1. \A q \in Partition :
          /\ psiSeen[q] = {l \in LeafId : <<q, "leaf", {l}, 0>> \in log}
          /\ \A x \in pairSeen[q] : <<q, "pair", x, 0>> \in log
          /\ \A l \in DOMAIN best[q] : <<q, "closer", <<l>>, best[q][l]>> \in log
          /\ \A x \in DOMAIN bestWith[q] : <<q, "beside", x, bestWith[q][x]>> \in log
    BY DEF TablesOK, Novelty!TablesAreTheLog, Partition, LeafId
  <2>2. \A q \in Partition : \A y \in log : y[1] = q =>
          /\ y[2] = "pair" => y[3] \in pairSeen[q]
          /\ y[2] = "closer" => y[3][1] \in DOMAIN best[q] /\ best[q][y[3][1]] >= y[4]
          /\ y[2] = "beside" => y[3] \in DOMAIN bestWith[q] /\ bestWith[q][y[3]] >= y[4]
    BY DEF TablesOK, Novelty!TablesAreTheLog, Partition
  <2>3. ASSUME NEW q \in Partition
        PROVE  psiSeen'[q] = {l \in LeafId : <<q, "leaf", {l}, 0>> \in log'}
    <3>1. ASSUME NEW l \in LeafId
          PROVE  <<q, "leaf", {l}, 0>> \in log'
                   <=> <<q, "leaf", {l}, 0>> \in log \/ (q = p /\ l \in met.newly)
      <4>1. <<q, "leaf", {l}, 0>> \in log'
              <=> \/ <<q, "leaf", {l}, 0>> \in log
                  \/ \E k \in met.newly : <<q, "leaf", {l}, 0>> = <<p, "leaf", {k}, 0>>
        BY <1>3
      <4>2. \A k : <<q, "leaf", {l}, 0>> = <<p, "leaf", {k}, 0>> <=> q = p /\ l = k
        OBVIOUS
      <4> QED
        BY <4>1, <4>2
    <3>2. psiSeen'[q] = IF q = p THEN psiSeen[q] \cup met.newly ELSE psiSeen[q]
      BY <1>10
    <3>3. psiSeen[q] = {l \in LeafId : <<q, "leaf", {l}, 0>> \in log}
      BY <2>1
    <3> QED
      BY <1>2, <3>1, <3>2, <3>3
  <2>4. ASSUME NEW q \in Partition
        PROVE  \A x \in pairSeen'[q] : <<q, "pair", x, 0>> \in log'
    <3> TAKE x \in pairSeen'[q]
    <3>1. x \in pairSeen[q] \/ (q = p /\ x \in Novelty!SatisfiedPairs(met))
      BY <1>10
    <3>2. CASE x \in pairSeen[q]
      BY <1>3, <2>1, <3>2
    <3>3. CASE q = p /\ x \in Novelty!SatisfiedPairs(met)
      BY <1>3, <3>3
    <3> QED
      BY <3>1, <3>2, <3>3
  <2>5. ASSUME NEW q \in Partition
        PROVE  \A l \in DOMAIN best'[q] : <<q, "closer", <<l>>, best'[q][l]>> \in log'
    <3> TAKE l \in DOMAIN best'[q]
    <3>1. \/ l \in DOMAIN best[q] /\ best'[q][l] = best[q][l]
          \/ q = p /\ l \in met.improved /\ best'[q][l] = met.dist[l]
      BY <1>8, <1>10
    <3>2. CASE l \in DOMAIN best[q] /\ best'[q][l] = best[q][l]
      <4>1. <<q, "closer", <<l>>, best[q][l]>> \in log
        BY <2>1, <3>2
      <4> QED
        BY <1>3, <3>2, <4>1
    <3>3. CASE q = p /\ l \in met.improved /\ best'[q][l] = met.dist[l]
      BY <1>3, <3>3
    <3> QED
      BY <3>1, <3>2, <3>3
  <2>6. ASSUME NEW q \in Partition
        PROVE  \A x \in DOMAIN bestWith'[q] : <<q, "beside", x, bestWith'[q][x]>> \in log'
    <3> TAKE x \in DOMAIN bestWith'[q]
    <3>1. \/ x \in DOMAIN bestWith[q] /\ bestWith'[q][x] = bestWith[q][x]
          \/ q = p /\ x \in Novelty!OpenPairs(met) /\ bestWith'[q][x] = met.dist[x[2]]
      BY <1>4, <1>9, <1>10
    <3>2. CASE x \in DOMAIN bestWith[q] /\ bestWith'[q][x] = bestWith[q][x]
      <4>1. <<q, "beside", x, bestWith[q][x]>> \in log
        BY <2>1, <3>2
      <4> QED
        BY <1>3, <3>2, <4>1
    <3>3. CASE q = p /\ x \in Novelty!OpenPairs(met) /\ bestWith'[q][x] = met.dist[x[2]]
      BY <1>3, <3>3
    <3> QED
      BY <3>1, <3>2, <3>3
  <2>7. ASSUME NEW q \in Partition, NEW y \in log', y[1] = q, y[2] = "pair"
        PROVE  y[3] \in pairSeen'[q]
    <3>1. CASE y \in log
      BY <2>2, <2>7, <3>1, <1>10
    <3>2. CASE y \notin log
      <4>1. PICK x \in Novelty!SatisfiedPairs(met) : y = <<p, "pair", x, 0>>
        BY <1>3, <2>7, <3>2
      <4> QED
        BY <2>7, <4>1, <1>10
    <3> QED
      BY <3>1, <3>2
  <2>8. ASSUME NEW q \in Partition, NEW y \in log', y[1] = q, y[2] = "closer"
        PROVE  y[3][1] \in DOMAIN best'[q] /\ best'[q][y[3][1]] >= y[4]
    <3>1. CASE y \in log
      <4>1. y[3][1] \in DOMAIN best[q] /\ best[q][y[3][1]] >= y[4]
        BY <2>2, <2>8, <3>1
      <4>2. y[4] \in Int
        BY <1>1, <2>8, <3>1, EntryShape
      <4>3. CASE q = p
        <5> DEFINE l == y[3][1]
        <5>1. l \in DOMAIN best[p] /\ best[p][l] >= y[4] /\ best[p][l] \in Int
          BY <4>1, <4>3, <1>7
        <5> HIDE DEF l
        <5>2. l \in DOMAIN bestP /\ bestP[l] >= best[p][l] /\ bestP[l] \in Int
          BY <5>1, <1>2, <1>7, <1>8
        <5>3. l \in DOMAIN best'[q] /\ best'[q][l] >= y[4]
          BY <5>1, <5>2, <4>2, <4>3, <1>10
        <5> QED
          BY <5>3 DEF l
      <4>4. CASE q # p
        BY <4>1, <4>4, <1>10
      <4> QED
        BY <4>3, <4>4
    <3>2. CASE y \notin log
      <4>1. PICK l \in met.improved : y = <<p, "closer", <<l>>, met.dist[l]>>
        BY <1>3, <2>8, <3>2
      <4>2. q = p /\ y[3][1] = l /\ y[4] = met.dist[l]
        BY <2>8, <4>1
      <4>3. l \in DOMAIN bestP /\ bestP[l] >= met.dist[l]
        BY <1>8
      <4> QED
        BY <4>2, <4>3, <1>10
    <3> QED
      BY <3>1, <3>2
  <2>9. ASSUME NEW q \in Partition, NEW y \in log', y[1] = q, y[2] = "beside"
        PROVE  y[3] \in DOMAIN bestWith'[q] /\ bestWith'[q][y[3]] >= y[4]
    <3>1. CASE y \in log
      <4>1. y[3] \in DOMAIN bestWith[q] /\ bestWith[q][y[3]] >= y[4]
        BY <2>2, <2>9, <3>1
      <4>2. y[4] \in Int
        BY <1>1, <2>9, <3>1, EntryShape
      <4>3. CASE q = p
        <5> DEFINE x == y[3]
        <5>1. x \in DOMAIN bestWith[p] /\ bestWith[p][x] >= y[4] /\ bestWith[p][x] \in Int
          BY <4>1, <4>3, <1>7
        <5> HIDE DEF x
        <5>2. x \in DOMAIN withP /\ withP[x] >= bestWith[p][x] /\ withP[x] \in Int
          BY <5>1, <1>4, <1>7, <1>9
        <5>3. x \in DOMAIN bestWith'[q] /\ bestWith'[q][x] >= y[4]
          BY <5>1, <5>2, <4>2, <4>3, <1>10
        <5> QED
          BY <5>3 DEF x
      <4>4. CASE q # p
        BY <4>1, <4>4, <1>10
      <4> QED
        BY <4>3, <4>4
    <3>2. CASE y \notin log
      <4>1. PICK x \in Novelty!OpenPairs(met) : y = <<p, "beside", x, met.dist[x[2]]>>
        BY <1>3, <2>9, <3>2
      <4>2. q = p /\ y[3] = x /\ y[4] = d[x]
        BY <1>4, <2>9, <4>1
      <4>3. x \in DOMAIN withP /\ withP[x] >= d[x]
        BY <1>9
      <4> QED
        BY <4>2, <4>3, <1>10
    <3> QED
      BY <3>1, <3>2
  <2> QED
    BY <2>3, <2>4, <2>5, <2>6, <2>7, <2>8, <2>9 DEF Novelty!TablesAreTheLog, Partition, LeafId
<1> QED
  BY <1>10, <1>11, <1>12, <1>13 DEF TablesOK

-----------------------------------------------------------------------------
(* Steps.                                                                    *)

(* Two leaves are a pair.                                                    *)
LEMMA PairsAreOfTwo ==
  ASSUME NEW a, NEW b, a # b
  PROVE  Novelty!Cardinality({a, b}) = 2
<1>1. IsFiniteSet({a}) /\ Cardinality({a}) = 1
  BY FS_Singleton
<1>2. {a, b} = {a} \cup {b} /\ b \notin {a}
  OBVIOUS
<1>3. Cardinality({a} \cup {b}) = Cardinality({a}) + 1
  BY <1>1, <1>2, FS_AddElement
<1>4. Cardinality({a, b}) = 2
  BY <1>1, <1>2, <1>3
<1> QED
  BY <1>4 DEF Novelty!Cardinality, Cardinality

(* Recording keeps to them.                                                  *)
LEMMA RecordKeys ==
  ASSUME TablesOK, KeysOK, NEW p \in Partition, NEW s \in Valuations, NEW t \in Valuations \cup {NoState},
         NEW met, Met(met, s, t), Novelty!Record(met, p)
  PROVE  KeysOK'
<1>1. /\ DOMAIN best = Partition /\ DOMAIN pairSeen = Partition
  BY DEF TablesOK
<1>2. Novelty!Closer(met, best[p]) \subseteq {l \in LeafId : Novelty!Numeric(l)}
  BY DEF Met, Novelty!Closer, Novelty!IsCloser
<1>3. \A x \in Novelty!SatisfiedPairs(met) : x \subseteq LeafId /\ Novelty!Cardinality(x) = 2
  <2> TAKE x \in Novelty!SatisfiedPairs(met)
  <2>1. PICK f \in met.newly, u \in met.satisfied : x = {f, u}
    BY DEF Novelty!SatisfiedPairs
  <2>2. f \in LeafId /\ u \in LeafId
    BY DEF Met
  <2>3. f # u
    BY <2>1, <2>2 DEF Novelty!SatisfiedPairs, LeafId
  <2> QED
    BY <2>1, <2>2, <2>3, PairsAreOfTwo
<1>4. ASSUME NEW q \in Partition
      PROVE  /\ DOMAIN best'[q] \subseteq DOMAIN best[q] \cup Novelty!Closer(met, best[p])
             /\ pairSeen'[q] \subseteq pairSeen[q] \cup Novelty!SatisfiedPairs(met)
  <2>1. DOMAIN best'[q] \subseteq DOMAIN best[q] \cup Novelty!Closer(met, best[p])
    <3> DEFINE closer == Novelty!Closer(met, best[p])
    <3>1. best' = [best EXCEPT ![p] = [l \in DOMAIN best[p] \cup closer |->
                                          IF l \in closer THEN met.dist[l] ELSE best[p][l]]]
      BY DEF Novelty!Record
    <3> HIDE DEF closer
    <3>2. DOMAIN best'[q] \subseteq DOMAIN best[q] \cup closer
      BY <3>1, <1>1
    <3> QED
      BY <3>2 DEF closer
  <2>2. pairSeen'[q] \subseteq pairSeen[q] \cup Novelty!SatisfiedPairs(met)
    BY <1>1 DEF Novelty!Record
  <2> QED
    BY <2>1, <2>2
<1> QED
  BY <1>2, <1>3, <1>4 DEF KeysOK

(* An evaluation that looks up and records all there is to be met.           *)
LEMMA EvaluatedRightly ==
  ASSUME TablesOK, KeysOK, NEW p \in Partition, NEW s \in Valuations, NEW t \in Valuations \cup {NoState},
         NEW met, Met(met, s, t),
         answer' = Novelty!Novel(met, p), Novelty!Record(met, p), Novelty!Observe(s, t, p, log)
  PROVE  /\ TablesOK' /\ KeysOK'
         /\ answer' \in 1 .. 3 /\ expected' = answer'
<1>1. log' = Novelty!Logged(s, t, p, log) /\ expected' = Novelty!Expected(s, t, p, log)
  BY DEF Novelty!Observe
<1>2. TablesOK' /\ KeysOK'
  BY <1>1, RecordKeeps, RecordKeys
<1>3. answer' \in 1 .. 3
  BY DEF Novelty!Novel
<1>4. expected' = answer'
  BY <1>1, NovelIsExpected
<1> QED
  BY <1>2, <1>3, <1>4

(* Every state is put into a partition no higher than the root's.            *)
LEMMA PartitionsExist ==
  ASSUME NEW h \in 0 .. MaxH, NEW top \in Partition \cup {1}
  PROVE  Novelty!PartitionOf(h, top) \in Partition /\ Novelty!PartitionOf(h, top) <= top
<1>1. MaxH \in Nat
  BY HeuristicsAssumption DEF Novelty!NoveltyAssumption
<1> QED
  BY <1>1 DEF Novelty!PartitionOf, Partition, Novelty!Partition

(* Nothing seen yet, nothing remembered.                                     *)
NothingYet ==
  /\ psiSeen = Novelty!NothingSeen /\ pairSeen = Novelty!NothingSeen
  /\ best = Novelty!NothingBest /\ bestWith = Novelty!NothingBest /\ log = {}
CachesEmpty == cache = <<>> /\ snapshot = Novelty!NoSnapshot
CachesOK == Novelty!CachesAreTheParents /\ DOMAIN cache \subseteq LeafId

(* A search that starts has seen nothing.                                    *)
LEMMA NothingSeenOK == NothingYet => TablesOK /\ KeysOK
<1> SUFFICES ASSUME NothingYet PROVE TablesOK /\ KeysOK
  OBVIOUS
<1>1. DOMAIN <<>> = {}
  OBVIOUS
<1>2. \A p \in Partition : /\ psiSeen[p] = {} /\ pairSeen[p] = {}
                           /\ best[p] = <<>> /\ bestWith[p] = <<>>
  BY DEF NothingYet, Novelty!NothingSeen, Novelty!NothingBest, Partition
<1>3. /\ DOMAIN psiSeen = Partition /\ DOMAIN pairSeen = Partition
      /\ DOMAIN best = Partition /\ DOMAIN bestWith = Partition
  BY DEF NothingYet, Novelty!NothingSeen, Novelty!NothingBest, Partition
<1>4. Novelty!TablesAreTheLog
  BY <1>1, <1>2 DEF NothingYet, Novelty!TablesAreTheLog, Partition
<1> QED
  BY <1>1, <1>2, <1>3, <1>4 DEF NothingYet, TablesOK, KeysOK

(* An empty cache is right about any state.                                  *)
LEMMA EmptyCaches == CachesEmpty => CachesOK
<1> SUFFICES ASSUME CachesEmpty PROVE CachesOK
  OBVIOUS
<1>1. DOMAIN cache = {}
  BY DEF CachesEmpty
<1> QED
  BY <1>1 DEF CachesEmpty, CachesOK, Novelty!CachesAreTheParents

(* The measure is made.                                                      *)
LEMMA NoveltyInit == Novelty!Init => NoveltyInv
<1> SUFFICES ASSUME Novelty!Init PROVE NoveltyInv
  OBVIOUS
<1>1. MaxH \in Nat /\ MaxEvals \in Nat /\ MaxStarts \in Nat
  BY HeuristicsAssumption DEF Novelty!NoveltyAssumption
<1>2. TablesOK /\ KeysOK
  BY NothingSeenOK DEF Novelty!Init, NothingYet
<1>3. Novelty!CachesAreTheParents /\ DOMAIN cache \subseteq LeafId
  BY EmptyCaches DEF Novelty!Init, CachesEmpty, CachesOK
<1>4. /\ parent = [state |-> NoState, partition |-> 0] /\ generated = {} /\ maxPartition = 1
      /\ answer = 3 /\ expected = 3 /\ evals = 0 /\ starts = 0
  BY DEF Novelty!Init, NoState
<1>5. 0 \in Partition
  BY <1>1 DEF Partition, Novelty!Partition
<1>6. StatesOK /\ Novelty!PartitionsStayLow
  BY <1>3, <1>4, <1>5 DEF StatesOK, Novelty!PartitionsStayLow
<1> QED
  BY <1>1, <1>2, <1>3, <1>4, <1>6 DEF NoveltyInv

(* A search starts.                                                          *)
LEMMA NoveltyStart ==
  ASSUME NoveltyInv, NEW h \in 0 .. MaxH, Novelty!Start(h)
  PROVE  NoveltyInv'
<1>1. MaxH \in Nat /\ MaxEvals \in Nat /\ MaxStarts \in Nat
  BY HeuristicsAssumption DEF Novelty!NoveltyAssumption
<1>2. TablesOK' /\ KeysOK'
  <2>1. NothingYet'
    BY DEF NothingYet, Novelty!Start
  <2> QED
    BY <2>1, NothingSeenOK, PTL
<1>3. Novelty!CachesAreTheParents' /\ DOMAIN cache' \subseteq LeafId
  <2>1. CachesEmpty'
    BY DEF CachesEmpty, Novelty!Start
  <2>2. CachesOK'
    BY <2>1, EmptyCaches, PTL
  <2> QED
    BY <2>2 DEF CachesOK
<1>4. /\ parent' = [state |-> NoState, partition |-> Novelty!PartitionOf(h, maxPartition')]
      /\ generated' = {} /\ maxPartition' = IF h > 1 THEN h ELSE 1
      /\ answer' = answer /\ expected' = expected
      /\ evals' = 0 /\ starts' = starts + 1 /\ starts < MaxStarts
  BY DEF Novelty!Start, NoState
<1>5. maxPartition' \in Partition \cup {1}
  BY <1>1, <1>4 DEF Partition, Novelty!Partition
<1>6. Novelty!PartitionOf(h, maxPartition') \in Partition /\ Novelty!PartitionOf(h, maxPartition') <= maxPartition'
  BY <1>5, PartitionsExist
<1>7. StatesOK' /\ Novelty!PartitionsStayLow'
  BY <1>3, <1>4, <1>6 DEF StatesOK, Novelty!PartitionsStayLow
<1>8. starts \in 0 .. MaxStarts /\ answer \in 1 .. 3 /\ expected = answer
  BY DEF NoveltyInv
<1>9. starts' \in 0 .. MaxStarts /\ evals' \in 0 .. MaxEvals
  BY <1>1, <1>4, <1>8
<1> QED
  BY <1>2, <1>3, <1>4, <1>5, <1>7, <1>8, <1>9 DEF NoveltyInv

(* The root is evaluated.                                                    *)
LEMMA NoveltyRoot ==
  ASSUME NoveltyInv, NEW s \in Valuations, Novelty!Root(s)
  PROVE  NoveltyInv'
<1> DEFINE met == Novelty!Fresh(s)
           p == parent.partition
<1>1. /\ TablesOK /\ KeysOK /\ StatesOK
      /\ maxPartition \in Partition \cup {1}
      /\ evals \in 0 .. MaxEvals /\ starts \in 0 .. MaxStarts
      /\ Novelty!CachesAreTheParents /\ Novelty!PartitionsStayLow
  BY DEF NoveltyInv
<1>2. p \in Partition /\ p <= maxPartition
  BY <1>1 DEF StatesOK
<1>3. /\ answer' = Novelty!Novel(met, p) /\ Novelty!Record(met, p)
      /\ Novelty!Observe(s, NoState, p, log)
      /\ generated' = {[state |-> s, partition |-> p]}
      /\ UNCHANGED <<maxPartition, cache, snapshot, parent, evals, starts>>
  BY DEF Novelty!Root, NoState
<1>4. Met(met, s, NoState)
  BY FreshMeets
<1>5. TablesOK' /\ KeysOK' /\ answer' \in 1 .. 3 /\ expected' = answer'
  <2> HIDE DEF met, p
  <2> QED
    BY <1>1, <1>2, <1>3, <1>4, EvaluatedRightly
<1>6. Novelty!CachesAreTheParents'
  BY <1>1, <1>3 DEF Novelty!CachesAreTheParents
<1>7. StatesOK' /\ Novelty!PartitionsStayLow'
  BY <1>1, <1>2, <1>3 DEF StatesOK, Novelty!PartitionsStayLow
<1> QED
  BY <1>1, <1>3, <1>5, <1>6, <1>7 DEF NoveltyInv

(* A state is taken up for expansion: the caches are those of no state.      *)
LEMMA NoveltyBegin ==
  ASSUME NoveltyInv, NEW item \in generated, Novelty!BeginExpansion(item)
  PROVE  NoveltyInv'
<1>1. /\ TablesOK /\ KeysOK /\ StatesOK
      /\ maxPartition \in Partition \cup {1}
      /\ answer \in 1 .. 3 /\ expected = answer
      /\ evals \in 0 .. MaxEvals /\ starts \in 0 .. MaxStarts
      /\ Novelty!PartitionsStayLow
  BY DEF NoveltyInv
<1>2. /\ parent' = item
      /\ UNCHANGED <<maxPartition, psiSeen, best, pairSeen, bestWith, generated, answer, expected,
                     log, evals, starts>>
  BY DEF Novelty!BeginExpansion, Novelty!tables
<1>3. Novelty!CachesAreTheParents' /\ DOMAIN cache' \subseteq LeafId
  <2>1. CachesEmpty'
    BY DEF CachesEmpty, Novelty!BeginExpansion
  <2>2. CachesOK'
    BY <2>1, EmptyCaches, PTL
  <2> QED
    BY <2>2 DEF CachesOK
<1>4. TablesOK' /\ KeysOK'
  BY <1>1, <1>2 DEF TablesOK, KeysOK, Novelty!TablesAreTheLog
<1>5. item \in [state : Valuations, partition : Partition] /\ item.partition <= maxPartition
  BY <1>1 DEF StatesOK, Novelty!PartitionsStayLow
<1>6. StatesOK' /\ Novelty!PartitionsStayLow'
  BY <1>1, <1>2, <1>3, <1>5 DEF StatesOK, Novelty!PartitionsStayLow
<1> QED
  BY <1>1, <1>2, <1>3, <1>4, <1>6 DEF NoveltyInv

(* A child in another partition is evaluated from nothing.                   *)
LEMMA ChildElsewhere ==
  ASSUME NoveltyInv, NEW s \in Valuations, NEW p \in Partition, parent.state \in Valuations,
         answer' = Novelty!Novel(Novelty!Fresh(s), p), Novelty!Record(Novelty!Fresh(s), p),
         Novelty!Observe(s, NoState, p, log), UNCHANGED <<cache, snapshot, parent>>
  PROVE  /\ TablesOK' /\ KeysOK' /\ answer' \in 1 .. 3 /\ expected' = answer'
         /\ Novelty!CachesAreTheParents' /\ DOMAIN cache' \subseteq LeafId
<1>1. TablesOK /\ KeysOK /\ Novelty!CachesAreTheParents /\ DOMAIN cache \subseteq LeafId
  BY DEF NoveltyInv, StatesOK
<1>2. Met(Novelty!Fresh(s), s, NoState)
  BY FreshMeets
<1>3. TablesOK' /\ KeysOK' /\ answer' \in 1 .. 3 /\ expected' = answer'
  BY <1>1, <1>2, EvaluatedRightly
<1>4. Novelty!CachesAreTheParents'
  BY <1>1 DEF Novelty!CachesAreTheParents
<1> QED
  BY <1>1, <1>3, <1>4

(* A child of which nothing that may have changed makes progress: nothing is *)
(* looked up and nothing recorded, and indeed there is nothing to be met.    *)
LEMMA ChildWithoutProgress ==
  ASSUME NoveltyInv, NEW s \in Valuations, NEW p \in Partition, parent.state \in Valuations,
         NEW touched, Novelty!Changed(s) \subseteq touched,
         NEW from, from = Novelty!CacheOf(cache, Novelty!Dirty(touched), parent.state),
         Novelty!NoProgress(Novelty!Sparse(s, Novelty!Dirty(touched), from)),
         answer' = 3, cache' = from, UNCHANGED <<psiSeen, best, pairSeen, bestWith, snapshot, parent>>,
         Novelty!Observe(s, parent.state, p, log)
  PROVE  /\ TablesOK' /\ KeysOK' /\ answer' \in 1 .. 3 /\ expected' = answer'
         /\ Novelty!CachesAreTheParents' /\ DOMAIN cache' \subseteq LeafId
<1> DEFINE dirty == Novelty!Dirty(touched)
           met == Novelty!Sparse(s, dirty, from)
           t == parent.state
<1>1. TablesOK /\ KeysOK /\ Novelty!CachesAreTheParents /\ DOMAIN cache \subseteq LeafId
  BY DEF NoveltyInv, StatesOK
<1>2. DOMAIN from = DOMAIN cache \cup dirty /\ \A l \in DOMAIN from : from[l] = Novelty!Feature(l, t)
  BY <1>1, CachedFeatures
<1>3. \A l \in dirty : from[l] = Novelty!Feature(l, t)
  BY <1>2
<1>4. /\ dirty \subseteq LeafId
      /\ met.newly = {l \in LeafId : Novelty!IsNew(l, s, t)}
      /\ met.improved = {l \in LeafId : Novelty!IsCloser(l, s, t)}
  BY <1>3, SparseMeets
<1>5. \A l \in LeafId : ~Novelty!IsNew(l, s, t) /\ ~Novelty!IsCloser(l, s, t)
  BY <1>4 DEF Novelty!NoProgress
<1>6. Novelty!Features(s, t) = {} /\ Novelty!Pairs(s, t) = {}
  <2> HIDE DEF t
  <2> QED
    BY <1>5 DEF Novelty!Features, Novelty!Pairs, LeafId
<1>7. expected' = 3 /\ log' = log
  BY <1>6 DEF Novelty!Observe, Novelty!Expected, Novelty!Logged
<1>8. TablesOK' /\ KeysOK'
  BY <1>1, <1>7 DEF TablesOK, KeysOK, Novelty!TablesAreTheLog
<1>9. DOMAIN cache' = DOMAIN cache \cup dirty /\ \A l \in DOMAIN cache' : cache'[l] = Novelty!Feature(l, t)
  BY <1>2
<1>10. Novelty!CachesAreTheParents'
  <2>1. snapshot # Novelty!NoSnapshot => DOMAIN cache' = LeafId
    BY <1>1, <1>4, <1>9 DEF Novelty!CachesAreTheParents, LeafId
  <2> QED
    BY <1>1, <1>9, <2>1 DEF Novelty!CachesAreTheParents, LeafId
<1> QED
  BY <1>1, <1>4, <1>7, <1>8, <1>9, <1>10

(* A child that makes progress: the other leaves are looked up.              *)
LEMMA ChildWithProgress ==
  ASSUME NoveltyInv, NEW s \in Valuations, NEW p \in Partition, parent.state \in Valuations,
         NEW touched, Novelty!Changed(s) \subseteq touched,
         NEW dirty, dirty = Novelty!Dirty(touched),
         NEW from, from = Novelty!CacheOf(cache, dirty, parent.state),
         NEW all, all = IF snapshot = Novelty!NoSnapshot
                        THEN Novelty!CacheOf(from, Novelty!LeafId, parent.state) ELSE from,
         NEW shot, shot = IF snapshot = Novelty!NoSnapshot
                          THEN Novelty!SnapshotOf(from, parent.state) ELSE snapshot,
         NEW full, full = Novelty!Merged(Novelty!Sparse(s, dirty, from), dirty, shot, all),
         answer' = Novelty!Novel(full, p), Novelty!Record(full, p),
         cache' = all, snapshot' = shot, parent' = parent,
         Novelty!Observe(s, parent.state, p, log)
  PROVE  /\ TablesOK' /\ KeysOK' /\ answer' \in 1 .. 3 /\ expected' = answer'
         /\ Novelty!CachesAreTheParents' /\ DOMAIN cache' \subseteq LeafId
<1> DEFINE t == parent.state
<1>1. TablesOK /\ KeysOK /\ Novelty!CachesAreTheParents /\ DOMAIN cache \subseteq LeafId
  BY DEF NoveltyInv, StatesOK
<1>2. DOMAIN from = DOMAIN cache \cup dirty /\ \A l \in DOMAIN from : from[l] = Novelty!Feature(l, t)
  BY <1>1, CachedFeatures
<1>3. dirty \subseteq LeafId /\ \A l \in dirty : from[l] = Novelty!Feature(l, t)
  BY <1>2 DEF Novelty!Dirty, LeafId
<1>4. \A l \in LeafId : Novelty!Looked(from, l, t) = Novelty!Feature(l, t)
  BY <1>2 DEF Novelty!Looked
<1>5. DOMAIN all = LeafId /\ \A l \in LeafId : all[l] = Novelty!Feature(l, t)
  <2>1. CASE snapshot = Novelty!NoSnapshot
    <3>1. all = [l \in DOMAIN from \cup LeafId |-> Novelty!Looked(from, l, t)]
      BY <2>1 DEF Novelty!CacheOf, LeafId
    <3>2. DOMAIN from \cup LeafId = LeafId
      BY <1>1, <1>2, <1>3
    <3> QED
      BY <1>4, <3>1, <3>2
  <2>2. CASE snapshot # Novelty!NoSnapshot
    <3>1. all = from /\ DOMAIN cache = LeafId
      BY <2>2, <1>1 DEF Novelty!CachesAreTheParents, LeafId
    <3> QED
      BY <1>2, <1>3, <3>1
  <2> QED
    BY <2>1, <2>2
<1>6. /\ shot.sat = {l \in LeafId : Novelty!Sat(l, t)}
      /\ shot.open = {l \in LeafId : Novelty!Numeric(l) /\ ~Novelty!Sat(l, t)}
  <2>1. CASE snapshot = Novelty!NoSnapshot
    BY <2>1, <1>4 DEF Novelty!SnapshotOf, Novelty!Sat, LeafId
  <2>2. CASE snapshot # Novelty!NoSnapshot
    BY <2>2, <1>1 DEF Novelty!CachesAreTheParents, LeafId
  <2> QED
    BY <2>1, <2>2
<1>7. Met(full, s, t)
  BY <1>3, <1>5, <1>6, MergedMeets
<1>8. TablesOK' /\ KeysOK' /\ answer' \in 1 .. 3 /\ expected' = answer'
  <2>1. t \in Valuations \cup {NoState}
    OBVIOUS
  <2> HIDE DEF t
  <2>2. Novelty!Observe(s, t, p, log)
    BY DEF t
  <2> QED
    BY <1>1, <1>7, <2>1, <2>2, EvaluatedRightly
<1>9. Novelty!CachesAreTheParents'
  BY <1>5, <1>6 DEF Novelty!CachesAreTheParents, LeafId
<1> QED
  BY <1>5, <1>8, <1>9

(* A child is evaluated.                                                     *)
LEMMA NoveltyChild ==
  ASSUME NoveltyInv, NEW s \in Valuations, NEW h \in 0 .. MaxH, NEW touched, Novelty!Child(s, h, touched)
  PROVE  NoveltyInv'
<1> DEFINE p == Novelty!PartitionOf(h, maxPartition)
<1>1. /\ StatesOK /\ maxPartition \in Partition \cup {1}
      /\ evals \in 0 .. MaxEvals /\ starts \in 0 .. MaxStarts /\ Novelty!PartitionsStayLow
  BY DEF NoveltyInv
<1>2. p \in Partition /\ p <= maxPartition
  BY <1>1, PartitionsExist
<1>3. /\ parent.state # NoState /\ evals < MaxEvals /\ evals' = evals + 1
      /\ Novelty!Changed(s) \subseteq touched
      /\ generated' = generated \cup {[state |-> s, partition |-> p]}
      /\ UNCHANGED <<maxPartition, parent, starts>>
      /\ Novelty!Observe(s, IF p = parent.partition THEN parent.state ELSE NoState, p, log)
  BY DEF Novelty!Child, NoState
<1>4. parent.state \in Valuations
  BY <1>1, <1>3 DEF StatesOK
<1>5. /\ TablesOK' /\ KeysOK' /\ answer' \in 1 .. 3 /\ expected' = answer'
      /\ Novelty!CachesAreTheParents' /\ DOMAIN cache' \subseteq LeafId
  <2>1. CASE p # parent.partition
    <3>1. /\ answer' = Novelty!Novel(Novelty!Fresh(s), p) /\ Novelty!Record(Novelty!Fresh(s), p)
          /\ UNCHANGED <<cache, snapshot>>
      BY <2>1 DEF Novelty!Child
    <3>2. Novelty!Observe(s, NoState, p, log)
      BY <1>3, <2>1
    <3> HIDE DEF p
    <3> QED
      BY <1>2, <1>3, <1>4, <3>1, <3>2, ChildElsewhere
  <2>2. CASE p = parent.partition
    <3> DEFINE dirty == Novelty!Dirty(touched)
               from == Novelty!CacheOf(cache, dirty, parent.state)
               met == Novelty!Sparse(s, dirty, from)
               all == IF snapshot = Novelty!NoSnapshot
                      THEN Novelty!CacheOf(from, Novelty!LeafId, parent.state) ELSE from
               shot == IF snapshot = Novelty!NoSnapshot
                       THEN Novelty!SnapshotOf(from, parent.state) ELSE snapshot
               full == Novelty!Merged(met, dirty, shot, all)
    <3>1. IF Novelty!NoProgress(met)
          THEN answer' = 3 /\ cache' = from /\ UNCHANGED <<psiSeen, best, pairSeen, bestWith, snapshot>>
          ELSE /\ cache' = all /\ snapshot' = shot
               /\ answer' = Novelty!Novel(full, p) /\ Novelty!Record(full, p)
      BY <2>2 DEF Novelty!Child, Novelty!tables
    <3>2. Novelty!Observe(s, parent.state, p, log)
      BY <1>3, <2>2
    <3> HIDE DEF p
    <3>3. CASE Novelty!NoProgress(met)
      BY <1>2, <1>3, <1>4, <3>1, <3>2, <3>3, ChildWithoutProgress
    <3>4. CASE ~Novelty!NoProgress(met)
      <4>1. /\ cache' = all /\ snapshot' = shot
            /\ answer' = Novelty!Novel(full, p) /\ Novelty!Record(full, p)
        BY <3>1, <3>4
      <4> QED
        BY <1>2, <1>3, <1>4, <3>2, <4>1, ChildWithProgress
    <3> QED
      BY <3>3, <3>4
  <2> QED
    BY <2>1, <2>2
<1> HIDE DEF p
<1>6. [state |-> s, partition |-> p] \in [state : Valuations, partition : Partition]
  BY <1>2
<1>7. StatesOK'
  <2>1. generated' \subseteq [state : Valuations, partition : Partition]
    BY <1>1, <1>3, <1>6 DEF StatesOK
  <2>2. parent' \in [state : Valuations \cup {NoState}, partition : Partition]
    BY <1>1, <1>3 DEF StatesOK
  <2>3. parent'.partition <= maxPartition'
    BY <1>1, <1>3 DEF StatesOK
  <2>4. DOMAIN cache' \subseteq LeafId
    BY <1>5
  <2> QED
    BY <2>1, <2>2, <2>3, <2>4 DEF StatesOK
<1>8. Novelty!PartitionsStayLow'
  <2> SUFFICES ASSUME NEW item \in generated' PROVE item.partition <= maxPartition'
    BY DEF Novelty!PartitionsStayLow
  <2> QED
    BY <1>1, <1>2, <1>3 DEF Novelty!PartitionsStayLow
<1>9. evals' \in 0 .. MaxEvals
  <2>1. MaxEvals \in Nat
    BY HeuristicsAssumption DEF Novelty!NoveltyAssumption
  <2> QED
    BY <1>1, <1>3, <2>1
<1> QED
  BY <1>1, <1>3, <1>5, <1>7, <1>8, <1>9 DEF NoveltyInv

-----------------------------------------------------------------------------
(* Every step of the measure keeps the invariant.                            *)
LEMMA NoveltyNext == NoveltyInv /\ Novelty!Next => NoveltyInv'
BY NoveltyStart, NoveltyRoot, NoveltyBegin, NoveltyChild DEF Novelty!Next

(* The other parts have nothing to do with it.                               *)
LEMMA NextIInv == IInv /\ [Next]_vars => IInv'
<1> SUFFICES ASSUME IInv, [Next]_vars PROVE IInv'
  OBVIOUS
<1>1. CASE RelaxationStep \/ ConditionsStep \/ ExplicitStep
  <2>1. part # "novelty" /\ part' = part
    BY <1>1 DEF RelaxationStep, ConditionsStep, ExplicitStep
  <2> QED
    BY <2>1 DEF IInv
<1>2. CASE NoveltyStep
  <2>1. part = "novelty" /\ Novelty!Next
    BY <1>2 DEF NoveltyStep
  <2> QED
    BY <2>1, NoveltyNext DEF IInv
<1>3. CASE UNCHANGED vars
  <2>1. /\ UNCHANGED <<part, answer>> /\ UNCHANGED <<maxPartition, psiSeen, best, pairSeen, bestWith>>
        /\ UNCHANGED <<cache, snapshot, parent, generated, expected, log, evals, starts>>
    BY <1>3 DEF vars, ofNovelty
  <2> QED
    BY <2>1 DEF IInv, NoveltyInv, TablesOK, KeysOK, StatesOK,
         Novelty!CachesAreTheParents, Novelty!TablesAreTheLog, Novelty!PartitionsStayLow
<1> QED
  BY <1>1, <1>2, <1>3 DEF Next

(* The novelty of a state is that of its features against all states         *)
(* evaluated before in its partition and in this search, whatever is left    *)
(* out, looked up or remembered: for all subgoals, states and orders of      *)
(* evaluation.                                                               *)
THEOREM NoveltyFromCaches == Spec => []NoveltyIsExact
<1>1. Init => IInv
  BY NoveltyInit DEF Init, IInv
<1>2. IInv => NoveltyIsExact
  <2>1. NoveltyInv => Novelty!TypeOK
    BY DEF NoveltyInv, TablesOK, KeysOK, StatesOK, Novelty!TypeOK, Partition, LeafId
  <2>2. NoveltyInv => Novelty!NoveltyIsExact
    BY DEF NoveltyInv, Novelty!NoveltyIsExact
  <2> QED
    BY <2>1, <2>2 DEF IInv, NoveltyInv, NoveltyIsExact, TablesOK
<1> QED
  BY <1>1, <1>2, NextIInv, PTL DEF Spec
-----------------------------------------------------------------------------
(* The explicit hmax.                                                        *)

(* What the instance takes from libraries is theirs.                         *)
LEMMA ExplicitSetsAre ==
  /\ \A S : Explicit!Cardinality(S) = Cardinality(S) /\ Explicit!IsFiniteSet(S) = IsFiniteSet(S)
  /\ \A f : Explicit!Range(f) = Range(f) /\ Explicit!IsInjective(f) = IsInjective(f)
BY DEF Explicit!Cardinality, Cardinality, Explicit!IsFiniteSet, IsFiniteSet,
       Explicit!Range, Range, Explicit!IsInjective, IsInjective

(* A non-empty set of natural numbers has a least one.                       *)
LEMMA LeastNumber ==
  ASSUME NEW S \in SUBSET Nat, S # {}
  PROVE  \E m \in S : \A k \in S : m <= k
<1> DEFINE R == OpToRel(<, Nat)
<1>1. PICK m \in S : \A k \in S : ~(<<k, m>> \in R)
  <2> HIDE DEF R
  <2>1. IsWellFoundedOn(R, Nat)
    BY NatLessThanWellFounded DEF R
  <2> QED
    BY <2>1, WFMin
<1>2. \A k \in S : ~(k < m)
  BY <1>1 DEF OpToRel
<1> QED
  BY <1>2

(* A function has finitely many values on a finite set.                      *)
LEMMA ImageFinite ==
  ASSUME NEW S, IsFiniteSet(S), NEW f, DOMAIN f = S
  PROVE  IsFiniteSet({f[x] : x \in S})
<1> DEFINE T == {f[x] : x \in S}
<1>1. [x \in S |-> f[x]] \in Surjection(S, T)
  BY DEF Surjection
<1> QED
  BY <1>1, FS_Surjection

(* There are finitely many functions from a finite set to a finite set.      *)
LEMMA FunctionsFinite ==
  ASSUME NEW D, NEW R, IsFiniteSet(D), IsFiniteSet(R)
  PROVE  IsFiniteSet([D -> R])
<1> DEFINE graph == [g \in [D -> R] |-> {<<x, g[x]>> : x \in D}]
<1>1. IsFiniteSet(SUBSET (D \X R))
  BY FS_Product, FS_SUBSET
<1>2. \A g \in [D -> R] : graph[g] \in SUBSET (D \X R)
  OBVIOUS
<1>3. ASSUME NEW g \in [D -> R], NEW h \in [D -> R], graph[g] = graph[h]
      PROVE  g = h
  <2> SUFFICES ASSUME NEW x \in D PROVE g[x] = h[x]
    OBVIOUS
  <2>1. <<x, g[x]>> \in {<<y, h[y]>> : y \in D}
    BY <1>3
  <2> QED
    BY <2>1
<1>4. graph \in Injection([D -> R], SUBSET (D \X R))
  <2>1. graph \in [[D -> R] -> SUBSET (D \X R)]
    BY <1>2
  <2> HIDE DEF graph
  <2> QED
    BY <1>3, <2>1 DEF Injection, IsInjective
<1> QED
  BY <1>1, <1>4, FS_Injection

(* A set as a sequence: its elements, each once.                             *)
LEMMA SetAsSequence ==
  ASSUME NEW S, IsFiniteSet(S)
  PROVE  LET s == Explicit!SetToSeq(S)
         IN  /\ s \in [1 .. Cardinality(S) -> S] /\ Cardinality(S) \in Nat
             /\ IsInjective(s)
             /\ Range(s) = S
<1> DEFINE n == Cardinality(S)
           s == Explicit!SetToSeq(S)
<1>1. n \in Nat /\ \E f \in [1 .. n -> S] : IsInjective(f)
  BY FS_CardinalityType DEF ExistsBijection, Bijection, Injection, IsInjective
<1>2. s \in [1 .. n -> S] /\ IsInjective(s)
  BY <1>1, ExplicitSetsAre DEF Explicit!SetToSeq
<1> HIDE DEF s
<1>3. s \in Injection(1 .. n, S)
  BY <1>2 DEF Injection
<1>4. IsFiniteSet(1 .. n) /\ Cardinality(1 .. n) = n
  BY <1>1, FS_Interval
<1>5. s \in Surjection(1 .. n, S)
  BY <1>3, <1>4, FS_Injection
<1>6. Range(s) = S
  BY <1>2, <1>5 DEF Surjection, Range
<1> QED
  BY <1>1, <1>2, <1>6 DEF s

-----------------------------------------------------------------------------
(* Combinations.                                                             *)

(* The combinations of positions up to the sizes n.                          *)
Upto(n) == {c \in [DOMAIN n -> UNION {1 .. n[i] : i \in DOMAIN n}] : \A i \in DOMAIN n : c[i] \in 1 .. n[i]}

(* A combination is a function into the positions.                           *)
LEMMA UptoIs ==
  ASSUME NEW n, NEW c
  PROVE  c \in Upto(n) <=> /\ c = [i \in DOMAIN n |-> c[i]]
                           /\ \A i \in DOMAIN n : c[i] \in 1 .. n[i]
<1>1. ASSUME c = [i \in DOMAIN n |-> c[i]], \A i \in DOMAIN n : c[i] \in 1 .. n[i]
      PROVE  c \in Upto(n)
  <2>1. \A i \in DOMAIN n : c[i] \in UNION {1 .. n[j] : j \in DOMAIN n}
    BY <1>1
  <2> QED
    BY <1>1, <2>1 DEF Upto
<1> QED
  BY <1>1 DEF Upto

(* The blocks are the combinations with a new value, and do not overlap.     *)
LEMMA BlockIs ==
  ASSUME NEW m \in Nat, NEW old \in [1 .. m -> Nat], NEW new \in [1 .. m -> Nat],
         \A k \in 1 .. m : old[k] <= new[k], NEW j \in 1 .. m, NEW c
  PROVE  c \in Explicit!Block(j, old, new) <=>
           /\ c \in Upto(new)
           /\ c[j] > old[j]
           /\ \A i \in 1 .. (j - 1) : c[i] <= old[i]
<1>0. DOMAIN new = 1 .. m
  OBVIOUS
<1> DEFINE sides == [i \in DOMAIN new |-> Explicit!Positions(i, j, old[i], new[i])]
<1>1. c \in Explicit!Block(j, old, new) <=>
        /\ c \in [DOMAIN new -> UNION {1 .. new[i] : i \in DOMAIN new}]
        /\ \A i \in DOMAIN new : c[i] \in Explicit!Positions(i, j, old[i], new[i])
  BY DEF Explicit!Block
<1>2. \A i \in 1 .. m : Explicit!Positions(i, j, old[i], new[i]) \subseteq 1 .. new[i]
  BY DEF Explicit!Positions
<1>3. c \in Explicit!Block(j, old, new) <=>
        /\ c \in Upto(new)
        /\ \A i \in 1 .. m : c[i] \in Explicit!Positions(i, j, old[i], new[i])
  BY <1>0, <1>1, <1>2 DEF Upto
<1>4. ASSUME c \in Upto(new)
      PROVE  (\A i \in 1 .. m : c[i] \in Explicit!Positions(i, j, old[i], new[i]))
               <=> c[j] > old[j] /\ \A i \in 1 .. (j - 1) : c[i] <= old[i]
  <2>1. \A i \in 1 .. m : c[i] \in 1 .. new[i]
    BY <1>0, <1>4 DEF Upto
  <2>2. \A i \in 1 .. m : c[i] \in Explicit!Positions(i, j, old[i], new[i])
                            <=> (i < j => c[i] <= old[i]) /\ (i = j => c[i] > old[i])
    BY <2>1 DEF Explicit!Positions
  <2> QED
    BY <2>1, <2>2
<1> QED
  BY <1>3, <1>4

(* The blocks are what is new in the combinations, cut up by the first       *)
(* position with a new value.                                                *)
LEMMA BlocksCover ==
  ASSUME NEW m \in Nat, NEW old \in [1 .. m -> Nat], NEW new \in [1 .. m -> Nat],
         \A k \in 1 .. m : old[k] <= new[k]
  PROVE  /\ UNION {Explicit!Block(j, old, new) : j \in 1 .. m} = Upto(new) \ Upto(old)
         /\ \A i, j \in 1 .. m : i # j => Explicit!Block(i, old, new) \cap Explicit!Block(j, old, new) = {}
<1>1. ASSUME NEW j \in 1 .. m, NEW c \in Explicit!Block(j, old, new)
      PROVE  c \in Upto(new) \ Upto(old)
  <2>1. c \in Upto(new) /\ c[j] > old[j]
    BY <1>1, BlockIs
  <2>2. c[j] \in Int
    BY <2>1 DEF Upto
  <2>3. c \notin Upto(old)
    BY <2>1, <2>2 DEF Upto
  <2> QED
    BY <2>1, <2>3
<1>2. ASSUME NEW c \in Upto(new) \ Upto(old)
      PROVE  \E j \in 1 .. m : c \in Explicit!Block(j, old, new)
  <2> DEFINE N == {j \in 1 .. m : c[j] > old[j]}
  <2>1. \A i \in 1 .. m : c[i] \in 1 .. new[i]
    BY <1>2 DEF Upto
  <2>2. N # {}
    <3> SUFFICES ASSUME N = {} PROVE FALSE
      OBVIOUS
    <3>1. ASSUME NEW i \in 1 .. m PROVE c[i] \in 1 .. old[i]
      <4>1. i \notin N
        OBVIOUS
      <4> QED
        BY <2>1, <4>1
    <3>2. c = [i \in DOMAIN old |-> c[i]]
      BY <1>2 DEF Upto
    <3> QED
      BY <1>2, <3>1, <3>2, UptoIs
  <2>3. PICK j \in N : \A k \in N : j <= k
    <3>1. N \in SUBSET Nat
      OBVIOUS
    <3> HIDE DEF N
    <3> QED
      BY <2>2, <3>1, LeastNumber
  <2>4. \A i \in 1 .. (j - 1) : c[i] <= old[i]
    <3> SUFFICES ASSUME NEW i \in 1 .. (j - 1), ~(c[i] <= old[i]) PROVE FALSE
      OBVIOUS
    <3>1. i \in N
      BY <2>1
    <3> QED
      BY <2>3, <3>1
  <2> QED
    BY <1>2, <2>3, <2>4, BlockIs
<1>3. ASSUME NEW i \in 1 .. m, NEW j \in 1 .. m, i < j,
             NEW c \in Explicit!Block(i, old, new), c \in Explicit!Block(j, old, new)
      PROVE  FALSE
  <2>0. i \in 1 .. (j - 1)
    BY <1>3
  <2>1a. c \in Upto(new) /\ c[i] > old[i]
    BY BlockIs
  <2>1b. \A k \in 1 .. (j - 1) : c[k] <= old[k]
    BY <1>3, BlockIs
  <2>1. c \in Upto(new) /\ c[i] > old[i] /\ c[i] <= old[i]
    BY <2>0, <2>1a, <2>1b
  <2>2. c[i] \in Int
    BY <2>1 DEF Upto
  <2> QED
    BY <2>1, <2>2
<1>4. \A i, j \in 1 .. m : i # j => Explicit!Block(i, old, new) \cap Explicit!Block(j, old, new) = {}
  BY <1>3
<1> QED
  BY <1>1, <1>2, <1>4

-----------------------------------------------------------------------------
(* The problem.                                                              *)

(* An expression that speaks of finitely many of the fluents in a set.       *)
Speaks(e, fluents) == IsFiniteSet(Explicit!FluentSet(e)) /\ Explicit!FluentSet(e) \subseteq fluents

(* The fluents of a node of its own.                                         *)
LEMMA FluentSetIs ==
  /\ \A f : Explicit!FluentSet(<<Explicit!Fluent(f)>>) = {f}
  /\ Explicit!FluentSet(<<Explicit!True>>) = {}
BY DEF Explicit!FluentSet, Explicit!Fluent, Explicit!True, Explicit!Truth, Explicit!FluentOf

(* The formulas of a problem speak of its fluents, and a sequence of nodes   *)
(* of finitely many.                                                         *)
LEMMA FormulaSpeaks ==
  ASSUME NEW t \in ExplicitTasks, NEW e \in Explicit!Formulas(t)
  PROVE  Speaks(e, DOMAIN t.start)
<1> DEFINE nodes == {n \in [kind : STRING, value : Int \X Int, operands : Seq(Int)] :
                       n.kind = "fluent" => Explicit!FluentOf(n) \in DOMAIN t.start}
           D == {j \in DOMAIN e : e[j].kind = "fluent"}
           reads == [j \in D |-> Explicit!FluentOf(e[j])]
<1>1. e \in Seq(nodes)
  BY DEF Explicit!Formulas
<1> HIDE DEF nodes
<1>2. DOMAIN e = 1 .. Len(e) /\ Len(e) \in Nat /\ \A j \in DOMAIN e : e[j] \in nodes
  BY <1>1
<1>3. IsFiniteSet(D)
  BY <1>2, FS_Interval, FS_Subset
<1>4. Explicit!FluentSet(e) = {reads[j] : j \in D}
  BY DEF Explicit!FluentSet
<1>5. IsFiniteSet(Explicit!FluentSet(e))
  <2>1. DOMAIN reads = D
    OBVIOUS
  <2> HIDE DEF reads, D
  <2> QED
    BY <1>3, <1>4, <2>1, ImageFinite
<1>6. Explicit!FluentSet(e) \subseteq DOMAIN t.start
  BY <1>2 DEF Explicit!FluentSet, nodes
<1> QED
  BY <1>5, <1>6 DEF Speaks

(* The events of a task.                                                     *)
LEMMA EventsAre ==
  ASSUME NEW t \in ExplicitTasks
  PROVE  /\ DOMAIN t.start = 1 .. Len(t.start) /\ Len(t.start) \in Nat
         /\ DOMAIN t.events = 1 .. Len(t.events) /\ Len(t.events) \in Nat
         /\ \A a \in DOMAIN t.events :
              /\ DOMAIN t.events[a] = 1 .. Len(t.events[a]) /\ Len(t.events[a]) \in Nat \ {0}
              /\ \A i \in DOMAIN t.events[a] : t.events[a][i] \in Explicit!EventsIn(t)
         /\ IsFiniteSet(Explicit!EventsOf(t))
<1> DEFINE E == Explicit!EventsIn(t)
           place == [a \in DOMAIN t.events |-> {a} \X DOMAIN t.events[a]]
<1>1. /\ DOMAIN t.start = 1 .. Len(t.start) /\ Len(t.start) \in Nat
      /\ t.events \in Seq(Seq(E) \ {<<>>})
  BY HeuristicsAssumption DEF Explicit!TasksAssumption
<1> HIDE DEF E
<1>2. /\ DOMAIN t.events = 1 .. Len(t.events) /\ Len(t.events) \in Nat
      /\ \A a \in DOMAIN t.events : t.events[a] \in Seq(E) \ {<<>>}
  BY <1>1
<1>3. ASSUME NEW a \in DOMAIN t.events
      PROVE  /\ DOMAIN t.events[a] = 1 .. Len(t.events[a]) /\ Len(t.events[a]) \in Nat \ {0}
             /\ \A i \in DOMAIN t.events[a] : t.events[a][i] \in E
  <2>1. t.events[a] \in Seq(E) /\ t.events[a] # <<>>
    BY <1>2
  <2> QED
    BY <2>1, EmptySeq
<1>4. IsFiniteSet({place[a] : a \in DOMAIN t.events})
  <2>1. IsFiniteSet(DOMAIN t.events)
    BY <1>2, FS_Interval
  <2>2. DOMAIN place = DOMAIN t.events
    OBVIOUS
  <2> HIDE DEF place
  <2> QED
    BY <2>1, <2>2, ImageFinite
<1>5. \A a \in DOMAIN t.events : IsFiniteSet(place[a])
  <2> TAKE a \in DOMAIN t.events
  <2>1. IsFiniteSet({a})
    BY FS_Singleton
  <2>2. IsFiniteSet(DOMAIN t.events[a])
    BY <1>3, FS_Interval
  <2> QED
    BY <2>1, <2>2, FS_Product
<1>6. Explicit!EventsOf(t) = UNION {place[a] : a \in DOMAIN t.events}
  BY DEF Explicit!EventsOf
<1>7. IsFiniteSet(Explicit!EventsOf(t))
  <2> HIDE DEF place
  <2> QED
    BY <1>4, <1>5, <1>6, FS_UNION
<1> QED
  BY <1>1, <1>2, <1>3, <1>7 DEF E

(* The flags are fluents of their own.                                       *)
LEMMA FlagsAre ==
  ASSUME NEW t \in ExplicitTasks, NEW a \in DOMAIN t.events, NEW i \in DOMAIN t.events[a]
  PROVE  /\ Explicit!Flag(t, a, i) \in Explicit!FluentsIn(t) \ DOMAIN t.start
         /\ Explicit!LastFlag(t, a) \in Explicit!FluentsIn(t) \ DOMAIN t.start
         /\ Explicit!Before(t, a, i) \in Explicit!FluentsIn(t) \ DOMAIN t.start
<1>1. ASSUME NEW k \in DOMAIN t.events[a]
      PROVE  Explicit!Flag(t, a, k) \in Explicit!FluentsIn(t) \ DOMAIN t.start
  <2>1. <<a, k>> \in Explicit!EventsOf(t)
    BY DEF Explicit!EventsOf
  <2>2. Explicit!Flag(t, a, k) \in Explicit!FluentsIn(t)
    <3>1. <<a, k>>[1] = a /\ <<a, k>>[2] = k
      OBVIOUS
    <3> QED
      BY <2>1, <3>1 DEF Explicit!FluentsIn
  <2> DEFINE n == Cardinality({e \in Explicit!EventsOf(t) : e[1] < a})
  <2>3. n \in Nat
    BY EventsAre, FS_Subset, FS_CardinalityType
  <2> HIDE DEF n
  <2>4. Explicit!Flag(t, a, k) = Len(t.start) + n + k
    BY ExplicitSetsAre DEF Explicit!Flag, n
  <2>5. k >= 1 /\ k \in Nat /\ Len(t.start) \in Nat /\ DOMAIN t.start = 1 .. Len(t.start)
    BY EventsAre
  <2> QED
    BY <2>2, <2>3, <2>4, <2>5
<1>2. DOMAIN t.events[a] = 1 .. Len(t.events[a]) /\ Len(t.events[a]) \in Nat \ {0}
  BY EventsAre
<1>3. Explicit!LastFlag(t, a) \in Explicit!FluentsIn(t) \ DOMAIN t.start
  BY <1>1, <1>2 DEF Explicit!LastFlag
<1>4. Explicit!Before(t, a, i) \in Explicit!FluentsIn(t) \ DOMAIN t.start
  BY <1>1, <1>2, <1>3 DEF Explicit!Before
<1> QED
  BY <1>1, <1>3, <1>4

(* The formulas of an event.                                                 *)
LEMMA EventIs ==
  ASSUME NEW t \in ExplicitTasks, NEW a \in DOMAIN t.events, NEW i \in DOMAIN t.events[a]
  PROVE  LET event == t.events[a][i]
         IN  /\ event.conditions \in Seq(Explicit!Formulas(t))
             /\ event.effects \in Seq([fluent : DOMAIN t.start, value : Explicit!Formulas(t)])
BY EventsAre DEF Explicit!EventsIn

(* What an operator reads and what it changes.                               *)
Condition(t, e) ==
  \/ Speaks(e, DOMAIN t.start)
  \/ \E f \in Explicit!FluentsIn(t) \ DOMAIN t.start : e = <<Explicit!Fluent(f)>>
Effect(t, e) == e.fluent \in Explicit!FluentsIn(t) /\ Speaks(e.value, DOMAIN t.start)

(* An operator looks at the flag before its own and changes flags and the    *)
(* fluents of the problem.                                                   *)
LEMMA OperatorIs ==
  ASSUME NEW t \in ExplicitTasks, NEW o \in Explicit!OperatorsOf(t)
  PROVE  /\ DOMAIN o.conditions = 1 .. Len(o.conditions) /\ Len(o.conditions) \in Nat
         /\ \A k \in DOMAIN o.conditions : Condition(t, o.conditions[k])
         /\ \E f \in Explicit!FluentsIn(t) : 1 \in DOMAIN o.conditions /\ o.conditions[1] = <<Explicit!Fluent(f)>>
         /\ DOMAIN o.effects = 1 .. Len(o.effects) /\ Len(o.effects) \in Nat
         /\ \A j \in DOMAIN o.effects : Effect(t, o.effects[j])
         /\ Explicit!Before(t, o.event[1], o.event[2]) \in Explicit!FluentsIn(t) \ DOMAIN t.start
<1>1. PICK x \in Explicit!EventsOf(t) : o = Explicit!Operator(t, x[1], x[2])
  BY DEF Explicit!OperatorsOf
<1>2a. PICK a \in DOMAIN t.events : \E k \in DOMAIN t.events[a] : x = <<a, k>>
  BY DEF Explicit!EventsOf
<1>2. PICK i \in DOMAIN t.events[a] : x = <<a, i>>
  BY <1>2a
<1> DEFINE event == t.events[a][i]
           before == Explicit!Before(t, a, i)
           flag == Explicit!Flag(t, a, i)
<1>3. /\ o.event = <<a, i>>
      /\ o.conditions = <<<<Explicit!Fluent(before)>>>> \o event.conditions
      /\ o.effects = <<[fluent |-> flag, value |-> <<Explicit!True>>]>> \o event.effects
  BY <1>1, <1>2 DEF Explicit!Operator
<1>4. /\ before \in Explicit!FluentsIn(t) \ DOMAIN t.start
      /\ flag \in Explicit!FluentsIn(t)
  BY FlagsAre
<1>5. /\ event.conditions \in Seq(Explicit!Formulas(t))
      /\ event.effects \in Seq([fluent : DOMAIN t.start, value : Explicit!Formulas(t)])
  BY EventIs
<1> HIDE DEF event, before, flag
<1>6. /\ DOMAIN o.conditions = 1 .. Len(o.conditions) /\ Len(o.conditions) \in Nat
      /\ \A k \in DOMAIN o.conditions : Condition(t, o.conditions[k])
      /\ 1 \in DOMAIN o.conditions /\ o.conditions[1] = <<Explicit!Fluent(before)>>
  <2> DEFINE C == {e \in Explicit!Formulas(t) \cup {<<Explicit!Fluent(before)>>} : Condition(t, e)}
  <2>1. \A e \in Explicit!Formulas(t) : e \in C
    BY FormulaSpeaks DEF Condition
  <2>2. <<Explicit!Fluent(before)>> \in C
    BY <1>4 DEF Condition
  <2> HIDE DEF C
  <2>3. event.conditions \in Seq(C)
    BY <1>5, <2>1, SeqMonotonic
  <2> DEFINE first == <<Explicit!Fluent(before)>>
  <2> HIDE DEF first
  <2>4. <<first>> \in Seq(C) /\ Len(<<first>>) = 1 /\ <<first>>[1] = first
    BY <2>2 DEF first
  <2>5. /\ o.conditions \in Seq(C)
        /\ Len(o.conditions) = 1 + Len(event.conditions)
        /\ o.conditions[1] = first
    BY <1>3, <2>3, <2>4, ConcatProperties DEF first
  <2>6. Len(event.conditions) \in Nat
    BY <2>3
  <2>7. \A k \in DOMAIN o.conditions : Condition(t, o.conditions[k])
    BY <2>5 DEF C
  <2> QED
    BY <2>5, <2>6, <2>7 DEF first
<1>7. /\ DOMAIN o.effects = 1 .. Len(o.effects) /\ Len(o.effects) \in Nat
      /\ \A j \in DOMAIN o.effects : Effect(t, o.effects[j])
  <2> DEFINE first == [fluent |-> flag, value |-> <<Explicit!True>>]
             given == [fluent : DOMAIN t.start, value : Explicit!Formulas(t)]
             C == {e \in given \cup {first} : Effect(t, e)}
  <2>1. \A e \in given : e \in C
    BY FormulaSpeaks DEF Effect, Explicit!FluentsIn
  <2>2. first \in C
    BY <1>4, FluentSetIs, FS_EmptySet DEF Effect, Speaks
  <2> HIDE DEF C, first, given
  <2>3. event.effects \in Seq(C)
    BY <1>5, <2>1, SeqMonotonic DEF given
  <2>4. <<first>> \in Seq(C)
    BY <2>2
  <2>5. o.effects \in Seq(C)
    BY <1>3, <2>3, <2>4, ConcatProperties DEF first
  <2> QED
    BY <2>5 DEF C
<1>8. Explicit!Before(t, o.event[1], o.event[2]) = before
  BY <1>3 DEF before
<1> QED
  BY <1>4, <1>6, <1>7, <1>8

(* The operators are all there.                                              *)
LEMMA OperatorsAre ==
  ASSUME NEW t \in ExplicitTasks
  PROVE  LET s == Explicit!SetToSeq(Explicit!OperatorsOf(t))
         IN  /\ DOMAIN s = 1 .. Len(s) /\ Len(s) \in Nat
             /\ \A i \in DOMAIN s : s[i] \in Explicit!OperatorsOf(t)
<1> DEFINE S == {x \in Explicit!EventsOf(t) : Explicit!Possible(t, x[1], x[2])}
           make == [e \in S |-> Explicit!Operator(t, e[1], e[2])]
<1>1. IsFiniteSet(S)
  BY EventsAre, FS_Subset
<1>2. Explicit!OperatorsOf(t) = {make[e] : e \in S}
  BY DEF Explicit!OperatorsOf
<1>3. IsFiniteSet(Explicit!OperatorsOf(t))
  <2>1. DOMAIN make = S
    OBVIOUS
  <2> HIDE DEF make, S
  <2> QED
    BY <1>1, <1>2, <2>1, ImageFinite
<1> DEFINE n == Cardinality(Explicit!OperatorsOf(t))
           s == Explicit!SetToSeq(Explicit!OperatorsOf(t))
<1>4. n \in Nat /\ s \in [1 .. n -> Explicit!OperatorsOf(t)]
  BY <1>3, SetAsSequence
<1> HIDE DEF n, s
<1>5. s \in Seq(Explicit!OperatorsOf(t))
  BY <1>4
<1> QED
  BY <1>5 DEF s

-----------------------------------------------------------------------------
(* Evaluation.                                                               *)

(* Only the fluents it speaks of matter to an expression.                    *)
LEMMA EvaluateLocal ==
  ASSUME NEW e, NEW s, NEW t, \A f \in Explicit!FluentSet(e) : s[f] = t[f]
  PROVE  Explicit!Evaluate(e, s) = Explicit!Evaluate(e, t)
<1>1. Explicit!InState(e, s) = Explicit!InState(e, t)
  BY DEF Explicit!InState, Explicit!FluentSet
<1> QED
  BY <1>1 DEF Explicit!Evaluate, Explicit!Values

(* A fluent is False where the state says so.                                *)
LEMMA EvaluateFluent ==
  ASSUME NEW f, NEW s, s[f] = Explicit!False
  PROVE  Explicit!Evaluate(<<Explicit!Fluent(f)>>, s) = Explicit!False
<1> DEFINE exp == <<Explicit!Fluent(f)>>
           nodes == Explicit!InState(exp, s)
           Then(g, n) == CHOOSE r \in {Append(res, Explicit!ValueOf(nodes[n], res)) : res \in {g[n - 1]}} : TRUE
           Is(g) == g = [n \in 0 .. Len(exp) |-> IF n = 0 THEN <<>> ELSE Then(g, n)]
<1>1. nodes[1] = Explicit!False /\ Len(exp) = 1
  BY DEF Explicit!InState, Explicit!Fluent, Explicit!FluentOf
<1>2. Explicit!Values(exp, s) = (CHOOSE g : Is(g))[Len(exp)]
  BY DEF Explicit!Values
<1>3. \A res : Explicit!ValueOf(Explicit!False, res) = Explicit!False
  BY DEF Explicit!ValueOf, Explicit!IsConstant, Explicit!False, Explicit!Truth
<1>4. \A g : g[0] = <<>> => Then(g, 1) = <<Explicit!False>>
  <2> TAKE g
  <2> HAVE g[0] = <<>>
  <2> HIDE DEF nodes
  <2>1. {Append(res, Explicit!ValueOf(nodes[1], res)) : res \in {g[1 - 1]}} = {<<Explicit!False>>}
    <3>1. g[1 - 1] = <<>>
      OBVIOUS
    <3>2. \A res \in {<<>>} : Append(res, Explicit!ValueOf(nodes[1], res)) = <<Explicit!False>>
      <4>1. Explicit!ValueOf(nodes[1], <<>>) = Explicit!False
        BY <1>1, <1>3
      <4> DEFINE v == Explicit!ValueOf(nodes[1], <<>>)
      <4> HIDE DEF v
      <4>2. Append(<<>>, v) = <<v>>
        OBVIOUS
      <4> QED
        BY <4>1, <4>2 DEF v
    <3> QED
      BY <3>1, <3>2
  <2> QED
    BY <2>1
<1> HIDE DEF nodes, Then
<1>5. \E g : Is(g)
  <2> DEFINE g == [n \in 0 .. Len(exp) |-> IF n = 0 THEN <<>> ELSE <<Explicit!False>>]
  <2>1. g[0] = <<>> /\ g[1] = <<Explicit!False>> /\ DOMAIN g = 0 .. Len(exp) /\ 0 .. Len(exp) = {0, 1}
    BY <1>1
  <2>2. Then(g, 1) = <<Explicit!False>>
    BY <1>4, <2>1
  <2>3. Is(g)
    BY <2>1, <2>2
  <2> QED
    BY <2>3
<1> DEFINE values == CHOOSE g : Is(g)
<1>6. Is(values)
  <2> HIDE DEF Is
  <2> QED
    BY <1>5
<1> HIDE DEF values
<1>7. values[0] = <<>> /\ values[1] = Then(values, 1)
  BY <1>1, <1>6
<1>8. values[1] = <<Explicit!False>>
  BY <1>4, <1>7
<1> QED
  BY <1>1, <1>2, <1>8 DEF Explicit!Evaluate, values

-----------------------------------------------------------------------------
(* The lists of values, and the combinations an expression is looked at on.  *)
ValuationsIn(e, layer) ==
  {s \in [Explicit!FluentSet(e) -> UNION {layer[f] : f \in Explicit!FluentSet(e)}] : \A f \in DOMAIN s : s[f] \in layer[f]}
ValueAt(e, c) == Explicit!Evaluate(e, Explicit!Valuation(e, c))

(* Every list has a value, and none twice.                                   *)
ListsOK ==
  \A f \in DOMAIN assignments :
    /\ assignments[f] \in Seq(Range(assignments[f])) /\ assignments[f] # <<>>
    /\ IsInjective(assignments[f])

(* A list as its positions, and as the layer.                                *)
LEMMA ListIs ==
  ASSUME ListsOK, NEW f \in DOMAIN assignments
  PROVE  /\ DOMAIN assignments[f] = 1 .. Len(assignments[f]) /\ Len(assignments[f]) \in Nat \ {0}
         /\ Explicit!Layer[f] = {assignments[f][k] : k \in 1 .. Len(assignments[f])}
         /\ Explicit!Layer[f] = Range(assignments[f])
<1> DEFINE a == assignments[f]
<1>1. a \in Seq(Range(a)) /\ a # <<>>
  BY DEF ListsOK
<1>2. DOMAIN a = 1 .. Len(a) /\ Len(a) \in Nat \ {0}
  <2> HIDE DEF a
  <2> QED
    BY <1>1, LenProperties, EmptySeq
<1>3. Explicit!Layer[f] = Range(a)
  BY ExplicitSetsAre DEF Explicit!Layer
<1> QED
  BY <1>2, <1>3 DEF Range

(* The fluents of an expression, each once, in some order.                   *)
LEMMA FluentsAre ==
  ASSUME NEW D, NEW e, Speaks(e, D)
  PROVE  LET fs == Explicit!FluentsOf(e)
             n == Cardinality(Explicit!FluentSet(e))
         IN  /\ n \in Nat /\ fs \in [1 .. n -> Explicit!FluentSet(e)]
             /\ DOMAIN fs = 1 .. n
             /\ IsInjective(fs) /\ Range(fs) = Explicit!FluentSet(e)
             /\ n = 0 <=> Explicit!FluentSet(e) = {}
<1>1. IsFiniteSet(Explicit!FluentSet(e))
  BY DEF Speaks
<1>2. Cardinality(Explicit!FluentSet(e)) = 0 <=> Explicit!FluentSet(e) = {}
  BY <1>1, FS_EmptySet
<1> QED
  BY <1>1, <1>2, SetAsSequence DEF Explicit!FluentsOf

(* The sizes are those of the lists of its fluents.                          *)
LEMMA SizesAre ==
  ASSUME ListsOK, NEW e, Speaks(e, DOMAIN assignments)
  PROVE  LET n == Cardinality(Explicit!FluentSet(e))
         IN  /\ Explicit!Sizes(e) \in [1 .. n -> Nat]
             /\ DOMAIN Explicit!Sizes(e) = 1 .. n
             /\ \A k \in 1 .. n : /\ Explicit!FluentsOf(e)[k] \in DOMAIN assignments
                                  /\ Explicit!Sizes(e)[k] = Len(assignments[Explicit!FluentsOf(e)[k]])
<1> DEFINE n == Cardinality(Explicit!FluentSet(e))
           fs == Explicit!FluentsOf(e)
<1>1. n \in Nat /\ fs \in [1 .. n -> Explicit!FluentSet(e)] /\ DOMAIN fs = 1 .. n
  BY FluentsAre
<1> HIDE DEF n
<1>2. Explicit!Sizes(e) = [k \in 1 .. n |-> Len(assignments[fs[k]])]
  BY <1>1 DEF Explicit!Sizes
<1> HIDE DEF fs
<1>3. \A k \in 1 .. n : fs[k] \in DOMAIN assignments
  BY <1>1 DEF Speaks
<1>4. \A k \in 1 .. n : Len(assignments[fs[k]]) \in Nat
  BY <1>3, ListIs
<1> QED
  BY <1>2, <1>3, <1>4 DEF n, fs

(* The combinations stand for the valuations of a layer.                     *)
LEMMA ValuationIs ==
  ASSUME ListsOK, NEW e, Speaks(e, DOMAIN assignments), NEW c \in Upto(Explicit!Sizes(e))
  PROVE  Explicit!Valuation(e, c) \in ValuationsIn(e, Explicit!Layer)
<1> DEFINE n == Cardinality(Explicit!FluentSet(e))
           fs == Explicit!FluentsOf(e)
           place(f) == CHOOSE k \in DOMAIN fs : fs[k] = f
           s == Explicit!Valuation(e, c)
<1>1. n \in Nat /\ DOMAIN fs = 1 .. n /\ Range(fs) = Explicit!FluentSet(e)
  BY FluentsAre
<1>2. s = [f \in Explicit!FluentSet(e) |-> assignments[f][c[place(f)]]]
  BY DEF Explicit!Valuation
<1> HIDE DEF n, s
<1>3. ASSUME NEW f \in Explicit!FluentSet(e)
      PROVE  s[f] \in Explicit!Layer[f]
  <2>1. place(f) \in 1 .. n /\ fs[place(f)] = f
    BY <1>1 DEF Range
  <2> HIDE DEF place, fs
  <2>2. c[place(f)] \in 1 .. Explicit!Sizes(e)[place(f)] /\ Explicit!Sizes(e)[place(f)] = Len(assignments[f])
    BY <2>1, SizesAre DEF Upto, n, fs
  <2>3. f \in DOMAIN assignments
    BY DEF Speaks
  <2> QED
    BY <1>2, <2>2, <2>3, ListIs
<1>4. s \in [Explicit!FluentSet(e) -> UNION {Explicit!Layer[f] : f \in Explicit!FluentSet(e)}]
  <2> HIDE DEF place
  <2>1. \A f \in Explicit!FluentSet(e) : s[f] \in UNION {Explicit!Layer[g] : g \in Explicit!FluentSet(e)}
    BY <1>3
  <2> QED
    BY <1>2, <2>1
<1>5. s \in ValuationsIn(e, Explicit!Layer)
  BY <1>3, <1>4 DEF ValuationsIn
<1> QED
  BY <1>5 DEF s

(* Every valuation of a layer has a combination that stands for it.          *)
LEMMA ValuationHasPositions ==
  ASSUME ListsOK, NEW e, Speaks(e, DOMAIN assignments), NEW s \in ValuationsIn(e, Explicit!Layer)
  PROVE  \E c \in Upto(Explicit!Sizes(e)) : Explicit!Valuation(e, c) = s
<1> DEFINE n == Cardinality(Explicit!FluentSet(e))
           fs == Explicit!FluentsOf(e)
           position(f) == CHOOSE k \in 1 .. Len(assignments[f]) : assignments[f][k] = s[f]
           c == [k \in 1 .. n |-> position(fs[k])]
           place(f) == CHOOSE k \in DOMAIN fs : fs[k] = f
<1>1. /\ n \in Nat /\ DOMAIN fs = 1 .. n /\ Range(fs) = Explicit!FluentSet(e)
      /\ fs \in [1 .. n -> Explicit!FluentSet(e)]
  BY FluentsAre
<1>2. /\ DOMAIN Explicit!Sizes(e) = 1 .. n
      /\ \A k \in 1 .. n : Explicit!Sizes(e)[k] = Len(assignments[fs[k]])
  BY SizesAre
<1>3. DOMAIN s = Explicit!FluentSet(e) /\ s = [f \in DOMAIN s |-> s[f]] /\ \A f \in Explicit!FluentSet(e) : s[f] \in Explicit!Layer[f]
  BY DEF ValuationsIn
<1> HIDE DEF n
<1>4. \A f \in Explicit!FluentSet(e) : position(f) \in 1 .. Len(assignments[f]) /\ assignments[f][position(f)] = s[f]
  <2> TAKE f \in Explicit!FluentSet(e)
  <2>1. f \in DOMAIN assignments
    BY DEF Speaks
  <2>2. \E k \in 1 .. Len(assignments[f]) : assignments[f][k] = s[f]
    BY <1>3, <2>1, ListIs
  <2> QED
    BY <2>2
<1> HIDE DEF position
<1>5. c \in Upto(Explicit!Sizes(e))
  <2> HIDE DEF fs
  <2>1. \A k \in 1 .. n : c[k] \in 1 .. Explicit!Sizes(e)[k]
    BY <1>1, <1>2, <1>4
  <2> QED
    BY <1>2, <2>1, UptoIs
<1>6. \A f \in Explicit!FluentSet(e) : place(f) \in 1 .. n /\ fs[place(f)] = f
  BY <1>1 DEF Range
<1>7. Explicit!Valuation(e, c) = [f \in Explicit!FluentSet(e) |-> assignments[f][c[place(f)]]]
  BY DEF Explicit!Valuation
<1> HIDE DEF place, fs
<1>8. \A f \in Explicit!FluentSet(e) : assignments[f][c[place(f)]] = s[f]
  BY <1>4, <1>6
<1> QED
  BY <1>3, <1>5, <1>7, <1>8

(* So to look at every combination is to look at every valuation.            *)
LEMMA CanBeTrueIs ==
  ASSUME ListsOK, NEW e, Speaks(e, DOMAIN assignments)
  PROVE  Explicit!CanBeTrue(e, Explicit!Layer)
           <=> \E c \in Upto(Explicit!Sizes(e)) : ValueAt(e, c) = Explicit!True
<1>1. Explicit!CanBeTrue(e, Explicit!Layer) <=> \E s \in ValuationsIn(e, Explicit!Layer) : Explicit!Evaluate(e, s) = Explicit!True
  BY DEF Explicit!CanBeTrue, ValuationsIn
<1> QED
  BY <1>1, ValuationIs, ValuationHasPositions DEF ValueAt

(* What an operator gives a fluent, effect by effect.                        *)
LEMMA GivenIs ==
  ASSUME NEW o, NEW f, NEW layer, NEW v
  PROVE  v \in Explicit!Given(o, f, layer)
           <=> \E j \in DOMAIN o.effects : /\ o.effects[j].fluent = f
                                           /\ \E s \in ValuationsIn(o.effects[j].value, layer) :
                                                v = Explicit!Evaluate(o.effects[j].value, s)
BY DEF Explicit!Given, ValuationsIn

(* What a state with values of a layer makes true, the layer can.            *)
LEMMA StateInLayer ==
  ASSUME NEW e, NEW s, NEW layer, \A f \in Explicit!FluentSet(e) : s[f] \in layer[f]
  PROVE  \E t \in ValuationsIn(e, layer) : Explicit!Evaluate(e, s) = Explicit!Evaluate(e, t)
<1> DEFINE t == [f \in Explicit!FluentSet(e) |-> s[f]]
<1>1. t \in ValuationsIn(e, layer)
  BY DEF ValuationsIn
<1>2. Explicit!Evaluate(e, s) = Explicit!Evaluate(e, t)
  BY EvaluateLocal
<1> QED
  BY <1>1, <1>2

-----------------------------------------------------------------------------
(* The invariant of the explicit hmax.                                       *)

(* The problem, its operators and its fluents do not change.                 *)
StaticOK ==
  /\ task \in ExplicitTasks
  /\ operators = Explicit!SetToSeq(Explicit!OperatorsOf(task))
  /\ DOMAIN assignments = Explicit!FluentsIn(task)

(* What was looked at is part of what there is, and was so once.             *)
ExpOf(p) == IF p[1] = 0 THEN p[3] ELSE operators[p[1]].effects[p[2]].value
PlaceOK(p, e) ==
  /\ Speaks(e, DOMAIN assignments)
  /\ oldSizes[p] \in [1 .. Cardinality(Explicit!FluentSet(e)) -> Nat]
  /\ \A k \in 1 .. Cardinality(Explicit!FluentSet(e)) : oldSizes[p][k] <= Explicit!Sizes(e)[k]
PlacesOK ==
  /\ DOMAIN tried = DOMAIN oldSizes
  /\ \A p \in DOMAIN oldSizes : PlaceOK(p, ExpOf(p)) /\ tried[p] \subseteq Upto(oldSizes[p])
  /\ ~repeated

(* A condition is known to be possible, or was not seen to be.               *)
KnownOK ==
  /\ \A e \in known : Speaks(e, DOMAIN assignments) /\ Explicit!CanBeTrue(e, Explicit!Layer)
  /\ \A p \in DOMAIN oldSizes :
       p[1] = 0 /\ p[3] \notin known => \A c \in Upto(oldSizes[p]) : ValueAt(p[3], c) # Explicit!True

(* What operators were seen to give is in the layer or in the next one,      *)
(* which has nothing else.                                                   *)
CanApply(i) == \A k \in DOMAIN operators[i].conditions : Explicit!CanBeTrue(operators[i].conditions[k], Explicit!Layer)
AppliedOK ==
  /\ applied \subseteq DOMAIN operators
  /\ \A i \in applied : CanApply(i)
  /\ \A i \in DOMAIN operators : \A j \in DOMAIN operators[i].effects :
       /\ Explicit!AtEffect(i, j) \in DOMAIN oldSizes <=> i \in applied
       /\ i \in applied =>
            \A c \in Upto(oldSizes[Explicit!AtEffect(i, j)]) :
              ValueAt(operators[i].effects[j].value, c)
                \in Explicit!Layer[operators[i].effects[j].fluent] \cup collected[operators[i].effects[j].fluent]
CollectedOK ==
  /\ DOMAIN collected = DOMAIN assignments
  /\ \A f \in DOMAIN collected :
       /\ IsFiniteSet(collected[f])
       /\ \A v \in collected[f] : \E i \in DOMAIN operators : CanApply(i) /\ v \in Explicit!Given(operators[i], f, Explicit!Layer)

(* An operator that was looked at in this round, or would be skipped, has    *)
(* given all it can.                                                         *)
UpToDate(i) ==
  CanApply(i) =>
    i \in applied /\ \A j \in DOMAIN operators[i].effects :
                       oldSizes[Explicit!AtEffect(i, j)] = Explicit!Sizes(operators[i].effects[j].value)
GoalsPossible == \A k \in DOMAIN Explicit!Goals : Explicit!CanBeTrue(Explicit!Goals[k], Explicit!Layer)
RoundOK ==
  /\ turn \in 0 .. (Len(operators) + 1) /\ depth \in Nat
  /\ changes \subseteq DOMAIN assignments
  /\ answer \in {Explicit!Undecided, Explicit!None} \cup Nat
  /\ \A i \in DOMAIN operators : i < turn \/ ~Explicit!Reads(i) => UpToDate(i)
  /\ turn # 0 => answer = Explicit!Undecided /\ changes # {}
  /\ turn = 0 => \A f \in DOMAIN collected : collected[f] = {}
  /\ turn # 0 \/ changes = {} => ~GoalsPossible
  /\ answer = Explicit!None => changes = {}

(* The states reached have values of the layer, except for flags that are    *)
(* down.                                                                     *)
ReachableOK ==
  \A s \in reachable :
    /\ DOMAIN s = DOMAIN assignments
    /\ \A f \in DOMAIN s : s[f] \in Explicit!Layer[f] \/ (f \notin DOMAIN task.start /\ s[f] = Explicit!False)

(* The inductive invariant of an evaluation.                                 *)
ExplicitInv ==
  /\ StaticOK /\ ListsOK /\ PlacesOK /\ KnownOK /\ AppliedOK /\ CollectedOK /\ RoundOK /\ ReachableOK

-----------------------------------------------------------------------------
(* The problem's operators and goals, by the invariant.                      *)
LEMMA ConditionSpeaks ==
  ASSUME NEW t, NEW e, Condition(t, e)
  PROVE  Speaks(e, Explicit!FluentsIn(t))
<1>1. CASE Speaks(e, DOMAIN t.start)
  BY <1>1 DEF Speaks, Explicit!FluentsIn
<1>2. CASE ~Speaks(e, DOMAIN t.start)
  <2>1. PICK f \in Explicit!FluentsIn(t) : e = <<Explicit!Fluent(f)>>
    BY <1>2 DEF Condition
  <2>2. Explicit!FluentSet(e) = {f}
    BY <2>1, FluentSetIs
  <2> QED
    BY <2>2, FS_Singleton DEF Speaks
<1> QED
  BY <1>1, <1>2

(* An operator speaks of fluents that have lists, and of some.               *)
LEMMA OperatorAt ==
  ASSUME StaticOK, NEW i \in DOMAIN operators
  PROVE  /\ operators[i] \in Explicit!OperatorsOf(task)
         /\ \A k \in DOMAIN operators[i].conditions : Speaks(operators[i].conditions[k], DOMAIN assignments)
         /\ \E k \in DOMAIN operators[i].conditions : Explicit!FluentSet(operators[i].conditions[k]) # {}
         /\ \A j \in DOMAIN operators[i].effects :
              /\ operators[i].effects[j].fluent \in DOMAIN assignments
              /\ Speaks(operators[i].effects[j].value, DOMAIN assignments)
<1>1. task \in ExplicitTasks /\ operators[i] \in Explicit!OperatorsOf(task) /\ DOMAIN assignments = Explicit!FluentsIn(task)
  BY OperatorsAre DEF StaticOK
<1> DEFINE o == operators[i]
<1> HIDE DEF o
<1>2. o \in Explicit!OperatorsOf(task)
  BY <1>1 DEF o
<1>3. /\ \A k \in DOMAIN o.conditions : Condition(task, o.conditions[k])
      /\ \A j \in DOMAIN o.effects : Effect(task, o.effects[j])
      /\ \E f \in Explicit!FluentsIn(task) : 1 \in DOMAIN o.conditions /\ o.conditions[1] = <<Explicit!Fluent(f)>>
  BY <1>1, <1>2, OperatorIs
<1>4. \A k \in DOMAIN o.conditions : Speaks(o.conditions[k], DOMAIN assignments)
  BY <1>1, <1>3, ConditionSpeaks
<1>5. \E k \in DOMAIN o.conditions : Explicit!FluentSet(o.conditions[k]) # {}
  BY <1>3, FluentSetIs
<1>6. \A j \in DOMAIN o.effects : o.effects[j].fluent \in DOMAIN assignments /\ Speaks(o.effects[j].value, DOMAIN assignments)
  BY <1>1, <1>3 DEF Effect, Speaks, Explicit!FluentsIn
<1> QED
  BY <1>1, <1>4, <1>5, <1>6 DEF o

(* The goals are the conjuncts of the goal and the last flag of every        *)
(* action.                                                                   *)
LEMMA GoalsAre ==
  ASSUME StaticOK
  PROVE  \A k \in DOMAIN Explicit!Goals : Condition(task, Explicit!Goals[k])
<1> DEFINE C == {e \in Explicit!Formulas(task) \cup {<<Explicit!Fluent(f)>> : f \in Explicit!FluentsIn(task)} : Condition(task, e)}
           given == Explicit!Conjuncts(task.goal)
           flags == [a \in DOMAIN task.events |-> <<Explicit!Fluent(Explicit!LastFlag(task, a))>>]
<1>1. task \in ExplicitTasks
  BY DEF StaticOK
<1>2. given \in Seq(C)
  <2>1. given \in Seq(Explicit!Formulas(task))
    BY <1>1, HeuristicsAssumption DEF Explicit!TasksAssumption
  <2>2. \A e \in Explicit!Formulas(task) : e \in C
    BY <1>1, FormulaSpeaks DEF Condition
  <2> HIDE DEF C, given
  <2> QED
    BY <2>1, <2>2, SeqMonotonic
<1>3. flags \in Seq(C)
  <2>1. ASSUME NEW a \in DOMAIN task.events
        PROVE  <<Explicit!Fluent(Explicit!LastFlag(task, a))>> \in C
    <3>1. DOMAIN task.events[a] = 1 .. Len(task.events[a]) /\ Len(task.events[a]) \in Nat \ {0}
      BY <1>1, EventsAre
    <3>2. 1 \in DOMAIN task.events[a]
      BY <3>1
    <3>3. Explicit!LastFlag(task, a) \in Explicit!FluentsIn(task) \ DOMAIN task.start
      BY <1>1, <3>2, FlagsAre
    <3> QED
      BY <3>3 DEF Condition
  <2>2. DOMAIN task.events = 1 .. Len(task.events) /\ Len(task.events) \in Nat
    BY <1>1, EventsAre
  <2> DEFINE m == Len(task.events)
  <2> HIDE DEF C, m
  <2>3. flags \in [1 .. m -> C]
    BY <2>1, <2>2 DEF m
  <2> QED
    BY <2>2, <2>3 DEF m
<1>4. Explicit!Goals = given \o flags
  BY DEF Explicit!Goals
<1> HIDE DEF given, flags, C
<1>5. Explicit!Goals \in Seq(C)
  BY <1>2, <1>3, <1>4, ConcatProperties
<1>6. \A k \in DOMAIN Explicit!Goals : Explicit!Goals[k] \in C
  BY <1>5
<1> QED
  BY <1>6 DEF C

(* The goals speak of fluents that have lists.                               *)
LEMMA GoalSpeaks ==
  ASSUME StaticOK
  PROVE  \A k \in DOMAIN Explicit!Goals : Speaks(Explicit!Goals[k], DOMAIN assignments)
BY GoalsAre, ConditionSpeaks DEF StaticOK

-----------------------------------------------------------------------------
(* Looking at expressions.                                                   *)
Seen(p) == IF p \in DOMAIN oldSizes THEN Upto(oldSizes[p]) ELSE {}

(* The blocks have the combinations not seen, each once.                     *)
LEMMA BlocksAre ==
  ASSUME ListsOK, NEW p, NEW e, Speaks(e, DOMAIN assignments),
         p \in DOMAIN oldSizes => PlaceOK(p, e)
  PROVE  /\ Explicit!All(Explicit!Blocks(p, e)) = Upto(Explicit!Sizes(e)) \ Seen(p)
         /\ \A b, c \in Explicit!Blocks(p, e) : b # c => b[2] \cap c[2] = {}
<1> DEFINE n == Cardinality(Explicit!FluentSet(e))
           new == Explicit!Sizes(e)
           old == Explicit!Old(p, e)
<1>1. /\ n \in Nat /\ DOMAIN Explicit!FluentsOf(e) = 1 .. n
      /\ n = 0 <=> Explicit!FluentSet(e) = {}
      /\ new \in [1 .. n -> Nat] /\ DOMAIN new = 1 .. n
  BY FluentsAre, SizesAre
<1>2. p \in DOMAIN oldSizes =>
        /\ oldSizes[p] \in [1 .. n -> Nat]
        /\ \A k \in 1 .. n : oldSizes[p][k] <= new[k]
  BY DEF PlaceOK
<1>3. CASE Explicit!FluentSet(e) = {}
  <2>1. n = 0 /\ 1 .. n = {}
    BY <1>1, <1>3
  <2>2. \A m \in [1 .. n -> Nat] : Upto(m) = {<<>>}
    <3> TAKE m \in [1 .. n -> Nat]
    <3>1. DOMAIN m = {}
      BY <2>1
    <3>2. \A c : c \in Upto(m) <=> c = [i \in {} |-> c[i]]
      BY <3>1, UptoIs
    <3>3. \A c : c = [i \in {} |-> c[i]] <=> c = <<>>
      OBVIOUS
    <3> QED
      BY <3>2, <3>3
  <2>3. Upto(new) = {<<>>} /\ (p \in DOMAIN oldSizes => Upto(oldSizes[p]) = {<<>>})
    BY <1>1, <1>2, <2>2
  <2>4. Explicit!Blocks(p, e) = IF p \in DOMAIN oldSizes THEN {} ELSE {<<0, {<<>>}>>}
    BY <1>3 DEF Explicit!Blocks
  <2> HIDE DEF new
  <2>5. Explicit!All(Explicit!Blocks(p, e)) = IF p \in DOMAIN oldSizes THEN {} ELSE {<<>>}
    <3> DEFINE B == Explicit!Blocks(p, e)
    <3>1. Explicit!All(B) = UNION {b[2] : b \in B}
      BY DEF Explicit!All
    <3> HIDE DEF B
    <3>2. B = {} => UNION {b[2] : b \in B} = {}
      OBVIOUS
    <3>3. B = {<<0, {<<>>}>>} => UNION {b[2] : b \in B} = {<<>>}
      OBVIOUS
    <3>4. B = IF p \in DOMAIN oldSizes THEN {} ELSE {<<0, {<<>>}>>}
      BY <2>4 DEF B
    <3> QED
      BY <3>1, <3>2, <3>3, <3>4 DEF B
  <2> QED
    BY <2>3, <2>4, <2>5 DEF Seen, new
<1>4. CASE Explicit!FluentSet(e) # {}
  <2>1. n # 0
    BY <1>1, <1>4
  <2>2. /\ old \in [1 .. n -> Nat] /\ \A k \in 1 .. n : old[k] <= new[k]
        /\ Upto(old) = Seen(p)
    <3>1. CASE p \in DOMAIN oldSizes
      BY <1>2, <3>1 DEF Explicit!Old, Seen
    <3>2. CASE p \notin DOMAIN oldSizes
      <4>1. old = [k \in 1 .. n |-> 0]
        BY <1>1, <3>2 DEF Explicit!Old
      <4> HIDE DEF old, new, n
      <4>2. Upto(old) = {}
        <5> SUFFICES ASSUME NEW c \in Upto(old) PROVE FALSE
          OBVIOUS
        <5>1. 1 \in DOMAIN old /\ old[1] = 0
          BY <1>1, <2>1, <4>1
        <5>2. c[1] \in 1 .. old[1]
          BY <5>1 DEF Upto
        <5> QED
          BY <5>1, <5>2
      <4> QED
        BY <1>1, <3>2, <4>1, <4>2 DEF Seen
    <3> QED
      BY <3>1, <3>2
  <2>3. Explicit!Blocks(p, e) = IF old = new THEN {} ELSE {<<j, Explicit!Block(j, old, new)>> : j \in 1 .. n}
    BY <1>1, <1>4 DEF Explicit!Blocks
  <2> HIDE DEF old, new, n
  <2>4. /\ UNION {Explicit!Block(j, old, new) : j \in 1 .. n} = Upto(new) \ Upto(old)
        /\ \A i, j \in 1 .. n : i # j => Explicit!Block(i, old, new) \cap Explicit!Block(j, old, new) = {}
    BY <1>1, <2>2, BlocksCover
  <2>5. CASE old = new
    <3>1. Explicit!All(Explicit!Blocks(p, e)) = {}
      BY <2>3, <2>5 DEF Explicit!All
    <3> QED
      BY <2>2, <2>3, <2>5, <3>1 DEF new
  <2>6. CASE old # new
    <3>1. Explicit!All(Explicit!Blocks(p, e)) = UNION {Explicit!Block(j, old, new) : j \in 1 .. n}
      <4> DEFINE B == Explicit!Blocks(p, e)
      <4>1. Explicit!All(B) = UNION {b[2] : b \in B}
        BY DEF Explicit!All
      <4> HIDE DEF B
      <4>2. B = {<<j, Explicit!Block(j, old, new)>> : j \in 1 .. n}
        BY <2>3, <2>6 DEF B
      <4>3. \A b \in B : \E j \in 1 .. n : b[2] = Explicit!Block(j, old, new)
        BY <4>2
      <4>4. ASSUME NEW j \in 1 .. n PROVE \E b \in B : b[2] = Explicit!Block(j, old, new)
        <5>1. <<j, Explicit!Block(j, old, new)>> \in B
          BY <4>2
        <5>2. <<j, Explicit!Block(j, old, new)>>[2] = Explicit!Block(j, old, new)
          OBVIOUS
        <5> QED
          BY <5>1, <5>2
      <4> QED
        BY <4>1, <4>3, <4>4 DEF B
    <3>2. ASSUME NEW b \in Explicit!Blocks(p, e), NEW c \in Explicit!Blocks(p, e), b # c
          PROVE  b[2] \cap c[2] = {}
      <4>1. PICK i \in 1 .. n : b = <<i, Explicit!Block(i, old, new)>>
        BY <2>3, <2>6
      <4>2. PICK j \in 1 .. n : c = <<j, Explicit!Block(j, old, new)>>
        BY <2>3, <2>6
      <4>3. i # j
        BY <3>2, <4>1, <4>2
      <4> QED
        BY <2>4, <4>1, <4>2, <4>3
    <3> QED
      BY <2>2, <2>4, <3>1, <3>2 DEF new
  <2> QED
    BY <2>5, <2>6
<1> QED
  BY <1>3, <1>4

(* Longer lists have all the combinations of shorter ones.                   *)
LEMMA UptoGrows ==
  ASSUME NEW m, NEW old \in [1 .. m -> Nat], NEW new \in [1 .. m -> Nat],
         \A k \in 1 .. m : old[k] <= new[k]
  PROVE  Upto(old) \subseteq Upto(new)
<1> SUFFICES ASSUME NEW c \in Upto(old) PROVE c \in Upto(new)
  OBVIOUS
<1>1. DOMAIN old = 1 .. m /\ DOMAIN new = 1 .. m
  OBVIOUS
<1>2. c = [i \in DOMAIN old |-> c[i]] /\ \A i \in DOMAIN old : c[i] \in 1 .. old[i]
  BY UptoIs
<1>3. \A i \in 1 .. m : c[i] \in 1 .. new[i]
  BY <1>1, <1>2
<1> QED
  BY <1>1, <1>2, <1>3, UptoIs

(* While the lists stay, so does what is said of them.                       *)
LEMMA ListsStay ==
  ASSUME UNCHANGED assignments
  PROVE  /\ \A e : Explicit!Sizes(e)' = Explicit!Sizes(e)
         /\ \A e, c : ValueAt(e, c)' = ValueAt(e, c)
         /\ Explicit!Layer' = Explicit!Layer
         /\ ListsOK => ListsOK'
BY DEF Explicit!Sizes, ValueAt, Explicit!Valuation, Explicit!Layer, ListsOK

(* To look at expressions keeps the places right.                            *)
LEMMA LookedKeeps ==
  ASSUME ListsOK, PlacesOK, NEW exps,
         \A p \in DOMAIN exps : Speaks(exps[p], DOMAIN assignments) /\ ExpOf(p) = exps[p],
         Explicit!Looked(exps), UNCHANGED <<assignments, operators>>
  PROVE  /\ PlacesOK'
         /\ DOMAIN oldSizes' = DOMAIN oldSizes \cup DOMAIN exps
         /\ \A p \in DOMAIN exps : oldSizes'[p] = Explicit!Sizes(exps[p])
         /\ \A p \in DOMAIN oldSizes \ DOMAIN exps : oldSizes'[p] = oldSizes[p]
<1> DEFINE blocks == [p \in DOMAIN exps |-> Explicit!Blocks(p, exps[p])]
           before(p) == IF p \in DOMAIN tried THEN tried[p] ELSE {}
<1>1. /\ oldSizes' = [p \in DOMAIN oldSizes \cup DOMAIN exps |->
                        IF p \in DOMAIN exps THEN Explicit!Sizes(exps[p]) ELSE oldSizes[p]]
      /\ tried' = [p \in DOMAIN tried \cup DOMAIN exps |->
                     IF p \in DOMAIN exps THEN before(p) \cup Explicit!All(blocks[p]) ELSE tried[p]]
      /\ repeated' = (repeated \/ \E p \in DOMAIN exps :
                        \/ before(p) \cap Explicit!All(blocks[p]) # {}
                        \/ \E b, c \in blocks[p] : b # c /\ b[2] \cap c[2] # {})
  BY DEF Explicit!Looked
<1>2. ASSUME NEW p \in DOMAIN exps
      PROVE  /\ Explicit!All(blocks[p]) = Upto(Explicit!Sizes(exps[p])) \ Seen(p)
             /\ \A b, c \in blocks[p] : b # c => b[2] \cap c[2] = {}
  <2>1. p \in DOMAIN oldSizes => PlaceOK(p, exps[p])
    BY DEF PlacesOK
  <2> QED
    BY <2>1, BlocksAre
<1>3. \A p : before(p) \subseteq Seen(p)
  BY DEF PlacesOK, Seen
<1> HIDE DEF blocks, before
<1>4. ~repeated'
  BY <1>1, <1>2, <1>3 DEF PlacesOK
<1>5. DOMAIN tried' = DOMAIN oldSizes'
  BY <1>1 DEF PlacesOK
<1>6. ASSUME NEW p \in DOMAIN exps
      PROVE  PlaceOK(p, ExpOf(p))' /\ tried'[p] \subseteq Upto(oldSizes'[p])
  <2> DEFINE e == exps[p]
             n == Cardinality(Explicit!FluentSet(e))
             new == Explicit!Sizes(e)
  <2>1. oldSizes'[p] = new /\ tried'[p] = before(p) \cup Explicit!All(blocks[p])
    BY <1>1
  <2>2. new \in [1 .. n -> Nat]
    BY SizesAre
  <2>3. ExpOf(p)' = e /\ Speaks(e, DOMAIN assignments') /\ new' = new
    BY ListsStay DEF ExpOf
  <2> HIDE DEF new, e
  <2>4. PlaceOK(p, e)'
    <3>1. \A k \in 1 .. n : oldSizes'[p][k] <= new[k]
      BY <2>1, <2>2
    <3> QED
      BY <2>1, <2>2, <2>3, <3>1 DEF PlaceOK, new, e
  <2>5. Seen(p) \subseteq Upto(new)
    <3>1. CASE p \in DOMAIN oldSizes
      <4>1. oldSizes[p] \in [1 .. n -> Nat] /\ \A k \in 1 .. n : oldSizes[p][k] <= new[k]
        BY <3>1 DEF PlacesOK, PlaceOK, new, e
      <4> HIDE DEF n
      <4> QED
        BY <2>2, <3>1, <4>1, UptoGrows DEF Seen
    <3>2. CASE p \notin DOMAIN oldSizes
      BY <3>2 DEF Seen
    <3> QED
      BY <3>1, <3>2
  <2>6. tried'[p] \subseteq Upto(oldSizes'[p])
    BY <1>2, <1>3, <2>1, <2>5 DEF new, e
  <2> QED
    BY <2>3, <2>4, <2>6
<1>7. ASSUME NEW p \in DOMAIN oldSizes \ DOMAIN exps
      PROVE  PlaceOK(p, ExpOf(p))' /\ tried'[p] \subseteq Upto(oldSizes'[p])
  <2>1. oldSizes'[p] = oldSizes[p] /\ tried'[p] = tried[p]
    BY <1>1 DEF PlacesOK
  <2>2. ExpOf(p)' = ExpOf(p)
    BY DEF ExpOf
  <2>3. Explicit!Sizes(ExpOf(p))' = Explicit!Sizes(ExpOf(p))
    BY <2>2, ListsStay
  <2> DEFINE e == ExpOf(p)
  <2>4. PlaceOK(p, e) /\ tried[p] \subseteq Upto(oldSizes[p])
    BY DEF PlacesOK
  <2>5. PlaceOK(p, e)'
    <3> HIDE DEF e
    <3>1. e' = e /\ Explicit!Sizes(e)' = Explicit!Sizes(e)
      BY <2>2, <2>3 DEF e
    <3> QED
      BY <2>1, <2>4, <3>1 DEF PlaceOK
  <2> QED
    BY <2>1, <2>4, <2>5
<1>8. DOMAIN oldSizes' = DOMAIN oldSizes \cup DOMAIN exps
  BY <1>1
<1>9. PlacesOK'
  BY <1>4, <1>5, <1>6, <1>7, <1>8 DEF PlacesOK
<1> QED
  BY <1>1, <1>8, <1>9

(* A condition is found to be possible if the layer makes it true.           *)
LEMMA AbleIs ==
  ASSUME ListsOK, PlacesOK, KnownOK, NEW exps,
         \A k \in DOMAIN exps : Speaks(exps[k], DOMAIN assignments)
  PROVE  \A k \in DOMAIN exps :
           exps[k] \in Explicit!Able(exps) <=> Explicit!CanBeTrue(exps[k], Explicit!Layer)
<1> TAKE k \in DOMAIN exps
<1> DEFINE e == exps[k]
           p == Explicit!At(e)
<1>1. e \in Explicit!Able(exps) <=> e \in known \/ Explicit!True \in Explicit!NewValues(p, e)
  BY ExplicitSetsAre DEF Explicit!Able, Range
<1>2. CASE e \in known
  BY <1>1, <1>2 DEF KnownOK
<1>3. CASE e \notin known
  <2>1. p[1] = 0 /\ p[3] = e /\ ExpOf(p) = e
    BY DEF Explicit!At, ExpOf
  <2> HIDE DEF p, e
  <2>2. p \in DOMAIN oldSizes => PlaceOK(p, e)
    BY <2>1 DEF PlacesOK
  <2>3. Speaks(e, DOMAIN assignments)
    BY DEF e
  <2>4. Explicit!All(Explicit!Blocks(p, e)) = Upto(Explicit!Sizes(e)) \ Seen(p)
    BY <2>2, <2>3, BlocksAre
  <2>5. Explicit!True \in Explicit!NewValues(p, e)
          <=> \E c \in Upto(Explicit!Sizes(e)) \ Seen(p) : ValueAt(e, c) = Explicit!True
    BY <2>4 DEF Explicit!NewValues, ValueAt
  <2>6. \A c \in Seen(p) : ValueAt(e, c) # Explicit!True
    BY <1>3, <2>1 DEF KnownOK, Seen
  <2>7. Explicit!CanBeTrue(e, Explicit!Layer)
          <=> \E c \in Upto(Explicit!Sizes(e)) : ValueAt(e, c) = Explicit!True
    BY <2>3, CanBeTrueIs
  <2>8. e \in Explicit!Able(exps) <=> Explicit!CanBeTrue(e, Explicit!Layer)
    BY <1>1, <1>3, <2>5, <2>6, <2>7
  <2> QED
    BY <2>8 DEF e
<1> QED
  BY <1>2, <1>3

(* There are finitely many combinations.                                     *)
LEMMA UptoFinite ==
  ASSUME NEW m \in Nat, NEW n \in [1 .. m -> Nat]
  PROVE  IsFiniteSet(Upto(n))
<1> DEFINE upto == [i \in 1 .. m |-> 1 .. n[i]]
           R == UNION {upto[i] : i \in 1 .. m}
<1>1. IsFiniteSet(1 .. m)
  BY FS_Interval
<1>2. \A i \in 1 .. m : IsFiniteSet(upto[i])
  BY FS_Interval
<1>3. IsFiniteSet({upto[i] : i \in 1 .. m})
  <2>1. DOMAIN upto = 1 .. m
    OBVIOUS
  <2> HIDE DEF upto
  <2> QED
    BY <1>1, <2>1, ImageFinite
<1>4. IsFiniteSet(R)
  <2> HIDE DEF upto
  <2> QED
    BY <1>2, <1>3, FS_UNION
<1>5. Upto(n) \subseteq [1 .. m -> R]
  BY DEF Upto
<1> HIDE DEF R
<1>6. IsFiniteSet([1 .. m -> R])
  BY <1>1, <1>4, FunctionsFinite
<1> QED
  BY <1>5, <1>6, FS_Subset

(* To test conditions in order keeps what is known of them.                  *)
LEMMA LearnedKeeps ==
  ASSUME ListsOK, PlacesOK, KnownOK, NEW exps,
         \A k \in DOMAIN exps : Speaks(exps[k], DOMAIN assignments),
         Explicit!Learned(exps, Explicit!Able(exps)), UNCHANGED <<assignments, operators>>
  PROVE  /\ PlacesOK' /\ KnownOK'
         /\ \A p : p[1] # 0 => /\ p \in DOMAIN oldSizes' <=> p \in DOMAIN oldSizes
                               /\ p \in DOMAIN oldSizes => oldSizes'[p] = oldSizes[p]
<1> DEFINE able == Explicit!Able(exps)
           seen == Explicit!Visited(exps, able)
           looked == [p \in {Explicit!At(e) : e \in seen \ able} |-> p[3]]
<1>1. Explicit!Looked(looked) /\ known' = known \cup (seen \cap able)
  BY DEF Explicit!Learned
<1>2. \A e \in seen : \E k \in DOMAIN exps : e = exps[k]
  BY DEF Explicit!Visited
<1>3. \A e \in seen : Speaks(e, DOMAIN assignments) /\ (e \in able <=> Explicit!CanBeTrue(e, Explicit!Layer))
  BY <1>2, AbleIs
<1> HIDE DEF able, seen
<1>4. ASSUME NEW p \in DOMAIN looked
      PROVE  /\ p[1] = 0 /\ looked[p] = p[3] /\ ExpOf(p) = p[3]
             /\ Speaks(p[3], DOMAIN assignments) /\ ~Explicit!CanBeTrue(p[3], Explicit!Layer)
  <2>1. PICK e \in seen \ able : p = Explicit!At(e)
    OBVIOUS
  <2>2. p[1] = 0 /\ p[3] = e
    BY <2>1 DEF Explicit!At
  <2>3. looked[p] = p[3]
    OBVIOUS
  <2>4. ExpOf(p) = p[3]
    BY <2>2 DEF ExpOf
  <2> QED
    BY <1>3, <2>2, <2>3, <2>4
<1> HIDE DEF looked
<1>5. \A p \in DOMAIN looked : Speaks(looked[p], DOMAIN assignments) /\ ExpOf(p) = looked[p]
  BY <1>4
<1>6. /\ PlacesOK'
      /\ DOMAIN oldSizes' = DOMAIN oldSizes \cup DOMAIN looked
      /\ \A p \in DOMAIN looked : oldSizes'[p] = Explicit!Sizes(looked[p])
      /\ \A p \in DOMAIN oldSizes \ DOMAIN looked : oldSizes'[p] = oldSizes[p]
  BY <1>1, <1>5, LookedKeeps
<1>7. KnownOK'
  <2>1. \A e \in known' : Speaks(e, DOMAIN assignments') /\ Explicit!CanBeTrue(e, Explicit!Layer')
    BY <1>1, <1>3, ListsStay DEF KnownOK
  <2>2. ASSUME NEW p \in DOMAIN oldSizes', p[1] = 0, p[3] \notin known', NEW c \in Upto(oldSizes'[p])
        PROVE  ValueAt(p[3], c) # Explicit!True
    <3>1. CASE p \in DOMAIN looked
      <4>1. oldSizes'[p] = Explicit!Sizes(p[3])
        BY <1>4, <1>6, <3>1
      <4>2. Speaks(p[3], DOMAIN assignments) /\ ~Explicit!CanBeTrue(p[3], Explicit!Layer)
        BY <1>4, <3>1
      <4> QED
        BY <2>2, <4>1, <4>2, CanBeTrueIs
    <3>2. CASE p \notin DOMAIN looked
      <4>1. p \in DOMAIN oldSizes /\ oldSizes'[p] = oldSizes[p] /\ p[3] \notin known
        BY <1>1, <1>6, <2>2, <3>2
      <4> QED
        BY <2>2, <4>1 DEF KnownOK
    <3> QED
      BY <3>1, <3>2
  <2>3. \A p \in DOMAIN oldSizes' : p[1] = 0 /\ p[3] \notin known' =>
          \A c \in Upto(oldSizes'[p]) : ValueAt(p[3], c)' # Explicit!True
    <3>1. \A e, c : ValueAt(e, c)' = ValueAt(e, c)
      BY ListsStay
    <3> QED
      BY <2>2, <3>1
  <2> QED
    BY <2>1, <2>3 DEF KnownOK
<1> QED
  BY <1>4, <1>6, <1>7

(* Values that are new are what an operator gives.                           *)
LEMMA NewValuesAre ==
  ASSUME ListsOK, NEW p, NEW e, Speaks(e, DOMAIN assignments), p \in DOMAIN oldSizes => PlaceOK(p, e)
  PROVE  /\ IsFiniteSet(Explicit!NewValues(p, e))
         /\ \A v : v \in Explicit!NewValues(p, e)
                     <=> \E c \in Upto(Explicit!Sizes(e)) \ Seen(p) : v = ValueAt(e, c)
         /\ \A v \in Explicit!NewValues(p, e) :
              \E s \in ValuationsIn(e, Explicit!Layer) : v = Explicit!Evaluate(e, s)
<1> DEFINE C == Upto(Explicit!Sizes(e)) \ Seen(p)
           at == [c \in C |-> ValueAt(e, c)]
           n == Cardinality(Explicit!FluentSet(e))
<1>1. Explicit!All(Explicit!Blocks(p, e)) = C
  BY BlocksAre
<1> HIDE DEF C
<1>2. Explicit!NewValues(p, e) = {at[c] : c \in C}
  BY <1>1 DEF Explicit!NewValues, ValueAt
<1>3. IsFiniteSet(C)
  <2>1. Explicit!Sizes(e) \in [1 .. n -> Nat] /\ n \in Nat
    BY SizesAre, FluentsAre
  <2> HIDE DEF n
  <2>2. IsFiniteSet(Upto(Explicit!Sizes(e)))
    BY <2>1, UptoFinite
  <2> QED
    BY <2>2, FS_Subset DEF C
<1>4. IsFiniteSet(Explicit!NewValues(p, e))
  <2>1. DOMAIN at = C
    OBVIOUS
  <2> HIDE DEF at
  <2> QED
    BY <1>2, <1>3, <2>1, ImageFinite
<1>5. \A v : v \in Explicit!NewValues(p, e) <=> \E c \in C : v = ValueAt(e, c)
  BY <1>2
<1>6. \A v \in Explicit!NewValues(p, e) :
        \E s \in ValuationsIn(e, Explicit!Layer) : v = Explicit!Evaluate(e, s)
  BY <1>5, ValuationIs DEF C, ValueAt
<1> QED
  BY <1>4, <1>5, <1>6 DEF C

(* To apply an operator's effects makes it up to date.                       *)
LEMMA EffectsKeep ==
  ASSUME StaticOK, ListsOK, PlacesOK, AppliedOK, CollectedOK, NEW i \in DOMAIN operators,
         CanApply(i), Explicit!ApplyEffects(i), UNCHANGED <<task, assignments, operators>>
  PROVE  /\ PlacesOK' /\ AppliedOK' /\ CollectedOK'
         /\ UpToDate(i)'
         /\ applied' = applied \cup {i}
         /\ \A p : p[1] # i => /\ p \in DOMAIN oldSizes' <=> p \in DOMAIN oldSizes
                               /\ p \in DOMAIN oldSizes => oldSizes'[p] = oldSizes[p]
<1> DEFINE effects == operators[i].effects
           looked == [p \in {Explicit!AtEffect(i, j) : j \in DOMAIN effects} |-> effects[p[2]].value]
<1>0. i # 0
  BY OperatorsAre DEF StaticOK
<1>1. /\ applied' = applied \cup {i}
      /\ collected' =
           [f \in DOMAIN collected |->
              collected[f] \cup UNION {Explicit!NewValues(Explicit!AtEffect(i, j), effects[j].value) :
                                         j \in {k \in DOMAIN effects : effects[k].fluent = f}}]
      /\ Explicit!Looked(looked)
  BY DEF Explicit!ApplyEffects
<1>2. \A j \in DOMAIN effects : effects[j].fluent \in DOMAIN assignments /\ Speaks(effects[j].value, DOMAIN assignments)
  BY OperatorAt
<1>3. \A k, j : Explicit!AtEffect(k, j)[1] = k /\ Explicit!AtEffect(k, j)[2] = j
  BY DEF Explicit!AtEffect
<1>4. ASSUME NEW j \in DOMAIN effects
      PROVE  /\ ExpOf(Explicit!AtEffect(i, j)) = effects[j].value
             /\ Explicit!AtEffect(i, j) \in DOMAIN looked /\ looked[Explicit!AtEffect(i, j)] = effects[j].value
  BY <1>0, <1>3 DEF ExpOf
<1>5. \A p \in DOMAIN looked : \E j \in DOMAIN effects : p = Explicit!AtEffect(i, j)
  OBVIOUS
<1> HIDE DEF looked
<1>6. \A p \in DOMAIN looked : Speaks(looked[p], DOMAIN assignments) /\ ExpOf(p) = looked[p]
  BY <1>2, <1>4, <1>5
<1>7. /\ PlacesOK'
      /\ DOMAIN oldSizes' = DOMAIN oldSizes \cup DOMAIN looked
      /\ \A p \in DOMAIN looked : oldSizes'[p] = Explicit!Sizes(looked[p])
      /\ \A p \in DOMAIN oldSizes \ DOMAIN looked : oldSizes'[p] = oldSizes[p]
  BY <1>1, <1>6, LookedKeeps
<1>8. \A p : p[1] # i => /\ p \in DOMAIN oldSizes' <=> p \in DOMAIN oldSizes
                         /\ p \in DOMAIN oldSizes => oldSizes'[p] = oldSizes[p]
  BY <1>3, <1>5, <1>7
<1>9. \A j \in DOMAIN effects :
        /\ Explicit!AtEffect(i, j) \in DOMAIN oldSizes'
        /\ oldSizes'[Explicit!AtEffect(i, j)] = Explicit!Sizes(effects[j].value)
  BY <1>4, <1>7
<1>10. ASSUME NEW j \in DOMAIN effects
       PROVE  Explicit!AtEffect(i, j) \in DOMAIN oldSizes => PlaceOK(Explicit!AtEffect(i, j), effects[j].value)
  BY <1>4 DEF PlacesOK
<1>11. /\ DOMAIN collected' = DOMAIN collected
       /\ \A f \in DOMAIN collected : collected[f] \subseteq collected'[f]
       /\ \A f \in DOMAIN collected : \A v \in collected'[f] \ collected[f] :
            \E j \in DOMAIN effects : /\ effects[j].fluent = f
                                      /\ v \in Explicit!NewValues(Explicit!AtEffect(i, j), effects[j].value)
       /\ \A j \in DOMAIN effects :
            effects[j].fluent \in DOMAIN collected
              => Explicit!NewValues(Explicit!AtEffect(i, j), effects[j].value) \subseteq collected'[effects[j].fluent]
  BY <1>1
<1>12. /\ Explicit!Layer' = Explicit!Layer
       /\ \A k : CanApply(k)' <=> CanApply(k)
       /\ \A e : Explicit!Sizes(e)' = Explicit!Sizes(e)
       /\ \A e, c : ValueAt(e, c)' = ValueAt(e, c)
  BY ListsStay DEF CanApply
<1>13. AppliedOK'
  <2>1. applied' \subseteq DOMAIN operators' /\ \A k \in applied' : CanApply(k)'
    BY <1>1, <1>12 DEF AppliedOK
  <2>2. ASSUME NEW k \in DOMAIN operators, NEW j \in DOMAIN operators[k].effects
        PROVE  /\ Explicit!AtEffect(k, j) \in DOMAIN oldSizes' <=> k \in applied'
               /\ k \in applied' =>
                    \A c \in Upto(oldSizes'[Explicit!AtEffect(k, j)]) :
                      ValueAt(operators[k].effects[j].value, c)
                        \in Explicit!Layer[operators[k].effects[j].fluent] \cup collected'[operators[k].effects[j].fluent]
    <3> DEFINE p == Explicit!AtEffect(k, j)
               v == operators[k].effects[j].value
               f == operators[k].effects[j].fluent
    <3>0. f \in DOMAIN collected
      BY OperatorAt DEF CollectedOK
    <3>1. CASE k # i
      <4>1. /\ p \in DOMAIN oldSizes' <=> p \in DOMAIN oldSizes
            /\ p \in DOMAIN oldSizes => oldSizes'[p] = oldSizes[p]
        BY <1>3, <1>8, <3>1
      <4>2. k \in applied' <=> k \in applied
        BY <1>1, <3>1
      <4>3. /\ p \in DOMAIN oldSizes <=> k \in applied
            /\ k \in applied => \A c \in Upto(oldSizes[p]) : ValueAt(v, c) \in Explicit!Layer[f] \cup collected[f]
        BY DEF AppliedOK
      <4> HIDE DEF p, v, f
      <4>4. collected[f] \subseteq collected'[f]
        BY <1>11, <3>0
      <4>5. /\ p \in DOMAIN oldSizes' <=> k \in applied'
            /\ k \in applied' => \A c \in Upto(oldSizes'[p]) : ValueAt(v, c) \in Explicit!Layer[f] \cup collected'[f]
        BY <4>1, <4>2, <4>3, <4>4
      <4> QED
        BY <4>5 DEF p, v, f
    <3>2. CASE k = i
      <4>1. p \in DOMAIN oldSizes' /\ oldSizes'[p] = Explicit!Sizes(v)
        BY <1>9, <3>2
      <4>2. p \in DOMAIN oldSizes =>
              \A c \in Upto(oldSizes[p]) : ValueAt(v, c) \in Explicit!Layer[f] \cup collected[f]
        BY DEF AppliedOK
      <4>3. Speaks(v, DOMAIN assignments) /\ (p \in DOMAIN oldSizes => PlaceOK(p, v))
        BY <1>2, <1>10, <3>2
      <4>4. Explicit!NewValues(p, v) \subseteq collected'[f] /\ collected[f] \subseteq collected'[f]
        BY <1>11, <3>0, <3>2
      <4> HIDE DEF p, v, f
      <4>5. \A c \in Upto(Explicit!Sizes(v)) \ Seen(p) : ValueAt(v, c) \in Explicit!NewValues(p, v)
        BY <4>3, NewValuesAre
      <4>6. \A c \in Upto(Explicit!Sizes(v)) : ValueAt(v, c) \in Explicit!Layer[f] \cup collected'[f]
        BY <4>2, <4>4, <4>5 DEF Seen
      <4>7. /\ p \in DOMAIN oldSizes' <=> k \in applied'
            /\ k \in applied' => \A c \in Upto(oldSizes'[p]) : ValueAt(v, c) \in Explicit!Layer[f] \cup collected'[f]
        BY <1>1, <3>2, <4>1, <4>6
      <4> QED
        BY <4>7 DEF p, v, f
    <3> QED
      BY <3>1, <3>2
  <2> QED
    BY <1>12, <2>1, <2>2 DEF AppliedOK, Explicit!AtEffect
<1>14. CollectedOK'
  <2>1. ASSUME NEW f \in DOMAIN collected
        PROVE  IsFiniteSet(collected'[f])
    <3> DEFINE J == {k \in DOMAIN effects : effects[k].fluent = f}
               new == [j \in J |-> Explicit!NewValues(Explicit!AtEffect(i, j), effects[j].value)]
    <3>1. collected'[f] = collected[f] \cup UNION {new[j] : j \in J}
      BY <1>1
    <3>2. IsFiniteSet(J)
      <4>1. DOMAIN effects = 1 .. Len(effects) /\ Len(effects) \in Nat
        BY OperatorAt, OperatorIs DEF StaticOK
      <4> HIDE DEF effects
      <4>2. \A m \in Nat : IsFiniteSet(1 .. m)
        BY FS_Interval
      <4>3. IsFiniteSet(DOMAIN effects)
        BY <4>1, <4>2
      <4> QED
        BY <4>3, FS_Subset
    <3>3. \A j \in J : IsFiniteSet(new[j])
      BY <1>2, <1>10, NewValuesAre
    <3>4. DOMAIN new = J
      OBVIOUS
    <3> HIDE DEF new, J
    <3>5. IsFiniteSet({new[j] : j \in J})
      BY <3>2, <3>4, ImageFinite
    <3>6. IsFiniteSet(UNION {new[j] : j \in J})
      BY <3>3, <3>5, FS_UNION
    <3>7. IsFiniteSet(collected[f])
      BY DEF CollectedOK
    <3> QED
      BY <3>1, <3>6, <3>7, FS_Union
  <2>2. ASSUME NEW f \in DOMAIN collected, NEW v \in collected'[f]
        PROVE  \E k \in DOMAIN operators : CanApply(k) /\ v \in Explicit!Given(operators[k], f, Explicit!Layer)
    <3>1. CASE v \in collected[f]
      BY <3>1 DEF CollectedOK
    <3>2. CASE v \notin collected[f]
      <4>1. PICK j \in DOMAIN effects :
              /\ effects[j].fluent = f
              /\ v \in Explicit!NewValues(Explicit!AtEffect(i, j), effects[j].value)
        BY <1>11, <3>2
      <4>2. \E s \in ValuationsIn(effects[j].value, Explicit!Layer) : v = Explicit!Evaluate(effects[j].value, s)
        BY <1>2, <1>10, <4>1, NewValuesAre
      <4>3. v \in Explicit!Given(operators[i], f, Explicit!Layer)
        BY <4>1, <4>2, GivenIs
      <4> QED
        BY <4>3
    <3> QED
      BY <3>1, <3>2
  <2> QED
    BY <1>11, <1>12, <2>1, <2>2 DEF CollectedOK
<1>15. UpToDate(i)'
  BY <1>1, <1>9, <1>12 DEF UpToDate, Explicit!AtEffect
<1> QED
  BY <1>1, <1>7, <1>8, <1>13, <1>14, <1>15

-----------------------------------------------------------------------------
(* The steps.                                                                *)

(* The abstract specification.                                               *)
LayersStep == [Explicit!Layers!Next]_(Explicit!Layers!vars)

(* The operators and goals of the abstract specification do not change.      *)
LEMMA MappingStays ==
  ASSUME UNCHANGED <<task, operators>>
  PROVE  LET mapped == {[conditions |-> Explicit!Range(operators[i].conditions), effects |-> operators[i].effects] :
                          i \in DOMAIN operators}
         IN  mapped' = mapped /\ Explicit!Range(Explicit!Goals)' = Explicit!Range(Explicit!Goals) /\ Explicit!Goals' = Explicit!Goals
<1>1. Explicit!Goals' = Explicit!Goals
  BY DEF Explicit!Goals
<1> QED
  BY <1>1, ExplicitSetsAre

(* While the places of its effects stay, so does an operator.                *)
LEMMA AppliedStays ==
  ASSUME StaticOK, AppliedOK, UNCHANGED <<assignments, operators, applied, collected>>,
         \A p : p[1] # 0 => /\ p \in DOMAIN oldSizes' <=> p \in DOMAIN oldSizes
                            /\ p \in DOMAIN oldSizes => oldSizes'[p] = oldSizes[p]
  PROVE  AppliedOK'
<1>1. /\ Explicit!Layer' = Explicit!Layer
      /\ \A k : CanApply(k)' <=> CanApply(k)
      /\ \A e, c : ValueAt(e, c)' = ValueAt(e, c)
  BY ListsStay DEF CanApply
<1>2. ASSUME NEW k \in DOMAIN operators, NEW j \in DOMAIN operators[k].effects
      PROVE  /\ Explicit!AtEffect(k, j) \in DOMAIN oldSizes' <=> k \in applied
             /\ k \in applied =>
                  \A c \in Upto(oldSizes'[Explicit!AtEffect(k, j)]) :
                    ValueAt(operators[k].effects[j].value, c)
                      \in Explicit!Layer[operators[k].effects[j].fluent] \cup collected[operators[k].effects[j].fluent]
  <2>1. Explicit!AtEffect(k, j)[1] # 0
    BY OperatorsAre DEF StaticOK, Explicit!AtEffect
  <2> QED
    BY <2>1 DEF AppliedOK
<1> QED
  BY <1>1, <1>2 DEF AppliedOK, Explicit!AtEffect

(* While its own places stay, an operator that gave all it can still has.    *)
LEMMA UpToDateStays ==
  ASSUME NEW k, UpToDate(k), UNCHANGED <<assignments, operators>>, k \in applied => k \in applied',
         \A p : p[1] = k => oldSizes'[p] = oldSizes[p]
  PROVE  UpToDate(k)'
<1>1. CanApply(k)' <=> CanApply(k)
  BY ListsStay DEF CanApply
<1>2. \A e : Explicit!Sizes(e)' = Explicit!Sizes(e)
  BY ListsStay
<1>3. \A j : Explicit!AtEffect(k, j)[1] = k /\ Explicit!AtEffect(k, j)' = Explicit!AtEffect(k, j)
  BY DEF Explicit!AtEffect
<1> QED
  BY <1>1, <1>2, <1>3 DEF UpToDate

(* While the lists stay, so does what depends on them only.                  *)
LEMMA StaticStays ==
  ASSUME UNCHANGED <<task, operators, assignments>>
  PROVE  /\ StaticOK => StaticOK'
         /\ CollectedOK /\ collected' = collected => CollectedOK'
         /\ ReachableOK /\ reachable' = reachable => ReachableOK'
         /\ GoalsPossible' <=> GoalsPossible
         /\ \A k : CanApply(k)' <=> CanApply(k)
<1>1. Explicit!Layer' = Explicit!Layer
  BY ListsStay
<1>2. Explicit!Goals' = Explicit!Goals
  BY DEF Explicit!Goals
<1> QED
  BY <1>1, <1>2 DEF StaticOK, CollectedOK, ReachableOK, GoalsPossible, CanApply

(* To test the goal changes no place of an effect; the answer is that of the *)
(* abstract specification.                                                   *)
LEMMA TestGoalKeeps ==
  ASSUME ExplicitInv, Explicit!TestGoal
  PROVE  ExplicitInv' /\ LayersStep
<1>1. /\ answer = Explicit!Undecided /\ turn = 0
      /\ UNCHANGED <<task, operators, assignments, applied, changes, collected, depth, reachable>>
  BY DEF Explicit!TestGoal, Explicit!static
<1>2. /\ StaticOK /\ ListsOK /\ PlacesOK /\ KnownOK /\ AppliedOK /\ CollectedOK /\ RoundOK /\ ReachableOK
      /\ \A k \in DOMAIN Explicit!Goals : Speaks(Explicit!Goals[k], DOMAIN assignments)
  BY GoalSpeaks DEF ExplicitInv
<1>3. /\ StaticOK' /\ ListsOK' /\ CollectedOK' /\ ReachableOK'
      /\ GoalsPossible' <=> GoalsPossible
      /\ Explicit!Layer' = Explicit!Layer
  BY <1>1, <1>2, StaticStays, ListsStay
<1>4. \A k \in DOMAIN operators : ~Explicit!Reads(k)' => UpToDate(k)
  <2>1. \A k \in DOMAIN operators : Explicit!Reads(k)' <=> Explicit!Reads(k)
    BY <1>1 DEF Explicit!Reads, Explicit!EffectFluents, Explicit!ConditionFluents
  <2> QED
    BY <1>2, <2>1 DEF RoundOK
<1>5. \A k \in DOMAIN operators : k \in Nat \ {0}
  BY <1>2, OperatorsAre DEF StaticOK
<1>6. CASE changes = {}
  <2>1. answer' = Explicit!None /\ UNCHANGED <<known, oldSizes, tried, repeated, turn>>
    BY <1>6 DEF Explicit!TestGoal
  <2>2. PlacesOK' /\ KnownOK' /\ AppliedOK'
    <3>1. PlacesOK'
      BY <1>1, <1>2, <2>1 DEF PlacesOK, PlaceOK, ExpOf, Explicit!Sizes
    <3>2. KnownOK'
      BY <1>1, <1>2, <1>3, <2>1, ListsStay DEF KnownOK
    <3>3. AppliedOK'
      BY <1>1, <1>2, <2>1, AppliedStays
    <3> QED
      BY <3>1, <3>2, <3>3
  <2>3. \A k \in DOMAIN operators : UpToDate(k) => UpToDate(k)'
    BY <1>1, <2>1, UpToDateStays
  <2>4. RoundOK'
    BY <1>1, <1>2, <1>3, <1>4, <1>5, <1>6, <2>1, <2>3 DEF RoundOK, Explicit!Undecided, Explicit!None
  <2>5. Explicit!Layers!Answer
    BY <1>1, <1>3, <1>6, <2>1, MappingStays DEF Explicit!Layers!Answer
  <2> QED
    BY <1>3, <2>2, <2>4, <2>5 DEF ExplicitInv, LayersStep, Explicit!Layers!Next
<1>7. CASE changes # {}
  <2> DEFINE able == Explicit!Able(Explicit!Goals)
  <2>1. /\ Explicit!Learned(Explicit!Goals, able)
        /\ IF Explicit!Range(Explicit!Goals) \subseteq able THEN answer' = depth /\ UNCHANGED turn
           ELSE turn' = 1 /\ UNCHANGED answer
    BY <1>7 DEF Explicit!TestGoal
  <2>2. /\ PlacesOK' /\ KnownOK'
        /\ \A p : p[1] # 0 => /\ p \in DOMAIN oldSizes' <=> p \in DOMAIN oldSizes
                              /\ p \in DOMAIN oldSizes => oldSizes'[p] = oldSizes[p]
    BY <1>1, <1>2, <2>1, LearnedKeeps
  <2>3. AppliedOK'
    BY <1>1, <1>2, <2>2, AppliedStays
  <2>4. Explicit!Range(Explicit!Goals) \subseteq able <=> GoalsPossible
    BY <1>2, AbleIs, ExplicitSetsAre DEF GoalsPossible, Range
  <2>5. ASSUME NEW k \in DOMAIN operators, UpToDate(k) PROVE UpToDate(k)'
    <3>1. CASE CanApply(k)
      <4>1. \A j \in DOMAIN operators[k].effects : Explicit!AtEffect(k, j) \in DOMAIN oldSizes
        BY <1>2, <2>5, <3>1 DEF UpToDate, AppliedOK
      <4>2. \A j \in DOMAIN operators[k].effects : oldSizes'[Explicit!AtEffect(k, j)] = oldSizes[Explicit!AtEffect(k, j)]
        BY <1>5, <2>2, <4>1 DEF Explicit!AtEffect
      <4>3. \A e : Explicit!Sizes(e)' = Explicit!Sizes(e)
        BY <1>1, ListsStay
      <4> QED
        BY <1>1, <2>5, <3>1, <4>2, <4>3 DEF UpToDate, Explicit!AtEffect
    <3>2. CASE ~CanApply(k)
      BY <1>1, <3>2, StaticStays DEF UpToDate
    <3> QED
      BY <3>1, <3>2
  <2>6. RoundOK'
    <3>1. depth \in Nat /\ Len(operators) \in Nat
      BY <1>2, OperatorsAre DEF RoundOK, StaticOK
    <3>2. CASE GoalsPossible
      <4>1. answer' = depth /\ turn' = turn
        BY <2>1, <2>4, <3>2
      <4> QED
        BY <1>1, <1>2, <1>3, <1>4, <1>5, <1>7, <2>5, <3>1, <4>1 DEF RoundOK, Explicit!Undecided, Explicit!None
    <3>3. CASE ~GoalsPossible
      <4>1. answer' = answer /\ turn' = 1
        BY <2>1, <2>4, <3>3
      <4>2. \A k \in DOMAIN operators : k < 1 \/ ~Explicit!Reads(k)' => UpToDate(k)'
        BY <1>4, <1>5, <2>5
      <4> QED
        BY <1>1, <1>2, <1>3, <1>7, <3>1, <3>3, <4>1, <4>2 DEF RoundOK, Explicit!Undecided, Explicit!None
    <3> QED
      BY <3>2, <3>3
  <2>7. LayersStep
    <3>1. CASE GoalsPossible
      <4>1. answer' = depth
        BY <2>1, <2>4, <3>1
      <4>2. Explicit!Layers!Possible(Explicit!Range(Explicit!Goals), Explicit!Layer)
        BY <3>1, ExplicitSetsAre DEF Explicit!Layers!Possible, GoalsPossible, Range
      <4>3. Explicit!Layers!Answer
        BY <1>1, <1>3, <1>7, <4>1, <4>2, MappingStays DEF Explicit!Layers!Answer
      <4> QED
        BY <4>3 DEF LayersStep, Explicit!Layers!Next
    <3>2. CASE ~GoalsPossible
      <4>1. answer' = answer
        BY <2>1, <2>4, <3>2
      <4> QED
        BY <1>1, <1>3, <4>1, MappingStays DEF LayersStep, Explicit!Layers!vars
    <3> QED
      BY <3>1, <3>2
  <2> QED
    BY <1>3, <2>2, <2>3, <2>6, <2>7 DEF ExplicitInv
<1> QED
  BY <1>6, <1>7

(* To look at an operator brings it up to date; for the abstract             *)
(* specification nothing happens.                                            *)
LEMMA OperateKeeps ==
  ASSUME ExplicitInv, Explicit!Operate
  PROVE  ExplicitInv' /\ LayersStep
<1>0. PICK i \in DOMAIN operators : i = turn
  BY DEF Explicit!Operate
<1>1. /\ turn = i /\ turn' = i + 1 /\ Explicit!Consider(i)
      /\ UNCHANGED <<task, operators, assignments, changes, depth, answer, reachable>>
  BY <1>0 DEF Explicit!Operate, Explicit!static
<1>2. /\ StaticOK /\ ListsOK /\ PlacesOK /\ KnownOK /\ AppliedOK /\ CollectedOK /\ RoundOK /\ ReachableOK
      /\ \A k \in DOMAIN operators[i].conditions : Speaks(operators[i].conditions[k], DOMAIN assignments)
  BY <1>1, OperatorAt DEF ExplicitInv
<1>3. /\ DOMAIN operators = 1 .. Len(operators) /\ Len(operators) \in Nat
  BY <1>2, OperatorsAre DEF StaticOK
<1>4. /\ StaticOK' /\ ListsOK' /\ ReachableOK'
      /\ GoalsPossible' <=> GoalsPossible
      /\ \A k : CanApply(k)' <=> CanApply(k)
      /\ \A e : Explicit!CanBeTrue(e, Explicit!Layer') <=> Explicit!CanBeTrue(e, Explicit!Layer)
      /\ \A e, c : ValueAt(e, c)' = ValueAt(e, c)
  BY <1>1, <1>2, StaticStays, ListsStay
<1>5. LayersStep
  <2>1. Explicit!Layer' = Explicit!Layer
    BY <1>1, ListsStay
  <2> QED
    BY <1>1, <2>1, MappingStays DEF LayersStep, Explicit!Layers!vars
<1> SUFFICES ExplicitInv'
  BY <1>5
<1>6. \A k : k # i /\ (k \in applied' <=> k \in applied) => (Explicit!Reads(k)' <=> Explicit!Reads(k))
  BY <1>1 DEF Explicit!Reads, Explicit!EffectFluents, Explicit!ConditionFluents
<1>7. ASSUME PlacesOK', KnownOK', AppliedOK', CollectedOK', UpToDate(i)',
             \A k \in DOMAIN operators \ {i} : (k \in applied' <=> k \in applied) /\ (UpToDate(k) => UpToDate(k)')
      PROVE  ExplicitInv'
  <2>1. \A k \in DOMAIN operators : k < turn' \/ ~Explicit!Reads(k)' => UpToDate(k)'
    <3> SUFFICES ASSUME NEW k \in DOMAIN operators, k < turn' \/ ~Explicit!Reads(k)', k # i
                 PROVE  UpToDate(k)
      BY <1>7
    <3>1. k < turn \/ ~Explicit!Reads(k)
      BY <1>1, <1>3, <1>6, <1>7
    <3> QED
      BY <1>2, <3>1 DEF RoundOK
  <2>2. RoundOK'
    <3>1. turn # 0 /\ turn' # 0 /\ turn' \in 0 .. (Len(operators) + 1)
      BY <1>1, <1>3
    <3> QED
      BY <1>1, <1>2, <1>4, <2>1, <3>1 DEF RoundOK, Explicit!Undecided, Explicit!None
  <2> QED
    BY <1>4, <1>7, <2>2 DEF ExplicitInv
<1>8. CASE ~Explicit!Reads(i)
  <2>1. UNCHANGED <<applied, collected, known, oldSizes, tried, repeated>>
    BY <1>1, <1>8 DEF Explicit!Consider
  <2>2. PlacesOK'
    BY <1>1, <1>2, <2>1 DEF PlacesOK, PlaceOK, ExpOf, Explicit!Sizes
  <2>3. KnownOK'
    BY <1>1, <1>2, <1>4, <2>1 DEF KnownOK
  <2>4. AppliedOK' /\ CollectedOK'
    BY <1>1, <1>2, <2>1, AppliedStays, StaticStays
  <2>5. \A k \in DOMAIN operators : UpToDate(k) => UpToDate(k)'
    BY <1>1, <2>1, UpToDateStays
  <2>6. UpToDate(i)
    BY <1>1, <1>2, <1>8 DEF RoundOK
  <2> QED
    BY <1>1, <1>7, <2>1, <2>2, <2>3, <2>4, <2>5, <2>6
<1>9. ASSUME CanApply(i), Explicit!ApplyEffects(i), \A e \in known' \ known : Speaks(e, DOMAIN assignments) /\ Explicit!CanBeTrue(e, Explicit!Layer),
             known \subseteq known'
      PROVE  ExplicitInv'
  <2>1. /\ PlacesOK' /\ AppliedOK' /\ CollectedOK'
        /\ UpToDate(i)'
        /\ applied' = applied \cup {i}
        /\ \A p : p[1] # i => /\ p \in DOMAIN oldSizes' <=> p \in DOMAIN oldSizes
                              /\ p \in DOMAIN oldSizes => oldSizes'[p] = oldSizes[p]
    BY <1>1, <1>2, <1>9, EffectsKeep
  <2>2. KnownOK'
    <3>1. \A e \in known' : Speaks(e, DOMAIN assignments') /\ Explicit!CanBeTrue(e, Explicit!Layer')
      BY <1>1, <1>2, <1>4, <1>9 DEF KnownOK
    <3>2. ASSUME NEW p \in DOMAIN oldSizes', p[1] = 0, p[3] \notin known', NEW c \in Upto(oldSizes'[p])
          PROVE  ValueAt(p[3], c)' # Explicit!True
      <4>1. p[1] # i
        BY <1>1, <1>3, <3>2
      <4>2. p \in DOMAIN oldSizes /\ oldSizes'[p] = oldSizes[p] /\ p[3] \notin known
        BY <1>9, <2>1, <3>2, <4>1
      <4>3. ValueAt(p[3], c) # Explicit!True
        BY <1>2, <3>2, <4>2 DEF KnownOK
      <4> QED
        BY <1>4, <4>3
    <3> QED
      BY <3>1, <3>2 DEF KnownOK
  <2>3. ASSUME NEW k \in DOMAIN operators \ {i}, UpToDate(k)
        PROVE  UpToDate(k)'
    <3>1. CASE CanApply(k)
      <4>1. \A j \in DOMAIN operators[k].effects :
              Explicit!AtEffect(k, j) \in DOMAIN oldSizes /\ Explicit!AtEffect(k, j)[1] # i
        BY <1>2, <2>3, <3>1 DEF UpToDate, AppliedOK, Explicit!AtEffect
      <4>2. \A j \in DOMAIN operators[k].effects : oldSizes'[Explicit!AtEffect(k, j)] = oldSizes[Explicit!AtEffect(k, j)]
        BY <2>1, <4>1
      <4>3. \A e : Explicit!Sizes(e)' = Explicit!Sizes(e)
        BY <1>1, ListsStay
      <4> QED
        BY <1>1, <2>1, <2>3, <3>1, <4>2, <4>3 DEF UpToDate, Explicit!AtEffect
    <3>2. CASE ~CanApply(k)
      BY <1>4, <3>2 DEF UpToDate
    <3> QED
      BY <3>1, <3>2
  <2> QED
    BY <1>7, <2>1, <2>2, <2>3
<1>10. CASE Explicit!Reads(i) /\ i \in applied
  <2>1. Explicit!ApplyEffects(i) /\ known' = known
    BY <1>1, <1>10 DEF Explicit!Consider
  <2>2. CanApply(i)
    BY <1>2, <1>10 DEF AppliedOK
  <2> QED
    BY <1>9, <2>1, <2>2
<1>11. CASE Explicit!Reads(i) /\ i \notin applied
  <2> DEFINE conditions == operators[i].conditions
             able == Explicit!Able(conditions)
  <2>1. IF Explicit!Range(conditions) \subseteq able
          THEN known' = known \cup able /\ Explicit!ApplyEffects(i)
          ELSE Explicit!Learned(conditions, able) /\ UNCHANGED <<applied, collected>>
    BY <1>1, <1>11 DEF Explicit!Consider
  <2>2. \A k \in DOMAIN conditions : conditions[k] \in able <=> Explicit!CanBeTrue(conditions[k], Explicit!Layer)
    BY <1>2, AbleIs
  <2>3. Explicit!Range(conditions) \subseteq able <=> CanApply(i)
    BY <2>2, ExplicitSetsAre DEF CanApply, Range
  <2>4. CASE CanApply(i)
    <3>1. able \subseteq Explicit!Range(conditions)
      BY DEF Explicit!Able
    <3>2. \A e \in able : Speaks(e, DOMAIN assignments) /\ Explicit!CanBeTrue(e, Explicit!Layer)
      BY <1>2, <2>2, <3>1, ExplicitSetsAre DEF Range
    <3>3. known' = known \cup able /\ Explicit!ApplyEffects(i)
      BY <2>1, <2>3, <2>4
    <3> QED
      BY <1>9, <2>4, <3>2, <3>3
  <2>5. CASE ~CanApply(i)
    <3>1. Explicit!Learned(conditions, able) /\ UNCHANGED <<applied, collected>>
      BY <2>1, <2>3, <2>5
    <3>2. /\ PlacesOK' /\ KnownOK'
          /\ \A p : p[1] # 0 => /\ p \in DOMAIN oldSizes' <=> p \in DOMAIN oldSizes
                                /\ p \in DOMAIN oldSizes => oldSizes'[p] = oldSizes[p]
      BY <1>1, <1>2, <3>1, LearnedKeeps
    <3>3. AppliedOK' /\ CollectedOK'
      BY <1>1, <1>2, <3>1, <3>2, AppliedStays, StaticStays
    <3>4. ASSUME NEW k \in DOMAIN operators \ {i}, UpToDate(k)
          PROVE  UpToDate(k)'
      <4>1. CASE CanApply(k)
        <5>1. \A j \in DOMAIN operators[k].effects :
                Explicit!AtEffect(k, j) \in DOMAIN oldSizes /\ Explicit!AtEffect(k, j)[1] # 0
          BY <1>2, <1>3, <3>4, <4>1 DEF UpToDate, AppliedOK, Explicit!AtEffect
        <5>2. \A j \in DOMAIN operators[k].effects : oldSizes'[Explicit!AtEffect(k, j)] = oldSizes[Explicit!AtEffect(k, j)]
          BY <3>2, <5>1
        <5>3. \A e : Explicit!Sizes(e)' = Explicit!Sizes(e)
          BY <1>1, ListsStay
        <5> QED
          BY <1>1, <3>1, <3>4, <4>1, <5>2, <5>3 DEF UpToDate, Explicit!AtEffect
      <4>2. CASE ~CanApply(k)
        BY <1>4, <4>2 DEF UpToDate
      <4> QED
        BY <4>1, <4>2
    <3>5. UpToDate(i)'
      BY <1>4, <2>5 DEF UpToDate
    <3> QED
      BY <1>7, <3>1, <3>2, <3>3, <3>4, <3>5
  <2> QED
    BY <2>4, <2>5
<1> QED
  BY <1>8, <1>10, <1>11

(* The end of a round puts what was collected at the end of the lists.       *)
LEMMA ListsGrow ==
  ASSUME ListsOK, CollectedOK, Explicit!EndRound
  PROVE  /\ ListsOK' /\ DOMAIN assignments' = DOMAIN assignments
         /\ \A f \in DOMAIN assignments :
              /\ Explicit!Layer'[f] = Explicit!Layer[f] \cup collected[f]
              /\ Len(assignments[f]) <= Len(assignments'[f]) /\ Len(assignments'[f]) \in Nat
              /\ \A k \in 1 .. Len(assignments[f]) : assignments'[f][k] = assignments[f][k]
              /\ f \in changes' <=> Explicit!Layer'[f] # Explicit!Layer[f]
              /\ f \notin changes' => assignments'[f] = assignments[f]
<1>1. /\ assignments' = [f \in DOMAIN assignments |-> assignments[f] \o Explicit!NewOf(f)]
      /\ changes' = {f \in DOMAIN assignments : collected[f] \ Explicit!Range(assignments[f]) # {}}
  BY DEF Explicit!EndRound
<1>2. ASSUME NEW f \in DOMAIN assignments
      PROVE  LET a == assignments[f]
                 b == assignments'[f]
             IN  /\ b \in Seq(Range(b)) /\ b # <<>> /\ IsInjective(b)
                 /\ Range(b) = Range(a) \cup collected[f]
                 /\ Len(a) <= Len(b) /\ Len(b) \in Nat
                 /\ \A k \in 1 .. Len(a) : b[k] = a[k]
                 /\ f \notin changes' => b = a
  <2> DEFINE a == assignments[f]
             new == collected[f] \ Range(a)
             s == Explicit!NewOf(f)
             b == assignments'[f]
             R == Range(a) \cup collected[f]
  <2>1. a \in Seq(Range(a)) /\ a # <<>> /\ IsInjective(a)
    BY DEF ListsOK
  <2>2. IsFiniteSet(new)
    BY FS_Difference DEF CollectedOK
  <2>3. s = Explicit!SetToSeq(new)
    BY ExplicitSetsAre DEF Explicit!NewOf
  <2>4. b = a \o s /\ (f \notin changes' => new = {})
    BY <1>1, ExplicitSetsAre
  <2> DEFINE n == Cardinality(new)
  <2>5. s \in [1 .. n -> new] /\ n \in Nat /\ IsInjective(s) /\ Range(s) = new /\ (new = {} => n = 0)
    <3> HIDE DEF s, new
    <3> QED
      BY <2>2, <2>3, SetAsSequence, FS_EmptySet
  <2>6. new \subseteq R /\ new \cap Range(a) = {} /\ Range(a) \cup new = R /\ Range(a) \subseteq R
    OBVIOUS
  <2> HIDE DEF a, b, s, n, new, R
  <2>7. s \in Seq(new) /\ Len(s) = n /\ DOMAIN s = 1 .. n
    BY <2>5
  <2>8. a \in Seq(R) /\ s \in Seq(R)
    BY <2>1, <2>6, <2>7, SeqMonotonic
  <2>9. /\ b \in Seq(R) /\ Len(b) = Len(a) + n
        /\ \A k \in 1 .. Len(a) + n : b[k] = IF k <= Len(a) THEN a[k] ELSE s[k - Len(a)]
    BY <2>4, <2>7, <2>8, ConcatProperties
  <2>10. /\ DOMAIN a = 1 .. Len(a) /\ Len(a) \in Nat /\ Len(a) # 0
         /\ DOMAIN b = 1 .. (Len(a) + n)
    BY <2>1, <2>9, EmptySeq, LenProperties
  <2>11. Range(b) = R
    <3>1. Range(b) = Range(a) \cup Range(s)
      BY <2>4, <2>8, RangeConcatenation
    <3> QED
      BY <2>5, <2>6, <3>1
  <2>12. IsInjective(b)
    <3>1. \A k \in 1 .. Len(a) : b[k] = a[k] /\ b[k] \in Range(a)
      BY <2>5, <2>9, <2>10 DEF Range
    <3>2. \A k \in (Len(a) + 1) .. (Len(a) + n) : b[k] = s[k - Len(a)] /\ k - Len(a) \in 1 .. n /\ b[k] \in new
      BY <2>5, <2>9, <2>10
    <3> SUFFICES ASSUME NEW j \in 1 .. (Len(a) + n), NEW k \in 1 .. (Len(a) + n), b[j] = b[k]
                 PROVE  j = k
      BY <2>10 DEF IsInjective
    <3>3. CASE j \in 1 .. Len(a) /\ k \in 1 .. Len(a)
      BY <2>1, <2>10, <3>1, <3>3 DEF IsInjective
    <3>4. CASE j \notin 1 .. Len(a) /\ k \notin 1 .. Len(a)
      <4>1. j \in (Len(a) + 1) .. (Len(a) + n) /\ k \in (Len(a) + 1) .. (Len(a) + n)
        BY <2>5, <2>10, <3>4
      <4>2. s[j - Len(a)] = s[k - Len(a)] /\ j - Len(a) \in DOMAIN s /\ k - Len(a) \in DOMAIN s
        BY <2>7, <3>2, <4>1
      <4>3. j - Len(a) = k - Len(a)
        BY <2>5, <4>2 DEF IsInjective
      <4> QED
        BY <2>10, <4>3
    <3>5. CASE ~(j \in 1 .. Len(a) <=> k \in 1 .. Len(a))
      <4>1. \/ b[j] \in Range(a) /\ b[k] \in new
            \/ b[k] \in Range(a) /\ b[j] \in new
        BY <2>5, <2>10, <3>1, <3>2, <3>5
      <4> QED
        BY <2>6, <4>1
    <3> QED
      BY <3>3, <3>4, <3>5
  <2>13. f \notin changes' => b = a
    <3> SUFFICES ASSUME f \notin changes' PROVE b = a
      OBVIOUS
    <3>1. n = 0
      BY <2>4, <2>5
    <3>2. s = <<>>
      BY <2>7, <3>1, EmptySeq
    <3> QED
      BY <2>4, <2>8, <3>2, ConcatEmptySeq
  <2>14. b \in Seq(Range(b)) /\ b # <<>> /\ Len(a) <= Len(b) /\ Len(b) \in Nat /\ \A k \in 1 .. Len(a) : b[k] = a[k]
    <3>1. b # <<>>
      BY <2>5, <2>9, <2>10, EmptySeq
    <3> QED
      BY <2>5, <2>9, <2>10, <2>11, <3>1
  <2> QED
    BY <2>11, <2>12, <2>13, <2>14 DEF a, b, R
<1>3. DOMAIN assignments' = DOMAIN assignments
  BY <1>1
<1>4. \A f \in DOMAIN assignments :
        Explicit!Layer[f] = Range(assignments[f]) /\ Explicit!Layer'[f] = Range(assignments'[f])
  BY <1>3, ExplicitSetsAre DEF Explicit!Layer
<1>5. ListsOK'
  BY <1>2, <1>3 DEF ListsOK
<1>6. \A f \in DOMAIN assignments : f \in changes' <=> Explicit!Layer'[f] # Explicit!Layer[f]
  <2> TAKE f \in DOMAIN assignments
  <2>1. f \in changes' <=> collected[f] \ Range(assignments[f]) # {}
    BY <1>1, ExplicitSetsAre
  <2> QED
    BY <1>2, <1>4, <2>1
<1> QED
  BY <1>2, <1>3, <1>4, <1>5, <1>6

(* What was said of the layer holds of a greater one.                        *)
LEMMA GrowthKeeps ==
  ASSUME ListsOK, CollectedOK, Explicit!EndRound, NEW e, Speaks(e, DOMAIN assignments)
  PROVE  LET n == Cardinality(Explicit!FluentSet(e))
         IN  /\ Explicit!Sizes(e)' \in [1 .. n -> Nat]
             /\ \A k \in 1 .. n : Explicit!Sizes(e)[k] <= Explicit!Sizes(e)'[k]
             /\ \A c \in Upto(Explicit!Sizes(e)) : ValueAt(e, c)' = ValueAt(e, c)
             /\ Explicit!CanBeTrue(e, Explicit!Layer) => Explicit!CanBeTrue(e, Explicit!Layer')
             /\ ValuationsIn(e, Explicit!Layer) \subseteq ValuationsIn(e, Explicit!Layer')
             /\ Explicit!FluentSet(e) \cap changes' = {} =>
                  /\ Explicit!Sizes(e)' = Explicit!Sizes(e)
                  /\ Explicit!CanBeTrue(e, Explicit!Layer') => Explicit!CanBeTrue(e, Explicit!Layer)
<1> DEFINE n == Cardinality(Explicit!FluentSet(e))
           fs == Explicit!FluentsOf(e)
<1>1. /\ ListsOK' /\ DOMAIN assignments' = DOMAIN assignments
      /\ \A f \in DOMAIN assignments :
              /\ Explicit!Layer[f] \subseteq Explicit!Layer'[f]
              /\ Len(assignments[f]) <= Len(assignments'[f]) /\ Len(assignments'[f]) \in Nat
              /\ \A k \in 1 .. Len(assignments[f]) : assignments'[f][k] = assignments[f][k]
              /\ f \notin changes' => assignments'[f] = assignments[f] /\ Explicit!Layer'[f] = Explicit!Layer[f]
  BY ListsGrow
<1>2. /\ n \in Nat /\ fs \in [1 .. n -> Explicit!FluentSet(e)] /\ DOMAIN fs = 1 .. n
      /\ Range(fs) = Explicit!FluentSet(e)
  BY FluentsAre
<1>3. /\ Explicit!Sizes(e) = [k \in 1 .. n |-> Len(assignments[fs[k]])]
      /\ Explicit!Sizes(e)' = [k \in 1 .. n |-> Len(assignments'[fs[k]])]
  BY <1>2 DEF Explicit!Sizes
<1>4. Explicit!FluentSet(e) \subseteq DOMAIN assignments
  BY DEF Speaks
<1> HIDE DEF n, fs
<1>5. /\ Explicit!Sizes(e)' \in [1 .. n -> Nat]
      /\ \A k \in 1 .. n : Explicit!Sizes(e)[k] <= Explicit!Sizes(e)'[k]
  BY <1>1, <1>2, <1>3, <1>4
<1>6. ASSUME NEW c \in Upto(Explicit!Sizes(e))
      PROVE  ValueAt(e, c)' = ValueAt(e, c)
  <2> DEFINE place(f) == CHOOSE k \in DOMAIN fs : fs[k] = f
  <2>1. /\ Explicit!Valuation(e, c) = [f \in Explicit!FluentSet(e) |-> assignments[f][c[place(f)]]]
        /\ Explicit!Valuation(e, c)' = [f \in Explicit!FluentSet(e) |-> assignments'[f][c[place(f)]]]
    BY DEF Explicit!Valuation, fs
  <2>2. \A f \in Explicit!FluentSet(e) : place(f) \in 1 .. n /\ fs[place(f)] = f
    BY <1>2 DEF Range
  <2> HIDE DEF place
  <2>3. \A k \in 1 .. n : c[k] \in 1 .. Len(assignments[fs[k]])
    BY <1>3 DEF Upto
  <2>4. \A f \in Explicit!FluentSet(e) : assignments'[f][c[place(f)]] = assignments[f][c[place(f)]]
    BY <1>1, <1>4, <2>2, <2>3
  <2>5. Explicit!Valuation(e, c)' = Explicit!Valuation(e, c)
    BY <2>1, <2>4
  <2> QED
    BY <2>5 DEF ValueAt
<1>7. ASSUME NEW s \in ValuationsIn(e, Explicit!Layer) PROVE s \in ValuationsIn(e, Explicit!Layer')
  <2>1. s = [f \in Explicit!FluentSet(e) |-> s[f]] /\ \A f \in Explicit!FluentSet(e) : s[f] \in Explicit!Layer'[f]
    BY <1>1, <1>4 DEF ValuationsIn
  <2>2. \A f \in Explicit!FluentSet(e) : s[f] \in UNION {Explicit!Layer'[g] : g \in Explicit!FluentSet(e)}
    BY <2>1
  <2> QED
    BY <2>1, <2>2 DEF ValuationsIn
<1>8. \A layer : Explicit!CanBeTrue(e, layer) <=> \E s \in ValuationsIn(e, layer) : Explicit!Evaluate(e, s) = Explicit!True
  BY DEF Explicit!CanBeTrue, ValuationsIn
<1>9. ASSUME Explicit!FluentSet(e) \cap changes' = {}
      PROVE  /\ Explicit!Sizes(e)' = Explicit!Sizes(e)
             /\ Explicit!CanBeTrue(e, Explicit!Layer') => Explicit!CanBeTrue(e, Explicit!Layer)
  <2>1. \A f \in Explicit!FluentSet(e) : assignments'[f] = assignments[f] /\ Explicit!Layer'[f] = Explicit!Layer[f]
    BY <1>1, <1>4, <1>9
  <2>2. Explicit!Sizes(e)' = Explicit!Sizes(e)
    BY <1>2, <1>3, <2>1
  <2>3. ASSUME NEW s \in ValuationsIn(e, Explicit!Layer') PROVE s \in ValuationsIn(e, Explicit!Layer)
    <3>1. s = [f \in Explicit!FluentSet(e) |-> s[f]] /\ \A f \in Explicit!FluentSet(e) : s[f] \in Explicit!Layer[f]
      BY <2>1 DEF ValuationsIn
    <3>2. \A f \in Explicit!FluentSet(e) : s[f] \in UNION {Explicit!Layer[g] : g \in Explicit!FluentSet(e)}
      BY <3>1
    <3> QED
      BY <3>1, <3>2 DEF ValuationsIn
  <2> QED
    BY <1>8, <2>2, <2>3
<1> QED
  BY <1>5, <1>6, <1>7, <1>8, <1>9 DEF n

(* What a state reached makes true, the layer can.                           *)
LEMMA ConditionInLayer ==
  ASSUME StaticOK, ReachableOK, NEW s \in reachable, NEW e, Condition(task, e),
         Explicit!Evaluate(e, s) = Explicit!True
  PROVE  Explicit!CanBeTrue(e, Explicit!Layer)
<1>1. \A f \in DOMAIN assignments :
        s[f] \in Explicit!Layer[f] \/ (f \notin DOMAIN task.start /\ s[f] = Explicit!False)
  BY DEF ReachableOK
<1>2. DOMAIN task.start \subseteq DOMAIN assignments
  BY DEF StaticOK, Explicit!FluentsIn
<1>3. \A f \in Explicit!FluentSet(e) : s[f] \in Explicit!Layer[f]
  <2>1. CASE Speaks(e, DOMAIN task.start)
    BY <1>1, <1>2, <2>1 DEF Speaks
  <2>2. CASE ~Speaks(e, DOMAIN task.start)
    <3>1. PICK f \in Explicit!FluentsIn(task) : e = <<Explicit!Fluent(f)>>
      BY <2>2 DEF Condition
    <3>2. Explicit!FluentSet(e) = {f}
      BY <3>1, FluentSetIs
    <3>3. Explicit!False # Explicit!True
      BY DEF Explicit!False, Explicit!True, Explicit!Truth
    <3>4. s[f] # Explicit!False
      BY <3>1, <3>3, EvaluateFluent
    <3> QED
      BY <1>1, <3>2, <3>4 DEF StaticOK
  <2> QED
    BY <2>1, <2>2
<1>4. \E t \in ValuationsIn(e, Explicit!Layer) : Explicit!Evaluate(e, t) = Explicit!True
  BY <1>3, StateInLayer
<1> QED
  BY <1>4 DEF Explicit!CanBeTrue, ValuationsIn

(* An operator that can be applied has given all it can.                     *)
LEMMA GivenInNext ==
  ASSUME ListsOK, StaticOK, AppliedOK, NEW i \in DOMAIN operators, CanApply(i), UpToDate(i),
         NEW f \in DOMAIN assignments
  PROVE  Explicit!Given(operators[i], f, Explicit!Layer) \subseteq Explicit!Layer[f] \cup collected[f]
<1> SUFFICES ASSUME NEW v \in Explicit!Given(operators[i], f, Explicit!Layer)
             PROVE  v \in Explicit!Layer[f] \cup collected[f]
  OBVIOUS
<1>1. PICK j \in DOMAIN operators[i].effects :
        /\ operators[i].effects[j].fluent = f
        /\ \E s \in ValuationsIn(operators[i].effects[j].value, Explicit!Layer) :
             v = Explicit!Evaluate(operators[i].effects[j].value, s)
  BY GivenIs
<1> DEFINE e == operators[i].effects[j].value
<1>2. Speaks(e, DOMAIN assignments)
  BY OperatorAt
<1>3. /\ oldSizes[Explicit!AtEffect(i, j)] = Explicit!Sizes(e)
      /\ \A c \in Upto(oldSizes[Explicit!AtEffect(i, j)]) : ValueAt(e, c) \in Explicit!Layer[f] \cup collected[f]
  BY <1>1 DEF UpToDate, AppliedOK
<1>4. PICK s \in ValuationsIn(e, Explicit!Layer) : v = Explicit!Evaluate(e, s)
  BY <1>1
<1> HIDE DEF e
<1>5. PICK c \in Upto(Explicit!Sizes(e)) : Explicit!Valuation(e, c) = s
  BY <1>2, ValuationHasPositions
<1> QED
  BY <1>3, <1>4, <1>5 DEF ValueAt

(* With every operator up to date, what was collected makes the next layer   *)
(* of the abstract specification, and an operator to be skipped then has     *)
(* nothing new to give.                                                      *)
LEMMA EndRoundKeeps ==
  ASSUME ExplicitInv, Explicit!EndRound
  PROVE  ExplicitInv' /\ Explicit!Layers!Advance
<1>1. /\ turn = Len(operators) + 1 /\ turn' = 0 /\ depth' = depth + 1
      /\ collected' = [f \in DOMAIN collected |-> {}]
      /\ reachable' = reachable \cup UNION {Explicit!Successors(s) : s \in reachable}
      /\ UNCHANGED <<task, operators, oldSizes, known, applied, answer, tried, repeated>>
  BY DEF Explicit!EndRound, Explicit!static
<1>2. StaticOK /\ ListsOK /\ PlacesOK /\ KnownOK /\ AppliedOK /\ CollectedOK /\ RoundOK /\ ReachableOK
  BY DEF ExplicitInv
<1>3. /\ DOMAIN operators = 1 .. Len(operators) /\ Len(operators) \in Nat /\ turn # 0
      /\ answer = Explicit!Undecided /\ changes # {} /\ ~GoalsPossible
  BY <1>1, <1>2, OperatorsAre DEF StaticOK, RoundOK
<1>4. \A i \in DOMAIN operators : UpToDate(i)
  BY <1>1, <1>2, <1>3 DEF RoundOK
<1>5. /\ ListsOK' /\ DOMAIN assignments' = DOMAIN assignments
      /\ \A f \in DOMAIN assignments :
           /\ Explicit!Layer'[f] = Explicit!Layer[f] \cup collected[f]
           /\ f \in changes' <=> Explicit!Layer'[f] # Explicit!Layer[f]
           /\ f \notin changes' => assignments'[f] = assignments[f]
  BY <1>2, ListsGrow
<1>6. StaticOK'
  BY <1>1, <1>2, <1>5 DEF StaticOK
<1>7. \A i \in DOMAIN operators : CanApply(i) => CanApply(i)'
  <2> SUFFICES ASSUME NEW i \in DOMAIN operators, CanApply(i), NEW k \in DOMAIN operators[i].conditions
               PROVE  Explicit!CanBeTrue(operators[i].conditions[k], Explicit!Layer')
    BY <1>1 DEF CanApply
  <2>1. Speaks(operators[i].conditions[k], DOMAIN assignments)
    BY <1>2, OperatorAt
  <2> QED
    BY <1>2, <2>1, GrowthKeeps DEF CanApply
<1>8. ASSUME NEW p \in DOMAIN oldSizes
      PROVE  /\ PlaceOK(p, ExpOf(p))'
             /\ \A c \in Upto(oldSizes[p]) : ValueAt(ExpOf(p), c)' = ValueAt(ExpOf(p), c)
             /\ ExpOf(p)' = ExpOf(p)
  <2> DEFINE e == ExpOf(p)
             n == Cardinality(Explicit!FluentSet(e))
  <2>1. ExpOf(p)' = ExpOf(p)
    BY <1>1 DEF ExpOf
  <2>2. PlaceOK(p, e)
    BY <1>2 DEF PlacesOK
  <2>3. e' = e
    BY <2>1
  <2> HIDE DEF e
  <2>4. /\ Speaks(e, DOMAIN assignments) /\ oldSizes[p] \in [1 .. n -> Nat]
        /\ \A k \in 1 .. n : oldSizes[p][k] <= Explicit!Sizes(e)[k]
    BY <2>2 DEF PlaceOK
  <2>5. /\ Explicit!Sizes(e) \in [1 .. n -> Nat] /\ Explicit!Sizes(e)' \in [1 .. n -> Nat]
        /\ \A k \in 1 .. n : Explicit!Sizes(e)[k] <= Explicit!Sizes(e)'[k]
        /\ \A c \in Upto(Explicit!Sizes(e)) : ValueAt(e, c)' = ValueAt(e, c)
    BY <1>2, <2>3, <2>4, SizesAre, GrowthKeeps
  <2>7. \A k \in 1 .. n : oldSizes[p][k] <= Explicit!Sizes(e)'[k]
    <3> HIDE DEF n
    <3> QED
      BY <2>4, <2>5
  <2>8. PlaceOK(p, e)'
    BY <1>1, <1>5, <2>3, <2>4, <2>7 DEF PlaceOK
  <2>9. Upto(oldSizes[p]) \subseteq Upto(Explicit!Sizes(e))
    <3> HIDE DEF n
    <3> QED
      BY <2>4, <2>5, UptoGrows
  <2> QED
    BY <2>1, <2>5, <2>8, <2>9 DEF e
<1>9. PlacesOK'
  BY <1>1, <1>2, <1>8 DEF PlacesOK
<1>10. KnownOK'
  <2>1. ASSUME NEW e \in known
        PROVE  Speaks(e, DOMAIN assignments') /\ Explicit!CanBeTrue(e, Explicit!Layer')
    <3>1. Speaks(e, DOMAIN assignments) /\ Explicit!CanBeTrue(e, Explicit!Layer)
      BY <1>2 DEF KnownOK
    <3> QED
      BY <1>2, <1>5, <3>1, GrowthKeeps
  <2>2. ASSUME NEW p \in DOMAIN oldSizes, p[1] = 0, p[3] \notin known, NEW c \in Upto(oldSizes[p])
        PROVE  ValueAt(p[3], c)' # Explicit!True
    <3>1. ExpOf(p) = p[3] /\ ExpOf(p)' = p[3]
      BY <2>2 DEF ExpOf
    <3>2. ValueAt(p[3], c) # Explicit!True
      BY <1>2, <2>2 DEF KnownOK
    <3> QED
      BY <1>8, <2>2, <3>1, <3>2
  <2> QED
    BY <1>1, <2>1, <2>2 DEF KnownOK
<1>11. ASSUME NEW i \in DOMAIN operators, NEW j \in DOMAIN operators[i].effects, i \in applied
       PROVE  /\ Explicit!AtEffect(i, j) \in DOMAIN oldSizes
              /\ \A c \in Upto(oldSizes[Explicit!AtEffect(i, j)]) :
                   /\ ValueAt(operators[i].effects[j].value, c)' = ValueAt(operators[i].effects[j].value, c)
                   /\ ValueAt(operators[i].effects[j].value, c) \in Explicit!Layer'[operators[i].effects[j].fluent]
  <2> DEFINE p == Explicit!AtEffect(i, j)
             e == operators[i].effects[j].value
             f == operators[i].effects[j].fluent
  <2>1. p \in DOMAIN oldSizes /\ \A c \in Upto(oldSizes[p]) : ValueAt(e, c) \in Explicit!Layer[f] \cup collected[f]
    BY <1>2, <1>11 DEF AppliedOK
  <2>2. ExpOf(p) = e /\ e' = e
    BY <1>1, <1>3 DEF ExpOf, Explicit!AtEffect
  <2>3. f \in DOMAIN assignments
    BY <1>2, OperatorAt
  <2> HIDE DEF p, e, f
  <2>4. \A c \in Upto(oldSizes[p]) : ValueAt(e, c)' = ValueAt(e, c)
    BY <1>8, <2>1, <2>2
  <2>5. \A c \in Upto(oldSizes[p]) : ValueAt(e, c) \in Explicit!Layer'[f]
    BY <1>5, <2>1, <2>3
  <2> QED
    BY <1>1, <2>1, <2>4, <2>5 DEF p, e, f
<1>12. AppliedOK'
  <2>1. \A i \in applied' : CanApply(i)'
    BY <1>1, <1>2, <1>7 DEF AppliedOK
  <2>2. ASSUME NEW i \in DOMAIN operators, NEW j \in DOMAIN operators[i].effects
        PROVE  /\ Explicit!AtEffect(i, j) \in DOMAIN oldSizes' <=> i \in applied'
               /\ i \in applied' =>
                    \A c \in Upto(oldSizes'[Explicit!AtEffect(i, j)]) :
                      ValueAt(operators[i].effects[j].value, c)' \in Explicit!Layer'[operators[i].effects[j].fluent]
    <3>1. Explicit!AtEffect(i, j) \in DOMAIN oldSizes <=> i \in applied
      BY <1>2 DEF AppliedOK
    <3> QED
      BY <1>1, <1>11, <3>1
  <2> QED
    BY <1>1, <1>2, <2>1, <2>2 DEF AppliedOK, Explicit!AtEffect
<1>13. CollectedOK'
  BY <1>1, <1>2, <1>5, FS_EmptySet DEF CollectedOK
<1>14. RoundOK'
  <2>1. ASSUME NEW i \in DOMAIN operators, ~Explicit!Reads(i)', CanApply(i)'
        PROVE  i \in applied /\ \A j \in DOMAIN operators[i].effects :
                 oldSizes[Explicit!AtEffect(i, j)] = Explicit!Sizes(operators[i].effects[j].value)'
    <3>1. CASE i \notin applied
      <4>1. changes' \cap Explicit!ConditionFluents(operators[i]) = {}
        BY <1>1, <2>1, <3>1 DEF Explicit!Reads
      <4>2. ASSUME NEW k \in DOMAIN operators[i].conditions
            PROVE  Explicit!CanBeTrue(operators[i].conditions[k], Explicit!Layer)
        <5>1. Speaks(operators[i].conditions[k], DOMAIN assignments)
          BY <1>2, OperatorAt
        <5>2. Explicit!FluentSet(operators[i].conditions[k]) \cap changes' = {}
          BY <4>1 DEF Explicit!ConditionFluents
        <5>3. Explicit!CanBeTrue(operators[i].conditions[k], Explicit!Layer')
          BY <1>1, <2>1 DEF CanApply
        <5> QED
          BY <1>2, <5>1, <5>2, <5>3, GrowthKeeps
      <4>3. i \in applied
        BY <1>4, <4>2 DEF CanApply, UpToDate
      <4> QED
        BY <3>1, <4>3
    <3>2. CASE i \in applied
      <4>1. changes' \cap Explicit!EffectFluents(operators[i]) = {}
        BY <1>1, <2>1, <3>2 DEF Explicit!Reads
      <4>2. \A j \in DOMAIN operators[i].effects :
              oldSizes[Explicit!AtEffect(i, j)] = Explicit!Sizes(operators[i].effects[j].value)
        BY <1>2, <1>4, <3>2 DEF AppliedOK, UpToDate
      <4>3. ASSUME NEW j \in DOMAIN operators[i].effects
            PROVE  Explicit!Sizes(operators[i].effects[j].value)' = Explicit!Sizes(operators[i].effects[j].value)
        <5> DEFINE e == operators[i].effects[j].value
        <5>1. Speaks(e, DOMAIN assignments) /\ e' = e
          BY <1>1, <1>2, OperatorAt
        <5>2. Explicit!FluentSet(e) \cap changes' = {}
          BY <4>1 DEF Explicit!EffectFluents
        <5> HIDE DEF e
        <5>3. Explicit!Sizes(e)' = Explicit!Sizes(e)
          BY <1>2, <5>1, <5>2, GrowthKeeps
        <5> QED
          BY <5>3 DEF e
      <4> QED
        BY <3>2, <4>2, <4>3
    <3> QED
      BY <3>1, <3>2
  <2>2. \A i \in DOMAIN operators' : i < turn' \/ ~Explicit!Reads(i)' => UpToDate(i)'
    <3>1. \A i \in DOMAIN operators : i \notin Int \/ ~(i < 0)
      BY <1>3
    <3>2. ASSUME NEW i \in DOMAIN operators, ~Explicit!Reads(i)' PROVE UpToDate(i)'
      BY <1>1, <2>1, <3>2 DEF UpToDate, Explicit!AtEffect
    <3> QED
      BY <1>1, <1>3, <3>2
  <2>3. changes' \subseteq DOMAIN assignments'
    BY <1>5 DEF Explicit!EndRound
  <2>4. changes' = {} => ~GoalsPossible'
    <3> SUFFICES ASSUME changes' = {} PROVE ~GoalsPossible'
      OBVIOUS
    <3>1. PICK k \in DOMAIN Explicit!Goals : ~Explicit!CanBeTrue(Explicit!Goals[k], Explicit!Layer)
      BY <1>3 DEF GoalsPossible
    <3>2. Speaks(Explicit!Goals[k], DOMAIN assignments) /\ Explicit!Goals' = Explicit!Goals
      BY <1>1, <1>2, GoalSpeaks, MappingStays
    <3> DEFINE e == Explicit!Goals[k]
    <3> HIDE DEF e
    <3>3. ~Explicit!CanBeTrue(e, Explicit!Layer')
      BY <1>2, <3>1, <3>2, GrowthKeeps DEF e
    <3> QED
      BY <3>2, <3>3 DEF GoalsPossible, e
  <2>5. Len(operators') \in Nat /\ depth' \in Nat
    BY <1>1, <1>2, <1>3 DEF RoundOK
  <2> QED
    BY <1>1, <1>3, <2>2, <2>3, <2>4, <2>5 DEF RoundOK, Explicit!Undecided, Explicit!None
<1>15. \A i \in DOMAIN operators : CanApply(i) =>
         \A f \in DOMAIN assignments : Explicit!Given(operators[i], f, Explicit!Layer) \subseteq Explicit!Layer'[f]
  <2> SUFFICES ASSUME NEW i \in DOMAIN operators, CanApply(i), NEW f \in DOMAIN assignments
               PROVE  Explicit!Given(operators[i], f, Explicit!Layer) \subseteq Explicit!Layer'[f]
    OBVIOUS
  <2>1. Explicit!Given(operators[i], f, Explicit!Layer) \subseteq Explicit!Layer[f] \cup collected[f]
    BY <1>2, <1>4, GivenInNext
  <2> QED
    BY <1>5, <2>1
<1>16. ReachableOK'
  <2> DEFINE In(s) == /\ DOMAIN s = DOMAIN assignments
                      /\ \A f \in DOMAIN s : s[f] \in Explicit!Layer'[f] \/ (f \notin DOMAIN task.start /\ s[f] = Explicit!False)
  <2>1. \A s \in reachable : In(s)
    BY <1>2, <1>5 DEF ReachableOK
  <2>2. ASSUME NEW s \in reachable, NEW i \in DOMAIN operators,
               \A k \in DOMAIN operators[i].conditions : Explicit!Evaluate(operators[i].conditions[k], s) = Explicit!True
        PROVE  In(Explicit!Occur(operators[i], s))
    <3> DEFINE o == operators[i]
               t == Explicit!Occur(o, s)
               before == Explicit!Before(task, o.event[1], o.event[2])
               giving(f) == {j \in DOMAIN o.effects : o.effects[j].fluent = f}
    <3>1. /\ o \in Explicit!OperatorsOf(task) /\ task \in ExplicitTasks
          /\ DOMAIN s = DOMAIN assignments /\ DOMAIN task.start \subseteq DOMAIN assignments
      BY <1>2, OperatorAt DEF StaticOK, ReachableOK, Explicit!FluentsIn
    <3>2. /\ \A k \in DOMAIN o.conditions : Condition(task, o.conditions[k])
          /\ \A j \in DOMAIN o.effects : Effect(task, o.effects[j])
          /\ before \notin DOMAIN task.start
      <4> HIDE DEF o
      <4> QED
        BY <3>1, OperatorIs
    <3>3. CanApply(i)
      BY <1>2, <2>2, <3>2, ConditionInLayer DEF CanApply
    <3>4. t = [f \in DOMAIN s |->
                 IF giving(f) # {} THEN Explicit!Evaluate(o.effects[CHOOSE j \in giving(f) : TRUE].value, s)
                 ELSE IF f = before THEN Explicit!False ELSE s[f]]
      BY DEF Explicit!Occur
    <3> SUFFICES ASSUME NEW f \in DOMAIN assignments
                 PROVE  t[f] \in Explicit!Layer'[f] \/ (f \notin DOMAIN task.start /\ t[f] = Explicit!False)
      BY <3>1, <3>4
    <3>5. CASE giving(f) # {}
      <4>1. PICK j \in giving(f) : t[f] = Explicit!Evaluate(o.effects[j].value, s)
        BY <3>1, <3>4, <3>5
      <4>2. Speaks(o.effects[j].value, DOMAIN task.start)
        BY <3>2, <4>1 DEF Effect
      <4>3. \A g \in Explicit!FluentSet(o.effects[j].value) : s[g] \in Explicit!Layer[g]
        BY <1>2, <3>1, <4>2 DEF ReachableOK, Speaks
      <4>4. \E u \in ValuationsIn(o.effects[j].value, Explicit!Layer) : t[f] = Explicit!Evaluate(o.effects[j].value, u)
        BY <4>1, <4>3, StateInLayer
      <4>5. t[f] \in Explicit!Given(o, f, Explicit!Layer)
        BY <4>1, <4>4, GivenIs
      <4> QED
        BY <1>15, <3>3, <4>5
    <3>6. CASE giving(f) = {} /\ f = before
      BY <3>1, <3>2, <3>4, <3>6
    <3>7. CASE giving(f) = {} /\ f # before
      <4>1. t[f] = s[f]
        BY <3>1, <3>4, <3>7
      <4> QED
        BY <2>1, <3>1, <4>1
    <3> QED
      BY <3>5, <3>6, <3>7
  <2>3. \A s \in reachable : \A t \in Explicit!Successors(s) : In(t)
    <3> SUFFICES ASSUME NEW s \in reachable, NEW t \in Explicit!Successors(s) PROVE In(t)
      OBVIOUS
    <3>1. PICK o \in Range(operators) :
            /\ \A k \in DOMAIN o.conditions : Explicit!Evaluate(o.conditions[k], s) = Explicit!True
            /\ t = Explicit!Occur(o, s)
      BY ExplicitSetsAre DEF Explicit!Successors
    <3>2. PICK i \in DOMAIN operators : o = operators[i]
      BY DEF Range
    <3> HIDE DEF In
    <3> QED
      BY <2>2, <3>1, <3>2
  <2>4. \A s \in reachable' : In(s)
    <3> HIDE DEF In
    <3> QED
      BY <1>1, <2>1, <2>3
  <2> QED
    BY <1>1, <1>5, <2>4 DEF ReachableOK
<1>17. Explicit!Layers!Advance
  <2> DEFINE mapped == {[conditions |-> Explicit!Range(operators[i].conditions), effects |-> operators[i].effects] :
                          i \in DOMAIN operators}
             able == {o \in mapped : Explicit!Layers!Possible(o.conditions, Explicit!Layer)}
  <2>1. ~Explicit!Layers!Possible(Explicit!Range(Explicit!Goals), Explicit!Layer)
    BY <1>3, ExplicitSetsAre DEF Explicit!Layers!Possible, GoalsPossible, Range
  <2>2. \A f, v : (\E o \in able : v \in Explicit!Given(o, f, Explicit!Layer))
                   <=> \E i \in DOMAIN operators : CanApply(i) /\ v \in Explicit!Given(operators[i], f, Explicit!Layer)
    <3> TAKE f, v
    <3>1. ASSUME NEW i \in DOMAIN operators
          PROVE  LET o == [conditions |-> Explicit!Range(operators[i].conditions), effects |-> operators[i].effects]
                 IN  /\ Explicit!Given(o, f, Explicit!Layer) = Explicit!Given(operators[i], f, Explicit!Layer)
                     /\ Explicit!Layers!Possible(o.conditions, Explicit!Layer) <=> CanApply(i)
      <4>1. \A o : o.effects = operators[i].effects =>
                    Explicit!Given(o, f, Explicit!Layer) = Explicit!Given(operators[i], f, Explicit!Layer)
        BY DEF Explicit!Given
      <4>2. Explicit!Layers!Possible(Explicit!Range(operators[i].conditions), Explicit!Layer) <=> CanApply(i)
        BY ExplicitSetsAre DEF Explicit!Layers!Possible, CanApply, Range
      <4> QED
        BY <4>1, <4>2
    <3> QED
      BY <3>1
  <2>3. Explicit!Layer' = Explicit!Layers!Following(able, Explicit!Layer)
    <3> DEFINE next == Explicit!Layers!Following(able, Explicit!Layer)
    <3>1. next = [f \in DOMAIN Explicit!Layer |->
                    Explicit!Layer[f] \cup UNION {Explicit!Given(o, f, Explicit!Layer) : o \in able}]
      BY DEF Explicit!Layers!Following
    <3>2. DOMAIN Explicit!Layer = DOMAIN assignments /\ DOMAIN Explicit!Layer' = DOMAIN assignments
          /\ Explicit!Layer' = [f \in DOMAIN assignments |-> Explicit!Layer'[f]]
      BY <1>5 DEF Explicit!Layer
    <3> HIDE DEF able, mapped
    <3>3. ASSUME NEW f \in DOMAIN assignments PROVE Explicit!Layer'[f] = next[f]
      <4>1. \A v : v \in next[f] <=> v \in Explicit!Layer[f] \/ \E o \in able : v \in Explicit!Given(o, f, Explicit!Layer)
        BY <3>1, <3>2
      <4> HIDE DEF next
      <4>2. \A v \in next[f] : v \in Explicit!Layer'[f]
        BY <1>5, <1>15, <2>2, <4>1
      <4>3. \A v \in Explicit!Layer'[f] : v \in next[f]
        BY <1>2, <1>5, <2>2, <4>1 DEF CollectedOK
      <4> QED
        BY <4>2, <4>3
    <3> HIDE DEF next
    <3>4. next = [f \in DOMAIN assignments |-> next[f]]
      BY <3>1, <3>2 DEF next
    <3> QED
      BY <3>2, <3>3, <3>4 DEF next
  <2>4. (changes' # {}) = (Explicit!Layer' # Explicit!Layer)
    <3>1. changes' \subseteq DOMAIN assignments
      BY DEF Explicit!EndRound
    <3>2. Explicit!Layer' = Explicit!Layer <=> \A f \in DOMAIN assignments : Explicit!Layer'[f] = Explicit!Layer[f]
      BY <1>5 DEF Explicit!Layer
    <3> QED
      BY <1>5, <3>1, <3>2
  <2>5. UNCHANGED <<mapped, Explicit!Range(Explicit!Goals), answer>>
    BY <1>1, MappingStays
  <2>6. \E able1 \in {able} : Explicit!Layer' = Explicit!Layers!Following(able1, Explicit!Layer)
    BY <2>3
  <2> QED
    BY <1>1, <1>3, <2>1, <2>4, <2>5, <2>6 DEF Explicit!Layers!Advance
<1> QED
  BY <1>2, <1>5, <1>6, <1>9, <1>10, <1>12, <1>13, <1>14, <1>16, <1>17 DEF ExplicitInv

-----------------------------------------------------------------------------
(* A behaviour.                                                              *)

(* At first every fluent has one value, and every operator has something to  *)
(* look at.                                                                  *)
LEMMA ExplicitInit ==
  ASSUME Explicit!Init
  PROVE  ExplicitInv /\ Explicit!Layers!Init
<1> DEFINE start == Explicit!Beginning(task)
<1>1. /\ task \in ExplicitTasks
      /\ operators = Explicit!SetToSeq(Explicit!OperatorsOf(task))
      /\ assignments = [f \in DOMAIN start |-> <<start[f]>>]
      /\ oldSizes = <<>> /\ known = {} /\ tried = <<>> /\ repeated = FALSE
      /\ applied = {} /\ changes = DOMAIN start /\ collected = [f \in DOMAIN start |-> {}]
      /\ turn = 0 /\ depth = 0 /\ answer = Explicit!Undecided /\ reachable = {start}
  BY DEF Explicit!Init
<1>2. DOMAIN start = Explicit!FluentsIn(task)
  BY DEF Explicit!Beginning
<1> HIDE DEF start
<1>3. StaticOK
  BY <1>1, <1>2 DEF StaticOK
<1>4. /\ DOMAIN operators = 1 .. Len(operators) /\ Len(operators) \in Nat
  BY <1>1, OperatorsAre
<1>5. ListsOK /\ \A f \in DOMAIN start : Explicit!Layer[f] = {start[f]}
  <2>1. ASSUME NEW f \in DOMAIN start
        PROVE  /\ assignments[f] \in Seq(Range(assignments[f])) /\ assignments[f] # <<>>
               /\ IsInjective(assignments[f]) /\ Range(assignments[f]) = {start[f]}
    <3> DEFINE v == start[f]
    <3>1. assignments[f] = <<v>>
      BY <1>1
    <3> HIDE DEF v
    <3>2. Range(<<v>>) = {v} /\ IsInjective(<<v>>)
      BY DEF Range, IsInjective
    <3>3. <<v>> \in Seq({v}) /\ <<v>> # <<>>
      OBVIOUS
    <3> QED
      BY <3>1, <3>2, <3>3 DEF v
  <2>2. ListsOK
    BY <1>1, <2>1 DEF ListsOK
  <2>3. \A f \in DOMAIN start : Explicit!Layer[f] = Range(assignments[f])
    BY <1>1, ExplicitSetsAre DEF Explicit!Layer
  <2> QED
    BY <2>1, <2>2, <2>3
<1>6. DOMAIN oldSizes = {} /\ DOMAIN tried = {}
  BY <1>1
<1>7. PlacesOK /\ KnownOK
  BY <1>1, <1>6 DEF PlacesOK, KnownOK
<1>8. AppliedOK
  BY <1>1, <1>6 DEF AppliedOK
<1>9. CollectedOK
  BY <1>1, FS_EmptySet DEF CollectedOK
<1>10. \A i \in DOMAIN operators : Explicit!Reads(i)
  <2> SUFFICES ASSUME NEW i \in DOMAIN operators PROVE Explicit!Reads(i)
    OBVIOUS
  <2>1. PICK k \in DOMAIN operators[i].conditions : Explicit!FluentSet(operators[i].conditions[k]) # {}
    BY <1>3, OperatorAt
  <2>2. Explicit!FluentSet(operators[i].conditions[k]) \subseteq changes
    BY <1>1, <1>3, OperatorAt DEF Speaks
  <2>3. Explicit!FluentSet(operators[i].conditions[k]) \subseteq Explicit!ConditionFluents(operators[i])
    BY DEF Explicit!ConditionFluents
  <2> QED
    BY <1>1, <2>1, <2>2, <2>3 DEF Explicit!Reads
<1>11. changes # {}
  <2> DEFINE n == Len(task.start)
  <2>1. 1 \in DOMAIN task.start
    <3>1. DOMAIN task.start = 1 .. n /\ n \in Nat \ {0}
      BY <1>1, HeuristicsAssumption DEF Explicit!TasksAssumption
    <3> QED
      BY <3>1
  <2> QED
    BY <1>1, <1>2, <2>1 DEF Explicit!FluentsIn
<1>12. RoundOK
  BY <1>1, <1>4, <1>10, <1>11 DEF RoundOK, Explicit!Undecided, Explicit!None
<1>13. ReachableOK
  BY <1>1, <1>5 DEF ReachableOK
<1>14. Explicit!Layers!Init
  BY <1>1, <1>11 DEF Explicit!Layers!Init
<1> QED
  BY <1>3, <1>5, <1>7, <1>8, <1>9, <1>12, <1>13, <1>14 DEF ExplicitInv

(* Every step of an evaluation keeps the invariant, and is one of the        *)
(* abstract specification or none.                                           *)
LEMMA ExplicitNext ==
  ASSUME ExplicitInv, Explicit!Next
  PROVE  ExplicitInv' /\ LayersStep
<1>1. CASE Explicit!TestGoal
  BY <1>1, TestGoalKeeps
<1>2. CASE Explicit!Operate
  BY <1>2, OperateKeeps
<1>3. CASE Explicit!EndRound
  BY <1>3, EndRoundKeeps DEF LayersStep, Explicit!Layers!Next
<1> QED
  BY <1>1, <1>2, <1>3 DEF Explicit!Next

(* It is about the variables of the evaluation only.                         *)
LEMMA ExplicitStutters ==
  ASSUME ExplicitInv,
         UNCHANGED <<task, answer, operators, assignments, oldSizes, known, applied, changes,
                     collected, turn, depth, tried, repeated, reachable>>
  PROVE  ExplicitInv'
<1>1. StaticOK /\ ListsOK /\ PlacesOK /\ KnownOK /\ AppliedOK /\ CollectedOK /\ RoundOK /\ ReachableOK
  BY DEF ExplicitInv
<1>2. /\ StaticOK' /\ CollectedOK' /\ ReachableOK'
      /\ GoalsPossible' <=> GoalsPossible
  BY <1>1, StaticStays
<1>3. ListsOK' /\ Explicit!Layer' = Explicit!Layer
  BY <1>1, ListsStay
<1>4. PlacesOK'
  BY <1>1 DEF PlacesOK, PlaceOK, ExpOf, Explicit!Sizes
<1>5. KnownOK'
  BY <1>1, <1>3, ListsStay DEF KnownOK
<1>6. AppliedOK'
  BY <1>1, AppliedStays
<1>7. \A k \in DOMAIN operators : /\ UpToDate(k) => UpToDate(k)'
                                  /\ Explicit!Reads(k)' <=> Explicit!Reads(k)
  <2>1. \A k \in DOMAIN operators : UpToDate(k) => UpToDate(k)'
    BY UpToDateStays
  <2> QED
    BY <2>1 DEF Explicit!Reads, Explicit!EffectFluents, Explicit!ConditionFluents
<1>8. RoundOK'
  BY <1>1, <1>2, <1>7 DEF RoundOK, Explicit!Undecided, Explicit!None
<1> QED
  BY <1>2, <1>3, <1>4, <1>5, <1>6, <1>8 DEF ExplicitInv

(* What the run checks of an evaluation follows: no combination is looked at *)
(* twice, and a goal that some events reach is possible in the layer.        *)
LEMMA ExplicitShows ==
  ASSUME ExplicitInv
  PROVE  Explicit!TypeOK /\ Explicit!NeverTwice /\ Explicit!Admissible
<1>1. StaticOK /\ ListsOK /\ PlacesOK /\ KnownOK /\ AppliedOK /\ CollectedOK /\ RoundOK /\ ReachableOK
  BY DEF ExplicitInv
<1>2. Explicit!TypeOK
  <2>1. \A f \in DOMAIN assignments : assignments[f] # <<>> /\ Explicit!IsInjective(assignments[f])
    BY <1>1, ExplicitSetsAre DEF ListsOK
  <2> QED
    BY <1>1, <2>1 DEF RoundOK, AppliedOK, Explicit!TypeOK
<1>3. Explicit!NeverTwice
  BY <1>1 DEF PlacesOK, Explicit!NeverTwice
<1>4. Explicit!Admissible
  <2> SUFFICES ASSUME NEW s \in reachable,
                      \A k \in DOMAIN Explicit!Goals : Explicit!Evaluate(Explicit!Goals[k], s) = Explicit!True
               PROVE  turn = 0 /\ answer # Explicit!None
    BY DEF Explicit!Admissible, Explicit!GoalHolds
  <2>1. \A k \in DOMAIN Explicit!Goals : Explicit!CanBeTrue(Explicit!Goals[k], Explicit!Layer)
    BY <1>1, GoalsAre, ConditionInLayer
  <2>2. GoalsPossible
    BY <2>1 DEF GoalsPossible
  <2> QED
    BY <1>1, <2>2 DEF RoundOK
<1> QED
  BY <1>2, <1>3, <1>4

(* While another part runs, there is no evaluation.                          *)
XInv == part = "explicit" => ExplicitInv

(* Every step of the specification keeps the invariant.                      *)
LEMMA NextXInv == XInv /\ [Next]_vars => XInv' /\ (ExplicitStep => LayersStep)
<1> SUFFICES ASSUME XInv, [Next]_vars PROVE XInv' /\ (ExplicitStep => LayersStep)
  OBVIOUS
<1>1. CASE ExplicitStep
  <2>1. part = "explicit" /\ part' = part /\ Explicit!Next
    BY <1>1 DEF ExplicitStep
  <2> QED
    BY <2>1, ExplicitNext DEF XInv
<1>2. CASE ~ExplicitStep /\ Next
  <2>1. part # "explicit" /\ part' = part
    BY <1>2 DEF Next, RelaxationStep, ConditionsStep, NoveltyStep
  <2> QED
    BY <1>2, <2>1 DEF XInv
<1>3. CASE ~ExplicitStep /\ UNCHANGED vars
  <2>1. part' = part
    BY <1>3 DEF vars
  <2>2. UNCHANGED <<task, answer, operators, assignments, oldSizes, known, applied, changes,
                    collected, turn, depth, tried, repeated, reachable>>
    BY <1>3 DEF vars, ofExplicit
  <2> QED
    BY <1>3, <2>1, <2>2, ExplicitStutters DEF XInv
<1> QED
  BY <1>1, <1>2, <1>3

(* The explicit hmax computes the layers of the abstract specification,      *)
(* although it skips operators whose fluents did not change, remembers what  *)
(* can be true and evaluates nothing twice; its answer overestimates no      *)
(* sequence of events, for all problems.                                     *)
THEOREM LayersWithoutRepetition == Spec => KeepsLayers
<1>1. Init => XInv /\ (part = "explicit" => Explicit!Layers!Init)
  <2> SUFFICES ASSUME Init, part = "explicit" PROVE ExplicitInv /\ Explicit!Layers!Init
    BY DEF XInv
  <2>1. Explicit!Init
    BY DEF Init
  <2> QED
    BY <2>1, ExplicitInit
<1>2. XInv => (part = "explicit" => Explicit!TypeOK /\ Explicit!NeverTwice /\ Explicit!Admissible)
  BY ExplicitShows DEF XInv
<1>3. XInv /\ [Next]_vars => [ExplicitStep => [Explicit!Layers!Next]_(Explicit!Layers!vars)]_vars
  BY NextXInv DEF LayersStep
<1> QED
  BY <1>1, <1>2, <1>3, NextXInv, PTL DEF Spec, KeepsLayers
=============================================================================

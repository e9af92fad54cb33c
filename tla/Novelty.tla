------------------------------ MODULE Novelty ------------------------------
(****************************************************************************)
(* The novelty of a generated state: 1 if one of its features is new, 2 if   *)
(* only a pair of features is, 3 if nothing is. A feature is a subgoal that  *)
(* the parent does not satisfy, or a numeric subgoal that came closer. What  *)
(* was seen is kept apart for each partition of the states by their          *)
(* heuristic value.                                                          *)
(*                                                                           *)
(* A behaviour starts a search and evaluates states, in the order they are   *)
(* generated, as children of one expanded state after the other. Only the    *)
(* subgoals whose fluents may have changed are evaluated in a child; for the *)
(* others the parent's features are looked up in caches that live for one    *)
(* expansion.                                                                *)
(*                                                                           *)
(* A subgoal ("leaf") is a proposition or a comparison of two operands; an   *)
(* operand is a constant or a fluent.                                        *)
(****************************************************************************)
EXTENDS Integers, FiniteSets, FiniteSetsExt, Functions

CONSTANTS
  Leaves,      \* the subgoals of the problem, by id
  States,      \* assignments of the fluents
  MaxH,        \* heuristic values are 0 .. MaxH
  MaxEvals,    \* how many states are evaluated in one search
  MaxStarts    \* how many searches use the instance

LeafId == DOMAIN Leaves
Fluent == DOMAIN (CHOOSE s \in States : TRUE)
Partition == 0 .. MaxH
NoSnapshot == <<>>

Operand(o, s) == IF "is" \in DOMAIN o THEN o.is ELSE s[o.reads]
OperandReads(o) == IF "is" \in DOMAIN o THEN {} ELSE {o.reads}
Numeric(l) == Leaves[l].kind \in {"<=", "<", "=="}
LeafReads(l) ==
  IF Numeric(l) THEN OperandReads(Leaves[l].lhs) \cup OperandReads(Leaves[l].rhs)
  ELSE OperandReads(Leaves[l].operand)

(* How close a comparison is, the larger the better, and whether it holds:   *)
(* a strict one does not hold at distance zero.                              *)
Distance(l, s) ==
  LET diff == Operand(Leaves[l].rhs, s) - Operand(Leaves[l].lhs, s)
  IN  IF Leaves[l].kind = "==" THEN [dist |-> IF diff <= 0 THEN diff ELSE -diff, sat |-> diff = 0]
      ELSE IF Leaves[l].kind = "<=" THEN [dist |-> diff, sat |-> diff >= 0]
      ELSE [dist |-> diff, sat |-> diff > 0]
(* Propositions may be negated; they have no distance. *)
Feature(l, s) ==
  IF Numeric(l) THEN Distance(l, s)
  ELSE [dist |-> 0, sat |-> Operand(Leaves[l].operand, s) = Leaves[l].value]

NoState == <<>>

(* Subgoals are about the fluents, and comparisons compare numbers.          *)
NoveltyAssumption ==
  /\ NoState \notin States
  /\ \A l \in LeafId :
       /\ LeafReads(l) \subseteq Fluent
       /\ Numeric(l) => \A s \in States : /\ Operand(Leaves[l].lhs, s) \in Int
                                         /\ Operand(Leaves[l].rhs, s) \in Int
  /\ MaxH \in Nat /\ MaxEvals \in Nat /\ MaxStarts \in Nat

VARIABLES
  maxPartition, \* fixed when a search starts
  psiSeen,      \* per partition, the leaves satisfied before
  best,         \* per partition, how close each numeric leaf came
  pairSeen,     \* per partition, the pairs satisfied together before
  bestWith,     \* per partition, how close a leaf came beside a satisfied one
  cache,        \* features of the expanded state evaluated so far
  snapshot,     \* the leaves satisfied in it, and the numeric ones that are not
  parent,       \* the state being expanded
  generated,    \* the states evaluated, with their partitions
  answer,       \* the novelty of the last one
  expected,     \* the novelty its features and the log give it
  log,          \* every feature and pair of features met so far
  evals, starts

tables == <<psiSeen, best, pairSeen, bestWith>>
vars == <<maxPartition, tables, cache, snapshot, parent, generated, answer, expected, log, evals, starts>>

(* The heuristic value picks the partition, capped at that of the root. *)
PartitionOf(h, top) == IF h <= top THEN h ELSE top

(* What an evaluation meets: leaves newly satisfied and satisfied, those     *)
(* that stay satisfied, and the numeric ones that came closer or are not     *)
(* satisfied; `dist` is how close a leaf is.                                 *)
Fresh(s) ==
  LET sat == {l \in LeafId : Feature(l, s).sat}
  IN  [newly |-> sat, satisfied |-> sat, persisting |-> {},
       improved |-> {l \in LeafId \ sat : Numeric(l)}, open |-> {l \in LeafId \ sat : Numeric(l)},
       dist |-> [l \in LeafId |-> Feature(l, s).dist]]

Looked(known, l, s) == IF l \in DOMAIN known THEN known[l] ELSE Feature(l, s)
CacheOf(known, ls, s) == [l \in DOMAIN known \cup ls |-> Looked(known, l, s)]
SnapshotOf(known, s) ==
  [sat |-> {l \in LeafId : Looked(known, l, s).sat},
   open |-> {l \in LeafId : Numeric(l) /\ ~Looked(known, l, s).sat}]

(* Pass A on the leaves that may have changed, `from` being their features   *)
(* in the parent.                                                            *)
Dirty(fluents) == {l \in LeafId : LeafReads(l) \cap fluents # {}}
Sparse(s, dirty, from) ==
  LET now == [l \in dirty |-> Feature(l, s)]
      sat == {l \in dirty : now[l].sat}
  IN  [newly |-> {l \in sat : ~from[l].sat}, satisfied |-> sat,
       persisting |-> {l \in sat : from[l].sat},
       improved |-> {l \in dirty \ sat : Numeric(l) /\ ~from[l].sat /\ now[l].dist > from[l].dist},
       open |-> {l \in dirty \ sat : Numeric(l)},
       dist |-> [l \in LeafId |-> IF l \in dirty THEN now[l].dist ELSE 0]]
NoProgress(met) == met.newly = {} /\ met.improved = {}
(* The other leaves are as in the parent. *)
Merged(met, dirty, shot, from) ==
  [met EXCEPT !.satisfied = @ \cup (shot.sat \ dirty),
              !.persisting = @ \cup (shot.sat \ dirty),
              !.open = @ \cup (shot.open \ dirty),
              !.dist = [l \in LeafId |-> IF l \in dirty \/ l \notin DOMAIN from THEN @[l] ELSE from[l].dist]]

(* The pairs of one newly satisfied leaf and another, and those with a       *)
(* numeric leaf that is open: next to a newly satisfied one, or coming       *)
(* closer next to one that stays satisfied.                                  *)
SatisfiedPairs(met) == {{f, t} : f \in met.newly, t \in met.satisfied} \ {{f} : f \in LeafId}
WithImproved(met) == {x \in (met.newly \cup met.persisting) \X met.improved : x[1] # x[2]}
OpenPairs(met) ==
  (met.newly \X met.open) \cup {x \in met.persisting \X met.improved : x[1] # x[2]}

Beats(met, t, old, key) == key \notin DOMAIN old \/ met.dist[t] > old[key]
Closer(met, old) == {t \in met.improved : Beats(met, t, old, t)}
CloserPairs(met, old) == {x \in OpenPairs(met) : Beats(met, x[2], old, x)}
Novel(met, p) ==
  IF met.newly \ psiSeen[p] # {} \/ Closer(met, best[p]) # {} THEN 1
  ELSE IF SatisfiedPairs(met) \ pairSeen[p] # {} \/ CloserPairs(met, bestWith[p]) # {} THEN 2
  ELSE 3
Record(met, p) ==
  /\ psiSeen' = [psiSeen EXCEPT ![p] = @ \cup met.newly]
  /\ best' = [best EXCEPT ![p] =
       LET closer == Closer(met, @) IN [t \in DOMAIN @ \cup closer |-> IF t \in closer THEN met.dist[t] ELSE @[t]]]
  /\ pairSeen' = [pairSeen EXCEPT ![p] = @ \cup SatisfiedPairs(met)]
  /\ bestWith' = [bestWith EXCEPT ![p] =
       LET closer == CloserPairs(met, @)
       IN  [x \in DOMAIN @ \cup closer |-> IF x \in closer THEN met.dist[x[2]] ELSE @[x]]]

----------------------------------------------------------------------------
(* The same by definition: what is met, from the two states alone, and       *)
(* whether it was met before in the partition.                               *)
Sat(l, s) == Feature(l, s).sat
Dist(l, s) == Feature(l, s).dist
IsNew(l, s, from) == Sat(l, s) /\ (from = NoState \/ ~Sat(l, from))
IsCloser(l, s, from) == Numeric(l) /\ ~Sat(l, s) /\ (from = NoState \/ Dist(l, s) > Dist(l, from))
Stays(l, s, from) == from # NoState /\ Sat(l, s) /\ Sat(l, from)
Features(s, from) ==
  {<<"leaf", {l}, 0>> : l \in {k \in LeafId : IsNew(k, s, from)}}
    \cup {<<"closer", <<l>>, Dist(l, s)>> : l \in {k \in LeafId : IsCloser(k, s, from)}}
Pairs(s, from) ==
  {<<"pair", x, 0>> : x \in {{k, l} : k \in {f \in LeafId : IsNew(f, s, from)}, l \in {t \in LeafId : Sat(t, s)}}
                              \ {{l} : l \in LeafId}}
    \cup {<<"beside", x, Dist(x[2], s)>> :
            x \in {y \in LeafId \X LeafId :
                     \/ IsNew(y[1], s, from) /\ Numeric(y[2]) /\ ~Sat(y[2], s)
                     \/ Stays(y[1], s, from) /\ IsCloser(y[2], s, from)}}
MetBefore(x, p, seen) == \E y \in seen : y[1] = p /\ y[2] = x[1] /\ y[3] = x[2] /\ y[4] >= x[3]
Expected(s, from, p, seen) ==
  IF \E x \in Features(s, from) : ~MetBefore(x, p, seen) THEN 1
  ELSE IF \E x \in Pairs(s, from) : ~MetBefore(x, p, seen) THEN 2 ELSE 3
Logged(s, from, p, seen) ==
  seen \cup {<<p, x[1], x[2], x[3]>> : x \in Features(s, from) \cup Pairs(s, from)}

----------------------------------------------------------------------------
NothingSeen == [p \in Partition |-> {}]
NothingBest == [p \in Partition |-> <<>>]

Observe(s, from, p, seen) ==
  /\ expected' = Expected(s, from, p, seen)
  /\ log' = Logged(s, from, p, seen)

(* The instance is made once; each search starts it anew and evaluates the   *)
(* root, whose novelty is not used.                                          *)
Init ==
  /\ maxPartition = 1
  /\ psiSeen = NothingSeen /\ pairSeen = NothingSeen
  /\ best = NothingBest /\ bestWith = NothingBest
  /\ cache = <<>> /\ snapshot = NoSnapshot
  /\ parent = [state |-> NoState, partition |-> 0]
  /\ generated = {}
  /\ answer = 3 /\ expected = 3
  /\ log = {}
  /\ evals = 0 /\ starts = 0

Start(h) ==
  /\ starts < MaxStarts
  /\ starts' = starts + 1 /\ evals' = 0
  /\ maxPartition' = IF h > 1 THEN h ELSE 1
  /\ psiSeen' = NothingSeen /\ pairSeen' = NothingSeen
  /\ best' = NothingBest /\ bestWith' = NothingBest
  /\ cache' = <<>> /\ snapshot' = NoSnapshot
  /\ parent' = [state |-> NoState, partition |-> PartitionOf(h, maxPartition')]
  /\ generated' = {} /\ log' = {}
  /\ UNCHANGED <<answer, expected>>

Root(s) ==
  /\ starts > 0 /\ generated = {}
  /\ \E met \in {Fresh(s)} :
       /\ answer' = Novel(met, parent.partition)
       /\ Record(met, parent.partition)
  /\ Observe(s, NoState, parent.partition, log)
  /\ generated' = {[state |-> s, partition |-> parent.partition]}
  /\ UNCHANGED <<maxPartition, cache, snapshot, parent, evals, starts>>

BeginExpansion(item) ==
  /\ parent' = item
  /\ cache' = <<>> /\ snapshot' = NoSnapshot
  /\ UNCHANGED <<maxPartition, tables, generated, answer, expected, log, evals, starts>>

(* A child: the fluents of which the values are not the very same objects    *)
(* are at least those that changed.                                          *)
Changed(s) == {f \in Fluent : s[f] # parent.state[f]}
Child(s, h, touched) ==
  /\ parent.state # NoState /\ evals < MaxEvals
  /\ evals' = evals + 1
  /\ Changed(s) \subseteq touched
  /\ LET p == PartitionOf(h, maxPartition) IN
     /\ IF p # parent.partition
          THEN \E met \in {Fresh(s)} :
                 /\ answer' = Novel(met, p)
                 /\ Record(met, p)
                 /\ UNCHANGED <<cache, snapshot>>
          ELSE \E dirty \in {Dirty(touched)} :
               \E from \in {CacheOf(cache, dirty, parent.state)} :
               \E met \in {Sparse(s, dirty, from)} :
                 IF NoProgress(met)
                   THEN /\ answer' = 3
                        /\ cache' = from
                        /\ UNCHANGED <<tables, snapshot>>
                   ELSE \E all \in {IF snapshot = NoSnapshot THEN CacheOf(from, LeafId, parent.state) ELSE from} :
                        \E shot \in {IF snapshot = NoSnapshot THEN SnapshotOf(from, parent.state) ELSE snapshot} :
                        \E full \in {Merged(met, dirty, shot, all)} :
                          /\ cache' = all /\ snapshot' = shot
                          /\ answer' = Novel(full, p)
                          /\ Record(full, p)
     /\ Observe(s, IF p = parent.partition THEN parent.state ELSE NoState, p, log)
     /\ generated' = generated \cup {[state |-> s, partition |-> p]}
  /\ UNCHANGED <<maxPartition, parent, starts>>

Next ==
  \/ \E h \in 0 .. MaxH : Start(h)
  \/ \E s \in States : Root(s)
  \/ \E item \in generated : evals < MaxEvals /\ BeginExpansion(item)
  \/ \E s \in States, h \in 0 .. MaxH, touched \in SUBSET Fluent : Child(s, h, touched)

Spec == Init /\ [][Next]_vars

----------------------------------------------------------------------------
TypeOK ==
  /\ maxPartition \in Partition \cup {1}
  /\ \A p \in Partition : /\ psiSeen[p] \subseteq LeafId
                          /\ DOMAIN best[p] \subseteq {l \in LeafId : Numeric(l)}
                          /\ \A x \in pairSeen[p] : x \subseteq LeafId /\ Cardinality(x) = 2
                          /\ DOMAIN bestWith[p] \subseteq LeafId \X LeafId
  /\ DOMAIN cache \subseteq LeafId
  /\ answer \in 1 .. 3 /\ expected \in 1 .. 3
  /\ evals \in 0 .. MaxEvals /\ starts \in 0 .. MaxStarts

(* However little of a state is evaluated, and however much comes from the   *)
(* caches, its novelty is that of its features against all states evaluated  *)
(* before in its partition and in this search.                               *)
NoveltyIsExact == answer = expected

(* The caches hold the features of the state being expanded, not those of    *)
(* the one before it.                                                        *)
CachesAreTheParents ==
  /\ \A l \in DOMAIN cache : cache[l] = Feature(l, parent.state)
  /\ snapshot # NoSnapshot =>
       /\ DOMAIN cache = LeafId
       /\ snapshot.sat = {l \in LeafId : Sat(l, parent.state)}
       /\ snapshot.open = {l \in LeafId : Numeric(l) /\ ~Sat(l, parent.state)}

(* The tables keep exactly what was met: the leaves and pairs, and the       *)
(* closest any of them came.                                                 *)
TablesAreTheLog ==
  \A p \in Partition :
    /\ psiSeen[p] = {l \in LeafId : <<p, "leaf", {l}, 0>> \in log}
    /\ \A x \in pairSeen[p] : <<p, "pair", x, 0>> \in log
    /\ \A l \in DOMAIN best[p] : <<p, "closer", <<l>>, best[p][l]>> \in log
    /\ \A x \in DOMAIN bestWith[p] : <<p, "beside", x, bestWith[p][x]>> \in log
    /\ \A y \in log : y[1] = p =>
         /\ y[2] = "pair" => y[3] \in pairSeen[p]
         /\ y[2] = "closer" => y[3][1] \in DOMAIN best[p] /\ best[p][y[3][1]] >= y[4]
         /\ y[2] = "beside" => y[3] \in DOMAIN bestWith[p] /\ bestWith[p][y[3]] >= y[4]

(* No state of the search after the root lies beyond the root's partition.   *)
PartitionsStayLow == \A item \in generated : item.partition <= maxPartition
=============================================================================

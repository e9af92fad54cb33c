-------------------------- MODULE ObjectSymmetry ---------------------------
(****************************************************************************)
(* Which objects of a problem are interchangeable, and what the search does  *)
(* with it: an object is not used before its predecessor among those it can  *)
(* be exchanged with.                                                        *)
(*                                                                           *)
(* A behaviour first sorts the objects into classes, one object at a time.   *)
(* It then carries out a plan and, beside it, the plan in which the objects  *)
(* of a class are renamed in the order they are first used: the one that the *)
(* search must not have cut off.                                             *)
(*                                                                           *)
(* A term is a name and the objects it is applied to: a ground fluent, an    *)
(* object, or a Boolean. A problem gives every fluent its parameter types,   *)
(* its default and its explicit initial values; its goal is a set of         *)
(* conjuncts. A ground action is a schema's name and its objects. The        *)
(* objects come in the order the problem lists them, `byName` is the order   *)
(* of their names. A type is below those of `above`, itself included, and an *)
(* object stands for a parameter of any of them.                             *)
(****************************************************************************)
EXTENDS Naturals, FiniteSets, Sequences, SequencesExt, FiniteSetsExt

CONSTANTS
  Problems,    \* the problems, grounded
  MaxPath      \* how many different actions a plan uses at most

Term(name, args) == <<name, args>>
Obj(o) == Term("object", <<o>>)
IsObj(t) == t[1] = "object"
ObjectsIn(t) == ToSet(t[2])

(* The term with other names for its objects. *)
Renamed(t, names) == Term(t[1], [i \in DOMAIN t[2] |-> names[t[2][i]]])

(* Every ground fluent. *)
Arguments(p, sorts) ==
  {args \in [DOMAIN sorts -> ToSet(p.objects)] : \A i \in DOMAIN sorts : sorts[i] \in p.above[p.types[args[i]]]}
Groundings(p) == UNION {{Term(f, args) : args \in Arguments(p, p.fluents[f])} : f \in DOMAIN p.fluents}

(* Objects the domain names, that timed effects and goals mention, or that   *)
(* an interpreted function could tell apart: those of the types of its       *)
(* parameters and of its value, and of types below them.                     *)
Tainted(p) == {o \in ToSet(p.objects) : p.above[p.types[o]] \cap UNION p.calls # {}}
Excluded(p) == p.constants \cup p.timedObjects \cup Tainted(p)

(* Every fluent has a default, and its values are objects or constants.      *)
IsValue(p, v) == IF IsObj(v) THEN \E o \in ToSet(p.objects) : v = Obj(o) ELSE v = Term(v[1], <<>>)
Assigns(p, values) == \A f \in DOMAIN values : f \in Groundings(p) /\ IsValue(p, values[f])
IsConjunct(p, c) ==
  /\ DOMAIN c.terms = {1, 2} /\ c.terms[1] \in Groundings(p)
  /\ IF c.op = "equals" THEN c.terms[2] \in Groundings(p) ELSE IsValue(p, c.terms[2])
ProblemWellFormed(p) ==
  /\ p.objects \in Seq(ToSet(p.objects))
  /\ \A i, j \in DOMAIN p.objects : p.objects[i] = p.objects[j] => i = j
  /\ p.byName \in Seq(ToSet(p.objects)) /\ ToSet(p.byName) = ToSet(p.objects)
  /\ \A i, j \in DOMAIN p.byName : p.byName[i] = p.byName[j] => i = j
  /\ \A o \in ToSet(p.objects) : p.types[o] \in p.above[p.types[o]]
  /\ p.constants \cup p.timedObjects \subseteq ToSet(p.objects)
  /\ \A f \in DOMAIN p.fluents : f # "object" /\ IsValue(p, p.defaults[f])
  /\ DOMAIN p.defaults = DOMAIN p.fluents
  /\ IsFiniteSet(DOMAIN p.explicit) /\ Assigns(p, p.explicit)
  /\ IsFiniteSet(p.goal) /\ \A c \in p.goal : IsConjunct(p, c)
  /\ Assigns(p, p.timed)
  /\ \A f \in DOMAIN p.timed : ObjectsIn(f) \cup ObjectsIn(p.timed[f]) \subseteq p.timedObjects
  /\ \A a \in DOMAIN p.actions :
       /\ a = Term(a[1], a[2]) /\ a[2] \in Seq(ToSet(p.objects))
       /\ \A x \in p.actions[a].pre : x[1] \in Groundings(p)
       /\ Assigns(p, p.actions[a].effects)

(* The actions are lifted: those of one schema differ only in their objects, *)
(* except where the schema names a domain constant or calls an interpreted   *)
(* function.                                                                 *)
Renamings(p) ==
  {names \in [ToSet(p.objects) -> ToSet(p.objects)] :
     /\ \A a, b \in ToSet(p.objects) : names[a] = names[b] => a = b
     /\ \A o \in ToSet(p.objects) : p.types[names[o]] = p.types[o] /\ (o \in Excluded(p) => names[o] = o)}
IsRenamed(names, effects, others) ==
  /\ DOMAIN others = {Renamed(f, names) : f \in DOMAIN effects}
  /\ \A f \in DOMAIN effects : others[Renamed(f, names)] = Renamed(effects[f], names)
Lifted(p) ==
  \A names \in Renamings(p), a \in DOMAIN p.actions :
    \E b \in DOMAIN p.actions :
      /\ b = Renamed(a, names)
      /\ p.actions[b].pre = {<<Renamed(x[1], names), Renamed(x[2], names)>> : x \in p.actions[a].pre}
      /\ IsRenamed(names, p.actions[a].effects, p.actions[b].effects)
SymmetryAssumption == \A p \in Problems : ProblemWellFormed(p) /\ Lifted(p)

VARIABLES
  problem,
  index,       \* how many objects are sorted in
  groups,      \* the classes found so far
  world,       \* the value of each ground fluent under a plan
  renaming,    \* what each object that plan used is called in the other plan
  mirror,      \* the value of each ground fluent under the other plan
  path,        \* the actions of the other plan
  allowed,     \* whether the search lets every action of the other plan open
  happened     \* whether the timed effects took place

vars == <<problem, index, groups, world, renaming, mirror, path, allowed, happened>>

Objects == ToSet(problem.objects)
TypeOf(o) == problem.types[o]
Exchange(a, b) == [o \in Objects |-> IF o = a THEN b ELSE IF o = b THEN a ELSE o]
Swap(t, a, b) == Renamed(t, Exchange(a, b))

GroundFluents == Groundings(problem)
InitialValue(f) == IF f \in DOMAIN problem.explicit THEN problem.explicit[f] ELSE problem.defaults[f[1]]

(* The assignments of the initial state: those that are explicit and not     *)
(* the default, and all of them.                                             *)
ExplicitOnes == {<<f, problem.explicit[f]>> : f \in {g \in DOMAIN problem.explicit : problem.explicit[g] # problem.defaults[g[1]]}}
AllOnes == {<<f, InitialValue(f)>> : f \in GroundFluents}
Involving(assignments, o) == {x \in assignments : o \in ObjectsIn(x[1]) \/ (IsObj(x[2]) /\ o \in ObjectsIn(x[2]))}
DefaultObjects == UNION {ObjectsIn(t) : t \in {problem.defaults[f] : f \in DOMAIN problem.defaults}}

(* A conjunct is an operator and its terms; the order of the terms of a      *)
(* commutative operator does not count.                                      *)
Canonical(c) == [op |-> c.op, terms |-> IF c.op = "equals" THEN {<<0, c.terms[i]>> : i \in DOMAIN c.terms}
                                                           ELSE {<<i, c.terms[i]>> : i \in DOMAIN c.terms}]
Goal == {Canonical(c) : c \in problem.goal}
ConjunctObjects(c) == UNION {ObjectsIn(x[2]) : x \in c.terms}
SwapConjunct(c, a, b) == [c EXCEPT !.terms = {<<x[1], Swap(x[2], a, b)>> : x \in c.terms}]
ConjunctsWith(o) == {c \in Goal : o \in ConjunctObjects(c)}

(* How an object appears, with the others known by their type alone.         *)
Abstract(t, o) == [i \in DOMAIN t[2] |-> IF t[2][i] = o THEN "self" ELSE TypeOf(t[2][i])]
AbstractValue(t, o) == IF IsObj(t) THEN Abstract(t, o)[1] ELSE t[1]
Feature(x, o) == <<x[1][1], Abstract(x[1], o), AbstractValue(x[2], o)>>
Counted(xs, F(_)) == LET features == {F(x) : x \in xs}
                     IN  {<<f, Cardinality({x \in xs : F(x) = f})>> : f \in features}
FluentsOf(c) ==
  Counted({x \in c.terms : x[2][1] \notin {"object", "true", "false"}}, LAMBDA x : x[2][1])
Signature(o) ==
  <<Counted(Involving(ExplicitOnes, o), LAMBDA x : Feature(x, o)),
    Counted(ConjunctsWith(o), FluentsOf)>>

(* Exchanging the two leaves the goal and the initial state as they are.     *)
GoalUnchanged(a, b) ==
  \A c \in ConjunctsWith(a) \cup ConjunctsWith(b) : SwapConjunct(c, a, b) \in Goal
(* The default value of an implicit assignment changes only if it is one of  *)
(* the two objects.                                                          *)
Compared(a, b) == IF {a, b} \cap DefaultObjects # {} THEN AllOnes ELSE ExplicitOnes
InitUnchanged(a, b) ==
  \A x \in Involving(Compared(a, b), a) \cup Involving(Compared(a, b), b) :
    InitialValue(Swap(x[1], a, b)) = Swap(x[2], a, b)
AreEquivalent(a, b) == GoalUnchanged(a, b) /\ InitUnchanged(a, b)

(* Signatures narrow down the candidates, unless a default value is among    *)
(* the objects of the type.                                                  *)
Bucketed(o) == \A b \in {c \in Objects : TypeOf(c) = TypeOf(o)} : b \notin DefaultObjects
Candidate(g, o) ==
  /\ TypeOf(g[1]) = TypeOf(o) /\ g[1] \notin Excluded(problem)
  /\ Bucketed(o) => Signature(g[1]) = Signature(o)
FirstMatch(o) == {n \in DOMAIN groups : Candidate(groups[n], o) /\ AreEquivalent(groups[n][1], o)}

Beginning == [f \in GroundFluents |-> InitialValue(f)]
Init ==
  /\ problem \in Problems
  /\ index = 0
  /\ groups = <<>>
  /\ world = Beginning /\ mirror = Beginning
  /\ renaming = <<>>
  /\ path = {}
  /\ allowed = TRUE
  /\ happened = FALSE

SortIn ==
  /\ index < Len(problem.objects)
  /\ index' = index + 1
  /\ LET o == problem.objects[index + 1]
     IN  groups' = IF o \in Excluded(problem) \/ FirstMatch(o) = {} THEN Append(groups, <<o>>)
                   ELSE [groups EXCEPT ![Min(FirstMatch(o))] = Append(@, o)]
  /\ UNCHANGED <<problem, world, renaming, mirror, path, allowed, happened>>

Sorted == index = Len(problem.objects)
Class(o) == ToSet(groups[CHOOSE n \in DOMAIN groups : o \in ToSet(groups[n])])

(* A class is put in order of name, whatever order its members were found in.*)
Rank(o) == CHOOSE n \in DOMAIN problem.byName : problem.byName[n] = o
Earlier(o) == {b \in Class(o) : Rank(b) < Rank(o)}
Previous(o) == CHOOSE b \in Earlier(o) : \A c \in Earlier(o) : Rank(c) <= Rank(b)
ActionsWith(o) == {a \in DOMAIN problem.actions : o \in ToSet(a[2])}
LaterActions(o) ==
  LET later == {b \in Class(o) : Rank(b) > Rank(o)}
  IN  IF later = {} THEN {} ELSE ActionsWith(CHOOSE b \in later : TRUE)
PreviousActions(o) == IF Earlier(o) = {} THEN {} ELSE ActionsWith(Previous(o))

(* The search's rule, on the actions of the path. *)
SymmetryAllows(a, steps) ==
  \A o \in ToSet(a[2]) :
    \/ PreviousActions(o) = {} \/ a \in PreviousActions(o)
    \/ steps \cap PreviousActions(o) # {}

(* Name the objects of an action that the plan has not used yet, in whatever *)
(* order, after the first names of their class that are left.                *)
Taken(names) == {names[o] : o \in DOMAIN names}
InOrder(names) == \A b \in Taken(names) : Earlier(b) \subseteq Taken(names)
Extended(names, objects) ==
  {more \in [DOMAIN names \cup objects -> Objects] :
     /\ \A o \in DOMAIN names : more[o] = names[o]
     /\ \A o \in objects : more[o] \in Class(o)
     /\ \A o, b \in DOMAIN more : more[o] = more[b] => o = b
     /\ InOrder(more)}

Holds(action, s) == \A x \in action.pre : s[x[1]] = x[2]
After(effects, s) == [f \in DOMAIN s |-> IF f \in DOMAIN effects THEN effects[f] ELSE s[f]]

Step(a) ==
  /\ Sorted /\ Cardinality(path) < MaxPath
  /\ Holds(problem.actions[a], world)
  /\ world' = After(problem.actions[a].effects, world)
  /\ renaming' \in Extended(renaming, ToSet(a[2]))
  /\ LET b == Renamed(a, renaming')
     IN  /\ path' = path \cup {b}
         /\ allowed' = (allowed /\ SymmetryAllows(b, path) /\ Holds(problem.actions[b], mirror))
         /\ mirror' = After(problem.actions[b].effects, mirror)
  /\ UNCHANGED <<problem, index, groups, happened>>

(* The timed effects take place, whatever the plan. *)
Happen ==
  /\ Sorted /\ ~happened
  /\ happened' = TRUE
  /\ world' = After(problem.timed, world)
  /\ mirror' = After(problem.timed, mirror)
  /\ UNCHANGED <<problem, index, groups, renaming, path, allowed>>

Next == SortIn \/ (\E a \in DOMAIN problem.actions : Step(a)) \/ Happen

Spec == Init /\ [][Next]_vars

----------------------------------------------------------------------------
TypeOK ==
  /\ index \in 0 .. Len(problem.objects)
  /\ UNION {ToSet(groups[n]) : n \in DOMAIN groups} = {problem.objects[i] : i \in 1 .. index}
  /\ \A m, n \in DOMAIN groups : m # n => ToSet(groups[m]) \cap ToSet(groups[n]) = {}
  /\ DOMAIN world = GroundFluents /\ DOMAIN mirror = GroundFluents
  /\ DOMAIN renaming \subseteq Objects
  /\ path \subseteq DOMAIN problem.actions
  /\ allowed \in BOOLEAN /\ happened \in BOOLEAN

(* Exchanging the two everywhere leaves the problem as it is, seen on every  *)
(* ground fluent and every conjunct.                                         *)
Interchangeable(a, b) ==
  /\ TypeOf(a) = TypeOf(b)
  /\ \A f \in GroundFluents : InitialValue(Swap(f, a, b)) = Swap(InitialValue(f), a, b)
  /\ {SwapConjunct(c, a, b) : c \in Goal} = Goal

(* The classes are exactly those of the relation, although an object is only *)
(* compared with one member of a class, on the assignments and conjuncts     *)
(* that mention the two, and only if its signature is the same.              *)
ClassesAreExact ==
  Sorted => \A a, b \in Objects \ Excluded(problem) :
              (b \in Class(a)) <=> (a = b \/ Interchangeable(a, b))

Met(s) == \A c \in problem.goal :
            IF c.op = "equals" THEN s[c.terms[1]] = s[c.terms[2]] ELSE s[c.terms[1]] = c.terms[2]

(* Symmetry breaking loses no plan: the search lets the renamed plan open    *)
(* every action, it can be carried out, and it reaches the goal when the     *)
(* plan does.                                                                *)
RenamedPlanAllowed == allowed
RenamedPlanReaches == Met(world) => Met(mirror)
=============================================================================

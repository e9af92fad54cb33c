--------------------------- MODULE FunctionScopes ---------------------------
(****************************************************************************)
(* The registry of interpreted functions: what a `func_id` in an expression  *)
(* resolves to while several runs (one-shot solves, suspended anytime        *)
(* generators, heuristic evaluators) share one thread. A run opens a scope,  *)
(* converts its expressions, each function being wrapped once and registered *)
(* by the address of the wrapper, evaluates them, and closes the scope, at   *)
(* any time and in any order; the registry is cleared with the last scope.   *)
(* A caller may also let go of a suspended generator: it leaves its scope    *)
(* when it is collected, if it ever is. A run that was closed may be opened  *)
(* again, so that runs may overlap for ever; it solves the same problem, so  *)
(* its functions are those it had before.                                    *)
(*                                                                           *)
(* A call is abstracted to the function it reaches: a function is            *)
(* deterministic, and the arguments are part of the key of its results.      *)
(****************************************************************************)
EXTENDS Integers, Sequences, FiniteSets

CONSTANTS
  Runs,          \* the runs that share the registry
  Functions,     \* the interpreted functions of a problem
  Addresses,     \* where a wrapper may live; reused once it is collected
  None,          \* no address, no answer
  Capacity       \* IF_RESULTS_CAPACITY

ASSUME ScopesAssumption ==
  /\ IsFiniteSet(Runs)
  /\ None \notin Addresses
  /\ None \notin [run : Runs, function : Functions]
  /\ Capacity \in Nat \ {0}

Wrapper == [run : Runs, function : Functions]
NoId == -1

VARIABLES
  status,        \* of each run: "new", "held" (its caller may resume it), "dropped"
                 \* (nobody refers to it), "lost" (never to be finalized) or "closed"
  scopes,        \* _live_if_scopes
  wrappers,      \* _if_wrappers of each run: the address of each wrapper, or None
  nodes,         \* the func_id in each run's expressions, or NoId
  registry,      \* INTERPRETED_FUNCTIONS: sequence of [address, wrapper]
  byPtr,         \* IF_IDS_BY_PTR: the id registered for an address, or NoId
  cached,        \* IF_RESULTS: set of [id, wrapper]
  answer,        \* the last call: [asked, got], got None if it raised
  forced         \* a caller cleared the registry directly

vars == <<status, scopes, wrappers, nodes, registry, byPtr, cached, answer, forced>>

(* The runs inside their scope: entered and not left.                        *)
Live == {r \in Runs : status[r] \in {"held", "dropped", "lost"}}

Init ==
  /\ status = [r \in Runs |-> "new"]
  /\ scopes = 0
  /\ wrappers = [r \in Runs |-> [f \in Functions |-> None]]
  /\ nodes = [r \in Runs |-> [f \in Functions |-> NoId]]
  /\ registry = <<>>
  /\ byPtr = [a \in Addresses |-> NoId]
  /\ cached = {}
  /\ answer = [asked |-> None, got |-> None]
  /\ forced = FALSE

Counted(n) == n + 1
Open(r) ==
  /\ status[r] \in {"new", "closed"}
  /\ status' = [status EXCEPT ![r] = "held"]
  /\ scopes' = Counted(scopes)
  /\ UNCHANGED <<wrappers, nodes, registry, byPtr, cached, answer, forced>>

(* An address is taken while a run or the registry refers to it.             *)
Taken(a) ==
  \/ \E r \in Runs, f \in Functions : wrappers[r][f] = a
  \/ \E i \in DOMAIN registry : registry[i].address = a

(* register_interpreted_function: one id for one address.                    *)
Register(a, w) ==
  IF byPtr[a] # NoId
    THEN UNCHANGED <<registry, byPtr>>
    ELSE /\ registry' = Append(registry, [address |-> a, wrapper |-> w])
         /\ byPtr' = [byPtr EXCEPT ![a] = Len(registry) + 1]

(* A function is wrapped the first time a run converts it; every encoding of *)
(* the run shares the wrapper.                                               *)
Convert(r, f, a) ==
  /\ status[r] = "held"
  /\ IF wrappers[r][f] = None THEN ~Taken(a) ELSE a = wrappers[r][f]
  /\ wrappers' = [wrappers EXCEPT ![r][f] = a]
  /\ Register(a, [run |-> r, function |-> f])
  /\ nodes' = [nodes EXCEPT ![r][f] = byPtr'[a]]
  /\ UNCHANGED <<status, scopes, cached, answer, forced>>

(* call_interpreted_function: the memoized result, else the registered       *)
(* callable, else an error. The results are an LRU cache; which one it       *)
(* evicts is left open.                                                      *)
Hits(id) == {c \in cached : c.id = id}
Remember(id, w) ==
  \/ cached' = cached \cup {[id |-> id, wrapper |-> w]} /\ Cardinality(cached) < Capacity
  \/ \E c \in cached : cached' = (cached \ {c}) \cup {[id |-> id, wrapper |-> w]}
                       /\ Cardinality(cached) >= Capacity

Evaluate(r, f) ==
  /\ status[r] = "held" /\ nodes[r][f] # NoId
  /\ \/ \E c \in Hits(nodes[r][f]) :
          /\ answer' = [asked |-> [run |-> r, function |-> f], got |-> c.wrapper]
          /\ UNCHANGED cached
     \/ /\ Hits(nodes[r][f]) = {} /\ nodes[r][f] \in DOMAIN registry
        /\ answer' = [asked |-> [run |-> r, function |-> f],
                      got |-> registry[nodes[r][f]].wrapper]
        /\ Remember(nodes[r][f], registry[nodes[r][f]].wrapper)
     \/ /\ Hits(nodes[r][f]) = {} /\ nodes[r][f] \notin DOMAIN registry
        /\ answer' = [asked |-> [run |-> r, function |-> f], got |-> None]
        /\ UNCHANGED cached
  /\ UNCHANGED <<status, scopes, wrappers, nodes, registry, byPtr, forced>>

(* clear_interpreted_function_cache                                          *)
ClearRegistryOnly == registry' = <<>> /\ cached' = {} /\ UNCHANGED byPtr
Clear ==
  /\ registry' = <<>>
  /\ byPtr' = [a \in Addresses |-> NoId]
  /\ cached' = {}

(* Leaving the scope: the expressions and wrappers of the run go with it.    *)
AnyScopeClears(n) == TRUE
NoScopeClears(n) == FALSE
LastScopeClears(n) == n = 0
Leave(r) ==
  /\ status' = [status EXCEPT ![r] = "closed"]
  /\ scopes' = scopes - 1
  /\ wrappers' = [wrappers EXCEPT ![r] = [f \in Functions |-> None]]
  /\ nodes' = [nodes EXCEPT ![r] = [f \in Functions |-> NoId]]
  /\ IF LastScopeClears(scopes') THEN Clear ELSE UNCHANGED <<registry, byPtr, cached>>
  /\ UNCHANGED <<answer, forced>>

(* The run is exhausted, raises or is closed by its caller.                  *)
Close(r) == status[r] = "held" /\ Leave(r)

(* The caller lets go of a suspended generator, which is collected (its      *)
(* GeneratorExit leaves the scope), or is never finalized: it is part of a   *)
(* reference cycle or of a stored traceback while nothing is collected.      *)
Drop(r) ==
  /\ status[r] = "held"
  /\ \E fate \in {"dropped", "lost"} : status' = [status EXCEPT ![r] = fate]
  /\ UNCHANGED <<scopes, wrappers, nodes, registry, byPtr, cached, answer, forced>>
Collect(r) == status[r] = "dropped" /\ Leave(r)

(* The function is exported "as an escape hatch, safe to call anytime".       *)
ClearDirectly ==
  /\ registry # <<>>
  /\ forced' = TRUE
  /\ Clear
  /\ UNCHANGED <<status, scopes, wrappers, nodes, answer>>

Next ==
  \/ \E r \in Runs :
       \/ Open(r) \/ Close(r) \/ Drop(r) \/ Collect(r)
       \/ \E f \in Functions : Evaluate(r, f) \/ \E a \in Addresses : Convert(r, f, a)
  \/ ClearDirectly

(* A generator nobody refers to is finalized at some point. Nothing makes a  *)
(* caller resume or close a run it holds, or a lost run leave its scope.     *)
Spec == Init /\ [][Next]_vars /\ \A r \in Runs : WF_vars(Collect(r))
-----------------------------------------------------------------------------
TypeOK ==
  /\ status \in [Runs -> {"new", "held", "dropped", "lost", "closed"}]
  /\ scopes \in Nat
  /\ wrappers \in [Runs -> [Functions -> Addresses \cup {None}]]
  /\ nodes \in [Runs -> [Functions -> Nat \cup {NoId}]]
  /\ registry \in Seq([address : Addresses, wrapper : Wrapper])
  /\ byPtr \in [Addresses -> Nat \cup {NoId}]
  /\ cached \subseteq [id : Nat, wrapper : Wrapper]
  /\ answer \in [asked : Wrapper \cup {None}, got : Wrapper \cup {None}]
  /\ forced \in BOOLEAN

(* A call reaches the function that the expression was built from, however   *)
(* the runs interleave and whichever of them end, even though ids and        *)
(* addresses are reused; it never raises "no longer registered". Unless the  *)
(* registry was cleared by hand.                                             *)
AnswersAreOwn == ~forced => answer.got = answer.asked

(* A call never reaches another function than the one the expression was     *)
(* built from: converter.py:117-119, the registry may be cleared "anytime    *)
(* since a stale func_id now raises instead of misresolving". It does, once  *)
(* another run has registered a function under the same id.                  *)
NeverMisresolves == answer.got \in {answer.asked, None}

(* Nothing stays registered or memoized when no run is left that could read  *)
(* it.                                                                       *)
NothingKept == Live = {} => registry = <<>> /\ cached = {} /\ \A a \in Addresses : byPtr[a] = NoId

(* What makes the answers right, for as long as nobody clears the registry   *)
(* by hand: the counter counts the live runs; an id, wherever it is kept,    *)
(* names the one registration of its address, and a wrapper stays where it   *)
(* is while the registry or a run refers to it.                              *)
CounterIsRight == scopes = Cardinality(Live)
OnlyLiveHold ==
  \A r \in Runs, f \in Functions :
    r \notin Live => wrappers[r][f] = None /\ nodes[r][f] = NoId
NodesResolve ==
  \A r \in Runs, f \in Functions :
    nodes[r][f] # NoId =>
      /\ nodes[r][f] \in DOMAIN registry
      /\ registry[nodes[r][f]].wrapper = [run |-> r, function |-> f]
WrappersAreRegistered ==
  \A r \in Runs, f \in Functions :
    wrappers[r][f] # None =>
      /\ byPtr[wrappers[r][f]] # NoId
      /\ registry[byPtr[wrappers[r][f]]].wrapper = [run |-> r, function |-> f]
PtrsAreRegistered ==
  \A a \in Addresses :
    byPtr[a] # NoId => byPtr[a] \in DOMAIN registry /\ registry[byPtr[a]].address = a
CachedAreRegistered ==
  \A c \in cached : c.id \in DOMAIN registry /\ registry[c.id].wrapper = c.wrapper

IInv ==
  /\ TypeOK /\ CounterIsRight /\ OnlyLiveHold
  /\ PtrsAreRegistered /\ CachedAreRegistered
  /\ ~forced => NodesResolve /\ WrappersAreRegistered
  /\ NothingKept /\ AnswersAreOwn

(* Dropped generators keep nothing for good: once every run is over or       *)
(* dropped, in whatever order they were opened, left and dropped, the        *)
(* registry is emptied by the last of them. It may stay for ever while a run *)
(* is held or lost, or while runs overlap without end (converter.py:100-117).*)
Reclaimed ==
  [](([]\A r \in Runs : status[r] \notin {"held", "lost"}) => <>(registry = <<>>))
=============================================================================

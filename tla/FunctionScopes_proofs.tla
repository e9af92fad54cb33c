----------------------- MODULE FunctionScopes_proofs -----------------------
(****************************************************************************)
(* A call reaches the function its expression was built from, for any runs,  *)
(* functions and addresses: the registry is only cleared when no run is left *)
(* that holds an id, so an id is only reused when nobody remembers it.       *)
(****************************************************************************)
EXTENDS FunctionScopes, TLAPS, FiniteSetTheorems, SequenceTheorems

(* Nothing registered is a registry.                                         *)
LEMMA EmptyRegistry == <<>> \in Seq([address : Addresses, wrapper : Wrapper])
OBVIOUS

(* At first no run is live and nothing is registered.                        *)
LEMMA InitIInv == Init => IInv
<1> SUFFICES ASSUME Init PROVE IInv
  OBVIOUS
<1>1. Live = {}
  BY DEF Init, Live
<1>2. Cardinality(Live) = 0
  BY <1>1, FS_EmptySet
<1>3. TypeOK
  <2>1. registry \in Seq([address : Addresses, wrapper : Wrapper])
    BY EmptyRegistry DEF Init
  <2>2. /\ status \in [Runs -> {"new", "held", "dropped", "lost", "closed"}]
        /\ scopes \in Nat
        /\ cached \subseteq [id : Nat, wrapper : Wrapper]
        /\ forced \in BOOLEAN
    BY DEF Init
  <2>3. /\ wrappers \in [Runs -> [Functions -> Addresses \cup {None}]]
        /\ nodes \in [Runs -> [Functions -> Nat \cup {NoId}]]
        /\ byPtr \in [Addresses -> Nat \cup {NoId}]
    BY DEF Init
  <2>4. answer \in [asked : Wrapper \cup {None}, got : Wrapper \cup {None}]
    BY DEF Init
  <2> QED
    BY <2>1, <2>2, <2>3, <2>4 DEF TypeOK
<1> QED
  BY <1>1, <1>2, <1>3
  DEF Init, IInv, CounterIsRight, OnlyLiveHold, PtrsAreRegistered, CachedAreRegistered,
      NodesResolve, WrappersAreRegistered, NothingKept, AnswersAreOwn

(* The live runs are finitely many.                                          *)
LEMMA LiveIsFinite == IsFiniteSet(Live) /\ Cardinality(Live) \in Nat
<1>1. Live \in SUBSET Runs
  BY DEF Live
<1> QED
  BY <1>1, ScopesAssumption, FS_Subset, FS_CardinalityType

(* Opening a scope leaves the registry and its maps alone.                   *)
LEMMA OpenKeeps == ASSUME IInv, NEW r \in Runs, Open(r) PROVE IInv'
<1> USE DEF IInv
<1>1. Live' = Live \cup {r} /\ r \notin Live
  BY DEF Open, Live, TypeOK
<1>2. CounterIsRight'
  BY <1>1, LiveIsFinite, FS_AddElement DEF CounterIsRight, Open, Counted
<1>3. TypeOK'
  BY DEF TypeOK, Open, Counted
<1>4. OnlyLiveHold'
  BY <1>1 DEF OnlyLiveHold, Open
<1>5. (PtrsAreRegistered /\ CachedAreRegistered)'
  BY DEF PtrsAreRegistered, CachedAreRegistered, Open
<1>6. (~forced => NodesResolve /\ WrappersAreRegistered)'
  BY DEF NodesResolve, WrappersAreRegistered, Open
<1>7. (NothingKept /\ AnswersAreOwn)'
  BY <1>1 DEF NothingKept, AnswersAreOwn, Open
<1> QED
  BY <1>2, <1>3, <1>4, <1>5, <1>6, <1>7

(* An address that is free is not registered.                                *)
LEMMA FreeIsUnregistered ==
  ASSUME IInv, NEW a \in Addresses, ~Taken(a)
  PROVE  byPtr[a] = NoId
BY DEF IInv, PtrsAreRegistered, Taken

(* What is registered stays where it is when one more is.                    *)
LEMMA RegisterAppends ==
  ASSUME IInv, NEW a \in Addresses, NEW w \in Wrapper, Register(a, w)
  PROVE  /\ registry' \in Seq([address : Addresses, wrapper : Wrapper])
         /\ byPtr' \in [Addresses -> Nat \cup {NoId}]
         /\ DOMAIN registry \subseteq DOMAIN registry'
         /\ \A i \in DOMAIN registry : registry'[i] = registry[i]
         /\ byPtr'[a] # NoId
         /\ \A b \in Addresses : byPtr[b] # NoId => byPtr'[b] = byPtr[b]
         /\ PtrsAreRegistered'
         /\ byPtr[a] = NoId => registry'[byPtr'[a]].wrapper = w
<1> DEFINE entry == [address |-> a, wrapper |-> w]
<1>1. registry \in Seq([address : Addresses, wrapper : Wrapper]) /\ byPtr \in [Addresses -> Nat \cup {NoId}]
  BY DEF IInv, TypeOK
<1>2. CASE byPtr[a] # NoId
  BY <1>1, <1>2 DEF Register, IInv, PtrsAreRegistered
<1>3. CASE byPtr[a] = NoId
  <2>1. registry' = Append(registry, entry) /\ byPtr' = [byPtr EXCEPT ![a] = Len(registry) + 1]
    BY <1>3 DEF Register
  <2>2. entry \in [address : Addresses, wrapper : Wrapper]
    OBVIOUS
  <2>3. /\ registry' \in Seq([address : Addresses, wrapper : Wrapper])
        /\ Len(registry) \in Nat
        /\ DOMAIN registry = 1 .. Len(registry)
        /\ DOMAIN registry' = 1 .. Len(registry) + 1
        /\ \A i \in DOMAIN registry : registry'[i] = registry[i]
        /\ registry'[Len(registry) + 1] = entry
    BY <1>1, <2>1, <2>2
  <2>4. Len(registry) + 1 \in Nat /\ Len(registry) + 1 # NoId /\ byPtr'[a] = Len(registry) + 1
    BY <1>1, <2>1, <2>3 DEF NoId
  <2>5. byPtr' \in [Addresses -> Nat \cup {NoId}]
    BY <1>1, <2>1, <2>4
  <2>6. \A b \in Addresses \ {a} : byPtr'[b] = byPtr[b]
    BY <1>1, <2>1
  <2>7. PtrsAreRegistered'
    BY <2>3, <2>4, <2>6 DEF PtrsAreRegistered, IInv
  <2> QED
    BY <1>3, <2>3, <2>4, <2>5, <2>6, <2>7
<1> QED
  BY <1>2, <1>3

(* Converting registers a wrapper of the run, or meets its registration.     *)
LEMMA ConvertKeeps ==
  ASSUME IInv, NEW r \in Runs, NEW f \in Functions, NEW a \in Addresses, Convert(r, f, a)
  PROVE  IInv'
<1> DEFINE w == [run |-> r, function |-> f]
<1>1. /\ status[r] = "held"
      /\ IF wrappers[r][f] = None THEN ~Taken(a) ELSE a = wrappers[r][f]
      /\ wrappers' = [wrappers EXCEPT ![r][f] = a]
      /\ Register(a, w)
      /\ nodes' = [nodes EXCEPT ![r][f] = byPtr'[a]]
      /\ UNCHANGED <<status, scopes, cached, answer, forced>>
  BY DEF Convert
<1>2. TypeOK
  BY DEF IInv
<1>3. w \in Wrapper
  BY DEF Wrapper
<1>4. /\ registry' \in Seq([address : Addresses, wrapper : Wrapper])
      /\ byPtr' \in [Addresses -> Nat \cup {NoId}]
      /\ DOMAIN registry \subseteq DOMAIN registry'
      /\ \A i \in DOMAIN registry : registry'[i] = registry[i]
      /\ byPtr'[a] # NoId
      /\ \A b \in Addresses : byPtr[b] # NoId => byPtr'[b] = byPtr[b]
      /\ PtrsAreRegistered'
      /\ byPtr[a] = NoId => registry'[byPtr'[a]].wrapper = w
  BY <1>1, <1>3, RegisterAppends
<1>5. /\ wrappers'[r][f] = a /\ nodes'[r][f] = byPtr'[a]
      /\ \A q \in Runs, g \in Functions :
           <<q, g>> # <<r, f>> => wrappers'[q][g] = wrappers[q][g] /\ nodes'[q][g] = nodes[q][g]
  BY <1>1, <1>2 DEF TypeOK
<1>6. ~forced => registry'[byPtr'[a]].wrapper = w
  <2>1. CASE wrappers[r][f] = None
    BY <1>1, <1>4, <2>1, FreeIsUnregistered
  <2>2. CASE wrappers[r][f] # None
    <3>1. a = wrappers[r][f]
      BY <1>1, <2>2
    <3>2. ~forced => byPtr[a] # NoId /\ registry[byPtr[a]].wrapper = w
      BY <2>2, <3>1 DEF IInv, WrappersAreRegistered
    <3>3. byPtr[a] # NoId => byPtr[a] \in DOMAIN registry
      BY DEF IInv, PtrsAreRegistered
    <3> QED
      BY <1>4, <3>2, <3>3
  <2> QED
    BY <2>1, <2>2
<1>7. TypeOK'
  <2>1. byPtr'[a] \in Nat \cup {NoId}
    BY <1>4
  <2>2. wrappers' \in [Runs -> [Functions -> Addresses \cup {None}]]
    BY <1>1, <1>2 DEF TypeOK
  <2>3. nodes' \in [Runs -> [Functions -> Nat \cup {NoId}]]
    BY <1>1, <1>2, <2>1 DEF TypeOK
  <2> QED
    BY <1>1, <1>2, <1>4, <2>2, <2>3 DEF TypeOK
<1>8. Live' = Live /\ r \in Live
  BY <1>1 DEF Live
<1>9. CounterIsRight'
  BY <1>1, <1>8 DEF IInv, CounterIsRight
<1>10. OnlyLiveHold'
  BY <1>1, <1>5, <1>8 DEF IInv, OnlyLiveHold
<1>11. CachedAreRegistered'
  BY <1>1, <1>4 DEF IInv, CachedAreRegistered
<1>12. (~forced => NodesResolve)'
  <2> SUFFICES ASSUME ~forced, NEW q \in Runs, NEW g \in Functions, nodes'[q][g] # NoId
               PROVE  /\ nodes'[q][g] \in DOMAIN registry'
                      /\ registry'[nodes'[q][g]].wrapper = [run |-> q, function |-> g]
    BY <1>1 DEF NodesResolve
  <2>1. CASE <<q, g>> = <<r, f>>
    BY <1>4, <1>5, <1>6, <2>1 DEF PtrsAreRegistered
  <2>2. CASE <<q, g>> # <<r, f>>
    BY <1>4, <1>5, <2>2 DEF IInv, NodesResolve
  <2> QED
    BY <2>1, <2>2
<1>13. (~forced => WrappersAreRegistered)'
  <2> SUFFICES ASSUME ~forced, NEW q \in Runs, NEW g \in Functions, wrappers'[q][g] # None
               PROVE  /\ byPtr'[wrappers'[q][g]] # NoId
                      /\ registry'[byPtr'[wrappers'[q][g]]].wrapper = [run |-> q, function |-> g]
    BY <1>1 DEF WrappersAreRegistered
  <2>1. CASE <<q, g>> = <<r, f>>
    BY <1>4, <1>5, <1>6, <2>1
  <2>2. CASE <<q, g>> # <<r, f>>
    <3> DEFINE b == wrappers[q][g]
    <3>1. wrappers'[q][g] = b /\ b # None
      BY <1>5, <2>2
    <3>2. b \in Addresses
      BY <1>2, <3>1 DEF TypeOK
    <3>3. byPtr[b] # NoId /\ registry[byPtr[b]].wrapper = [run |-> q, function |-> g]
      BY <3>1 DEF IInv, WrappersAreRegistered
    <3>4. byPtr[b] \in DOMAIN registry
      BY <3>2, <3>3 DEF IInv, PtrsAreRegistered
    <3> QED
      BY <1>4, <3>1, <3>2, <3>3, <3>4
  <2> QED
    BY <2>1, <2>2
<1>14. NothingKept'
  BY <1>8 DEF NothingKept
<1>15. AnswersAreOwn'
  BY <1>1 DEF IInv, AnswersAreOwn
<1> QED
  BY <1>4, <1>7, <1>9, <1>10, <1>11, <1>12, <1>13, <1>14, <1>15 DEF IInv

(* What a sequence holds is of its kind.                                     *)
LEMMA Entries == ASSUME NEW T, NEW s \in Seq(T) PROVE \A i \in DOMAIN s : s[i] \in T
OBVIOUS

(* A call reads the registry, through the results that came from it.         *)
LEMMA EvaluateKeeps ==
  ASSUME IInv, NEW r \in Runs, NEW f \in Functions, Evaluate(r, f)
  PROVE  IInv'
<1> DEFINE id == nodes[r][f]
           w  == [run |-> r, function |-> f]
<1>1. status[r] = "held" /\ id # NoId /\ UNCHANGED <<status, scopes, wrappers, nodes, registry, byPtr, forced>>
  BY DEF Evaluate
<1>2. w \in Wrapper /\ id \in Nat
  BY <1>1 DEF Wrapper, IInv, TypeOK
<1>3. ~forced => id \in DOMAIN registry /\ registry[id].wrapper = w
  BY <1>1 DEF IInv, NodesResolve
<1>4. \A i \in DOMAIN registry : registry[i].wrapper \in Wrapper
  <2>1. registry \in Seq([address : Addresses, wrapper : Wrapper])
    BY DEF IInv, TypeOK
  <2>2. \A i \in DOMAIN registry : registry[i] \in [address : Addresses, wrapper : Wrapper]
    BY <2>1, Entries
  <2> QED
    BY <2>2
<1>5. /\ cached' \subseteq [id : Nat, wrapper : Wrapper]
      /\ CachedAreRegistered'
      /\ answer' \in [asked : Wrapper \cup {None}, got : Wrapper \cup {None}]
      /\ AnswersAreOwn'
  <2>0. cached \subseteq [id : Nat, wrapper : Wrapper] /\ CachedAreRegistered
    BY DEF IInv, TypeOK
  <2>1. CASE \E c \in Hits(id) : answer' = [asked |-> w, got |-> c.wrapper] /\ UNCHANGED cached
    <3>1. PICK c \in Hits(id) : answer' = [asked |-> w, got |-> c.wrapper] /\ UNCHANGED cached
      BY <2>1
    <3>2. c \in cached /\ c.id = id
      BY DEF Hits
    <3>3. c.wrapper \in Wrapper /\ registry[id].wrapper = c.wrapper
      BY <2>0, <3>2 DEF CachedAreRegistered
    <3> QED
      BY <1>1, <1>2, <1>3, <2>0, <3>1, <3>3 DEF CachedAreRegistered, AnswersAreOwn
  <2>2. CASE id \in DOMAIN registry /\ answer' = [asked |-> w, got |-> registry[id].wrapper]
             /\ Remember(id, registry[id].wrapper)
    <3>1. cached' \subseteq cached \cup {[id |-> id, wrapper |-> registry[id].wrapper]}
      BY <2>2 DEF Remember
    <3>2. [id |-> id, wrapper |-> registry[id].wrapper] \in [id : Nat, wrapper : Wrapper]
      BY <1>2, <1>4, <2>2
    <3>3. CachedAreRegistered'
      BY <1>1, <2>0, <2>2, <3>1 DEF CachedAreRegistered
    <3> QED
      BY <1>1, <1>2, <1>3, <1>4, <2>0, <2>2, <3>1, <3>2, <3>3 DEF AnswersAreOwn
  <2>3. CASE id \notin DOMAIN registry /\ answer' = [asked |-> w, got |-> None] /\ UNCHANGED cached
    BY <1>1, <1>2, <1>3, <2>0, <2>3 DEF CachedAreRegistered, AnswersAreOwn
  <2> QED
    BY <2>1, <2>2, <2>3 DEF Evaluate
<1>6. TypeOK'
  BY <1>1, <1>5 DEF IInv, TypeOK
<1>7. r \in Live /\ Live' = Live
  BY <1>1 DEF Live
<1>8. (CounterIsRight /\ OnlyLiveHold /\ PtrsAreRegistered)'
  BY <1>1, <1>7 DEF IInv, CounterIsRight, OnlyLiveHold, PtrsAreRegistered
<1>9. (~forced => NodesResolve /\ WrappersAreRegistered)'
  BY <1>1 DEF IInv, NodesResolve, WrappersAreRegistered
<1> QED
  BY <1>5, <1>6, <1>7, <1>8, <1>9 DEF IInv, NothingKept

(* Letting go of a run changes nothing but who may resume it.                *)
LEMMA DropKeeps == ASSUME IInv, NEW r \in Runs, Drop(r) PROVE IInv'
<1>1. /\ status[r] = "held"
      /\ \E fate \in {"dropped", "lost"} : status' = [status EXCEPT ![r] = fate]
      /\ UNCHANGED <<scopes, wrappers, nodes, registry, byPtr, cached, answer, forced>>
  BY DEF Drop
<1>2. TypeOK
  BY DEF IInv
<1>3. Live' = Live
  BY <1>1, <1>2 DEF Live, TypeOK
<1>4. TypeOK'
  BY <1>1, <1>2 DEF TypeOK
<1> QED
  BY <1>1, <1>3, <1>4
  DEF IInv, CounterIsRight, OnlyLiveHold, PtrsAreRegistered, CachedAreRegistered,
      NodesResolve, WrappersAreRegistered, NothingKept, AnswersAreOwn

(* The registry is cleared with the last scope, when no run holds an id.     *)
LEMMA LeaveKeeps == ASSUME IInv, NEW r \in Live, Leave(r) PROVE IInv'
<1>0. r \in Runs
  BY DEF Live
<1>1. /\ status' = [status EXCEPT ![r] = "closed"]
      /\ scopes' = scopes - 1
      /\ wrappers' = [wrappers EXCEPT ![r] = [f \in Functions |-> None]]
      /\ nodes' = [nodes EXCEPT ![r] = [f \in Functions |-> NoId]]
      /\ IF scopes' = 0 THEN Clear ELSE UNCHANGED <<registry, byPtr, cached>>
      /\ UNCHANGED <<answer, forced>>
  BY DEF Leave, LastScopeClears
<1>2. TypeOK
  BY DEF IInv
<1>3. Live' = Live \ {r} /\ r \in Live
  BY <1>0, <1>1, <1>2 DEF Live, TypeOK
<1>4. IsFiniteSet(Live') /\ Cardinality(Live') = Cardinality(Live) - 1 /\ Cardinality(Live') \in Nat
  <2>1. IsFiniteSet(Live)
    BY LiveIsFinite
  <2>2. IsFiniteSet(Live \ {r}) /\ Cardinality(Live \ {r}) = Cardinality(Live) - 1
    BY <1>3, <2>1, FS_RemoveElement
  <2> QED
    BY <1>3, <2>2, FS_CardinalityType
<1>5. CounterIsRight' /\ scopes' \in Nat
  BY <1>1, <1>4 DEF IInv, CounterIsRight
<1>6. scopes' = 0 <=> Live' = {}
  BY <1>4, <1>5, FS_EmptySet DEF CounterIsRight
<1>7. TypeOK' /\ PtrsAreRegistered' /\ CachedAreRegistered'
  <2>1. /\ status' \in [Runs -> {"new", "held", "dropped", "lost", "closed"}]
        /\ wrappers' \in [Runs -> [Functions -> Addresses \cup {None}]]
        /\ nodes' \in [Runs -> [Functions -> Nat \cup {NoId}]]
    BY <1>0, <1>1, <1>2 DEF TypeOK
  <2>2. CASE scopes' = 0
    <3>1. registry' = <<>> /\ byPtr' = [a \in Addresses |-> NoId] /\ cached' = {}
      BY <1>1, <2>2 DEF Clear
    <3>2. registry' \in Seq([address : Addresses, wrapper : Wrapper])
      BY <3>1, EmptyRegistry
    <3>3. byPtr' \in [Addresses -> Nat \cup {NoId}] /\ cached' \subseteq [id : Nat, wrapper : Wrapper]
      BY <3>1
    <3>4. PtrsAreRegistered' /\ CachedAreRegistered'
      BY <3>1 DEF PtrsAreRegistered, CachedAreRegistered
    <3> QED
      BY <1>1, <1>2, <1>5, <2>1, <3>2, <3>3, <3>4 DEF TypeOK
  <2>3. CASE scopes' # 0
    BY <1>1, <1>2, <1>5, <2>1, <2>3 DEF IInv, TypeOK, PtrsAreRegistered, CachedAreRegistered
  <2> QED
    BY <2>2, <2>3
<1>8. \A q \in Runs, f \in Functions :
        /\ q = r => wrappers'[q][f] = None /\ nodes'[q][f] = NoId
        /\ q # r => wrappers'[q][f] = wrappers[q][f] /\ nodes'[q][f] = nodes[q][f]
  BY <1>0, <1>1, <1>2 DEF TypeOK
<1>9. OnlyLiveHold'
  BY <1>3, <1>8 DEF IInv, OnlyLiveHold
<1>10. (~forced => NodesResolve /\ WrappersAreRegistered)'
  <2>1. CASE scopes' = 0
    <3>1. \A q \in Runs : q \notin Live'
      BY <1>6, <2>1
    <3> QED
      BY <1>9, <3>1 DEF OnlyLiveHold, NodesResolve, WrappersAreRegistered
  <2>2. CASE scopes' # 0
    BY <1>1, <1>8, <2>2 DEF IInv, NodesResolve, WrappersAreRegistered
  <2> QED
    BY <2>1, <2>2
<1>11. NothingKept'
  BY <1>1, <1>6 DEF NothingKept, Clear
<1>12. AnswersAreOwn'
  BY <1>1 DEF IInv, AnswersAreOwn
<1> QED
  BY <1>5, <1>7, <1>9, <1>10, <1>11, <1>12 DEF IInv

(* Clearing by hand leaves the types and the registry's own maps in order.   *)
LEMMA ClearDirectlyKeeps == ASSUME IInv, ClearDirectly PROVE IInv'
<1>1. /\ registry' = <<>> /\ byPtr' = [a \in Addresses |-> NoId] /\ cached' = {} /\ forced' = TRUE
      /\ UNCHANGED <<status, scopes, wrappers, nodes, answer>>
  BY DEF ClearDirectly, Clear
<1>2. Live' = Live
  BY <1>1 DEF Live
<1>3. TypeOK'
  <2>1. registry' \in Seq([address : Addresses, wrapper : Wrapper])
    BY <1>1, EmptyRegistry
  <2>2. byPtr' \in [Addresses -> Nat \cup {NoId}]
    BY <1>1
  <2> QED
    BY <1>1, <2>1, <2>2 DEF IInv, TypeOK
<1> QED
  BY <1>1, <1>2, <1>3
  DEF IInv, CounterIsRight, OnlyLiveHold, PtrsAreRegistered, CachedAreRegistered, NothingKept, AnswersAreOwn

(* Every step keeps the invariant.                                           *)
LEMMA StepKeeps == IInv /\ [Next]_vars => IInv'
<1> SUFFICES ASSUME IInv, [Next]_vars PROVE IInv'
  OBVIOUS
<1>1. CASE \E r \in Runs : Open(r)
  BY <1>1, OpenKeeps
<1>2. CASE \E r \in Runs : Close(r) \/ Collect(r)
  <2>1. PICK r \in Runs : status[r] \in {"held", "dropped"} /\ Leave(r)
    BY <1>2 DEF Close, Collect
  <2>2. r \in Live
    BY <2>1 DEF Live
  <2> QED
    BY <2>1, <2>2, LeaveKeeps
<1>3. CASE \E r \in Runs : Drop(r)
  BY <1>3, DropKeeps
<1>4. CASE \E r \in Runs, f \in Functions : Evaluate(r, f)
  BY <1>4, EvaluateKeeps
<1>5. CASE \E r \in Runs, f \in Functions, a \in Addresses : Convert(r, f, a)
  BY <1>5, ConvertKeeps
<1>6. CASE ClearDirectly
  BY <1>6, ClearDirectlyKeeps
<1>7. CASE UNCHANGED vars
  BY <1>7
  DEF vars, IInv, TypeOK, CounterIsRight, Live, OnlyLiveHold, PtrsAreRegistered, CachedAreRegistered,
      NodesResolve, WrappersAreRegistered, NothingKept, AnswersAreOwn
<1> QED
  BY <1>1, <1>2, <1>3, <1>4, <1>5, <1>6, <1>7 DEF Next

(* The bookkeeping of the registry is right in every reachable state,        *)
(* whichever runs are live and however they end.                             *)
THEOREM Invariant == Spec => []IInv
BY InitIInv, StepKeeps, PTL DEF Spec

(* The registry and its maps keep their shape.                               *)
THEOREM TypeCorrect == Spec => []TypeOK
<1>1. IInv => TypeOK
  BY DEF IInv
<1> QED
  BY <1>1, Invariant, PTL

(* A call reaches the function its expression was built from, unless the     *)
(* registry was cleared by hand (converter.py, the scope of a run).          *)
THEOREM AnswersRight == Spec => []AnswersAreOwn
<1>1. IInv => AnswersAreOwn
  BY DEF IInv
<1> QED
  BY <1>1, Invariant, PTL

(* When the last scope is left nothing stays registered or memoised.         *)
THEOREM Emptied == Spec => []NothingKept
<1>1. IInv => NothingKept
  BY DEF IInv
<1> QED
  BY <1>1, Invariant, PTL
=============================================================================

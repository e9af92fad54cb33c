------------------------- MODULE MCObjectSymmetry --------------------------
EXTENDS ObjectSymmetry, TLC

Yes == Term("true", <<>>)
No == Term("false", <<>>)
Things == {"a", "b", "c"}
MCObjects == <<"a", "b", "c", "n">>
ByName == <<"c", "a", "n", "b">>
(* Things are items, and an opaque function may take any item.               *)
Above == [thing |-> {"thing", "item"}, none |-> {"none"}]
AtOf(o) == Term("at", <<o>>)
Held(o) == Term("held", <<o>>)
Near(o) == Term("near", <<o>>)
Link(o, b) == Term("link", <<o, b>>)
Is(f, v) == [op |-> "is", terms |-> <<f, v>>]
Same(f, g) == [op |-> "equals", terms |-> <<f, g>>]

Explicit ==
  {<<>>, AtOf("a") :> Yes @@ AtOf("b") :> Yes,
   AtOf("c") :> No @@ Link("a", "b") :> Yes @@ Link("b", "a") :> Yes,
   Link("a", "b") :> Yes @@ Link("b", "c") :> Yes @@ AtOf("a") :> Yes,
   Near("a") :> Obj("b") @@ Near("b") :> Obj("a") @@ AtOf("a") :> Yes @@ AtOf("b") :> Yes @@ AtOf("c") :> Yes,
   [f \in {Near(o) : o \in Things} |-> Obj("n")] @@ [f \in {AtOf(o) : o \in Things} |-> Yes],
   Near("b") :> Obj("b") @@ Near("c") :> Obj("c") @@ AtOf("a") :> Yes}
Goals ==
  {{Is(Held("a"), Yes), Is(Held("b"), Yes)}, {Is(Held("b"), Yes)},
   {Same(Near("a"), Near("b")), Is(Held("c"), Yes)},
   {Same(Near("b"), Near("a")), Same(Near("b"), Near("c")), Same(Near("c"), Near("a")), Is(Near("a"), Obj("n"))}}

(* Take one thing, or bring one that is held to another. A domain constant   *)
(* has an action of its own, and an opaque function may make one thing       *)
(* special.                                                                  *)
Take(o) == [pre |-> {<<AtOf(o), Yes>>}, effects |-> Held(o) :> Yes @@ AtOf(o) :> No]
Bring(o, b) == [pre |-> {<<Held(o), Yes>>}, effects |-> AtOf(b) :> Yes @@ Near(o) :> Obj(b)]
Reset == [pre |-> {}, effects |-> AtOf("a") :> Yes]
ActionsFor(constants, calls) ==
  [a \in {<<"take", <<o>>>> : o \in Things}
         \cup {<<"bring", x>> : x \in {y \in Things \X Things : y[1] # y[2]}}
         \cup (IF constants = {} THEN {} ELSE {<<"reset", <<>>>>}) |->
     IF a[1] = "reset" THEN Reset
     ELSE IF a[1] = "take" /\ ~(calls # {} /\ a[2][1] = "b") THEN Take(a[2][1])
     ELSE IF a[1] = "take" THEN [Take("b") EXCEPT !.pre = {<<Held("a"), Yes>>}]
     ELSE Bring(a[2][1], a[2][2])]

ProblemOf(explicit, goal, near, constants, timedObjects, calls) ==
  [objects |-> MCObjects, byName |-> ByName, above |-> Above, types |-> [o \in ToSet(MCObjects) |-> IF o = "n" THEN "none" ELSE "thing"],
   fluents |-> [at |-> <<"thing">>, held |-> <<"thing">>, near |-> <<"thing">>, link |-> <<"thing", "item">>],
   defaults |-> [at |-> No, held |-> No, near |-> Obj(near), link |-> No],
   explicit |-> explicit, goal |-> goal, constants |-> constants, timedObjects |-> timedObjects,
   timed |-> [f \in {AtOf(o) : o \in timedObjects} |-> Yes], calls |-> calls,
   actions |-> ActionsFor(constants, calls)]
Extras == {<<{}, {}, {}>>, <<{"a"}, {}, {}>>, <<{}, {"c"}, {}>>, <<{}, {}, {{"item"}}>>}
MCProblems ==
  {ProblemOf(e, g, near, x[1], x[2], x[3]) : e \in Explicit, g \in Goals, near \in {"n", "a"}, x \in Extras}
=============================================================================

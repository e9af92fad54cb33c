------------------------------ MODULE MCEngine ------------------------------
(* Engine on the problems whose plans are any few of six, under every metric. *)
EXTENDS Engine

Step(cost, value) == [cost |-> cost, value |-> value]

(* With an initial value of 3: plans that improve at once, only in the end,  *)
(* not at all, or at no cost.                                                *)
Short == <<Step(2, 2)>>
Pool ==
  {<<>>, Short, <<Step(0, 4), Step(1, 1)>>, <<Step(1, 4), Step(2, 5)>>, <<Step(0, 2), Step(0, 3)>>}

Timed(metric, plans, compressed) ==
  [plans |-> plans, compressed |-> compressed, metrics |-> metric, initial |-> 0,
   temporal |-> TRUE, safe |-> TRUE, encodable |-> TRUE]
Classical(metric, plans) ==
  [Timed(metric, plans, plans) EXCEPT !.temporal = FALSE, !.safe = FALSE, !.initial = 3]

(* The longer counterpart of Short, which overlaps two actions, for          *)
(* compression to keep; without it, compression loses Short for good.        *)
Long == <<Step(2, 4)>>

MCProblems ==
  {Classical(<<m>>, plans) : m \in {"minimize", "maximize", "length", "costs"}, plans \in SUBSET Pool}
  \cup {Classical(<<>>, plans) : plans \in SUBSET Pool}
  \cup {Timed(<<m>>, plans \cup {Short, Long}, plans \cup {Long}) :
          m \in {"costs", "makespan"}, plans \in SUBSET (Pool \ {Short})}
  \cup {Timed(m, plans, plans \ {Short}) :
          m \in {<<>>, <<"costs">>, <<"makespan">>}, plans \in SUBSET Pool}
  \cup {Timed(<<"length">>, {<<Step(1, 1)>>}, {<<Step(1, 1)>>}), Classical(<<"makespan">>, {}), Classical(<<"length", "costs">>, {}),
        [Classical(<<>>, Pool) EXCEPT !.encodable = FALSE]}

(* A value that can be brought from 3 to 2, and then to 1. *)
FinalValueProblems == {Classical(<<"minimize">>, {<<Step(1, 2)>>, <<Step(1, 2), Step(1, 1)>>})}

Base ==
  [anytime |-> TRUE, search |-> "wastar", queues |-> <<"default">>, callable |-> FALSE,
   bounded |-> FALSE, weak |-> FALSE, early |-> FALSE, limit |-> FALSE, compression |-> TRUE,
   timeout |-> NoTimeout]
Oneshot == [Base EXCEPT !.anytime = FALSE]
MCConfigs ==
  {Base,
   [Base EXCEPT !.timeout = 2, !.weak = TRUE, !.early = TRUE],
   [Base EXCEPT !.compression = FALSE, !.search = "bfs", !.weak = TRUE],
   [Base EXCEPT !.search = "ehc"],
   [Base EXCEPT !.search = "multiqueue", !.queues = <<"default", "hmax">>, !.timeout = 3],
   [Base EXCEPT !.bounded = TRUE],
   [Base EXCEPT !.queues = <<"custom">>],
   [Oneshot EXCEPT !.weak = TRUE, !.timeout = 2],
   [Oneshot EXCEPT !.weak = TRUE, !.limit = TRUE],
   [Oneshot EXCEPT !.search = "multiqueue", !.queues = <<"hff", "default">>, !.callable = TRUE]}
=============================================================================

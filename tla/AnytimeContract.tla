-------------------------- MODULE AnytimeContract ---------------------------
(****************************************************************************)
(* What an anytime planner of increasing quality promises its caller: plans  *)
(* that only get better, then one last answer that repeats the best of them. *)
(* A plan is its quality, smaller being better.                              *)
(****************************************************************************)
EXTENDS Integers

CONSTANTS
  None         \* the quality of a plan that there is not

VARIABLES
  qualities,   \* those of the plans of the problem; never change
  quality,     \* of the plan handed out last
  answer       \* "none yet", or how the run ended

Init == quality = None /\ answer = "none yet"

Improve ==
  /\ answer = "none yet"
  /\ quality' \in qualities
  /\ quality = None \/ quality' < quality
  /\ UNCHANGED <<qualities, answer>>

(* Only the best plan there is may be called optimal.                        *)
End ==
  /\ answer = "none yet"
  /\ \/ quality # None /\ answer' \in {"satisficing", "timeout"}
     \/ quality # None /\ (\A q \in qualities : quality <= q) /\ answer' = "optimal"
     \/ quality = None /\ answer' \in {"failed", "timeout"}
  /\ UNCHANGED <<qualities, quality>>

Next == Improve \/ End

Spec == Init /\ [][Next]_<<qualities, quality, answer>>
=============================================================================

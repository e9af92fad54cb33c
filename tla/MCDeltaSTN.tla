----------------------------- MODULE MCDeltaSTN -----------------------------
(* A network of three time points for TLC.                                   *)
EXTENDS DeltaSTN

MCDates == -4 .. 4
MCBound == {-2, -1, 1}
=============================================================================

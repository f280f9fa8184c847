-------------------------- MODULE MCControlPlaneRun --------------------------
(* Three planned instances of two ticks each: the run envelope is six ticks, *)
(* so two attempts that outlive their timeout leave nothing for the third.   *)
EXTENDS ControlPlaneRun

MCCosts == {0, 1}
==============================================================================

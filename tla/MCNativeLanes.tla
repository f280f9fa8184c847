---------------------------- MODULE MCNativeLanes ---------------------------
(* Every lane once, with at most two swaps at any moments of the attempt.   *)
EXTENDS NativeLanes
=============================================================================

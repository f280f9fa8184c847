-------------------------- MODULE MCCybermetricSlice ------------------------
(* Two questions of two attempts; the run's wall ends in the second one's.  *)
EXTENDS CybermetricSlice
=============================================================================

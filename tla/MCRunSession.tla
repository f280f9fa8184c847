---------------------------- MODULE MCRunSession ----------------------------
(* Two runs are enough: what is left of the first meets the second. *)
EXTENDS RunSession
=============================================================================

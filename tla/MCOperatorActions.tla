------------------------- MODULE MCOperatorActions -------------------------
(***************************************************************************)
(* Two runs, a slice of one or two instances, and the requests that tell   *)
(* the admission rules apart: an ordinary and a diagnostic run of each     *)
(* benchmark, with the native agent, and one that differs only in the      *)
(* selected output.                                                        *)
(***************************************************************************)
EXTENDS OperatorActions, TLC

Ask(b, agent, diagnostic, output) ==
    [benchmark |-> b, agent |-> agent, diagnostic |-> diagnostic, output |-> output]

MCRequests == {Ask("terminal-bench", TRUE, FALSE, "default"),
               Ask("terminal-bench", TRUE, TRUE, "default"),
               Ask("bfcl", FALSE, FALSE, "default"),
               Ask("bfcl", FALSE, TRUE, "default"),
               Ask("bfcl", FALSE, FALSE, "chosen")}
MCLists    == {{"i1"}, {"i1", "i2"}}
MCSymmetry == Permutations(RunIds)

=============================================================================

---------------------------- MODULE MCRunOutputs ----------------------------
(* Three runs: two are given one artifacts tree, two one evidence path, and *)
(* one of them is an external agent's, which freezes no plan.               *)
EXTENDS RunOutputs

CONSTANTS a, b, c, t1, t2, e1, e2

MCRuns == {a, b, c}
MCTreeOf == [r \in MCRuns |-> IF r = c THEN t2 ELSE t1]
MCEvidenceOf == [r \in MCRuns |-> IF r = b THEN e2 ELSE e1]
=============================================================================

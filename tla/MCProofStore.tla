---------------------------- MODULE MCProofStore ----------------------------
(* Two processes, two proofs and two directories: an import can race the    *)
(* other, follow it, or find what a killed one left.                        *)
EXTENDS ProofStore

CONSTANTS p1, p2, x1, x2, d1, d2

Symmetry == Permutations({p1, p2}) \cup Permutations({x1, x2}) \cup Permutations({d1, d2})
=============================================================================

---------------------------- MODULE ProofArchive ----------------------------
(***************************************************************************)
(* What the private proof store promises, with no directory, index or lock *)
(* in sight: proofs are retained one by one and for good, and whoever was  *)
(* told that a proof is imported will find it there.  A disturbance (a     *)
(* power loss, a failing disk, a damaged object) ends the promise.         *)
(***************************************************************************)
CONSTANT Proofs

VARIABLES
    retained,   \* the proofs in the archive
    promised,   \* those whose import was reported
    disturbed   \* TRUE once there was a disturbance

vars == <<retained, promised, disturbed>>

Init == retained = {} /\ promised = {} /\ disturbed = FALSE

Retain(x) ==
    /\ x \notin retained
    /\ retained' = retained \cup {x}
    /\ UNCHANGED promised

Promise(x) ==
    /\ x \in retained
    /\ promised' = promised \cup {x}
    /\ UNCHANGED retained

Next ==
    \/ ~disturbed /\ UNCHANGED disturbed /\ \E x \in Proofs : Retain(x) \/ Promise(x)
    \/ disturbed' = TRUE

Spec == Init /\ [][Next]_vars
=============================================================================

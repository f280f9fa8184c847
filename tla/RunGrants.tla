----------------------------- MODULE RunGrants -----------------------------
(***************************************************************************)
(* What claiming run outputs promises (AR-05): a run that is let through   *)
(* owns its artifacts tree against every run let through before or after   *)
(* it, dead or alive, and its evidence file for as long as that is where   *)
(* the run made it, which nobody but an operator ever changes.             *)
(***************************************************************************)
CONSTANTS Runs, TreeOf, EvidenceOf

VARIABLES
    granted,   \* the runs let through
    holding,   \* those whose evidence file has been left where it was made
    touched    \* TRUE once an operator moved an evidence file

vars == <<granted, holding, touched>>

Init == granted = {} /\ holding = {} /\ touched = FALSE

TreeIsFree(r) == r \notin granted /\ \A q \in granted : TreeOf[r] # TreeOf[q]

Grant(r) ==
    /\ TreeIsFree(r)
    /\ \A q \in holding : EvidenceOf[r] # EvidenceOf[q]
    /\ granted' = granted \cup {r}
    /\ holding' = holding \cup {r}
    /\ UNCHANGED touched

\* The run is let through although its evidence file was taken away meanwhile.
GrantBereft(r) ==
    /\ TreeIsFree(r)
    /\ touched
    /\ granted' = granted \cup {r}
    /\ UNCHANGED <<holding, touched>>

Meddle ==
    /\ touched' = TRUE
    /\ holding' \subseteq holding
    /\ UNCHANGED granted

Next == Meddle \/ \E r \in Runs : Grant(r) \/ GrantBereft(r)

Spec == Init /\ [][Next]_vars
=============================================================================

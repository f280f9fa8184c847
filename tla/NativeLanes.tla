---------------------------- MODULE NativeLanes -----------------------------
(***************************************************************************)
(* An attempt in any of BenchEval's native lanes, while an operator,       *)
(* another run or the harness itself may swap what a path names.           *)
(***************************************************************************)
EXTENDS GpqaAttempt, HarborAttempt, HleAttempt, BfclAttempt, SweAttempt, AgentAttempt

\* The plan's adapter, and the host as the attempt finds it.
Init ==
    \/ \E v \in GpqaVersions   : Fresh("gpqa", v)
    \/ \E v \in HarborVersions : Fresh("harbor", v)
    \/ \E v \in HleVersions    : Fresh("hle", v)
    \/ \E v \in BfclVersions   : Fresh("bfcl", v)
    \/ \E v \in SweVersions    : Fresh("swe", v)
    \/ \E v \in AgentVersions  : Fresh("agent", v)

Step == GpqaNext \/ HarborNext \/ HleNext \/ BfclNext \/ SweNext \/ AgentNext

Next == Step \/ Disturb \/ Over

Spec == Init /\ [][Next]_vars
-----------------------------------------------------------------------------
(* Properties *)

ByLane(gpqa, harbor, hle, bfcl, swe, agent) ==
    CASE lane = "gpqa" -> gpqa [] lane = "harbor" -> harbor [] lane = "hle" -> hle
      [] lane = "bfcl" -> bfcl [] lane = "swe" -> swe       [] lane = "agent" -> agent

Settled == out \in Scored \/ (lane = "agent" /\ out \in AgentCaptured)

\* A row with a verdict (or, of the agent lane, with captured output) rests on
\* the things BenchEval captured and nothing else: whatever was swapped in the
\* middle, and put where, the harness and the scorer used no other version of
\* them, and those the row still names are in their place.  Each adapter's
\* ladder of identity checks is what stands behind this.
SettledIsCaptured ==
    Settled =>
        /\ \A x \in ByLane(GpqaGuarded, HarborGuarded, HleGuarded, BfclGuarded, SweGuarded,
                           AgentGuarded) : seen[x] \subseteq {cap[x]}
        /\ \A x \in ByLane(GpqaOwned, HarborGuarded, HleNamed, BfclNamed, {}, AgentNamed) :
              ver[x] = cap[x]

\* A verdict is borne by what the harness really did: complete, of the planned
\* questions, model or agent, coherent, and of the sign the row has.
VerdictIsEarned ==
    out \in Scored =>
        ByLane(GpqaEarned, HarborEarned, HleEarned, BfclEarned, SweEarned, FALSE)

\* What an adapter calls corrupt evidence in the absence of any swap: several
\* results, a result of another case, a score or report that is a link, a log in the
\* name of a copy, leftovers of another study, or inputs nobody materialized.
Irregular ==
    ByLane(FALSE, truth.kind = "ran" /\ truth.layout = "two_trials", FALSE,
           \/ truth.kind # "nothing" /\ truth.rows # "one"
           \/ ver["study"] = 0
           \/ truth.kind = "evaluated" /\ truth.linked,
           \/ truth.kind = "generated" /\ (truth.twin \/ ver["official"] = Absent)
           \/ truth.kind = "evaluated" /\ truth.linked,
           FALSE)

\* No false alarm: evidence is called corrupt only if something was swapped
\* since the attempt began, or the harness left what nobody can score.  A host
\* that was merely stale when the attempt began is not corrupt evidence.
CorruptHasCause == out = "evidence_corrupt" => disturbs > 0 \/ Irregular

=============================================================================

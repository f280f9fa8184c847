-------------------------- MODULE ControlPlaneRun --------------------------
(***************************************************************************)
(* One control-plane run (src/bencheval/control_plane_executor.py) with the *)
(* lifecycle of the adapter it drives: the per-instance lanes (Harbor,     *)
(* BFCL, SWE-bench), which attempt the planned instances one by one behind *)
(* a budget gate, and the aggregate lanes (GPQA, HLE), which run the whole *)
(* slice in one attempt.  An attempt is one harness subprocess or two      *)
(* (generate then evaluate, predict then judge) under one wall allowance.  *)
(*                                                                         *)
(* Time and money are whole ticks and units, a second is Second ticks.  A harness that outlives its  *)
(* timeout is killed and reaped within Overshoot; the adapter's own checks *)
(* between two phases take at most CheckTime on each side of its reading   *)
(* of the clock.  What the harness answers, and whether a check of its     *)
(* directories, bytes and identities fails, is a choice.                   *)
(***************************************************************************)
EXTENDS Integers, Sequences, FiniteSets

CONSTANTS
    Lanes,         \* the lanes this instance may run
    Policies,      \* cleanup policies the plan may carry
    NumInstances,  \* planned instances
    PerInstance,   \* max_wall_clock_sec_per_instance
    MaxCost,       \* max_cost_usd, 0 for no cost envelope
    Costs,         \* what a scored instance may report as its cost
    Second,        \* ticks in the second that timeouts are counted in
    Overshoot,     \* bound: time to kill and reap a timed-out harness
    CheckTime      \* bound: time of the checks before or after a clock reading

InstanceLanes == {"harbor", "bfcl", "swe"}
SliceLanes    == {"gpqa", "hle"}

ASSUME LanesAreKnown    == Lanes \subseteq InstanceLanes \cup SliceLanes
ASSUME PoliciesAreKnown == Policies \subseteq {"never", "on-success", "always"}
ASSUME PlanIsBounded    == NumInstances \in Nat \ {0} /\ PerInstance \in Nat \ {0}
ASSUME MoneyIsNat       == MaxCost \in Nat /\ Costs \subseteq Nat
ASSUME DelaysAreNat     == Overshoot \in Nat /\ CheckTime \in Nat /\ Second \in Nat \ {0}

VARIABLES
    lane, policy,  \* the plan's adapter and its cleanup policy
    pc,            \* where the run is
    at,            \* number of the planned instance at hand
    phase,         \* which subprocess of the attempt
    allow,         \* its timeout
    used,          \* time the attempt has really taken
    kept,          \* latency of its finished phases, as the adapter sums it
    out,           \* the outcome the adapter hands over
    rows,          \* evidence rows, in file order
    spent,         \* spent_cost_usd and spent_wall_sec of the gate
    passed,        \* passed
    scratch,       \* directories holding transient artifacts
    summary        \* what the run reports at its end

plan    == <<lane, policy>>
attempt == <<phase, allow, used, kept>>
ledger  == <<rows, spent, passed>>
vars    == <<plan, pc, at, attempt, out, ledger, scratch, summary>>

Aggregate == 0
MaxWall   == PerInstance * NumInstances
ByInstance == lane \in InstanceLanes
Wall      == IF ByInstance THEN PerInstance ELSE MaxWall
Phases    == IF lane \in {"harbor", "gpqa"} THEN 1 ELSE 2
Tree      == IF ByInstance THEN at ELSE Aggregate
Transient == lane \in {"harbor", "gpqa", "hle"}
NoOutcome == [scored |-> FALSE, pass |-> FALSE, label |-> "none", cost |-> 0,
              lat |-> 0, cleanup |-> "none"]
NoSummary == [count |-> 0, passed |-> 0, failed |-> 0]

Terminal == {"refused", "done", "aborted", "killed"}

Init ==
    /\ lane \in Lanes /\ policy \in Policies
    /\ pc = "plan" /\ at = 1
    /\ phase = 1 /\ allow = 0 /\ used = 0 /\ kept = 0
    /\ out = NoOutcome
    /\ rows = <<>> /\ spent = [cost |-> 0, wall |-> 0] /\ passed = 0
    /\ scratch = {}
    /\ summary = NoSummary
-----------------------------------------------------------------------------
(***************************************************************************)
(* The run's frame.                                                        *)
(***************************************************************************)

\* Preflight refuses before anything is claimed, or the outputs are claimed.
Claim ==
    /\ pc = "plan"
    /\ \/ pc' = "refused"
       \/ pc' = IF ByInstance THEN "gate" ELSE "prepare"
    /\ UNCHANGED <<plan, at, attempt, out, ledger, scratch, summary>>

Exhausted == (MaxCost > 0 /\ spent.cost >= MaxCost) \/ spent.wall >= MaxWall

\* Mutant: `continue` before the skip row is appended.
BudgetSkipSilently ==
    /\ pc = "gate" /\ at <= NumInstances /\ Exhausted
    /\ at' = at + 1
    /\ UNCHANGED <<plan, pc, attempt, out, ledger, scratch, summary>>

\* Faulty variant: the skip row's `continue` does not advance.
BudgetSkipAgain ==
    /\ pc = "gate" /\ at <= NumInstances /\ Exhausted
    /\ UNCHANGED vars

\* A planned instance the envelope has no room for: a row and no launch.
BudgetSkip ==
    /\ pc = "gate" /\ at <= NumInstances /\ Exhausted
    /\ rows' = Append(rows, [inst |-> at, launched |-> FALSE,
                             out |-> [NoOutcome EXCEPT !.label = "budget", !.cleanup = "skipped"]])
    /\ at' = at + 1
    /\ UNCHANGED <<plan, pc, attempt, out, spent, passed, scratch, summary>>

BeginAttempt ==
    /\ pc = "gate" /\ at <= NumInstances /\ ~Exhausted
    /\ pc' = "prepare"
    /\ phase' = 1 /\ allow' = 0 /\ used' = 0 /\ kept' = 0
    /\ out' = NoOutcome
    /\ UNCHANGED <<plan, at, ledger, scratch, summary>>

\* The exception path of the adapter boundary: an unscored outcome.
FailAttempt(label, lat) ==
    /\ out' = [NoOutcome EXCEPT !.label = label, !.lat = lat]
    /\ pc' = "clean"

\* Identity, staging and pin checks; an aggregate lane makes its cache first.
RefuseLaunch ==
    /\ pc = "prepare"
    /\ FailAttempt("drift", 0)
    /\ scratch' \in {scratch, IF lane \in SliceLanes THEN scratch \cup {Tree} ELSE scratch}
    /\ UNCHANGED <<plan, at, attempt, ledger, summary>>

Launch ==
    /\ pc = "prepare"
    /\ allow' = Wall
    /\ pc' = "running"
    /\ scratch' = IF Transient THEN scratch \cup {Tree} ELSE scratch
    /\ UNCHANGED <<plan, at, phase, used, kept, out, ledger, summary>>
-----------------------------------------------------------------------------
(***************************************************************************)
(* One phase: the harness returns within its timeout, or is killed after   *)
(* it, or cannot be started.                                               *)
(***************************************************************************)

PhaseReturns ==
    /\ pc = "running"
    /\ \E t \in 0..allow : used' = used + t /\ kept' = kept + t
    /\ \/ pc' = "check"
       \/ pc' = "broken"                      \* a nonzero exit status
    /\ UNCHANGED <<plan, at, phase, allow, out, ledger, scratch, summary>>

\* The runner raises with the time of this phase.
PhaseTimesOut ==
    /\ pc = "running"
    /\ \E t \in allow..(allow + Overshoot) :
           /\ used' = used + t
           /\ FailAttempt("budget", t)
    /\ UNCHANGED <<plan, at, phase, allow, kept, ledger, scratch, summary>>

LaunchFails ==
    /\ pc = "running"
    /\ FailAttempt("launch", 0)
    /\ UNCHANGED <<plan, at, attempt, ledger, scratch, summary>>

\* A check of what the phase left fails; each adapter charges the row its way.
DriftCharge ==
    (IF lane = "bfcl" THEN {} ELSE {kept})
        \cup (IF lane = "gpqa" \/ (lane = "hle" /\ phase = 2) THEN {} ELSE {0})

Drift ==
    /\ pc \in {"check", "broken"}
    /\ \E lat \in DriftCharge : FailAttempt("drift", lat)
    /\ UNCHANGED <<plan, at, attempt, ledger, scratch, summary>>

\* Faulty variant: phase two is given the whole allowance again.
StartPhaseTwoAfresh ==
    /\ pc = "check" /\ phase < Phases
    /\ allow' = Wall /\ phase' = 2 /\ pc' = "running"
    /\ UNCHANGED <<plan, at, used, kept, out, ledger, scratch, summary>>

\* What is left, in whole seconds: SWE-bench drops the rest of a second, BFCL
\* and HLE count it as one.
WholeSeconds(left) ==
    IF left <= 0 THEN 0
    ELSE IF lane = "swe" THEN left - (left % Second)
    ELSE left + ((-left) % Second)

\* Phase two gets what is left when the adapter reads the clock: HLE right
\* before the launch, BFCL between its checks, SWE-bench before all of them.
StartPhaseTwo ==
    /\ pc = "check" /\ phase < Phases
    /\ \E before \in IF lane = "swe" THEN {0} ELSE 0..CheckTime,
          after \in IF lane = "hle" THEN {0} ELSE 0..CheckTime :
           /\ allow' = WholeSeconds(Wall - (used + before))
           /\ allow' > 0
           /\ used' = used + before + after
    /\ phase' = 2
    /\ pc' = "running"
    /\ UNCHANGED <<plan, at, kept, out, ledger, scratch, summary>>

NoTimeForPhaseTwo ==
    /\ pc = "check" /\ phase < Phases
    /\ \E before \in IF lane = "swe" THEN {0} ELSE 0..CheckTime :
           /\ WholeSeconds(Wall - (used + before)) = 0
           /\ used' = used + before
    /\ FailAttempt("budget", kept)
    /\ UNCHANGED <<plan, at, phase, allow, kept, ledger, scratch, summary>>

\* The official result is read: a verdict, or none when a phase broke.
Score ==
    /\ \/ pc = "check" /\ phase = Phases
       \/ pc = "broken"
    /\ \E pass \in BOOLEAN, cost \in IF lane \in {"harbor", "swe"} THEN Costs ELSE {0} :
           /\ pass => pc = "check"
           /\ out' = [scored |-> TRUE, pass |-> pass, cost |-> cost, lat |-> kept,
                      label |-> IF pc = "broken" THEN "harness"
                                ELSE IF pass THEN "none" ELSE "wrong",
                      cleanup |-> "none"]
    /\ pc' = "clean"
    /\ UNCHANGED <<plan, at, attempt, ledger, scratch, summary>>
-----------------------------------------------------------------------------
(***************************************************************************)
(* From an outcome to its rows.                                            *)
(***************************************************************************)

\* Faulty variant: cleanup forgets that failing attempts are kept for diagnosis.
RemovesOnAnyEnd(pass) == policy \in {"always", "on-success"}

Removes(pass) == policy = "always" \/ (policy = "on-success" /\ pass)

Clean ==
    /\ pc = "clean"
    /\ scratch' = IF Removes(out.pass) THEN scratch \ {Tree} ELSE scratch
    /\ out' = [out EXCEPT !.cleanup =
                   IF Removes(out.pass) /\ Tree \in scratch THEN "success" ELSE "skipped"]
    /\ pc' = "record"
    /\ UNCHANGED <<plan, at, attempt, ledger, summary>>

\* Faulty variant: only scored attempts are charged to the gate.
RecordInstanceIfScored ==
    /\ pc = "record" /\ ByInstance
    /\ rows' = Append(rows, [inst |-> at, launched |-> TRUE, out |-> out])
    /\ spent' = IF out.scored THEN [cost |-> spent.cost + out.cost, wall |-> spent.wall + out.lat]
                ELSE spent
    /\ passed' = passed + IF out.pass THEN 1 ELSE 0
    /\ at' = at + 1
    /\ pc' = "gate"
    /\ UNCHANGED <<plan, attempt, out, scratch, summary>>

\* Per instance, one row an attempt, charged to the gate.
RecordInstance ==
    /\ pc = "record" /\ ByInstance
    /\ rows' = Append(rows, [inst |-> at, launched |-> TRUE, out |-> out])
    /\ spent' = [cost |-> spent.cost + out.cost, wall |-> spent.wall + out.lat]
    /\ passed' = passed + IF out.pass THEN 1 ELSE 0
    /\ at' = at + 1
    /\ pc' = "gate"
    /\ UNCHANGED <<plan, attempt, out, scratch, summary>>

\* A failed slice: the same failure for every planned instance, one by one.
RecordSliceFailure ==
    /\ pc = "record" /\ ~ByInstance /\ ~out.scored
    /\ rows' = Append(rows, [inst |-> at, launched |-> TRUE, out |-> out])
    /\ at' = at + 1
    /\ pc' = IF at < NumInstances THEN "record" ELSE "gate"
    /\ UNCHANGED <<plan, attempt, out, spent, passed, scratch, summary>>

\* Faulty variant: the aggregate row is counted as passed when it has any score.
RecordAggregateScored ==
    /\ pc = "record" /\ ~ByInstance /\ out.scored
    /\ rows' = Append(rows, [inst |-> Aggregate, launched |-> TRUE, out |-> out])
    /\ passed' = 1
    /\ at' = NumInstances + 1
    /\ pc' = "gate"
    /\ UNCHANGED <<plan, attempt, out, spent, scratch, summary>>

\* A scored slice: one aggregate row.
RecordAggregate ==
    /\ pc = "record" /\ ~ByInstance /\ out.scored
    /\ rows' = Append(rows, [inst |-> Aggregate, launched |-> TRUE, out |-> out])
    /\ passed' = IF out.pass THEN 1 ELSE 0
    /\ at' = NumInstances + 1
    /\ pc' = "gate"
    /\ UNCHANGED <<plan, attempt, out, spent, scratch, summary>>

Finish ==
    /\ pc = "gate" /\ at = NumInstances + 1
    /\ LET total == IF ~ByInstance /\ out.scored THEN 1 ELSE NumInstances IN
           summary' = [count |-> total, passed |-> passed, failed |-> total - passed]
    /\ pc' = "done"
    /\ UNCHANGED <<plan, at, attempt, out, ledger, scratch>>

\* Any other exception (an unreadable result, a cleanup or an append that
\* fails) leaves the run with the rows it has.
Abort ==
    /\ pc \in {"gate", "prepare", "running", "check", "broken", "clean", "record"}
    /\ pc' = "aborted"
    /\ UNCHANGED <<plan, at, attempt, out, ledger, scratch, summary>>

Kill ==
    /\ pc \notin Terminal
    /\ pc' = "killed"
    /\ UNCHANGED <<plan, at, attempt, out, ledger, scratch, summary>>

Over == pc \in Terminal /\ UNCHANGED vars

Step ==
    \/ Claim \/ BudgetSkip \/ BeginAttempt \/ RefuseLaunch \/ Launch
    \/ PhaseReturns \/ PhaseTimesOut \/ LaunchFails
    \/ Drift \/ StartPhaseTwo \/ NoTimeForPhaseTwo \/ Score
    \/ Clean \/ RecordInstance \/ RecordSliceFailure \/ RecordAggregate
    \/ Finish

Next == Step \/ Abort \/ Kill \/ Over

Spec == Init /\ [][Next]_vars

\* Every harness subprocess has a timeout and everything else is local, so a
\* run that is neither killed nor aborted keeps moving.
FairSpec == Spec /\ WF_vars(Step)
-----------------------------------------------------------------------------
(***************************************************************************)
(* Properties.                                                             *)
(***************************************************************************)

Outcomes ==
    [scored : BOOLEAN, pass : BOOLEAN, cost : Nat, lat : Nat,
     label : {"none", "budget", "drift", "launch", "harness", "wrong"},
     cleanup : {"none", "skipped", "success"}]

\* Types of the run's state.
TypeOK ==
    /\ lane \in Lanes /\ policy \in Policies
    /\ pc \in Terminal \cup {"plan", "gate", "prepare", "running", "check",
                             "broken", "clean", "record"}
    /\ at \in 1..(NumInstances + 1) /\ phase \in 1..2
    /\ allow \in Nat /\ used \in Nat /\ kept \in Nat
    /\ out \in Outcomes
    /\ rows \in Seq([inst : 0..NumInstances, launched : BOOLEAN, out : Outcomes])
    /\ spent \in [cost : Nat, wall : Nat] /\ passed \in Nat
    /\ scratch \subseteq 0..NumInstances
    /\ summary \in [count : Nat, passed : Nat, failed : Int]

\* The evidence file follows the plan whatever fails: its rows are those of a
\* prefix of the planned instances, one each and in order, or the one aggregate
\* row; a run that ends normally has accounted for every instance.
RowsFollowPlan ==
    /\ \/ \A i \in 1..Len(rows) : rows[i].inst = i
       \/ lane \in SliceLanes /\ Len(rows) = 1 /\ rows[1].inst = Aggregate
    /\ pc = "done" => \/ Len(rows) = NumInstances
                      \/ rows[1].inst = Aggregate

PassedRows == {i \in DOMAIN rows : rows[i].out.pass}
FailedRows == {i \in DOMAIN rows : ~rows[i].out.pass}

\* The summary the operator sees counts the rows of the evidence file.
SummaryCountsRows ==
    pc = "done" =>
        /\ summary.count = Len(rows)
        /\ summary.passed = Cardinality(PassedRows)
        /\ summary.failed = Cardinality(FailedRows)

\* What the first n rows add up to.
RunningSum(f, N) == LET s[n \in 0..N] == IF n = 0 THEN 0 ELSE s[n - 1] + f[n] IN s

CostUpTo    == RunningSum([i \in 1..Len(rows) |-> rows[i].out.cost], Len(rows))
LatencyUpTo == RunningSum([i \in 1..Len(rows) |-> rows[i].out.lat], Len(rows))

\* A reader of the evidence can redo the budget gate: an instance was skipped
\* exactly when the rows before it had spent the run's envelope.
GateAgreesWithEvidence ==
    ByInstance =>
        \A i \in 1..Len(rows) :
            ~rows[i].launched <=> \/ MaxCost > 0 /\ CostUpTo[i - 1] >= MaxCost
                                  \/ LatencyUpTo[i - 1] >= MaxWall

\* An attempt of two phases takes one allowance, not two: beyond it are only
\* the kill of a timed-out harness, the checks the adapter does not time and
\* what is short of a second.
AttemptBounded == used < Wall + Second + CheckTime + Overshoot

\* Once a row is written, the transient artifacts of its attempt are gone or
\* still there as the plan's policy says: a diagnosis of a failing attempt under
\* "on-success" finds its workspace, and nothing of "always" is left behind.
ScratchFollowsPolicy ==
    \A i \in 1..Len(rows) :
        LET tree == IF ByInstance THEN i ELSE Aggregate
            o == rows[i].out IN
        /\ policy = "always" => tree \notin scratch
        /\ policy = "on-success" =>
               /\ o.pass => tree \notin scratch
               /\ Transient /\ o.scored /\ ~o.pass => tree \in scratch

\* A run that is not killed comes to an end.
RunEnds == <>(pc \in Terminal)
=============================================================================

----------------------- MODULE ControlPlaneRunProofs -----------------------
(***************************************************************************)
(* Proofs about ControlPlaneRun, for any plan: any number of instances, any *)
(* allowance and any delays.  RowInv ties the rows to the planned instance *)
(* at hand, CountInv ties the counter of passed attempts to the rows, and  *)
(* TimeInv says at each point of an attempt how much of its allowance the  *)
(* attempt can have taken.  GateInv ties the gate's counters to the sums    *)
(* over the rows, whose recursive function is shown to be well defined, and *)
(* ScratchInv says which attempts can have a directory at each point.       *)
(* StepsLeft bounds the steps before a run's end by its place in the plan.  *)
(***************************************************************************)
EXTENDS ControlPlaneRun, FiniteSetTheorems, WellFoundedInduction, TLAPS

Attempting == {"prepare", "running", "check", "broken", "clean", "record"}

RowInv ==
    /\ \/ Len(rows) = at - 1 /\ \A i \in 1..Len(rows) : rows[i].inst = i
       \/ /\ lane \in SliceLanes /\ at = NumInstances + 1
          /\ Len(rows) = 1 /\ rows[1].inst = Aggregate
    /\ pc \in Attempting => at <= NumInstances
    /\ pc = "done" => at = NumInstances + 1
    /\ lane \in SliceLanes =>
           /\ pc \in (Attempting \ {"record"}) \cup {"plan"} => at = 1
           /\ pc = "record" /\ out.scored => at = 1
           /\ pc = "gate" => at = NumInstances + 1
           /\ pc \in {"gate", "done"} =>
                  IF out.scored THEN Len(rows) = 1 /\ rows[1].inst = Aggregate
                  ELSE Len(rows) = NumInstances

CountInv ==
    /\ passed = Cardinality(PassedRows)
    /\ out.pass => out.scored
    /\ pc = "done" => /\ summary.count = Len(rows)
                      /\ summary.passed = passed
                      /\ summary.failed = Len(rows) - passed

TimeInv ==
    /\ used < Wall + Second + CheckTime + Overshoot
    /\ pc \in {"plan", "prepare"} => used = 0 /\ phase = 1
    /\ pc = "running" => used + allow < Wall + Second + CheckTime
    /\ pc = "running" /\ phase = 1 => used + allow <= Wall
    /\ pc \in {"check", "broken"} => used < Wall + Second + CheckTime
    /\ pc \in {"check", "broken"} /\ phase = 1 => used <= Wall

\* The gate's counters are the sums over the rows, and an attempt is under way
\* only where the gate let it through.
GateInv ==
    /\ ByInstance =>
           /\ spent.cost = CostUpTo[Len(rows)]
           /\ spent.wall = LatencyUpTo[Len(rows)]
           /\ pc \in Attempting => ~Exhausted
    /\ GateAgreesWithEvidence

\* No instance beyond the one at hand has a directory; the one at hand has one
\* from its launch until cleanup removes it.
ScratchInv ==
    /\ ByInstance =>
           scratch \subseteq IF pc \in {"plan", "gate", "prepare"} THEN 1..(at - 1) ELSE 1..at
    /\ pc \in {"running", "check", "broken"} => (Transient => Tree \in scratch)
    /\ pc = "clean" => (Transient /\ out.scored => Tree \in scratch)
    /\ pc = "record" =>
           /\ policy = "always" => Tree \notin scratch
           /\ policy = "on-success" =>
                  /\ out.pass => Tree \notin scratch
                  /\ Transient /\ out.scored /\ ~out.pass => Tree \in scratch
    /\ ScratchFollowsPolicy
-----------------------------------------------------------------------------
\* The allowance of an attempt is a number.
LEMMA WallIsNat == Wall \in Nat /\ MaxWall \in Nat
<1>1. PerInstance \in Nat /\ NumInstances \in Nat
  BY PlanIsBounded
<1>2. MaxWall \in Nat
  BY <1>1 DEF MaxWall
<1> QED
  BY <1>1, <1>2 DEF Wall

\* Every lane is of one of the two kinds.
LEMMA LaneKinds ==
    ASSUME TypeOK
    PROVE  (lane \in SliceLanes) = ~ByInstance
BY LanesAreKnown DEF TypeOK, ByInstance, InstanceLanes, SliceLanes

\* What is left is rounded to a number less than a second away.
LEMMA WholeSecondsBound ==
    ASSUME NEW left \in Int
    PROVE  /\ WholeSeconds(left) \in Nat
           /\ left > 0 => WholeSeconds(left) < left + Second
<1>1. Second \in Nat \ {0}
  BY DelaysAreNat
<1>2. left % Second \in 0..(Second - 1) /\ (-left) % Second \in 0..(Second - 1)
  BY <1>1
<1>3. left > 0 => left % Second <= left
  BY <1>1
<1> QED
  BY <1>1, <1>2, <1>3 DEF WholeSeconds

LEMMA NoOutcomeType == NoOutcome \in Outcomes /\ ~NoOutcome.pass /\ ~NoOutcome.scored
BY DEF NoOutcome, Outcomes

\* What the exception path hands over is an unscored outcome.
LEMMA FailAttemptOutcome ==
    ASSUME TypeOK, NEW label \in {"budget", "drift", "launch"}, NEW lat \in Nat,
           FailAttempt(label, lat)
    PROVE  out' \in Outcomes /\ ~out'.pass /\ ~out'.scored /\ pc' = "clean"
BY DEF FailAttempt, NoOutcome, Outcomes, TypeOK

LEMMA TypeInit == Init => TypeOK
BY PlanIsBounded, NoOutcomeType DEF Init, TypeOK, Terminal, NoSummary

\* Every step of the system leaves the types as they are.
LEMMA TypeStep == TypeOK /\ RowInv /\ [Next]_vars => TypeOK'
<1> SUFFICES ASSUME TypeOK, RowInv, [Next]_vars PROVE TypeOK'
  OBVIOUS
<1> USE DEF TypeOK, plan, attempt, ledger, Terminal
<1>a. Wall \in Nat /\ MaxWall \in Nat /\ CheckTime \in Nat /\ Overshoot \in Nat
      /\ NumInstances \in Nat \ {0} /\ Costs \subseteq Nat
  BY WallIsNat, DelaysAreNat, PlanIsBounded, MoneyIsNat
<1>b. pc \in Attempting => at \in 1..NumInstances
  BY <1>a DEF RowInv
<1>c. pc \in Attempting => Tree \in 0..NumInstances
  BY <1>a, <1>b DEF Tree, Aggregate
<1>1. CASE Claim
  BY <1>1 DEF Claim
<1>2. CASE BudgetSkip
  <2>1. [NoOutcome EXCEPT !.label = "budget", !.cleanup = "skipped"] \in Outcomes
    BY DEF NoOutcome, Outcomes
  <2>2. rows' \in Seq([inst : 0..NumInstances, launched : BOOLEAN, out : Outcomes])
    BY <1>a, <1>2, <2>1 DEF BudgetSkip
  <2>3. at' \in 1..(NumInstances + 1)
    BY <1>a, <1>2 DEF BudgetSkip
  <2> QED
    BY <1>2, <2>2, <2>3 DEF BudgetSkip
<1>3. CASE BeginAttempt
  BY <1>3, NoOutcomeType DEF BeginAttempt
<1>4. CASE RefuseLaunch
  <2>1. scratch' \subseteq 0..NumInstances
    BY <1>4, <1>c DEF RefuseLaunch, Attempting
  <2>2. FailAttempt("drift", 0)
    BY <1>4 DEF RefuseLaunch
  <2> QED
    BY <1>4, <2>1, <2>2, FailAttemptOutcome DEF RefuseLaunch
<1>5. CASE Launch
  <2>1. scratch' \subseteq 0..NumInstances
    BY <1>5, <1>c DEF Launch, Attempting
  <2> QED
    BY <1>5, <1>a, <2>1 DEF Launch
<1>6. CASE PhaseReturns
  BY <1>6 DEF PhaseReturns
<1>7. CASE PhaseTimesOut
  BY <1>7, FailAttemptOutcome, <1>a DEF PhaseTimesOut
<1>8. CASE LaunchFails
  BY <1>8, FailAttemptOutcome DEF LaunchFails
<1>9. CASE Drift
  BY <1>9, FailAttemptOutcome DEF Drift, DriftCharge
<1>10. CASE StartPhaseTwo
  <2>1. PICK before \in 0..CheckTime :
             allow' = WholeSeconds(Wall - (used + before))
    BY <1>10, <1>a DEF StartPhaseTwo
  <2>2. allow' \in Nat
    BY <1>a, <2>1, WholeSecondsBound
  <2> QED
    BY <1>10, <1>a, <2>2 DEF StartPhaseTwo
<1>11. CASE NoTimeForPhaseTwo
  BY <1>11, FailAttemptOutcome, <1>a DEF NoTimeForPhaseTwo
<1>12. CASE Score
  BY <1>12, <1>a DEF Score, Outcomes
<1>13. CASE Clean
  BY <1>13 DEF Clean, Outcomes
<1>14. CASE RecordInstance
  <2>1. at \in 1..NumInstances
    BY <1>14, <1>b DEF RecordInstance, Attempting
  <2>2. [inst |-> at, launched |-> TRUE, out |-> out]
            \in [inst : 0..NumInstances, launched : BOOLEAN, out : Outcomes]
    BY <1>a, <2>1
  <2>3. rows' \in Seq([inst : 0..NumInstances, launched : BOOLEAN, out : Outcomes])
    BY <1>14, <2>2 DEF RecordInstance
  <2>4. spent' \in [cost : Nat, wall : Nat]
    BY <1>14 DEF RecordInstance, Outcomes
  <2>5. passed' \in Nat /\ at' \in 1..(NumInstances + 1)
    BY <1>14, <1>a, <2>1 DEF RecordInstance
  <2> QED
    BY <1>14, <2>3, <2>4, <2>5 DEF RecordInstance
<1>15. CASE RecordSliceFailure
  <2>1. at \in 1..NumInstances
    BY <1>15, <1>b DEF RecordSliceFailure, Attempting
  <2>2. [inst |-> at, launched |-> TRUE, out |-> out]
            \in [inst : 0..NumInstances, launched : BOOLEAN, out : Outcomes]
    BY <1>a, <2>1
  <2>3. rows' \in Seq([inst : 0..NumInstances, launched : BOOLEAN, out : Outcomes])
    BY <1>15, <2>2 DEF RecordSliceFailure
  <2>4. at' \in 1..(NumInstances + 1)
    BY <1>15, <1>a, <2>1 DEF RecordSliceFailure
  <2> QED
    BY <1>15, <2>3, <2>4 DEF RecordSliceFailure
<1>16. CASE RecordAggregate
  <2>1. [inst |-> Aggregate, launched |-> TRUE, out |-> out]
            \in [inst : 0..NumInstances, launched : BOOLEAN, out : Outcomes]
    BY <1>a DEF Aggregate
  <2>2. rows' \in Seq([inst : 0..NumInstances, launched : BOOLEAN, out : Outcomes])
    BY <1>16, <2>1 DEF RecordAggregate
  <2> QED
    BY <1>16, <1>a, <2>2 DEF RecordAggregate
<1>17. CASE Finish
  BY <1>17, <1>a DEF Finish
<1>18. CASE Abort
  BY <1>18 DEF Abort
<1>19. CASE Kill
  BY <1>19 DEF Kill
<1>20. CASE UNCHANGED vars
  BY <1>20 DEF vars
<1> QED
  BY <1>1, <1>2, <1>3, <1>4, <1>5, <1>6, <1>7, <1>8, <1>9, <1>10, <1>11, <1>12, <1>13,
     <1>14, <1>15, <1>16, <1>17, <1>18, <1>19, <1>20
     DEF Next, Step, Over
-----------------------------------------------------------------------------
\* The rows and the instance at hand.
LEMMA RowInit == Init => RowInv
BY LaneKinds, TypeInit, PlanIsBounded DEF Init, RowInv, Attempting

\* Appending to the rows keeps the rows there were.
LEMMA AppendedRows ==
    ASSUME TypeOK, NEW row, rows' = Append(rows, row)
    PROVE  /\ Len(rows') = Len(rows) + 1
           /\ Len(rows) \in Nat
           /\ rows'[Len(rows) + 1] = row
           /\ \A i \in 1..Len(rows) : rows'[i] = rows[i]
BY DEF TypeOK

LEMMA RowStep == TypeOK /\ RowInv /\ [Next]_vars => RowInv'
<1> SUFFICES ASSUME TypeOK, RowInv, [Next]_vars PROVE RowInv'
  OBVIOUS
<1> USE DEF plan, attempt, ledger, Attempting
<1>a. NumInstances \in Nat \ {0} /\ at \in 1..(NumInstances + 1) /\ phase \in 1..2
  BY PlanIsBounded DEF TypeOK
<1>b. (lane \in SliceLanes) = ~ByInstance
  BY LaneKinds
<1>1. CASE Claim
  BY <1>1, <1>a, <1>b DEF Claim, RowInv
<1>2. CASE BudgetSkip
  <2>1. PICK row : rows' = Append(rows, row) /\ row.inst = at
    BY <1>2 DEF BudgetSkip
  <2>2. lane \notin SliceLanes
    BY <1>2, <1>a DEF BudgetSkip, RowInv
  <2> QED
    BY <1>2, <1>a, <2>1, <2>2, AppendedRows DEF BudgetSkip, RowInv
<1>3. CASE BeginAttempt
  <2>2. lane \notin SliceLanes
    BY <1>3, <1>a DEF BeginAttempt, RowInv
  <2> QED
    BY <1>3, <1>a, <2>2 DEF BeginAttempt, RowInv
<1>4. CASE RefuseLaunch
  BY <1>4 DEF RefuseLaunch, FailAttempt, RowInv
<1>5. CASE Launch
  BY <1>5 DEF Launch, RowInv
<1>6. CASE PhaseReturns
  BY <1>6 DEF PhaseReturns, RowInv
<1>7. CASE PhaseTimesOut
  BY <1>7 DEF PhaseTimesOut, FailAttempt, RowInv
<1>8. CASE LaunchFails
  BY <1>8 DEF LaunchFails, FailAttempt, RowInv
<1>9. CASE Drift
  BY <1>9 DEF Drift, FailAttempt, RowInv
<1>10. CASE StartPhaseTwo
  BY <1>10 DEF StartPhaseTwo, RowInv
<1>11. CASE NoTimeForPhaseTwo
  BY <1>11 DEF NoTimeForPhaseTwo, FailAttempt, RowInv
<1>12. CASE Score
  BY <1>12 DEF Score, RowInv
<1>13. CASE Clean
  BY <1>13 DEF Clean, RowInv
<1>14. CASE RecordInstance
  <2>1. PICK row : rows' = Append(rows, row) /\ row.inst = at
    BY <1>14 DEF RecordInstance
  <2>2. lane \notin SliceLanes
    BY <1>14, <1>b DEF RecordInstance
  <2> QED
    BY <1>14, <1>a, <2>1, <2>2, AppendedRows DEF RecordInstance, RowInv
<1>15. CASE RecordSliceFailure
  <2>1. PICK row : rows' = Append(rows, row) /\ row.inst = at
    BY <1>15 DEF RecordSliceFailure
  <2>2. Len(rows) = at - 1 /\ \A i \in 1..Len(rows) : rows[i].inst = i
    BY <1>15, <1>a DEF RecordSliceFailure, RowInv
  <2>3. Len(rows') = at' - 1 /\ \A i \in 1..Len(rows') : rows'[i].inst = i
    BY <1>15, <1>a, <2>1, <2>2, AppendedRows DEF RecordSliceFailure
  <2> QED
    BY <1>15, <1>a, <2>3 DEF RecordSliceFailure, RowInv
<1>16. CASE RecordAggregate
  <2>1. PICK row : rows' = Append(rows, row) /\ row.inst = Aggregate
    BY <1>16 DEF RecordAggregate
  <2>2. Len(rows) = 0
    BY <1>16, <1>a, <1>b DEF RecordAggregate, RowInv
  <2>3. Len(rows') = 1 /\ rows'[1].inst = Aggregate
    BY <2>1, <2>2, AppendedRows
  <2> QED
    BY <1>16, <1>a, <1>b, <2>3 DEF RecordAggregate, RowInv
<1>17. CASE Finish
  BY <1>17, <1>a DEF Finish, RowInv
<1>18. CASE Abort
  BY <1>18 DEF Abort, RowInv
<1>19. CASE Kill
  BY <1>19 DEF Kill, RowInv
<1>20. CASE UNCHANGED vars
  BY <1>20 DEF vars, RowInv
<1> QED
  BY <1>1, <1>2, <1>3, <1>4, <1>5, <1>6, <1>7, <1>8, <1>9, <1>10, <1>11, <1>12, <1>13,
     <1>14, <1>15, <1>16, <1>17, <1>18, <1>19, <1>20
     DEF Next, Step, Over

\* Types and rows hold together: the type of the instance at hand needs that
\* an attempt is under way only for a planned one.
LEMMA TypeAndRows == Spec => [](TypeOK /\ RowInv)
<1>1. Init => TypeOK /\ RowInv
  BY TypeInit, RowInit
<1>2. TypeOK /\ RowInv /\ [Next]_vars => (TypeOK /\ RowInv)'
  BY TypeStep, RowStep
<1> QED
  BY <1>1, <1>2, PTL DEF Spec

\* The state of a run is always of its type.
THEOREM TypeCorrect == Spec => []TypeOK
BY TypeAndRows, PTL

\* The evidence rows are those of a prefix of the planned instances, one each
\* and in order, or the one aggregate row, and a finished run has them all.
THEOREM RowsCorrect == Spec => []RowsFollowPlan
<1>1. TypeOK /\ RowInv => RowsFollowPlan
  <2> SUFFICES ASSUME TypeOK, RowInv PROVE RowsFollowPlan
    OBVIOUS
  <2>1. NumInstances \in Nat /\ Len(rows) \in Nat /\ at \in Nat
    BY PlanIsBounded DEF TypeOK
  <2> QED
    BY <2>1 DEF RowInv, RowsFollowPlan
<1> QED
  BY <1>1, TypeAndRows, PTL
-----------------------------------------------------------------------------
\* The passed rows are finitely many, and with the failed ones they are all.
LEMMA PassedAndFailed ==
    ASSUME TypeOK
    PROVE  /\ IsFiniteSet(PassedRows)
           /\ Cardinality(PassedRows) \in Nat
           /\ Cardinality(FailedRows) = Len(rows) - Cardinality(PassedRows)
<1>1. Len(rows) \in Nat /\ DOMAIN rows = 1..Len(rows)
  BY DEF TypeOK
<1>2. IsFiniteSet(DOMAIN rows) /\ Cardinality(DOMAIN rows) = Len(rows)
  <2>1. 1 \in Int /\ Len(rows) \in Int
    BY <1>1
  <2>2. IsFiniteSet(1..Len(rows))
        /\ Cardinality(1..Len(rows)) = IF 1 > Len(rows) THEN 0 ELSE Len(rows) - 1 + 1
    BY <2>1, FS_Interval
  <2> QED
    BY <1>1, <2>2
<1>3. IsFiniteSet(PassedRows)
  BY <1>2, FS_Subset DEF PassedRows
<1>4. FailedRows = DOMAIN rows \ PassedRows /\ PassedRows = DOMAIN rows \cap PassedRows
  BY DEF PassedRows, FailedRows
<1>5. Cardinality(DOMAIN rows \ PassedRows)
          = Cardinality(DOMAIN rows) - Cardinality(DOMAIN rows \cap PassedRows)
  BY <1>2, FS_Difference
<1> QED
  BY <1>2, <1>3, <1>4, <1>5, FS_CardinalityType

\* An appended row counts as passed when its outcome has passed.
LEMMA CountAppended ==
    ASSUME TypeOK, NEW row, rows' = Append(rows, row),
           row.out.pass \in BOOLEAN
    PROVE  Cardinality(PassedRows') = Cardinality(PassedRows) + IF row.out.pass THEN 1 ELSE 0
<1>1. /\ Len(rows) \in Nat /\ Len(rows') = Len(rows) + 1
      /\ DOMAIN rows = 1..Len(rows) /\ DOMAIN rows' = 1..(Len(rows) + 1)
      /\ rows'[Len(rows) + 1] = row
      /\ \A i \in 1..Len(rows) : rows'[i] = rows[i]
  BY DEF TypeOK
<1>2. CASE row.out.pass
  <2>1. PassedRows' = PassedRows \cup {Len(rows) + 1}
    BY <1>1, <1>2 DEF PassedRows
  <2>2. Len(rows) + 1 \notin PassedRows
    BY <1>1 DEF PassedRows
  <2> QED
    BY <1>2, <2>1, <2>2, PassedAndFailed, FS_AddElement
<1>3. CASE ~row.out.pass
  <2>1. PassedRows' = PassedRows
    BY <1>1, <1>3 DEF PassedRows
  <2> QED
    BY <1>3, <2>1, PassedAndFailed
<1> QED
  BY <1>2, <1>3

LEMMA CountInit == Init => CountInv
<1> SUFFICES ASSUME Init PROVE CountInv
  OBVIOUS
<1>1. PassedRows = {}
  BY DEF Init, PassedRows
<1> QED
  BY <1>1, FS_EmptySet DEF Init, CountInv, NoOutcome

\* A step that leaves the rows and the counter alone and does not finish.
LEMMA CountKept ==
    ASSUME CountInv, UNCHANGED ledger, out'.pass => out'.scored, pc' # "done"
    PROVE  CountInv'
BY DEF CountInv, ledger, PassedRows

LEMMA CountStep == TypeOK /\ RowInv /\ CountInv /\ [Next]_vars => CountInv'
<1> SUFFICES ASSUME TypeOK, RowInv, CountInv, [Next]_vars PROVE CountInv'
  OBVIOUS
<1> USE DEF attempt
<1>a. /\ passed = Cardinality(PassedRows) /\ passed \in Nat
      /\ out.pass => out.scored
      /\ out.pass \in BOOLEAN
  BY DEF CountInv, TypeOK, Outcomes
<1>1. CASE Claim
  BY <1>1, <1>a, CountKept DEF Claim
<1>2. CASE BudgetSkip
  <2> DEFINE row == [inst |-> at, launched |-> FALSE,
                     out |-> [NoOutcome EXCEPT !.label = "budget", !.cleanup = "skipped"]]
  <2>1. rows' = Append(rows, row)
    BY <1>2 DEF BudgetSkip
  <2>2. ~row.out.pass /\ row.out.pass \in BOOLEAN
    BY DEF NoOutcome
  <2> HIDE DEF row
  <2>3. Cardinality(PassedRows')
            = Cardinality(PassedRows) + IF row.out.pass THEN 1 ELSE 0
    BY <2>1, <2>2, CountAppended
  <2>4. Cardinality(PassedRows') = Cardinality(PassedRows)
    BY <1>a, <2>2, <2>3
  <2> QED
    BY <1>2, <1>a, <2>4 DEF BudgetSkip, CountInv
<1>3. CASE BeginAttempt
  BY <1>3, NoOutcomeType, CountKept DEF BeginAttempt
<1>4. CASE RefuseLaunch
  BY <1>4, FailAttemptOutcome, CountKept DEF RefuseLaunch
<1>5. CASE Launch
  BY <1>5, <1>a, CountKept DEF Launch
<1>6. CASE PhaseReturns
  BY <1>6, <1>a, CountKept DEF PhaseReturns
<1>7. CASE PhaseTimesOut
  <2>1. PICK t \in allow..(allow + Overshoot) : FailAttempt("budget", t)
    BY <1>7 DEF PhaseTimesOut
  <2>2. t \in Nat
    BY DelaysAreNat DEF TypeOK
  <2> QED
    BY <1>7, <2>1, <2>2, FailAttemptOutcome, CountKept DEF PhaseTimesOut
<1>8. CASE LaunchFails
  BY <1>8, FailAttemptOutcome, CountKept DEF LaunchFails
<1>9. CASE Drift
  <2>1. PICK lat \in DriftCharge : FailAttempt("drift", lat)
    BY <1>9 DEF Drift
  <2>2. lat \in Nat
    BY DEF TypeOK, DriftCharge
  <2> QED
    BY <1>9, <2>1, <2>2, FailAttemptOutcome, CountKept DEF Drift
<1>10. CASE StartPhaseTwo
  BY <1>10, <1>a, CountKept DEF StartPhaseTwo
<1>11. CASE NoTimeForPhaseTwo
  <2>1. kept \in Nat /\ FailAttempt("budget", kept)
    BY <1>11 DEF NoTimeForPhaseTwo, TypeOK
  <2> QED
    BY <1>11, <2>1, FailAttemptOutcome, CountKept DEF NoTimeForPhaseTwo
<1>12. CASE Score
  BY <1>12, CountKept DEF Score
<1>13. CASE Clean
  <2>1. out'.pass = out.pass /\ out'.scored = out.scored
    BY <1>13 DEF Clean, TypeOK, Outcomes
  <2> QED
    BY <1>13, <1>a, <2>1, CountKept DEF Clean
<1>14. CASE RecordInstance
  <2>1. PICK row : rows' = Append(rows, row) /\ row.out = out
    BY <1>14 DEF RecordInstance
  <2>2. Cardinality(PassedRows') = passed'
    BY <1>14, <1>a, <2>1, CountAppended DEF RecordInstance
  <2> QED
    BY <1>14, <1>a, <2>2 DEF RecordInstance, CountInv
<1>15. CASE RecordSliceFailure
  <2>1. PICK row : rows' = Append(rows, row) /\ row.out = out
    BY <1>15 DEF RecordSliceFailure
  <2>2. ~out.pass
    BY <1>15, <1>a DEF RecordSliceFailure
  <2>3. Cardinality(PassedRows') = passed'
    BY <1>15, <1>a, <2>1, <2>2, CountAppended DEF RecordSliceFailure
  <2> QED
    BY <1>15, <1>a, <2>3 DEF RecordSliceFailure, CountInv
<1>16. CASE RecordAggregate
  <2>1. PICK row : rows' = Append(rows, row) /\ row.out = out
    BY <1>16 DEF RecordAggregate
  <2>2. Len(rows) = 0
    BY <1>16, LaneKinds, PlanIsBounded DEF RecordAggregate, RowInv, Attempting, TypeOK
  <2>3. PassedRows = {}
    BY <2>2 DEF PassedRows, TypeOK
  <2>4. Cardinality(PassedRows) = 0
    BY <2>3, FS_EmptySet
  <2>5. Cardinality(PassedRows') = passed'
    BY <1>16, <1>a, <2>1, <2>4, CountAppended DEF RecordAggregate
  <2> QED
    BY <1>16, <1>a, <2>5 DEF RecordAggregate, CountInv
<1>17. CASE Finish
  <2>1. Len(rows) = IF ~ByInstance /\ out.scored THEN 1 ELSE NumInstances
    BY <1>17, LaneKinds, PlanIsBounded DEF Finish, RowInv, TypeOK
  <2>2. /\ summary'.count = Len(rows) /\ summary'.passed = passed
        /\ summary'.failed = Len(rows) - passed
    BY <1>17, <2>1 DEF Finish
  <2>3. UNCHANGED <<rows, passed, out>> /\ PassedRows' = PassedRows
    BY <1>17 DEF Finish, ledger, PassedRows
  <2> QED
    BY <1>a, <2>2, <2>3 DEF CountInv
<1>18. CASE Abort
  BY <1>18, <1>a, CountKept DEF Abort
<1>19. CASE Kill
  BY <1>19, <1>a, CountKept DEF Kill
<1>20. CASE UNCHANGED vars
  BY <1>20 DEF vars, ledger, CountInv, PassedRows
<1> QED
  BY <1>1, <1>2, <1>3, <1>4, <1>5, <1>6, <1>7, <1>8, <1>9, <1>10, <1>11, <1>12, <1>13,
     <1>14, <1>15, <1>16, <1>17, <1>18, <1>19, <1>20
     DEF Next, Step, Over

\* The summary the operator sees counts the rows of the evidence file.
THEOREM SummaryCorrect == Spec => []SummaryCountsRows
<1>1. TypeOK /\ CountInv => SummaryCountsRows
  BY PassedAndFailed DEF CountInv, SummaryCountsRows
<1>2. Spec => []CountInv
  <2>1. Init => TypeOK /\ RowInv /\ CountInv
    BY TypeInit, RowInit, CountInit
  <2>2. TypeOK /\ RowInv /\ CountInv /\ [Next]_vars => (TypeOK /\ RowInv /\ CountInv)'
    BY TypeStep, RowStep, CountStep
  <2> QED
    BY <2>1, <2>2, PTL DEF Spec
<1> QED
  BY <1>1, <1>2, TypeCorrect, PTL
-----------------------------------------------------------------------------
LEMMA TimeInit == Init => TimeInv
BY WallIsNat, DelaysAreNat DEF Init, TimeInv

LEMMA TimeStep == TypeOK /\ TimeInv /\ [Next]_vars => TimeInv'
<1> SUFFICES ASSUME TypeOK, TimeInv, [Next]_vars PROVE TimeInv'
  OBVIOUS
<1> USE DEF plan, attempt, FailAttempt
<1>a. /\ Wall \in Nat /\ CheckTime \in Nat /\ Overshoot \in Nat /\ Second \in Nat \ {0}
      /\ used \in Nat /\ allow \in Nat /\ phase \in 1..2 /\ Phases \in 1..2
  BY WallIsNat, DelaysAreNat DEF TypeOK, Phases
<1>b. UNCHANGED plan => Wall' = Wall
  BY DEF Wall, ByInstance, MaxWall
<1>1. CASE Claim
  BY <1>1, <1>b DEF Claim, TimeInv
<1>2. CASE BudgetSkip
  BY <1>2, <1>b DEF BudgetSkip, TimeInv
<1>3. CASE BeginAttempt
  BY <1>3, <1>a, <1>b DEF BeginAttempt, TimeInv
<1>4. CASE RefuseLaunch
  BY <1>4, <1>b DEF RefuseLaunch, TimeInv
<1>5. CASE Launch
  BY <1>5, <1>a, <1>b DEF Launch, TimeInv
<1>6. CASE PhaseReturns
  BY <1>6, <1>a, <1>b DEF PhaseReturns, TimeInv
<1>7. CASE PhaseTimesOut
  BY <1>7, <1>a, <1>b DEF PhaseTimesOut, TimeInv
<1>8. CASE LaunchFails
  BY <1>8, <1>b DEF LaunchFails, TimeInv
<1>9. CASE Drift
  BY <1>9, <1>b DEF Drift, TimeInv
<1>10. CASE StartPhaseTwo
  <2>1. PICK before \in 0..CheckTime, after \in 0..CheckTime :
             /\ allow' = WholeSeconds(Wall - (used + before))
             /\ allow' > 0
             /\ used' = used + before + after
    BY <1>10, <1>a DEF StartPhaseTwo
  <2>2. Wall - (used + before) > 0
    BY <1>a, <2>1 DEF WholeSeconds
  <2>3. allow' \in Nat /\ allow' < Wall - (used + before) + Second
    BY <1>a, <2>1, <2>2, WholeSecondsBound
  <2> QED
    BY <1>10, <1>a, <1>b, <2>1, <2>2, <2>3 DEF StartPhaseTwo, TimeInv
<1>11. CASE NoTimeForPhaseTwo
  BY <1>11, <1>a, <1>b DEF NoTimeForPhaseTwo, TimeInv
<1>12. CASE Score
  BY <1>12, <1>b DEF Score, TimeInv
<1>13. CASE Clean
  BY <1>13, <1>b DEF Clean, TimeInv
<1>14. CASE RecordInstance
  BY <1>14, <1>b DEF RecordInstance, TimeInv
<1>15. CASE RecordSliceFailure
  BY <1>15, <1>b DEF RecordSliceFailure, TimeInv
<1>16. CASE RecordAggregate
  BY <1>16, <1>b DEF RecordAggregate, TimeInv
<1>17. CASE Finish
  BY <1>17, <1>b DEF Finish, TimeInv
<1>18. CASE Abort
  BY <1>18, <1>b DEF Abort, TimeInv
<1>19. CASE Kill
  BY <1>19, <1>b DEF Kill, TimeInv
<1>20. CASE UNCHANGED vars
  BY <1>20, <1>b DEF vars, TimeInv
<1> QED
  BY <1>1, <1>2, <1>3, <1>4, <1>5, <1>6, <1>7, <1>8, <1>9, <1>10, <1>11, <1>12, <1>13,
     <1>14, <1>15, <1>16, <1>17, <1>18, <1>19, <1>20
     DEF Next, Step, Over

\* No attempt takes two allowances: beyond one are only the kill of a harness
\* that timed out, the checks the adapter does not time and less than a second.
THEOREM EnvelopeCorrect == Spec => []AttemptBounded
<1>1. Init => TypeOK /\ RowInv /\ TimeInv
  BY TypeInit, RowInit, TimeInit
<1>2. TypeOK /\ RowInv /\ TimeInv /\ [Next]_vars => (TypeOK /\ RowInv /\ TimeInv)'
  BY TypeStep, RowStep, TimeStep
<1>3. TimeInv => AttemptBounded
  BY DEF TimeInv, AttemptBounded
<1> QED
  BY <1>1, <1>2, <1>3, PTL DEF Spec
-----------------------------------------------------------------------------
\* A nonempty set of numbers has a least one.
LEMMA LeastNat ==
    ASSUME NEW S \in SUBSET Nat, S # {}
    PROVE  \E x \in S : \A y \in S : x <= y
<1> DEFINE R == {z \in Nat \X Nat : z[1] < z[2]}
<1>1. IsWellFoundedOn(R, Nat)
  <2>1. R = OpToRel(LAMBDA x, y : x < y, Nat)
    BY DEF OpToRel
  <2>2. QED
    BY <2>1, NatLessThanWellFounded DEF OpToRel
<1>2. PICK x \in S : \A y \in S : ~(<<y, x>> \in R)
  <2> HIDE DEF R
  <2> QED
    BY <1>1, WFMin
<1>3. \A y \in S : x <= y
  <2> TAKE y \in S
  <2>1. x \in Nat /\ y \in Nat
    OBVIOUS
  <2>2. ~(y < x)
    BY <1>2, <2>1
  <2> HIDE DEF R
  <2> QED
    BY <2>1, <2>2
<1> QED
  BY <1>3

\* s holds the running sums of f, and they are numbers.
Sums(s, f, N) == s[0] = 0 /\ \A n \in 1..N : s[n] = s[n - 1] + f[n]

IsSum(s, f, N) == s \in [0..N -> Nat] /\ Sums(s, f, N)

\* Running sums exist: the first index without them would have them.
LEMMA SumExists ==
    ASSUME NEW N \in Nat, NEW f \in [1..N -> Nat]
    PROVE  \E s : IsSum(s, f, N)
<1> DEFINE Bad == {n \in 0..N : ~\E s : IsSum(s, f, n)}
<1>1. SUFFICES ASSUME ~\E s : IsSum(s, f, N) PROVE FALSE
  OBVIOUS
<1>2. Bad # {}
  <2>1. N \in Bad
    BY <1>1
  <2> HIDE DEF Bad
  <2> QED
    BY <2>1
<1>3. PICK n \in Bad : \A y \in Bad : n <= y
  <2>1. Bad \in SUBSET Nat
    OBVIOUS
  <2> HIDE DEF Bad
  <2> QED
    BY <1>2, <2>1, LeastNat
<1>4. n # 0
  <2>1. IsSum([i \in 0..0 |-> 0], f, 0)
    BY DEF IsSum, Sums
  <2> QED
    BY <2>1
<1>5. n \in 1..N /\ n - 1 \in 0..N /\ n - 1 \notin Bad
  BY <1>3, <1>4
<1>6. PICK s : IsSum(s, f, n - 1)
  BY <1>5
<1> DEFINE t == [i \in 0..n |-> IF i = n THEN s[n - 1] + f[n] ELSE s[i]]
<1>7. s[n - 1] \in Nat /\ f[n] \in Nat
  BY <1>5, <1>6 DEF IsSum, Sums
<1>8. t \in [0..n -> Nat] /\ t[0] = 0
  BY <1>5, <1>6, <1>7 DEF IsSum, Sums
<1>9. ASSUME NEW i \in 1..n PROVE t[i] = t[i - 1] + f[i]
  <2>1. CASE i = n
    BY <1>5, <2>1
  <2>2. CASE i # n
    BY <1>5, <1>6, <2>2 DEF IsSum, Sums
  <2> QED
    BY <2>1, <2>2
<1>10. IsSum(t, f, n)
  BY <1>8, <1>9 DEF IsSum, Sums
<1> QED
  BY <1>3, <1>10

\* So the recursive function of the model is equal to its body.
LEMMA RunningSumDef ==
    ASSUME NEW N \in Nat, NEW f \in [1..N -> Nat]
    PROVE  RunningSum(f, N) = [n \in 0..N |-> IF n = 0 THEN 0 ELSE RunningSum(f, N)[n - 1] + f[n]]
<1>1. PICK s : IsSum(s, f, N)
  BY SumExists
<1>2. s = [n \in 0..N |-> IF n = 0 THEN 0 ELSE s[n - 1] + f[n]]
  BY <1>1 DEF IsSum, Sums
<1> QED
  BY <1>2, Zenon DEF RunningSum

\* Running sums of functions that agree so far agree so far.
LEMMA SumsAgree ==
    ASSUME NEW N \in Nat, NEW M \in Nat, N <= M,
           NEW f \in [1..N -> Nat], NEW g \in [1..M -> Nat],
           \A n \in 1..N : g[n] = f[n],
           NEW s, IsSum(s, f, N),
           NEW t, Sums(t, g, M)
    PROVE  \A n \in 0..N : t[n] = s[n]
<1> DEFINE Bad == {n \in 0..N : t[n] # s[n]}
<1>1. SUFFICES ASSUME Bad # {} PROVE FALSE
  OBVIOUS
<1>2. PICK n \in Bad : \A y \in Bad : n <= y
  <2>1. Bad \in SUBSET Nat
    OBVIOUS
  <2> HIDE DEF Bad
  <2> QED
    BY <1>1, <2>1, LeastNat
<1>3. n \in 0..N /\ t[n] # s[n]
  BY <1>2
<1>4. n # 0
  BY <1>3 DEF IsSum, Sums
<1>5. n \in 1..N /\ n \in 0..M /\ n - 1 \in 0..N
  BY <1>3, <1>4
<1>6. t[n - 1] = s[n - 1]
  <2>1. n - 1 \notin Bad
    <3>1. n \in Int /\ ~(n <= n - 1)
      BY <1>5
    <3> HIDE DEF Bad
    <3> QED
      BY <1>2, <3>1
  <2> QED
    BY <1>5, <2>1
<1>7. t[n] = t[n - 1] + g[n]
  <2>1. n \in 1..M
    BY <1>5
  <2> QED
    BY <2>1 DEF Sums
<1>8. s[n] = s[n - 1] + f[n] /\ g[n] = f[n]
  BY <1>5 DEF IsSum, Sums
<1> QED
  BY <1>3, <1>6, <1>7, <1>8

\* What the model computes are the running sums.
LEMMA RunningSumIsSum ==
    ASSUME NEW N \in Nat, NEW f \in [1..N -> Nat]
    PROVE  IsSum(RunningSum(f, N), f, N)
<1> DEFINE R == RunningSum(f, N)
<1>1. PICK s : IsSum(s, f, N)
  BY SumExists
<1>2. R = [n \in 0..N |-> IF n = 0 THEN 0 ELSE R[n - 1] + f[n]]
  BY RunningSumDef
<1> HIDE DEF R
<1>a. Sums(R, f, N)
  <2>1. \A n \in 0..N : R[n] = IF n = 0 THEN 0 ELSE R[n - 1] + f[n]
    BY <1>2, Zenon
  <2> QED
    BY <2>1 DEF Sums
<1>3. \A n \in 0..N : R[n] = s[n]
  <2>1. N <= N
    OBVIOUS
  <2> QED
    BY <1>1, <1>a, <2>1, SumsAgree
<1>4. R = [n \in 0..N |-> R[n]]
  <2>1. R = [n \in 0..N |-> IF n = 0 THEN 0 ELSE R[n - 1] + f[n]]
    BY <1>2
  <2> QED
    BY <2>1, Zenon
<1>5. R = s
  <2>1. s = [n \in 0..N |-> s[n]]
    BY <1>1 DEF IsSum, Sums
  <2> QED
    BY <1>3, <1>4, <2>1
<1>6. IsSum(R, f, N)
  BY <1>1, <1>5
<1> QED
  BY <1>6 DEF R

\* One more summand leaves the sums there were and adds one.
LEMMA SumAppended ==
    ASSUME NEW N \in Nat, NEW f \in [1..N -> Nat], NEW g \in [1..(N + 1) -> Nat],
           \A n \in 1..N : g[n] = f[n]
    PROVE  /\ \A n \in 0..N : RunningSum(g, N + 1)[n] = RunningSum(f, N)[n]
           /\ RunningSum(g, N + 1)[N + 1] = RunningSum(f, N)[N] + g[N + 1]
           /\ RunningSum(f, N) \in [0..N -> Nat]
<1> DEFINE F == RunningSum(f, N)
           G == RunningSum(g, N + 1)
<1>a. N + 1 \in Nat /\ N <= N + 1
  OBVIOUS
<1>1. IsSum(F, f, N) /\ IsSum(G, g, N + 1)
  BY <1>a, RunningSumIsSum
<1>2. Sums(G, g, N + 1)
  BY <1>1 DEF IsSum
<1> HIDE DEF F, G
<1>3. \A n \in 0..N : G[n] = F[n]
  BY <1>1, <1>2, <1>a, SumsAgree
<1>4. G[N + 1] = F[N] + g[N + 1] /\ F \in [0..N -> Nat]
  BY <1>1, <1>3 DEF IsSum, Sums
<1> QED
  BY <1>3, <1>4 DEF F, G
-----------------------------------------------------------------------------
\* The sums over the rows when a row is appended.
LEMMA SumsExtend ==
    ASSUME TypeOK, NEW row, rows' = Append(rows, row), row.out \in Outcomes
    PROVE  /\ \A i \in 0..Len(rows) : /\ CostUpTo'[i] = CostUpTo[i]
                                      /\ LatencyUpTo'[i] = LatencyUpTo[i]
           /\ CostUpTo'[Len(rows')] = CostUpTo[Len(rows)] + row.out.cost
           /\ LatencyUpTo'[Len(rows')] = LatencyUpTo[Len(rows)] + row.out.lat
           /\ CostUpTo[Len(rows)] \in Nat /\ LatencyUpTo[Len(rows)] \in Nat
<1> DEFINE N == Len(rows)
           fc == [i \in 1..N |-> rows[i].out.cost]
           fl == [i \in 1..N |-> rows[i].out.lat]
           gc == [i \in 1..(N + 1) |-> rows'[i].out.cost]
           gl == [i \in 1..(N + 1) |-> rows'[i].out.lat]
<1>1. /\ N \in Nat /\ Len(rows') = N + 1 /\ rows'[N + 1] = row
      /\ \A i \in 1..N : rows'[i] = rows[i]
  BY AppendedRows
<1>2. \A i \in 1..N : rows[i].out.cost \in Nat /\ rows[i].out.lat \in Nat
  <2> TAKE i \in 1..N
  <2> DEFINE Row == [inst : 0..NumInstances, launched : BOOLEAN, out : Outcomes]
  <2>1. rows \in Seq(Row)
    BY DEF TypeOK
  <2>2. rows[i] \in Row
    <3> HIDE DEF Row
    <3> QED
      BY <2>1
  <2>3. rows[i].out \in Outcomes
    BY <2>2
  <2> QED
    BY <2>3 DEF Outcomes
<1>3. row.out.cost \in Nat /\ row.out.lat \in Nat
  BY DEF Outcomes
<1>4. \A i \in 1..(N + 1) : rows'[i].out.cost \in Nat /\ rows'[i].out.lat \in Nat
  <2> TAKE i \in 1..(N + 1)
  <2>1. CASE i = N + 1
    BY <1>1, <1>3, <2>1
  <2>2. CASE i \in 1..N
    BY <1>1, <1>2, <2>2
  <2> QED
    BY <1>1, <2>1, <2>2
<1>5. fc \in [1..N -> Nat] /\ fl \in [1..N -> Nat]
  BY <1>2
<1>6. gc \in [1..(N + 1) -> Nat] /\ gl \in [1..(N + 1) -> Nat]
  BY <1>4
<1>7. \A n \in 1..N : gc[n] = fc[n] /\ gl[n] = fl[n]
  <2> TAKE n \in 1..N
  <2>1. n \in 1..(N + 1)
    BY <1>1
  <2> QED
    BY <1>1, <2>1
<1>8. gc[N + 1] = row.out.cost /\ gl[N + 1] = row.out.lat
  <2>1. N + 1 \in 1..(N + 1)
    BY <1>1
  <2> QED
    BY <1>1, <2>1
<1>9. CostUpTo = RunningSum(fc, N) /\ LatencyUpTo = RunningSum(fl, N)
  BY DEF CostUpTo, LatencyUpTo
<1>10. CostUpTo' = RunningSum(gc, N + 1) /\ LatencyUpTo' = RunningSum(gl, N + 1)
  BY <1>1 DEF CostUpTo, LatencyUpTo
<1> HIDE DEF fc, fl, gc, gl, N
<1>11. /\ \A n \in 0..N : CostUpTo'[n] = CostUpTo[n]
       /\ CostUpTo'[N + 1] = CostUpTo[N] + row.out.cost
       /\ CostUpTo \in [0..N -> Nat]
  <2>1. \A n \in 1..N : gc[n] = fc[n]
    BY <1>7
  <2>2. /\ \A n \in 0..N : RunningSum(gc, N + 1)[n] = RunningSum(fc, N)[n]
        /\ RunningSum(gc, N + 1)[N + 1] = RunningSum(fc, N)[N] + gc[N + 1]
        /\ RunningSum(fc, N) \in [0..N -> Nat]
    BY <1>1, <1>5, <1>6, <2>1, SumAppended
  <2> QED
    BY <1>8, <1>9, <1>10, <2>2
<1>12. /\ \A n \in 0..N : LatencyUpTo'[n] = LatencyUpTo[n]
       /\ LatencyUpTo'[N + 1] = LatencyUpTo[N] + row.out.lat
       /\ LatencyUpTo \in [0..N -> Nat]
  <2>1. \A n \in 1..N : gl[n] = fl[n]
    BY <1>7
  <2>2. /\ \A n \in 0..N : RunningSum(gl, N + 1)[n] = RunningSum(fl, N)[n]
        /\ RunningSum(gl, N + 1)[N + 1] = RunningSum(fl, N)[N] + gl[N + 1]
        /\ RunningSum(fl, N) \in [0..N -> Nat]
    BY <1>1, <1>5, <1>6, <2>1, SumAppended
  <2> QED
    BY <1>8, <1>9, <1>10, <2>2
<1>13. N \in 0..N
  BY <1>1
<1> QED
  BY <1>1, <1>11, <1>12, <1>13 DEF N

LEMMA GateInit == Init => GateInv
<1> SUFFICES ASSUME Init PROVE GateInv
  OBVIOUS
<1>1. Len(rows) = 0 /\ spent.cost = 0 /\ spent.wall = 0 /\ pc \notin Attempting
  BY DEF Init, Attempting
<1> DEFINE fc == [i \in 1..Len(rows) |-> rows[i].out.cost]
           fl == [i \in 1..Len(rows) |-> rows[i].out.lat]
<1>2. 0 \in Nat /\ fc \in [1..0 -> Nat] /\ fl \in [1..0 -> Nat]
  BY <1>1
<1>3. CostUpTo = RunningSum(fc, 0) /\ LatencyUpTo = RunningSum(fl, 0)
  BY <1>1 DEF CostUpTo, LatencyUpTo
<1> HIDE DEF fc, fl
<1>4. CostUpTo[0] = 0 /\ LatencyUpTo[0] = 0
  BY <1>2, <1>3, RunningSumIsSum DEF IsSum, Sums
<1> QED
  BY <1>1, <1>4 DEF GateInv, GateAgreesWithEvidence

\* A step that leaves the ledger alone keeps the gate's books.
LEMMA GateKept ==
    ASSUME GateInv, UNCHANGED <<plan, ledger>>,
           ByInstance /\ pc' \in Attempting => pc \in Attempting
    PROVE  GateInv'
<1>1. /\ CostUpTo' = CostUpTo /\ LatencyUpTo' = LatencyUpTo /\ MaxWall' = MaxWall
      /\ ByInstance' = ByInstance /\ Exhausted' = Exhausted /\ UNCHANGED <<rows, spent>>
  BY DEF plan, ledger, CostUpTo, LatencyUpTo, MaxWall, ByInstance, Exhausted
<1>2. Attempting' = Attempting
  BY DEF Attempting
<1> HIDE DEF CostUpTo, LatencyUpTo
<1> QED
  BY <1>1, <1>2 DEF GateInv, GateAgreesWithEvidence

\* An appended row agrees with the sums before it and they take it in.
LEMMA GateAppended ==
    ASSUME TypeOK, GateInv, ByInstance, NEW row, rows' = Append(rows, row),
           row.out \in Outcomes, ~row.launched <=> Exhausted,
           UNCHANGED plan,
           spent' = [cost |-> spent.cost + row.out.cost, wall |-> spent.wall + row.out.lat],
           pc' \notin Attempting
    PROVE  GateInv'
<1>1. /\ Len(rows) \in Nat /\ Len(rows') = Len(rows) + 1 /\ rows'[Len(rows) + 1] = row
      /\ \A i \in 1..Len(rows) : rows'[i] = rows[i]
  BY AppendedRows
<1>2. /\ \A i \in 0..Len(rows) : CostUpTo'[i] = CostUpTo[i] /\ LatencyUpTo'[i] = LatencyUpTo[i]
      /\ CostUpTo'[Len(rows')] = CostUpTo[Len(rows)] + row.out.cost
      /\ LatencyUpTo'[Len(rows')] = LatencyUpTo[Len(rows)] + row.out.lat
  BY SumsExtend
<1>3. spent.cost = CostUpTo[Len(rows)] /\ spent.wall = LatencyUpTo[Len(rows)]
      /\ GateAgreesWithEvidence
  BY DEF GateInv
<1>4. ByInstance' /\ MaxWall' = MaxWall
  BY DEF ByInstance, plan, MaxWall
<1>5. ASSUME NEW i \in 1..Len(rows')
      PROVE  ~rows'[i].launched <=> \/ MaxCost > 0 /\ CostUpTo'[i - 1] >= MaxCost
                                    \/ LatencyUpTo'[i - 1] >= MaxWall
  <2>1. i \in 1..(Len(rows) + 1) /\ i - 1 \in 0..Len(rows)
    BY <1>1
  <2>2. CostUpTo'[i - 1] = CostUpTo[i - 1] /\ LatencyUpTo'[i - 1] = LatencyUpTo[i - 1]
    BY <1>2, <2>1
  <2>3. CASE i \in 1..Len(rows)
    BY <1>1, <1>3, <2>2, <2>3 DEF GateAgreesWithEvidence
  <2>4. CASE i = Len(rows) + 1
    <3>1. i - 1 = Len(rows) /\ rows'[i] = row
      BY <1>1, <2>4
    <3> QED
      BY <1>3, <2>2, <3>1 DEF Exhausted
  <2> QED
    BY <1>1, <2>1, <2>3, <2>4
<1>6. GateAgreesWithEvidence'
  BY <1>4, <1>5 DEF GateAgreesWithEvidence
<1>7. spent'.cost = CostUpTo'[Len(rows')] /\ spent'.wall = LatencyUpTo'[Len(rows')]
  BY <1>2, <1>3
<1>8. ~(pc' \in Attempting')
  BY DEF Attempting
<1> QED
  BY <1>6, <1>7, <1>8 DEF GateInv

LEMMA GateStep == TypeOK /\ RowInv /\ GateInv /\ [Next]_vars => GateInv'
<1> SUFFICES ASSUME TypeOK, RowInv, GateInv, [Next]_vars PROVE GateInv'
  OBVIOUS
<1> USE DEF attempt
<1>a. plan' = plan => ByInstance' = ByInstance
  BY DEF plan, ByInstance
<1>b. ~ByInstance' => GateInv'
  BY DEF GateInv, GateAgreesWithEvidence
<1>c. spent \in [cost : Nat, wall : Nat] /\ out \in Outcomes
  BY DEF TypeOK
<1>1. CASE Claim
  BY <1>1, GateKept DEF Claim, Attempting
<1>2. CASE BudgetSkip
  <2> DEFINE row == [inst |-> at, launched |-> FALSE,
                     out |-> [NoOutcome EXCEPT !.label = "budget", !.cleanup = "skipped"]]
  <2>1. rows' = Append(rows, row) /\ Exhausted /\ UNCHANGED <<plan, spent>> /\ pc' \notin Attempting
    BY <1>2 DEF BudgetSkip, Attempting
  <2>2. /\ ~row.launched /\ row.out \in Outcomes
        /\ row.out.cost = 0 /\ row.out.lat = 0
    BY DEF NoOutcome, Outcomes
  <2> HIDE DEF row
  <2>3. spent' = [cost |-> spent.cost + row.out.cost, wall |-> spent.wall + row.out.lat]
    BY <1>c, <2>1, <2>2
  <2>4. CASE ByInstance
    BY <2>1, <2>2, <2>3, <2>4, GateAppended
  <2>5. CASE ~ByInstance
    BY <1>a, <1>b, <2>1, <2>5
  <2> QED
    BY <2>4, <2>5
<1>3. CASE BeginAttempt
  <2>1. /\ ~Exhausted /\ UNCHANGED <<plan, ledger>>
    BY <1>3 DEF BeginAttempt
  <2>2. /\ CostUpTo' = CostUpTo /\ LatencyUpTo' = LatencyUpTo /\ MaxWall' = MaxWall
        /\ ByInstance' = ByInstance /\ Exhausted' = Exhausted /\ UNCHANGED <<rows, spent>>
    BY <2>1 DEF plan, ledger, CostUpTo, LatencyUpTo, MaxWall, ByInstance, Exhausted
  <2> QED
    BY <2>1, <2>2 DEF GateInv, GateAgreesWithEvidence
<1>4. CASE RefuseLaunch
  BY <1>4, GateKept DEF RefuseLaunch, Attempting
<1>5. CASE Launch
  BY <1>5, GateKept DEF Launch, Attempting
<1>6. CASE PhaseReturns
  BY <1>6, GateKept DEF PhaseReturns, Attempting
<1>7. CASE PhaseTimesOut
  BY <1>7, GateKept DEF PhaseTimesOut, Attempting
<1>8. CASE LaunchFails
  BY <1>8, GateKept DEF LaunchFails, Attempting
<1>9. CASE Drift
  BY <1>9, GateKept DEF Drift, Attempting
<1>10. CASE StartPhaseTwo
  BY <1>10, GateKept DEF StartPhaseTwo, Attempting
<1>11. CASE NoTimeForPhaseTwo
  BY <1>11, GateKept DEF NoTimeForPhaseTwo, Attempting
<1>12. CASE Score
  BY <1>12, GateKept DEF Score, Attempting
<1>13. CASE Clean
  BY <1>13, GateKept DEF Clean, Attempting
<1>14. CASE RecordInstance
  <2> DEFINE row == [inst |-> at, launched |-> TRUE, out |-> out]
  <2>1. /\ ByInstance /\ rows' = Append(rows, row) /\ UNCHANGED plan /\ pc' \notin Attempting
        /\ spent' = [cost |-> spent.cost + out.cost, wall |-> spent.wall + out.lat]
    BY <1>14 DEF RecordInstance, Attempting
  <2>2. ~Exhausted
    BY <1>14 DEF RecordInstance, Attempting, GateInv
  <2>3. row.launched /\ row.out = out
    OBVIOUS
  <2> HIDE DEF row
  <2> QED
    BY <1>c, <2>1, <2>2, <2>3, GateAppended
<1>15. CASE RecordSliceFailure
  BY <1>15, <1>a, <1>b DEF RecordSliceFailure
<1>16. CASE RecordAggregate
  BY <1>16, <1>a, <1>b DEF RecordAggregate
<1>17. CASE Finish
  BY <1>17, GateKept DEF Finish, Attempting
<1>18. CASE Abort
  BY <1>18, GateKept DEF Abort, Attempting
<1>19. CASE Kill
  BY <1>19, GateKept DEF Kill, Attempting
<1>20. CASE UNCHANGED vars
  BY <1>20, GateKept DEF vars
<1> QED
  BY <1>1, <1>2, <1>3, <1>4, <1>5, <1>6, <1>7, <1>8, <1>9, <1>10, <1>11, <1>12, <1>13,
     <1>14, <1>15, <1>16, <1>17, <1>18, <1>19, <1>20
     DEF Next, Step, Over

\* Whoever reads the evidence can redo the budget gate: an instance was skipped
\* exactly when the rows before it had spent the envelope.
THEOREM GateCanBeRedone == Spec => []GateAgreesWithEvidence
<1>1. Init => TypeOK /\ RowInv /\ GateInv
  BY TypeInit, RowInit, GateInit
<1>2. TypeOK /\ RowInv /\ GateInv /\ [Next]_vars => (TypeOK /\ RowInv /\ GateInv)'
  BY TypeStep, RowStep, GateStep
<1>3. GateInv => GateAgreesWithEvidence
  BY DEF GateInv
<1> QED
  BY <1>1, <1>2, <1>3, PTL DEF Spec
-----------------------------------------------------------------------------
\* What a row says of its attempt's directory, d.
Settled(o, d) ==
    /\ policy = "always" => d \notin scratch
    /\ policy = "on-success" =>
           /\ o.pass => d \notin scratch
           /\ Transient /\ o.scored /\ ~o.pass => d \in scratch

LEMMA ScratchInit == Init => ScratchInv
BY PlanIsBounded DEF Init, ScratchInv, ScratchFollowsPolicy

\* A step that leaves the plan, the rows and the directories alone.
LEMMA FilesKept ==
    ASSUME ScratchInv, UNCHANGED <<plan, at, rows, scratch>>
    PROVE  /\ ByInstance' = ByInstance /\ Transient' = Transient /\ Tree' = Tree
           /\ UNCHANGED <<policy, at, scratch>>
           /\ ScratchFollowsPolicy'
BY DEF plan, ByInstance, Transient, Tree, ScratchInv, ScratchFollowsPolicy

\* The rows there are speak of other directories than the attempt's own.
LEMMA OthersKept ==
    ASSUME TypeOK, RowInv, ScratchInv, pc \in {"prepare", "clean"},
           UNCHANGED <<plan, at, rows>>,
           \A d \in 0..NumInstances : d # Tree => (d \in scratch' <=> d \in scratch)
    PROVE  /\ ByInstance' = ByInstance /\ Transient' = Transient /\ Tree' = Tree
           /\ UNCHANGED <<policy, at>>
           /\ ScratchFollowsPolicy'
<1>1. /\ ByInstance' = ByInstance /\ Transient' = Transient /\ Tree' = Tree
      /\ UNCHANGED <<policy, at, rows>>
  BY DEF plan, ByInstance, Transient, Tree
<1>2. ScratchFollowsPolicy
  BY DEF ScratchInv
<1>3. NumInstances \in Nat \ {0} /\ at \in 1..NumInstances
  BY PlanIsBounded DEF TypeOK, RowInv, Attempting
<1>4. Len(rows) = at - 1
  BY <1>3 DEF RowInv
<1>5. CASE ByInstance
  <2>1. ASSUME NEW i \in 1..Len(rows) PROVE i \in 0..NumInstances /\ i # Tree
    BY <1>3, <1>4, <1>5 DEF Tree
  <2> QED
    BY <1>1, <1>2, <1>5, <2>1 DEF ScratchFollowsPolicy
<1>6. CASE ~ByInstance
  <2>1. at = 1
    BY <1>6, LaneKinds DEF RowInv, Attempting
  <2> QED
    BY <1>1, <1>4, <2>1 DEF ScratchFollowsPolicy
<1> QED
  BY <1>1, <1>5, <1>6

\* An appended row that agrees with the directories joins rows that do.
LEMMA SettledAppended ==
    ASSUME TypeOK, ScratchInv, NEW row, rows' = Append(rows, row),
           UNCHANGED <<plan, scratch>>,
           Settled(row.out, IF ByInstance THEN Len(rows) + 1 ELSE Aggregate)
    PROVE  ScratchFollowsPolicy'
<1>1. /\ Len(rows) \in Nat /\ Len(rows') = Len(rows) + 1 /\ rows'[Len(rows) + 1] = row
      /\ \A i \in 1..Len(rows) : rows'[i] = rows[i]
  BY AppendedRows
<1>2. /\ ByInstance' = ByInstance /\ Transient' = Transient /\ UNCHANGED <<policy, scratch>>
  BY DEF plan, ByInstance, Transient
<1>3. \A i \in 1..Len(rows) : Settled(rows[i].out, IF ByInstance THEN i ELSE Aggregate)
  BY DEF ScratchInv, ScratchFollowsPolicy, Settled
<1>4. ASSUME NEW i \in 1..Len(rows')
      PROVE  Settled(rows'[i].out, IF ByInstance THEN i ELSE Aggregate)
  <2>1. CASE i \in 1..Len(rows)
    BY <1>1, <1>3, <2>1
  <2>2. CASE i = Len(rows) + 1
    BY <1>1, <2>2
  <2> QED
    BY <1>1, <2>1, <2>2
<1> QED
  BY <1>2, <1>4 DEF ScratchFollowsPolicy, Settled, Aggregate

LEMMA ScratchStep == TypeOK /\ RowInv /\ ScratchInv /\ [Next]_vars => ScratchInv'
<1> SUFFICES ASSUME TypeOK, RowInv, ScratchInv, [Next]_vars PROVE ScratchInv'
  OBVIOUS
<1> USE DEF attempt
<1>a. NumInstances \in Nat \ {0} /\ at \in 1..(NumInstances + 1) /\ Len(rows) \in Nat
  BY PlanIsBounded DEF TypeOK
<1>b. pc \in Attempting => at \in 1..NumInstances
  BY <1>a DEF RowInv
<1>c. pc \in {"gate"} \cup Attempting /\ at <= NumInstances => Len(rows) = at - 1
  BY <1>a DEF RowInv
<1>1. CASE Claim
  <2>1. pc = "plan" /\ pc' \in {"refused", "gate", "prepare"} /\ UNCHANGED <<plan, at, rows, scratch>>
    BY <1>1 DEF Claim, ledger
  <2>2. ByInstance => scratch \subseteq 1..(at - 1) /\ scratch \subseteq 1..at
    BY <1>a, <2>1 DEF ScratchInv
  <2> QED
    BY <2>1, <2>2, FilesKept DEF ScratchInv
<1>2. CASE BudgetSkip
  <2> DEFINE row == [inst |-> at, launched |-> FALSE,
                     out |-> [NoOutcome EXCEPT !.label = "budget", !.cleanup = "skipped"]]
  <2>1. rows' = Append(rows, row) /\ ~row.out.pass /\ ~row.out.scored
    BY <1>2 DEF BudgetSkip, NoOutcome
  <2> HIDE DEF row
  <2>2. ByInstance /\ Len(rows) = at - 1
    BY <1>2, <1>a, <1>c, LaneKinds DEF BudgetSkip, RowInv
  <2>3. scratch \subseteq 1..(at - 1) /\ pc = "gate" /\ pc' = pc /\ at' = at + 1
        /\ UNCHANGED <<plan, scratch>>
    BY <1>2, <2>2 DEF BudgetSkip, ScratchInv
  <2>4. Len(rows) + 1 \notin scratch
    BY <1>a, <2>2, <2>3
  <2>5. ScratchFollowsPolicy'
    BY <2>1, <2>2, <2>3, <2>4, SettledAppended DEF Settled
  <2> QED
    BY <1>a, <2>3, <2>5 DEF ScratchInv
<1>3. CASE BeginAttempt
  BY <1>3, FilesKept DEF BeginAttempt, ScratchInv, ledger
<1>4. CASE RefuseLaunch
  <2>1. ScratchFollowsPolicy' /\ ByInstance' = ByInstance /\ at' = at
    BY <1>4, OthersKept DEF RefuseLaunch, ledger
  <2>2. ~out'.scored /\ pc' = "clean" /\ pc = "prepare"
    BY <1>4 DEF RefuseLaunch, FailAttempt, NoOutcome
  <2>3. ByInstance => scratch' = scratch
    BY <1>4, LaneKinds DEF RefuseLaunch
  <2>4. ByInstance' => scratch' \subseteq 1..at'
    BY <1>a, <2>1, <2>2, <2>3 DEF ScratchInv
  <2> QED
    BY <2>1, <2>2, <2>4 DEF ScratchInv
<1>5. CASE Launch
  <2>1. /\ ScratchFollowsPolicy' /\ ByInstance' = ByInstance /\ at' = at
        /\ Transient' = Transient /\ Tree' = Tree
    BY <1>5, OthersKept DEF Launch, ledger
  <2>2. pc' = "running" /\ pc = "prepare"
        /\ scratch' = IF Transient THEN scratch \cup {Tree} ELSE scratch
    BY <1>5 DEF Launch
  <2>3. ByInstance' => scratch' \subseteq 1..at'
    BY <1>a, <2>1, <2>2 DEF ScratchInv, Tree
  <2> QED
    BY <2>1, <2>2, <2>3 DEF ScratchInv
<1>6. CASE PhaseReturns
  BY <1>6, FilesKept DEF PhaseReturns, ScratchInv, ledger
<1>7. CASE PhaseTimesOut
  BY <1>7, FilesKept DEF PhaseTimesOut, FailAttempt, NoOutcome, ScratchInv, ledger
<1>8. CASE LaunchFails
  BY <1>8, FilesKept DEF LaunchFails, FailAttempt, NoOutcome, ScratchInv, ledger
<1>9. CASE Drift
  BY <1>9, FilesKept DEF Drift, FailAttempt, NoOutcome, ScratchInv, ledger
<1>10. CASE StartPhaseTwo
  BY <1>10, FilesKept DEF StartPhaseTwo, ScratchInv, ledger
<1>11. CASE NoTimeForPhaseTwo
  BY <1>11, FilesKept DEF NoTimeForPhaseTwo, FailAttempt, NoOutcome, ScratchInv, ledger
<1>12. CASE Score
  BY <1>12, FilesKept DEF Score, ScratchInv, ledger
<1>13. CASE Clean
  <2>1. /\ ScratchFollowsPolicy' /\ ByInstance' = ByInstance /\ at' = at
        /\ Transient' = Transient /\ Tree' = Tree /\ policy' = policy
    BY <1>13, OthersKept DEF Clean, ledger
  <2>2. /\ pc = "clean" /\ pc' = "record"
        /\ scratch' = IF Removes(out.pass) THEN scratch \ {Tree} ELSE scratch
    BY <1>13 DEF Clean
  <2>3. out'.pass = out.pass /\ out'.scored = out.scored
    BY <1>13 DEF Clean, TypeOK, Outcomes
  <2>4. ByInstance' => scratch' \subseteq 1..at'
    BY <2>1, <2>2 DEF ScratchInv
  <2>5. Settled(out, Tree)'
    BY <2>1, <2>2, <2>3 DEF ScratchInv, Settled, Removes
  <2> QED
    BY <2>1, <2>2, <2>4, <2>5 DEF ScratchInv, Settled
<1>14. CASE RecordInstance
  <2>1. PICK row : rows' = Append(rows, row) /\ row.out = out
    BY <1>14 DEF RecordInstance
  <2>2. ByInstance /\ pc = "record" /\ pc' = "gate" /\ at' = at + 1 /\ UNCHANGED <<plan, scratch>>
    BY <1>14 DEF RecordInstance
  <2>3. Len(rows) + 1 = Tree
    BY <1>a, <1>b, <1>c, <2>2 DEF Attempting, Tree
  <2>4. Settled(out, Tree) /\ scratch \subseteq 1..at
    BY <2>2 DEF ScratchInv, Settled
  <2>5. ScratchFollowsPolicy'
    BY <2>1, <2>2, <2>3, <2>4, SettledAppended
  <2> QED
    BY <1>a, <2>2, <2>4, <2>5 DEF ScratchInv
<1>15. CASE RecordSliceFailure
  <2>1. PICK row : rows' = Append(rows, row) /\ row.out = out
    BY <1>15 DEF RecordSliceFailure
  <2>2. /\ ~ByInstance /\ pc = "record" /\ pc' \in {"record", "gate"}
        /\ UNCHANGED <<plan, scratch, out>>
    BY <1>15 DEF RecordSliceFailure
  <2>3. Settled(out, Aggregate) /\ Tree = Aggregate
    BY <2>2 DEF ScratchInv, Settled, Tree
  <2>4. ScratchFollowsPolicy'
    BY <2>1, <2>2, <2>3, SettledAppended
  <2>5. ~ByInstance' /\ Tree' = Tree /\ Settled(out, Tree)'
    BY <2>2, <2>3 DEF plan, ByInstance, Tree, Settled, Transient, Aggregate
  <2> QED
    BY <2>2, <2>4, <2>5 DEF ScratchInv, Settled
<1>16. CASE RecordAggregate
  <2>1. PICK row : rows' = Append(rows, row) /\ row.out = out
    BY <1>16 DEF RecordAggregate
  <2>2. /\ ~ByInstance /\ pc = "record" /\ pc' = "gate"
        /\ UNCHANGED <<plan, scratch>>
    BY <1>16 DEF RecordAggregate
  <2>3. Settled(out, Aggregate)
    BY <2>2 DEF ScratchInv, Settled, Tree
  <2>4. ScratchFollowsPolicy'
    BY <2>1, <2>2, <2>3, SettledAppended
  <2>5. ~ByInstance'
    BY <2>2 DEF plan, ByInstance
  <2> QED
    BY <2>2, <2>4, <2>5 DEF ScratchInv
<1>17. CASE Finish
  BY <1>17, <1>a, FilesKept DEF Finish, ScratchInv, ledger
<1>18. CASE Abort
  BY <1>18, <1>a, FilesKept DEF Abort, ScratchInv, ledger
<1>19. CASE Kill
  BY <1>19, <1>a, FilesKept DEF Kill, ScratchInv, ledger
<1>20. CASE UNCHANGED vars
  BY <1>20, FilesKept DEF vars, ScratchInv, ledger
<1> QED
  BY <1>1, <1>2, <1>3, <1>4, <1>5, <1>6, <1>7, <1>8, <1>9, <1>10, <1>11, <1>12, <1>13,
     <1>14, <1>15, <1>16, <1>17, <1>18, <1>19, <1>20
     DEF Next, Step, Over

\* Once a row is written, the attempt's transient artifacts are gone or still
\* there as the plan's cleanup policy says, and stay so to the end of the run.
THEOREM PolicyIsKept == Spec => []ScratchFollowsPolicy
<1>1. Init => TypeOK /\ RowInv /\ ScratchInv
  BY TypeInit, RowInit, ScratchInit
<1>2. TypeOK /\ RowInv /\ ScratchInv /\ [Next]_vars => (TypeOK /\ RowInv /\ ScratchInv)'
  BY TypeStep, RowStep, ScratchStep
<1>3. ScratchInv => ScratchFollowsPolicy
  BY DEF ScratchInv
<1> QED
  BY <1>1, <1>2, <1>3, PTL DEF Spec
-----------------------------------------------------------------------------
\* The steps an attempt has before it from each of its places, and a run before its
\* first and after its last one.
StepsAhead ==
    CASE pc = "plan"    -> 9
      [] pc = "gate"    -> 8
      [] pc = "prepare" -> 7
      [] pc = "running" -> IF phase = 1 THEN 6 ELSE 4
      [] pc \in {"check", "broken"} -> IF phase = 1 THEN 5 ELSE 3
      [] pc = "clean"   -> 2
      [] pc = "record"  -> 1

\* A bound on the steps left to the run.
StepsLeft ==
    IF pc \in Terminal THEN 0 ELSE 10 * (NumInstances + 1 - at) + StepsAhead

\* Nothing is tried again: whatever a step does, fewer are left than before it, and
\* none only when the run is over.
RunMovesOn == [][StepsLeft' < StepsLeft /\ StepsLeft \in Nat]_vars

\* The bound counts, and leaves a step to every run that is not over.
LEMMA StepsAreLeft ==
    ASSUME TypeOK
    PROVE  StepsLeft \in Nat /\ (StepsLeft = 0 <=> pc \in Terminal)
<1>1. NumInstances \in Nat /\ at \in 1..(NumInstances + 1)
  BY PlanIsBounded DEF TypeOK
<1>2. pc \in Terminal \/ StepsAhead \in 1..9
  BY DEF TypeOK, StepsAhead
<1> QED
  BY <1>1, <1>2 DEF StepsLeft

\* Going on to a later instance leaves fewer steps, wherever the attempt on it starts.
LEMMA NextIsNearer ==
    ASSUME NEW n \in Nat, NEW i \in 1..(n + 1), NEW j \in 1..(n + 1), i + 1 <= j,
           NEW a \in Nat, NEW b \in Nat, b < a + 10
    PROVE  10 * (n + 1 - j) + b < 10 * (n + 1 - i) + a
<1>1. PICK d \in Nat : j = i + 1 + d
  <2>1. j - i - 1 \in Nat /\ j = i + 1 + (j - i - 1)
    OBVIOUS
  <2> QED
    BY <2>1
<1>2. 10 * (n + 1 - i) = 10 * (n + 1 - j) + 10 + 10 * d /\ 10 * (n + 1 - j) \in Int /\ 10 * d \in Nat
  BY <1>1
<1> QED
  BY <1>2

\* A step on the same instance leads to a later place of the attempt; the last place
\* of an attempt leads to the next instance; any other step ends the run.
LEMMA StepsGoDown ==
    ASSUME TypeOK, TypeOK', RowInv, TimeInv, Next, vars' # vars
    PROVE  StepsLeft' < StepsLeft
<1>1. NumInstances \in Nat /\ at \in 1..(NumInstances + 1) /\ at' \in 1..(NumInstances + 1)
  BY PlanIsBounded DEF TypeOK
<1>2. ~Over
  BY DEF Over
<1>3. CASE pc' \in Terminal
  <2>1. pc \notin Terminal
    BY <1>2 DEF Next, Over, Step, Abort, Kill, Claim, BudgetSkip, BeginAttempt, RefuseLaunch, Launch,
       PhaseReturns, PhaseTimesOut, LaunchFails, Drift, StartPhaseTwo, NoTimeForPhaseTwo, Score,
       Clean, RecordInstance, RecordSliceFailure, RecordAggregate, Finish, Terminal
  <2>2. StepsLeft' = 0
    BY <1>3 DEF StepsLeft
  <2> QED
    BY <2>1, <2>2, StepsAreLeft
<1>4. ASSUME pc \notin Terminal, pc' \notin Terminal, at' = at, StepsAhead' < StepsAhead,
             StepsAhead \in Nat, StepsAhead' \in Nat
      PROVE  StepsLeft' < StepsLeft
  <2>1. StepsLeft' = 10 * (NumInstances + 1 - at) + StepsAhead'
    BY <1>4 DEF StepsLeft
  <2>2. StepsLeft = 10 * (NumInstances + 1 - at) + StepsAhead
    BY <1>4 DEF StepsLeft
  <2>3. 10 * (NumInstances + 1 - at) \in Int
    BY <1>1
  <2> QED
    BY <1>4, <2>1, <2>2, <2>3
<1>5. ASSUME pc \notin Terminal, pc' \notin Terminal, at + 1 <= at', StepsAhead' < StepsAhead + 10,
             StepsAhead \in Nat, StepsAhead' \in Nat
      PROVE  StepsLeft' < StepsLeft
  <2>1. StepsLeft = 10 * (NumInstances + 1 - at) + StepsAhead
    BY <1>5 DEF StepsLeft
  <2>2. StepsLeft' = 10 * (NumInstances + 1 - at') + StepsAhead'
    BY <1>5 DEF StepsLeft
  <2> QED
    BY <1>1, <1>5, <2>1, <2>2, NextIsNearer
<1>6. \A p \in {"plan", "gate", "prepare", "running", "check", "broken", "clean", "record"} :
          p \notin Terminal
  BY DEF Terminal
<1>7. CASE Claim
  <2>1. CASE pc' = "refused"
    BY <1>3, <2>1 DEF Terminal
  <2>2. CASE pc' \in {"gate", "prepare"}
    <3>1. pc = "plan" /\ at' = at
      BY <1>7 DEF Claim
    <3>2. StepsAhead = 9 /\ StepsAhead' \in {7, 8}
      BY <2>2, <3>1 DEF StepsAhead
    <3> QED
      BY <1>4, <1>6, <2>2, <3>1, <3>2
  <2> QED
    BY <1>7, <2>1, <2>2 DEF Claim
<1>8. CASE BudgetSkip \/ RecordSliceFailure
  <2>1. /\ pc \in {"gate", "record"} /\ pc' \in {"gate", "record"} /\ at' = at + 1
    BY <1>8 DEF BudgetSkip, RecordSliceFailure
  <2>2. StepsAhead \in {1, 8} /\ StepsAhead' \in {1, 8}
    BY <2>1 DEF StepsAhead
  <2> QED
    BY <1>1, <1>5, <1>6, <2>1, <2>2
<1>9. CASE RecordInstance \/ RecordAggregate
  <2>1. pc = "record" /\ at <= NumInstances
    BY <1>9 DEF RecordInstance, RecordAggregate, RowInv, Attempting
  <2>2. pc' = "gate" /\ at + 1 <= at'
    BY <1>1, <1>9, <2>1 DEF RecordInstance, RecordAggregate
  <2>3. StepsAhead = 1 /\ StepsAhead' = 8
    BY <2>1, <2>2 DEF StepsAhead
  <2> QED
    BY <1>5, <1>6, <2>1, <2>2, <2>3
<1>10. CASE BeginAttempt
  <2>1. pc = "gate" /\ pc' = "prepare" /\ at' = at
    BY <1>10 DEF BeginAttempt
  <2>2. StepsAhead = 8 /\ StepsAhead' = 7
    BY <2>1 DEF StepsAhead
  <2> QED
    BY <1>4, <1>6, <2>1, <2>2
<1>11. CASE Launch
  <2>1. pc = "prepare" /\ pc' = "running" /\ at' = at /\ phase' = 1
    BY <1>11 DEF Launch, TimeInv
  <2>2. StepsAhead = 7 /\ StepsAhead' = 6
    BY <2>1 DEF StepsAhead
  <2> QED
    BY <1>4, <1>6, <2>1, <2>2
<1>12. CASE PhaseReturns
  <2>1. pc = "running" /\ pc' \in {"check", "broken"} /\ at' = at /\ phase' = phase
    BY <1>12 DEF PhaseReturns
  <2>2. StepsAhead = (IF phase = 1 THEN 6 ELSE 4) /\ StepsAhead' = (IF phase = 1 THEN 5 ELSE 3)
    BY <2>1 DEF StepsAhead
  <2> QED
    BY <1>4, <1>6, <2>1, <2>2
<1>13. CASE StartPhaseTwo
  <2>1. pc = "check" /\ phase = 1 /\ pc' = "running" /\ phase' = 2 /\ at' = at
    BY <1>13 DEF StartPhaseTwo, Phases, TypeOK
  <2>2. StepsAhead = 5 /\ StepsAhead' = 4
    BY <2>1 DEF StepsAhead
  <2> QED
    BY <1>4, <1>6, <2>1, <2>2
<1>14. CASE RefuseLaunch \/ PhaseTimesOut \/ LaunchFails \/ Drift \/ NoTimeForPhaseTwo \/ Score
  <2>1. /\ pc \in {"prepare", "running", "check", "broken"} /\ pc' = "clean" /\ at' = at
    BY <1>14 DEF RefuseLaunch, PhaseTimesOut, LaunchFails, Drift, NoTimeForPhaseTwo, Score, FailAttempt
  <2>2. StepsAhead \in 3..7 /\ StepsAhead' = 2
    BY <2>1 DEF StepsAhead
  <2> QED
    BY <1>4, <1>6, <2>1, <2>2
<1>15. CASE Clean
  <2>1. pc = "clean" /\ pc' = "record" /\ at' = at
    BY <1>15 DEF Clean
  <2>2. StepsAhead = 2 /\ StepsAhead' = 1
    BY <2>1 DEF StepsAhead
  <2> QED
    BY <1>4, <1>6, <2>1, <2>2
<1>16. CASE Finish \/ Abort \/ Kill
  BY <1>3, <1>16 DEF Finish, Abort, Kill, Terminal
<1> QED
  BY <1>2, <1>7, <1>8, <1>9, <1>10, <1>11, <1>12, <1>13, <1>14, <1>15, <1>16 DEF Next, Step

\* No run of the executor goes round in circles, whatever its harnesses answer and
\* however long they take: each step leaves fewer than before it, so that a run of n
\* planned instances is over after at most 10 n + 9 steps.
THEOREM RunsMoveOn == Spec => RunMovesOn
<1>1. TypeOK /\ TypeOK' /\ RowInv /\ TimeInv /\ [Next]_vars
      => [StepsLeft' < StepsLeft /\ StepsLeft \in Nat]_vars
  BY StepsAreLeft, StepsGoDown
<1>2. Spec => []TimeInv
  <2> QED
    BY TypeCorrect, TimeInit, TimeStep, PTL DEF Spec
<1> QED
  BY <1>1, <1>2, TypeAndRows, PTL DEF Spec, RunMovesOn
=============================================================================

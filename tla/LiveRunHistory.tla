--------------------------- MODULE LiveRunHistory ---------------------------
(***************************************************************************)
(* The event history kept by the live run registry                         *)
(* (src/bencheval/live_run_manifest.py): what one row holds, when a row    *)
(* may follow the rows before it, and the current state a reader derives.  *)
(* Pure data: the file, its locks and its crashes are in LiveRunRegistry.  *)
(*                                                                         *)
(* A history is a sequence of records, oldest first, of any number of runs *)
(* interleaved in append order.  `n' below is always the position a record *)
(* has, or would get; its prior rows are those before n with its run_id.   *)
(***************************************************************************)
EXTENDS Naturals, Sequences

CONSTANTS
    RunIds,      \* run_id values
    Models,      \* model_id values
    Axes,        \* the fill-once axes: benchmark, slice_id, runtime
    AxisValues,  \* what an axis may be filled with
    Locators,    \* evidence/report/bundle paths
    None         \* an optional field that is not filled

ASSUME NoneIsNoValue == None \notin AxisValues \cup Locators

LiveRunStatus ==
    {"registered", "running", "completed", "passed", "failed", "archived"}

AllowedTransitions ==
    [registered |-> LiveRunStatus,
     running    |-> LiveRunStatus \ {"registered"},
     completed  |-> {"completed", "passed", "failed", "archived"},
     passed     |-> {"passed", "archived"},
     failed     |-> {"failed", "archived"},
     archived   |-> {"archived"}]

LiveRunRecord ==
    [run_id       : RunIds,
     model_id     : Models,
     status       : LiveRunStatus,
     axes         : [Axes -> AxisValues \cup {None}],
     locator      : Locators \cup {None},
     generated_at : Nat]

-----------------------------------------------------------------------------
(* Validation *)

Prior(rows, n, run) == {i \in 1..(n - 1) : rows[i].run_id = run}

IsFirst(S, i) == i \in S /\ \A j \in S : i <= j
IsLast(S, i)  == i \in S /\ \A j \in S : j <= i

Filled(rows, S, axis) == {i \in S : rows[i].axes[axis] # None}

\* Faulty variant: compares with the first event of the run, not the last.
FollowsFirst(rows, n, record) ==
    LET prior == Prior(rows, n, record.run_id) IN
    \A i \in prior : IsFirst(prior, i) =>
        /\ record.status \in AllowedTransitions[rows[i].status]
        /\ record.model_id = rows[i].model_id

\* _reject_record_against_prior raises nothing for `record' at position n.
FollowsPrior(rows, n, record) ==
    LET prior == Prior(rows, n, record.run_id) IN
    /\ \A i \in prior : IsLast(prior, i) =>
          /\ rows[i].generated_at <= record.generated_at
          /\ record.status \in AllowedTransitions[rows[i].status]
    /\ \A i \in prior : IsFirst(prior, i) => record.model_id = rows[i].model_id
    /\ \A axis \in Axes : \A i \in prior :
          /\ IsFirst(Filled(rows, prior, axis), i)
          /\ record.axes[axis] # None
          => record.axes[axis] = rows[i].axes[axis]

ValidHistory(rows) == \A n \in 1..Len(rows) : FollowsPrior(rows, n, rows[n])

\* _reject_inconsistent_history raises nothing.
AcceptsNext(rows, record) ==
    /\ ValidHistory(rows)
    /\ FollowsPrior(rows, Len(rows) + 1, record)

(***************************************************************************)
(* What validation is for, said of any two events of one run and not only  *)
(* of neighbours: time never moves back, a status is never left for one    *)
(* the transition table forbids, the model never changes, and an axis once *)
(* filled is never filled with anything else.                              *)
(***************************************************************************)
MayFollow(earlier, later) ==
    /\ earlier.generated_at <= later.generated_at
    /\ later.status \in AllowedTransitions[earlier.status]
    /\ later.model_id = earlier.model_id
    /\ \A axis \in Axes :
          earlier.axes[axis] # None /\ later.axes[axis] # None
            => later.axes[axis] = earlier.axes[axis]

ConsistentHistory(rows) ==
    \A i, j \in 1..Len(rows) :
        i < j /\ rows[i].run_id = rows[j].run_id => MayFollow(rows[i], rows[j])

-----------------------------------------------------------------------------
(* Projection *)

Events(rows, run) == Prior(rows, Len(rows) + 1, run)

FirstOf(S) == CHOOSE i \in S : IsFirst(S, i)
LastOf(S)  == CHOOSE i \in S : IsLast(S, i)

\* project_live_runs, the row of one run that has events.
Project(rows, run) ==
    LET history == Events(rows, run)
        located == {i \in history : rows[i].locator # None}
    IN  [model_id    |-> rows[FirstOf(history)].model_id,
         status      |-> rows[LastOf(history)].status,
         axes        |-> [axis \in Axes |->
                            LET filled == Filled(rows, history, axis)
                            IN  IF filled = {} THEN None
                                ELSE rows[FirstOf(filled)].axes[axis]],
         locator     |-> IF located = {} THEN None
                         ELSE rows[LastOf(located)].locator,
         first_at    |-> rows[FirstOf(history)].generated_at,
         last_at     |-> rows[LastOf(history)].generated_at]

(***************************************************************************)
(* A later projection of a run may only extend an earlier one.             *)
(***************************************************************************)
ProjectionExtends(before, after) ==
    /\ after.model_id = before.model_id
    /\ after.first_at = before.first_at
    /\ after.last_at >= before.last_at
    /\ after.status \in AllowedTransitions[before.status]
    /\ \A axis \in Axes :
          before.axes[axis] # None => after.axes[axis] = before.axes[axis]
    /\ before.locator # None => after.locator # None
=============================================================================

------------------------ MODULE MCLiveRunRegistry ------------------------
(* Small instances of LiveRunRegistry: one run with two models and one axis *)
(* is enough to break every rule of a history, a second run to interleave.  *)
EXTENDS LiveRunRegistry, TLC

CONSTANTS r1, r2, m1, m2, bench, a, b, at, p1, p2, f1, f2, k1, k2

MCRunIds == {r1, r2}
MCModels == {m1, m2}
MCAxes == {bench}
MCAxisValues == {a, b}
MCLocators == {at}
MCManifests == {f1, f2}

Row(run, model, status, value, time) ==
    [run_id |-> run, model_id |-> model, status |-> status,
     axes |-> [x \in MCAxes |-> value], locator |-> None,
     generated_at |-> time]

\* A registration, an outcome that fills the axis and a locator, a start event
\* that is too late once the outcome is there, and an event of another run.
Registered == Row(r1, m1, "registered", None, 1)
Passed     == [Row(r1, m1, "passed", a, 2) EXCEPT !.locator = at]
Running    == Row(r1, m1, "running", None, 2)
Other      == Row(r2, m2, "failed", b, 0)

OneRunRecords == {Registered, Passed, Running}
TwoRunRecords == {Registered, Passed, Other}

\* A copy that breaks the transition table, and one of another model's run.
MCRestores ==
    {<<Row(r1, m1, "failed", None, 1), Row(r1, m1, "passed", None, 2)>>,
     <<Row(r1, m2, "registered", b, 1)>>}

NoRestores == {}
Symmetry == Permutations({p1, p2})
=============================================================================

----------------------------- MODULE SweAttempt -----------------------------
(***************************************************************************)
(* One SWE-bench instance (swebench_adapter.py, run_swebench_instance):    *)
(* Inspect generates a patch; its log must attribute it to the confirmed   *)
(* model; the one prediction goes to the official evaluator with the one   *)
(* row of the pinned data set; report and summary must agree.              *)
(***************************************************************************)
EXTENDS AttemptFrame

\* The cached data set, the instance's directory, and in it the official row,
\* its copy for the evaluator, the copies of the generation's logs, the
\* prediction and the report.
SweThings == {"parquet", "instance", "official", "input", "twins", "predictions", "report"}

\* What a former run left in the directory may be there.
SweVersions ==
    {v \in [SweThings -> {Absent, 0, Pinned}] :
        /\ v["instance"] = Pinned /\ v["official"] = Absent /\ v["input"] = Absent
        /\ {v["twins"], v["predictions"], v["report"]} \subseteq {Absent, 0}}

SweQuiet == UNCHANGED <<lane, seen, disturbs, spent, truth, found>>

-----------------------------------------------------------------------------
(* Before the launch *)

\* _require_swe_snapshot, swebench_inspect_model: one model, one route.
SweResolve ==
    /\ At("swe", "start")
    /\ Goto("prepare") \/ Stop("refused", 0)
    /\ UNCHANGED <<ver, cap>> /\ SweQuiet

\* Former reports, predictions, generation logs and their copies go.
SwePrepare ==
    /\ At("swe", "prepare")
    /\ Pin({"instance"}) /\ Goto("inputs")
    /\ ver' = [ver EXCEPT !["twins"] = Absent, !["predictions"] = Absent, !["report"] = Absent]
    /\ SweQuiet

\* materialize_swebench_diagnostic_inputs: the row comes from the pinned file
\* (cached or downloaded), and one image digest is found for it.
SweMaterialize ==
    /\ At("swe", "inputs")
    /\ \/ /\ ver["parquet"] \in {Absent, Pinned}
          /\ ver' = [ver EXCEPT !["parquet"] = Pinned, !["official"] = Pinned]
          /\ Goto("generate")
       \/ Stop("refused", 0) /\ UNCHANGED ver
    /\ UNCHANGED cap /\ SweQuiet

-----------------------------------------------------------------------------
(* Generation *)

SweGenerateStart ==
    /\ At("swe", "generate")
    /\ Use({"instance"}) /\ Goto("generating")
    /\ UNCHANGED <<lane, ver, cap, disturbs, spent, truth, found>>

\* What the logs say served the instance, whether the prepared setup came
\* first, and how many of them hold a patch; a prediction file of its own; a
\* log in the name of a copy.
SweGenerations ==
    {g \in [kind : {"generated"}, rc : {0, 1}, logs : {"confirmed", "contradicted", "missing"},
            patches : 0..2, file : {"one", "none", "others"}, twin : BOOLEAN] :
        g.rc = 1 => g.logs = "missing" /\ g.patches = 0 /\ g.file = "none" /\ ~g.twin}

SweGenerate ==
    /\ At("swe", "generating")
    /\ truth' \in SweGenerations
    /\ ver' = [ver EXCEPT !["predictions"] = IF truth'.file = "none" THEN Absent ELSE Pinned]
    /\ \E t \in 1..Remaining : spent' = spent + t
    /\ Goto("swap1")
    /\ UNCHANGED <<lane, cap, seen, disturbs, found>>

\* default_swebench_process_runner; the latency is the phase's own.
SweCut ==
    /\ lane = "swe" /\ pc \in {"generating", "evaluating"}
    /\ \/ Stop("runtime_launch_failure", 0) /\ UNCHANGED spent
       \/ Stop("runtime_budget_exceeded", Remaining) /\ spent' = Wall
    /\ UNCHANGED <<lane, things, truth, found>>

\* _reject_instance_swap; a failed generation is not evaluated, nor is one
\* that leaves no time.
SweGenerated ==
    /\ At("swe", "swap1")
    /\ CASE ~Same({"instance"}) -> Stop("evidence_corrupt", spent)
         [] Same({"instance"}) /\ truth.rc # 0 -> Stop("harness_failure", spent)
         [] OTHER -> IF Remaining < 1 THEN Stop("runtime_budget_exceeded", spent) ELSE Goto("bind")
    /\ UNCHANGED <<ver, cap>> /\ SweQuiet

\* _bind_owned_eval_logs: one copy of each log, none that was there before.
SweBindLogs ==
    /\ At("swe", "bind")
    /\ IF truth.twin
       THEN Stop("evidence_corrupt", 0) /\ UNCHANGED <<ver, cap>>
       ELSE /\ ver' = [ver EXCEPT !["twins"] = Pinned]
            /\ cap' = [cap EXCEPT !["twins"] = Pinned]
            /\ Goto("identity")
    /\ SweQuiet

\* What reading the copies by their paths may find.
SweReading(value, any) == IF Same({"instance", "twins"}) THEN {value} ELSE any

\* _generation_log_identity: only a log that attributes the instance to the
\* planned model, endpoint and setup lets a prediction be scored.
SweAttribution(kind) ==
    CASE kind = "confirmed"    -> "none"
      [] kind = "contradicted" -> "runtime_config_drift"
      [] kind = "missing"      -> "runtime_output_unparseable"

\* A refusal writes the logs first, in the pinned directory.
SweFails(label) == Stop(IF Same({"instance"}) THEN label ELSE "evidence_corrupt", spent)

SweIdentify ==
    /\ At("swe", "identity")
    /\ \E kind \in SweReading(truth.logs, {"confirmed", "contradicted", "missing"}) :
          IF SweAttribution(kind) = "none" THEN Goto("predict") ELSE SweFails(SweAttribution(kind))
    /\ Use({"twins"})
    /\ UNCHANGED <<lane, ver, cap, disturbs, spent, truth, found>>

\* _ensure_official_predictions, _read_standard_prediction: the file that is
\* there, or one made of the only patch of the logs; it holds one standard row.
SwePredictions(patches) ==
    CASE ver["predictions"] = Last   -> {"one", "others"}
      [] ver["predictions"] = Absent -> {IF patches = 1 THEN "one" ELSE "none"}
      [] OTHER                       -> {truth.file}

SwePredict ==
    /\ At("swe", "predict")
    /\ \E patches \in SweReading(truth.patches, 0..2) : \E file \in SwePredictions(patches) :
          /\ IF file = "one" THEN Goto("evaluate") ELSE SweFails("runtime_output_unparseable")
          /\ ver' = [ver EXCEPT !["predictions"] = IF @ = Absent /\ file = "one" THEN Pinned ELSE @]
    /\ Use({"twins"})
    /\ UNCHANGED <<lane, cap, disturbs, spent, truth, found>>

-----------------------------------------------------------------------------
(* The official evaluation *)

\* The former report goes, official row and prediction are bound by digest and
\* inode, the row is copied for the evaluator, and its command built.
SweBindInputs ==
    /\ At("swe", "evaluate")
    /\ IF ver["official"] = Absent
       THEN Stop("evidence_corrupt", 0) /\ UNCHANGED <<ver, cap>>
       ELSE /\ ver' = [ver EXCEPT !["report"] = Absent, !["input"] = Pinned]
            /\ cap' = [cap EXCEPT !["official"] = ver["official"],
                                  !["predictions"] = ver["predictions"], !["input"] = Pinned]
            /\ Goto("launch")
    /\ SweQuiet

SweEvaluateStart ==
    /\ At("swe", "launch")
    /\ Use({"instance", "input", "predictions"}) /\ Goto("evaluating")
    /\ UNCHANGED <<lane, ver, cap, disturbs, spent, truth, found>>

\* A report beside the inputs or below the evaluator's logs, with a verdict or
\* without; a summary that agrees with it, disagrees, counts the patch as
\* empty, or is missing.
SweEvaluate ==
    /\ At("swe", "evaluating")
    /\ \E e \in [kind : {"evaluated"}, rc : {0, 1}, top : BOOLEAN, nested : 0..2, linked : BOOLEAN,
                 verdict : BOOLEAN, right : BOOLEAN, logs : {truth.logs},
                 summary : {"agrees", "disagrees", "empty", "absent"}] :
          /\ e.linked => ~e.top /\ e.nested > 0
          /\ ~e.verdict => ~e.right /\ e.summary # "agrees"
          /\ e.right => e.summary # "empty"
          /\ truth' = e
          /\ ver' = [ver EXCEPT !["report"] = IF e.top THEN Pinned ELSE Absent]
    /\ \E t \in 1..Remaining : spent' = spent + t
    /\ Goto("leaves")
    /\ UNCHANGED <<lane, cap, seen, disturbs, found>>

\* _assert_same_leaf, of what was bound before the evaluation.
SweSameLeaves ==
    /\ At("swe", "leaves")
    /\ IF Same({"official", "input", "predictions"})
       THEN Goto("report") ELSE Stop("evidence_corrupt", 0)
    /\ UNCHANGED <<ver, cap>> /\ SweQuiet

\* _materialize_official_instance_report: without a report in its place the
\* only one below the evaluator's logs is copied; a linked one is refused.
SweReport ==
    /\ At("swe", "report")
    /\ IF truth.linked
       THEN Stop("evidence_corrupt", 0) /\ UNCHANGED <<ver, cap>>
       ELSE /\ ver' = [ver EXCEPT !["report"] = IF @ = Absent /\ truth.nested = 1 THEN Pinned ELSE @]
            /\ cap' = [cap EXCEPT !["report"] = ver'["report"]]
            /\ Goto("score")
    /\ SweQuiet

\* _official_instance_report, _score_from_official, between two swap checks.
SweByReport(judged, right) ==
    CASE truth.rc # 0                  -> "harness_failure"
      [] truth.rc = 0 /\ ~judged      -> "runtime_output_unparseable"
      [] OTHER -> IF right THEN "pass" ELSE "model_wrong_solution"

SweScore ==
    /\ At("swe", "score")
    /\ \E judged \in BOOLEAN, right \in BOOLEAN :
          /\ right => judged
          /\ Same({"report"}) /\ ver["report"] = Pinned => judged = truth.verdict /\ right = truth.right
          /\ ver["report"] = Absent => ~judged
          /\ IF Same({"instance"})
             THEN /\ found' = [kind |-> "score", verdict |-> judged, right |-> right,
                               label |-> SweByReport(judged, right)]
                  /\ Goto("summary")
             ELSE Stop("evidence_corrupt", spent) /\ UNCHANGED found
    /\ UNCHANGED <<lane, things, spent, truth>>

\* _schema_v2_incoherent
SweCoherent ==
    \/ truth.summary = "empty" /\ ~found.right
    \/ truth.summary = "agrees" /\ found.verdict /\ found.right = truth.right

\* _apply_schema_v2_coherence, whatever the label was: a verdict needs its
\* summary, and an empty patch is a wrong answer.
SweBySummary ==
    CASE truth.summary = "absent" -> IF found.verdict THEN "runtime_output_unparseable" ELSE found.label
      [] truth.summary # "absent" /\ ~SweCoherent -> "runtime_output_unparseable"
      [] OTHER -> IF found.verdict THEN found.label ELSE "model_wrong_solution"

SweStamp ==
    /\ At("swe", "summary")
    /\ Stop(SweBySummary, spent)
    /\ UNCHANGED <<ver, cap>> /\ SweQuiet

SweNext ==
    \/ SweResolve \/ SwePrepare \/ SweMaterialize \/ SweGenerateStart \/ SweGenerate \/ SweCut
    \/ SweGenerated \/ SweBindLogs \/ SweIdentify \/ SwePredict
    \/ SweBindInputs \/ SweEvaluateStart \/ SweEvaluate \/ SweSameLeaves
    \/ SweReport \/ SweScore \/ SweStamp

-----------------------------------------------------------------------------

SweGuarded == {"instance", "input", "predictions"}

\* The generation was attributed to the planned model, and the evaluator's
\* report and summary agree on the verdict or the patch was empty; as far as
\* the copies of the logs and the report were still those BenchEval wrote.
SweEarned == seen["twins"] = {Pinned} /\ ver["report"] \in {Absent, Pinned} =>
    /\ truth.kind = "evaluated" /\ truth.logs = "confirmed"
    /\ \/ /\ truth.rc = 0 /\ truth.verdict /\ truth.summary \in {"agrees", "empty"}
          /\ out = "pass" <=> truth.right
       \/ truth.summary = "empty" /\ out = "model_wrong_solution"
=============================================================================

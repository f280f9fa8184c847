---------------------------- MODULE BfclAttempt -----------------------------
(***************************************************************************)
(* One BFCL instance (bfcl_native_adapter.py, run_bfcl_instance): the      *)
(* pinned package, or a copy of it made for the run, generates one answer  *)
(* and evaluates it; the official score file alone bears the verdict.      *)
(***************************************************************************)
EXTENDS AttemptFrame

\* The pinned data files of the installed package (package: the code compares no
\* other file of it, but its version once before the launch), the run's own copy of it and study declarations, the
\* attempt's directories, the answer file and the score file.
BfclDirs   == {"instance", "results", "scores", "project"}
BfclThings == BfclDirs \cup {"package", "copy", "study", "answer", "score"}

BfclVersions ==
    {v \in [BfclThings -> {Absent, 0, Pinned}] :
        /\ v["answer"] = Absent /\ v["score"] = Absent
        /\ \A d \in BfclDirs : v[d] = Pinned
        /\ v["package"] # Absent}

BfclQuiet == UNCHANGED <<lane, seen, disturbs, spent, truth, found>>

-----------------------------------------------------------------------------
(* Before the launch *)

\* The endpoint is the confirmed one.  The registration is a key of the pinned
\* package or is rendered in the run's copy of it (copied), as is the data of a
\* derived study; the instance is one case (exact) or a whole category.
BfclResolve ==
    /\ At("bfcl", "start")
    /\ \/ /\ \E c \in BOOLEAN, e \in BOOLEAN :
                found' = [kind |-> "plan", copied |-> c, exact |-> e, scores |-> 0,
                          score |-> "plain"]
          /\ Goto("package")
       \/ Stop("refused", 0) /\ UNCHANGED found
    /\ UNCHANGED <<lane, things, spent, truth>>

\* _require_pinned_harness_version and _bfcl_prelaunch_benchmark_identity
BfclPackage ==
    /\ At("bfcl", "package")
    /\ IF Genuine({"package"}) THEN Goto("copy") ELSE Stop("refused", 0)
    /\ Pin({"package"}) /\ UNCHANGED ver /\ BfclQuiet

\* _prepare_staged_package, _prepare_derived_run: made by the run's first
\* instance, replayed from its manifest and compared by the others.
BfclCopy ==
    /\ At("bfcl", "copy")
    /\ CASE ~found.copied -> Goto("study") /\ UNCHANGED <<ver, cap>>
         [] found.copied /\ ver["copy"] = 0 ->
               Stop("runtime_config_drift", 0) /\ UNCHANGED <<ver, cap>>
         [] found.copied /\ ver["copy"] # 0 ->
               \/ /\ Genuine({"package"})
                  /\ ver' = [ver EXCEPT !["copy"] = IF @ = Absent THEN Pinned ELSE @]
                  /\ cap' = [cap EXCEPT !["copy"] = Pinned]
                  /\ ver["copy"] \in {Absent, Pinned} /\ Goto("study")
               \/ /\ ~Genuine({"package"}) \/ ver["copy"] = Last
                  /\ Stop("runtime_config_drift", 0) /\ UNCHANGED <<ver, cap>>
    /\ BfclQuiet

\* write_study_artifacts: the first instance writes, the others compare.
BfclStudy ==
    /\ At("bfcl", "study")
    /\ IF ver["study"] \in {Absent, Pinned}
       THEN ver' = [ver EXCEPT !["study"] = Pinned] /\ Goto("dirs")
       ELSE Stop("evidence_corrupt", 0) /\ UNCHANGED ver
    /\ UNCHANGED cap /\ BfclQuiet

\* Leftover results and scores go; the four directories are pinned.
BfclPin ==
    /\ At("bfcl", "dirs")
    /\ Pin(BfclDirs) /\ Goto("copy0")
    /\ UNCHANGED ver /\ BfclQuiet

\* _reverify_staging, _reverify_derived_overlay: the copy is what was rendered,
\* over the pinned package.
BfclCopyHolds == found.copied => Same({"copy"}) /\ Genuine({"package"})

BfclBeforeGenerate ==
    /\ At("bfcl", "copy0")
    /\ IF BfclCopyHolds THEN Goto("generate") ELSE Stop("runtime_config_drift", 0)
    /\ UNCHANGED <<ver, cap>> /\ BfclQuiet

-----------------------------------------------------------------------------
(* bfcl generate *)

BfclUsed == {"instance", "results", "project", IF found.copied THEN "copy" ELSE "package"}

BfclGenerateStart ==
    /\ At("bfcl", "generate")
    /\ Use(BfclUsed) /\ Goto("generating")
    /\ UNCHANGED <<lane, ver, cap, disturbs, spent, truth, found>>

\* It writes an answer, or an error in its place, or something else.
BfclGenerate ==
    /\ At("bfcl", "generating")
    /\ \E r \in [kind : {"generated"}, rc : {0, 1}, error : BOOLEAN,
                 rows : {"one", "none", "others"}] :
          /\ truth' = r
          /\ ver' = [ver EXCEPT !["answer"] = IF r.rows = "none" THEN Absent ELSE Pinned]
    /\ \E t \in 1..Remaining : spent' = spent + t
    /\ Goto("dirs1")
    /\ UNCHANGED <<lane, cap, seen, disturbs, found>>

\* _default_process_runner; the latency is the phase's own.
BfclCut ==
    /\ lane = "bfcl" /\ pc \in {"generating", "evaluating"}
    /\ \/ Stop("runtime_launch_failure", 0) /\ UNCHANGED spent
       \/ Stop("runtime_budget_exceeded", Remaining) /\ spent' = Wall
    /\ UNCHANGED <<lane, things, truth, found>>

\* _raise_on_dir_drift, after each phase: without the phase's latency.
BfclCheckDirs ==
    /\ lane = "bfcl" /\ pc \in {"dirs1", "dirs2"}
    /\ IF ~Same(BfclDirs) THEN Stop("evidence_corrupt", 0)
       ELSE CASE pc = "dirs2"                  -> Goto("data2")
              [] pc = "dirs1" /\ truth.rc # 0  -> Stop("harness_failure", spent)
              [] pc = "dirs1" /\ truth.rc = 0  -> Goto("answer1")
    /\ UNCHANGED <<ver, cap>> /\ BfclQuiet

\* _read_exact_result_bytes, _require_exact_result_id: of one case, the one
\* official result file holds one row, of that case.
BfclAnswer ==
    /\ At("bfcl", "answer1")
    /\ CASE ~found.exact -> Goto("remaining") /\ UNCHANGED cap
         [] found.exact /\ truth.rows = "one" /\ Same({"results"}) ->
               Pin({"answer"}) /\ Goto("remaining")
         [] OTHER -> Stop("evidence_corrupt", 0) /\ UNCHANGED cap
    /\ UNCHANGED ver /\ BfclQuiet

-----------------------------------------------------------------------------
(* bfcl evaluate *)

BfclBudget ==
    /\ At("bfcl", "remaining")
    /\ IF Remaining <= 0 THEN Stop("runtime_budget_exceeded", spent) ELSE Goto("data1")
    /\ UNCHANGED <<ver, cap>> /\ BfclQuiet

\* _reverify_bfcl_package_data, the pinned data files, and the copy, on both sides of the evaluation.
BfclCheckData ==
    /\ lane = "bfcl" /\ pc \in {"data1", "data2"}
    /\ IF Genuine({"package"}) /\ BfclCopyHolds
       THEN Goto(IF pc = "data1" THEN "evaluate" ELSE "answer2")
       ELSE Stop("runtime_config_drift", 0)
    /\ UNCHANGED <<ver, cap>> /\ BfclQuiet

\* The model's score directory is pinned, and what is left of the wall granted.
BfclEvaluateStart ==
    /\ At("bfcl", "evaluate")
    /\ Use(BfclUsed \cup {"scores", "answer"}) /\ Goto("evaluating")
    /\ UNCHANGED <<lane, ver, cap, disturbs, spent, truth, found>>

\* One score file, none or several, coherent or not, plain or a link; on one case
\* it crashes in the statistics after the score is written.  An error answer is
\* scored.
BfclEvaluate ==
    /\ At("bfcl", "evaluating")
    /\ \E e \in [kind : {"evaluated"}, rc : {0, 1}, crash : BOOLEAN, files : 0..2,
                 coherent : BOOLEAN, right : BOOLEAN, linked : BOOLEAN,
                 rows : {truth.rows}, error : {truth.error}] :
          /\ e.crash => e.rc = 1 /\ found.exact
          /\ e.linked => e.files > 0
          /\ truth' = e
          /\ ver' = [ver EXCEPT !["score"] = IF e.files = 0 THEN Absent ELSE Pinned]
    /\ \E t \in 1..Remaining : spent' = spent + t
    /\ Goto("dirs2")
    /\ UNCHANGED <<lane, cap, seen, disturbs, found>>

\* The answer of one case is the one read before the evaluation.
BfclSameAnswer ==
    /\ At("bfcl", "answer2")
    /\ IF found.exact => Same({"answer"}) THEN Goto("locate") ELSE Stop("evidence_corrupt", 0)
    /\ UNCHANGED <<ver, cap>> /\ BfclQuiet

-----------------------------------------------------------------------------
(* parse_bfcl_instance_outcome *)

\* Scores are not looked for after a failed evaluation.
BfclLooksFor == truth.rc = 0 \/ truth.crash

\* _find_official_score_candidates: by name, each opened as the plain file it
\* was found to be; what somebody put there may be none, or be swapped between.
BfclLocate ==
    /\ At("bfcl", "locate")
    /\ \E u \in IF ver["score"] = Pinned THEN {truth.linked} ELSE BOOLEAN :
          found' = [found EXCEPT
              !.scores = IF BfclLooksFor THEN truth.files ELSE 0,
              !.score = IF BfclLooksFor /\ truth.files > 0 /\ u THEN "unsafe" ELSE "plain"]
    /\ Pin({"score"}) /\ Goto("score")
    /\ UNCHANGED <<lane, ver, seen, disturbs, spent, truth>>

\* _parse_official_score: counts, accuracy and failure rows agree.
BfclScored == IF truth.coherent THEN (IF truth.right THEN "pass" ELSE "wrong")
                                ELSE "runtime_output_unparseable"

\* Of what the score file said or failed to say, before the answer is looked at.
BfclByScore ==
    IF ~BfclLooksFor THEN {"harness_failure"}
    ELSE IF found.score = "unsafe" THEN {"evidence_corrupt"}
    ELSE IF found.scores = 0 THEN {"harness_failure"}
    ELSE IF found.scores = 2
         THEN IF truth.crash THEN {"harness_failure"} ELSE {"runtime_output_unparseable"}
    ELSE IF ~Same({"score"}) THEN {"evidence_corrupt"}
    ELSE IF cap["score"] # Pinned THEN {"pass", "wrong", "harness_failure"}
    ELSE IF truth.crash /\ ~truth.coherent THEN {"harness_failure"}
    ELSE {BfclScored}

\* generation_inference_error: no verdict on a case no model answered.
BfclOfAnswer(label) ==
    IF found.exact /\ truth.error /\ label \in {"pass", "wrong"} THEN "remote_infra_failure"
    ELSE IF label = "wrong" THEN "model_wrong_solution" ELSE label

BfclScore ==
    /\ At("bfcl", "score")
    /\ \E label \in BfclByScore : Stop(BfclOfAnswer(label), spent)
    /\ UNCHANGED <<ver, cap>> /\ BfclQuiet

BfclNext ==
    \/ BfclResolve \/ BfclPackage \/ BfclCopy \/ BfclStudy \/ BfclPin \/ BfclBeforeGenerate
    \/ BfclGenerateStart \/ BfclGenerate \/ BfclCut \/ BfclCheckDirs \/ BfclAnswer
    \/ BfclBudget \/ BfclCheckData \/ BfclEvaluateStart \/ BfclEvaluate
    \/ BfclSameAnswer \/ BfclLocate \/ BfclScore

-----------------------------------------------------------------------------

BfclGuarded ==
    BfclUsed \cup {"scores"} \cup (IF found.exact THEN {"answer"} ELSE {})
BfclNamed == {"score"}

\* The evaluation of this case's own answer ended, or crashed after its score;
\* the score is coherent and says what the row says; and there was an answer.
BfclEarned == cap["score"] = Pinned =>
    /\ truth.kind = "evaluated" /\ (truth.rc = 0 \/ truth.crash)
    /\ truth.files = 1 /\ truth.coherent /\ ~truth.linked
    /\ found.exact => truth.rows = "one" /\ ~truth.error
    /\ out = "pass" <=> truth.right
=============================================================================

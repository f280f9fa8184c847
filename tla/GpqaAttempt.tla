---------------------------- MODULE GpqaAttempt -----------------------------
(***************************************************************************)
(* One GPQA slice (src/bencheval/gpqa_adapter.py, run_gpqa_slice): one     *)
(* Inspect eval over the planned samples, scored only from the log it      *)
(* announces, read through the pinned log directory.                       *)
(***************************************************************************)
EXTENDS AttemptFrame

CONSTANT Slots   \* planned samples of the slice

ASSUME SlotsArePositive == Slots \in Nat \ {0}

GpqaOwned  == {"artifacts", "logs"}
GpqaThings == GpqaOwned \cup {"package", "csv"}

\* The CSV cache may be missing, and anything may be found stale.
GpqaVersions ==
    {v \in [GpqaThings -> {Absent, 0, Pinned}] :
        \A x \in GpqaThings \ {"csv"} : v[x] # Absent}

GpqaQuiet == UNCHANGED <<lane, seen, disturbs, spent, truth, found>>

-----------------------------------------------------------------------------
(* Before the launch *)

GpqaPin ==
    /\ At("gpqa", "start")
    /\ Pin(GpqaOwned) /\ Goto("resolve")
    /\ UNCHANGED ver /\ GpqaQuiet

\* build_gpqa_run_command, resolve_openai_compatible_launch and
\* require_snapshot_endpoint: a plan that does not bind one model and one
\* endpoint is refused.
GpqaResolve ==
    /\ At("gpqa", "resolve")
    /\ Goto("package") \/ Stop("refused", 0)
    /\ UNCHANGED <<ver, cap>> /\ GpqaQuiet

\* The installed distribution, and the version its eval declares.
GpqaPackage ==
    /\ At("gpqa", "package")
    /\ IF Genuine({"package"}) THEN Goto("fetch") ELSE Stop("runtime_config_drift", 0)
    /\ Pin({"package"}) /\ UNCHANGED ver /\ GpqaQuiet

\* A missing cache is downloaded: the pinned bytes, others, or nothing.
GpqaFetch ==
    /\ At("gpqa", "fetch")
    /\ IF ver["csv"] # Absent
       THEN UNCHANGED ver /\ Goto("csv")
       ELSE \/ \E v \in {0, Pinned} : ver' = [ver EXCEPT !["csv"] = v] /\ Goto("downloaded")
            \/ UNCHANGED ver /\ Stop("runtime_config_drift", 0)
    /\ UNCHANGED cap /\ GpqaQuiet

\* verify_gpqa_csv_cache: other bytes end the attempt, and are removed when
\* this attempt has just fetched them.
GpqaVerify ==
    /\ pc \in {"csv", "downloaded"} /\ lane = "gpqa"
    /\ IF Genuine({"csv"})
       THEN Goto("launch") /\ UNCHANGED ver
       ELSE /\ Stop("runtime_config_drift", 0)
            /\ ver' = [ver EXCEPT !["csv"] = IF pc = "downloaded" THEN Absent ELSE @]
    /\ Pin({"csv"}) /\ GpqaQuiet

-----------------------------------------------------------------------------
(* Inspect *)

\* It asks the questions of the CSV it finds, each once per epoch.
GpqaLaunch ==
    /\ At("gpqa", "launch")
    /\ Use({"package", "csv"}) /\ Goto("running")
    /\ UNCHANGED <<lane, ver, cap, disturbs, spent, truth, found>>

GpqaRuns ==
    {r \in [rc : {0, 1}, valid : BOOLEAN, named : {"record", "text", "none"}, finished : BOOLEAN,
            ids : {"listed", "unlisted", "unusable"},
            asked : 0..Slots, epochs : 1..2, right : 0..2 * Slots] :
        /\ r.right <= r.asked * r.epochs
        /\ seen["csv"] = {Pinned} => r.asked = Slots
        \* a failed eval, one that names no log: how it went does not matter
        /\ r.rc = 1 \/ r.named = "none" \/ ~r.valid => r.right = 0 /\ r.epochs = 1 /\ r.ids = "listed"}

\* The log goes to the directory its path names at the end.
GpqaFinish ==
    /\ At("gpqa", "running")
    /\ truth' \in GpqaRuns
    /\ spent' \in 1..Wall
    /\ Use({"logs"}) /\ Goto("artifacts")
    /\ UNCHANGED <<lane, ver, cap, disturbs, found>>

\* _default_process_runner: the eval could not be started, or was killed.
GpqaCut ==
    /\ At("gpqa", "running")
    /\ \/ spent' = Wall /\ Stop("runtime_budget_exceeded", Wall)
       \/ UNCHANGED spent /\ Stop("runtime_launch_failure", 0)
    /\ UNCHANGED <<lane, things, truth, found>>

-----------------------------------------------------------------------------
(* After the eval *)

GpqaSame(step, x, next) ==
    /\ At("gpqa", step)
    /\ IF Same({x}) THEN Goto(next) ELSE Stop("evidence_corrupt", spent)
    /\ UNCHANGED <<ver, cap>> /\ GpqaQuiet

\* The directories are checked, the captured output written through their
\* descriptors, and the log directory checked again.
GpqaCheckArtifacts == GpqaSame("artifacts", "artifacts", "logs")
GpqaCheckLogs      == GpqaSame("logs", "logs", "reread")
GpqaRecheckLogs    == GpqaSame("reread", "logs", "parse")

\* _sample_totals: completed and total samples, when they agree.
GpqaTotal(r) == IF r.finished THEN r.asked * r.epochs ELSE 0

\* _unique_sample_count: the ids the log lists, or else the limit it was given.
GpqaUnique(r) == CASE r.ids = "listed" /\ r.asked > 0 -> r.asked
                   [] r.ids = "unusable"              -> 0
                   [] OTHER                           -> Slots

\* Faulty variant: epochs are not counted.
GpqaCompleteByTotal(score) ==
    score.total > 0 /\ score.total >= Slots

\* _gpqa_official_complete (0 stands for None).
GpqaComplete(score) ==
    /\ score.total > 0
    /\ IF score.unique = 0
       THEN score.total = Slots
       ELSE score.unique = Slots /\ score.total = score.unique * score.epochs

\* _score_from_inspect_results, _official_score
GpqaScore ==
    [kind |-> "score", total |-> GpqaTotal(truth), right |-> truth.right,
     unique |-> GpqaUnique(truth), epochs |-> truth.epochs]

\* _inspect_log_candidates: a log the eval itself names, in a done record or
\* else in its text; other files of the directory are never tried.
GpqaNamed == truth.named \in {"record", "text"}

\* _looks_like_inspect_eval_log, _load_json_object: a success of the planned
\* task and model, in a regular file of the pinned directory.
GpqaReadable == truth.valid /\ seen["logs"] = {cap["logs"]}

\* parse_gpqa_official_score: found by path, read through the descriptor.
GpqaReadings ==
    IF truth.rc = 0 /\ GpqaNamed /\ GpqaReadable
    THEN {GpqaScore} \cup (IF Same({"logs"}) THEN {} ELSE {Nothing})
    ELSE {Nothing}

GpqaParse ==
    /\ At("gpqa", "parse")
    /\ found' \in GpqaReadings
    /\ Goto("retain")
    /\ UNCHANGED <<lane, things, spent, truth>>

\* _retain_scored_gpqa_log: the bytes scored are copied through the
\* descriptors, if the path still leads to where they were read.
GpqaRetain ==
    /\ At("gpqa", "retain")
    /\ \/ Goto("stamp")
       \/ found # Nothing /\ ~Same({"logs"}) /\ Stop("evidence_corrupt", spent)
    /\ UNCHANGED <<ver, cap>> /\ GpqaQuiet

GpqaVerdict ==
    IF truth.rc # 0 THEN "harness_failure"
    ELSE IF found = Nothing THEN "runtime_output_unparseable"
    ELSE IF ~GpqaComplete(found) THEN "runtime_output_unparseable"
    ELSE IF found.right = found.total THEN "pass" ELSE "model_wrong_solution"

\* The last identity checks and the row.
GpqaStamp ==
    /\ At("gpqa", "stamp")
    /\ IF Same(GpqaOwned) THEN Stop(GpqaVerdict, spent)
                          ELSE Stop("evidence_corrupt", spent)
    /\ UNCHANGED <<ver, cap>> /\ GpqaQuiet

GpqaNext ==
    \/ GpqaPin \/ GpqaResolve \/ GpqaPackage \/ GpqaFetch \/ GpqaVerify
    \/ GpqaLaunch \/ GpqaFinish \/ GpqaCut
    \/ GpqaCheckArtifacts \/ GpqaCheckLogs \/ GpqaRecheckLogs
    \/ GpqaParse \/ GpqaRetain \/ GpqaStamp

-----------------------------------------------------------------------------

\* Everything a row with a verdict rests on is what BenchEval captured.
GpqaGuarded == GpqaOwned

\* What the eval really did bears the verdict: every planned question asked in
\* every epoch (an unusable list of ids shows it of the pinned CSV only), and
\* a pass if and only if all answers are right.
GpqaEarned ==
    /\ truth.rc = 0 /\ truth.valid /\ truth.finished
    /\ truth.ids # "unusable" \/ seen["csv"] = {Pinned} => truth.asked = Slots
    /\ out = "pass" <=> truth.right = truth.asked * truth.epochs
=============================================================================

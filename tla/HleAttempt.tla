----------------------------- MODULE HleAttempt -----------------------------
(***************************************************************************)
(* One HLE slice (hle_adapter.py, run_hle_slice): copies of the official   *)
(* scripts predict and then judge, offline against a data set materialized *)
(* for this attempt, and one accuracy is read from the judged file.        *)
(***************************************************************************)
EXTENDS AttemptFrame

CONSTANT Samples   \* planned samples of the slice (fewer than the calibration's 100)

ASSUME SamplesArePositive == Samples \in 1..99

\* The checkout's scripts and the hub snapshot are pinned inputs; the copies,
\* the datasets cache and what is materialized in it belong to the attempt.
HleThings == {"checkout", "snapshot", "artifacts", "work", "copies", "cache", "dataset"}

HleVersions ==
    {v \in [HleThings -> {Absent, 0, Pinned}] :
        /\ v["copies"] = Absent /\ v["dataset"] = Absent
        /\ v["artifacts"] = Pinned /\ v["work"] = Pinned
        /\ v["snapshot"] # Absent /\ v["cache"] # Absent}

HleQuiet == UNCHANGED <<lane, seen, disturbs, spent, truth, found>>

-----------------------------------------------------------------------------
(* Before the launch *)

\* resolve_hle_phase_launches: each phase has its own confirmed endpoint.
HleResolve ==
    /\ At("hle", "start")
    /\ Goto("artifacts") \/ Stop("refused", 0)
    /\ UNCHANGED <<ver, cap>> /\ HleQuiet

HlePinArtifacts ==
    /\ At("hle", "artifacts")
    /\ Pin({"artifacts"}) /\ Goto("work")
    /\ UNCHANGED ver /\ HleQuiet

\* hle_run_paths, prepare_hle_work_dir: emptied of this run's former outputs.
HlePinWork ==
    /\ At("hle", "work")
    /\ Pin({"work"}) /\ Goto("scripts")
    /\ UNCHANGED ver /\ HleQuiet

\* _hle_scripts: both are plain files of the checkout, or nothing is run.
HleHasScripts == ver["checkout"] # Absent

\* _materialize_hle_script_copies: what the harness will run is the checkout's
\* content of this moment.
HleCopyScripts ==
    /\ At("hle", "scripts")
    /\ IF HleHasScripts
       THEN /\ ver' = [ver EXCEPT !["copies"] = Pinned]
            /\ cap' = [cap EXCEPT !["copies"] = Pinned]
            /\ Use({"checkout"}) /\ Goto("cache")
       ELSE Stop("refused", 0) /\ UNCHANGED <<ver, cap, seen>>
    /\ UNCHANGED <<lane, disturbs, spent, truth, found>>

HlePinCache ==
    /\ At("hle", "cache")
    /\ Pin({"cache"}) /\ Goto("fetch")
    /\ UNCHANGED ver /\ HleQuiet

\* _prepare_fresh_hle_datasets_cache: empty (version Pinned), or no attempt.
HleCacheIsFresh == ver["cache"] = Pinned

\* _fetch_hle_snapshot_and_prewarm: the snapshot is found or downloaded, and
\* the cache is filled from it.
HleFetch ==
    /\ At("hle", "fetch")
    /\ \/ /\ HleCacheIsFresh
          /\ ver' = [ver EXCEPT !["dataset"] = Pinned] /\ Goto("identity")
       \/ Stop("runtime_config_drift", 0) /\ UNCHANGED ver
    /\ UNCHANGED cap /\ HleQuiet

\* capture_hle_benchmark_identity: the snapshot's files have the pinned digests,
\* and the cache holds the pinned revision alone.
HleIdentity ==
    /\ At("hle", "identity")
    /\ IF Genuine({"snapshot"}) THEN Goto("manifest") ELSE Stop("runtime_config_drift", 0)
    /\ Pin({"snapshot"}) /\ UNCHANGED ver /\ HleQuiet

\* _hle_materialized_cache_manifest: the bytes the phases are held to.
HleManifest ==
    /\ At("hle", "manifest")
    /\ IF Same({"cache"})
       THEN Pin({"dataset"}) /\ Goto("dataset")
       ELSE Stop("runtime_config_drift", 0) /\ UNCHANGED cap
    /\ UNCHANGED ver /\ HleQuiet

\* _resolve_hle_dataset_name, _build_hle_commands: an override may only restate
\* the pinned repository.
HleCommands ==
    /\ At("hle", "dataset")
    /\ Goto("version") \/ Stop("runtime_config_drift", 0)
    /\ UNCHANGED <<ver, cap>> /\ HleQuiet

\* _hle_harness_version: the checkout's identity when it is the pinned one,
\* else none; taken after the copies were.
HleCapture ==
    /\ At("hle", "version")
    /\ Pin({"checkout"}) /\ Goto("predict")
    /\ UNCHANGED ver /\ HleQuiet

HleCaptured == cap["checkout"] = Pinned

-----------------------------------------------------------------------------
(* The phases *)

HleUsed == {"work", "copies", "cache", "dataset"}

\* The wall clock is shared: a phase gets what is left of it.
HleStart(step, next) ==
    /\ At("hle", step)
    /\ IF Remaining <= 0
       THEN Stop("runtime_budget_exceeded", spent) /\ UNCHANGED seen
       ELSE Use(HleUsed) /\ Goto(next)
    /\ UNCHANGED <<lane, ver, cap, disturbs, spent, truth, found>>

HlePredictStart == HleStart("predict", "predicting")
HleJudgeStart   == HleStart("judge", "judging")

\* It answers some of the questions, and leaves a file if it gets to the end.
HlePredict ==
    /\ At("hle", "predicting")
    /\ \E r \in [kind : {"predicted"}, rc : {0, 1}, file : BOOLEAN, predicted : 0..Samples] :
          truth' = r
    /\ \E t \in 1..Remaining : spent' = spent + t
    /\ Goto("work1")
    /\ UNCHANGED <<lane, things, found>>

\* It judges some of the predictions, writes the judged file, and computes
\* metrics, in which it crashes on so small a slice.
HleJudge ==
    /\ At("hle", "judging")
    /\ \E j \in [kind : {"judged"}, rc : {0, 1}, crash : BOOLEAN, odd : BOOLEAN,
                 file : BOOLEAN, predicted : {truth.predicted},
                 rows : 0..truth.predicted, right : 0..truth.predicted] :
          /\ j.right <= j.rows
          /\ j.crash => j.rc = 1
          /\ truth' = j
    /\ \E t \in 1..Remaining : spent' = spent + t
    /\ Goto("work2")
    /\ UNCHANGED <<lane, things, found>>

\* _default_process_runner; the latency is the phase's own.
HleCut ==
    /\ lane = "hle" /\ pc \in {"predicting", "judging"}
    /\ \/ Stop("runtime_launch_failure", 0) /\ UNCHANGED spent
       \/ Stop("runtime_budget_exceeded", Remaining) /\ spent' = Wall
    /\ UNCHANGED <<lane, things, truth, found>>

HleAfter(first, second) == IF truth.kind = "predicted" THEN first ELSE second

\* After each phase: the work directory, the cache, and every materialized file.
HleCheckWork ==
    /\ lane = "hle" /\ pc \in {"work1", "work2"}
    /\ IF Same({"work"}) THEN Goto(HleAfter("cache1", "cache2")) ELSE Stop("evidence_corrupt", spent)
    /\ UNCHANGED <<ver, cap>> /\ HleQuiet

\* Faulty variant: the cache directory is checked, its files are not.
HleCheckCacheDir ==
    /\ lane = "hle" /\ pc \in {"cache1", "cache2"}
    /\ IF Same({"cache"}) THEN Goto(HleAfter("phase1", "phase2")) ELSE Stop("evidence_corrupt", spent)
    /\ UNCHANGED <<ver, cap>> /\ HleQuiet

HleCheckCache ==
    /\ lane = "hle" /\ pc \in {"cache1", "cache2"}
    /\ IF Same({"cache", "dataset"})
       THEN Goto(HleAfter("phase1", "phase2")) ELSE Stop("evidence_corrupt", spent)
    /\ UNCHANGED <<ver, cap>> /\ HleQuiet

\* A failed phase is the last; materialize_hle_predictions wants a file.
HleNextPhase ==
    /\ lane = "hle" /\ pc \in {"phase1", "phase2"}
    /\ CASE truth.kind = "judged" \/ truth.rc # 0 -> Goto("copies")
         [] truth.kind = "predicted" /\ truth.rc = 0 /\ truth.file -> Goto("judge")
         [] OTHER -> Stop("runtime_output_unparseable", 0)
    /\ UNCHANGED <<ver, cap>> /\ HleQuiet

-----------------------------------------------------------------------------
(* After the phases *)

HleCheckCopies ==
    /\ At("hle", "copies")
    /\ IF Same({"copies"}) THEN Goto("source") ELSE Stop("evidence_corrupt", spent)
    /\ UNCHANGED <<ver, cap>> /\ HleQuiet

\* Faulty variant: a checkout that never was the pinned one is a drift.
HleCheckPinnedSource ==
    /\ At("hle", "source")
    /\ IF Genuine({"checkout"}) THEN Goto("logs") ELSE Stop("evidence_corrupt", spent)
    /\ UNCHANGED <<ver, cap>> /\ HleQuiet

\* The checkout's identity again: the same version, or none both times.
HleCheckSource ==
    /\ At("hle", "source")
    /\ IF Genuine({"checkout"}) <=> HleCaptured
       THEN Goto("logs") ELSE Stop("evidence_corrupt", spent)
    /\ UNCHANGED <<ver, cap>> /\ HleQuiet

HleCheckArtifacts ==
    /\ At("hle", "logs")
    /\ IF Same({"artifacts"}) THEN Goto("parse") ELSE Stop("evidence_corrupt", spent)
    /\ UNCHANGED <<ver, cap>> /\ HleQuiet

\* parse_hle_official_score: each row judged yes or no, one for every sample.
HleOfficial ==
    IF truth.kind = "judged" /\ truth.file /\ ~truth.odd /\ truth.rows = Samples
    THEN [kind |-> "score", right |-> truth.right, total |-> truth.rows]
    ELSE Nothing

\* Read through the work directory's descriptor, by a path that must be in it.
HleParse ==
    /\ At("hle", "parse")
    /\ \/ found' = HleOfficial
       \/ ~Same({"work"}) /\ found' = Nothing
    /\ Goto("stamp")
    /\ UNCHANGED <<lane, things, spent, truth>>

\* _is_known_post_artifact_small_slice_calibration_failure: of the pinned
\* harness's judge, after a complete file, and only that crash.
HleKnownCrash ==
    truth.kind = "judged" /\ truth.crash /\ found # Nothing /\ HleCaptured

HleVerdict ==
    IF truth.rc # 0 /\ ~HleKnownCrash THEN "harness_failure"
    ELSE IF found = Nothing THEN "runtime_output_unparseable"
    ELSE IF found.right = found.total THEN "pass" ELSE "model_wrong_solution"

\* The summary is written, the work directory checked a last time, and the row
\* stamped with the version captured before the phases.
HleStamp ==
    /\ At("hle", "stamp")
    /\ IF Same({"work"}) THEN Stop(HleVerdict, spent) ELSE Stop("evidence_corrupt", spent)
    /\ UNCHANGED <<ver, cap>> /\ HleQuiet

HleNext ==
    \/ HleResolve \/ HlePinArtifacts \/ HlePinWork \/ HleCopyScripts \/ HlePinCache
    \/ HleFetch \/ HleIdentity \/ HleManifest \/ HleCommands \/ HleCapture
    \/ HlePredictStart \/ HlePredict \/ HleJudgeStart \/ HleJudge \/ HleCut
    \/ HleCheckWork \/ HleCheckCache \/ HleNextPhase
    \/ HleCheckCopies \/ HleCheckSource \/ HleCheckArtifacts \/ HleParse \/ HleStamp

-----------------------------------------------------------------------------

HleGuarded == HleUsed
HleNamed   == {"work"}

\* All samples were predicted and judged, in a run that ended well or crashed
\* in the metrics only, and a pass if and only if all were right.
HleEarned ==
    /\ truth.kind = "judged" /\ (truth.rc = 0 \/ truth.crash)
    /\ truth.predicted = Samples /\ truth.rows = Samples /\ ~truth.odd
    /\ out = "pass" <=> truth.right = Samples

=============================================================================

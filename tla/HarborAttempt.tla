--------------------------- MODULE HarborAttempt ----------------------------
(***************************************************************************)
(* One instance under the Harbor CLI (terminal_bench_harbor.py,            *)
(* run_harbor_dataset_instance): the confirmed agent is launched in a      *)
(* directory pinned before, its result is located once, pinned, copied,    *)
(* and scored from the pinned file only.                                   *)
(***************************************************************************)
EXTENDS AttemptFrame

\* The runtime catalogue's binding of the plan's runtime, the instance's
\* directory, the result below it, and the credentials' env file.
HarborThings == {"binding", "instance", "result", "env"}

HarborVersions ==
    {v \in [HarborThings -> {Absent, 0, Pinned}] :
        /\ v["result"] = Absent /\ v["env"] = Absent
        /\ v["binding"] # Absent /\ v["instance"] = Pinned}

HarborQuiet == UNCHANGED <<lane, seen, disturbs, spent, truth, found>>

\* The finally clause: the env file goes, however the attempt ends.
HarborStop(label, latency) ==
    /\ Stop(label, latency)
    /\ ver' = [ver EXCEPT !["env"] = Absent]

-----------------------------------------------------------------------------
(* Before the launch *)

\* harbor_launch_binding, verify_harbor_runtime_binding: the binding planned with.
HarborConfirmed == Genuine({"binding"})

\* _resolve_launch_identity: besides, its selector is installed, and the
\* provider's credential and endpoint are there.
HarborResolve ==
    /\ At("harbor", "start")
    /\ \/ HarborConfirmed /\ Pin({"binding"}) /\ Goto("pin") /\ UNCHANGED ver
       \/ HarborStop("refused", 0) /\ UNCHANGED cap
    /\ HarborQuiet

HarborPin ==
    /\ At("harbor", "pin")
    /\ Pin({"instance"}) /\ Goto("env")
    /\ UNCHANGED ver /\ HarborQuiet

\* write_harbor_launch_env_file: made when there is anything to forward.
HarborWriteEnv ==
    /\ At("harbor", "env")
    /\ Goto("launch")
    /\ \/ ver' = [ver EXCEPT !["env"] = Pinned]
       \/ UNCHANGED ver
    /\ UNCHANGED cap /\ HarborQuiet

\* build_harbor_run_command reads the catalogue again.
HarborLaunch ==
    /\ At("harbor", "launch")
    /\ \/ Use({"binding"}) /\ Goto("running") /\ UNCHANGED ver
       \/ HarborStop("refused", 0) /\ UNCHANGED seen
    /\ UNCHANGED <<lane, cap, disturbs, spent, truth, found>>

-----------------------------------------------------------------------------
(* Harbor *)

\* What it leaves: results of the job, of the trial, of both, of two trials,
\* or none; the trial's as the verifier, an error or the old schema wrote it.
HarborRuns ==
    {r \in [kind : {"ran"}, rc : {0, 1},
            layout : {"none", "job", "trial", "job_and_trial", "two_trials"},
            says : {"reward", "boolean", "exception", "exception_text", "errors", "nothing",
                    "not_json"},
            solved : {"yes", "partly", "no", "unclear"}, agent : {"planned", "other"}] :
        /\ seen["binding"] = {Pinned} \/ r.agent = "other"
        /\ r.layout = "none" => r.says = "nothing"
        /\ r.layout = "job" => r.says \in {"errors", "nothing"}
        /\ r.says \notin {"reward", "boolean"} => r.solved = "no"
        /\ r.says = "boolean" => r.solved # "partly"}

HarborWrites ==
    /\ ver' = IF truth'.layout = "none" THEN ver ELSE [ver EXCEPT !["result"] = Pinned]
    /\ Use({"instance"})

HarborFinish ==
    /\ At("harbor", "running")
    /\ truth' \in HarborRuns
    /\ spent' \in 1..Wall
    /\ HarborWrites /\ Goto("identity")
    /\ UNCHANGED <<lane, cap, disturbs, found>>

\* _default_process_runner
HarborLaunchFails ==
    /\ At("harbor", "running")
    /\ HarborStop("runtime_launch_failure", 0)
    /\ UNCHANGED <<lane, cap, seen, disturbs, spent, truth, found>>

\* The CLI is killed at the wall; a result it has left by then is located,
\* pinned and copied (or given up when it is not sound), and never scored.
HarborTimeout ==
    /\ At("harbor", "running")
    /\ spent' = Wall
    /\ HarborStop("runtime_budget_exceeded", Wall)
    /\ UNCHANGED <<lane, cap, seen, disturbs, truth, found>>

-----------------------------------------------------------------------------
(* After the run *)

HarborCheckIdentity ==
    /\ At("harbor", "identity")
    /\ IF Same({"instance"}) THEN Goto("locate") /\ UNCHANGED ver
                             ELSE HarborStop("evidence_corrupt", spent)
    /\ UNCHANGED cap /\ HarborQuiet

\* _locate_native_result: the only result there is, or the one of the
\* instance's trial when the job has one of its own.
HarborLocated(r) ==
    CASE r.layout = "none"                       -> "none"
      [] r.layout = "job"                        -> "job"
      [] r.layout \in {"trial", "job_and_trial"} -> "trial"
      [] r.layout = "two_trials"                 -> "ambiguous"

\* _pin_native_result: by path from the directory, no link followed.
HarborPinResult ==
    /\ At("harbor", "locate")
    /\ \/ /\ HarborLocated(truth) = "ambiguous"
          /\ HarborStop("evidence_corrupt", 0) /\ UNCHANGED <<cap, found>>
       \/ /\ ~Same({"instance"})
          /\ HarborStop("evidence_corrupt", spent) /\ UNCHANGED <<cap, found>>
       \/ /\ HarborLocated(truth) # "ambiguous" /\ UNCHANGED ver
          /\ found' = [kind |-> HarborLocated(truth)]
          /\ Pin({"result"}) /\ Goto("retain")
    /\ UNCHANGED <<lane, seen, disturbs, spent, truth>>

\* _read_result_bytes: the file opened and the one its path names are the
\* pinned inode.
HarborReadable == Same({"instance", "result"})

\* _retain_pinned_harbor_bytes
HarborRetain ==
    /\ At("harbor", "retain")
    /\ IF found.kind = "none" \/ HarborReadable
       THEN Use({"result"}) /\ Goto("relocate") /\ UNCHANGED ver
       ELSE HarborStop("evidence_corrupt", spent) /\ UNCHANGED seen
    /\ UNCHANGED <<lane, cap, disturbs, spent, truth, found>>

\* The path located again is the pinned one, or still none; where there is one,
\* the directory is still the pinned one.  Another directory in its place may
\* hold a result where there was none.
HarborRelocate ==
    /\ At("harbor", "relocate")
    /\ \/ /\ found.kind # "none" => Same({"instance"})
          /\ Goto("score") /\ UNCHANGED ver
       \/ /\ ~Same({"instance"})
          /\ HarborStop("evidence_corrupt", spent)
    /\ UNCHANGED cap /\ HarborQuiet

\* _harbor_result_has_errors, _official_verifier_reward: what the result says.
HarborJudged(r) ==
    CASE r.says = "exception"                          -> "runtime_launch_failure"
      [] r.says = "errors"                             -> "harness_failure"
      [] r.says \in {"exception_text", "nothing", "not_json"} -> "runtime_output_unparseable"
      [] r.solved = "unclear"                          -> "runtime_output_unparseable"
      [] r.solved = "yes"                              -> "pass"
      [] OTHER                                         -> "wrong"

\* A failed process outweighs any verdict.
HarborOutweighed(judged) ==
    IF truth.rc # 0 /\ judged \in {"pass", "wrong"} THEN "harness_failure" ELSE judged

\* A verdict on another agent than the one launched is none.
HarborAttributed(judged) ==
    IF judged \in {"pass", "wrong"} /\ truth.agent # "planned" THEN "runtime_config_drift"
    ELSE IF judged = "wrong" THEN "model_wrong_solution" ELSE judged

\* parse_harbor_instance_outcome; what somebody put in the result's place
\* before it was pinned may say anything.
HarborVerdicts ==
    LET judged == IF found.kind = "none" THEN {"harness_failure"}
                  ELSE IF cap["result"] = Pinned THEN {HarborJudged(truth)}
                  ELSE {"pass", "wrong", "runtime_output_unparseable", "harness_failure"}
    IN {HarborAttributed(HarborOutweighed(j)) : j \in judged}

\* The read is bound to the pin as the copy was, and the row is stamped.
HarborScore ==
    /\ At("harbor", "score")
    /\ IF found.kind = "none" \/ HarborReadable
       THEN Use({"result"}) /\ \E v \in HarborVerdicts : HarborStop(v, spent)
       ELSE HarborStop("evidence_corrupt", spent) /\ UNCHANGED seen
    /\ UNCHANGED <<lane, cap, disturbs, spent, truth, found>>

HarborNext ==
    \/ HarborResolve \/ HarborPin \/ HarborWriteEnv \/ HarborLaunch
    \/ HarborFinish \/ HarborLaunchFails \/ HarborTimeout
    \/ HarborCheckIdentity \/ HarborPinResult \/ HarborRetain \/ HarborRelocate
    \/ HarborScore

-----------------------------------------------------------------------------

HarborGuarded == {"instance", "result"}

\* The planned agent ran to the end, and its own trial's verifier (or the old
\* schema's verdict) says what the row says; if the result is still Harbor's.
HarborEarned == cap["result"] = Pinned =>
    /\ truth.rc = 0 /\ truth.agent = "planned"
    /\ truth.layout \in {"trial", "job_and_trial"}
    /\ truth.says \in {"reward", "boolean"}
    /\ out = "pass" <=> truth.solved = "yes"
=============================================================================

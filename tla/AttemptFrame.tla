---------------------------- MODULE AttemptFrame ----------------------------
(***************************************************************************)
(* What the attempts of BenchEval's native harness lanes have in common    *)
(* (src/bencheval/run_isolation.py and the lanes' adapters): directories   *)
(* pinned by an open descriptor, inputs whose bytes are pinned by digest,  *)
(* a harness that runs in processes of its own and reads and writes by     *)
(* path, and a verdict stamped at the end.                                 *)
(*                                                                         *)
(* A thing is what a path names: an input (checkout, package, cache,       *)
(* source tree) or a directory the attempt owns.  Every time somebody      *)
(* puts something else there its version grows; version Pinned of an input *)
(* is the one the catalogue pins.                                          *)
(***************************************************************************)
EXTENDS Integers, FiniteSets

CONSTANTS
    Wall,         \* wall-clock budget of an attempt, in ticks
    MaxDisturbs   \* bound: things somebody else swaps during an attempt

ASSUME BudgetsAreNat == Wall \in Nat \ {0} /\ MaxDisturbs \in Nat

VARIABLES
    lane,      \* the adapter that makes the attempt
    pc,        \* how far it is
    ver,       \* ver[x]: the version of thing x its path names now
    cap,       \* cap[x]: the version BenchEval opened or verified last
    seen,      \* seen[x]: the versions the harness, or the scorer, has used
    disturbs,  \* swaps so far
    spent,     \* ticks the attempt's processes have run
    truth,     \* what the harness really did, once it has run
    found,     \* what BenchEval has read of it
    out,       \* the row's verdict or failure label
    charged    \* the latency the row reports

things  == <<ver, cap, seen, disturbs>>
verdict == <<out, charged>>
vars    == <<lane, pc, things, spent, truth, found, verdict>>

Absent == -1
Pinned == 1
Last   == 2
Nothing == [kind |-> "nothing"]

Scored == {"pass", "model_wrong_solution"}

Labels == Scored \cup
    {"harness_failure", "runtime_output_unparseable", "runtime_config_drift",
     "runtime_budget_exceeded", "runtime_launch_failure", "evidence_corrupt",
     "remote_infra_failure", "runtime_tool_failure", "materialization_failure", "refused"}

At(l, step) == lane = l /\ pc = step

Goto(step) == pc' = step /\ UNCHANGED verdict

\* The attempt ends: a row is stamped, or the adapter raises with a label.
Stop(label, latency) == pc' = "over" /\ out' = label /\ charged' = latency

Remaining == Wall - spent

-----------------------------------------------------------------------------
(* run_isolation.py *)

\* open_owned_dir_fd, prepare_instance_artifacts_dir: the directories are made
\* or opened without following a link, and their descriptors kept.
Pin(xs) == cap' = [x \in DOMAIN cap |-> IF x \in xs THEN ver[x] ELSE cap[x]]

\* dir_identity_error and its like: the paths still name what was captured.
Same(xs) == \A x \in xs : ver[x] = cap[x]

\* The bytes of an input are the pinned ones.
Genuine(xs) == \A x \in xs : ver[x] = Pinned

\* A harness process uses the things its paths name now.
Use(xs) == seen' = [x \in DOMAIN seen |->
                        IF x \in xs THEN seen[x] \cup {ver[x]} ELSE seen[x]]

-----------------------------------------------------------------------------

\* An operator, another run or the harness swaps what a path names.
Disturb ==
    /\ pc # "over"
    /\ disturbs < MaxDisturbs
    /\ \E x \in DOMAIN ver :
          /\ ver[x] \in 0..Last - 1
          /\ ver' = [ver EXCEPT ![x] = @ + 1]
    /\ disturbs' = disturbs + 1
    /\ UNCHANGED <<lane, pc, cap, seen, spent, truth, found, verdict>>

\* The attempt has ended.
Over == pc = "over" /\ UNCHANGED vars

\* The attempt before its first step, with versions v of lane l's things.
Fresh(l, v) ==
    /\ lane = l /\ pc = "start" /\ ver = v
    /\ cap = [x \in DOMAIN v |-> Absent]
    /\ seen = [x \in DOMAIN v |-> {}]
    /\ disturbs = 0 /\ spent = 0
    /\ truth = Nothing /\ found = Nothing
    /\ out = "none" /\ charged = 0
=============================================================================

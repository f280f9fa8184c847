----------------------------- MODULE RunOutputs -----------------------------
(***************************************************************************)
(* Exclusive ownership of a run's outputs (src/bencheval/run_isolation.py, *)
(* _claim_control_plane_outputs): an artifacts tree claimed by an O_EXCL   *)
(* marker in it, an evidence file claimed by O_EXCL and held open, and the *)
(* frozen plan written into the tree, by any number of BenchEval processes *)
(* at once, each of which runs one run and may be killed anywhere.  What a *)
(* process does between two system calls is one step.                      *)
(*                                                                         *)
(* A run creates at most one evidence inode, which bears its name; Foreign *)
(* is a file no run made.                                                  *)
(***************************************************************************)
EXTENDS Naturals, Sequences, FiniteSets

CONSTANTS
    Runs,         \* runs, each in a process of its own
    Trees,        \* artifacts directories they may be given
    Evidences,    \* evidence paths they may be given
    TreeOf,       \* TreeOf[r]: artifacts_path of run r
    EvidenceOf,   \* EvidenceOf[r]: evidence_path of run r
    Native,       \* the runs that freeze their plan (not the external agents')
    None,         \* nobody, no file
    Foreign,      \* a file no run made
    MaxRows,      \* bound: rows a run appends
    MaxFaults,    \* bound: evidence files an operator takes away or replaces
    MaxBroken     \* bound: system calls whose failure stops or cuts a rollback

ASSUME TreeOfIsMap     == TreeOf \in [Runs -> Trees]
ASSUME EvidenceOfIsMap == EvidenceOf \in [Runs -> Evidences]
ASSUME NativeAreRuns   == Native \subseteq Runs
ASSUME NobodyIsNoRun   == None \notin Runs /\ Foreign \notin Runs /\ None # Foreign
ASSUME BoundsAreNat    == MaxRows \in Nat /\ MaxFaults \in Nat /\ MaxBroken \in Nat

VARIABLES
    at,         \* where each run is
    created,    \* the runs that made their artifacts directory
    held,       \* the runs with an evidence reservation (an open descriptor)
    granted,    \* history: the runs whose claim succeeded
    exists,     \* the artifacts directories that exist
    marker,     \* marker[d]: the run whose .bencheval-run-claim is in d
    plan,       \* plan[d]: the run whose run-plan.json is in d
    artifacts,  \* artifacts[d]: the runs with other files in d
    path,       \* path[e]: the inode evidence path e names, or None
    content,    \* content[i]: the runs whose rows are in inode i, in order
    faults,     \* operator actions so far
    broken      \* history: <<r, call>> when that call of run r failed with
                \*   something of the run's left where it was

process == <<at, created, held, granted>>
tree    == <<exists, marker, plan, artifacts>>
file    == <<path, content>>
vars    == <<process, tree, file, faults, broken>>

Init ==
    /\ at = [r \in Runs |-> "check"]
    /\ created = {} /\ held = {} /\ granted = {}
    /\ exists \in SUBSET Trees
    /\ marker = [d \in Trees |-> None]
    /\ plan = [d \in Trees |-> None]
    /\ artifacts = [d \in Trees |-> {}]
    /\ path \in [Evidences -> {None, Foreign}]
    /\ content = [i \in Runs \cup {Foreign} |-> <<>>]
    /\ faults = 0 /\ broken = {}

Goto(r, label) == at' = [at EXCEPT ![r] = label]

Calls == {"write_marker", "fstat_evidence", "close_evidence", "lstat_reserved",
          "unlink_evidence", "close_reserved", "unlink_marker", "unlink_plan"}

Breaks(r, call) ==
    /\ Cardinality(broken) < MaxBroken
    /\ broken' = broken \cup {<<r, call>>}

-----------------------------------------------------------------------------
(* claim_exclusive_run_artifacts *)

CheckTree(r) ==
    /\ at[r] = "check"
    /\ Goto(r, IF TreeOf[r] \in exists THEN "list" ELSE "mkdir")
    /\ UNCHANGED <<created, held, granted, tree, file, faults, broken>>

\* Nothing but a claim marker may be in an existing directory, which may not be
\* readable.
ListTree(r) ==
    /\ at[r] = "list"
    /\ LET d == TreeOf[r] IN
       \/ d \in exists /\ plan[d] = None /\ artifacts[d] = {} /\ Goto(r, "marker")
       \/ Goto(r, "refused")
    /\ UNCHANGED <<created, held, granted, tree, file, faults, broken>>

MakeTree(r) ==
    /\ at[r] = "mkdir"
    /\ \/ Goto(r, "refused") /\ UNCHANGED <<created, exists>>
       \/ /\ TreeOf[r] \notin exists
          /\ exists' = exists \cup {TreeOf[r]}
          /\ created' = created \cup {r}
          /\ Goto(r, "marker")
    /\ UNCHANGED <<held, granted, marker, plan, artifacts, file, faults, broken>>

\* _write_claim_marker: O_CREAT | O_EXCL in a directory that may be gone again.
\* The write or the close may fail with the marker made: nobody rolls that back.
WriteMarker(r) ==
    /\ at[r] = "marker"
    /\ \/ Goto(r, "refused") /\ UNCHANGED <<marker, broken>>
       \/ /\ TreeOf[r] \in exists /\ marker[TreeOf[r]] = None
          /\ marker' = [marker EXCEPT ![TreeOf[r]] = r]
          /\ \/ Goto(r, "evidence") /\ UNCHANGED broken
             \/ Goto(r, "refused") /\ Breaks(r, "write_marker")
    /\ UNCHANGED <<created, held, granted, exists, plan, artifacts, file, faults>>

-----------------------------------------------------------------------------
(* claim_exclusive_evidence_path, _persist_frozen_run_plan *)

Grant(r) == granted' = granted \cup {r} /\ Goto(r, "run")

\* Faulty variant: O_CREAT without O_EXCL.
OpenEvidence(r) ==
    /\ at[r] = "evidence"
    /\ path' = [path EXCEPT ![EvidenceOf[r]] = r]
    /\ held' = held \cup {r}
    /\ IF r \in Native THEN Goto(r, "plan_unlink") /\ UNCHANGED granted ELSE Grant(r)
    /\ UNCHANGED <<created, tree, content, faults, broken>>

\* O_CREAT | O_EXCL; the file may exist, or not be makeable.  When fstat of the
\* new file fails the descriptor is closed and the rollback is not told of the
\* file; when that close fails too, there is no rollback.
ClaimEvidence(r) ==
    /\ at[r] = "evidence"
    /\ \/ Goto(r, "rb_marker") /\ UNCHANGED <<path, held, granted, broken>>
       \/ /\ path[EvidenceOf[r]] = None
          /\ path' = [path EXCEPT ![EvidenceOf[r]] = r]
          /\ \/ /\ held' = held \cup {r}
                /\ IF r \in Native THEN Goto(r, "plan_unlink") /\ UNCHANGED granted ELSE Grant(r)
                /\ UNCHANGED broken
             \/ /\ \/ Goto(r, "rb_marker") /\ Breaks(r, "fstat_evidence")
                   \/ Goto(r, "refused") /\ Breaks(r, "close_evidence")
                /\ UNCHANGED <<held, granted>>
    /\ UNCHANGED <<created, tree, content, faults>>

\* write_text_at_exclusive: unlink what has the name, unless that fails ...
UnlinkPlan(r) ==
    /\ at[r] = "plan_unlink"
    /\ \/ plan' = [plan EXCEPT ![TreeOf[r]] = None] /\ Goto(r, "plan_create")
       \/ Goto(r, "rb_check") /\ UNCHANGED plan
    /\ UNCHANGED <<created, held, granted, exists, marker, artifacts, file, faults, broken>>

\* ... then create it afresh; a failed write leaves the file behind.
CreatePlan(r) ==
    /\ at[r] = "plan_create"
    /\ \/ Goto(r, "rb_check") /\ UNCHANGED <<plan, granted>>
       \/ /\ plan[TreeOf[r]] = None
          /\ plan' = [plan EXCEPT ![TreeOf[r]] = r]
          /\ Grant(r) \/ (Goto(r, "rb_check") /\ UNCHANGED granted)
    /\ UNCHANGED <<created, held, exists, marker, artifacts, file, faults, broken>>

-----------------------------------------------------------------------------
(* rollback_claimed_run_outputs *)

\* The path must still name the held inode, which must be empty; a path that
\* cannot be looked up counts as replaced.
RollbackCheck(r) ==
    /\ at[r] = "rb_check"
    /\ \/ /\ Goto(r, IF path[EvidenceOf[r]] = r /\ content[r] = <<>>
                     THEN "rb_unlink" ELSE "rb_release")
          /\ UNCHANGED broken
       \/ Goto(r, "rb_release") /\ Breaks(r, "lstat_reserved")
    /\ UNCHANGED <<created, held, granted, tree, file, faults>>

\* A failing fstat or unlink raises: only the descriptor is still let go.
RollbackUnlink(r) ==
    /\ at[r] = "rb_unlink"
    /\ \/ path' = [path EXCEPT ![EvidenceOf[r]] = None] /\ Goto(r, "rb_release") /\ UNCHANGED broken
       \/ Goto(r, "rb_abandon") /\ UNCHANGED path /\ Breaks(r, "unlink_evidence")
    /\ UNCHANGED <<created, held, granted, tree, content, faults>>

\* The finally block; a failing close gives the rollback up too.
RollbackRelease(r) ==
    /\ at[r] \in {"rb_release", "rb_abandon"}
    /\ held' = held \ {r}
    /\ \/ Goto(r, IF at[r] = "rb_release" THEN "rb_marker" ELSE "refused") /\ UNCHANGED broken
       \/ Goto(r, "refused") /\ Breaks(r, "close_reserved")
    /\ UNCHANGED <<created, granted, tree, file, faults>>

\* Faulty variant: the marker stays.
RollbackNoMarker(r) ==
    /\ at[r] = "rb_marker"
    /\ Goto(r, "rb_plan")
    /\ UNCHANGED <<created, held, granted, tree, file, faults, broken>>

\* The names are unlinked whoever made the files; a failing unlink gives up.
RollbackMarker(r) ==
    /\ at[r] = "rb_marker"
    /\ \/ /\ marker' = [marker EXCEPT ![TreeOf[r]] = None]
          /\ Goto(r, "rb_plan") /\ UNCHANGED broken
       \/ Goto(r, "refused") /\ UNCHANGED marker /\ Breaks(r, "unlink_marker")
    /\ UNCHANGED <<created, held, granted, exists, plan, artifacts, file, faults>>

RollbackPlan(r) ==
    /\ at[r] = "rb_plan"
    /\ \/ /\ plan' = [plan EXCEPT ![TreeOf[r]] = None]
          /\ Goto(r, IF r \in created THEN "rb_rmdir" ELSE "refused") /\ UNCHANGED broken
       \/ Goto(r, "refused") /\ UNCHANGED plan /\ Breaks(r, "unlink_plan")
    /\ UNCHANGED <<created, held, granted, exists, marker, artifacts, file, faults>>

\* Faulty variant: shutil.rmtree.
RollbackRmtree(r) ==
    /\ at[r] = "rb_rmdir"
    /\ exists' = exists \ {TreeOf[r]}
    /\ marker' = [marker EXCEPT ![TreeOf[r]] = None]
    /\ plan' = [plan EXCEPT ![TreeOf[r]] = None]
    /\ artifacts' = [artifacts EXCEPT ![TreeOf[r]] = {}]
    /\ Goto(r, "refused")
    /\ UNCHANGED <<created, held, granted, file, faults, broken>>

\* rmdir refuses a directory that is not empty; that it failed is not told.
RollbackRmdir(r) ==
    /\ at[r] = "rb_rmdir"
    /\ LET d == TreeOf[r] IN
       \/ UNCHANGED exists
       \/ /\ marker[d] = None /\ plan[d] = None /\ artifacts[d] = {}
          /\ exists' = exists \ {d}
    /\ Goto(r, "refused")
    /\ UNCHANGED <<created, held, granted, marker, plan, artifacts, file, faults, broken>>

Rollback(r) ==
    \/ RollbackCheck(r) \/ RollbackUnlink(r) \/ RollbackRelease(r)
    \/ RollbackMarker(r) \/ RollbackPlan(r) \/ RollbackRmdir(r)

-----------------------------------------------------------------------------
(* The run itself: artifacts, append_reserved_evidence, release *)

WriteArtifacts(r) ==
    /\ at[r] = "run"
    /\ artifacts' = [artifacts EXCEPT ![TreeOf[r]] = @ \cup {r}]
    /\ UNCHANGED <<process, exists, marker, plan, file, faults, broken>>

\* The path must name the held inode before a row is written ...
AppendCheck(r) ==
    /\ at[r] = "run"
    /\ Len(content[r]) < MaxRows
    /\ Goto(r, IF path[EvidenceOf[r]] = r THEN "append" ELSE "fail")
    /\ UNCHANGED <<created, held, granted, tree, file, faults, broken>>

\* Faulty variant: opens the path again for every row.
AppendByName(r) ==
    /\ at[r] = "append"
    /\ \/ LET i == path[EvidenceOf[r]] IN
          /\ content' = IF i = None THEN content ELSE [content EXCEPT ![i] = Append(@, r)]
          /\ Goto(r, "recheck")
       \/ Goto(r, "fail") /\ UNCHANGED content
    /\ UNCHANGED <<created, held, granted, tree, path, faults, broken>>

\* ... through the descriptor, unless os.write fails ...
AppendWrite(r) ==
    /\ at[r] = "append"
    /\ \/ content' = [content EXCEPT ![r] = Append(@, r)] /\ Goto(r, "recheck")
       \/ Goto(r, "fail") /\ UNCHANGED content
    /\ UNCHANGED <<created, held, granted, tree, path, faults, broken>>

\* ... and again after it.
AppendRecheck(r) ==
    /\ at[r] = "recheck"
    /\ Goto(r, IF path[EvidenceOf[r]] = r THEN "run" ELSE "fail")
    /\ UNCHANGED <<created, held, granted, tree, file, faults, broken>>

\* The finally block: the run returned, or raised.
Release(r) ==
    /\ at[r] \in {"run", "fail"}
    /\ held' = held \ {r}
    /\ Goto(r, IF at[r] = "run" THEN "done" ELSE "failed")
    /\ UNCHANGED <<created, granted, tree, file, faults, broken>>

\* A failure of the run that is not about its evidence.
Abort(r) ==
    /\ at[r] = "run"
    /\ Goto(r, "fail")
    /\ UNCHANGED <<created, held, granted, tree, file, faults, broken>>

Ended(r) == at[r] \in {"done", "failed", "refused", "dead"}

Kill(r) ==
    /\ ~Ended(r)
    /\ held' = held \ {r}
    /\ Goto(r, "dead")
    /\ UNCHANGED <<created, granted, tree, file, faults, broken>>

\* An operator moves an evidence file away, perhaps putting another there.
MoveEvidence(e) ==
    /\ faults < MaxFaults
    /\ faults' = faults + 1
    /\ path[e] # None
    /\ \E i \in {None, Foreign} : path' = [path EXCEPT ![e] = i]
    /\ UNCHANGED <<process, tree, content, broken>>

AllEnded == (\A r \in Runs : Ended(r)) /\ UNCHANGED vars

Step(r) ==
    \/ CheckTree(r) \/ ListTree(r) \/ MakeTree(r) \/ WriteMarker(r) \/ ClaimEvidence(r)
    \/ UnlinkPlan(r) \/ CreatePlan(r) \/ Rollback(r)
    \/ WriteArtifacts(r) \/ AppendCheck(r) \/ AppendWrite(r) \/ AppendRecheck(r)
    \/ Abort(r) \/ Release(r) \/ Kill(r)

Next ==
    \/ \E r \in Runs : Step(r)
    \/ \E e \in Evidences : MoveEvidence(e)
    \/ AllEnded

Spec == Init /\ [][Next]_vars

-----------------------------------------------------------------------------
(* Properties *)

\* Where a run has its evidence descriptor open.
Reserved == {"plan_unlink", "plan_create", "run", "append", "recheck", "fail",
             "rb_check", "rb_unlink", "rb_release", "rb_abandon"}

\* Types, and no descriptor left open on any way out.
TypeOK ==
    /\ at \in [Runs -> {"check", "list", "mkdir", "marker", "evidence", "plan_unlink",
                        "plan_create", "run", "append", "recheck", "fail",
                        "rb_check", "rb_unlink", "rb_release", "rb_abandon", "rb_marker",
                        "rb_plan", "rb_rmdir", "done", "failed", "refused", "dead"}]
    /\ created \subseteq Runs /\ held \subseteq Runs /\ granted \subseteq Runs
    /\ exists \subseteq Trees
    /\ marker \in [Trees -> Runs \cup {None}]
    /\ plan \in [Trees -> Runs \cup {None}]
    /\ artifacts \in [Trees -> SUBSET Runs]
    /\ path \in [Evidences -> Runs \cup {None, Foreign}]
    /\ content \in [Runs \cup {Foreign} -> Seq(Runs)]
    /\ faults \in 0..MaxFaults
    /\ broken \subseteq Runs \X Calls
    /\ \A r \in Runs : r \in held <=> at[r] \in Reserved

\* claim_exclusive_run_artifacts' docstring: "two claims can never own the same
\* tree".  Every file in a tree was written by the run whose marker is in it,
\* through rollbacks of other claims on the tree and through kills.
TreeOfOneRun ==
    \A d \in Trees : artifacts[d] # {} => artifacts[d] = {marker[d]} /\ d \in exists

\* append_reserved_evidence's docstring: an operator "can make the run fail, but
\* can never redirect BenchEval's bytes into its replacement file": the rows
\* of a file are its maker's, though the path may name another file by now.
EvidenceOfOneRun ==
    \A i \in DOMAIN content : \A n \in 1..Len(content[i]) : content[i][n] = i

\* What a failing call leaves standing: the calls outside any rollback leave what
\* was put down so far, a failing call of a rollback what it has not reached yet.
Broke(r, calls) == \E c \in calls : <<r, c>> \in broken

LeavesMarker   == {"write_marker", "close_evidence", "unlink_evidence",
                   "close_reserved", "unlink_marker"}
LeavesPlan     == {"unlink_evidence", "close_reserved", "unlink_marker", "unlink_plan"}
LeavesEvidence == {"fstat_evidence", "close_evidence", "lstat_reserved", "unlink_evidence"}

\* A refused claim has let go its descriptor and taken back the marker, the plan
\* and the evidence file it had put down, each but for the failures that leave
\* it: the marker's and the new file's are outside any rollback, and a failing
\* call of the rollback leaves what comes after it, not what came before.
RefusedLeavesNothing ==
    \A r \in Runs : at[r] = "refused" =>
        /\ marker[TreeOf[r]] = r => Broke(r, LeavesMarker)
        /\ plan[TreeOf[r]] = r => Broke(r, LeavesPlan)
        /\ path[EvidenceOf[r]] = r => Broke(r, LeavesEvidence)
        /\ r \notin held

\* The claims of any number of processes grant outputs as RunGrants says: a run
\* holds its evidence file as long as the path names the inode it made.
Holding == {r \in granted : path[EvidenceOf[r]] = r}

Grants == INSTANCE RunGrants WITH holding <- Holding, touched <- faults > 0

ImplementsGrants == Grants!Spec

\* The inductive invariant behind TreeOfOneRun: a run past its marker has its
\* marker in its tree, for good once its claim is granted, and only granted
\* runs write artifacts.
Underway == {"run", "append", "recheck", "fail", "done", "failed"}
Claimed  == Underway \cup {"evidence", "plan_unlink", "plan_create", "rb_check",
                          "rb_unlink", "rb_release", "rb_abandon", "rb_marker"}

TreeInv ==
    /\ \A r \in Runs : at[r] \in Claimed \/ r \in granted
          => marker[TreeOf[r]] = r /\ TreeOf[r] \in exists
    /\ \A r \in Runs : at[r] \in Underway => r \in granted
    /\ \A r \in granted : at[r] \in Underway \cup {"dead"}
    /\ \A d \in Trees : \A r \in artifacts[d] : r \in granted /\ TreeOf[r] = d

\* The inductive invariant behind ImplementsGrants: as long as no operator moves
\* evidence files, the path names the inode a run made and has not taken back.
FileInv ==
    faults = 0 => \A r \in Runs :
        at[r] \in Reserved \ {"rb_release", "rb_abandon"} \/ r \in granted => path[EvidenceOf[r]] = r

=============================================================================

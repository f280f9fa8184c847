---------------------------- MODULE ExposureLock ----------------------------
(***************************************************************************)
(* The two-proof exposure report and its lock, from                        *)
(* src/bencheval/exposure_report.py: two runs of a study are read back as  *)
(* complete proofs, bound to the study and rendered as a report and a lock *)
(* that are created together, exclusively; later the lock is verified from *)
(* copied proofs and reproduces the report.                                *)
(*                                                                         *)
(* What may go wrong: either run is not what the study declares; the       *)
(* selection handed in is another; two writers share the output paths; a   *)
(* writer is killed or its disk fails between two steps; a proof directory *)
(* or the lock is replaced before it is verified.                          *)
(***************************************************************************)
EXTENDS StudyEvidence

CONSTANTS
    Writers,      \* invocations of the report command
    Shapes,       \* side -> the proofs its run may end with
    Selections,   \* records a caller may hand in (NoSelection among them)
    MaxDisturbs   \* replacements of a proof or of the lock

VARIABLES
    proof,      \* side -> the proof its directory holds
    file,       \* output -> nothing, or who created it and what it says
    pc,         \* writer -> where its call stands
    job,        \* writer -> the report and lock it built, and the files it made
    verified,   \* the report the last successful verification reproduced
    disturbs    \* replacements so far

vars == <<proof, file, pc, job, verified, disturbs>>

Outputs == {"report", "lock"}
None    == [is |-> "nothing"]
Blank   == [is |-> "blank"]

NotRun == [id |-> "not run"]

\* A proof a disturbance may leave, whatever side its run was of.
AnyShape == UNION {Shapes[side] : side \in Sides}

ASSUME ShapesAreProofs == NotRun \notin AnyShape
ASSUME EditorIsNoWriter == "editor" \notin Writers

-----------------------------------------------------------------------------
(* The report *)

\* _pairs and the per-stratum counts: everything the report says of outcomes.
Table(base, cand) ==
    LET both == Observed(base) \cap Observed(cand) IN
    [strata    |-> [side \in Sides |-> [s \in Strata |->
                      LET p == IF side = "canonical" THEN base ELSE cand IN
                      <<CountIn(p, s), Cardinality({c \in Passed(p) : StratumOf[c] = s})>>]],
     both_pass |-> Cardinality(Passed(base) \cap Passed(cand)),
     canonical_only_pass |-> Cardinality((both \cap Passed(base)) \ Passed(cand)),
     candidate_only_pass |-> Cardinality((both \cap Passed(cand)) \ Passed(base))]

\* _assert_selection: selected = planned = observed, stratum by stratum.
SelectionBinds(sel, ps, bound) ==
    /\ SelectsForStudy(sel)
    /\ VerifySources(sel)
    /\ ScaleOf(ps) = "declared"
    /\ \A p \in ps : Observed(p) = SelectedIds(sel)
    /\ bound => \A p \in ps : p.planned = SelectedIds(sel)

\* _assert_declared_allowed, and the selection a declared analysis requires.
DeclaredAllowed(ps, bound, variant, sel) ==
    /\ ScaleOf(ps) = "declared"
    /\ bound
    /\ variant # NoVariant \/ \A p \in ps : p.version = "catalog"
    /\ sel # NoSelection

\* _assemble_report: every binding that must hold before a report exists.
\* Raw evidence (bound = FALSE) has no plan, variant or registration to bind.
Assembles(base, cand, analysis, bound, sel) ==
    LET ps == {base, cand}
        variant == IF bound THEN cand.variant ELSE NoVariant
    IN
    /\ BindSide("canonical", base)
    /\ BindSide("candidate", cand)
    /\ ConstantAxes(<<base, cand>>)
    /\ Paired => Observed(base) = Observed(cand)
    /\ ScaleOf(ps) # "neither"
    /\ \A p \in ps : p.slice = ScaleOf(ps)
    /\ bound => \A p \in ps : BoundPopulation(p)
    /\ sel # NoSelection => SelectionBinds(sel, ps, bound)
    /\ variant # NoVariant => VariantBinds(variant, sel, base, cand)
    /\ RegistrationBinds(base, cand, bound)
    /\ analysis = "declared" => DeclaredAllowed(ps, bound, variant, sel)

Report(base, cand, analysis, bound, sel) ==
    [mode      |-> IF analysis = "declared" THEN "declared_population" ELSE "plumbing_only",
     scale     |-> ScaleOf({base, cand}),
     bound     |-> bound,
     runs      |-> <<base.run, cand.run>>,
     selection |-> sel,
     variant   |-> IF bound THEN cand.variant ELSE NoVariant,
     registration |-> Retained(base, bound),
     table     |-> Table(base, cand)]

\* _lock_payload: the two proof ids, the retained study and selection, and the
\* digest of the report.
Lock(base, cand, analysis, sel) ==
    [analysis |-> analysis,
     ids      |-> <<base.id, cand.id>>,
     selection |-> sel,
     variant  |-> cand.variant,
     registration |-> base.registration,
     report   |-> Report(base, cand, analysis, TRUE, sel)]

-----------------------------------------------------------------------------
(* State *)

NoJob == [report |-> None, lock |-> None, from |-> <<>>, made |-> {}, wrote |-> {}]

Init ==
    /\ proof = [side \in Sides |-> NotRun]
    /\ file = [o \in Outputs |-> None]
    /\ pc = [w \in Writers |-> "idle"]
    /\ job = [w \in Writers |-> NoJob]
    /\ verified = None
    /\ disturbs = 0

-----------------------------------------------------------------------------
(* Building and writing *)

\* An ordinary run of one side, imported as a proof.
RunSide(side, p) ==
    /\ proof[side] = NotRun
    /\ side = "candidate" => proof["canonical"] # NotRun
    /\ proof' = [proof EXCEPT ![side] = p]
    /\ UNCHANGED <<file, pc, job, verified, disturbs>>

\* Both proofs are read back as complete ones, distinct, and bound together.
Builds(base, cand, analysis, sel) ==
    /\ base.complete /\ cand.complete
    /\ base.id # cand.id
    /\ VariantParses(cand)
    /\ sel # NoSelection => Replays(sel)
    /\ Assembles(base, cand, analysis, TRUE, sel)

BothRan == NotRun \notin {proof[side] : side \in Sides}

BuildProofBacked(w, analysis, sel) ==
    LET base == proof["canonical"]
        cand == proof["candidate"]
    IN
    /\ pc[w] = "idle" /\ BothRan
    /\ Builds(base, cand, analysis, sel)
    /\ job' = [job EXCEPT ![w] =
                 [NoJob EXCEPT !.report = Report(base, cand, analysis, TRUE, sel),
                               !.lock = Lock(base, cand, analysis, sel),
                               !.from = <<base, cand>>]]
    /\ pc' = [pc EXCEPT ![w] = "create"]
    /\ UNCHANGED <<proof, file, verified, disturbs>>

\* A refusal leaves no output.
BuildRefused(w, analysis, sel) ==
    /\ pc[w] = "idle" /\ BothRan
    /\ ~Builds(proof["canonical"], proof["candidate"], analysis, sel)
    /\ pc' = [pc EXCEPT ![w] = "refused"]
    /\ UNCHANGED <<proof, file, job, verified, disturbs>>

\* The raw path reads the rows alone and never renders a rate: it is asked for
\* the declared analysis and refuses it, and it writes no lock.
BuildRaw(w) ==
    LET base == proof["canonical"]
        cand == proof["candidate"]
    IN
    /\ pc[w] = "idle" /\ BothRan
    /\ Assembles(base, cand, "raw_only", FALSE, NoSelection)
    /\ job' = [job EXCEPT ![w] =
                 [NoJob EXCEPT !.report = Report(base, cand, "raw_only", FALSE, NoSelection),
                               !.from = <<base, cand>>]]
    /\ pc' = [pc EXCEPT ![w] = "create"]
    /\ UNCHANGED <<proof, file, verified, disturbs>>

\* The outputs of a job.  Both are created before either is written, and the
\* report comes before the lock each time.
Targets(w) == IF job[w].lock = None THEN {"report"} ELSE Outputs
IsNext(w, o, done) ==
    /\ o \in Targets(w) \ done
    /\ o = "lock" => "report" \in done

Text(w, o) == IF o = "report" THEN job[w].report ELSE job[w].lock

\* Faulty variant: the output is opened for writing whether or not it exists.
CreateOver(w, o) ==
    /\ pc[w] = "create"
    /\ IsNext(w, o, job[w].made)
    /\ file' = [file EXCEPT ![o] = [is |-> "file", by |-> w, text |-> Blank]]
    /\ job' = [job EXCEPT ![w].made = @ \cup {o}]
    /\ pc' = [pc EXCEPT ![w] = IF job[w].made \cup {o} = Targets(w) THEN "write" ELSE @]
    /\ UNCHANGED <<proof, verified, disturbs>>

\* _open_exclusive: an output that already exists refuses the call.
Create(w, o) ==
    /\ pc[w] = "create"
    /\ IsNext(w, o, job[w].made)
    /\ file[o] = None
    /\ file' = [file EXCEPT ![o] = [is |-> "file", by |-> w, text |-> Blank]]
    /\ job' = [job EXCEPT ![w].made = @ \cup {o}]
    /\ pc' = [pc EXCEPT ![w] = IF job[w].made \cup {o} = Targets(w) THEN "write" ELSE @]
    /\ UNCHANGED <<proof, verified, disturbs>>

CreateRefused(w, o) ==
    /\ pc[w] = "create"
    /\ IsNext(w, o, job[w].made)
    /\ file[o] # None
    /\ pc' = [pc EXCEPT ![w] = "unwind"]
    /\ UNCHANGED <<proof, file, job, verified, disturbs>>

\* Each output is written and synced before the next one is.  The writer holds
\* its own inode: a name that now means another file keeps what it holds.
Write(w, o) ==
    /\ pc[w] = "write"
    /\ IsNext(w, o, job[w].wrote)
    /\ file' = [file EXCEPT ![o] = IF @ # None /\ @.by = w THEN [@ EXCEPT !.text = Text(w, o)] ELSE @]
    /\ job' = [job EXCEPT ![w].wrote = @ \cup {o}]
    /\ pc' = [pc EXCEPT ![w] = IF job[w].wrote \cup {o} = Targets(w) THEN "done" ELSE @]
    /\ UNCHANGED <<proof, verified, disturbs>>

\* The disk fails under a write.
WriteFails(w) ==
    /\ pc[w] = "write"
    /\ pc' = [pc EXCEPT ![w] = "unwind"]
    /\ UNCHANGED <<proof, file, job, verified, disturbs>>

\* Every file this call created is unlinked by name, in the order of creation.
Unwind(w, o) ==
    /\ pc[w] = "unwind"
    /\ o \in job[w].made
    /\ o = "lock" => "report" \notin job[w].made
    /\ file' = [file EXCEPT ![o] = None]
    /\ job' = [job EXCEPT ![w].made = @ \ {o}]
    /\ UNCHANGED <<proof, pc, verified, disturbs>>

Unwound(w) ==
    /\ pc[w] = "unwind"
    /\ job[w].made = {}
    /\ pc' = [pc EXCEPT ![w] = "refused"]
    /\ UNCHANGED <<proof, file, job, verified, disturbs>>

\* SIGKILL: what was created stays, blank or written.
Killed(w) ==
    /\ pc[w] \in {"create", "write", "unwind"}
    /\ pc' = [pc EXCEPT ![w] = "dead"]
    /\ UNCHANGED <<proof, file, job, verified, disturbs>>

-----------------------------------------------------------------------------
(* Verifying a lock *)

\* A lock file that parses: a blank one is not JSON.
LockIsReadable == file["lock"] # None /\ file["lock"].text # Blank

\* verify_exposure_study_lock: the proofs named by the lock, read back, must
\* reproduce its report and every other field.
Verify(supplied) ==
    LET lock == file["lock"].text
        base == proof["canonical"]
        cand == proof["candidate"]
    IN
    /\ LockIsReadable
    /\ supplied # NoSelection => supplied = lock.selection
    /\ lock.ids = <<base.id, cand.id>>
    /\ lock.variant = cand.variant
    /\ lock.registration = base.registration
    /\ Builds(base, cand, lock.analysis, lock.selection)
    /\ lock = Lock(base, cand, lock.analysis, lock.selection)
    /\ verified' = lock.report
    /\ UNCHANGED <<proof, file, pc, job, disturbs>>

-----------------------------------------------------------------------------
(* Disturbances *)

\* A proof directory is replaced by another complete proof.
ReplaceProof(side, p) ==
    /\ disturbs < MaxDisturbs
    /\ proof[side] # NotRun /\ p # proof[side]
    /\ proof' = [proof EXCEPT ![side] = p]
    /\ disturbs' = disturbs + 1
    /\ UNCHANGED <<file, pc, job, verified>>

\* The lock is replaced by one that says something else and is consistent with
\* itself: the other analysis, another selection, another table.
LockEdits(lock) ==
    {[lock EXCEPT !.analysis = a,
                  !.selection = sel,
                  !.report = [@ EXCEPT !.mode = IF a = "declared" THEN "declared_population"
                                                ELSE "plumbing_only",
                                       !.selection = sel,
                                       !.table.both_pass = n]] :
        a \in {"raw_only", "declared"}, sel \in Selections, n \in {0, lock.report.table.both_pass}}

ReplaceLock(lock) ==
    /\ disturbs < MaxDisturbs
    /\ LockIsReadable
    /\ lock \in LockEdits(file["lock"].text) \ {file["lock"].text}
    /\ file' = [file EXCEPT !["lock"].text = lock, !["lock"].by = "editor"]
    /\ disturbs' = disturbs + 1
    /\ UNCHANGED <<proof, pc, job, verified>>

-----------------------------------------------------------------------------
(* The specification *)

\* A study whose calls are all over has no step left to take.
Over == (\A w \in Writers : pc[w] \in {"done", "refused", "dead"}) /\ UNCHANGED vars

Next ==
    \/ \E side \in Sides : \E p \in Shapes[side] : RunSide(side, p) \/ ReplaceProof(side, p)
    \/ \E w \in Writers, analysis \in {"raw_only", "declared"}, sel \in Selections :
          BuildProofBacked(w, analysis, sel) \/ BuildRefused(w, analysis, sel)
    \/ \E w \in Writers, o \in Outputs :
          \/ Create(w, o) \/ CreateRefused(w, o)
          \/ Write(w, o) \/ Unwind(w, o)
    \/ \E w \in Writers : BuildRaw(w) \/ WriteFails(w) \/ Unwound(w) \/ Killed(w)
    \/ \E sel \in Selections : Verify(sel)
    \/ LockIsReadable /\ \E lock \in LockEdits(file["lock"].text) : ReplaceLock(lock)
    \/ Over

Spec == Init /\ [][Next]_vars

-----------------------------------------------------------------------------
(* Properties *)

\* The population the study declares: of each official stratum the declared
\* number of ids, lowest digests first.
SeededPopulation == UNION {SelectStratum(Official(s), Declared[s]) : s \in Strata}

\* What a declared analysis claims of the two runs behind it.
Earned(base, cand) ==
    /\ \A p \in {base, cand} :
          /\ p.complete /\ p.captured
          /\ Observed(p) = SeededPopulation /\ p.planned = SeededPopulation
          /\ \A c \in Observed(p) : p.verdict[c] \in {"pass", "fail"}
    /\ base.run # cand.run /\ base.route = cand.route
    /\ base.label = cand.label /\ \A p \in {base, cand} : p.label = p.registration
    /\ cand.variant # NoVariant => cand.variant.maps = SeededPopulation

\* A rate, an interval or a test is rendered only about the seeded population:
\* whatever is written, or reproduced from a lock, with the declared analysis
\* comes from two runs that planned and observed exactly the lowest-ranked
\* declared cases of the official files, every row scored, on one route, under
\* one substantiated registration and with a variant measured on those cases.
RatesAreEarned ==
    /\ \A w \in Writers :
          (job[w].report # None /\ job[w].report.mode = "declared_population") =>
              Earned(job[w].from[1], job[w].from[2])
    /\ (verified # None /\ verified.mode = "declared_population") =>
          \E base, cand \in AnyShape :
              /\ Earned(base, cand)
              /\ verified.runs = <<base.run, cand.run>>
              /\ verified.table = Table(base, cand)

\* A lock on disk that some call wrote stands beside the report it locks: no
\* interleaving of two writers, failed write, kill or unwinding leaves the lock
\* of one report next to another report, a blank one or none.
LockHasItsReport ==
    (LockIsReadable /\ file["lock"].by \in Writers) =>
        /\ file["report"] # None
        /\ file["report"].text = file["lock"].text.report

=============================================================================

-------------------------- MODULE OperatorActions --------------------------
(***************************************************************************)
(* What an operator does around a run, from                                *)
(* src/bencheval/application/operations.py, ui/pages.py, cli.py,           *)
(* benchmark_plan.py and live_proof.py: plan, preflight, confirm and start *)
(* a run from the console or run it from the command line, then register   *)
(* its evidence as `passed`.                                               *)
(*                                                                         *)
(* Every process caches the catalogs of benchmarks and agents the first    *)
(* time it reads them and never reads them again; the model registry and   *)
(* the instance lists are read anew by every plan.  All of them are files  *)
(* that people edit, and a run is planned four times before it is charged: *)
(* for the preview, for the preflight and twice in the worker process.     *)
(***************************************************************************)
EXTENDS Integers, FiniteSets

CONSTANTS
    Requests,    \* what the form of the plan page may ask for
    Lists,       \* the sets of instances the slice may name
    RunIds,      \* run ids; evidence files are named by the run that wrote them
    MaxEdits     \* edits of a file or of a form somebody has already confirmed

ASSUME RunIdsAreFinite == IsFiniteSet(RunIds)

ASSUME ListsAreSlices == IsFiniteSet(UNION Lists) /\ {} \notin Lists

Benchmarks == {"terminal-bench", "bfcl"}
ModelOnly  == {"bfcl"}

ASSUME RequestsAreForms ==
    Requests \subseteq [benchmark : Benchmarks, agent : BOOLEAN, diagnostic : BOOLEAN,
                        output : {req.output : req \in Requests}]

VARIABLES
    catalog,    \* benchmark and agent catalogs on disk
    models,     \* model registry and instance list on disk
    cache,      \* the catalogs the console's process holds
    form,       \* the request the plan page's form shows, once it is filled
    preview,    \* the plan the page previews
    checked,    \* fingerprint of the last plan whose preflight passed
    dialog,     \* the preview the confirmation dialog was opened on
    worker,     \* the run worker's process
    runs,       \* run id -> the run as it was executed
    files,      \* run id -> the runs whose rows its evidence file holds
    call,       \* a registration in progress
    passed,     \* the `passed` events of the live-run manifest
    edits

console == <<cache, form, preview, checked, dialog>>
vars == <<catalog, models, console, worker, runs, files, call, passed, edits>>

None   == [is |-> "none"]
Idle   == [pc |-> "idle"]

\* What a process that holds `held` sees of the catalogs.
Seen(held) == IF held = None THEN catalog ELSE held

-----------------------------------------------------------------------------
(* Planning *)

\* resolve_launchable_agent for the one native profile: a draft launches only
\* as diagnostic evidence.
Launchable(req, cat) == req.agent => cat.admitted \/ req.diagnostic

Configured(req, mod) == req.benchmark = "bfcl" /\ mod.configured
DraftAgent(req, cat) == req.agent /\ ~cat.admitted

\* The rule of run, doctor and console: an ordinary run wants an executable
\* benchmark; a diagnostic one a demoted benchmark, a configured registration or
\* a draft agent.
Admitted(req, cat, mod) ==
    /\ Launchable(req, cat)
    /\ ~req.diagnostic => cat.executable[req.benchmark]
    /\ req.diagnostic /\ cat.executable[req.benchmark] =>
          Configured(req, mod) \/ DraftAgent(req, cat)

\* plan_control_plane's own refusals.
Plannable(req, cat, mod) ==
    /\ Launchable(req, cat)
    /\ req.agent => req.benchmark \notin ModelOnly
    /\ Configured(req, mod) => req.diagnostic

\* The frozen plan.  Model-only lanes and native agents snapshot the model's
\* binding; a shipped runtime keeps its own.
PlanOf(req, cat, mod) ==
    [benchmark  |-> req.benchmark, agent |-> req.agent, diagnostic |-> req.diagnostic,
     binding    |-> IF req.benchmark \in ModelOnly \/ req.agent
                    THEN IF mod.configured THEN "configured" ELSE "upstream"
                    ELSE "runtime",
     instances  |-> mod.instances,
     validity   |-> IF DraftAgent(req, cat) \/ Configured(req, mod)
                    THEN "diagnostic_only" ELSE "adapter_smoke"]

Resolves(req, cat, mod) == Admitted(req, cat, mod) /\ Plannable(req, cat, mod)

\* _plan_fingerprint: the plan's bytes and the outputs the operator selected.
Fingerprint(req, plan) == [plan |-> plan, output |-> req.output]

\* _require_executable_benchmark, before anything is reserved or charged.
Executes(plan, cat) == cat.executable[plan.benchmark] \/ plan.diagnostic

\* The model ends with its run ids.
Unused == {r \in RunIds : runs[r] = None}

\* The operators do one thing at a time: a page, a command or a registration.
\* They share nothing but the files, and those change at any time.
Quiet == form = None /\ worker.pc = "idle" /\ call.pc = "idle"

-----------------------------------------------------------------------------
(* The plan page of the console *)

\* The console's process caches on first use.
Loads == cache' = Seen(cache)

FillForm(req) ==
    /\ Quiet /\ Unused # {}
    /\ form' = req
    /\ UNCHANGED <<catalog, models, cache, preview, checked, dialog, worker, runs, files,
                   call, passed, edits>>

\* plan_action: a plan that is refused clears the preview.
BuildPlan ==
    /\ form # None /\ dialog = None
    /\ Loads
    /\ IF Resolves(form, Seen(cache), models)
       THEN /\ preview' = [is |-> "preview", request |-> form,
                           plan |-> PlanOf(form, Seen(cache), models)]
            /\ checked' = None
       ELSE preview' = None /\ UNCHANGED checked
    /\ UNCHANGED <<catalog, models, form, dialog, worker, runs, files, call, passed, edits>>

\* preflight_action: the request of the preview is planned again and the host
\* probed for that plan; the mark it leaves is the preview's fingerprint.
Preflight(ok) ==
    /\ dialog = None /\ preview # None
    /\ Loads
    /\ checked' = IF ok /\ Resolves(preview.request, Seen(cache), models)
                  THEN Fingerprint(preview.request, preview.plan) ELSE None
    /\ UNCHANGED <<catalog, models, form, preview, dialog, worker, runs, files, call, passed,
                   edits>>

\* start_action
OpenDialog ==
    /\ dialog = None /\ preview # None
    /\ checked = Fingerprint(preview.request, preview.plan)
    /\ dialog' = preview
    /\ UNCHANGED <<catalog, models, cache, form, preview, checked, worker, runs, files, call,
                   passed, edits>>

\* launch_now sends the request the form shows now, with the fingerprint of the
\* preview, and leaves the page.
Launch ==
    /\ dialog # None
    /\ worker' = [pc |-> "replan", request |-> form, shown |-> dialog,
                  expected |-> Fingerprint(preview.request, preview.plan)]
    /\ form' = None /\ preview' = None /\ checked' = None /\ dialog' = None
    /\ UNCHANGED <<catalog, models, cache, runs, files, call, passed, edits>>

Back ==
    /\ dialog # None /\ dialog' = None
    /\ UNCHANGED <<catalog, models, cache, form, preview, checked, worker, runs, files, call,
                   passed, edits>>

\* Another page is opened: a page keeps nothing.
LeavePage ==
    /\ form # None /\ dialog = None
    /\ form' = None /\ preview' = None /\ checked' = None
    /\ UNCHANGED <<catalog, models, cache, dialog, worker, runs, files, call, passed, edits>>

\* The console is stopped and started again.
Restart ==
    /\ Quiet /\ cache # None
    /\ cache' = None
    /\ UNCHANGED <<catalog, models, form, preview, checked, dialog, worker, runs, files, call,
                   passed, edits>>

-----------------------------------------------------------------------------
(* Runs *)

\* Faulty variant: the worker trusts the request it was sent.
ReplanUnchecked ==
    /\ worker.pc = "replan"
    /\ worker' = IF Resolves(worker.request, catalog, models)
                 THEN [pc |-> "plan", request |-> worker.request, shown |-> worker.shown,
                       cache |-> catalog, raced |-> FALSE]
                 ELSE Idle
    /\ UNCHANGED <<catalog, models, console, runs, files, call, passed, edits>>

\* The worker is spawned: it starts without caches.  It plans the request and
\* compares the fingerprint with the confirmed one.
Replan ==
    /\ worker.pc = "replan"
    /\ worker' = IF /\ Resolves(worker.request, catalog, models)
                    /\ worker.expected =
                         Fingerprint(worker.request, PlanOf(worker.request, catalog, models))
                 THEN [pc |-> "plan", request |-> worker.request, shown |-> worker.shown,
                       cache |-> catalog, raced |-> FALSE]
                 ELSE Idle
    /\ UNCHANGED <<catalog, models, console, runs, files, call, passed, edits>>

\* Then it plans once more, from its caches and the files that have none, and
\* executes that plan.
PlanAgain ==
    /\ worker.pc = "plan"
    /\ worker' = IF Plannable(worker.request, worker.cache, models)
                 THEN [pc |-> "execute", request |-> worker.request, shown |-> worker.shown,
                       cache |-> worker.cache, raced |-> worker.raced,
                       plan |-> PlanOf(worker.request, worker.cache, models)]
                 ELSE Idle
    /\ UNCHANGED <<catalog, models, console, runs, files, call, passed, edits>>

Store(r, run) ==
    /\ r \in Unused
    /\ runs' = [runs EXCEPT ![r] = run]
    /\ files' = [files EXCEPT ![r] = {r}]

Execute(r) ==
    /\ worker.pc = "execute"
    /\ worker' = Idle
    /\ IF Executes(worker.plan, worker.cache)
       THEN \E scored \in SUBSET worker.plan.instances :
              Store(r, [is |-> "run", by |-> "console", plan |-> worker.plan,
                        request |-> worker.request, shown |-> worker.shown,
                        raced |-> worker.raced, scored |-> scored])
       ELSE UNCHANGED <<runs, files>>
    /\ UNCHANGED <<catalog, models, console, call, passed, edits>>

\* bencheval run: one process plans, shows and executes the same plan.
RunCommand(r, req) ==
    /\ Quiet
    /\ Resolves(req, catalog, models)
    /\ LET plan == PlanOf(req, catalog, models) IN
       /\ Executes(plan, catalog)
       /\ \E scored \in SUBSET plan.instances :
             Store(r, [is |-> "run", by |-> "cli", plan |-> plan, scored |-> scored])
    /\ UNCHANGED <<catalog, models, console, worker, call, passed, edits>>

-----------------------------------------------------------------------------
(* Registering evidence as passed *)

\* A row is a run and an instance.  A row that a killed run did not write counts
\* as one that was not scored does.
RowsIn(path) == {row \in files[path] \X UNION Lists : row[2] \in runs[row[1]].plan.instances}

\* _interpretation_label, written on every row
Label(r) ==
    CASE runs[r].plan.diagnostic -> "diagnostic"
      [] ~runs[r].plan.diagnostic /\ runs[r].plan.validity = "diagnostic_only" -> "benchmark_native_claim"
      [] OTHER -> "adapter_smoke"

\* Faulty variant: only the catalog keeps diagnostic evidence out.
CountsByCatalog(row, benchmark) ==
    row[2] \in runs[row[1]].scored /\ runs[row[1]].plan.benchmark = benchmark

\* A row counts when the harness judged it, it names the lane's benchmark and
\* is no diagnostic.
Counts(row, benchmark) ==
    /\ row[2] \in runs[row[1]].scored
    /\ runs[row[1]].plan.benchmark = benchmark
    /\ Label(row[1]) # "diagnostic"

\* qualify_lane: one run, and so many instances with a row that counts.
Qualifies(path, expected, benchmark) ==
    /\ Cardinality({row[1] : row \in RowsIn(path)}) = 1
    /\ Cardinality({row[2] : row \in {w \in RowsIn(path) : Counts(w, benchmark)}}) >= expected

\* The claim names a run that was executed (which stands for its model and
\* runtime too) and a benchmark; the evidence is any existing file.  `passed`
\* wants a benchmark that is executable in the catalogs the process holds: the
\* console's are as old as the console.  A second `passed` event of a run adds
\* nothing and is left out.
Register(by, run, path, benchmark) ==
    /\ Quiet /\ runs[path] # None /\ runs[run] # None
    /\ \A e \in passed : e.run # run
    /\ IF by = "console" THEN Loads ELSE UNCHANGED cache
    /\ Seen(IF by = "console" THEN cache ELSE None).executable[benchmark]
    /\ call' = [pc |-> IF by = "console" THEN "qualify" ELSE "lane", by |-> by, run |-> run,
                path |-> path, benchmark |-> benchmark, touched |-> FALSE]
    /\ UNCHANGED <<catalog, models, form, preview, checked, dialog, worker, runs, files, passed,
                   edits>>

\* OperatorOperations.qualify plans the run of the file's first row.
ReadFirst(row) ==
    /\ call.pc = "qualify" /\ row \in RowsIn(call.path)
    /\ LET plan == runs[row[1]].plan
           req  == [benchmark |-> plan.benchmark, agent |-> plan.agent,
                    diagnostic |-> Label(row[1]) = "diagnostic"]
       IN  call' = IF Plannable(req, cache, models)
                   THEN [pc |-> "population", by |-> call.by, run |-> call.run,
                         path |-> call.path, benchmark |-> call.benchmark,
                         touched |-> call.touched, listed |-> models.instances,
                         first |-> plan.benchmark]
                   ELSE Idle
    /\ UNCHANGED <<catalog, models, console, worker, runs, files, passed, edits>>

\* ... and reads the file again for the population of that plan.
Population ==
    /\ call.pc = "population"
    /\ call' = IF Qualifies(call.path, Cardinality(call.listed), call.first)
               THEN [call EXCEPT !.pc = "lane"] ELSE Idle
    /\ UNCHANGED <<catalog, models, console, worker, runs, files, passed, edits>>

\* The claimed lane: one instance is enough, and every counted row must be of
\* the claimed run.
Lane ==
    /\ call.pc = "lane"
    /\ call' = IF /\ Qualifies(call.path, 1, call.benchmark)
                  /\ \A row \in RowsIn(call.path) :
                        Counts(row, call.benchmark) => row[1] = call.run
               THEN [call EXCEPT !.pc = "append"] ELSE Idle
    /\ UNCHANGED <<catalog, models, console, worker, runs, files, passed, edits>>

Append ==
    /\ call.pc = "append"
    /\ passed' = passed \cup {call}
    /\ call' = Idle
    /\ UNCHANGED <<catalog, models, console, worker, runs, files, edits>>

-----------------------------------------------------------------------------
(* People edit files *)

\* A benchmark is promoted or demoted, the agent admitted or withdrawn.
EditCatalog ==
    /\ edits < MaxEdits
    /\ \/ \E b \in Benchmarks : catalog' = [catalog EXCEPT !.executable[b] = ~@]
       \/ catalog' = [catalog EXCEPT !.admitted = ~@]
    /\ edits' = edits + 1
    /\ UNCHANGED <<models, console, worker, runs, files, call, passed>>

\* The model's binding or the instance list changes.
EditModels ==
    /\ edits < MaxEdits
    /\ \/ models' = [models EXCEPT !.configured = ~@]
       \/ \E list \in Lists \ {models.instances} : models' = [models EXCEPT !.instances = list]
    /\ worker' = IF worker.pc = "plan" THEN [worker EXCEPT !.raced = TRUE] ELSE worker
    /\ edits' = edits + 1
    /\ UNCHANGED <<catalog, console, runs, files, call, passed>>

\* The form changes under a preview or a dialog.
EditForm(req) ==
    /\ edits < MaxEdits /\ form # None /\ req # form
    /\ form' = req
    /\ edits' = edits + 1
    /\ UNCHANGED <<catalog, models, cache, preview, checked, dialog, worker, runs, files, call,
                   passed>>

\* An evidence file is overwritten with, or extended by, the rows of runs.
ReplaceEvidence(path, content) ==
    /\ edits < MaxEdits /\ runs[path] # None /\ content # files[path]
    /\ \A r \in content : runs[r] # None
    /\ files' = [files EXCEPT ![path] = content]
    /\ call' = IF call.pc # "idle" /\ call.path = path
               THEN [call EXCEPT !.touched = TRUE] ELSE call
    /\ edits' = edits + 1
    /\ UNCHANGED <<catalog, models, console, worker, runs, passed>>

-----------------------------------------------------------------------------
(* The specification *)

Init ==
    /\ catalog = [executable |-> [b \in Benchmarks |-> TRUE], admitted |-> FALSE]
    /\ models \in [configured : BOOLEAN, instances : {UNION Lists}]
    /\ cache = None /\ form = None /\ preview = None /\ checked = None /\ dialog = None
    /\ worker = Idle
    /\ runs = [r \in RunIds |-> None]
    /\ files = [r \in RunIds |-> {}]
    /\ call = Idle /\ passed = {}
    /\ edits = 0

Next ==
    \/ \E req \in Requests : FillForm(req) \/ EditForm(req)
    \/ BuildPlan \/ (\E ok \in BOOLEAN : Preflight(ok)) \/ OpenDialog
    \/ Launch \/ Back \/ LeavePage \/ Restart
    \/ Replan \/ PlanAgain
    \/ \E r \in RunIds : Execute(r) \/ \E req \in Requests : RunCommand(r, req)
    \/ \E by \in {"console", "cli"}, run, path \in RunIds, b \in Benchmarks :
          Register(by, run, path, b)
    \/ call.pc = "qualify" /\ \E row \in RowsIn(call.path) : ReadFirst(row)
    \/ Population \/ Lane \/ Append
    \/ EditCatalog \/ EditModels
    \/ \E path \in RunIds, content \in (SUBSET RunIds) \ {{}} : ReplaceEvidence(path, content)

Spec == Init /\ [][Next]_vars

-----------------------------------------------------------------------------
(* Properties *)

\* What the console charges is what the operator confirmed: whatever was edited
\* between the preview, the preflight, the dialog and the worker, in the form or
\* in a file, the run executes the request that was shown, and the plan that was
\* shown unless a file without a cache changed between the worker's two plans.
LaunchedAsConfirmed ==
    \A r \in RunIds :
        runs[r] # None /\ runs[r].by = "console" =>
            /\ runs[r].request = runs[r].shown.request
            /\ runs[r].raced \/ runs[r].plan = runs[r].shown.plan

\* `passed` is earned by the run it names: an ordinary run of that benchmark, by
\* an admitted agent on an upstream binding when it was planned, with a scored
\* instance, however the catalogs were promoted or demoted since.  Registered
\* from the console on a file nobody replaced meanwhile, and while the slice
\* lists what the run planned, all of the plan's instances were scored.
PassedIsEarned ==
    \A e \in passed :
        LET r == runs[e.run] IN
        /\ r # None
        /\ ~r.plan.diagnostic /\ r.plan.validity # "diagnostic_only"
        /\ r.plan.benchmark = e.benchmark
        /\ r.scored # {}
        /\ e.by = "console" =>
              e.touched \/ e.listed # r.plan.instances \/ r.scored = r.plan.instances

=============================================================================

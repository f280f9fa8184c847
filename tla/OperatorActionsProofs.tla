------------------------ MODULE OperatorActionsProofs ------------------------
(***************************************************************************)
(* Proofs about OperatorActions (src/bencheval/application/operations.py,  *)
(* ui/pages.py, cli.py and live_proof.py), for any requests a form may     *)
(* make, any lists a slice may have, any run ids and any number of edits.  *)
(* PageInv and WorkerInv follow a plan from the preview to its execution;  *)
(* RunInv says what every run keeps of that, CallInv what each step of a   *)
(* registration has established about the file and the run it names.       *)
(***************************************************************************)
EXTENDS OperatorActions, FiniteSetTheorems, TLAPS

Outputs    == {req.output : req \in Requests}
Instances  == UNION Lists
Catalogs   == [executable : [Benchmarks -> BOOLEAN], admitted : BOOLEAN]
ModelFiles == [configured : BOOLEAN, instances : SUBSET Instances]

Plans ==
    [benchmark : Benchmarks, agent : BOOLEAN, diagnostic : BOOLEAN,
     binding : {"configured", "upstream", "runtime"}, instances : SUBSET Instances,
     validity : {"diagnostic_only", "adapter_smoke"}]

Previews == [is : {"preview"}, request : Requests, plan : Plans]

Replanning == [pc : {"replan"}, request : Requests, shown : Previews,
               expected : [plan : Plans, output : Outputs]]
Planning   == [pc : {"plan"}, request : Requests, shown : Previews, cache : Catalogs,
               raced : BOOLEAN]
Executing  == [pc : {"execute"}, request : Requests, shown : Previews, cache : Catalogs,
               raced : BOOLEAN, plan : Plans]

ConsoleRuns == [is : {"run"}, by : {"console"}, plan : Plans, request : Requests,
                shown : Previews, raced : BOOLEAN, scored : SUBSET Instances]
CommandRuns == [is : {"run"}, by : {"cli"}, plan : Plans, scored : SUBSET Instances]

\* A registration before and after it has planned the run of the first row.
Claims   == [pc : {"qualify", "lane", "append"}, by : {"console", "cli"}, run : RunIds,
             path : RunIds, benchmark : Benchmarks, touched : BOOLEAN]
Measured == [pc : {"population", "lane", "append"}, by : {"console", "cli"}, run : RunIds,
             path : RunIds, benchmark : Benchmarks, touched : BOOLEAN,
             listed : SUBSET Instances, first : Benchmarks]

FileInv == catalog \in Catalogs /\ models \in ModelFiles /\ cache \in Catalogs \cup {None}

\* A plan is a plan of that request.
PlanFor(req, plan) ==
    plan.benchmark = req.benchmark /\ plan.agent = req.agent /\ plan.diagnostic = req.diagnostic

\* An ordinary plan is never a diagnostic one in disguise.
Honest(plan) == ~plan.diagnostic => plan.validity # "diagnostic_only"

PageInv ==
    /\ form \in Requests \cup {None}
    /\ preview \in Previews \cup {None}
    /\ preview # None => form \in Requests /\ PlanFor(preview.request, preview.plan)
    /\ dialog \in {None, preview}

WorkerInv ==
    /\ worker.pc \in {"idle", "replan", "plan", "execute"}
    /\ worker.pc = "replan" =>
          /\ worker \in Replanning
          /\ worker.expected = Fingerprint(worker.shown.request, worker.shown.plan)
          /\ PlanFor(worker.shown.request, worker.shown.plan)
    /\ worker.pc = "plan" =>
          /\ worker \in Planning
          /\ worker.request = worker.shown.request
          /\ worker.raced \/ PlanOf(worker.request, worker.cache, models) = worker.shown.plan
    /\ worker.pc = "execute" =>
          /\ worker \in Executing
          /\ worker.request = worker.shown.request
          /\ worker.raced \/ worker.plan = worker.shown.plan
          /\ Honest(worker.plan)

\* What a run keeps of how it came about.
RunFacts(run) ==
    /\ run \in ConsoleRuns \cup CommandRuns
    /\ Honest(run.plan)
    /\ run.scored \subseteq run.plan.instances
    /\ run.by = "console" =>
          run.request = run.shown.request /\ (run.raced \/ run.plan = run.shown.plan)

RunInv ==
    /\ runs \in [RunIds -> ConsoleRuns \cup CommandRuns \cup {None}]
    /\ \A r \in RunIds : runs[r] # None => RunFacts(runs[r])
    /\ files \in [RunIds -> SUBSET RunIds]
    /\ \A p \in RunIds : \A r \in files[p] : runs[r] # None

\* What PassedIsEarned says of one event, of the run it names.
EarnedBy(r, e) ==
    /\ r # None
    /\ ~r.plan.diagnostic /\ r.plan.validity # "diagnostic_only"
    /\ r.plan.benchmark = e.benchmark
    /\ r.scored # {}
    /\ e.by = "console" =>
          e.touched \/ e.listed # r.plan.instances \/ r.scored = r.plan.instances

Earned(e) == EarnedBy(runs[e.run], e)

\* The population that was looked up was found in the file.
Found == Qualifies(call.path, Cardinality(call.listed), call.first)

CallInv ==
    /\ call.pc \in {"idle", "qualify", "population", "lane", "append"}
    /\ call.pc # "idle" =>
          /\ call \in IF call.pc = "qualify" \/ call.by = "cli" THEN Claims ELSE Measured
          /\ call.pc \in {"qualify", "population"} => call.by = "console"
          /\ runs[call.run] # None /\ runs[call.path] # None
    /\ call.pc \in {"lane", "append"} /\ call.by = "console" =>
          call.touched \/ Found
    /\ call.pc = "append" => Earned(call)
    /\ \A e \in passed : e.run \in RunIds /\ Earned(e)

OperatorInv == FileInv /\ PageInv /\ WorkerInv /\ RunInv /\ CallInv
-----------------------------------------------------------------------------
(* Records *)

LEMMA NoneIsNoForm == None \notin Requests
<1> SUFFICES ASSUME None \in Requests PROVE FALSE
  OBVIOUS
<1>1. DOMAIN None = {"is"}
  BY DEF None
<1>2. None \in [benchmark : Benchmarks, agent : BOOLEAN, diagnostic : BOOLEAN, output : Outputs]
  BY RequestsAreForms DEF Outputs
<1>3. DOMAIN None = {"benchmark", "agent", "diagnostic", "output"}
  BY <1>2
<1> QED
  BY <1>1, <1>3

LEMMA NoneIsNothing ==
    /\ None \notin Previews /\ None \notin ConsoleRuns /\ None \notin CommandRuns
BY DEF None, Previews, ConsoleRuns, CommandRuns

\* Two forms that ask for the same things are the same form.
LEMMA FormsAgree ==
    ASSUME NEW p \in Requests, NEW q \in Requests,
           p.benchmark = q.benchmark, p.agent = q.agent, p.diagnostic = q.diagnostic,
           p.output = q.output
    PROVE  p = q
BY RequestsAreForms

LEMMA FormTypes ==
    ASSUME NEW req \in Requests
    PROVE  /\ req.benchmark \in Benchmarks /\ req.agent \in BOOLEAN
           /\ req.diagnostic \in BOOLEAN /\ req.output \in Outputs
BY RequestsAreForms DEF Outputs

\* A plan of a request, and what it says of it.
LEMMA PlanTypes ==
    ASSUME NEW req \in Requests, NEW cat, NEW mod \in ModelFiles
    PROVE  /\ PlanOf(req, cat, mod) \in Plans
           /\ PlanFor(req, PlanOf(req, cat, mod))
           /\ Plannable(req, cat, mod) => Honest(PlanOf(req, cat, mod))
<1> DEFINE plan == PlanOf(req, cat, mod)
<1>1. plan.benchmark = req.benchmark /\ plan.agent = req.agent /\ plan.diagnostic = req.diagnostic
  BY DEF PlanOf
<1>2. plan \in Plans
  BY FormTypes DEF PlanOf, Plans, ModelFiles
<1>3. plan.validity = "diagnostic_only" => DraftAgent(req, cat) \/ Configured(req, mod)
  BY DEF PlanOf
<1>4. Plannable(req, cat, mod) => Honest(plan)
  BY <1>1, <1>3 DEF Plannable, Launchable, DraftAgent, Honest
<1> QED
  BY <1>1, <1>2, <1>4 DEF PlanFor

\* A fingerprint identifies the request as well as the plan.
LEMMA PrintsAgree ==
    ASSUME NEW p \in Requests, NEW q \in Requests, NEW plan, NEW other,
           PlanFor(p, plan), PlanFor(q, other), Fingerprint(p, plan) = Fingerprint(q, other)
    PROVE  p = q /\ plan = other
<1>1. plan = other /\ p.output = q.output
  BY DEF Fingerprint
<1> QED
  BY <1>1, FormsAgree DEF PlanFor
-----------------------------------------------------------------------------
(* Files and pages *)

LEMMA FileInit == Init => FileInv
BY DEF Init, FileInv, Catalogs, ModelFiles, Instances

LEMMA FileStep == FileInv /\ [Next]_vars => FileInv'
<1> SUFFICES ASSUME FileInv, [Next]_vars PROVE FileInv'
  OBVIOUS
<1> USE DEF console
<1>1. CASE UNCHANGED <<catalog, models>> /\ cache' \in {cache, Seen(cache), None}
  BY <1>1 DEF FileInv, Seen
<1>2. CASE EditCatalog
  <2>1. PICK b \in Benchmarks :
           catalog' \in {[catalog EXCEPT !.executable[b] = ~@], [catalog EXCEPT !.admitted = ~@]}
    BY <1>2 DEF EditCatalog, Benchmarks
  <2>2. catalog.executable[b] \in BOOLEAN /\ catalog.admitted \in BOOLEAN
        /\ catalog \in [executable : [Benchmarks -> BOOLEAN], admitted : BOOLEAN]
    BY DEF FileInv, Catalogs
  <2>3. [catalog EXCEPT !.executable[b] = ~@] \in Catalogs
    BY <2>2 DEF Catalogs
  <2>4. [catalog EXCEPT !.admitted = ~@] \in Catalogs
    BY <2>2 DEF Catalogs
  <2>5. catalog' \in Catalogs
    BY <2>1, <2>3, <2>4
  <2> QED
    BY <1>2, <2>5 DEF EditCatalog, FileInv
<1>3. CASE EditModels
  <2>1. models \in [configured : BOOLEAN, instances : SUBSET Instances]
    BY DEF FileInv, ModelFiles
  <2>2. models' = [models EXCEPT !.configured = ~@]
        \/ \E list \in Lists : models' = [models EXCEPT !.instances = list]
    BY <1>3 DEF EditModels
  <2>3. \A list \in Lists : list \subseteq Instances
    BY DEF Instances
  <2>4. models' \in [configured : BOOLEAN, instances : SUBSET Instances]
    BY <2>1, <2>2, <2>3
  <2> QED
    BY <1>3, <2>4 DEF EditModels, FileInv, ModelFiles
<1>4. ASSUME NEW req \in Requests, FillForm(req) \/ EditForm(req) PROVE FileInv'
  BY <1>1, <1>4 DEF FillForm, EditForm
<1>5. CASE BuildPlan \/ \E ok \in BOOLEAN : Preflight(ok)
  BY <1>1, <1>5 DEF BuildPlan, Preflight, Loads
<1>6. CASE OpenDialog \/ Launch \/ Back \/ LeavePage \/ Restart
  BY <1>1, <1>6 DEF OpenDialog, Launch, Back, LeavePage, Restart
<1>7. CASE Replan \/ PlanAgain
  BY <1>1, <1>7 DEF Replan, PlanAgain
<1>8. ASSUME NEW r \in RunIds, Execute(r) PROVE FileInv'
  BY <1>1, <1>8 DEF Execute
<1>9. ASSUME NEW r \in RunIds, NEW req \in Requests, RunCommand(r, req) PROVE FileInv'
  BY <1>1, <1>9 DEF RunCommand
<1>10. ASSUME NEW by \in {"console", "cli"}, NEW run \in RunIds, NEW path \in RunIds,
              NEW b \in Benchmarks, Register(by, run, path, b)
       PROVE  FileInv'
  BY <1>1, <1>10 DEF Register, Loads
<1>11. ASSUME NEW row \in RowsIn(call.path), ReadFirst(row) PROVE FileInv'
  BY <1>1, <1>11 DEF ReadFirst
<1>12. CASE Population \/ Lane \/ Append
  BY <1>1, <1>12 DEF Population, Lane, Append
<1>13. ASSUME NEW path \in RunIds, NEW content, ReplaceEvidence(path, content) PROVE FileInv'
  BY <1>1, <1>13 DEF ReplaceEvidence
<1>14. CASE UNCHANGED vars
  BY <1>1, <1>14 DEF vars
<1> QED
  BY <1>2, <1>3, <1>4, <1>5, <1>6, <1>7, <1>8, <1>9, <1>10, <1>11, <1>12, <1>13, <1>14 DEF Next

LEMMA PageInit == Init => PageInv
BY NoneIsNoForm DEF Init, PageInv

LEMMA PageStep == FileInv /\ PageInv /\ [Next]_vars => PageInv'
<1> SUFFICES ASSUME FileInv, PageInv, [Next]_vars PROVE PageInv'
  OBVIOUS
<1> USE DEF console
<1>1. CASE UNCHANGED <<form, preview, dialog>>
  BY <1>1 DEF PageInv
<1>2. ASSUME NEW req \in Requests, FillForm(req) PROVE PageInv'
  BY <1>2, NoneIsNoForm DEF FillForm, Quiet, PageInv
<1>3. ASSUME NEW req \in Requests, EditForm(req) PROVE PageInv'
  BY <1>3 DEF EditForm, PageInv
<1>4. CASE BuildPlan
  <2>1. form \in Requests /\ dialog' = None /\ form' = form
    BY <1>4 DEF BuildPlan, PageInv
  <2>2. CASE preview' = None
    BY <2>1, <2>2 DEF PageInv
  <2>3. CASE preview' = [is |-> "preview", request |-> form, plan |-> PlanOf(form, Seen(cache), models)]
    <3>1. /\ PlanOf(form, Seen(cache), models) \in Plans
          /\ PlanFor(form, PlanOf(form, Seen(cache), models))
      BY <2>1, PlanTypes DEF FileInv
    <3> QED
      BY <2>1, <2>3, <3>1 DEF PageInv, Previews
  <2> QED
    BY <1>4, <2>2, <2>3 DEF BuildPlan
<1>5. CASE (\E ok \in BOOLEAN : Preflight(ok)) \/ Restart
  BY <1>1, <1>5 DEF Preflight, Restart
<1>6. CASE OpenDialog \/ Back
  BY <1>6 DEF OpenDialog, Back, PageInv
<1>7. CASE Launch \/ LeavePage
  BY <1>7 DEF Launch, LeavePage, PageInv
<1>8. CASE Replan \/ PlanAgain
  BY <1>1, <1>8 DEF Replan, PlanAgain
<1>9. ASSUME NEW r \in RunIds, Execute(r) PROVE PageInv'
  BY <1>1, <1>9 DEF Execute
<1>10. ASSUME NEW r \in RunIds, NEW req \in Requests, RunCommand(r, req) PROVE PageInv'
  BY <1>1, <1>10 DEF RunCommand
<1>11. ASSUME NEW by \in {"console", "cli"}, NEW run \in RunIds, NEW path \in RunIds,
              NEW b \in Benchmarks, Register(by, run, path, b)
       PROVE  PageInv'
  BY <1>1, <1>11 DEF Register
<1>12. ASSUME NEW row \in RowsIn(call.path), ReadFirst(row) PROVE PageInv'
  BY <1>1, <1>12 DEF ReadFirst
<1>13. CASE Population \/ Lane \/ Append \/ EditCatalog \/ EditModels
  BY <1>1, <1>13 DEF Population, Lane, Append, EditCatalog, EditModels
<1>14. ASSUME NEW path \in RunIds, NEW content, ReplaceEvidence(path, content) PROVE PageInv'
  BY <1>1, <1>14 DEF ReplaceEvidence
<1>15. CASE UNCHANGED vars
  BY <1>1, <1>15 DEF vars
<1> QED
  BY <1>2, <1>3, <1>4, <1>5, <1>6, <1>7, <1>8, <1>9, <1>10, <1>11, <1>12, <1>13, <1>14, <1>15
     DEF Next
-----------------------------------------------------------------------------
(* The worker *)

LEMMA WorkerInit == Init => WorkerInv
BY DEF Init, WorkerInv, Idle

LEMMA WorkerStep == FileInv /\ PageInv /\ WorkerInv /\ [Next]_vars => WorkerInv'
<1> SUFFICES ASSUME FileInv, PageInv, WorkerInv, [Next]_vars PROVE WorkerInv'
  OBVIOUS
<1> USE DEF console
<1>0. worker' = Idle => WorkerInv'
  BY DEF WorkerInv, Idle
<1>1. CASE UNCHANGED <<models, worker>>
  BY <1>1 DEF WorkerInv
<1>2. CASE Launch
  <2> DEFINE w == [pc |-> "replan", request |-> form, shown |-> dialog,
                   expected |-> Fingerprint(preview.request, preview.plan)]
  <2>1. dialog = preview /\ preview \in Previews /\ form \in Requests
        /\ PlanFor(preview.request, preview.plan)
    BY <1>2 DEF Launch, PageInv
  <2>2. preview.request \in Requests /\ preview.plan \in Plans
    BY <2>1 DEF Previews
  <2>3. Fingerprint(preview.request, preview.plan) \in [plan : Plans, output : Outputs]
    BY <2>2 DEF Fingerprint, Outputs
  <2>4. worker' = w
    BY <1>2 DEF Launch
  <2>5. w \in Replanning /\ w.pc = "replan" /\ w.expected = Fingerprint(w.shown.request, w.shown.plan)
        /\ PlanFor(w.shown.request, w.shown.plan)
    BY <2>1, <2>3 DEF Replanning
  <2> HIDE DEF w
  <2> QED
    BY <2>4, <2>5 DEF WorkerInv
<1>3. CASE Replan
  <2>1. /\ worker \in Replanning /\ models' = models
        /\ worker.expected = Fingerprint(worker.shown.request, worker.shown.plan)
        /\ PlanFor(worker.shown.request, worker.shown.plan)
    BY <1>3 DEF Replan, WorkerInv
  <2> DEFINE plan == PlanOf(worker.request, catalog, models)
             w    == [pc |-> "plan", request |-> worker.request, shown |-> worker.shown,
                      cache |-> catalog, raced |-> FALSE]
  <2>2. CASE worker' = w /\ worker.expected = Fingerprint(worker.request, plan)
    <3>1. worker.request \in Requests /\ worker.shown \in Previews /\ worker.shown.request \in Requests
      BY <2>1 DEF Replanning, Previews
    <3>2. PlanFor(worker.request, plan)
      BY <3>1, PlanTypes DEF FileInv
    <3>a. Fingerprint(worker.request, plan) = Fingerprint(worker.shown.request, worker.shown.plan)
      BY <2>1, <2>2
    <3>b. PlanFor(worker.shown.request, worker.shown.plan)
      BY <2>1
    <3> HIDE DEF plan
    <3>3. worker.request = worker.shown.request /\ plan = worker.shown.plan
      BY <3>1, <3>2, <3>a, <3>b, PrintsAgree
    <3> USE DEF plan
    <3>4. w \in Planning /\ w.pc = "plan" /\ w.request = w.shown.request
      BY <3>1, <3>3 DEF Planning, FileInv
    <3>5. PlanOf(w.request, w.cache, models') = w.shown.plan
      BY <2>1, <3>3
    <3>6. worker' = w
      BY <2>2
    <3> HIDE DEF w
    <3>7. PlanOf(worker'.request, worker'.cache, models') = worker'.shown.plan
      BY <3>5, <3>6
    <3> QED
      BY <3>4, <3>6, <3>7 DEF WorkerInv
  <2> QED
    BY <1>0, <1>3, <2>2 DEF Replan
<1>4. CASE PlanAgain
  <2>1. /\ worker \in Planning /\ worker.request = worker.shown.request
        /\ worker.raced \/ PlanOf(worker.request, worker.cache, models) = worker.shown.plan
    BY <1>4 DEF PlanAgain, WorkerInv
  <2> DEFINE plan == PlanOf(worker.request, worker.cache, models)
             w    == [pc |-> "execute", request |-> worker.request, shown |-> worker.shown,
                      cache |-> worker.cache, raced |-> worker.raced, plan |-> plan]
  <2>2. CASE worker' = w /\ Plannable(worker.request, worker.cache, models)
    <3>1. plan \in Plans /\ Honest(plan)
      BY <2>1, <2>2, PlanTypes DEF FileInv, Planning
    <3> HIDE DEF plan
    <3>2. w \in Executing /\ w.pc = "execute" /\ w.request = w.shown.request
          /\ (w.raced \/ w.plan = w.shown.plan) /\ Honest(w.plan)
      BY <2>1, <3>1 DEF Executing, Planning, plan
    <3> HIDE DEF w
    <3> QED
      BY <2>2, <3>2 DEF WorkerInv
  <2> QED
    BY <1>0, <1>4, <2>2 DEF PlanAgain
<1>5. CASE EditModels
  <2>1. CASE worker.pc = "plan"
    <3>1. worker \in Planning /\ worker.request = worker.shown.request
      BY <2>1 DEF WorkerInv
    <3>2. worker' = [worker EXCEPT !.raced = TRUE]
      BY <1>5, <2>1 DEF EditModels
    <3>3. worker' \in Planning /\ worker'.request = worker'.shown.request /\ worker'.raced
          /\ worker'.pc = "plan"
      BY <3>1, <3>2 DEF Planning
    <3> QED
      BY <3>3 DEF WorkerInv
  <2>2. CASE worker.pc # "plan"
    <3>1. worker' = worker
      BY <1>5, <2>2 DEF EditModels
    <3> QED
      BY <2>2, <3>1 DEF WorkerInv
  <2> QED
    BY <2>1, <2>2
<1>6. ASSUME NEW req \in Requests, FillForm(req) \/ EditForm(req) PROVE WorkerInv'
  BY <1>1, <1>6 DEF FillForm, EditForm
<1>7. CASE BuildPlan \/ \E ok \in BOOLEAN : Preflight(ok)
  BY <1>1, <1>7 DEF BuildPlan, Preflight
<1>8. CASE OpenDialog \/ Back \/ LeavePage \/ Restart
  BY <1>1, <1>8 DEF OpenDialog, Back, LeavePage, Restart
<1>9. ASSUME NEW r \in RunIds, Execute(r) PROVE WorkerInv'
  BY <1>0, <1>9 DEF Execute
<1>10. ASSUME NEW r \in RunIds, NEW req \in Requests, RunCommand(r, req) PROVE WorkerInv'
  BY <1>1, <1>10 DEF RunCommand
<1>11. ASSUME NEW by \in {"console", "cli"}, NEW run \in RunIds, NEW path \in RunIds,
              NEW b \in Benchmarks, Register(by, run, path, b)
       PROVE  WorkerInv'
  BY <1>1, <1>11 DEF Register
<1>12. ASSUME NEW row \in RowsIn(call.path), ReadFirst(row) PROVE WorkerInv'
  BY <1>1, <1>12 DEF ReadFirst
<1>13. CASE Population \/ Lane \/ Append \/ EditCatalog
  BY <1>1, <1>13 DEF Population, Lane, Append, EditCatalog
<1>14. ASSUME NEW path \in RunIds, NEW content, ReplaceEvidence(path, content) PROVE WorkerInv'
  BY <1>1, <1>14 DEF ReplaceEvidence
<1>15. CASE UNCHANGED vars
  BY <1>1, <1>15 DEF vars
<1> QED
  BY <1>2, <1>3, <1>4, <1>5, <1>6, <1>7, <1>8, <1>9, <1>10, <1>11, <1>12, <1>13, <1>14, <1>15
     DEF Next
-----------------------------------------------------------------------------
(* Runs and the evidence they leave *)

LEMMA RunInit == Init => RunInv
BY DEF Init, RunInv

\* A run that is executed is kept as it was.
LEMMA Stored ==
    ASSUME RunInv, NEW r \in RunIds, NEW run, Store(r, run), RunFacts(run)
    PROVE  /\ RunInv'
           /\ \A q \in RunIds : runs[q] # None => runs'[q] = runs[q] /\ files'[q] = files[q]
<1>1. run # None /\ run \in ConsoleRuns \cup CommandRuns
  BY NoneIsNothing DEF RunFacts
<1>2. /\ runs[r] = None
      /\ runs' = [runs EXCEPT ![r] = run] /\ files' = [files EXCEPT ![r] = {r}]
  BY DEF Store, Unused
<1>3. /\ runs' \in [RunIds -> ConsoleRuns \cup CommandRuns \cup {None}]
      /\ files' \in [RunIds -> SUBSET RunIds]
      /\ runs'[r] = run /\ files'[r] = {r}
      /\ \A q \in RunIds \ {r} : runs'[q] = runs[q] /\ files'[q] = files[q]
  BY <1>1, <1>2 DEF RunInv
<1>4. \A q \in RunIds : runs[q] # None => runs'[q] = runs[q] /\ files'[q] = files[q]
  BY <1>2, <1>3
<1>5. \A q \in RunIds : runs'[q] # None => RunFacts(runs'[q])
  BY <1>3 DEF RunInv
<1>6. \A p \in RunIds : \A q \in files'[p] : runs'[q] # None
  BY <1>1, <1>3 DEF RunInv
<1> QED
  BY <1>3, <1>4, <1>5, <1>6 DEF RunInv

\* A run, once executed, stays, and so does its evidence unless it is replaced.
LEMMA RunStep ==
    ASSUME FileInv, WorkerInv, RunInv, [Next]_vars
    PROVE  /\ RunInv'
           /\ \A q \in RunIds : runs[q] # None => runs'[q] = runs[q]
<1> USE DEF console
<1> DEFINE Goal == RunInv' /\ \A q \in RunIds : runs[q] # None => runs'[q] = runs[q]
<1>1. ASSUME UNCHANGED <<runs, files>> PROVE Goal
  BY <1>1 DEF RunInv
<1>2. ASSUME NEW r \in RunIds, Execute(r) PROVE Goal
  <2>1. ASSUME NEW scored \in SUBSET worker.plan.instances,
               Store(r, [is |-> "run", by |-> "console", plan |-> worker.plan,
                         request |-> worker.request, shown |-> worker.shown,
                         raced |-> worker.raced, scored |-> scored])
        PROVE  Goal
    <3> DEFINE run == [is |-> "run", by |-> "console", plan |-> worker.plan,
                       request |-> worker.request, shown |-> worker.shown,
                       raced |-> worker.raced, scored |-> scored]
    <3>1. /\ worker \in Executing /\ worker.request = worker.shown.request
          /\ worker.raced \/ worker.plan = worker.shown.plan
          /\ Honest(worker.plan)
      BY <1>2 DEF Execute, WorkerInv
    <3>2. /\ worker.plan \in Plans /\ worker.request \in Requests /\ worker.shown \in Previews
          /\ worker.raced \in BOOLEAN
      BY <3>1 DEF Executing
    <3>3. scored \subseteq Instances
      BY <2>1, <3>2 DEF Plans
    <3>4. run \in ConsoleRuns
      BY <3>2, <3>3 DEF ConsoleRuns
    <3>5. RunFacts(run)
      BY <2>1, <3>1, <3>4 DEF RunFacts
    <3> QED
      BY <2>1, <3>5, Stored
  <2> QED
    BY <1>1, <1>2, <2>1 DEF Execute
<1>3. ASSUME NEW r \in RunIds, NEW req \in Requests, RunCommand(r, req) PROVE Goal
  <2> DEFINE plan == PlanOf(req, catalog, models)
  <2>1. PICK scored \in SUBSET plan.instances :
           Store(r, [is |-> "run", by |-> "cli", plan |-> plan, scored |-> scored])
    BY <1>3 DEF RunCommand
  <2>2. plan \in Plans /\ Honest(plan)
    BY <1>3, PlanTypes DEF RunCommand, Resolves, FileInv
  <2> HIDE DEF plan
  <2> DEFINE run == [is |-> "run", by |-> "cli", plan |-> plan, scored |-> scored]
  <2>3. run \in CommandRuns
    BY <2>1, <2>2 DEF CommandRuns, Plans
  <2>4. RunFacts(run)
    BY <2>1, <2>2, <2>3 DEF RunFacts
  <2> QED
    BY <2>1, <2>4, Stored
<1>4. ASSUME NEW path \in RunIds, NEW content \in SUBSET RunIds, ReplaceEvidence(path, content)
      PROVE  Goal
  BY <1>4 DEF ReplaceEvidence, RunInv
<1>5. ASSUME NEW req \in Requests, FillForm(req) \/ EditForm(req) PROVE Goal
  BY <1>1, <1>5 DEF FillForm, EditForm
<1>6. ASSUME BuildPlan \/ \E ok \in BOOLEAN : Preflight(ok) PROVE Goal
  BY <1>1, <1>6 DEF BuildPlan, Preflight
<1>7. ASSUME OpenDialog \/ Launch \/ Back \/ LeavePage \/ Restart PROVE Goal
  BY <1>1, <1>7 DEF OpenDialog, Launch, Back, LeavePage, Restart
<1>8. ASSUME Replan \/ PlanAgain PROVE Goal
  BY <1>1, <1>8 DEF Replan, PlanAgain
<1>9. ASSUME NEW by \in {"console", "cli"}, NEW run \in RunIds, NEW path \in RunIds,
             NEW b \in Benchmarks, Register(by, run, path, b)
      PROVE  Goal
  BY <1>1, <1>9 DEF Register
<1>10. ASSUME NEW row \in RowsIn(call.path), ReadFirst(row) PROVE Goal
  BY <1>1, <1>10 DEF ReadFirst
<1>11. ASSUME Population \/ Lane \/ Append \/ EditCatalog \/ EditModels PROVE Goal
  BY <1>1, <1>11 DEF Population, Lane, Append, EditCatalog, EditModels
<1>12. ASSUME UNCHANGED vars PROVE Goal
  BY <1>1, <1>12 DEF vars
<1> QED
  BY <1>2, <1>3, <1>4, <1>5, <1>6, <1>7, <1>8, <1>9, <1>10, <1>11, <1>12 DEF Next
-----------------------------------------------------------------------------
(* Registrations *)

LEMMA CallInit == Init => CallInv
BY DEF Init, CallInv, Idle

LEMMA InstancesAreFinite == \A s \in SUBSET Instances : IsFiniteSet(s)
BY ListsAreSlices, FS_Subset DEF Instances

\* What counts for a registration is still there as long as the file is.
LEMMA StillQualifies ==
    ASSUME RunInv, \A q \in RunIds : runs[q] # None => runs'[q] = runs[q],
           NEW path \in RunIds, files'[path] = files[path], NEW n, NEW b,
           Qualifies(path, n, b)
    PROVE  Qualifies(path, n, b)'
<1>1. \A r \in files[path] : r \in RunIds /\ runs'[r] = runs[r]
  BY DEF RunInv
<1>2. RowsIn(path)' = RowsIn(path)
  <2>1. RowsIn(path)' = {row \in files[path] \X UNION Lists : row[2] \in runs'[row[1]].plan.instances}
    BY DEF RowsIn
  <2>2. \A row \in files[path] \X UNION Lists : runs'[row[1]] = runs[row[1]]
    BY <1>1
  <2> QED
    BY <2>1, <2>2 DEF RowsIn
<1>3. \A row \in RowsIn(path) : runs'[row[1]] = runs[row[1]]
  BY <1>1 DEF RowsIn
<1> DEFINE counted == {w \in RowsIn(path) : Counts(w, b)}
<1>4. {w \in RowsIn(path)' : Counts(w, b)'} = counted
  BY <1>2, <1>3 DEF Counts, Label
<1>5. Qualifies(path, n, b)' <=>
         /\ Cardinality({row[1] : row \in RowsIn(path)'}) = 1
         /\ Cardinality({row[2] : row \in {w \in RowsIn(path)' : Counts(w, b)'}}) >= n
  BY DEF Qualifies
<1> QED
  BY <1>2, <1>4, <1>5 DEF Qualifies

\* A file whose rows that count are all of one run, with as many of them as the
\* population that was looked up, has earned that run its event.
LEMMA LaneEarns ==
    ASSUME RunInv, NEW c \in Claims \cup Measured, runs[c.run] # None, runs[c.path] # None,
           c.by = "cli" \/ c \in Measured,
           Qualifies(c.path, 1, c.benchmark),
           \A row \in RowsIn(c.path) : Counts(row, c.benchmark) => row[1] = c.run,
           c.by = "console" =>
              c.touched \/ Qualifies(c.path, Cardinality(c.listed), c.first)
    PROVE  Earned(c)
<1> DEFINE run == runs[c.run]
<1>1. c.run \in RunIds /\ c.path \in RunIds /\ RunFacts(run)
  BY DEF Claims, Measured, RunInv
<1>2. PICK row \in RowsIn(c.path) : Counts(row, c.benchmark)
  <2>1. SUFFICES ASSUME {w \in RowsIn(c.path) : Counts(w, c.benchmark)} = {} PROVE FALSE
    OBVIOUS
  <2>2. {w[2] : w \in {v \in RowsIn(c.path) : Counts(v, c.benchmark)}} = {}
    BY <2>1
  <2>3. Cardinality({w[2] : w \in {v \in RowsIn(c.path) : Counts(v, c.benchmark)}}) >= 1
    BY DEF Qualifies
  <2> QED
    BY <2>2, <2>3, FS_EmptySet
<1>3. row[1] = c.run /\ row[2] \in run.scored /\ run.plan.benchmark = c.benchmark
      /\ Label(c.run) # "diagnostic"
  BY <1>2 DEF Counts
<1>4. ~run.plan.diagnostic
  BY <1>3 DEF Label
<1>5. run.plan.validity # "diagnostic_only"
  BY <1>1, <1>4 DEF RunFacts, Honest
<1>6. ASSUME c.by = "console", ~c.touched, c.listed = run.plan.instances
      PROVE  run.scored = run.plan.instances
  <2> DEFINE rows    == RowsIn(c.path)
             named   == {w[1] : w \in rows}
             counted == {w[2] : w \in {v \in rows : Counts(v, c.first)}}
  <2>1. Cardinality(named) = 1 /\ Cardinality(counted) >= Cardinality(c.listed)
    BY <1>6 DEF Qualifies
  <2>2. named \subseteq RunIds
    BY <1>1 DEF RowsIn, RunInv
  <2>3. IsFiniteSet(named)
    BY <2>2, RunIdsAreFinite, FS_Subset
  <2>4. PICK r : named = {r}
    BY <2>1, <2>3, FS_Singleton
  <2>5. \A w \in rows : w[1] = c.run
    BY <1>2, <1>3, <2>4
  <2>6. counted \subseteq run.scored /\ run.scored \subseteq run.plan.instances
    BY <1>1, <2>5 DEF Counts, RunFacts
  <2>7. IsFiniteSet(run.plan.instances)
    <3>1. run.plan.instances \in SUBSET Instances
      BY <1>1 DEF RunFacts, ConsoleRuns, CommandRuns, Plans
    <3> QED
      BY <3>1, InstancesAreFinite
  <2> HIDE DEF counted, named, rows, run
  <2>8. counted \subseteq run.plan.instances
    BY <2>6
  <2>9. counted = run.plan.instances
    <3>1. /\ IsFiniteSet(counted) /\ Cardinality(counted) <= Cardinality(run.plan.instances)
          /\ Cardinality(counted) = Cardinality(run.plan.instances) => counted = run.plan.instances
      BY <2>7, <2>8, FS_Subset
    <3>2. Cardinality(counted) \in Nat /\ Cardinality(run.plan.instances) \in Nat
      BY <2>7, <3>1, FS_CardinalityType
    <3>3. Cardinality(counted) >= Cardinality(run.plan.instances)
      BY <1>6, <2>1 DEF run
    <3> QED
      BY <3>1, <3>2, <3>3
  <2> QED
    BY <2>6, <2>9 DEF run
<1> QED
  BY <1>3, <1>4, <1>5, <1>6 DEF Earned, EarnedBy

\* A step that leaves a registration and its file alone.
LEMMA CallKept ==
    ASSUME RunInv, CallInv, \A q \in RunIds : runs[q] # None => runs'[q] = runs[q],
           UNCHANGED <<call, passed>>, call.pc # "idle" => files'[call.path] = files[call.path]
    PROVE  CallInv'
<1>1. \A e \in passed' : e.run \in RunIds /\ Earned(e)'
  BY NoneIsNothing DEF CallInv, Earned, EarnedBy
<1>2. CASE call.pc = "idle"
  BY <1>1, <1>2 DEF CallInv
<1>3. CASE call.pc # "idle"
  <2>1. call.run \in RunIds /\ call.path \in RunIds
    BY <1>3 DEF CallInv, Claims, Measured
  <2>2. runs'[call.run] = runs[call.run] /\ runs'[call.path] = runs[call.path]
        /\ runs[call.run] # None /\ runs[call.path] # None
    BY <1>3, <2>1 DEF CallInv
  <2>3. ASSUME call.pc \in {"lane", "append"}, call.by = "console", ~call.touched
        PROVE  Found'
    <3>1. Qualifies(call.path, Cardinality(call.listed), call.first)
      BY <2>3 DEF CallInv, Found
    <3>2. PICK path \in RunIds, n \in {Cardinality(call.listed)}, b \in {call.first} :
             path = call.path
      BY <2>1
    <3>3. files'[path] = files[path] /\ Qualifies(path, n, b)
      BY <1>3, <3>1, <3>2
    <3>4. call'.path = path /\ Cardinality(call'.listed) = n /\ call'.first = b
      BY <3>2
    <3>5. Qualifies(path, n, b)'
      BY <3>3, StillQualifies
    <3> QED
      BY <3>4, <3>5 DEF Found, Qualifies, RowsIn, Counts, Label
  <2>4. call.pc = "append" => Earned(call)'
    BY <2>2 DEF CallInv, Earned, EarnedBy
  <2> QED
    BY <1>1, <2>2, <2>3, <2>4 DEF CallInv
<1> QED
  BY <1>2, <1>3

LEMMA CallStep ==
    ASSUME FileInv, WorkerInv, RunInv, CallInv, [Next]_vars
    PROVE  CallInv'
<1> USE DEF console
<1>0. \A q \in RunIds : runs[q] # None => runs'[q] = runs[q]
  BY RunStep
<1>a. ASSUME UNCHANGED <<call, passed>>, call.pc # "idle" => files'[call.path] = files[call.path]
      PROVE  CallInv'
  BY <1>0, <1>a, CallKept
\* The events that were earned stay earned.
<1>b. \A e \in passed : e.run \in RunIds /\ EarnedBy(runs'[e.run], e)
  BY <1>0 DEF CallInv, Earned, EarnedBy
<1>c. call' = Idle /\ passed' = passed => CallInv'
  BY <1>b DEF CallInv, Idle, Earned
<1>1. ASSUME NEW r \in RunIds, NEW run, Store(r, run), UNCHANGED <<call, passed>> PROVE CallInv'
  <2>1. call.pc # "idle" => call.path \in RunIds \ {r}
    BY <1>1 DEF CallInv, Claims, Measured, Store, Unused
  <2>2. files' = [files EXCEPT ![r] = {r}]
    BY <1>1 DEF Store
  <2>3. call.pc # "idle" => files'[call.path] = files[call.path]
    BY <2>1, <2>2 DEF RunInv
  <2> QED
    BY <1>a, <1>1, <2>3
<1>2. ASSUME NEW r \in RunIds, Execute(r) PROVE CallInv'
  BY <1>a, <1>1, <1>2 DEF Execute
<1>3. ASSUME NEW r \in RunIds, NEW req \in Requests, RunCommand(r, req) PROVE CallInv'
  BY <1>1, <1>3 DEF RunCommand
<1>4. ASSUME NEW by \in {"console", "cli"}, NEW run \in RunIds, NEW path \in RunIds,
             NEW b \in Benchmarks, Register(by, run, path, b)
      PROVE  CallInv'
  <2> DEFINE c == [pc |-> IF by = "console" THEN "qualify" ELSE "lane", by |-> by, run |-> run,
                   path |-> path, benchmark |-> b, touched |-> FALSE]
  <2>1. call' = c /\ passed' = passed /\ UNCHANGED runs /\ runs[run] # None /\ runs[path] # None
    BY <1>4 DEF Register
  <2>2. c \in Claims /\ c.by = by /\ c.run = run /\ c.path = path
        /\ c.pc = IF by = "console" THEN "qualify" ELSE "lane"
    BY DEF Claims
  <2> HIDE DEF c
  <2> QED
    BY <1>b, <2>1, <2>2 DEF CallInv, Earned
<1>5. ASSUME NEW row \in RowsIn(call.path), ReadFirst(row) PROVE CallInv'
  <2> DEFINE c == [pc |-> "population", by |-> call.by, run |-> call.run, path |-> call.path,
                   benchmark |-> call.benchmark, touched |-> call.touched,
                   listed |-> models.instances, first |-> runs[row[1]].plan.benchmark]
  <2>1. call.pc = "qualify" /\ call \in Claims /\ call.by = "console"
        /\ runs[call.run] # None /\ runs[call.path] # None
    BY <1>5 DEF ReadFirst, CallInv
  <2>2. row[1] \in files[call.path] /\ call.path \in RunIds
    BY <2>1 DEF RowsIn, Claims
  <2>3. row[1] \in RunIds /\ runs[row[1]].plan \in Plans
    <3>1. row[1] \in RunIds /\ runs[row[1]] # None
      BY <2>2 DEF RunInv
    <3>2. RunFacts(runs[row[1]])
      BY <3>1 DEF RunInv
    <3> QED
      BY <3>1, <3>2 DEF RunFacts, ConsoleRuns, CommandRuns
  <2>4. c \in Measured /\ c.pc = "population" /\ c.by = "console" /\ c.run = call.run
        /\ c.path = call.path
    BY <2>1, <2>3 DEF Claims, Measured, Plans, FileInv, ModelFiles
  <2>5. (call' = c \/ call' = Idle) /\ passed' = passed /\ UNCHANGED runs
    BY <1>5 DEF ReadFirst
  <2> HIDE DEF c
  <2>6. CASE call' = c
    BY <1>b, <2>1, <2>4, <2>5, <2>6 DEF CallInv, Earned
  <2> QED
    BY <1>c, <2>5, <2>6
<1>6. CASE Population
  <2>1. call.pc = "population" /\ call \in Measured /\ call.by = "console"
        /\ runs[call.run] # None /\ runs[call.path] # None
    BY <1>6 DEF Population, CallInv
  <2>2. UNCHANGED <<runs, files, passed>>
    BY <1>6 DEF Population
  <2>3. ASSUME Qualifies(call.path, Cardinality(call.listed), call.first),
               call' = [call EXCEPT !.pc = "lane"]
        PROVE  CallInv'
    <3>1. /\ call' \in Measured /\ call'.pc = "lane" /\ call'.by = "console"
          /\ call'.run = call.run /\ call'.path = call.path
          /\ call'.listed = call.listed /\ call'.first = call.first
      BY <2>1, <2>3 DEF Measured
    <3>2. Found'
      BY <2>2, <2>3, <3>1 DEF Found, Qualifies, RowsIn, Counts, Label
    <3> QED
      BY <1>b, <2>1, <2>2, <3>1, <3>2 DEF CallInv, Earned
  <2> QED
    BY <1>6, <1>c, <2>3 DEF Population
<1>7. CASE Lane
  <2>1. /\ call.pc = "lane" /\ runs[call.run] # None /\ runs[call.path] # None
        /\ call \in IF call.by = "cli" THEN Claims ELSE Measured
        /\ call.by = "console" => call.touched \/ Found
    BY <1>7 DEF Lane, CallInv
  <2>2. UNCHANGED <<runs, files, passed>>
    BY <1>7 DEF Lane
  <2>3. ASSUME Qualifies(call.path, 1, call.benchmark),
               \A row \in RowsIn(call.path) : Counts(row, call.benchmark) => row[1] = call.run,
               call' = [call EXCEPT !.pc = "append"]
        PROVE  CallInv'
    <3>1. Earned(call)
      BY <2>1, <2>3, LaneEarns DEF Found
    <3>2. /\ call' \in IF call'.by = "cli" THEN Claims ELSE Measured
          /\ call'.pc = "append" /\ call'.by = call.by
          /\ call'.run = call.run /\ call'.path = call.path /\ call'.benchmark = call.benchmark
          /\ call'.touched = call.touched
          /\ call.by = "console" => call'.listed = call.listed /\ call'.first = call.first
      <4>1. CASE call.by = "cli"
        BY <2>1, <2>3, <4>1 DEF Claims
      <4>2. CASE call.by # "cli"
        BY <2>1, <2>3, <4>2 DEF Measured
      <4> QED
        BY <4>1, <4>2
    <3>3. call'.by = "console" /\ ~call'.touched => Found'
      BY <2>1, <2>2, <3>2 DEF Found, Qualifies, RowsIn, Counts, Label
    <3>4. EarnedBy(runs'[call'.run], call')
      BY <2>2, <3>1, <3>2 DEF Earned, EarnedBy
    <3> QED
      BY <1>b, <2>1, <2>2, <3>2, <3>3, <3>4 DEF CallInv, Earned
  <2> QED
    BY <1>7, <1>c, <2>3 DEF Lane
<1>8. CASE Append
  <2>1. call.run \in RunIds /\ EarnedBy(runs'[call.run], call)
    BY <1>8 DEF Append, CallInv, Claims, Measured, Earned
  <2>2. passed' = passed \cup {call} /\ call' = Idle
    BY <1>8 DEF Append
  <2> QED
    BY <1>b, <2>1, <2>2 DEF CallInv, Idle, Earned
<1>9. ASSUME NEW path \in RunIds, NEW content \in SUBSET RunIds, ReplaceEvidence(path, content)
      PROVE  CallInv'
  <2>1. UNCHANGED <<runs, passed>> /\ files' = [files EXCEPT ![path] = content]
    BY <1>9 DEF ReplaceEvidence
  <2>2. CASE call.pc # "idle" /\ call.path = path
    <3>1. /\ runs[call.run] # None /\ runs[call.path] # None
          /\ call \in IF call.pc = "qualify" \/ call.by = "cli" THEN Claims ELSE Measured
          /\ call.pc \in {"qualify", "population"} => call.by = "console"
          /\ call.pc = "append" => Earned(call)
      BY <2>2 DEF CallInv
    <3>2. call' = [call EXCEPT !.touched = TRUE]
      BY <1>9, <2>2 DEF ReplaceEvidence
    <3>3. /\ call' \in IF call'.pc = "qualify" \/ call'.by = "cli" THEN Claims ELSE Measured
          /\ call'.pc = call.pc /\ call'.by = call.by /\ call'.touched
          /\ call'.run = call.run /\ call'.path = call.path /\ call'.benchmark = call.benchmark
      BY <3>1, <3>2 DEF Claims, Measured
    <3>4. call'.pc = "append" => EarnedBy(runs'[call'.run], call')
      BY <2>1, <3>1, <3>3 DEF Earned, EarnedBy
    <3>5. call'.pc \in {"idle", "qualify", "population", "lane", "append"}
      BY <3>3 DEF CallInv
    <3> QED
      BY <1>b, <2>1, <3>1, <3>3, <3>4, <3>5 DEF CallInv, Earned
  <2>3. CASE ~(call.pc # "idle" /\ call.path = path)
    <3>1. UNCHANGED <<call, passed>>
      BY <1>9, <2>3 DEF ReplaceEvidence
    <3>2. call.pc # "idle" => call.path \in RunIds \ {path}
      BY <2>3 DEF CallInv, Claims, Measured
    <3>3. call.pc # "idle" => files'[call.path] = files[call.path]
      BY <2>1, <3>2 DEF RunInv
    <3> QED
      BY <1>a, <3>1, <3>3
  <2> QED
    BY <2>2, <2>3
<1>10. ASSUME NEW req \in Requests, FillForm(req) \/ EditForm(req) PROVE CallInv'
  BY <1>a, <1>10 DEF FillForm, EditForm
<1>11. CASE BuildPlan \/ \E ok \in BOOLEAN : Preflight(ok)
  BY <1>a, <1>11 DEF BuildPlan, Preflight
<1>12. CASE OpenDialog \/ Launch \/ Back \/ LeavePage \/ Restart
  BY <1>a, <1>12 DEF OpenDialog, Launch, Back, LeavePage, Restart
<1>13. CASE Replan \/ PlanAgain \/ EditCatalog \/ EditModels
  BY <1>a, <1>13 DEF Replan, PlanAgain, EditCatalog, EditModels
<1>14. CASE UNCHANGED vars
  BY <1>a, <1>14 DEF vars
<1> QED
  BY <1>2, <1>3, <1>4, <1>5, <1>6, <1>7, <1>8, <1>9, <1>10, <1>11, <1>12, <1>13, <1>14 DEF Next
-----------------------------------------------------------------------------
(* The theorems *)

\* What holds of the files, the pages, the worker, the runs and the
\* registrations whatever is edited, and whenever.
THEOREM OperatorsAreSound == Spec => []OperatorInv
<1>1. Init => OperatorInv
  BY FileInit, PageInit, WorkerInit, RunInit, CallInit DEF OperatorInv
<1>2. OperatorInv /\ [Next]_vars => OperatorInv'
  BY FileStep, PageStep, WorkerStep, RunStep, CallStep DEF OperatorInv
<1> QED
  BY <1>1, <1>2, PTL DEF Spec

\* What the console charges is what the operator confirmed: the fingerprint the
\* dialog sent identifies the request and the plan that were shown
\* (start_confirmed, _plan_fingerprint), and only a file without a cache can
\* change the plan after the worker has compared it.
THEOREM ChargedAsConfirmed == Spec => []LaunchedAsConfirmed
<1>1. OperatorInv => LaunchedAsConfirmed
  BY DEF OperatorInv, RunInv, RunFacts, LaunchedAsConfirmed
<1> QED
  BY <1>1, OperatorsAreSound, PTL

\* `passed` is earned by the run it names, by an ordinary plan of the claimed
\* benchmark with a scored instance, and from the console by every instance the
\* slice listed, unless the file was replaced meanwhile (qualify_lane,
\* OperatorOperations.qualify).
THEOREM PassedIsBacked == Spec => []PassedIsEarned
<1>1. OperatorInv => PassedIsEarned
  BY DEF OperatorInv, CallInv, Earned, EarnedBy, PassedIsEarned
<1> QED
  BY <1>1, OperatorsAreSound, PTL
=============================================================================

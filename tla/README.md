# BenchEval in TLA+

BenchEval (`src/bencheval`) is a control plane for benchmark evaluations: it plans a
run of a benchmark slice by a model or an agent, hands every instance to the
benchmark's own harness, writes one evidence row per instance, and keeps enough
around the run (frozen plan, proof bundle, registry of runs) to say later what the
numbers mean.  This directory models the parts of it where order, failure and
concurrency decide whether that holds, checks them with TLC on small instances, and
proves with TLAPS the results that matter for every instance.

## 1. Inventory

### Components, state, operations

| Component | Source | State it keeps | Operations |
|---|---|---|---|
| Live run registry | `live_run_manifest.py` | `runs.jsonl`, its `.lock` file | append an event, read the history, project the current state |
| Console run session | `ui/session.py` | one worker process, its group, its pipe, the shown state | start, snapshot, cancel, atexit; the worker's frames |
| Run output ownership | `run_isolation.py`, sink of `evidence.py` | claim marker, frozen plan, reserved evidence descriptor | claim, roll back, append, release |
| Proof store | `proof_bundle.py` | content-addressed objects, `proofs.jsonl`, its lock | export, verify, install or reuse, index, scan |
| Control-plane executor | `control_plane_executor.py`, `lifecycle.py`, `domain.py` | rows appended, spent cost and wall, pass count | dispatch, per-instance lanes, slice lanes, cleanup, failure rows |
| External agent lane | `external_agent_adapter.py`, `momo_agent_adapter.py` | one instance directory, subprocess | launch, capture, failure rows |
| Native adapters | `terminal_bench_harbor.py`, `swebench_adapter.py`, `bfcl_*.py`, `gpqa_adapter.py`, `hle_adapter.py`, `cybergym_adapter.py`, `exploitgym_adapter.py` | pinned directories and inputs, subprocess, deadline | launch, retain, pin, parse, verify identity |
| CyberMetric adapter | `cybermetric_adapter.py` | one HTTPS exchange, its watchdog thread, deadlines | ask, retry, expire, judge |
| Role shim | `anthropic_role_shim.py` | in-flight semaphore, HTTP server | proxy a request, rewrite roles |
| Planner and admission | `benchmark_plan.py`, `adapter_admission.py`, `actor_binding.py`, `model_binding.py`, `provenance_gates.py` | none: plans are values | plan, bind, admit or refuse |
| Catalogs | `*_registry.py`, `slice_manifest.py`, `pricing.py`, `paths.py`, `config_cache.py` | process-wide loader caches | load, validate, look up |
| Operator operations | `application/`, `live_proof.py` | none of its own | plan, start, register, qualify, import, compare, export |
| Web console | `ui/app.py`, `ui/pages.py`, `ui/security.py` | capability token, page timers | pages, confirmation, admission of requests |
| CLI and doctor | `cli.py`, `doctor.py`, `preflight_report.py` | none | commands, host probes |
| Reports and exports | `report.py`, `export.py`, `run_bundle.py`, `evidence_compare.py`, `model_compare.py`, `runtime_compare.py`, `stats.py` | none | derive tables and bundles from evidence |
| Exposure studies | `exposure_*.py` | selections, report and lock files, frozen protocol records | select, bind two proofs, write report and lock, schedule, lock runs, verify |
| Redaction and paths | `redaction.py`, `path_safety.py`, `identity_strings.py`, `ids.py` | none | pure functions |

### Interactions

A run goes: *planner* (pure) -> confirmation by the operator -> *executor*, which
claims outputs (*run output ownership*), freezes the plan, drives an *adapter* per
instance or per slice, appends *evidence*, and releases.  The CLI runs it in its own
process; the *web console* runs it in a child process owned by the *run session*,
which talks to it through one pipe and signals its process group.  Afterwards
*operations* register the run as events in the *live run registry*, bundle it as a
private proof and import it into the *proof store*.  Nothing is shared between
processes but files: the registry and the store are protected by `flock`, outputs by
`O_EXCL`, proofs by content addresses.

### Hard behaviours

* several processes on the registry, the store and the output trees at once;
* kills and power losses between two system calls, short writes;
* operators who remove, move, restore or replace files;
* a child process that dies, or answers, between two steps of a controller call;
* pid and process-group reuse;
* timeouts that race an answer; budgets that are spent in one place and checked in
  another.

### What makes each component correct

* Registry: no read shows and no append extends an inconsistent history; what was
  reported appended stays; the current state of a run only moves forward.
* Run session: one run at a time; stopped means stopped, descendants included; a
  result is shown once it exists and never un-shown; only the run's own group is
  ever signalled.
* Output ownership: one run per tree and per evidence file, for good; a refused
  claim leaves nothing; a run's frozen plan stays with it.
* Proof store: an indexed proof is installed and verified; importing twice is the
  same as once; a crash leaves nothing a reader trips over.
* Executor: one row per planned instance in plan order; the summary counts the rows;
  nothing is launched after the envelope is spent.
* Native adapters: a verdict rests on the inputs and directories that were captured and
  on what the harness really did; evidence is called corrupt only for a cause.
* CyberMetric: nothing late is scored, blame falls where it belongs, every slice ends.
* Operator operations: what is charged is what was confirmed; `passed` is earned.
* Exposure studies: a rate or a test is only ever about the declared population, and a
  lock reproduces the report it stands beside.

Each hazard, with the line where it bites and the properties aimed at it, is listed
in `PROJECT.json`.

## 2. Modules, and how they follow the code

| Module | Models | Kind |
|---|---|---|
| `LiveRunHistory` | `_ALLOWED_TRANSITIONS`, `_reject_record_against_prior`, `project_live_runs` | operators over histories |
| `RunLedger` | what the registry promises | abstract specification |
| `LiveRunRegistry` | `append_live_run`, `read_live_runs` by several processes | detailed, implements `RunLedger` |
| `RunSession` | `RunSessionController` and `_run_worker` | detailed |
| `RunGrants` | what claiming run outputs promises | abstract specification |
| `RunOutputs` | `run_isolation.py`, `_claim_control_plane_outputs`, the evidence sink | detailed, implements `RunGrants` |
| `ControlPlaneRun` | the executor's lanes and the life of one attempt | detailed |
| `ProofArchive` | what the proof store promises | abstract specification |
| `ProofStore` | export, import and scan of `proof_bundle.py` | detailed, implements `ProofArchive` |
| `AttemptFrame` | the pinned descriptors of `run_isolation.py`; what a path names, what was captured, what was used | shared by the lanes |
| `GpqaAttempt`, `HarborAttempt`, `HleAttempt`, `BfclAttempt`, `SweAttempt`, `AgentAttempt` | one attempt through each native adapter and the legacy agent lane | detailed, one per lane |
| `NativeLanes` | the six lanes, and whoever swaps what a path names | composition |
| `CybermetricSlice` | `cybermetric_adapter.py` and `_execute_cybermetric`: main thread, watchdog thread, far end | detailed |
| `OperatorActions` | the console's plan page, the start worker, `bencheval run`, `register` and `qualify`, over edited catalogs | composition |
| `StudyEvidence` | the selection and binding rules that both readers of proofs share | operators |
| `ExposureLock` | the two-proof report, its exclusive writers and the verification of its lock | detailed |
| `RepeatAnalysis` | `exposure_repeat.py`: estimand, slot differences, exact randomization test | operators, with a reference definition |
| `RepeatProtocol` | `exposure_protocol.py`: freeze, run, lock and verify a repeat protocol | detailed |

`MC*` modules give small instances to TLC, `*Proofs` modules hold the theorems.
`PROJECT.json` maps every definition that models code to its lines.

**Granularity.** One action is what a process does between two points where another
process, the kernel, an operator or a crash can make a difference: usually one system
call with the computation that follows it.  `LiveRunRegistry` therefore has
`OpenLock`, `FlockLock`, `OpenLeaf`, `FlockLeaf`, `Validate`, `Write`, `Rewrite`,
`Fsync`, `Recheck` for the one function `append_live_run`; `RunOutputs` has one action
per `open(O_EXCL)`, `unlink` and `rmdir` of a claim and its rollback; `RunSession` one
per look at the pipe, the sentinel and the process group; `ProofStore` one per pass
over a directory, since what makes a directory a whole proof is a predicate of its
bytes (verified while nothing changes, or found not to be).  `ControlPlaneRun` is one
process: its actions are the statements of the lane's loop at which an outcome is
decided (gate, prepare, launch, return, check, clean, record).

**Attempts.** In the native lanes a *thing* is what a path names: an input (checkout,
package, datasets cache, snapshot) or a directory or file the attempt owns.  Each has a
version that grows when somebody puts something else there (so nothing is ever put
back as it was: section 8).  `cap` is the version
BenchEval opened or verified last, `seen` the versions the harness or the scorer used,
`truth` what the harness really did and `found` what BenchEval has read of it.  An
action is one check, one subprocess or one read of the adapter, in the order of
`run_gpqa_slice`, `run_harbor_dataset_instance`, `run_hle_slice`, `run_bfcl_instance`,
`run_swebench_instance` or `run_external_agent_instance`; a check that fails stops the
attempt with the label and the latency the code raises with.  `Disturb` swaps a thing
between any two of them.

**Two threads.** `CybermetricSlice` has the main thread's places `Ask`, `Open`, `Arm`,
`Send`, `Read`, `Check`, `Leave`, `Judge`, `Settle`, and the watchdog's `Expire` (raise the
flag) and `Shut` (shut the socket down, if it was given one): in the code they are two
statements with the main thread free to run between them.

**Operators.** In `OperatorActions` a catalog is what a plan reads of it.  The console's
process keeps the catalogs it first read (`cache`), the worker it spawns starts without
any, the model registry and the instance lists are read anew by every plan.  A run is
recorded with the plan it executed, the plan its dialog showed, and the instances its
harness scored; registration reads evidence files in the code's four passes.

**Studies.** A digest is its content.  A proof is a record of what one run planned and
observed; that its files belong to its id is `ProofStore`'s business.  `ExposureLock` writes
report and lock with one action per `open`, `write` and `unlink`; `RepeatProtocol`
verifies a lock by recomputing everything from the proofs its runs left.

**Files.** Text is modelled by what the readers can tell apart.  A JSON-lines file is
its complete rows and a `tail`: nothing, a fragment no parser accepts, a whole row
that lacks only its newline, which `str.splitlines` accepts, or, in the store, a line of
two rows.  The distinction matters: the next append is glued to a row without newline.  An
fsync records how much is durable; a power loss keeps that and any prefix of the rest,
also one that ends just before a newline.  A directory of a proof is either
intact, and then it is the proof of its name (the digest of its inventory), or not.

**Processes.** A kill drops a process at any point: its descriptors close, its flocks
go, its temporary directories stay where nobody reads them.  Python `finally` blocks
are part of the action that raises (`Return`, `HarborStop`).

**Time and money** are whole ticks and units.  In `ControlPlaneRun`, `used` is the time
an attempt really took; `kept` and the outcome's latency are what the adapter says, and
the difference between them is what several of the properties are about.

**Faulty variants.** An operator named after the definition it follows (`LockNothing`
before `Lock`) is that definition with a plausible mistake; it is part of no
specification.  Every property of a passing run is broken by one of them, listed under
"mutants" in `PROJECT.json`.

## 3. What is checked

### Live run registry (`MCLiveRunRegistry`)

* `registry_locks` -- two processes append and read; the lock file may be removed or a
  copy restored over the manifest, and writes may be cut anywhere.
  `ReadsConsistentHistory`: a read is refused or returns a history in which *any* two
  events of a run agree, although the code compares neighbours only.  `ManifestIsValid`,
  `ProjectionsOnlyExtend`: no file nobody restored becomes invalid, even with two lock
  inodes about, and the current view of a run never moves backwards.
* `registry_crash` -- kills and power losses.  `AckedIsDurable`, `ImplementsLedger` (the
  refinement of `RunLedger`), `EveryCallReturns`.
* `registry_one_line` -- a finding, section 7.

### Console run session (`MCRunSession`)

* `session_run` -- two runs in the life of a console with crashes, forks and pid
  reuse between any two steps.  `AtMostOneRun`, `StoppedIsStopped` (worker and
  descendants), `CompletedIsFinal`, `ResultIsShown`, `OrphansAreKilled`.

### Run output ownership (`MCRunOutputs`)

* `outputs_claims` -- three runs, two of them on one tree and two on one evidence path,
  killed anywhere, while an operator moves or replaces an evidence file and system calls
  of claims and rollbacks fail.  `TreeOfOneRun`, `EvidenceOfOneRun`.
  `RefusedLeavesNothing`: marker, plan and evidence file are each taken back by a refused
  claim, unless one of the calls that the property names for it failed (a
  failing write of the marker, say, leaves the marker: section 7).  `ImplementsGrants`: the
  refinement of `RunGrants` (no two runs let through share a tree, dead or alive, nor
  an evidence file that was left where it was made).

### Control-plane executor (`MCControlPlaneRun`)

* `control_plane` -- all five lanes.  `RowsFollowPlan`: one row per planned instance in
  plan order on every path, or the one aggregate row.  `SummaryCountsRows`.
  `GateAgreesWithEvidence`: the budget gate can be redone from the rows, so a reader of
  the evidence finds the reason of every skipped instance.  `AttemptBounded`: phase two
  gets what phase one left.  `ScratchFollowsPolicy`.  `RunEnds`: every fair run ends.

### Native lanes (`MCNativeLanes`)

* `native_lanes` -- one attempt in each of six lanes, on any host (missing, stale,
  genuine or linked inputs; leftovers of an earlier attempt), with any outcome of the
  harness, and two swaps of what a path names at any moments.
  `SettledIsCaptured`: a row with a verdict rests on the versions BenchEval captured, and
  the harness and the scorer saw no others.  `VerdictIsEarned`: a verdict is borne by what
  the harness really did -- every planned question in every epoch, the planned case and
  agent, a coherent report -- and has its sign.  `CorruptHasCause`: evidence is called
  corrupt only if something was swapped since the attempt began or the harness left what
  nobody can score.

### CyberMetric (`MCCybermetricSlice`)

* `cybermetric` -- two questions of two attempts against a far end that answers rightly,
  wrongly or not at all, breaks, trickles for ever or never starts, with the two threads
  at any speed.  `VerdictInTime`: nothing that came after its question's or the run's wall
  is scored.  `BlameIsRight`: the far end is never blamed for the watchdog's shutdown, nor
  the wall for the far end, but for a connection that the kernel gives up: its
  `TimeoutError` may come at any time and cannot be told from the deadline's (section 7).
  `SliceEnds`.

### Operator actions (`MCOperatorActions`)

* `operations` -- two runs planned, confirmed and started from the console or run from
  the command line, and registrations of their evidence, while catalogs, model registry,
  instance list, form and evidence files are edited.  `LaunchedAsConfirmed`: a console run
  executes the request and the plan that the dialog showed.  `PassedIsEarned`: a `passed`
  event names an ordinary, non-diagnostic run of its benchmark that was scored, however
  the catalogs were promoted or demoted since.  Deadlock is not checked here: the model
  ends when its run ids are used up.

### Proof store (`MCProofStore`)

* `store` -- two processes export, import and scan through every kind of fault: kills
  anywhere, directories edited while they are read, failing writes, damaged objects and
  power losses.  `IndexedIsInstalled`: no row without its proof.  `IndexStaysReadable`:
  no proof listed twice.  `OnlyDisturbedIsRefused`: a kill, wherever it fell, never makes
  a later import fail.  `ScanShowsAcked`: the scan, which takes no lock, shows every proof
  reported before it began.  `AckedRowSurvives`: what an fsync is for: a reported
  row survives power losses alone, and kills, errors and damage without one; a cut newline
  may leave it in a line that no reader parses.
  `NothingIsReplaced`: neither an installed object nor an exported directory is ever
  overwritten.  `ImplementsArchive`: the refinement of `ProofArchive`.  Properties that a
  kind of fault ends say so in their premise.

### Exposure studies (`MCExposureLock`, `MCRepeatProtocol`)

* `exposure_lock` -- two runs with any one defect out of thirteen, four selections a
  caller may hand in, two writers on one pair of outputs, kills and failed writes, one
  replaced proof or lock.  `RatesAreEarned`: whatever is written, or reproduced from a lock,
  with the declared analysis comes from two runs that planned and observed exactly the
  seeded population, every row scored.  `LockHasItsReport`: no lock stands beside another
  report, a blank one or none.
* `repeat_protocol` -- twelve runs, one of them defective or mislabelled, a copied proof or
  an edited lock whose digests agree.  `ReportIsExact`: estimand and p-value are those that
  the executed verdicts and an enumeration of all balanced assignments give, although the
  code counts sums by dynamic programming.  The cases are those that the seed *in the
  lock* deals: a verifier is handed only the lock, and one whose seed, partition and runs
  were all exchanged for those of another deal is accepted.  Seven edits make one (two
  blocks, every run over the other block's cases); the run allows one.  `OnlyEligibleRuns`: every slot of a verified
  lock is a run of its own over the cases dealt to its block.

## 4. Bounds

| Bound | Value | Why it is enough |
|---|---|---|
| `MaxCalls`, registry | 3 (2 in `registry_one_line`) | one call to leave something behind, one to build on it, one to race them |
| records, registry | 3 of 1 or 2 runs | together they break each rule of a history: order, model, axis, transition |
| `MaxRuns`, session | 2 | what is left of one run meets the next |
| runs, outputs | 3 on 2 trees and 2 evidence paths | both kinds of conflict, and a rollback with a third party about |
| `MaxBroken`, outputs | 2 failing calls | a claim that fails and a rollback that fails, or the failures of two claims |
| `MaxRows` | 1 | one row tells whose file it is |
| `NumInstances` | 3 | two attempts that outlive their timeout use up the envelope, a third is skipped |
| `PerInstance`, `Second` | 2, 2 ticks | a second phase with and without time left, and with a part of a second left; the aggregate lanes have three times that |
| `Overshoot`, `CheckTime` | 1, 1 ticks | each delay can be nought or not |
| `MaxCost`, `Costs` | 1; {0, 1} | a cost envelope that is met exactly, and one that is not |
| `MaxCalls`, store | 4 | export, import, and two imports or scans that race or follow |
| `MaxFaults` | 1 or 2 (none in `registry_one_line`) | a fault, and in the store one during the recovery from it |
| `MaxDisturbs`, native lanes | 2 | two things swapped, or one before it is captured and again after; proved for any number |
| `Wall`, native lanes | 2 ticks | each of two phases takes no time, some of it or all of it |
| `Slots`, `Samples` | 2, 2 | a slice answered in full, in part, or one question twice |
| `Questions`, `MaxAttempts` | 2, 2 | a retry, and a question after one that used up its wall |
| `Wall`, `RunWall`, `Horizon` | 2, 3, 6 ticks | the run's wall cuts the second question's; the horizon is past every deadline |
| `RunIds`, `MaxEdits` | 2, 2 | evidence of another run; an edit and the edit back, or of two files |
| `Requests`, `Lists` | 5; 2 | model-only and agent lanes, ordinary, diagnostic and another output; a shorter list |
| `Writers`, `MaxDisturbs`, exposure | 2, 1 | two writers race; one replaced proof or lock |
| cases, exposure | 5 in 2 strata, 3 declared | another selection of the right size, a smoke population (`SmokeCount` 1) |
| `Blocks`, cases, repeat | 4; 10 in 2 strata, 8 declared | two blocks of each slot order; slot differences of -1, 0 and 1 in three of them |

Two processes, proofs, directories, writers and run ids are interchangeable,
so the runs that check no liveness use symmetry where it shortens them.  `MaxCalls`,
`MaxFaults`, `MaxEdits` and `MaxDisturbs` end a behaviour; every specification but
`OperatorActions` stutters explicitly once everything is over, so that TLC looks for
deadlocks in all of them.

## 5. Fairness

* Registry: weak fairness of every process's next system call.  A process
  that is not killed runs, and `flock` wakes a waiter; with finitely many calls weak
  fairness is enough for the lock too.
* Session: weak fairness of the call under way, and of `snapshot`, which the `/runs`
  page polls every two seconds.  The worker and its descendants are *not* fair: a
  harness may run for ever, and the properties say what happens when it ends.
* Executor: weak fairness of the run's own steps.  Every subprocess has a timeout, so a
  harness cannot hold a run up; a kill or an abort ends the run.
* CyberMetric: weak fairness of the main thread, of the watchdog thread and of the clock.
  The far end is not fair: it may answer nothing or trickle for ever.

## 6. What is proved

All theorems are checked by TLAPS for every value of the constants, under the named
assumptions of the module (bounds are naturals, `None` is nobody, and the like).

**Registry** (`LiveRunRegistryProofs`).  Of histories: `ValidIsConsistent`: comparing
each event with its run's last and first event, and with the first that fills an axis,
makes any two events of a run consistent.  The proof takes a pair of least distance, and
needs that the transition table composes.  `AppendExtendsProjection`: an event that
passes validation only extends the current state of its run.

Of the registry: `HistoryInv` = types and places, exclusion by
the flock of the leaf, acceptability from validation to the end of the line, and
restored content as the only invalid one.  That a record is still acceptable when it is
written (`StillAccepted`) is not inductive: an appender must exclude the others *on the
inode it has open*, which the lock file alone does not give.  From it:
`WritesStillAccepted`, `ManifestsStayValid`, `ReadsAreConsistent` (with
`ValidIsConsistent`), `ProjectionsMoveForward` (with `AppendExtendsProjection`).
`DurabilityInv` adds what an fsync has secured and gives
`AcksAreDurable` when writes are not cut just before a newline; `RegistryImplementsLedger`
further assumes that no copy is restored.

**Session** (`RunSessionProofs`).  `SessionInv`, for any number of runs.  `OnlyCurrent`
(nobody but the process the controller holds is alive) is inductive by itself and gives
`OneRunAtATime`.  That a stopped run has stopped needs more: `GroupInv` ties the
controller's idea of the process group to the frames in the pipe (as long as a worker may
have descendants, the controller knows its group or its next frame announces it),
`StopInv` follows the stop procedure from `SIGTERM` to the join, and `DoneInv` is what a
console that shows a completed or cancelled run, or that is gone, has behind it.  From
these `StoppedMeansStopped` and `CompletedStays`.

**Outputs** (`RunOutputsProofs`).  `TreeInv`: a marker bears the name of the run that
made it, and only its maker removes it; `FileInv`: the same for evidence inodes.  A run
that was let through would have had to find nothing where its own name is.  From these:
`TreesOfOneRun`, `EvidenceFilesOfOneRun`, and `ClaimsImplementGrants`: until an operator
moves an evidence file, every run let through holds its own; afterwards a file that was
taken away can be claimed again under its old name, but no run ever gets one back.
`LeftInv` adds what a claim has put down at each step, on its way in and on its way back,
and which failing calls explain what it has left, and gives `RefusedClaimsLeaveNothing`,
for any number of failing calls.

**Executor** (`ControlPlaneRunProofs`).  `RowInv` ties the rows to the instance at hand
in each lane, `CountInv` the pass counter to the rows, `TimeInv` the time an attempt may
have taken to its place.  From these `RowsCorrect`, `SummaryCorrect`, `EnvelopeCorrect`,
for any number of instances and any delays.  `GateInv` says that what is spent is the sum
over the rows written so far (`GateCanBeRedone`; the sum is a recursive function on the
number of rows, of which the proof needs one unfolding at a time), `ScratchInv` what is
left of each attempt's transient directories (`PolicyIsKept`).  `StepsLeft` counts down
over the instances and the places of an attempt: `RunsMoveOn` says that each step leaves
fewer, so whatever the harnesses answer no loop is gone round twice for one instance, and
a run of n instances is over after at most 10 n + 9 steps.

**Store** (`ProofStoreProofs`).  `StoreInv`: while an importer has the flock, what it
read of the index is what the index says, so it appends no row twice; an object is only
put there from a copy that was verified, and a row written only for an object that was
(`IndexedCorrect`, `IndexReadable`).  `ArchiveImplemented` adds that an importer past its
append has its row, as long as there was no power loss, failing write or damage, which
end what the archive promises (section 7).  Three more invariants, each under the premise
its property has: `UndisturbedInv` (nothing but kills happened: everything found anywhere
is whole and rightly named; `KillsRefuseNothing`), `ShownInv` (no damage: a reported proof
has its row and its object, and a scan past that point has listed it; `ScansShowAcked`),
`ListedInv` (no power loss: rows are only added) and
`DurableInv` (no importer killed, no write failed: rows beyond the fsynced
ones are there only while their importer is at its fsync), the two halves of
`AckedIsDurable`.  `ReplacementFree` is an action property: no
import or export step changes what stands under an installed name.

**Exposure lock** (`ExposureLockProofs`).  `LockInv`: a writer has made both names before
it writes either, writes the lock last, and never has a name another writer made
(`WriterInv`, `FileInv`, `MadeInv`).  `LocksHaveReports` is not inductive without the last:
an unwinding writer may remove a report, and only that it removes nothing but what it made
itself keeps the report of a lock in place.  `RatesAreBacked` rests on the rules of the
builder rather than on the protocol: a selection that replays over the anchored files,
with the declared number of each stratum, is the seeded population (`SelectionIsSeeded`),
so whatever `Builds` is about that population and no other (`BuildsEarn`), whoever
hands in the selection and the two proofs.

**Repeat protocol** (also in `ExposureLockProofs`).  The counting comes first: in a strict
order of a finite pool the number of elements before one is its place, and every place is
taken exactly once (`PlacesAreDistinct`).  So a selection has the declared size
(`SelectionReplays`), every case is dealt to one block and every block has its share of
each stratum (`BlocksAreDealtEvenly`), and half the blocks run the treatment first
(`DrawIsBalanced`).  `OnlyEligibleRuns` is about the runs as they were executed while a
verification reads directories anybody may have copied into, so it needs `RunsInv`: a
directory holds the proof of *some* executed run and a run says which it is.  A proof that
says it is the run of its directory is therefore that run's (`DirectoriesAreNamed`), the
counts of `_verify_slot_references` make two slots' runs differ (`NamesAreApart`), and what
the verification read holds of the runs (`ReportsAreOfEligibleRuns`).  The rules are not
stricter than the protocol either: `HonestLocksPass` shows that a lock of the runs as they
were executed, none of them failed, covers the slots and passes `_verify_population`, so
`OnlyEligibleRuns` does not hold because every lock is refused.  Nor is the verification as a
whole: `HonestLocksVerify` adds that runs which were executed as registered load for their
slots, are bound to each other and give the report again, so that `verify_protocol_lock`
accepts their lock.  `WrittenLocksReproduce` says the same of the two-proof lock: while its
two proofs are the ones its writer read, it is reproduced (`BuiltInv`: what a call locks it
built from two proofs that passed every rule).

**Repeat analysis** (also in `ExposureLockProofs`).  `ReportIsExact` compares
`exposure_repeat.py` with an enumeration, for every number of blocks.  The induction it
needs is over numbers, not over data: a property of the first n values is given as the set
of the n that have it, and `CountingUp` shows, from the least number that is missing, that
such a set is all of `Nat`.  A fold of the community modules is a `CHOOSE` of a recursive
function; `FoldExists` shows by counting that there is one, after which sums and tables
are explicit functions.  Then: the table after m values holds, for every k and t, how many
ways there are to choose k of them with the sum t (`TablesCountPicks`; a choice takes the
next value or leaves it, and a size must be extended before the smaller one, which is the
hazard at `exposure_repeat.py:341`); the sums that occur are within `Reach`; a balanced
assignment is a choice of half the blocks and its statistic is twice the chosen sum less
the whole (`SignsTotal`, `SignsArePlaces`).  `RandomizationIsExact` puts these together.  A
verified lock's report is the one its references give, each read from the proof of the run
it names (`RunsInv`), over the cases its seed deals; hence `ReportsAreExact`, and
`PValuesAreProper`: the drawn schedule is itself balanced (`DrawIsBalanced`), so the test
finds at least one assignment and never more than it visits.

**Operators** (`OperatorActionsProofs`).  `OperatorInv` = `FileInv`, `PageInv`,
`WorkerInv`, `RunInv`, `CallInv`: what the page, its dialog, the worker, every run and
every registration at work hold, tied to one request from the form to the evidence.
Proved for any requests, catalogs, lists and any number of edits, between any two steps:
`ChargedAsConfirmed`, `PassedIsBacked`.

**Native lanes** (`NativeLanesProofs`).  `LaneInv`: for each lane, by how far its attempt
is, which things are captured, what is known of the harness's result and of what BenchEval
has read of it.  Its core is `Held`: versions only grow, so what a thing was used at lies
between what was captured and what is there, and a check that still finds the captured
version shows that no other was used (`SameIsTight`).  A verdict is not inductive without
it: between a use and the check that covers it nothing can be said of the thing, and each
lane's ladder reaches its last rung with all of them covered.  Hence
`SettledRestsOnCaptured`, `VerdictsAreEarned` and `AlarmsHaveCauses`, for any wall, any
numbers of questions and samples and any number of swaps between any two steps (a thing
has at most the versions absent, stale, pinned and other; the frame caps them at `Last`).

**CyberMetric** (also in `NativeLanesProofs`).  `SliceInv` says what one thread may rely on
of the other: the exchange's deadline is never before the question's, the flag goes up
only after it and before the socket is shut down (`SliceFlag`), an exchange that timed out
did so past the deadline or because the kernel gave it up (`WallOrKernel`), and a body that ended as if
whole under a shutdown is found out at the check (`SliceAnswer`).  Every step then settles
a question only in the ways `SliceSettles` lists, which gives `VerdictsAreInTime` and
`BlameIsEarned` for any number of questions and attempts and any walls.  `SliceStepsLeft`
counts down over the questions, their requests, the places of an exchange and the
watchdog's two steps: `SlicesMoveOn` says that every step but the passing of time leaves
fewer, in every order of the two threads.

The assumptions on constants are those of the modules: bounds are naturals, `None` is
nobody; of `OperatorActions` that run ids are finitely many (`RunIdsAreFinite`), a form
gives a request its fields (`RequestsAreForms`) and catalogs list sets of instances
(`ListsAreSlices`); of `ExposureLock` that what a run may end with has the shape of a
proof (`ShapesAreProofs`) and that the operator's editor is not one of the writers
(`EditorIsNoWriter`); of the studies that the pinned files are finite (`CasesAreFinite`) and
that the digests by which cases and blocks are ordered do not collide (`RankIsTotal`,
`DealIsTotal`, `DrawIsTotal`).  TLC evaluates each of them in the runs.

Each of these modules' `TypeCorrect`, or the types in its invariant, is also what says that
locks, flocks and descriptors are held exactly where the code holds them; type correctness
is proved and no run repeats it.

**Only model-checked.**  Liveness under fairness, in the four components that state it
(`EveryCallReturns`, `ResultIsShown` and `OrphansAreKilled`, `RunEnds`, `SliceEnds`): the
prover has no fairness rules here and no `ENABLED`.  Of `RunEnds` and `SliceEnds` the half
that needs no fairness is proved (`RunsMoveOn`, `SlicesMoveOn`: nothing goes round in
circles); that something always moves before the end is TLC's part.  Every safety invariant and action property of the runs
is a theorem.

## 7. Where the code and its documents differ

`registry_one_line` is a run of its own: an append after a row cut before its newline is
glued to it, and reported.  The counterexample is quoted under "findings".

The others were met while the modules were written.  The models contain the steps; the
properties that hold say in their premise or text where they stop, and no run shows the
counterexample:

* Session.  A result already in the pipe turns a cancelled run into a completed one
  (`session.py:172`), while `tests/regressions/test_ui_session_cancellation.py:126` expects
  it to stay cancelled (`docs/api/operator-console-contract.md:130`).  A late
  ready frame makes the controller signal a group number it no longer owns (`:177`, the
  comment at `:149`).  A worker that dies between two looks of `start` leaves its
  descendants beside the new run (`:71`).
* Outputs.  A rollback removes the frozen plan of a run that claimed the tree meanwhile
  (`run_isolation.py:253`, the docstring at `:246`, `docs/architecture.md:654`).  A marker
  whose write fails after its `O_EXCL` create is outside every rollback
  (`run_isolation.py:199`): it stays, and with it the tree refuses later claims.  So does
  a new evidence file whose `fstat` fails (`:174`); and an `unlink` or `close` of
  a rollback that fails ends it, so that what it had not reached stays (`:144`, `:259`).
  `RefusedLeavesNothing` names each of these calls.
* Executor.  A timed-out second phase of BFCL or HLE forgets the time and output of its
  first (`bfcl_native_adapter.py:1645`, `hle_adapter.py:1247`; `docs/architecture.md:449`).
  The timeout of the SWE-bench evaluation is the time left before the checks that
  precede it (`swebench_adapter.py:2009`, used at `:2139`), BFCL's the time left between
  its checks (hence `CheckTime` in `AttemptBounded`), and BFCL and HLE round what is
  left up to a whole second (`hle_adapter.py:722`; hence `Second`), while
  `docs/context/runtime-invocation-contracts.md:36` gives phase two "only the remaining
  time".
* Store.  A row of the proof index cut before its newline is glued to the next, as in the
  registry (`proof_bundle.py:1150`).  A power loss alone is enough: it may leave a row that
  was not fsynced without its newline, the next import reads it, appends behind it, fsyncs
  and reports success, and from then on the index is refused by every import and scan.  The
  reported row is in the file but in no line that parses (`Glued` in `AckedRowSurvives`).
  A row that a killed import did not fsync is reported durable by the next (`:1146`), and a
  power loss then loses it (hence the premise of `AckedRowSurvives`); objects are
  never fsynced at all (`:946`; hence that of `IndexedIsInstalled`).  The run id of a row
  is read between the two verifications of an import (`:1158`), so a source that changes
  and changes back gets a row that later imports call corrupt (`misnamed` in
  `ScanShowsAcked`).
* HLE.  The harness version a row is stamped with is captured from the checkout after the
  script copies were made from it, and may be another (`hle_adapter.py:604`, `:1139`,
  `:1232`).
* CyberMetric.  The watchdog has no socket to shut while the connection is being made, so
  a connect may outlast the deadline by its own timeout (`cybermetric_adapter.py:626`, the
  docstring at `:535`).  Every `TimeoutError` of an exchange is labelled as its deadline's
  (`:639`), also the kernel's own `ETIMEDOUT` of a connect or a read long before it, while
  the docstring of `default_request_runner` (`:661`) says the label is there "so the loop can
  tell the envelope from the far end" (hence `"gaveup"` in `BlameIsRight`).
* Studies.  `_load_slot` of `exposure_protocol.py` says that it applies every rule of a
  proof-backed side (`:825`), but cannot tell the anchor run of a block from its repeat, which have one
  side (`:879`), and never applies `_assert_registration`; nothing checks that slots were
  executed in the frozen order (`docs/context/bfcl-repeat-protocol.md:32`), hence a model
  that executes them in it.  A lock verified without a supplied study trusts its own.
* Operations.  The contract says the worker replans and compares
  (`docs/api/operator-console-contract.md:90`); it then plans a second time and executes
  that plan (`operations.py:546`; hence `raced` in `LaunchedAsConfirmed`).

## 8. Limits of the checks, and what is left out

Hazards that no property covers, beside those listed with a note in `PROJECT.json`:

* BFCL's directory drift and answer errors, and Harbor's ambiguous layout, are charged a
  latency of nought, so the gate undercounts what those attempts spent.
* The identity checks of the native lanes compare inodes or bytes at moments.  A directory
  moved away and back, or an input replaced and restored byte for byte, between two checks
  passes both; versions in the model only grow, so this is left out of what is checked and
  proved.
* The aggregate lanes and CyberMetric append only after the whole slice: a kill before
  that loses every row.
* Every import checks every listed object: one damaged object refuses all later imports.
  The store takes no second flock, so removing `proofs.jsonl.lock` lets two importers in.
* The agent lane checks the identity of its capture directory before the content.
* Of BFCL's installed package the code compares the pinned data files, at each check, and
  the version, before the launch; the thing `package` of `BfclAttempt` stands for those
  files and for no other of the package.
* A GPQA CSV is verified before the launch only; a Harbor timeout kills the CLI and not
  its containers, and a SIGKILL leaves the env file; SWE-bench's bound log is read twice by
  name; BFCL's parser reopens its directories by path.
* A writer of a report that is killed leaves blank outputs that refuse the next one;
  `_write_exclusive` checks and creates in two steps when it unwinds.
* The CLI's `_qualify_passed_registration` (`cli.py:690`) wants one scored instance where
  the console wants the whole population; `PassedIsEarned` says both.

Left out of modelled components: refusal of secrets, symlinks and odd file types, size
limits and message texts (checks of one value, no step depends on them); the removal
of the store's lock file; frames the worker never sends; the fields of a row that no
later step reads; the setup script of SWE-bench, BFCL's derived packages and category
runs, the npm agents Harbor loads into its containers; the loop of the legacy agent lane;
rendering and floating point (the Wilson, Newcombe and t intervals) of the studies; the
commands of the CLI that read and print, the doctor's host probes (one boolean of
`Preflight`), page layout and token checks of the console, parsing of the catalogs.

Not modelled at all:

* CyberGym and ExploitGym adapters: they refuse to run without outside infrastructure.
* Anthropic role shim: a proxy with an admission semaphore and handler threads; planned.
* Reports and exports: functions of evidence rows; the pairing of rows is planned.
* Redaction and path helpers: string functions without state.

## 9. Plan

Done, in the order of importance: registry, session, outputs, executor, proof store,
each with its abstract specification where it promises something to others; then the
native lanes over one frame, CyberMetric's two threads, the studies, the operator's
actions.

Every safety invariant and action property that a run checks is a theorem; what TLC alone
says is that calls, runs and slices come to an end.

Next modules: `RoleShim` (that a slot is given back on every way out and no request waits
for ever) and `PairedComparison` (the pairing of rows by the comparisons).

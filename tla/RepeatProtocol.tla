--------------------------- MODULE RepeatProtocol ---------------------------
(***************************************************************************)
(* The repeat protocol, from src/bencheval/exposure_protocol.py: a cohort  *)
(* is dealt into blocks and a slot order drawn once, both are frozen in a  *)
(* record; every slot is executed as an ordinary run and kept as a proof;  *)
(* a lock binds record, runs and report; the lock is verified by           *)
(* recomputing the report from copied proofs.                              *)
(*                                                                         *)
(* What may go wrong: a run fails, runs other cases, another route or      *)
(* another representation; whoever writes the lock mislabels a run; a      *)
(* proof directory or a field of the lock is replaced before it is read.   *)
(* Nothing in the code reads when a run was executed, so the model executes *)
(* the slots in the scheduled order.                                       *)
(***************************************************************************)
EXTENDS StudyEvidence, RepeatAnalysis

CONSTANTS
    Blocks,       \* number of blocks, even
    Seeds,        \* blocking seeds a caller may freeze a record with
    BlockRank,    \* seed -> the order of the cases under it
    DrawRank,     \* the order of the blocks under the protocol's draw seed
    Shaky,        \* run number -> cases whose verdict is left open
    MaxFaults     \* defective runs, mislabelled runs and replacements

ASSUME BlocksAreEven == Blocks \in Nat \ {0} /\ Blocks % 2 = 0
ASSUME StrataDivide  == \A s \in Strata : Declared[s] % Blocks = 0
ASSUME DealIsTotal   ==
    \A seed \in Seeds :
        /\ \A c \in Cases : BlockRank[seed][c] \in Nat
        /\ \A c, d \in Cases : BlockRank[seed][c] = BlockRank[seed][d] => c = d
ASSUME DrawIsTotal   ==
    /\ \A b \in 1..Blocks : DrawRank[b] \in Nat
    /\ \A b, c \in 1..Blocks : DrawRank[b] = DrawRank[c] => b = c

VARIABLES
    record,     \* the frozen protocol record
    ran,        \* run number -> the run as it was executed
    dir,        \* run number -> the proof its directory holds
    lock,       \* the lock file
    accepted,   \* the lock the last successful verification accepted
    faults      \* defective runs, mislabelled runs and replacements so far

protocolVars == <<record, ran, dir, lock, accepted, faults>>

BlockIds == 1..Blocks
Runs     == 1..(3 * Blocks)
Slots    == BlockIds \X Arms
Nothing  == [is |-> "nothing"]
Missing  == [complete |-> FALSE]

SideOf(arm) == IF arm = "treatment" THEN "candidate" ELSE "canonical"

-----------------------------------------------------------------------------
(* The frozen record *)

\* protocol_cohort: the retained selection of the protocol's own study.
Selection == SelectionOf([s \in Strata |-> Official(s)])
Cohort    == SelectedIds(Selection)

\* partition_cohort: each stratum, in the order of the blocking seed, is cut
\* into equal runs of ids, one per block.
Partition(ids, seed) ==
    LET place(c) == Cardinality({d \in ids : /\ StratumOf[d] = StratumOf[c]
                                             /\ BlockRank[seed][d] < BlockRank[seed][c]})
        share(c) == Cardinality({d \in ids : StratumOf[d] = StratumOf[c]}) \div Blocks
    IN  [b \in BlockIds |-> {c \in ids : place(c) \div share(c) = b - 1}]

TreatmentFirst == <<"anchor", "treatment", "repeat">>
RepeatFirst    == <<"anchor", "repeat", "treatment">>

\* draw_schedule: the half of the blocks the draw seed ranks first run the
\* treatment in slot 2.  The draw seed is the protocol's, never a caller's.
Draw == [b \in BlockIds |->
            IF Cardinality({c \in BlockIds : DrawRank[c] < DrawRank[b]}) < Blocks \div 2
            THEN TreatmentFirst ELSE RepeatFirst]

Sign(slots) == IF slots[2] = "treatment" THEN 1 ELSE -1

\* The manifest holds the declared parameters and the digests it froze.
Manifest(seed) ==
    [parameters |-> "declared",
     seed       |-> seed,
     selection  |-> Selection,
     partition  |-> Partition(Cohort, seed),
     schedule   |-> Draw]

\* write_protocol_record, once: an existing record is never rewritten.
Freeze(seed) ==
    /\ record = Nothing
    /\ record' = Manifest(seed)
    /\ UNCHANGED <<ran, dir, lock, accepted, faults>>

-----------------------------------------------------------------------------
(* Executing the slots *)

BlockOf(k) == ((k - 1) \div 3) + 1
ArmOf(k)   == record.schedule[BlockOf(k)][((k - 1) % 3) + 1]
Executed   == {k \in Runs : ran[k] # Missing}

Measured == [measures |-> "order", study |-> ThisStudy, maps |-> Cohort, retained |-> TRUE]

\* An ordinary run of a slot's block and representation; `bad` of its cases
\* fail.
CleanRun(k, bad) ==
    LET cases == record.partition[BlockOf(k)]
        side  == SideOf(ArmOf(k))
    IN
    [id |-> k, run |-> k, complete |-> TRUE, benchmark |-> side, slice |-> "block",
     planned |-> cases,
     verdict |-> [c \in cases |-> IF c \in bad THEN "fail" ELSE "pass"],
     captured |-> TRUE,
     version |-> IF side = "candidate" THEN "derived" ELSE "catalog",
     route   |-> "declared",
     variant |-> IF side = "candidate" THEN Measured ELSE NoVariant,
     label   |-> "r1", registration |-> "r1"]

\* What one of the runs may turn out to be instead.
Defects(k, clean) ==
    LET other == record.partition[(BlockOf(k) % Blocks) + 1]
        first == CHOOSE c \in clean.planned : TRUE
    IN
    {[clean EXCEPT !.verdict[first] = "infra"],
     [clean EXCEPT !.planned = other, !.verdict = [c \in other |-> "pass"]],
     [clean EXCEPT !.planned = @ \cup other],
     [clean EXCEPT !.route = "other"],
     [clean EXCEPT !.complete = FALSE],
     [clean EXCEPT !.registration = NoRegistration],
     [clean EXCEPT !.variant = IF clean.variant = NoVariant THEN Measured ELSE NoVariant],
     [clean EXCEPT !.variant = IF clean.variant = NoVariant THEN NoVariant
                               ELSE [Measured EXCEPT !.measures = "another order"]]}

Run(k, p, bad) ==
    /\ record # Nothing
    /\ Executed = 1..(k - 1)
    /\ \/ p = CleanRun(k, bad) /\ UNCHANGED faults
       \/ /\ faults < MaxFaults
          /\ bad = {}
          /\ p \in Defects(k, CleanRun(k, {})) \ {CleanRun(k, {})}
          /\ faults' = faults + 1
    /\ ran' = [ran EXCEPT ![k] = p]
    /\ dir' = [dir EXCEPT ![k] = p]
    /\ UNCHANGED <<record, lock, accepted>>

-----------------------------------------------------------------------------
(* The report and the population rules *)

\* One reference per slot is expected; `named` says which run each slot names.
RunIn(refs, slot) == (CHOOSE ref \in refs : ref.slot = slot).run

\* _recompute_report from the verdicts of the runs the references name.
ReportOf(refs, verdict, partition, schedule) ==
    LET sees(b, arm, c) == LET rows == verdict[RunIn(refs, <<b, arm>>)] IN
                           c \in DOMAIN rows /\ rows[c] = "pass"
        outcomes == UNION {{[case |-> c, block |-> b,
                             anchor    |-> sees(b, "anchor", c),
                             treatment |-> sees(b, "treatment", c),
                             repeat    |-> sees(b, "repeat", c)] : c \in partition[b]}
                           : b \in BlockIds}
        diffs == SlotDifferences(outcomes, schedule)
        z     == [b \in BlockIds |-> Sign(schedule[b])]
    IN  [estimand |-> Estimand(outcomes), test |-> Randomization(diffs, z)]

\* Faulty variant: the digests are compared, the draw is not replayed.
DigestsOnly(l) ==
    /\ l.partition = l.manifest.partition
    /\ l.schedule = l.manifest.schedule

\* The digests match, and the seeds they were earned from are replayed.
ReplaysSeeds(l) ==
    /\ l.partition = l.manifest.partition
    /\ l.schedule = l.manifest.schedule
    /\ l.manifest.partition = Partition(SelectedIds(l.selection), l.manifest.seed)
    /\ l.manifest.schedule = Draw

\* _verify_slot_references: exactly the scheduled slots, each with its own run
\* and its own proof, none of them named as failed.
SlotsAreExact(refs) ==
    /\ {ref.slot : ref \in refs} = Slots
    /\ Cardinality(refs) = Cardinality(Slots)
    /\ Cardinality({ref.run : ref \in refs}) = Cardinality(refs)
    /\ Cardinality({ref.proof : ref \in refs}) = Cardinality(refs)
    /\ \A ref \in refs : ~ref.failed

\* _verify_population: declared parameters, the retained selection, both
\* replays, a partition of the declared population, and the slots.
PopulationHolds(l) ==
    /\ l.manifest.parameters = "declared"
    /\ l.manifest.selection = l.selection
    /\ ReplaysSeeds(l)
    /\ UNION {l.partition[b] : b \in BlockIds} = SelectedIds(l.selection)
    /\ SlotsAreExact(l.refs)

-----------------------------------------------------------------------------
(* Building the lock *)

Failed(k) == \E c \in DOMAIN ran[k].verdict : ran[k].verdict[c] = "infra"

\* What the caller references: the runs by slot, with the failures it noticed.
HonestRefs(noticed) ==
    {[slot |-> <<BlockOf(k), ArmOf(k)>>, run |-> k, proof |-> ran[k].id,
      failed |-> noticed /\ Failed(k)] : k \in Runs}

\* Two runs of one block are named for each other's slot.
Mislabelled(refs, b, x, y) ==
    LET other(slot) == CASE slot = <<b, x>> -> <<b, y>>
                         [] slot = <<b, y>> -> <<b, x>>
                         [] OTHER -> slot
    IN  {[ref EXCEPT !.slot = other(@)] : ref \in refs}

\* The lock's rows hold no failure label, so a lock read back names none.
Unlabelled(refs) == {[ref EXCEPT !.failed = FALSE] : ref \in refs}

\* _lock_payload, with the report of the runs referenced.
LockOf(refs) ==
    [manifest |-> record, selection |-> Selection,
     partition |-> record.partition, schedule |-> record.schedule, refs |-> Unlabelled(refs),
     report |-> ReportOf(refs, [k \in Runs |-> ran[k].verdict],
                         record.partition, record.schedule)]

\* build_protocol_lock sees references and a report, not the proofs.
BuildLock(refs) ==
    /\ lock = Nothing /\ Executed = Runs
    /\ SlotsAreExact(refs) /\ PopulationHolds(LockOf(refs))
    /\ lock' = LockOf(refs)
    /\ UNCHANGED <<record, ran, dir, accepted>>

BuildHonest(noticed) == BuildLock(HonestRefs(noticed)) /\ UNCHANGED faults

BuildMislabelled(b, x, y) ==
    /\ faults < MaxFaults
    /\ BuildLock(Mislabelled(HonestRefs(TRUE), b, x, y))
    /\ faults' = faults + 1

-----------------------------------------------------------------------------
(* Verifying the lock *)

\* _load_slot: the proof in the run's directory is the one named, one eligible
\* side of the arm's representation, and plans and observes the block's cases.
SlotLoads(l, ref) ==
    LET p   == dir[ref.run]
        arm == ref.slot[2]
        cases == l.partition[ref.slot[1]]
    IN
    /\ p.complete
    /\ p.run = ref.run /\ p.id = ref.proof
    /\ BindSide(SideOf(arm), p)
    /\ BoundPopulation(p)
    /\ p.planned = cases /\ Observed(p) = cases
    /\ VariantParses(p)
    /\ (arm = "treatment") = (p.variant # NoVariant)

\* _bind_slots_to_protocol: one declared route, and one fixed treatment bound
\* to the anchor of its block.
SlotsBind(l) ==
    LET at(slot) == dir[RunIn(l.refs, slot)] IN
    /\ ConstantAxes([slot \in Slots |-> at(slot)])
    /\ \A slot \in Slots : at(slot).route = "declared"
    /\ \A b \in BlockIds :
          VariantBinds(at(<<b, "treatment">>).variant, l.selection,
                       at(<<b, "anchor">>), at(<<b, "treatment">>))
    /\ Cardinality({at(<<b, "treatment">>).variant : b \in BlockIds}) = 1

\* _retained_identity: the selection a lock carries replays, names this study
\* and ranks the catalog's own universe.
SelectionHolds(sel) == Replays(sel) /\ SelectsForStudy(sel) /\ VerifySources(sel)

\* verify_protocol_lock: every binding, then the report is recomputed from the
\* copied proofs and must be the locked one.  A verification reads everything
\* anew, so one that accepts is followed by no other.
VerifyLock ==
    /\ lock # Nothing /\ accepted = Nothing
    /\ SelectionHolds(lock.selection)
    /\ \A ref \in lock.refs : SlotLoads(lock, ref)
    /\ PopulationHolds(lock)
    /\ SlotsBind(lock)
    /\ lock.report = ReportOf(lock.refs, [k \in Runs |-> dir[k].verdict],
                              lock.partition, lock.schedule)
    /\ accepted' = lock
    /\ UNCHANGED <<record, ran, dir, lock, faults>>

-----------------------------------------------------------------------------
(* Disturbances *)

\* A run's directory holds the copied proof of another run.
CopyProof(k, other) ==
    /\ faults < MaxFaults
    /\ lock # Nothing /\ accepted = Nothing /\ k # other
    /\ dir' = [dir EXCEPT ![k] = ran[other]]
    /\ faults' = faults + 1
    /\ UNCHANGED <<record, ran, lock, accepted>>

OtherOrder(slots) == IF slots = TreatmentFirst THEN RepeatFirst ELSE TreatmentFirst

\* The runs an edit may name instead: of the same block, or of the next one.
Swappable(k) == {j \in Runs : BlockOf(j) = BlockOf(k) \/ j = k + 3}

\* The report is made to agree with what the lock now names.
WithReport(l) ==
    IF SlotsAreExact(l.refs)
    THEN [l EXCEPT !.report = ReportOf(l.refs, [k \in Runs |-> ran[k].verdict],
                                       l.partition, l.schedule)]
    ELSE l

Redealt(l, seed, named) ==
    [l EXCEPT !.partition = Partition(Cohort, seed),
              !.manifest.partition = Partition(Cohort, seed), !.manifest.seed = named]
Reordered(l, b) ==
    [l EXCEPT !.schedule[b] = OtherOrder(@), !.manifest.schedule[b] = OtherOrder(@)]
Dropped(l, ref)  == [l EXCEPT !.refs = @ \ {ref}]
Moved(l, ref, k) == [l EXCEPT !.refs = (@ \ {ref}) \cup {[ref EXCEPT !.run = k, !.proof = k]}]

\* One field of the lock is edited and every digest and the report made to
\* agree with it: another blocking seed, a reordered block, a reference
\* dropped, doubled or moved, a relaxed parameter, another report.
EditedLocks(l) ==
    {WithReport(Redealt(l, seed, named)) : seed \in Seeds, named \in Seeds}
    \cup {WithReport(Reordered(l, b)) : b \in BlockIds}
    \cup {Dropped(l, ref) : ref \in l.refs}
    \cup (UNION {{WithReport(Moved(l, ref, k)) : k \in Swappable(ref.run)} : ref \in l.refs})
    \cup {[l EXCEPT !.manifest.parameters = "relaxed"],
          [l EXCEPT !.report.test.beyond = 0]}

EditLock(l) ==
    /\ lock' = l
    /\ faults' = faults + 1
    /\ UNCHANGED <<record, ran, dir, accepted>>

-----------------------------------------------------------------------------
(* The specification *)

ProtocolInit ==
    /\ record = Nothing
    /\ ran = [k \in Runs |-> Missing]
    /\ dir = [k \in Runs |-> Missing]
    /\ lock = Nothing
    /\ accepted = Nothing
    /\ faults = 0

\* A study that a builder or a verifier refuses has no step left to take.
ProtocolOver == Executed = Runs /\ UNCHANGED protocolVars

ProtocolNext ==
    \/ \E seed \in Seeds : Freeze(seed)
    \/ /\ record # Nothing /\ Executed # Runs
       /\ LET k == Cardinality(Executed) + 1 IN
          \E bad \in SUBSET (Shaky[k] \cap record.partition[BlockOf(k)]) :
          \E p \in {CleanRun(k, bad)} \cup Defects(k, CleanRun(k, {})) : Run(k, p, bad)
    \/ /\ lock = Nothing /\ Executed = Runs
       /\ \/ \E noticed \in BOOLEAN : BuildHonest(noticed)
          \/ \E b \in BlockIds, x, y \in Arms : x # y /\ BuildMislabelled(b, x, y)
    \/ VerifyLock
    \/ \E k, other \in Runs : CopyProof(k, other)
    \/ /\ lock # Nothing /\ accepted = Nothing /\ faults < MaxFaults
       /\ \E l \in EditedLocks(lock) : EditLock(l)
    \/ ProtocolOver

ProtocolSpec == ProtocolInit /\ [][ProtocolNext]_protocolVars

-----------------------------------------------------------------------------
(* Properties *)

\* The run, as it was executed, that a verified lock names for a slot.
Named(b, arm) == ran[RunIn(accepted.refs, <<b, arm>>)]

\* A verified report is the truth about the runs it names: the disagreements
\* are those of the executed verdicts with the shared anchor, and the p-value
\* is the one that visiting every balanced assignment of the drawn schedule
\* gives, however the sums were counted and whatever was copied or edited.
ReportIsExact ==
    accepted # Nothing =>
        LET cases == Partition(Cohort, accepted.manifest.seed)
            missed(b, arm) ==
                Cardinality({c \in cases[b] :
                    (Named(b, arm).verdict[c] = "pass") # (Named(b, "anchor").verdict[c] = "pass")})
            diffs == [b \in BlockIds |-> missed(b, Draw[b][2]) - missed(b, Draw[b][3])]
        IN
        /\ accepted.report.estimand.v = Total([b \in BlockIds |-> missed(b, "treatment")])
        /\ accepted.report.estimand.r = Total([b \in BlockIds |-> missed(b, "repeat")])
        /\ accepted.report.test = ByEnumeration(diffs, [b \in BlockIds |-> Sign(Draw[b])])

\* Only the declared population is ever reported on: every slot of a verified
\* lock stands for a run of its own, which planned and scored exactly the cases
\* the blocking seed deals to that block, in the arm's representation, on the
\* declared route, with no infrastructure row and one fixed treatment, in the
\* slot order that was drawn and not one chosen after the outcomes.
OnlyEligibleRuns ==
    accepted # Nothing =>
        /\ accepted.schedule = Draw
        /\ accepted.partition = Partition(Cohort, accepted.manifest.seed)
        /\ \A s, t \in Slots : RunIn(accepted.refs, s) = RunIn(accepted.refs, t) => s = t
        /\ \A b \in BlockIds, arm \in Arms :
              LET p == Named(b, arm) IN
              /\ p.complete /\ p.benchmark = SideOf(arm) /\ p.route = "declared"
              /\ DOMAIN p.verdict = accepted.partition[b] /\ p.planned = accepted.partition[b]
              /\ \A c \in DOMAIN p.verdict : p.verdict[c] \in {"pass", "fail"}
        /\ Cardinality({Named(b, "treatment").variant : b \in BlockIds}) = 1

=============================================================================

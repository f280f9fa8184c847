--------------------------- MODULE StudyEvidence ---------------------------
(***************************************************************************)
(* What an exposure study accepts as evidence, from                        *)
(* src/bencheval/exposure_study.py, exposure_selection.py and the binding  *)
(* rules of exposure_report.py.  Both readers of proofs, the two-proof     *)
(* lock (ExposureLock) and the repeat protocol (RepeatProtocol), use these *)
(* operators: exposure_report.py exports the rules to exposure_protocol.py.*)
(*                                                                         *)
(* A digest is its content: two digests are equal when what they digest is.*)
(* A complete private proof is a record of what one run planned and        *)
(* observed; the proof store has already bound its files to its id.        *)
(***************************************************************************)
EXTENDS Naturals, FiniteSets

CONSTANTS
    Cases,        \* ids of the official, pinned question files
    Strata,       \* the study's strata (official categories)
    StratumOf,    \* the category an id names
    Rank,         \* place of an id in the sha256 order under the study seed
    Declared,     \* cases the study declares per stratum
    SmokeCount,   \* cases per stratum of a plumbing run
    Paired        \* a representation pair (TRUE) or a freshness contrast

ASSUME CasesAreFinite == IsFiniteSet(Cases)
ASSUME RankIsTotal ==
    /\ \A c \in Cases : Rank[c] \in Nat
    /\ \A c, d \in Cases : Rank[c] = Rank[d] => c = d
ASSUME DeclaredFits ==
    \A s \in Strata : Declared[s] \in 1..Cardinality({c \in Cases : StratumOf[c] = s})

Sides == {"canonical", "candidate"}

\* The study under analysis and one it could be mistaken for; a study's digest
\* stands for its id, seed, transform and counts.
ThisStudy  == "this"
OtherStudy == "other"

NoVariant      == [measures |-> "nothing"]
NoRegistration == "no registration"
NoSelection    == [study |-> "none"]

Official(s) == {c \in Cases : StratumOf[c] = s}

(***************************************************************************)
(* Seeded selection                                                        *)
(***************************************************************************)

\* The first n of pool by rank: no other order of the candidates matters.
SelectStratum(pool, n) ==
    {c \in pool : Cardinality({d \in pool : Rank[d] < Rank[c]}) < n}

\* A selection record: the study it names, each stratum's recorded candidates
\* and the ids it selects.  A representation pair's candidate side inherits the
\* strata of its canonical side, so one function serves both.
SelectionOf(pools) ==
    [study  |-> ThisStudy,
     pool   |-> pools,
     chosen |-> [s \in Strata |-> SelectStratum(pools[s], Declared[s])]]

SelectedIds(sel) == UNION {sel.chosen[s] : s \in Strata}

\* A record parses only when every stratum replays over its own candidates.
Replays(sel) ==
    \A s \in Strata :
        sel.chosen[s] = SelectStratum(sel.pool[s], Cardinality(sel.chosen[s]))

\* Faulty variant: the record's own candidates are trusted; the catalog's
\* population anchors are not consulted.
TrustSources(sel) == TRUE

\* verify_selection_against_catalog: the recorded candidates are the anchored
\* universe of the pinned question file.
VerifySources(sel) == \A s \in Strata : sel.pool[s] = Official(s)

SelectsForStudy(sel) == sel.study = ThisStudy

(***************************************************************************)
(* One side: eligible rows with one identity                               *)
(***************************************************************************)

Observed(p) == DOMAIN p.verdict
Passed(p)   == {c \in Observed(p) : p.verdict[c] = "pass"}

\* eligible_for_pass_at_k: a row whose class is an infrastructure failure, or
\* that is invalid, is not the model's.
Ineligible(p) == {c \in Observed(p) : p.verdict[c] \notin {"pass", "fail"}}

\* The identity a row must carry: the catalog's, except for the candidate of a
\* representation pair, which carries a derived label of its own.
VersionFor(side) == IF Paired /\ side = "candidate" THEN "derived" ELSE "catalog"

\* _bind_side: rows of the declared benchmark, all of them eligible, natively
\* verified and captured, under one identity.  One ineligible row refuses all.
BindSide(side, p) ==
    /\ Observed(p) # {}
    /\ p.benchmark = side
    /\ Ineligible(p) = {}
    /\ p.captured
    /\ p.version = VersionFor(side)

\* _assert_constant_axes over any number of sides, each at its own place: one
\* route, one producer, known access axes, and a run of its own for each side.
ConstantAxes(side) ==
    /\ Cardinality({side[i].route : i \in DOMAIN side}) = 1
    /\ \A i \in DOMAIN side : side[i].route # "legacy"
    /\ \A i, j \in DOMAIN side : side[i].run = side[j].run => i = j

\* _assert_bound_population: the plan inside the proof names the benchmark and
\* slice that ran, and plans exactly what was observed.
BoundPopulation(p) == Observed(p) = p.planned

(***************************************************************************)
(* The variant manifest of a derived side                                  *)
(***************************************************************************)

\* _parse_variant reads the manifest out of the proof and requires the derived
\* bytes it declares beside it; a manifest without its bytes does not parse.
VariantParses(p) == p.variant # NoVariant => p.variant.retained

\* _assert_variant: the manifest measured this study's derivative of the very
\* source the anchor ran, and maps the selected cases onto themselves.
VariantBinds(v, sel, base, cand) ==
    /\ Paired
    /\ v.study = ThisStudy
    /\ cand.version = "derived"
    /\ base.version = "catalog"
    /\ sel # NoSelection => v.maps = SelectedIds(sel)
    /\ Observed(cand) \subseteq v.maps

(***************************************************************************)
(* The configured registration                                             *)
(***************************************************************************)

\* _assert_registration: a harness label that names a registration is a claim;
\* the manifest retained in the proof substantiates it, and both arms share it.
\* Raw evidence comes without the proof that would retain one.
Retained(p, bound) == IF bound THEN p.registration ELSE NoRegistration

RegistrationBinds(base, cand, bound) ==
    /\ \A p \in {base, cand} : p.label = Retained(p, bound)
    /\ Retained(base, bound) = Retained(cand, bound)

(***************************************************************************)
(* Scale of a population                                                   *)
(***************************************************************************)

CountIn(p, s) == Cardinality({c \in Observed(p) : StratumOf[c] = s})

IsSmoke(ps)    == \A p \in ps, s \in Strata : CountIn(p, s) = SmokeCount
IsDeclared(ps) == \A p \in ps, s \in Strata : CountIn(p, s) = Declared[s]

\* _population_scale looks for the smoke counts first.
ScaleOf(ps) ==
    IF IsSmoke(ps) THEN "smoke" ELSE IF IsDeclared(ps) THEN "declared" ELSE "neither"

=============================================================================

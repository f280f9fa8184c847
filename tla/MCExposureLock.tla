--------------------------- MODULE MCExposureLock ---------------------------
(***************************************************************************)
(* A study over five official ids in two strata, three of them declared;   *)
(* two writers of the same outputs.  A run of a side ends with a clean     *)
(* proof of the declared, the smoke or a trimmed population, or with one   *)
(* defect.                                                                 *)
(***************************************************************************)
EXTENDS ExposureLock, TLC

CONSTANTS w1, w2

MCWriters == {w1, w2}
Symmetry  == Permutations(MCWriters)

MCCases     == {"m1", "m2", "m3", "q1", "q2"}
MCStrata    == {"multiple", "parallel"}
MCStratumOf == [c \in MCCases |-> IF c \in {"q1", "q2"} THEN "parallel" ELSE "multiple"]
MCRank      == [c \in MCCases |-> CASE c = "m1" -> 1 [] c = "m2" -> 2 [] c = "m3" -> 3
                                    [] c = "q1" -> 5 [] c = "q2" -> 4]
MCDeclared  == [s \in MCStrata |-> IF s = "multiple" THEN 2 ELSE 1]

\* The seeded population is {m1, m2, q2}; without m1 among the candidates the
\* same rule selects {m2, m3, q2}.
Seeded  == {"m1", "m2", "q2"}
Trimmed == {"m2", "m3", "q2"}
Smoke   == {"m1", "q2"}

Pools(without) == [s \in MCStrata |-> {c \in MCCases \ without : MCStratumOf[c] = s}]

Seed == SelectionOf(Pools({}))
MCSelections ==
    {NoSelection, Seed, SelectionOf(Pools({"m1"})), [Seed EXCEPT !.study = OtherStudy]}

\* A clean proof of a side over a population of which `good` pass.
Clean(side, pop, good) ==
    [id        |-> [side |-> side, of |-> pop, passed |-> good],
     run       |-> IF side = "canonical" THEN 1 ELSE 2,
     complete  |-> TRUE,
     benchmark |-> side,
     slice     |-> IF pop = Smoke THEN "smoke" ELSE "declared",
     planned   |-> pop,
     verdict   |-> [c \in pop |-> IF c \in good THEN "pass" ELSE "fail"],
     captured  |-> TRUE,
     version   |-> IF side = "canonical" THEN "catalog" ELSE "derived",
     route     |-> "route",
     variant   |-> IF side = "canonical" THEN NoVariant
                   ELSE [measures |-> "order", study |-> ThisStudy,
                         maps |-> IF pop = Smoke THEN Seeded ELSE pop, retained |-> TRUE],
     label     |-> NoRegistration,
     registration |-> NoRegistration]

Base(side) == Clean(side, Seeded, {"m1"})

Fault(where, n) == [side |-> where, defect |-> n]

\* One thing wrong with an otherwise declared run.
Defects(side) ==
    {[Base(side) EXCEPT !.id = Fault(side, 1), !.verdict["m2"] = "infra"],
     [Base(side) EXCEPT !.id = Fault(side, 2), !.route = "other route"],
     [Base(side) EXCEPT !.id = Fault(side, 3), !.captured = FALSE],
     [Base(side) EXCEPT !.id = Fault(side, 4), !.complete = FALSE],
     [Base(side) EXCEPT !.id = Fault(side, 5), !.planned = Seeded \cup {"m3"}],
     [Base(side) EXCEPT !.id = Fault(side, 6), !.label = "r1"],
     [Base(side) EXCEPT !.id = Fault(side, 7), !.label = "r1", !.registration = "r1"],
     [Base(side) EXCEPT !.id = Fault(side, 8), !.route = "legacy"]}

VariantDefects ==
    {[Base("candidate") EXCEPT !.id = Fault("variant", 1), !.variant = NoVariant],
     [Base("candidate") EXCEPT !.id = Fault("variant", 2), !.variant.study = OtherStudy],
     [Base("candidate") EXCEPT !.id = Fault("variant", 3), !.variant.maps = Trimmed],
     [Base("candidate") EXCEPT !.id = Fault("variant", 4), !.variant.retained = FALSE],
     [Base("candidate") EXCEPT !.id = Fault("variant", 5), !.run = 1]}

MCShapes ==
    [side \in Sides |->
        {Clean(side, Seeded, good) : good \in {{"m1"}, {"m1", "q2"}}}
        \cup {Clean(side, Trimmed, {"m2"}), Clean(side, Smoke, {"m1"})}
        \cup Defects(side)
        \cup (IF side = "candidate" THEN VariantDefects ELSE {})]

=============================================================================

--------------------------- MODULE RepeatAnalysis ---------------------------
(***************************************************************************)
(* The analysis of the three-arm repeat protocol, from                     *)
(* src/bencheval/exposure_repeat.py: the shared-anchor estimand, the       *)
(* per-block slot differences and the exact randomization test.  Floating  *)
(* point (the t quantile, the block interval) is not modelled: a p-value is *)
(* the pair of integers it is the quotient of.                             *)
(***************************************************************************)
EXTENDS Integers, FiniteSets, Sequences, SequencesExt

\* An outcome is one case seen through the three arms of its block:
\* [case, block, anchor, treatment, repeat], the last three Booleans.
Arms == {"anchor", "treatment", "repeat"}

\* How many of the outcomes disagree with their shared anchor under arm.
Disagreements(outcomes, arm) == Cardinality({o \in outcomes : o[arm] # o.anchor})

\* build_estimand: the two disagreement counts and all eight cells.
Estimand(outcomes) ==
    [v     |-> Disagreements(outcomes, "treatment"),
     r     |-> Disagreements(outcomes, "repeat"),
     table |-> [cell \in [Arms -> BOOLEAN] |->
                  Cardinality({o \in outcomes : \A arm \in Arms : o[arm] = cell[arm]})]]

\* slot_differences: chronological slot 2 minus slot 3, block by block.
SlotDifferences(outcomes, slots) ==
    [b \in DOMAIN slots |->
        LET cases == {o \in outcomes : o.block = b} IN
        Disagreements(cases, slots[b][2]) - Disagreements(cases, slots[b][3])]

Magnitude(n) == IF n < 0 THEN -n ELSE n
Total(values) == FoldLeft(LAMBDA sum, v : sum + v, 0, values)

\* Every sum that some of the values can have.
Reach(values) ==
    LET bound == Total([i \in DOMAIN values |-> Magnitude(values[i])]) IN
    (-bound)..bound

\* Faulty variant: the row of a size is extended from the row of the smaller
\* size this very value has already extended, so one block counts twice.
ExtendAscending(table, value, choose, reach) ==
    LET new[k \in 0..choose] ==
          [t \in reach |-> table[k][t]
              + (IF k > 0 /\ (t - value) \in reach THEN new[k - 1][t - value] ELSE 0)]
    IN  new

\* One value enters the table: sizes are visited from the largest down, so each
\* row is extended from the row as it was before this value.
Extend(table, value, choose, reach) ==
    [k \in 0..choose |->
        [t \in reach |-> table[k][t]
            + (IF k > 0 /\ (t - value) \in reach THEN table[k - 1][t - value] ELSE 0)]]

\* subset_sum_counts: subsets of `choose` values counted by their sum.
SubsetSums(values, choose) ==
    LET reach == Reach(values)
        empty == [k \in 0..choose |-> [t \in reach |-> IF k = 0 /\ t = 0 THEN 1 ELSE 0]]
    IN  FoldLeft(LAMBDA table, v : Extend(table, v, choose, reach), empty, values)[choose]

\* The sum of a function's values over a finite set.
SumOver(f, set) == FoldFunctionOnSet(LAMBDA n, sum : n + sum, 0, f, set)

\* randomization_p_value: for a balanced assignment z, the statistic is twice
\* the selected sum less the whole, so counting sums counts allocations.
Randomization(diffs, z) ==
    LET counts == SubsetSums(diffs, Len(diffs) \div 2)
        reach  == Reach(diffs)
        seen   == Magnitude(Total([b \in DOMAIN diffs |-> z[b] * diffs[b]]))
    IN  [statistic |-> seen,
         space     |-> SumOver(counts, reach),
         beyond    |-> SumOver(counts, {t \in reach : Magnitude(2 * t - Total(diffs)) >= seen})]

\* The same test by visiting every balanced assignment of signs.
ByEnumeration(diffs, z) ==
    LET signs == {y \in [DOMAIN diffs -> {1, -1}] : Total(y) = 0}
        T(y)  == Magnitude(Total([b \in DOMAIN diffs |-> y[b] * diffs[b]]))
    IN  [statistic |-> T(z),
         space     |-> Cardinality(signs),
         beyond    |-> Cardinality({y \in signs : T(y) >= T(z)})]

=============================================================================

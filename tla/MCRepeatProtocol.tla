-------------------------- MODULE MCRepeatProtocol --------------------------
(***************************************************************************)
(* Four blocks of two cases, one of each stratum, chosen from five official *)
(* ids per stratum: twelve runs.  In three of the blocks the verdict of the *)
(* first stratum's case is open in the treatment and the repeat run, and   *)
(* in the first anchor, so those slot differences range over {-1, 0, 1}.   *)
(***************************************************************************)
EXTENDS RepeatProtocol

MCStrata    == {"multiple", "parallel"}
MCCases     == {"m1", "m2", "m3", "m4", "m5", "q1", "q2", "q3", "q4", "q5"}
MCStratumOf == [c \in MCCases |-> IF c \in {"m1", "m2", "m3", "m4", "m5"} THEN "multiple"
                                  ELSE "parallel"]
Order       == <<"m1", "q3", "m2", "q1", "m3", "q5", "m4", "q2", "m5", "q4">>
MCRank      == [c \in MCCases |-> CHOOSE i \in 1..10 : Order[i] = c]
MCDeclared  == [s \in MCStrata |-> 4]
MCSeeds     == {"seed", "other seed"}
MCBlockRank == [seed \in MCSeeds |-> [c \in MCCases |->
                  IF seed = "seed" THEN 11 - MCRank[c] ELSE MCRank[c]]]
MCDrawRank  == <<2, 4, 1, 3>>
MCShaky     == [k \in 1..12 |->
                  IF k = 1 \/ (k < 10 /\ (k - 1) % 3 # 0) THEN {c \in MCCases : MCStratumOf[c] = "multiple"}
                  ELSE {}]

=============================================================================

------------------------- MODULE NativeLanesProofs --------------------------
(***************************************************************************)
(* Proofs about NativeLanes, for any wall, any number of planned questions *)
(* and samples, and any number of swaps of what the paths name.            *)
(*                                                                         *)
(* A swap only ever makes the version a path names grow.  A thing that was *)
(* captured at one version and is found at the same one later was not      *)
(* swapped in between, so every use in between was of that version: this   *)
(* is why a ladder of identity checks around the uses is enough, however   *)
(* the swaps fall between its rungs.                                       *)
(*                                                                         *)
(* The last sections are about CybermetricSlice, for any number of         *)
(* questions and attempts and any walls: no lock guards the flag and the   *)
(* socket, and what decides is the order in which each thread does things. *)
(* SliceStepsLeft bounds what the two threads have left to do.             *)
(***************************************************************************)
EXTENDS NativeLanes, CybermetricSlice, TLAPS

Versions == Absent..Last

Typed(xs) ==
    /\ ver \in [xs -> Versions] /\ cap \in [xs -> Versions]
    /\ seen \in [xs -> SUBSET Versions]

\* No process has used a thing; what it was used at lies between what was
\* captured and what is there; it was used as captured only.
Unused(x) == seen[x] = {}
Held(x)   == /\ cap[x] <= ver[x]
             /\ \A s \in seen[x] : cap[x] <= s /\ s <= ver[x]
             /\ disturbs = 0 => ver[x] = cap[x]
Tight(x)  == seen[x] \subseteq {cap[x]}

\* Unused while the attempt has not captured it, and held from then on.
HeldFrom(x, steps) ==
    /\ pc \in steps => Unused(x)
    /\ pc \notin steps \cup {"over"} => Held(x)

-----------------------------------------------------------------------------
(* What holds of an attempt in each lane, by how far it is *)

GpqaAfter == {"artifacts", "logs", "reread", "parse", "retain", "stamp"}

GpqaInv ==
    /\ Typed(GpqaThings)
    /\ \A x \in GpqaOwned : HeldFrom(x, {"start"})
    /\ pc \in GpqaAfter => truth \in GpqaRuns
    /\ pc \in {"retain", "stamp"} =>
          found = Nothing \/ (found = GpqaScore /\ truth.rc = 0 /\ truth.valid)

HarborBefore == {"start", "pin", "env", "launch", "running", "identity", "locate"}

HarborInv ==
    /\ Typed(HarborThings)
    /\ HeldFrom("instance", {"start", "pin"})
    /\ HeldFrom("result", HarborBefore)
    /\ pc \in {"identity", "locate", "retain", "relocate", "score"} => truth \in HarborRuns
    /\ pc \in {"retain", "relocate", "score"} =>
          found = [kind |-> HarborLocated(truth)] /\ HarborLocated(truth) # "ambiguous"

HlePredicted == [kind : {"predicted"}, rc : {0, 1}, file : BOOLEAN, predicted : 0..Samples]
HleJudged ==
    {j \in [kind : {"judged"}, rc : {0, 1}, crash : BOOLEAN, odd : BOOLEAN, file : BOOLEAN,
            predicted : 0..Samples, rows : 0..Samples, right : 0..Samples] :
        j.rows <= j.predicted /\ j.right <= j.rows}

\* Before which steps each of the attempt's own things is not captured yet.
HleKept == {"artifacts", "work", "copies", "cache", "dataset"}
HleFrom ==
    [artifacts |-> {"start", "artifacts"},
     work      |-> {"start", "artifacts", "work"},
     copies    |-> {"start", "artifacts", "work", "scripts"},
     cache     |-> {"start", "artifacts", "work", "scripts", "cache"},
     dataset   |-> {"start", "artifacts", "work", "scripts", "cache", "fetch", "identity", "manifest"}]
HleBefore == HleFrom.dataset \cup {"dataset", "version"}
HleChecks  == {"work1", "cache1", "phase1", "work2", "cache2", "phase2"}
HleEnd     == {"copies", "source", "logs", "parse", "stamp"}

HleInv ==
    /\ Typed(HleThings)
    /\ \A x \in HleKept : HeldFrom(x, HleFrom[x])
    /\ pc \notin HleBefore \cup {"over"} /\ disturbs = 0 => ver["checkout"] = cap["checkout"]
    /\ pc \in {"judge", "judging"} => truth \in HlePredicted
    /\ pc \in HleChecks \cup HleEnd => truth \in HlePredicted \cup HleJudged
    /\ pc \in {"phase1", "phase2"} \cup HleEnd => Tight("cache") /\ Tight("dataset")
    /\ pc \in HleEnd \ {"copies"} => Tight("copies")
    /\ pc = "stamp" => found = Nothing \/
          /\ truth.kind = "judged" /\ ~truth.odd /\ truth.rows = Samples
          /\ found = [kind |-> "score", right |-> truth.right, total |-> truth.rows]

BfclRows == {"one", "none", "others"}
BfclGenerated == [kind : {"generated"}, rc : {0, 1}, error : BOOLEAN, rows : BfclRows]
BfclEvaluated == [kind : {"evaluated"}, rc : {0, 1}, crash : BOOLEAN, files : 0..2,
                  coherent : BOOLEAN, right : BOOLEAN, linked : BOOLEAN,
                  rows : BfclRows, error : BOOLEAN]
BfclFound == [kind : {"plan"}, copied : BOOLEAN, exact : BOOLEAN, scores : 0..2,
              score : {"plain", "unsafe"}]

\* Before which steps each thing the attempt captures is not captured yet, and
\* which of them it captures at all.
BfclKept   == BfclDirs \cup {"package", "copy", "answer"}
BfclStart  == {"start", "package"}
BfclEarly  == BfclStart \cup {"copy"}
BfclBefore == BfclEarly \cup {"study", "dirs"}
BfclFirst  == BfclBefore \cup {"copy0", "generate", "generating", "dirs1", "answer1"}
BfclFrom   == [x \in BfclKept |-> CASE x = "package" -> BfclStart [] x = "copy" -> BfclEarly
                                     [] x \in BfclDirs -> BfclBefore [] x = "answer" -> BfclFirst]
BfclWants(x) == (x = "copy" => found.copied) /\ (x = "answer" => found.exact)

BfclMiddle  == {"remaining", "data1", "evaluate", "evaluating"}
BfclEnd     == {"dirs2", "data2", "answer2", "locate", "score"}

BfclHeld ==
    \A x \in BfclKept :
        /\ pc \in BfclFrom[x] => Unused(x)
        /\ pc \notin BfclFrom[x] \cup {"over"} /\ BfclWants(x) => Held(x)

BfclInv ==
    /\ Typed(BfclThings)
    /\ BfclHeld
    /\ pc \notin BfclStart \cup {"over"} => cap["package"] = Pinned
    /\ pc \in BfclEarly \cup {"study"} /\ disturbs = 0 => ver["study"] # Last
    /\ pc \notin {"start", "over"} => found \in BfclFound
    /\ pc \in {"dirs1", "answer1"} \cup BfclMiddle => truth \in BfclGenerated
    /\ pc \in BfclEnd => truth \in BfclEvaluated
    /\ pc \in BfclMiddle \cup BfclEnd /\ found.exact => truth.rows = "one"
    /\ pc \in BfclEnd \ {"dirs2"} => \A x \in BfclDirs : Tight(x)
    /\ pc \in {"answer2", "locate", "score"} =>
          Tight(IF found.copied THEN "copy" ELSE "package")
    /\ pc \in {"locate", "score"} /\ found.exact => Tight("answer")
    /\ pc \in BfclEnd /\ disturbs = 0 /\ truth.files # 0 => ver["score"] = Pinned
    /\ pc = "score" =>
          /\ found.scores = IF BfclLooksFor THEN truth.files ELSE 0
          /\ disturbs = 0 => ver["score"] = cap["score"]
          /\ found.score = "unsafe" => truth.linked \/ disturbs # 0
          /\ cap["score"] = Pinned /\ found.scores # 0 /\ truth.linked => found.score = "unsafe"

SweEvaluated == [kind : {"evaluated"}, rc : {0, 1}, top : BOOLEAN, nested : 0..2, linked : BOOLEAN,
                 verdict : BOOLEAN, right : BOOLEAN,
                 logs : {"confirmed", "contradicted", "missing"},
                 summary : {"agrees", "disagrees", "empty", "absent"}]

SweBefore1 == {"start", "prepare"}
SweBefore2 == SweBefore1 \cup {"inputs", "generate", "generating", "swap1", "bind"}
SweBefore3 == SweBefore2 \cup {"identity", "predict", "evaluate"}
SweMiddle  == {"predict", "evaluate", "launch", "evaluating"}
SweEnd     == {"leaves", "report", "score", "summary"}

\* Before which steps each of the attempt's own things is not captured yet.
SweKept == {"instance", "official", "input", "predictions"}
SweFrom == [x \in SweKept |-> IF x = "instance" THEN SweBefore1 ELSE SweBefore3]

\* The copies of the logs, from when they are made.
SweTwins ==
    /\ pc \in SweBefore2 \cup {"identity"} => Unused("twins")
    /\ pc \notin SweBefore2 \cup {"over"} => cap["twins"] = Pinned

SweRuns ==
    /\ pc \in {"swap1", "bind", "identity"} \cup SweMiddle => truth \in SweGenerations
    /\ pc \in SweEnd => truth \in SweEvaluated

\* Read in their own directory, BenchEval's copies were read for what they say.
SweAttributed ==
    /\ pc \in SweMiddle \cup SweEnd /\ seen["twins"] \subseteq {Pinned}
    /\ pc = "summary" \/ ver["instance"] = cap["instance"]
    => truth.logs = "confirmed"

\* No former report is there to be taken for the evaluator's.
SweReported ==
    /\ pc \in {"launch", "evaluating"} => ver["report"] = Absent
    /\ pc \in SweEnd => ver["report"] # 0
    /\ pc \in {"score", "summary"} /\ ver["report"] = Pinned => cap["report"] = Pinned

SweTight ==
    /\ pc \in SweEnd \ {"leaves"} => Tight("input") /\ Tight("predictions")
    /\ pc = "summary" => Tight("instance")

SweFound ==
    pc = "summary" =>
        /\ found \in [kind : {"score"}, verdict : BOOLEAN, right : BOOLEAN, label : Labels]
        /\ found.right => found.verdict
        /\ found.label = SweByReport(found.verdict, found.right)
        /\ ver["report"] = Absent => ~found.verdict
        /\ ver["report"] = Pinned => found.verdict = truth.verdict /\ found.right = truth.right

SweInv ==
    /\ Typed(SweThings)
    /\ \A x \in SweKept : HeldFrom(x, SweFrom[x])
    /\ SweTwins /\ SweRuns /\ SweAttributed /\ SweReported /\ SweTight /\ SweFound

AgentFrom == [x \in AgentDirs |-> {"start"}]

AgentInv ==
    /\ Typed(AgentThings)
    /\ \A x \in AgentDirs : HeldFrom(x, AgentFrom[x])
    /\ pc \in {"identity", "content"} => found \in [kind : {"written", "unwritten"}]
    /\ pc = "content" => found.kind = "written" /\ Tight("instance")
    /\ pc \in {"identity", "content"} /\ found.kind = "written" /\ disturbs = 0 =>
          ver["logs"] = cap["logs"]

Verdicts == SettledIsCaptured /\ VerdictIsEarned /\ CorruptHasCause

FrameInv == disturbs \in Nat /\ (pc # "over" => out = "none") /\ Verdicts

LaneInv ==
    /\ FrameInv
    /\ lane \in {"gpqa", "harbor", "hle", "bfcl", "swe", "agent"}
    /\ lane = "gpqa"   => GpqaInv
    /\ lane = "harbor" => HarborInv
    /\ lane = "hle"    => HleInv
    /\ lane = "bfcl"   => BfclInv
    /\ lane = "swe"    => SweInv
    /\ lane = "agent"  => AgentInv
-----------------------------------------------------------------------------
(* Rows that carry no verdict *)

Harmless == {"none", "refused", "runtime_config_drift", "runtime_budget_exceeded",
             "runtime_launch_failure", "runtime_output_unparseable", "remote_infra_failure",
             "materialization_failure"}

\* A row with such a label, or none yet, claims nothing.
LEMMA Silent ==
    ASSUME out' \in Harmless \/ (lane' # "agent" /\ out' \in {"harness_failure"})
    PROVE  Verdicts'
BY DEF Verdicts, SettledIsCaptured, Settled, VerdictIsEarned, CorruptHasCause, Scored,
   AgentCaptured, Harmless

LEMMA Alarmed ==
    ASSUME out' = "evidence_corrupt", disturbs' > 0 \/ Irregular'
    PROVE  Verdicts'
BY DEF Verdicts, SettledIsCaptured, Settled, VerdictIsEarned, CorruptHasCause, Scored,
   AgentCaptured

LEMMA GoesOn ==
    ASSUME FrameInv, NEW step, pc # "over", Goto(step), UNCHANGED disturbs
    PROVE  FrameInv'
<1>1. out' = "none" /\ disturbs' \in Nat
  BY DEF FrameInv, Goto, verdict
<1> QED
  BY <1>1, Silent DEF FrameInv, Harmless

LEMMA Fails ==
    ASSUME FrameInv, UNCHANGED disturbs, pc' = "over",
           out' \in Harmless \/ (lane' # "agent" /\ out' \in {"harness_failure"})
    PROVE  FrameInv'
BY Silent DEF FrameInv

LEMMA Corrupts ==
    ASSUME FrameInv, UNCHANGED disturbs, pc' = "over", out' = "evidence_corrupt",
           disturbs # 0 \/ Irregular'
    PROVE  FrameInv'
BY Alarmed DEF FrameInv

LEMMA Pass ==
    ASSUME FrameInv, UNCHANGED disturbs, pc' = "over", out' \in Scored,
           SettledIsCaptured', VerdictIsEarned'
    PROVE  FrameInv'
BY DEF FrameInv, Verdicts, CorruptHasCause, Scored

-----------------------------------------------------------------------------
(* Swaps and uses *)

LEMMA VersionsAre == Versions = {-1, 0, 1, 2} /\ Absent = -1 /\ Pinned = 1 /\ Last = 2
BY DEF Versions, Absent, Pinned, Last

\* A swap: no version shrinks, and what was held is held.
LEMMA Swapped ==
    ASSUME NEW T, Typed(T), disturbs \in Nat, Disturb
    PROVE  /\ Typed(T)' /\ disturbs' \in Nat \ {0} /\ UNCHANGED <<cap, seen>>
           /\ \A x \in T : ver[x] <= ver'[x]
           /\ \A x \in T : ver[x] # ver'[x] => ver[x] \in {0, 1}
           /\ \A x \in T : Held(x) => Held(x)'
           /\ \A x \in T : Unused(x) => Unused(x)'
           /\ \A x \in T : Tight(x) => Tight(x)'
<1>1. /\ ver \in [T -> Versions] /\ cap \in [T -> Versions] /\ seen \in [T -> SUBSET Versions]
  BY DEF Typed
<1>2. PICK z \in T : ver[z] \in 0..1 /\ ver' = [ver EXCEPT ![z] = ver[z] + 1]
  <2>1. PICK z \in DOMAIN ver : ver[z] \in 0..Last - 1 /\ ver' = [ver EXCEPT ![z] = ver[z] + 1]
    BY DEF Disturb
  <2>2. DOMAIN ver = T /\ 0..Last - 1 = 0..1
    BY <1>1 DEF Last
  <2> QED
    BY <2>1, <2>2
<1>3. UNCHANGED <<cap, seen>> /\ disturbs' \in Nat \ {0}
  BY DEF Disturb
<1>4. ver[z] + 1 \in Versions
  BY <1>2 DEF Versions, Absent, Last
<1>5. ver' \in [T -> Versions]
  BY <1>1, <1>2, <1>4
<1>6. \A x \in T : ver[x] <= ver'[x] /\ (ver[x] # ver'[x] => ver[x] \in {0, 1})
  BY <1>1, <1>2, VersionsAre
<1>7. ASSUME NEW x \in T, Held(x) PROVE Held(x)'
  <2>1. cap[x] \in Int /\ ver[x] \in Int /\ ver'[x] \in Int /\ seen[x] \subseteq Int
    BY <1>1, <1>5, VersionsAre
  <2> QED
    BY <1>3, <1>6, <1>7, <2>1 DEF Held
<1> QED
  BY <1>1, <1>3, <1>5, <1>6, <1>7 DEF Typed, Unused, Tight

LEMMA SwapHeldFrom ==
    ASSUME NEW T, Typed(T), disturbs \in Nat, Disturb, NEW x \in T, NEW steps, HeldFrom(x, steps)
    PROVE  HeldFrom(x, steps)'
BY Swapped DEF HeldFrom, Disturb

-----------------------------------------------------------------------------
LEMMA StaysTyped ==
    ASSUME NEW T, Typed(T), UNCHANGED <<ver, cap, seen>>
    PROVE  Typed(T)'
BY DEF Typed

LEMMA PinTyped ==
    ASSUME NEW T, Typed(T), NEW xs, Pin(xs), UNCHANGED <<ver, seen>>
    PROVE  Typed(T)' /\ \A x \in T : cap'[x] = IF x \in xs THEN ver[x] ELSE cap[x]
BY DEF Typed, Pin

LEMMA UseTyped ==
    ASSUME NEW T, Typed(T), NEW xs, Use(xs), UNCHANGED <<ver, cap>>
    PROVE  Typed(T)' /\ \A x \in T : seen'[x] = IF x \in xs THEN seen[x] \cup {ver[x]} ELSE seen[x]
BY DEF Typed, Use

LEMMA UsesMore ==
    ASSUME NEW T, Typed(T), NEW xs, Use(xs), UNCHANGED <<ver, cap>>
    PROVE  Typed(T)' /\ \A x \in T : seen'[x] \subseteq seen[x] \cup {ver[x]}
BY UseTyped

LEMMA UsesNothing ==
    ASSUME NEW T, Typed(T), UNCHANGED seen
    PROVE  Use({})
<1>1. seen = [x \in DOMAIN seen |-> seen[x]]
  BY DEF Typed
<1>2. \A x : x \notin {}
  OBVIOUS
<1> QED
  BY <1>1, <1>2 DEF Use

\* What nobody touches stays as it was.
LEMMA HeldStays ==
    ASSUME NEW x, NEW steps, HeldFrom(x, steps), pc # "over",
           ver'[x] = ver[x], cap'[x] = cap[x], seen'[x] = seen[x], UNCHANGED disturbs,
           pc' \in steps => pc \in steps, pc \in steps => pc' \in steps \cup {"over"}
    PROVE  HeldFrom(x, steps)'
BY DEF HeldFrom, Held, Unused

\* One step of an attempt, for all the things it captures: each is left alone,
\* or used as it is now, or captured, or prepared before it is captured.
Kept(x)         == ver'[x] = ver[x] /\ cap'[x] = cap[x]
Keeps(x, steps) ==
    \/ Kept(x) /\ seen'[x] = seen[x] /\ (pc' \in steps <=> pc \in steps)
    \/ Kept(x) /\ seen'[x] \subseteq seen[x] \cup {ver[x]} /\ {pc, pc'} \cap steps = {}
    \/ /\ pc \in steps /\ pc' \notin steps
       /\ seen'[x] = seen[x] /\ ver'[x] \in Versions /\ cap'[x] = ver'[x]
    \/ pc \in steps /\ pc' \in steps /\ seen'[x] = seen[x]

LEMMA KeepsOne ==
    ASSUME NEW T, Typed(T), NEW x \in T, NEW steps, HeldFrom(x, steps), Keeps(x, steps),
           UNCHANGED disturbs, pc # "over", pc' # "over"
    PROVE  HeldFrom(x, steps)'
<1>1. ver[x] \in Int /\ cap[x] \in Int /\ seen[x] \subseteq Int
  BY VersionsAre DEF Typed
<1>2. CASE Kept(x) /\ seen'[x] = seen[x] /\ (pc' \in steps <=> pc \in steps)
  BY <1>1, <1>2 DEF HeldFrom, Kept, Held, Unused
<1>3. CASE Kept(x) /\ seen'[x] \subseteq seen[x] \cup {ver[x]} /\ {pc, pc'} \cap steps = {}
  BY <1>1, <1>3 DEF HeldFrom, Kept, Held
<1>4. CASE /\ pc \in steps /\ pc' \notin steps
           /\ seen'[x] = seen[x] /\ ver'[x] \in Versions /\ cap'[x] = ver'[x]
  BY <1>1, <1>4, VersionsAre DEF HeldFrom, Held, Unused
<1>5. CASE pc \in steps /\ pc' \in steps /\ seen'[x] = seen[x]
  BY <1>1, <1>5 DEF HeldFrom, Unused
<1> QED
  BY <1>1, <1>2, <1>3, <1>4, <1>5 DEF Keeps

LEMMA KeepsHeld ==
    ASSUME NEW T, Typed(T), NEW K, K \subseteq T, NEW From, \A x \in K : HeldFrom(x, From[x]),
           UNCHANGED disturbs, pc # "over", pc' # "over", \A x \in K : Keeps(x, From[x])
    PROVE  \A x \in K : HeldFrom(x, From[x])'
BY KeepsOne

\* A thing is captured.
LEMMA HeldNow ==
    ASSUME NEW T, Typed(T), NEW x \in T, Unused(x), ver'[x] \in Versions, cap'[x] = ver'[x],
           seen'[x] = seen[x]
    PROVE  Held(x)'
BY VersionsAre DEF Held, Unused, Typed

\* A thing is used, as it is now.
LEMMA HeldUsed ==
    ASSUME NEW T, Typed(T), NEW x \in T, Held(x), ver'[x] = ver[x], cap'[x] = cap[x],
           seen'[x] \subseteq seen[x] \cup {ver[x]}, UNCHANGED disturbs
    PROVE  Held(x)'
BY VersionsAre DEF Held, Typed

\* What is found as it was captured was not swapped since.
LEMMA SameIsTight ==
    ASSUME NEW T, Typed(T), NEW x \in T, Held(x), ver[x] = cap[x]
    PROVE  Tight(x)
BY VersionsAre DEF Held, Typed, Tight

-----------------------------------------------------------------------------
(* GPQA *)

LEMMA GpqaSwap ==
    ASSUME GpqaInv, disturbs \in Nat, Disturb, lane = "gpqa"
    PROVE  GpqaInv'
<1>1. Typed(GpqaThings)'
  BY Swapped DEF GpqaInv
<1>2. ASSUME NEW x \in GpqaOwned PROVE HeldFrom(x, {"start"})'
  <2>1. x \in GpqaThings
    BY DEF GpqaThings
  <2> QED
    BY <2>1, SwapHeldFrom DEF GpqaInv
<1> QED
  BY <1>1, <1>2 DEF GpqaInv, Disturb, GpqaRuns, GpqaScore, GpqaTotal, GpqaUnique

LEMMA GpqaEnds ==
    ASSUME pc' = "over", Typed(GpqaThings)'
    PROVE  GpqaInv'
BY DEF GpqaInv, HeldFrom, GpqaAfter

\* A step that only moves on.
LEMMA GpqaMoves ==
    ASSUME GpqaInv, pc \notin {"start", "over"}, pc' # "start",
           UNCHANGED <<ver, cap, seen, disturbs, truth, found>>,
           pc' \in GpqaAfter => pc \in GpqaAfter,
           pc' \in {"retain", "stamp"} => pc \in {"retain", "stamp"}
    PROVE  GpqaInv'
<1>1. Typed(GpqaThings)'
  BY StaysTyped DEF GpqaInv
<1>2. \A x \in GpqaOwned : HeldFrom(x, {"start"})'
  BY HeldStays DEF GpqaInv
<1> QED
  BY <1>1, <1>2 DEF GpqaInv, GpqaRuns, GpqaScore, GpqaTotal, GpqaUnique

\* The things captured hold through a step that may use some of them.
LEMMA GpqaUses ==
    ASSUME GpqaInv, NEW xs, Use(xs), UNCHANGED <<ver, cap, disturbs>>,
           pc \notin {"start", "over"}, pc' \notin {"start", "over"}
    PROVE  Typed(GpqaThings)' /\ \A x \in GpqaOwned : HeldFrom(x, {"start"})'
<1>1. Typed(GpqaThings)
      /\ \A x \in GpqaThings : seen'[x] \subseteq seen[x] \cup {ver[x]}
  BY UseTyped DEF GpqaInv
<1>2. ASSUME NEW x \in GpqaOwned PROVE HeldFrom(x, {"start"})'
  <2>1. x \in GpqaThings /\ Held(x)
    BY DEF GpqaInv, HeldFrom, GpqaThings
  <2> QED
    BY <1>1, <2>1, HeldUsed DEF HeldFrom
<1> QED
  BY <1>2, UseTyped DEF GpqaInv

LEMMA GpqaCheck ==
    ASSUME GpqaInv, FrameInv, NEW step, NEW x \in GpqaOwned, NEW next,
           step \notin {"start", "over"}, next \notin {"start", "over"},
           next \in GpqaAfter => step \in GpqaAfter, next \notin {"retain", "stamp"},
           GpqaSame(step, x, next)
    PROVE  GpqaInv' /\ FrameInv' /\ lane' = "gpqa"
<1>1. pc = step /\ UNCHANGED <<lane, ver, cap, seen, disturbs, truth, found>> /\ lane = "gpqa"
  BY DEF GpqaSame, At, GpqaQuiet
<1>2. CASE Same({x})
  <2>1. Goto(next)
    BY <1>2 DEF GpqaSame
  <2> QED
    BY <1>1, <2>1, GpqaMoves, GoesOn DEF Goto
<1>3. CASE ~Same({x})
  <2>1. pc' = "over" /\ out' = "evidence_corrupt"
    BY <1>3 DEF GpqaSame, Stop
  <2>2. disturbs # 0
    BY <1>1, <1>3 DEF GpqaInv, HeldFrom, Held, Same
  <2> QED
    BY <1>1, <2>1, <2>2, Corrupts, GpqaEnds, StaysTyped DEF GpqaInv
<1> QED
  BY <1>2, <1>3

\* A complete score is of every planned question, in every epoch.
LEMMA GpqaCounts ==
    ASSUME truth \in GpqaRuns, truth.rc = 0, truth.valid, GpqaComplete(GpqaScore)
    PROVE  /\ truth.finished
           /\ truth.ids # "unusable" \/ seen["csv"] = {Pinned} => truth.asked = Slots
           /\ GpqaScore.right = GpqaScore.total <=> truth.right = truth.asked * truth.epochs
<1>1. truth.asked \in Nat /\ truth.epochs \in {1, 2} /\ Slots \in Nat \ {0} /\ truth.finished \in BOOLEAN
      /\ truth.ids \in {"listed", "unlisted", "unusable"}
  BY SlotsArePositive DEF GpqaRuns
<1>2. seen["csv"] = {Pinned} => truth.asked = Slots
  BY DEF GpqaRuns
<1>3. truth.finished /\ GpqaTotal(truth) = truth.asked * truth.epochs
  BY <1>1 DEF GpqaComplete, GpqaScore, GpqaTotal
<1>4. ASSUME truth.ids # "unusable" PROVE truth.asked = Slots
  <2>1. /\ truth.asked * truth.epochs > 0
        /\ IF GpqaUnique(truth) = 0 THEN truth.asked * truth.epochs = Slots
           ELSE GpqaUnique(truth) = Slots
                /\ truth.asked * truth.epochs = GpqaUnique(truth) * truth.epochs
    BY <1>3 DEF GpqaComplete, GpqaScore
  <2>2. GpqaUnique(truth) \in {truth.asked, Slots} /\ GpqaUnique(truth) # 0
    BY <1>1, <1>4, <2>1 DEF GpqaUnique
  <2>3. CASE truth.epochs = 1
    BY <1>1, <2>1, <2>2, <2>3
  <2>4. CASE truth.epochs = 2
    BY <1>1, <2>1, <2>2, <2>4
  <2> QED
    BY <1>1, <2>3, <2>4
<1> QED
  BY <1>2, <1>3, <1>4 DEF GpqaScore

LEMMA GpqaStep ==
    ASSUME GpqaInv, FrameInv, lane = "gpqa", GpqaNext
    PROVE  GpqaInv' /\ FrameInv' /\ lane' = "gpqa"
<1>0. Typed(GpqaThings)
  BY DEF GpqaInv
<1>1. CASE GpqaPin
  <2>1. /\ pc = "start" /\ Pin(GpqaOwned) /\ Goto("resolve")
        /\ UNCHANGED <<lane, ver, seen, disturbs>> /\ pc' = "resolve"
    BY <1>1 DEF GpqaPin, At, GpqaQuiet, Goto
  <2>2. Typed(GpqaThings)' /\ \A x \in GpqaOwned : cap'[x] = ver[x] /\ x \in GpqaThings
    BY <1>0, <2>1, PinTyped DEF GpqaThings
  <2>3. \A x \in GpqaOwned : Held(x)'
    <3> TAKE x \in GpqaOwned
    <3>1. Unused(x) /\ x \in GpqaThings /\ ver'[x] \in Versions
      BY <1>0, <2>1, <2>2 DEF GpqaInv, HeldFrom, Typed
    <3> QED
      BY <1>0, <2>1, <2>2, <3>1, HeldNow
  <2> QED
    BY <2>1, <2>2, <2>3, GoesOn DEF GpqaInv, HeldFrom, GpqaAfter
<1>2. CASE GpqaResolve
  <2>1. /\ pc = "resolve" /\ UNCHANGED <<lane, ver, cap, seen, disturbs, truth, found>>
        /\ Goto("package") \/ Stop("refused", 0)
    BY <1>2 DEF GpqaResolve, At, GpqaQuiet
  <2>2. CASE Goto("package")
    BY <2>1, <2>2, GpqaMoves, GoesOn DEF Goto, GpqaAfter
  <2>3. CASE Stop("refused", 0)
    BY <1>0, <2>1, <2>3, StaysTyped, GpqaEnds, Fails DEF Stop, Harmless
  <2> QED
    BY <2>1, <2>2, <2>3
<1>3. CASE GpqaPackage
  <2>1. /\ pc = "package" /\ Pin({"package"}) /\ UNCHANGED <<lane, ver, seen, disturbs, truth, found>>
        /\ Goto("fetch") \/ Stop("runtime_config_drift", 0)
    BY <1>3 DEF GpqaPackage, At, GpqaQuiet
  <2>2. Typed(GpqaThings)' /\ \A x \in GpqaOwned : cap'[x] = cap[x]
    BY <1>0, <2>1, PinTyped DEF GpqaThings, GpqaOwned
  <2>3. CASE Goto("fetch")
    <3>1. \A x \in GpqaOwned : HeldFrom(x, {"start"})'
      BY <2>1, <2>2, <2>3, HeldStays DEF GpqaInv, Goto
    <3> QED
      BY <2>1, <2>2, <2>3, <3>1, GoesOn DEF Goto, GpqaAfter, GpqaInv
  <2>4. CASE Stop("runtime_config_drift", 0)
    BY <2>1, <2>2, <2>4, GpqaEnds, Fails DEF Stop, Harmless
  <2> QED
    BY <2>1, <2>3, <2>4
<1>4. CASE GpqaFetch
  <2>1. /\ pc = "fetch" /\ UNCHANGED <<lane, cap, seen, disturbs, truth, found>>
        /\ Goto("csv") \/ Goto("downloaded") \/ Stop("runtime_config_drift", 0)
        /\ ver' = ver \/ \E v \in {0, Pinned} : ver' = [ver EXCEPT !["csv"] = v]
    BY <1>4 DEF GpqaFetch, At, GpqaQuiet
  <2>2. Typed(GpqaThings)' /\ \A x \in GpqaOwned : ver'[x] = ver[x]
    BY <1>0, <2>1, VersionsAre DEF Typed, GpqaThings, GpqaOwned
  <2>3. CASE Stop("runtime_config_drift", 0)
    BY <2>1, <2>2, <2>3, GpqaEnds, Fails DEF Stop, Harmless
  <2>4. CASE Goto("csv") \/ Goto("downloaded")
    <3>1. \A x \in GpqaOwned : HeldFrom(x, {"start"})'
      BY <2>1, <2>2, <2>4, HeldStays DEF GpqaInv, Goto
    <3> QED
      BY <2>1, <2>2, <2>4, <3>1, GoesOn DEF Goto, GpqaAfter, GpqaInv
  <2> QED
    BY <2>1, <2>3, <2>4
<1>5. CASE GpqaVerify
  <2>1. /\ pc \in {"csv", "downloaded"} /\ Pin({"csv"})
        /\ UNCHANGED <<lane, seen, disturbs, truth, found>>
        /\ \/ Goto("launch") /\ ver' = ver
           \/ /\ Stop("runtime_config_drift", 0)
              /\ \E v \in {ver["csv"], Absent} : ver' = [ver EXCEPT !["csv"] = v]
    BY <1>5 DEF GpqaVerify, At, GpqaQuiet
  <2>2. cap' \in [GpqaThings -> Versions] /\ \A x \in GpqaOwned : cap'[x] = cap[x]
    BY <1>0, <2>1 DEF GpqaThings, GpqaOwned, Pin, Typed
  <2>3. ver' \in [GpqaThings -> Versions]
    BY <1>0, <2>1, VersionsAre DEF Typed, GpqaThings
  <2>4. Typed(GpqaThings)'
    BY <1>0, <2>1, <2>2, <2>3 DEF Typed
  <2>5. CASE Goto("launch") /\ ver' = ver
    <3>1. \A x \in GpqaOwned : HeldFrom(x, {"start"})'
      BY <2>1, <2>2, <2>5, HeldStays DEF GpqaInv, Goto
    <3> QED
      BY <2>1, <2>4, <2>5, <3>1, GoesOn DEF Goto, GpqaAfter, GpqaInv
  <2>6. CASE Stop("runtime_config_drift", 0)
    BY <2>1, <2>4, <2>6, GpqaEnds, Fails DEF Stop, Harmless
  <2> QED
    BY <2>1, <2>5, <2>6
<1>6. CASE GpqaLaunch
  <2>1. /\ pc = "launch" /\ Use({"package", "csv"}) /\ Goto("running")
        /\ UNCHANGED <<lane, ver, cap, disturbs, truth, found>> /\ pc' = "running"
    BY <1>6 DEF GpqaLaunch, At, Goto
  <2> QED
    BY <2>1, GpqaUses, GoesOn DEF GpqaAfter, GpqaInv
<1>7. CASE GpqaFinish
  <2>1. /\ pc = "running" /\ Use({"logs"}) /\ Goto("artifacts") /\ truth' \in GpqaRuns
        /\ UNCHANGED <<lane, ver, cap, disturbs, found>> /\ pc' = "artifacts"
    BY <1>7 DEF GpqaFinish, At, Goto
  <2>2. seen'["csv"] = seen["csv"]
    <3>1. "csv" \in GpqaThings /\ "csv" \notin {"logs"}
      BY DEF GpqaThings
    <3>2. "csv" \in DOMAIN seen
      BY <1>0, <3>1 DEF Typed
    <3> QED
      BY <2>1, <3>1, <3>2 DEF Use
  <2>3. (truth \in GpqaRuns)'
    BY <2>1, <2>2 DEF GpqaRuns
  <2> QED
    BY <2>1, <2>3, GpqaUses, GoesOn DEF GpqaAfter, GpqaInv
<1>8. CASE GpqaCut
  <2>1. /\ pc' = "over" /\ UNCHANGED <<lane, ver, cap, seen, disturbs>>
        /\ out' \in {"runtime_budget_exceeded", "runtime_launch_failure"}
    BY <1>8 DEF GpqaCut, Stop, things
  <2> QED
    BY <1>0, <2>1, StaysTyped, GpqaEnds, Fails DEF Harmless
<1>9. CASE GpqaCheckArtifacts
  BY <1>9, GpqaCheck DEF GpqaCheckArtifacts, GpqaAfter, GpqaOwned
<1>10. CASE GpqaCheckLogs
  BY <1>10, GpqaCheck DEF GpqaCheckLogs, GpqaAfter, GpqaOwned
<1>11. CASE GpqaRecheckLogs
  BY <1>11, GpqaCheck DEF GpqaRecheckLogs, GpqaAfter, GpqaOwned
<1>12. CASE GpqaParse
  <2>1. /\ pc = "parse" /\ Goto("retain") /\ found' \in GpqaReadings
        /\ UNCHANGED <<lane, ver, cap, seen, disturbs, truth>> /\ pc' = "retain"
    BY <1>12 DEF GpqaParse, At, Goto, things
  <2>2. found' = Nothing \/ (found' = GpqaScore /\ truth.rc = 0 /\ truth.valid)
    BY <2>1 DEF GpqaReadings, GpqaReadable
  <2>3. \A x \in GpqaOwned : HeldFrom(x, {"start"})'
    BY <2>1, HeldStays DEF GpqaInv
  <2>4. (truth \in GpqaRuns)'
    BY <2>1 DEF GpqaRuns, GpqaInv, GpqaAfter
  <2>5. GpqaScore' = GpqaScore
    BY <2>1 DEF GpqaScore, GpqaTotal, GpqaUnique
  <2> QED
    BY <1>0, <2>1, <2>2, <2>3, <2>4, <2>5, GoesOn, StaysTyped DEF GpqaInv
<1>13. CASE GpqaRetain
  <2>1. /\ pc = "retain" /\ UNCHANGED <<lane, ver, cap, seen, disturbs, truth, found>>
        /\ \/ Goto("stamp")
           \/ ~Same({"logs"}) /\ Stop("evidence_corrupt", spent)
    BY <1>13 DEF GpqaRetain, At, GpqaQuiet
  <2>2. CASE Goto("stamp")
    BY <2>1, <2>2, GpqaMoves, GoesOn DEF Goto, GpqaAfter
  <2>3. CASE ~Same({"logs"}) /\ Stop("evidence_corrupt", spent)
    <3>1. disturbs # 0
      BY <2>1, <2>3 DEF GpqaInv, HeldFrom, Held, Same, GpqaOwned
    <3> QED
      BY <1>0, <2>1, <2>3, <3>1, StaysTyped, GpqaEnds, Corrupts DEF Stop
  <2> QED
    BY <2>1, <2>2, <2>3
<1>14. CASE GpqaStamp
  <2>1. /\ pc = "stamp" /\ UNCHANGED <<lane, ver, cap, seen, disturbs, truth, found>> /\ pc' = "over"
        /\ IF Same(GpqaOwned) THEN Stop(GpqaVerdict, spent) ELSE Stop("evidence_corrupt", spent)
    BY <1>14 DEF GpqaStamp, At, GpqaQuiet, Stop
  <2>2. GpqaInv' /\ lane' = "gpqa"
    BY <1>0, <2>1, StaysTyped, GpqaEnds
  <2>3. CASE ~Same(GpqaOwned)
    <3>1. disturbs # 0
      BY <2>1, <2>3 DEF GpqaInv, HeldFrom, Held, Same
    <3> QED
      BY <2>1, <2>2, <2>3, <3>1, Corrupts DEF Stop
  <2>4. CASE Same(GpqaOwned)
    <3>1. out' = GpqaVerdict
      BY <2>1, <2>4 DEF Stop
    <3>2. CASE GpqaVerdict \in {"harness_failure", "runtime_output_unparseable"}
      BY <2>1, <2>2, <3>1, <3>2, Fails DEF Harmless
    <3>3. CASE /\ GpqaVerdict \in Scored /\ truth.rc = 0 /\ found # Nothing /\ GpqaComplete(found)
               /\ GpqaVerdict = "pass" <=> found.right = found.total
      <4>1. \A x \in GpqaOwned : ver[x] = cap[x] /\ Tight(x)
        <5> TAKE x \in GpqaOwned
        <5>1. x \in GpqaThings /\ Held(x) /\ ver[x] = cap[x]
          BY <2>1, <2>4 DEF GpqaInv, HeldFrom, GpqaThings, Same
        <5> QED
          BY <1>0, <5>1, SameIsTight
      <4>2. SettledIsCaptured'
        BY <2>1, <2>2, <4>1 DEF SettledIsCaptured, ByLane, Tight, GpqaGuarded, GpqaOwned
      <4>3. GpqaEarned'
        BY <2>1, <3>1, <3>3, GpqaCounts DEF GpqaInv, GpqaAfter, GpqaEarned
      <4> QED
        BY <2>1, <2>2, <3>1, <3>3, <4>2, <4>3, Pass DEF VerdictIsEarned, ByLane
    <3> QED
      BY <3>2, <3>3 DEF GpqaVerdict, Scored
  <2> QED
    BY <2>3, <2>4
<1> QED
  BY <1>1, <1>2, <1>3, <1>4, <1>5, <1>6, <1>7, <1>8, <1>9, <1>10, <1>11, <1>12, <1>13, <1>14
     DEF GpqaNext

-----------------------------------------------------------------------------
(* Harbor *)

LEMMA HarborSwap ==
    ASSUME HarborInv, disturbs \in Nat, Disturb
    PROVE  HarborInv'
<1>1. Typed(HarborThings)' /\ UNCHANGED <<pc, truth, found>>
  BY Swapped DEF HarborInv, Disturb
<1>2. "instance" \in HarborThings /\ "result" \in HarborThings
  BY DEF HarborThings
<1>3. HeldFrom("instance", {"start", "pin"})' /\ HeldFrom("result", HarborBefore)'
  BY <1>2, SwapHeldFrom DEF HarborInv
<1>4. seen' = seen
  BY DEF Disturb
<1> QED
  BY <1>1, <1>3, <1>4 DEF HarborInv, HarborRuns, HarborLocated

\* An attempt that ends takes its env file away, and nothing else.
LEMMA HarborStops ==
    ASSUME Typed(HarborThings), NEW label, NEW latency, HarborStop(label, latency),
           cap' \in [HarborThings -> Versions], seen' \in [HarborThings -> SUBSET Versions]
    PROVE  /\ HarborInv' /\ pc' = "over" /\ out' = label
           /\ ver'["instance"] = ver["instance"] /\ ver'["result"] = ver["result"]
<1>1. ver' \in [HarborThings -> Versions] /\ pc' = "over" /\ out' = label
      /\ ver' = [ver EXCEPT !["env"] = Absent]
  BY VersionsAre DEF HarborStop, Stop, Typed
<1>2. ver'["instance"] = ver["instance"] /\ ver'["result"] = ver["result"]
  BY <1>1 DEF HarborThings, Typed
<1> QED
  BY <1>1, <1>2 DEF HarborInv, Typed, HeldFrom, HarborBefore

\* What is captured and what is used, when nothing is swapped.
LEMMA HarborMoves ==
    ASSUME HarborInv, pc \notin {"start", "pin", "over"}, pc' \notin {"start", "pin", "over"},
           pc' \in HarborBefore <=> pc \in HarborBefore, UNCHANGED <<cap, disturbs>>,
           ver' \in [HarborThings -> Versions], ver'["instance"] = ver["instance"],
           pc \in HarborBefore \/ ver'["result"] = ver["result"],
           NEW xs, Use(xs), pc \in HarborBefore => "result" \notin xs
    PROVE  /\ Typed(HarborThings)' /\ HeldFrom("instance", {"start", "pin"})'
           /\ HeldFrom("result", HarborBefore)'
<1>1. Typed(HarborThings) /\ "instance" \in HarborThings /\ "result" \in HarborThings
  BY DEF HarborInv, HarborThings
<1>2. seen' \in [HarborThings -> SUBSET Versions]
      /\ \A x \in HarborThings : seen'[x] = IF x \in xs THEN seen[x] \cup {ver[x]} ELSE seen[x]
  BY <1>1 DEF Use, Typed
<1>3. Typed(HarborThings)'
  BY <1>1, <1>2 DEF Typed
<1>4. Held("instance")'
  BY <1>1, <1>2, HeldUsed DEF HarborInv, HeldFrom
<1>5. CASE pc \in HarborBefore
  BY <1>1, <1>2, <1>3, <1>4, <1>5 DEF HarborInv, HeldFrom, Unused
<1>6. CASE pc \notin HarborBefore
  <2>1. Held("result")'
    BY <1>1, <1>2, <1>6, HeldUsed DEF HarborInv, HeldFrom
  <2> QED
    BY <1>3, <1>4, <1>6, <2>1 DEF HeldFrom
<1> QED
  BY <1>5, <1>6

\* Without a swap every thing captured is as it was.
LEMMA HarborCalm ==
    ASSUME HarborInv, disturbs = 0, pc \notin HarborBefore \cup {"locate", "over"}
    PROVE  Same({"instance", "result"})
BY DEF HarborInv, HeldFrom, Held, Same, HarborBefore

LEMMA HarborCalmDir ==
    ASSUME HarborInv, disturbs = 0, pc \notin {"start", "pin", "over"}
    PROVE  Same({"instance"})
BY DEF HarborInv, HeldFrom, Held, Same

\* The row of an attempt whose result is as it was pinned.
LEMMA HarborRow ==
    ASSUME HarborInv, FrameInv, lane = "harbor", pc = "score", Same({"instance", "result"}),
           found.kind # "none", NEW label \in HarborVerdicts, pc' = "over", out' = label,
           UNCHANGED <<lane, cap, disturbs, truth>>, Use({"result"}),
           ver'["instance"] = ver["instance"], ver'["result"] = ver["result"]
    PROVE  FrameInv'
<1>1. truth \in HarborRuns /\ found.kind = HarborLocated(truth)
      /\ HarborLocated(truth) \notin {"ambiguous", "none"}
  BY DEF HarborInv
<1>2. label \in {"runtime_launch_failure", "harness_failure", "runtime_output_unparseable",
                 "runtime_config_drift", "pass", "model_wrong_solution"}
  BY <1>1 DEF HarborVerdicts, HarborAttributed, HarborOutweighed, HarborJudged, HarborRuns
<1>3. ASSUME label \in Scored PROVE SettledIsCaptured'
  <2>1. Typed(HarborThings) /\ \A x \in HarborGuarded : x \in HarborThings /\ Held(x) /\ ver[x] = cap[x]
    BY DEF HarborInv, HeldFrom, HarborBefore, HarborGuarded, HarborThings, Same
  <2>2. \A x \in HarborGuarded : Tight(x)
    BY <2>1, SameIsTight
  <2>3. \A x \in HarborGuarded : seen'[x] \subseteq seen[x] \cup {ver[x]}
    BY <2>1 DEF Use, Typed
  <2>4. \A x \in HarborGuarded : seen'[x] \subseteq {cap'[x]} /\ ver'[x] = cap'[x]
    BY <2>1, <2>2, <2>3 DEF Tight, HarborGuarded
  <2> QED
    BY <2>4 DEF SettledIsCaptured, ByLane, HarborGuarded
<1>4. ASSUME label \in Scored, cap["result"] = Pinned
      PROVE  /\ truth.rc = 0 /\ truth.agent = "planned"
             /\ truth.layout \in {"trial", "job_and_trial"}
             /\ truth.says \in {"reward", "boolean"}
             /\ label = "pass" <=> truth.solved = "yes"
  <2>1. label = HarborAttributed(HarborOutweighed(HarborJudged(truth)))
    BY <1>4 DEF HarborVerdicts
  <2>2. HarborJudged(truth) \in {"pass", "wrong"} /\ truth.rc = 0 /\ truth.agent = "planned"
        /\ label = IF HarborJudged(truth) = "pass" THEN "pass" ELSE "model_wrong_solution"
    <3>1. HarborJudged(truth) \in {"runtime_launch_failure", "harness_failure",
                                   "runtime_output_unparseable", "pass", "wrong"}
      BY <1>1 DEF HarborJudged, HarborRuns
    <3> QED
      BY <1>4, <2>1, <3>1 DEF HarborAttributed, HarborOutweighed, Scored
  <2>3. truth.says \in {"reward", "boolean"} /\ (HarborJudged(truth) = "pass" <=> truth.solved = "yes")
    BY <1>1, <2>2 DEF HarborJudged, HarborRuns
  <2>4. truth.layout \in {"trial", "job_and_trial"}
    BY <1>1, <2>3 DEF HarborLocated, HarborRuns
  <2> QED
    BY <2>2, <2>3, <2>4
<1>5. CASE label \in Scored
  <2>1. VerdictIsEarned'
    BY <1>4, <1>5 DEF VerdictIsEarned, ByLane, HarborEarned
  <2> QED
    BY <1>3, <1>5, <2>1, Pass
<1>6. CASE label \notin Scored
  BY <1>2, <1>6, Fails DEF Harmless, Scored
<1> QED
  BY <1>5, <1>6

LEMMA HarborStep ==
    ASSUME HarborInv, FrameInv, lane = "harbor", HarborNext
    PROVE  HarborInv' /\ FrameInv' /\ lane' = "harbor"
<1>0. Typed(HarborThings) /\ ver \in [HarborThings -> Versions] /\ cap \in [HarborThings -> Versions]
      /\ seen \in [HarborThings -> SUBSET Versions]
      /\ "instance" \in HarborThings /\ "result" \in HarborThings
  BY DEF HarborInv, Typed, HarborThings
<1>1. CASE HarborResolve
  <2>1. pc = "start" /\ UNCHANGED <<lane, seen, disturbs, truth, found>>
        /\ \/ Pin({"binding"}) /\ Goto("pin") /\ UNCHANGED ver
           \/ HarborStop("refused", 0) /\ UNCHANGED cap
    BY <1>1 DEF HarborResolve, At, HarborQuiet
  <2>2. CASE Pin({"binding"}) /\ Goto("pin") /\ UNCHANGED ver
    <3>1. Typed(HarborThings)'
      BY <1>0, <2>1, <2>2, PinTyped
    <3> QED
      BY <2>1, <2>2, <3>1, GoesOn DEF Goto, HarborInv, HeldFrom, HarborBefore, Unused
  <2>3. CASE HarborStop("refused", 0) /\ UNCHANGED cap
    BY <1>0, <2>1, <2>3, HarborStops, Fails DEF Harmless
  <2> QED
    BY <2>1, <2>2, <2>3
<1>2. CASE HarborPin
  <2>1. pc = "pin" /\ Pin({"instance"}) /\ Goto("env") /\ pc' = "env"
        /\ UNCHANGED <<lane, ver, seen, disturbs, truth, found>>
    BY <1>2 DEF HarborPin, At, HarborQuiet, Goto
  <2>2. Typed(HarborThings)' /\ cap'["instance"] = ver["instance"]
    BY <1>0, <2>1, PinTyped
  <2>3. Unused("instance") /\ Unused("result") /\ ver'["instance"] \in Versions
    BY <1>0, <2>1 DEF HarborInv, HeldFrom, HarborBefore
  <2>4. Held("instance")'
    BY <1>0, <2>1, <2>2, <2>3, HeldNow
  <2> QED
    BY <2>1, <2>2, <2>3, <2>4, GoesOn DEF HarborInv, HeldFrom, HarborBefore, Unused
<1>3. CASE HarborWriteEnv
  <2>1. /\ pc = "env" /\ Goto("launch") /\ pc' = "launch"
        /\ UNCHANGED <<lane, cap, seen, disturbs, truth, found>>
        /\ ver' = [ver EXCEPT !["env"] = Pinned] \/ ver' = ver
    BY <1>3 DEF HarborWriteEnv, At, HarborQuiet, Goto
  <2>2. ver' \in [HarborThings -> Versions] /\ ver'["instance"] = ver["instance"]
        /\ ver'["result"] = ver["result"]
    BY <1>0, <2>1, VersionsAre
  <2>3. Use({})
    BY <1>0, <2>1, UsesNothing
  <2> QED
    BY <2>1, <2>2, <2>3, HarborMoves, GoesOn DEF HarborInv, HarborBefore
<1>4. CASE HarborLaunch
  <2>1. pc = "launch" /\ UNCHANGED <<lane, cap, disturbs, truth, found>>
        /\ \/ Use({"binding"}) /\ Goto("running") /\ UNCHANGED ver
           \/ HarborStop("refused", 0) /\ UNCHANGED seen
    BY <1>4 DEF HarborLaunch, At
  <2>2. CASE Use({"binding"}) /\ Goto("running") /\ UNCHANGED ver
    <3>1. pc' = "running"
      BY <2>2 DEF Goto
    <3> QED
      BY <1>0, <2>1, <2>2, <3>1, HarborMoves, GoesOn DEF HarborInv, HarborBefore
  <2>3. CASE HarborStop("refused", 0) /\ UNCHANGED seen
    BY <1>0, <2>1, <2>3, HarborStops, Fails DEF Harmless
  <2> QED
    BY <2>1, <2>2, <2>3
<1>5. CASE HarborFinish
  <2>1. /\ pc = "running" /\ pc' = "identity" /\ Goto("identity") /\ Use({"instance"})
        /\ truth' \in HarborRuns /\ UNCHANGED <<lane, cap, disturbs, found>>
        /\ ver' = ver \/ ver' = [ver EXCEPT !["result"] = Pinned]
    BY <1>5 DEF HarborFinish, HarborWrites, At, Goto
  <2>2. ver' \in [HarborThings -> Versions] /\ ver'["instance"] = ver["instance"]
    BY <1>0, <2>1, VersionsAre
  <2>3. seen'["binding"] = seen["binding"]
    BY <1>0, <2>1 DEF Use, HarborThings
  <2>4. (truth \in HarborRuns)'
    BY <2>1, <2>3 DEF HarborRuns
  <2> QED
    BY <2>1, <2>2, <2>4, HarborMoves, GoesOn DEF HarborInv, HarborBefore
<1>6. CASE HarborLaunchFails
  <2>1. HarborStop("runtime_launch_failure", 0) /\ UNCHANGED <<lane, cap, seen, disturbs>>
    BY <1>6 DEF HarborLaunchFails
  <2> QED
    BY <1>0, <2>1, HarborStops, Fails DEF Harmless
<1>7. CASE HarborTimeout
  <2>1. HarborStop("runtime_budget_exceeded", Wall) /\ UNCHANGED <<lane, cap, seen, disturbs>>
    BY <1>7 DEF HarborTimeout
  <2> QED
    BY <1>0, <2>1, HarborStops, Fails DEF Harmless
<1>8. CASE HarborCheckIdentity
  <2>1. pc = "identity" /\ UNCHANGED <<lane, cap, seen, disturbs, truth, found>>
        /\ IF Same({"instance"}) THEN Goto("locate") /\ UNCHANGED ver
           ELSE HarborStop("evidence_corrupt", spent)
    BY <1>8 DEF HarborCheckIdentity, At, HarborQuiet
  <2>2. CASE Same({"instance"})
    <3>1. pc' = "locate" /\ Goto("locate") /\ UNCHANGED ver
      BY <2>1, <2>2 DEF Goto
    <3>2. Use({})
      BY <1>0, <2>1, UsesNothing
    <3>3. (truth \in HarborRuns)'
      BY <2>1 DEF HarborInv, HarborRuns
    <3> QED
      BY <1>0, <2>1, <3>1, <3>2, <3>3, HarborMoves, GoesOn DEF HarborInv, HarborBefore
  <2>3. CASE ~Same({"instance"})
    <3>1. disturbs # 0 /\ HarborStop("evidence_corrupt", spent)
      BY <2>1, <2>3, HarborCalmDir
    <3> QED
      BY <1>0, <2>1, <3>1, HarborStops, Corrupts
  <2> QED
    BY <2>2, <2>3
<1>9. CASE HarborPinResult
  <2>1. pc = "locate" /\ UNCHANGED <<lane, seen, disturbs, truth>> /\ truth \in HarborRuns
    BY <1>9 DEF HarborPinResult, At, HarborInv
  <2>2. CASE /\ HarborLocated(truth) = "ambiguous"
             /\ HarborStop("evidence_corrupt", 0) /\ UNCHANGED <<cap, found>>
    <3>1. Irregular'
      BY <1>0, <2>1, <2>2 DEF Irregular, ByLane, HarborLocated, HarborRuns
    <3> QED
      BY <1>0, <2>1, <2>2, <3>1, HarborStops, Corrupts
  <2>3. CASE ~Same({"instance"}) /\ HarborStop("evidence_corrupt", spent) /\ UNCHANGED <<cap, found>>
    <3>1. disturbs # 0
      BY <2>1, <2>3, HarborCalmDir
    <3> QED
      BY <1>0, <2>1, <2>3, <3>1, HarborStops, Corrupts
  <2>4. CASE /\ HarborLocated(truth) # "ambiguous" /\ UNCHANGED ver
             /\ found' = [kind |-> HarborLocated(truth)]
             /\ Pin({"result"}) /\ Goto("retain")
    <3>1. Typed(HarborThings)' /\ cap'["instance"] = cap["instance"] /\ cap'["result"] = ver["result"]
      BY <1>0, <2>1, <2>4, PinTyped
    <3>2. Unused("result") /\ Held("instance") /\ ver'["result"] \in Versions
      BY <1>0, <2>1, <2>4 DEF HarborInv, HeldFrom, HarborBefore
    <3>3. Held("result")'
      BY <1>0, <2>1, <2>4, <3>1, <3>2, HeldNow
    <3>4. Held("instance")'
      BY <1>0, <2>1, <2>4, <3>1, <3>2, HeldUsed
    <3>5. (truth \in HarborRuns)' /\ pc' = "retain" /\ HarborLocated(truth)' = HarborLocated(truth)
      BY <2>1, <2>4 DEF HarborRuns, Goto, HarborLocated
    <3>6. HarborInv'
      BY <2>4, <3>1, <3>3, <3>4, <3>5 DEF HarborInv, HeldFrom, HarborBefore
    <3> QED
      BY <2>1, <2>4, <3>6, GoesOn
  <2> QED
    BY <1>9, <2>2, <2>3, <2>4 DEF HarborPinResult
<1>10. CASE HarborRetain
  <2>1. pc = "retain" /\ UNCHANGED <<lane, cap, disturbs, truth, found>>
        /\ IF found.kind = "none" \/ HarborReadable
           THEN Use({"result"}) /\ Goto("relocate") /\ UNCHANGED ver
           ELSE HarborStop("evidence_corrupt", spent) /\ UNCHANGED seen
    BY <1>10 DEF HarborRetain, At
  <2>2. CASE found.kind = "none" \/ HarborReadable
    <3>1. Use({"result"}) /\ Goto("relocate") /\ UNCHANGED ver /\ pc' = "relocate"
      BY <2>1, <2>2 DEF Goto
    <3>2. seen'["binding"] = seen["binding"]
      BY <1>0, <3>1 DEF Use, HarborThings
    <3>3. (truth \in HarborRuns)' /\ HarborLocated(truth)' = HarborLocated(truth)
      BY <2>1, <3>2 DEF HarborInv, HarborRuns, HarborLocated
    <3> QED
      BY <1>0, <2>1, <3>1, <3>3, HarborMoves, GoesOn DEF HarborInv, HarborBefore
  <2>3. CASE ~(found.kind = "none" \/ HarborReadable)
    <3>1. disturbs # 0 /\ HarborStop("evidence_corrupt", spent) /\ UNCHANGED seen
      BY <2>1, <2>3, HarborCalm DEF HarborReadable, HarborBefore
    <3> QED
      BY <1>0, <2>1, <3>1, HarborStops, Corrupts
  <2> QED
    BY <2>2, <2>3
<1>11. CASE HarborRelocate
  <2>1. pc = "relocate" /\ UNCHANGED <<lane, cap, seen, disturbs, truth, found>>
        /\ \/ Goto("score") /\ UNCHANGED ver
           \/ ~Same({"instance"}) /\ HarborStop("evidence_corrupt", spent)
    BY <1>11 DEF HarborRelocate, At, HarborQuiet
  <2>2. CASE Goto("score") /\ UNCHANGED ver
    <3>1. pc' = "score" /\ Goto("score") /\ UNCHANGED ver
      BY <2>2 DEF Goto
    <3>2. Use({})
      BY <1>0, <2>1, UsesNothing
    <3>3. (truth \in HarborRuns)' /\ HarborLocated(truth)' = HarborLocated(truth)
      BY <2>1 DEF HarborInv, HarborRuns, HarborLocated
    <3> QED
      BY <1>0, <2>1, <3>1, <3>2, <3>3, HarborMoves, GoesOn DEF HarborInv, HarborBefore
  <2>3. CASE ~Same({"instance"}) /\ HarborStop("evidence_corrupt", spent)
    <3>1. disturbs # 0 /\ HarborStop("evidence_corrupt", spent)
      BY <2>1, <2>3, HarborCalmDir
    <3> QED
      BY <1>0, <2>1, <3>1, HarborStops, Corrupts
  <2> QED
    BY <2>1, <2>2, <2>3
<1>12. CASE HarborScore
  <2>1. pc = "score" /\ UNCHANGED <<lane, cap, disturbs, truth, found>>
        /\ IF found.kind = "none" \/ HarborReadable
           THEN Use({"result"}) /\ \E v \in HarborVerdicts : HarborStop(v, spent)
           ELSE HarborStop("evidence_corrupt", spent) /\ UNCHANGED seen
    BY <1>12 DEF HarborScore, At
  <2>2. CASE ~(found.kind = "none" \/ HarborReadable)
    <3>1. disturbs # 0 /\ HarborStop("evidence_corrupt", spent) /\ UNCHANGED seen
      BY <2>1, <2>2, HarborCalm DEF HarborReadable, HarborBefore
    <3> QED
      BY <1>0, <2>1, <3>1, HarborStops, Corrupts
  <2>3. CASE found.kind = "none" \/ HarborReadable
    <3>1. PICK v \in HarborVerdicts : HarborStop(v, spent)
      BY <2>1, <2>3
    <3>2. Use({"result"}) /\ seen' \in [HarborThings -> SUBSET Versions]
      BY <1>0, <2>1, <2>3 DEF Use
    <3>3. /\ HarborInv' /\ pc' = "over" /\ out' = v
          /\ ver'["instance"] = ver["instance"] /\ ver'["result"] = ver["result"]
      BY <1>0, <2>1, <3>1, <3>2, HarborStops
    <3>4. CASE found.kind = "none"
      <4>1. v = "harness_failure"
        BY <3>4 DEF HarborVerdicts, HarborAttributed, HarborOutweighed
      <4> QED
        BY <2>1, <3>3, <4>1, Fails
    <3>5. CASE found.kind # "none" /\ HarborReadable
      BY <2>1, <3>2, <3>3, <3>5, HarborRow DEF HarborReadable
    <3> QED
      BY <2>3, <3>4, <3>5
  <2> QED
    BY <2>2, <2>3
<1> QED
  BY <1>1, <1>2, <1>3, <1>4, <1>5, <1>6, <1>7, <1>8, <1>9, <1>10, <1>11, <1>12 DEF HarborNext

-----------------------------------------------------------------------------
(* HLE *)

LEMMA HleThingsKept ==
    HleKept \subseteq HleThings /\ \A x \in HleKept : "over" \notin HleFrom[x]
BY DEF HleKept, HleThings, HleFrom

LEMMA HleSwap ==
    ASSUME HleInv, disturbs \in Nat, Disturb
    PROVE  HleInv'
<1>1. Typed(HleThings)' /\ UNCHANGED <<pc, truth, found>> /\ disturbs' # 0
  BY Swapped DEF HleInv, Disturb
<1>2. \A x \in HleKept : HeldFrom(x, HleFrom[x])'
  BY HleThingsKept, SwapHeldFrom DEF HleInv
<1>3. \A x \in HleKept : Tight(x) => Tight(x)'
  BY HleThingsKept, Swapped DEF HleInv
<1>4. HlePredicted' = HlePredicted /\ HleJudged' = HleJudged
  BY DEF HlePredicted, HleJudged
<1> QED
  BY <1>1, <1>2, <1>3, <1>4 DEF HleInv, HleKept

LEMMA HleEnds ==
    ASSUME pc' = "over", Typed(HleThings)'
    PROVE  HleInv'
BY HleThingsKept DEF HleInv, HeldFrom, HleChecks, HleEnd

\* How far the attempt is, as to the things it captures.
HleSameStage ==
    /\ {pc, pc'} \cap {"over"} = {}
    /\ \A x \in HleKept : pc' \in HleFrom[x] <=> pc \in HleFrom[x]
    /\ pc' \in HleBefore <=> pc \in HleBefore

\* A step that touches nothing.
LEMMA HleMoves ==
    ASSUME HleInv, HleSameStage, UNCHANGED <<ver, cap, seen, disturbs>>
    PROVE  /\ Typed(HleThings)' /\ \A x \in HleKept : HeldFrom(x, HleFrom[x])'
           /\ pc' \notin HleBefore \cup {"over"} /\ disturbs' = 0 =>
                 ver'["checkout"] = cap'["checkout"]
           /\ \A x \in HleKept : Tight(x)' <=> Tight(x)
<1>1. Typed(HleThings)' /\ \A x \in HleKept : Keeps(x, HleFrom[x])
  BY StaysTyped DEF HleInv, HleSameStage, Keeps, Kept
<1> QED
  BY <1>1, HleThingsKept, KeepsHeld DEF HleInv, HleSameStage, Tight

\* A step of the preparation.
LEMMA HlePrepares ==
    ASSUME HleInv, FrameInv, pc \in HleBefore, NEW step, pc' = step, Goto(step), UNCHANGED disturbs,
           step \in HleBefore \/ (step = "predict" /\ cap'["checkout"] = ver'["checkout"]),
           Typed(HleThings)', \A x \in HleKept : Keeps(x, HleFrom[x])
    PROVE  HleInv' /\ FrameInv'
<1>1. pc # "over" /\ pc' # "over"
  BY DEF HleBefore, HleFrom
<1>2. \A x \in HleKept : HeldFrom(x, HleFrom[x])'
  BY <1>1, HleThingsKept, KeepsHeld DEF HleInv
<1>3. FrameInv'
  BY <1>1, GoesOn
<1> QED
  BY <1>1, <1>2, <1>3 DEF HleInv, HleBefore, HleFrom, HleChecks, HleEnd

\* Without a swap every thing captured is as it was.
LEMMA HleCalm ==
    ASSUME HleInv, disturbs = 0, NEW x \in HleKept, pc \notin HleFrom[x] \cup {"over"}
    PROVE  ver[x] = cap[x]
BY DEF HleInv, HeldFrom, Held

\* The row of an attempt that scores a complete judged file.
LEMMA HleRow ==
    ASSUME HleInv, FrameInv, lane = "hle", pc = "stamp", Same({"work"}), pc' = "over",
           out' = HleVerdict, UNCHANGED <<lane, ver, cap, seen, disturbs, truth, found>>
    PROVE  FrameInv'
<1>1. /\ Typed(HleThings) /\ truth \in HlePredicted \cup HleJudged
      /\ \A x \in {"cache", "dataset", "copies"} : Tight(x)
      /\ found = Nothing \/
            /\ truth.kind = "judged" /\ ~truth.odd /\ truth.rows = Samples
            /\ found = [kind |-> "score", right |-> truth.right, total |-> truth.rows]
  BY DEF HleInv, HleEnd
<1>2. Tight("work") /\ ver["work"] = cap["work"]
  <2>1. "work" \in HleKept /\ "work" \in HleThings /\ pc \notin HleFrom["work"] \cup {"over"}
    BY DEF HleKept, HleThings, HleFrom
  <2>2. Held("work") /\ ver["work"] = cap["work"]
    BY <2>1 DEF HleInv, HeldFrom, Same
  <2> QED
    BY <1>1, <2>1, <2>2, SameIsTight
<1>3. CASE (truth.rc # 0 /\ ~HleKnownCrash) \/ found = Nothing
  BY <1>3, Fails DEF HleVerdict, Harmless
<1>4. CASE ~(truth.rc # 0 /\ ~HleKnownCrash) /\ found # Nothing
  <2>1. HleVerdict = IF found.right = found.total THEN "pass" ELSE "model_wrong_solution"
    BY <1>4 DEF HleVerdict
  <2>2. SettledIsCaptured'
    BY <1>1, <1>2 DEF SettledIsCaptured, ByLane, HleGuarded, HleUsed, HleNamed, Tight
  <2>3. /\ truth.kind = "judged" /\ ~truth.odd /\ truth.rows = Samples
        /\ found.right = truth.right /\ found.total = Samples
    BY <1>1, <1>4
  <2>4. truth \in HleJudged
    BY <1>1, <2>3 DEF HlePredicted
  <2>5. truth.predicted = Samples
    BY <2>3, <2>4, SamplesArePositive DEF HleJudged
  <2>6. truth.rc = 0 \/ truth.crash
    BY <1>4 DEF HleKnownCrash
  <2>7. HleEarned'
    BY <2>1, <2>3, <2>5, <2>6 DEF HleEarned
  <2>8. VerdictIsEarned'
    BY <2>7 DEF VerdictIsEarned, ByLane
  <2> QED
    BY <2>1, <2>2, <2>8, Pass DEF Scored
<1> QED
  BY <1>3, <1>4

LEMMA HleFirstSteps ==
    ASSUME HleInv, FrameInv, lane = "hle",
           \/ HleResolve \/ HlePinArtifacts \/ HlePinWork \/ HleCopyScripts \/ HlePinCache
           \/ HleFetch \/ HleIdentity \/ HleManifest \/ HleCommands \/ HleCapture
    PROVE  HleInv' /\ FrameInv' /\ lane' = "hle"
<1>0. /\ Typed(HleThings) /\ ver \in [HleThings -> Versions] /\ cap \in [HleThings -> Versions]
      /\ seen \in [HleThings -> SUBSET Versions]
  BY DEF HleInv, Typed
<1>1. CASE HleResolve
  <2>1. pc = "start" /\ UNCHANGED <<lane, ver, cap, seen, disturbs, truth, found>>
    BY <1>1 DEF HleResolve, At, HleQuiet
  <2>2. Typed(HleThings)'
    BY <1>0, <2>1, StaysTyped
  <2>3. CASE Goto("artifacts")
    <3>1. pc' = "artifacts" /\ \A x \in HleKept : Keeps(x, HleFrom[x])
      BY <2>1, <2>3 DEF Goto, Keeps, Kept, HleFrom, HleKept
    <3> QED
      BY <2>1, <2>2, <2>3, <3>1, HlePrepares DEF HleBefore, HleFrom
  <2>4. CASE Stop("refused", 0)
    BY <2>1, <2>2, <2>4, HleEnds, Fails DEF Stop, Harmless
  <2> QED
    BY <1>1, <2>3, <2>4 DEF HleResolve
<1>2. CASE HlePinArtifacts
  <2>1. pc = "artifacts" /\ pc' = "work" /\ Goto("work") /\ Pin({"artifacts"})
        /\ UNCHANGED <<lane, ver, seen, disturbs, truth, found>>
    BY <1>2 DEF HlePinArtifacts, At, HleQuiet, Goto
  <2>2. Typed(HleThings)' /\ \A x \in HleThings : cap'[x] = IF x \in {"artifacts"} THEN ver[x] ELSE cap[x]
    BY <1>0, <2>1, PinTyped
  <2>3. \A x \in HleKept : Keeps(x, HleFrom[x])
    BY <1>0, <2>1, <2>2 DEF Keeps, Kept, HleFrom, HleKept, HleThings
  <2> QED
    BY <2>1, <2>2, <2>3, HlePrepares DEF HleBefore, HleFrom
<1>3. CASE HlePinWork
  <2>1. pc = "work" /\ pc' = "scripts" /\ Goto("scripts") /\ Pin({"work"})
        /\ UNCHANGED <<lane, ver, seen, disturbs, truth, found>>
    BY <1>3 DEF HlePinWork, At, HleQuiet, Goto
  <2>2. Typed(HleThings)' /\ \A x \in HleThings : cap'[x] = IF x \in {"work"} THEN ver[x] ELSE cap[x]
    BY <1>0, <2>1, PinTyped
  <2>3. \A x \in HleKept : Keeps(x, HleFrom[x])
    BY <1>0, <2>1, <2>2 DEF Keeps, Kept, HleFrom, HleKept, HleThings
  <2> QED
    BY <2>1, <2>2, <2>3, HlePrepares DEF HleBefore, HleFrom
<1>4. CASE HleCopyScripts
  <2>1. pc = "scripts" /\ UNCHANGED <<lane, disturbs, truth, found>>
        /\ \/ /\ ver' = [ver EXCEPT !["copies"] = Pinned]
              /\ cap' = [cap EXCEPT !["copies"] = Pinned]
              /\ Use({"checkout"}) /\ Goto("cache") /\ pc' = "cache"
           \/ Stop("refused", 0) /\ UNCHANGED <<ver, cap, seen>>
    BY <1>4 DEF HleCopyScripts, At, Goto
  <2>2. CASE Stop("refused", 0) /\ UNCHANGED <<ver, cap, seen>>
    BY <1>0, <2>1, <2>2, HleEnds, StaysTyped, Fails DEF Stop, Harmless
  <2>3. CASE /\ ver' = [ver EXCEPT !["copies"] = Pinned]
             /\ cap' = [cap EXCEPT !["copies"] = Pinned]
             /\ Use({"checkout"}) /\ Goto("cache") /\ pc' = "cache"
    <3>1. /\ ver' \in [HleThings -> Versions] /\ cap' \in [HleThings -> Versions]
          /\ \A x \in HleThings : x # "copies" => Kept(x)
          /\ ver'["copies"] = Pinned /\ cap'["copies"] = Pinned /\ Pinned \in Versions
      BY <1>0, <2>3, VersionsAre DEF Kept, HleThings
    <3>2. seen' \in [HleThings -> SUBSET Versions] /\ \A x \in HleKept : seen'[x] = seen[x]
      BY <1>0, <2>3 DEF Use, HleKept, HleThings
    <3>3. \A x \in HleKept : Keeps(x, HleFrom[x])
      BY <2>1, <2>3, <3>1, <3>2 DEF Keeps, HleFrom, HleKept, HleThings
    <3> QED
      BY <2>1, <2>3, <3>1, <3>2, <3>3, HlePrepares DEF HleBefore, HleFrom, Typed
  <2> QED
    BY <2>1, <2>2, <2>3
<1>5. CASE HlePinCache
  <2>1. pc = "cache" /\ pc' = "fetch" /\ Goto("fetch") /\ Pin({"cache"})
        /\ UNCHANGED <<lane, ver, seen, disturbs, truth, found>>
    BY <1>5 DEF HlePinCache, At, HleQuiet, Goto
  <2>2. Typed(HleThings)' /\ \A x \in HleThings : cap'[x] = IF x \in {"cache"} THEN ver[x] ELSE cap[x]
    BY <1>0, <2>1, PinTyped
  <2>3. \A x \in HleKept : Keeps(x, HleFrom[x])
    BY <1>0, <2>1, <2>2 DEF Keeps, Kept, HleFrom, HleKept, HleThings
  <2> QED
    BY <2>1, <2>2, <2>3, HlePrepares DEF HleBefore, HleFrom
<1>6. CASE HleFetch
  <2>1. pc = "fetch" /\ UNCHANGED <<lane, cap, seen, disturbs, truth, found>>
        /\ \/ ver' = [ver EXCEPT !["dataset"] = Pinned] /\ Goto("identity") /\ pc' = "identity"
           \/ Stop("runtime_config_drift", 0) /\ UNCHANGED ver
    BY <1>6 DEF HleFetch, At, HleQuiet, Goto
  <2>2. CASE Stop("runtime_config_drift", 0) /\ UNCHANGED ver
    BY <1>0, <2>1, <2>2, HleEnds, StaysTyped, Fails DEF Stop, Harmless
  <2>3. CASE ver' = [ver EXCEPT !["dataset"] = Pinned] /\ Goto("identity") /\ pc' = "identity"
    <3>1. ver' \in [HleThings -> Versions] /\ \A x \in HleThings : x # "dataset" => Kept(x)
      BY <1>0, <2>1, <2>3, VersionsAre DEF Kept, HleThings
    <3>2. \A x \in HleKept : Keeps(x, HleFrom[x])
      BY <2>1, <2>3, <3>1 DEF Keeps, HleFrom, HleKept, HleThings
    <3> QED
      BY <1>0, <2>1, <2>3, <3>1, <3>2, HlePrepares DEF HleBefore, HleFrom, Typed
  <2> QED
    BY <2>1, <2>2, <2>3
<1>7. CASE HleIdentity
  <2>1. /\ pc = "identity" /\ Pin({"snapshot"}) /\ UNCHANGED <<lane, ver, seen, disturbs, truth, found>>
        /\ Goto("manifest") \/ Stop("runtime_config_drift", 0)
    BY <1>7 DEF HleIdentity, At, HleQuiet
  <2>2. Typed(HleThings)' /\ \A x \in HleThings : cap'[x] = IF x \in {"snapshot"} THEN ver[x] ELSE cap[x]
    BY <1>0, <2>1, PinTyped
  <2>3. CASE Goto("manifest")
    <3>1. pc' = "manifest" /\ \A x \in HleKept : Keeps(x, HleFrom[x])
      BY <1>0, <2>1, <2>2, <2>3 DEF Goto, Keeps, Kept, HleFrom, HleKept, HleThings
    <3> QED
      BY <2>1, <2>2, <2>3, <3>1, HlePrepares DEF HleBefore, HleFrom
  <2>4. CASE Stop("runtime_config_drift", 0)
    BY <2>1, <2>2, <2>4, HleEnds, Fails DEF Stop, Harmless
  <2> QED
    BY <2>1, <2>3, <2>4
<1>8. CASE HleManifest
  <2>1. pc = "manifest" /\ UNCHANGED <<lane, ver, seen, disturbs, truth, found>>
        /\ \/ Pin({"dataset"}) /\ Goto("dataset") /\ pc' = "dataset"
           \/ Stop("runtime_config_drift", 0) /\ UNCHANGED cap
    BY <1>8 DEF HleManifest, At, HleQuiet, Goto
  <2>2. CASE Stop("runtime_config_drift", 0) /\ UNCHANGED cap
    BY <1>0, <2>1, <2>2, HleEnds, StaysTyped, Fails DEF Stop, Harmless
  <2>3. CASE Pin({"dataset"}) /\ Goto("dataset") /\ pc' = "dataset"
    <3>1. Typed(HleThings)' /\ \A x \in HleThings : cap'[x] = IF x \in {"dataset"} THEN ver[x] ELSE cap[x]
      BY <1>0, <2>1, <2>3, PinTyped
    <3>2. \A x \in HleKept : Keeps(x, HleFrom[x])
      BY <1>0, <2>1, <2>3, <3>1 DEF Keeps, Kept, HleFrom, HleKept, HleThings
    <3> QED
      BY <2>1, <2>3, <3>1, <3>2, HlePrepares DEF HleBefore, HleFrom
  <2> QED
    BY <2>1, <2>2, <2>3
<1>9. CASE HleCommands
  <2>1. /\ pc = "dataset" /\ UNCHANGED <<lane, ver, cap, seen, disturbs, truth, found>>
        /\ Goto("version") \/ Stop("runtime_config_drift", 0)
    BY <1>9 DEF HleCommands, At, HleQuiet
  <2>2. Typed(HleThings)'
    BY <1>0, <2>1, StaysTyped
  <2>3. CASE Goto("version")
    <3>1. pc' = "version" /\ \A x \in HleKept : Keeps(x, HleFrom[x])
      BY <2>1, <2>3 DEF Goto, Keeps, Kept, HleFrom, HleKept
    <3> QED
      BY <2>1, <2>2, <2>3, <3>1, HlePrepares DEF HleBefore, HleFrom
  <2>4. CASE Stop("runtime_config_drift", 0)
    BY <2>1, <2>2, <2>4, HleEnds, Fails DEF Stop, Harmless
  <2> QED
    BY <2>1, <2>3, <2>4
<1>10. CASE HleCapture
  <2>1. pc = "version" /\ pc' = "predict" /\ Goto("predict") /\ Pin({"checkout"})
        /\ UNCHANGED <<lane, ver, seen, disturbs, truth, found>>
    BY <1>10 DEF HleCapture, At, HleQuiet, Goto
  <2>2. Typed(HleThings)' /\ \A x \in HleThings : cap'[x] = IF x \in {"checkout"} THEN ver[x] ELSE cap[x]
    BY <1>0, <2>1, PinTyped
  <2>3. cap'["checkout"] = ver'["checkout"]
    BY <2>1, <2>2 DEF HleThings
  <2>4. \A x \in HleKept : Keeps(x, HleFrom[x])
    BY <1>0, <2>1, <2>2 DEF Keeps, Kept, HleFrom, HleKept, HleThings
  <2> QED
    BY <2>1, <2>2, <2>3, <2>4, HlePrepares DEF HleBefore, HleFrom
<1> QED
  BY <1>1, <1>2, <1>3, <1>4, <1>5, <1>6, <1>7, <1>8, <1>9, <1>10

\* A phase starts: it uses what its paths name.
LEMMA HlePhaseStarts ==
    ASSUME HleInv, FrameInv, lane = "hle", HlePredictStart \/ HleJudgeStart
    PROVE  HleInv' /\ FrameInv' /\ lane' = "hle"
<1>0. /\ Typed(HleThings) /\ seen \in [HleThings -> SUBSET Versions]
  BY DEF HleInv, Typed
<1>1. /\ <<pc, pc'>> \in {<<"predict", "predicting">>, <<"judge", "judging">>} \/ pc' = "over"
      /\ pc \in {"predict", "judge"} /\ UNCHANGED <<lane, ver, cap, disturbs, truth, found>>
      /\ \/ Use(HleUsed) /\ Goto(pc') /\ pc' # "over"
         \/ Stop("runtime_budget_exceeded", spent) /\ UNCHANGED seen
  BY DEF HlePredictStart, HleJudgeStart, HleStart, At, Goto, Stop
<1>2. CASE Stop("runtime_budget_exceeded", spent) /\ UNCHANGED seen
  BY <1>0, <1>1, <1>2, StaysTyped, HleEnds, Fails DEF Stop, Harmless
<1>3. CASE Use(HleUsed) /\ Goto(pc') /\ pc' # "over"
  <2>1. Typed(HleThings)' /\ \A x \in HleThings : seen'[x] \subseteq seen[x] \cup {ver[x]}
    BY <1>0, <1>1, <1>3, UseTyped
  <2>2. \A x \in HleKept : {pc, pc'} \cap HleFrom[x] = {}
    BY <1>1, <1>3 DEF HleKept, HleFrom
  <2>3. \A x \in HleKept : Keeps(x, HleFrom[x])
    BY <1>1, <2>1, <2>2, HleThingsKept DEF Keeps, Kept
  <2>4. \A x \in HleKept : HeldFrom(x, HleFrom[x])'
    BY <1>0, <1>1, <1>3, <2>3, HleThingsKept, KeepsHeld DEF HleInv
  <2>5. pc' \in {"predicting", "judging"} /\ (pc' = "judging" => pc = "judge")
        /\ pc \notin HleBefore
    BY <1>1, <1>3 DEF HleBefore, HleFrom
  <2>6. (truth \in HlePredicted)' <=> truth \in HlePredicted
    BY <1>1 DEF HlePredicted
  <2>7. HleInv'
    BY <1>1, <2>1, <2>4, <2>5, <2>6 DEF HleInv, HleChecks, HleEnd
  <2> QED
    BY <1>1, <1>3, <2>7, GoesOn
<1> QED
  BY <1>1, <1>2, <1>3

\* A phase ends, or is cut off.
LEMMA HlePhaseEnds ==
    ASSUME HleInv, FrameInv, lane = "hle", HlePredict \/ HleJudge \/ HleCut
    PROVE  HleInv' /\ FrameInv' /\ lane' = "hle"
<1>0. Typed(HleThings)
  BY DEF HleInv
<1>1. CASE HlePredict
  <2>1. /\ pc = "predicting" /\ pc' = "work1" /\ Goto("work1") /\ truth' \in HlePredicted
        /\ UNCHANGED <<lane, ver, cap, seen, disturbs, found>>
    BY <1>1 DEF HlePredict, At, Goto, HlePredicted, things
  <2>2. HleSameStage
    BY <2>1 DEF HleSameStage, HleKept, HleFrom, HleBefore
  <2> QED
    BY <2>1, <2>2, HleMoves, GoesOn DEF HleInv, HleChecks, HleEnd, HlePredicted
<1>2. CASE HleJudge
  <2>1. /\ pc = "judging" /\ pc' = "work2" /\ Goto("work2") /\ truth \in HlePredicted
        /\ UNCHANGED <<lane, ver, cap, seen, disturbs, found>>
    BY <1>2 DEF HleJudge, At, Goto, HleInv, things
  <2>2. truth.predicted \in 0..Samples
    BY <2>1 DEF HlePredicted
  <2>3. PICK j \in [kind : {"judged"}, rc : {0, 1}, crash : BOOLEAN, odd : BOOLEAN,
                    file : BOOLEAN, predicted : {truth.predicted},
                    rows : 0..truth.predicted, right : 0..truth.predicted] :
              j.right <= j.rows /\ truth' = j
    BY <1>2 DEF HleJudge
  <2>4. (truth \in HleJudged)'
    BY <2>2, <2>3, SamplesArePositive DEF HleJudged
  <2>5. HleSameStage
    BY <2>1 DEF HleSameStage, HleKept, HleFrom, HleBefore
  <2> QED
    BY <2>1, <2>4, <2>5, HleMoves, GoesOn DEF HleInv, HleChecks, HleEnd
<1>3. CASE HleCut
  <2>1. /\ pc' = "over" /\ UNCHANGED <<lane, ver, cap, seen, disturbs>>
        /\ out' \in {"runtime_budget_exceeded", "runtime_launch_failure"}
    BY <1>3 DEF HleCut, Stop, things
  <2> QED
    BY <1>0, <2>1, StaysTyped, HleEnds, Fails DEF Harmless
<1> QED
  BY <1>1, <1>2, <1>3

\* A check that finds what it looks for, and one that does not.
LEMMA HlePasses ==
    ASSUME HleInv, FrameInv, HleSameStage, NEW step, Goto(step),
           UNCHANGED <<ver, cap, seen, disturbs, truth, found>>,
           pc \in HleChecks \cup HleEnd, step \in HleChecks \cup HleEnd \cup {"judge"},
           step = "judge" => truth \in HlePredicted,
           step \in {"phase1", "phase2"} \cup HleEnd => Tight("cache") /\ Tight("dataset"),
           step \in HleEnd \ {"copies"} => Tight("copies"),
           step # "stamp"
    PROVE  HleInv' /\ FrameInv'
<1>1. pc' = step /\ pc # "over"
  BY DEF Goto, HleSameStage
<1>2. HlePredicted' = HlePredicted /\ HleJudged' = HleJudged
  BY DEF HlePredicted, HleJudged
<1>3. \A x \in {"cache", "dataset", "copies"} : x \in HleKept
  BY DEF HleKept
<1> QED
  BY <1>1, <1>2, <1>3, HleMoves, GoesOn DEF HleInv, HleChecks, HleEnd

LEMMA HleAlarm ==
    ASSUME HleInv, FrameInv, NEW latency, Stop("evidence_corrupt", latency),
           UNCHANGED <<ver, cap, seen, disturbs>>, NEW xs \in SUBSET HleKept, ~Same(xs),
           pc \in HleChecks \cup HleEnd
    PROVE  HleInv' /\ FrameInv'
<1>1. \A x \in HleKept : pc \notin HleFrom[x] \cup {"over"}
  BY DEF HleKept, HleFrom, HleChecks, HleEnd
<1>2. disturbs # 0
  BY <1>1, HleCalm DEF Same
<1>3. Typed(HleThings)'
  BY StaysTyped DEF HleInv
<1> QED
  BY <1>2, <1>3, HleEnds, Corrupts DEF Stop

LEMMA HleChecksSteps ==
    ASSUME HleInv, FrameInv, lane = "hle",
           HleCheckWork \/ HleCheckCache \/ HleNextPhase \/ HleCheckCopies \/ HleCheckSource
           \/ HleCheckArtifacts
    PROVE  HleInv' /\ FrameInv' /\ lane' = "hle"
<1>0. Typed(HleThings)
  BY DEF HleInv
<1>1. CASE HleCheckWork
  <2>1. /\ pc \in {"work1", "work2"} /\ UNCHANGED <<lane, ver, cap, seen, disturbs, truth, found>>
        /\ IF Same({"work"}) THEN \E step \in {"cache1", "cache2"} : Goto(step)
           ELSE Stop("evidence_corrupt", spent)
    BY <1>1 DEF HleCheckWork, HleAfter, HleQuiet
  <2>2. CASE Same({"work"})
    <3>1. PICK step \in {"cache1", "cache2"} : Goto(step)
      BY <2>1, <2>2
    <3>2. HleSameStage
      BY <2>1, <3>1 DEF HleSameStage, HleKept, HleFrom, HleBefore, Goto
    <3> QED
      BY <2>1, <3>1, <3>2, HlePasses DEF HleChecks, HleEnd
  <2>3. CASE ~Same({"work"})
    BY <2>1, <2>3, HleAlarm DEF HleKept, HleChecks
  <2> QED
    BY <2>2, <2>3
<1>2. CASE HleCheckCache
  <2>1. /\ pc \in {"cache1", "cache2"} /\ UNCHANGED <<lane, ver, cap, seen, disturbs, truth, found>>
        /\ IF Same({"cache", "dataset"}) THEN \E step \in {"phase1", "phase2"} : Goto(step)
           ELSE Stop("evidence_corrupt", spent)
    BY <1>2 DEF HleCheckCache, HleAfter, HleQuiet
  <2>2. CASE Same({"cache", "dataset"})
    <3>1. PICK step \in {"phase1", "phase2"} : Goto(step)
      BY <2>1, <2>2
    <3>2. HleSameStage
      BY <2>1, <3>1 DEF HleSameStage, HleKept, HleFrom, HleBefore, Goto
    <3>3. \A x \in {"cache", "dataset"} : x \in HleThings /\ Held(x) /\ ver[x] = cap[x]
      BY <2>1, <2>2 DEF HleInv, HeldFrom, HleKept, HleFrom, HleThings, Same
    <3>4. Tight("cache") /\ Tight("dataset")
      BY <1>0, <3>3, SameIsTight
    <3> QED
      BY <2>1, <3>1, <3>2, <3>4, HlePasses DEF HleChecks, HleEnd
  <2>3. CASE ~Same({"cache", "dataset"})
    BY <2>1, <2>3, HleAlarm DEF HleKept, HleChecks
  <2> QED
    BY <2>2, <2>3
<1>3. CASE HleNextPhase
  <2>1. /\ pc \in {"phase1", "phase2"} /\ UNCHANGED <<lane, ver, cap, seen, disturbs, truth, found>>
        /\ truth \in HlePredicted \cup HleJudged /\ Tight("cache") /\ Tight("dataset")
    BY <1>3 DEF HleNextPhase, HleQuiet, HleInv, HleChecks
  <2>2. \/ Goto("copies")
        \/ truth.kind = "predicted" /\ Goto("judge")
        \/ Stop("runtime_output_unparseable", 0)
    BY <1>3 DEF HleNextPhase
  <2>3. CASE Goto("copies")
    <3>1. HleSameStage
      BY <2>1, <2>3 DEF HleSameStage, HleKept, HleFrom, HleBefore, Goto
    <3> QED
      BY <2>1, <2>3, <3>1, HlePasses DEF HleChecks, HleEnd
  <2>4. CASE truth.kind = "predicted" /\ Goto("judge")
    <3>1. HleSameStage
      BY <2>1, <2>4 DEF HleSameStage, HleKept, HleFrom, HleBefore, Goto
    <3>2. truth \in HlePredicted
      BY <2>1, <2>4 DEF HleJudged
    <3> QED
      BY <2>1, <2>4, <3>1, <3>2, HlePasses DEF HleChecks, HleEnd
  <2>5. CASE Stop("runtime_output_unparseable", 0)
    BY <1>0, <2>1, <2>5, StaysTyped, HleEnds, Fails DEF Stop, Harmless
  <2> QED
    BY <2>2, <2>3, <2>4, <2>5
<1>4. CASE HleCheckCopies
  <2>1. /\ pc = "copies" /\ UNCHANGED <<lane, ver, cap, seen, disturbs, truth, found>>
        /\ IF Same({"copies"}) THEN Goto("source") ELSE Stop("evidence_corrupt", spent)
        /\ Tight("cache") /\ Tight("dataset")
    BY <1>4 DEF HleCheckCopies, At, HleQuiet, HleInv, HleEnd
  <2>2. CASE Same({"copies"})
    <3>1. HleSameStage /\ Goto("source")
      BY <2>1, <2>2 DEF HleSameStage, HleKept, HleFrom, HleBefore, Goto
    <3>2. "copies" \in HleThings /\ Held("copies") /\ ver["copies"] = cap["copies"]
      BY <2>1, <2>2 DEF HleInv, HeldFrom, HleKept, HleFrom, HleThings, Same
    <3>3. Tight("copies")
      BY <1>0, <3>2, SameIsTight
    <3> QED
      BY <2>1, <3>1, <3>3, HlePasses DEF HleChecks, HleEnd
  <2>3. CASE ~Same({"copies"})
    BY <2>1, <2>3, HleAlarm DEF HleKept, HleEnd
  <2> QED
    BY <2>2, <2>3
<1>5. CASE HleCheckSource
  <2>1. /\ pc = "source" /\ UNCHANGED <<lane, ver, cap, seen, disturbs, truth, found>>
        /\ IF Genuine({"checkout"}) <=> HleCaptured THEN Goto("logs")
           ELSE Stop("evidence_corrupt", spent)
        /\ Tight("cache") /\ Tight("dataset") /\ Tight("copies")
    BY <1>5 DEF HleCheckSource, At, HleQuiet, HleInv, HleEnd
  <2>2. CASE Genuine({"checkout"}) <=> HleCaptured
    <3>1. HleSameStage /\ Goto("logs")
      BY <2>1, <2>2 DEF HleSameStage, HleKept, HleFrom, HleBefore, Goto
    <3> QED
      BY <2>1, <3>1, HlePasses DEF HleChecks, HleEnd
  <2>3. CASE ~(Genuine({"checkout"}) <=> HleCaptured)
    <3>1. disturbs # 0
      BY <2>1, <2>3 DEF HleInv, HleBefore, HleFrom, Genuine, HleCaptured
    <3> QED
      BY <1>0, <2>1, <2>3, <3>1, StaysTyped, HleEnds, Corrupts DEF Stop
  <2> QED
    BY <2>2, <2>3
<1>6. CASE HleCheckArtifacts
  <2>1. /\ pc = "logs" /\ UNCHANGED <<lane, ver, cap, seen, disturbs, truth, found>>
        /\ IF Same({"artifacts"}) THEN Goto("parse") ELSE Stop("evidence_corrupt", spent)
        /\ Tight("cache") /\ Tight("dataset") /\ Tight("copies")
    BY <1>6 DEF HleCheckArtifacts, At, HleQuiet, HleInv, HleEnd
  <2>2. CASE Same({"artifacts"})
    <3>1. HleSameStage /\ Goto("parse")
      BY <2>1, <2>2 DEF HleSameStage, HleKept, HleFrom, HleBefore, Goto
    <3> QED
      BY <2>1, <3>1, HlePasses DEF HleChecks, HleEnd
  <2>3. CASE ~Same({"artifacts"})
    BY <2>1, <2>3, HleAlarm DEF HleKept, HleEnd
  <2> QED
    BY <2>2, <2>3
<1> QED
  BY <1>1, <1>2, <1>3, <1>4, <1>5, <1>6

LEMMA HleStep ==
    ASSUME HleInv, FrameInv, lane = "hle", HleNext
    PROVE  HleInv' /\ FrameInv' /\ lane' = "hle"
<1>0. Typed(HleThings)
  BY DEF HleInv
<1>1. CASE HleParse
  <2>1. /\ pc = "parse" /\ pc' = "stamp" /\ Goto("stamp") /\ found' \in {HleOfficial, Nothing}
        /\ UNCHANGED <<lane, ver, cap, seen, disturbs, truth>>
        /\ Tight("cache") /\ Tight("dataset") /\ Tight("copies")
        /\ truth \in HlePredicted \cup HleJudged
    BY <1>1 DEF HleParse, At, Goto, things, HleInv, HleEnd
  <2>2. HleSameStage
    BY <2>1 DEF HleSameStage, HleKept, HleFrom, HleBefore
  <2>3. found' = Nothing \/
          /\ truth.kind = "judged" /\ ~truth.odd /\ truth.rows = Samples
          /\ found' = [kind |-> "score", right |-> truth.right, total |-> truth.rows]
    BY <2>1 DEF HleOfficial
  <2>4. HlePredicted' = HlePredicted /\ HleJudged' = HleJudged
    BY DEF HlePredicted, HleJudged
  <2>5. \A x \in {"cache", "dataset", "copies"} : x \in HleKept
    BY DEF HleKept
  <2> QED
    BY <2>1, <2>2, <2>3, <2>4, <2>5, HleMoves, GoesOn DEF HleInv, HleChecks, HleEnd
<1>2. CASE HleStamp
  <2>1. /\ pc = "stamp" /\ UNCHANGED <<lane, ver, cap, seen, disturbs, truth, found>>
        /\ IF Same({"work"}) THEN Stop(HleVerdict, spent) ELSE Stop("evidence_corrupt", spent)
    BY <1>2 DEF HleStamp, At, HleQuiet
  <2>2. CASE Same({"work"})
    BY <1>0, <2>1, <2>2, StaysTyped, HleEnds, HleRow DEF Stop
  <2>3. CASE ~Same({"work"})
    BY <2>1, <2>3, HleAlarm DEF HleKept, HleEnd
  <2> QED
    BY <2>2, <2>3
<1> QED
  BY <1>1, <1>2, HleFirstSteps, HlePhaseStarts, HlePhaseEnds, HleChecksSteps DEF HleNext

-----------------------------------------------------------------------------
(* The agent lane *)

LEMMA AgentThingsAre ==
    /\ AgentDirs \subseteq AgentThings /\ \A x \in AgentDirs : AgentFrom[x] = {"start"}
    /\ "instance" \in AgentDirs /\ "capture" \in AgentDirs
    /\ "logs" \in AgentThings /\ "failure_log" \in AgentThings
    /\ "logs" \notin AgentDirs /\ "failure_log" \notin AgentDirs
BY DEF AgentDirs, AgentThings, AgentFrom

LEMMA AgentSwap ==
    ASSUME AgentInv, disturbs \in Nat, Disturb
    PROVE  AgentInv'
<1>1. Typed(AgentThings)' /\ UNCHANGED <<pc, found>> /\ disturbs' # 0
  BY Swapped DEF AgentInv, Disturb
<1>2. \A x \in AgentDirs : HeldFrom(x, AgentFrom[x])'
  BY AgentThingsAre, SwapHeldFrom DEF AgentInv
<1>3. Tight("instance") => Tight("instance")'
  BY AgentThingsAre, Swapped DEF AgentInv
<1> QED
  BY <1>1, <1>2, <1>3 DEF AgentInv

LEMMA AgentEnds ==
    ASSUME pc' = "over", Typed(AgentThings)'
    PROVE  AgentInv'
BY AgentThingsAre DEF AgentInv, HeldFrom

\* The failure log is all that a failure may leave.
LEMMA AgentFails ==
    ASSUME Typed(AgentThings), NEW label, NEW latency, AgentFail(label, latency), UNCHANGED <<cap, seen>>
    PROVE  AgentInv' /\ pc' = "over" /\ out' = label
<1>1. pc' = "over" /\ out' = label /\ ver' \in [AgentThings -> Versions]
  BY VersionsAre DEF AgentFail, Stop, Typed
<1> QED
  BY <1>1, AgentEnds DEF Typed

\* A step that goes on with the directories as they are, or uses one of them.
LEMMA AgentMoves ==
    ASSUME AgentInv, FrameInv, NEW step, Goto(step), step \notin {"start", "over"},
           pc \notin {"start", "over"}, UNCHANGED disturbs, Typed(AgentThings)',
           \A x \in AgentDirs : Kept(x) /\ seen'[x] \subseteq seen[x] \cup {ver[x]}
    PROVE  FrameInv' /\ pc' = step /\ \A x \in AgentDirs : HeldFrom(x, AgentFrom[x])'
<1>1. pc' = step /\ FrameInv'
  BY GoesOn DEF Goto
<1>2. \A x \in AgentDirs : Keeps(x, AgentFrom[x])
  BY <1>1, AgentThingsAre DEF Keeps
<1> QED
  BY <1>1, <1>2, AgentThingsAre, KeepsHeld DEF AgentInv

LEMMA AgentStep ==
    ASSUME AgentInv, FrameInv, lane = "agent", AgentNext
    PROVE  AgentInv' /\ FrameInv' /\ lane' = "agent"
<1>0. /\ Typed(AgentThings) /\ ver \in [AgentThings -> Versions]
      /\ cap \in [AgentThings -> Versions] /\ seen \in [AgentThings -> SUBSET Versions]
  BY DEF AgentInv, Typed
<1>1. CASE AgentPin
  <2>1. /\ pc = "start" /\ UNCHANGED <<lane, ver, seen, disturbs, found>>
        /\ \/ Pin(AgentDirs) /\ Goto("command") /\ pc' = "command"
           \/ Stop("refused", 0) /\ UNCHANGED cap
    BY <1>1 DEF AgentPin, At, AgentQuiet, Goto
  <2>2. CASE Pin(AgentDirs) /\ Goto("command") /\ pc' = "command"
    <3>1. Typed(AgentThings)'
          /\ \A x \in AgentThings : cap'[x] = IF x \in AgentDirs THEN ver[x] ELSE cap[x]
      BY <1>0, <2>1, <2>2, PinTyped
    <3>2. \A x \in AgentDirs : Keeps(x, AgentFrom[x])
      BY <1>0, <2>1, <2>2, <3>1, AgentThingsAre DEF Keeps
    <3>3. \A x \in AgentDirs : HeldFrom(x, AgentFrom[x])'
      BY <1>0, <2>1, <2>2, <3>2, AgentThingsAre, KeepsHeld DEF AgentInv
    <3> QED
      BY <2>1, <2>2, <3>1, <3>3, GoesOn DEF AgentInv
  <2>3. CASE Stop("refused", 0) /\ UNCHANGED cap
    BY <1>0, <2>1, <2>3, StaysTyped, AgentEnds, Fails DEF Stop, Harmless
  <2> QED
    BY <2>1, <2>2, <2>3
<1>2. CASE AgentCommand
  <2>1. /\ pc = "command" /\ UNCHANGED <<lane, ver, cap, seen, disturbs, found>>
        /\ Goto("launch") \/ Stop("refused", 0)
    BY <1>2 DEF AgentCommand, At, AgentQuiet
  <2>2. Typed(AgentThings)'
    BY <1>0, <2>1, StaysTyped
  <2>3. CASE Goto("launch")
    BY <2>1, <2>2, <2>3, AgentMoves DEF AgentInv, Kept
  <2>4. CASE Stop("refused", 0)
    BY <2>1, <2>2, <2>4, AgentEnds, Fails DEF Stop, Harmless
  <2> QED
    BY <2>1, <2>3, <2>4
<1>3. CASE AgentLaunch
  <2>1. /\ pc = "launch" /\ UNCHANGED <<lane, ver, cap, disturbs, found>>
        /\ Use({"instance"}) /\ Goto("running")
    BY <1>3 DEF AgentLaunch, At
  <2>2. Typed(AgentThings)' /\ \A x \in AgentThings : seen'[x] \subseteq seen[x] \cup {ver[x]}
    BY <1>0, <2>1, UseTyped
  <2> QED
    BY <2>1, <2>2, AgentThingsAre, AgentMoves DEF AgentInv, Kept
<1>4. CASE AgentFinish
  <2>1. /\ pc = "running" /\ UNCHANGED <<lane, ver, cap, seen, disturbs, found>> /\ Goto("write")
    BY <1>4 DEF AgentFinish, At, things
  <2>2. Typed(AgentThings)'
    BY <1>0, <2>1, StaysTyped
  <2> QED
    BY <2>1, <2>2, AgentMoves DEF AgentInv, Kept
<1>5. CASE AgentCut
  <2>1. /\ UNCHANGED <<lane, cap, seen, disturbs>>
        /\ \/ AgentFail("runtime_budget_exceeded", Wall)
           \/ AgentFail("runtime_launch_failure", 0)
    BY <1>5 DEF AgentCut
  <2> QED
    BY <1>0, <2>1, AgentFails, Fails DEF Harmless
<1>6. CASE AgentWrite
  <2>1. /\ pc = "write" /\ UNCHANGED <<lane, seen, disturbs>> /\ Goto("identity")
        /\ \/ /\ found' = [kind |-> "written"]
              /\ ver' = [ver EXCEPT !["logs"] = Pinned] /\ cap' = [cap EXCEPT !["logs"] = Pinned]
           \/ found' = [kind |-> "unwritten"] /\ UNCHANGED <<ver, cap>>
    BY <1>6 DEF AgentWrite, At, AgentQuiet
  <2>2. Typed(AgentThings)'
    BY <1>0, <2>1, VersionsAre DEF Typed
  <2>3. /\ \A x \in AgentDirs : Kept(x)
        /\ found' = [kind |-> "written"] => ver'["logs"] = cap'["logs"]
    BY <1>0, <2>1, AgentThingsAre DEF Kept
  <2>4. FrameInv' /\ pc' = "identity" /\ \A x \in AgentDirs : HeldFrom(x, AgentFrom[x])'
    BY <2>1, <2>2, <2>3, AgentMoves
  <2> QED
    BY <2>1, <2>2, <2>3, <2>4 DEF AgentInv
<1>7. CASE AgentIdentity
  <2>1. pc = "identity" /\ UNCHANGED <<lane, cap, seen, disturbs, found>>
        /\ found \in [kind : {"written", "unwritten"}]
    BY <1>7 DEF AgentIdentity, At, AgentQuiet, AgentInv
  <2>2. \/ ~Same(AgentDirs) /\ AgentFail("evidence_corrupt", spent)
        \/ AgentFail("materialization_failure", spent)
        \/ Same(AgentDirs) /\ found.kind = "written" /\ Goto("content") /\ UNCHANGED ver
    BY <1>7, <2>1 DEF AgentIdentity
  <2>3. CASE ~Same(AgentDirs) /\ AgentFail("evidence_corrupt", spent)
    <3>1. disturbs # 0
      BY <2>1, <2>3, AgentThingsAre DEF AgentInv, HeldFrom, Held, Same
    <3> QED
      BY <1>0, <2>1, <2>3, <3>1, AgentFails, Corrupts
  <2>4. CASE AgentFail("materialization_failure", spent)
    BY <1>0, <2>1, <2>4, AgentFails, Fails DEF Harmless
  <2>5. CASE Same(AgentDirs) /\ found.kind = "written" /\ Goto("content") /\ UNCHANGED ver
    <3>1. "instance" \in AgentThings /\ Held("instance") /\ ver["instance"] = cap["instance"]
      BY <2>1, <2>5, AgentThingsAre DEF AgentInv, HeldFrom, Same
    <3>2. Tight("instance") /\ Typed(AgentThings)'
      BY <1>0, <2>1, <2>5, <3>1, SameIsTight, StaysTyped
    <3>3. Tight("instance")'
      BY <2>1, <3>2 DEF Tight
    <3>4. FrameInv' /\ pc' = "content" /\ \A x \in AgentDirs : HeldFrom(x, AgentFrom[x])'
      BY <2>1, <2>5, <3>2, AgentMoves DEF Kept
    <3> QED
      BY <2>1, <2>5, <3>2, <3>3, <3>4 DEF AgentInv
  <2> QED
    BY <2>2, <2>3, <2>4, <2>5
<1>8. CASE AgentContent
  <2>1. /\ pc = "content" /\ UNCHANGED <<lane, cap, seen, disturbs, found>>
        /\ IF Same({"logs"}) THEN Stop(AgentLabel, spent) /\ UNCHANGED ver
           ELSE AgentFail("evidence_corrupt", spent)
        /\ found.kind = "written" /\ Tight("instance")
    BY <1>8 DEF AgentContent, At, AgentQuiet, AgentInv
  <2>2. CASE Same({"logs"})
    <3>1. AgentInv' /\ pc' = "over" /\ out' \in AgentCaptured /\ UNCHANGED ver
      BY <1>0, <2>1, <2>2, StaysTyped, AgentEnds DEF Stop, AgentLabel, AgentCaptured
    <3>2. SettledIsCaptured'
      BY <2>1, <2>2, <3>1 DEF SettledIsCaptured, ByLane, AgentGuarded, AgentNamed, Tight, Same
    <3>3. VerdictIsEarned' /\ CorruptHasCause'
      BY <3>1 DEF VerdictIsEarned, CorruptHasCause, AgentCaptured, Scored
    <3> QED
      BY <2>1, <3>1, <3>2, <3>3 DEF FrameInv, Verdicts
  <2>3. CASE ~Same({"logs"})
    <3>1. disturbs # 0
      BY <2>1, <2>3 DEF AgentInv, Same
    <3> QED
      BY <1>0, <2>1, <2>3, <3>1, AgentFails, Corrupts
  <2> QED
    BY <2>2, <2>3
<1> QED
  BY <1>1, <1>2, <1>3, <1>4, <1>5, <1>6, <1>7, <1>8 DEF AgentNext

-----------------------------------------------------------------------------
(* BFCL *)

LEMMA BfclThingsAre ==
    /\ BfclKept \subseteq BfclThings /\ BfclDirs \subseteq BfclKept
    /\ {"package", "copy", "answer"} \subseteq BfclKept
    /\ "study" \in BfclThings \ BfclKept /\ "score" \in BfclThings \ BfclKept
    /\ {"package", "copy", "answer"} \cap BfclDirs = {}
    /\ \A x \in BfclDirs : BfclFrom[x] = BfclBefore
    /\ BfclFrom["package"] = BfclStart /\ BfclFrom["copy"] = BfclEarly
    /\ BfclFrom["answer"] = BfclFirst
<1>1. /\ BfclKept \subseteq BfclThings /\ BfclDirs \subseteq BfclKept
      /\ {"package", "copy", "answer"} \subseteq BfclKept
      /\ "study" \in BfclThings \ BfclKept /\ "score" \in BfclThings \ BfclKept
      /\ {"package", "copy", "answer"} \cap BfclDirs = {}
  BY DEF BfclKept, BfclThings, BfclDirs
<1>2. \A x \in BfclDirs : BfclFrom[x] = BfclBefore
  BY <1>1 DEF BfclFrom
<1>3. /\ BfclFrom["package"] = BfclStart /\ BfclFrom["copy"] = BfclEarly
      /\ BfclFrom["answer"] = BfclFirst
  BY <1>1 DEF BfclFrom
<1> QED
  BY <1>1, <1>2, <1>3

LEMMA BfclNotOver == \A x \in BfclKept : "over" \notin BfclFrom[x]
<1>1. \A x \in BfclKept : x \in BfclDirs \cup {"package", "copy", "answer"}
  BY DEF BfclKept
<1> QED
  BY <1>1, BfclThingsAre DEF BfclStart, BfclEarly, BfclBefore, BfclFirst

LEMMA BfclEnds ==
    ASSUME pc' = "over", Typed(BfclThings)'
    PROVE  BfclInv'
BY BfclNotOver DEF BfclInv, BfclHeld, BfclStart, BfclEarly, BfclMiddle, BfclEnd

LEMMA BfclSwap ==
    ASSUME BfclInv, disturbs \in Nat, Disturb
    PROVE  BfclInv'
<1>1. Typed(BfclThings)' /\ UNCHANGED <<pc, cap, truth, found>> /\ disturbs' # 0
  BY Swapped DEF BfclInv, Disturb
<1>2. BfclHeld'
  BY <1>1, Swapped, BfclThingsAre DEF BfclInv, BfclHeld, BfclWants
<1>3. \A x \in BfclKept : Tight(x) => Tight(x)'
  BY Swapped, BfclThingsAre DEF BfclInv
<1>4. /\ BfclGenerated' = BfclGenerated /\ BfclEvaluated' = BfclEvaluated
      /\ BfclFound' = BfclFound /\ BfclLooksFor' = BfclLooksFor
  BY <1>1 DEF BfclGenerated, BfclEvaluated, BfclFound, BfclLooksFor
<1>5. Tight(IF found.copied THEN "copy" ELSE "package")
        => (Tight(IF found.copied THEN "copy" ELSE "package"))'
  BY <1>1, <1>3, BfclThingsAre
<1> QED
  BY <1>1, <1>2, <1>3, <1>4, <1>5, BfclThingsAre DEF BfclInv

\* One step, for all the things the attempt captures.
LEMMA BfclKeeps ==
    ASSUME BfclInv, UNCHANGED disturbs, pc # "over", pc' # "over",
           \A x \in BfclKept :
              /\ pc \in BfclFrom[x] \/ (BfclWants(x)' => BfclWants(x))
              /\ Keeps(x, BfclFrom[x]) \/ (pc' \notin BfclFrom[x] /\ ~BfclWants(x)')
    PROVE  BfclHeld'
<1> SUFFICES ASSUME NEW x \in BfclKept
             PROVE  /\ pc' \in BfclFrom[x] => Unused(x)'
                    /\ pc' \notin BfclFrom[x] /\ BfclWants(x)' => Held(x)'
  BY DEF BfclHeld
<1>1. x \in BfclThings /\ Typed(BfclThings)
  BY BfclThingsAre DEF BfclInv
<1>2. CASE Keeps(x, BfclFrom[x]) /\ HeldFrom(x, BfclFrom[x])
  <2>1. HeldFrom(x, BfclFrom[x])'
    BY <1>1, <1>2, KeepsOne
  <2> QED
    BY <2>1 DEF HeldFrom
<1>3. CASE Keeps(x, BfclFrom[x]) /\ ~HeldFrom(x, BfclFrom[x])
  <2>1. pc \notin BfclFrom[x] /\ ~BfclWants(x)
    BY <1>3 DEF BfclInv, BfclHeld, HeldFrom
  <2> QED
    BY <1>3, <2>1 DEF Keeps
<1>4. CASE pc' \notin BfclFrom[x] /\ ~BfclWants(x)'
  BY <1>4
<1> QED
  BY <1>2, <1>3, <1>4

\* A step that touches none of the things it captured.
BfclSameStage ==
    /\ {pc, pc'} \cap {"over"} = {}
    /\ \A x \in BfclKept : pc' \in BfclFrom[x] <=> pc \in BfclFrom[x]

LEMMA BfclMoves ==
    ASSUME BfclInv, BfclSameStage, UNCHANGED disturbs,
           found' = found \/ (found'.copied = found.copied /\ found'.exact = found.exact),
           \A x \in BfclKept : Kept(x) /\ seen'[x] = seen[x]
    PROVE  BfclHeld' /\ \A x \in BfclKept : Tight(x)' <=> Tight(x)
<1>1. \A x \in BfclKept : Keeps(x, BfclFrom[x]) /\ (BfclWants(x)' => BfclWants(x))
  BY DEF BfclSameStage, Keeps, BfclWants
<1> QED
  BY <1>1, BfclKeeps DEF BfclSameStage, Tight, Kept

\* Without a swap every thing captured is as it was.
LEMMA BfclCalm ==
    ASSUME BfclInv, disturbs = 0, NEW x \in BfclKept, pc \notin BfclFrom[x] \cup {"over"},
           BfclWants(x)
    PROVE  ver[x] = cap[x]
BY DEF BfclInv, BfclHeld, Held

\* A failure that leaves everything as it is.
LEMMA BfclFails ==
    ASSUME BfclInv, FrameInv, lane = "bfcl", UNCHANGED <<lane, ver, cap, seen, disturbs>>,
           NEW label \in Harmless \cup {"harness_failure"}, NEW latency, Stop(label, latency)
    PROVE  BfclInv' /\ FrameInv' /\ lane' = "bfcl"
<1>1. Typed(BfclThings)'
  BY StaysTyped DEF BfclInv
<1> QED
  BY <1>1, BfclEnds, Fails DEF Stop

LEMMA BfclAlarm ==
    ASSUME BfclInv, FrameInv, lane = "bfcl", UNCHANGED <<lane, ver, cap, seen, disturbs>>,
           NEW latency, Stop("evidence_corrupt", latency), disturbs # 0 \/ Irregular'
    PROVE  BfclInv' /\ FrameInv' /\ lane' = "bfcl"
<1>1. Typed(BfclThings)'
  BY StaysTyped DEF BfclInv
<1> QED
  BY <1>1, BfclEnds, Corrupts DEF Stop

LEMMA BfclFirstSteps ==
    ASSUME BfclInv, FrameInv, lane = "bfcl",
           BfclResolve \/ BfclPackage \/ BfclCopy \/ BfclStudy \/ BfclPin \/ BfclBeforeGenerate
    PROVE  BfclInv' /\ FrameInv' /\ lane' = "bfcl"
<1>0. /\ Typed(BfclThings) /\ ver \in [BfclThings -> Versions] /\ cap \in [BfclThings -> Versions]
      /\ seen \in [BfclThings -> SUBSET Versions]
  BY DEF BfclInv, Typed
<1> USE BfclThingsAre
<1>1. CASE BfclResolve
  <2>1. /\ pc = "start" /\ UNCHANGED <<lane, ver, cap, seen, disturbs>>
        /\ \/ /\ Goto("package") /\ pc' = "package"
              /\ found' \in BfclFound
           \/ Stop("refused", 0)
    BY <1>1 DEF BfclResolve, BfclFound, At, things, Goto
  <2>2. CASE Stop("refused", 0)
    BY <2>1, <2>2, BfclFails DEF Harmless
  <2>3. CASE /\ Goto("package") /\ pc' = "package"
             /\ found' \in BfclFound
    <3>1. \A x \in BfclKept : pc \in BfclFrom[x] /\ pc' \in BfclFrom[x]
      BY <2>1, <2>3 DEF BfclKept, BfclStart, BfclEarly, BfclBefore, BfclFirst
    <3>2. BfclHeld'
      BY <2>1, <2>3, <3>1, BfclKeeps DEF Keeps
    <3>3. Typed(BfclThings)'
      BY <1>0, <2>1, StaysTyped
    <3> QED
      BY <2>1, <2>3, <3>2, <3>3, GoesOn DEF BfclInv, BfclStart, BfclEarly, BfclMiddle, BfclEnd
  <2> QED
    BY <2>1, <2>2, <2>3
<1>2. CASE BfclPackage
  <2>1. /\ pc = "package" /\ Pin({"package"}) /\ UNCHANGED <<lane, ver, seen, disturbs, truth, found>>
        /\ \/ Genuine({"package"}) /\ Goto("copy") /\ pc' = "copy"
           \/ Stop("refused", 0)
    BY <1>2 DEF BfclPackage, At, BfclQuiet, Goto
  <2>2. /\ Typed(BfclThings)'
        /\ \A x \in BfclThings : cap'[x] = IF x \in {"package"} THEN ver[x] ELSE cap[x]
    BY <1>0, <2>1, PinTyped
  <2>3. CASE Stop("refused", 0)
    BY <2>1, <2>2, <2>3, BfclEnds, Fails DEF Stop, Harmless
  <2>4. CASE Genuine({"package"}) /\ Goto("copy") /\ pc' = "copy"
    <3>1. \A x \in BfclKept : /\ pc \in BfclFrom[x]
                              /\ pc' \in BfclFrom[x] <=> x # "package"
      BY <2>1, <2>4 DEF BfclKept, BfclStart, BfclEarly, BfclBefore, BfclFirst
    <3>2. BfclHeld'
      BY <1>0, <2>1, <2>2, <2>4, <3>1, BfclKeeps DEF Keeps
    <3>3. cap'["package"] = Pinned
      BY <2>1, <2>2, <2>4 DEF Genuine
    <3> QED
      BY <2>1, <2>2, <2>4, <3>2, <3>3, GoesOn DEF BfclInv, BfclStart, BfclEarly, BfclMiddle, BfclEnd
  <2> QED
    BY <2>1, <2>3, <2>4
<1>3. CASE BfclCopy
  <2>1. /\ pc = "copy" /\ UNCHANGED <<lane, seen, disturbs, truth, found>>
        /\ found \in BfclFound
    BY <1>3 DEF BfclCopy, At, BfclQuiet, BfclInv
  <2>2. \/ ~found.copied /\ Goto("study") /\ UNCHANGED <<ver, cap>>
        \/ Stop("runtime_config_drift", 0) /\ UNCHANGED <<ver, cap>>
        \/ /\ ver' = [ver EXCEPT !["copy"] = IF ver["copy"] = Absent THEN Pinned ELSE ver["copy"]]
           /\ cap' = [cap EXCEPT !["copy"] = Pinned]
           /\ ver["copy"] \in {Absent, Pinned} /\ Goto("study")
    BY <1>3, <2>1 DEF BfclCopy
  <2>3. CASE Stop("runtime_config_drift", 0) /\ UNCHANGED <<ver, cap>>
    BY <2>1, <2>3, BfclFails DEF Harmless
  <2>4. \A x \in BfclKept :
           /\ pc \in BfclFrom[x] <=> x # "package"
           /\ "study" \in BfclFrom[x] <=> x \notin {"package", "copy"}
    BY <2>1 DEF BfclKept, BfclStart, BfclEarly, BfclBefore, BfclFirst
  <2>5. CASE ~found.copied /\ Goto("study") /\ UNCHANGED <<ver, cap>>
    <3>1. pc' = "study" /\ Typed(BfclThings)'
      BY <1>0, <2>1, <2>5, StaysTyped DEF Goto
    <3>2. BfclHeld'
      BY <2>1, <2>4, <2>5, <3>1, BfclKeeps DEF Keeps, Kept, BfclWants
    <3> QED
      BY <2>1, <2>5, <3>1, <3>2, GoesOn DEF BfclInv, BfclStart, BfclEarly, BfclMiddle, BfclEnd
  <2>6. CASE /\ ver' = [ver EXCEPT !["copy"] = IF ver["copy"] = Absent THEN Pinned ELSE ver["copy"]]
             /\ cap' = [cap EXCEPT !["copy"] = Pinned]
             /\ ver["copy"] \in {Absent, Pinned} /\ Goto("study")
    <3>1. /\ ver'["copy"] = Pinned /\ cap'["copy"] = Pinned /\ Pinned \in Versions /\ pc' = "study"
          /\ \A x \in BfclThings : x # "copy" => Kept(x)
          /\ Typed(BfclThings)'
      BY <1>0, <2>1, <2>6, VersionsAre DEF Kept, Typed, Goto
    <3>2. BfclHeld'
      BY <2>1, <2>4, <3>1, BfclKeeps DEF Keeps, BfclWants
    <3>3. Kept("package") /\ Kept("study")
      BY <3>1
    <3> QED
      BY <2>1, <2>6, <3>1, <3>2, <3>3, GoesOn
         DEF BfclInv, BfclStart, BfclEarly, BfclMiddle, BfclEnd, Kept
  <2> QED
    BY <2>2, <2>3, <2>5, <2>6
<1>4. CASE BfclStudy
  <2>1. /\ pc = "study" /\ UNCHANGED <<lane, cap, seen, disturbs, truth, found>>
        /\ found \in BfclFound
        /\ IF ver["study"] \in {Absent, Pinned}
           THEN ver' = [ver EXCEPT !["study"] = Pinned] /\ Goto("dirs")
           ELSE Stop("evidence_corrupt", 0) /\ UNCHANGED ver
    BY <1>4 DEF BfclStudy, At, BfclQuiet, BfclInv, BfclStart
  <2>2. CASE ver["study"] \in {Absent, Pinned}
    <3>1. /\ ver' = [ver EXCEPT !["study"] = Pinned] /\ Goto("dirs") /\ pc' = "dirs"
          /\ Typed(BfclThings)' /\ \A x \in BfclKept : Kept(x)
      BY <1>0, <2>1, <2>2, VersionsAre DEF Kept, Typed, Goto
    <3>2. BfclSameStage
      BY <2>1, <3>1 DEF BfclSameStage, BfclKept, BfclStart, BfclEarly, BfclBefore, BfclFirst
    <3>3. BfclHeld'
      BY <2>1, <3>1, <3>2, BfclMoves
    <3> QED
      BY <2>1, <3>1, <3>3, GoesOn DEF BfclInv, BfclStart, BfclEarly, BfclMiddle, BfclEnd, Kept
  <2>3. CASE ver["study"] \notin {Absent, Pinned}
    <3>1. ver["study"] = 0 \/ disturbs # 0
      BY <1>0, <2>1, <2>3, VersionsAre DEF BfclInv
    <3>2. ver["study"] = 0 => Irregular'
      BY <2>1, <2>3 DEF Irregular, ByLane
    <3> QED
      BY <2>1, <2>3, <3>1, <3>2, BfclAlarm
  <2> QED
    BY <2>2, <2>3
<1>5. CASE BfclPin
  <2>1. /\ pc = "dirs" /\ Pin(BfclDirs) /\ Goto("copy0") /\ pc' = "copy0"
        /\ UNCHANGED <<lane, ver, seen, disturbs, truth, found>>
        /\ found \in BfclFound
    BY <1>5 DEF BfclPin, At, BfclQuiet, Goto, BfclInv, BfclStart
  <2>2. /\ Typed(BfclThings)'
        /\ \A x \in BfclThings : cap'[x] = IF x \in BfclDirs THEN ver[x] ELSE cap[x]
    BY <1>0, <2>1, PinTyped
  <2>3. \A x \in BfclKept :
           /\ pc \in BfclFrom[x] <=> x \in BfclDirs \/ x = "answer"
           /\ pc' \in BfclFrom[x] <=> x = "answer"
    BY <2>1 DEF BfclKept, BfclStart, BfclEarly, BfclBefore, BfclFirst
  <2>4. BfclHeld'
    BY <1>0, <2>1, <2>2, <2>3, BfclKeeps DEF Keeps, Kept, BfclWants
  <2> QED
    BY <2>1, <2>2, <2>4, GoesOn DEF BfclInv, BfclStart, BfclEarly, BfclMiddle, BfclEnd
<1>6. CASE BfclBeforeGenerate
  <2>1. /\ pc = "copy0" /\ UNCHANGED <<lane, ver, cap, seen, disturbs, truth, found>>
        /\ found \in BfclFound
        /\ Goto("generate") \/ Stop("runtime_config_drift", 0)
    BY <1>6 DEF BfclBeforeGenerate, At, BfclQuiet, BfclInv, BfclStart
  <2>2. CASE Goto("generate")
    <3>1. pc' = "generate" /\ Typed(BfclThings)'
      BY <1>0, <2>1, <2>2, StaysTyped DEF Goto
    <3>2. BfclSameStage
      BY <2>1, <3>1 DEF BfclSameStage, BfclKept, BfclStart, BfclEarly, BfclBefore, BfclFirst
    <3>3. BfclHeld'
      BY <2>1, <3>1, <3>2, BfclMoves DEF Kept
    <3> QED
      BY <2>1, <2>2, <3>1, <3>3, GoesOn DEF BfclInv, BfclStart, BfclEarly, BfclMiddle, BfclEnd
  <2>3. CASE Stop("runtime_config_drift", 0)
    BY <2>1, <2>3, BfclFails DEF Harmless
  <2> QED
    BY <2>1, <2>2, <2>3
<1> QED
  BY <1>1, <1>2, <1>3, <1>4, <1>5, <1>6

LEMMA BfclPhases ==
    ASSUME BfclInv, FrameInv, lane = "bfcl",
           BfclGenerateStart \/ BfclGenerate \/ BfclCut \/ BfclEvaluateStart \/ BfclEvaluate
    PROVE  BfclInv' /\ FrameInv' /\ lane' = "bfcl"
<1>0. /\ Typed(BfclThings) /\ ver \in [BfclThings -> Versions] /\ cap \in [BfclThings -> Versions]
      /\ seen \in [BfclThings -> SUBSET Versions]
  BY DEF BfclInv, Typed
<1> USE BfclThingsAre
<1>1. CASE BfclGenerateStart
  <2>1. /\ pc = "generate" /\ Use(BfclUsed) /\ Goto("generating") /\ pc' = "generating"
        /\ UNCHANGED <<lane, ver, cap, disturbs, truth, found>>
        /\ found \in BfclFound
    BY <1>1 DEF BfclGenerateStart, At, Goto, BfclInv, BfclStart
  <2>2. /\ Typed(BfclThings)'
        /\ \A x \in BfclThings :
              seen'[x] = IF x \in BfclUsed THEN seen[x] \cup {ver[x]} ELSE seen[x]
    BY <1>0, <2>1, UseTyped
  <2>3. "answer" \notin BfclUsed
    BY DEF BfclUsed
  <2>4. \A x \in BfclKept :
           /\ pc \in BfclFrom[x] <=> x = "answer"
           /\ pc' \in BfclFrom[x] <=> x = "answer"
    BY <2>1 DEF BfclKept, BfclStart, BfclEarly, BfclBefore, BfclFirst
  <2>5. ASSUME NEW x \in BfclKept PROVE Keeps(x, BfclFrom[x])
    <3>1. Kept(x) /\ seen'[x] \subseteq seen[x] \cup {ver[x]} /\ (x = "answer" => seen'[x] = seen[x])
      BY <1>0, <2>1, <2>2, <2>3, UsesMore DEF Kept
    <3> QED
      BY <2>4, <3>1 DEF Keeps
  <2>6. BfclHeld'
    BY <2>1, <2>5, BfclKeeps DEF BfclWants
  <2> QED
    BY <2>1, <2>2, <2>6, GoesOn DEF BfclInv, BfclStart, BfclEarly, BfclMiddle, BfclEnd
<1>2. CASE BfclGenerate
  <2>1. /\ pc = "generating" /\ Goto("dirs1") /\ pc' = "dirs1" /\ truth' \in BfclGenerated
        /\ UNCHANGED <<lane, cap, seen, disturbs, found>>
        /\ found \in BfclFound
        /\ \E v \in {Absent, Pinned} : ver' = [ver EXCEPT !["answer"] = v]
    BY <1>2 DEF BfclGenerate, BfclGenerated, BfclRows, At, Goto, BfclInv, BfclStart
  <2>2. Typed(BfclThings)' /\ \A x \in BfclThings : x # "answer" => Kept(x)
    BY <1>0, <2>1, VersionsAre DEF Typed, Kept
  <2>3. \A x \in BfclKept :
           /\ pc \in BfclFrom[x] <=> x = "answer"
           /\ pc' \in BfclFrom[x] <=> x = "answer"
    BY <2>1 DEF BfclKept, BfclStart, BfclEarly, BfclBefore, BfclFirst
  <2>4. BfclHeld'
    BY <2>1, <2>2, <2>3, BfclKeeps DEF Keeps, BfclWants
  <2>5. (truth \in BfclGenerated)'
    BY <2>1 DEF BfclGenerated
  <2> QED
    BY <2>1, <2>2, <2>4, <2>5, GoesOn DEF BfclInv, BfclStart, BfclEarly, BfclMiddle, BfclEnd
<1>3. CASE BfclCut
  <2>1. /\ pc' = "over" /\ UNCHANGED <<lane, ver, cap, seen, disturbs>>
        /\ out' \in {"runtime_budget_exceeded", "runtime_launch_failure"}
    BY <1>3 DEF BfclCut, Stop, things
  <2> QED
    BY <1>0, <2>1, StaysTyped, BfclEnds, Fails DEF Harmless
<1>4. CASE BfclEvaluateStart
  <2>1. /\ pc = "evaluate" /\ Use(BfclUsed \cup {"scores", "answer"})
        /\ Goto("evaluating") /\ pc' = "evaluating"
        /\ UNCHANGED <<lane, ver, cap, disturbs, truth, found>>
        /\ found \in BfclFound
        /\ truth \in BfclGenerated /\ (found.exact => truth.rows = "one")
    BY <1>4 DEF BfclEvaluateStart, At, Goto, BfclInv, BfclStart, BfclMiddle
  <2>2. /\ Typed(BfclThings)'
        /\ \A x \in BfclThings : seen'[x] \subseteq seen[x] \cup {ver[x]}
    BY <1>0, <2>1, UsesMore
  <2>3. \A x \in BfclKept : {pc, pc'} \cap BfclFrom[x] = {}
    BY <2>1 DEF BfclKept, BfclStart, BfclEarly, BfclBefore, BfclFirst
  <2>4. BfclHeld'
    BY <2>1, <2>2, <2>3, BfclKeeps DEF Keeps, Kept, BfclWants
  <2>5. (truth \in BfclGenerated)'
    BY <2>1 DEF BfclGenerated
  <2> QED
    BY <2>1, <2>2, <2>4, <2>5, GoesOn DEF BfclInv, BfclStart, BfclEarly, BfclMiddle, BfclEnd
<1>5. CASE BfclEvaluate
  <2>1. /\ pc = "evaluating" /\ Goto("dirs2") /\ pc' = "dirs2"
        /\ UNCHANGED <<lane, cap, seen, disturbs, found>>
        /\ found \in BfclFound
        /\ truth \in BfclGenerated /\ (found.exact => truth.rows = "one")
        /\ ver' = [ver EXCEPT !["score"] = IF truth'.files = 0 THEN Absent ELSE Pinned]
    BY <1>5 DEF BfclEvaluate, At, Goto, BfclInv, BfclStart, BfclMiddle
  <2>2. truth' \in BfclEvaluated /\ (found.exact => truth'.rows = "one")
    <3>1. PICK e \in [kind : {"evaluated"}, rc : {0, 1}, crash : BOOLEAN, files : 0..2,
                      coherent : BOOLEAN, right : BOOLEAN, linked : BOOLEAN,
                      rows : {truth.rows}, error : {truth.error}] : truth' = e
      BY <1>5 DEF BfclEvaluate
    <3>2. truth.rows \in BfclRows /\ truth.error \in BOOLEAN
      BY <2>1 DEF BfclGenerated
    <3> QED
      BY <2>1, <3>1, <3>2 DEF BfclEvaluated
  <2>3. /\ Typed(BfclThings)' /\ \A x \in BfclThings : x # "score" => Kept(x)
        /\ truth'.files # 0 => ver'["score"] = Pinned
    BY <1>0, <2>1, VersionsAre DEF Typed, Kept
  <2>4. BfclSameStage
    BY <2>1 DEF BfclSameStage, BfclKept, BfclStart, BfclEarly, BfclBefore, BfclFirst
  <2>5. BfclHeld'
    BY <2>1, <2>3, <2>4, BfclMoves
  <2>6. (truth \in BfclEvaluated)'
    BY <2>2 DEF BfclEvaluated
  <2> QED
    BY <2>1, <2>2, <2>3, <2>5, <2>6, GoesOn
       DEF BfclInv, BfclStart, BfclEarly, BfclMiddle, BfclEnd, Kept
<1> QED
  BY <1>1, <1>2, <1>3, <1>4, <1>5

\* A check after the first phase that finds what it looks for.
LEMMA BfclPasses ==
    ASSUME BfclInv, FrameInv, BfclSameStage, NEW step, Goto(step), pc \notin BfclBefore,
           UNCHANGED <<ver, cap, seen, disturbs, truth, found>>,
           <<pc, step>> \in {<<"dirs1", "answer1">>, <<"remaining", "data1">>, <<"data1", "evaluate">>,
                             <<"dirs2", "data2">>, <<"data2", "answer2">>, <<"answer2", "locate">>},
           step = "data2" => \A x \in BfclDirs : Tight(x),
           step = "answer2" => Tight(IF found.copied THEN "copy" ELSE "package"),
           step = "locate" /\ found.exact => Tight("answer")
    PROVE  BfclInv' /\ FrameInv'
<1>1. pc' = step /\ Typed(BfclThings)' /\ FrameInv'
  BY StaysTyped, GoesOn DEF Goto, BfclInv, BfclSameStage
<1>2. BfclHeld' /\ \A x \in BfclKept : Tight(x)' <=> Tight(x)
  BY BfclMoves DEF Kept
<1>3. (Tight(IF found.copied THEN "copy" ELSE "package"))'
        <=> Tight(IF found.copied THEN "copy" ELSE "package")
  BY DEF Tight
<1>4. BfclGenerated' = BfclGenerated /\ BfclEvaluated' = BfclEvaluated
  BY DEF BfclGenerated, BfclEvaluated
<1> QED
  BY <1>1, <1>2, <1>3, <1>4, BfclThingsAre
     DEF BfclInv, BfclStart, BfclEarly, BfclMiddle, BfclEnd, BfclBefore

LEMMA BfclChecks ==
    ASSUME BfclInv, FrameInv, lane = "bfcl",
           BfclCheckDirs \/ BfclAnswer \/ BfclBudget \/ BfclCheckData \/ BfclSameAnswer
    PROVE  BfclInv' /\ FrameInv' /\ lane' = "bfcl"
<1>0. /\ Typed(BfclThings) /\ ver \in [BfclThings -> Versions] /\ cap \in [BfclThings -> Versions]
      /\ seen \in [BfclThings -> SUBSET Versions]
  BY DEF BfclInv, Typed
<1> USE BfclThingsAre
<1>1. CASE BfclCheckDirs
  <2>1. /\ pc \in {"dirs1", "dirs2"} /\ UNCHANGED <<lane, ver, cap, seen, disturbs, truth, found>>
    BY <1>1 DEF BfclCheckDirs, BfclQuiet
  <2>2. \/ ~Same(BfclDirs) /\ Stop("evidence_corrupt", 0)
        \/ Same(BfclDirs) /\ pc = "dirs2" /\ Goto("data2")
        \/ pc = "dirs1" /\ Stop("harness_failure", spent)
        \/ pc = "dirs1" /\ Goto("answer1")
    BY <1>1 DEF BfclCheckDirs
  <2>3. \A x \in BfclDirs :
           x \in BfclThings /\ pc \notin BfclFrom[x] \cup {"over"} /\ BfclWants(x) /\ Held(x)
    BY <2>1 DEF BfclInv, BfclHeld, BfclWants, BfclStart, BfclEarly, BfclBefore
  <2>4. CASE ~Same(BfclDirs) /\ Stop("evidence_corrupt", 0)
    <3>1. disturbs # 0
      BY <2>3, <2>4, BfclCalm DEF Same
    <3> QED
      BY <2>1, <2>4, <3>1, BfclAlarm
  <2>5. CASE Same(BfclDirs) /\ pc = "dirs2" /\ Goto("data2")
    <3>1. BfclSameStage
      BY <2>5 DEF BfclSameStage, BfclKept, BfclStart, BfclEarly, BfclBefore, BfclFirst, Goto
    <3>2. \A x \in BfclDirs : Tight(x)
      BY <1>0, <2>3, <2>5, SameIsTight DEF Same
    <3> QED
      BY <2>1, <2>5, <3>1, <3>2, BfclPasses DEF BfclBefore, BfclEarly, BfclStart
  <2>6. CASE pc = "dirs1" /\ Stop("harness_failure", spent)
    BY <2>1, <2>6, BfclFails
  <2>7. CASE pc = "dirs1" /\ Goto("answer1")
    <3>1. BfclSameStage
      BY <2>7 DEF BfclSameStage, BfclKept, BfclStart, BfclEarly, BfclBefore, BfclFirst, Goto
    <3> QED
      BY <2>1, <2>7, <3>1, BfclPasses DEF BfclBefore, BfclEarly, BfclStart
  <2> QED
    BY <2>2, <2>4, <2>5, <2>6, <2>7
<1>2. CASE BfclAnswer
  <2>1. /\ pc = "answer1" /\ UNCHANGED <<lane, ver, seen, disturbs, truth, found>>
        /\ truth \in BfclGenerated
        /\ found \in BfclFound
    BY <1>2 DEF BfclAnswer, At, BfclQuiet, BfclInv, BfclStart
  <2>2. \/ ~found.exact /\ Goto("remaining") /\ UNCHANGED cap
        \/ found.exact /\ truth.rows = "one" /\ Pin({"answer"}) /\ Goto("remaining")
        \/ /\ truth.rows # "one" \/ ~Same({"results"})
           /\ Stop("evidence_corrupt", 0) /\ UNCHANGED cap
    BY <1>2, <2>1 DEF BfclAnswer
  <2>3. \A x \in BfclKept :
           /\ pc \in BfclFrom[x] <=> x = "answer"
           /\ "remaining" \notin BfclFrom[x]
    BY <2>1 DEF BfclKept, BfclStart, BfclEarly, BfclBefore, BfclFirst
  <2>4. CASE ~found.exact /\ Goto("remaining") /\ UNCHANGED cap
    <3>1. pc' = "remaining" /\ Typed(BfclThings)'
      BY <1>0, <2>1, <2>4, StaysTyped DEF Goto
    <3>2. BfclHeld'
      BY <2>1, <2>3, <2>4, <3>1, BfclKeeps DEF Keeps, Kept, BfclWants
    <3>3. (truth \in BfclGenerated)'
      BY <2>1 DEF BfclGenerated
    <3> QED
      BY <2>1, <2>4, <3>1, <3>2, <3>3, GoesOn DEF BfclInv, BfclStart, BfclEarly, BfclMiddle, BfclEnd
  <2>5. CASE found.exact /\ truth.rows = "one" /\ Pin({"answer"}) /\ Goto("remaining")
    <3>1. /\ pc' = "remaining" /\ Typed(BfclThings)'
          /\ \A x \in BfclThings : cap'[x] = IF x \in {"answer"} THEN ver[x] ELSE cap[x]
      BY <1>0, <2>1, <2>5, PinTyped DEF Goto
    <3>2. BfclHeld'
      BY <1>0, <2>1, <2>3, <3>1, BfclKeeps DEF Keeps, Kept, BfclWants
    <3>3. (truth \in BfclGenerated)'
      BY <2>1 DEF BfclGenerated
    <3> QED
      BY <2>1, <2>5, <3>1, <3>2, <3>3, GoesOn DEF BfclInv, BfclStart, BfclEarly, BfclMiddle, BfclEnd
  <2>6. CASE /\ truth.rows # "one" \/ ~Same({"results"})
             /\ Stop("evidence_corrupt", 0) /\ UNCHANGED cap
    <3>1. truth.rows # "one" => Irregular'
      BY <2>1 DEF Irregular, ByLane, BfclGenerated
    <3>2. "results" \in BfclDirs
      BY DEF BfclDirs
    <3>3. ~Same({"results"}) => disturbs # 0
      BY <2>1, <2>3, <3>2, BfclCalm DEF Same, BfclWants
    <3> QED
      BY <2>1, <2>6, <3>1, <3>3, BfclAlarm
  <2> QED
    BY <2>2, <2>4, <2>5, <2>6
<1>3. CASE BfclBudget
  <2>1. /\ pc = "remaining" /\ UNCHANGED <<lane, ver, cap, seen, disturbs, truth, found>>
        /\ Stop("runtime_budget_exceeded", spent) \/ Goto("data1")
    BY <1>3 DEF BfclBudget, At, BfclQuiet
  <2>2. CASE Stop("runtime_budget_exceeded", spent)
    BY <2>1, <2>2, BfclFails DEF Harmless
  <2>3. CASE Goto("data1")
    <3>1. BfclSameStage
      BY <2>1, <2>3 DEF BfclSameStage, BfclKept, BfclStart, BfclEarly, BfclBefore, BfclFirst, Goto
    <3> QED
      BY <2>1, <2>3, <3>1, BfclPasses DEF BfclBefore, BfclEarly, BfclStart
  <2> QED
    BY <2>1, <2>2, <2>3
<1>4. CASE BfclCheckData
  <2>1. /\ pc \in {"data1", "data2"} /\ UNCHANGED <<lane, ver, cap, seen, disturbs, truth, found>>
        /\ \/ /\ Genuine({"package"}) /\ BfclCopyHolds
              /\ Goto(IF pc = "data1" THEN "evaluate" ELSE "answer2")
           \/ Stop("runtime_config_drift", 0)
    BY <1>4 DEF BfclCheckData, BfclQuiet
  <2>2. CASE Stop("runtime_config_drift", 0)
    BY <2>1, <2>2, BfclFails DEF Harmless
  <2>3. CASE /\ Genuine({"package"}) /\ BfclCopyHolds
             /\ Goto(IF pc = "data1" THEN "evaluate" ELSE "answer2")
    <3>1. PICK step : step = (IF pc = "data1" THEN "evaluate" ELSE "answer2") /\ Goto(step)
      BY <2>3
    <3>2. BfclSameStage
      BY <2>1, <3>1 DEF BfclSameStage, BfclKept, BfclStart, BfclEarly, BfclBefore, BfclFirst, Goto
    <3>3. \A x \in {"package", "copy"} :
             x \in BfclThings /\ (x = "copy" => found.copied) => Held(x)
      BY <2>1 DEF BfclInv, BfclHeld, BfclWants, BfclStart, BfclEarly, BfclBefore
    <3>4. cap["package"] = Pinned
      BY <2>1 DEF BfclInv, BfclStart
    <3>5. Tight(IF found.copied THEN "copy" ELSE "package")
      <4>1. CASE found.copied
        <5>1. "copy" \in BfclThings /\ Held("copy") /\ ver["copy"] = cap["copy"]
          BY <2>3, <3>3, <4>1 DEF BfclCopyHolds, Same
        <5> QED
          BY <1>0, <4>1, <5>1, SameIsTight
      <4>2. CASE ~found.copied
        <5>1. "package" \in BfclThings /\ Held("package") /\ ver["package"] = cap["package"]
          BY <2>3, <3>3, <3>4 DEF Genuine
        <5> QED
          BY <1>0, <4>2, <5>1, SameIsTight
      <4> QED
        BY <4>1, <4>2
    <3>6. <<pc, step>> \in {<<"data1", "evaluate">>, <<"data2", "answer2">>} /\ pc \notin BfclBefore
      BY <2>1, <3>1 DEF BfclBefore, BfclEarly, BfclStart
    <3> QED
      BY <2>1, <3>1, <3>2, <3>5, <3>6, BfclPasses
  <2> QED
    BY <2>1, <2>2, <2>3
<1>5. CASE BfclSameAnswer
  <2>1. /\ pc = "answer2" /\ UNCHANGED <<lane, ver, cap, seen, disturbs, truth, found>>
        /\ IF found.exact => Same({"answer"}) THEN Goto("locate") ELSE Stop("evidence_corrupt", 0)
    BY <1>5 DEF BfclSameAnswer, At, BfclQuiet
  <2>2. /\ "answer" \in BfclThings /\ pc \notin BfclFrom["answer"] \cup {"over"}
        /\ found.exact => BfclWants("answer") /\ Held("answer")
    BY <2>1 DEF BfclInv, BfclHeld, BfclWants, BfclStart, BfclEarly, BfclBefore, BfclFirst
  <2>3. CASE found.exact => Same({"answer"})
    <3>1. BfclSameStage /\ Goto("locate")
      BY <2>1, <2>3 DEF BfclSameStage, BfclKept, BfclStart, BfclEarly, BfclBefore, BfclFirst, Goto
    <3>2. found.exact => Tight("answer")
      BY <1>0, <2>2, <2>3, SameIsTight DEF Same
    <3> QED
      BY <2>1, <3>1, <3>2, BfclPasses DEF BfclBefore, BfclEarly, BfclStart
  <2>4. CASE ~(found.exact => Same({"answer"}))
    <3>1. disturbs # 0
      BY <2>2, <2>4, BfclCalm DEF Same
    <3> QED
      BY <2>1, <2>4, <3>1, BfclAlarm
  <2> QED
    BY <2>3, <2>4
<1> QED
  BY <1>1, <1>2, <1>3, <1>4, <1>5

\* The row that the score file bears.
LEMMA BfclRow ==
    ASSUME BfclInv, FrameInv, lane = "bfcl", pc = "score", pc' = "over",
           UNCHANGED <<lane, ver, cap, seen, disturbs, truth, found>>,
           NEW label \in BfclByScore, out' = BfclOfAnswer(label)
    PROVE  FrameInv'
<1>1. /\ truth \in BfclEvaluated /\ (found.exact => truth.rows = "one" /\ Tight("answer"))
      /\ found \in BfclFound
      /\ \A x \in BfclDirs : Tight(x)
      /\ Tight(IF found.copied THEN "copy" ELSE "package")
      /\ found.scores = IF BfclLooksFor THEN truth.files ELSE 0
      /\ disturbs = 0 => ver["score"] = cap["score"]
      /\ found.score = "unsafe" => truth.linked \/ disturbs # 0
      /\ cap["score"] = Pinned /\ found.scores # 0 /\ truth.linked => found.score = "unsafe"
  BY DEF BfclInv, BfclMiddle, BfclEnd, BfclStart
<1>2. /\ label \in {"harness_failure", "runtime_output_unparseable", "evidence_corrupt", "pass", "wrong"}
      /\ label = "evidence_corrupt" => found.score = "unsafe" \/ ~Same({"score"})
      /\ label \in {"pass", "wrong"} =>
            /\ Same({"score"}) /\ found.scores = 1 /\ (truth.rc = 0 \/ truth.crash)
            /\ cap["score"] = Pinned => /\ truth.coherent /\ ~truth.linked
                                        /\ label = "pass" <=> truth.right
  BY <1>1 DEF BfclByScore, BfclScored, BfclEvaluated, BfclLooksFor
<1>3. CASE label \in {"harness_failure", "runtime_output_unparseable"}
  BY <1>3, Fails DEF BfclOfAnswer, Harmless
<1>4. CASE label = "evidence_corrupt"
  <2>1. Irregular' \/ disturbs # 0
    BY <1>1, <1>2, <1>4 DEF Same, Irregular, ByLane, BfclEvaluated
  <2> QED
    BY <1>4, <2>1, Corrupts DEF BfclOfAnswer
<1>5. CASE label \in {"pass", "wrong"} /\ found.exact /\ truth.error
  BY <1>5, Fails DEF BfclOfAnswer, Harmless
<1>6. CASE label \in {"pass", "wrong"} /\ ~(found.exact /\ truth.error)
  <2>1. out' = IF label = "pass" THEN "pass" ELSE "model_wrong_solution"
    BY <1>6 DEF BfclOfAnswer
  <2>2. \A x \in BfclGuarded : Tight(x)
    BY <1>1, <1>6 DEF BfclGuarded, BfclUsed, BfclDirs
  <2>3. SettledIsCaptured'
    <3>1. BfclGuarded' = BfclGuarded
      BY DEF BfclGuarded, BfclUsed
    <3>2. \A x \in BfclGuarded : seen'[x] \subseteq {cap'[x]}
      BY <2>2 DEF Tight
    <3>3. ver'["score"] = cap'["score"]
      BY <1>2, <1>6 DEF Same
    <3> QED
      BY <3>1, <3>2, <3>3 DEF SettledIsCaptured, ByLane, BfclNamed
  <2>4. truth.files = 1 /\ truth.kind = "evaluated" /\ (found.exact => truth.rows = "one" /\ ~truth.error)
    BY <1>1, <1>2, <1>6 DEF BfclEvaluated
  <2>5. BfclEarned'
    BY <1>2, <1>6, <2>1, <2>4 DEF BfclEarned
  <2>6. VerdictIsEarned'
    BY <2>5 DEF VerdictIsEarned, ByLane
  <2> QED
    BY <2>1, <2>3, <2>6, Pass DEF Scored
<1> QED
  BY <1>2, <1>3, <1>4, <1>5, <1>6

LEMMA BfclStep ==
    ASSUME BfclInv, FrameInv, lane = "bfcl", BfclNext
    PROVE  BfclInv' /\ FrameInv' /\ lane' = "bfcl"
<1>0. Typed(BfclThings)
  BY DEF BfclInv
<1>1. CASE BfclLocate
  <2>1. /\ pc = "locate" /\ Pin({"score"}) /\ Goto("score") /\ pc' = "score"
        /\ UNCHANGED <<lane, ver, seen, disturbs, truth>>
        /\ found \in BfclFound
        /\ truth \in BfclEvaluated
        /\ \E u \in IF ver["score"] = Pinned THEN {truth.linked} ELSE BOOLEAN :
              found' = [found EXCEPT
                  !.scores = IF BfclLooksFor THEN truth.files ELSE 0,
                  !.score = IF BfclLooksFor /\ truth.files > 0 /\ u THEN "unsafe" ELSE "plain"]
        /\ disturbs = 0 /\ truth.files # 0 => ver["score"] = Pinned
    BY <1>1 DEF BfclLocate, At, Goto, BfclInv, BfclStart, BfclEnd
  <2>2. /\ Typed(BfclThings)'
        /\ \A x \in BfclThings : cap'[x] = IF x \in {"score"} THEN ver[x] ELSE cap[x]
    BY <1>0, <2>1, PinTyped
  <2>3. /\ found' \in BfclFound
        /\ found'.copied = found.copied /\ found'.exact = found.exact
        /\ found'.scores = IF BfclLooksFor THEN truth.files ELSE 0
        /\ found'.score = "unsafe" => truth.linked \/ disturbs # 0
        /\ ver["score"] = Pinned /\ found'.scores # 0 /\ truth.linked => found'.score = "unsafe"
    <3>1. PICK u \in IF ver["score"] = Pinned THEN {truth.linked} ELSE BOOLEAN :
             found' = [found EXCEPT
                 !.scores = IF BfclLooksFor THEN truth.files ELSE 0,
                 !.score = IF BfclLooksFor /\ truth.files > 0 /\ u THEN "unsafe" ELSE "plain"]
      BY <2>1
    <3> DEFINE n == IF BfclLooksFor THEN truth.files ELSE 0
               w == IF BfclLooksFor /\ truth.files > 0 /\ u THEN "unsafe" ELSE "plain"
    <3>2. truth.files \in 0..2
      BY <2>1 DEF BfclEvaluated
    <3>3. n \in 0..2 /\ w \in {"plain", "unsafe"}
      BY <3>2
    <3>4. found' = [found EXCEPT !.scores = n, !.score = w] /\ found \in BfclFound
      BY <2>1, <3>1
    <3>5. /\ found' \in BfclFound
          /\ found'.copied = found.copied /\ found'.exact = found.exact
          /\ found'.scores = n /\ found'.score = w
      <4> HIDE DEF n, w
      <4> QED
        BY <3>3, <3>4 DEF BfclFound
    <3>6. w = "unsafe" => truth.files # 0 /\ u
      BY <3>2
    <3>7. n # 0 /\ u => w = "unsafe"
      BY <3>2
    <3>8. ver["score"] = Pinned => (u <=> truth.linked)
      BY <3>1
    <3>9. found'.score = "unsafe" => truth.linked \/ disturbs # 0
      BY <2>1, <3>5, <3>6, <3>8
    <3>10. ver["score"] = Pinned /\ found'.scores # 0 /\ truth.linked => found'.score = "unsafe"
      BY <3>5, <3>7, <3>8
    <3> QED
      BY <3>5, <3>9, <3>10
  <2>4. \A x \in BfclKept : Kept(x) /\ seen'[x] = seen[x]
    BY <2>1, <2>2, BfclThingsAre DEF Kept
  <2>5. BfclSameStage
    BY <2>1, BfclThingsAre DEF BfclSameStage, BfclKept, BfclStart, BfclEarly, BfclBefore, BfclFirst
  <2>6. BfclHeld' /\ \A x \in BfclKept : Tight(x)' <=> Tight(x)
    BY <2>1, <2>3, <2>4, <2>5, BfclMoves
  <2>7. (Tight(IF found.copied THEN "copy" ELSE "package"))'
    <3>1. Tight(IF found.copied THEN "copy" ELSE "package")
      BY <2>1 DEF BfclInv
    <3>2. CASE found.copied
      <4>1. Tight("copy")'
        BY <2>6, <3>1, <3>2, BfclThingsAre
      <4> QED
        BY <2>3, <3>2, <4>1 DEF Tight
    <3>3. CASE ~found.copied
      <4>1. Tight("package")'
        BY <2>6, <3>1, <3>3, BfclThingsAre
      <4> QED
        BY <2>3, <3>3, <4>1 DEF Tight
    <3> QED
      BY <3>2, <3>3
  <2>8. /\ (truth \in BfclEvaluated)' /\ BfclLooksFor' = BfclLooksFor
        /\ cap'["package"] = cap["package"] /\ cap'["score"] = ver'["score"]
    BY <2>1, <2>2, BfclThingsAre DEF BfclEvaluated, BfclLooksFor
  <2> QED
    BY <2>1, <2>2, <2>3, <2>6, <2>7, <2>8, GoesOn, BfclThingsAre
       DEF BfclInv, BfclStart, BfclEarly, BfclMiddle, BfclEnd
<1>2. CASE BfclScore
  <2>1. pc = "score" /\ UNCHANGED <<lane, ver, cap, seen, disturbs, truth, found>>
    BY <1>2 DEF BfclScore, At, BfclQuiet
  <2>2. PICK label \in BfclByScore : Stop(BfclOfAnswer(label), spent)
    BY <1>2 DEF BfclScore
  <2> QED
    BY <1>0, <2>1, <2>2, StaysTyped, BfclEnds, BfclRow DEF Stop
<1> QED
  BY <1>1, <1>2, BfclFirstSteps, BfclPhases, BfclChecks DEF BfclNext

-----------------------------------------------------------------------------
(* SWE-bench *)

LEMMA SweThingsAre ==
    /\ SweThings = {"parquet", "instance", "official", "input", "twins", "predictions", "report"}
    /\ SweKept = {"instance", "official", "input", "predictions"}
    /\ SweKept \subseteq SweThings /\ "twins" \in SweThings /\ "report" \in SweThings
    /\ SweFrom["instance"] = SweBefore1
    /\ \A x \in {"official", "input", "predictions"} : SweFrom[x] = SweBefore3
BY DEF SweThings, SweKept, SweFrom

LEMMA SweStages ==
    /\ SweBefore1 = {"start", "prepare"}
    /\ SweBefore2 = SweBefore1 \cup {"inputs", "generate", "generating", "swap1", "bind"}
    /\ SweBefore3 = SweBefore2 \cup {"identity", "predict", "evaluate"}
    /\ SweMiddle  = {"predict", "evaluate", "launch", "evaluating"}
    /\ SweEnd     = {"leaves", "report", "score", "summary"}
BY DEF SweBefore1, SweBefore2, SweBefore3, SweMiddle, SweEnd

LEMMA SweEnds ==
    ASSUME pc' = "over", Typed(SweThings)'
    PROVE  SweInv'
<1>1. \A x \in SweKept : "over" \notin SweFrom[x]
  BY SweThingsAre, SweStages
<1>2. \A x \in SweKept : HeldFrom(x, SweFrom[x])'
  BY <1>1 DEF HeldFrom
<1> QED
  BY <1>2, SweStages DEF SweInv, SweTwins, SweRuns, SweAttributed, SweReported, SweTight, SweFound

LEMMA SweSwap ==
    ASSUME SweInv, disturbs \in Nat, Disturb
    PROVE  SweInv'
<1>0. Typed(SweThings) /\ ver \in [SweThings -> Versions]
  BY DEF SweInv, Typed
<1>1. /\ Typed(SweThings)' /\ UNCHANGED <<pc, cap, seen, truth, found>> /\ pc # "over"
      /\ \A x \in SweThings : ver[x] <= ver'[x] /\ (ver[x] # ver'[x] => ver[x] \in {0, 1})
      /\ ver' \in [SweThings -> Versions] /\ cap \in [SweThings -> Versions]
  BY <1>0, Swapped DEF Disturb, Typed
<1>2. \A x \in SweKept : HeldFrom(x, SweFrom[x])'
  BY <1>0, SwapHeldFrom, SweThingsAre DEF SweInv
<1>3. SweTwins' /\ SweRuns' /\ SweTight'
  BY <1>1, SweThingsAre DEF SweInv, SweTwins, SweRuns, SweTight, Unused, Tight, SweGenerations,
     SweEvaluated
<1>4. SweAttributed'
  <2>1. pc \in SweMiddle \cup SweEnd => Held("instance")
    BY <1>1, SweThingsAre, SweStages DEF SweInv, HeldFrom
  <2>2. Held("instance") /\ ver'["instance"] = cap["instance"] => ver["instance"] = cap["instance"]
    BY <1>0, <1>1, SweThingsAre, VersionsAre DEF Held
  <2> QED
    BY <1>1, <2>1, <2>2 DEF SweInv, SweAttributed
<1>5. ver["report"] = Absent => ver'["report"] = Absent
  BY <1>0, <1>1, SweThingsAre, VersionsAre
<1>6. ver["report"] # 0 =>
         /\ ver'["report"] # 0
         /\ ver'["report"] \in {Absent, Pinned} => ver'["report"] = ver["report"]
  BY <1>0, <1>1, SweThingsAre, VersionsAre
<1>7. SweReported' /\ SweFound'
  BY <1>1, <1>5, <1>6, SweStages DEF SweInv, SweReported, SweFound, SweByReport
<1> QED
  BY <1>1, <1>2, <1>3, <1>4, <1>7 DEF SweInv

\* Without a swap every thing captured is as it was.
LEMMA SweCalm ==
    ASSUME SweInv, disturbs = 0, NEW x \in SweKept, pc \notin SweFrom[x] \cup {"over"}
    PROVE  ver[x] = cap[x]
BY DEF SweInv, HeldFrom, Held

\* A failure that leaves everything but the uses as it is.
LEMMA SweFailsRow ==
    ASSUME SweInv, FrameInv, lane = "swe", UNCHANGED <<lane, disturbs>>, Typed(SweThings)',
           NEW label \in Harmless \cup {"harness_failure"}, NEW latency, Stop(label, latency)
    PROVE  SweInv' /\ FrameInv' /\ lane' = "swe"
BY SweEnds, Fails DEF Stop

LEMMA SweAlarm ==
    ASSUME SweInv, FrameInv, lane = "swe", UNCHANGED <<lane, disturbs>>, Typed(SweThings)',
           NEW latency, Stop("evidence_corrupt", latency), disturbs # 0 \/ Irregular'
    PROVE  SweInv' /\ FrameInv' /\ lane' = "swe"
BY SweEnds, Corrupts DEF Stop

\* A step of an attempt that goes on.
LEMMA SweGoes ==
    ASSUME SweInv, FrameInv, lane = "swe", UNCHANGED <<lane, disturbs>>, pc # "over",
           NEW step, Goto(step), step # "over", Typed(SweThings)',
           \A x \in SweKept : Keeps(x, SweFrom[x]),
           SweTwins', SweRuns', SweAttributed', SweReported', SweTight', SweFound'
    PROVE  SweInv' /\ FrameInv' /\ lane' = "swe"
<1>1. pc' # "over" /\ FrameInv'
  BY GoesOn DEF Goto
<1>2. \A x \in SweKept : HeldFrom(x, SweFrom[x])'
  BY <1>1, KeepsHeld, SweThingsAre DEF SweInv
<1> QED
  BY <1>1, <1>2 DEF SweInv

\* One before the copies of the logs are made.
LEMMA SweGoesEarly ==
    ASSUME SweInv, FrameInv, lane = "swe", UNCHANGED <<lane, disturbs>>, pc # "over",
           NEW step \in SweBefore2, Goto(step), Typed(SweThings)',
           \A x \in SweKept : Keeps(x, SweFrom[x]),
           Unused("twins")', step \in {"swap1", "bind"} => truth' \in SweGenerations
    PROVE  SweInv' /\ FrameInv' /\ lane' = "swe"
<1>1. pc' = step /\ step \notin {"identity", "over"} \cup SweMiddle \cup SweEnd
  BY SweStages DEF Goto
<1>2. SweGenerations' = SweGenerations
  BY DEF SweGenerations
<1>3. SweTwins' /\ SweRuns'
  BY <1>1, <1>2 DEF SweTwins, SweRuns
<1>4. SweAttributed' /\ SweReported' /\ SweTight' /\ SweFound'
  BY <1>1, SweStages DEF SweAttributed, SweReported, SweTight, SweFound
<1> QED
  BY <1>1, <1>3, <1>4, SweGoes

LEMMA SweUses ==
    ASSUME SweInv, NEW xs, Use(xs), UNCHANGED <<ver, cap>>
    PROVE  /\ Typed(SweThings)'
           /\ \A x \in SweThings : seen'[x] = IF x \in xs THEN seen[x] \cup {ver[x]} ELSE seen[x]
BY UseTyped DEF SweInv

LEMMA SweFirstSteps ==
    ASSUME SweInv, FrameInv, lane = "swe",
           SweResolve \/ SwePrepare \/ SweMaterialize \/ SweGenerateStart \/ SweGenerate \/ SweCut
              \/ SweGenerated
    PROVE  SweInv' /\ FrameInv' /\ lane' = "swe"
<1>0. /\ Typed(SweThings) /\ ver \in [SweThings -> Versions] /\ cap \in [SweThings -> Versions]
      /\ seen \in [SweThings -> SUBSET Versions]
      /\ pc \in SweBefore2 => Unused("twins")
  BY DEF SweInv, SweTwins, Typed
<1> USE SweThingsAre
<1>1. CASE SweResolve
  <2>1. /\ pc = "start" /\ UNCHANGED <<lane, ver, cap, seen, disturbs>>
        /\ Goto("prepare") \/ Stop("refused", 0)
    BY <1>1 DEF SweResolve, At, SweQuiet
  <2>2. Typed(SweThings)' /\ Unused("twins")'
    BY <1>0, <2>1, StaysTyped, SweStages DEF Unused
  <2>3. CASE Goto("prepare")
    <3>1. \A x \in SweKept : Keeps(x, SweFrom[x])
      BY <2>1, <2>3, SweStages DEF Keeps, Goto
    <3> QED
      BY <2>1, <2>2, <2>3, <3>1, SweStages, SweGoesEarly
  <2>4. CASE Stop("refused", 0)
    BY <2>1, <2>2, <2>4, SweFailsRow DEF Harmless
  <2> QED
    BY <2>1, <2>3, <2>4
<1>2. CASE SwePrepare
  <2>1. /\ pc = "prepare" /\ Pin({"instance"}) /\ Goto("inputs") /\ pc' = "inputs"
        /\ UNCHANGED <<lane, seen, disturbs>>
        /\ ver' = [ver EXCEPT !["twins"] = Absent, !["predictions"] = Absent, !["report"] = Absent]
    BY <1>2 DEF SwePrepare, At, SweQuiet, Goto
  <2>2. /\ cap' \in [SweThings -> Versions] /\ ver' \in [SweThings -> Versions]
        /\ cap'["instance"] = ver["instance"] /\ ver'["instance"] = ver["instance"]
    BY <1>0, <2>1, VersionsAre DEF Pin
  <2>3. Typed(SweThings)' /\ Unused("twins")'
    BY <1>0, <2>1, <2>2, SweStages DEF Typed, Unused
  <2>4. \A x \in SweKept : Keeps(x, SweFrom[x])
    BY <2>1, <2>2, SweStages DEF Keeps
  <2> QED
    BY <2>1, <2>3, <2>4, SweStages, SweGoesEarly
<1>3. CASE SweMaterialize
  <2>1. /\ pc = "inputs" /\ UNCHANGED <<lane, cap, seen, disturbs>>
        /\ \/ /\ ver' = [ver EXCEPT !["parquet"] = Pinned, !["official"] = Pinned]
              /\ Goto("generate")
           \/ Stop("refused", 0) /\ UNCHANGED ver
    BY <1>3 DEF SweMaterialize, At, SweQuiet
  <2>2. Typed(SweThings)' /\ Unused("twins")'
    BY <1>0, <2>1, SweStages, VersionsAre DEF Typed, Unused
  <2>3. CASE ver' = [ver EXCEPT !["parquet"] = Pinned, !["official"] = Pinned] /\ Goto("generate")
    <3>1. \A x \in SweKept : x # "official" => Kept(x)
      BY <1>0, <2>1, <2>3 DEF Kept
    <3>2. \A x \in SweKept : Keeps(x, SweFrom[x])
      BY <2>1, <2>3, <3>1, SweStages DEF Keeps, Goto
    <3> QED
      BY <2>1, <2>2, <2>3, <3>2, SweStages, SweGoesEarly
  <2>4. CASE Stop("refused", 0)
    BY <2>1, <2>2, <2>4, SweFailsRow DEF Harmless
  <2> QED
    BY <2>1, <2>3, <2>4
<1>4. CASE SweGenerateStart
  <2>1. /\ pc = "generate" /\ Use({"instance"}) /\ Goto("generating") /\ pc' = "generating"
        /\ UNCHANGED <<lane, ver, cap, disturbs>>
    BY <1>4 DEF SweGenerateStart, At, Goto
  <2>2. /\ Typed(SweThings)'
        /\ \A x \in SweThings :
              seen'[x] = IF x \in {"instance"} THEN seen[x] \cup {ver[x]} ELSE seen[x]
    BY <2>1, SweUses
  <2>3. \A x \in SweKept : Keeps(x, SweFrom[x])
    BY <2>1, <2>2, SweStages DEF Keeps, Kept
  <2>4. Unused("twins")'
    BY <1>0, <2>1, <2>2, SweStages DEF Unused
  <2> QED
    BY <2>1, <2>2, <2>3, <2>4, SweStages, SweGoesEarly
<1>5. CASE SweGenerate
  <2>1. /\ pc = "generating" /\ truth' \in SweGenerations /\ Goto("swap1") /\ pc' = "swap1"
        /\ UNCHANGED <<lane, cap, seen, disturbs>>
        /\ ver' = [ver EXCEPT !["predictions"] = IF truth'.file = "none" THEN Absent ELSE Pinned]
    BY <1>5 DEF SweGenerate, At, Goto
  <2>2. Typed(SweThings)' /\ Unused("twins")' /\ \A x \in SweKept : x # "predictions" => Kept(x)
    BY <1>0, <2>1, SweStages, VersionsAre DEF Typed, Unused, Kept
  <2>3. \A x \in SweKept : Keeps(x, SweFrom[x])
    BY <2>1, <2>2, SweStages DEF Keeps
  <2> QED
    BY <2>1, <2>2, <2>3, SweStages, SweGoesEarly
<1>6. CASE SweCut
  <2>1. /\ UNCHANGED <<lane, ver, cap, seen, disturbs>>
        /\ Stop("runtime_launch_failure", 0) \/ Stop("runtime_budget_exceeded", Remaining)
    BY <1>6 DEF SweCut, things
  <2>2. Typed(SweThings)'
    BY <1>0, <2>1, StaysTyped
  <2> QED
    BY <2>1, <2>2, SweFailsRow DEF Harmless
<1>7. CASE SweGenerated
  <2>1. /\ pc = "swap1" /\ UNCHANGED <<lane, ver, cap, seen, disturbs, truth>>
        /\ \/ ~Same({"instance"}) /\ Stop("evidence_corrupt", spent)
           \/ Stop("harness_failure", spent)
           \/ Stop("runtime_budget_exceeded", spent)
           \/ Goto("bind")
    BY <1>7 DEF SweGenerated, At, SweQuiet
  <2>2. Typed(SweThings)' /\ Unused("twins")'
    BY <1>0, <2>1, StaysTyped, SweStages DEF Unused
  <2>3. CASE ~Same({"instance"}) /\ Stop("evidence_corrupt", spent)
    <3>1. disturbs # 0
      BY <2>1, <2>3, SweCalm, SweStages DEF Same
    <3> QED
      BY <2>1, <2>2, <2>3, <3>1, SweAlarm
  <2>4. CASE Stop("harness_failure", spent) \/ Stop("runtime_budget_exceeded", spent)
    BY <2>1, <2>2, <2>4, SweFailsRow DEF Harmless
  <2>5. CASE Goto("bind")
    <3>1. \A x \in SweKept : Keeps(x, SweFrom[x])
      BY <2>1, <2>5, SweStages DEF Keeps, Kept, Goto
    <3>2. truth' \in SweGenerations
      BY <2>1 DEF SweInv, SweRuns
    <3> QED
      BY <2>1, <2>2, <2>5, <3>1, <3>2, SweStages, SweGoesEarly
  <2> QED
    BY <2>1, <2>3, <2>4, <2>5
<1> QED
  BY <1>1, <1>2, <1>3, <1>4, <1>5, <1>6, <1>7

\* A refusal that writes the logs first.
LEMMA SweRefuses ==
    ASSUME SweInv, FrameInv, lane = "swe", UNCHANGED <<lane, ver, cap, disturbs>>, Typed(SweThings)',
           pc \notin SweBefore1 \cup {"over"}, NEW label \in Harmless, SweFails(label)
    PROVE  SweInv' /\ FrameInv' /\ lane' = "swe"
<1>1. CASE Same({"instance"})
  BY <1>1, SweFailsRow DEF SweFails
<1>2. CASE ~Same({"instance"})
  <2>1. disturbs # 0
    BY <1>2, SweCalm, SweThingsAre DEF Same
  <2> QED
    BY <1>2, <2>1, SweAlarm DEF SweFails
<1> QED
  BY <1>1, <1>2

LEMMA SweLogs ==
    ASSUME SweInv, FrameInv, lane = "swe", SweBindLogs \/ SweIdentify \/ SwePredict
    PROVE  SweInv' /\ FrameInv' /\ lane' = "swe"
<1>0. /\ Typed(SweThings) /\ ver \in [SweThings -> Versions] /\ cap \in [SweThings -> Versions]
      /\ seen \in [SweThings -> SUBSET Versions]
  BY DEF SweInv, Typed
<1>a. SweGenerations' = SweGenerations
  BY DEF SweGenerations
<1> USE SweThingsAre
<1>1. CASE SweBindLogs
  <2>1. /\ pc = "bind" /\ truth \in SweGenerations /\ Unused("twins")
        /\ UNCHANGED <<lane, seen, disturbs, truth>>
        /\ \/ truth.twin /\ Stop("evidence_corrupt", 0) /\ UNCHANGED <<ver, cap>>
           \/ /\ ver' = [ver EXCEPT !["twins"] = Pinned]
              /\ cap' = [cap EXCEPT !["twins"] = Pinned]
              /\ Goto("identity")
    BY <1>1, SweStages DEF SweBindLogs, At, SweQuiet, SweInv, SweTwins, SweRuns
  <2>2. CASE truth.twin /\ Stop("evidence_corrupt", 0) /\ UNCHANGED <<ver, cap>>
    <3>1. Irregular'
      BY <2>1, <2>2 DEF Irregular, ByLane, SweGenerations
    <3> QED
      BY <1>0, <2>1, <2>2, <3>1, SweAlarm, StaysTyped
  <2>3. CASE /\ ver' = [ver EXCEPT !["twins"] = Pinned]
             /\ cap' = [cap EXCEPT !["twins"] = Pinned]
             /\ Goto("identity")
    <3>1. /\ Typed(SweThings)' /\ cap'["twins"] = Pinned /\ pc' = "identity"
          /\ \A x \in SweKept : Kept(x)
      BY <1>0, <2>1, <2>3, VersionsAre DEF Typed, Kept, Goto
    <3>2. \A x \in SweKept : Keeps(x, SweFrom[x])
      BY <2>1, <3>1, SweStages DEF Keeps
    <3>3. SweTwins' /\ SweRuns'
      BY <1>a, <2>1, <3>1, SweStages DEF SweTwins, SweRuns, Unused
    <3>4. SweAttributed' /\ SweReported' /\ SweTight' /\ SweFound'
      BY <3>1, SweStages DEF SweAttributed, SweReported, SweTight, SweFound
    <3> QED
      BY <2>1, <2>3, <3>1, <3>2, <3>3, <3>4, SweGoes
  <2> QED
    BY <2>1, <2>2, <2>3
<1>2. CASE SweIdentify
  <2>1. /\ pc = "identity" /\ truth \in SweGenerations /\ Unused("twins") /\ cap["twins"] = Pinned
        /\ Use({"twins"}) /\ UNCHANGED <<lane, ver, cap, disturbs, truth>>
    BY <1>2, SweStages DEF SweIdentify, At, SweInv, SweTwins, SweRuns
  <2>2. /\ Typed(SweThings)'
        /\ \A x \in SweThings : seen'[x] = IF x \in {"twins"} THEN seen[x] \cup {ver[x]} ELSE seen[x]
    BY <2>1, SweUses
  <2>3. PICK kind \in SweReading(truth.logs, {"confirmed", "contradicted", "missing"}) :
           IF SweAttribution(kind) = "none" THEN Goto("predict") ELSE SweFails(SweAttribution(kind))
    BY <1>2 DEF SweIdentify
  <2>4. /\ truth.logs \in {"confirmed", "contradicted", "missing"}
        /\ kind \in {"confirmed", "contradicted", "missing"}
        /\ Same({"instance", "twins"}) => kind = truth.logs
    BY <2>1, <2>3 DEF SweReading, SweGenerations
  <2>5. CASE kind = "confirmed"
    <3>1. Goto("predict") /\ pc' = "predict"
      BY <2>3, <2>5 DEF SweAttribution, Goto
    <3>2. \A x \in SweKept : Keeps(x, SweFrom[x])
      BY <2>1, <2>2, <3>1, SweStages DEF Keeps, Kept
    <3>3. SweTwins' /\ SweRuns'
      BY <1>a, <2>1, <3>1, SweStages DEF SweTwins, SweRuns
    <3>4. SweAttributed'
      <4>1. seen'["twins"] = {ver["twins"]}
        BY <2>1, <2>2 DEF Unused
      <4>2. seen'["twins"] \subseteq {Pinned} => ver["twins"] = cap["twins"]
        BY <2>1, <4>1
      <4>3. ver'["instance"] = cap'["instance"] => ver["instance"] = cap["instance"]
        BY <2>1
      <4> QED
        BY <2>1, <2>4, <2>5, <3>1, <4>2, <4>3 DEF SweAttributed, Same
    <3>5. SweReported' /\ SweTight' /\ SweFound'
      BY <3>1, SweStages DEF SweReported, SweTight, SweFound
    <3> QED
      BY <2>1, <2>2, <3>1, <3>2, <3>3, <3>4, <3>5, SweGoes
  <2>6. CASE kind = "contradicted"
    BY <2>1, <2>2, <2>3, <2>6, SweRefuses, SweStages DEF SweAttribution, Harmless
  <2>7. CASE kind = "missing"
    BY <2>1, <2>2, <2>3, <2>7, SweRefuses, SweStages DEF SweAttribution, Harmless
  <2> QED
    BY <2>4, <2>5, <2>6, <2>7
<1>3. CASE SwePredict
  <2>1. /\ pc = "predict" /\ truth \in SweGenerations /\ cap["twins"] = Pinned
        /\ Use({"twins"}) /\ UNCHANGED <<lane, cap, disturbs, truth>>
    BY <1>3, SweStages DEF SwePredict, At, SweInv, SweTwins, SweRuns
  <2>2. PICK file :
           /\ IF file = "one" THEN Goto("evaluate") ELSE SweFails("runtime_output_unparseable")
           /\ ver' = [ver EXCEPT !["predictions"] =
                          IF ver["predictions"] = Absent /\ file = "one" THEN Pinned ELSE ver["predictions"]]
    BY <1>3 DEF SwePredict
  <2>3. /\ seen' = [x \in SweThings |-> IF x \in {"twins"} THEN seen[x] \cup {ver[x]} ELSE seen[x]]
        /\ ver' \in [SweThings -> Versions]
    BY <1>0, <2>1, <2>2, VersionsAre DEF Use
  <2>4. seen' \in [SweThings -> SUBSET Versions]
    BY <1>0, <2>3
  <2>5. Typed(SweThings)'
    BY <1>0, <2>1, <2>3, <2>4 DEF Typed
  <2>6. CASE file = "one"
    <3>1. Goto("evaluate") /\ pc' = "evaluate" /\ \A x \in SweThings \ {"predictions"} : Kept(x)
      BY <1>0, <2>1, <2>2, <2>6 DEF Goto, Kept
    <3>2. \A x \in SweKept : Keeps(x, SweFrom[x])
      BY <2>1, <2>3, <3>1, SweStages DEF Keeps
    <3>3. SweTwins' /\ SweRuns'
      BY <1>a, <2>1, <3>1, SweStages DEF SweTwins, SweRuns
    <3>4. SweAttributed'
      <4>1. seen["twins"] \subseteq seen'["twins"] /\ Kept("instance")
        BY <2>3, <3>1
      <4> QED
        BY <2>1, <3>1, <4>1, SweStages DEF SweAttributed, SweInv, Kept
    <3>5. SweReported' /\ SweTight' /\ SweFound'
      BY <3>1, SweStages DEF SweReported, SweTight, SweFound
    <3> QED
      BY <2>1, <2>5, <3>1, <3>2, <3>3, <3>4, <3>5, SweGoes
  <2>7. CASE file # "one"
    <3>1. ver' = ver
      BY <1>0, <2>2, <2>7
    <3> QED
      BY <2>1, <2>2, <2>5, <2>7, <3>1, SweRefuses, SweStages DEF Harmless
  <2> QED
    BY <2>6, <2>7
<1> QED
  BY <1>1, <1>2, <1>3

LEMMA SwePhase ==
    ASSUME SweInv, FrameInv, lane = "swe", SweBindInputs \/ SweEvaluateStart \/ SweEvaluate
    PROVE  SweInv' /\ FrameInv' /\ lane' = "swe"
<1>0. /\ Typed(SweThings) /\ ver \in [SweThings -> Versions] /\ cap \in [SweThings -> Versions]
      /\ seen \in [SweThings -> SUBSET Versions]
  BY DEF SweInv, Typed
<1>a. SweGenerations' = SweGenerations /\ SweEvaluated' = SweEvaluated
  BY DEF SweGenerations, SweEvaluated
<1> USE SweThingsAre
<1>1. CASE SweBindInputs
  <2>1. /\ pc = "evaluate" /\ truth \in SweGenerations /\ cap["twins"] = Pinned
        /\ UNCHANGED <<lane, seen, disturbs, truth>>
        /\ \/ ver["official"] = Absent /\ Stop("evidence_corrupt", 0) /\ UNCHANGED <<ver, cap>>
           \/ /\ ver' = [ver EXCEPT !["report"] = Absent, !["input"] = Pinned]
              /\ cap' = [cap EXCEPT !["official"] = ver["official"],
                                    !["predictions"] = ver["predictions"], !["input"] = Pinned]
              /\ Goto("launch")
    BY <1>1, SweStages DEF SweBindInputs, At, SweQuiet, SweInv, SweTwins, SweRuns
  <2>2. CASE ver["official"] = Absent /\ Stop("evidence_corrupt", 0) /\ UNCHANGED <<ver, cap>>
    <3>1. Irregular'
      BY <2>1, <2>2 DEF Irregular, ByLane, SweGenerations
    <3> QED
      BY <1>0, <2>1, <2>2, <3>1, SweAlarm, StaysTyped
  <2>3. CASE /\ ver' = [ver EXCEPT !["report"] = Absent, !["input"] = Pinned]
             /\ cap' = [cap EXCEPT !["official"] = ver["official"],
                                   !["predictions"] = ver["predictions"], !["input"] = Pinned]
             /\ Goto("launch")
    <3>1. /\ ver' \in [SweThings -> Versions] /\ cap' \in [SweThings -> Versions] /\ pc' = "launch"
          /\ Kept("instance") /\ Kept("twins") /\ ver'["report"] = Absent
          /\ \A x \in {"official", "input", "predictions"} : cap'[x] = ver'[x]
      BY <1>0, <2>1, <2>3, VersionsAre DEF Kept, Goto
    <3>2. Typed(SweThings)'
      BY <1>0, <2>1, <3>1 DEF Typed
    <3>3. \A x \in SweKept : Keeps(x, SweFrom[x])
      BY <2>1, <3>1, SweStages DEF Keeps
    <3>4. SweTwins' /\ SweRuns' /\ SweReported' /\ SweTight' /\ SweFound'
      BY <1>a, <2>1, <3>1, SweStages DEF SweTwins, SweRuns, SweReported, SweTight, SweFound, Kept
    <3>5. SweAttributed'
      BY <2>1, <3>1, SweStages DEF SweInv, SweAttributed, Kept
    <3> QED
      BY <2>1, <2>3, <3>2, <3>3, <3>4, <3>5, SweGoes
  <2> QED
    BY <2>1, <2>2, <2>3
<1>2. CASE SweEvaluateStart
  <2>1. /\ pc = "launch" /\ truth \in SweGenerations /\ cap["twins"] = Pinned
        /\ ver["report"] = Absent
        /\ Use({"instance", "input", "predictions"}) /\ Goto("evaluating") /\ pc' = "evaluating"
        /\ UNCHANGED <<lane, ver, cap, disturbs, truth>>
    BY <1>2, SweStages
       DEF SweEvaluateStart, At, Goto, SweInv, SweTwins, SweRuns, SweReported
  <2>2. /\ Typed(SweThings)'
        /\ \A x \in SweThings : seen'[x] = IF x \in {"instance", "input", "predictions"}
                                           THEN seen[x] \cup {ver[x]} ELSE seen[x]
    BY <2>1, SweUses
  <2>3. \A x \in SweKept : Keeps(x, SweFrom[x])
    BY <2>1, <2>2, SweStages DEF Keeps, Kept
  <2>4. SweTwins' /\ SweRuns' /\ SweReported' /\ SweTight' /\ SweFound'
    BY <1>a, <2>1, SweStages DEF SweTwins, SweRuns, SweReported, SweTight, SweFound
  <2>5. SweAttributed'
    BY <2>1, <2>2, SweStages DEF SweInv, SweAttributed
  <2> QED
    BY <2>1, <2>2, <2>3, <2>4, <2>5, SweGoes
<1>3. CASE SweEvaluate
  <2>1. /\ pc = "evaluating" /\ truth \in SweGenerations /\ cap["twins"] = Pinned
        /\ Goto("leaves") /\ pc' = "leaves"
        /\ UNCHANGED <<lane, cap, seen, disturbs>>
    BY <1>3, SweStages DEF SweEvaluate, At, Goto, SweInv, SweTwins, SweRuns
  <2>2. PICK e \in [kind : {"evaluated"}, rc : {0, 1}, top : BOOLEAN, nested : 0..2,
                    linked : BOOLEAN, verdict : BOOLEAN, right : BOOLEAN, logs : {truth.logs},
                    summary : {"agrees", "disagrees", "empty", "absent"}] :
           truth' = e /\ ver' = [ver EXCEPT !["report"] = IF e.top THEN Pinned ELSE Absent]
    BY <1>3 DEF SweEvaluate
  <2>3. truth' \in SweEvaluated /\ truth'.logs = truth.logs
    <3>1. truth.logs \in {"confirmed", "contradicted", "missing"}
      BY <2>1 DEF SweGenerations
    <3> QED
      BY <2>2, <3>1 DEF SweEvaluated
  <2>4. /\ Typed(SweThings)' /\ ver'["report"] # 0
        /\ \A x \in SweThings \ {"report"} : Kept(x)
    BY <1>0, <2>1, <2>2, VersionsAre DEF Typed, Kept
  <2>5. \A x \in SweKept : Keeps(x, SweFrom[x])
    BY <2>1, <2>4, SweStages DEF Keeps
  <2>6. SweTwins' /\ SweRuns' /\ SweReported' /\ SweTight' /\ SweFound'
    BY <1>a, <2>1, <2>3, <2>4, SweStages
       DEF SweTwins, SweRuns, SweReported, SweTight, SweFound
  <2>7. SweAttributed'
    BY <2>1, <2>3, <2>4, SweStages DEF SweInv, SweAttributed, Kept
  <2> QED
    BY <2>1, <2>4, <2>5, <2>6, <2>7, SweGoes
<1> QED
  BY <1>1, <1>2, <1>3

LEMMA SweChecks ==
    ASSUME SweInv, FrameInv, lane = "swe", SweSameLeaves \/ SweReport
    PROVE  SweInv' /\ FrameInv' /\ lane' = "swe"
<1>0. /\ Typed(SweThings) /\ ver \in [SweThings -> Versions] /\ cap \in [SweThings -> Versions]
      /\ seen \in [SweThings -> SUBSET Versions]
  BY DEF SweInv, Typed
<1>a. SweGenerations' = SweGenerations /\ SweEvaluated' = SweEvaluated
  BY DEF SweGenerations, SweEvaluated
<1> USE SweThingsAre
<1>1. CASE SweSameLeaves
  <2>1. /\ pc = "leaves" /\ truth \in SweEvaluated /\ cap["twins"] = Pinned /\ ver["report"] # 0
        /\ UNCHANGED <<lane, ver, cap, seen, disturbs, truth>>
        /\ IF Same({"official", "input", "predictions"})
           THEN Goto("report") ELSE Stop("evidence_corrupt", 0)
    BY <1>1, SweStages DEF SweSameLeaves, At, SweQuiet, SweInv, SweTwins, SweRuns, SweReported
  <2>2. Typed(SweThings)' /\ \A x \in SweKept : Held(x)
    BY <1>0, <2>1, StaysTyped, SweStages DEF SweInv, HeldFrom
  <2>3. CASE Same({"official", "input", "predictions"})
    <3>1. Goto("report") /\ pc' = "report"
      BY <2>1, <2>3 DEF Goto
    <3>2. Tight("input") /\ Tight("predictions")
      BY <1>0, <2>2, <2>3, SameIsTight DEF Same
    <3>3. \A x \in SweKept : Keeps(x, SweFrom[x])
      BY <2>1, <3>1, SweStages DEF Keeps, Kept
    <3>4. SweTwins' /\ SweRuns' /\ SweReported' /\ SweFound'
      BY <1>a, <2>1, <3>1, SweStages DEF SweTwins, SweRuns, SweReported, SweFound
    <3>5. SweAttributed' /\ SweTight'
      BY <2>1, <3>1, <3>2, SweStages DEF SweInv, SweAttributed, SweTight, Tight
    <3> QED
      BY <2>1, <2>2, <3>1, <3>3, <3>4, <3>5, SweGoes
  <2>4. CASE ~Same({"official", "input", "predictions"})
    <3>1. disturbs # 0
      BY <2>1, <2>2, <2>4 DEF Same, Held
    <3> QED
      BY <2>1, <2>2, <2>4, <3>1, SweAlarm
  <2> QED
    BY <2>3, <2>4
<1>2. CASE SweReport
  <2>1. /\ pc = "report" /\ truth \in SweEvaluated /\ cap["twins"] = Pinned /\ ver["report"] # 0
        /\ UNCHANGED <<lane, seen, disturbs, truth>>
        /\ \/ truth.linked /\ Stop("evidence_corrupt", 0) /\ UNCHANGED <<ver, cap>>
           \/ /\ ver' = [ver EXCEPT !["report"] = IF ver["report"] = Absent /\ truth.nested = 1
                                                  THEN Pinned ELSE ver["report"]]
              /\ cap' = [cap EXCEPT !["report"] = ver'["report"]]
              /\ Goto("score")
    BY <1>2, SweStages DEF SweReport, At, SweQuiet, SweInv, SweTwins, SweRuns, SweReported
  <2>2. CASE truth.linked /\ Stop("evidence_corrupt", 0) /\ UNCHANGED <<ver, cap>>
    <3>1. Irregular'
      BY <2>1, <2>2 DEF Irregular, ByLane, SweEvaluated
    <3> QED
      BY <1>0, <2>1, <2>2, <3>1, SweAlarm, StaysTyped
  <2>3. CASE /\ ver' = [ver EXCEPT !["report"] = IF ver["report"] = Absent /\ truth.nested = 1
                                                 THEN Pinned ELSE ver["report"]]
             /\ cap' = [cap EXCEPT !["report"] = ver'["report"]]
             /\ Goto("score")
    <3>1. /\ ver' \in [SweThings -> Versions] /\ pc' = "score" /\ ver'["report"] # 0
      BY <1>0, <2>1, <2>3, VersionsAre DEF Goto
    <3>2. /\ cap' \in [SweThings -> Versions] /\ cap'["report"] = ver'["report"]
          /\ \A x \in SweThings \ {"report"} : Kept(x)
      BY <1>0, <2>3, <3>1 DEF Kept
    <3>3. Typed(SweThings)'
      BY <1>0, <2>1, <3>1, <3>2 DEF Typed
    <3>4. \A x \in SweKept : Keeps(x, SweFrom[x])
      BY <2>1, <3>1, <3>2, SweStages DEF Keeps
    <3>5. SweTwins' /\ SweRuns' /\ SweReported' /\ SweFound'
      BY <1>a, <2>1, <3>1, <3>2, SweStages DEF SweTwins, SweRuns, SweReported, SweFound, Kept
    <3>6. SweAttributed' /\ SweTight'
      BY <2>1, <3>1, <3>2, SweStages DEF SweInv, SweAttributed, SweTight, Tight, Kept
    <3> QED
      BY <2>1, <2>3, <3>3, <3>4, <3>5, <3>6, SweGoes
  <2> QED
    BY <2>1, <2>2, <2>3
<1> QED
  BY <1>1, <1>2

\* BenchEval reads the report, and the directory is still its own.
LEMMA SweScores ==
    ASSUME SweInv, FrameInv, lane = "swe", SweScore
    PROVE  SweInv' /\ FrameInv' /\ lane' = "swe"
<1>0. /\ Typed(SweThings) /\ ver \in [SweThings -> Versions] /\ cap \in [SweThings -> Versions]
      /\ seen \in [SweThings -> SUBSET Versions]
  BY DEF SweInv, Typed
<1>a. SweGenerations' = SweGenerations /\ SweEvaluated' = SweEvaluated
  BY DEF SweGenerations, SweEvaluated
<1> USE SweThingsAre
<1>1. /\ pc = "score" /\ truth \in SweEvaluated /\ cap["twins"] = Pinned
      /\ ver["report"] # 0 /\ (ver["report"] = Pinned => cap["report"] = Pinned)
      /\ UNCHANGED <<lane, ver, cap, seen, disturbs, truth>>
      /\ Tight("input") /\ Tight("predictions")
  BY SweStages DEF SweScore, At, things, SweInv, SweTwins, SweRuns, SweReported, SweTight
<1>2. PICK judged \in BOOLEAN, right \in BOOLEAN :
         /\ right => judged
         /\ Same({"report"}) /\ ver["report"] = Pinned =>
               judged = truth.verdict /\ right = truth.right
         /\ ver["report"] = Absent => ~judged
         /\ IF Same({"instance"})
            THEN /\ found' = [kind |-> "score", verdict |-> judged, right |-> right,
                              label |-> SweByReport(judged, right)]
                 /\ Goto("summary")
            ELSE Stop("evidence_corrupt", spent)
  BY DEF SweScore
<1>3. Typed(SweThings)' /\ Held("instance")
  BY <1>0, <1>1, StaysTyped, SweStages DEF SweInv, HeldFrom
<1>4. CASE Same({"instance"})
  <2>1. Goto("summary") /\ pc' = "summary"
    BY <1>2, <1>4 DEF Goto
  <2>2. Tight("instance")
    BY <1>0, <1>3, <1>4, SameIsTight DEF Same
  <2>3. \A x \in SweKept : Keeps(x, SweFrom[x])
    BY <1>1, <2>1, SweStages DEF Keeps, Kept
  <2>4. SweTwins' /\ SweRuns' /\ SweReported'
    BY <1>a, <1>1, <2>1, SweStages DEF SweTwins, SweRuns, SweReported
  <2>5. SweTight'
    BY <1>1, <2>1, <2>2 DEF SweTight, Tight
  <2>6. SweAttributed'
    BY <1>1, <1>4, <2>1, SweStages DEF SweInv, SweAttributed, Same
  <2>7. SweFound'
    <3>1. found' = [kind |-> "score", verdict |-> judged, right |-> right,
                    label |-> SweByReport(judged, right)]
      BY <1>2, <1>4
    <3>2. SweByReport(judged, right) \in Labels
      <4>1. truth.rc \in {0, 1}
        BY <1>1 DEF SweEvaluated
      <4> QED
        BY <4>1 DEF SweByReport, Labels, Scored
    <3>3. ver["report"] = Pinned => judged = truth.verdict /\ right = truth.right
      BY <1>1, <1>2 DEF Same
    <3>5. (found.label = SweByReport(found.verdict, found.right))'
      BY <1>1, <3>1 DEF SweByReport
    <3>6. found' \in [kind : {"score"}, verdict : BOOLEAN, right : BOOLEAN, label : Labels]
      BY <3>1, <3>2
    <3>7. Labels' = Labels
      BY DEF Labels
    <3> QED
      BY <1>1, <1>2, <3>1, <3>3, <3>5, <3>6, <3>7 DEF SweFound
  <2> QED
    BY <1>1, <1>3, <2>1, <2>3, <2>4, <2>5, <2>6, <2>7, SweGoes
<1>5. CASE ~Same({"instance"})
  <2>1. disturbs # 0
    BY <1>1, <1>3, <1>5 DEF Same, Held
  <2> QED
    BY <1>1, <1>2, <1>3, <1>5, <2>1, SweAlarm
<1> QED
  BY <1>4, <1>5

\* The row that report and summary bear.
LEMMA SweRow ==
    ASSUME SweInv, FrameInv, lane = "swe", pc = "summary", pc' = "over",
           UNCHANGED <<lane, ver, cap, seen, disturbs, truth, found>>, out' = SweBySummary
    PROVE  FrameInv'
<1>1. /\ truth \in SweEvaluated /\ ver["report"] \in Versions
      /\ found \in [kind : {"score"}, verdict : BOOLEAN, right : BOOLEAN, label : Labels]
      /\ found.right => found.verdict
      /\ found.label = SweByReport(found.verdict, found.right)
      /\ ver["report"] = Absent => ~found.verdict
      /\ ver["report"] = Pinned => found.verdict = truth.verdict /\ found.right = truth.right
      /\ Tight("instance") /\ Tight("input") /\ Tight("predictions")
      /\ seen["twins"] \subseteq {Pinned} => truth.logs = "confirmed"
  BY SweStages, SweThingsAre
     DEF SweInv, Typed, SweRuns, SweFound, SweTight, SweAttributed
<1>2. /\ truth.kind = "evaluated" /\ truth.rc \in {0, 1}
      /\ truth.verdict \in BOOLEAN /\ truth.right \in BOOLEAN
      /\ truth.summary \in {"agrees", "disagrees", "empty", "absent"}
      /\ found.verdict \in BOOLEAN /\ found.right \in BOOLEAN
  BY <1>1 DEF SweEvaluated
<1>3. /\ truth.rc # 0 => found.label = "harness_failure"
      /\ truth.rc = 0 /\ ~found.verdict => found.label = "runtime_output_unparseable"
      /\ truth.rc = 0 /\ found.verdict =>
            found.label = IF found.right THEN "pass" ELSE "model_wrong_solution"
  BY <1>1, <1>2 DEF SweByReport
<1>4. \/ out' = "runtime_output_unparseable"
      \/ out' = found.label /\ truth.summary = "absent" /\ ~found.verdict
      \/ out' = found.label /\ SweCoherent /\ truth.summary # "absent" /\ found.verdict
      \/ out' = "model_wrong_solution" /\ SweCoherent /\ truth.summary # "absent" /\ ~found.verdict
  BY <1>2 DEF SweBySummary
<1>5. CASE out' \in {"runtime_output_unparseable", "harness_failure"}
  BY <1>5, Fails DEF Harmless
<1>6. CASE out' \notin {"runtime_output_unparseable", "harness_failure"}
  <2>1. /\ SweCoherent /\ out' \in Scored
        /\ \/ out' = found.label /\ truth.rc = 0 /\ found.verdict
           \/ out' = "model_wrong_solution" /\ ~found.verdict
    BY <1>2, <1>3, <1>4, <1>6 DEF Scored
  <2>2. SettledIsCaptured'
    <3>1. \A x \in SweGuarded : seen'[x] \subseteq {cap'[x]}
      BY <1>1 DEF SweGuarded, Tight
    <3> QED
      BY <3>1 DEF SettledIsCaptured, ByLane, SweGuarded
  <2>3. SweEarned'
    <3> SUFFICES ASSUME seen["twins"] = {Pinned}, ver["report"] \in {Absent, Pinned}
                 PROVE  /\ truth.logs = "confirmed"
                        /\ \/ /\ truth.rc = 0 /\ truth.verdict
                              /\ truth.summary \in {"agrees", "empty"}
                              /\ out' = "pass" <=> truth.right
                           \/ truth.summary = "empty" /\ out' = "model_wrong_solution"
      BY <1>2 DEF SweEarned
    <3>1. truth.logs = "confirmed"
      BY <1>1
    <3>2. CASE out' = found.label /\ truth.rc = 0 /\ found.verdict
      <4>1. found.verdict = truth.verdict /\ found.right = truth.right
        BY <1>1, <3>2
      <4>2. truth.summary \in {"agrees", "empty"}
        BY <2>1 DEF SweCoherent
      <4>3. out' = "pass" <=> truth.right
        BY <1>2, <1>3, <3>2, <4>1
      <4> QED
        BY <3>1, <3>2, <4>1, <4>2, <4>3
    <3>3. CASE out' = "model_wrong_solution" /\ ~found.verdict
      <4>1. truth.summary = "empty"
        BY <2>1, <3>3 DEF SweCoherent
      <4> QED
        BY <3>1, <3>3, <4>1
    <3> QED
      BY <2>1, <3>2, <3>3
  <2>4. VerdictIsEarned'
    BY <2>3 DEF VerdictIsEarned, ByLane
  <2> QED
    BY <2>1, <2>2, <2>4, Pass
<1> QED
  BY <1>5, <1>6

LEMMA SweStep ==
    ASSUME SweInv, FrameInv, lane = "swe", SweNext
    PROVE  SweInv' /\ FrameInv' /\ lane' = "swe"
<1>1. CASE SweStamp
  <2>1. /\ pc = "summary" /\ UNCHANGED <<lane, ver, cap, seen, disturbs, truth, found>>
        /\ pc' = "over" /\ out' = SweBySummary
    BY <1>1 DEF SweStamp, At, SweQuiet, Stop
  <2>2. Typed(SweThings)'
    BY <2>1, StaysTyped DEF SweInv
  <2> QED
    BY <2>1, <2>2, SweEnds, SweRow
<1> QED
  BY <1>1, SweFirstSteps, SweLogs, SwePhase, SweChecks, SweScores DEF SweNext

-----------------------------------------------------------------------------
(* All lanes *)

\* Each adapter's steps are steps of its own attempts only.
LEMMA OwnSteps ==
    /\ GpqaNext   => lane = "gpqa"
    /\ HarborNext => lane = "harbor"
    /\ HleNext    => lane = "hle"
    /\ BfclNext   => lane = "bfcl"
    /\ SweNext    => lane = "swe"
    /\ AgentNext  => lane = "agent"
<1>1. GpqaNext => lane = "gpqa"
  BY Zenon
     DEF GpqaNext, GpqaPin, GpqaResolve, GpqaPackage, GpqaFetch, GpqaVerify, GpqaLaunch,
         GpqaFinish, GpqaCut, GpqaCheckArtifacts, GpqaCheckLogs, GpqaRecheckLogs, GpqaParse,
         GpqaRetain, GpqaStamp, GpqaSame, At
<1>2. HarborNext => lane = "harbor"
  BY Zenon
     DEF HarborNext, HarborResolve, HarborPin, HarborWriteEnv, HarborLaunch, HarborFinish,
         HarborLaunchFails, HarborTimeout, HarborCheckIdentity, HarborPinResult, HarborRetain,
         HarborRelocate, HarborScore, At
<1>3. HleNext => lane = "hle"
  BY Zenon
     DEF HleNext, HleResolve, HlePinArtifacts, HlePinWork, HleCopyScripts, HlePinCache,
         HleFetch, HleIdentity, HleManifest, HleCommands, HleCapture, HlePredictStart,
         HlePredict, HleJudgeStart, HleJudge, HleCut, HleCheckWork, HleCheckCache,
         HleNextPhase, HleCheckCopies, HleCheckSource, HleCheckArtifacts, HleParse, HleStamp,
         HleStart, At
<1>4. BfclNext => lane = "bfcl"
  BY Zenon
     DEF BfclNext, BfclResolve, BfclPackage, BfclCopy, BfclStudy, BfclPin, BfclBeforeGenerate,
         BfclGenerateStart, BfclGenerate, BfclCut, BfclCheckDirs, BfclAnswer, BfclBudget,
         BfclCheckData, BfclEvaluateStart, BfclEvaluate, BfclSameAnswer, BfclLocate,
         BfclScore, At
<1>5. SweNext => lane = "swe"
  BY Zenon
     DEF SweNext, SweResolve, SwePrepare, SweMaterialize, SweGenerateStart, SweGenerate,
         SweCut, SweGenerated, SweBindLogs, SweIdentify, SwePredict, SweBindInputs,
         SweEvaluateStart, SweEvaluate, SweSameLeaves, SweReport, SweScore, SweStamp, At
<1>6. AgentNext => lane = "agent"
  BY Zenon
     DEF AgentNext, AgentPin, AgentCommand, AgentLaunch, AgentFinish, AgentCut, AgentWrite,
         AgentIdentity, AgentContent, At
<1> QED
  BY <1>1, <1>2, <1>3, <1>4, <1>5, <1>6

\* An attempt begins with nothing captured and nothing used.
LEMMA Starts ==
    ASSUME NEW l \in {"gpqa", "harbor", "hle", "bfcl", "swe", "agent"}, NEW T,
           NEW v \in [T -> {Absent, 0, Pinned}], Fresh(l, v)
    PROVE  /\ FrameInv /\ Typed(T) /\ pc = "start" /\ lane = l /\ ver = v
           /\ \A x \in T : Unused(x)
<1>1. /\ ver \in [T -> Versions] /\ pc = "start" /\ lane = l /\ ver = v
      /\ cap = [x \in T |-> Absent] /\ seen = [x \in T |-> {}]
      /\ out = "none" /\ disturbs = 0
  BY VersionsAre DEF Fresh
<1>2. cap \in [T -> Versions] /\ seen \in [T -> SUBSET Versions] /\ \A x \in T : Unused(x)
  BY <1>1, VersionsAre DEF Unused
<1>3. Verdicts
  BY <1>1 DEF Verdicts, SettledIsCaptured, Settled, VerdictIsEarned, CorruptHasCause, Scored,
     AgentCaptured
<1> QED
  BY <1>1, <1>2, <1>3 DEF FrameInv, Typed

LEMMA LaneInit ==
    ASSUME Init
    PROVE  LaneInv
<1>1. CASE \E v \in GpqaVersions : Fresh("gpqa", v)
  <2>1. /\ FrameInv /\ Typed(GpqaThings) /\ pc = "start" /\ lane = "gpqa"
        /\ \A x \in GpqaThings : Unused(x)
    BY <1>1, Starts DEF GpqaVersions
  <2>2. \A x \in GpqaOwned : x \in GpqaThings
    BY DEF GpqaThings
  <2> QED
    BY <2>1, <2>2 DEF LaneInv, GpqaInv, GpqaAfter, HeldFrom
<1>2. CASE \E v \in HarborVersions : Fresh("harbor", v)
  <2>1. /\ FrameInv /\ Typed(HarborThings) /\ pc = "start" /\ lane = "harbor"
        /\ \A x \in HarborThings : Unused(x)
    BY <1>2, Starts DEF HarborVersions
  <2> QED
    BY <2>1 DEF LaneInv, HarborInv, HarborBefore, HarborThings, HeldFrom
<1>3. CASE \E v \in HleVersions : Fresh("hle", v)
  <2>1. /\ FrameInv /\ Typed(HleThings) /\ pc = "start" /\ lane = "hle"
        /\ \A x \in HleThings : Unused(x)
    BY <1>3, Starts DEF HleVersions
  <2>2. \A x \in HleKept : x \in HleThings /\ "start" \in HleFrom[x]
    BY DEF HleKept, HleFrom, HleThings
  <2> QED
    BY <2>1, <2>2 DEF LaneInv, HleInv, HleBefore, HleFrom, HleChecks, HleEnd, HeldFrom
<1>4. CASE \E v \in BfclVersions : Fresh("bfcl", v)
  <2>1. PICK v \in BfclVersions : Fresh("bfcl", v)
    BY <1>4
  <2>2. /\ FrameInv /\ Typed(BfclThings) /\ pc = "start" /\ lane = "bfcl" /\ ver = v
        /\ \A x \in BfclThings : Unused(x)
    BY <2>1, Starts DEF BfclVersions
  <2>3. \A x \in BfclKept : x \in BfclThings /\ "start" \in BfclFrom[x]
    BY BfclThingsAre DEF BfclKept, BfclStart, BfclEarly, BfclBefore, BfclFirst
  <2>4. v["study"] \in {Absent, 0, Pinned}
    BY <2>1, BfclThingsAre DEF BfclVersions
  <2> QED
    BY <2>2, <2>3, <2>4, VersionsAre
       DEF LaneInv, BfclInv, BfclHeld, BfclStart, BfclEarly, BfclMiddle, BfclEnd
<1>5. CASE \E v \in SweVersions : Fresh("swe", v)
  <2>1. /\ FrameInv /\ Typed(SweThings) /\ pc = "start" /\ lane = "swe"
        /\ \A x \in SweThings : Unused(x)
    BY <1>5, Starts DEF SweVersions
  <2>2. \A x \in SweKept : HeldFrom(x, SweFrom[x])
    BY <2>1, SweThingsAre, SweStages DEF HeldFrom
  <2> QED
    BY <2>1, <2>2, SweThingsAre, SweStages
       DEF LaneInv, SweInv, SweTwins, SweRuns, SweAttributed, SweReported, SweTight, SweFound
<1>6. CASE \E v \in AgentVersions : Fresh("agent", v)
  <2>1. /\ FrameInv /\ Typed(AgentThings) /\ pc = "start" /\ lane = "agent"
        /\ \A x \in AgentThings : Unused(x)
    BY <1>6, Starts DEF AgentVersions
  <2>2. \A x \in AgentDirs : x \in AgentThings /\ AgentFrom[x] = {"start"}
    BY DEF AgentThings, AgentFrom
  <2> QED
    BY <2>1, <2>2 DEF LaneInv, AgentInv, HeldFrom
<1> QED
  BY <1>1, <1>2, <1>3, <1>4, <1>5, <1>6 DEF Init

\* A swap touches no verdict: there is none yet.
LEMMA LaneSwap ==
    ASSUME LaneInv, Disturb
    PROVE  LaneInv'
<1>1. /\ FrameInv /\ disturbs \in Nat /\ pc # "over" /\ out = "none"
      /\ UNCHANGED <<lane, pc, out>> /\ disturbs' = disturbs + 1
  BY DEF LaneInv, FrameInv, Disturb, verdict
<1>2. FrameInv'
  BY <1>1, Silent DEF FrameInv, Harmless
<1>3. /\ lane = "gpqa"   => GpqaInv'
      /\ lane = "harbor" => HarborInv'
      /\ lane = "hle"    => HleInv'
      /\ lane = "bfcl"   => BfclInv'
      /\ lane = "swe"    => SweInv'
      /\ lane = "agent"  => AgentInv'
  BY <1>1, GpqaSwap, HarborSwap, HleSwap, BfclSwap, SweSwap, AgentSwap DEF LaneInv
<1> QED
  BY <1>1, <1>2, <1>3 DEF LaneInv

\* A step that changes nothing keeps every lane's part.
LEMMA LaneStutter ==
    ASSUME LaneInv, UNCHANGED vars
    PROVE  LaneInv'
<1>1. UNCHANGED <<lane, pc, ver, cap, seen, disturbs, spent, truth, found, out, charged>>
  BY DEF vars, things, verdict
<1>2. FrameInv => FrameInv'
  <2>1. SettledIsCaptured => SettledIsCaptured'
    BY <1>1
       DEF SettledIsCaptured, Settled, Scored, AgentCaptured, ByLane, GpqaGuarded, HarborGuarded,
           HleGuarded, BfclGuarded, SweGuarded, AgentGuarded, GpqaOwned, HleNamed, BfclNamed,
           AgentNamed, HleUsed, BfclUsed
  <2>2. VerdictIsEarned => VerdictIsEarned'
    BY <1>1
       DEF VerdictIsEarned, Scored, ByLane, GpqaEarned, HarborEarned, HleEarned, BfclEarned,
           SweEarned
  <2>3. CorruptHasCause => CorruptHasCause'
    BY <1>1 DEF CorruptHasCause, Irregular, ByLane
  <2> QED
    BY <1>1, <2>1, <2>2, <2>3 DEF FrameInv, Verdicts
<1>3. GpqaInv => GpqaInv'
  BY <1>1 DEF GpqaInv, GpqaRuns, GpqaScore, GpqaTotal, GpqaUnique, Typed, HeldFrom, Held, Unused
<1>4. HarborInv => HarborInv'
  BY <1>1 DEF HarborInv, HarborRuns, HarborLocated, Typed, HeldFrom, Held, Unused
<1>5. HleInv => HleInv'
  BY <1>1 DEF HleInv, Typed, HeldFrom, Held, Unused, Tight
<1>6. BfclInv => BfclInv'
  BY <1>1 DEF BfclInv, BfclHeld, BfclWants, BfclLooksFor, Typed, HeldFrom, Held, Unused, Tight
<1>7. SweInv => SweInv'
  BY <1>1 DEF SweInv, SweTwins, SweRuns, SweAttributed, SweReported, SweTight, SweFound, Typed,
     HeldFrom, Held, Unused, Tight, SweByReport
<1>8. AgentInv => AgentInv'
  BY <1>1 DEF AgentInv, Typed, HeldFrom, Held, Unused, Tight
<1> QED
  BY <1>1, <1>2, <1>3, <1>4, <1>5, <1>6, <1>7, <1>8 DEF LaneInv

LEMMA LaneStep ==
    ASSUME LaneInv, [Next]_vars
    PROVE  LaneInv'
<1>1. CASE Step
  <2>1. CASE GpqaNext
    <3>1. lane = "gpqa" /\ GpqaInv /\ FrameInv
      BY <2>1, OwnSteps DEF LaneInv
    <3>2. GpqaInv' /\ FrameInv' /\ lane' = "gpqa"
      BY <2>1, <3>1, GpqaStep
    <3> QED
      BY <3>2 DEF LaneInv
  <2>2. CASE HarborNext
    <3>1. lane = "harbor" /\ HarborInv /\ FrameInv
      BY <2>2, OwnSteps DEF LaneInv
    <3>2. HarborInv' /\ FrameInv' /\ lane' = "harbor"
      BY <2>2, <3>1, HarborStep
    <3> QED
      BY <3>2 DEF LaneInv
  <2>3. CASE HleNext
    <3>1. lane = "hle" /\ HleInv /\ FrameInv
      BY <2>3, OwnSteps DEF LaneInv
    <3>2. HleInv' /\ FrameInv' /\ lane' = "hle"
      BY <2>3, <3>1, HleStep
    <3> QED
      BY <3>2 DEF LaneInv
  <2>4. CASE BfclNext
    <3>1. lane = "bfcl" /\ BfclInv /\ FrameInv
      BY <2>4, OwnSteps DEF LaneInv
    <3>2. BfclInv' /\ FrameInv' /\ lane' = "bfcl"
      BY <2>4, <3>1, BfclStep
    <3> QED
      BY <3>2 DEF LaneInv
  <2>5. CASE SweNext
    <3>1. lane = "swe" /\ SweInv /\ FrameInv
      BY <2>5, OwnSteps DEF LaneInv
    <3>2. SweInv' /\ FrameInv' /\ lane' = "swe"
      BY <2>5, <3>1, SweStep
    <3> QED
      BY <3>2 DEF LaneInv
  <2>6. CASE AgentNext
    <3>1. lane = "agent" /\ AgentInv /\ FrameInv
      BY <2>6, OwnSteps DEF LaneInv
    <3>2. AgentInv' /\ FrameInv' /\ lane' = "agent"
      BY <2>6, <3>1, AgentStep
    <3> QED
      BY <3>2 DEF LaneInv
  <2> QED
    BY <1>1, <2>1, <2>2, <2>3, <2>4, <2>5, <2>6 DEF Step
<1>2. CASE Disturb
  BY <1>2, LaneSwap
<1>3. CASE Over \/ UNCHANGED vars
  BY <1>3, LaneStutter DEF Over
<1> QED
  BY <1>1, <1>2, <1>3 DEF Next

-----------------------------------------------------------------------------
(* Theorems *)

\* In every lane, whatever is swapped and whenever: what BenchEval has captured
\* and still finds in its place was used in no other version.
THEOREM AttemptsAreSound == Spec => []LaneInv
<1>1. Init => LaneInv
  BY LaneInit
<1>2. LaneInv /\ [Next]_vars => LaneInv'
  BY LaneStep
<1> QED
  BY <1>1, <1>2, PTL DEF Spec

\* A row with a verdict rests on what the adapter captured and nothing else.
THEOREM SettledRestsOnCaptured == Spec => []SettledIsCaptured
<1>1. LaneInv => SettledIsCaptured
  BY DEF LaneInv, FrameInv, Verdicts
<1> QED
  BY <1>1, AttemptsAreSound, PTL

\* A verdict is what the harness's complete, attributed and coherent result of
\* the planned work says, and no other reading of it becomes one.
THEOREM VerdictsAreEarned == Spec => []VerdictIsEarned
<1>1. LaneInv => VerdictIsEarned
  BY DEF LaneInv, FrameInv, Verdicts
<1> QED
  BY <1>1, AttemptsAreSound, PTL

\* Evidence is called corrupt only after a swap, or of a result nobody can
\* score: no adapter raises a false alarm.
THEOREM AlarmsHaveCauses == Spec => []CorruptHasCause
<1>1. LaneInv => CorruptHasCause
  BY DEF LaneInv, FrameInv, Verdicts
<1> QED
  BY <1>1, AttemptsAreSound, PTL

-----------------------------------------------------------------------------
(* CyberMetric's two threads *)

SliceLabels ==
    ScoredLabels \cup {"model_output_invalid", "runtime_budget_exceeded", "remote_infra_failure"}

\* From the exchange's deadline being set to the watchdog's cancellation.
Exchanging == {"connect", "armed", "read", "check", "leave"}

SliceTypes ==
    /\ clock \in Nat /\ deadline \in Int /\ granted \in Int /\ cutoff \in Int /\ readAt \in Nat
    /\ armed \in BOOLEAN /\ cut \in BOOLEAN
    /\ timer \in {"off", "set", "expired", "done"}
    /\ outcomes \in Seq(SliceLabels)

\* The exchange's deadline may be later than the question's and never earlier.
SliceWalls ==
    /\ readAt <= clock /\ deadline <= RunWall
    /\ place = "start" => clock = 0 /\ readAt = 0
    /\ place = "enter" => clock + granted >= deadline
    /\ place \in {"open"} \cup Exchanging => cutoff >= deadline

\* The flag goes up after the exchange's deadline, and before its socket is shut
\* down; between exchanges no watchdog is running.
SliceFlag ==
    /\ place \notin Exchanging => timer = "off"
    /\ place \in Exchanging /\ Expired => clock >= cutoff
    /\ place = "open" => ~cut
    /\ place \in Exchanging /\ cut => timer = "done"

\* A body that ended as if whole under a shutdown finds the flag up at the check.
SliceAnswer ==
    /\ place = "check" => (wire = "whole" /\ far \in Whole) \/ (wire = "cut" /\ timer = "done")
    /\ place = "leave" => wire = "whole" /\ far \in Whole
    /\ place = "judge" => far \in {"right", "wrong", "no_letter"}

SliceInv == SliceTypes /\ SliceWalls /\ SliceFlag /\ SliceAnswer

\* The wall was used, or the kernel gives the connection up in this step.
WallOrKernel == clock >= deadline \/ (place \in {"connect", "read"} /\ wire' = "gaveup")

\* What a step may add to the outcomes, and when.
SliceSettles ==
    \/ UNCHANGED outcomes
    \/ /\ \E l \in ScoredLabels : outcomes' = Append(outcomes, l)
       /\ readAt < deadline /\ readAt < RunWall
    \/ outcomes' = Append(outcomes, "remote_infra_failure") /\ wire' # "cut"
    \/ outcomes' = Append(outcomes, "runtime_budget_exceeded") /\ WallOrKernel
    \/ outcomes' = Append(outcomes, "model_output_invalid")

LEMMA SliceStarts == SliceInit => SliceInv
<1> SUFFICES ASSUME SliceInit PROVE SliceInv
  OBVIOUS
<1> USE CybermetricAssumption DEF CybermetricAssumption, SliceInit
<1>1. armed \in BOOLEAN /\ cut \in BOOLEAN
  OBVIOUS
<1>2. /\ clock \in Nat /\ deadline \in Int /\ granted \in Int /\ cutoff \in Int /\ readAt \in Nat
      /\ timer \in {"off", "set", "expired", "done"}
      /\ outcomes \in Seq(SliceLabels)
  OBVIOUS
<1>3. SliceTypes
  BY <1>1, <1>2 DEF SliceTypes
<1>4. SliceWalls
  BY DEF SliceWalls, Exchanging
<1>5. SliceFlag
  BY DEF SliceFlag, Exchanging
<1>6. SliceAnswer
  BY DEF SliceAnswer
<1> QED
  BY <1>3, <1>4, <1>5, <1>6 DEF SliceInv

LEMMA SliceKeeps == SliceInv /\ [SliceNext]_sliceVars => SliceInv' /\ SliceSettles
<1> USE CybermetricAssumption DEF CybermetricAssumption
<1> SUFFICES ASSUME SliceInv, [SliceNext]_sliceVars PROVE SliceInv' /\ SliceSettles
  OBVIOUS
<1> USE DEF SliceInv, SliceTypes, SliceWalls, SliceFlag, SliceAnswer, SliceSettles, WallOrKernel, Exchanging, Expired,
      sliceVars, watchdog, request, question, SliceLabels, ScoredLabels, Whole, FarEnds
<1>a. \A l \in SliceLabels : Append(outcomes, l) \in Seq(SliceLabels)
  OBVIOUS
<1>1. CASE Start
  BY <1>1 DEF Start
<1>2. CASE Ask
  BY <1>2 DEF Ask, Least
<1>3. CASE Attempt
  BY <1>3, <1>a DEF Attempt, Settle
<1>4. CASE Enter
  <2>1. /\ clock' = clock /\ deadline' = deadline /\ readAt' = readAt /\ timer' = timer
        /\ place = "enter" /\ place' = "open" /\ cutoff' = clock + granted /\ granted' = granted
        /\ armed' = FALSE /\ cut' = FALSE /\ outcomes' = outcomes
    BY <1>4 DEF Enter
  <2>2. /\ clock' \in Nat /\ deadline' \in Int /\ granted' \in Int /\ cutoff' \in Int /\ readAt' \in Nat
        /\ timer' \in {"off", "set", "expired", "done"}
        /\ outcomes' \in Seq(SliceLabels)
    BY <2>1
  <2>3. armed' \in BOOLEAN /\ cut' \in BOOLEAN
    BY <2>1
  <2>4. SliceTypes'
    BY <2>2, <2>3
  <2>5. SliceWalls'
    BY <2>1
  <2>6. SliceFlag'
    BY <2>1
  <2>7. SliceAnswer'
    BY <2>1
  <2> QED
    BY <2>1, <2>4, <2>5, <2>6, <2>7
<1>5. CASE Open
  BY <1>5, <1>a DEF Open, Raise, Settle
<1>6. CASE Arm
  BY <1>6 DEF Arm
<1>7. CASE ConnectFails
  BY <1>7, <1>a DEF ConnectFails, Raise, Settle
<1>8. CASE Send
  BY <1>8, <1>a DEF Send, Raise, Settle
<1>9. CASE Read
  BY <1>9, <1>a DEF Read, Raise, Settle
<1>10. CASE Check
  BY <1>10, <1>a DEF Check, Raise, Settle
<1>11. CASE Leave
  BY <1>11, <1>a DEF Leave, Settle
<1>12. CASE Judge
  BY <1>12, <1>a DEF Judge, Settle
<1>13. CASE Finish
  BY <1>13 DEF Finish
<1>14. CASE Expire
  BY <1>14 DEF Expire
<1>15. CASE Shut
  BY <1>15 DEF Shut
<1>16. CASE Tick
  BY <1>16 DEF Tick
<1>17. CASE UNCHANGED sliceVars
  BY <1>17
<1> QED
  BY <1>1, <1>2, <1>3, <1>4, <1>5, <1>6, <1>7, <1>8, <1>9, <1>10, <1>11, <1>12, <1>13, <1>14, <1>15,
     <1>16, <1>17 DEF SliceNext, Main, Watchdog, SliceOver

\* The step that settles a question settles it with one label.
LEMMA AppendTells == ASSUME NEW S, NEW o \in Seq(S), NEW a \in S, NEW b \in S
                     PROVE  Append(o, a) # o /\ (Append(o, a) = Append(o, b) => a = b)
<1>1. Len(Append(o, a)) = Len(o) + 1 /\ Len(o) \in Nat
  OBVIOUS
<1>2. Append(o, a)[Len(o) + 1] = a /\ Append(o, b)[Len(o) + 1] = b
  OBVIOUS
<1> QED
  BY <1>1, <1>2

LEMMA SettlesTell ==
    ASSUME SliceInv, SliceSettles
    PROVE  /\ Settles(ScoredLabels) => readAt < deadline /\ readAt < RunWall
           /\ Settles({"remote_infra_failure"}) => wire' # "cut"
           /\ Settles({"runtime_budget_exceeded"}) => WallOrKernel
<1>1. outcomes \in Seq(SliceLabels)
  BY DEF SliceInv, SliceTypes
<1>2. /\ ScoredLabels \subseteq SliceLabels /\ "model_output_invalid" \in SliceLabels
      /\ "runtime_budget_exceeded" \in SliceLabels /\ "remote_infra_failure" \in SliceLabels
  BY DEF SliceLabels
<1>3. ASSUME NEW l \in SliceLabels, outcomes' = Append(outcomes, l)
      PROVE  /\ l \in ScoredLabels => readAt < deadline /\ readAt < RunWall
             /\ l = "remote_infra_failure" => wire' # "cut"
             /\ l = "runtime_budget_exceeded" => WallOrKernel
  <2>1. outcomes' # outcomes
    BY <1>1, <1>3, AppendTells
  <2>2. \A m \in SliceLabels : outcomes' = Append(outcomes, m) => m = l
    BY <1>1, <1>3, AppendTells
  <2> QED
    BY <1>2, <2>1, <2>2 DEF SliceSettles, ScoredLabels
<1> QED
  BY <1>2, <1>3 DEF Settles

\* A verdict rests on an answer that was there before its question's wall and the
\* run's, for any walls and however long the thread takes between two lines.
THEOREM VerdictsAreInTime == SliceSpec => VerdictInTime
<1>1. SliceInv /\ [SliceNext]_sliceVars
      => [Settles(ScoredLabels) => readAt < deadline /\ readAt < RunWall]_sliceVars
  BY SliceKeeps, SettlesTell
<1> QED
  BY <1>1, SliceStarts, SliceKeeps, PTL DEF SliceSpec, VerdictInTime

\* What the watchdog's own shutdown ended is a budget failure and never the far
\* end's, and a budget failure means that the wall was used up or that the kernel
\* gave the connection up under a connect or a read.
THEOREM BlameIsEarned == SliceSpec => BlameIsRight
<1>1. SliceInv /\ [SliceNext]_sliceVars
      => [/\ Settles({"remote_infra_failure"}) => wire' # "cut"
          /\ Settles({"runtime_budget_exceeded"}) =>
                clock >= deadline \/ (place \in {"connect", "read"} /\ wire' = "gaveup")]_sliceVars
  BY SliceKeeps, SettlesTell DEF WallOrKernel
<1> QED
  BY <1>1, SliceStarts, SliceKeeps, PTL DEF SliceSpec, BlameIsRight

-----------------------------------------------------------------------------
(* How far a slice has to go *)

\* From the question's deadline being set to its outcome.
Asking == {"attempt", "enter", "open", "judge"} \cup Exchanging

\* A question under way is one of those planned and has requests left or made.
SliceCount ==
    /\ Len(outcomes) <= Questions /\ (place = "start" => Len(outcomes) = 0)
    /\ place \in {"start", "question", "refused", "over"} \cup Asking
    /\ place \in Asking => Len(outcomes) < Questions /\ asked \in 0..MaxAttempts

\* Steps before the two threads from each place of an attempt.
PlaceSteps ==
    CASE place = "enter"   -> 11
      [] place = "open"    -> 10
      [] place = "connect" -> 7
      [] place = "armed"   -> 6
      [] place = "read"    -> 5
      [] place = "check"   -> 4
      [] place = "leave"   -> 3
      [] place = "judge"   -> 2
      [] place = "attempt" -> 1

\* Steps before the watchdog.
TimerSteps == IF timer = "set" THEN 2 ELSE IF timer = "expired" THEN 1 ELSE 0

\* Steps that a question can take, with all of its requests.
QuestionSteps == 12 * MaxAttempts + 2

\* A bound on what the two threads have left to do.
SliceStepsLeft ==
    CASE place = "start"            -> QuestionSteps * Questions + 2
      [] place = "question"         -> QuestionSteps * (Questions - Len(outcomes)) + 1
      [] place \in Asking           -> QuestionSteps * (Questions - Len(outcomes) - 1) + 1
                                       + 12 * (MaxAttempts - asked) + PlaceSteps + TimerSteps
      [] place \in {"refused", "over"} -> 0

\* Time aside, nothing happens without bringing the slice nearer to its end.
SliceMovesOn ==
    [][/\ SliceStepsLeft \in Nat
       /\ \/ SliceStepsLeft' < SliceStepsLeft
          \/ Tick /\ SliceStepsLeft' = SliceStepsLeft]_sliceVars

\* The bounds are numbers.
LEMMA BoundsAreNat == Questions \in Nat /\ MaxAttempts \in Nat \ {0} /\ QuestionSteps \in Nat
<1>1. Questions \in Nat /\ MaxAttempts \in Nat \ {0}
  BY CybermetricAssumption DEF CybermetricAssumption
<1> QED
  BY <1>1 DEF QuestionSteps

\* A settled question is one more.
LEMMA SettledIsOneMore ==
    ASSUME SliceInv, NEW l \in SliceLabels, Settle(l)
    PROVE  Len(outcomes') = Len(outcomes) + 1 /\ place' = "question" /\ Len(outcomes) \in Nat
<1>1. outcomes \in Seq(SliceLabels)
  BY DEF SliceInv, SliceTypes
<1> QED
  BY <1>1 DEF Settle

\* So does an exchange that raises, and it cancels the watchdog.
LEMMA RaiseSettles ==
    ASSUME SliceInv, NEW end, Raise(end)
    PROVE  Len(outcomes') = Len(outcomes) + 1 /\ place' = "question" /\ timer' = "off"
<1>1. "runtime_budget_exceeded" \in SliceLabels /\ "remote_infra_failure" \in SliceLabels
  BY DEF SliceLabels
<1> QED
  BY <1>1, SettledIsOneMore DEF Raise

\* How a step of the two threads goes on.
SliceGoesOn ==
    \/ /\ place = "start" /\ place' \in {"question", "refused"} /\ UNCHANGED outcomes
    \/ /\ place = "question" /\ place' = "attempt" /\ asked' = 0 /\ Len(outcomes) < Questions
       /\ UNCHANGED <<outcomes, timer>>
    \/ /\ place = "attempt" /\ place' = "enter" /\ asked' = asked + 1 /\ asked # MaxAttempts
       /\ UNCHANGED <<outcomes, timer>>
    \/ /\ place \in Asking /\ place' = "question" /\ Len(outcomes') = Len(outcomes) + 1
    \/ /\ place \in Asking /\ place' \in Asking /\ UNCHANGED <<asked, outcomes>>
       /\ PlaceSteps' + TimerSteps' < PlaceSteps + TimerSteps
    \/ /\ place = "question" /\ place' = "over" /\ UNCHANGED outcomes
    \/ Tick

\* Every step goes on in one of these ways: one look at each place of the code.
LEMMA StepsGoOn == ASSUME SliceInv, SliceNext, sliceVars' # sliceVars PROVE SliceGoesOn
<1> USE DEF Asking, Exchanging
<1>1. CASE Start
  BY <1>1 DEF Start, SliceGoesOn
<1>2. CASE Ask
  BY <1>2 DEF Ask, SliceGoesOn, watchdog
<1>3. CASE Attempt
  <2>1. place = "attempt"
    BY <1>3 DEF Attempt
  <2>2. CASE place' = "enter"
    BY <1>3, <2>2 DEF Attempt, Settle, SliceGoesOn, watchdog
  <2>3. CASE Settle("model_output_invalid") \/ Settle("runtime_budget_exceeded")
    BY <2>1, <2>3, SettledIsOneMore DEF SliceGoesOn, SliceLabels
  <2> QED
    BY <1>3, <2>2, <2>3 DEF Attempt
<1>4. CASE Enter
  BY <1>4 DEF Enter, SliceGoesOn, question, PlaceSteps, TimerSteps
<1>5. CASE Open
  <2>1. place = "open" /\ timer = "off"
    BY <1>5 DEF Open, SliceInv, SliceFlag
  <2>2. CASE Raise("timeout")
    BY <2>1, <2>2, RaiseSettles DEF SliceGoesOn
  <2>3. CASE place' = "connect" /\ timer' = "set" /\ UNCHANGED <<question, outcomes>>
    BY <2>1, <2>3 DEF SliceGoesOn, question, PlaceSteps, TimerSteps
  <2> QED
    BY <1>5, <2>2, <2>3 DEF Open
<1>6. CASE Arm
  BY <1>6 DEF Arm, SliceGoesOn, question, PlaceSteps, TimerSteps
<1>7. CASE ConnectFails
  <2>1. place = "connect" /\ (Raise("broken") \/ Raise("timeout"))
    BY <1>7 DEF ConnectFails
  <2> QED
    BY <2>1, RaiseSettles DEF SliceGoesOn
<1>8. CASE Send
  <2>1. place = "armed"
    BY <1>8 DEF Send
  <2>2. CASE Raise("timeout")
    BY <2>1, <2>2, RaiseSettles DEF SliceGoesOn
  <2>3. CASE place' = "read" /\ UNCHANGED <<question, timer, outcomes>>
    BY <2>1, <2>3 DEF SliceGoesOn, question, PlaceSteps, TimerSteps
  <2> QED
    BY <1>8, <2>2, <2>3 DEF Send
<1>9. CASE Read
  <2>1. place = "read"
    BY <1>9 DEF Read
  <2>2. CASE \E end : Raise(end)
    BY <2>1, <2>2, RaiseSettles DEF SliceGoesOn
  <2>3. CASE place' = "check" /\ UNCHANGED <<question, timer, outcomes>>
    BY <2>1, <2>3 DEF SliceGoesOn, question, PlaceSteps, TimerSteps
  <2> QED
    BY <1>9, <2>2, <2>3 DEF Read, question
<1>10. CASE Check
  <2>1. place = "check"
    BY <1>10 DEF Check
  <2>2. CASE Raise("timeout")
    BY <2>1, <2>2, RaiseSettles DEF SliceGoesOn
  <2>3. CASE place' = "leave" /\ UNCHANGED <<question, timer, outcomes>>
    BY <2>1, <2>3 DEF SliceGoesOn, question, PlaceSteps, TimerSteps
  <2> QED
    BY <1>10, <2>2, <2>3 DEF Check
<1>11. CASE Leave
  <2>1. place = "leave" /\ timer' = "off"
    BY <1>11 DEF Leave
  <2>2. CASE Settle("remote_infra_failure")
    BY <2>1, <2>2, SettledIsOneMore DEF SliceGoesOn, SliceLabels
  <2>3. CASE place' = "judge" /\ UNCHANGED <<question, outcomes>>
    <3>1. TimerSteps \in 0..2 /\ TimerSteps' = 0
      BY <2>1 DEF TimerSteps
    <3>2. PlaceSteps = 3 /\ PlaceSteps' = 2
      BY <2>1, <2>3 DEF PlaceSteps
    <3> QED
      BY <2>1, <2>3, <3>1, <3>2 DEF SliceGoesOn, question
  <2> QED
    BY <1>11, <2>2, <2>3 DEF Leave
<1>12. CASE Judge
  <2>1. place = "judge" /\ UNCHANGED <<question, watchdog>>
    BY <1>12 DEF Judge
  <2>2. CASE \E l \in {"runtime_budget_exceeded", "pass", "model_wrong_solution"} : Settle(l)
    BY <2>1, <2>2, SettledIsOneMore DEF SliceGoesOn, SliceLabels, ScoredLabels
  <2>3. CASE place' = "attempt" /\ UNCHANGED outcomes
    BY <2>1, <2>3 DEF SliceGoesOn, question, watchdog, PlaceSteps, TimerSteps
  <2> QED
    BY <1>12, <2>2, <2>3 DEF Judge
<1>13. CASE Finish
  BY <1>13 DEF Finish, SliceGoesOn
<1>14. CASE Watchdog
  <2>1. /\ UNCHANGED <<place, question, outcomes>>
        /\ \/ timer = "set" /\ timer' = "expired"
           \/ timer = "expired" /\ timer' = "done"
    BY <1>14 DEF Watchdog, Expire, Shut
  <2>2. place \in Exchanging
    BY <2>1 DEF SliceInv, SliceFlag
  <2>3. PlaceSteps' = PlaceSteps /\ PlaceSteps \in Nat
    BY <2>1, <2>2 DEF PlaceSteps
  <2>4. TimerSteps' \in Nat /\ TimerSteps \in Nat /\ TimerSteps' < TimerSteps
    BY <2>1 DEF TimerSteps
  <2> QED
    <3>1. place \in Asking /\ place' \in Asking /\ UNCHANGED <<asked, outcomes>>
      BY <2>1, <2>2 DEF question
    <3>2. ASSUME NEW p \in Nat, NEW s \in Nat, NEW t \in Nat, s < t PROVE p + s < p + t
      BY <3>2
    <3>3. PlaceSteps' + TimerSteps' < PlaceSteps + TimerSteps
      BY <2>3, <2>4, <3>2
    <3> QED
      BY <3>1, <3>3 DEF SliceGoesOn
<1>15. CASE Tick
  BY <1>15 DEF SliceGoesOn
<1> QED
  BY <1>1, <1>2, <1>3, <1>4, <1>5, <1>6, <1>7, <1>8, <1>9, <1>10, <1>11, <1>12, <1>13, <1>14, <1>15
  DEF SliceNext, Main, SliceOver

\* Requests and questions stay within their numbers.
LEMMA SliceCounts == SliceInv /\ SliceCount /\ [SliceNext]_sliceVars => SliceCount'
<1> SUFFICES ASSUME SliceInv, SliceCount, [SliceNext]_sliceVars PROVE SliceCount'
  OBVIOUS
<1>1. Questions \in Nat /\ MaxAttempts \in Nat \ {0} /\ Len(outcomes) \in Nat
  BY BoundsAreNat DEF SliceInv, SliceTypes
<1>2. CASE UNCHANGED sliceVars
  BY <1>2 DEF sliceVars, question, SliceCount
<1>3. CASE Tick
  BY <1>3 DEF Tick, question, SliceCount
<1>4. CASE SliceGoesOn /\ ~Tick
  BY <1>1, <1>4 DEF SliceGoesOn, SliceCount, Asking, Exchanging
<1> QED
  BY <1>2, <1>3, <1>4, StepsGoOn

\* What counts the steps is in range after a step,
LEMMA AskingStepsPrimed ==
    /\ place' \in Asking => PlaceSteps' \in 1..11
    /\ TimerSteps' \in 0..2
<1>1. place' \in Asking => PlaceSteps' \in 1..11
  BY DEF Asking, Exchanging, PlaceSteps
<1> QED
  BY <1>1 DEF TimerSteps

\* and before it.
LEMMA AskingSteps ==
    ASSUME SliceInv, SliceCount
    PROVE  /\ place \in Asking => PlaceSteps \in 1..11
           /\ TimerSteps \in 0..2
           /\ place \in {"start", "question", "refused", "over"} \cup Asking
<1>1. place \in Asking => PlaceSteps \in 1..11
  BY DEF Asking, Exchanging, PlaceSteps
<1>2. TimerSteps \in 0..2
  BY DEF TimerSteps
<1> QED
  BY <1>1, <1>2 DEF SliceCount

\* The steps of a question are more than those of its requests.
LEMMA QuestionsGoDown ==
    ASSUME NEW k \in Nat
    PROVE  /\ QuestionSteps * k \in Nat
           /\ QuestionSteps * (k + 1) = QuestionSteps * k + 12 * MaxAttempts + 2
<1>1. MaxAttempts \in Nat /\ 12 * MaxAttempts \in Nat /\ QuestionSteps = 12 * MaxAttempts + 2
  BY BoundsAreNat DEF QuestionSteps
<1> DEFINE q == QuestionSteps
<1>2. q \in Nat
  BY BoundsAreNat
<1> HIDE DEF q
<1>3. q * k \in Nat /\ q * (k + 1) = q * k + q
  BY <1>2
<1> QED
  BY <1>1, <1>3 DEF q

\* The bound counts.
LEMMA SliceStepsCount == ASSUME SliceInv, SliceCount PROVE SliceStepsLeft \in Nat
<1>1. Questions \in Nat /\ MaxAttempts \in Nat /\ Len(outcomes) \in Nat
  BY BoundsAreNat DEF SliceInv, SliceTypes
<1>2. CASE place = "start"
  <2>1. QuestionSteps * Questions \in Nat
    BY <1>1, QuestionsGoDown
  <2> QED
    BY <1>2, <2>1 DEF SliceStepsLeft, Asking, Exchanging
<1>3. CASE place = "question"
  <2>1. Questions - Len(outcomes) \in Nat
    BY <1>1 DEF SliceCount
  <2>2. QuestionSteps * (Questions - Len(outcomes)) \in Nat
    BY <2>1, QuestionsGoDown
  <2> QED
    BY <1>3, <2>2 DEF SliceStepsLeft, Asking, Exchanging
<1>4. CASE place \in Asking
  <2>1. Questions - Len(outcomes) - 1 \in Nat /\ MaxAttempts - asked \in Nat
    BY <1>1, <1>4 DEF SliceCount
  <2>2. QuestionSteps * (Questions - Len(outcomes) - 1) \in Nat /\ 12 * (MaxAttempts - asked) \in Nat
    <3>1. \A a \in Nat : 12 * a \in Nat
      OBVIOUS
    <3> QED
      BY <2>1, <3>1, QuestionsGoDown
  <2>3. PlaceSteps \in Nat /\ TimerSteps \in Nat
    BY <1>4, AskingSteps
  <2>4. SliceStepsLeft = QuestionSteps * (Questions - Len(outcomes) - 1) + 1
                         + 12 * (MaxAttempts - asked) + PlaceSteps + TimerSteps
    BY <1>4 DEF SliceStepsLeft, Asking, Exchanging
  <2> QED
    BY <2>2, <2>3, <2>4
<1>5. CASE place \in {"refused", "over"}
  BY <1>5 DEF SliceStepsLeft, Asking, Exchanging
<1> QED
  BY <1>2, <1>3, <1>4, <1>5, AskingSteps

\* Each way to go on leaves less.
LEMMA SliceGoesDown ==
    ASSUME SliceInv, SliceInv', SliceCount, SliceCount', SliceGoesOn, ~Tick
    PROVE  SliceStepsLeft' < SliceStepsLeft
<1> DEFINE later(k) == QuestionSteps * k
<1>1. Questions \in Nat /\ MaxAttempts \in Nat /\ Len(outcomes) \in Nat /\ Len(outcomes') \in Nat
  BY BoundsAreNat DEF SliceInv, SliceTypes
<1>2. /\ place = "start" => SliceStepsLeft = later(Questions) + 2
      /\ place = "question" => SliceStepsLeft = later(Questions - Len(outcomes)) + 1
      /\ place \in Asking => SliceStepsLeft = later(Questions - Len(outcomes) - 1) + 1
                               + 12 * (MaxAttempts - asked) + PlaceSteps + TimerSteps
  BY DEF SliceStepsLeft, Asking, Exchanging
<1>3. /\ place' = "question" => SliceStepsLeft' = later(Questions - Len(outcomes')) + 1
      /\ place' \in Asking => SliceStepsLeft' = later(Questions - Len(outcomes') - 1) + 1
                               + 12 * (MaxAttempts - asked') + PlaceSteps' + TimerSteps'
      /\ place' \in {"refused", "over"} => SliceStepsLeft' = 0
  BY DEF SliceStepsLeft, Asking, Exchanging, QuestionSteps
<1>4. \A k \in Nat : later(k) \in Nat /\ later(k + 1) = later(k) + 12 * MaxAttempts + 2
  BY QuestionsGoDown
<1>9. 12 * MaxAttempts \in Nat
  <2>1. \A a \in Nat : 12 * a \in Nat
    OBVIOUS
  <2> QED
    BY <1>1, <2>1
<1> HIDE DEF later
<1>5. CASE place = "start"
  <2>1. place' \in {"question", "refused"} /\ outcomes' = outcomes /\ Len(outcomes) = 0
    BY <1>5 DEF SliceGoesOn, SliceCount, Asking, Exchanging
  <2>2. Questions - Len(outcomes') = Questions /\ later(Questions) \in Nat
    BY <1>1, <1>4, <2>1
  <2> QED
    BY <1>2, <1>3, <1>5, <2>1, <2>2
<1>6. CASE place = "question" /\ place' = "attempt"
  <2>1. asked' = 0 /\ outcomes' = outcomes /\ timer' = timer /\ Len(outcomes) < Questions
    BY <1>6 DEF SliceGoesOn, Asking, Exchanging
  <2>2. PlaceSteps' = 1 /\ TimerSteps' = 0
    BY <1>6, <2>1 DEF PlaceSteps, TimerSteps, SliceInv, SliceFlag, Exchanging
  <2> DEFINE k == Questions - Len(outcomes) - 1
  <2>3. k \in Nat /\ k + 1 = Questions - Len(outcomes)
    BY <1>1, <2>1
  <2>4. SliceStepsLeft = later(k + 1) + 1
    BY <1>2, <1>6, <2>3
  <2>5. SliceStepsLeft' = later(k) + 1 + 12 * MaxAttempts + 1
    <3>1. MaxAttempts - asked' = MaxAttempts
      BY <1>1, <2>1
    <3>2. SliceStepsLeft' = later(k) + 1 + 12 * MaxAttempts + 1 + 0
      BY <1>3, <1>6, <2>1, <2>2, <3>1 DEF Asking
    <3>3. later(k) \in Nat
      BY <1>4, <2>3
    <3> HIDE DEF k
    <3> QED
      BY <1>9, <3>2, <3>3
  <2> HIDE DEF k
  <2>6. later(k) \in Nat /\ later(k + 1) = later(k) + 12 * MaxAttempts + 2
    BY <1>4, <2>3
  <2> QED
    BY <1>9, <2>4, <2>5, <2>6
<1>7. CASE place = "question" /\ place' = "over"
  <2>1. Questions - Len(outcomes) \in Nat
    BY <1>1 DEF SliceCount
  <2>2. later(Questions - Len(outcomes)) \in Nat
    BY <1>4, <2>1
  <2> QED
    BY <1>2, <1>3, <1>7, <2>2
<1>8. CASE place \in Asking
  <2> DEFINE k == Questions - Len(outcomes) - 1
             a == MaxAttempts - asked
             p == PlaceSteps
             s == TimerSteps
             n == SliceStepsLeft'
  <2>1. k \in Nat /\ a \in Nat /\ p \in 1..11 /\ s \in 0..2 /\ later(k) \in Nat
    <3>1. k \in Nat /\ a \in Nat
      BY <1>1, <1>8 DEF SliceCount
    <3> QED
      BY <1>4, <1>8, <3>1, AskingSteps
  <2>2. SliceStepsLeft = later(k) + 1 + 12 * a + p + s
    BY <1>2, <1>8
  <2>3. CASE place' = "question"
    <3>1. Len(outcomes') = Len(outcomes) + 1
      BY <1>8, <2>3 DEF SliceGoesOn, Asking, Exchanging
    <3>2. Questions - Len(outcomes') = k
      BY <1>1, <3>1
    <3>3. n = later(k) + 1
      BY <1>3, <2>3, <3>2
    <3> HIDE DEF k, a, p, s, n
    <3>4. n < later(k) + 1 + 12 * a + p + s
      BY <2>1, <3>3
    <3> QED
      BY <2>2, <3>4 DEF n
  <2>4. CASE place' = "enter" /\ place = "attempt"
    <3>1. asked' = asked + 1 /\ outcomes' = outcomes /\ timer' = timer
      <4>1. timer = "off" /\ TimerSteps = 0 /\ PlaceSteps = 1 /\ PlaceSteps' = 11
        BY <2>4 DEF PlaceSteps, TimerSteps, SliceInv, SliceFlag, Exchanging
      <4>2. ~(PlaceSteps' + TimerSteps' < PlaceSteps + TimerSteps)
        <5> DEFINE u == TimerSteps'
        <5>1. u \in Nat
          BY AskingStepsPrimed
        <5> HIDE DEF u
        <5>2. ~(11 + u < 1)
          BY <5>1
        <5> QED
          BY <4>1, <5>2 DEF u
      <4> QED
        BY <2>4, <4>2 DEF SliceGoesOn, Asking, Exchanging
    <3>2. p = 1 /\ s = 0 /\ PlaceSteps' = 11 /\ TimerSteps' = 0
      BY <2>4, <3>1 DEF PlaceSteps, TimerSteps, SliceInv, SliceFlag, Exchanging
    <3>3. MaxAttempts - asked' = a - 1
      BY <1>1, <1>8, <3>1 DEF SliceCount
    <3>4. n = later(k) + 1 + 12 * (a - 1) + 11 + 0
      BY <1>3, <2>4, <3>1, <3>2, <3>3 DEF Asking
    <3> HIDE DEF k, a, p, s, n
    <3>5. n < later(k) + 1 + 12 * a + p + s
      BY <2>1, <3>2, <3>4
    <3> QED
      BY <2>2, <3>5 DEF n
  <2>5. CASE place' \in Asking /\ ~(place' = "enter" /\ place = "attempt")
    <3>1. asked' = asked /\ outcomes' = outcomes
          /\ PlaceSteps' + TimerSteps' < PlaceSteps + TimerSteps
      BY <1>8, <2>5 DEF SliceGoesOn, Asking, Exchanging
    <3> DEFINE q == PlaceSteps'
               u == TimerSteps'
    <3>2. n = later(k) + 1 + 12 * a + q + u
      BY <1>3, <2>5, <3>1
    <3>3. q \in 1..11 /\ u \in 0..2
      BY <2>5, AskingStepsPrimed
    <3>4. q + u < p + s
      BY <3>1
    <3> HIDE DEF k, a, p, s, n, q, u
    <3>5. n < later(k) + 1 + 12 * a + p + s
      BY <2>1, <3>2, <3>3, <3>4
    <3> QED
      BY <2>2, <3>5 DEF n
  <2> QED
    BY <1>8, <2>3, <2>4, <2>5 DEF SliceGoesOn, Asking, Exchanging
<1>10. ~(place \in {"refused", "over"})
  BY DEF SliceGoesOn, Asking, Exchanging
<1>11. place = "question" => place' \in {"attempt", "over"}
  BY DEF SliceGoesOn, Asking, Exchanging
<1> QED
  BY <1>5, <1>6, <1>7, <1>8, <1>10, <1>11, AskingSteps

\* Both threads of a CyberMetric slice only ever go forward, however they take
\* turns and whatever the far ends do: apart from the passing of time, each step
\* leaves fewer than before it, so a slice of n questions of m requests each is over
\* after at most n (12 m + 2) + 2 of them, and no question is asked more often.
THEOREM SlicesMoveOn == SliceSpec => SliceMovesOn
<1>1. SliceInit => SliceCount
  BY BoundsAreNat DEF SliceInit, SliceCount, Asking, Exchanging
<1>2. SliceInv /\ SliceInv' /\ SliceCount /\ SliceCount' /\ [SliceNext]_sliceVars
      => [/\ SliceStepsLeft \in Nat
          /\ \/ SliceStepsLeft' < SliceStepsLeft
             \/ Tick /\ SliceStepsLeft' = SliceStepsLeft]_sliceVars
  <2> SUFFICES ASSUME SliceInv, SliceInv', SliceCount, SliceCount', SliceNext, sliceVars' # sliceVars
               PROVE  /\ SliceStepsLeft \in Nat
                      /\ \/ SliceStepsLeft' < SliceStepsLeft
                         \/ Tick /\ SliceStepsLeft' = SliceStepsLeft
    OBVIOUS
  <2>1. CASE Tick
    <3>1. SliceStepsLeft' = SliceStepsLeft
      BY <2>1 DEF Tick, question, request, watchdog, SliceStepsLeft, PlaceSteps, TimerSteps
    <3> QED
      BY <2>1, <3>1, SliceStepsCount
  <2>2. CASE ~Tick
    BY <2>2, StepsGoOn, SliceGoesDown, SliceStepsCount
  <2> QED
    BY <2>1, <2>2
<1> QED
  BY <1>1, <1>2, SliceStarts, SliceKeeps, SliceCounts, PTL DEF SliceSpec, SliceMovesOn

=============================================================================

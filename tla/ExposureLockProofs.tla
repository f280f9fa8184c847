------------------------- MODULE ExposureLockProofs -------------------------
(***************************************************************************)
(* Proofs about ExposureLock (src/bencheval/exposure_report.py), for any   *)
(* official files, strata, declared counts, writers, proofs a run may end  *)
(* with, selections a caller may hand in and any number of disturbances.   *)
(*                                                                         *)
(* BuildsEarn is the argument of the binding rules: what passes all of     *)
(* them is about the seeded population.  WriterInv and FileInv follow the  *)
(* two outputs: a name that exists belongs to one call, which is the only  *)
(* one to write or to unlink it, and a lock that can be read was written   *)
(* last, by a call that is over.  What a call locks it built from two      *)
(* proofs, so the lock is reproduced from them.                            *)
(*                                                                         *)
(* Then StudyEvidence and RepeatProtocol (exposure_selection.py and        *)
(* exposure_protocol.py).  A seeded order takes every place once, so what  *)
(* is selected and dealt can be counted; a proof that names the run of its *)
(* directory was copied from that run, so what a verification reads of the *)
(* directories is true of the runs as they were executed.                  *)
(*                                                                         *)
(* Last RepeatAnalysis (exposure_repeat.py).  Its folds are functions: one *)
(* that adds, or enters values into the table, one after another is shown  *)
(* to exist by counting, and induction over the natural numbers is         *)
(* CountingUp.  Each table counts the ways to choose, so the exact test is *)
(* the enumeration and a verified report is the truth about its runs; the  *)
(* lock of runs that were executed as registered is always verified.       *)
(***************************************************************************)
EXTENDS ExposureLock, RepeatProtocol, Integers, FiniteSetTheorems, WellFoundedInduction, TLAPS

Fields == {"report", "lock", "from", "made", "wrote"}
Steps  == {"idle", "create", "write", "unwind", "done", "refused", "dead"}

TypeOK ==
    /\ proof \in [Sides -> AnyShape \cup {NotRun}]
    /\ pc \in [Writers -> Steps]
    /\ job = [w \in Writers |-> job[w]]
    /\ \A w \in Writers : DOMAIN job[w] = Fields
    /\ file = [o \in Outputs |-> file[o]]
    /\ \A o \in Outputs : file[o] # None => DOMAIN file[o] = {"is", "by", "text"}

Rated(report) == report # None /\ report.mode = "declared_population"

\* How far a call is, and what it has made, written and built by then.
WriterFacts(w) ==
    /\ job[w].made \subseteq Targets(w) /\ job[w].wrote \subseteq Targets(w)
    /\ pc[w] = "idle" => job[w].made = {}
    /\ pc[w] \in {"idle", "create"} => job[w].wrote = {}
    /\ pc[w] \in {"write", "done"} => job[w].made = Targets(w)
    /\ pc[w] = "done" => job[w].wrote = Targets(w)
    /\ "lock" \in job[w].wrote => pc[w] = "done"
    /\ job[w].lock # None => job[w].lock.report = job[w].report
    /\ Rated(job[w].report) => Earned(job[w].from[1], job[w].from[2])
    /\ pc[w] # "idle" => BothRan

WriterInv == \A w \in Writers : WriterFacts(w)

\* Who created what is there, and what it says.
FileFacts(o) ==
    file[o] # None =>
        /\ BothRan
        /\ file[o].by \in Writers \cup (IF o = "lock" THEN {"editor"} ELSE {})
        /\ file[o].by \in Writers =>
              LET w == file[o].by IN
              /\ o \in job[w].made
              /\ IF o \in job[w].wrote THEN file[o].text = Text(w, o) ELSE file[o].text = Blank

FileInv == \A o \in Outputs : FileFacts(o)

\* What a call has made is still there, and no other call's.
MadeInv ==
    /\ \A w \in Writers : \A o \in job[w].made : file[o] # None /\ file[o].by \in {w, "editor"}
    /\ \A v, w \in Writers : v # w => job[v].made \cap job[w].made = {}

VerifiedInv ==
    Rated(verified) =>
        \E base, cand \in AnyShape :
            /\ Earned(base, cand)
            /\ verified.runs = <<base.run, cand.run>>
            /\ verified.table = Table(base, cand)

LockInv == TypeOK /\ WriterInv /\ FileInv /\ MadeInv /\ VerifiedInv
-----------------------------------------------------------------------------
(* What the binding rules establish *)

\* A selection that replays over the anchored files, and has the declared
\* number of ids in every stratum, is the seeded population.
LEMMA SelectionIsSeeded ==
    ASSUME NEW sel, Replays(sel), VerifySources(sel), NEW p, Observed(p) = SelectedIds(sel),
           \A s \in Strata : CountIn(p, s) = Declared[s]
    PROVE  SelectedIds(sel) = SeededPopulation
<1>1. ASSUME NEW s \in Strata
      PROVE  /\ sel.chosen[s] = SelectStratum(Official(s), Cardinality(sel.chosen[s]))
             /\ sel.chosen[s] \subseteq Official(s)
  BY DEF Replays, VerifySources, SelectStratum
<1>2. ASSUME NEW s \in Strata
      PROVE  {c \in SelectedIds(sel) : StratumOf[c] = s} = sel.chosen[s]
  <2>1. \A t \in Strata : \A c \in sel.chosen[t] : StratumOf[c] = t
    BY <1>1 DEF Official
  <2>2. \A c : c \in SelectedIds(sel) <=> \E t \in Strata : c \in sel.chosen[t]
    BY DEF SelectedIds
  <2> QED
    BY <2>1, <2>2
<1>3. ASSUME NEW s \in Strata
      PROVE  sel.chosen[s] = SelectStratum(Official(s), Declared[s])
  BY <1>1, <1>2 DEF CountIn
<1> QED
  BY <1>3 DEF SelectedIds, SeededPopulation

\* One route, and two runs.
LEMMA AxesAgree ==
    ASSUME NEW base, NEW cand, ConstantAxes(<<base, cand>>)
    PROVE  base.run # cand.run /\ base.route = cand.route
<1> DEFINE side   == <<base, cand>>
           routes == {side[i].route : i \in DOMAIN side}
<1>1. DOMAIN side = {1, 2} /\ side[1] = base /\ side[2] = cand
  OBVIOUS
<1> HIDE DEF side
<1>2. routes = {base.route, cand.route}
  BY <1>1
<1>3. Cardinality(routes) = 1 /\ \A i, j \in DOMAIN side : side[i].run = side[j].run => i = j
  BY DEF ConstantAxes, side
<1>4. IsFiniteSet({base.route, cand.route})
  <2>1. IsFiniteSet({cand.route})
    BY FS_Singleton
  <2>2. IsFiniteSet({cand.route} \cup {base.route})
    BY <2>1, FS_AddElement
  <2> QED
    BY <2>2
<1> HIDE DEF routes
<1>5. \E x : routes = {x}
  BY <1>2, <1>3, <1>4, FS_Singleton
<1> QED
  BY <1>1, <1>2, <1>3, <1>5

\* A declared analysis that passes every binding has earned what it claims.
LEMMA BuildsEarn ==
    ASSUME NEW base, NEW cand, NEW sel, Builds(base, cand, "declared", sel)
    PROVE  Earned(base, cand)
<1>1. /\ base.complete /\ cand.complete /\ Replays(sel) /\ sel # NoSelection
      /\ Assembles(base, cand, "declared", TRUE, sel)
      /\ ScaleOf({base, cand}) = "declared"
  BY DEF Builds, Assembles, DeclaredAllowed
<1>2. /\ BindSide("canonical", base) /\ BindSide("candidate", cand)
      /\ SelectionBinds(sel, {base, cand}, TRUE)
      /\ ConstantAxes(<<base, cand>>) /\ RegistrationBinds(base, cand, TRUE)
      /\ cand.variant # NoVariant => VariantBinds(cand.variant, sel, base, cand)
  BY <1>1 DEF Assembles
<1>3. \A p \in {base, cand} : Observed(p) = SelectedIds(sel) /\ p.planned = SelectedIds(sel)
  BY <1>2 DEF SelectionBinds
<1>4. \A s \in Strata : CountIn(base, s) = Declared[s]
  BY <1>1 DEF ScaleOf, IsDeclared
<1>5. SelectedIds(sel) = SeededPopulation
  BY <1>1, <1>2, <1>3, <1>4, SelectionIsSeeded DEF SelectionBinds
<1>6. \A p \in {base, cand} :
         p.complete /\ p.captured /\ \A c \in Observed(p) : p.verdict[c] \in {"pass", "fail"}
  BY <1>1, <1>2 DEF BindSide, Ineligible
<1>7. base.run # cand.run /\ base.route = cand.route
  BY <1>2, AxesAgree
<1>8. base.label = cand.label /\ \A p \in {base, cand} : p.label = p.registration
  BY <1>2 DEF RegistrationBinds, Retained
<1>9. cand.variant # NoVariant => cand.variant.maps = SeededPopulation
  BY <1>1, <1>2, <1>5 DEF VariantBinds
<1> QED
  BY <1>3, <1>5, <1>6, <1>7, <1>8, <1>9 DEF Earned

\* A lock that two proofs reproduce says of them what they have earned.
LEMMA Reproduced ==
    ASSUME NEW base, NEW cand, NEW locked,
           Builds(base, cand, locked.analysis, locked.selection),
           locked = Lock(base, cand, locked.analysis, locked.selection),
           Rated(locked.report)
    PROVE  /\ Earned(base, cand)
           /\ locked.report.runs = <<base.run, cand.run>>
           /\ locked.report.table = Table(base, cand)
<1> DEFINE a == locked.analysis
           s == locked.selection
<1>1. locked.report = Report(base, cand, a, TRUE, s)
  <2> HIDE DEF a, s
  <2>1. Lock(base, cand, a, s).report = Report(base, cand, a, TRUE, s)
    BY DEF Lock
  <2>2. locked = Lock(base, cand, a, s)
    BY DEF a, s
  <2> QED
    BY <2>1, <2>2
<1>2. Builds(base, cand, a, s)
  OBVIOUS
<1> HIDE DEF a, s
<1>3. a = "declared" /\ locked.report.runs = <<base.run, cand.run>>
      /\ locked.report.table = Table(base, cand)
  BY <1>1 DEF Rated, Report
<1> QED
  BY <1>2, <1>3, BuildsEarn
-----------------------------------------------------------------------------
(* Records and places *)

LEMMA JobIs ==
    ASSUME TypeOK, NEW w \in Writers, NEW j, DOMAIN j = Fields, job' = [job EXCEPT ![w] = j]
    PROVE  /\ job' = [v \in Writers |-> job'[v]]
           /\ job'[w] = j /\ \A v \in Writers \ {w} : job'[v] = job[v]
           /\ \A v \in Writers : DOMAIN job'[v] = Fields
BY DEF TypeOK

LEMMA PcIs ==
    ASSUME TypeOK, NEW w \in Writers, NEW step \in Steps, pc' = [pc EXCEPT ![w] = step]
    PROVE  /\ pc' \in [Writers -> Steps]
           /\ pc'[w] = step /\ \A v \in Writers \ {w} : pc'[v] = pc[v]
BY DEF TypeOK

LEMMA FileIs ==
    ASSUME TypeOK, NEW o \in Outputs, NEW f, f = None \/ DOMAIN f = {"is", "by", "text"},
           file' = [file EXCEPT ![o] = f]
    PROVE  /\ file' = [q \in Outputs |-> file'[q]]
           /\ file'[o] = f /\ \A q \in Outputs \ {o} : file'[q] = file[q]
           /\ \A q \in Outputs : file'[q] # None => DOMAIN file'[q] = {"is", "by", "text"}
BY DEF TypeOK

LEMMA FileIsNotNone == \A f : DOMAIN f = {"is", "by", "text"} => f # None
<1>1. DOMAIN None = {"is"}
  BY DEF None
<1> QED
  BY <1>1

LEMMA OutputsAre == Outputs = {"report", "lock"}
BY DEF Outputs

\* Both runs have been made, and always will have been.
LEMMA RanStays == TypeOK /\ BothRan /\ [Next]_vars => BothRan'
<1> SUFFICES ASSUME TypeOK, BothRan, [Next]_vars PROVE BothRan'
  OBVIOUS
<1>1. CASE UNCHANGED proof
  BY <1>1 DEF BothRan
<1>2. ASSUME NEW side \in Sides, NEW p \in Shapes[side], RunSide(side, p) \/ ReplaceProof(side, p)
      PROVE  BothRan'
  <2>1. p # NotRun /\ proof' = [proof EXCEPT ![side] = p]
    BY <1>2, ShapesAreProofs DEF AnyShape, RunSide, ReplaceProof
  <2> QED
    BY <2>1 DEF BothRan, TypeOK
<1> QED
  BY <1>1, <1>2 DEF Next, BuildProofBacked, BuildRefused, Create, CreateRefused, Write, Unwind,
     BuildRaw, WriteFails, Unwound, Killed, Verify, ReplaceLock, Over, vars

LEMMA LockInit == Init => LockInv
<1> SUFFICES ASSUME Init PROVE LockInv
  OBVIOUS
<1>1. TypeOK
  BY DEF Init, TypeOK, NoJob, Fields, Steps
<1>2. WriterInv
  BY DEF Init, WriterInv, WriterFacts, NoJob, Targets, Rated
<1>3. FileInv /\ MadeInv /\ VerifiedInv
  BY DEF Init, FileInv, FileFacts, MadeInv, VerifiedInv, Rated, NoJob
<1> QED
  BY <1>1, <1>2, <1>3 DEF LockInv
-----------------------------------------------------------------------------
(* The steps *)

\* A call whose own state does not change keeps what it has.
LEMMA WriterKept ==
    ASSUME WriterInv, BothRan => BothRan', NEW v \in Writers, job'[v] = job[v], pc'[v] = pc[v]
    PROVE  WriterFacts(v)'
<1>1. WriterFacts(v)
  BY DEF WriterInv
<1> QED
  BY <1>1 DEF WriterFacts, Targets

\* A name nobody touches keeps what it says, and whose it is.
LEMMA FileKept ==
    ASSUME FileInv, BothRan => BothRan', NEW q \in Outputs, file'[q] = file[q],
           \A v \in Writers : q \in job[v].made =>
              /\ q \in job'[v].made
              /\ q \in job'[v].wrote <=> q \in job[v].wrote
              /\ job'[v].report = job[v].report /\ job'[v].lock = job[v].lock
    PROVE  FileFacts(q)'
<1>1. FileFacts(q)
  BY DEF FileInv
<1>2. CASE file[q] = None
  BY <1>2 DEF FileFacts
<1>3. CASE file[q] # None /\ file[q].by \notin Writers
  BY <1>1, <1>3 DEF FileFacts
<1>4. CASE file[q] # None /\ file[q].by \in Writers
  BY <1>1, <1>4 DEF FileFacts, Text
<1> QED
  BY <1>2, <1>3, <1>4

\* A step that changes how far a call is and nothing else.
LEMMA OnlyPc ==
    ASSUME LockInv, NEW w \in Writers, NEW step \in Steps, pc' = [pc EXCEPT ![w] = step],
           UNCHANGED <<proof, file, job, verified>>,
           step \in {"unwind", "refused", "dead"}, pc[w] # "done",
           pc[w] = "idle" => BothRan
    PROVE  LockInv'
<1>1. BothRan => BothRan'
  BY DEF BothRan
<1>2. TypeOK'
  BY PcIs DEF LockInv, TypeOK
<1>3. pc'[w] = step /\ \A v \in Writers \ {w} : pc'[v] = pc[v]
  BY PcIs DEF LockInv
<1>4. \A v \in Writers \ {w} : WriterFacts(v)'
  BY <1>1, <1>3, WriterKept DEF LockInv
<1>5. WriterFacts(w)'
  <2>1. WriterFacts(w)
    BY DEF LockInv, WriterInv
  <2> QED
    BY <1>1, <1>3, <2>1 DEF WriterFacts, Targets
<1>6. FileInv'
  BY <1>1, FileKept DEF LockInv, FileInv
<1>7. MadeInv' /\ VerifiedInv'
  BY DEF LockInv, MadeInv, VerifiedInv
<1> QED
  BY <1>2, <1>4, <1>5, <1>6, <1>7 DEF LockInv, WriterInv

\* A report and perhaps a lock are built in memory.
LEMMA BuildStep ==
    ASSUME LockInv, NEW w \in Writers, pc[w] = "idle", BothRan, NEW report, NEW locked, NEW from,
           locked # None => locked.report = report,
           Rated(report) => Earned(from[1], from[2]),
           job' = [job EXCEPT ![w] =
                     [NoJob EXCEPT !.report = report, !.lock = locked, !.from = from]],
           pc' = [pc EXCEPT ![w] = "create"],
           UNCHANGED <<proof, file, verified>>
    PROVE  LockInv'
<1> DEFINE j == [NoJob EXCEPT !.report = report, !.lock = locked, !.from = from]
<1>1. DOMAIN j = Fields /\ j.report = report /\ j.lock = locked /\ j.from = from
      /\ j.made = {} /\ j.wrote = {}
  BY DEF NoJob, Fields
<1>2. job' = [job EXCEPT ![w] = j]
  OBVIOUS
<1> HIDE DEF j
<1>3. /\ job' = [v \in Writers |-> job'[v]]
      /\ job'[w] = j /\ \A v \in Writers \ {w} : job'[v] = job[v]
      /\ \A v \in Writers : DOMAIN job'[v] = Fields
  BY <1>1, <1>2, JobIs DEF LockInv
<1>4. /\ pc' \in [Writers -> Steps]
      /\ pc'[w] = "create" /\ \A v \in Writers \ {w} : pc'[v] = pc[v]
  BY PcIs DEF LockInv, Steps
<1>5. BothRan'
  BY DEF BothRan
<1>6. TypeOK'
  BY <1>3, <1>4 DEF LockInv, TypeOK
<1>7. \A v \in Writers \ {w} : WriterFacts(v)'
  BY <1>3, <1>4, <1>5, WriterKept DEF LockInv
<1>8. WriterFacts(w)'
  BY <1>1, <1>3, <1>4, <1>5 DEF WriterFacts, Targets
<1>9. job[w].made = {}
  BY DEF LockInv, WriterInv, WriterFacts
<1>10. ASSUME NEW q \in Outputs PROVE FileFacts(q)'
  <2>1. \A v \in Writers : q \in job[v].made => job'[v] = job[v]
    BY <1>3, <1>9
  <2> QED
    BY <1>5, <2>1, FileKept DEF LockInv
<1>11. MadeInv'
  <2>1. \A v \in Writers : job'[v].made \subseteq job[v].made
    BY <1>1, <1>3
  <2> QED
    BY <2>1 DEF LockInv, MadeInv
<1>12. VerifiedInv'
  BY DEF LockInv, VerifiedInv
<1> QED
  BY <1>6, <1>7, <1>8, <1>10, <1>11, <1>12 DEF LockInv, WriterInv, FileInv

\* An output that did not exist is created.
LEMMA CreateStep ==
    ASSUME LockInv, NEW w \in Writers, NEW o \in Outputs, Create(w, o)
    PROVE  LockInv'
<1> DEFINE j == [job[w] EXCEPT !.made = job[w].made \cup {o}]
           f == [is |-> "file", by |-> w, text |-> Blank]
           step == IF job[w].made \cup {o} = Targets(w) THEN "write" ELSE "create"
<1>1. DOMAIN job[w] = Fields
  BY DEF LockInv, TypeOK
<1>2. DOMAIN j = Fields /\ j.report = job[w].report /\ j.lock = job[w].lock
      /\ j.from = job[w].from /\ j.made = job[w].made \cup {o} /\ j.wrote = job[w].wrote
  BY <1>1 DEF Fields
<1>3. /\ job' = [job EXCEPT ![w] = j] /\ file' = [file EXCEPT ![o] = f]
      /\ pc' = [pc EXCEPT ![w] = step] /\ step \in Steps
      /\ pc[w] = "create" /\ file[o] = None /\ o \in Targets(w) \ job[w].made
      /\ UNCHANGED <<proof, verified>>
  BY DEF Create, IsNext, LockInv, TypeOK, Steps
<1>4. DOMAIN f = {"is", "by", "text"} /\ f.by = w /\ f.text = Blank
  OBVIOUS
<1> HIDE DEF j, f
<1>5. /\ job' = [v \in Writers |-> job'[v]]
      /\ job'[w] = j /\ \A v \in Writers \ {w} : job'[v] = job[v]
      /\ \A v \in Writers : DOMAIN job'[v] = Fields
  BY <1>2, <1>3, JobIs DEF LockInv
<1>6. /\ pc' \in [Writers -> Steps]
      /\ pc'[w] = step /\ \A v \in Writers \ {w} : pc'[v] = pc[v]
  BY <1>3, PcIs DEF LockInv
<1>7. /\ file' = [q \in Outputs |-> file'[q]]
      /\ file'[o] = f /\ \A q \in Outputs \ {o} : file'[q] = file[q]
      /\ \A q \in Outputs : file'[q] # None => DOMAIN file'[q] = {"is", "by", "text"}
  BY <1>3, <1>4, FileIs DEF LockInv
<1>8. TypeOK'
  BY <1>3, <1>5, <1>6, <1>7 DEF LockInv, TypeOK
<1>9. WriterFacts(w) /\ FileInv /\ MadeInv
  BY DEF LockInv, WriterInv
<1>10. BothRan /\ BothRan'
  BY <1>3, <1>9 DEF WriterFacts, BothRan
<1>11. \A v \in Writers \ {w} : WriterFacts(v)'
  BY <1>5, <1>6, <1>10, WriterKept DEF LockInv
<1>12. WriterFacts(w)'
  <2>1. Targets(w)' = Targets(w) /\ o \in Targets(w) /\ job[w].wrote = {}
    BY <1>2, <1>3, <1>5, <1>9 DEF Targets, WriterFacts
  <2>2. job'[w].made = job[w].made \cup {o} /\ job'[w].wrote = job[w].wrote
        /\ job'[w].report = job[w].report /\ job'[w].lock = job[w].lock
        /\ job'[w].from = job[w].from
    BY <1>2, <1>5
  <2>3. pc'[w] = step /\ step \in {"write", "create"}
    BY <1>6
  <2>4. step = "write" => job[w].made \cup {o} = Targets(w)
    OBVIOUS
  <2> HIDE DEF step
  <2> QED
    BY <1>9, <1>10, <2>1, <2>2, <2>3, <2>4 DEF WriterFacts
<1>13. FileFacts(o)'
  <2>1. o \in job'[w].made /\ o \notin job'[w].wrote
    BY <1>2, <1>3, <1>5, <1>9 DEF WriterFacts
  <2> QED
    BY <1>4, <1>7, <1>10, <2>1 DEF FileFacts
<1>14. ASSUME NEW q \in Outputs \ {o} PROVE FileFacts(q)'
  BY <1>2, <1>5, <1>7, <1>9, <1>10, FileKept
<1>15. MadeInv'
  <2>1. f # None
    BY <1>4, FileIsNotNone
  <2>2. \A v \in Writers : o \notin job[v].made /\ job[v].made \subseteq Outputs
    BY <1>3, <1>9 DEF MadeInv, LockInv, WriterInv, WriterFacts, Targets, Outputs
  <2>3. \A v \in Writers \ {w} : \A q \in job'[v].made :
           file'[q] # None /\ file'[q].by \in {v, "editor"}
    BY <1>5, <1>7, <1>9, <2>2 DEF MadeInv
  <2>4. \A q \in job'[w].made : file'[q] # None /\ file'[q].by \in {w, "editor"}
    BY <1>2, <1>4, <1>5, <1>7, <1>9, <2>1, <2>2 DEF MadeInv
  <2>5. \A v, u \in Writers : v # u => job'[v].made \cap job'[u].made = {}
    BY <1>2, <1>5, <1>9, <2>2 DEF MadeInv
  <2> QED
    BY <2>3, <2>4, <2>5 DEF MadeInv
<1>16. VerifiedInv'
  BY <1>3 DEF LockInv, VerifiedInv
<1> QED
  BY <1>8, <1>11, <1>12, <1>13, <1>14, <1>15, <1>16 DEF LockInv, WriterInv, FileInv

\* An output the call has made gets its text.
LEMMA WriteStep ==
    ASSUME LockInv, NEW w \in Writers, NEW o \in Outputs, Write(w, o)
    PROVE  LockInv'
<1> DEFINE j == [job[w] EXCEPT !.wrote = job[w].wrote \cup {o}]
           f == IF file[o] # None /\ file[o].by = w THEN [file[o] EXCEPT !.text = Text(w, o)]
                ELSE file[o]
           step == IF job[w].wrote \cup {o} = Targets(w) THEN "done" ELSE "write"
<1>1. DOMAIN job[w] = Fields
  BY DEF LockInv, TypeOK
<1>2. DOMAIN j = Fields /\ j.report = job[w].report /\ j.lock = job[w].lock
      /\ j.from = job[w].from /\ j.wrote = job[w].wrote \cup {o} /\ j.made = job[w].made
  BY <1>1 DEF Fields
<1>3. /\ job' = [job EXCEPT ![w] = j] /\ file' = [file EXCEPT ![o] = f]
      /\ pc' = [pc EXCEPT ![w] = step] /\ step \in Steps
      /\ pc[w] = "write" /\ IsNext(w, o, job[w].wrote)
      /\ UNCHANGED <<proof, verified>>
  BY DEF Write, LockInv, TypeOK, Steps
<1>4. WriterFacts(w) /\ FileInv /\ MadeInv
  BY DEF LockInv, WriterInv
<1>5. o \in job[w].made /\ file[o] # None /\ file[o].by \in {w, "editor"}
      /\ DOMAIN file[o] = {"is", "by", "text"}
  BY <1>3, <1>4 DEF WriterFacts, IsNext, MadeInv, LockInv, TypeOK
<1>6. /\ DOMAIN f = {"is", "by", "text"} /\ f.by = file[o].by
      /\ file[o].by = w => f.text = Text(w, o)
  BY <1>5
<1> HIDE DEF j, f
<1>7. /\ job' = [v \in Writers |-> job'[v]]
      /\ job'[w] = j /\ \A v \in Writers \ {w} : job'[v] = job[v]
      /\ \A v \in Writers : DOMAIN job'[v] = Fields
  BY <1>2, <1>3, JobIs DEF LockInv
<1>8. /\ pc' \in [Writers -> Steps]
      /\ pc'[w] = step /\ \A v \in Writers \ {w} : pc'[v] = pc[v]
  BY <1>3, PcIs DEF LockInv
<1>9. /\ file' = [q \in Outputs |-> file'[q]]
      /\ file'[o] = f /\ \A q \in Outputs \ {o} : file'[q] = file[q]
      /\ \A q \in Outputs : file'[q] # None => DOMAIN file'[q] = {"is", "by", "text"}
  BY <1>3, <1>6, FileIs DEF LockInv
<1>10. TypeOK'
  BY <1>3, <1>7, <1>8, <1>9 DEF LockInv, TypeOK
<1>11. BothRan /\ BothRan'
  BY <1>3, <1>4 DEF WriterFacts, BothRan
<1>12. \A v \in Writers \ {w} : WriterFacts(v)'
  BY <1>7, <1>8, <1>11, WriterKept DEF LockInv
<1>13. WriterFacts(w)'
  <2>1. Targets(w)' = Targets(w)
    BY <1>2, <1>7 DEF Targets
  <2>2. "lock" \notin job[w].wrote /\ job[w].wrote \subseteq Targets(w) /\ job[w].made = Targets(w)
    BY <1>3, <1>4 DEF WriterFacts
  <2>3. o \in Targets(w) /\ (o = "lock" => "report" \in job[w].wrote)
    BY <1>3 DEF IsNext
  <2>4. "lock" \in job'[w].wrote => pc'[w] = "done"
    BY <1>2, <1>7, <1>8, <2>2, <2>3 DEF Targets, Outputs
  <2>5. pc'[w] = "done" => job'[w].wrote = Targets(w)
    BY <1>2, <1>7, <1>8
  <2> QED
    BY <1>2, <1>4, <1>7, <1>8, <1>11, <2>1, <2>2, <2>3, <2>4, <2>5 DEF WriterFacts
<1>14. FileFacts(o)'
  <2>1. o \in job'[w].made /\ o \in job'[w].wrote /\ Text(w, o)' = Text(w, o)
    BY <1>2, <1>5, <1>7 DEF Text
  <2>2. FileFacts(o)
    BY <1>4 DEF FileInv
  <2> QED
    BY <1>5, <1>6, <1>9, <1>11, <2>1, <2>2, EditorIsNoWriter DEF FileFacts
<1>15. ASSUME NEW q \in Outputs \ {o} PROVE FileFacts(q)'
  BY <1>2, <1>4, <1>7, <1>9, <1>11, FileKept
<1>16. MadeInv'
  <2>1. f # None /\ \A v \in Writers : job'[v].made = job[v].made
    BY <1>2, <1>6, <1>7, FileIsNotNone
  <2>2. \A q \in Outputs : file[q] # None => file'[q] # None /\ file'[q].by = file[q].by
    BY <1>6, <1>9, <2>1
  <2>3. \A v \in Writers : job[v].made \subseteq Outputs
    BY DEF LockInv, WriterInv, WriterFacts, Targets, Outputs
  <2> QED
    BY <1>4, <2>1, <2>2, <2>3 DEF MadeInv
<1>17. VerifiedInv'
  BY <1>3 DEF LockInv, VerifiedInv
<1> QED
  BY <1>10, <1>12, <1>13, <1>14, <1>15, <1>16, <1>17 DEF LockInv, WriterInv, FileInv

\* An output the call has made is unlinked by name.
LEMMA UnwindStep ==
    ASSUME LockInv, NEW w \in Writers, NEW o \in Outputs, Unwind(w, o)
    PROVE  LockInv'
<1> DEFINE j == [job[w] EXCEPT !.made = job[w].made \ {o}]
<1>1. DOMAIN job[w] = Fields
  BY DEF LockInv, TypeOK
<1>2. DOMAIN j = Fields /\ j.report = job[w].report /\ j.lock = job[w].lock
      /\ j.from = job[w].from /\ j.wrote = job[w].wrote /\ j.made = job[w].made \ {o}
  BY <1>1 DEF Fields
<1>3. /\ job' = [job EXCEPT ![w] = j] /\ file' = [file EXCEPT ![o] = None]
      /\ pc[w] = "unwind" /\ o \in job[w].made
      /\ UNCHANGED <<proof, pc, verified>>
  BY DEF Unwind
<1> HIDE DEF j
<1>4. WriterFacts(w) /\ FileInv /\ MadeInv
  BY DEF LockInv, WriterInv
<1>5. /\ job' = [v \in Writers |-> job'[v]]
      /\ job'[w] = j /\ \A v \in Writers \ {w} : job'[v] = job[v]
      /\ \A v \in Writers : DOMAIN job'[v] = Fields
  BY <1>2, <1>3, JobIs DEF LockInv
<1>6. /\ file' = [q \in Outputs |-> file'[q]]
      /\ file'[o] = None /\ \A q \in Outputs \ {o} : file'[q] = file[q]
      /\ \A q \in Outputs : file'[q] # None => DOMAIN file'[q] = {"is", "by", "text"}
  BY <1>3, FileIs DEF LockInv
<1>7. TypeOK'
  BY <1>3, <1>5, <1>6 DEF LockInv, TypeOK
<1>8. BothRan /\ BothRan'
  BY <1>3, <1>4 DEF WriterFacts, BothRan
<1>9. \A v \in Writers \ {w} : WriterFacts(v)'
  BY <1>3, <1>5, <1>8, WriterKept DEF LockInv
<1>10. WriterFacts(w)'
  BY <1>2, <1>3, <1>4, <1>5, <1>8 DEF WriterFacts, Targets
<1>11. FileFacts(o)'
  BY <1>6 DEF FileFacts
<1>12. ASSUME NEW q \in Outputs \ {o} PROVE FileFacts(q)'
  BY <1>2, <1>4, <1>5, <1>6, <1>8, FileKept
<1>13. MadeInv'
  <2>1. \A v \in Writers : job'[v].made \subseteq job[v].made /\ o \notin job'[v].made
    BY <1>2, <1>3, <1>4, <1>5 DEF MadeInv
  <2>2. \A v \in Writers : job[v].made \subseteq Outputs
    BY DEF LockInv, WriterInv, WriterFacts, Targets, Outputs
  <2> QED
    BY <1>4, <1>6, <2>1, <2>2 DEF MadeInv
<1>14. VerifiedInv'
  BY <1>3 DEF LockInv, VerifiedInv
<1> QED
  BY <1>7, <1>9, <1>10, <1>11, <1>12, <1>13, <1>14 DEF LockInv, WriterInv, FileInv

\* The lock on disk is replaced by another.
LEMMA ReplaceStep ==
    ASSUME LockInv, NEW locked, ReplaceLock(locked)
    PROVE  LockInv'
<1> DEFINE f == [file["lock"] EXCEPT !.text = locked, !.by = "editor"]
<1>1. file["lock"] # None /\ DOMAIN file["lock"] = {"is", "by", "text"}
  BY DEF ReplaceLock, LockIsReadable, LockInv, TypeOK, Outputs
<1>2. DOMAIN f = {"is", "by", "text"} /\ f.by = "editor"
  BY <1>1
<1>3. file' = [file EXCEPT !["lock"] = f] /\ UNCHANGED <<proof, pc, job, verified>>
  BY DEF ReplaceLock
<1> HIDE DEF f
<1>4. /\ file' = [q \in Outputs |-> file'[q]]
      /\ file'["lock"] = f /\ \A q \in Outputs \ {"lock"} : file'[q] = file[q]
      /\ \A q \in Outputs : file'[q] # None => DOMAIN file'[q] = {"is", "by", "text"}
  BY <1>2, <1>3, FileIs, OutputsAre DEF LockInv
<1>5. TypeOK'
  BY <1>3, <1>4 DEF LockInv, TypeOK
<1>6. BothRan /\ BothRan'
  BY <1>1, <1>3, OutputsAre DEF LockInv, FileInv, FileFacts, BothRan
<1>7. \A v \in Writers : WriterFacts(v)'
  BY <1>3, <1>6, WriterKept DEF LockInv
<1>8. FileFacts("lock")'
  BY <1>2, <1>4, <1>6, EditorIsNoWriter DEF FileFacts
<1>9. ASSUME NEW q \in Outputs \ {"lock"} PROVE FileFacts(q)'
  BY <1>3, <1>4, <1>6, FileKept DEF LockInv
<1>10. MadeInv'
  <2>1. f # None
    BY <1>2, FileIsNotNone
  <2>2. \A v \in Writers : job[v].made \subseteq Outputs
    BY DEF LockInv, WriterInv, WriterFacts, Targets, Outputs
  <2> QED
    BY <1>2, <1>3, <1>4, <2>1, <2>2 DEF LockInv, MadeInv
<1>11. VerifiedInv'
  BY <1>3 DEF LockInv, VerifiedInv
<1> QED
  BY <1>5, <1>7, <1>8, <1>9, <1>10, <1>11 DEF LockInv, WriterInv, FileInv

\* A proof appears or is replaced.
LEMMA ProofStep ==
    ASSUME LockInv, TypeOK', BothRan => BothRan', UNCHANGED <<file, pc, job, verified>>
    PROVE  LockInv'
<1>1. \A v \in Writers : WriterFacts(v)'
  BY WriterKept DEF LockInv
<1>2. ASSUME NEW q \in Outputs PROVE FileFacts(q)'
  BY FileKept DEF LockInv
<1>3. MadeInv' /\ VerifiedInv'
  BY DEF LockInv, MadeInv, VerifiedInv
<1> QED
  BY <1>1, <1>2, <1>3 DEF LockInv, WriterInv, FileInv

\* A lock is reproduced from the proofs.
LEMMA VerifyStep ==
    ASSUME LockInv, NEW sel, Verify(sel)
    PROVE  LockInv'
<1> DEFINE locked == file["lock"].text
           base == proof["canonical"]
           cand == proof["candidate"]
<1>1. UNCHANGED <<proof, file, pc, job>> /\ verified' = locked.report
      /\ Builds(base, cand, locked.analysis, locked.selection)
      /\ locked = Lock(base, cand, locked.analysis, locked.selection)
  BY DEF Verify
<1>2. BothRan
  BY OutputsAre DEF Verify, LockIsReadable, LockInv, FileInv, FileFacts
<1>3. base \in AnyShape /\ cand \in AnyShape
  BY <1>2 DEF BothRan, LockInv, TypeOK, Sides
<1>4. VerifiedInv'
  <2>1. SUFFICES ASSUME Rated(verified)'
                 PROVE  /\ Earned(base, cand)
                        /\ verified'.runs = <<base.run, cand.run>>
                        /\ verified'.table = Table(base, cand)
    BY <1>3 DEF VerifiedInv
  <2>2. Rated(locked.report)
    BY <1>1, <2>1 DEF Rated
  <2> HIDE DEF base, cand, locked
  <2> QED
    BY <1>1, <2>2, Reproduced
<1>5. TypeOK' /\ MadeInv'
  BY <1>1 DEF LockInv, TypeOK, MadeInv
<1>6. BothRan'
  BY <1>1, <1>2 DEF BothRan
<1>7. \A v \in Writers : WriterFacts(v)'
  BY <1>1, <1>6, WriterKept DEF LockInv
<1>8. ASSUME NEW q \in Outputs PROVE FileFacts(q)'
  BY <1>1, <1>6, FileKept DEF LockInv
<1> QED
  BY <1>4, <1>5, <1>7, <1>8 DEF LockInv, WriterInv, FileInv

\* What a call builds from the two proofs is what a declared analysis earns.
LEMMA BuiltStep ==
    ASSUME LockInv, NEW w \in Writers, NEW analysis, NEW sel, BuildProofBacked(w, analysis, sel)
    PROVE  LockInv'
<1> DEFINE base   == proof["canonical"]
           cand   == proof["candidate"]
           report == Report(base, cand, analysis, TRUE, sel)
           locked   == Lock(base, cand, analysis, sel)
           from   == <<base, cand>>
<1>1. /\ pc[w] = "idle" /\ BothRan /\ Builds(base, cand, analysis, sel)
      /\ job' = [job EXCEPT ![w] =
                   [NoJob EXCEPT !.report = report, !.lock = locked, !.from = from]]
      /\ pc' = [pc EXCEPT ![w] = "create"]
      /\ UNCHANGED <<proof, file, verified>>
  BY DEF BuildProofBacked
<1>2. from[1] = base /\ from[2] = cand
  OBVIOUS
<1> HIDE DEF base, cand
<1>3. locked.report = report
  BY DEF Lock
<1>4. Rated(report) => Earned(base, cand)
  <2>1. Rated(report) => analysis = "declared"
    BY DEF Rated, Report
  <2> QED
    BY <1>1, <2>1, BuildsEarn
<1> HIDE DEF report, locked, from
<1> QED
  BY <1>1, <1>2, <1>3, <1>4, BuildStep

\* The raw path builds a report that is about no declared analysis, and no lock.
LEMMA RawStep ==
    ASSUME LockInv, NEW w \in Writers, BuildRaw(w)
    PROVE  LockInv'
<1> DEFINE base   == proof["canonical"]
           cand   == proof["candidate"]
           report == Report(base, cand, "raw_only", FALSE, NoSelection)
           from   == <<base, cand>>
<1>1. /\ pc[w] = "idle" /\ BothRan
      /\ job' = [job EXCEPT ![w] = [NoJob EXCEPT !.report = report, !.from = from]]
      /\ pc' = [pc EXCEPT ![w] = "create"]
      /\ UNCHANGED <<proof, file, verified>>
  BY DEF BuildRaw
<1> HIDE DEF base, cand
<1>2. ~Rated(report)
  BY DEF Rated, Report
<1> HIDE DEF report, from
<1>3. [NoJob EXCEPT !.report = report, !.from = from] =
         [NoJob EXCEPT !.report = report, !.lock = None, !.from = from]
  <2> DEFINE kept == [NoJob EXCEPT !.report = report]
  <2>1. DOMAIN kept = Fields /\ kept.lock = None
    BY DEF NoJob, Fields
  <2>2. kept = [x \in Fields |-> kept[x]]
    BY DEF NoJob, Fields
  <2> HIDE DEF kept
  <2>3. [kept EXCEPT !.lock = None] = kept
    BY <2>1, <2>2 DEF Fields
  <2> QED
    BY <2>3 DEF kept
<1> QED
  BY <1>1, <1>2, <1>3, BuildStep

LEMMA LockStep == LockInv /\ [Next]_vars => LockInv'
<1> SUFFICES ASSUME LockInv, [Next]_vars PROVE LockInv'
  OBVIOUS
<1>1. BothRan => BothRan'
  BY RanStays DEF LockInv
<1>2. ASSUME UNCHANGED vars PROVE LockInv'
  BY <1>1, <1>2, ProofStep DEF vars, LockInv, TypeOK
<1>3. ASSUME NEW side \in Sides, NEW p \in Shapes[side], RunSide(side, p) \/ ReplaceProof(side, p)
      PROVE  LockInv'
  <2>1. /\ p \in AnyShape /\ proof' = [proof EXCEPT ![side] = p]
        /\ UNCHANGED <<file, pc, job, verified>>
    BY <1>3 DEF AnyShape, RunSide, ReplaceProof
  <2>2. TypeOK'
    BY <2>1 DEF LockInv, TypeOK
  <2> QED
    BY <1>1, <2>1, <2>2, ProofStep
<1>4. ASSUME NEW w \in Writers, NEW analysis, NEW sel, BuildProofBacked(w, analysis, sel)
      PROVE  LockInv'
  BY <1>4, BuiltStep
<1>5. ASSUME NEW w \in Writers, NEW analysis, NEW sel, BuildRefused(w, analysis, sel)
      PROVE  LockInv'
  BY <1>5, OnlyPc DEF BuildRefused, Steps
<1>6. ASSUME NEW w \in Writers, NEW o \in Outputs, Create(w, o) PROVE LockInv'
  BY <1>6, CreateStep
<1>7. ASSUME NEW w \in Writers, NEW o \in Outputs, CreateRefused(w, o) PROVE LockInv'
  BY <1>7, OnlyPc DEF CreateRefused, Steps
<1>8. ASSUME NEW w \in Writers, NEW o \in Outputs, Write(w, o) PROVE LockInv'
  BY <1>8, WriteStep
<1>9. ASSUME NEW w \in Writers, NEW o \in Outputs, Unwind(w, o) PROVE LockInv'
  BY <1>9, UnwindStep
<1>10. ASSUME NEW w \in Writers, BuildRaw(w) PROVE LockInv'
  BY <1>10, RawStep
<1>11. ASSUME NEW w \in Writers, WriteFails(w) \/ Unwound(w) \/ Killed(w) PROVE LockInv'
  <2>1. CASE WriteFails(w)
    BY <2>1, OnlyPc DEF WriteFails, Steps
  <2>2. CASE Unwound(w)
    BY <2>2, OnlyPc DEF Unwound, Steps
  <2>3. CASE Killed(w)
    BY <2>3, OnlyPc DEF Killed, Steps
  <2> QED
    BY <1>11, <2>1, <2>2, <2>3
<1>12. ASSUME NEW sel, Verify(sel) PROVE LockInv'
  BY <1>12, VerifyStep
<1>13. ASSUME NEW locked, ReplaceLock(locked) PROVE LockInv'
  BY <1>13, ReplaceStep
<1> QED
  BY <1>2, <1>3, <1>4, <1>5, <1>6, <1>7, <1>8, <1>9, <1>10, <1>11, <1>12, <1>13 DEF Next, Over
-----------------------------------------------------------------------------
(* The theorems *)

\* What writers, files and verifications are holds in every reachable state,
\* whoever writes beside whom, whatever fails and whatever is replaced.
THEOREM LockIsSound == Spec => []LockInv
BY LockInit, LockStep, PTL DEF Spec

\* No rate is rendered, or reproduced from a lock, that the seeded population
\* did not earn: the two-proof report of exposure_report.py, for any proofs,
\* selections and number of writers.
THEOREM RatesAreBacked == Spec => []RatesAreEarned
<1>1. LockInv => RatesAreEarned
  BY DEF LockInv, WriterInv, WriterFacts, VerifiedInv, Rated, RatesAreEarned
<1> QED
  BY <1>1, LockIsSound, PTL

\* A lock some call wrote to the end stands beside the report it locks, which
\* that call created too: the order of _write_all_exclusive over _open_exclusive,
\* however many calls share the two names and wherever they are killed.
THEOREM LocksHaveReports == Spec => []LockHasItsReport
<1>1. ASSUME LockInv, LockIsReadable, file["lock"].by \in Writers
      PROVE  file["report"] # None /\ file["report"].text = file["lock"].text.report
  <2> DEFINE w == file["lock"].by
  <2>1. WriterFacts(w) /\ FileFacts("lock") /\ FileFacts("report") /\ MadeInv
    BY <1>1, OutputsAre DEF LockInv, WriterInv, FileInv
  <2>2. "lock" \in job[w].wrote /\ file["lock"].text = job[w].lock
    BY <1>1, <2>1 DEF FileFacts, LockIsReadable, Text
  <2>3. /\ job[w].made = Outputs /\ job[w].wrote = Outputs
        /\ job[w].lock.report = job[w].report
    BY <2>1, <2>2, OutputsAre DEF WriterFacts, Targets
  <2>4. file["report"] # None /\ file["report"].by = w
    BY <1>1, <2>1, <2>3, OutputsAre, EditorIsNoWriter DEF MadeInv, FileFacts
  <2> QED
    BY <1>1, <2>1, <2>2, <2>3, <2>4, OutputsAre DEF FileFacts, Text
<1>2. LockInv => LockHasItsReport
  BY <1>1 DEF LockHasItsReport
<1> QED
  BY <1>2, LockIsSound, PTL

-----------------------------------------------------------------------------
(* Locks that calls wrote *)

\* Everything verify_exposure_study_lock asks before it reproduces a report.
Reproduces(supplied) ==
    LET read == file["lock"].text
        base == proof["canonical"]
        cand == proof["candidate"]
    IN
    /\ supplied # NoSelection => supplied = read.selection
    /\ read.ids = <<base.id, cand.id>>
    /\ read.variant = cand.variant
    /\ read.registration = base.registration
    /\ Builds(base, cand, read.analysis, read.selection)
    /\ read = Lock(base, cand, read.analysis, read.selection)

\* verify_exposure_study_lock returns a report exactly when the lock can be read
\* and is reproduced.
LEMMA VerifyReproduces ==
    ASSUME NEW supplied
    PROVE  Verify(supplied) <=> /\ LockIsReadable /\ Reproduces(supplied)
                                /\ verified' = file["lock"].text.report
                                /\ UNCHANGED <<proof, file, pc, job, disturbs>>
  BY Zenon DEF Verify, Reproduces

\* A lock that a call wrote is reproduced from the proofs the call read, whether or
\* not its selection is supplied again.
WrittenLockReproduces ==
    \A w \in Writers :
        /\ LockIsReadable /\ file["lock"].by = w
        /\ job[w].from = <<proof["canonical"], proof["candidate"]>>
        => Reproduces(NoSelection) /\ Reproduces(file["lock"].text.selection)

\* What stands in a job's lock was built from two proofs that passed every rule.
JobIsBuilt(w) ==
    job[w].lock # None =>
        \E analysis, sel :
            /\ Builds(job[w].from[1], job[w].from[2], analysis, sel)
            /\ job[w].lock = Lock(job[w].from[1], job[w].from[2], analysis, sel)

\* Every call's lock was built so.
BuiltInv == \A w \in Writers : JobIsBuilt(w)

\* A call whose lock and proofs stay as they are stays built.
LEMMA JobStaysBuilt ==
    ASSUME BuiltInv, NEW w \in Writers, job'[w].lock = job[w].lock, job'[w].from = job[w].from
    PROVE  JobIsBuilt(w)'
  BY DEF BuiltInv, JobIsBuilt

\* Only a build touches a lock or the proofs it was built from, and it writes both.
LEMMA BuiltKeeps == LockInv /\ BuiltInv /\ [Next]_vars => BuiltInv'
<1> SUFFICES ASSUME LockInv, BuiltInv, [Next]_vars PROVE BuiltInv'
  OBVIOUS
<1>1. ASSUME UNCHANGED job PROVE BuiltInv'
  BY <1>1, JobStaysBuilt DEF BuiltInv
<1>2. ASSUME NEW w \in Writers, NEW j, DOMAIN j = Fields, j.lock = job[w].lock,
             j.from = job[w].from, job' = [job EXCEPT ![w] = j]
      PROVE  BuiltInv'
  <2>1. job'[w] = j /\ \A v \in Writers \ {w} : job'[v] = job[v]
    BY <1>2, JobIs DEF LockInv
  <2>2. \A v \in Writers : job'[v].lock = job[v].lock /\ job'[v].from = job[v].from
    BY <1>2, <2>1
  <2> QED
    BY <2>2, JobStaysBuilt DEF BuiltInv
<1>3. \A w \in Writers : DOMAIN job[w] = Fields
  BY DEF LockInv, TypeOK
<1>4. ASSUME NEW w \in Writers, NEW made, job' = [job EXCEPT ![w].made = made] PROVE BuiltInv'
  <2> DEFINE j == [job[w] EXCEPT !.made = made]
  <2>1. DOMAIN j = Fields /\ j.lock = job[w].lock /\ j.from = job[w].from
    BY <1>3 DEF Fields
  <2>2. job' = [job EXCEPT ![w] = j]
    BY <1>4
  <2> HIDE DEF j
  <2> QED
    BY <1>2, <2>1, <2>2
<1>5. ASSUME NEW w \in Writers, NEW wrote, job' = [job EXCEPT ![w].wrote = wrote] PROVE BuiltInv'
  <2> DEFINE j == [job[w] EXCEPT !.wrote = wrote]
  <2>1. DOMAIN j = Fields /\ j.lock = job[w].lock /\ j.from = job[w].from
    BY <1>3 DEF Fields
  <2>2. job' = [job EXCEPT ![w] = j]
    BY <1>5
  <2> HIDE DEF j
  <2> QED
    BY <1>2, <2>1, <2>2
<1>6. ASSUME NEW w \in Writers, NEW analysis, NEW sel, BuildProofBacked(w, analysis, sel)
      PROVE  BuiltInv'
  <2> DEFINE base == proof["canonical"]
             cand == proof["candidate"]
             report == Report(base, cand, analysis, TRUE, sel)
             locked == Lock(base, cand, analysis, sel)
             j == [NoJob EXCEPT !.report = report, !.lock = locked, !.from = <<base, cand>>]
  <2>1. Builds(base, cand, analysis, sel) /\ job' = [job EXCEPT ![w] = j]
    BY <1>6 DEF BuildProofBacked
  <2> HIDE DEF base, cand
  <2>2. DOMAIN j = Fields /\ j.lock = locked /\ j.from[1] = base /\ j.from[2] = cand
    <3> HIDE DEF report, locked
    <3> QED
      BY DEF NoJob, Fields
  <2> HIDE DEF report, j
  <2>3. job'[w] = j /\ \A v \in Writers \ {w} : job'[v] = job[v]
    BY <2>1, <2>2, JobIs DEF LockInv
  <2>4. JobIsBuilt(w)'
    BY <2>1, <2>2, <2>3 DEF JobIsBuilt
  <2>5. \A v \in Writers \ {w} : JobIsBuilt(v)'
    BY <2>3, JobStaysBuilt
  <2> QED
    BY <2>4, <2>5 DEF BuiltInv
<1>7. ASSUME NEW w \in Writers, BuildRaw(w) PROVE BuiltInv'
  <2> DEFINE report == Report(proof["canonical"], proof["candidate"], "raw_only", FALSE, NoSelection)
             from == <<proof["canonical"], proof["candidate"]>>
             j == [NoJob EXCEPT !.report = report, !.from = from]
  <2>1. job' = [job EXCEPT ![w] = j]
    BY <1>7 DEF BuildRaw
  <2> HIDE DEF report, from
  <2>2. DOMAIN j = Fields /\ j.lock = None
    BY DEF NoJob, Fields
  <2> HIDE DEF j
  <2>3. job'[w] = j /\ \A v \in Writers \ {w} : job'[v] = job[v]
    BY <2>1, <2>2, JobIs DEF LockInv
  <2>4. JobIsBuilt(w)'
    BY <2>2, <2>3 DEF JobIsBuilt
  <2>5. \A v \in Writers \ {w} : JobIsBuilt(v)'
    BY <2>3, JobStaysBuilt
  <2> QED
    BY <2>4, <2>5 DEF BuiltInv
<1>8. ASSUME NEW w \in Writers, NEW o \in Outputs, Create(w, o) \/ Write(w, o) \/ Unwind(w, o)
      PROVE  BuiltInv'
  BY <1>4, <1>5, <1>8 DEF Create, Write, Unwind
<1> QED
  BY <1>1, <1>6, <1>7, <1>8 DEF Next, vars, RunSide, ReplaceProof, BuildRefused, CreateRefused,
     WriteFails, Unwound, Killed, Verify, ReplaceLock, Over

\* A readable lock of a call is the one the call built, so where its proofs are the
\* registered ones it is what the verifier builds.
LEMMA BuiltReproduces == LockInv /\ BuiltInv => WrittenLockReproduces
<1> SUFFICES ASSUME LockInv, BuiltInv, NEW w \in Writers, LockIsReadable, file["lock"].by = w,
                    job[w].from = <<proof["canonical"], proof["candidate"]>>
             PROVE  Reproduces(NoSelection) /\ Reproduces(file["lock"].text.selection)
  BY DEF WrittenLockReproduces
<1> DEFINE base == proof["canonical"]
           cand == proof["candidate"]
           read == file["lock"].text
<1>1. read = job[w].lock /\ read # None
  <2>1. file["lock"] # None /\ read # Blank /\ "lock" \in Outputs
    BY DEF LockIsReadable, Outputs
  <2>2. FileFacts("lock")
    BY <2>1 DEF LockInv, FileInv
  <2>3. "lock" \in job[w].made /\ read = Text(w, "lock")
    BY <2>1, <2>2 DEF FileFacts
  <2>4. "lock" \in Targets(w)
    BY <2>3 DEF LockInv, WriterInv, WriterFacts
  <2> QED
    BY <2>3, <2>4 DEF Text, Targets
<1>2. job[w].from[1] = base /\ job[w].from[2] = cand
  OBVIOUS
<1>3. PICK analysis, sel : Builds(base, cand, analysis, sel) /\ read = Lock(base, cand, analysis, sel)
  BY <1>1, <1>2 DEF BuiltInv, JobIsBuilt
<1> HIDE DEF base, cand, read
<1>4. /\ read.analysis = analysis /\ read.selection = sel /\ read.ids = <<base.id, cand.id>>
      /\ read.variant = cand.variant /\ read.registration = base.registration
  BY <1>3 DEF Lock
<1>5. ASSUME NEW supplied, supplied # NoSelection => supplied = read.selection
      PROVE  Reproduces(supplied)
  BY <1>3, <1>4, <1>5 DEF Reproduces, base, cand, read
<1> QED
  BY <1>5 DEF read

\* A lock that a call of write_proof_backed_exposure_report wrote is one that
\* verify_exposure_study_lock reproduces as long as the two proofs are the ones the
\* call read, with its selection supplied or without, whoever wrote beside it.
THEOREM WrittenLocksReproduce == Spec => []WrittenLockReproduces
<1>1. Init => BuiltInv
  BY DEF Init, BuiltInv, JobIsBuilt, NoJob
<1> QED
  BY <1>1, BuiltKeeps, BuiltReproduces, LockIsSound, PTL DEF Spec

-----------------------------------------------------------------------------
(* Selection, blocks and draw *)

\* The elements of pool that rank before c.
Before(pool, rank, c) == {d \in pool : rank[d] < rank[c]}

\* A finite pool in a strict order, which is what a digest of seed and id gives.
Ranked(pool, rank) ==
    /\ IsFiniteSet(pool)
    /\ \A c \in pool : rank[c] \in Int
    /\ \A c, d \in pool : rank[c] = rank[d] => c = d

\* The number of elements before it is an element's place, and every place is
\* taken by one of them.
LEMMA PlacesAreDistinct ==
    ASSUME NEW pool, NEW rank, Ranked(pool, rank)
    PROVE  LET n     == Cardinality(pool)
               place == [c \in pool |-> Cardinality(Before(pool, rank, c))]
           IN  n \in Nat /\ place \in Bijection(pool, 0..(n - 1))
<1> DEFINE n == Cardinality(pool)
           place == [c \in pool |-> Cardinality(Before(pool, rank, c))]
<1>1. n \in Nat
  BY FS_CardinalityType DEF Ranked
<1>2. ASSUME NEW c \in pool
      PROVE  /\ IsFiniteSet(Before(pool, rank, c))
             /\ Cardinality(Before(pool, rank, c)) \in 0..(n - 1)
  <2>1. c \notin Before(pool, rank, c) /\ Before(pool, rank, c) \in SUBSET pool
    BY DEF Before, Ranked
  <2>2. /\ IsFiniteSet(Before(pool, rank, c))
        /\ Cardinality(Before(pool, rank, c)) <= n
        /\ n # Cardinality(Before(pool, rank, c))
    BY <2>1, FS_Subset DEF Ranked
  <2>3. Cardinality(Before(pool, rank, c)) \in Nat
    BY <2>2, FS_CardinalityType
  <2> QED
    BY <1>1, <2>2, <2>3
<1>3. ASSUME NEW c \in pool, NEW d \in pool, rank[c] < rank[d]
      PROVE  Cardinality(Before(pool, rank, c)) < Cardinality(Before(pool, rank, d))
  <2>1. /\ Before(pool, rank, c) \in SUBSET Before(pool, rank, d)
        /\ c \in Before(pool, rank, d) /\ c \notin Before(pool, rank, c)
    BY <1>3 DEF Before, Ranked
  <2>2. /\ Cardinality(Before(pool, rank, c)) <= Cardinality(Before(pool, rank, d))
        /\ Cardinality(Before(pool, rank, c)) # Cardinality(Before(pool, rank, d))
    BY <1>2, <2>1, FS_Subset
  <2>3. /\ Cardinality(Before(pool, rank, c)) \in 0..(n - 1)
        /\ Cardinality(Before(pool, rank, d)) \in 0..(n - 1)
    BY <1>2
  <2> QED
    BY <1>1, <2>2, <2>3
<1>4. place \in [pool -> 0..(n - 1)]
  BY <1>2
<1>5. \A c, d \in pool : place[c] = place[d] => c = d
  <2> SUFFICES ASSUME NEW c \in pool, NEW d \in pool, c # d PROVE place[c] # place[d]
    OBVIOUS
  <2>1. rank[c] < rank[d] \/ rank[d] < rank[c]
    BY DEF Ranked
  <2>2. place[c] \in Int /\ place[d] \in Int
    BY <1>1, <1>4
  <2> QED
    BY <1>3, <2>1, <2>2
<1>6. place \in Injection(pool, 0..(n - 1))
  BY <1>4, <1>5 DEF Injection, IsInjective
<1>7. IsFiniteSet(0..(n - 1)) /\ Cardinality(0..(n - 1)) = n
  BY <1>1, FS_Interval
<1>8. place \in Surjection(pool, 0..(n - 1))
  BY <1>6, <1>7, FS_Injection
<1> QED
  BY <1>1, <1>6, <1>8 DEF Bijection

\* As many elements have their place in an interval as the interval is long.
LEMMA PlacesCount ==
    ASSUME NEW pool, NEW rank, Ranked(pool, rank), NEW i \in Nat, NEW j \in Nat,
           i <= j, j <= Cardinality(pool)
    PROVE  /\ Cardinality({c \in pool : Cardinality(Before(pool, rank, c)) \in i..(j - 1)}) = j - i
<1> DEFINE n == Cardinality(pool)
           place == [c \in pool |-> Cardinality(Before(pool, rank, c))]
           part == {c \in pool : Cardinality(Before(pool, rank, c)) \in i..(j - 1)}
           f == [c \in part |-> place[c]]
<1>1. n \in Nat /\ place \in Bijection(pool, 0..(n - 1))
  BY PlacesAreDistinct
<1>2. part = {c \in pool : place[c] \in i..(j - 1)}
  OBVIOUS
<1> HIDE DEF place, part
<1>3. /\ \A c, d \in pool : place[c] = place[d] => c = d
      /\ \A k \in 0..(n - 1) : \E c \in pool : place[c] = k
  BY <1>1 DEF Bijection, Injection, Surjection, IsInjective
<1>4. f \in Injection(part, i..(j - 1))
  BY <1>2, <1>3 DEF Injection, IsInjective
<1>5. f \in Surjection(part, i..(j - 1))
  <2>1. \A k \in i..(j - 1) : k \in 0..(n - 1)
    BY <1>1
  <2>2. f \in [part -> i..(j - 1)]
    BY <1>2
  <2>3. \A k \in i..(j - 1) : \E c \in part : f[c] = k
    BY <2>1, <1>2, <1>3
  <2> QED
    BY <2>2, <2>3 DEF Surjection
<1>6. IsFiniteSet(i..(j - 1)) /\ Cardinality(i..(j - 1)) = j - i
  <2>1. i \in Int /\ j - 1 \in Int
    OBVIOUS
  <2>2. IsFiniteSet(i..(j - 1)) /\ Cardinality(i..(j - 1)) = IF i > j - 1 THEN 0 ELSE (j - 1) - i + 1
    BY <2>1, FS_Interval
  <2> QED
    BY <2>2
<1>7. Cardinality(part) = Cardinality(i..(j - 1))
  BY <1>4, <1>5, <1>6, FS_Injection
<1> QED
  BY <1>6, <1>7 DEF part

\* A product grows with its second factor.
LEMMA Times ==
    ASSUME NEW q \in Nat, NEW m \in Nat, NEW k \in Nat, m <= k
    PROVE  q * m \in Nat /\ q * k \in Nat /\ q * m <= q * k
<1>1. PICK d \in Nat : k = m + d
  <2>1. k - m \in Nat /\ k = m + (k - m)
    OBVIOUS
  <2> QED
    BY <2>1
<1>2. q * k = q * m + q * d /\ q * m \in Nat /\ q * d \in Nat
  BY <1>1
<1> QED
  BY <1>2

\* A quotient by the interval its dividend is in.
LEMMA Division ==
    ASSUME NEW p \in Nat, NEW q \in Nat \ {0}, NEW k \in Nat
    PROVE  p \div q = k <=> q * k <= p /\ p < q * (k + 1)
<1> DEFINE m == p \div q
<1>1. m \in Nat /\ p % q \in 0..(q - 1) /\ p = q * m + (p % q)
  BY Z3
<1>2. q * m \in Nat /\ q * (m + 1) = q * m + q
  BY <1>1
<1>3. q * m <= p /\ p < q * (m + 1)
  BY <1>1, <1>2
<1> HIDE DEF m
<1>4. ASSUME q * k <= p, p < q * (k + 1), m < k PROVE FALSE
  <2>1. q * (m + 1) <= q * k
    BY <1>1, <1>4, Times
  <2> QED
    BY <1>1, <1>2, <1>3, <1>4, <2>1
<1>5. ASSUME q * k <= p, p < q * (k + 1), k < m PROVE FALSE
  <2>1. q * (k + 1) <= q * m /\ q * (k + 1) \in Nat
    BY <1>1, <1>5, Times
  <2> QED
    BY <1>1, <1>2, <1>3, <1>5, <2>1
<1>6. m = k <=> q * k <= p /\ p < q * (k + 1)
  BY <1>1, <1>3, <1>4, <1>5
<1> QED
  BY <1>6 DEF m

\* The official ids of a stratum are ranked by the study's seed.
LEMMA OfficialIsRanked == \A s \in Strata : Official(s) \subseteq Cases /\ Ranked(Official(s), Rank)
<1> SUFFICES ASSUME NEW s \in Strata
             PROVE  Official(s) \subseteq Cases /\ Ranked(Official(s), Rank)
  OBVIOUS
<1>1. Official(s) \in SUBSET Cases
  BY DEF Official
<1>2. IsFiniteSet(Official(s))
  BY <1>1, CasesAreFinite, FS_Subset
<1> QED
  BY <1>1, <1>2, RankIsTotal DEF Ranked

\* The first n of a pool that has n are n.
LEMMA SelectionSize ==
    ASSUME NEW s \in Strata
    PROVE  /\ SelectStratum(Official(s), Declared[s]) \subseteq Official(s)
           /\ Cardinality(SelectStratum(Official(s), Declared[s])) = Declared[s]
           /\ Declared[s] \in Nat \ {0}
<1> DEFINE pool == Official(s)
           n == Cardinality(pool)
<1>1. Ranked(pool, Rank)
  BY OfficialIsRanked
<1>2. n \in Nat /\ Declared[s] \in 1..n
  BY <1>1, FS_CardinalityType, DeclaredFits DEF Official, Ranked
<1>3. \A c \in pool : Cardinality(Before(pool, Rank, c)) \in Nat
  <2>1. [c \in pool |-> Cardinality(Before(pool, Rank, c))] \in [pool -> 0..(n - 1)]
    BY <1>1, PlacesAreDistinct DEF Bijection, Surjection
  <2> QED
    BY <2>1
<1>4. SelectStratum(pool, Declared[s])
        = {c \in pool : Cardinality(Before(pool, Rank, c)) \in 0..(Declared[s] - 1)}
  BY <1>2, <1>3 DEF SelectStratum, Before
<1>5. Cardinality({c \in pool : Cardinality(Before(pool, Rank, c)) \in 0..(Declared[s] - 1)})
        = Declared[s] - 0
  BY <1>1, <1>2, PlacesCount
<1> QED
  BY <1>2, <1>4, <1>5

\* The selection of the study replays over the pinned files and holds as many cases
\* of each stratum as the study declares, for any files and any seeded order:
\* select_stratum and verify_selection_sources agree.
THEOREM SelectionReplays ==
    LET sel == SelectionOf([s \in Strata |-> Official(s)]) IN
    /\ Replays(sel) /\ VerifySources(sel) /\ SelectsForStudy(sel)
    /\ \A s \in Strata : Cardinality({c \in SelectedIds(sel) : StratumOf[c] = s}) = Declared[s]
<1> DEFINE sel == SelectionOf([s \in Strata |-> Official(s)])
<1>1. \A s \in Strata : sel.pool[s] = Official(s)
                       /\ sel.chosen[s] = SelectStratum(Official(s), Declared[s])
  BY DEF SelectionOf
<1>2. ASSUME NEW s \in Strata PROVE {c \in SelectedIds(sel) : StratumOf[c] = s} = sel.chosen[s]
  <2> HIDE DEF sel
  <2>1. ASSUME NEW t \in Strata, NEW c \in sel.chosen[t] PROVE StratumOf[c] = t
    <3>1. c \in Official(t)
      BY <1>1, SelectionSize
    <3> QED
      BY <3>1 DEF Official
  <2> QED
    BY <2>1 DEF SelectedIds
<1>3. sel.study = ThisStudy
  BY DEF SelectionOf
<1> HIDE DEF sel
<1>4. Replays(sel) /\ VerifySources(sel) /\ SelectsForStudy(sel)
  BY <1>1, <1>3, SelectionSize DEF Replays, VerifySources, SelectsForStudy
<1>5. \A s \in Strata : Cardinality({c \in SelectedIds(sel) : StratumOf[c] = s}) = Declared[s]
  BY <1>1, <1>2, SelectionSize
<1> QED
  BY <1>4, <1>5 DEF sel

\* The cohort of the repeat protocol, by stratum.
LEMMA CohortIsSelected ==
    /\ Cohort \subseteq Cases
    /\ \A c \in Cohort : StratumOf[c] \in Strata
    /\ \A s \in Strata : LET part == {c \in Cohort : StratumOf[c] = s} IN
                        part = SelectStratum(Official(s), Declared[s])
<1>1. \A s \in Strata : Selection.chosen[s] = SelectStratum(Official(s), Declared[s])
  BY DEF Selection, SelectionOf
<1>2. ASSUME NEW s \in Strata, NEW c \in Selection.chosen[s] PROVE c \in Cases /\ StratumOf[c] = s
  <2>1. c \in Official(s)
    BY <1>1, SelectionSize
  <2> QED
    BY <2>1 DEF Official
<1> QED
  BY <1>1, <1>2 DEF Cohort, SelectedIds

\* One stratum of the cohort, in the order of a blocking seed.
Stratum(s) == {c \in Cohort : StratumOf[c] = s}

\* A blocking seed orders each stratum, and the blocks divide it.
LEMMA StratumIsRanked ==
    ASSUME NEW s \in Strata, NEW seed \in Seeds
    PROVE  /\ Ranked(Stratum(s), BlockRank[seed]) /\ Cardinality(Stratum(s)) = Declared[s]
           /\ Declared[s] \in Nat \ {0}
           /\ Declared[s] \div Blocks \in Nat \ {0}
           /\ Declared[s] = (Declared[s] \div Blocks) * Blocks
<1>1. Stratum(s) \in SUBSET Cases /\ Stratum(s) = SelectStratum(Official(s), Declared[s])
  BY CohortIsSelected DEF Stratum
<1>2. IsFiniteSet(Stratum(s))
  BY <1>1, CasesAreFinite, FS_Subset
<1>3. Ranked(Stratum(s), BlockRank[seed])
  BY <1>1, <1>2, DealIsTotal DEF Ranked
<1>4. Declared[s] \in Nat \ {0} /\ Declared[s] % Blocks = 0
  BY SelectionSize, StrataDivide
<1> DEFINE d == Declared[s]
<1>5. d \div Blocks \in Nat /\ d = Blocks * (d \div Blocks) + (d % Blocks)
  <2> HIDE DEF d
  <2>1. d \in Nat /\ Blocks \in Nat \ {0}
    BY <1>4, BlocksAreEven DEF d
  <2> QED
    BY <2>1, Z3
<1>6. d \div Blocks # 0 /\ d = (d \div Blocks) * Blocks
  <2> DEFINE q == d \div Blocks
  <2>1. q \in Nat /\ Blocks \in Nat /\ d = Blocks * q + 0 /\ d # 0
    BY <1>4, <1>5, BlocksAreEven
  <2> HIDE DEF q, d
  <2>2. Blocks * q = q * Blocks /\ Blocks * q \in Nat
    BY <2>1
  <2>3. q # 0
    BY <2>1
  <2> QED
    BY <2>1, <2>2, <2>3 DEF q
<1> QED
  BY <1>1, <1>3, <1>4, <1>5, <1>6, SelectionSize

\* A block is a run of places of each stratum.
LEMMA DealOf ==
    ASSUME NEW seed \in Seeds, NEW b \in BlockIds
    PROVE  Partition(Cohort, seed)[b] =
             {c \in Cohort :
                LET s == StratumOf[c]
                    q == Declared[s] \div Blocks
                IN  Cardinality(Before(Stratum(s), BlockRank[seed], c)) \in q * (b - 1)..(q * b - 1)}
<1> DEFINE place(c) == Cardinality({d \in Cohort : /\ StratumOf[d] = StratumOf[c]
                                                  /\ BlockRank[seed][d] < BlockRank[seed][c]})
           share(c) == Cardinality({d \in Cohort : StratumOf[d] = StratumOf[c]}) \div Blocks
<1>1. Partition(Cohort, seed)[b] = {c \in Cohort : place(c) \div share(c) = b - 1}
  BY DEF Partition
<1>2. ASSUME NEW c \in Cohort
      PROVE  (place(c) \div share(c) = b - 1)
               <=> LET s == StratumOf[c]
                       q == Declared[s] \div Blocks
                   IN  Cardinality(Before(Stratum(s), BlockRank[seed], c))
                         \in q * (b - 1)..(q * b - 1)
  <2> DEFINE s == StratumOf[c]
             q == Declared[s] \div Blocks
             p == Cardinality(Before(Stratum(s), BlockRank[seed], c))
  <2>1. s \in Strata /\ c \in Stratum(s)
    BY CohortIsSelected DEF Stratum
  <2>2. place(c) = p
    <3>1. {d \in Cohort : StratumOf[d] = StratumOf[c] /\ BlockRank[seed][d] < BlockRank[seed][c]}
            = Before(Stratum(s), BlockRank[seed], c)
      BY DEF Before, Stratum
    <3> QED
      BY <3>1
  <2>3. share(c) = q /\ q \in Nat \ {0}
    BY <2>1, StratumIsRanked DEF Stratum
  <2>4. p \in Nat
    <3>1. Ranked(Stratum(s), BlockRank[seed])
      BY <2>1, StratumIsRanked
    <3>2. IsFiniteSet(Before(Stratum(s), BlockRank[seed], c))
      BY <3>1, FS_Subset DEF Ranked, Before
    <3> QED
      BY <3>2, FS_CardinalityType
  <2>5. b - 1 \in Nat /\ b \in Nat /\ (b - 1) + 1 = b
    BY BlocksAreEven DEF BlockIds
  <2> HIDE DEF s, q, p, place, share
  <2>6. p \div q = b - 1 <=> q * (b - 1) <= p /\ p < q * ((b - 1) + 1)
    BY <2>3, <2>4, <2>5, Division
  <2>7. q * (b - 1) \in Nat /\ q * b \in Nat
    BY <2>3, <2>5, Times
  <2>8. p \div q = b - 1 <=> p \in q * (b - 1)..(q * b - 1)
    BY <2>4, <2>5, <2>6, <2>7
  <2> QED
    BY <2>2, <2>3, <2>8 DEF s, q, p
<1> HIDE DEF place, share
<1> QED
  BY <1>1, <1>2

\* partition_cohort deals every case of the cohort to exactly one block, and to
\* each block the same number of each stratum, whatever the blocking seed.
THEOREM BlocksAreDealtEvenly ==
    \A seed \in Seeds :
        LET deal == Partition(Cohort, seed) IN
        /\ UNION {deal[b] : b \in BlockIds} = Cohort
        /\ \A b, c \in BlockIds : b # c => deal[b] \cap deal[c] = {}
        /\ \A b \in BlockIds, s \in Strata :
              Cardinality({c \in deal[b] : StratumOf[c] = s}) = Declared[s] \div Blocks
<1> SUFFICES ASSUME NEW seed \in Seeds
             PROVE  LET deal == Partition(Cohort, seed) IN
                    /\ UNION {deal[b] : b \in BlockIds} = Cohort
                    /\ \A b, c \in BlockIds : b # c => deal[b] \cap deal[c] = {}
                    /\ \A b \in BlockIds, s \in Strata :
                          Cardinality({c \in deal[b] : StratumOf[c] = s}) = Declared[s] \div Blocks
  OBVIOUS
<1> DEFINE deal == Partition(Cohort, seed)
           place(c) == Cardinality({d \in Cohort : /\ StratumOf[d] = StratumOf[c]
                                                  /\ BlockRank[seed][d] < BlockRank[seed][c]})
           share(c) == Cardinality({d \in Cohort : StratumOf[d] = StratumOf[c]}) \div Blocks
<1>1. \A b \in BlockIds : deal[b] = {c \in Cohort : place(c) \div share(c) = b - 1}
  BY DEF Partition
<1>2. ASSUME NEW c \in Cohort
      PROVE  /\ place(c) \in Nat /\ share(c) \in Nat \ {0}
             /\ place(c) < share(c) * Blocks
  <2> DEFINE s == StratumOf[c]
             f == [d \in Stratum(s) |-> Cardinality(Before(Stratum(s), BlockRank[seed], d))]
  <2>1. /\ s \in Strata /\ c \in Stratum(s) /\ Stratum(s) = {d \in Cohort : StratumOf[d] = StratumOf[c]}
    BY CohortIsSelected DEF Stratum
  <2>2. place(c) = f[c]
    <3>1. {d \in Cohort : StratumOf[d] = StratumOf[c] /\ BlockRank[seed][d] < BlockRank[seed][c]}
            = Before(Stratum(s), BlockRank[seed], c)
      BY DEF Before, Stratum
    <3> QED
      BY <2>1, <3>1
  <2>3. /\ Ranked(Stratum(s), BlockRank[seed]) /\ Cardinality(Stratum(s)) = Declared[s]
        /\ Declared[s] \in Nat \ {0} /\ share(c) = Declared[s] \div Blocks
        /\ share(c) \in Nat \ {0} /\ Declared[s] = share(c) * Blocks
    BY <2>1, StratumIsRanked
  <2>4. f[c] \in 0..(Declared[s] - 1)
    <3> HIDE DEF s
    <3>1. f \in Bijection(Stratum(s), 0..(Declared[s] - 1))
      BY <2>3, PlacesAreDistinct
    <3> HIDE DEF f
    <3>2. f \in [Stratum(s) -> 0..(Declared[s] - 1)]
      BY <3>1 DEF Bijection, Surjection
    <3> QED
      BY <2>1, <3>2
  <2> HIDE DEF place, share, f, s
  <2> QED
    BY <2>2, <2>3, <2>4
<1> HIDE DEF place, share
<1>3. ASSUME NEW c \in Cohort PROVE \E b \in BlockIds : c \in deal[b]
  <2> DEFINE k == place(c) \div share(c)
  <2>1. k \in Nat
    BY <1>2, Z3
  <2>2. share(c) * k <= place(c)
    BY <1>2, <2>1, Division
  <2>3. k < Blocks
    <3> SUFFICES ASSUME Blocks <= k PROVE FALSE
      BY <2>1, BlocksAreEven
    <3>1. share(c) * Blocks <= share(c) * k /\ share(c) * Blocks \in Nat /\ share(c) * k \in Nat
      BY <1>2, <2>1, Times, BlocksAreEven
    <3> HIDE DEF k
    <3> QED
      BY <1>2, <2>2, <3>1
  <2>4. k + 1 \in BlockIds /\ (k + 1) - 1 = k
    BY <2>1, <2>3, BlocksAreEven DEF BlockIds
  <2> QED
    BY <1>1, <2>4
<1>4. UNION {deal[b] : b \in BlockIds} = Cohort
  BY <1>1, <1>3
<1>5. \A b, c \in BlockIds : b # c => deal[b] \cap deal[c] = {}
  BY <1>1 DEF BlockIds
<1>6. ASSUME NEW b \in BlockIds, NEW s \in Strata
      PROVE  Cardinality({c \in deal[b] : StratumOf[c] = s}) = Declared[s] \div Blocks
  <2> DEFINE q == Declared[s] \div Blocks
             part == {c \in Stratum(s) : Cardinality(Before(Stratum(s), BlockRank[seed], c))
                                            \in (q * (b - 1))..(q * b - 1)}
  <2>1. {c \in deal[b] : StratumOf[c] = s} = part
    BY DealOf DEF Stratum
  <2>2. /\ Ranked(Stratum(s), BlockRank[seed]) /\ Cardinality(Stratum(s)) = q * Blocks
        /\ q \in Nat \ {0}
    BY StratumIsRanked
  <2>3. b - 1 \in Nat /\ b \in Nat /\ b <= Blocks /\ Blocks \in Nat
    BY BlocksAreEven DEF BlockIds
  <2>4. q * (b - 1) \in Nat /\ q * b \in Nat /\ q * (b - 1) <= q * b /\ q * b <= q * Blocks
    BY <2>2, <2>3, Times
  <2>5. Cardinality(part) = q * b - q * (b - 1)
    <3> DEFINE i == q * (b - 1)
               j == q * b
    <3>1. i \in Nat /\ j \in Nat /\ i <= j /\ j <= Cardinality(Stratum(s))
      BY <2>2, <2>4
    <3> HIDE DEF i, j, q
    <3>2. Cardinality({c \in Stratum(s) : Cardinality(Before(Stratum(s), BlockRank[seed], c))
                                             \in i..(j - 1)}) = j - i
      BY <2>2, <3>1, PlacesCount
    <3> QED
      BY <3>2 DEF i, j
  <2>6. q * b - q * (b - 1) = q
    <3>1. q * b = q * (b - 1) + q
      BY <2>2, <2>3
    <3> QED
      BY <2>2, <2>4, <3>1
  <2> QED
    BY <2>1, <2>5, <2>6
<1> QED
  BY <1>4, <1>5, <1>6

\* draw_schedule gives each block one of the two orders, and each order to half of
\* the blocks: the exact test's assignments are the balanced ones.
THEOREM DrawIsBalanced ==
    /\ \A b \in BlockIds : Draw[b] \in {TreatmentFirst, RepeatFirst}
    /\ 2 * Cardinality({b \in BlockIds : Draw[b] = TreatmentFirst}) = Blocks
<1>1. IsFiniteSet(BlockIds) /\ Cardinality(BlockIds) = Blocks
  BY BlocksAreEven, FS_Interval DEF BlockIds
<1>2. Ranked(BlockIds, DrawRank)
  BY <1>1, DrawIsTotal DEF Ranked, BlockIds
<1> DEFINE h == Blocks \div 2
<1>3. h \in Nat /\ 2 * h = Blocks /\ 0 <= h /\ h <= Blocks
  BY BlocksAreEven, Z3
<1>4. TreatmentFirst # RepeatFirst
  BY DEF TreatmentFirst, RepeatFirst
<1>5. \A b \in BlockIds : Cardinality(Before(BlockIds, DrawRank, b)) \in Nat
  <2>1. [b \in BlockIds |-> Cardinality(Before(BlockIds, DrawRank, b))] \in [BlockIds -> 0..(Blocks - 1)]
    BY <1>1, <1>2, PlacesAreDistinct DEF Bijection, Surjection
  <2> QED
    BY <2>1
<1> HIDE DEF h
<1>6. {b \in BlockIds : Draw[b] = TreatmentFirst}
        = {b \in BlockIds : Cardinality(Before(BlockIds, DrawRank, b)) \in 0..(h - 1)}
  BY <1>3, <1>4, <1>5 DEF Draw, Before, h
<1>7. Cardinality({b \in BlockIds : Cardinality(Before(BlockIds, DrawRank, b)) \in 0..(h - 1)}) = h - 0
  BY <1>1, <1>2, <1>3, PlacesCount
<1>8. \A b \in BlockIds : Draw[b] \in {TreatmentFirst, RepeatFirst}
  BY DEF Draw
<1> DEFINE firsts == {b \in BlockIds : Draw[b] = TreatmentFirst}
<1>9. Cardinality(firsts) = h
  <2>1. firsts = {b \in BlockIds : Cardinality(Before(BlockIds, DrawRank, b)) \in 0..(h - 1)}
    BY <1>6
  <2>2. Cardinality(firsts) = h - 0
    BY <1>7, <2>1
  <2> HIDE DEF firsts
  <2> QED
    BY <1>3, <2>2
<1> HIDE DEF firsts
<1>10. 2 * Cardinality(firsts) = Blocks
  BY <1>3, <1>9
<1> QED
  BY <1>8, <1>10 DEF firsts

-----------------------------------------------------------------------------
(* Locks of the repeat protocol *)

\* A reference names a run.
RefShape(ref) == "run" \in DOMAIN ref /\ ref.run \in Runs

RefsAre(refs) == IsFiniteSet(refs) /\ \A ref \in refs : RefShape(ref)

LockFields == {"manifest", "selection", "partition", "schedule", "refs", "report"}

LockIs(l) == DOMAIN l = LockFields /\ l.selection = Selection /\ RefsAre(l.refs)

\* A directory holds the proof of some executed run, and each run says which it is;
\* before there is a lock it is the directory's own.
RunsInv ==
    /\ ran = [k \in Runs |-> ran[k]] /\ dir = [k \in Runs |-> dir[k]]
    /\ \A k \in Runs : ran[k] # Missing => ran[k].run = k
    /\ lock = Nothing => dir = ran
    /\ lock # Nothing => /\ Executed = Runs /\ LockIs(lock)
                         /\ \A k \in Runs : \E j \in Runs : dir[k] = ran[j]
    /\ accepted # Nothing => Executed = Runs

\* Whatever is wrong with a run, it is the run it was executed as.
LEMMA DefectsKeepRun ==
    ASSUME NEW k, NEW clean, "run" \in DOMAIN clean, NEW p \in Defects(k, clean)
    PROVE  p.run = clean.run
  BY DEF Defects

\* A function on a finite set has finitely many values.
LEMMA ValuesAreFinite ==
    ASSUME NEW S, IsFiniteSet(S), NEW f, DOMAIN f = S, f = [x \in S |-> f[x]]
    PROVE  IsFiniteSet({f[x] : x \in S})
<1>1. f \in Surjection(S, {f[x] : x \in S})
  BY DEF Surjection
<1> QED
  BY <1>1, FS_Surjection

\* The references a caller makes name runs, in each of the three forms.
LEMMA HonestRefsAre == ASSUME NEW noticed PROVE RefsAre(HonestRefs(noticed))
<1>1. IsFiniteSet(Runs)
  BY BlocksAreEven, FS_Interval DEF Runs
<1> DEFINE R(k) == [slot |-> <<BlockOf(k), ArmOf(k)>>, run |-> k, proof |-> ran[k].id,
                    failed |-> noticed /\ Failed(k)]
           f == [k \in Runs |-> R(k)]
<1>2. IsFiniteSet({f[k] : k \in Runs})
  <2> HIDE DEF R
  <2> QED BY <1>1, ValuesAreFinite
<1>3. {f[k] : k \in Runs} = HonestRefs(noticed)
  BY DEF HonestRefs
<1>4. \A k \in Runs : RefShape(R(k))
  BY DEF Redealt, RefShape
<1> QED
  BY <1>2, <1>3, <1>4 DEF RefsAre, HonestRefs

LEMMA MislabelledRefsAre ==
    ASSUME NEW refs, RefsAre(refs), NEW b, NEW x, NEW y
    PROVE  RefsAre(Mislabelled(refs, b, x, y))
<1> DEFINE other(slot) == CASE slot = <<b, x>> -> <<b, y>>
                            [] slot = <<b, y>> -> <<b, x>>
                            [] OTHER -> slot
           R(ref) == [ref EXCEPT !.slot = other(@)]
           f == [ref \in refs |-> R(ref)]
<1>1. {f[ref] : ref \in refs} = Mislabelled(refs, b, x, y)
  BY DEF Mislabelled
<1>2. IsFiniteSet({f[ref] : ref \in refs})
  <2> HIDE DEF R
  <2> QED BY ValuesAreFinite DEF RefsAre
<1>3. ASSUME NEW ref \in refs PROVE RefShape(R(ref))
  <2> HIDE DEF other
  <2>1. RefShape(ref)
    BY DEF RefsAre
  <2> QED
    BY <2>1 DEF RefShape
<1> HIDE DEF R
<1> QED
  BY <1>1, <1>2, <1>3 DEF RefsAre

LEMMA UnlabelledRefsAre ==
    ASSUME NEW refs, RefsAre(refs)
    PROVE  RefsAre(Unlabelled(refs))
<1> DEFINE R(ref) == [ref EXCEPT !.failed = FALSE]
           f == [ref \in refs |-> R(ref)]
<1>1. {f[ref] : ref \in refs} = Unlabelled(refs)
  BY DEF Unlabelled
<1>2. IsFiniteSet({f[ref] : ref \in refs})
  <2> HIDE DEF R
  <2> QED BY ValuesAreFinite DEF RefsAre
<1>3. ASSUME NEW ref \in refs PROVE RefShape(R(ref))
  BY DEF RefShape, RefsAre
<1> HIDE DEF R
<1> QED
  BY <1>1, <1>2, <1>3 DEF RefsAre

LEMMA LocksOfAre == ASSUME NEW refs, RefsAre(refs) PROVE LockIs(LockOf(refs))
  BY UnlabelledRefsAre DEF LockIs, LockOf, LockFields

\* An edit keeps the selection, and a reference it changes names a run.
LEMMA EditedLocksAre ==
    ASSUME NEW l, LockIs(l), NEW m \in EditedLocks(l)
    PROVE  LockIs(m)
<1>1. ASSUME NEW n, LockIs(n) PROVE LockIs(WithReport(n))
  BY <1>1 DEF WithReport, LockIs, LockFields
<1>2. ASSUME NEW ref \in l.refs PROVE RefsAre(l.refs \ {ref})
  BY FS_RemoveElement DEF LockIs, RefsAre
<1>3. ASSUME NEW ref \in l.refs, NEW k \in Swappable(ref.run)
      PROVE  RefsAre((l.refs \ {ref}) \cup {[ref EXCEPT !.run = k, !.proof = k]})
  <2>1. k \in Runs /\ RefShape(ref)
    BY DEF Swappable, LockIs, RefsAre
  <2>2. RefShape([ref EXCEPT !.run = k, !.proof = k])
    BY <2>1 DEF RefShape
  <2> QED
    BY <1>2, <2>2, FS_AddElement DEF RefsAre
<1>4. \A seed, s \in Seeds : LockIs(Redealt(l, seed, s))
  BY DEF Redealt, LockIs, LockFields
<1>5. \A b \in BlockIds : LockIs(Reordered(l, b))
  BY DEF Reordered, LockIs, LockFields
<1>6. \A ref \in l.refs : LockIs(Dropped(l, ref))
  BY <1>2 DEF Dropped, LockIs, LockFields
<1>7. \A ref \in l.refs : \A k \in Swappable(ref.run) : LockIs(Moved(l, ref, k))
  BY <1>3 DEF Moved, LockIs, LockFields
<1>8. /\ LockIs([l EXCEPT !.manifest.parameters = "relaxed"])
      /\ LockIs([l EXCEPT !.report.test.beyond = 0])
  BY DEF LockIs, LockFields
<1>9. CASE m \in {WithReport(Redealt(l, seed, s)) : seed \in Seeds, s \in Seeds}
  BY <1>9, <1>4, <1>1
<1>10. CASE m \in {WithReport(Reordered(l, b)) : b \in BlockIds}
  BY <1>10, <1>5, <1>1
<1>11. CASE m \in {Dropped(l, ref) : ref \in l.refs}
  BY <1>11, <1>6
<1>12. CASE m \in UNION {{WithReport(Moved(l, ref, k)) : k \in Swappable(ref.run)} : ref \in l.refs}
  BY <1>12, <1>7, <1>1
<1> QED
  BY <1>8, <1>9, <1>10, <1>11, <1>12 DEF EditedLocks

LEMMA RunsInit == ProtocolInit => RunsInv
  BY DEF ProtocolInit, RunsInv, Nothing

\* A run is executed into its own directory.
LEMMA RunKeeps ==
    ASSUME RunsInv, Executed # Runs, NEW k, NEW bad, NEW p, Run(k, p, bad)
    PROVE  RunsInv'
<1>1. lock = Nothing /\ accepted = Nothing /\ dir = ran
  BY DEF RunsInv
<1>2. p.run = k
  <2>1. \A c : "run" \in DOMAIN CleanRun(k, c) /\ CleanRun(k, c).run = k
    BY DEF CleanRun
  <2> QED
    BY <2>1, DefectsKeepRun DEF Run
<1>3. /\ ran' = [ran EXCEPT ![k] = p] /\ dir' = [dir EXCEPT ![k] = p]
      /\ UNCHANGED <<lock, accepted>>
  BY DEF Run
<1>4. ran = [j \in Runs |-> ran[j]] /\ dir = [j \in Runs |-> dir[j]]
  BY DEF RunsInv
<1>5. ran' = [j \in Runs |-> ran'[j]] /\ dir' = [j \in Runs |-> dir'[j]]
  BY <1>3, <1>4
<1>6. \A j \in Runs : ran'[j] # Missing => ran'[j].run = j
  BY <1>2, <1>3, <1>4 DEF RunsInv
<1> QED
  BY <1>1, <1>3, <1>5, <1>6 DEF RunsInv, Nothing

LEMMA RunsKeep == RunsInv /\ [ProtocolNext]_protocolVars => RunsInv'
<1> SUFFICES ASSUME RunsInv, [ProtocolNext]_protocolVars PROVE RunsInv'
  OBVIOUS
<1>1. ASSUME NEW seed \in Seeds, Freeze(seed) PROVE RunsInv'
  BY <1>1 DEF Freeze, RunsInv, Executed, LockIs, RefsAre, RefShape
<1>2. ASSUME NEW refs, RefsAre(refs), BuildLock(refs) PROVE RunsInv'
  <2>1. /\ lock = Nothing /\ Executed = Runs /\ lock' = LockOf(refs)
        /\ UNCHANGED <<record, ran, dir, accepted>>
    BY <1>2 DEF BuildLock
  <2>2. LockIs(LockOf(refs))
    BY <1>2, LocksOfAre
  <2>3. LockIs(lock)'
    BY <2>1, <2>2 DEF LockIs, RefsAre, RefShape
  <2> QED
    BY <2>1, <2>3 DEF RunsInv, Executed
<1>3. ASSUME NEW noticed \in BOOLEAN, BuildHonest(noticed) PROVE RunsInv'
  BY <1>2, <1>3, HonestRefsAre DEF BuildHonest
<1>4. ASSUME NEW b \in BlockIds, NEW x \in Arms, NEW y \in Arms, BuildMislabelled(b, x, y)
      PROVE  RunsInv'
  BY <1>2, <1>4, HonestRefsAre, MislabelledRefsAre DEF BuildMislabelled
<1>5. CASE VerifyLock
  BY <1>5 DEF VerifyLock, RunsInv, Executed, LockIs, RefsAre, RefShape
<1>6. ASSUME NEW k \in Runs, NEW other \in Runs, CopyProof(k, other) PROVE RunsInv'
  BY <1>6 DEF CopyProof, RunsInv, Executed, LockIs, RefsAre, RefShape
<1>7. ASSUME lock # Nothing, accepted = Nothing, NEW l \in EditedLocks(lock), EditLock(l) PROVE RunsInv'
  <2>1. LockIs(l)
    BY <1>7, EditedLocksAre DEF RunsInv
  <2>2. lock' = l /\ UNCHANGED <<record, ran, dir, accepted>>
    BY <1>7 DEF EditLock
  <2>3. LockIs(lock)'
    BY <2>1, <2>2 DEF LockIs, RefsAre, RefShape
  <2>4. l # Nothing
    BY <2>1 DEF LockIs, LockFields, Nothing
  <2> QED
    BY <1>7, <2>2, <2>3, <2>4 DEF RunsInv, Executed
<1>8. CASE UNCHANGED protocolVars
  BY <1>8 DEF protocolVars, RunsInv, Executed, LockIs, RefsAre, RefShape
<1>9. ASSUME record # Nothing, Executed # Runs, NEW k, NEW bad, NEW p, Run(k, p, bad) PROVE RunsInv'
  BY <1>9, RunKeeps
<1> QED
  BY <1>1, <1>3, <1>4, <1>5, <1>6, <1>7, <1>8, <1>9 DEF ProtocolNext, ProtocolOver

\* The counting of _verify_slot_references is enough: each slot has one reference,
\* and no two slots name one run.
LEMMA NamesAreApart ==
    ASSUME NEW refs, RefsAre(refs), SlotsAreExact(refs)
    PROVE  /\ \A s \in Slots : /\ (CHOOSE ref \in refs : ref.slot = s) \in refs
                              /\ (CHOOSE ref \in refs : ref.slot = s).slot = s
                              /\ RunIn(refs, s) \in Runs
           /\ \A s, t \in Slots : RunIn(refs, s) = RunIn(refs, t) => s = t
<1> DEFINE at(s) == CHOOSE ref \in refs : ref.slot = s
           R == {ref.run : ref \in refs}
           f == [ref \in refs |-> ref.run]
<1>1. ASSUME NEW s \in Slots PROVE at(s) \in refs /\ at(s).slot = s
  <2>1. \E ref \in refs : ref.slot = s
    BY DEF SlotsAreExact
  <2> QED
    BY <2>1
<1>2. IsFiniteSet(refs) /\ Cardinality(R) = Cardinality(refs)
  BY DEF RefsAre, SlotsAreExact
<1>3. f \in Surjection(refs, R)
  BY DEF Surjection
<1>4. f \in Injection(refs, R)
  <2> HIDE DEF f, R
  <2> QED BY <1>2, <1>3, FS_Surjection
<1>5. ASSUME NEW x \in refs, NEW y \in refs, x.run = y.run PROVE x = y
  BY <1>4, <1>5 DEF Injection, IsInjective
<1>6. \A s \in Slots : at(s) \in refs /\ at(s).slot = s /\ RunIn(refs, s) = at(s).run
  BY <1>1 DEF RunIn
<1>7. \A s \in Slots : at(s).run \in Runs
  BY <1>6 DEF RefsAre, RefShape
<1>8. ASSUME NEW s \in Slots, NEW t \in Slots, RunIn(refs, s) = RunIn(refs, t) PROVE s = t
  <2> HIDE DEF at
  <2> QED BY <1>5, <1>6, <1>8
<1> QED
  BY <1>6, <1>7, <1>8

\* A proof that names the run of its directory was copied from that very run.
LEMMA DirectoriesAreNamed ==
    ASSUME RunsInv, lock # Nothing, NEW ref \in lock.refs, SlotLoads(lock, ref)
    PROVE  dir[ref.run] = ran[ref.run]
<1>1. ref.run \in Runs /\ dir[ref.run].run = ref.run
  BY DEF RunsInv, LockIs, RefsAre, RefShape, SlotLoads
<1>2. PICK j \in Runs : dir[ref.run] = ran[j]
  BY <1>1 DEF RunsInv
<1>3. ran[j].run = j
  BY DEF RunsInv, Executed
<1> QED
  BY <1>1, <1>2, <1>3

\* What verify_protocol_lock reads from the directories is true of the runs.
LEMMA VerifiedIsEligible == ASSUME RunsInv, VerifyLock PROVE OnlyEligibleRuns'
<1>1. /\ lock # Nothing /\ accepted' = lock /\ UNCHANGED <<ran, dir, lock>>
      /\ \A ref \in lock.refs : SlotLoads(lock, ref)
      /\ PopulationHolds(lock) /\ SlotsBind(lock)
  BY DEF VerifyLock
<1>2. /\ SlotsAreExact(lock.refs) /\ RefsAre(lock.refs) /\ lock.selection = Selection
  BY <1>1 DEF PopulationHolds, RunsInv, LockIs
<1> DEFINE named(s) == RunIn(lock.refs, s)
<1>3. \A s, t \in Slots : named(s) = named(t) => s = t
  BY <1>2, NamesAreApart
<1>4. /\ lock.schedule = Draw
      /\ lock.partition = Partition(Cohort, lock.manifest.seed)
  BY <1>1, <1>2 DEF PopulationHolds, ReplaysSeeds, Cohort
<1>5. ASSUME NEW s \in Slots
      PROVE  /\ dir[named(s)] = ran[named(s)]
             /\ ran[named(s)].complete /\ ran[named(s)].route = "declared"
             /\ ran[named(s)].planned = lock.partition[s[1]]
             /\ Observed(ran[named(s)]) = lock.partition[s[1]]
             /\ BindSide(SideOf(s[2]), ran[named(s)])
  <2> DEFINE ref == CHOOSE r \in lock.refs : r.slot = s
  <2>1. ref \in lock.refs /\ ref.slot = s /\ named(s) = ref.run
    BY <1>2, NamesAreApart DEF RunIn
  <2> HIDE DEF ref
  <2>2. SlotLoads(lock, ref) /\ dir[ref.run] = ran[ref.run]
    BY <1>1, <2>1, DirectoriesAreNamed
  <2>3. dir[named(s)].route = "declared"
    BY <1>1 DEF SlotsBind
  <2> QED
    BY <2>1, <2>2, <2>3 DEF SlotLoads
<1>6. Cardinality({ran[named(<<b, "treatment">>)].variant : b \in BlockIds}) = 1
  <2>1. \A b \in BlockIds : <<b, "treatment">> \in Slots
    BY DEF Slots, Arms
  <2>2. {ran[named(<<b, "treatment">>)].variant : b \in BlockIds}
          = {dir[named(<<b, "treatment">>)].variant : b \in BlockIds}
    BY <1>5, <2>1
  <2> QED
    BY <1>1, <2>2 DEF SlotsBind
<1>7. \A b \in BlockIds, arm \in Arms :
         LET p == ran[named(<<b, arm>>)] IN
         /\ p.complete /\ p.benchmark = SideOf(arm) /\ p.route = "declared"
         /\ DOMAIN p.verdict = lock.partition[b] /\ p.planned = lock.partition[b]
         /\ \A c \in DOMAIN p.verdict : p.verdict[c] \in {"pass", "fail"}
  <2> SUFFICES ASSUME NEW b \in BlockIds, NEW arm \in Arms
               PROVE  LET p == ran[named(<<b, arm>>)] IN
                      /\ p.complete /\ p.benchmark = SideOf(arm) /\ p.route = "declared"
                      /\ DOMAIN p.verdict = lock.partition[b] /\ p.planned = lock.partition[b]
                      /\ \A c \in DOMAIN p.verdict : p.verdict[c] \in {"pass", "fail"}
    OBVIOUS
  <2>1. <<b, arm>> \in Slots /\ <<b, arm>>[1] = b /\ <<b, arm>>[2] = arm
    BY DEF Slots
  <2> QED
    BY <1>5, <2>1 DEF BindSide, Ineligible, Observed
<1> QED
  <2>1. accepted' = lock /\ ran' = ran
    BY <1>1
  <2> QED
    BY <2>1, <1>3, <1>4, <1>6, <1>7 DEF OnlyEligibleRuns, Named

\* Nothing is executed after a verification.
LEMMA EligibleKeeps ==
    ASSUME RunsInv, OnlyEligibleRuns, [ProtocolNext]_protocolVars
    PROVE  OnlyEligibleRuns'
<1>1. CASE VerifyLock
  BY <1>1, VerifiedIsEligible
<1>2. CASE UNCHANGED <<ran, accepted>>
  BY <1>2 DEF OnlyEligibleRuns, Named
<1>3. CASE accepted' = Nothing
  BY <1>3 DEF OnlyEligibleRuns
<1>4. ASSUME Executed # Runs, NEW k, NEW bad, NEW p, Run(k, p, bad)
      PROVE  accepted' = Nothing
  BY <1>4 DEF Run, RunsInv
<1> QED
  BY <1>1, <1>2, <1>3, <1>4 DEF ProtocolNext, ProtocolOver, protocolVars, Freeze, BuildHonest,
     BuildMislabelled, BuildLock, CopyProof, EditLock

\* Runs, directories and the lock agree as RunsInv says.
THEOREM RunsAreSound == ProtocolSpec => []RunsInv
  BY RunsInit, RunsKeep, PTL DEF ProtocolSpec

\* Every slot of a verified lock stands for an eligible run of its own, of the
\* declared population and in the drawn order, for any number of blocks, cases and
\* disturbances.
THEOREM ReportsAreOfEligibleRuns == ProtocolSpec => []OnlyEligibleRuns
<1>1. ProtocolInit => OnlyEligibleRuns
  BY DEF ProtocolInit, OnlyEligibleRuns
<1>2. RunsInv /\ OnlyEligibleRuns /\ [ProtocolNext]_protocolVars => OnlyEligibleRuns'
  BY EligibleKeeps
<1> QED
  BY <1>1, <1>2, RunsAreSound, PTL DEF ProtocolSpec

-----------------------------------------------------------------------------
(* Honest locks *)

\* A freeze is never redone, and every run says which it is.
FrozenInv ==
    /\ record # Nothing => \E seed \in Seeds : record = Manifest(seed)
    /\ Executed # {} => record # Nothing
    /\ \A k \in Runs : ran[k] # Missing => ran[k].id = k

\* A lock of the runs as they were executed is never refused: once every slot has run
\* and no case ended as an infrastructure failure, the references to the runs cover
\* the slots exactly and the lock built from them passes _verify_population.
HonestLockPasses ==
    Executed = Runs /\ (\A k \in Runs : ~Failed(k))
        => SlotsAreExact(HonestRefs(TRUE)) /\ PopulationHolds(LockOf(HonestRefs(TRUE)))

\* Run numbers count the slots block by block, three a block.
LEMMA SlotOfRun ==
    ASSUME NEW k \in Runs
    PROVE  /\ BlockOf(k) \in BlockIds
           /\ ((k - 1) % 3) + 1 \in 1..3
           /\ k = 3 * (BlockOf(k) - 1) + (((k - 1) % 3) + 1)
  BY BlocksAreEven DEF Runs, BlockOf, BlockIds

\* And each slot of a block has its run number.
LEMMA RunOfSlot ==
    ASSUME NEW b \in BlockIds, NEW i \in 1..3
    PROVE  LET k == 3 * (b - 1) + i IN
           k \in Runs /\ BlockOf(k) = b /\ ((k - 1) % 3) + 1 = i
  BY BlocksAreEven DEF Runs, BlockOf, BlockIds

\* A block of the draw runs each of the three arms in one of its slots.
LEMMA OrdersAreComplete ==
    ASSUME NEW b \in BlockIds
    PROVE  /\ \A i \in 1..3 : Draw[b][i] \in Arms
           /\ \A i, j \in 1..3 : Draw[b][i] = Draw[b][j] => i = j
           /\ \A arm \in Arms : \E i \in 1..3 : Draw[b][i] = arm
<1>1. Draw[b] \in {TreatmentFirst, RepeatFirst}
  BY DrawIsBalanced
<1>2. ASSUME NEW t \in {TreatmentFirst, RepeatFirst}
      PROVE  /\ \A i \in 1..3 : t[i] \in Arms
             /\ \A i, j \in 1..3 : t[i] = t[j] => i = j
             /\ \A arm \in Arms : \E i \in 1..3 : t[i] = arm
  <2>1. \A i \in 1..3 : i = 1 \/ i = 2 \/ i = 3
    OBVIOUS
  <2>2. t[1] = "anchor" /\ {t[2], t[3]} = {"treatment", "repeat"} /\ t[2] # t[3]
    BY DEF TreatmentFirst, RepeatFirst
  <2> QED
    BY <2>1, <2>2 DEF Arms
<1> QED
  BY <1>1, <1>2

\* Under the drawn schedule the runs are the slots, one each.
LEMMA SlotsAreRuns ==
    ASSUME record # Nothing, record.schedule = Draw
    PROVE  /\ {<<BlockOf(k), ArmOf(k)>> : k \in Runs} = Slots
           /\ IsFiniteSet(Runs) /\ Cardinality(Slots) = Cardinality(Runs)
<1> DEFINE g == [k \in Runs |-> <<BlockOf(k), ArmOf(k)>>]
<1>1. ASSUME NEW k \in Runs
      PROVE  g[k] = <<BlockOf(k), Draw[BlockOf(k)][((k - 1) % 3) + 1]>> /\ g[k] \in Slots
  BY SlotOfRun, OrdersAreComplete DEF ArmOf, Slots
<1>2. ASSUME NEW s \in Slots PROVE \E k \in Runs : g[k] = s
  <2>1. PICK b \in BlockIds, arm \in Arms : s = <<b, arm>>
    BY DEF Slots
  <2>2. PICK i \in 1..3 : Draw[b][i] = arm
    BY OrdersAreComplete
  <2>3. 3 * (b - 1) + i \in Runs /\ g[3 * (b - 1) + i] = s
    BY <1>1, <2>1, <2>2, RunOfSlot
  <2> QED
    BY <2>3
<1>3. ASSUME NEW k \in Runs, NEW j \in Runs, g[k] = g[j] PROVE k = j
  <2>1. BlockOf(k) = BlockOf(j)
        /\ Draw[BlockOf(k)][((k - 1) % 3) + 1] = Draw[BlockOf(k)][((j - 1) % 3) + 1]
    BY <1>1, <1>3
  <2>2. ((k - 1) % 3) + 1 = ((j - 1) % 3) + 1
    BY <2>1, SlotOfRun, OrdersAreComplete
  <2> QED
    BY <2>1, <2>2, SlotOfRun
<1>4. g \in Injection(Runs, Slots) /\ g \in Surjection(Runs, Slots)
  <2> HIDE DEF g
  <2>1. g \in [Runs -> Slots]
    BY <1>1 DEF g
  <2> QED
    BY <2>1, <1>2, <1>3 DEF Injection, Surjection, IsInjective
<1>5. IsFiniteSet(Runs)
  BY BlocksAreEven, FS_Interval DEF Runs
<1>6. Cardinality(Slots) = Cardinality(Runs)
  BY <1>4, <1>5, FS_Surjection
<1>7. {g[k] : k \in Runs} = Slots
  BY <1>1, <1>2
<1> QED
  BY <1>5, <1>6, <1>7

\* What a caller references a run by.
Reference(k, named, failed) ==
    [slot |-> <<BlockOf(k), ArmOf(k)>>, run |-> k, proof |-> named, failed |-> failed]

\* Runs that name themselves and did not fail are referenced slot by slot, and
\* dropping the failure labels, as the lock's rows do, loses nothing.
LEMMA HonestRefsAreExact ==
    ASSUME record # Nothing, record.schedule = Draw, \A k \in Runs : ran[k].id = k /\ ~Failed(k)
    PROVE  /\ SlotsAreExact(HonestRefs(TRUE))
           /\ Unlabelled(HonestRefs(TRUE)) = HonestRefs(TRUE)
<1> DEFINE f == [k \in Runs |-> Reference(k, k, FALSE)]
           refs == {f[k] : k \in Runs}
<1>1. HonestRefs(TRUE) = refs
  <2>1. \A k \in Runs : (TRUE /\ Failed(k)) = FALSE
    BY Zenon DEF Failed
  <2>2. HonestRefs(TRUE) = {Reference(k, ran[k].id, TRUE /\ Failed(k)) : k \in Runs}
    BY Zenon DEF HonestRefs, Reference
  <2>3. \A k \in Runs : Reference(k, ran[k].id, TRUE /\ Failed(k)) = f[k]
    <3>1. ASSUME NEW k \in Runs, NEW named, NEW failed, named = k, failed = FALSE
          PROVE  Reference(k, named, failed) = f[k]
      BY <3>1, Zenon
    <3>2. ASSUME NEW k \in Runs
          PROVE  Reference(k, ran[k].id, TRUE /\ Failed(k)) = f[k]
      <4>1. ran[k].id = k
        OBVIOUS
      <4>2. (TRUE /\ Failed(k)) = FALSE
        BY <2>1, Zenon
      <4> HIDE DEF f
      <4> QED
        BY <3>1, <4>1, <4>2, Zenon
    <3> QED
      BY <3>2, Zenon
  <2> DEFINE held(k) == Reference(k, ran[k].id, TRUE /\ Failed(k))
  <2>4. HonestRefs(TRUE) = {held(k) : k \in Runs}
    BY <2>2, Zenon
  <2>5. \A k \in Runs : held(k) = f[k]
    BY <2>3, Zenon
  <2> HIDE DEF f, held
  <2>6. ASSUME NEW ref \in HonestRefs(TRUE) PROVE ref \in refs
    <3>1. PICK k \in Runs : ref = held(k)
      BY <2>4, Zenon
    <3> QED
      BY <2>5, <3>1, Zenon
  <2>7. ASSUME NEW ref \in refs PROVE ref \in HonestRefs(TRUE)
    <3>1. PICK k \in Runs : ref = f[k]
      BY Zenon
    <3> QED
      BY <2>4, <2>5, <3>1, Zenon
  <2> HIDE DEF refs
  <2> QED
    BY <2>6, <2>7, Zenon
<1>2. \A k \in Runs : /\ f[k].slot = <<BlockOf(k), ArmOf(k)>> /\ f[k].run = k /\ f[k].proof = k
                     /\ f[k].failed = FALSE
  BY DEF Reference
<1>3. \A k \in Runs : [f[k] EXCEPT !.failed = FALSE] = f[k]
  <2>1. ASSUME NEW k, NEW named, NEW failed
        PROVE  [Reference(k, named, failed) EXCEPT !.failed = failed] = Reference(k, named, failed)
    BY DEF Reference
  <2>2. ASSUME NEW k \in Runs PROVE f[k] = Reference(k, k, FALSE)
    BY Zenon
  <2> HIDE DEF f
  <2>3. ASSUME NEW k \in Runs PROVE [f[k] EXCEPT !.failed = FALSE] = f[k]
    <3>1. [Reference(k, k, FALSE) EXCEPT !.failed = FALSE] = Reference(k, k, FALSE)
      BY <2>1, Zenon
    <3> QED
      BY <2>2, <3>1, Zenon
  <2> QED
    BY <2>3, Zenon
<1>4. f = [k \in Runs |-> f[k]]
  OBVIOUS
<1> HIDE DEF f
<1>5. {ref.slot : ref \in refs} = Slots
  <2>1. ASSUME NEW ref \in refs PROVE ref.slot \in {<<BlockOf(k), ArmOf(k)>> : k \in Runs}
    <3>1. PICK k \in Runs : ref = f[k]
      OBVIOUS
    <3> QED
      BY <1>2, <3>1, Zenon
  <2>2. \A s \in {<<BlockOf(k), ArmOf(k)>> : k \in Runs} : \E ref \in refs : ref.slot = s
    <3>1. ASSUME NEW k \in Runs PROVE f[k] \in refs /\ f[k].slot = <<BlockOf(k), ArmOf(k)>>
      BY <1>2
    <3> QED
      BY <3>1, Zenon
  <2> HIDE DEF refs
  <2> QED
    BY <2>1, <2>2, SlotsAreRuns
<1>6. {ref.run : ref \in refs} = Runs /\ {ref.proof : ref \in refs} = Runs
  BY <1>2
<1>7. Cardinality(refs) = Cardinality(Runs)
  <2>1. f \in [Runs -> refs]
    BY <1>4
  <2>2. f \in Surjection(Runs, refs)
    BY <2>1 DEF Surjection
  <2>3. f \in Injection(Runs, refs)
    BY <1>2, <2>1 DEF Injection, IsInjective
  <2> HIDE DEF refs
  <2> QED
    BY <2>2, <2>3, SlotsAreRuns, FS_Surjection
<1>8. \A ref \in refs : ~ref.failed
  BY <1>2, Zenon
<1>9. SlotsAreExact(refs)
  <2> HIDE DEF refs
  <2> QED
    BY <1>5, <1>6, <1>7, <1>8, SlotsAreRuns DEF SlotsAreExact
<1>10. Unlabelled(refs) = refs
  <2>1. \A ref \in refs : [ref EXCEPT !.failed = FALSE] = ref
    BY <1>3, Zenon
  <2> HIDE DEF refs
  <2> QED
    BY <2>1, Zenon DEF Unlabelled
<1> QED
  BY <1>1, <1>9, <1>10

\* With the frozen manifest, such references make a lock that passes: the draw and the
\* deal replay because they were made from the retained seeds, and the blocks are
\* the cohort because every case is dealt.
LEMMA HonestPopulationHolds ==
    ASSUME NEW seed \in Seeds, record = Manifest(seed),
           \A k \in Runs : ran[k].id = k /\ ~Failed(k)
    PROVE  SlotsAreExact(HonestRefs(TRUE)) /\ PopulationHolds(LockOf(HonestRefs(TRUE)))
<1> DEFINE l == LockOf(HonestRefs(TRUE))
<1>1. /\ record # Nothing /\ record.schedule = Draw /\ record.seed = seed
      /\ record.partition = Partition(Cohort, seed) /\ record.selection = Selection
      /\ record.parameters = "declared"
  BY DEF Manifest, Nothing
<1>2. SlotsAreExact(HonestRefs(TRUE)) /\ Unlabelled(HonestRefs(TRUE)) = HonestRefs(TRUE)
  BY <1>1, HonestRefsAreExact
<1>3. /\ l.manifest = record /\ l.selection = Selection /\ l.refs = HonestRefs(TRUE)
      /\ l.partition = record.partition /\ l.schedule = record.schedule
  BY <1>2 DEF LockOf
<1> HIDE DEF l
<1>4. SelectedIds(l.selection) = Cohort
  BY <1>3 DEF Cohort
<1>5. ReplaysSeeds(l)
  BY <1>1, <1>3, <1>4 DEF ReplaysSeeds
<1>6. UNION {l.partition[b] : b \in BlockIds} = SelectedIds(l.selection)
  BY <1>1, <1>3, <1>4, BlocksAreDealtEvenly
<1> QED
  BY <1>1, <1>2, <1>3, <1>5, <1>6 DEF PopulationHolds, l

\* Freezing, running, building, verifying, copying and editing keep FrozenInv.
LEMMA FrozenKeeps == RunsInv /\ FrozenInv /\ [ProtocolNext]_protocolVars => FrozenInv'
<1> SUFFICES ASSUME RunsInv, FrozenInv, [ProtocolNext]_protocolVars PROVE FrozenInv'
  OBVIOUS
<1>1. ASSUME NEW seed \in Seeds, Freeze(seed) PROVE FrozenInv'
  BY <1>1 DEF Freeze, FrozenInv, Executed, Manifest, Nothing
<1>2. ASSUME record # Nothing, NEW k, NEW bad, NEW p, Run(k, p, bad) PROVE FrozenInv'
  <2>1. p.id = k
    <3>1. \A c : "id" \in DOMAIN CleanRun(k, c) /\ CleanRun(k, c).id = k
      BY DEF CleanRun
    <3>2. ASSUME NEW clean, "id" \in DOMAIN clean, p \in Defects(k, clean) PROVE p.id = clean.id
      BY <3>2 DEF Defects
    <3> QED
      BY <1>2, <3>1, <3>2 DEF Run
  <2>2. record' = record /\ ran' = [ran EXCEPT ![k] = p]
    BY <1>2 DEF Run
  <2>3. ran = [j \in Runs |-> ran[j]]
    BY DEF RunsInv
  <2>4. \A j \in Runs : ran'[j] # Missing => ran'[j].id = j
    BY <2>1, <2>2, <2>3 DEF FrozenInv
  <2> QED
    BY <1>2, <2>2, <2>4 DEF FrozenInv
<1>3. CASE UNCHANGED <<record, ran>>
  BY <1>3 DEF FrozenInv, Executed
<1> QED
  BY <1>1, <1>2, <1>3 DEF ProtocolNext, ProtocolOver, protocolVars, BuildHonest, BuildMislabelled,
     BuildLock, VerifyLock, CopyProof, EditLock

\* The population rules are not stricter than the protocol: for any number of blocks
\* and cases and any seed, an honest lock of a protocol without failures passes them.
THEOREM HonestLocksPass == ProtocolSpec => []HonestLockPasses
<1>1. ProtocolInit => FrozenInv
  BY DEF ProtocolInit, FrozenInv, Executed
<1>2. FrozenInv => HonestLockPasses
  <2> SUFFICES ASSUME FrozenInv, Executed = Runs, \A k \in Runs : ~Failed(k)
               PROVE  SlotsAreExact(HonestRefs(TRUE)) /\ PopulationHolds(LockOf(HonestRefs(TRUE)))
    BY DEF HonestLockPasses
  <2>1. 1 \in Runs
    BY BlocksAreEven DEF Runs
  <2>2. PICK seed \in Seeds : record = Manifest(seed)
    BY <2>1 DEF FrozenInv
  <2>3. \A k \in Runs : ran[k].id = k
    BY DEF FrozenInv, Executed
  <2> QED
    BY <2>2, <2>3, HonestPopulationHolds
<1> QED
  BY <1>1, <1>2, FrozenKeeps, RunsAreSound, PTL DEF ProtocolSpec

-----------------------------------------------------------------------------
(* Counting, folds and totals *)

\* A set of numbers has a least one.
LEMMA LeastNumber ==
    ASSUME NEW T \in SUBSET Nat, T # {}
    PROVE  \E n \in T : \A m \in T : n <= m
<1> DEFINE Less == OpToRel(<, Nat)
<1>1. \A x, y \in Nat : <<x, y>> \in Less <=> x < y
  BY DEF OpToRel
<1>2. IsWellFoundedOn(Less, Nat)
  BY NatLessThanWellFounded
<1> HIDE DEF Less
<1>3. PICK n \in T : \A m \in T : ~(<<m, n>> \in Less)
  BY <1>2, WFMin
<1>4. \A m \in T : ~(m < n)
  BY <1>1, <1>3
<1>5. ASSUME NEW m \in T PROVE n <= m
  BY <1>4
<1> QED
  BY <1>5

\* Counting from zero passes every number: induction, without an operator as a
\* parameter.
LEMMA CountingUp ==
    ASSUME NEW T, 0 \in T, \A n \in Nat : n \in T => n + 1 \in T
    PROVE  Nat \subseteq T
<1> SUFFICES ASSUME Nat \ T # {} PROVE FALSE
  OBVIOUS
<1>1. PICK n \in Nat \ T : \A m \in Nat \ T : n <= m
  BY LeastNumber
<1>2. n # 0 /\ n - 1 \in Nat /\ n - 1 \notin Nat \ T
  BY <1>1
<1> QED
  BY <1>2

\* A step function applied along a finite set.
Folds(g, S, base, pick, step) ==
    \A T \in SUBSET S : g[T] = IF T = {} THEN base ELSE step[pick[T]][g[T \ {pick[T]}]]

CanFold(S, V, base, pick, step) ==
    /\ IsFiniteSet(S) /\ base \in V
    /\ \A T \in SUBSET S : T # {} => pick[T] \in T
    /\ \A x \in S, v \in V : step[x][v] \in V

HasFold(S, V, base, pick, step) ==
    \E g : g \in [SUBSET S -> V] /\ Folds(g, S, base, pick, step)

\* A finite set can be folded: a function on its subsets that takes one member off
\* at a time exists, by counting members.
LEMMA FoldExists ==
    ASSUME NEW S, NEW V, NEW base, NEW pick, NEW step, CanFold(S, V, base, pick, step)
    PROVE  HasFold(S, V, base, pick, step)
<1>0. IsFiniteSet(S) /\ base \in V
  BY DEF CanFold
<1> DEFINE Small(m) == {T \in SUBSET S : Cardinality(T) <= m}
           Eq(g, T) == g[T] = IF T = {} THEN base ELSE step[pick[T]][g[T \ {pick[T]}]]
           Good == {m \in Nat : \E g \in [Small(m) -> V] : \A T \in Small(m) : Eq(g, T)}
<1>1. \A T \in SUBSET S : Cardinality(T) \in Nat /\ IsFiniteSet(T) /\ Cardinality(T) <= Cardinality(S)
  BY <1>0, FS_Subset, FS_CardinalityType
<1>2. \A T \in SUBSET S : T # {} =>
         /\ pick[T] \in S /\ T \ {pick[T]} \in SUBSET S
         /\ Cardinality(T \ {pick[T]}) = Cardinality(T) - 1
  BY <1>1, FS_RemoveElement DEF CanFold
<1>3. Small(0) = {{}}
  <2>1. Cardinality({}) = 0 /\ {} \in SUBSET S
    BY FS_EmptySet
  <2>2. ASSUME NEW T \in Small(0) PROVE T = {}
    BY <1>1, FS_EmptySet
  <2> QED
    BY <2>1, <2>2
<1>4. 0 \in Good
  <2> DEFINE g == [T \in Small(0) |-> base]
  <2>1. g \in [Small(0) -> V]
    BY <1>0
  <2>2. \A T \in Small(0) : Eq(g, T)
    BY <1>3
  <2> HIDE DEF g, Small
  <2> QED
    BY <2>1, <2>2
<1>5. ASSUME NEW m \in Nat, m \in Good PROVE m + 1 \in Good
  <2>1. PICK g \in [Small(m) -> V] : \A T \in Small(m) : Eq(g, T)
    BY <1>5
  <2> DEFINE h == [T \in Small(m + 1) |->
                     IF T \in Small(m) THEN g[T] ELSE step[pick[T]][g[T \ {pick[T]}]]]
  <2>2. ASSUME NEW T \in Small(m + 1), T # {} PROVE T \ {pick[T]} \in Small(m) /\ pick[T] \in S
    BY <1>1, <1>2, <2>2
  <2>3. {} \in Small(m)
    BY FS_EmptySet
  <2>4. Small(m) \subseteq Small(m + 1)
    BY <1>1
  <2> HIDE DEF Small
  <2>5. h \in [Small(m + 1) -> V]
    <3>1. ASSUME NEW T \in Small(m + 1) PROVE h[T] \in V
      BY <2>2, <2>3 DEF CanFold
    <3> QED
      BY <3>1
  <2>6. ASSUME NEW T \in Small(m + 1) PROVE Eq(h, T)
    <3>1. CASE T = {}
      BY <3>1, <2>1, <2>3, <2>4
    <3>2. CASE T # {} /\ T \in Small(m)
      <4>1. T \ {pick[T]} \in Small(m) /\ T \ {pick[T]} \in Small(m + 1)
        BY <2>2, <2>4, <3>2
      <4>2. h[T] = g[T] /\ h[T \ {pick[T]}] = g[T \ {pick[T]}]
        BY <3>2, <4>1
      <4>3. Eq(g, T)
        BY <2>1, <3>2
      <4> HIDE DEF h
      <4> QED
        BY <4>2, <4>3, <3>2
    <3>3. CASE T # {} /\ T \notin Small(m)
      <4>1. T \ {pick[T]} \in Small(m) /\ T \ {pick[T]} \in Small(m + 1)
        BY <2>2, <2>4, <3>3
      <4>2. h[T \ {pick[T]}] = g[T \ {pick[T]}] /\ h[T] = step[pick[T]][g[T \ {pick[T]}]]
        BY <3>3, <4>1
      <4> HIDE DEF h
      <4> QED
        BY <4>2, <3>3
    <3> QED
      BY <3>1, <3>2, <3>3
  <2> HIDE DEF h, Eq
  <2> QED
    BY <2>5, <2>6
<1>6. Cardinality(S) \in Good
  <2> HIDE DEF Good
  <2>1. Nat \subseteq Good
    BY <1>4, <1>5, CountingUp
  <2> QED
    BY <1>0, <2>1, FS_CardinalityType
<1>7. Small(Cardinality(S)) = SUBSET S
  BY <1>1
<1> HIDE DEF Small
<1> QED
  BY <1>6, <1>7 DEF Folds, HasFold

\* A set of numbers up to n has a greatest member, and Max names it.
LEMMA GreatestNumber ==
    ASSUME NEW n \in Nat, NEW T \in SUBSET (1..n), T # {}
    PROVE  Max(T) \in T /\ \A m \in T : Max(T) >= m
<1>1. \E m \in T : \A k \in T : m >= k
  <2> DEFINE gaps == {n - m : m \in T}
  <2>1. gaps \in SUBSET Nat /\ gaps # {}
    <3>1. \A m \in T : n - m \in Nat
      OBVIOUS
    <3> QED
      BY <3>1
  <2>2. \A m \in T : n - m \in gaps
    OBVIOUS
  <2>3. \A gap \in gaps : n - gap \in T
    OBVIOUS
  <2> HIDE DEF gaps
  <2>4. PICK gap \in gaps : \A other \in gaps : gap <= other
    BY <2>1, LeastNumber
  <2>5. ASSUME NEW k \in T PROVE n - gap >= k
    BY <2>1, <2>2, <2>4
  <2> QED
    BY <2>3, <2>5
<1> QED
  BY <1>1, Zenon DEF Max

\* The greatest member of 1..n is n, so a left fold takes the last value off first.
LEMMA GreatestOfPrefix ==
    ASSUME NEW n \in Nat \ {0}
    PROVE  Max(1..n) = n /\ (1..n) \ {Max(1..n)} = 1..(n - 1)
<1>1. Max(1..n) \in 1..n /\ Max(1..n) >= n
  <2>1. 1..n \in SUBSET (1..n) /\ 1..n # {} /\ n \in 1..n
    OBVIOUS
  <2>2. Max(1..n) \in 1..n /\ \A m \in 1..n : Max(1..n) >= m
    BY <2>1, GreatestNumber, Zenon
  <2> QED
    BY <2>1, <2>2
<1>2. Max(1..n) = n
  BY <1>1
<1> QED
  BY <1>2

\* A sequence of n integers.
IsRow(a, n) == a \in [1..n -> Int]

\* The sums of the first values.
Sums(h, values, n) ==
    /\ h \in [0..n -> Int]
    /\ h[0] = 0
    /\ \A k \in 1..n : h[k] = h[k - 1] + values[k]

\* The fold behind Total adds the values one after another.
LEMMA TotalBySums ==
    ASSUME NEW n \in Nat, NEW values, IsRow(values, n)
    PROVE  \E h : Sums(h, values, n) /\ Total(values) = h[n]
<1> DEFINE IsFold(g) == g = [s \in SUBSET (1..n) |->
                               IF s = {} THEN 0 ELSE g[s \ {Max(s)}] + values[Max(s)]]
           pick == [s \in SUBSET (1..n) |-> Max(s)]
           step == [x \in 1..n |-> [sum \in Int |-> sum + values[x]]]
<1>1. Total(values) = (CHOOSE g : IsFold(g))[1..n]
  <2>1. DOMAIN values = 1..n
    BY DEF IsRow
  <2> QED
    BY <2>1, Zenon DEF Total, FoldLeft, MapThenFoldSet
<1>2. \A T \in SUBSET (1..n) : T # {} => pick[T] \in T
  BY GreatestNumber
<1>3. \A x \in 1..n, v \in Int : step[x][v] \in Int
  BY DEF IsRow
<1>4. IsFiniteSet(1..n)
  BY FS_Interval
<1>5. PICK g : g \in [SUBSET (1..n) -> Int] /\ Folds(g, 1..n, 0, pick, step)
  <2> HIDE DEF pick, step
  <2>1. CanFold(1..n, Int, 0, pick, step)
    BY <1>2, <1>3, <1>4 DEF CanFold
  <2>2. HasFold(1..n, Int, 0, pick, step)
    BY <2>1, FoldExists
  <2> QED
    BY <2>2 DEF HasFold
<1>6. ASSUME NEW s \in SUBSET (1..n)
      PROVE  g[s] = IF s = {} THEN 0 ELSE g[s \ {Max(s)}] + values[Max(s)]
  <2>1. CASE s = {}
    BY <2>1, <1>5 DEF Folds
  <2>2. CASE s # {}
    <3>1. g[s] = step[pick[s]][g[s \ {pick[s]}]] /\ pick[s] = Max(s)
      BY <2>2, <1>5 DEF Folds
    <3>2. pick[s] \in 1..n /\ s \ {pick[s]} \in SUBSET (1..n)
      BY <1>2, <2>2
    <3>3. g[s \ {pick[s]}] \in Int
      BY <1>5, <3>2
    <3>4. step[pick[s]][g[s \ {pick[s]}]] = g[s \ {pick[s]}] + values[pick[s]]
      BY <3>2, <3>3
    <3> HIDE DEF pick, step
    <3> QED
      BY <2>2, <3>1, <3>4
  <2> QED
    BY <2>1, <2>2
<1>7. IsFold(g)
  <2>1. g = [s \in SUBSET (1..n) |-> g[s]]
    BY <1>5
  <2> QED
    BY <1>6, <2>1
<1>8. IsFold(CHOOSE f : IsFold(f))
  <2> HIDE DEF IsFold
  <2> QED
    BY <1>7, Zenon
<1>9. PICK f : IsFold(f) /\ Total(values) = f[1..n]
  BY <1>1, <1>8, Zenon
<1>10. f[{}] = 0 /\ \A k \in 1..n : f[1..k] = f[1..(k - 1)] + values[k]
  <2>1. f[{}] = 0
    BY <1>9
  <2>2. ASSUME NEW k \in 1..n PROVE f[1..k] = f[1..(k - 1)] + values[k]
    <3>1. 1..k \in SUBSET (1..n) /\ 1..k # {}
      OBVIOUS
    <3>2. f[1..k] = f[(1..k) \ {Max(1..k)}] + values[Max(1..k)]
      BY <1>9, <3>1
    <3>3. Max(1..k) = k /\ (1..k) \ {Max(1..k)} = 1..(k - 1)
      BY GreatestOfPrefix
    <3> QED
      BY <3>2, <3>3
  <2> QED
    BY <2>1, <2>2
<1> DEFINE h == [k \in 0..n |-> f[1..k]]
<1>11. h[0] = 0 /\ \A k \in 1..n : h[k] = h[k - 1] + values[k]
  <2>1. 1..0 = {}
    OBVIOUS
  <2>2. ASSUME NEW k \in 1..n PROVE h[k] = h[k - 1] + values[k]
    <3>1. h[k] = f[1..k] /\ h[k - 1] = f[1..(k - 1)]
      OBVIOUS
    <3> HIDE DEF h
    <3> QED
      BY <1>10, <3>1
  <2> QED
    BY <1>10, <2>1, <2>2
<1>12. h[n] = Total(values)
  <2>1. h[n] = f[1..n]
    OBVIOUS
  <2> QED
    BY <1>9, <2>1
<1>13. h \in [0..n -> Int]
  <2> DEFINE typed == {k \in Nat : k <= n => h[k] \in Int}
  <2>0. h = [k \in 0..n |-> h[k]]
    OBVIOUS
  <2> HIDE DEF h
  <2>1. 0 \in typed
    BY <1>11
  <2>2. ASSUME NEW k \in Nat, k \in typed PROVE k + 1 \in typed
    <3>1. CASE k + 1 <= n
      <4>1. k + 1 \in 1..n /\ (k + 1) - 1 = k
        BY <3>1
      <4>2. h[k + 1] = h[k] + values[k + 1]
        BY <1>11, <4>1
      <4> QED
        BY <2>2, <4>1, <4>2 DEF IsRow
    <3> QED
      BY <3>1
  <2>3. Nat \subseteq typed
    <3> HIDE DEF typed
    <3> QED
      BY <2>1, <2>2, CountingUp
  <2>4. \A k \in 0..n : h[k] \in Int
    BY <2>3
  <2> QED
    BY <2>0, <2>4
<1> HIDE DEF h
<1> QED
  BY <1>11, <1>12, <1>13 DEF Sums

\* Whatever adds the values one after another ends with their total.
LEMMA SumsAreUnique ==
    ASSUME NEW n \in Nat, NEW values, IsRow(values, n), NEW h, Sums(h, values, n)
    PROVE  Total(values) = h[n]
<1>1. PICK g : Sums(g, values, n) /\ Total(values) = g[n]
  BY TotalBySums
<1> DEFINE same == {k \in Nat : k <= n => h[k] = g[k]}
<1>2. 0 \in same
  BY <1>1 DEF Sums
<1>3. ASSUME NEW k \in Nat, k \in same PROVE k + 1 \in same
  <2>1. CASE k + 1 <= n
    <3>1. k + 1 \in 1..n /\ (k + 1) - 1 = k
      BY <2>1
    <3> QED
      BY <1>1, <1>3, <3>1 DEF Sums
  <2> QED
    BY <2>1
<1>4. Nat \subseteq same
  <2> HIDE DEF same
  <2> QED
    BY <1>2, <1>3, CountingUp
<1> QED
  BY <1>1, <1>4

\* The total of integers is one.
LEMMA TotalIsInt ==
    ASSUME NEW n \in Nat, NEW values, IsRow(values, n) PROVE Total(values) \in Int
  BY TotalBySums DEF Sums

\* Twice one row less another has twice the one total less the other.
LEMMA TotalIsLinear ==
    ASSUME NEW n \in Nat, NEW a, NEW b, NEW c,
           IsRow(a, n), IsRow(b, n), IsRow(c, n),
           \A i \in 1..n : c[i] = a[i] + a[i] - b[i]
    PROVE  Total(c) = Total(a) + Total(a) - Total(b)
<1>1. PICK f : Sums(f, a, n) /\ Total(a) = f[n]
  BY TotalBySums DEF IsRow
<1>2. PICK g : Sums(g, b, n) /\ Total(b) = g[n]
  BY TotalBySums DEF IsRow
<1>3. PICK h : Sums(h, c, n) /\ Total(c) = h[n]
  BY TotalBySums DEF IsRow
<1> DEFINE good == {k \in Nat : k <= n => h[k] = f[k] + f[k] - g[k]}
<1>4. 0 \in good
  BY <1>1, <1>2, <1>3 DEF Sums
<1>5. ASSUME NEW k \in Nat, k \in good PROVE k + 1 \in good
  <2>1. CASE k + 1 <= n
    <3>1. k + 1 \in 1..n /\ (k + 1) - 1 = k /\ k \in 0..n
      BY <2>1
    <3>2. /\ f[k + 1] = f[k] + a[k + 1] /\ g[k + 1] = g[k] + b[k + 1] /\ h[k + 1] = h[k] + c[k + 1]
          /\ f[k] \in Int /\ g[k] \in Int /\ h[k] \in Int
      BY <1>1, <1>2, <1>3, <3>1 DEF Sums
    <3>3. h[k] = f[k] + f[k] - g[k] /\ c[k + 1] = a[k + 1] + a[k + 1] - b[k + 1]
      BY <1>5, <3>1
    <3>4. a[k + 1] \in Int /\ b[k + 1] \in Int /\ c[k + 1] \in Int
      BY <3>1 DEF IsRow
    <3>5. h[k + 1] = f[k + 1] + f[k + 1] - g[k + 1]
      BY <3>2, <3>3, <3>4
    <3> QED
      BY <3>5
  <2> QED
    BY <2>1
<1>6. Nat \subseteq good
  <2> HIDE DEF good
  <2> QED
    BY <1>4, <1>5, CountingUp
<1> QED
  BY <1>1, <1>2, <1>3, <1>6

\* Values within bounds have a total within the total of the bounds.
LEMMA TotalIsBounded ==
    ASSUME NEW n \in Nat, NEW a, NEW b, IsRow(a, n), IsRow(b, n),
           \A i \in 1..n : -b[i] <= a[i] /\ a[i] <= b[i]
    PROVE  -Total(b) <= Total(a) /\ Total(a) <= Total(b)
<1>1. PICK f : Sums(f, a, n) /\ Total(a) = f[n]
  BY TotalBySums
<1>2. PICK g : Sums(g, b, n) /\ Total(b) = g[n]
  BY TotalBySums
<1> DEFINE good == {k \in Nat : k <= n => -g[k] <= f[k] /\ f[k] <= g[k]}
<1>3. 0 \in good
  BY <1>1, <1>2 DEF Sums
<1>4. ASSUME NEW k \in Nat, k \in good PROVE k + 1 \in good
  <2>1. CASE k + 1 <= n
    <3>1. k + 1 \in 1..n /\ (k + 1) - 1 = k /\ k \in 0..n
      BY <2>1
    <3>2. /\ f[k + 1] = f[k] + a[k + 1] /\ g[k + 1] = g[k] + b[k + 1]
          /\ f[k] \in Int /\ g[k] \in Int
      BY <1>1, <1>2, <3>1 DEF Sums
    <3>3. -g[k] <= f[k] /\ f[k] <= g[k] /\ -b[k + 1] <= a[k + 1] /\ a[k + 1] <= b[k + 1]
      BY <1>4, <3>1
    <3>4. a[k + 1] \in Int /\ b[k + 1] \in Int
      BY <3>1 DEF IsRow
    <3> QED
      BY <3>2, <3>3, <3>4
  <2> QED
    BY <2>1
<1>5. Nat \subseteq good
  <2> HIDE DEF good
  <2> QED
    BY <1>3, <1>4, CountingUp
<1> QED
  BY <1>1, <1>2, <1>5

\* Two rows that differ at one place have totals that differ by as much.
LEMMA TotalDiffers ==
    ASSUME NEW n \in Nat, NEW a, NEW b, IsRow(a, n), IsRow(b, n), NEW x \in 1..n,
           \A i \in 1..n : i # x => a[i] = b[i]
    PROVE  Total(a) = Total(b) + (a[x] - b[x])
<1>1. PICK f : Sums(f, a, n) /\ Total(a) = f[n]
  BY TotalBySums
<1>2. PICK g : Sums(g, b, n) /\ Total(b) = g[n]
  BY TotalBySums
<1> DEFINE good == {k \in Nat : k <= n => f[k] = g[k] + (IF k < x THEN 0 ELSE a[x] - b[x])}
<1>3. 0 \in good
  BY <1>1, <1>2 DEF Sums
<1>4. ASSUME NEW k \in Nat, k \in good PROVE k + 1 \in good
  <2>1. CASE k + 1 <= n
    <3>1. k + 1 \in 1..n /\ (k + 1) - 1 = k /\ k \in 0..n
      BY <2>1
    <3>2. /\ f[k + 1] = f[k] + a[k + 1] /\ g[k + 1] = g[k] + b[k + 1]
          /\ f[k] \in Int /\ g[k] \in Int
      BY <1>1, <1>2, <3>1 DEF Sums
    <3>3. f[k] = g[k] + (IF k < x THEN 0 ELSE a[x] - b[x])
      BY <1>4, <3>1
    <3>4. a[k + 1] \in Int /\ b[k + 1] \in Int /\ a[x] \in Int /\ b[x] \in Int
      BY <3>1 DEF IsRow
    <3>5. CASE k + 1 = x
      <4>1. k < x /\ ~(k + 1 < x) /\ a[k + 1] = a[x] /\ b[k + 1] = b[x]
        BY <3>5
      <4>2. f[k + 1] = g[k + 1] + (a[x] - b[x])
        BY <3>2, <3>3, <3>4, <4>1
      <4> QED
        BY <4>1, <4>2
    <3>6. CASE k + 1 # x
      <4>1. a[k + 1] = b[k + 1]
        BY <3>1, <3>6
      <4> QED
        BY <3>2, <3>3, <3>4, <3>6, <4>1
    <3> QED
      BY <3>5, <3>6
  <2> QED
    BY <2>1
<1>5. Nat \subseteq good
  <2> HIDE DEF good
  <2> QED
    BY <1>3, <1>4, CountingUp
<1> QED
  BY <1>1, <1>2, <1>5

\* Nothing adds up to nothing.
LEMMA TotalOfZeros ==
    ASSUME NEW n \in Nat, NEW values, IsRow(values, n), \A i \in 1..n : values[i] = 0
    PROVE  Total(values) = 0
<1> DEFINE h == [k \in 0..n |-> 0]
<1>1. Sums(h, values, n)
  BY DEF Sums
<1>2. h[n] = 0
  OBVIOUS
<1> HIDE DEF h
<1> QED
  BY <1>1, <1>2, SumsAreUnique

\* A row of ones adds up to its length.
LEMMA TotalOfOnes ==
    ASSUME NEW n \in Nat, NEW values, IsRow(values, n), \A i \in 1..n : values[i] = 1
    PROVE  Total(values) = n
<1> DEFINE h == [k \in 0..n |-> k]
<1>1. Sums(h, values, n)
  BY DEF Sums
<1>2. h[n] = n
  OBVIOUS
<1> HIDE DEF h
<1> QED
  BY <1>1, <1>2, SumsAreUnique

\* The sets of the first numbers together.
UpTo(A, n) == UNION {A[b] : b \in 1..n}

\* Disjoint finite sets have together as many members as their sizes add up to.
LEMMA TotalCounts ==
    ASSUME NEW n \in Nat, NEW A, \A b \in 1..n : IsFiniteSet(A[b]),
           \A b, c \in 1..n : b # c => A[b] \cap A[c] = {}
    PROVE  /\ IsFiniteSet(UpTo(A, n))
           /\ Total([b \in 1..n |-> Cardinality(A[b])]) = Cardinality(UpTo(A, n))
<1> DEFINE sizes == [b \in 1..n |-> Cardinality(A[b])]
<1>1. IsRow(sizes, n)
  BY FS_CardinalityType DEF IsRow
<1>2. PICK h : Sums(h, sizes, n) /\ Total(sizes) = h[n]
  <2> HIDE DEF sizes
  <2> QED
    BY <1>1, TotalBySums
<1>3. \A b \in 1..n : sizes[b] = Cardinality(A[b])
  OBVIOUS
<1> HIDE DEF sizes
<1> DEFINE good == {k \in Nat : k <= n => IsFiniteSet(UpTo(A, k)) /\ h[k] = Cardinality(UpTo(A, k))}
<1>4. 0 \in good
  <2>1. UpTo(A, 0) = {}
    BY DEF UpTo
  <2> QED
    BY <1>2, <2>1, FS_EmptySet DEF Sums
<1>5. ASSUME NEW k \in Nat, k \in good PROVE k + 1 \in good
  <2>1. CASE k + 1 <= n
    <3>1. k + 1 \in 1..n /\ (k + 1) - 1 = k /\ k \in 0..n
      BY <2>1
    <3>2. UpTo(A, k + 1) = UpTo(A, k) \cup A[k + 1]
      <4>1. \A b \in 1..(k + 1) : b \in 1..k \/ b = k + 1
        OBVIOUS
      <4>2. 1..k \subseteq 1..(k + 1) /\ k + 1 \in 1..(k + 1)
        OBVIOUS
      <4> QED
        BY <4>1, <4>2 DEF UpTo
    <3>3. UpTo(A, k) \cap A[k + 1] = {}
      <4>1. \A b \in 1..k : b \in 1..n /\ b # k + 1
        BY <3>1
      <4> QED
        BY <3>1, <4>1 DEF UpTo
    <3>4. IsFiniteSet(UpTo(A, k)) /\ IsFiniteSet(A[k + 1]) /\ h[k] = Cardinality(UpTo(A, k))
      BY <1>5, <3>1
    <3>5. /\ IsFiniteSet(UpTo(A, k + 1))
          /\ Cardinality(UpTo(A, k + 1)) = Cardinality(UpTo(A, k)) + Cardinality(A[k + 1])
      <4>1. Cardinality(UpTo(A, k)) \in Nat /\ Cardinality(A[k + 1]) \in Nat
        BY <3>4, FS_CardinalityType
      <4>2. /\ IsFiniteSet(UpTo(A, k) \cup A[k + 1])
            /\ Cardinality(UpTo(A, k) \cup A[k + 1])
               = Cardinality(UpTo(A, k)) + Cardinality(A[k + 1]) - Cardinality({})
        <5> DEFINE X == UpTo(A, k)
                   Y == A[k + 1]
        <5>1. IsFiniteSet(X) /\ IsFiniteSet(Y) /\ X \cap Y = {}
          BY <3>3, <3>4
        <5> HIDE DEF X, Y
        <5>2. /\ IsFiniteSet(X \cup Y)
              /\ Cardinality(X \cup Y) = Cardinality(X) + Cardinality(Y) - Cardinality(X \cap Y)
          BY <5>1, FS_Union
        <5> QED
          BY <5>1, <5>2 DEF X, Y
      <4> QED
        BY <3>2, <4>1, <4>2, FS_EmptySet
    <3>6. h[k + 1] = h[k] + Cardinality(A[k + 1])
      BY <1>2, <1>3, <3>1 DEF Sums
    <3> QED
      BY <3>4, <3>5, <3>6
  <2> QED
    BY <2>1
<1>6. Nat \subseteq good
  <2> HIDE DEF good
  <2> QED
    BY <1>4, <1>5, CountingUp
<1> QED
  BY <1>2, <1>6 DEF sizes

\* A set of places is counted by adding ones.
LEMMA CountOf ==
    ASSUME NEW n \in Nat, NEW I \in SUBSET (1..n)
    PROVE  Total([i \in 1..n |-> IF i \in I THEN 1 ELSE 0]) = Cardinality(I)
<1> DEFINE A == [i \in 1..n |-> IF i \in I THEN {i} ELSE {}]
<1>1. \A i \in 1..n : IsFiniteSet(A[i]) /\ Cardinality(A[i]) = IF i \in I THEN 1 ELSE 0
  BY FS_Singleton, FS_EmptySet
<1>2. \A b, c \in 1..n : b # c => A[b] \cap A[c] = {}
  OBVIOUS
<1>3. UpTo(A, n) = I
  BY DEF UpTo
<1>4. [b \in 1..n |-> Cardinality(A[b])] = [i \in 1..n |-> IF i \in I THEN 1 ELSE 0]
  <2> HIDE DEF A
  <2> QED
    BY <1>1
<1> HIDE DEF A
<1>5. Total([b \in 1..n |-> Cardinality(A[b])]) = Cardinality(UpTo(A, n))
  BY <1>1, <1>2, TotalCounts
<1> QED
  BY <1>3, <1>4, <1>5

-----------------------------------------------------------------------------
(* The exact randomization test *)

\* The table after each of the first values.
Tables(h, values, n, choose) ==
    /\ h \in [0..n -> [0..choose -> [Reach(values) -> Nat]]]
    /\ h[0] = [k \in 0..choose |-> [t \in Reach(values) |-> IF k = 0 /\ t = 0 THEN 1 ELSE 0]]
    /\ \A m \in 1..n : h[m] = Extend(h[m - 1], values[m], choose, Reach(values))

\* A value entered into a table of counts leaves a table of counts.
LEMMA ExtendIsTable ==
    ASSUME NEW choose \in Nat, NEW reach, NEW table \in [0..choose -> [reach -> Nat]], NEW v
    PROVE  Extend(table, v, choose, reach) \in [0..choose -> [reach -> Nat]]
<1>1. ASSUME NEW k \in 0..choose, NEW t \in reach
      PROVE  table[k][t] + (IF k > 0 /\ (t - v) \in reach THEN table[k - 1][t - v] ELSE 0) \in Nat
  <2>1. table[k][t] \in Nat
    OBVIOUS
  <2>2. k > 0 /\ (t - v) \in reach => table[k - 1][t - v] \in Nat
    OBVIOUS
  <2> QED
    BY <2>1, <2>2
<1> QED
  BY <1>1 DEF Extend

\* The fold behind subset_sum_counts enters the values one after another.
LEMMA SubsetSumsByTables ==
    ASSUME NEW n \in Nat, NEW values, IsRow(values, n), NEW choose \in Nat
    PROVE  \E h : Tables(h, values, n, choose) /\ SubsetSums(values, choose) = h[n][choose]
<1> DEFINE reach == Reach(values)
           V == [0..choose -> [reach -> Nat]]
           empty == [k \in 0..choose |-> [t \in reach |-> IF k = 0 /\ t = 0 THEN 1 ELSE 0]]
           IsFold(g) == g = [s \in SUBSET (1..n) |-> IF s = {} THEN empty
                               ELSE Extend(g[s \ {Max(s)}], values[Max(s)], choose, reach)]
           pick == [s \in SUBSET (1..n) |-> Max(s)]
           step == [x \in 1..n |-> [table \in V |-> Extend(table, values[x], choose, reach)]]
<1>1. SubsetSums(values, choose) = (CHOOSE g : IsFold(g))[1..n][choose]
  <2>1. DOMAIN values = 1..n
    BY DEF IsRow
  <2> QED
    BY <2>1, Zenon DEF SubsetSums, FoldLeft, MapThenFoldSet
<1>0. empty \in V
  OBVIOUS
<1> HIDE DEF empty, reach
<1>2. \A T \in SUBSET (1..n) : T # {} => pick[T] \in T
  BY GreatestNumber
<1>3. \A x \in 1..n, table \in V : step[x][table] \in V
  BY ExtendIsTable
<1>4. IsFiniteSet(1..n)
  BY FS_Interval
<1> HIDE DEF V
<1>5. PICK g : g \in [SUBSET (1..n) -> V] /\ Folds(g, 1..n, empty, pick, step)
  <2> HIDE DEF pick, step
  <2>1. CanFold(1..n, V, empty, pick, step)
    BY <1>0, <1>2, <1>3, <1>4 DEF CanFold
  <2>2. HasFold(1..n, V, empty, pick, step)
    BY <2>1, FoldExists
  <2> QED
    BY <2>2 DEF HasFold
<1>6. ASSUME NEW s \in SUBSET (1..n)
      PROVE  g[s] = IF s = {} THEN empty
                    ELSE Extend(g[s \ {Max(s)}], values[Max(s)], choose, reach)
  <2>1. CASE s = {}
    BY <2>1, <1>5 DEF Folds
  <2>2. CASE s # {}
    <3>1. g[s] = step[pick[s]][g[s \ {pick[s]}]] /\ pick[s] = Max(s)
      BY <2>2, <1>5 DEF Folds
    <3>2. pick[s] \in 1..n /\ s \ {pick[s]} \in SUBSET (1..n)
      BY <1>2, <2>2
    <3>3. g[s \ {pick[s]}] \in V
      BY <1>5, <3>2
    <3>4. step[pick[s]][g[s \ {pick[s]}]]
          = Extend(g[s \ {pick[s]}], values[pick[s]], choose, reach)
      BY <3>2, <3>3
    <3> HIDE DEF pick, step
    <3> QED
      BY <2>2, <3>1, <3>4
  <2> QED
    BY <2>1, <2>2
<1>7. IsFold(g)
  <2>1. g = [s \in SUBSET (1..n) |-> g[s]]
    BY <1>5
  <2> QED
    BY <1>6, <2>1
<1>8. IsFold(CHOOSE f : IsFold(f))
  <2> HIDE DEF IsFold
  <2> QED
    BY <1>7, Zenon
<1>9. PICK f : IsFold(f) /\ SubsetSums(values, choose) = f[1..n][choose]
  BY <1>1, <1>8, Zenon
<1>10. f[{}] = empty
       /\ \A k \in 1..n : f[1..k] = Extend(f[1..(k - 1)], values[k], choose, reach)
  <2>1. f[{}] = empty
    BY <1>9
  <2>2. ASSUME NEW k \in 1..n
        PROVE  f[1..k] = Extend(f[1..(k - 1)], values[k], choose, reach)
    <3>1. 1..k \in SUBSET (1..n) /\ 1..k # {}
      OBVIOUS
    <3>2. f[1..k] = Extend(f[(1..k) \ {Max(1..k)}], values[Max(1..k)], choose, reach)
      BY <1>9, <3>1
    <3>3. Max(1..k) = k /\ (1..k) \ {Max(1..k)} = 1..(k - 1)
      BY GreatestOfPrefix
    <3> QED
      BY <3>2, <3>3
  <2> QED
    BY <2>1, <2>2
<1> DEFINE h == [k \in 0..n |-> f[1..k]]
<1>11. h[0] = empty /\ \A k \in 1..n : h[k] = Extend(h[k - 1], values[k], choose, reach)
  <2>1. 1..0 = {}
    OBVIOUS
  <2>2. ASSUME NEW k \in 1..n PROVE h[k] = Extend(h[k - 1], values[k], choose, reach)
    <3>1. h[k] = f[1..k] /\ h[k - 1] = f[1..(k - 1)]
      OBVIOUS
    <3> HIDE DEF h
    <3> QED
      BY <1>10, <3>1
  <2> QED
    BY <1>10, <2>1, <2>2
<1>12. h[n][choose] = SubsetSums(values, choose)
  <2>1. h[n] = f[1..n]
    OBVIOUS
  <2> QED
    BY <1>9, <2>1
<1>13. h \in [0..n -> V]
  <2> DEFINE typed == {k \in Nat : k <= n => h[k] \in V}
  <2>1. h = [k \in 0..n |-> h[k]]
    OBVIOUS
  <2> HIDE DEF h
  <2>2. 0 \in typed
    BY <1>0, <1>11
  <2>3. ASSUME NEW k \in Nat, k \in typed PROVE k + 1 \in typed
    <3>1. CASE k + 1 <= n
      <4>1. k + 1 \in 1..n /\ (k + 1) - 1 = k
        BY <3>1
      <4>2. h[k + 1] = Extend(h[k], values[k + 1], choose, reach)
        BY <1>11, <4>1
      <4>3. h[k] \in V
        BY <2>3, <4>1
      <4>4. Extend(h[k], values[k + 1], choose, reach) \in V
        BY <4>3, ExtendIsTable DEF V
      <4> QED
        BY <4>2, <4>4
    <3> QED
      BY <3>1
  <2>4. Nat \subseteq typed
    <3> HIDE DEF typed
    <3> QED
      BY <2>2, <2>3, CountingUp
  <2>5. \A k \in 0..n : h[k] \in V
    BY <2>4
  <2> QED
    BY <2>1, <2>5
<1> HIDE DEF h
<1> QED
  BY <1>11, <1>12, <1>13 DEF Tables, V, empty, reach

\* The values at the places I, and their sum.
Part(values, n, I)    == [i \in 1..n |-> IF i \in I THEN values[i] ELSE 0]
PartSum(values, n, I) == Total(Part(values, n, I))

\* The values at some places make a row, and a sum.
LEMMA PartIsRow ==
    ASSUME NEW n \in Nat, NEW values, IsRow(values, n), NEW I
    PROVE  IsRow(Part(values, n, I), n) /\ PartSum(values, n, I) \in Int
<1>1. IsRow(Part(values, n, I), n)
  BY DEF IsRow, Part
<1> QED
  BY <1>1, TotalIsInt DEF PartSum

\* No value has the sum zero.
LEMMA PartSumOfNone ==
    ASSUME NEW n \in Nat, NEW values, IsRow(values, n)
    PROVE  PartSum(values, n, {}) = 0
<1>1. \A i \in 1..n : Part(values, n, {})[i] = 0
  BY DEF Part
<1> QED
  BY <1>1, PartIsRow, TotalOfZeros DEF PartSum

\* One more place adds its value to the sum.
LEMMA PartSumAdds ==
    ASSUME NEW n \in Nat, NEW values, IsRow(values, n), NEW I, NEW x \in 1..n, x \notin I
    PROVE  PartSum(values, n, I \cup {x}) = PartSum(values, n, I) + values[x]
<1> DEFINE a == Part(values, n, I \cup {x})
           b == Part(values, n, I)
<1>1. IsRow(a, n) /\ IsRow(b, n)
  BY PartIsRow
<1>2. \A i \in 1..n : i # x => a[i] = b[i]
  BY DEF Part
<1>3. a[x] = values[x] /\ b[x] = 0 /\ values[x] \in Int
  BY DEF Part, IsRow
<1> HIDE DEF a, b
<1>4. Total(a) = Total(b) + (a[x] - b[x])
  BY <1>1, <1>2, TotalDiffers
<1>5. Total(b) \in Int
  BY <1>1, TotalIsInt
<1>6. Total(a) = Total(b) + values[x]
  BY <1>3, <1>4, <1>5
<1> QED
  BY <1>6 DEF PartSum, a, b

\* No sum of some of the values leaves the reach of the table.
LEMMA ReachIsEnough ==
    ASSUME NEW n \in Nat, NEW values, IsRow(values, n)
    PROVE  /\ Reach(values) \in SUBSET Int /\ IsFiniteSet(Reach(values))
           /\ \A I : PartSum(values, n, I) \in Reach(values)
<1> DEFINE sizes == [i \in DOMAIN values |-> Magnitude(values[i])]
<1>1. DOMAIN values = 1..n /\ \A i \in 1..n : values[i] \in Int
  BY DEF IsRow
<1>2. IsRow(sizes, n) /\ \A i \in 1..n : sizes[i] = Magnitude(values[i])
  BY <1>1 DEF IsRow, Magnitude
<1>3. Reach(values) = (-Total(sizes))..Total(sizes)
  BY DEF Reach
<1> HIDE DEF sizes
<1>4. Total(sizes) \in Int
  BY <1>2, TotalIsInt
<1>5. ASSUME NEW I PROVE PartSum(values, n, I) \in Reach(values)
  <2> DEFINE a == Part(values, n, I)
  <2>1. IsRow(a, n) /\ Total(a) \in Int
    BY PartIsRow DEF PartSum
  <2>2. \A i \in 1..n : -sizes[i] <= a[i] /\ a[i] <= sizes[i]
    <3>1. ASSUME NEW i \in 1..n PROVE -sizes[i] <= a[i] /\ a[i] <= sizes[i]
      <4>1. values[i] \in Int /\ sizes[i] = Magnitude(values[i])
        BY <1>1, <1>2
      <4>2. a[i] = values[i] \/ a[i] = 0
        BY DEF Part
      <4> QED
        BY <4>1, <4>2 DEF Magnitude
    <3> QED
      BY <3>1
  <2> HIDE DEF a
  <2>3. -Total(sizes) <= Total(a) /\ Total(a) <= Total(sizes)
    BY <1>2, <2>1, <2>2, TotalIsBounded
  <2> QED
    BY <1>3, <1>4, <2>1, <2>3 DEF PartSum, a
<1>6. IsFiniteSet(Reach(values)) /\ Reach(values) \in SUBSET Int
  BY <1>3, <1>4, FS_Interval
<1> QED
  BY <1>5, <1>6

\* The ways to choose k of the first m values with the sum t.
Picks(values, n, m, k, t) ==
    {I \in SUBSET (1..m) : Cardinality(I) = k /\ PartSum(values, n, I) = t}

\* There are finitely many ways to choose.
LEMMA PicksAreFinite ==
    ASSUME NEW values, NEW n, NEW m \in Nat, NEW k, NEW t
    PROVE  /\ IsFiniteSet(Picks(values, n, m, k, t))
           /\ Cardinality(Picks(values, n, m, k, t)) \in Nat
<1>1. IsFiniteSet(SUBSET (1..m))
  <2>1. IsFiniteSet(1..m)
    BY FS_Interval
  <2> QED
    BY <2>1, FS_SUBSET
<1>2. Picks(values, n, m, k, t) \in SUBSET SUBSET (1..m)
  BY DEF Picks
<1>3. IsFiniteSet(Picks(values, n, m, k, t))
  BY <1>1, <1>2, FS_Subset
<1> QED
  BY <1>3, FS_CardinalityType

\* Nothing is chosen of no value in one way, with the sum zero.
LEMMA PicksOfNone ==
    ASSUME NEW n \in Nat, NEW values, IsRow(values, n), NEW k, NEW t
    PROVE  Cardinality(Picks(values, n, 0, k, t)) = IF k = 0 /\ t = 0 THEN 1 ELSE 0
<1>1. SUBSET (1..0) = {{}} /\ Cardinality({}) = 0 /\ PartSum(values, n, {}) = 0
  BY FS_EmptySet, PartSumOfNone
<1>2. Picks(values, n, 0, k, t) = IF k = 0 /\ t = 0 THEN {{}} ELSE {}
  BY <1>1 DEF Picks
<1> QED
  BY <1>2, FS_Singleton, FS_EmptySet

\* A choice of m + 1 values leaves the last one out or takes it: the ways add up.
LEMMA PicksStep ==
    ASSUME NEW n \in Nat, NEW values, IsRow(values, n), NEW m \in Nat, m + 1 <= n,
           NEW k \in Nat, NEW t \in Int
    PROVE  Cardinality(Picks(values, n, m + 1, k, t))
           = Cardinality(Picks(values, n, m, k, t))
             + (IF k > 0 THEN Cardinality(Picks(values, n, m, k - 1, t - values[m + 1])) ELSE 0)
<1> DEFINE v == values[m + 1]
           Old == Picks(values, n, m, k, t)
           Less == IF k > 0 THEN Picks(values, n, m, k - 1, t - v) ELSE {}
           f == [I \in Less |-> I \cup {m + 1}]
           New == {f[I] : I \in Less}
<1>1. m + 1 \in 1..n /\ v \in Int
  BY DEF IsRow
<1>2. \A I \in SUBSET (1..m) : /\ m + 1 \notin I /\ IsFiniteSet(I) /\ I \in SUBSET (1..(m + 1))
                               /\ Cardinality(I) \in Nat
                               /\ Cardinality(I \cup {m + 1}) = Cardinality(I) + 1
                               /\ PartSum(values, n, I) \in Int
                               /\ PartSum(values, n, I \cup {m + 1}) = PartSum(values, n, I) + v
  <2>1. ASSUME NEW I \in SUBSET (1..m)
        PROVE  m + 1 \notin I /\ IsFiniteSet(I) /\ I \in SUBSET (1..(m + 1))
    <3>1. IsFiniteSet(1..m)
      BY FS_Interval
    <3>2. IsFiniteSet(I)
      BY <3>1, FS_Subset
    <3> QED
      BY <3>2
  <2>2. ASSUME NEW I \in SUBSET (1..m)
        PROVE  Cardinality(I \cup {m + 1}) = Cardinality(I) + 1 /\ Cardinality(I) \in Nat
    BY <2>1, FS_AddElement, FS_CardinalityType
  <2>3. ASSUME NEW I \in SUBSET (1..m)
        PROVE  /\ PartSum(values, n, I) \in Int
               /\ PartSum(values, n, I \cup {m + 1}) = PartSum(values, n, I) + v
    BY <1>1, <2>1, PartIsRow, PartSumAdds
  <2> QED
    BY <2>1, <2>2, <2>3
<1>3. \A I \in Less : I \in SUBSET (1..m) /\ Cardinality(I) + 1 = k /\ PartSum(values, n, I) + v = t
  BY <1>1 DEF Picks
<1>4. \A I \in Less : f[I] = I \cup {m + 1} /\ f[I] \in Picks(values, n, m + 1, k, t)
  BY <1>2, <1>3 DEF Picks
<1>5. Old \subseteq Picks(values, n, m + 1, k, t)
  BY <1>2 DEF Picks
<1>6. ASSUME NEW J \in Picks(values, n, m + 1, k, t) PROVE J \in Old \cup New
  <2>1. J \in SUBSET (1..(m + 1)) /\ Cardinality(J) = k /\ PartSum(values, n, J) = t
    BY DEF Picks
  <2>2. CASE m + 1 \notin J
    <3>1. J \in SUBSET (1..m)
      BY <2>1, <2>2
    <3> QED
      BY <2>1, <3>1 DEF Picks
  <2>3. CASE m + 1 \in J
    <3> DEFINE I == J \ {m + 1}
    <3>1. I \in SUBSET (1..m) /\ J = I \cup {m + 1}
      BY <2>1, <2>3
    <3> HIDE DEF I
    <3>2. Cardinality(I) \in Nat /\ Cardinality(I) + 1 = k /\ PartSum(values, n, I) + v = t
          /\ PartSum(values, n, I) \in Int
      BY <1>2, <2>1, <3>1
    <3>3. k > 0 /\ Cardinality(I) = k - 1 /\ PartSum(values, n, I) = t - v
      BY <1>1, <3>2
    <3>4. I \in Less
      BY <3>1, <3>3 DEF Picks
    <3>5. f[I] = J
      BY <3>1, <3>4
    <3> QED
      BY <3>4, <3>5
  <2> QED
    BY <2>2, <2>3
<1>7. Old \cap New = {}
  <2>1. \A I \in Old : m + 1 \notin I
    BY <1>2 DEF Picks
  <2>2. \A J \in New : m + 1 \in J
    BY <1>4
  <2> QED
    BY <2>1, <2>2
<1>8. IsFiniteSet(Old) /\ IsFiniteSet(Less)
  BY PicksAreFinite, FS_EmptySet
<1>9. IsFiniteSet(New) /\ Cardinality(New) = Cardinality(Less)
  <2>1. f = [I \in Less |-> f[I]]
    OBVIOUS
  <2>2. \A I, J \in Less : f[I] = f[J] => I = J
    <3>1. ASSUME NEW I \in Less, NEW J \in Less, f[I] = f[J] PROVE I = J
      <4>1. I \cup {m + 1} = J \cup {m + 1} /\ m + 1 \notin I /\ m + 1 \notin J
        BY <1>2, <1>3, <1>4, <3>1
      <4> QED
        BY <4>1
    <3> QED
      BY <3>1
  <2> HIDE DEF f, Less
  <2>3. f \in Injection(Less, New) /\ f \in Surjection(Less, New)
    BY <2>1, <2>2 DEF Injection, Surjection, IsInjective
  <2> HIDE DEF New
  <2> QED
    BY <1>8, <2>3, FS_Surjection
<1>10. Picks(values, n, m + 1, k, t) = Old \cup New
  <2>1. New \subseteq Picks(values, n, m + 1, k, t)
    BY <1>4
  <2> HIDE DEF Old, New
  <2> QED
    BY <1>5, <1>6, <2>1
<1>11. Cardinality(Old \cup New) = Cardinality(Old) + Cardinality(New)
  <2> HIDE DEF Old, New
  <2>1. Cardinality(Old \cup New) = Cardinality(Old) + Cardinality(New) - Cardinality({})
    BY <1>7, <1>8, <1>9, FS_Union
  <2>2. Cardinality(Old) \in Nat /\ Cardinality(New) \in Nat
    BY <1>8, <1>9, FS_CardinalityType
  <2> QED
    BY <2>1, <2>2, FS_EmptySet
<1>12. Cardinality(Less)
       = IF k > 0 THEN Cardinality(Picks(values, n, m, k - 1, t - v)) ELSE 0
  BY FS_EmptySet
<1> QED
  <2> HIDE DEF Old, New, Less
  <2>1. Cardinality(Picks(values, n, m + 1, k, t)) = Cardinality(Old) + Cardinality(Less)
    BY <1>9, <1>10, <1>11
  <2> QED
    BY <1>12, <2>1 DEF Old

\* Every table of the fold counts the ways to choose, size by size and sum by sum:
\* each row is extended from the row as it was before the value.
LEMMA TablesCountPicks ==
    ASSUME NEW n \in Nat, NEW values, IsRow(values, n), NEW choose \in Nat,
           NEW h, Tables(h, values, n, choose)
    PROVE  \A m \in 0..n : \A k \in 0..choose : \A t \in Reach(values) :
              h[m][k][t] = Cardinality(Picks(values, n, m, k, t))
<1> DEFINE reach == Reach(values)
           Right(m) == \A k \in 0..choose : \A t \in reach :
                          h[m][k][t] = Cardinality(Picks(values, n, m, k, t))
           good == {m \in Nat : m <= n => Right(m)}
<1>1. reach \in SUBSET Int /\ \A I : PartSum(values, n, I) \in reach
  BY ReachIsEnough
<1> HIDE DEF reach
<1>2. 0 \in good
  <2>1. ASSUME NEW k \in 0..choose, NEW t \in reach
        PROVE  h[0][k][t] = Cardinality(Picks(values, n, 0, k, t))
    <3>1. h[0][k][t] = IF k = 0 /\ t = 0 THEN 1 ELSE 0
      BY DEF Tables, reach
    <3> QED
      BY <3>1, PicksOfNone
  <2> QED
    BY <2>1
<1>3. ASSUME NEW m \in Nat, m \in good PROVE m + 1 \in good
  <2>1. ASSUME m + 1 <= n, NEW k \in 0..choose, NEW t \in reach
        PROVE  h[m + 1][k][t] = Cardinality(Picks(values, n, m + 1, k, t))
    <3> DEFINE v == values[m + 1]
    <3>1. m + 1 \in 1..n /\ (m + 1) - 1 = m /\ m \in 0..n /\ v \in Int /\ t \in Int
      BY <1>1, <2>1 DEF IsRow
    <3>2. Right(m)
      BY <1>3, <2>1
    <3>3. h[m + 1] = Extend(h[m], v, choose, reach)
      BY <3>1 DEF Tables, reach
    <3> HIDE DEF v
    <3>4. h[m + 1][k][t]
          = h[m][k][t] + (IF k > 0 /\ (t - v) \in reach THEN h[m][k - 1][t - v] ELSE 0)
      BY <3>3 DEF Extend
    <3>5. h[m][k][t] = Cardinality(Picks(values, n, m, k, t))
      BY <3>2
    <3>6. Cardinality(Picks(values, n, m + 1, k, t))
          = Cardinality(Picks(values, n, m, k, t))
            + (IF k > 0 THEN Cardinality(Picks(values, n, m, k - 1, t - v)) ELSE 0)
      BY <2>1, <3>1, PicksStep DEF v
    <3>7. CASE k > 0 /\ (t - v) \in reach
      <4>1. k - 1 \in 0..choose
        BY <3>7
      <4>2. h[m][k - 1][t - v] = Cardinality(Picks(values, n, m, k - 1, t - v))
        BY <3>2, <3>7, <4>1
      <4> QED
        BY <3>4, <3>5, <3>6, <3>7, <4>2
    <3>8. CASE k > 0 /\ (t - v) \notin reach
      <4>1. Picks(values, n, m, k - 1, t - v) = {}
        BY <1>1, <3>8 DEF Picks
      <4> QED
        BY <3>4, <3>5, <3>6, <3>8, <4>1, FS_EmptySet
    <3>9. CASE ~(k > 0)
      BY <3>4, <3>5, <3>6, <3>9
    <3> QED
      BY <3>7, <3>8, <3>9
  <2> QED
    BY <2>1
<1>4. Nat \subseteq good
  <2> HIDE DEF good
  <2> QED
    BY <1>2, <1>3, CountingUp
<1>5. ASSUME NEW m \in 0..n PROVE Right(m)
  BY <1>4
<1> QED
  BY <1>5 DEF reach

\* subset_sum_counts counts, for every sum, the subsets of `choose` values that
\* have it.
LEMMA SubsetSumsCount ==
    ASSUME NEW n \in Nat, NEW values, IsRow(values, n), NEW choose \in Nat, NEW t \in Reach(values)
    PROVE  SubsetSums(values, choose)[t] = Cardinality(Picks(values, n, n, choose, t))
<1>1. PICK h : Tables(h, values, n, choose) /\ SubsetSums(values, choose) = h[n][choose]
  BY SubsetSumsByTables
<1>2. n \in 0..n /\ choose \in 0..choose
  OBVIOUS
<1> QED
  BY <1>1, <1>2, TablesCountPicks

\* The sets of the members together.
Joined(A, S) == UNION {A[t] : t \in S}

\* Counts of disjoint finite sets, added over a finite set, count them together.
LEMMA SumOverCounts ==
    ASSUME NEW S, IsFiniteSet(S), NEW f, NEW A,
           \A t \in S : IsFiniteSet(A[t]) /\ f[t] = Cardinality(A[t]),
           \A t, u \in S : t # u => A[t] \cap A[u] = {}
    PROVE  SumOver(f, S) = Cardinality(Joined(A, S))
<1> DEFINE IsFold(g) == g = [s \in SUBSET S |-> IF s = {} THEN 0
                               ELSE LET x == CHOOSE x \in s : TRUE IN f[x] + g[s \ {x}]]
           pick == [s \in SUBSET S |-> CHOOSE x \in s : TRUE]
           step == [x \in S |-> [sum \in Int |-> f[x] + sum]]
<1>1. SumOver(f, S) = (CHOOSE g : IsFold(g))[S]
  BY Zenon DEF SumOver, FoldFunctionOnSet, MapThenFoldSet
<1>2. \A T \in SUBSET S : T # {} => pick[T] \in T
  OBVIOUS
<1>3. \A x \in S : f[x] \in Int
  BY FS_CardinalityType
<1>4. \A x \in S, sum \in Int : step[x][sum] \in Int
  BY <1>3
<1>5. PICK g : g \in [SUBSET S -> Int] /\ Folds(g, S, 0, pick, step)
  <2> HIDE DEF pick, step
  <2>1. CanFold(S, Int, 0, pick, step)
    BY <1>2, <1>4 DEF CanFold
  <2>2. HasFold(S, Int, 0, pick, step)
    BY <2>1, FoldExists
  <2> QED
    BY <2>2 DEF HasFold
<1>6. ASSUME NEW s \in SUBSET S
      PROVE  g[s] = IF s = {} THEN 0 ELSE f[pick[s]] + g[s \ {pick[s]}]
  <2>1. CASE s = {}
    BY <2>1, <1>5 DEF Folds
  <2>2. CASE s # {}
    <3>1. g[s] = step[pick[s]][g[s \ {pick[s]}]]
      BY <2>2, <1>5 DEF Folds
    <3>2. pick[s] \in S /\ s \ {pick[s]} \in SUBSET S
      BY <1>2, <2>2
    <3>3. g[s \ {pick[s]}] \in Int
      BY <1>5, <3>2
    <3>4. step[pick[s]][g[s \ {pick[s]}]] = f[pick[s]] + g[s \ {pick[s]}]
      BY <3>2, <3>3
    <3> HIDE DEF pick, step
    <3> QED
      BY <2>2, <3>1, <3>4
  <2> QED
    BY <2>1, <2>2
<1>7. IsFold(g)
  <2>1. g = [s \in SUBSET S |-> g[s]]
    BY <1>5
  <2>2. \A s \in SUBSET S : pick[s] = CHOOSE x \in s : TRUE
    OBVIOUS
  <2>3. \A s \in SUBSET S : g[s] = IF s = {} THEN 0
                               ELSE LET x == CHOOSE x \in s : TRUE IN f[x] + g[s \ {x}]
    BY <1>6, <2>2, Zenon
  <2> QED
    BY <2>1, <2>3, Zenon
<1>8. IsFold(CHOOSE h : IsFold(h))
  <2> HIDE DEF IsFold
  <2> QED
    BY <1>7, Zenon
<1>9. PICK h : IsFold(h) /\ SumOver(f, S) = h[S]
  BY <1>1, <1>8, Zenon
<1>10. \A s \in SUBSET S : h[s] = IF s = {} THEN 0 ELSE f[pick[s]] + h[s \ {pick[s]}]
  <2>1. \A s \in SUBSET S : pick[s] = CHOOSE x \in s : TRUE
    OBVIOUS
  <2>2. \A s \in SUBSET S : h[s] = IF s = {} THEN 0
                               ELSE LET x == CHOOSE x \in s : TRUE IN f[x] + h[s \ {x}]
    BY <1>9
  <2> HIDE DEF pick
  <2> QED
    BY <2>1, <2>2, ZenonT(60)
<1> HIDE DEF pick, step
<1> DEFINE Right(s) == IsFiniteSet(Joined(A, s)) /\ h[s] = Cardinality(Joined(A, s))
           good == {m \in Nat : \A s \in SUBSET S : Cardinality(s) = m => Right(s)}
<1>11. \A s \in SUBSET S : IsFiniteSet(s) /\ Cardinality(s) \in Nat
  BY FS_Subset, FS_CardinalityType
<1>12. 0 \in good
  <2>1. ASSUME NEW s \in SUBSET S, Cardinality(s) = 0 PROVE Right(s)
    <3>1. s = {}
      BY <1>11, <2>1, FS_EmptySet
    <3>2. Joined(A, s) = {}
      BY <3>1 DEF Joined
    <3> QED
      BY <1>10, <3>1, <3>2, FS_EmptySet
  <2> QED
    BY <2>1
<1>13. ASSUME NEW m \in Nat, m \in good PROVE m + 1 \in good
  <2>1. ASSUME NEW s \in SUBSET S, Cardinality(s) = m + 1 PROVE Right(s)
    <3> DEFINE x == pick[s]
               rest == s \ {x}
    <3>1. s # {}
      <4>1. Cardinality({}) = 0 /\ m + 1 # 0
        BY FS_EmptySet
      <4> QED
        BY <2>1, <4>1
    <3>2. x \in s /\ x \in S /\ rest \in SUBSET S /\ x \notin rest /\ s = rest \cup {x}
      BY <1>2, <3>1
    <3>3. Cardinality(rest) = m
      <4>1. Cardinality(s \ {x}) = Cardinality(s) - 1
        BY <1>11, <3>2, FS_RemoveElement
      <4> QED
        BY <2>1, <4>1
    <3>4. h[s] = f[x] + h[rest]
      BY <1>10, <3>1
    <3> HIDE DEF x, rest
    <3>5. Right(rest)
      BY <1>13, <3>2, <3>3
    <3>6. Joined(A, s) = Joined(A, rest) \cup A[x]
      BY <3>2 DEF Joined
    <3>7. Joined(A, rest) \cap A[x] = {}
      <4>1. \A t \in rest : t \in S /\ t # x
        BY <3>2
      <4> QED
        BY <3>2, <4>1 DEF Joined
    <3>8. IsFiniteSet(A[x]) /\ f[x] = Cardinality(A[x])
      BY <3>2
    <3> DEFINE X == Joined(A, rest)
               Y == A[x]
    <3>9. IsFiniteSet(X) /\ IsFiniteSet(Y) /\ X \cap Y = {} /\ h[rest] = Cardinality(X)
          /\ f[x] = Cardinality(Y) /\ Joined(A, s) = X \cup Y
      BY <3>5, <3>6, <3>7, <3>8
    <3> HIDE DEF X, Y
    <3>10. /\ IsFiniteSet(X \cup Y)
           /\ Cardinality(X \cup Y) = Cardinality(X) + Cardinality(Y) - Cardinality(X \cap Y)
      BY <3>9, FS_Union
    <3>11. Cardinality(X) \in Nat /\ Cardinality(Y) \in Nat /\ Cardinality(X \cap Y) = 0
      BY <3>9, FS_CardinalityType, FS_EmptySet
    <3> QED
      BY <3>4, <3>9, <3>10, <3>11
  <2> QED
    BY <2>1
<1>14. Nat \subseteq good
  <2> HIDE DEF good
  <2> QED
    BY <1>12, <1>13, CountingUp
<1>15. Right(S)
  <2>1. Cardinality(S) \in good /\ S \in SUBSET S
    BY <1>11, <1>14
  <2> QED
    BY <2>1
<1> QED
  BY <1>9, <1>15

\* The places of the blocks a sign puts in slot 2.
Plus(n, y) == {i \in 1..n : y[i] = 1}

SignsOf(n, I) == [i \in 1..n |-> IF i \in I THEN 1 ELSE -1]

\* A sign for every block is a set of blocks, and the other way round.
LEMMA SignsArePlaces ==
    ASSUME NEW n \in Nat
    PROVE  /\ \A y \in [1..n -> {1, -1}] : Plus(n, y) \in SUBSET (1..n) /\ SignsOf(n, Plus(n, y)) = y
           /\ \A I \in SUBSET (1..n) : /\ SignsOf(n, I) \in [1..n -> {1, -1}]
                                       /\ Plus(n, SignsOf(n, I)) = I
<1>1. ASSUME NEW y \in [1..n -> {1, -1}]
      PROVE  Plus(n, y) \in SUBSET (1..n) /\ SignsOf(n, Plus(n, y)) = y
  BY DEF Plus, SignsOf
<1>2. ASSUME NEW I \in SUBSET (1..n)
      PROVE  SignsOf(n, I) \in [1..n -> {1, -1}] /\ Plus(n, SignsOf(n, I)) = I
  <2>1. \A i \in 1..n : SignsOf(n, I)[i] = IF i \in I THEN 1 ELSE -1
    BY DEF SignsOf
  <2>2. SignsOf(n, I) \in [1..n -> {1, -1}]
    BY DEF SignsOf
  <2>3. \A i \in 1..n : SignsOf(n, I)[i] = 1 <=> i \in I
    BY <2>1
  <2> QED
    BY <2>2, <2>3 DEF Plus
<1> QED
  BY <1>1, <1>2

\* The signs add up to zero when half of them are positive.
LEMMA SignsTotal ==
    ASSUME NEW n \in Nat, NEW y \in [1..n -> {1, -1}]
    PROVE  /\ Total(y) = Cardinality(Plus(n, y)) + Cardinality(Plus(n, y)) - n
           /\ Cardinality(Plus(n, y)) \in Nat
<1> DEFINE a == [i \in 1..n |-> IF i \in Plus(n, y) THEN 1 ELSE 0]
           b == [i \in 1..n |-> 1]
<1>1. IsRow(y, n) /\ IsRow(a, n) /\ IsRow(b, n)
  BY DEF IsRow
<1>2. \A i \in 1..n : y[i] = a[i] + a[i] - b[i]
  BY DEF Plus
<1>3. Total(a) = Cardinality(Plus(n, y))
  BY CountOf DEF Plus
<1>4. Total(b) = n
  <2>1. \A i \in 1..n : b[i] = 1
    OBVIOUS
  <2> HIDE DEF b
  <2> QED
    BY <1>1, <2>1, TotalOfOnes
<1>5. Total(y) = Total(a) + Total(a) - Total(b)
  <2> HIDE DEF a, b
  <2> QED
    BY <1>1, <1>2, TotalIsLinear
<1>6. Cardinality(Plus(n, y)) \in Nat
  <2>1. IsFiniteSet(1..n) /\ Plus(n, y) \in SUBSET (1..n)
    BY FS_Interval DEF Plus
  <2> QED
    BY <2>1, FS_Subset, FS_CardinalityType
<1> QED
  BY <1>3, <1>4, <1>5, <1>6

\* The signed total is twice the selected sum less the whole.
LEMMA SignedTotal ==
    ASSUME NEW n \in Nat, NEW values, IsRow(values, n), NEW y \in [1..n -> {1, -1}]
    PROVE  Total([i \in 1..n |-> y[i] * values[i]])
           = PartSum(values, n, Plus(n, y)) + PartSum(values, n, Plus(n, y)) - Total(values)
<1> DEFINE a == Part(values, n, Plus(n, y))
           c == [i \in 1..n |-> y[i] * values[i]]
<1>1. \A i \in 1..n : values[i] \in Int /\ y[i] \in {1, -1}
  BY DEF IsRow
<1>2. ASSUME NEW i \in 1..n PROVE c[i] = a[i] + a[i] - values[i] /\ c[i] \in Int
  <2>1. values[i] \in Int /\ c[i] = y[i] * values[i]
    BY <1>1
  <2>2. CASE y[i] = 1
    <3>1. a[i] = values[i]
      BY <2>2 DEF Part, Plus
    <3> QED
      BY <2>1, <2>2, <3>1
  <2>3. CASE y[i] = -1
    <3>1. a[i] = 0
      BY <2>3 DEF Part, Plus
    <3> QED
      BY <2>1, <2>3, <3>1
  <2> QED
    BY <1>1, <2>2, <2>3
<1>3. IsRow(a, n) /\ IsRow(c, n)
  <2>1. c = [i \in 1..n |-> c[i]]
    OBVIOUS
  <2> HIDE DEF c
  <2> QED
    BY <1>2, <2>1, PartIsRow DEF IsRow
<1> HIDE DEF a, c
<1>4. Total(c) = Total(a) + Total(a) - Total(values)
  BY <1>2, <1>3, TotalIsLinear
<1> QED
  BY <1>4 DEF a, c, PartSum

\* The sums a balanced choice may have with the property named by G.
LEMMA BalancedCount ==
    ASSUME NEW n \in Nat, n % 2 = 0, NEW values, IsRow(values, n),
           NEW G \in SUBSET Reach(values)
    PROVE  SumOver(SubsetSums(values, n \div 2), G)
           = Cardinality({y \in [1..n -> {1, -1}] : Total(y) = 0
                                                    /\ PartSum(values, n, Plus(n, y)) \in G})
<1> DEFINE half == n \div 2
           A == [t \in G |-> Picks(values, n, n, half, t)]
           signs == {y \in [1..n -> {1, -1}] : Total(y) = 0
                                               /\ PartSum(values, n, Plus(n, y)) \in G}
           f == [y \in signs |-> Plus(n, y)]
<1>1. half \in Nat /\ n = half + half
  BY Z3
<1> HIDE DEF half
<1>2. IsFiniteSet(G)
  BY ReachIsEnough, FS_Subset
<1>3. \A t \in G : IsFiniteSet(A[t]) /\ SubsetSums(values, half)[t] = Cardinality(A[t])
  BY <1>1, PicksAreFinite, SubsetSumsCount
<1>4. \A t, u \in G : t # u => A[t] \cap A[u] = {}
  BY DEF Picks
<1>5. Joined(A, G) = {I \in SUBSET (1..n) : Cardinality(I) = half /\ PartSum(values, n, I) \in G}
  BY DEF Joined, Picks
<1>6. SumOver(SubsetSums(values, half), G) = Cardinality(Joined(A, G))
  <2> HIDE DEF A
  <2> QED
    BY <1>2, <1>3, <1>4, SumOverCounts
<1> HIDE DEF A
<1>7. \A y \in [1..n -> {1, -1}] : Total(y) = 0 <=> Cardinality(Plus(n, y)) = half
  <2>1. ASSUME NEW y \in [1..n -> {1, -1}]
        PROVE  Total(y) = 0 <=> Cardinality(Plus(n, y)) = half
    BY <1>1, SignsTotal
  <2> QED
    BY <2>1
<1>8. \A y \in signs : f[y] = Plus(n, y) /\ f[y] \in Joined(A, G)
  BY <1>5, <1>7, SignsArePlaces
<1>9. \A I \in Joined(A, G) : \E y \in signs : f[y] = I
  <2>1. ASSUME NEW I \in Joined(A, G)
        PROVE  SignsOf(n, I) \in signs /\ f[SignsOf(n, I)] = I
    BY <1>5, <1>7, SignsArePlaces
  <2> QED
    BY <2>1
<1>10. \A y, z \in signs : f[y] = f[z] => y = z
  <2>1. ASSUME NEW y \in signs, NEW z \in signs, f[y] = f[z] PROVE y = z
    <3>1. Plus(n, y) = Plus(n, z) /\ SignsOf(n, Plus(n, y)) = y /\ SignsOf(n, Plus(n, z)) = z
      BY <2>1, SignsArePlaces
    <3> QED
      BY <3>1
  <2> QED
    BY <2>1
<1>11. f = [y \in signs |-> f[y]]
  OBVIOUS
<1>12. IsFiniteSet(Joined(A, G))
  <2>1. IsFiniteSet(SUBSET (1..n))
    <3>1. 1 \in Int /\ n \in Int
      OBVIOUS
    <3>2. IsFiniteSet(1..n)
      BY <3>1, FS_Interval, Zenon
    <3> QED
      BY <3>2, FS_SUBSET
  <2> QED
    BY <1>5, <2>1, FS_Subset
<1> HIDE DEF f, signs
<1>13. f \in Injection(signs, Joined(A, G)) /\ f \in Surjection(signs, Joined(A, G))
  BY <1>8, <1>9, <1>10, <1>11 DEF Injection, Surjection, IsInjective
<1>14. Cardinality(signs) = Cardinality(Joined(A, G))
  BY <1>12, <1>13, FS_Injection
<1> QED
  BY <1>6, <1>14 DEF signs, half

\* randomization_p_value counts subset sums; visiting every balanced assignment
\* gives the same statistic, the same size of the space and the same number of
\* assignments at least as extreme, for any even number of blocks, any differences
\* and any assignment that was drawn.
THEOREM RandomizationIsExact ==
    ASSUME NEW n \in Nat, n % 2 = 0, NEW diffs, IsRow(diffs, n), NEW z \in [1..n -> {1, -1}]
    PROVE  Randomization(diffs, z) = ByEnumeration(diffs, z)
<1> DEFINE reach == Reach(diffs)
           counts == SubsetSums(diffs, n \div 2)
           T(y) == Magnitude(Total([b \in 1..n |-> y[b] * diffs[b]]))
           signs == {y \in [1..n -> {1, -1}] : Total(y) = 0}
           far == {t \in reach : Magnitude(2 * t - Total(diffs)) >= T(z)}
<1>1. DOMAIN diffs = 1..n /\ Len(diffs) = n
  BY DEF IsRow
<1>2. Randomization(diffs, z) = [statistic |-> T(z), space |-> SumOver(counts, reach),
                                 beyond |-> SumOver(counts, far)]
  BY <1>1, Zenon DEF Randomization
<1>3. ByEnumeration(diffs, z) = [statistic |-> T(z), space |-> Cardinality(signs),
                                 beyond |-> Cardinality({y \in signs : T(y) >= T(z)})]
  BY <1>1, Zenon DEF ByEnumeration
<1>4. SumOver(counts, reach) = Cardinality(signs)
  <2>1. signs = {y \in [1..n -> {1, -1}] : Total(y) = 0 /\ PartSum(diffs, n, Plus(n, y)) \in reach}
    BY ReachIsEnough
  <2> QED
    BY <2>1, BalancedCount
<1>5. SumOver(counts, far) = Cardinality({y \in signs : T(y) >= T(z)})
  <2>1. ASSUME NEW y \in [1..n -> {1, -1}]
        PROVE  T(y) >= T(z) <=> PartSum(diffs, n, Plus(n, y)) \in far
    <3> DEFINE t == PartSum(diffs, n, Plus(n, y))
    <3>1. t \in reach /\ t \in Int /\ Total(diffs) \in Int
      BY ReachIsEnough, PartIsRow, TotalIsInt
    <3>2. Total([b \in 1..n |-> y[b] * diffs[b]]) = t + t - Total(diffs)
      BY SignedTotal
    <3> HIDE DEF t
    <3>3. t + t - Total(diffs) = 2 * t - Total(diffs)
      BY <3>1
    <3>4. T(y) = Magnitude(2 * t - Total(diffs))
      BY <3>2, <3>3
    <3> HIDE DEF T
    <3>5. t \in far <=> Magnitude(2 * t - Total(diffs)) >= T(z)
      BY <3>1
    <3> QED
      BY <3>4, <3>5 DEF t
  <2>2. {y \in signs : T(y) >= T(z)}
        = {y \in [1..n -> {1, -1}] : Total(y) = 0 /\ PartSum(diffs, n, Plus(n, y)) \in far}
    <3> HIDE DEF T, far
    <3> QED
      BY <2>1
  <2>3. far \in SUBSET reach
    OBVIOUS
  <2> HIDE DEF far, T, signs
  <2>4. SumOver(SubsetSums(diffs, n \div 2), far)
        = Cardinality({y \in [1..n -> {1, -1}] : Total(y) = 0
                                                 /\ PartSum(diffs, n, Plus(n, y)) \in far})
    BY <2>3, BalancedCount
  <2> QED
    BY <2>2, <2>4
<1> QED
  BY <1>2, <1>3, <1>4, <1>5

-----------------------------------------------------------------------------
(* Verified reports *)

\* The outcomes that disagree with their anchor, and the cases they are of.
Apart(outcomes, arm) == {o \in outcomes : o[arm] # o.anchor}
Rows(cases, out) == {out[c] : c \in cases}
CasesApart(cases, out, arm) == {c \in cases : out[c][arm] # out[c].anchor}

\* The outcomes of one block: out[c] is what its case c became.
LEMMA BlockCounts ==
    ASSUME NEW cases, IsFiniteSet(cases), NEW out, NEW arm,
           \A c \in cases : out[c].case = c
    PROVE  /\ IsFiniteSet(Apart(Rows(cases, out), arm))
           /\ Cardinality(Apart(Rows(cases, out), arm)) = Cardinality(CasesApart(cases, out, arm))
<1> DEFINE A == Apart(Rows(cases, out), arm)
           C == CasesApart(cases, out, arm)
           f == [c \in C |-> out[c]]
<1>1. IsFiniteSet(C)
  BY FS_Subset DEF CasesApart
<1>2. \A c \in C : f[c] = out[c] /\ out[c] \in A
  BY DEF CasesApart, Rows, Apart
<1>3. \A o \in A : \E c \in C : f[c] = o
  BY DEF CasesApart, Rows, Apart
<1>4. \A c, d \in C : f[c] = f[d] => c = d
  BY <1>2 DEF CasesApart
<1>5. f \in [C -> A]
  BY <1>2
<1> HIDE DEF f, A, C
<1>6. f \in Surjection(C, A) /\ f \in Injection(C, A)
  BY <1>3, <1>4, <1>5 DEF Surjection, Injection, IsInjective
<1>7. IsFiniteSet(A) /\ Cardinality(A) = Cardinality(C)
  BY <1>1, <1>6, FS_Surjection
<1> QED
  BY <1>7 DEF A, C

\* An outcome names its block and its case.
Labelled(n, deal, out) ==
    \A b \in 1..n : IsFiniteSet(deal[b]) /\ \A c \in deal[b] : out[b][c].block = b /\ out[b][c].case = c

Gathered(n, deal, out) == UNION {Rows(deal[b], out[b]) : b \in 1..n}

MissedIn(deal, out, arm, b) == Cardinality(CasesApart(deal[b], out[b], arm))

\* The outcomes that name a block are those of its cases.
LEMMA BlockIsGathered ==
    ASSUME NEW n \in Nat, NEW deal, NEW out, Labelled(n, deal, out), NEW b \in 1..n
    PROVE  {o \in Gathered(n, deal, out) : o.block = b} = Rows(deal[b], out[b])
<1>1. \A d \in 1..n : \A o \in Rows(deal[d], out[d]) : o.block = d
  BY DEF Labelled, Rows
<1> QED
  BY <1>1 DEF Gathered

\* Disagreements counted over all outcomes are those of the blocks added up, and
\* those of one block are its cases that disagree.
LEMMA DisagreementsCount ==
    ASSUME NEW n \in Nat, NEW deal, NEW out, Labelled(n, deal, out), NEW arm
    PROVE  /\ \A b \in 1..n : MissedIn(deal, out, arm, b) \in Nat
           /\ \A b \in 1..n : Disagreements({o \in Gathered(n, deal, out) : o.block = b}, arm)
                                = MissedIn(deal, out, arm, b)
           /\ Disagreements(Gathered(n, deal, out), arm)
                = Total([b \in 1..n |-> MissedIn(deal, out, arm, b)])
<1> DEFINE A == [b \in 1..n |-> Apart(Rows(deal[b], out[b]), arm)]
<1>1. ASSUME NEW b \in 1..n
      PROVE  IsFiniteSet(A[b]) /\ Cardinality(A[b]) = MissedIn(deal, out, arm, b)
  <2>1. IsFiniteSet(deal[b]) /\ \A c \in deal[b] : out[b][c].case = c
    BY DEF Labelled
  <2> QED
    BY <2>1, BlockCounts DEF MissedIn
<1>2. \A b, c \in 1..n : b # c => A[b] \cap A[c] = {}
  <2>1. \A b \in 1..n : \A o \in A[b] : o.block = b
    BY DEF Labelled, Rows, Apart
  <2> HIDE DEF A
  <2> QED
    BY <2>1
<1>3. UpTo(A, n) = Apart(Gathered(n, deal, out), arm)
  BY DEF UpTo, Apart, Gathered
<1>4. \A b \in 1..n : MissedIn(deal, out, arm, b) \in Nat
  <2> HIDE DEF A
  <2> QED
    BY <1>1, FS_CardinalityType
<1>5. \A outcomes : Disagreements(outcomes, arm) = Cardinality(Apart(outcomes, arm))
  BY DEF Disagreements, Apart
<1>6. \A b \in 1..n : Disagreements({o \in Gathered(n, deal, out) : o.block = b}, arm)
                        = MissedIn(deal, out, arm, b)
  BY <1>1, <1>5, BlockIsGathered
<1>7. [b \in 1..n |-> Cardinality(A[b])] = [b \in 1..n |-> MissedIn(deal, out, arm, b)]
  <2> HIDE DEF A
  <2> QED
    BY <1>1
<1> HIDE DEF A
<1>8. Total([b \in 1..n |-> Cardinality(A[b])]) = Cardinality(UpTo(A, n))
  BY <1>1, <1>2, TotalCounts
<1> QED
  BY <1>3, <1>4, <1>5, <1>6, <1>7, <1>8

\* What a report is computed from: every arm's verdicts, seen case by case.
SeenIn(verdict, refs, b, arm, c) ==
    LET rows == verdict[RunIn(refs, <<b, arm>>)] IN c \in DOMAIN rows /\ rows[c] = "pass"

OutcomeOf(verdict, refs, b, c) ==
    [case |-> c, block |-> b,
     anchor    |-> SeenIn(verdict, refs, b, "anchor", c),
     treatment |-> SeenIn(verdict, refs, b, "treatment", c),
     repeat    |-> SeenIn(verdict, refs, b, "repeat", c)]

OutcomesOf(verdict, refs, deal) ==
    UNION {{OutcomeOf(verdict, refs, b, c) : c \in deal[b]} : b \in BlockIds}

\* The cases of a block that two arms' runs scored differently.
MissedBy(verdict, refs, deal, b, arm) ==
    Cardinality({c \in deal[b] :
        (verdict[RunIn(refs, <<b, arm>>)][c] = "pass")
          # (verdict[RunIn(refs, <<b, "anchor">>)][c] = "pass")})

\* _recompute_report analyses the outcomes seen through the named runs.
LEMMA ReportIsOfOutcomes ==
    ASSUME NEW refs, NEW verdict, NEW deal
    PROVE  LET outcomes == OutcomesOf(verdict, refs, deal)
               report   == ReportOf(refs, verdict, deal, Draw)
           IN  /\ report.estimand.v = Disagreements(outcomes, "treatment")
               /\ report.estimand.r = Disagreements(outcomes, "repeat")
               /\ report.test = Randomization(SlotDifferences(outcomes, Draw),
                                              [b \in BlockIds |-> Sign(Draw[b])])
<1> DEFINE outcomes == OutcomesOf(verdict, refs, deal)
           report   == ReportOf(refs, verdict, deal, Draw)
<1>1. report = [estimand |-> Estimand(outcomes),
                test |-> Randomization(SlotDifferences(outcomes, Draw), [b \in BlockIds |-> Sign(Draw[b])])]
  BY Zenon DEF ReportOf, OutcomesOf, OutcomeOf, SeenIn
<1> HIDE DEF outcomes, report
<1>2. /\ report.estimand = Estimand(outcomes)
      /\ report.test = Randomization(SlotDifferences(outcomes, Draw), [b \in BlockIds |-> Sign(Draw[b])])
  BY <1>1
<1>3. /\ Estimand(outcomes).v = Disagreements(outcomes, "treatment")
      /\ Estimand(outcomes).r = Disagreements(outcomes, "repeat")
  BY DEF Estimand
<1> QED
  BY <1>2, <1>3, Zenon DEF outcomes, report

\* An outcome names its case and block and says what each arm's run scored.
LEMMA OutcomeFields ==
    ASSUME NEW verdict, NEW refs, NEW b, NEW c
    PROVE  /\ OutcomeOf(verdict, refs, b, c).case = c
           /\ OutcomeOf(verdict, refs, b, c).block = b
           /\ OutcomeOf(verdict, refs, b, c).anchor = SeenIn(verdict, refs, b, "anchor", c)
           /\ \A arm \in Arms : OutcomeOf(verdict, refs, b, c)[arm] = SeenIn(verdict, refs, b, arm, c)
<1> DEFINE seen(arm) == SeenIn(verdict, refs, b, arm, c)
           o == OutcomeOf(verdict, refs, b, c)
<1>1. o = [case |-> c, block |-> b, anchor |-> seen("anchor"), treatment |-> seen("treatment"),
           repeat |-> seen("repeat")]
  BY Zenon DEF OutcomeOf
<1> HIDE DEF seen, o
<1>2. o.case = c /\ o.block = b
  BY <1>1
<1>3. o.anchor = seen("anchor")
  BY <1>1, Zenon
<1>4. o.treatment = seen("treatment")
  BY <1>1, Zenon
<1>5. o.repeat = seen("repeat")
  BY <1>1, Zenon
<1>6. ASSUME NEW arm \in Arms PROVE o[arm] = seen(arm)
  BY <1>3, <1>4, <1>5, Zenon DEF Arms
<1> QED
  BY <1>2, <1>3, <1>6, Zenon DEF seen, o

\* What ReportIsExact asks of a report made from some verdicts.
TellsTruth(report, verdict, refs, deal) ==
    LET missed(b, arm) == MissedBy(verdict, refs, deal, b, arm)
        diffs == [b \in BlockIds |-> missed(b, Draw[b][2]) - missed(b, Draw[b][3])]
    IN  /\ report.estimand.v = Total([b \in BlockIds |-> missed(b, "treatment")])
        /\ report.estimand.r = Total([b \in BlockIds |-> missed(b, "repeat")])
        /\ report.test = ByEnumeration(diffs, [b \in BlockIds |-> Sign(Draw[b])])

\* A report made from verdicts that score exactly the cases of each block says
\* what those verdicts say, and its p-value is that of the enumeration.
LEMMA ReportCounts ==
    ASSUME NEW refs, NEW verdict, NEW deal,
           \A b \in BlockIds : IsFiniteSet(deal[b]),
           \A b \in BlockIds, arm \in Arms : DOMAIN verdict[RunIn(refs, <<b, arm>>)] = deal[b]
    PROVE  TellsTruth(ReportOf(refs, verdict, deal, Draw), verdict, refs, deal)
<1> DEFINE missed(b, arm) == MissedBy(verdict, refs, deal, b, arm)
           diffs == [b \in BlockIds |-> missed(b, Draw[b][2]) - missed(b, Draw[b][3])]
           out == [b \in BlockIds |-> [c \in deal[b] |-> OutcomeOf(verdict, refs, b, c)]]
           outcomes == OutcomesOf(verdict, refs, deal)
           z == [b \in BlockIds |-> Sign(Draw[b])]
<1>1. Blocks \in Nat /\ Blocks % 2 = 0 /\ BlockIds = 1..Blocks
  BY BlocksAreEven DEF BlockIds
<1>2. \A b \in BlockIds : \A c \in deal[b] : out[b][c] = OutcomeOf(verdict, refs, b, c)
  OBVIOUS
<1> HIDE DEF out
<1>3. Labelled(Blocks, deal, out)
  <2>1. \A b \in BlockIds : \A c \in deal[b] : out[b][c].block = b /\ out[b][c].case = c
    BY <1>2, OutcomeFields
  <2> QED
    BY <1>1, <2>1 DEF Labelled
<1>4. outcomes = Gathered(Blocks, deal, out)
  BY <1>1, <1>2 DEF OutcomesOf, Gathered, Rows
<1>5. ASSUME NEW b \in BlockIds, NEW arm \in Arms
      PROVE  MissedIn(deal, out, arm, b) = missed(b, arm)
  <2>1. "anchor" \in Arms
    BY DEF Arms
  <2>2. ASSUME NEW c \in deal[b]
        PROVE  /\ out[b][c][arm] = SeenIn(verdict, refs, b, arm, c)
               /\ out[b][c].anchor = SeenIn(verdict, refs, b, "anchor", c)
    <3>1. out[b][c] = OutcomeOf(verdict, refs, b, c)
      BY <1>2, Zenon
    <3>2. OutcomeOf(verdict, refs, b, c)[arm] = SeenIn(verdict, refs, b, arm, c)
      BY OutcomeFields
    <3>3. OutcomeOf(verdict, refs, b, c).anchor = SeenIn(verdict, refs, b, "anchor", c)
      BY OutcomeFields
    <3> QED
      BY <3>1, <3>2, <3>3, Zenon
  <2>3. ASSUME NEW c \in deal[b], NEW a \in Arms
        PROVE  SeenIn(verdict, refs, b, a, c) = (verdict[RunIn(refs, <<b, a>>)][c] = "pass")
    <3>1. c \in DOMAIN verdict[RunIn(refs, <<b, a>>)]
      BY Zenon
    <3> QED
      BY <3>1, Zenon DEF SeenIn
  <2>4. ASSUME NEW c \in deal[b]
        PROVE  (out[b][c][arm] # out[b][c].anchor)
                 <=> ((verdict[RunIn(refs, <<b, arm>>)][c] = "pass")
                        # (verdict[RunIn(refs, <<b, "anchor">>)][c] = "pass"))
    <3>1. SeenIn(verdict, refs, b, arm, c) = (verdict[RunIn(refs, <<b, arm>>)][c] = "pass")
      BY <2>3, Zenon
    <3>2. SeenIn(verdict, refs, b, "anchor", c) = (verdict[RunIn(refs, <<b, "anchor">>)][c] = "pass")
      BY <2>1, <2>3, Zenon
    <3>3. /\ out[b][c][arm] = SeenIn(verdict, refs, b, arm, c)
          /\ out[b][c].anchor = SeenIn(verdict, refs, b, "anchor", c)
      BY <2>2, Zenon
    <3> DEFINE x == out[b][c][arm]
               y == out[b][c].anchor
               p == verdict[RunIn(refs, <<b, arm>>)][c] = "pass"
               q == verdict[RunIn(refs, <<b, "anchor">>)][c] = "pass"
    <3>4. x = p /\ y = q
      BY <3>1, <3>2, <3>3, Zenon
    <3> HIDE DEF x, y, p, q
    <3>5. x # y <=> p # q
      BY <3>4, Zenon
    <3> QED
      BY <3>5, Zenon DEF x, y, p, q
  <2>5. CasesApart(deal[b], out[b], arm)
          = {c \in deal[b] : (verdict[RunIn(refs, <<b, arm>>)][c] = "pass")
                                # (verdict[RunIn(refs, <<b, "anchor">>)][c] = "pass")}
    BY <2>4, Zenon DEF CasesApart
  <2> QED
    BY <2>5, Zenon DEF MissedIn, MissedBy
<1> HIDE DEF missed, outcomes
<1>6. ASSUME NEW arm \in Arms
      PROVE  /\ Disagreements(outcomes, arm) = Total([b \in BlockIds |-> missed(b, arm)])
             /\ \A b \in BlockIds :
                   /\ missed(b, arm) \in Nat
                   /\ Disagreements({o \in outcomes : o.block = b}, arm) = missed(b, arm)
  <2>1. [b \in BlockIds |-> MissedIn(deal, out, arm, b)] = [b \in BlockIds |-> missed(b, arm)]
    BY <1>5
  <2> QED
    BY <1>1, <1>3, <1>4, <1>5, <2>1, DisagreementsCount
<1>7. \A b \in BlockIds : Draw[b][2] \in Arms /\ Draw[b][3] \in Arms /\ Sign(Draw[b]) \in {1, -1}
  BY OrdersAreComplete DEF Sign
<1>8. SlotDifferences(outcomes, Draw) = diffs
  <2>1. DOMAIN Draw = BlockIds
    BY DEF Draw
  <2>2. SlotDifferences(outcomes, Draw)
          = [b \in BlockIds |-> Disagreements({o \in outcomes : o.block = b}, Draw[b][2])
                                  - Disagreements({o \in outcomes : o.block = b}, Draw[b][3])]
    BY <2>1 DEF SlotDifferences
  <2> QED
    BY <1>6, <1>7, <2>2
<1>9. IsRow(diffs, Blocks)
  <2>1. \A b \in BlockIds : missed(b, Draw[b][2]) \in Nat /\ missed(b, Draw[b][3]) \in Nat
    BY <1>6, <1>7
  <2>2. \A b \in BlockIds : missed(b, Draw[b][2]) - missed(b, Draw[b][3]) \in Int
    BY <2>1
  <2>3. diffs \in [BlockIds -> Int]
    BY <2>2
  <2> QED
    BY <1>1, <2>3 DEF IsRow
<1>10. z \in [1..Blocks -> {1, -1}]
  BY <1>1, <1>7
<1> HIDE DEF diffs, z
<1>11. Randomization(diffs, z) = ByEnumeration(diffs, z)
  BY <1>1, <1>9, <1>10, RandomizationIsExact
<1>12. "treatment" \in Arms /\ "repeat" \in Arms
  BY DEF Arms
<1>13. LET report == ReportOf(refs, verdict, deal, Draw) IN
       /\ report.estimand.v = Disagreements(outcomes, "treatment")
       /\ report.estimand.r = Disagreements(outcomes, "repeat")
       /\ report.test = Randomization(SlotDifferences(outcomes, Draw), z)
  BY ReportIsOfOutcomes DEF outcomes, z
<1> QED
  BY <1>6, <1>8, <1>11, <1>12, <1>13 DEF TellsTruth, diffs, z, missed

\* What a block of a deal holds is of the cohort, whatever seed the lock names.
LEMMA DealIsFinite ==
    ASSUME NEW seed, NEW b \in BlockIds PROVE IsFiniteSet(Partition(Cohort, seed)[b])
<1>1. Partition(Cohort, seed)[b] \in SUBSET Cohort
  BY DEF Partition
<1> QED
  BY <1>1, CohortIsSelected, CasesAreFinite, FS_Subset

\* The directories a verification read its verdicts from hold the runs it names.
LEMMA VerifiedRunsAreNamed ==
    ASSUME RunsInv, VerifyLock, NEW b \in BlockIds, NEW arm \in Arms
    PROVE  LET k == RunIn(lock.refs, <<b, arm>>) IN
           /\ k \in Runs /\ dir[k] = ran[k]
           /\ DOMAIN ran[k].verdict = Partition(Cohort, lock.manifest.seed)[b]
<1>1. /\ lock # Nothing /\ accepted' = lock /\ UNCHANGED <<ran, lock>>
      /\ \A ref \in lock.refs : SlotLoads(lock, ref)
      /\ PopulationHolds(lock)
  BY DEF VerifyLock
<1>2. SlotsAreExact(lock.refs) /\ RefsAre(lock.refs)
  BY <1>1 DEF PopulationHolds, RunsInv, LockIs
<1>3. <<b, arm>> \in Slots
  BY DEF Slots
<1> DEFINE ref == CHOOSE r \in lock.refs : r.slot = <<b, arm>>
           k == RunIn(lock.refs, <<b, arm>>)
<1>4. ref \in lock.refs /\ k = ref.run /\ k \in Runs
  BY <1>2, <1>3, NamesAreApart DEF RunIn
<1>5. DOMAIN ran[k].verdict = Partition(Cohort, lock.manifest.seed)[b]
  <2>1. OnlyEligibleRuns'
    BY VerifiedIsEligible
  <2>2. /\ lock.partition = Partition(Cohort, lock.manifest.seed)
        /\ DOMAIN ran[k].verdict = lock.partition[b]
    BY <1>1, <2>1 DEF OnlyEligibleRuns, Named
  <2> QED
    BY <2>2
<1> HIDE DEF ref, k
<1>6. dir[k] = ran[k]
  BY <1>1, <1>4, DirectoriesAreNamed
<1> QED
  BY <1>4, <1>5, <1>6 DEF k

\* verify_protocol_lock recomputes the report from those directories.
LEMMA VerifiedIsExact == ASSUME RunsInv, VerifyLock PROVE ReportIsExact'
<1> DEFINE verdict == [k \in Runs |-> dir[k].verdict]
           deal == Partition(Cohort, lock.manifest.seed)
           lost(b, arm) == MissedBy(verdict, lock.refs, deal, b, arm)
           missed(b, arm) ==
               Cardinality({c \in deal[b] :
                   (ran[RunIn(lock.refs, <<b, arm>>)].verdict[c] = "pass")
                      # (ran[RunIn(lock.refs, <<b, "anchor">>)].verdict[c] = "pass")})
           report == ReportOf(lock.refs, verdict, deal, Draw)
<1>1. /\ lock # Nothing /\ accepted' = lock /\ UNCHANGED <<ran, dir, lock>>
      /\ PopulationHolds(lock) /\ lock.selection = Selection
      /\ lock.report = ReportOf(lock.refs, verdict, lock.partition, lock.schedule)
  BY DEF VerifyLock, RunsInv, LockIs
<1>2. lock.schedule = Draw /\ lock.partition = deal
  BY <1>1 DEF PopulationHolds, ReplaysSeeds, Cohort
<1>3. lock.report = report
  BY <1>1, <1>2
<1>4. ASSUME NEW b \in BlockIds, NEW arm \in Arms
      PROVE  LET k == RunIn(lock.refs, <<b, arm>>) IN
             verdict[k] = ran[k].verdict /\ DOMAIN verdict[k] = deal[b]
  BY VerifiedRunsAreNamed
<1>5. "anchor" \in Arms /\ "treatment" \in Arms /\ "repeat" \in Arms
  BY DEF Arms
<1>6. ASSUME NEW b \in BlockIds, NEW arm \in Arms PROVE lost(b, arm) = missed(b, arm)
  <2>1. /\ verdict[RunIn(lock.refs, <<b, arm>>)] = ran[RunIn(lock.refs, <<b, arm>>)].verdict
        /\ verdict[RunIn(lock.refs, <<b, "anchor">>)] = ran[RunIn(lock.refs, <<b, "anchor">>)].verdict
    BY <1>4, <1>5
  <2> HIDE DEF verdict, deal
  <2> QED
    BY <2>1, Zenon DEF MissedBy
<1>7. \A b \in BlockIds : IsFiniteSet(deal[b])
  BY DealIsFinite
<1>8. \A b \in BlockIds, arm \in Arms : DOMAIN verdict[RunIn(lock.refs, <<b, arm>>)] = deal[b]
  BY <1>4
<1> HIDE DEF verdict, deal
<1>9. /\ report.estimand.v = Total([b \in BlockIds |-> lost(b, "treatment")])
      /\ report.estimand.r = Total([b \in BlockIds |-> lost(b, "repeat")])
      /\ report.test = ByEnumeration([b \in BlockIds |-> lost(b, Draw[b][2]) - lost(b, Draw[b][3])],
                                     [b \in BlockIds |-> Sign(Draw[b])])
  <2>1. TellsTruth(report, verdict, lock.refs, deal)
    BY <1>7, <1>8, ReportCounts
  <2> HIDE DEF report
  <2> QED
    BY <2>1, Zenon DEF TellsTruth
<1>10. \A b \in BlockIds : Draw[b][2] \in Arms /\ Draw[b][3] \in Arms
  BY OrdersAreComplete
<1> HIDE DEF lost, missed, report
<1>11. /\ report.estimand.v = Total([b \in BlockIds |-> missed(b, "treatment")])
       /\ report.estimand.r = Total([b \in BlockIds |-> missed(b, "repeat")])
       /\ report.test = ByEnumeration([b \in BlockIds |-> missed(b, Draw[b][2]) - missed(b, Draw[b][3])],
                                      [b \in BlockIds |-> Sign(Draw[b])])
  <2>1. [b \in BlockIds |-> lost(b, "treatment")] = [b \in BlockIds |-> missed(b, "treatment")]
    BY <1>5, <1>6
  <2>2. [b \in BlockIds |-> lost(b, "repeat")] = [b \in BlockIds |-> missed(b, "repeat")]
    BY <1>5, <1>6
  <2>3. [b \in BlockIds |-> lost(b, Draw[b][2]) - lost(b, Draw[b][3])]
          = [b \in BlockIds |-> missed(b, Draw[b][2]) - missed(b, Draw[b][3])]
    BY <1>6, <1>10
  <2> QED
    BY <1>9, <2>1, <2>2, <2>3, Zenon
<1>12. accepted' = lock /\ ran' = ran
  BY <1>1
<1> QED
  BY <1>3, <1>11, <1>12, ZenonT(60) DEF ReportIsExact, Named, missed, deal

\* Nothing is executed after a verification.
LEMMA ExactKeeps ==
    ASSUME RunsInv, ReportIsExact, [ProtocolNext]_protocolVars
    PROVE  ReportIsExact'
<1>1. CASE VerifyLock
  BY <1>1, VerifiedIsExact
<1>2. CASE UNCHANGED <<ran, accepted>>
  BY <1>2, ZenonT(60) DEF ReportIsExact, Named
<1>3. CASE accepted' = Nothing
  BY <1>3, Zenon DEF ReportIsExact
<1>4. ASSUME Executed # Runs, NEW k, NEW bad, NEW p, Run(k, p, bad)
      PROVE  accepted' = Nothing
  BY <1>4 DEF Run, RunsInv
<1> QED
  BY <1>1, <1>2, <1>3, <1>4 DEF ProtocolNext, ProtocolOver, protocolVars, Freeze, BuildHonest,
     BuildMislabelled, BuildLock, CopyProof, EditLock

\* Whatever failed, was mislabelled, copied or edited on the way, a verified report
\* counts the disagreements of the runs as they were executed, and its p-value is
\* the one of all balanced assignments of the drawn schedule, for any number of
\* blocks, cases, seeds and disturbances.
THEOREM ReportsAreExact == ProtocolSpec => []ReportIsExact
<1>1. ProtocolInit => ReportIsExact
  BY DEF ProtocolInit, ReportIsExact
<1>2. RunsInv /\ ReportIsExact /\ [ProtocolNext]_protocolVars => ReportIsExact'
  BY ExactKeeps
<1> QED
  BY <1>1, <1>2, RunsAreSound, PTL DEF ProtocolSpec

\* The signs of the draw are balanced: draw_schedule is one of the assignments visited.
LEMMA DrawnSignsAreBalanced ==
    LET z == [b \in BlockIds |-> Sign(Draw[b])] IN
    z \in [1..Blocks -> {1, -1}] /\ Total(z) = 0
<1> DEFINE z == [b \in BlockIds |-> Sign(Draw[b])]
           firsts == {b \in BlockIds : Draw[b] = TreatmentFirst}
<1>1. Blocks \in Nat /\ BlockIds = 1..Blocks
  BY BlocksAreEven DEF BlockIds
<1>2. \A b \in BlockIds : Sign(Draw[b]) = IF Draw[b] = TreatmentFirst THEN 1 ELSE -1
  <2>1. Sign(TreatmentFirst) = 1 /\ Sign(RepeatFirst) = -1
    BY DEF Sign, TreatmentFirst, RepeatFirst
  <2>2. TreatmentFirst # RepeatFirst
    BY DEF TreatmentFirst, RepeatFirst
  <2> QED
    BY <2>1, <2>2, DrawIsBalanced
<1>3. z \in [1..Blocks -> {1, -1}]
  BY <1>1, <1>2
<1>4. Plus(Blocks, z) = firsts
  BY <1>1, <1>2 DEF Plus
<1> HIDE DEF z
<1>5. Total(z) = Cardinality(firsts) + Cardinality(firsts) - Blocks /\ Cardinality(firsts) \in Nat
  BY <1>1, <1>3, <1>4, SignsTotal
<1>6. 2 * Cardinality(firsts) = Blocks
  BY DrawIsBalanced
<1> HIDE DEF firsts
<1>7. Total(z) = 0
  BY <1>1, <1>5, <1>6
<1> QED
  BY <1>3, <1>7 DEF z

\* An assignment is at least as extreme as itself, so the test of a balanced one
\* never divides by zero and its p-value is above zero and at most one.
LEMMA TestIsProper ==
    ASSUME NEW n \in Nat, NEW diffs, IsRow(diffs, n), NEW z \in [1..n -> {1, -1}], Total(z) = 0
    PROVE  LET test == ByEnumeration(diffs, z) IN
           /\ test.space \in Nat /\ test.beyond \in Nat
           /\ 0 < test.beyond /\ test.beyond <= test.space
<1> DEFINE test == ByEnumeration(diffs, z)
           signs == {y \in [1..n -> {1, -1}] : Total(y) = 0}
           T(y) == Magnitude(Total([b \in 1..n |-> y[b] * diffs[b]]))
           far == {y \in signs : T(y) >= T(z)}
<1>1. test.space = Cardinality(signs) /\ test.beyond = Cardinality(far)
  <2>1. DOMAIN diffs = 1..n
    BY DEF IsRow
  <2> QED
    BY <2>1 DEF ByEnumeration
<1>2. IsFiniteSet(signs)
  <2>1. IsFiniteSet(SUBSET (1..n))
    <3>1. IsFiniteSet(1..n)
      BY FS_Interval
    <3> QED
      BY <3>1, FS_SUBSET
  <2> DEFINE S == SUBSET (1..n)
             f == [I \in S |-> SignsOf(n, I)]
             R == {f[I] : I \in S}
  <2>2. IsFiniteSet(R)
    <3>1. DOMAIN f = S /\ f = [I \in S |-> f[I]] /\ IsFiniteSet(S)
      BY <2>1
    <3> HIDE DEF f, S
    <3> QED
      BY <3>1, ValuesAreFinite
  <2>3. signs \in SUBSET R
    <3>1. ASSUME NEW y \in [1..n -> {1, -1}] PROVE y \in R
      <4>1. Plus(n, y) \in SUBSET (1..n) /\ SignsOf(n, Plus(n, y)) = y
        BY SignsArePlaces
      <4>2. f[Plus(n, y)] = y
        BY <4>1
      <4> QED
        BY <4>1, <4>2
    <3> QED
      BY <3>1
  <2> QED
    BY <2>2, <2>3, FS_Subset
<1>3. T(z) \in Int
  <2> DEFINE c == [b \in 1..n |-> z[b] * diffs[b]]
  <2>1. \A b \in 1..n : z[b] * diffs[b] \in Int
    BY DEF IsRow
  <2>2. IsRow(c, n)
    BY <2>1 DEF IsRow
  <2> HIDE DEF c
  <2>3. Total(c) \in Int
    BY <2>2, TotalIsInt
  <2>4. Magnitude(Total(c)) \in Int
    BY <2>3 DEF Magnitude
  <2> QED
    BY <2>4 DEF c
<1>4. z \in far
  <2> HIDE DEF T
  <2> QED
    BY <1>3
<1>5. far \in SUBSET signs
  OBVIOUS
<1> HIDE DEF far, signs, test
<1>6. IsFiniteSet(far) /\ far # {}
  BY <1>2, <1>4, <1>5, FS_Subset
<1>7. Cardinality(far) \in Nat /\ Cardinality(far) # 0 /\ Cardinality(signs) \in Nat
      /\ Cardinality(far) <= Cardinality(signs)
  BY <1>2, <1>5, <1>6, FS_Subset, FS_CardinalityType, FS_EmptySet
<1> QED
  BY <1>1, <1>7 DEF test

\* A verified report's p-value divides what was found as extreme by what was
\* visited: the quotient exists, is above zero and is at most one.
TestsAreProper ==
    accepted # Nothing =>
        LET test == accepted.report.test IN 0 < test.beyond /\ test.beyond <= test.space

\* A report that is exact divides by the number of assignments that were visited.
LEMMA ExactIsProper == ReportIsExact => TestsAreProper
<1> SUFFICES ASSUME ReportIsExact, accepted # Nothing
             PROVE  LET test == accepted.report.test IN 0 < test.beyond /\ test.beyond <= test.space
  BY DEF TestsAreProper
<1> DEFINE deal == Partition(Cohort, accepted.manifest.seed)
           apart(b, arm) == {c \in deal[b] : (Named(b, arm).verdict[c] = "pass")
                                               # (Named(b, "anchor").verdict[c] = "pass")}
           missed(b, arm) == Cardinality(apart(b, arm))
           diffs == [b \in BlockIds |-> missed(b, Draw[b][2]) - missed(b, Draw[b][3])]
           z == [b \in BlockIds |-> Sign(Draw[b])]
<1>1. accepted.report.test = ByEnumeration(diffs, z)
  BY Zenon DEF ReportIsExact
<1>2. Blocks \in Nat /\ BlockIds = 1..Blocks
  BY BlocksAreEven DEF BlockIds
<1>3. ASSUME NEW b \in BlockIds, NEW arm PROVE missed(b, arm) \in Nat
  <2>1. IsFiniteSet(deal[b])
    BY DealIsFinite
  <2>2. apart(b, arm) \in SUBSET deal[b]
    BY Zenon
  <2> HIDE DEF apart, deal
  <2> QED
    BY <2>1, <2>2, FS_Subset, FS_CardinalityType
<1> HIDE DEF missed
<1>4. IsRow(diffs, Blocks)
  <2>1. \A b \in BlockIds : missed(b, Draw[b][2]) - missed(b, Draw[b][3]) \in Int
    BY <1>3
  <2> QED
    BY <1>2, <2>1 DEF IsRow
<1>5. z \in [1..Blocks -> {1, -1}] /\ Total(z) = 0
  BY DrawnSignsAreBalanced
<1> HIDE DEF diffs, z
<1> QED
  BY <1>1, <1>2, <1>4, <1>5, TestIsProper

\* randomization_p_value of exposure_repeat.py never divides by zero, and no
\* verified report carries a p-value of zero or above one: the drawn schedule is
\* itself one of the balanced assignments that the exact test visits.
THEOREM PValuesAreProper == ProtocolSpec => []TestsAreProper
  BY ExactIsProper, ReportsAreExact, PTL

-----------------------------------------------------------------------------
(* Locks that verify *)

\* Everything verify_protocol_lock asks of a lock and of the copied proofs.
Verifies ==
    /\ SelectionHolds(lock.selection)
    /\ \A ref \in lock.refs : SlotLoads(lock, ref)
    /\ PopulationHolds(lock)
    /\ SlotsBind(lock)
    /\ lock.report = ReportOf(lock.refs, [k \in Runs |-> dir[k].verdict],
                              lock.partition, lock.schedule)

\* A run that was executed as it was registered, whatever the model answered.
CleanlyRan(k) == \E bad : ran[k] = CleanRun(k, bad)

\* verify_protocol_lock accepts a lock exactly when it verifies.
LEMMA VerifyLockVerifies ==
    VerifyLock <=> /\ lock # Nothing /\ accepted = Nothing /\ Verifies
                   /\ accepted' = lock /\ UNCHANGED <<record, ran, dir, lock, faults>>
  BY Zenon DEF VerifyLock, Verifies

\* The verifier is not stricter than the protocol: the lock of runs that were
\* executed as they should be, read with the proofs it was built from, is accepted.
HonestLockVerifies ==
    /\ Paired /\ Strata # {}
    /\ lock # Nothing /\ lock = LockOf(HonestRefs(TRUE))
    /\ dir = ran /\ \A k \in Runs : CleanlyRan(k)
    => Verifies

\* Every block has a case, of any stratum.
LEMMA BlocksAreNotEmpty ==
    ASSUME NEW seed \in Seeds, NEW b \in BlockIds, Strata # {}
    PROVE  Partition(Cohort, seed)[b] # {}
<1>1. PICK s \in Strata : TRUE
  OBVIOUS
<1> DEFINE part == {c \in Partition(Cohort, seed)[b] : StratumOf[c] = s}
<1>2. Cardinality(part) = Declared[s] \div Blocks /\ Declared[s] \div Blocks # 0
  BY <1>1, BlocksAreDealtEvenly, StratumIsRanked
<1>3. part # {}
  <2> HIDE DEF part
  <2> QED
    BY <1>2, FS_EmptySet
<1> QED
  BY <1>3

\* What such a run leaves.
LooksClean(p, k) ==
    LET side  == SideOf(ArmOf(k))
        cases == record.partition[BlockOf(k)]
    IN  /\ p.id = k /\ p.run = k /\ p.complete /\ p.captured
        /\ p.benchmark = side /\ p.planned = cases
        /\ p.version = (IF side = "candidate" THEN "derived" ELSE "catalog")
        /\ p.route = "declared"
        /\ p.variant = (IF side = "candidate" THEN Measured ELSE NoVariant)
        /\ DOMAIN p.verdict = cases
        /\ \A c \in cases : p.verdict[c] \in {"pass", "fail"}

LEMMA CleanRunIs ==
    ASSUME NEW k, NEW bad
    PROVE  LooksClean(CleanRun(k, bad), k)
<1> DEFINE p == CleanRun(k, bad)
           side == SideOf(ArmOf(k))
           cases == record.partition[BlockOf(k)]
<1>1. p.id = k /\ p.run = k /\ p.benchmark = side /\ p.planned = cases /\ p.route = "declared"
  BY DEF CleanRun
<1>2. p.complete /\ p.captured
  BY DEF CleanRun
<1>3. /\ p.version = (IF side = "candidate" THEN "derived" ELSE "catalog")
      /\ p.variant = (IF side = "candidate" THEN Measured ELSE NoVariant)
  BY DEF CleanRun
<1>4. p.verdict = [c \in cases |-> IF c \in bad THEN "fail" ELSE "pass"]
  BY DEF CleanRun
<1> HIDE DEF p
<1>5. DOMAIN p.verdict = cases /\ \A c \in cases : p.verdict[c] \in {"pass", "fail"}
  BY <1>4
<1> QED
  BY <1>1, <1>2, <1>3, <1>5, Zenon DEF LooksClean, p

\* The measured treatment is a variant of this study that maps the cohort.
LEMMA MeasuredIs ==
    /\ Measured # NoVariant /\ Measured.retained /\ Measured.study = ThisStudy
    /\ Measured.maps = Cohort
<1>1. Measured.measures = "order" /\ NoVariant.measures = "nothing"
  BY DEF Measured, NoVariant
<1>2. Measured.retained /\ Measured.study = ThisStudy /\ Measured.maps = Cohort
  BY DEF Measured
<1> QED
  BY <1>1, <1>2

\* Such a run loads for its slot.
LEMMA CleanRunLoads ==
    ASSUME NEW seed \in Seeds, record = Manifest(seed), Paired, Strata # {},
           NEW k \in Runs, CleanlyRan(k), dir[k] = ran[k],
           NEW l, l.partition = record.partition,
           NEW ref, ref.slot = <<BlockOf(k), ArmOf(k)>>, ref.run = k, ref.proof = k
    PROVE  SlotLoads(l, ref)
<1> DEFINE p == dir[k]
           arm == ArmOf(k)
           side == SideOf(arm)
           cases == record.partition[BlockOf(k)]
<1>1. PICK bad : p = CleanRun(k, bad)
  BY DEF CleanlyRan
<1> HIDE DEF p
<1>2. /\ p.id = k /\ p.run = k /\ p.complete /\ p.captured
      /\ p.benchmark = side /\ p.planned = cases
      /\ p.version = (IF side = "candidate" THEN "derived" ELSE "catalog")
      /\ p.variant = (IF side = "candidate" THEN Measured ELSE NoVariant)
      /\ DOMAIN p.verdict = cases
      /\ \A c \in cases : p.verdict[c] \in {"pass", "fail"}
  <2>1. LooksClean(p, k)
    BY <1>1, CleanRunIs
  <2> QED
    BY <2>1, Zenon DEF LooksClean
<1>3. cases # {}
  <2>1. BlockOf(k) \in BlockIds /\ record.partition = Partition(Cohort, seed)
    BY SlotOfRun DEF Manifest
  <2> QED
    BY <2>1, BlocksAreNotEmpty
<1>4. side = "candidate" <=> arm = "treatment"
  BY DEF SideOf
<1> HIDE DEF side, cases
<1>5. BindSide(side, p)
  <2>1. Ineligible(p) = {}
    BY <1>2 DEF Ineligible, Observed
  <2>2. p.version = VersionFor(side)
    BY <1>2, Zenon DEF VersionFor
  <2> QED
    BY <1>2, <1>3, <2>1, <2>2, Zenon DEF BindSide, Observed
<1>6. BoundPopulation(p) /\ Observed(p) = cases
  BY <1>2 DEF BoundPopulation, Observed
<1>7. VariantParses(p)
  BY <1>2, MeasuredIs, Zenon DEF VariantParses
<1>8. (arm = "treatment") = (p.variant # NoVariant)
  BY <1>2, <1>4, MeasuredIs, Zenon
<1>9. /\ dir[ref.run] = p /\ ref.slot[2] = arm /\ l.partition[ref.slot[1]] = cases
      /\ ref.run = k /\ ref.proof = k
  BY DEF p, cases
<1> HIDE DEF arm
<1> QED
  BY <1>2, <1>5, <1>6, <1>7, <1>8, <1>9, Zenon DEF SlotLoads, side

\* Two runs of a clean block are bound to each other.
LEMMA CleanRunsBind ==
    ASSUME NEW seed \in Seeds, record = Manifest(seed), Paired,
           NEW base, NEW cand, NEW i \in Runs, NEW j \in Runs,
           LooksClean(base, i), LooksClean(cand, j),
           ArmOf(i) = "anchor", ArmOf(j) = "treatment"
    PROVE  VariantBinds(cand.variant, Selection, base, cand)
<1>1. cand.variant = Measured /\ cand.version = "derived"
  BY DEF LooksClean, SideOf
<1>2. base.version = "catalog"
  BY DEF LooksClean, SideOf
<1>3. Observed(cand) \subseteq Cohort
  <2>1. Observed(cand) = Partition(Cohort, seed)[BlockOf(j)] /\ BlockOf(j) \in BlockIds
    BY SlotOfRun DEF LooksClean, Manifest, Observed
  <2> QED
    BY <2>1 DEF Partition
<1> QED
  BY <1>1, <1>2, <1>3, MeasuredIs, Zenon DEF VariantBinds, Cohort

\* Clean runs, each referenced by its own slot, fit together.
LEMMA CleanRunsFit ==
    ASSUME NEW seed \in Seeds, record = Manifest(seed), Paired,
           NEW l, l.selection = Selection, RefsAre(l.refs), SlotsAreExact(l.refs),
           \A ref \in l.refs : /\ ref.slot = <<BlockOf(ref.run), ArmOf(ref.run)>>
                               /\ LooksClean(dir[ref.run], ref.run)
    PROVE  SlotsBind(l)
<1> DEFINE num(s) == RunIn(l.refs, s)
           at(s) == dir[num(s)]
<1>1. ASSUME NEW s \in Slots
      PROVE  /\ num(s) \in Runs /\ s = <<BlockOf(num(s)), ArmOf(num(s))>>
             /\ LooksClean(at(s), num(s))
  <2> DEFINE ref == CHOOSE r \in l.refs : r.slot = s
  <2>1. ref \in l.refs /\ ref.slot = s /\ num(s) = ref.run /\ num(s) \in Runs
    BY NamesAreApart DEF RunIn
  <2> HIDE DEF ref, num
  <2> QED
    BY <2>1
<1>2. \A s, t \in Slots : num(s) = num(t) => s = t
  BY NamesAreApart
<1>3. \A b \in BlockIds, arm \in Arms : <<b, arm>> \in Slots
  BY DEF Slots
<1> HIDE DEF num
<1>4. \A s \in Slots : at(s).route = "declared" /\ at(s).run = num(s)
  BY <1>1 DEF LooksClean
<1>5. 1 \in BlockIds /\ "anchor" \in Arms /\ "treatment" \in Arms
  BY BlocksAreEven DEF BlockIds, Arms
<1>6. ConstantAxes([slot \in Slots |-> at(slot)])
  <2> DEFINE side == [slot \in Slots |-> at(slot)]
  <2>1. DOMAIN side = Slots /\ \A s \in Slots : side[s] = at(s)
    OBVIOUS
  <2> HIDE DEF side, at
  <2>2. {side[s].route : s \in DOMAIN side} = {"declared"}
    <3>1. <<1, "anchor">> \in DOMAIN side
      BY <1>3, <1>5, <2>1
    <3>2. \A s \in DOMAIN side : side[s].route = "declared"
      BY <1>4, <2>1
    <3> QED
      BY <3>1, <3>2
  <2>3. Cardinality({side[s].route : s \in DOMAIN side}) = 1
    BY <2>2, FS_Singleton
  <2>4. \A s \in DOMAIN side : side[s].route # "legacy"
    BY <1>4, <2>1
  <2>5. \A s, t \in DOMAIN side : side[s].run = side[t].run => s = t
    BY <1>2, <1>4, <2>1
  <2>6. ConstantAxes(side)
    BY <2>3, <2>4, <2>5 DEF ConstantAxes
  <2> QED
    BY <2>6 DEF side
<1>7. ASSUME NEW b \in BlockIds
      PROVE  /\ VariantBinds(at(<<b, "treatment">>).variant, Selection,
                             at(<<b, "anchor">>), at(<<b, "treatment">>))
             /\ at(<<b, "treatment">>).variant = Measured
  <2>1. <<b, "treatment">> \in Slots /\ <<b, "anchor">> \in Slots
    BY <1>3, <1>5
  <2>2. /\ ArmOf(num(<<b, "treatment">>)) = "treatment" /\ ArmOf(num(<<b, "anchor">>)) = "anchor"
        /\ num(<<b, "treatment">>) \in Runs /\ num(<<b, "anchor">>) \in Runs
        /\ LooksClean(at(<<b, "treatment">>), num(<<b, "treatment">>))
        /\ LooksClean(at(<<b, "anchor">>), num(<<b, "anchor">>))
    BY <1>1, <2>1
  <2> HIDE DEF at
  <2>3. at(<<b, "treatment">>).variant = Measured
    BY <2>2 DEF LooksClean, SideOf
  <2> QED
    BY <2>2, <2>3, CleanRunsBind
<1> HIDE DEF at
<1>8. {at(<<b, "treatment">>).variant : b \in BlockIds} = {Measured}
  BY <1>5, <1>7
<1>9. Cardinality({at(<<b, "treatment">>).variant : b \in BlockIds}) = 1
  BY <1>8, FS_Singleton
<1> QED
  BY <1>4, <1>6, <1>7, <1>9, Zenon DEF SlotsBind, at, num

\* A lock of clean runs passes every rule: its references are exact, each run loads
\* for its slot and is bound to its block's, and the report is recomputed as it was.
LEMMA HonestVerifies == FrozenInv => HonestLockVerifies
<1> SUFFICES ASSUME FrozenInv, Paired, Strata # {}, lock # Nothing,
                    lock = LockOf(HonestRefs(TRUE)), dir = ran, \A k \in Runs : CleanlyRan(k)
             PROVE  Verifies
  BY DEF HonestLockVerifies
<1> DEFINE refs == HonestRefs(TRUE)
<1>1. \A k \in Runs : LooksClean(ran[k], k)
  BY CleanRunIs, Zenon DEF CleanlyRan
<1>2. \A k \in Runs : ran[k] # Missing /\ ran[k].id = k /\ ~Failed(k)
  <2>1. ASSUME NEW k \in Runs PROVE ran[k] # Missing /\ ran[k].id = k
    <3>1. LooksClean(ran[k], k)
      BY <1>1
    <3>2. ran[k].complete /\ ran[k].id = k
      BY <3>1 DEF LooksClean
    <3>3. ~Missing.complete
      BY DEF Missing
    <3> QED
      BY <3>2, <3>3, Zenon
  <2>2. ASSUME NEW k \in Runs PROVE ~Failed(k)
    BY <1>1 DEF LooksClean, Failed
  <2> QED
    BY <2>1, <2>2
<1>3. PICK seed \in Seeds : record = Manifest(seed)
  <2>1. 1 \in Runs
    BY BlocksAreEven DEF Runs
  <2>2. Executed # {}
    BY <1>2, <2>1 DEF Executed
  <2> QED
    BY <2>2 DEF FrozenInv
<1>4. record # Nothing /\ record.schedule = Draw
  BY <1>3 DEF Manifest, Nothing
<1>5. SlotsAreExact(refs) /\ PopulationHolds(lock) /\ Unlabelled(refs) = refs
  BY <1>2, <1>3, <1>4, HonestPopulationHolds, HonestRefsAreExact
<1>6. /\ lock.selection = Selection /\ lock.refs = refs
      /\ lock.partition = record.partition /\ lock.schedule = record.schedule
      /\ lock.report = ReportOf(refs, [k \in Runs |-> ran[k].verdict],
                               record.partition, record.schedule)
  BY <1>5 DEF LockOf
<1>7. RefsAre(refs)
  BY HonestRefsAre
<1>8. ASSUME NEW ref \in refs
      PROVE  /\ ref.run \in Runs /\ ref.slot = <<BlockOf(ref.run), ArmOf(ref.run)>>
             /\ ref.proof = ref.run
  <2>1. PICK k \in Runs : ref = [slot |-> <<BlockOf(k), ArmOf(k)>>, run |-> k, proof |-> ran[k].id,
                                 failed |-> TRUE /\ Failed(k)]
    BY Zenon DEF HonestRefs
  <2>2. ref.run = k /\ ref.slot = <<BlockOf(k), ArmOf(k)>> /\ ref.proof = ran[k].id
    BY <2>1
  <2> QED
    BY <1>2, <2>2
<1> HIDE DEF refs
<1>9. \A ref \in lock.refs : SlotLoads(lock, ref)
  BY <1>3, <1>6, <1>8, CleanRunLoads
<1>10. SlotsBind(lock)
  <2>1. \A ref \in lock.refs : /\ ref.slot = <<BlockOf(ref.run), ArmOf(ref.run)>>
                               /\ LooksClean(dir[ref.run], ref.run)
    BY <1>1, <1>6, <1>8
  <2> QED
    BY <1>3, <1>5, <1>6, <1>7, <2>1, CleanRunsFit
<1>11. SelectionHolds(lock.selection)
  BY <1>6, SelectionReplays DEF SelectionHolds, Selection
<1>12. lock.report = ReportOf(lock.refs, [k \in Runs |-> dir[k].verdict],
                             lock.partition, lock.schedule)
  BY <1>6
<1> QED
  BY <1>5, <1>9, <1>10, <1>11, <1>12, Zenon DEF Verifies

\* Whatever was attempted before, the lock that build_protocol_lock makes of runs
\* that were all executed as registered, and whose proofs are where they were, is
\* one that verify_protocol_lock accepts: no honest study is turned away.
THEOREM HonestLocksVerify == ProtocolSpec => []HonestLockVerifies
<1>1. ProtocolInit => FrozenInv
  BY DEF ProtocolInit, FrozenInv, Executed
<1> QED
  BY <1>1, HonestVerifies, FrozenKeeps, RunsAreSound, PTL DEF ProtocolSpec

=============================================================================

----------------------------- MODULE ProofStore -----------------------------
(***************************************************************************)
(* The private proof store (src/bencheval/proof_bundle.py): export of a    *)
(* proof into a directory, import of a directory into the store, and the   *)
(* scan that lists the store, by several BenchEval processes on one host.  *)
(*                                                                         *)
(* A proof is named by the digest of its inventory, so a directory or an   *)
(* object is either intact, and then it is the proof of that name, or not. *)
(* The store is a directory of objects and an index with one row a proof;  *)
(* importers exclude each other by a flock, scans take no lock.  The bytes *)
(* of the index are the rows written to it, in order, and how it ends      *)
(* (tail): after a newline ("clean"), with part of another row that may    *)
(* not be on the disk ("fragment") or is ("torn"), with a last row that    *)
(* only lacks its newline ("unterminated"), or with a last line that is    *)
(* two rows ("glued"), one written behind another that lacked its newline. *)
(* One write of a row is one step, which an error may cut.  Operators who  *)
(* remove the lock file are left out.                                      *)
(***************************************************************************)
EXTENDS Integers, SequencesExt

CONSTANTS
    Procs,      \* BenchEval processes
    Proofs,     \* proof ids
    Dirs,       \* directories proofs are exported to and imported from
    FaultKinds, \* which of "kill" "power" "edit" "damage" "error" may happen
    MaxCalls,   \* bound: calls made by all processes together
    MaxFaults,  \* bound: faults
    None

ASSUME FaultsAreKnown == FaultKinds \subseteq {"kill", "power", "edit", "damage", "error"}
ASSUME NoneIsNoProof  == None \notin Proofs \cup Procs \cup Dirs
ASSUME BoundsAreNat   == MaxCalls \in Nat /\ MaxFaults \in Nat

VARIABLES
    rows,      \* rows written to proofs.jsonl, as the proof ids they list
    tail,      \* how it ends
    synced,    \* how many rows an fsync has made durable
    named,     \* named[x]: the proof whose run the row of x names
    object,    \* object[x]: "none", "intact" or "bad" below sha256/
    settled,   \* objects the kernel has written back
    dir,       \* dir[d]: what an export or operator left in d
    lock,      \* who has the flock on proofs.jsonl.lock
    pc,        \* where each process is
    proof,     \* the proof id a call is about
    run,       \* the proof whose run it read in the source
    from,      \* the directory a call is about
    stage,     \* what its temporary directory holds
    seen,      \* proof ids it has read in the index
    answer,    \* what its last call returned
    acked,     \* history: proofs whose import was reported
    owed,      \* history: owed[p]: acked when the scan of p began
    calls, happened, faults  \* calls made, kinds and number of faults

index   == <<rows, tail, synced, named>>
store   == <<index, object, settled>>
process == <<pc, proof, run, from, stage, seen, answer, owed>>
history == <<acked, calls, happened, faults>>
vars    == <<store, dir, lock, process, history>>

Missing == [id |-> None, intact |-> FALSE]
Content == [id : Proofs, intact : BOOLEAN] \cup {Missing}
Answer  == [status : {"none", "ok", "refused", "exported", "unexported", "error", "listed"},
            healthy : SUBSET Proofs, corrupt : SUBSET Proofs]
Say(status) == [status |-> status, healthy |-> {}, corrupt |-> {}]

PC == {"idle", "stage", "finalize", "lock", "verify", "label", "load", "copy", "recheck",
       "install", "reverify", "append", "fsync", "finish", "scan"}
Locked == {"verify", "label", "load", "copy", "recheck", "install", "reverify", "append",
           "fsync", "finish"}

Init ==
    /\ rows = <<>> /\ tail = "clean" /\ synced = 0
    /\ named = [x \in Proofs |-> x]
    /\ object = [x \in Proofs |-> "none"] /\ settled = {}
    /\ dir = [d \in Dirs |-> Missing]
    /\ lock = None
    /\ pc = [p \in Procs |-> "idle"]
    /\ proof = [p \in Procs |-> None] /\ run = [p \in Procs |-> None]
    /\ from = [p \in Procs |-> None]
    /\ stage = [p \in Procs |-> Missing]
    /\ seen = [p \in Procs |-> {}]
    /\ answer = [p \in Procs |-> Say("none")]
    /\ acked = {} /\ owed = [p \in Procs |-> {}]
    /\ calls = 0 /\ happened = {} /\ faults = 0

Goto(p, label) == pc' = [pc EXCEPT ![p] = label]

\* The temporary directory is removed and the flock released on every way out.
Return(p, result) ==
    /\ Goto(p, "idle")
    /\ stage' = [stage EXCEPT ![p] = Missing]
    /\ answer' = [answer EXCEPT ![p] = result]
    /\ lock' = IF lock = p THEN None ELSE lock

Begin(p, label) ==
    /\ pc[p] = "idle"
    /\ calls < MaxCalls /\ calls' = calls + 1
    /\ Goto(p, label)
    /\ UNCHANGED <<store, dir, lock, acked, happened, faults>>

\* A step that goes on when ok holds and raises when it does not.
Require(p, ok, label) ==
    IF ok THEN Goto(p, label) /\ UNCHANGED <<lock, stage, answer>>
    ELSE Return(p, Say("refused"))
-----------------------------------------------------------------------------
(* Export *)

\* _prepare_output_target: the directory is missing or empty.
CallExport(p, x, d) ==
    /\ dir[d] = Missing
    /\ Begin(p, "stage")
    /\ proof' = [proof EXCEPT ![p] = x] /\ from' = [from EXCEPT ![p] = d]
    /\ UNCHANGED <<run, stage, seen, answer, owed>>

\* Evidence, artifacts, plan and history make a whole proof, or do not agree.
Stage(p) ==
    /\ pc[p] = "stage"
    /\ \/ /\ stage' = [stage EXCEPT ![p] = [id |-> proof[p], intact |-> TRUE]]
          /\ Goto(p, "finalize")
          /\ UNCHANGED <<lock, answer>>
       \/ Return(p, Say("unexported"))
    /\ UNCHANGED <<store, dir, proof, run, from, seen, owed, history>>

\* os.replace onto a missing or empty directory; a filled one refuses it.
Finalize(p) ==
    /\ pc[p] = "finalize"
    /\ IF dir[from[p]] = Missing
       THEN /\ dir' = [dir EXCEPT ![from[p]] = stage[p]]
            /\ Return(p, Say("exported"))
       ELSE /\ Return(p, Say("unexported"))
            /\ UNCHANGED dir
    /\ UNCHANGED <<store, proof, run, from, seen, owed, history>>
-----------------------------------------------------------------------------
(* Import *)

CallImport(p, d) ==
    /\ dir[d] # Missing
    /\ Begin(p, "lock")
    /\ from' = [from EXCEPT ![p] = d]
    /\ proof' = [proof EXCEPT ![p] = None] /\ run' = [run EXCEPT ![p] = None]
    /\ UNCHANGED <<stage, seen, answer, owed>>

\* Faulty variant: no flock.
LockNothing(p) ==
    /\ pc[p] = "lock"
    /\ Goto(p, "verify")
    /\ UNCHANGED <<store, dir, lock, proof, run, from, stage, seen, answer, owed, history>>

Lock(p) ==
    /\ pc[p] = "lock" /\ lock = None
    /\ lock' = p
    /\ Goto(p, "verify")
    /\ UNCHANGED <<store, dir, proof, run, from, stage, seen, answer, owed, history>>

Verify(p) ==
    /\ pc[p] = "verify"
    /\ proof' = [proof EXCEPT ![p] = dir[from[p]].id]
    /\ Require(p, dir[from[p]].intact, "label")
    /\ UNCHANGED <<store, dir, run, from, seen, owed, history>>

\* The run the row will name is read in the source once more, after it was
\* verified; what is not whole may have no run to read.
Label(p) ==
    /\ pc[p] = "label"
    /\ run' = [run EXCEPT ![p] = dir[from[p]].id]
    /\ \/ Require(p, dir[from[p]].intact, "load")
       \/ Require(p, dir[from[p]] # Missing, "load")
    /\ UNCHANGED <<store, dir, proof, from, seen, owed, history>>

\* Every line parses and no proof is listed twice.
Readable == tail \in {"clean", "unterminated"} /\ IsInjective(rows)

\* The index, and the run and inventory of every object it lists: damage to
\* another file of an object passes unseen.  A row that is there must be the one
\* this import would write.
Load(p) ==
    /\ pc[p] = "load"
    /\ seen' = [seen EXCEPT ![p] = ToSet(rows)]
    /\ \E unseen \in SUBSET {x \in ToSet(rows) : object[x] = "bad"} :
           Require(p, /\ Readable
                      /\ \A x \in ToSet(rows) : named[x] = x
                      /\ \A x \in ToSet(rows) \ unseen : object[x] = "intact"
                      /\ proof[p] \in ToSet(rows) => run[p] = proof[p], "copy")
    /\ UNCHANGED <<store, dir, proof, run, from, owed, history>>

Copy(p) ==
    /\ pc[p] = "copy"
    /\ stage' = [stage EXCEPT ![p] = dir[from[p]]]
    /\ Goto(p, "recheck")
    /\ UNCHANGED <<store, dir, lock, proof, run, from, seen, answer, owed, history>>

\* Faulty variant: the copy is taken to be what was verified.
RecheckNothing(p) ==
    /\ pc[p] = "recheck"
    /\ Goto(p, "install")
    /\ UNCHANGED <<store, dir, lock, proof, run, from, stage, seen, answer, owed, history>>

\* The copy is verified against the digest of the source.
Recheck(p) ==
    /\ pc[p] = "recheck"
    /\ Require(p, stage[p] = [id |-> proof[p], intact |-> TRUE], "install")
    /\ UNCHANGED <<store, dir, proof, run, from, seen, owed, history>>

Put(p) ==
    /\ object' = [object EXCEPT ![proof[p]] = IF stage[p] = [id |-> proof[p], intact |-> TRUE]
                                          THEN "intact" ELSE "bad"]
    /\ stage' = [stage EXCEPT ![p] = Missing]
    /\ Goto(p, "reverify")
    /\ UNCHANGED <<index, settled, dir, lock, proof, run, from, seen, answer, owed, history>>

\* Faulty variant: an object that is there is a conflict, whatever it holds.
InstallNew(p) ==
    /\ pc[p] = "install"
    /\ IF object[proof[p]] = "none" THEN Put(p)
       ELSE /\ Return(p, Say("refused"))
            /\ UNCHANGED <<store, dir, proof, run, from, seen, owed, history>>

\* Faulty variant: the copy replaces whatever is there.
InstallOver(p) == pc[p] = "install" /\ Put(p)

\* Renamed into place, or the object that is there is verified and kept.
Install(p) ==
    /\ pc[p] = "install"
    /\ IF object[proof[p]] = "none" THEN Put(p)
       ELSE /\ Require(p, object[proof[p]] = "intact", "append")
            /\ UNCHANGED <<store, dir, proof, run, from, seen, owed, history>>

Reverify(p) ==
    /\ pc[p] = "reverify"
    /\ Require(p, object[proof[p]] = "intact", "append")
    /\ UNCHANGED <<store, dir, proof, run, from, seen, owed, history>>

\* A row, or part of it, at the end of the file; behind a line that lacks its
\* newline it becomes part of that line, in which a cut row counts as a whole.
WriteRow(x, end) ==
    IF tail = "unterminated"
    THEN rows' = Append(rows, x) /\ tail' = "glued"
    ELSE /\ rows' = IF end = "fragment" THEN rows ELSE Append(rows, x)
         /\ tail' = end

NameRow(p) == named' = [named EXCEPT ![proof[p]] = run[p]]

\* Faulty variant: a store with any row is taken to have this one.
AppendRowIfFirst(p) ==
    /\ pc[p] = "append"
    /\ IF seen[p] # {} THEN Goto(p, "finish") /\ UNCHANGED <<rows, tail, named>>
       ELSE Goto(p, "fsync") /\ WriteRow(proof[p], "clean") /\ NameRow(p)
    /\ UNCHANGED <<synced, object, settled, dir, lock, proof, run, from, stage, seen,
                   answer, owed, history>>

\* A proof that was listed when the index was read needs no row.
AppendRow(p) ==
    /\ pc[p] = "append"
    /\ IF proof[p] \in seen[p] THEN Goto(p, "finish") /\ UNCHANGED <<rows, tail, named>>
       ELSE Goto(p, "fsync") /\ WriteRow(proof[p], "clean") /\ NameRow(p)
    /\ UNCHANGED <<synced, object, settled, dir, lock, proof, run, from, stage, seen,
                   answer, owed, history>>

\* Faulty variant: the row is flushed to the kernel only.
FlushOnly(p) ==
    /\ pc[p] = "fsync"
    /\ Goto(p, "finish")
    /\ UNCHANGED <<store, dir, lock, proof, run, from, stage, seen, answer, owed, history>>

Fsync(p) ==
    /\ pc[p] = "fsync"
    /\ synced' = Len(rows)
    /\ Goto(p, "finish")
    /\ UNCHANGED <<rows, tail, named, object, settled, dir, lock, proof, run, from, stage, seen,
                   answer, owed, history>>

Finish(p) ==
    /\ pc[p] = "finish"
    /\ Return(p, Say("ok"))
    /\ acked' = acked \cup {proof[p]}
    /\ UNCHANGED <<store, dir, proof, run, from, seen, owed, calls, happened, faults>>
-----------------------------------------------------------------------------
(* Scan *)

\* The index is read at once and without a lock; an unreadable one fails the
\* whole page.
CallScan(p) ==
    /\ Begin(p, "scan")
    /\ proof' = [proof EXCEPT ![p] = None] /\ from' = [from EXCEPT ![p] = None]
    /\ seen' = [seen EXCEPT ![p] = ToSet(rows)]
    /\ answer' = [answer EXCEPT ![p] = Say(IF Readable THEN "listed" ELSE "error")]
    /\ owed' = [owed EXCEPT ![p] = acked]
    /\ UNCHANGED <<run, stage>>

\* Each listed object is verified in its turn: a corrupt one is a row too.
ScanObject(p) ==
    /\ pc[p] = "scan" /\ answer[p].status = "listed"
    /\ \E x \in seen[p] :
           /\ seen' = [seen EXCEPT ![p] = @ \ {x}]
           /\ answer' = IF object[x] = "intact" /\ named[x] = x
                        THEN [answer EXCEPT ![p].healthy = @ \cup {x}]
                        ELSE [answer EXCEPT ![p].corrupt = @ \cup {x}]
    /\ UNCHANGED <<store, dir, lock, pc, proof, run, from, stage, owed, history>>

ScanDone(p) ==
    /\ pc[p] = "scan" /\ (answer[p].status = "error" \/ seen[p] = {})
    /\ Return(p, answer[p])
    /\ UNCHANGED <<store, dir, proof, run, from, seen, owed, history>>

Advance(p) ==
    \/ Stage(p) \/ Finalize(p)
    \/ Lock(p) \/ Verify(p) \/ Label(p) \/ Load(p) \/ Copy(p) \/ Recheck(p)
    \/ Install(p) \/ Reverify(p) \/ AppendRow(p) \/ Fsync(p) \/ Finish(p)
    \/ ScanObject(p) \/ ScanDone(p)
-----------------------------------------------------------------------------
(* Faults *)

Fault(kind) ==
    /\ kind \in FaultKinds /\ faults < MaxFaults
    /\ faults' = faults + 1
    /\ happened' = happened \cup {kind}
    /\ UNCHANGED <<acked, calls>>

Kill(p) ==
    /\ Fault("kill")
    /\ pc[p] # "idle"
    /\ Return(p, Say("none"))
    /\ UNCHANGED <<store, dir, proof, run, from, seen, owed>>

\* The write or the flush of a row fails: part of it may be in the file, or all
\* of it, for closing the file flushes once more.
WriteFails(p) ==
    /\ Fault("error")
    /\ pc[p] = "append" /\ proof[p] \notin seen[p]
    /\ \/ \E end \in {"fragment", "unterminated", "clean"} : WriteRow(proof[p], end)
       \/ UNCHANGED <<rows, tail>>
    /\ NameRow(p)
    /\ Return(p, Say("error"))
    /\ UNCHANGED <<synced, object, settled, dir, proof, run, from, seen, owed>>

FsyncFails(p) ==
    /\ Fault("error")
    /\ pc[p] = "fsync"
    /\ Return(p, Say("error"))
    /\ UNCHANGED <<store, dir, proof, run, from, seen, owed>>

\* An operator puts something else into a directory.
Edit(d) ==
    /\ Fault("edit")
    /\ \E c \in Content : dir' = [dir EXCEPT ![d] = c]
    /\ UNCHANGED <<store, lock, process>>

\* An operator or the medium changes an installed object.
Damage(x) ==
    /\ Fault("damage")
    /\ object[x] = "intact"
    /\ object' = [object EXCEPT ![x] = "bad"]
    /\ UNCHANGED <<index, settled, dir, lock, process>>

WriteBack(x) ==
    /\ "power" \in FaultKinds
    /\ object[x] # "none"
    /\ settled' = settled \cup {x}
    /\ UNCHANGED <<index, object, dir, lock, process, history>>

\* The bytes that were fsynced stay, and any prefix of the later ones: whole rows,
\* part of a row, or a row without its newline, be it one that another had been
\* glued to.  Of an object the kernel had not written back, its name or its bytes
\* may be gone.
PowerLoss ==
    /\ Fault("power")
    /\ \/ /\ UNCHANGED rows
          /\ tail' \in IF tail = "fragment" THEN {"clean", "torn"} ELSE {tail}
       \/ \E n \in synced..(Len(rows) - 1) :
             /\ rows' = SubSeq(rows, 1, n)
             /\ tail' \in IF tail = "glued" /\ n = Len(rows) - 1
                         THEN {"unterminated"} ELSE {"clean", "torn"}
       \/ \E n \in (synced + 1)..Len(rows) :
             /\ ~(tail = "glued" /\ n = Len(rows))
             /\ rows' = SubSeq(rows, 1, n) /\ tail' = "unterminated"
    /\ synced' = Len(rows')
    /\ \E lost \in [Proofs -> {"none", "bad", "intact"}] :
           object' = [x \in Proofs |-> IF object[x] = "intact" /\ x \notin settled
                                       THEN lost[x] ELSE object[x]]
    /\ settled' = {x \in Proofs : object'[x] # "none"}
    /\ lock' = None
    /\ pc' = [p \in Procs |-> "idle"]
    /\ stage' = [p \in Procs |-> Missing]
    /\ answer' = [p \in Procs |-> Say("none")]
    /\ UNCHANGED <<named, dir, proof, run, from, seen, owed>>

\* Every call has returned.
Quiescent == calls = MaxCalls /\ (\A p \in Procs : pc[p] = "idle") /\ UNCHANGED vars

Next ==
    \/ \E p \in Procs :
          \/ \E d \in Dirs : CallImport(p, d) \/ \E x \in Proofs : CallExport(p, x, d)
          \/ CallScan(p)
          \/ Advance(p)
          \/ Kill(p) \/ WriteFails(p) \/ FsyncFails(p)
    \/ \E d \in Dirs : Edit(d)
    \/ \E x \in Proofs : Damage(x) \/ WriteBack(x)
    \/ PowerLoss
    \/ Quiescent

Spec == Init /\ [][Next]_vars

-----------------------------------------------------------------------------
(* Properties *)

LockHeld == \A p \in Procs : pc[p] \in Locked <=> lock = p

\* Types of the store's state, and the flock is held where the code holds it.
TypeOK ==
    /\ rows \in Seq(Proofs)
    /\ tail \in {"clean", "fragment", "torn", "unterminated", "glued"}
    /\ synced \in Nat /\ named \in [Proofs -> Proofs]
    /\ object \in [Proofs -> {"none", "intact", "bad"}] /\ settled \subseteq Proofs
    /\ dir \in [Dirs -> Content]
    /\ lock \in Procs \cup {None}
    /\ pc \in [Procs -> PC]
    /\ proof \in [Procs -> Proofs \cup {None}] /\ run \in [Procs -> Proofs \cup {None}]
    /\ from \in [Procs -> Dirs \cup {None}]
    /\ stage \in [Procs -> Content]
    /\ seen \in [Procs -> SUBSET Proofs] /\ owed \in [Procs -> SUBSET Proofs]
    /\ answer \in [Procs -> Answer]
    /\ acked \subseteq Proofs
    /\ calls \in 0..MaxCalls /\ happened \subseteq FaultKinds /\ faults \in 0..MaxFaults
    /\ LockHeld

\* No row of the index is without its proof, and no object is anything but the
\* proof it is named for, although sources change under the importer and
\* importers die anywhere.
IndexedIsInstalled ==
    happened \cap {"damage", "power"} = {} =>
        /\ \A x \in Proofs : object[x] # "bad"
        /\ \A i \in DOMAIN rows : object[rows[i]] = "intact"

\* Importers never leave an index that no later import accepts: no proof is
\* listed twice, and only an error or a power loss leaves a broken line.
IndexStaysReadable ==
    /\ IsInjective(rows)
    /\ happened \cap {"error", "power"} = {} => tail = "clean"

\* Nothing is replaced: no import changes a proof that was installed, damaged or
\* not, and no export one that another export left.
NothingIsReplaced ==
    [][/\ \A x \in Proofs :
             object[x] # "none" => object'[x] = object[x] \/ faults' # faults
       /\ \A d \in Dirs : dir[d] # Missing => dir'[d] = dir[d] \/ faults' # faults]_vars

\* An import of what an export left is refused for a reason: a kill, wherever it
\* fell, does not stand in the way of the import that is tried again.
OnlyDisturbedIsRefused ==
    \A p \in Procs : answer[p].status = "refused" => happened \ {"kill"} # {}

\* A scan lists, as intact, every proof whose import was reported before it; only
\* a row that names another run makes it show one as corrupt.
ScanShowsAcked ==
    \A p \in Procs :
        answer[p].status = "listed" /\ pc[p] = "idle" /\ happened \subseteq {"kill", "edit"}
            => LET misnamed == {x \in Proofs : named[x] # x}
               IN  /\ owed[p] \subseteq answer[p].healthy \cup misnamed
                   /\ answer[p].corrupt \subseteq misnamed

Archive == INSTANCE ProofArchive WITH
    retained  <- {x \in ToSet(rows) : object[x] = "intact"},
    promised  <- acked,
    disturbed <- happened \cap {"power", "damage", "error"} # {}

\* The store implements the archive, whoever is killed and whatever is edited.
ImplementsArchive == Archive!Spec

\* The rows a reader finds, and those in a line that no reader parses.
Glued  == IF tail = "glued" THEN {rows[i] : i \in {Len(rows) - 1, Len(rows)} \cap DOMAIN rows}
          ELSE {}
Listed == IF tail = "glued" THEN {rows[i] : i \in 1..(Len(rows) - 2)} ELSE ToSet(rows)

\* Damage, failing writes, kills and power losses take a reported import out of
\* the index only where there was a power loss and also a kill or an error: then
\* a row may have been reported by the next import of its proof, which takes it
\* for durable.  It may still end in a glued line, by a power loss that took only
\* a newline or by a failing write: that line stays, and with it the index is
\* refused by every later import and scan.
AckedRowSurvives ==
    ~("power" \in happened /\ happened \cap {"kill", "error"} # {}) =>
        /\ acked \subseteq Listed \cup Glued
        /\ happened \cap {"error", "power"} = {} => acked \subseteq Listed

=============================================================================

-------------------------- MODULE LiveRunRegistry --------------------------
(***************************************************************************)
(* The append-only registry of live runs, results/manifests/runs.jsonl     *)
(* (src/bencheval/live_run_manifest.py), shared by several BenchEval       *)
(* processes on one host: append_live_run and read_live_runs as sequences  *)
(* of system calls, each of which another process, a kill, a power loss or *)
(* an operator moving files about may come between.                        *)
(*                                                                         *)
(* A path names an inode or nothing; a descriptor keeps the inode it was   *)
(* opened on; flock belongs to the inode and dies with its process.  The   *)
(* bytes of a manifest are its complete lines (rows) and what follows the  *)
(* last newline (tail): nothing, a fragment that is not JSON, or a whole   *)
(* record that lacks only its newline, which the parser accepts and which  *)
(* is therefore kept as the last element of rows.  A line that can never   *)
(* parse again makes the file corrupt for good.                            *)
(***************************************************************************)
EXTENDS LiveRunHistory, SequencesExt

CONSTANTS
    Procs,       \* BenchEval processes that use the registry
    Records,     \* the records they may ask to append
    Manifests,   \* inodes the manifest path may name in turn
    LockFiles,   \* inodes the lock path may name in turn
    Restores,    \* contents an operator may restore from a copy
    Cuts,        \* where a short write may leave the file
    MaxCalls,    \* bound: calls made by all processes together
    MaxFaults    \* bound: kills, power losses and operator actions

ASSUME RecordsAreRecords == Records \subseteq LiveRunRecord
ASSUME RestoresAreRows   == Restores \subseteq Seq(LiveRunRecord)
ASSUME CutsAreCuts       == Cuts \subseteq {"fragment", "unterminated"}
ASSUME NoneIsNoInode     == None \notin Manifests \cup LockFiles \cup Records
ASSUME BoundsAreNat      == MaxCalls \in Nat /\ MaxFaults \in Nat

VARIABLES
    manifest,   \* the inode at the manifest path, or None
    lockFile,   \* the inode at the lock path, or None
    rows,       \* rows[f]: the records parsed from manifest inode f
    tail,       \* tail[f]: "clean", "fragment", "unterminated" or "corrupt"
    synced,     \* synced[f]: how many of its rows an fsync has made durable
    pc,         \* where each process is
    job,        \* the record being appended, None for a read
    fd,         \* fd[p]: the manifest inode p has open, or None
    lockFd,     \* lockFd[p]: the lock inode p has open, or None
    holds,      \* holds[p]: which of the two flocks p has, "lock" "leaf"
    outcome,    \* what the last call of p returned
    acked,      \* history: <<inode, position, record>> of every success
    calls,      \* calls made so far
    faults      \* faults so far

files   == <<manifest, lockFile, rows, tail, synced>>
process == <<pc, job, fd, lockFd, holds, outcome>>
vars    == <<files, process, acked, calls, faults>>

PC == {"idle", "open_lock", "flock_lock", "open_leaf", "flock_leaf",
       "validate", "write", "rewrite", "fsync", "recheck"}

None_     == [status |-> "none",  rows |-> <<>>]
Error     == [status |-> "error", rows |-> <<>>]
Appended  == [status |-> "appended", rows |-> <<>>]
Rows(seq) == [status |-> "rows", rows |-> seq]
Outcome   == [status : {"none", "error", "appended", "rows"},
              rows   : Seq(LiveRunRecord)]

Init ==
    /\ manifest = None
    /\ lockFile = None
    /\ rows = [f \in Manifests |-> <<>>]
    /\ tail = [f \in Manifests |-> "clean"]
    /\ synced = [f \in Manifests |-> 0]
    /\ pc = [p \in Procs |-> "idle"]
    /\ job = [p \in Procs |-> None]
    /\ fd = [p \in Procs |-> None]
    /\ lockFd = [p \in Procs |-> None]
    /\ holds = [p \in Procs |-> {}]
    /\ outcome = [p \in Procs |-> None_]
    /\ acked = {}
    /\ calls = 0
    /\ faults = 0

Goto(p, label) == pc' = [pc EXCEPT ![p] = label]

IsAppend(p) == job[p] # None

\* Faulty variant: only the lock file excludes, the leaf does not.
LockFileOnly(p, which, ino) ==
    which = "lock" =>
        \A q \in Procs \ {p} :
            which \in holds[q] /\ lockFd[q] = ino => ~IsAppend(p) /\ ~IsAppend(q)

\* flock: readers share, an appender excludes everyone else.
MayLock(p, which, ino) ==
    \A q \in Procs \ {p} :
        which \in holds[q] /\ (IF which = "lock" THEN lockFd ELSE fd)[q] = ino
            => ~IsAppend(p) /\ ~IsAppend(q)

\* The finally blocks: leaf unlocked and closed, then the lock file.
Return(p, result) ==
    /\ pc' = [pc EXCEPT ![p] = "idle"]
    /\ job' = [job EXCEPT ![p] = None]
    /\ fd' = [fd EXCEPT ![p] = None]
    /\ lockFd' = [lockFd EXCEPT ![p] = None]
    /\ holds' = [holds EXCEPT ![p] = {}]
    /\ outcome' = [outcome EXCEPT ![p] = result]

-----------------------------------------------------------------------------
(* Calls *)

CallAppend(p, record) ==
    /\ pc[p] = "idle"
    /\ calls < MaxCalls
    /\ calls' = calls + 1
    /\ job' = [job EXCEPT ![p] = record]
    /\ Goto(p, "open_lock")
    /\ UNCHANGED <<files, fd, lockFd, holds, outcome, acked, faults>>

\* read_live_runs tests that the manifest is a file before it locks anything.
CallRead(p) ==
    /\ pc[p] = "idle"
    /\ calls < MaxCalls
    /\ calls' = calls + 1
    /\ IF manifest = None
       THEN Return(p, Error)
       ELSE /\ Goto(p, "open_lock")
            /\ UNCHANGED <<job, fd, lockFd, holds, outcome>>
    /\ UNCHANGED <<files, acked, faults>>

\* An inode no path and no descriptor refers to: what O_CREAT makes.
FreshLock(f) == f # lockFile /\ \A p \in Procs : lockFd[p] # f
FreshManifest(f) ==
    /\ f # manifest
    /\ \A p \in Procs : fd[p] # f
    /\ rows[f] = <<>> /\ tail[f] = "clean"

OpenLock(p) ==
    /\ pc[p] = "open_lock"
    /\ \E f \in LockFiles :
          /\ IF lockFile = None THEN FreshLock(f) ELSE f = lockFile
          /\ lockFile' = f
          /\ lockFd' = [lockFd EXCEPT ![p] = f]
    /\ Goto(p, "flock_lock")
    /\ UNCHANGED <<manifest, rows, tail, synced, job, fd, holds, outcome,
                   acked, calls, faults>>

\* flock, then the check that the path still names what is held.
FlockLock(p) ==
    /\ pc[p] = "flock_lock"
    /\ MayLock(p, "lock", lockFd[p])
    /\ IF lockFile = lockFd[p]
       THEN /\ holds' = [holds EXCEPT ![p] = @ \cup {"lock"}]
            /\ Goto(p, "open_leaf")
            /\ UNCHANGED <<job, fd, lockFd, outcome>>
       ELSE Return(p, Error)
    /\ UNCHANGED <<files, acked, calls, faults>>

\* An append creates the manifest; a read of a missing one is an error.
OpenLeaf(p) ==
    /\ pc[p] = "open_leaf"
    /\ \/ /\ manifest # None
          /\ fd' = [fd EXCEPT ![p] = manifest]
          /\ Goto(p, "flock_leaf")
          /\ UNCHANGED <<manifest, job, lockFd, holds, outcome>>
       \/ /\ manifest = None /\ IsAppend(p)
          /\ \E f \in Manifests :
                /\ FreshManifest(f)
                /\ manifest' = f
                /\ fd' = [fd EXCEPT ![p] = f]
          /\ Goto(p, "flock_leaf")
          /\ UNCHANGED <<job, lockFd, holds, outcome>>
       \/ /\ manifest = None /\ ~IsAppend(p)
          /\ Return(p, Error)
          /\ UNCHANGED manifest
    /\ UNCHANGED <<lockFile, rows, tail, synced, acked, calls, faults>>

FlockLeaf(p) ==
    /\ pc[p] = "flock_leaf"
    /\ MayLock(p, "leaf", fd[p])
    /\ holds' = [holds EXCEPT ![p] = @ \cup {"leaf"}]
    /\ Goto(p, "validate")
    /\ UNCHANGED <<files, job, fd, lockFd, outcome, acked, calls, faults>>

-----------------------------------------------------------------------------
(* Under both locks *)

\* The file read whole is the one at the path, and every line of it parses.
Readable(p) == manifest = fd[p] /\ tail[fd[p]] \in {"clean", "unterminated"}

\* Faulty variant: a read that parses and does not validate.
ReadRowsUnchecked(p) ==
    /\ pc[p] = "validate" /\ ~IsAppend(p)
    /\ Return(p, IF Readable(p) THEN Rows(rows[fd[p]]) ELSE Error)
    /\ UNCHANGED <<files, acked, calls, faults>>

\* The last two steps of read_live_runs.
ReadRows(p) ==
    /\ pc[p] = "validate" /\ ~IsAppend(p)
    /\ Return(p, IF Readable(p) /\ ValidHistory(rows[fd[p]])
                 THEN Rows(rows[fd[p]]) ELSE Error)
    /\ UNCHANGED <<files, acked, calls, faults>>

\* Faulty variant: an append that parses and does not validate.
ValidateNothing(p) ==
    /\ pc[p] = "validate" /\ IsAppend(p)
    /\ IF Readable(p)
       THEN Goto(p, "write") /\ UNCHANGED <<job, fd, lockFd, holds, outcome>>
       ELSE Return(p, Error)
    /\ UNCHANGED <<files, acked, calls, faults>>

Validate(p) ==
    /\ pc[p] = "validate" /\ IsAppend(p)
    /\ IF Readable(p) /\ AcceptsNext(rows[fd[p]], job[p])
       THEN Goto(p, "write") /\ UNCHANGED <<job, fd, lockFd, holds, outcome>>
       ELSE Return(p, Error)
    /\ UNCHANGED <<files, acked, calls, faults>>

\* Bytes appended to an unterminated line end up on that line: the record it
\* held and the one being appended become one line that does not parse.
Glue(f) ==
    /\ rows' = [rows EXCEPT ![f] = Front(@)]
    /\ tail' = [tail EXCEPT ![f] = "corrupt"]

\* os.write of the whole payload, or of what is left of it, onto inode f.
FinishLine(f, record) ==
    CASE tail[f] \in {"clean", "fragment"} ->
            /\ rows' = [rows EXCEPT ![f] = Append(@, record)]
            /\ tail' = [tail EXCEPT ![f] = "clean"]
      [] tail[f] = "unterminated" ->
            /\ tail' = [tail EXCEPT ![f] = "clean"]
            /\ UNCHANGED rows
      [] tail[f] = "corrupt" -> UNCHANGED <<rows, tail>>

\* An os.write of the payload that the kernel cuts short.
CutLine(f, record, cut) ==
    /\ rows' = [rows EXCEPT ![f] =
                   IF cut = "unterminated" THEN Append(@, record) ELSE @]
    /\ tail' = [tail EXCEPT ![f] = cut]

Write(p) ==
    /\ pc[p] = "write"
    /\ \/ tail[fd[p]] = "clean" /\ FinishLine(fd[p], job[p]) /\ Goto(p, "fsync")
       \/ /\ tail[fd[p]] = "clean"
          /\ \E cut \in Cuts : CutLine(fd[p], job[p], cut)
          /\ Goto(p, "rewrite")
       \/ tail[fd[p]] = "unterminated" /\ Glue(fd[p]) /\ Goto(p, "rewrite")
    /\ UNCHANGED <<manifest, lockFile, synced, job, fd, lockFd, holds, outcome,
                   acked, calls, faults>>

\* Faulty variant: a write of no bytes is tried again for ever.
RewriteNothing(p) == pc[p] = "rewrite" /\ UNCHANGED vars

\* The loop writes what is left.
Rewrite(p) ==
    /\ pc[p] = "rewrite"
    /\ FinishLine(fd[p], job[p])
    /\ Goto(p, "fsync")
    /\ UNCHANGED <<manifest, lockFile, synced, job, fd, lockFd, holds, outcome,
                   acked, calls, faults>>

\* Faulty variant: success without the fsync.
SkipFsync(p) ==
    /\ pc[p] = "fsync"
    /\ Goto(p, "recheck")
    /\ UNCHANGED <<files, job, fd, lockFd, holds, outcome, acked, calls, faults>>

Fsync(p) ==
    /\ pc[p] = "fsync"
    /\ synced' = [synced EXCEPT ![fd[p]] = Len(rows[fd[p]])]
    /\ Goto(p, "recheck")
    /\ UNCHANGED <<manifest, lockFile, rows, tail, job, fd, lockFd, holds,
                   outcome, acked, calls, faults>>

\* A system call raises: what was written stays in the file.
IOError(p) ==
    /\ pc[p] # "idle"
    /\ Return(p, Error)
    /\ UNCHANGED <<files, acked, calls, faults>>

\* The path must still name the file the record went to.
Recheck(p) ==
    /\ pc[p] = "recheck"
    /\ IF manifest = fd[p]
       THEN /\ Return(p, Appended)
            /\ acked' = acked \cup {<<fd[p], Len(rows[fd[p]]), job[p]>>}
       ELSE Return(p, Error) /\ UNCHANGED acked
    /\ UNCHANGED <<files, calls, faults>>

Advance(p) ==
    \/ OpenLock(p) \/ FlockLock(p) \/ OpenLeaf(p) \/ FlockLeaf(p)
    \/ ReadRows(p) \/ Validate(p)
    \/ Write(p) \/ Rewrite(p) \/ Fsync(p) \/ Recheck(p)

-----------------------------------------------------------------------------
(* Faults and the operator *)

Fault == faults < MaxFaults /\ faults' = faults + 1

\* The kernel closes a killed process's descriptors, which frees its flocks.
Kill(p) ==
    /\ Fault
    /\ pc[p] # "idle"
    /\ Return(p, None_)
    /\ UNCHANGED <<files, acked, calls>>

\* What a power loss may leave of inode f: all that was fsynced, then any
\* number of the later lines, then perhaps a piece of the next one.
AfterPowerLoss(f) ==
    {<<rows[f], tail[f]>>} \cup
    {<<SubSeq(rows[f], 1, n), t>> :
        n \in synced[f]..(Len(rows[f]) - 1), t \in {"clean", "fragment"}} \cup
    IF tail[f] = "fragment" THEN {<<rows[f], "clean">>} ELSE {}

PowerLoss ==
    /\ Fault
    /\ \E image \in [Manifests -> UNION {AfterPowerLoss(f) : f \in Manifests}] :
          /\ \A f \in Manifests : image[f] \in AfterPowerLoss(f)
          /\ rows' = [f \in Manifests |-> image[f][1]]
          /\ tail' = [f \in Manifests |-> image[f][2]]
          /\ synced' = [f \in Manifests |-> Len(image[f][1])]
    /\ pc' = [p \in Procs |-> "idle"]
    /\ job' = [p \in Procs |-> None]
    /\ fd' = [p \in Procs |-> None]
    /\ lockFd' = [p \in Procs |-> None]
    /\ holds' = [p \in Procs |-> {}]
    /\ outcome' = [p \in Procs |-> None_]
    /\ UNCHANGED <<manifest, lockFile, acked, calls>>

\* Someone tidies the lock file away.
RemoveLockFile ==
    /\ Fault
    /\ lockFile # None
    /\ lockFile' = None
    /\ UNCHANGED <<manifest, rows, tail, synced, process, acked, calls>>

\* Someone renames a copy over the manifest.
Restore(f, content) ==
    /\ Fault
    /\ FreshManifest(f)
    /\ manifest' = f
    /\ rows' = [rows EXCEPT ![f] = content]
    /\ synced' = [synced EXCEPT ![f] = Len(content)]
    /\ UNCHANGED <<lockFile, tail, process, acked, calls>>

\* The bound on calls is reached and every call has returned.
AllReturned ==
    /\ calls = MaxCalls
    /\ \A p \in Procs : pc[p] = "idle"
    /\ UNCHANGED vars

Next ==
    \/ \E p \in Procs, record \in Records : CallAppend(p, record)
    \/ \E p \in Procs : CallRead(p) \/ Advance(p) \/ IOError(p) \/ Kill(p)
    \/ PowerLoss
    \/ RemoveLockFile
    \/ \E f \in Manifests, content \in Restores : Restore(f, content)
    \/ AllReturned

Spec == Init /\ [][Next]_vars

\* A process that is not killed keeps making the system calls of its call;
\* with finitely many calls nobody waits for a flock forever.
FairSpec == Spec /\ \A p \in Procs : WF_vars(Advance(p))

-----------------------------------------------------------------------------
(* Properties *)

HeldAt(label) ==
    CASE label \in {"idle", "open_lock", "flock_lock"} -> {}
      [] label \in {"open_leaf", "flock_leaf"} -> {"lock"}
      [] OTHER -> {"lock", "leaf"}

\* A process holds the descriptors and flocks of the place it has reached:
\* none is leaked by an early return, an exception or a success.
AtItsPlace(p) ==
    /\ holds[p] = HeldAt(pc[p])
    /\ lockFd[p] = None <=> pc[p] \in {"idle", "open_lock"}
    /\ fd[p] = None <=> pc[p] \in {"idle", "open_lock", "flock_lock", "open_leaf"}
    /\ pc[p] = "idle" => job[p] = None
    /\ pc[p] \in {"write", "rewrite", "fsync", "recheck"} => job[p] # None

FilesTyped ==
    /\ manifest \in Manifests \cup {None}
    /\ lockFile \in LockFiles \cup {None}
    /\ rows \in [Manifests -> Seq(LiveRunRecord)]
    /\ tail \in [Manifests -> {"clean", "fragment", "unterminated", "corrupt"}]
    /\ synced \in [Manifests -> Nat]

ProcessTyped ==
    /\ pc \in [Procs -> PC]
    /\ job \in [Procs -> Records \cup {None}]
    /\ fd \in [Procs -> Manifests \cup {None}]
    /\ lockFd \in [Procs -> LockFiles \cup {None}]
    /\ holds \in [Procs -> SUBSET {"lock", "leaf"}]
    /\ outcome \in [Procs -> Outcome]
    /\ \A p \in Procs : AtItsPlace(p)

\* Types, and no descriptor or flock held at any place but its own.
TypeOK ==
    /\ FilesTyped
    /\ ProcessTyped
    /\ acked \subseteq Manifests \X Nat \X Records
    /\ calls \in 0..MaxCalls
    /\ faults \in 0..MaxFaults

\* Whatever a read returns is a consistent history, of any two events of one
\* run: a manifest copied from elsewhere, glued or cut is refused, never
\* shown (read_live_runs, _validate_live_run_history).
ReadsConsistentHistory ==
    \A p \in Procs : outcome[p].status = "rows" => ConsistentHistory(outcome[p].rows)

\* Between an appender's validation and its last write nothing reaches the
\* file it validated: the record still follows the rows it is written behind,
\* although the lock file may have been removed in between and another
\* process may hold a new one (append_live_run's second flock, on the leaf).
StillAccepted ==
    \A p \in Procs :
        pc[p] = "write" => AcceptsNext(rows[fd[p]], job[p])

\* The inductive invariant behind StillAccepted and ManifestIsValid: an appender
\* under the leaf's flock shares that leaf with nobody, what it validated stays
\* acceptable until its line is finished, and only restored rows are invalid.
Excluded ==
    \A p, q \in Procs :
        /\ p # q /\ fd[p] = fd[q]
        /\ "leaf" \in holds[p] /\ "leaf" \in holds[q]
        => ~IsAppend(p) /\ ~IsAppend(q)

AcceptedTillWritten ==
    \A p \in Procs :
        \/ pc[p] = "write"
        \/ pc[p] = "rewrite" /\ tail[fd[p]] \in {"clean", "fragment"}
        => AcceptsNext(rows[fd[p]], job[p])

OnlyRestoredInvalid ==
    \A f \in Manifests :
        ValidHistory(rows[f]) \/ (rows[f] \in Restores /\ synced[f] >= Len(rows[f]))

HistoryInv == TypeOK /\ Excluded /\ AcceptedTillWritten /\ OnlyRestoredInvalid

\* A record whose append succeeded stays at its position of its file through
\* every later append, kill and power loss (the write, then the fsync, then
\* success).  A record cut just before its newline is the exception that
\* AppendIsOneLine below is about.
AckedIsDurable ==
    \A a \in acked : a[2] \in 1..Len(rows[a[1]]) /\ rows[a[1]][a[2]] = a[3]

\* The inductive invariant behind AckedIsDurable, for short writes that never
\* stop just before the newline: an acknowledged row is among the fsynced ones,
\* and a row on its way to acknowledgement is the last of its file.
DurabilityInv ==
    /\ \A f \in Manifests : tail[f] \in {"clean", "fragment"} /\ synced[f] <= Len(rows[f])
    /\ \A a \in acked : a[2] \in 1..synced[a[1]] /\ rows[a[1]][a[2]] = a[3]
    /\ \A p \in Procs : pc[p] \in {"fsync", "recheck"} =>
          Len(rows[fd[p]]) > 0 /\ rows[fd[p]][Len(rows[fd[p]])] = job[p]
    /\ \A p \in Procs : pc[p] = "recheck" => synced[fd[p]] = Len(rows[fd[p]])

\* A manifest nobody restored holds only events that follow one another, even
\* the events whose append failed after the write.
ManifestIsValid ==
    \A f \in Manifests : ValidHistory(rows[f]) \/ rows[f] \in Restores

\* The current-state view of a run only ever moves forward (status, time,
\* axes filled once, model fixed) while its manifest stays in place.
ProjectionsOnlyExtend ==
    [][\A f \in Manifests, run \in RunIds :
          /\ manifest = f /\ manifest' = f
          /\ ValidHistory(rows[f]) /\ Len(rows'[f]) > Len(rows[f])
          /\ Events(rows[f], run) # {}
          => ProjectionExtends(Project(rows[f], run), Project(rows'[f], run))]_rows

\* Several processes, two flocks, kills and power losses together implement
\* the ledger: the current manifest is its events, a reported success its
\* promise.
Ledger == INSTANCE RunLedger WITH
    Offered  <- Records,
    ledger   <- IF manifest = None THEN <<>> ELSE rows[manifest],
    promised <- {<<a[2], a[3]>> : a \in acked}

ImplementsLedger == Ledger!Spec

\* Every call returns: two locks taken in one order by everybody.
EveryCallReturns == \A p \in Procs : pc[p] # "idle" ~> pc[p] = "idle"

\* append_live_run's docstring: "Append record as one JSON line".  When it
\* reports success the record is the last line of the file.
AppendIsOneLine ==
    [][\A p \in Procs :
          pc[p] = "recheck" /\ outcome'[p] = Appended
            => rows[fd[p]] # <<>> /\ Last(rows[fd[p]]) = job[p]
               /\ tail[fd[p]] = "clean"]_vars
=============================================================================

----------------------------- MODULE RunSession -----------------------------
(***************************************************************************)
(* The operator console's one run at a time (src/bencheval/ui/session.py): *)
(* RunSessionController.start, snapshot and cancel in the console process, *)
(* and _run_worker in the child process each run gets.                     *)
(*                                                                         *)
(* The controller's lock serialises its methods, so at most one call is    *)
(* under way; the worker, its descendants, the pipe and the kernel's       *)
(* process table change between any two system calls of that call.  A run  *)
(* is known by a number, which also stands for its worker's pid and for    *)
(* the process group the worker founds with setsid.  The kernel gives the  *)
(* number to a stranger's process group once the worker is reaped and its  *)
(* group is empty, and never before.                                       *)
(***************************************************************************)
EXTENDS Naturals, Sequences

CONSTANT MaxRuns   \* bound: runs started in the life of the console

ASSUME MaxRunsIsNat == MaxRuns \in Nat

Runs == 1..MaxRuns
None == 0          \* no run, no process, no group, no receiver

VARIABLES
    \* RunSessionController
    state,      \* _state
    process,    \* _process: the run whose worker it is; also _run_id
    group,      \* _process_group_id
    receiver,   \* _receiver: the run whose pipe it reads
    result,     \* _result: the run whose result it is
    \* the call under way
    op,         \* which method, or "atexit"
    at,         \* the step it is at; "idle" between calls
    target,     \* group_id of _stop_owned_process_locked
    then,       \* what follows _stop_owned_process_locked
    \* the children and the kernel
    worker,     \* worker[r]: how far _run_worker is, or how it ended
    grouped,    \* the runs whose worker has called setsid
    kids,       \* the runs with live descendants in their group
    frames,     \* frames[r]: what is in the pipe
    reused      \* the runs whose number names a stranger's group now

controller == <<state, process, group, receiver, result>>
call       == <<op, at, target, then>>
children   == <<worker, grouped, kids, frames>>
vars       == <<controller, call, children, reused>>

Init ==
    /\ state = "idle"
    /\ process = None /\ group = None /\ receiver = None /\ result = None
    /\ op = "none" /\ at = "idle" /\ target = None /\ then = "none"
    /\ worker = [r \in Runs |-> "unborn"]
    /\ grouped = {} /\ kids = {}
    /\ frames = [r \in Runs |-> <<>>]
    /\ reused = {}

Alive(r)  == worker[r] \in {"boot", "leader", "work", "told", "closed"}
Exited(r) == worker[r] \in {"zombie", "reaped"}
\* The worker has closed its end of the pipe, or died.
Hung(r)   == Exited(r) \/ worker[r] = "closed"

\* A group lives as long as a member that is not reaped.
GroupExists(r) == r \in grouped /\ (r \in kids \/ worker[r] # "reaped")

Reaped(r) == [worker EXCEPT ![r] = IF @ = "zombie" THEN "reaped" ELSE @]
Dead(r)   == [worker EXCEPT ![r] = IF Alive(r) THEN "zombie" ELSE @]

-----------------------------------------------------------------------------
(* _run_worker and its descendants *)

WorkerStep(r, from, to, sent) ==
    /\ worker[r] = from
    /\ worker' = [worker EXCEPT ![r] = to]
    /\ frames' = [frames EXCEPT ![r] = @ \o sent]
    /\ UNCHANGED <<controller, call, kids, reused>>

Setsid(r) == WorkerStep(r, "boot", "leader", <<>>) /\ grouped' = grouped \cup {r}
SendReady(r) == WorkerStep(r, "leader", "work", <<"ready">>) /\ UNCHANGED grouped
\* OperatorOperations().start returned, or raised.
SendResult(r) ==
    /\ \E frame \in {"ok", "failed"} : WorkerStep(r, "work", "told", <<frame>>)
    /\ UNCHANGED grouped
CloseSender(r) == WorkerStep(r, "told", "closed", <<>>) /\ UNCHANGED grouped
Exit(r) == WorkerStep(r, "closed", "zombie", <<>>) /\ UNCHANGED grouped

Work(r) == Setsid(r) \/ SendReady(r) \/ SendResult(r) \/ CloseSender(r) \/ Exit(r)

\* A harness is started in the worker's group, and may outlive the worker.
Fork(r) ==
    /\ worker[r] = "work" /\ r \notin kids
    /\ kids' = kids \cup {r}
    /\ UNCHANGED <<controller, call, worker, grouped, frames, reused>>

KidsEnd(r) ==
    /\ r \in kids
    /\ kids' = kids \ {r}
    /\ UNCHANGED <<controller, call, worker, grouped, frames, reused>>

\* Something other than the controller kills the worker.
Crash(r) ==
    /\ Alive(r)
    /\ worker' = Dead(r)
    /\ UNCHANGED <<controller, call, grouped, kids, frames, reused>>

\* The kernel hands the number to someone else.
Reuse(r) ==
    /\ worker[r] = "reaped" /\ ~GroupExists(r) /\ r \notin reused
    /\ reused' = reused \cup {r}
    /\ UNCHANGED <<controller, call, children>>

-----------------------------------------------------------------------------
(* Calls, and _refresh_locked, which each of them begins with *)

Goto(label) == at' = label /\ UNCHANGED <<op, target, then>>
Stop(after) == at' = "stop" /\ then' = after /\ UNCHANGED <<op, target>>
Return ==
    /\ at' = IF op = "atexit" THEN "gone" ELSE "idle"
    /\ op' = "none" /\ target' = None /\ then' = "none"

Call(method) ==
    /\ at = "idle"
    /\ method = "start" => \E r \in Runs : worker[r] = "unborn"
    /\ op' = method
    /\ at' = "poll"
    /\ UNCHANGED <<controller, target, then, children, reused>>

\* Faulty variant: any frame ends the reading.
TakeReadyOnce ==
    /\ group' = process
    /\ receiver' = None
    /\ UNCHANGED <<state, process, result>>
    /\ Goto("sentinel")

\* A ready frame: the worker leads its own group from now on.
TakeReady ==
    /\ group' = process
    /\ UNCHANGED <<state, process, receiver, result>>
    /\ Goto("poll")

\* A result frame: the state first, then whatever is left of the group.
TakeResult(frame) ==
    /\ state' = IF frame = "ok" THEN "completed" ELSE "failed"
    /\ result' = IF frame = "ok" THEN receiver ELSE result
    /\ UNCHANGED <<process, group, receiver>>
    /\ Stop("close")

Poll ==
    /\ at = "poll"
    /\ \/ /\ receiver # None /\ frames[receiver] # <<>>
          /\ frames' = [frames EXCEPT ![receiver] = Tail(@)]
          /\ LET frame == Head(frames[receiver]) IN
             IF frame = "ready" THEN TakeReady ELSE TakeResult(frame)
       \/ /\ receiver # None /\ frames[receiver] = <<>> /\ Hung(receiver)
          /\ receiver' = None
          /\ state' = IF state = "running" THEN "failed" ELSE state
          /\ Goto("sentinel")
          /\ UNCHANGED <<process, group, result, frames>>
       \/ /\ receiver # None => frames[receiver] = <<>> /\ ~Hung(receiver)
          /\ Goto("sentinel")
          /\ UNCHANGED <<controller, frames>>
    /\ UNCHANGED <<worker, grouped, kids, reused>>

\* The sentinel tells that the worker exited without reaping it.
Sentinel ==
    /\ at = "sentinel"
    /\ \/ /\ process # None /\ Exited(process) /\ group # None
          /\ Stop("exited")
          /\ UNCHANGED <<state, worker>>
       \/ /\ process # None /\ Exited(process) /\ group = None
          /\ worker' = Reaped(process)
          /\ state' = IF state = "running" THEN "failed" ELSE state
          /\ Goto(op)
       \/ /\ process # None => ~Exited(process)
          /\ Goto(op)
          /\ UNCHANGED <<state, worker>>
    /\ UNCHANGED <<process, group, receiver, result, grouped, kids, frames, reused>>

-----------------------------------------------------------------------------
(* The rest of each method *)

Snapshot ==
    /\ at = "snapshot"
    /\ Return
    /\ UNCHANGED <<controller, children, reused>>

\* process.start() of the next run; the controller forgets the one before.
Launch ==
    /\ \E r \in Runs :
          /\ worker[r] = "unborn" /\ \A q \in 1..(r - 1) : worker[q] # "unborn"
          /\ worker' = [IF process = None THEN worker ELSE Reaped(process) EXCEPT ![r] = "boot"]
          /\ process' = r /\ receiver' = r
    /\ state' = "running"
    /\ group' = None
    /\ result' = None

\* Faulty variant: a second run beside the first.
StartAnother ==
    /\ at = "start"
    /\ Launch
    /\ Return
    /\ UNCHANGED <<grouped, kids, frames, reused>>

\* is_alive reaps a worker that has exited since the sentinel was looked at.
Start ==
    /\ at = "start"
    /\ IF process # None /\ Alive(process) THEN UNCHANGED <<controller, worker>> ELSE Launch
    /\ Return
    /\ UNCHANGED <<grouped, kids, frames, reused>>

\* Faulty variant: never a no-op.
CancelAnything ==
    /\ at \in {"cancel", "atexit"}
    /\ Stop("cancelled")
    /\ UNCHANGED <<controller, children, reused>>

Cancel ==
    /\ at \in {"cancel", "atexit"}
    /\ IF (process = None \/ Exited(process)) /\ group = None
       THEN Return
       ELSE Stop("cancelled")
    /\ UNCHANGED <<controller, children, reused>>

-----------------------------------------------------------------------------
(* _stop_owned_process_locked *)

\* Without a ready frame the worker's pid is tried, if it is_alive.
ChooseGroup ==
    /\ at = "stop"
    /\ target' = IF group # None THEN group
                 ELSE IF process # None /\ Alive(process) THEN process ELSE None
    /\ worker' = IF group = None /\ process # None THEN Reaped(process) ELSE worker
    /\ at' = "term"
    /\ UNCHANGED <<controller, op, then, grouped, kids, frames, reused>>

\* os.killpg(target, ...) finds a group.
Signalled == target # None /\ (GroupExists(target) \/ target \in reused)

\* os.killpg(target, SIGTERM): descendants may ignore it.
Term ==
    /\ at = "term"
    /\ IF Signalled
       THEN /\ IF GroupExists(target)
               THEN worker' = Dead(target) /\ kids' \in {kids, kids \ {target}}
               ELSE UNCHANGED <<worker, kids>>
            /\ Goto("kill")
       ELSE UNCHANGED <<worker, kids>> /\ Goto("terminate")
    /\ UNCHANGED <<controller, grouped, frames, reused>>

\* No group to signal: process.terminate(), then join, which reaps.
Terminate ==
    /\ at = "terminate"
    /\ worker' = IF process # None THEN [worker EXCEPT ![process] = "reaped"] ELSE worker
    /\ Goto("join")
    /\ UNCHANGED <<controller, grouped, kids, frames, reused>>

\* Faulty variant: SIGTERM is thought to be enough.
KillNobody ==
    /\ at = "kill"
    /\ Goto("join")
    /\ UNCHANGED <<controller, children, reused>>

\* After the grace period, os.killpg(target, SIGKILL): nobody survives it.
Kill ==
    /\ at = "kill"
    /\ IF Signalled /\ GroupExists(target)
       THEN worker' = Dead(target) /\ kids' = kids \ {target}
       ELSE UNCHANGED <<worker, kids>>
    /\ Goto("join")
    /\ UNCHANGED <<controller, grouped, frames, reused>>

\* process.join, then back to where the method was called from.
Join ==
    /\ at = "join"
    /\ worker' = IF process # None THEN Reaped(process) ELSE worker
    /\ group' = None
    /\ \/ /\ then = "close"
          /\ receiver' = None
          /\ at' = "sentinel" /\ then' = "none" /\ target' = None
          /\ UNCHANGED <<state, op>>
       \/ /\ then = "exited"
          /\ state' = IF state = "running" THEN "failed" ELSE state
          /\ at' = op /\ then' = "none" /\ target' = None
          /\ UNCHANGED <<receiver, op>>
       \/ then = "cancelled" /\ state' = "cancelled" /\ Return /\ UNCHANGED receiver
    /\ UNCHANGED <<process, result, grouped, kids, frames, reused>>

Continue ==
    \/ Poll \/ Sentinel \/ Snapshot \/ Start \/ Cancel
    \/ ChooseGroup \/ Term \/ Terminate \/ Kill \/ Join

\* The console is gone; so is everyone who could act.
Gone == at = "gone" /\ UNCHANGED vars

Next ==
    \/ \E method \in {"start", "snapshot", "cancel", "atexit"} : Call(method)
    \/ Continue
    \/ \E r \in Runs : Work(r) \/ Fork(r) \/ KidsEnd(r) \/ Crash(r) \/ Reuse(r)
    \/ Gone

Spec == Init /\ [][Next]_vars

\* A call the console made goes on, and /runs takes a snapshot every two seconds.
FairSpec == Spec /\ WF_vars(Continue) /\ WF_vars(Call("snapshot"))

-----------------------------------------------------------------------------
(* Properties *)

\* AR-20: at most one run is under way, however starts, snapshots, cancels and
\* the worker's own death interleave (start's is_alive).
AtMostOneRun == \A q, r \in Runs : Alive(q) /\ Alive(r) => q = r

\* When the console says a run completed or was cancelled, or is itself gone,
\* the worker is dead; a completed run has left no descendant in its group
\* either (_stop_owned_process_locked before the call returns).
StoppedIsStopped ==
    /\ at = "gone" \/ (at = "idle" /\ state \in {"completed", "cancelled"})
          => process = None \/ Exited(process)
    /\ at = "idle" /\ state = "completed" => process \notin kids

\* A completed run is never called anything else before the next start.
CompletedIsFinal ==
    [][state = "completed" /\ state' # state => op = "start"]_state

\* A run that finished is shown as completed in the end, as long as somebody
\* looks, unless it was cancelled or replaced or the console is gone: a worker
\* that finishes and dies between two steps of a look is no exception.
ResultIsShown ==
    \A r \in Runs :
        frames[r] # <<>> /\ frames[r][Len(frames[r])] = "ok"
            ~> process # r \/ state \in {"completed", "cancelled"} \/ at = "gone"

\* What outlives its worker is killed in the end, with the same exceptions.
OrphansAreKilled ==
    \A r \in Runs : Exited(r) /\ r \in kids ~> r \notin kids \/ process # r \/ at = "gone"

=============================================================================

-------------------------- MODULE CybermetricSlice --------------------------
(***************************************************************************)
(* BenchEval's CyberMetric lane (cybermetric_adapter.py and                *)
(* _execute_cybermetric of control_plane_executor.py): every planned       *)
(* question is asked at most MaxAttempts times inside one wall, all of     *)
(* them inside the run's; a watchdog thread ends an exchange at its        *)
(* deadline by shutting its socket down, whatever the far end is doing.    *)
(***************************************************************************)
EXTENDS Integers, Sequences

CONSTANTS
    Questions,    \* planned questions, in plan order
    MaxAttempts,  \* MAX_ATTEMPTS
    QuestionWall, \* max_wall_clock_sec_per_instance, in ticks
    RunWall,      \* max_wall_clock_sec
    Horizon       \* bound: the last tick

ASSUME CybermetricAssumption ==
    /\ Questions \in Nat /\ MaxAttempts \in Nat \ {0}
    /\ QuestionWall \in Nat \ {0} /\ RunWall \in Nat /\ Horizon >= RunWall + QuestionWall + 1

VARIABLES
    clock,     \* time.monotonic() since the slice began
    place,     \* how far the main thread is
    asked,     \* requests of the current question
    deadline,  \* of the current question
    granted,   \* what the current request is given
    cutoff,    \* deadline of the current exchange
    timer,     \* the watchdog: off, set, expired (the flag is up) or done
    armed,     \* it has the exchange's socket
    cut,       \* it has shut that socket down
    far,       \* what the far end does with the request
    wire,      \* how the exchange ended: open, whole, cut, broken, timeout or
               \*   gaveup (the kernel's ETIMEDOUT, whatever the time)
    readAt,    \* when
    outcomes,  \* labels of the questions asked so far
    rows       \* labels of the rows appended to the evidence

watchdog  == <<timer, armed, cut>>
request   == <<granted, cutoff, far, wire, readAt>>
question  == <<asked, deadline>>
sliceVars == <<clock, place, question, request, watchdog, outcomes, rows>>

ScoredLabels == {"pass", "model_wrong_solution"}

\* Answers with the right letter, another one or none; a body that is no
\* chat completion; another status; a connection that breaks, or that the
\* kernel gives up; a body that keeps arriving, and one that never starts.
FarEnds == {"right", "wrong", "no_letter", "not_chat", "status", "breaks", "vanishes",
            "trickles", "silent"}
Whole   == {"right", "wrong", "no_letter", "not_chat", "status"}

Least(a, b) == IF a < b THEN a ELSE b

SliceInit ==
    /\ clock = 0 /\ place = "start"
    /\ asked = 0 /\ deadline = 0
    /\ granted = 0 /\ cutoff = 0 /\ far = "silent" /\ wire = "open" /\ readAt = 0
    /\ timer = "off" /\ armed = FALSE /\ cut = FALSE
    /\ outcomes = <<>> /\ rows = <<>>

-----------------------------------------------------------------------------
(* The slice *)

\* Doctor, launch, pinned data set and its planned records: all of them in
\* memory before any output is claimed; the run's wall counts from then on.
Start ==
    /\ place = "start"
    /\ place' \in {"question", "refused"}
    /\ clock' = 0
    /\ UNCHANGED <<question, request, watchdog, outcomes, rows>>

\* evaluate_question: one deadline, or the run's when that is sooner.
Ask ==
    /\ place = "question" /\ Len(outcomes) < Questions
    /\ deadline' = Least(clock + QuestionWall, RunWall)
    /\ asked' = 0
    /\ place' = "attempt"
    /\ UNCHANGED <<clock, request, watchdog, outcomes, rows>>

Settle(label) == outcomes' = Append(outcomes, label) /\ place' = "question"

\* What is left of the question's wall is all the next request gets.
Attempt ==
    /\ place = "attempt"
    /\ IF asked = MaxAttempts
       THEN Settle("model_output_invalid") /\ UNCHANGED <<asked, granted>>
       ELSE IF deadline - clock <= 0
       THEN Settle("runtime_budget_exceeded") /\ UNCHANGED <<asked, granted>>
       ELSE /\ granted' = deadline - clock
            /\ asked' = asked + 1
            /\ place' = "enter" /\ UNCHANGED outcomes
    /\ UNCHANGED <<clock, deadline, cutoff, far, wire, readAt, watchdog, rows>>

-----------------------------------------------------------------------------
(* One exchange *)

\* default_request_runner: the exchange's deadline counts from its own clock.
Enter ==
    /\ place = "enter"
    /\ cutoff' = clock + granted
    /\ wire' = "open" /\ armed' = FALSE /\ cut' = FALSE
    /\ place' = "open"
    /\ UNCHANGED <<clock, question, granted, far, readAt, timer, outcomes, rows>>

Expired == timer \in {"expired", "done"}

\* _exchange raises: the deadline's when the flag is up or the error is a
\* TimeoutError, which the kernel's ETIMEDOUT is too, the far end's otherwise;
\* the watchdog is cancelled, the connection closed.
Raise(end) ==
    /\ Settle(IF Expired \/ end = "timeout" THEN "runtime_budget_exceeded"
                                            ELSE "remote_infra_failure")
    /\ timer' = "off"

Open ==
    /\ place = "open"
    /\ IF cutoff - clock <= 0
       THEN Raise("timeout")
       ELSE timer' = "set" /\ place' = "connect" /\ UNCHANGED outcomes
    /\ UNCHANGED <<clock, question, request, armed, cut, rows>>

\* connect() returns and the watchdog is given the socket.
Arm ==
    /\ place = "connect"
    /\ armed' = TRUE
    /\ place' = "armed"
    /\ UNCHANGED <<clock, question, request, timer, cut, outcomes, rows>>

\* Nothing but the socket's own timeout, of each address, or the kernel's, after
\* its last retry, ends a connect.
ConnectFails ==
    /\ place = "connect"
    /\ \/ Raise("broken") /\ wire' = "broken"
       \/ Raise("timeout") /\ wire' = "gaveup"
       \/ clock >= cutoff /\ Raise("timeout") /\ wire' = "timeout"
    /\ UNCHANGED <<clock, question, granted, cutoff, far, readAt, armed, cut, rows>>

\* Faulty variant: the flag is not looked at again.
SendUnchecked ==
    /\ place = "armed"
    /\ far' \in FarEnds /\ place' = "read"
    /\ UNCHANGED <<clock, question, granted, cutoff, wire, readAt, watchdog, outcomes, rows>>

\* The flag is looked at again, now that the watchdog has the socket.
Send ==
    /\ place = "armed"
    /\ IF Expired
       THEN Raise("timeout") /\ UNCHANGED far
       ELSE far' \in FarEnds /\ place' = "read" /\ UNCHANGED <<timer, outcomes>>
    /\ UNCHANGED <<clock, question, granted, cutoff, wire, readAt, armed, cut, rows>>

\* The far end answers, or breaks off, or the kernel gives it up; the socket was
\* shut down under it (a close-delimited body then ends as if whole); or a wait
\* took all it was given.
Read ==
    /\ place = "read"
    /\ \/ ~cut /\ far \in Whole /\ wire' = "whole" /\ place' = "check" /\ UNCHANGED <<timer, outcomes>>
       \/ ~cut /\ far = "breaks" /\ wire' = "broken" /\ Raise("broken")
       \/ ~cut /\ far = "vanishes" /\ wire' = "gaveup" /\ Raise("timeout")
       \/ cut /\ wire' = "cut" /\ (Raise("cut") \/ (place' = "check" /\ UNCHANGED <<timer, outcomes>>))
       \/ clock >= cutoff /\ far = "silent" /\ wire' = "timeout" /\ Raise("timeout")
    /\ readAt' = clock
    /\ UNCHANGED <<clock, question, granted, cutoff, far, armed, cut, rows>>

\* A normal end of the body is looked at twice: it may be the watchdog's doing.
Check ==
    /\ place = "check"
    /\ IF Expired THEN Raise("timeout")
       ELSE place' = "leave" /\ UNCHANGED <<timer, outcomes>>
    /\ UNCHANGED <<clock, question, request, armed, cut, rows>>

\* __exit__ cancels the timer; a status but 200 or a body that is no envelope
\* (a cut one least of all) is the far end's fault.
Leave ==
    /\ place = "leave"
    /\ timer' = "off"
    /\ IF wire = "cut" \/ far \in {"status", "not_chat"}
       THEN Settle("remote_infra_failure")
       ELSE place' = "judge" /\ UNCHANGED outcomes
    /\ UNCHANGED <<clock, question, request, armed, cut, rows>>

\* Faulty variant: what arrives inside the exchange's deadline is scored.
JudgeByExchange ==
    /\ place = "judge"
    /\ \/ far = "right"     /\ Settle("pass")
       \/ far = "wrong"     /\ Settle("model_wrong_solution")
       \/ far = "no_letter" /\ place' = "attempt" /\ UNCHANGED outcomes
    /\ UNCHANGED <<clock, question, request, watchdog, rows>>

\* A late answer is kept and never scored; the first letter is the answer.
Judge ==
    /\ place = "judge"
    /\ \/ clock >= deadline /\ Settle("runtime_budget_exceeded")
       \/ clock < deadline /\ far = "right" /\ Settle("pass")
       \/ clock < deadline /\ far = "wrong" /\ Settle("model_wrong_solution")
       \/ clock < deadline /\ far = "no_letter" /\ place' = "attempt" /\ UNCHANGED outcomes
    /\ UNCHANGED <<clock, question, request, watchdog, rows>>

-----------------------------------------------------------------------------
(* The watchdog's thread *)

\* Faulty variant: the socket is shut down before the flag is up.
ExpireShutFirst ==
    /\ timer = "set" /\ clock >= cutoff
    /\ \/ armed /\ ~cut /\ cut' = TRUE /\ UNCHANGED timer
       \/ armed = cut /\ timer' = "done" /\ UNCHANGED cut
    /\ UNCHANGED <<clock, place, question, request, armed, outcomes, rows>>

\* _expire raises the flag first ...
Expire ==
    /\ timer = "set" /\ clock >= cutoff
    /\ timer' = "expired"
    /\ UNCHANGED <<clock, place, question, request, armed, cut, outcomes, rows>>

\* ... and then shuts down the socket it has by now, if any.
Shut ==
    /\ timer = "expired"
    /\ timer' = "done" /\ cut' = armed
    /\ UNCHANGED <<clock, place, question, request, armed, outcomes, rows>>

-----------------------------------------------------------------------------
(* The rows *)

\* Directories that are not the slice's own any more fail all of its rows.
Finish ==
    /\ place = "question" /\ Len(outcomes) = Questions
    /\ \/ rows' = outcomes
       \/ rows' = [q \in 1..Questions |-> "evidence_corrupt"]
    /\ place' = "over"
    /\ UNCHANGED <<clock, question, request, watchdog, outcomes>>

\* Time passes; the two walls are read before a request and used in it.
Tick ==
    /\ place \notin {"start", "refused", "over"}
    /\ clock < Horizon /\ (place = "enter" => clock <= RunWall)
    /\ clock' = clock + 1
    /\ UNCHANGED <<place, question, request, watchdog, outcomes, rows>>

SliceOver == place \in {"refused", "over"} /\ UNCHANGED sliceVars

Main ==
    \/ Start \/ Ask \/ Attempt \/ Enter \/ Open \/ Arm \/ ConnectFails
    \/ Send \/ Read \/ Check \/ Leave \/ Judge \/ Finish

Watchdog == Expire \/ Shut

SliceNext == Main \/ Watchdog \/ Tick \/ SliceOver

\* Both threads run and time passes; the far end need not do anything.
SliceSpec ==
    /\ SliceInit /\ [][SliceNext]_sliceVars
    /\ WF_sliceVars(Main) /\ WF_sliceVars(Watchdog) /\ WF_sliceVars(Tick)

-----------------------------------------------------------------------------
(* Properties *)

Settles(labels) == \E l \in labels : outcomes' = Append(outcomes, l)

\* A verdict rests on an answer that was complete before its question's wall,
\* and the run's, were used up: whatever delays the thread between its reading
\* of the clock and the exchange, whose own deadline may then be later, nothing
\* late is scored (evaluate_question, the late branch).
VerdictInTime == [][Settles(ScoredLabels) => readAt < deadline /\ readAt < RunWall]_sliceVars

\* The far end is never blamed for what the watchdog did: an exchange ended by
\* BenchEval's own shutdown is a budget failure, in whatever order the two
\* threads see the flag, the socket and the end of the body.  And the wall is
\* blamed for one thing only that the far end did: a budget failure means that
\* the question's wall was used, or that the kernel gave the connection up under
\* a connect or a read, whose TimeoutError _exchange takes for its own.
BlameIsRight ==
    [][/\ Settles({"remote_infra_failure"}) => wire' # "cut"
       /\ Settles({"runtime_budget_exceeded"}) =>
             clock >= deadline \/ (place \in {"connect", "read"} /\ wire' = "gaveup")]_sliceVars

\* Every slice ends, whatever the far ends do: each blocked exchange is woken,
\* even when the watchdog went off before it was given the socket.
SliceEnds == <>(place \in {"refused", "over"})

=============================================================================

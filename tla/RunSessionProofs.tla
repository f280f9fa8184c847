-------------------------- MODULE RunSessionProofs --------------------------
(***************************************************************************)
(* Proofs about RunSession (src/bencheval/ui/session.py), for any number   *)
(* of runs in the life of the console.  OnlyCurrent is all that one run at *)
(* a time rests on.  GroupInv follows the pipe and the process group: what *)
(* the worker has sent, what the controller has learnt from it, and so     *)
(* when a signal to the group reaches everybody.  StopInv follows          *)
(* _stop_owned_process_locked, and DoneInv says what a console that calls  *)
(* a run completed or cancelled, or that is gone, has behind it.           *)
(***************************************************************************)
EXTENDS RunSession, Integers, SequenceTheorems, TLAPS

States   == {"idle", "running", "completed", "failed", "cancelled"}
Methods  == {"start", "snapshot", "cancel", "atexit"}
Stopping == {"stop", "term", "kill", "terminate", "join"}
Living   == {"boot", "leader", "work", "told", "closed"}
Stages   == Living \cup {"unborn", "zombie", "reaped"}
Sent     == {<<>>, <<"ready">>, <<"ok">>, <<"failed">>, <<"ready", "ok">>, <<"ready", "failed">>}

TypeOK ==
    /\ state \in States
    /\ process \in Runs \cup {None}
    /\ group \in {None, process} /\ receiver \in {None, process}
    /\ result \in Runs \cup {None}
    /\ target \in Runs \cup {None}
    /\ at \in {"idle", "gone", "poll", "sentinel"} \cup Methods \cup Stopping
    /\ op \in Methods \cup {"none"}
    /\ at \in {"idle", "gone"} <=> op = "none"
    /\ at \in Methods => op = at
    /\ then \in {"none", "close", "exited", "cancelled"}
    /\ at \in Stopping <=> then # "none"
    /\ worker \in [Runs -> Stages]
    /\ grouped \subseteq Runs /\ kids \subseteq Runs /\ reused \subseteq Runs
    /\ frames \in [Runs -> Sent]

\* Nobody but the worker the controller knows is alive.
OnlyCurrent == \A r \in Runs : Alive(r) => r = process

\* The next frame in the pipe is the worker's announcement of its group.
ReadyNext(r) == frames[r] # <<>> /\ Head(frames[r]) = "ready"

\* What a worker has done and sent by the place it has reached.
RunFacts(r) ==
    /\ worker[r] \in {"unborn", "boot", "leader"} => frames[r] = <<>>
    /\ worker[r] = "work" => frames[r] \in {<<>>, <<"ready">>}
    /\ worker[r] \in {"leader", "work", "told", "closed"} \/ frames[r] # <<>> \/ r \in kids
          => r \in grouped
    /\ worker[r] = "unborn" => r \notin grouped
    /\ r \in reused => worker[r] = "reaped" /\ r \notin kids

GroupInv ==
    /\ \A r \in Runs : RunFacts(r)
    /\ group # None => group \in grouped
    /\ receiver # None /\ (worker[process] = "work" \/ process \in kids)
          => group = process \/ ReadyNext(process)

StopInv ==
    /\ at \in {"term", "kill"} => target = process \/ (target = None /\ group = None)
    /\ at = "kill" => process # None /\ target = process /\ Exited(process)
    /\ at = "join" => process = None \/ Exited(process)
    /\ at \in {"terminate", "join"} /\ group # None => Exited(process) /\ process \notin kids
    /\ then = "close" =>
          /\ process # None
          /\ worker[process] \in {"told", "closed", "zombie", "reaped"}
          /\ group = process \/ process \notin kids

DoneInv ==
    /\ at = "gone" \/ state = "cancelled" => process = None \/ Exited(process)
    /\ state = "completed" =>
          IF at \in Stopping THEN then = "close"
          ELSE /\ process # None /\ Exited(process) /\ process \notin kids
               /\ group = None /\ receiver = None

SessionInv == TypeOK /\ GroupInv /\ StopInv /\ DoneInv
-----------------------------------------------------------------------------
(* What is in a pipe *)

Frame == {"ready", "ok", "failed"}

LEMMA OneFrame == ASSUME NEW f \in Frame PROVE <<f>> \in Seq(Frame)
OBVIOUS

LEMMA TwoFrames == ASSUME NEW f \in Frame, NEW g \in Frame PROVE <<f, g>> \in Seq(Frame)
OBVIOUS

LEMMA SentIsSeq == \A s \in Sent : s \in Seq(Frame)
<1>1. <<>> \in Seq(Frame)
  OBVIOUS
<1> QED
  BY OneFrame, TwoFrames, <1>1 DEF Sent, Frame

LEMMA SendNothing == \A s \in Sent : s \o <<>> = s
BY SentIsSeq

LEMMA SendFirst == ASSUME NEW f \in Frame PROVE <<>> \o <<f>> = <<f>>
BY OneFrame

LEMMA SendSecond == ASSUME NEW f \in Frame, NEW g \in Frame PROVE <<f>> \o <<g>> = <<f, g>>
<1> DEFINE s == <<f>> \o <<g>>
<1>1. s \in Seq(Frame) /\ Len(s) = 2
  BY OneFrame
<1>2. s[1] = f /\ s[2] = g
  BY OneFrame
<1>3. <<f, g>> \in Seq(Frame) /\ Len(<<f, g>>) = 2 /\ <<f, g>>[1] = f /\ <<f, g>>[2] = g
  BY TwoFrames
<1> HIDE DEF s
<1>4. \A i \in 1..Len(s) : s[i] = <<f, g>>[i]
  BY <1>1, <1>2, <1>3
<1>5. s = <<f, g>>
  BY <1>1, <1>3, <1>4, SeqEqual
<1> QED
  BY <1>5 DEF s

LEMMA TakeFirst ==
    ASSUME NEW f \in Frame, NEW g \in Frame
    PROVE  /\ Head(<<f, g>>) = f /\ Tail(<<f, g>>) = <<g>> /\ <<f, g>> # <<>>
           /\ Head(<<f>>) = f /\ Tail(<<f>>) = <<>> /\ <<f>> # <<>>
BY OneFrame, TwoFrames

\* What taking a frame out of a pipe leaves in it.
LEMMA Taken ==
    ASSUME NEW s \in Sent, s # <<>>
    PROVE  /\ Head(s) \in Frame /\ Tail(s) \in Sent
           /\ Head(s) # "ready" => Tail(s) = <<>>
           /\ s = <<"ready">> => Head(s) = "ready" /\ Tail(s) = <<>>
<1>1. CASE s \in {<<"ready">>, <<"ok">>, <<"failed">>}
  <2>1. PICK f \in Frame : s = <<f>>
    BY <1>1 DEF Frame
  <2>2. Head(s) = f /\ Tail(s) = <<>>
    BY <2>1, TakeFirst
  <2>3. s = <<"ready">> => Head(s) = "ready"
    BY TakeFirst DEF Frame
  <2> QED
    BY <2>2, <2>3 DEF Sent
<1>2. CASE s \in {<<"ready", "ok">>, <<"ready", "failed">>}
  <2>1. PICK g \in {"ok", "failed"} : s = <<"ready", g>>
    BY <1>2
  <2>2. Head(s) = "ready" /\ Tail(s) = <<g>>
    BY <2>1, TakeFirst DEF Frame
  <2>3. <<g>> # <<>> /\ s # <<"ready">>
    <3>1. Tail(<<"ready">>) = <<>> /\ <<g>> # <<>>
      BY TakeFirst DEF Frame
    <3> QED
      BY <2>2, <3>1
  <2> QED
    BY <2>2, <2>3 DEF Sent, Frame
<1> QED
  BY <1>1, <1>2 DEF Sent

\* What a worker that has sent nothing or its announcement sends next.
LEMMA Told ==
    ASSUME NEW s \in {<<>>, <<"ready">>}, NEW f \in {"ok", "failed"}
    PROVE  /\ s \o <<f>> \in Sent /\ s \o <<f>> # <<>>
           /\ s # <<>> => Head(s \o <<f>>) = "ready"
<1>1. CASE s = <<>>
  BY <1>1, SendFirst, TakeFirst DEF Sent, Frame
<1>2. CASE s = <<"ready">>
  BY <1>2, SendSecond, TakeFirst DEF Sent, Frame
<1> QED
  BY <1>1, <1>2
-----------------------------------------------------------------------------
(* Types *)

LEMMA RunsAreNumbers == None \notin Runs /\ Runs \subseteq Nat
BY MaxRunsIsNat DEF None, Runs

LEMMA TypeInit == Init => TypeOK
BY DEF Init, TypeOK, States, Methods, Stopping, Stages, Sent

\* What a process table looks like after a wait or a signal.
LEMMA WorkerTypes ==
    ASSUME TypeOK, NEW r \in Runs
    PROVE  /\ Reaped(r) \in [Runs -> Stages] /\ Dead(r) \in [Runs -> Stages]
           /\ [worker EXCEPT ![r] = "reaped"] \in [Runs -> Stages]
           /\ [worker EXCEPT ![r] = "boot"] \in [Runs -> Stages]
           /\ Reaped(r)[r] = IF worker[r] = "zombie" THEN "reaped" ELSE worker[r]
           /\ Dead(r)[r] = IF Alive(r) THEN "zombie" ELSE worker[r]
           /\ \A q \in Runs \ {r} : Reaped(r)[q] = worker[q] /\ Dead(r)[q] = worker[q]
BY DEF TypeOK, Reaped, Dead, Stages, Living

\* A step of a worker types its pipe.
LEMMA WorkTypes ==
    ASSUME TypeOK, GroupInv, NEW r \in Runs, Work(r)
    PROVE  /\ UNCHANGED <<controller, call, kids, reused>>
           /\ worker' \in [Runs -> Stages] /\ frames' \in [Runs -> Sent]
           /\ grouped' \subseteq Runs
           /\ \A q \in Runs \ {r} : worker'[q] = worker[q] /\ frames'[q] = frames[q]
                                   /\ (q \in grouped' <=> q \in grouped)
           /\ \/ /\ worker[r] = "boot" /\ worker'[r] = "leader" /\ frames' = frames
                 /\ grouped' = grouped \cup {r}
              \/ /\ worker[r] = "leader" /\ worker'[r] = "work" /\ frames'[r] = <<"ready">>
                 /\ frames[r] = <<>> /\ grouped' = grouped
              \/ /\ worker[r] = "work" /\ worker'[r] = "told" /\ frames'[r] # <<>>
                 /\ ReadyNext(r) => ReadyNext(r)'
                 /\ grouped' = grouped
              \/ /\ worker[r] = "told" /\ worker'[r] = "closed" /\ frames' = frames
                 /\ grouped' = grouped
              \/ /\ worker[r] = "closed" /\ worker'[r] = "zombie" /\ frames' = frames
                 /\ grouped' = grouped
<1>1. worker \in [Runs -> Stages] /\ frames \in [Runs -> Sent] /\ grouped \subseteq Runs
  BY DEF TypeOK
<1>2. ASSUME NEW from \in Stages, NEW to \in Stages, WorkerStep(r, from, to, <<>>)
      PROVE  /\ UNCHANGED <<controller, call, kids, reused, frames>>
             /\ worker' \in [Runs -> Stages] /\ worker[r] = from /\ worker'[r] = to
             /\ \A q \in Runs \ {r} : worker'[q] = worker[q]
  <2>1. frames' = [frames EXCEPT ![r] = frames[r] \o <<>>]
    BY <1>2 DEF WorkerStep
  <2>2. frames[r] \o <<>> = frames[r]
    BY <1>1, SendNothing
  <2>3. frames' = frames
    BY <1>1, <2>1, <2>2
  <2> QED
    BY <1>1, <1>2, <2>3 DEF WorkerStep
<1>3. CASE Setsid(r)
  BY <1>1, <1>2, <1>3 DEF Setsid, Stages, Living
<1>4. CASE SendReady(r)
  <2>1. frames[r] = <<>> /\ worker[r] = "leader"
    BY <1>4 DEF GroupInv, RunFacts, SendReady, WorkerStep
  <2>2. frames' = [frames EXCEPT ![r] = <<"ready">>]
    <3>1. frames' = [frames EXCEPT ![r] = frames[r] \o <<"ready">>]
      BY <1>4 DEF SendReady, WorkerStep
    <3>2. frames[r] \o <<"ready">> = <<"ready">>
      BY <2>1, SendFirst DEF Frame
    <3> QED
      BY <3>1, <3>2
  <2>3. <<"ready">> \in Sent
    BY DEF Sent
  <2>4. frames' \in [Runs -> Sent] /\ frames'[r] = <<"ready">>
        /\ \A q \in Runs \ {r} : frames'[q] = frames[q]
    BY <1>1, <2>2, <2>3
  <2> QED
    BY <1>1, <1>4, <2>1, <2>4 DEF SendReady, WorkerStep, Stages, Living
<1>5. CASE SendResult(r)
  <2>1. PICK f \in {"ok", "failed"} : WorkerStep(r, "work", "told", <<f>>)
    BY <1>5 DEF SendResult
  <2>2. worker[r] = "work" /\ frames[r] \in {<<>>, <<"ready">>}
    BY <2>1 DEF GroupInv, RunFacts, WorkerStep
  <2>3. frames' = [frames EXCEPT ![r] = frames[r] \o <<f>>]
    BY <2>1 DEF WorkerStep
  <2>4. frames[r] \o <<f>> \in Sent /\ frames[r] \o <<f>> # <<>>
        /\ (frames[r] # <<>> => Head(frames[r] \o <<f>>) = "ready")
    BY <2>2, Told
  <2>5. frames' \in [Runs -> Sent] /\ frames'[r] = frames[r] \o <<f>>
        /\ \A q \in Runs \ {r} : frames'[q] = frames[q]
    BY <1>1, <2>3, <2>4
  <2>6. ReadyNext(r) => ReadyNext(r)'
    BY <2>4, <2>5 DEF ReadyNext
  <2> QED
    BY <1>1, <1>5, <2>1, <2>2, <2>4, <2>5, <2>6 DEF SendResult, WorkerStep, Stages, Living
<1>6. CASE CloseSender(r)
  BY <1>1, <1>2, <1>6 DEF CloseSender, Stages, Living
<1>7. CASE Exit(r)
  BY <1>1, <1>2, <1>7 DEF Exit, Stages, Living
<1> QED
  BY <1>3, <1>4, <1>5, <1>6, <1>7 DEF Work

LEMMA TypeStep == TypeOK /\ GroupInv /\ [Next]_vars => TypeOK'
<1> SUFFICES ASSUME TypeOK, GroupInv, [Next]_vars PROVE TypeOK'
  OBVIOUS
<1> USE RunsAreNumbers DEF controller, call, children
<1>1. ASSUME NEW m \in Methods, Call(m) PROVE TypeOK'
  BY <1>1 DEF Call, TypeOK, Methods, Stopping
<1>2. CASE Poll
  <2>1. /\ UNCHANGED <<process, worker, grouped, kids, reused, op, target>>
        /\ group' \in {None, process'} /\ receiver' \in {None, process'}
        /\ state' \in States /\ result' \in Runs \cup {None}
    BY <1>2 DEF Poll, TakeReady, TakeResult, Goto, Stop, TypeOK, States
  <2>2. \/ at' \in {"poll", "sentinel"} /\ then' = then
        \/ at' = "stop" /\ then' = "close"
    BY <1>2 DEF Poll, TakeReady, TakeResult, Goto, Stop
  <2>3. at = "poll"
    BY <1>2 DEF Poll
  <2>4. frames' \in [Runs -> Sent]
    <3>1. CASE frames' = frames
      BY <3>1 DEF TypeOK
    <3>2. CASE receiver # None /\ frames[receiver] # <<>> /\ frames' = [frames EXCEPT ![receiver] = Tail(@)]
      <4>1. receiver \in Runs /\ frames[receiver] \in Sent
        BY <3>2 DEF TypeOK
      <4>2. Tail(frames[receiver]) \in Sent
        BY <3>2, <4>1, Taken
      <4> QED
        BY <3>2, <4>1, <4>2 DEF TypeOK
    <3> QED
      BY <1>2, <3>1, <3>2 DEF Poll
  <2> QED
    BY <2>1, <2>2, <2>3, <2>4 DEF TypeOK, Methods, Stopping
<1>3. CASE Sentinel
  <2>1. worker' \in [Runs -> Stages]
    BY <1>3, WorkerTypes DEF Sentinel, TypeOK
  <2>2. /\ UNCHANGED <<process, group, receiver, result, grouped, kids, frames, reused, op, target>>
        /\ state' \in States /\ at = "sentinel"
        /\ \/ at' = "stop" /\ then' = "exited"
           \/ at' = op /\ then' = then
    BY <1>3 DEF Sentinel, Goto, Stop, TypeOK, States
  <2> QED
    BY <2>1, <2>2 DEF TypeOK, Methods, Stopping
<1>4. CASE Snapshot
  BY <1>4 DEF Snapshot, Return, TypeOK, Methods, Stopping
<1>5. CASE Start
  <2>1. CASE UNCHANGED <<controller, worker>>
    BY <1>5, <2>1 DEF Start, Return, TypeOK, Methods, Stopping
  <2>2. CASE Launch
    <3>1. PICK r \in Runs :
             /\ worker' = [IF process = None THEN worker ELSE Reaped(process) EXCEPT ![r] = "boot"]
             /\ process' = r /\ receiver' = r /\ state' = "running" /\ group' = None /\ result' = None
      BY <2>2 DEF Launch
    <3>2. (IF process = None THEN worker ELSE Reaped(process)) \in [Runs -> Stages]
      BY WorkerTypes DEF TypeOK
    <3>3. worker' \in [Runs -> Stages]
      BY <3>1, <3>2 DEF Stages, Living
    <3> QED
      BY <1>5, <3>1, <3>3 DEF Start, Return, TypeOK, Methods, Stopping, States
  <2> QED
    BY <1>5, <2>1, <2>2 DEF Start
<1>6. CASE Cancel
  BY <1>6 DEF Cancel, Return, Stop, TypeOK, Methods, Stopping
<1>7. CASE ChooseGroup
  <2>1. worker' \in [Runs -> Stages]
    BY <1>7, WorkerTypes DEF ChooseGroup, TypeOK
  <2>2. /\ UNCHANGED <<controller, op, then, grouped, frames, reused>>
        /\ kids' \subseteq kids /\ target' \in Runs \cup {None}
        /\ at \in Stopping /\ at' \in Stopping
    BY <1>7 DEF ChooseGroup, TypeOK, Stopping
  <2> QED
    BY <2>1, <2>2 DEF TypeOK, Methods, Stopping
<1>8. CASE Term
  <2>1. worker' \in [Runs -> Stages]
    BY <1>8, WorkerTypes DEF Term, Signalled, TypeOK
  <2>2. /\ UNCHANGED <<controller, op, then, grouped, frames, reused>>
        /\ kids' \subseteq kids /\ target' \in Runs \cup {None}
        /\ at \in Stopping /\ at' \in Stopping
    BY <1>8 DEF Term, Goto, TypeOK, Stopping
  <2> QED
    BY <2>1, <2>2 DEF TypeOK, Methods, Stopping
<1>9. CASE Terminate
  <2>1. worker' \in [Runs -> Stages]
    BY <1>9, WorkerTypes DEF Terminate, TypeOK
  <2>2. /\ UNCHANGED <<controller, op, then, grouped, frames, reused>>
        /\ kids' \subseteq kids /\ target' \in Runs \cup {None}
        /\ at \in Stopping /\ at' \in Stopping
    BY <1>9 DEF Terminate, Goto, TypeOK, Stopping
  <2> QED
    BY <2>1, <2>2 DEF TypeOK, Methods, Stopping
<1>10. CASE Kill
  <2>1. worker' \in [Runs -> Stages]
    BY <1>10, WorkerTypes DEF Kill, Signalled, TypeOK
  <2>2. /\ UNCHANGED <<controller, op, then, grouped, frames, reused>>
        /\ kids' \subseteq kids /\ target' \in Runs \cup {None}
        /\ at \in Stopping /\ at' \in Stopping
    BY <1>10 DEF Kill, Goto, TypeOK, Stopping
  <2> QED
    BY <2>1, <2>2 DEF TypeOK, Methods, Stopping
<1>11. CASE Join
  <2>1. worker' \in [Runs -> Stages]
    BY <1>11, WorkerTypes DEF Join, TypeOK
  <2> QED
    BY <1>11, <2>1 DEF Join, Return, TypeOK, Methods, Stopping, States
<1>12. ASSUME NEW r \in Runs, Work(r) PROVE TypeOK'
  BY <1>12, WorkTypes DEF TypeOK
<1>13. ASSUME NEW r \in Runs, Fork(r) PROVE TypeOK'
  BY <1>13 DEF Fork, TypeOK
<1>14. ASSUME NEW r \in Runs, KidsEnd(r) PROVE TypeOK'
  BY <1>14 DEF KidsEnd, TypeOK
<1>15. ASSUME NEW r \in Runs, Crash(r) PROVE TypeOK'
  BY <1>15, WorkerTypes DEF Crash, TypeOK
<1>16. ASSUME NEW r \in Runs, Reuse(r) PROVE TypeOK'
  BY <1>16 DEF Reuse, TypeOK
<1>17. CASE UNCHANGED vars
  BY <1>17 DEF vars, TypeOK
<1> QED
  BY <1>1, <1>2, <1>3, <1>4, <1>5, <1>6, <1>7, <1>8, <1>9, <1>10, <1>11, <1>12, <1>13,
     <1>14, <1>15, <1>16, <1>17
     DEF Next, Continue, Gone, Methods
-----------------------------------------------------------------------------
(* One run at a time *)

\* A worker stays where it is or is over, and who is over stays over.
Fades ==
    /\ process' = process
    /\ \A r \in Runs :
          /\ worker'[r] = worker[r] \/ worker'[r] \in {"zombie", "reaped"}
          /\ worker[r] \in {"zombie", "reaped"} => worker'[r] \in {"zombie", "reaped"}
          /\ worker[r] = "reaped" => worker'[r] = "reaped"

\* Every step but a start and a worker's own progress is of this kind.
Passing ==
    \/ \E m \in Methods : Call(m)
    \/ Poll \/ Sentinel \/ Snapshot \/ Cancel
    \/ ChooseGroup \/ Term \/ Terminate \/ Kill \/ Join
    \/ \E r \in Runs : Fork(r) \/ KidsEnd(r) \/ Crash(r) \/ Reuse(r)
    \/ UNCHANGED vars

LEMMA NextIs == [Next]_vars => Passing \/ Start \/ \E r \in Runs : Work(r)
BY DEF Next, Passing, Continue, Gone, Methods

LEMMA PassingFades == TypeOK /\ Passing => Fades
<1> SUFFICES ASSUME TypeOK, Passing PROVE Fades
  OBVIOUS
<1> USE DEF controller, call, children
<1>a. /\ process \in Runs \cup {None} /\ target \in Runs \cup {None} /\ worker \in [Runs -> Stages]
  BY DEF TypeOK
<1>b. process' = process /\ worker' = worker => Fades
  BY DEF Fades, Exited
<1>c. ASSUME NEW r \in Runs, process' = process,
             \/ worker' = Reaped(r) \/ worker' = Dead(r)
             \/ worker' = [worker EXCEPT ![r] = "reaped"]
      PROVE  Fades
  BY <1>a, <1>c, WorkerTypes DEF Fades, Exited, Alive
<1>1. ASSUME NEW m \in Methods, Call(m) PROVE Fades
  BY <1>1, <1>b DEF Call
<1>2. CASE Poll
  BY <1>2, <1>b DEF Poll, TakeReady, TakeResult
<1>3. CASE Sentinel
  BY <1>3, <1>a, <1>b, <1>c DEF Sentinel
<1>4. CASE Snapshot \/ Cancel
  BY <1>4, <1>b DEF Snapshot, Cancel
<1>5. CASE ChooseGroup
  BY <1>5, <1>a, <1>b, <1>c DEF ChooseGroup
<1>6. CASE Term
  BY <1>6, <1>a, <1>b, <1>c DEF Term, Signalled
<1>7. CASE Terminate
  BY <1>7, <1>a, <1>b, <1>c DEF Terminate
<1>8. CASE Kill
  BY <1>8, <1>a, <1>b, <1>c DEF Kill, Signalled
<1>9. CASE Join
  BY <1>9, <1>a, <1>b, <1>c DEF Join
<1>10. ASSUME NEW r \in Runs, Fork(r) \/ KidsEnd(r) \/ Reuse(r) PROVE Fades
  BY <1>10, <1>b DEF Fork, KidsEnd, Reuse
<1>11. ASSUME NEW r \in Runs, Crash(r) PROVE Fades
  BY <1>11, <1>c DEF Crash
<1>12. CASE UNCHANGED vars
  BY <1>12, <1>b DEF vars
<1> QED
  BY <1>1, <1>2, <1>3, <1>4, <1>5, <1>6, <1>7, <1>8, <1>9, <1>10, <1>11, <1>12 DEF Passing

\* What a start does: nothing, or a new run after the death of the one before.
LEMMA StartFacts ==
    ASSUME TypeOK, Start
    PROVE  \/ UNCHANGED <<controller, worker>>
           \/ /\ process = None \/ ~Alive(process)
              /\ \E r \in Runs :
                    /\ worker[r] = "unborn" /\ worker'[r] = "boot"
                    /\ process' = r /\ receiver' = r /\ group' = None /\ state' = "running"
                    /\ \A q \in Runs \ {r} :
                          \/ worker'[q] = worker[q]
                          \/ q = process /\ worker[q] = "zombie" /\ worker'[q] = "reaped"
<1>1. SUFFICES ASSUME process = None \/ ~Alive(process), Launch
               PROVE  \E r \in Runs :
                         /\ worker[r] = "unborn" /\ worker'[r] = "boot"
                         /\ process' = r /\ receiver' = r /\ group' = None /\ state' = "running"
                         /\ \A q \in Runs \ {r} :
                               \/ worker'[q] = worker[q]
                               \/ q = process /\ worker[q] = "zombie" /\ worker'[q] = "reaped"
  BY DEF Start
<1>2. PICK r \in Runs :
         /\ worker[r] = "unborn"
         /\ worker' = [IF process = None THEN worker ELSE Reaped(process) EXCEPT ![r] = "boot"]
         /\ process' = r /\ receiver' = r /\ group' = None /\ state' = "running"
  BY <1>1 DEF Launch
<1>3. CASE process = None
  BY <1>2, <1>3 DEF TypeOK
<1>4. CASE process # None
  <2>1. process \in Runs
    BY <1>4 DEF TypeOK
  <2>2. worker' = [Reaped(process) EXCEPT ![r] = "boot"] /\ Reaped(process) \in [Runs -> Stages]
    BY <1>2, <1>4, <2>1, WorkerTypes
  <2>3. worker'[r] = "boot" /\ \A q \in Runs \ {r} : worker'[q] = Reaped(process)[q]
    BY <2>2
  <2>4. \A q \in Runs \ {r} :
           \/ worker'[q] = worker[q]
           \/ q = process /\ worker[q] = "zombie" /\ worker'[q] = "reaped"
    BY <2>1, <2>3, WorkerTypes
  <2> QED
    BY <1>2, <2>3, <2>4
<1> QED
  BY <1>3, <1>4

LEMMA OnlyStep == TypeOK /\ GroupInv /\ OnlyCurrent /\ [Next]_vars => OnlyCurrent'
<1> SUFFICES ASSUME TypeOK, GroupInv, OnlyCurrent, [Next]_vars PROVE OnlyCurrent'
  OBVIOUS
<1>1. CASE Passing
  BY <1>1, PassingFades DEF Fades, OnlyCurrent, Alive
<1>2. CASE Start
  BY <1>2, StartFacts, RunsAreNumbers DEF OnlyCurrent, Alive, controller
<1>3. ASSUME NEW r \in Runs, Work(r) PROVE OnlyCurrent'
  <2>1. process' = process /\ worker[r] \in Living
        /\ \A q \in Runs \ {r} : worker'[q] = worker[q]
    BY <1>3, WorkTypes DEF controller, Living
  <2> QED
    BY <2>1 DEF OnlyCurrent, Alive, Living
<1> QED
  BY <1>1, <1>2, <1>3, NextIs
-----------------------------------------------------------------------------
(* The pipe and the group *)

LEMMA GroupInit == Init => GroupInv
BY DEF Init, GroupInv, RunFacts

\* Fading workers, nothing sent and no descendant born.
LEMMA RunsKept ==
    ASSUME TypeOK, GroupInv, Fades, UNCHANGED <<grouped, frames>>, kids' \subseteq kids,
           \A r \in reused' : r \in reused \/ (worker[r] = "reaped" /\ r \notin kids)
    PROVE  \A r \in Runs : RunFacts(r)'
<1> TAKE r \in Runs
<1>1. RunFacts(r)
  BY DEF GroupInv
<1>2. /\ worker'[r] = worker[r] \/ worker'[r] \in {"zombie", "reaped"}
      /\ worker[r] = "reaped" => worker'[r] = "reaped"
  BY DEF Fades
<1> QED
  BY <1>1, <1>2 DEF RunFacts

\* And what the controller has learnt of the pipe and the group is as it was.
LEMMA GroupKept ==
    ASSUME TypeOK, GroupInv, Fades, UNCHANGED <<grouped, frames>>, kids' \subseteq kids,
           \A r \in reused' : r \in reused \/ (worker[r] = "reaped" /\ r \notin kids),
           UNCHANGED group, receiver' \in {None, receiver}
    PROVE  GroupInv'
<1>1. \A r \in Runs : RunFacts(r)'
  BY RunsKept
<1>2. group' # None => group' \in grouped'
  BY DEF GroupInv
<1>3. ASSUME receiver' # None, worker'[process'] = "work" \/ process' \in kids'
      PROVE  group' = process' \/ ReadyNext(process)'
  <2>1. process \in Runs /\ receiver # None /\ process' = process
    BY <1>3 DEF TypeOK, Fades
  <2>2. worker[process] = "work" \/ process \in kids
    BY <1>3, <2>1 DEF Fades
  <2>3. group = process \/ ReadyNext(process)
    BY <2>1, <2>2 DEF GroupInv
  <2> QED
    BY <2>1, <2>3 DEF ReadyNext
<1> QED
  BY <1>1, <1>2, <1>3 DEF GroupInv

LEMMA GroupStep == TypeOK /\ GroupInv /\ StopInv /\ [Next]_vars => GroupInv'
<1> SUFFICES ASSUME TypeOK, GroupInv, StopInv, [Next]_vars PROVE GroupInv'
  OBVIOUS
<1> USE DEF controller, call, children
<1>a. Passing => Fades
  BY PassingFades
<1>1. ASSUME NEW m \in Methods, Call(m) PROVE GroupInv'
  BY <1>1, <1>a, GroupKept DEF Call, Passing
<1>2. CASE Poll
  <2>0. Fades /\ UNCHANGED <<process, worker, grouped, kids, reused>>
    BY <1>2, <1>a DEF Poll, TakeReady, TakeResult, Passing
  <2>1. ASSUME receiver # None, frames[receiver] # <<>>,
               frames' = [frames EXCEPT ![receiver] = Tail(@)],
               IF Head(frames[receiver]) = "ready" THEN TakeReady ELSE TakeResult(Head(frames[receiver]))
        PROVE  GroupInv'
    <3>1. receiver = process /\ process \in Runs /\ frames[process] \in Sent
      BY <2>1 DEF TypeOK
    <3>2. /\ frames'[process] = Tail(frames[process]) /\ \A q \in Runs \ {process} : frames'[q] = frames[q]
      BY <2>1, <3>1 DEF TypeOK
    <3>3. /\ Tail(frames[process]) \in Sent
          /\ Head(frames[process]) # "ready" => Tail(frames[process]) = <<>>
          /\ frames[process] = <<"ready">> => Head(frames[process]) = "ready" /\ Tail(frames[process]) = <<>>
      BY <2>1, <3>1, Taken
    <3>4. process \in grouped
      BY <2>1, <3>1 DEF GroupInv, RunFacts
    <3>5. \A r \in Runs : RunFacts(r)'
      <4> TAKE r \in Runs
      <4>1. RunFacts(r)
        BY DEF GroupInv
      <4>2. CASE r = process
        <5>1. worker[r] \notin {"unborn", "boot", "leader"}
          BY <2>1, <3>1, <4>1, <4>2 DEF RunFacts
        <5>2. worker[r] = "work" => frames'[r] = <<>>
          BY <2>1, <3>1, <3>2, <3>3, <4>1, <4>2 DEF RunFacts
        <5> QED
          BY <2>0, <3>4, <4>1, <4>2, <5>1, <5>2 DEF RunFacts
      <4>3. CASE r # process
        BY <2>0, <3>2, <4>1, <4>3 DEF RunFacts
      <4> QED
        BY <4>2, <4>3
    <3>6. CASE Head(frames[receiver]) = "ready"
      <4>1. group' = process /\ process' = process
        BY <2>1, <3>6 DEF TakeReady
      <4> QED
        BY <2>0, <3>4, <3>5, <4>1 DEF GroupInv
    <3>7. CASE Head(frames[receiver]) # "ready"
      <4>1. UNCHANGED <<process, group, receiver>>
        BY <2>1, <3>7 DEF TakeResult
      <4>2. ~ReadyNext(process)
        BY <3>1, <3>7 DEF ReadyNext
      <4>3. worker[process] = "work" \/ process \in kids => group = process
        BY <2>1, <4>2 DEF GroupInv
      <4> QED
        BY <2>0, <3>5, <4>1, <4>3 DEF GroupInv
    <3> QED
      BY <3>6, <3>7
  <2>2. CASE UNCHANGED <<group, frames>> /\ receiver' \in {None, receiver}
    BY <2>0, <2>2, GroupKept
  <2> QED
    BY <1>2, <2>1, <2>2 DEF Poll
<1>3. CASE Sentinel
  BY <1>3, <1>a, GroupKept DEF Sentinel, Passing
<1>4. CASE Snapshot \/ Cancel
  BY <1>4, <1>a, GroupKept DEF Snapshot, Cancel, Passing
<1>5. CASE ChooseGroup
  BY <1>5, <1>a, GroupKept DEF ChooseGroup, Passing
<1>6. CASE Term
  BY <1>6, <1>a, GroupKept DEF Term, Passing
<1>7. CASE Terminate
  BY <1>7, <1>a, GroupKept DEF Terminate, Passing
<1>8. CASE Kill
  BY <1>8, <1>a, GroupKept DEF Kill, Passing
<1>9. CASE Join
  <2>1. Fades /\ UNCHANGED <<process, grouped, kids, frames, reused>> /\ at = "join" /\ group' = None
        /\ receiver' \in {None, receiver}
    BY <1>9, <1>a DEF Join, Passing
  <2>2. \A r \in Runs : RunFacts(r)'
    BY <2>1, RunsKept
  <2>3. ASSUME receiver' # None, worker'[process'] = "work" \/ process' \in kids'
        PROVE  ReadyNext(process)'
    <3>1. process \in Runs /\ receiver # None
      BY <2>1, <2>3 DEF TypeOK
    <3>2. Exited(process) /\ Exited(process)'
      BY <2>1, <3>1, RunsAreNumbers DEF StopInv, Fades, Exited
    <3>3. process \in kids
      BY <2>1, <2>3, <3>2 DEF Exited
    <3>4. group = None
      BY <2>1, <3>3 DEF StopInv
    <3>5. ReadyNext(process)
      BY <3>1, <3>3, <3>4, RunsAreNumbers DEF GroupInv
    <3> QED
      BY <2>1, <3>5 DEF ReadyNext
  <2> QED
    BY <2>1, <2>2, <2>3 DEF GroupInv
<1>10. ASSUME NEW r \in Runs, Fork(r) PROVE GroupInv'
  <2>1. /\ worker[r] = "work" /\ kids' = kids \cup {r}
        /\ UNCHANGED <<controller, worker, grouped, frames, reused>>
    BY <1>10 DEF Fork
  <2>2. \A q \in Runs : RunFacts(q)'
    BY <2>1 DEF GroupInv, RunFacts
  <2>3. process \in kids' => process \in kids \/ worker[process] = "work"
    BY <2>1
  <2> QED
    BY <2>1, <2>2, <2>3 DEF GroupInv, ReadyNext
<1>11. ASSUME NEW r \in Runs, KidsEnd(r) \/ Crash(r) \/ Reuse(r) PROVE GroupInv'
  <2>1. /\ UNCHANGED <<grouped, frames, group, receiver>> /\ kids' \subseteq kids /\ Fades
    BY <1>11, <1>a DEF KidsEnd, Crash, Reuse, Passing
  <2>2. \A q \in reused' : q \in reused \/ (worker[q] = "reaped" /\ q \notin kids)
    BY <1>11 DEF KidsEnd, Crash, Reuse, GroupExists, GroupInv, RunFacts
  <2> QED
    BY <2>1, <2>2, GroupKept
<1>12. CASE UNCHANGED vars
  BY <1>12, <1>a, GroupKept DEF vars, Passing
<1>13. CASE Start
  <2>1. UNCHANGED <<grouped, kids, frames, reused>>
    BY <1>13 DEF Start
  <2>2. CASE UNCHANGED <<controller, worker>>
    BY <2>1, <2>2 DEF GroupInv, RunFacts, ReadyNext
  <2>3. CASE \E r \in Runs :
                    /\ worker[r] = "unborn" /\ worker'[r] = "boot"
                    /\ process' = r /\ receiver' = r /\ group' = None /\ state' = "running"
                    /\ \A q \in Runs \ {r} :
                          \/ worker'[q] = worker[q]
                          \/ q = process /\ worker[q] = "zombie" /\ worker'[q] = "reaped"
    <3>1. PICK r \in Runs :
                    /\ worker[r] = "unborn" /\ worker'[r] = "boot"
                    /\ process' = r /\ receiver' = r /\ group' = None
                    /\ \A q \in Runs \ {r} :
                          \/ worker'[q] = worker[q]
                          \/ q = process /\ worker[q] = "zombie" /\ worker'[q] = "reaped"
      BY <2>3
    <3>2. RunFacts(r)
      BY DEF GroupInv
    <3>3. RunFacts(r)' /\ r \notin kids'
      BY <2>1, <3>1, <3>2 DEF RunFacts
    <3>4. ASSUME NEW q \in Runs \ {r} PROVE RunFacts(q)'
      <4>1. RunFacts(q)
        BY DEF GroupInv
      <4> QED
        BY <2>1, <3>1, <4>1 DEF RunFacts
    <3> QED
      BY <3>1, <3>3, <3>4 DEF GroupInv
  <2> QED
    BY <1>13, <2>2, <2>3, StartFacts
<1>14. ASSUME NEW r \in Runs, Work(r) PROVE GroupInv'
  <2>1. /\ UNCHANGED <<controller, call, kids, reused>>
        /\ \A q \in Runs \ {r} : worker'[q] = worker[q] /\ frames'[q] = frames[q]
                                /\ (q \in grouped' <=> q \in grouped)
    BY <1>14, WorkTypes
  <2>2. RunFacts(r)
    BY DEF GroupInv
  <2>3. /\ RunFacts(r)' /\ (r \in grouped => r \in grouped')
        /\ (ReadyNext(r) => ReadyNext(r)')
        /\ worker'[r] = "work" => ReadyNext(r)'
    <3>1. Head(<<"ready">>) = "ready" /\ <<"ready">> # <<>>
      BY TakeFirst DEF Frame
    <3> QED
      BY <1>14, <2>1, <2>2, <3>1, WorkTypes DEF RunFacts, ReadyNext
  <2>4. ASSUME NEW q \in Runs PROVE RunFacts(q)'
    <3>1. CASE q # r
      <4>1. RunFacts(q)
        BY DEF GroupInv
      <4> QED
        BY <2>1, <3>1, <4>1 DEF RunFacts
    <3> QED
      BY <2>3, <3>1
  <2>5. group' # None => group' \in grouped'
    <3>1. group \in Runs \cup {None}
      BY DEF TypeOK
    <3> QED
      BY <2>1, <2>3, <3>1 DEF GroupInv
  <2>6. ASSUME receiver' # None, worker'[process'] = "work" \/ process' \in kids'
        PROVE  group' = process' \/ ReadyNext(process)'
    <3>1. process \in Runs /\ UNCHANGED <<process, group, receiver, kids>>
      BY <2>1, <2>6 DEF TypeOK
    <3>2. CASE process = r
      BY <2>1, <2>3, <2>6, <3>1, <3>2 DEF GroupInv
    <3>3. CASE process # r
      BY <2>1, <2>6, <3>1, <3>3 DEF GroupInv, ReadyNext
    <3> QED
      BY <3>2, <3>3
  <2> QED
    BY <2>4, <2>5, <2>6 DEF GroupInv
<1> QED
  BY <1>1, <1>2, <1>3, <1>4, <1>5, <1>6, <1>7, <1>8, <1>9, <1>10, <1>11, <1>12, <1>13,
     <1>14, NextIs DEF Passing
-----------------------------------------------------------------------------
(* _stop_owned_process_locked *)

LEMMA StopInit == Init => StopInv /\ DoneInv
BY DEF Init, StopInv, DoneInv

\* The children go on while the controller is between two system calls: nobody
\* comes back to life, and nobody has a descendant but a worker at work.
LEMMA StopKept ==
    ASSUME TypeOK, UNCHANGED <<controller, call>>,
           process # None =>
              /\ Exited(process) => Exited(process)'
              /\ worker[process] \in {"told", "closed", "zombie", "reaped"}
                    => worker'[process] \in {"told", "closed", "zombie", "reaped"}
              /\ process \in kids' => process \in kids \/ worker[process] = "work"
    PROVE  /\ StopInv => StopInv'
           /\ DoneInv => DoneInv'
<1>1. UNCHANGED <<state, process, group, receiver, target, at, then>>
  BY DEF controller, call
<1>2. \A r : Exited(r) => worker[r] # "work"
  BY DEF Exited
<1>3. group \in {None, process}
  BY DEF TypeOK
<1>4. Exited(process)' = (worker'[process] \in {"zombie", "reaped"})
  BY <1>1 DEF Exited
<1>5. StopInv => StopInv'
  BY <1>1, <1>2, <1>3, <1>4 DEF StopInv
<1>6. DoneInv => DoneInv'
  BY <1>1, <1>2, <1>4 DEF DoneInv
<1> QED
  BY <1>5, <1>6

\* What the children do is of that kind.
LEMMA ChildrenKeep ==
    ASSUME TypeOK, GroupInv, NEW r \in Runs, Work(r) \/ Fork(r) \/ KidsEnd(r) \/ Crash(r) \/ Reuse(r)
    PROVE  /\ StopInv => StopInv'
           /\ DoneInv => DoneInv'
<1>1. CASE Work(r)
  <2>1. UNCHANGED <<controller, call, kids>>
    BY <1>1, WorkTypes
  <2>2. worker[r] \in {"told", "closed"} => worker'[r] \in {"closed", "zombie"}
    BY <1>1, WorkTypes
  <2>3. worker[r] \notin {"zombie", "reaped"}
    BY <1>1, WorkTypes
  <2>4. \A q \in Runs \ {r} : worker'[q] = worker[q]
    BY <1>1, WorkTypes
  <2>5. process \in Runs \cup {None}
    BY DEF TypeOK
  <2>6. UNCHANGED process
    BY <2>1 DEF controller
  <2>7. process # None =>
              /\ Exited(process) => Exited(process)'
              /\ worker[process] \in {"told", "closed", "zombie", "reaped"}
                    => worker'[process] \in {"told", "closed", "zombie", "reaped"}
              /\ process \in kids' => process \in kids \/ worker[process] = "work"
    BY <2>1, <2>2, <2>3, <2>4, <2>5, <2>6 DEF Exited
  <2> QED
    BY <2>1, <2>7, StopKept
<1>2. CASE Fork(r) \/ KidsEnd(r) \/ Crash(r) \/ Reuse(r)
  <2>1. Fades
    BY <1>2, PassingFades DEF Passing
  <2>2. UNCHANGED <<controller, call>> /\ \A q \in kids' : q \in kids \/ worker[q] = "work"
    BY <1>2 DEF Fork, KidsEnd, Crash, Reuse, children
  <2>3. process \in Runs \cup {None} /\ process' = process
    BY <2>1 DEF TypeOK, Fades
  <2>4. process # None =>
              /\ Exited(process) => Exited(process)'
              /\ worker[process] \in {"told", "closed", "zombie", "reaped"}
                    => worker'[process] \in {"told", "closed", "zombie", "reaped"}
              /\ process \in kids' => process \in kids \/ worker[process] = "work"
    BY <2>1, <2>2, <2>3 DEF Fades, Exited
  <2> QED
    BY <2>2, <2>4, StopKept
<1> QED
  BY <1>1, <1>2

\* A result frame comes from a worker that has no more to start, and it comes
\* after the announcement of the group.
LEMMA ResultFacts ==
    ASSUME TypeOK, GroupInv, receiver # None, frames[receiver] # <<>>,
           Head(frames[receiver]) # "ready"
    PROVE  /\ process = receiver /\ process # None /\ process \in Runs
           /\ worker[process] \in {"told", "closed", "zombie", "reaped"}
           /\ group = process \/ process \notin kids
<1>1. process = receiver /\ process # None /\ process \in Runs
  BY DEF TypeOK
<1>2. RunFacts(process) /\ ~ReadyNext(process) /\ frames[process] \in Sent /\ worker[process] \in Stages
  BY <1>1 DEF GroupInv, ReadyNext, TypeOK
<1>3. frames[process] # <<"ready">>
  BY <1>1, TakeFirst DEF Frame
<1>4. worker[process] \in {"told", "closed", "zombie", "reaped"}
  BY <1>1, <1>2, <1>3 DEF RunFacts, Stages, Living
<1>5. group = process \/ process \notin kids
  BY <1>1, <1>2 DEF GroupInv
<1> QED
  BY <1>1, <1>4, <1>5

LEMMA StopStep == TypeOK /\ GroupInv /\ StopInv /\ [Next]_vars => StopInv'
<1> SUFFICES ASSUME TypeOK, GroupInv, StopInv, [Next]_vars PROVE StopInv'
  OBVIOUS
<1> USE RunsAreNumbers DEF controller, call, children
<1>a. /\ process \in Runs \cup {None} /\ group \in {None, process} /\ receiver \in {None, process}
      /\ target \in Runs \cup {None} /\ (at \in Stopping <=> then # "none")
  BY DEF TypeOK
<1>b. Passing => Fades
  BY PassingFades
<1>c. \A r \in Runs : RunFacts(r) /\ worker[r] \in Stages
  BY DEF GroupInv, TypeOK
\* Outside of the method there is nothing to say.
<1>d. at' \notin Stopping /\ then' = "none" => StopInv'
  BY DEF StopInv, Stopping
\* On entry there is something to say of a result only.
<1>e. at' = "stop" /\ then' # "close" => StopInv'
  BY DEF StopInv
<1>1. ASSUME NEW m \in Methods, Call(m) PROVE StopInv'
  BY <1>1, <1>a, <1>d DEF Call, Stopping
<1>2. CASE Poll
  <2>1. ASSUME receiver # None, frames[receiver] # <<>>, Head(frames[receiver]) # "ready",
               TakeResult(Head(frames[receiver])), UNCHANGED <<worker, kids>>
        PROVE  StopInv'
    <3>1. at' = "stop" /\ then' = "close" /\ UNCHANGED <<process, group, worker, kids>>
      BY <2>1 DEF TakeResult, Stop
    <3>2. /\ process # None
          /\ worker[process] \in {"told", "closed", "zombie", "reaped"}
          /\ group = process \/ process \notin kids
      BY <2>1, ResultFacts
    <3> QED
      BY <3>1, <3>2 DEF StopInv
  <2>2. CASE at' \in {"poll", "sentinel"} /\ then' = then
    BY <1>2, <1>a, <1>d, <2>2 DEF Poll, Stopping
  <2> QED
    BY <1>2, <2>1, <2>2 DEF Poll, TakeReady, Goto
<1>3. CASE Sentinel
  <2>1. CASE at' = "stop" /\ then' = "exited"
    BY <1>e, <2>1
  <2>2. CASE at' = op /\ then' = then /\ at = "sentinel"
    BY <1>a, <1>d, <2>2 DEF Stopping, TypeOK, Methods
  <2> QED
    BY <1>3, <2>1, <2>2 DEF Sentinel, Stop, Goto
<1>4. CASE Snapshot
  BY <1>4, <1>d DEF Snapshot, Return, Stopping
<1>5. CASE Start
  BY <1>5, <1>d DEF Start, Return, Stopping
<1>6. CASE Cancel
  BY <1>6, <1>d, <1>e DEF Cancel, Return, Stop, Stopping
<1>7. CASE ChooseGroup
  <2>1. /\ Fades /\ UNCHANGED <<process, group, then, kids>> /\ at = "stop" /\ at' = "term"
        /\ target' = IF group # None THEN group
                     ELSE IF process # None /\ Alive(process) THEN process ELSE None
    BY <1>7, <1>b DEF ChooseGroup, Passing
  <2>2. then = "close" => worker'[process] \in {"told", "closed", "zombie", "reaped"}
    BY <1>a, <2>1 DEF StopInv, Fades
  <2>3. target' = process \/ (target' = None /\ group = None)
    BY <1>a, <2>1
  <2> QED
    BY <2>1, <2>2, <2>3 DEF StopInv
<1>8. CASE Term
  <2>1. Fades /\ UNCHANGED <<process, group, then, target>> /\ at = "term" /\ kids' \subseteq kids
    BY <1>8, <1>b DEF Term, Passing, Goto
  <2>2. then = "close" => worker'[process] \in {"told", "closed", "zombie", "reaped"}
    BY <1>a, <2>1 DEF StopInv, Fades
  <2>3. target = process \/ (target = None /\ group = None)
    BY <2>1 DEF StopInv
  <2>4. CASE Signalled
    <3>1. target = process /\ process \in Runs /\ at' = "kill"
      BY <1>8, <1>a, <2>3, <2>4 DEF Term, Signalled, Goto
    <3>2. worker'[process] \in {"zombie", "reaped"}
      <4>1. CASE GroupExists(process)
        <5>1. worker[process] # "unborn"
          BY <1>c, <3>1, <4>1 DEF GroupExists, RunFacts
        <5>2. worker' = Dead(process)
          BY <1>8, <2>4, <3>1, <4>1 DEF Term
        <5> QED
          BY <1>c, <3>1, <5>1, <5>2, WorkerTypes DEF Alive, Stages, Living
      <4>2. CASE ~GroupExists(process)
        <5>1. worker[process] = "reaped"
          BY <1>c, <2>4, <3>1, <4>2 DEF Signalled, RunFacts
        <5> QED
          BY <2>1, <3>1, <5>1 DEF Fades
      <4> QED
        BY <4>1, <4>2
    <3> QED
      BY <2>1, <2>2, <2>3, <3>1, <3>2 DEF StopInv, Exited
  <2>5. CASE ~Signalled
    <3>1. at' = "terminate" /\ UNCHANGED <<worker, kids>>
      BY <1>8, <2>5 DEF Term, Goto
    <3>2. group # None => worker[process] = "reaped" /\ process \notin kids
      <4> SUFFICES ASSUME group # None PROVE worker[process] = "reaped" /\ process \notin kids
        OBVIOUS
      <4>1. target = process /\ process \in Runs /\ process \in grouped /\ process # None
        BY <1>a, <2>3 DEF GroupInv
      <4>2. ~GroupExists(process)
        BY <2>5, <4>1 DEF Signalled
      <4> QED
        BY <4>1, <4>2 DEF GroupExists
    <3> QED
      BY <2>1, <2>2, <3>1, <3>2 DEF StopInv, Exited
  <2> QED
    BY <2>4, <2>5
<1>9. CASE Terminate
  <2>1. /\ Fades /\ UNCHANGED <<process, group, then, kids>> /\ at = "terminate" /\ at' = "join"
        /\ worker' = IF process # None THEN [worker EXCEPT ![process] = "reaped"] ELSE worker
    BY <1>9, <1>b DEF Terminate, Passing, Goto
  <2>2. then = "close" => worker'[process] \in {"told", "closed", "zombie", "reaped"}
    BY <1>a, <2>1 DEF StopInv, Fades
  <2>3. process # None => worker'[process] = "reaped"
    BY <1>a, <2>1 DEF TypeOK
  <2> QED
    BY <1>a, <2>1, <2>2, <2>3 DEF StopInv, Exited
<1>10. CASE Kill
  <2>1. Fades /\ UNCHANGED <<process, group, then>> /\ at = "kill" /\ at' = "join" /\ kids' \subseteq kids
    BY <1>10, <1>b DEF Kill, Passing, Goto
  <2>2. then = "close" => worker'[process] \in {"told", "closed", "zombie", "reaped"}
    BY <1>a, <2>1 DEF StopInv, Fades
  <2>3. process # None /\ process \in Runs /\ target = process /\ worker[process] \in {"zombie", "reaped"}
    BY <1>a, <2>1 DEF StopInv, Exited
  <2>4. worker'[process] \in {"zombie", "reaped"}
    BY <2>1, <2>3 DEF Fades
  <2>5. process \notin kids'
    <3>1. CASE GroupExists(process)
      BY <1>10, <2>3, <3>1 DEF Kill, Signalled
    <3>2. CASE ~GroupExists(process)
      BY <1>c, <2>1, <2>3, <3>2 DEF GroupExists, RunFacts
    <3> QED
      BY <3>1, <3>2
  <2> QED
    BY <2>1, <2>2, <2>3, <2>4, <2>5 DEF StopInv, Exited
<1>11. CASE Join
  <2>1. at' \notin Stopping /\ then' = "none"
    BY <1>11, <1>a DEF Join, Return, Stopping, TypeOK, Methods
  <2> QED
    BY <1>d, <2>1
<1>12. ASSUME NEW r \in Runs, Work(r) \/ Fork(r) \/ KidsEnd(r) \/ Crash(r) \/ Reuse(r) PROVE StopInv'
  BY <1>12, ChildrenKeep
<1>13. CASE UNCHANGED vars
  BY <1>13, StopKept DEF vars, Exited
<1> QED
  BY <1>1, <1>2, <1>3, <1>4, <1>5, <1>6, <1>7, <1>8, <1>9, <1>10, <1>11, <1>12, <1>13, NextIs
     DEF Passing
-----------------------------------------------------------------------------
(* What the console says it has behind it *)

\* A call that leaves the state alone and does not end the console keeps what
\* the state says, unless it starts to stop something.
LEMMA DoneKept ==
    ASSUME TypeOK, DoneInv, Fades, UNCHANGED state, kids' \subseteq kids,
           group' \in {None, group}, receiver' \in {None, receiver},
           at' = "gone" => process = None \/ Exited(process),
           at' \in Stopping => at \in Stopping /\ then' = then,
           at \in Stopping => at' \in Stopping
    PROVE  DoneInv'
<1>1. process' = process /\ process \in Runs \cup {None}
  BY DEF Fades, TypeOK
<1>2. process # None /\ Exited(process) => worker'[process] \in {"zombie", "reaped"}
  BY <1>1 DEF Fades, Exited
<1>3. CASE at \in Stopping
  BY <1>1, <1>2, <1>3 DEF DoneInv, Exited
<1>4. CASE at \notin Stopping
  BY <1>1, <1>2, <1>4 DEF DoneInv, Exited
<1> QED
  BY <1>3, <1>4

LEMMA DoneStep == TypeOK /\ GroupInv /\ StopInv /\ DoneInv /\ [Next]_vars => DoneInv'
<1> SUFFICES ASSUME TypeOK, GroupInv, StopInv, DoneInv, [Next]_vars PROVE DoneInv'
  OBVIOUS
<1> USE RunsAreNumbers DEF controller, call, children
<1>a. /\ process \in Runs \cup {None} /\ group \in {None, process} /\ receiver \in {None, process}
      /\ (at \in Stopping <=> then # "none")
      /\ at \in Methods => op = at
      /\ op \in Methods \cup {"none"} /\ (at \in {"idle", "gone"} <=> op = "none")
  BY DEF TypeOK
<1>b. Passing => Fades
  BY PassingFades
<1>c. state = "completed" /\ at \notin Stopping =>
         process # None /\ Exited(process) /\ process \notin kids /\ group = None /\ receiver = None
  BY DEF DoneInv
<1>d. at' # "gone" /\ state' \notin {"completed", "cancelled"} => DoneInv'
  BY DEF DoneInv
<1>1. ASSUME NEW m \in Methods, Call(m) PROVE DoneInv'
  <2>1. Fades /\ UNCHANGED <<controller, kids>> /\ at = "idle" /\ at' = "poll"
    BY <1>1, <1>b DEF Call, Passing
  <2> QED
    BY <2>1, DoneKept DEF Stopping
<1>2. CASE Poll
  <2>0. Fades /\ UNCHANGED <<process, worker, kids>> /\ at = "poll"
    BY <1>2, <1>b DEF Poll, TakeReady, TakeResult, Passing
  <2>1. ASSUME receiver # None, at' = "poll", UNCHANGED <<state, receiver>> PROVE DoneInv'
    BY <1>c, <2>0, <2>1 DEF DoneInv, Stopping, Exited
  <2>2. ASSUME state' \in {"completed", "failed"}, at' = "stop", then' = "close" PROVE DoneInv'
    BY <2>2 DEF DoneInv, Stopping
  <2>3. ASSUME receiver # None, state' = IF state = "running" THEN "failed" ELSE state, at' = "sentinel"
        PROVE  DoneInv'
    <3>1. state' # "completed"
      BY <1>c, <2>0, <2>3 DEF Stopping
    <3>2. state' = "cancelled" => state = "cancelled"
      BY <2>3
    <3> QED
      BY <2>0, <2>3, <3>1, <3>2 DEF DoneInv, Exited
  <2>4. ASSUME UNCHANGED controller, at' = "sentinel" PROVE DoneInv'
    BY <2>0, <2>4, DoneKept DEF Stopping
  <2> QED
    BY <1>2, <2>1, <2>2, <2>3, <2>4 DEF Poll, TakeReady, TakeResult, Goto, Stop
<1>3. CASE Sentinel
  <2>0. Fades /\ UNCHANGED <<process, group, receiver, kids>> /\ at = "sentinel"
    BY <1>3, <1>b DEF Sentinel, Passing
  <2>1. ASSUME at' = "stop", UNCHANGED <<state, worker>>, group # None PROVE DoneInv'
    <3>1. state # "completed"
      BY <1>c, <2>0, <2>1 DEF Stopping
    <3> QED
      BY <2>0, <2>1, <3>1 DEF DoneInv, Exited
  <2>2. ASSUME at' = op, state' \in {state, IF state = "running" THEN "failed" ELSE state} PROVE DoneInv'
    <3>1. at' \in Methods
      BY <1>a, <2>0, <2>2
    <3>2. CASE state = "running"
      BY <1>d, <2>2, <3>1, <3>2 DEF Methods
    <3>3. CASE state # "running"
      BY <2>0, <2>2, <3>1, <3>3, DoneKept DEF Stopping, Methods
    <3> QED
      BY <3>2, <3>3
  <2> QED
    BY <1>3, <2>1, <2>2 DEF Sentinel, Stop, Goto
<1>4. CASE Snapshot
  <2>1. Fades /\ UNCHANGED <<controller, kids>> /\ at = "snapshot" /\ at' = "idle"
    BY <1>4, <1>a, <1>b DEF Snapshot, Return, Passing, Methods
  <2> QED
    BY <2>1, DoneKept DEF Stopping
<1>5. CASE Start
  <2>0. at = "start" /\ at' = "idle" /\ UNCHANGED kids
    BY <1>5, <1>a DEF Start, Return, Methods
  <2>1. CASE UNCHANGED <<controller, worker>>
    BY <2>0, <2>1 DEF DoneInv, Stopping, Exited
  <2>2. CASE state' = "running"
    BY <1>d, <2>0, <2>2
  <2> QED
    BY <1>5, <2>1, <2>2, StartFacts
<1>6. CASE Cancel
  <2>0. Fades /\ UNCHANGED <<controller, worker, kids>> /\ at \in {"cancel", "atexit"}
    BY <1>6, <1>b DEF Cancel, Passing
  <2>1. CASE (process = None \/ Exited(process)) /\ group = None
    <3>1. at' \in {"idle", "gone"}
      BY <1>6, <2>1 DEF Cancel, Return
    <3> QED
      BY <2>0, <2>1, <3>1, DoneKept DEF Stopping
  <2>2. CASE ~((process = None \/ Exited(process)) /\ group = None)
    <3>1. at' = "stop"
      BY <1>6, <2>2 DEF Cancel, Stop
    <3>2. state # "completed"
      BY <1>c, <2>0, <2>2 DEF Stopping
    <3> QED
      BY <2>0, <3>1, <3>2 DEF DoneInv, Exited
  <2> QED
    BY <2>1, <2>2
<1>7. CASE ChooseGroup
  <2>1. Fades /\ UNCHANGED <<controller, then, kids>> /\ at = "stop" /\ at' = "term"
    BY <1>7, <1>b DEF ChooseGroup, Passing
  <2> QED
    BY <2>1, DoneKept DEF Stopping
<1>8. CASE Term
  <2>1. /\ Fades /\ UNCHANGED <<controller, then>> /\ kids' \subseteq kids
        /\ at = "term" /\ at' \in {"kill", "terminate"}
    BY <1>8, <1>b DEF Term, Passing, Goto
  <2> QED
    BY <2>1, DoneKept DEF Stopping
<1>9. CASE Terminate
  <2>1. Fades /\ UNCHANGED <<controller, then, kids>> /\ at = "terminate" /\ at' = "join"
    BY <1>9, <1>b DEF Terminate, Passing, Goto
  <2> QED
    BY <2>1, DoneKept DEF Stopping
<1>10. CASE Kill
  <2>1. Fades /\ UNCHANGED <<controller, then>> /\ kids' \subseteq kids /\ at = "kill" /\ at' = "join"
    BY <1>10, <1>b DEF Kill, Passing, Goto
  <2> QED
    BY <2>1, DoneKept DEF Stopping
<1>11. CASE Join
  <2>0. Fades /\ UNCHANGED <<process, kids>> /\ at = "join" /\ group' = None
    BY <1>11, <1>b DEF Join, Passing
  <2>1. process = None \/ worker'[process] \in {"zombie", "reaped"}
    BY <1>a, <2>0 DEF StopInv, Exited, Fades
  <2>2. state = "completed" => then = "close"
    BY <2>0 DEF DoneInv, Stopping
  <2>3. CASE then = "close"
    <3>1. at' = "sentinel" /\ receiver' = None /\ UNCHANGED state
      BY <1>11, <2>3 DEF Join
    <3>2. process # None /\ (group = process \/ process \notin kids)
      BY <2>3 DEF StopInv
    <3>3. process \notin kids
      BY <2>0, <3>2 DEF StopInv
    <3> QED
      BY <2>0, <2>1, <3>1, <3>2, <3>3 DEF DoneInv, Exited, Stopping
  <2>4. CASE then = "exited"
    <3>1. at' = op /\ state' = IF state = "running" THEN "failed" ELSE state
      BY <1>11, <2>4 DEF Join
    <3>2. state' # "completed" /\ at' \in Methods
      BY <1>a, <2>0, <2>2, <2>4, <3>1
    <3> QED
      BY <2>0, <2>1, <3>2 DEF DoneInv, Exited
  <2>5. CASE then = "cancelled"
    <3>1. state' = "cancelled"
      BY <1>11, <2>5 DEF Join
    <3> QED
      BY <2>0, <2>1, <3>1 DEF DoneInv, Exited
  <2> QED
    BY <1>11, <2>3, <2>4, <2>5 DEF Join
<1>12. ASSUME NEW r \in Runs, Work(r) \/ Fork(r) \/ KidsEnd(r) \/ Crash(r) \/ Reuse(r) PROVE DoneInv'
  BY <1>12, ChildrenKeep
<1>13. CASE UNCHANGED vars
  BY <1>13, StopKept DEF vars, Exited
<1> QED
  BY <1>1, <1>2, <1>3, <1>4, <1>5, <1>6, <1>7, <1>8, <1>9, <1>10, <1>11, <1>12, <1>13, NextIs
     DEF Passing
-----------------------------------------------------------------------------
(* The theorems *)

LEMMA OnlyInit == Init => OnlyCurrent
BY DEF Init, OnlyCurrent, Alive

\* What every reachable state of the console satisfies.
THEOREM SessionIsSound == Spec => [](SessionInv /\ OnlyCurrent)
<1>1. Init => SessionInv /\ OnlyCurrent
  BY TypeInit, GroupInit, StopInit, OnlyInit DEF SessionInv
<1>2. SessionInv /\ OnlyCurrent /\ [Next]_vars => (SessionInv /\ OnlyCurrent)'
  BY TypeStep, GroupStep, StopStep, DoneStep, OnlyStep DEF SessionInv
<1> QED
  BY <1>1, <1>2, PTL DEF Spec

\* AR-20, for any number of runs: whenever a worker is alive it is the one the
\* controller knows (start waits for is_alive of the worker before it).
THEOREM OneRunAtATime == Spec => []AtMostOneRun
<1>1. OnlyCurrent => AtMostOneRun
  BY DEF OnlyCurrent, AtMostOneRun
<1> QED
  BY <1>1, SessionIsSound, PTL

\* A console that calls a run completed or cancelled, or that is gone, has
\* stopped the worker, and nothing of a completed run's group is left.
THEOREM StoppedMeansStopped == Spec => []StoppedIsStopped
<1>1. SessionInv => StoppedIsStopped
  BY DEF SessionInv, DoneInv, StoppedIsStopped, Stopping
<1> QED
  BY <1>1, SessionIsSound, PTL

\* Only the next start takes a completed run off the screen: neither a dying
\* worker nor a cancel nor a late look at the pipe turns it into anything else.
THEOREM CompletedStays == Spec => CompletedIsFinal
<1>1. SessionInv /\ [Next]_vars => [state = "completed" /\ state' # state => op = "start"]_state
  <2> SUFFICES ASSUME SessionInv, [Next]_vars, state = "completed", state' # state
               PROVE  op = "start"
    OBVIOUS
  <2> USE DEF controller, call, children
  <2>1. /\ at \in Stopping => then = "close"
        /\ at \notin Stopping => receiver = None /\ group = None
    BY DEF SessionInv, DoneInv
  <2>2. CASE Poll
    <3>1. at = "poll"
      BY <2>2 DEF Poll
    <3> QED
      BY <2>1, <2>2, <3>1 DEF Poll, Stopping
  <2>3. CASE Sentinel
    BY <2>3 DEF Sentinel
  <2>4. CASE Start
    <3>1. at = "start"
      BY <2>4 DEF Start
    <3> QED
      BY <3>1 DEF SessionInv, TypeOK, Methods
  <2>5. CASE Join
    <3>1. at = "join"
      BY <2>5 DEF Join
    <3> QED
      BY <2>1, <2>5, <3>1 DEF Join, Stopping
  <2>6. CASE Snapshot \/ Cancel \/ ChooseGroup \/ Term \/ Terminate \/ Kill
    BY <2>6 DEF Snapshot, Cancel, ChooseGroup, Term, Terminate, Kill
  <2>7. ASSUME NEW m \in Methods, Call(m) PROVE FALSE
    BY <2>7 DEF Call
  <2>8. ASSUME NEW r \in Runs, Work(r) \/ Fork(r) \/ KidsEnd(r) \/ Crash(r) \/ Reuse(r) PROVE FALSE
    BY <2>8 DEF Work, Setsid, SendReady, SendResult, CloseSender, Exit, WorkerStep, Fork, KidsEnd, Crash, Reuse
  <2>9. CASE UNCHANGED vars
    BY <2>9 DEF vars
  <2> QED
    BY <2>2, <2>3, <2>4, <2>5, <2>6, <2>7, <2>8, <2>9, NextIs DEF Passing
<1> QED
  BY <1>1, SessionIsSound, PTL DEF Spec, CompletedIsFinal
=============================================================================

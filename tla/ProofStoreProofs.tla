-------------------------- MODULE ProofStoreProofs --------------------------
(***************************************************************************)
(* Proofs about ProofStore, for any number of processes, proofs and        *)
(* directories.  Under the flock the index does not change, so what an     *)
(* importer read of it (seen) still holds when it appends; an object is    *)
(* only ever put there from a copy that was verified, and a row only for   *)
(* an object that was.                                                     *)
(***************************************************************************)
EXTENDS ProofStore, TLAPS

\* The places at which an importer relies on what it read of the index.
Relies == {"copy", "recheck", "install", "reverify", "append"}

Undamaged == happened \cap {"damage", "power"} = {}

SharedInv ==
    /\ IsInjective(rows)
    /\ happened \cap {"error", "power"} = {} => tail = "clean"
    /\ Undamaged => /\ \A x \in Proofs : object[x] # "bad"
                    /\ \A i \in DOMAIN rows : object[rows[i]] = "intact"

ProcInv(p) ==
    /\ pc[p] \notin {"idle", "scan"} => from[p] \in Dirs
    /\ pc[p] \in {"stage", "finalize", "label", "load"} => proof[p] \in Proofs
    /\ pc[p] \in Relies \cup {"load"} => run[p] \in Proofs
    /\ pc[p] \in Relies =>
          proof[p] \in Proofs /\ seen[p] = ToSet(rows) /\ tail \in {"clean", "unterminated"}
    /\ pc[p] = "install" => stage[p] = [id |-> proof[p], intact |-> TRUE]
    /\ pc[p] \in {"append", "fsync", "finish"} =>
          proof[p] \in Proofs /\ (Undamaged => object[proof[p]] = "intact")

StoreInv == SharedInv /\ \A p \in Procs : ProcInv(p)
-----------------------------------------------------------------------------
LEMMA SayIsAnswer ==
    \A status \in {"none", "ok", "refused", "exported", "unexported", "error", "listed"} :
        Say(status) \in Answer
BY DEF Say, Answer

LEMMA MissingIsContent == Missing \in Content
BY DEF Content

\* On the way out of a call the flock is given back.
LEMMA ReturnType ==
    ASSUME TypeOK, NEW p \in Procs, NEW result \in Answer, Return(p, result)
    PROVE  /\ pc' \in [Procs -> PC] /\ stage' \in [Procs -> Content]
           /\ answer' \in [Procs -> Answer] /\ lock' \in Procs \cup {None}
           /\ LockHeld'
<1>1. "idle" \in PC /\ "idle" \notin Locked
  BY DEF PC, Locked
<1>2. pc' \in [Procs -> PC] /\ stage' \in [Procs -> Content] /\ answer' \in [Procs -> Answer]
  BY <1>1, MissingIsContent DEF Return, Goto, TypeOK
<1>3. lock' \in Procs \cup {None}
  BY DEF Return, TypeOK
<1>4. LockHeld'
  BY <1>1, NoneIsNoProof DEF Return, Goto, TypeOK, LockHeld
<1> QED
  BY <1>2, <1>3, <1>4

\* Moving on inside or outside the flock.
LEMMA GotoType ==
    ASSUME TypeOK, NEW p \in Procs, NEW label \in PC, Goto(p, label), UNCHANGED lock,
           pc[p] \in Locked <=> label \in Locked
    PROVE  pc' \in [Procs -> PC] /\ LockHeld'
BY DEF Goto, TypeOK, LockHeld

LEMMA RequireType ==
    ASSUME TypeOK, NEW p \in Procs, NEW label \in Locked, NEW ok,
           Require(p, ok, label), pc[p] \in Locked
    PROVE  /\ pc' \in [Procs -> PC] /\ stage' \in [Procs -> Content]
           /\ answer' \in [Procs -> Answer] /\ lock' \in Procs \cup {None}
           /\ LockHeld'
<1>1. label \in PC
  BY DEF PC, Locked
<1>2. CASE Goto(p, label) /\ UNCHANGED <<lock, stage, answer>>
  BY <1>1, <1>2, GotoType DEF TypeOK
<1>3. CASE Return(p, Say("refused"))
  BY <1>3, SayIsAnswer, ReturnType
<1> QED
  BY <1>2, <1>3 DEF Require

\* A row at the end of the index, whatever its end.
LEMMA WriteRowType ==
    ASSUME TypeOK, NEW x \in Proofs, NEW end \in {"clean", "fragment", "unterminated"},
           WriteRow(x, end)
    PROVE  rows' \in Seq(Proofs) /\ tail' \in {"clean", "fragment", "torn", "unterminated", "glued"}
<1>1. rows \in Seq(Proofs) /\ Append(rows, x) \in Seq(Proofs)
  BY DEF TypeOK
<1>2. rows' \in {rows, Append(rows, x)} /\ tail' \in {end, "glued"}
  BY DEF WriteRow
<1> QED
  BY <1>1, <1>2

\* After a power loss the index is a beginning of what it was, and nothing that
\* an fsync has covered is cut off.
LEMMA PowerLossCuts ==
    ASSUME TypeOK, PowerLoss
    PROVE  \E n \in 0..Len(rows) : /\ rows' = SubSeq(rows, 1, n)
                                   /\ synced <= Len(rows) => synced <= n
<1>1. Len(rows) \in Nat /\ synced \in Nat /\ rows = SubSeq(rows, 1, Len(rows))
  BY DEF TypeOK
<1>2. CASE UNCHANGED rows
  <2>1. rows' = SubSeq(rows, 1, Len(rows)) /\ Len(rows) \in 0..Len(rows)
    BY <1>1, <1>2
  <2> QED
    BY <2>1
<1>3. ASSUME NEW n \in synced..(Len(rows) - 1), rows' = SubSeq(rows, 1, n)
      PROVE  n \in 0..Len(rows) /\ synced <= n
  BY <1>1
<1>4. ASSUME NEW n \in (synced + 1)..Len(rows), rows' = SubSeq(rows, 1, n)
      PROVE  n \in 0..Len(rows) /\ synced <= n
  BY <1>1
<1> QED
  BY <1>2, <1>3, <1>4 DEF PowerLoss
-----------------------------------------------------------------------------
LEMMA TypeInit == Init => TypeOK
<1> SUFFICES ASSUME Init PROVE TypeOK
  OBVIOUS
<1>1. LockHeld
  BY NoneIsNoProof DEF Init, LockHeld, Locked
<1> QED
  BY <1>1, SayIsAnswer, MissingIsContent, BoundsAreNat DEF Init, TypeOK, PC

\* Every step leaves the types as they are.
LEMMA TypeStep == TypeOK /\ StoreInv /\ [Next]_vars => TypeOK'
<1> SUFFICES ASSUME TypeOK, StoreInv, [Next]_vars PROVE TypeOK'
  OBVIOUS
<1> USE DEF index, store, process, history
<1>a. ASSUME NEW p \in Procs, NEW label \in PC \ Locked, Begin(p, label)
      PROVE  pc' \in [Procs -> PC] /\ LockHeld' /\ calls' \in 0..MaxCalls
  <2>1. "idle" \notin Locked
    BY DEF Locked
  <2>2. pc' \in [Procs -> PC] /\ LockHeld'
    BY <1>a, <2>1, GotoType DEF Begin
  <2> QED
    BY <1>a, <2>2, BoundsAreNat DEF Begin, TypeOK
<1>b. ASSUME NEW kind, Fault(kind)
      PROVE  faults' \in 0..MaxFaults /\ happened' \subseteq FaultKinds
             /\ UNCHANGED <<acked, calls>>
  BY <1>b, BoundsAreNat DEF Fault, TypeOK
<1>1. ASSUME NEW p \in Procs, NEW d \in Dirs, CallImport(p, d) PROVE TypeOK'
  <2>1. "lock" \in PC \ Locked
    BY DEF PC, Locked
  <2> QED
    BY <1>1, <1>a, <2>1 DEF CallImport, Begin, TypeOK
<1>2. ASSUME NEW p \in Procs, NEW d \in Dirs, NEW x \in Proofs, CallExport(p, x, d) PROVE TypeOK'
  <2>1. "stage" \in PC \ Locked
    BY DEF PC, Locked
  <2> QED
    BY <1>2, <1>a, <2>1 DEF CallExport, Begin, TypeOK
<1>3. ASSUME NEW p \in Procs, CallScan(p) PROVE TypeOK'
  <2>1. "scan" \in PC \ Locked
    BY DEF PC, Locked
  <2>2. ToSet(rows) \subseteq Proofs
    BY DEF ToSet, TypeOK
  <2>3. Say(IF Readable THEN "listed" ELSE "error") \in Answer
    BY SayIsAnswer
  <2> QED
    BY <1>3, <1>a, <2>1, <2>2, <2>3 DEF CallScan, Begin, TypeOK
<1>4. ASSUME NEW p \in Procs, Stage(p) PROVE TypeOK'
  <2>1. CASE Return(p, Say("unexported"))
    BY <1>4, <2>1, SayIsAnswer, ReturnType DEF Stage, TypeOK
  <2>2. CASE stage' = [stage EXCEPT ![p] = [id |-> proof[p], intact |-> TRUE]]
             /\ Goto(p, "finalize") /\ UNCHANGED <<lock, answer>>
    <3>1. "finalize" \in PC \ Locked /\ "stage" \notin Locked
      BY DEF PC, Locked
    <3>2. pc' \in [Procs -> PC] /\ LockHeld'
      BY <1>4, <2>2, <3>1, GotoType DEF Stage
    <3>3. [id |-> proof[p], intact |-> TRUE] \in Content
      BY <1>4 DEF Stage, StoreInv, ProcInv, Content
    <3> QED
      BY <1>4, <2>2, <3>2, <3>3 DEF Stage, TypeOK
  <2> QED
    BY <1>4, <2>1, <2>2 DEF Stage
<1>5. ASSUME NEW p \in Procs, Finalize(p) PROVE TypeOK'
  <2>1. dir' \in [Dirs -> Content]
    BY <1>5 DEF Finalize, TypeOK
  <2> QED
    BY <1>5, <2>1, SayIsAnswer, ReturnType DEF Finalize, TypeOK
<1>6. ASSUME NEW p \in Procs, Lock(p) PROVE TypeOK'
  <2>1. pc' \in [Procs -> PC]
    BY <1>6 DEF Lock, Goto, TypeOK, PC
  <2>2. LockHeld'
    BY <1>6, NoneIsNoProof DEF Lock, Goto, TypeOK, LockHeld, Locked
  <2> QED
    BY <1>6, <2>1, <2>2 DEF Lock, TypeOK
<1>c. "verify" \in Locked /\ "label" \in Locked /\ "load" \in Locked /\ "copy" \in Locked /\ "recheck" \in Locked
      /\ "install" \in Locked /\ "reverify" \in Locked /\ "append" \in Locked
      /\ "fsync" \in Locked /\ "finish" \in Locked /\ Locked \subseteq PC
  BY DEF Locked, PC
<1>7. ASSUME NEW p \in Procs, Verify(p) PROVE TypeOK'
  <2>1. dir[from[p]] \in Content
    BY <1>7 DEF Verify, StoreInv, ProcInv, TypeOK
  <2>2. dir[from[p]].id \in Proofs \cup {None}
    BY <2>1 DEF Content, Missing
  <2>3. proof' \in [Procs -> Proofs \cup {None}]
    BY <1>7, <2>2 DEF Verify, TypeOK
  <2>4. PICK ok : Require(p, ok, "label")
    BY <1>7 DEF Verify
  <2> QED
    BY <1>7, <1>c, <2>3, <2>4, RequireType DEF Verify, TypeOK
<1>L. ASSUME NEW p \in Procs, Label(p) PROVE TypeOK'
  <2>1. dir[from[p]] \in Content
    BY <1>L DEF Label, StoreInv, ProcInv, TypeOK
  <2>2. dir[from[p]].id \in Proofs \cup {None}
    BY <2>1 DEF Content, Missing
  <2>3. run' \in [Procs -> Proofs \cup {None}]
    BY <1>L, <2>2 DEF Label, TypeOK
  <2>4. PICK ok : Require(p, ok, "load")
    BY <1>L DEF Label
  <2> QED
    BY <1>L, <1>c, <2>3, <2>4, RequireType DEF Label, TypeOK
<1>8. ASSUME NEW p \in Procs, Load(p) PROVE TypeOK'
  <2>1. ToSet(rows) \subseteq Proofs
    BY DEF ToSet, TypeOK
  <2>2. seen' \in [Procs -> SUBSET Proofs]
    BY <1>8, <2>1 DEF Load, TypeOK
  <2>3. PICK ok : Require(p, ok, "copy")
    BY <1>8 DEF Load
  <2> QED
    BY <1>8, <1>c, <2>2, <2>3, RequireType DEF Load, TypeOK
<1>9. ASSUME NEW p \in Procs, Copy(p) PROVE TypeOK'
  <2>1. dir[from[p]] \in Content
    BY <1>9 DEF Copy, StoreInv, ProcInv, TypeOK
  <2>2. stage' \in [Procs -> Content]
    BY <1>9, <2>1 DEF Copy, TypeOK
  <2> QED
    BY <1>9, <1>c, <2>2, GotoType DEF Copy, TypeOK
<1>10. ASSUME NEW p \in Procs, Recheck(p) PROVE TypeOK'
  BY <1>10, <1>c, RequireType DEF Recheck, TypeOK
<1>11. ASSUME NEW p \in Procs, Install(p) PROVE TypeOK'
  <2>1. CASE Put(p)
    <3>1. object' \in [Proofs -> {"none", "intact", "bad"}]
      BY <2>1 DEF Put, TypeOK
    <3>2. stage' \in [Procs -> Content]
      BY <2>1, MissingIsContent DEF Put, TypeOK
    <3> QED
      BY <1>11, <1>c, <2>1, <3>1, <3>2, GotoType DEF Install, Put, TypeOK
  <2>2. CASE ~Put(p)
    BY <1>11, <1>c, <2>2, RequireType DEF Install, TypeOK
  <2> QED
    BY <2>1, <2>2
<1>12. ASSUME NEW p \in Procs, Reverify(p) PROVE TypeOK'
  BY <1>12, <1>c, RequireType DEF Reverify, TypeOK
<1>13. ASSUME NEW p \in Procs, AppendRow(p) PROVE TypeOK'
  <2>1. proof[p] \in Proofs /\ run[p] \in Proofs
    BY <1>13 DEF AppendRow, StoreInv, ProcInv, Relies
  <2>4. named' \in [Proofs -> Proofs]
    BY <1>13, <2>1 DEF AppendRow, NameRow, TypeOK
  <2>2. rows' \in Seq(Proofs) /\ tail' \in {"clean", "fragment", "torn", "unterminated", "glued"}
    BY <1>13, <2>1, WriteRowType DEF AppendRow, TypeOK
  <2>3. pc' \in [Procs -> PC] /\ LockHeld'
    BY <1>13, <1>c, GotoType DEF AppendRow
  <2> QED
    BY <1>13, <2>2, <2>3, <2>4 DEF AppendRow, TypeOK
<1>14. ASSUME NEW p \in Procs, Fsync(p) PROVE TypeOK'
  BY <1>14, <1>c, GotoType DEF Fsync, TypeOK
<1>15. ASSUME NEW p \in Procs, Finish(p) PROVE TypeOK'
  <2>1. proof[p] \in Proofs
    BY <1>15 DEF Finish, StoreInv, ProcInv
  <2> QED
    BY <1>15, <2>1, SayIsAnswer, ReturnType DEF Finish, TypeOK
<1>16. ASSUME NEW p \in Procs, ScanObject(p) PROVE TypeOK'
  <2>1. PICK x \in seen[p] :
           /\ seen' = [seen EXCEPT ![p] = @ \ {x}]
           /\ answer' = IF object[x] = "intact" /\ named[x] = x
                        THEN [answer EXCEPT ![p].healthy = @ \cup {x}]
                        ELSE [answer EXCEPT ![p].corrupt = @ \cup {x}]
    BY <1>16 DEF ScanObject
  <2>2. x \in Proofs
    BY <2>1 DEF TypeOK
  <2>3. answer' \in [Procs -> Answer]
    <3>1. answer[p] \in Answer /\ answer \in [Procs -> Answer]
      BY DEF TypeOK
    <3>2. /\ [answer[p] EXCEPT !.healthy = @ \cup {x}] \in Answer
          /\ [answer[p] EXCEPT !.corrupt = @ \cup {x}] \in Answer
      BY <2>2, <3>1 DEF Answer
    <3>3. \/ answer' = [answer EXCEPT ![p] = [answer[p] EXCEPT !.healthy = @ \cup {x}]]
          \/ answer' = [answer EXCEPT ![p] = [answer[p] EXCEPT !.corrupt = @ \cup {x}]]
      BY <2>1, <3>1
    <3> QED
      BY <3>1, <3>2, <3>3
  <2>4. seen' \in [Procs -> SUBSET Proofs]
    BY <2>1 DEF TypeOK
  <2>5. UNCHANGED <<store, dir, lock, pc, proof, run, from, stage, owed, history>>
    BY <1>16 DEF ScanObject
  <2> QED
    BY <2>3, <2>4, <2>5 DEF TypeOK, LockHeld
<1>17. ASSUME NEW p \in Procs, ScanDone(p) PROVE TypeOK'
  <2>1. answer[p] \in Answer
    BY DEF TypeOK
  <2> QED
    BY <1>17, <2>1, ReturnType DEF ScanDone, TypeOK
<1>18. ASSUME NEW p \in Procs, Kill(p) PROVE TypeOK'
  BY <1>18, <1>b, SayIsAnswer, ReturnType DEF Kill, TypeOK
<1>19. ASSUME NEW p \in Procs, WriteFails(p) PROVE TypeOK'
  <2>1. proof[p] \in Proofs /\ run[p] \in Proofs
    BY <1>19 DEF WriteFails, StoreInv, ProcInv, Relies
  <2>2. rows' \in Seq(Proofs) /\ tail' \in {"clean", "fragment", "torn", "unterminated", "glued"}
    BY <1>19, <2>1, WriteRowType DEF WriteFails, TypeOK
  <2>3. named' \in [Proofs -> Proofs]
    BY <1>19, <2>1 DEF WriteFails, NameRow, TypeOK
  <2> QED
    BY <1>19, <1>b, <2>2, <2>3, SayIsAnswer, ReturnType DEF WriteFails, TypeOK
<1>20. ASSUME NEW p \in Procs, FsyncFails(p) PROVE TypeOK'
  BY <1>20, <1>b, SayIsAnswer, ReturnType DEF FsyncFails, TypeOK
<1>21. ASSUME NEW d \in Dirs, Edit(d) PROVE TypeOK'
  <2>1. dir' \in [Dirs -> Content]
    BY <1>21 DEF Edit, TypeOK
  <2> QED
    BY <1>21, <1>b, <2>1 DEF Edit, TypeOK, LockHeld
<1>22. ASSUME NEW x \in Proofs, Damage(x) PROVE TypeOK'
  <2>1. object' \in [Proofs -> {"none", "intact", "bad"}]
    BY <1>22 DEF Damage, TypeOK
  <2> QED
    BY <1>22, <1>b, <2>1 DEF Damage, TypeOK, LockHeld
<1>23. ASSUME NEW x \in Proofs, WriteBack(x) PROVE TypeOK'
  BY <1>23 DEF WriteBack, TypeOK, LockHeld
<1>24. CASE PowerLoss
  <2>1. rows' \in Seq(Proofs) /\ tail' \in {"clean", "fragment", "torn", "unterminated", "glued"}
    <3>1. tail' \in {"clean", "torn", "unterminated", tail}
      BY <1>24 DEF PowerLoss
    <3>2. PICK n \in 0..Len(rows) : rows' = SubSeq(rows, 1, n)
      BY <1>24, PowerLossCuts
    <3>3. \A i \in 1..n : rows[i] \in Proofs
      BY <3>2 DEF TypeOK
    <3>4. rows' \in Seq(Proofs)
      BY <3>2, <3>3 DEF TypeOK
    <3> QED
      BY <3>1, <3>4 DEF TypeOK
  <2>2. synced' \in Nat
    BY <1>24, <2>1 DEF PowerLoss
  <2>3. object' \in [Proofs -> {"none", "intact", "bad"}]
    BY <1>24 DEF PowerLoss, TypeOK
  <2>4. lock' \in Procs \cup {None} /\ pc' \in [Procs -> PC] /\ LockHeld'
    BY <1>24, NoneIsNoProof DEF PowerLoss, LockHeld, Locked, PC
  <2>5. stage' \in [Procs -> Content] /\ answer' \in [Procs -> Answer]
    BY <1>24, MissingIsContent, SayIsAnswer DEF PowerLoss
  <2>6. settled' \subseteq Proofs
    BY <1>24 DEF PowerLoss
  <2> QED
    BY <1>24, <1>b, <2>1, <2>2, <2>3, <2>4, <2>5, <2>6 DEF PowerLoss, TypeOK
<1>25. CASE Quiescent \/ UNCHANGED vars
  BY <1>25 DEF Quiescent, vars, TypeOK, LockHeld
<1> QED
  BY <1>1, <1>2, <1>3, <1>4, <1>5, <1>6, <1>7, <1>L, <1>8, <1>9, <1>10, <1>11, <1>12, <1>13,
     <1>14, <1>15, <1>16, <1>17, <1>18, <1>19, <1>20, <1>21, <1>22, <1>23, <1>24, <1>25
     DEF Next, Advance
-----------------------------------------------------------------------------
LEMMA StoreInit == Init => StoreInv
BY DEF Init, StoreInv, SharedInv, ProcInv, IsInjective, Relies

\* What no step of p touches keeps the invariant of another process q.
LEMMA ProcFrame ==
    ASSUME TypeOK, NEW q \in Procs, ProcInv(q),
           pc'[q] = pc[q], from'[q] = from[q], proof'[q] = proof[q], run'[q] = run[q],
           seen'[q] = seen[q], stage'[q] = stage[q],
           UNCHANGED <<rows, tail>>, Undamaged' => Undamaged,
           Undamaged' => \A x \in Proofs : object[x] = "intact" => object'[x] = "intact"
    PROVE  ProcInv(q)'
BY DEF ProcInv, ToSet

\* A process outside the flock relies on nothing in the store.
LEMMA ProcOutside ==
    ASSUME TypeOK, NEW q \in Procs, ProcInv(q), pc[q] \notin Locked,
           pc'[q] = pc[q], from'[q] = from[q], proof'[q] = proof[q], run'[q] = run[q]
    PROVE  ProcInv(q)'
BY DEF ProcInv, Locked, Relies

LEMMA SharedFrame ==
    ASSUME SharedInv, UNCHANGED <<rows, tail, object>>, happened \subseteq happened'
    PROVE  SharedInv' /\ (Undamaged' => Undamaged)
BY DEF SharedInv, Undamaged, IsInjective

LEMMA IdleProc == \A p \in Procs : pc'[p] = "idle" => ProcInv(p)'
BY DEF ProcInv, Relies

\* A row that was not listed makes no duplicate, and adds no other proof.
LEMMA WriteRowKeeps ==
    ASSUME TypeOK, NEW x \in Proofs, NEW end \in {"clean", "fragment", "unterminated"},
           x \notin ToSet(rows), IsInjective(rows), WriteRow(x, end)
    PROVE  /\ IsInjective(rows')
           /\ \A i \in DOMAIN rows' : rows'[i] = x \/ \E j \in DOMAIN rows : rows'[i] = rows[j]
<1>1. CASE rows' = rows
  BY <1>1
<1>2. CASE rows' = Append(rows, x)
  <2>2. /\ DOMAIN rows = 1..Len(rows) /\ DOMAIN rows' = 1..(Len(rows) + 1)
        /\ \A i \in 1..Len(rows) : rows'[i] = rows[i]
        /\ rows'[Len(rows) + 1] = x /\ Len(rows) \in Nat
    BY <1>2 DEF TypeOK
  <2>3. \A i \in DOMAIN rows : rows[i] # x
    BY DEF ToSet
  <2> QED
    BY <2>2, <2>3 DEF IsInjective
<1> QED
  BY <1>1, <1>2 DEF WriteRow

\* Every step keeps what the store's soundness rests on.
LEMMA StoreStep == TypeOK /\ StoreInv /\ [Next]_vars => StoreInv'
<1> SUFFICES ASSUME TypeOK, StoreInv, [Next]_vars PROVE StoreInv'
  OBVIOUS
<1> USE DEF index, store, process, history
<1>a. SharedInv /\ \A q \in Procs : ProcInv(q)
  BY DEF StoreInv
<1>b. ASSUME NEW p \in Procs, pc[p] \in Locked
      PROVE  \A q \in Procs \ {p} : pc[q] \notin Locked
  BY <1>b DEF TypeOK, LockHeld
\* A step of p that leaves index and objects alone.
<1>c. ASSUME NEW p \in Procs, UNCHANGED <<rows, tail, object>>, happened \subseteq happened',
             \A q \in Procs \ {p} : /\ pc'[q] = pc[q] /\ from'[q] = from[q]
                                    /\ proof'[q] = proof[q] /\ run'[q] = run[q]
                                    /\ seen'[q] = seen[q]
                                    /\ stage'[q] = stage[q],
             ProcInv(p)'
      PROVE  StoreInv'
  <2>1. SharedInv' /\ (Undamaged' => Undamaged)
    BY <1>a, <1>c, SharedFrame
  <2>2. \A q \in Procs \ {p} : ProcInv(q)'
    BY <1>a, <1>c, <2>1, ProcFrame
  <2> QED
    BY <1>c, <2>1, <2>2 DEF StoreInv
<1>1. ASSUME NEW p \in Procs, NEW d \in Dirs, CallImport(p, d) PROVE StoreInv'
  <2>1. ProcInv(p)'
    BY <1>1 DEF CallImport, Begin, Goto, TypeOK, ProcInv, Relies
  <2> QED
    BY <1>1, <1>c, <2>1 DEF CallImport, Begin, Goto, TypeOK
<1>2. ASSUME NEW p \in Procs, NEW d \in Dirs, NEW x \in Proofs, CallExport(p, x, d) PROVE StoreInv'
  <2>1. ProcInv(p)'
    BY <1>2 DEF CallExport, Begin, Goto, TypeOK, ProcInv, Relies
  <2> QED
    BY <1>2, <1>c, <2>1 DEF CallExport, Begin, Goto, TypeOK
<1>3. ASSUME NEW p \in Procs, CallScan(p) PROVE StoreInv'
  <2>1. ProcInv(p)'
    BY <1>3 DEF CallScan, Begin, Goto, TypeOK, ProcInv, Relies
  <2> QED
    BY <1>3, <1>c, <2>1 DEF CallScan, Begin, Goto, TypeOK
\* A way out of a call that leaves index and objects alone.
<1>d. ASSUME NEW p \in Procs, NEW result, Return(p, result),
             UNCHANGED <<rows, tail, object, from, proof, run>>, happened \subseteq happened',
             \A q \in Procs \ {p} : seen'[q] = seen[q]
      PROVE  StoreInv'
  <2>1. pc'[p] = "idle" /\ \A q \in Procs \ {p} : pc'[q] = pc[q] /\ stage'[q] = stage[q]
    BY <1>d DEF Return, Goto, TypeOK
  <2>2. ProcInv(p)'
    BY <2>1, IdleProc
  <2> QED
    BY <1>c, <1>d, <2>1, <2>2
<1>4. ASSUME NEW p \in Procs, Stage(p) PROVE StoreInv'
  <2>1. CASE Return(p, Say("unexported"))
    BY <1>4, <1>d, <2>1 DEF Stage
  <2>2. CASE stage' = [stage EXCEPT ![p] = [id |-> proof[p], intact |-> TRUE]]
             /\ Goto(p, "finalize")
    <3>1. ProcInv(p)'
      BY <1>a, <1>4, <2>2 DEF Stage, Goto, TypeOK, ProcInv, Relies
    <3> QED
      BY <1>4, <1>c, <2>2, <3>1 DEF Stage, Goto, TypeOK
  <2> QED
    BY <1>4, <2>1, <2>2 DEF Stage
<1>5. ASSUME NEW p \in Procs, Finalize(p) PROVE StoreInv'
  <2>1. \E result : Return(p, result)
    BY <1>5 DEF Finalize
  <2> QED
    BY <1>5, <1>d, <2>1 DEF Finalize
<1>6. ASSUME NEW p \in Procs, Lock(p) PROVE StoreInv'
  <2>1. ProcInv(p)'
    BY <1>a, <1>6 DEF Lock, Goto, TypeOK, ProcInv, Relies
  <2> QED
    BY <1>6, <1>c, <2>1 DEF Lock, Goto, TypeOK
<1>7. ASSUME NEW p \in Procs, Verify(p) PROVE StoreInv'
  <2>0. from[p] \in Dirs /\ dir[from[p]] \in Content
    BY <1>a, <1>7 DEF Verify, ProcInv, TypeOK
  <2>1. pc'[p] = "idle" \/ (pc'[p] = "label" /\ dir[from[p]].intact)
    <3>1. Require(p, dir[from[p]].intact, "label")
      BY <1>7 DEF Verify
    <3>2. CASE dir[from[p]].intact
      BY <3>1, <3>2 DEF Require, Goto, TypeOK
    <3>3. CASE ~dir[from[p]].intact
      BY <3>1, <3>3 DEF Require, Return, Goto, TypeOK
    <3> QED
      BY <3>2, <3>3
  <2>2. pc'[p] = "label" => proof'[p] \in Proofs
    BY <1>7, <2>0, <2>1 DEF Verify, Content, Missing, TypeOK
  <2>4. from'[p] \in Dirs
    BY <1>7, <2>0 DEF Verify
  <2>5. ProcInv(p)'
    BY <2>1, <2>2, <2>4 DEF ProcInv, Relies
  <2>3. \A q \in Procs \ {p} : pc'[q] = pc[q] /\ stage'[q] = stage[q] /\ proof'[q] = proof[q]
    BY <1>7 DEF Verify, Require, Goto, Return, TypeOK
  <2> QED
    BY <1>7, <1>c, <2>3, <2>5 DEF Verify
<1>L. ASSUME NEW p \in Procs, Label(p) PROVE StoreInv'
  <2>0. from[p] \in Dirs /\ dir[from[p]] \in Content
    BY <1>a, <1>L DEF Label, ProcInv, TypeOK
  <2>1. pc'[p] = "idle" \/ (pc'[p] = "load" /\ dir[from[p]] # Missing)
    <3>1. CASE dir[from[p]] = Missing
      <4>1. ~dir[from[p]].intact
        BY <3>1 DEF Missing
      <4> QED
        BY <1>L, <3>1, <4>1 DEF Label, Require, Return, Goto, TypeOK
    <3>2. CASE dir[from[p]] # Missing /\ Goto(p, "load")
      BY <3>2 DEF Goto, TypeOK
    <3>3. CASE Return(p, Say("refused"))
      BY <3>3 DEF Return, Goto, TypeOK
    <3> QED
      BY <1>L, <3>1, <3>2, <3>3 DEF Label, Require
  <2>2. pc'[p] = "load" => run'[p] \in Proofs
    BY <1>L, <2>0, <2>1 DEF Label, Content, TypeOK
  <2>3. pc'[p] = "load" => proof'[p] \in Proofs
    BY <1>a, <1>L DEF Label, ProcInv
  <2>4. from'[p] \in Dirs
    BY <1>L, <2>0 DEF Label
  <2>5. ProcInv(p)'
    BY <2>1, <2>2, <2>3, <2>4 DEF ProcInv, Relies
  <2>6. \A q \in Procs \ {p} : pc'[q] = pc[q] /\ stage'[q] = stage[q] /\ run'[q] = run[q]
    BY <1>L DEF Label, Require, Goto, Return, TypeOK
  <2> QED
    BY <1>L, <1>c, <2>5, <2>6 DEF Label
<1>8. ASSUME NEW p \in Procs, Load(p) PROVE StoreInv'
  <2>1. \A q \in Procs \ {p} : pc'[q] = pc[q] /\ stage'[q] = stage[q] /\ seen'[q] = seen[q]
    BY <1>8 DEF Load, Require, Goto, Return, TypeOK
  <2>2. PICK ok : Require(p, Readable /\ ok, "copy")
    BY <1>8 DEF Load
  <2>3. CASE Readable /\ pc'[p] = "copy"
    <3>1. seen'[p] = ToSet(rows)' /\ tail' \in {"clean", "unterminated"}
      BY <1>8, <2>3 DEF Load, Readable, TypeOK, ToSet
    <3>2. proof'[p] \in Proofs /\ run'[p] \in Proofs /\ from'[p] \in Dirs
      BY <1>a, <1>8 DEF Load, ProcInv
    <3>3. ProcInv(p)'
      BY <2>3, <3>1, <3>2 DEF ProcInv, Relies
    <3> QED
      BY <1>8, <1>c, <2>1, <3>3 DEF Load
  <2>4. CASE Return(p, Say("refused"))
    BY <1>8, <1>d, <2>1, <2>4 DEF Load
  <2> QED
    BY <2>2, <2>3, <2>4 DEF Require, Goto, TypeOK
<1>9. ASSUME NEW p \in Procs, Copy(p) PROVE StoreInv'
  <2>0. /\ pc'[p] = "recheck"
        /\ UNCHANGED <<rows, tail, from, proof, run, seen>>
    BY <1>9 DEF Copy, Goto, TypeOK
  <2>2. /\ from[p] \in Dirs /\ proof[p] \in Proofs /\ run[p] \in Proofs
        /\ seen[p] = ToSet(rows) /\ tail \in {"clean", "unterminated"}
    BY <1>a, <1>9 DEF Copy, ProcInv, Relies
  <2>3. ToSet(rows)' = ToSet(rows)
    BY <2>0 DEF ToSet
  <2>1. ProcInv(p)'
    BY <2>0, <2>2, <2>3 DEF ProcInv, Relies
  <2> QED
    BY <1>9, <1>c, <2>1 DEF Copy, Goto, TypeOK
<1>10. ASSUME NEW p \in Procs, Recheck(p) PROVE StoreInv'
  <2>1. CASE Return(p, Say("refused"))
    BY <1>10, <1>d, <2>1 DEF Recheck
  <2>2. CASE stage[p] = [id |-> proof[p], intact |-> TRUE]
             /\ Goto(p, "install") /\ UNCHANGED stage
    <3>1. ProcInv(p)'
      BY <1>a, <1>10, <2>2 DEF Recheck, Goto, TypeOK, ProcInv, Relies, ToSet
    <3> QED
      BY <1>10, <1>c, <2>2, <3>1 DEF Recheck, Goto, TypeOK
  <2> QED
    BY <1>10, <2>1, <2>2 DEF Recheck, Require
<1>11. ASSUME NEW p \in Procs, Install(p) PROVE StoreInv'
  <2>0. pc[p] = "install" /\ proof[p] \in Proofs
        /\ stage[p] = [id |-> proof[p], intact |-> TRUE]
    BY <1>a, <1>11 DEF Install, ProcInv, Relies
  <2>1. CASE object[proof[p]] = "none"
    <3>1. object' = [object EXCEPT ![proof[p]] = "intact"]
      BY <1>11, <2>0, <2>1 DEF Install, Put
    <3>2. UNCHANGED <<rows, tail, happened>> /\ Goto(p, "reverify")
          /\ UNCHANGED <<from, proof, run, seen>>
      BY <1>11, <2>1 DEF Install, Put
    <3>3. SharedInv'
      BY <1>a, <3>1, <3>2 DEF SharedInv, Undamaged, IsInjective, TypeOK
    <3>4. \A q \in Procs \ {p} : ProcInv(q)'
      BY <1>a, <1>b, <2>0, <3>2, ProcOutside DEF Goto, TypeOK, Locked
    <3>5. ProcInv(p)'
      BY <1>a, <2>0, <3>2 DEF Goto, TypeOK, ProcInv, Relies, ToSet
    <3> QED
      BY <3>3, <3>4, <3>5 DEF StoreInv
  <2>2. CASE object[proof[p]] # "none" /\ Return(p, Say("refused"))
    BY <1>11, <1>d, <2>2 DEF Install
  <2>3. CASE object[proof[p]] = "intact" /\ Goto(p, "append") /\ UNCHANGED stage
    <3>1. UNCHANGED <<object, rows, tail, happened, from, proof, run, seen>>
      BY <1>11, <2>3 DEF Install
    <3>2. ProcInv(p)'
      BY <1>a, <2>0, <2>3, <3>1 DEF Goto, TypeOK, ProcInv, Relies, ToSet
    <3> QED
      BY <1>c, <2>3, <3>1, <3>2 DEF Goto, TypeOK
  <2> QED
    BY <1>11, <2>1, <2>2, <2>3 DEF Install, Require
<1>12. ASSUME NEW p \in Procs, Reverify(p) PROVE StoreInv'
  <2>1. CASE Return(p, Say("refused"))
    BY <1>12, <1>d, <2>1 DEF Reverify
  <2>2. CASE object[proof[p]] = "intact" /\ Goto(p, "append") /\ UNCHANGED stage
    <3>1. ProcInv(p)'
      BY <1>a, <1>12, <2>2 DEF Reverify, Goto, TypeOK, ProcInv, Relies, ToSet
    <3> QED
      BY <1>12, <1>c, <2>2, <3>1 DEF Reverify, Goto, TypeOK
  <2> QED
    BY <1>12, <2>1, <2>2 DEF Reverify, Require
\* A row written by the holder of the flock, for an object that was verified.
<1>e. ASSUME NEW p \in Procs, pc[p] = "append", proof[p] \notin seen[p],
             NEW end \in {"clean", "fragment", "unterminated"}, WriteRow(proof[p], end),
             UNCHANGED object, happened \subseteq happened',
             end = "clean" \/ "error" \in happened'
      PROVE  SharedInv'
  <2>1. proof[p] \in Proofs /\ proof[p] \notin ToSet(rows)
        /\ (Undamaged => object[proof[p]] = "intact")
    BY <1>a, <1>e DEF ProcInv, Relies
  <2>2. /\ IsInjective(rows')
        /\ \A i \in DOMAIN rows' :
              rows'[i] = proof[p] \/ \E j \in DOMAIN rows : rows'[i] = rows[j]
    BY <1>a, <1>e, <2>1, WriteRowKeeps DEF SharedInv
  <2>3. Undamaged' => Undamaged
    BY <1>e DEF Undamaged
  <2>4. happened' \cap {"error", "power"} = {} => tail' = "clean"
    BY <1>a, <1>e DEF SharedInv, WriteRow
  <2> QED
    BY <1>a, <1>e, <2>1, <2>2, <2>3, <2>4 DEF SharedInv
<1>13. ASSUME NEW p \in Procs, AppendRow(p) PROVE StoreInv'
  <2>1. CASE proof[p] \in seen[p]
    <3>1. UNCHANGED <<object, rows, tail, happened, from, proof, run, seen, stage>> /\ Goto(p, "finish")
      BY <1>13, <2>1 DEF AppendRow
    <3>2. ProcInv(p)'
      BY <1>a, <1>13, <3>1 DEF AppendRow, Goto, TypeOK, ProcInv, Relies, Undamaged
    <3> QED
      BY <1>c, <3>1, <3>2 DEF Goto, TypeOK
  <2>2. CASE proof[p] \notin seen[p]
    <3>1. /\ pc[p] = "append" /\ WriteRow(proof[p], "clean") /\ Goto(p, "fsync")
          /\ UNCHANGED <<object, happened, from, proof, run, seen, stage>>
      BY <1>13, <2>2 DEF AppendRow
    <3>2. SharedInv'
      BY <1>e, <2>2, <3>1
    <3>3. \A q \in Procs \ {p} : ProcInv(q)'
      BY <1>a, <1>b, <3>1, ProcOutside DEF Goto, TypeOK, Locked
    <3>4. ProcInv(p)'
      BY <1>a, <3>1 DEF Goto, TypeOK, ProcInv, Relies, Undamaged
    <3> QED
      BY <3>2, <3>3, <3>4 DEF StoreInv
  <2> QED
    BY <2>1, <2>2
<1>14. ASSUME NEW p \in Procs, Fsync(p) PROVE StoreInv'
  <2>1. ProcInv(p)'
    BY <1>a, <1>14 DEF Fsync, Goto, TypeOK, ProcInv, Relies, Undamaged
  <2> QED
    BY <1>14, <1>c, <2>1 DEF Fsync, Goto, TypeOK
<1>15. ASSUME NEW p \in Procs, Finish(p) PROVE StoreInv'
  BY <1>15, <1>d DEF Finish
<1>16. ASSUME NEW p \in Procs, ScanObject(p) PROVE StoreInv'
  <2>1. \A q \in Procs \ {p} : seen'[q] = seen[q]
    BY <1>16 DEF ScanObject, TypeOK
  <2>2. ProcInv(p)'
    BY <1>a, <1>16 DEF ScanObject, ProcInv, Relies
  <2> QED
    BY <1>16, <1>c, <2>1, <2>2 DEF ScanObject
<1>17. ASSUME NEW p \in Procs, ScanDone(p) PROVE StoreInv'
  BY <1>17, <1>d DEF ScanDone
<1>18. ASSUME NEW p \in Procs, Kill(p) PROVE StoreInv'
  BY <1>18, <1>d DEF Kill, Fault
<1>19. ASSUME NEW p \in Procs, WriteFails(p) PROVE StoreInv'
  <2>1. /\ Return(p, Say("error")) /\ pc[p] = "append" /\ proof[p] \notin seen[p]
        /\ happened' = happened \cup {"error"}
        /\ UNCHANGED <<object, from, proof, run, seen>>
    BY <1>19 DEF WriteFails, Fault
  <2>2. CASE UNCHANGED <<rows, tail>>
    BY <1>d, <2>1, <2>2
  <2>3. CASE \E end \in {"fragment", "unterminated", "clean"} : WriteRow(proof[p], end)
    <3>1. SharedInv'
      BY <1>e, <2>1, <2>3
    <3>2. pc'[p] = "idle" /\ \A q \in Procs \ {p} : pc'[q] = pc[q]
      BY <2>1 DEF Return, Goto, TypeOK
    <3>3. \A q \in Procs \ {p} : ProcInv(q)'
      BY <1>a, <1>b, <2>1, <3>2, ProcOutside DEF Locked
    <3> QED
      BY <3>1, <3>2, <3>3, IdleProc DEF StoreInv
  <2> QED
    BY <1>19, <2>2, <2>3 DEF WriteFails
<1>20. ASSUME NEW p \in Procs, FsyncFails(p) PROVE StoreInv'
  BY <1>20, <1>d DEF FsyncFails, Fault
\* A step that moves no process and leaves the index alone.
<1>f. ASSUME UNCHANGED <<rows, tail, pc, from, proof, run, seen, stage>>, Undamaged' => Undamaged,
             Undamaged' => UNCHANGED object, happened \subseteq happened'
      PROVE  StoreInv'
  <2>1. \A q \in Procs : ProcInv(q)'
    BY <1>a, <1>f, ProcFrame
  <2>2. SharedInv'
    BY <1>a, <1>f DEF SharedInv, IsInjective
  <2> QED
    BY <2>1, <2>2 DEF StoreInv
<1>21. ASSUME NEW d \in Dirs, Edit(d) PROVE StoreInv'
  BY <1>21, <1>f DEF Edit, Fault, Undamaged
<1>22. ASSUME NEW x \in Proofs, Damage(x) PROVE StoreInv'
  BY <1>22, <1>f DEF Damage, Fault, Undamaged
<1>23. ASSUME NEW x \in Proofs, WriteBack(x) PROVE StoreInv'
  BY <1>23, <1>f DEF WriteBack, Undamaged
<1>24. CASE PowerLoss
  <2>1. "power" \in happened'
    BY <1>24 DEF PowerLoss, Fault
  <2>2. IsInjective(rows')
    <3>1. PICK n \in 0..Len(rows) : rows' = SubSeq(rows, 1, n)
      BY <1>24, PowerLossCuts
    <3>2. /\ n \in Nat /\ DOMAIN rows = 1..Len(rows) /\ DOMAIN rows' = 1..n
          /\ \A i \in 1..n : rows'[i] = rows[i] /\ i \in DOMAIN rows
      BY <3>1 DEF TypeOK
    <3> QED
      BY <1>a, <3>2 DEF SharedInv, IsInjective
  <2>3. SharedInv'
    BY <2>1, <2>2 DEF SharedInv, Undamaged
  <2>4. \A q \in Procs : pc'[q] = "idle"
    BY <1>24 DEF PowerLoss
  <2> QED
    BY <2>3, <2>4, IdleProc DEF StoreInv
<1>25. CASE Quiescent \/ UNCHANGED vars
  BY <1>25, <1>f DEF Quiescent, vars, Undamaged
<1> QED
  BY <1>1, <1>2, <1>3, <1>4, <1>5, <1>6, <1>7, <1>L, <1>8, <1>9, <1>10, <1>11, <1>12, <1>13,
     <1>14, <1>15, <1>16, <1>17, <1>18, <1>19, <1>20, <1>21, <1>22, <1>23, <1>24, <1>25
     DEF Next, Advance
-----------------------------------------------------------------------------
THEOREM TypeAndStore == Spec => [](TypeOK /\ StoreInv)
<1>1. Init => TypeOK /\ StoreInv
  BY TypeInit, StoreInit
<1>2. TypeOK /\ StoreInv /\ [Next]_vars => (TypeOK /\ StoreInv)'
  BY TypeStep, StoreStep
<1> QED
  BY <1>1, <1>2, PTL DEF Spec

\* The store's state is always well typed, and the flock is held by exactly the
\* importer that is between _proof_index_lock and its release.
THEOREM TypeCorrect == Spec => []TypeOK
BY TypeAndStore, PTL

\* Whoever edits sources and whoever is killed, every row has its proof and
\* every object is the proof it is named for.
THEOREM IndexedCorrect == Spec => []IndexedIsInstalled
<1>1. StoreInv => IndexedIsInstalled
  BY DEF StoreInv, SharedInv, Undamaged, IndexedIsInstalled
<1> QED
  BY <1>1, TypeAndStore, PTL

\* No interleaving of importers lists a proof twice, whatever faults there are,
\* and only an error or a power loss leaves a broken line.
THEOREM IndexReadable == Spec => []IndexStaysReadable
<1>1. StoreInv => IndexStaysReadable
  BY DEF StoreInv, SharedInv, IndexStaysReadable
<1> QED
  BY <1>1, TypeAndStore, PTL
-----------------------------------------------------------------------------
(* The store implements the archive *)

\* Nothing has happened but kills and edits of sources.
Calm == happened \cap {"power", "damage", "error"} = {}

NoPower == "power" \notin happened

\* Without a power loss rows are only added: the index has that of an importer
\* past its append, and of every import that was reported.
ListedInv ==
    NoPower =>
        /\ acked \subseteq ToSet(rows)
        /\ \A p \in Procs : pc[p] \in {"fsync", "finish"} => proof[p] \in ToSet(rows)

Retained == {x \in ToSet(rows) : object[x] = "intact"}

\* In a calm store what is retained is what is listed.
LEMMA RetainedIsListed ==
    ASSUME StoreInv, Calm PROVE Retained = ToSet(rows) /\ tail = "clean"
<1>1. Undamaged /\ happened \cap {"error", "power"} = {}
  BY DEF Calm, Undamaged
<1> QED
  BY <1>1 DEF StoreInv, SharedInv, Retained, ToSet

\* What has happened stays so.
LEMMA HappenedGrows == [Next]_vars => happened \subseteq happened'
<1> SUFFICES ASSUME [Next]_vars PROVE happened \subseteq happened'
  OBVIOUS
<1> USE DEF history
<1>1. ASSUME NEW p \in Procs, NEW d \in Dirs,
             CallImport(p, d) \/ \E x \in Proofs : CallExport(p, x, d)
      PROVE  UNCHANGED happened
  BY <1>1 DEF CallImport, CallExport, Begin
<1>2. ASSUME NEW p \in Procs, CallScan(p) PROVE UNCHANGED happened
  BY <1>2 DEF CallScan, Begin
<1>3. ASSUME NEW p \in Procs, Stage(p) \/ Finalize(p) \/ Lock(p) PROVE UNCHANGED happened
  BY <1>3 DEF Stage, Finalize, Lock
<1>4. ASSUME NEW p \in Procs, Verify(p) \/ Label(p) \/ Load(p) \/ Copy(p) \/ Recheck(p)
      PROVE  UNCHANGED happened
  BY <1>4 DEF Verify, Label, Load, Copy, Recheck
<1>5. ASSUME NEW p \in Procs, Install(p) PROVE UNCHANGED happened
  BY <1>5 DEF Install, Put
<1>6. ASSUME NEW p \in Procs, Reverify(p) \/ AppendRow(p) \/ Fsync(p) \/ Finish(p)
      PROVE  UNCHANGED happened
  BY <1>6 DEF Reverify, AppendRow, Fsync, Finish
<1>7. ASSUME NEW p \in Procs, ScanObject(p) \/ ScanDone(p) PROVE UNCHANGED happened
  BY <1>7 DEF ScanObject, ScanDone
<1>8. ASSUME NEW kind, Fault(kind) PROVE happened \subseteq happened'
  BY <1>8 DEF Fault
<1>9. ASSUME NEW p \in Procs, Kill(p) \/ WriteFails(p) \/ FsyncFails(p)
      PROVE  happened \subseteq happened'
  BY <1>8, <1>9 DEF Kill, WriteFails, FsyncFails
<1>10. ASSUME NEW d \in Dirs, Edit(d) PROVE happened \subseteq happened'
  BY <1>8, <1>10 DEF Edit
<1>11. ASSUME NEW x \in Proofs, Damage(x) PROVE happened \subseteq happened'
  BY <1>8, <1>11 DEF Damage
<1>12. ASSUME NEW x \in Proofs, WriteBack(x) PROVE UNCHANGED happened
  BY <1>12 DEF WriteBack
<1>13. CASE PowerLoss
  BY <1>8, <1>13 DEF PowerLoss
<1>14. CASE Quiescent \/ UNCHANGED vars
  BY <1>14 DEF Quiescent, vars
<1> QED
  BY <1>1, <1>2, <1>3, <1>4, <1>5, <1>6, <1>7, <1>9, <1>10, <1>11, <1>12, <1>13, <1>14
     DEF Next, Advance

\* What a step other than the append and the report leaves alone.
Quiet == /\ UNCHANGED <<rows, acked>>
         /\ \A q \in Procs : pc'[q] \in {"fsync", "finish"} =>
               pc[q] \in {"fsync", "finish"} /\ proof'[q] = proof[q]

LEMMA ReturnQuiet ==
    ASSUME TypeOK, NEW p \in Procs, NEW result, Return(p, result), UNCHANGED <<rows, acked>>,
           \A q \in Procs \ {p} : proof'[q] = proof[q]
    PROVE  Quiet
BY DEF Return, Goto, TypeOK, Quiet

LEMMA GotoQuiet ==
    ASSUME TypeOK, NEW p \in Procs, NEW label \in PC \ {"fsync", "finish"}, Goto(p, label),
           UNCHANGED <<rows, acked>>, \A q \in Procs \ {p} : proof'[q] = proof[q]
    PROVE  Quiet
BY DEF Goto, TypeOK, Quiet

LEMMA RequireQuiet ==
    ASSUME TypeOK, NEW p \in Procs, NEW ok, NEW label \in PC \ {"fsync", "finish"},
           Require(p, ok, label),
           UNCHANGED <<rows, acked>>, \A q \in Procs \ {p} : proof'[q] = proof[q]
    PROVE  Quiet
<1>1. CASE Goto(p, label)
  BY <1>1, GotoQuiet
<1>2. CASE Return(p, Say("refused"))
  BY <1>2, ReturnQuiet
<1> QED
  BY <1>1, <1>2 DEF Require

\* Every step but an append, whole or not, and a report is quiet as long as there
\* was no power loss.
LEMMA QuietStep ==
    ASSUME NoPower', TypeOK, [Next]_vars,
           \A p \in Procs : ~AppendRow(p) /\ ~Finish(p) /\ ~WriteFails(p)
    PROVE  Quiet
<1> USE DEF index, store, process, history
<1>a. {"idle", "stage", "lock", "scan", "finalize", "verify", "label", "load", "copy", "recheck",
       "install", "reverify", "append"} \subseteq PC \ {"fsync", "finish"}
  BY DEF PC
<1>1. ASSUME NEW p \in Procs, NEW d \in Dirs, CallImport(p, d) PROVE Quiet
  BY <1>1, <1>a, GotoQuiet DEF CallImport, Begin, TypeOK
<1>2. ASSUME NEW p \in Procs, NEW d \in Dirs, NEW x \in Proofs, CallExport(p, x, d) PROVE Quiet
  BY <1>2, <1>a, GotoQuiet DEF CallExport, Begin, TypeOK
<1>3. ASSUME NEW p \in Procs, CallScan(p) PROVE Quiet
  BY <1>3, <1>a, GotoQuiet DEF CallScan, Begin, TypeOK
<1>4. ASSUME NEW p \in Procs, Stage(p) PROVE Quiet
  BY <1>4, <1>a, GotoQuiet, ReturnQuiet DEF Stage
<1>5. ASSUME NEW p \in Procs, Finalize(p) PROVE Quiet
  BY <1>5, ReturnQuiet DEF Finalize
<1>6. ASSUME NEW p \in Procs, Lock(p) PROVE Quiet
  BY <1>6, <1>a, GotoQuiet DEF Lock
<1>7. ASSUME NEW p \in Procs, Verify(p) PROVE Quiet
  <2>1. PICK ok : Require(p, ok, "label")
    BY <1>7 DEF Verify
  <2> QED
    BY <1>7, <1>a, <2>1, RequireQuiet DEF Verify, TypeOK
<1>L. ASSUME NEW p \in Procs, Label(p) PROVE Quiet
  <2>1. PICK ok : Require(p, ok, "load")
    BY <1>L DEF Label
  <2> QED
    BY <1>L, <1>a, <2>1, RequireQuiet DEF Label
<1>8. ASSUME NEW p \in Procs, Load(p) PROVE Quiet
  <2>1. PICK ok : Require(p, ok, "copy")
    BY <1>8 DEF Load
  <2> QED
    BY <1>8, <1>a, <2>1, RequireQuiet DEF Load
<1>9. ASSUME NEW p \in Procs, Copy(p) PROVE Quiet
  BY <1>9, <1>a, GotoQuiet DEF Copy
<1>10. ASSUME NEW p \in Procs, Recheck(p) PROVE Quiet
  BY <1>10, <1>a, RequireQuiet DEF Recheck
<1>11. ASSUME NEW p \in Procs, Install(p) PROVE Quiet
  <2>1. CASE Put(p)
    BY <2>1, <1>a, GotoQuiet DEF Put
  <2>2. CASE ~Put(p)
    <3>1. PICK ok : Require(p, ok, "append")
      BY <1>11, <2>2 DEF Install
    <3> QED
      BY <1>11, <1>a, <2>2, <3>1, RequireQuiet DEF Install
  <2> QED
    BY <2>1, <2>2
<1>12. ASSUME NEW p \in Procs, Reverify(p) PROVE Quiet
  BY <1>12, <1>a, RequireQuiet DEF Reverify
<1>13. ASSUME NEW p \in Procs, Fsync(p) PROVE Quiet
  BY <1>13 DEF Fsync, Goto, TypeOK, Quiet
<1>14. ASSUME NEW p \in Procs, ScanObject(p) PROVE Quiet
  BY <1>14 DEF ScanObject, Quiet
<1>15. ASSUME NEW p \in Procs, ScanDone(p) PROVE Quiet
  BY <1>15, ReturnQuiet DEF ScanDone
<1>16. ASSUME NEW p \in Procs, Kill(p) PROVE Quiet
  BY <1>16, ReturnQuiet DEF Kill, Fault
<1>17. ASSUME NEW p \in Procs, FsyncFails(p) PROVE Quiet
  BY <1>17, ReturnQuiet DEF FsyncFails, Fault
<1>18. ASSUME NEW x \in Proofs, Damage(x) PROVE Quiet
  BY <1>18 DEF Damage, Fault, Quiet
<1>19. ASSUME NEW x \in Proofs, WriteBack(x) PROVE Quiet
  BY <1>19 DEF WriteBack, Quiet
<1>20. ~PowerLoss
  BY DEF PowerLoss, Fault, NoPower
<1>21. CASE (\E d \in Dirs : Edit(d)) \/ Quiescent \/ UNCHANGED vars
  BY <1>21 DEF Edit, Fault, Quiescent, vars, Quiet
<1> QED
  BY <1>1, <1>2, <1>3, <1>4, <1>5, <1>6, <1>7, <1>L, <1>8, <1>9, <1>10, <1>11, <1>12,
     <1>13, <1>14, <1>15, <1>16, <1>17, <1>18, <1>19, <1>20, <1>21 DEF Next, Advance

\* An append adds the row of the proof and moves on.
LEMMA AppendLists ==
    ASSUME TypeOK, StoreInv, NEW p \in Procs, AppendRow(p)
    PROVE  /\ proof[p] \in Proofs /\ acked' = acked /\ proof' = proof
           /\ ToSet(rows') = ToSet(rows) \cup {proof[p]}
           /\ \A q \in Procs \ {p} : pc'[q] = pc[q]
<1> USE DEF index, store, process, history
<1>1. ProcInv(p) /\ pc[p] = "append"
  BY DEF StoreInv, AppendRow
<1>2. proof[p] \in Proofs /\ seen[p] = ToSet(rows)
  BY <1>1 DEF ProcInv, Relies
<1>3. CASE proof[p] \in seen[p]
  BY <1>2, <1>3 DEF AppendRow, Goto, TypeOK
<1>4. CASE proof[p] \notin seen[p]
  <2>1. rows' = Append(rows, proof[p])
    BY <1>4 DEF AppendRow, WriteRow
  <2>2. /\ DOMAIN rows = 1..Len(rows) /\ DOMAIN rows' = 1..(Len(rows) + 1)
        /\ \A i \in 1..Len(rows) : rows'[i] = rows[i]
        /\ rows'[Len(rows) + 1] = proof[p] /\ Len(rows) \in Nat
    BY <1>2, <2>1 DEF TypeOK
  <2>3. ToSet(rows') = ToSet(rows) \cup {proof[p]}
    BY <2>2 DEF ToSet
  <2> QED
    BY <1>2, <1>4, <2>3 DEF AppendRow, Goto, TypeOK
<1> QED
  BY <1>3, <1>4

LEMMA FinishReports ==
    ASSUME TypeOK, StoreInv, NEW p \in Procs, Finish(p)
    PROVE  /\ proof[p] \in Proofs /\ pc[p] = "finish"
           /\ acked' = acked \cup {proof[p]} /\ UNCHANGED <<rows, proof>>
           /\ pc'[p] = "idle" /\ \A q \in Procs \ {p} : pc'[q] = pc[q]
BY DEF index, store, Finish, StoreInv, ProcInv, Return, Goto, TypeOK

\* A failing write takes no row away, and its importer gives up.
LEMMA WriteFailsKeeps ==
    ASSUME TypeOK, StoreInv, NEW p \in Procs, WriteFails(p)
    PROVE  /\ ToSet(rows) \subseteq ToSet(rows') /\ UNCHANGED <<acked, proof>>
           /\ pc'[p] = "idle" /\ \A q \in Procs \ {p} : pc'[q] = pc[q]
<1>1. /\ UNCHANGED <<acked, proof>>
      /\ pc'[p] = "idle" /\ \A q \in Procs \ {p} : pc'[q] = pc[q]
  BY DEF WriteFails, Fault, Return, Goto, TypeOK
<1>2. rows' = rows \/ rows' = Append(rows, proof[p])
  BY DEF WriteFails, WriteRow
<1>3. CASE rows' = rows
  BY <1>1, <1>3 DEF ToSet
<1>4. CASE rows' = Append(rows, proof[p])
  <2>1. proof[p] \in Proofs
    BY DEF WriteFails, StoreInv, ProcInv, Relies
  <2>2. /\ DOMAIN rows = 1..Len(rows) /\ DOMAIN rows' = 1..(Len(rows) + 1)
        /\ \A i \in 1..Len(rows) : rows'[i] = rows[i] /\ Len(rows) \in Nat
    BY <1>4, <2>1 DEF TypeOK
  <2>3. ToSet(rows) \subseteq ToSet(rows')
    BY <2>2 DEF ToSet
  <2> QED
    BY <1>1, <2>3
<1> QED
  BY <1>2, <1>3, <1>4

LEMMA ListedStep == TypeOK /\ StoreInv /\ ListedInv /\ [Next]_vars => ListedInv'
<1> SUFFICES ASSUME TypeOK, StoreInv, ListedInv, [Next]_vars, NoPower' PROVE ListedInv'
  BY DEF ListedInv
<1>a. /\ acked \subseteq ToSet(rows)
      /\ \A p \in Procs : pc[p] \in {"fsync", "finish"} => proof[p] \in ToSet(rows)
  BY HappenedGrows DEF NoPower, ListedInv
<1>b. ToSet(rows)' = ToSet(rows')
  BY DEF ToSet
<1>1. ASSUME NEW p \in Procs, AppendRow(p) PROVE ListedInv'
  BY <1>a, <1>b, <1>1, AppendLists DEF ListedInv
<1>2. ASSUME NEW p \in Procs, Finish(p) PROVE ListedInv'
  <2>1. ToSet(rows') = ToSet(rows) /\ proof[p] \in ToSet(rows)
    BY <1>a, <1>2, FinishReports DEF ToSet
  <2> QED
    BY <1>a, <1>b, <1>2, <2>1, FinishReports DEF ListedInv
<1>3. ASSUME NEW p \in Procs, WriteFails(p) PROVE ListedInv'
  BY <1>a, <1>b, <1>3, WriteFailsKeeps DEF ListedInv
<1>4. CASE \A p \in Procs : ~AppendRow(p) /\ ~Finish(p) /\ ~WriteFails(p)
  BY <1>a, <1>4, QuietStep DEF Quiet, ListedInv
<1> QED
  BY <1>1, <1>2, <1>3, <1>4

\* What a calm store has not seen.
LEMMA CalmMeans ==
    ASSUME Calm'
    PROVE  NoPower' /\ ~PowerLoss /\ \A p \in Procs : ~WriteFails(p)
BY DEF Calm, NoPower, PowerLoss, WriteFails, Fault

\* A step of a calm store retains a proof, reports a retained one, or is none of
\* the archive's.
LEMMA ArchiveStep ==
    ASSUME StoreInv, StoreInv', TypeOK, ListedInv, [Next]_vars, Calm'
    PROVE  UNCHANGED <<Retained, acked>> \/ \E x \in Proofs : Archive!Retain(x) \/ Archive!Promise(x)
<1>a. /\ Calm /\ Retained = ToSet(rows) /\ tail = "clean"
      /\ Retained' = ToSet(rows')
  <2>1. Calm
    BY HappenedGrows DEF Calm
  <2>2. ASSUME StoreInv', Calm' PROVE Retained' = ToSet(rows')
    BY <2>2 DEF StoreInv, SharedInv, Retained, ToSet, Calm, Undamaged
  <2> QED
    BY <2>1, <2>2, RetainedIsListed
<1>1. ASSUME NEW p \in Procs, AppendRow(p)
      PROVE  UNCHANGED <<Retained, acked>> \/ \E x \in Proofs : Archive!Retain(x)
  <2>1. /\ proof[p] \in Proofs /\ acked' = acked
        /\ Retained' = Retained \cup {proof[p]}
    BY <1>1, <1>a, AppendLists
  <2>2. CASE proof[p] \in Retained
    BY <2>1, <2>2
  <2>3. CASE proof[p] \notin Retained
    BY <2>1, <2>3 DEF Archive!Retain, Retained
  <2> QED
    BY <2>2, <2>3
<1>2. ASSUME NEW p \in Procs, Finish(p) PROVE \E x \in Proofs : Archive!Promise(x)
  <2>1. proof[p] \in Retained /\ Retained' = Retained /\ proof[p] \in Proofs
    BY <1>2, <1>a, FinishReports DEF ListedInv, Calm, NoPower
  <2> QED
    BY <1>2, <2>1, FinishReports DEF Archive!Promise, Retained
<1>3. CASE \A p \in Procs : ~AppendRow(p) /\ ~Finish(p)
  <2>1. UNCHANGED <<rows, acked>>
    BY <1>3, CalmMeans, QuietStep DEF Quiet
  <2> QED
    BY <1>a, <2>1
<1> QED
  BY <1>1, <1>2, <1>3

\* Importers that verify, copy, install, append, fsync and are killed anywhere
\* implement the archive that retains proofs for good and keeps its word until a
\* power loss, a failing write or damage.
THEOREM ArchiveImplemented == Spec => ImplementsArchive
<1>1. Init => Archive!Init /\ ListedInv
  BY DEF Init, Archive!Init, ListedInv, ToSet
<1>2. TypeOK /\ StoreInv /\ ListedInv /\ [Next]_vars => ListedInv'
  BY ListedStep
<1>3. ASSUME TypeOK, StoreInv, ListedInv, [Next]_vars, StoreInv'
      PROVE  [Archive!Next]_(Archive!vars)
  <2>1. CASE Calm'
    <3>1. Calm
      BY <1>3, <2>1, HappenedGrows DEF Calm
    <3>2. UNCHANGED <<Retained, acked>> \/ \E x \in Proofs : Archive!Retain(x) \/ Archive!Promise(x)
      BY <1>3, <2>1, ArchiveStep
    <3> QED
      BY <2>1, <3>1, <3>2 DEF Archive!Next, Archive!vars, Calm, Retained
  <2>2. CASE ~Calm'
    BY <2>2 DEF Archive!Next, Calm
  <2> QED
    BY <2>1, <2>2
<1> QED
  BY <1>1, <1>2, <1>3, TypeAndStore, PTL
     DEF Spec, ImplementsArchive, Archive!Spec
-----------------------------------------------------------------------------
(* What a step leaves alone *)

\* The steps of process p.
ProcessStep(p) ==
    \/ \E d \in Dirs : CallImport(p, d) \/ \E x \in Proofs : CallExport(p, x, d)
    \/ CallScan(p)
    \/ Advance(p)
    \/ Kill(p) \/ WriteFails(p) \/ FsyncFails(p)

Same(q) ==
    /\ pc'[q] = pc[q] /\ proof'[q] = proof[q] /\ run'[q] = run[q] /\ from'[q] = from[q]
    /\ stage'[q] = stage[q] /\ seen'[q] = seen[q] /\ answer'[q] = answer[q]
    /\ owed'[q] = owed[q]

LEMMA ReturnSame ==
    ASSUME TypeOK, NEW p \in Procs, NEW q \in Procs \ {p}, NEW result, Return(p, result)
    PROVE  pc'[q] = pc[q] /\ stage'[q] = stage[q] /\ answer'[q] = answer[q]
BY DEF Return, Goto, TypeOK

\* No process moves another.
LEMMA OthersStand ==
    ASSUME TypeOK, NEW p \in Procs, NEW q \in Procs \ {p}, ProcessStep(p)
    PROVE  Same(q)
<1> USE DEF Same, process
<1>1. ASSUME NEW d \in Dirs, CallImport(p, d) PROVE Same(q)
  BY <1>1 DEF CallImport, Begin, Goto, TypeOK
<1>2. ASSUME NEW d \in Dirs, NEW x \in Proofs, CallExport(p, x, d) PROVE Same(q)
  BY <1>2 DEF CallExport, Begin, Goto, TypeOK
<1>3. CASE CallScan(p)
  BY <1>3 DEF CallScan, Begin, Goto, TypeOK
<1>4. CASE Stage(p)
  <2>1. CASE Return(p, Say("unexported"))
    BY <1>4, <2>1, ReturnSame DEF Stage
  <2>2. CASE ~Return(p, Say("unexported"))
    BY <1>4, <2>2 DEF Stage, Goto, TypeOK
  <2> QED
    BY <2>1, <2>2
<1>5. CASE Finalize(p)
  BY <1>5, ReturnSame DEF Finalize
<1>6. CASE Lock(p)
  BY <1>6 DEF Lock, Goto, TypeOK
<1>7. CASE Verify(p)
  BY <1>7 DEF Verify, Require, Return, Goto, TypeOK
<1>8. CASE Label(p)
  BY <1>8 DEF Label, Require, Return, Goto, TypeOK
<1>9. CASE Load(p)
  BY <1>9 DEF Load, Require, Return, Goto, TypeOK
<1>10. CASE Copy(p)
  BY <1>10 DEF Copy, Goto, TypeOK
<1>11. CASE Recheck(p)
  BY <1>11 DEF Recheck, Require, Return, Goto, TypeOK
<1>12. CASE Install(p)
  <2>1. CASE Put(p)
    BY <2>1 DEF Put, Goto, TypeOK
  <2>2. CASE ~Put(p)
    BY <1>12, <2>2 DEF Install, Require, Return, Goto, TypeOK
  <2> QED
    BY <2>1, <2>2
<1>13. CASE Reverify(p)
  BY <1>13 DEF Reverify, Require, Return, Goto, TypeOK
<1>14. CASE AppendRow(p)
  BY <1>14 DEF AppendRow, Goto, TypeOK
<1>15. CASE Fsync(p)
  BY <1>15 DEF Fsync, Goto, TypeOK
<1>16. CASE Finish(p)
  BY <1>16, ReturnSame DEF Finish
<1>17. CASE ScanObject(p)
  BY <1>17 DEF ScanObject, TypeOK
<1>18. CASE ScanDone(p)
  BY <1>18, ReturnSame DEF ScanDone
<1>19. CASE Kill(p)
  BY <1>19, ReturnSame DEF Kill
<1>20. CASE WriteFails(p)
  BY <1>20, ReturnSame DEF WriteFails
<1>21. CASE FsyncFails(p)
  BY <1>21, ReturnSame DEF FsyncFails
<1> QED
  BY <1>1, <1>2, <1>3, <1>4, <1>5, <1>6, <1>7, <1>8, <1>9, <1>10, <1>11, <1>12, <1>13,
     <1>14, <1>15, <1>16, <1>17, <1>18, <1>19, <1>20, <1>21 DEF ProcessStep, Advance

\* A fault counts, and is remembered.
LEMMA FaultCounts ==
    ASSUME TypeOK, NEW kind, Fault(kind)
    PROVE  faults' # faults /\ kind \in happened'
<1>1. faults \in Nat
  BY BoundsAreNat DEF TypeOK
<1> QED
  BY <1>1 DEF Fault

\* Where something is, only an operator puts something else.
SourcesStay == \A d \in Dirs : dir[d] # Missing => dir'[d] = dir[d]

LEMMA SourcesKept ==
    ASSUME TypeOK, [Next]_vars
    PROVE  SourcesStay \/ (faults' # faults /\ "edit" \in happened')
<1> USE DEF process, store, SourcesStay
<1>1. ASSUME NEW p \in Procs, NEW d \in Dirs,
             CallImport(p, d) \/ \E x \in Proofs : CallExport(p, x, d)
      PROVE  UNCHANGED dir
  BY <1>1 DEF CallImport, CallExport, Begin
<1>2. ASSUME NEW p \in Procs, CallScan(p) PROVE UNCHANGED dir
  BY <1>2 DEF CallScan, Begin
<1>3. ASSUME NEW p \in Procs, Stage(p) \/ Lock(p) PROVE UNCHANGED dir
  BY <1>3 DEF Stage, Lock
<1>4. ASSUME NEW p \in Procs, Finalize(p) PROVE SourcesStay
  BY <1>4 DEF Finalize, TypeOK
<1>5. ASSUME NEW p \in Procs, Verify(p) \/ Label(p) \/ Load(p) \/ Copy(p) \/ Recheck(p)
      PROVE  UNCHANGED dir
  BY <1>5 DEF Verify, Label, Load, Copy, Recheck
<1>6. ASSUME NEW p \in Procs, Install(p) PROVE UNCHANGED dir
  BY <1>6 DEF Install, Put
<1>7. ASSUME NEW p \in Procs, Reverify(p) \/ AppendRow(p) \/ Fsync(p) \/ Finish(p)
      PROVE  UNCHANGED dir
  BY <1>7 DEF Reverify, AppendRow, Fsync, Finish
<1>8. ASSUME NEW p \in Procs, ScanObject(p) \/ ScanDone(p) PROVE UNCHANGED dir
  BY <1>8 DEF ScanObject, ScanDone
<1>9. ASSUME NEW p \in Procs, Kill(p) \/ WriteFails(p) \/ FsyncFails(p) PROVE UNCHANGED dir
  BY <1>9 DEF Kill, WriteFails, FsyncFails
<1>10. ASSUME NEW d \in Dirs, Edit(d) PROVE faults' # faults /\ "edit" \in happened'
  BY <1>10, FaultCounts DEF Edit
<1>11. ASSUME NEW x \in Proofs, Damage(x) \/ WriteBack(x) PROVE UNCHANGED dir
  BY <1>11 DEF Damage, WriteBack
<1>12. CASE PowerLoss \/ Quiescent \/ UNCHANGED vars
  BY <1>12 DEF PowerLoss, Quiescent, vars
<1> QED
  BY <1>1, <1>2, <1>3, <1>4, <1>5, <1>6, <1>7, <1>8, <1>9, <1>10, <1>11, <1>12
     DEF Next, Advance

\* What is installed, only damage or a power loss changes.
ObjectsStay == \A x \in Proofs : object[x] # "none" => object'[x] = object[x]

LEMMA ObjectsKept ==
    ASSUME TypeOK, [Next]_vars
    PROVE  ObjectsStay \/ (faults' # faults /\ ~Undamaged')
<1> USE DEF process, store, index, ObjectsStay
<1>1. ASSUME NEW p \in Procs, NEW d \in Dirs,
             CallImport(p, d) \/ \E x \in Proofs : CallExport(p, x, d)
      PROVE  UNCHANGED object
  BY <1>1 DEF CallImport, CallExport, Begin
<1>2. ASSUME NEW p \in Procs, CallScan(p) PROVE UNCHANGED object
  BY <1>2 DEF CallScan, Begin
<1>3. ASSUME NEW p \in Procs, Stage(p) \/ Finalize(p) \/ Lock(p) PROVE UNCHANGED object
  BY <1>3 DEF Stage, Finalize, Lock
<1>4. ASSUME NEW p \in Procs, Verify(p) \/ Label(p) \/ Load(p) \/ Copy(p) \/ Recheck(p)
      PROVE  UNCHANGED object
  BY <1>4 DEF Verify, Label, Load, Copy, Recheck
<1>5. ASSUME NEW p \in Procs, Install(p) PROVE ObjectsStay
  <2>1. CASE object[proof[p]] = "none"
    BY <1>5, <2>1 DEF Install, Put, TypeOK
  <2>2. CASE object[proof[p]] # "none"
    BY <1>5, <2>2 DEF Install
  <2> QED
    BY <2>1, <2>2
<1>6. ASSUME NEW p \in Procs, Reverify(p) \/ AppendRow(p) \/ Fsync(p) \/ Finish(p)
      PROVE  UNCHANGED object
  BY <1>6 DEF Reverify, AppendRow, Fsync, Finish
<1>7. ASSUME NEW p \in Procs, ScanObject(p) \/ ScanDone(p) PROVE UNCHANGED object
  BY <1>7 DEF ScanObject, ScanDone
<1>8. ASSUME NEW p \in Procs, Kill(p) \/ WriteFails(p) \/ FsyncFails(p) PROVE UNCHANGED object
  BY <1>8 DEF Kill, WriteFails, FsyncFails
<1>9. ASSUME NEW d \in Dirs, Edit(d) PROVE UNCHANGED object
  BY <1>9 DEF Edit
<1>10. ASSUME NEW x \in Proofs, Damage(x) PROVE faults' # faults /\ ~Undamaged'
  BY <1>10, FaultCounts DEF Damage, Undamaged
<1>11. ASSUME NEW x \in Proofs, WriteBack(x) PROVE UNCHANGED object
  BY <1>11 DEF WriteBack
<1>12. CASE PowerLoss
  BY <1>12, FaultCounts DEF PowerLoss, Undamaged
<1>13. CASE Quiescent \/ UNCHANGED vars
  BY <1>13 DEF Quiescent, vars
<1> QED
  BY <1>1, <1>2, <1>3, <1>4, <1>5, <1>6, <1>7, <1>8, <1>9, <1>10, <1>11, <1>12, <1>13
     DEF Next, Advance

\* No import and no export ever replaces what is there: not an object, damaged or
\* not, nor a directory another export filled in the meantime.
THEOREM ReplacementFree == Spec => NothingIsReplaced
<1>1. ASSUME TypeOK, [Next]_vars
      PROVE  /\ \A x \in Proofs :
                   object[x] # "none" => object'[x] = object[x] \/ faults' # faults
             /\ \A d \in Dirs : dir[d] # Missing => dir'[d] = dir[d] \/ faults' # faults
  BY <1>1, SourcesKept, ObjectsKept DEF SourcesStay, ObjectsStay
<1> QED
  BY <1>1, TypeCorrect, PTL DEF Spec, NothingIsReplaced
-----------------------------------------------------------------------------
(* An import that was only interrupted can be tried again *)

OnlyKills == happened \subseteq {"kill"}

Whole(x) == [id |-> x, intact |-> TRUE]

\* What p relies on is still whole, and is what it read before.
RetryInv(p) ==
    /\ answer[p].status # "refused"
    /\ pc[p] \in {"lock", "verify"} => dir[from[p]] # Missing
    /\ pc[p] \in Locked \ {"verify"} => dir[from[p]] = Whole(proof[p])
    /\ pc[p] \in Locked \ {"verify", "label"} => run[p] = proof[p]
    /\ pc[p] \in {"finalize", "recheck"} => stage[p] = Whole(proof[p])
    /\ pc[p] = "reverify" => object[proof[p]] = "intact"

UndisturbedInv ==
    OnlyKills =>
        /\ \A x \in Proofs : named[x] = x
        /\ \A d \in Dirs : dir[d] = Missing \/ dir[d].intact
        /\ \A p \in Procs : RetryInv(p)

LEMMA WholeIsThere == \A x : Whole(x) # Missing /\ Whole(x).intact
BY DEF Whole, Missing

\* A directory that is there holds a whole proof.
LEMMA IntactIsWhole ==
    ASSUME NEW c \in Content, c.intact PROVE c = Whole(c.id) /\ c.id \in Proofs
BY DEF Content, Missing, Whole

\* A process that rests is not disturbed by what the others do.
LEMMA RetryFrame ==
    ASSUME TypeOK, StoreInv, NEW q \in Procs, RetryInv(q), Same(q),
           SourcesStay, ObjectsStay
    PROVE  RetryInv(q)'
<1>1. pc[q] \in Locked \cup {"lock"} => from[q] \in Dirs
  BY DEF StoreInv, ProcInv, Locked
<1>2. pc[q] \in Locked \cup {"lock"} /\ dir[from[q]] # Missing => dir'[from'[q]] = dir[from[q]]
  BY <1>1 DEF SourcesStay, Same
<1>3. pc[q] = "reverify" => proof[q] \in Proofs
  BY DEF StoreInv, ProcInv, Relies
<1>4. answer'[q].status # "refused"
  BY DEF RetryInv, Same
<1>5. pc'[q] \in {"lock", "verify"} => dir'[from'[q]] # Missing
  BY <1>2 DEF RetryInv, Same, Locked
<1>6. pc'[q] \in Locked \ {"verify"} => dir'[from'[q]] = Whole(proof'[q])
  BY <1>2, WholeIsThere DEF RetryInv, Same
<1>7. /\ pc'[q] \in Locked \ {"verify", "label"} => run'[q] = proof'[q]
      /\ pc'[q] \in {"finalize", "recheck"} => stage'[q] = Whole(proof'[q])
  BY DEF RetryInv, Same
<1>8. pc'[q] = "reverify" => object'[proof'[q]] = "intact"
  <2>1. SUFFICES ASSUME pc'[q] = "reverify" PROVE object'[proof'[q]] = "intact"
    OBVIOUS
  <2>2. pc[q] = "reverify" /\ proof'[q] = proof[q]
    BY <2>1 DEF Same
  <2>3. object[proof[q]] = "intact" /\ proof[q] \in Proofs
    BY <1>3, <2>2 DEF RetryInv
  <2> QED
    BY <2>2, <2>3 DEF ObjectsStay
<1> QED
  BY <1>4, <1>5, <1>6, <1>7, <1>8 DEF RetryInv, Whole, Missing

\* A call that has returned relies on nothing.
LEMMA ReturnRetry ==
    ASSUME TypeOK, NEW p \in Procs, NEW status \in {"none", "ok", "exported", "unexported"},
           Return(p, Say(status))
    PROVE  RetryInv(p)'
<1>1. pc'[p] = "idle" /\ answer'[p].status = status
  BY DEF Return, Goto, Say, TypeOK
<1> QED
  BY <1>1 DEF RetryInv, Locked

\* A step that goes on within the flock, with its source and its run as they were.
LEMMA GoOnRetry ==
    ASSUME TypeOK, NEW p \in Procs, RetryInv(p), NEW label \in Locked \ {"verify", "label"},
           pc[p] \in Locked \ {"verify", "label"}, pc'[p] = label,
           UNCHANGED <<dir, from, proof, run, answer>>,
           label = "recheck" => stage'[p] = Whole(proof[p]),
           label = "reverify" => object'[proof[p]] = "intact"
    PROVE  RetryInv(p)'
<1>1. label \notin {"lock", "verify", "finalize"}
  BY DEF Locked
<1>2. dir'[from'[p]] = Whole(proof'[p]) /\ run'[p] = proof'[p] /\ answer'[p].status # "refused"
  BY DEF RetryInv
<1> QED
  BY <1>1, <1>2 DEF RetryInv, Whole

\* Each step of p passes its checks, so nothing it meets refuses it.
LEMMA RetryStep ==
    ASSUME TypeOK, StoreInv, OnlyKills, OnlyKills', UndisturbedInv, NEW p \in Procs,
           ProcessStep(p)
    PROVE  RetryInv(p)'
<1> USE DEF process, store, index, history
<1>a. /\ RetryInv(p) /\ \A x \in Proofs : named[x] = x
      /\ \A d \in Dirs : dir[d] = Missing \/ dir[d].intact
      /\ ProcInv(p) /\ SharedInv
  BY DEF UndisturbedInv, StoreInv
<1>b. pc[p] \in Locked \cup {"lock"} => from[p] \in Dirs /\ dir[from[p]] \in Content
  BY <1>a DEF ProcInv, TypeOK, Locked
<1>c. Undamaged /\ tail = "clean" /\ IsInjective(rows)
  <2>1. happened \cap {"damage", "power"} = {} /\ happened \cap {"error", "power"} = {}
    BY DEF OnlyKills
  <2> QED
    BY <1>a, <2>1 DEF Undamaged, SharedInv
<1>1. ASSUME NEW d \in Dirs, CallImport(p, d) PROVE RetryInv(p)'
  <2>1. /\ pc'[p] = "lock" /\ from'[p] = d /\ dir' = dir /\ answer' = answer /\ dir[d] # Missing
    BY <1>1 DEF CallImport, Begin, Goto, TypeOK
  <2> QED
    BY <1>a, <2>1 DEF RetryInv, Locked, Missing
<1>2. ASSUME NEW d \in Dirs, NEW x \in Proofs, CallExport(p, x, d) PROVE RetryInv(p)'
  <2>1. pc'[p] = "stage" /\ answer' = answer
    BY <1>2 DEF CallExport, Begin, Goto, TypeOK
  <2> QED
    BY <1>a, <2>1 DEF RetryInv, Locked
<1>3. CASE CallScan(p)
  <2>1. pc'[p] = "scan" /\ answer'[p].status # "refused"
    BY <1>3 DEF CallScan, Begin, Goto, Say, TypeOK
  <2> QED
    BY <2>1 DEF RetryInv, Locked
<1>4. CASE Stage(p)
  <2>1. CASE Return(p, Say("unexported"))
    BY <2>1, ReturnRetry
  <2>2. CASE stage' = [stage EXCEPT ![p] = [id |-> proof[p], intact |-> TRUE]]
             /\ Goto(p, "finalize") /\ UNCHANGED <<lock, answer>>
    <3>1. pc'[p] = "finalize" /\ stage'[p] = Whole(proof'[p]) /\ answer' = answer
      BY <1>4, <2>2 DEF Stage, Goto, Whole, TypeOK
    <3> QED
      BY <1>a, <3>1 DEF RetryInv, Locked, Whole
  <2> QED
    BY <1>4, <2>1, <2>2 DEF Stage
<1>5. CASE Finalize(p)
  BY <1>5, ReturnRetry DEF Finalize
<1>6. CASE Lock(p)
  <2>1. pc[p] = "lock" /\ pc'[p] = "verify" /\ UNCHANGED <<dir, from, answer>>
    BY <1>6 DEF Lock, Goto, TypeOK
  <2> QED
    BY <1>a, <2>1 DEF RetryInv, Missing
<1>7. CASE Verify(p)
  <2>1. pc[p] = "verify" /\ dir[from[p]].intact
    BY <1>7, <1>a, <1>b DEF Verify, RetryInv, Locked
  <2>2. dir[from[p]] = Whole(dir[from[p]].id)
    BY <1>b, <2>1, IntactIsWhole DEF Locked
  <2>3. Goto(p, "label") /\ UNCHANGED <<dir, from, answer>>
    BY <1>7, <2>1 DEF Verify, Require
  <2>4. pc'[p] = "label" /\ proof'[p] = dir[from[p]].id
    BY <1>7, <2>3 DEF Verify, Goto, TypeOK
  <2> QED
    BY <1>a, <2>2, <2>3, <2>4 DEF RetryInv, Locked, Whole
<1>8. CASE Label(p)
  <2>1. dir[from[p]] = Whole(proof[p])
    BY <1>8, <1>a DEF Label, RetryInv, Locked
  <2>2. dir[from[p]].intact /\ dir[from[p]] # Missing /\ dir[from[p]].id = proof[p]
    BY <2>1, WholeIsThere DEF Whole
  <2>3. Goto(p, "load") /\ UNCHANGED <<dir, from, answer, proof>>
    BY <1>8, <2>2 DEF Label, Require
  <2>4. pc'[p] = "load" /\ run'[p] = proof[p]
    BY <1>8, <2>2, <2>3 DEF Label, Goto, TypeOK
  <2> QED
    BY <1>a, <2>1, <2>3, <2>4 DEF RetryInv, Locked, Whole
<1>9. CASE Load(p)
  <2>1. Readable
    BY <1>c DEF Readable
  <2>2. \A x \in ToSet(rows) : named[x] = x /\ object[x] = "intact"
    BY <1>a, <1>c DEF SharedInv, ToSet, TypeOK
  <2>3. run[p] = proof[p]
    BY <1>9, <1>a DEF Load, RetryInv, Locked
  <2>4. Goto(p, "copy") /\ UNCHANGED <<dir, from, answer, proof, run>>
    BY <1>9, <2>1, <2>2, <2>3 DEF Load, Require
  <2>5. pc[p] = "load" /\ pc'[p] = "copy"
    BY <1>9, <2>4 DEF Load, Goto, TypeOK
  <2> QED
    BY <1>a, <2>4, <2>5, GoOnRetry DEF Locked
<1>10. CASE Copy(p)
  <2>1. pc[p] = "copy" /\ dir[from[p]] = Whole(proof[p])
    BY <1>10, <1>a DEF Copy, RetryInv, Locked
  <2>2. /\ pc'[p] = "recheck" /\ stage'[p] = Whole(proof[p])
        /\ UNCHANGED <<dir, from, answer, proof, run>>
    BY <1>10, <2>1 DEF Copy, Goto, TypeOK
  <2> QED
    BY <1>a, <2>1, <2>2, GoOnRetry DEF Locked
<1>11. CASE Recheck(p)
  <2>1. pc[p] = "recheck" /\ stage[p] = [id |-> proof[p], intact |-> TRUE]
    BY <1>11, <1>a DEF Recheck, RetryInv, Whole
  <2>2. Goto(p, "install") /\ UNCHANGED <<dir, from, answer, proof, run>>
    BY <1>11, <2>1 DEF Recheck, Require
  <2>3. pc'[p] = "install"
    BY <2>2 DEF Goto, TypeOK
  <2> QED
    BY <1>a, <2>1, <2>2, <2>3, GoOnRetry DEF Locked
<1>12. CASE Install(p)
  <2>0. /\ pc[p] = "install" /\ proof[p] \in Proofs
        /\ stage[p] = [id |-> proof[p], intact |-> TRUE]
    BY <1>a, <1>12 DEF Install, ProcInv, Relies
  <2>1. CASE object[proof[p]] = "none"
    <3>1. /\ pc'[p] = "reverify" /\ object'[proof[p]] = "intact"
          /\ UNCHANGED <<dir, from, answer, proof, run>>
      BY <1>12, <2>0, <2>1 DEF Install, Put, Goto, TypeOK
    <3> QED
      BY <1>a, <2>0, <3>1, GoOnRetry DEF Locked
  <2>2. CASE object[proof[p]] # "none"
    <3>1. object[proof[p]] = "intact"
      BY <1>a, <1>c, <2>0, <2>2 DEF SharedInv, TypeOK
    <3>2. Goto(p, "append") /\ UNCHANGED <<dir, from, answer, proof, run>>
      BY <1>12, <2>2, <3>1 DEF Install, Require
    <3>3. pc'[p] = "append"
      BY <3>2 DEF Goto, TypeOK
    <3> QED
      BY <1>a, <2>0, <3>2, <3>3, GoOnRetry DEF Locked
  <2> QED
    BY <2>1, <2>2
<1>13. CASE Reverify(p)
  <2>1. pc[p] = "reverify" /\ object[proof[p]] = "intact"
    BY <1>13, <1>a DEF Reverify, RetryInv
  <2>2. Goto(p, "append") /\ UNCHANGED <<dir, from, answer, proof, run>>
    BY <1>13, <2>1 DEF Reverify, Require
  <2>3. pc'[p] = "append"
    BY <2>2 DEF Goto, TypeOK
  <2> QED
    BY <1>a, <2>1, <2>2, <2>3, GoOnRetry DEF Locked
<1>14. CASE AppendRow(p)
  <2>1. /\ pc[p] = "append" /\ pc'[p] \in {"finish", "fsync"}
        /\ UNCHANGED <<dir, from, answer, proof, run>>
    BY <1>14 DEF AppendRow, Goto, TypeOK
  <2> QED
    BY <1>a, <2>1, GoOnRetry DEF Locked
<1>15. CASE Fsync(p)
  <2>1. /\ pc[p] = "fsync" /\ pc'[p] = "finish"
        /\ UNCHANGED <<dir, from, answer, proof, run>>
    BY <1>15 DEF Fsync, Goto, TypeOK
  <2> QED
    BY <1>a, <2>1, GoOnRetry DEF Locked
<1>16. CASE Finish(p)
  BY <1>16, ReturnRetry DEF Finish
<1>17. CASE ScanObject(p)
  <2>1. pc'[p] = "scan" /\ answer'[p].status = "listed"
    BY <1>17 DEF ScanObject, TypeOK, Answer
  <2> QED
    BY <2>1 DEF RetryInv, Locked
<1>18. CASE ScanDone(p)
  <2>1. pc'[p] = "idle" /\ answer'[p] = answer[p]
    BY <1>18 DEF ScanDone, Return, Goto, TypeOK
  <2> QED
    BY <1>a, <2>1 DEF RetryInv, Locked
<1>19. CASE Kill(p)
  BY <1>19, ReturnRetry DEF Kill
<1>20. CASE WriteFails(p) \/ FsyncFails(p)
  BY <1>20, FaultCounts DEF WriteFails, FsyncFails, OnlyKills
<1> QED
  BY <1>1, <1>2, <1>3, <1>4, <1>5, <1>6, <1>7, <1>8, <1>9, <1>10, <1>11, <1>12, <1>13,
     <1>14, <1>15, <1>16, <1>17, <1>18, <1>19, <1>20 DEF ProcessStep, Advance

LEMMA UndisturbedInit == Init => UndisturbedInv
BY DEF Init, UndisturbedInv, RetryInv, Locked, Say

\* A step of the environment moves no process.
LEMMA EnvironmentStands ==
    ASSUME [Next]_vars, \A p \in Procs : ~ProcessStep(p), ~PowerLoss
    PROVE  UNCHANGED <<rows, tail, synced, named, acked, process>>
<1> USE DEF index, history
<1>1. ASSUME NEW d \in Dirs, Edit(d) PROVE UNCHANGED <<rows, tail, synced, named, acked, process>>
  BY <1>1 DEF Edit, Fault, store
<1>2. ASSUME NEW x \in Proofs, Damage(x) PROVE UNCHANGED <<rows, tail, synced, named, acked, process>>
  BY <1>2 DEF Damage, Fault
<1>3. ASSUME NEW x \in Proofs, WriteBack(x) PROVE UNCHANGED <<rows, tail, synced, named, acked, process>>
  BY <1>3 DEF WriteBack
<1>4. CASE Quiescent \/ UNCHANGED vars
  BY <1>4 DEF Quiescent, vars, store
<1> QED
  BY <1>1, <1>2, <1>3, <1>4 DEF Next, ProcessStep

LEMMA ProcessStepOrNot ==
    ASSUME [Next]_vars
    PROVE  (\E p \in Procs : ProcessStep(p)) \/ PowerLoss \/ \A p \in Procs : ~ProcessStep(p)
OBVIOUS

\* Only the write of a row says which run a proof is of.
LEMMA NamedByAppend ==
    ASSUME NEW p \in Procs, ProcessStep(p), ~AppendRow(p), ~WriteFails(p)
    PROVE  UNCHANGED named
<1> USE DEF index, store, history
<1>1. CASE (\E d \in Dirs : CallImport(p, d) \/ \E x \in Proofs : CallExport(p, x, d)) \/ CallScan(p)
  BY <1>1 DEF CallImport, CallExport, CallScan, Begin
<1>2. CASE Stage(p) \/ Finalize(p) \/ Lock(p) \/ Verify(p) \/ Label(p) \/ Load(p)
  BY <1>2 DEF Stage, Finalize, Lock, Verify, Label, Load
<1>3. CASE Copy(p) \/ Recheck(p) \/ Reverify(p) \/ Fsync(p) \/ Finish(p)
  BY <1>3 DEF Copy, Recheck, Reverify, Fsync, Finish
<1>4. CASE Install(p)
  BY <1>4 DEF Install, Put
<1>5. CASE ScanObject(p) \/ ScanDone(p) \/ Kill(p) \/ FsyncFails(p)
  BY <1>5 DEF ScanObject, ScanDone, Kill, FsyncFails
<1> QED
  BY <1>1, <1>2, <1>3, <1>4, <1>5 DEF ProcessStep, Advance

\* Rows name the runs of their own proofs as long as nobody edits a source.
LEMMA NamedKept ==
    ASSUME TypeOK, StoreInv, OnlyKills', UndisturbedInv, OnlyKills, [Next]_vars
    PROVE  \A x \in Proofs : named'[x] = x
<1> USE DEF index, store, history
<1>0. \A x \in Proofs : named[x] = x
  BY DEF UndisturbedInv
<1>1. ASSUME NEW p \in Procs, AppendRow(p) PROVE \A x \in Proofs : named'[x] = x
  <2>1. run[p] = proof[p]
    BY <1>1 DEF AppendRow, UndisturbedInv, RetryInv, Locked
  <2>2. named' = named \/ named' = [named EXCEPT ![proof[p]] = proof[p]]
    BY <1>1, <2>1 DEF AppendRow, NameRow
  <2> QED
    BY <1>0, <2>2 DEF TypeOK
<1>2. ASSUME NEW p \in Procs, ProcessStep(p), ~AppendRow(p) PROVE UNCHANGED named
  <2>1. ~WriteFails(p)
    BY FaultCounts DEF WriteFails, OnlyKills
  <2> QED
    BY <1>2, <2>1, NamedByAppend
<1>3. ~PowerLoss
  BY FaultCounts DEF PowerLoss, OnlyKills
<1>4. CASE \A p \in Procs : ~ProcessStep(p)
  BY <1>0, <1>3, <1>4, EnvironmentStands
<1> QED
  BY <1>0, <1>1, <1>2, <1>4

\* Exports leave whole proofs.
LEMMA SourcesWhole ==
    ASSUME TypeOK, StoreInv, OnlyKills', UndisturbedInv, OnlyKills, [Next]_vars
    PROVE  \A d \in Dirs : dir'[d] = Missing \/ dir'[d].intact
<1> USE DEF store
<1>1. SourcesStay
  BY SourcesKept DEF OnlyKills
<1>2. ASSUME NEW d \in Dirs, dir[d] # Missing PROVE dir'[d].intact
  BY <1>1, <1>2 DEF SourcesStay, UndisturbedInv
<1>3. ASSUME NEW p \in Procs, Finalize(p), NEW d \in Dirs, dir[d] = Missing
      PROVE  dir'[d] = Missing \/ dir'[d].intact
  <2>1. stage[p].intact
    BY <1>3, WholeIsThere DEF Finalize, UndisturbedInv, RetryInv
  <2>2. dir' = dir \/ dir' = [dir EXCEPT ![from[p]] = stage[p]]
    BY <1>3 DEF Finalize
  <2> QED
    BY <1>3, <2>1, <2>2 DEF TypeOK
<1>4. ASSUME NEW p \in Procs, ProcessStep(p), ~Finalize(p) PROVE UNCHANGED dir
  <2>2. CASE (\E d \in Dirs : CallImport(p, d) \/ \E x \in Proofs : CallExport(p, x, d)) \/ CallScan(p)
    BY <2>2 DEF CallImport, CallExport, CallScan, Begin
  <2>3. CASE Stage(p) \/ AppendRow(p) \/ Lock(p) \/ Verify(p) \/ Label(p) \/ Load(p)
    BY <2>3 DEF Stage, AppendRow, Lock, Verify, Label, Load
  <2>4. CASE Copy(p) \/ Recheck(p) \/ Reverify(p) \/ Fsync(p) \/ Finish(p)
    BY <2>4 DEF Copy, Recheck, Reverify, Fsync, Finish
  <2>5. CASE Install(p)
    BY <2>5 DEF Install, Put
  <2>6. CASE ScanObject(p) \/ ScanDone(p) \/ Kill(p) \/ WriteFails(p) \/ FsyncFails(p)
    BY <2>6 DEF ScanObject, ScanDone, Kill, WriteFails, FsyncFails
  <2> QED
    BY <1>4, <2>2, <2>3, <2>4, <2>5, <2>6 DEF ProcessStep, Advance
<1>5. CASE \A p \in Procs : ~ProcessStep(p)
  <2>1. \A d \in Dirs : ~Edit(d)
    BY FaultCounts DEF Edit, OnlyKills
  <2>2. UNCHANGED dir
    BY <1>5, <2>1 DEF Next, ProcessStep, Damage, WriteBack, PowerLoss, Quiescent, vars
  <2> QED
    BY <2>2 DEF UndisturbedInv
<1>6. ASSUME UNCHANGED dir PROVE \A d \in Dirs : dir'[d] = Missing \/ dir'[d].intact
  BY <1>6 DEF UndisturbedInv
<1> QED
  BY <1>2, <1>3, <1>4, <1>5, <1>6

LEMMA UndisturbedStep == TypeOK /\ StoreInv /\ UndisturbedInv /\ [Next]_vars => UndisturbedInv'
<1> SUFFICES ASSUME TypeOK, StoreInv, UndisturbedInv, [Next]_vars, OnlyKills'
             PROVE  UndisturbedInv'
  BY DEF UndisturbedInv
<1>1. OnlyKills
  BY HappenedGrows DEF OnlyKills
<1>2. (\A x \in Proofs : named[x] = x)'
  BY <1>1, NamedKept
<1>3. (\A d \in Dirs : dir[d] = Missing \/ dir[d].intact)'
  BY <1>1, SourcesWhole DEF Missing
<1>4. SourcesStay /\ ObjectsStay
  BY SourcesKept, ObjectsKept DEF OnlyKills, Undamaged
<1>5. \A q \in Procs : RetryInv(q)
  BY <1>1 DEF UndisturbedInv
<1>6. ASSUME NEW p \in Procs, ProcessStep(p) PROVE \A q \in Procs : RetryInv(q)'
  <2>1. RetryInv(p)'
    BY <1>1, <1>6, RetryStep
  <2>2. ASSUME NEW q \in Procs \ {p} PROVE RetryInv(q)'
    BY <1>4, <1>5, <1>6, OthersStand, RetryFrame
  <2> QED
    BY <2>1, <2>2
<1>7. CASE \A p \in Procs : ~ProcessStep(p)
  <2>1. ~PowerLoss
    BY FaultCounts DEF PowerLoss, OnlyKills
  <2>2. \A q \in Procs : Same(q)
    BY <1>7, <2>1, EnvironmentStands DEF process, Same
  <2> QED
    BY <1>2, <1>3, <1>4, <1>5, <2>2, RetryFrame DEF UndisturbedInv
<1> QED
  BY <1>2, <1>3, <1>6, <1>7 DEF UndisturbedInv

\* A process killed anywhere in an import leaves nothing behind that would make
\* the store refuse what an export left: neither the object it put, nor the row
\* it wrote, nor the name of the run in it.
THEOREM KillsRefuseNothing == Spec => []OnlyDisturbedIsRefused
<1>1. UndisturbedInv => OnlyDisturbedIsRefused
  BY DEF UndisturbedInv, OnlyKills, RetryInv, OnlyDisturbedIsRefused
<1> QED
  BY <1>1, TypeAndStore, UndisturbedInit, UndisturbedStep, PTL DEF Spec
-----------------------------------------------------------------------------
(* A scan shows what was reported before it *)

Misnamed == {x \in Proofs : named[x] # x}

\* What the scan of p has shown so far, and what it has yet to look at, covers
\* what it owes.
ScanInv(p) ==
    answer[p].status = "listed" /\ pc[p] \in {"idle", "scan"} =>
        /\ owed[p] \cup answer[p].healthy \cup answer[p].corrupt \subseteq ToSet(rows)
        /\ answer[p].corrupt \subseteq Misnamed
        /\ pc[p] = "idle" => owed[p] \subseteq answer[p].healthy \cup Misnamed
        /\ pc[p] = "scan" =>
              /\ seen[p] \subseteq ToSet(rows)
              /\ owed[p] \subseteq answer[p].healthy \cup Misnamed \cup seen[p]

ShownInv == Calm => acked \subseteq ToSet(rows) /\ \A p \in Procs : ScanInv(p)

LEMMA ShownInit == Init => ShownInv
BY DEF Init, ShownInv, ScanInv, Say

\* In a calm store rows stay, and name what they named.
RowsStay == /\ ToSet(rows) \subseteq ToSet(rows')
            /\ \A x \in ToSet(rows) : named'[x] = named[x]

LEMMA RowsKept ==
    ASSUME TypeOK, StoreInv, Calm, Calm', [Next]_vars
    PROVE  RowsStay
<1> USE DEF RowsStay
<1>1. ASSUME NEW p \in Procs, AppendRow(p) PROVE RowsStay
  <2>1. ToSet(rows) \subseteq ToSet(rows')
    BY <1>1, AppendLists
  <2>2. seen[p] = ToSet(rows) /\ proof[p] \in Proofs
    BY <1>1 DEF AppendRow, StoreInv, ProcInv, Relies
  <2>3. CASE proof[p] \in seen[p]
    BY <1>1, <2>1, <2>3 DEF AppendRow
  <2>4. CASE proof[p] \notin seen[p]
    <3>1. named' = [named EXCEPT ![proof[p]] = run[p]]
      BY <1>1, <2>4 DEF AppendRow, NameRow
    <3>2. \A x \in ToSet(rows) : x # proof[p] /\ x \in Proofs
      BY <2>2, <2>4 DEF ToSet, TypeOK
    <3> QED
      BY <2>1, <3>1, <3>2 DEF TypeOK
  <2> QED
    BY <2>3, <2>4
<1>2. ASSUME NEW p \in Procs, Finish(p) PROVE RowsStay
  <2>1. UNCHANGED rows /\ UNCHANGED named
    BY <1>2 DEF Finish, store, index
  <2> QED
    BY <2>1 DEF ToSet
<1>3. CASE \A p \in Procs : ~AppendRow(p) /\ ~Finish(p)
  <2>1. UNCHANGED rows
    BY <1>3, CalmMeans, QuietStep DEF Quiet
  <2>2. UNCHANGED named
    <3>1. ~PowerLoss /\ \A p \in Procs : ~WriteFails(p)
      BY CalmMeans
    <3> QED
      BY <1>3, <3>1, NamedByAppend, EnvironmentStands
  <2> QED
    BY <2>1, <2>2 DEF ToSet
<1> QED
  BY <1>1, <1>2, <1>3

\* Nothing a scan showed is unsaid by what others do.
LEMMA ScanFrame ==
    ASSUME TypeOK, NEW q \in Procs, ScanInv(q), Same(q), RowsStay
    PROVE  ScanInv(q)'
<1> SUFFICES ASSUME answer'[q].status = "listed", pc'[q] \in {"idle", "scan"}
             PROVE  ScanInv(q)'
  BY DEF ScanInv
<1>1. /\ owed[q] \cup answer[q].healthy \cup answer[q].corrupt \subseteq ToSet(rows)
      /\ answer[q].corrupt \subseteq Misnamed
      /\ pc[q] = "idle" => owed[q] \subseteq answer[q].healthy \cup Misnamed
      /\ pc[q] = "scan" =>
            /\ seen[q] \subseteq ToSet(rows)
            /\ owed[q] \subseteq answer[q].healthy \cup Misnamed \cup seen[q]
  BY DEF ScanInv, Same
<1>2. ToSet(rows) \cap Misnamed = ToSet(rows) \cap Misnamed'
  BY DEF RowsStay, Misnamed
<1>3. ToSet(rows) \subseteq ToSet(rows)'
  BY DEF RowsStay, ToSet
<1> HIDE DEF Misnamed
<1> QED
  BY <1>1, <1>2, <1>3 DEF ScanInv, Same

\* A step that is not of a scan leaves p busy, or with another answer.
LEMMA NoScanStep ==
    ASSUME TypeOK, NEW p \in Procs, ProcessStep(p),
           ~CallScan(p), ~ScanObject(p), ~ScanDone(p)
    PROVE  pc'[p] \notin {"idle", "scan"} \/ answer'[p].status # "listed"
<1>a. ASSUME NEW status \in {"none", "ok", "refused", "exported", "unexported", "error"},
             Return(p, Say(status))
      PROVE  answer'[p].status # "listed"
  BY <1>a DEF Return, Say, TypeOK
<1>1. ASSUME NEW d \in Dirs, CallImport(p, d) \/ \E x \in Proofs : CallExport(p, x, d)
      PROVE  pc'[p] \notin {"idle", "scan"}
  BY <1>1 DEF CallImport, CallExport, Begin, Goto, TypeOK
<1>2. CASE Stage(p)
  <2>1. CASE Return(p, Say("unexported"))
    BY <1>a, <2>1
  <2>2. CASE ~Return(p, Say("unexported"))
    BY <1>2, <2>2 DEF Stage, Goto, TypeOK
  <2> QED
    BY <2>1, <2>2
<1>3. CASE Finalize(p)
  BY <1>a, <1>3 DEF Finalize
<1>4. CASE Lock(p) \/ Copy(p) \/ Fsync(p)
  BY <1>4 DEF Lock, Copy, Fsync, Goto, TypeOK
<1>5. ASSUME NEW label \in {"label", "load", "copy", "install", "append"},
             Goto(p, label) \/ Return(p, Say("refused"))
      PROVE  pc'[p] \notin {"idle", "scan"} \/ answer'[p].status # "listed"
  BY <1>a, <1>5 DEF Goto, TypeOK
<1>6. CASE Verify(p) \/ Label(p) \/ Load(p)
  BY <1>5, <1>6 DEF Verify, Label, Load, Require
<1>7. CASE Recheck(p) \/ Reverify(p)
  BY <1>5, <1>7 DEF Recheck, Reverify, Require
<1>8. CASE Install(p)
  <2>1. CASE Put(p)
    BY <2>1 DEF Put, Goto, TypeOK
  <2>2. CASE ~Put(p)
    BY <1>5, <1>8, <2>2 DEF Install, Require
  <2> QED
    BY <2>1, <2>2
<1>9. CASE AppendRow(p)
  BY <1>9 DEF AppendRow, Goto, TypeOK
<1>10. CASE Finish(p)
  BY <1>a, <1>10 DEF Finish
<1>11. CASE Kill(p) \/ WriteFails(p) \/ FsyncFails(p)
  BY <1>a, <1>11 DEF Kill, WriteFails, FsyncFails
<1> QED
  BY <1>1, <1>2, <1>3, <1>4, <1>6, <1>7, <1>8, <1>9, <1>10, <1>11 DEF ProcessStep, Advance

\* Each step of a scan looks at a listed object, which a calm store has intact.
LEMMA ScanStep ==
    ASSUME TypeOK, StoreInv, Calm, Calm', ShownInv, NEW p \in Procs, ProcessStep(p)
    PROVE  ScanInv(p)'
<1> USE DEF process, store, index, history
<1>a. /\ ScanInv(p) /\ acked \subseteq ToSet(rows)
      /\ \A x \in ToSet(rows) : object[x] = "intact"
      /\ tail = "clean" /\ IsInjective(rows)
  BY RetainedIsListed DEF ShownInv, Retained, StoreInv, SharedInv
<1>1. CASE CallScan(p)
  <2>1. /\ UNCHANGED rows /\ pc'[p] = "scan" /\ seen'[p] = ToSet(rows)
        /\ owed'[p] = acked /\ answer'[p].healthy = {} /\ answer'[p].corrupt = {}
    BY <1>1 DEF CallScan, Begin, Goto, Say, TypeOK
  <2>2. ToSet(rows)' = ToSet(rows)
    BY <2>1 DEF ToSet
  <2> QED
    BY <1>a, <2>1, <2>2 DEF ScanInv
<1>2. CASE ScanObject(p)
  <2>1. PICK x \in seen[p] :
           /\ seen' = [seen EXCEPT ![p] = @ \ {x}]
           /\ answer' = IF object[x] = "intact" /\ named[x] = x
                        THEN [answer EXCEPT ![p].healthy = @ \cup {x}]
                        ELSE [answer EXCEPT ![p].corrupt = @ \cup {x}]
    BY <1>2 DEF ScanObject
  <2>2. /\ pc[p] = "scan" /\ answer[p].status = "listed"
        /\ UNCHANGED <<rows, named, pc, owed>>
    BY <1>2 DEF ScanObject
  <2>3. /\ owed[p] \cup answer[p].healthy \cup answer[p].corrupt \subseteq ToSet(rows)
        /\ answer[p].corrupt \subseteq Misnamed
        /\ seen[p] \subseteq ToSet(rows)
        /\ owed[p] \subseteq answer[p].healthy \cup Misnamed \cup seen[p]
    BY <1>a, <2>2 DEF ScanInv
  <2>4. ToSet(rows)' = ToSet(rows) /\ Misnamed' = Misnamed
    BY <2>2 DEF ToSet, Misnamed
  <2>5. object[x] = "intact" /\ x \in Proofs /\ seen'[p] = seen[p] \ {x}
    BY <1>a, <2>1, <2>3 DEF TypeOK
  <2>6. answer[p] \in Answer /\ p \in DOMAIN answer
    BY DEF TypeOK
  <2>7. CASE named[x] = x
    <3>1. /\ answer'[p].healthy = answer[p].healthy \cup {x}
          /\ answer'[p].corrupt = answer[p].corrupt
      BY <2>1, <2>5, <2>6, <2>7 DEF Answer
    <3> HIDE DEF Misnamed
    <3> QED
      BY <2>1, <2>2, <2>3, <2>4, <2>5, <3>1 DEF ScanInv
  <2>8. CASE named[x] # x
    <3>1. /\ answer'[p].healthy = answer[p].healthy
          /\ answer'[p].corrupt = answer[p].corrupt \cup {x}
      BY <2>1, <2>5, <2>6, <2>8 DEF Answer
    <3>2. x \in Misnamed
      BY <2>5, <2>8 DEF Misnamed
    <3> HIDE DEF Misnamed
    <3> QED
      BY <2>1, <2>2, <2>3, <2>4, <2>5, <3>1, <3>2 DEF ScanInv
  <2> QED
    BY <2>7, <2>8
<1>3. CASE ScanDone(p)
  <2>1. /\ pc[p] = "scan" /\ pc'[p] = "idle" /\ answer'[p] = answer[p]
        /\ answer[p].status = "error" \/ seen[p] = {}
        /\ UNCHANGED <<rows, named, owed, seen>>
    BY <1>3 DEF ScanDone, Return, Goto, TypeOK
  <2>2. ToSet(rows)' = ToSet(rows) /\ Misnamed' = Misnamed
    BY <2>1 DEF ToSet, Misnamed
  <2> HIDE DEF Misnamed
  <2> QED
    BY <1>a, <2>1, <2>2 DEF ScanInv
<1>4. CASE ~CallScan(p) /\ ~ScanObject(p) /\ ~ScanDone(p)
  BY <1>4, NoScanStep DEF ScanInv
<1> QED
  BY <1>1, <1>2, <1>3, <1>4

LEMMA ShownStep == TypeOK /\ StoreInv /\ ListedInv /\ ShownInv /\ [Next]_vars => ShownInv'
<1> SUFFICES ASSUME TypeOK, StoreInv, ListedInv, ShownInv, [Next]_vars, Calm'
             PROVE  (acked \subseteq ToSet(rows))' /\ \A p \in Procs : ScanInv(p)'
  BY DEF ShownInv
<1>1. Calm
  BY HappenedGrows DEF Calm
<1>2. RowsStay /\ \A q \in Procs : ScanInv(q)
  BY <1>1, RowsKept DEF ShownInv
<1>3. acked' \subseteq ToSet(rows)'
  <2>1. ASSUME NEW p \in Procs, AppendRow(p) PROVE UNCHANGED acked
    BY <2>1, AppendLists
  <2>2. ASSUME NEW p \in Procs, Finish(p)
        PROVE  acked' = acked \cup {proof[p]} /\ proof[p] \in ToSet(rows)
    BY <1>1, <2>2, FinishReports DEF ListedInv, Calm, NoPower
  <2>3. ASSUME \A p \in Procs : ~AppendRow(p) /\ ~Finish(p) PROVE UNCHANGED acked
    BY <2>3, CalmMeans, QuietStep DEF Quiet
  <2>4. acked \subseteq ToSet(rows) /\ ToSet(rows) \subseteq ToSet(rows)'
    BY <1>1, <1>2 DEF ShownInv, RowsStay, ToSet
  <2> QED
    BY <2>1, <2>2, <2>3, <2>4
<1>4. ASSUME NEW p \in Procs, ProcessStep(p) PROVE \A q \in Procs : ScanInv(q)'
  <2>1. ScanInv(p)'
    BY <1>1, <1>4, ScanStep
  <2>2. ASSUME NEW q \in Procs \ {p} PROVE ScanInv(q)'
    BY <1>2, <1>4, OthersStand, ScanFrame
  <2> QED
    BY <2>1, <2>2
<1>5. ASSUME \A p \in Procs : ~ProcessStep(p) PROVE \A q \in Procs : ScanInv(q)'
  <2>1. ~PowerLoss
    BY FaultCounts DEF PowerLoss, Calm
  <2>2. \A q \in Procs : Same(q)
    BY <1>5, <2>1, EnvironmentStands DEF process, Same
  <2> QED
    BY <1>2, <2>2, ScanFrame
<1> QED
  BY <1>3, <1>4, <1>5

\* However a scan's lock-free reads fall among imports, kills and edits, it shows
\* every proof reported before it began, and as corrupt only a misnamed one.
THEOREM ScansShowAcked == Spec => []ScanShowsAcked
<1>1. ShownInv => ScanShowsAcked
  BY DEF ShownInv, ScanInv, ScanShowsAcked, Misnamed, Calm
<1>2. Init => ListedInv
  BY DEF Init, ListedInv
<1> QED
  BY <1>1, <1>2, TypeAndStore, ListedStep, ShownInit, ShownStep, PTL DEF Spec
-----------------------------------------------------------------------------
(* A reported row is durable *)

Steady == happened \cap {"kill", "error"} = {}

\* The rows an fsync has covered.
Durable == {rows[i] : i \in 1..synced}

\* Rows that no fsync covers are there only while their importer is at its fsync.
DurableInv ==
    Steady =>
        /\ synced <= Len(rows)
        /\ acked \subseteq Durable
        /\ (\A p \in Procs : pc[p] # "fsync") => synced = Len(rows)
        /\ \A p \in Procs : pc[p] = "fsync" => proof[p] \in ToSet(rows)
        /\ \A p \in Procs : pc[p] = "finish" => proof[p] \in Durable

LEMMA DurableInit == Init => DurableInv
BY DEF Init, DurableInv

LEMMA DurableIsListed ==
    ASSUME TypeOK, synced <= Len(rows)
    PROVE  Durable \subseteq ToSet(rows) /\ (synced = Len(rows) => Durable = ToSet(rows))
<1>1. DOMAIN rows = 1..Len(rows) /\ Len(rows) \in Nat /\ synced \in Nat
  BY DEF TypeOK
<1>2. \A i \in 1..synced : i \in 1..Len(rows)
  BY <1>1
<1>3. Durable \subseteq ToSet(rows)
  BY <1>1, <1>2 DEF Durable, ToSet
<1>4. ASSUME synced = Len(rows) PROVE Durable = ToSet(rows)
  BY <1>1, <1>4 DEF Durable, ToSet
<1> QED
  BY <1>3, <1>4

\* Whoever is not about to write, fsync or report a row leaves the index alone.
LEMMA ElsewhereStep ==
    ASSUME TypeOK, NEW p \in Procs, ProcessStep(p), ~AppendRow(p), ~Fsync(p), ~Finish(p),
           ~Kill(p), ~WriteFails(p), ~FsyncFails(p)
    PROVE  /\ UNCHANGED <<rows, tail, synced, acked>>
           /\ pc[p] \notin {"fsync", "finish"} /\ pc'[p] \notin {"fsync", "finish"}
<1> DEFINE Elsewhere == /\ UNCHANGED <<rows, tail, synced, acked>>
                        /\ pc[p] \notin {"fsync", "finish"}
                        /\ pc'[p] \notin {"fsync", "finish"}
<1> USE DEF index, store, history
<1>1. ASSUME NEW d \in Dirs, CallImport(p, d) \/ \E x \in Proofs : CallExport(p, x, d)
      PROVE  Elsewhere
  BY <1>1 DEF CallImport, CallExport, Begin, Goto, TypeOK
<1>2. CASE CallScan(p)
  BY <1>2 DEF CallScan, Begin, Goto, TypeOK
<1>3. CASE Stage(p)
  BY <1>3 DEF Stage, Return, Goto, TypeOK
<1>4. CASE Finalize(p)
  BY <1>4 DEF Finalize, Return, Goto, TypeOK
<1>5. CASE Lock(p) \/ Copy(p)
  BY <1>5 DEF Lock, Copy, Goto, TypeOK
<1>6. CASE Verify(p)
  BY <1>6 DEF Verify, Require, Return, Goto, TypeOK
<1>7. CASE Label(p)
  BY <1>7 DEF Label, Require, Return, Goto, TypeOK
<1>8. CASE Load(p)
  BY <1>8 DEF Load, Require, Return, Goto, TypeOK
<1>9. CASE Recheck(p)
  BY <1>9 DEF Recheck, Require, Return, Goto, TypeOK
<1>10. CASE Install(p)
  <2>1. CASE Put(p)
    BY <1>10, <2>1 DEF Install, Put, Goto, TypeOK
  <2>2. CASE ~Put(p)
    BY <1>10, <2>2 DEF Install, Require, Return, Goto, TypeOK
  <2> QED
    BY <2>1, <2>2
<1>11. CASE Reverify(p)
  BY <1>11 DEF Reverify, Require, Return, Goto, TypeOK
<1>12. CASE ScanObject(p)
  BY <1>12 DEF ScanObject
<1>13. CASE ScanDone(p)
  BY <1>13 DEF ScanDone, Return, Goto, TypeOK
<1> QED
  BY <1>1, <1>2, <1>3, <1>4, <1>5, <1>6, <1>7, <1>8, <1>9, <1>10, <1>11, <1>12, <1>13
     DEF ProcessStep, Advance

\* A step that leaves the index alone leaves it durable.
LEMMA DurableFrame ==
    ASSUME DurableInv, Steady, UNCHANGED <<rows, tail, synced, acked>>,
           \A q \in Procs : /\ pc'[q] = "fsync" <=> pc[q] = "fsync"
                            /\ pc'[q] = "finish" => pc[q] = "finish"
                            /\ pc'[q] \in {"fsync", "finish"} => proof'[q] = proof[q]
    PROVE  DurableInv'
<1>1. ToSet(rows)' = ToSet(rows) /\ Durable' = Durable
  BY DEF ToSet, Durable
<1> HIDE DEF Durable
<1> QED
  BY <1>1 DEF DurableInv

LEMMA DurableStep == TypeOK /\ StoreInv /\ DurableInv /\ [Next]_vars => DurableInv'
<1> SUFFICES ASSUME TypeOK, StoreInv, DurableInv, [Next]_vars, Steady' PROVE DurableInv'
  BY DEF DurableInv
<1> USE DEF index, store, process, history
<1>a. Steady
  BY HappenedGrows DEF Steady
<1>b. /\ synced <= Len(rows) /\ acked \subseteq Durable
      /\ (\A p \in Procs : pc[p] # "fsync") => synced = Len(rows)
      /\ \A p \in Procs : pc[p] = "fsync" => proof[p] \in ToSet(rows)
      /\ \A p \in Procs : pc[p] = "finish" => proof[p] \in Durable
  BY <1>a DEF DurableInv
<1>c. /\ DOMAIN rows = 1..Len(rows) /\ Len(rows) \in Nat /\ synced \in Nat
  BY DEF TypeOK
<1>d. ASSUME NEW p \in Procs, pc[p] \in Locked
      PROVE  \A q \in Procs \ {p} : pc[q] \notin Locked
  BY <1>d DEF TypeOK, LockHeld
<1>1. ASSUME NEW p \in Procs, AppendRow(p) PROVE DurableInv'
  <2>1. /\ pc[p] = "append" /\ seen[p] = ToSet(rows) /\ proof[p] \in Proofs
    BY <1>1 DEF AppendRow, StoreInv, ProcInv, Relies
  <2>2. \A q \in Procs \ {p} : pc[q] \notin {"fsync", "finish"} /\ pc'[q] = pc[q]
    BY <1>1, <1>d, <2>1 DEF Locked, AppendRow, Goto, TypeOK
  <2>3. synced = Len(rows) /\ Durable = ToSet(rows)
    BY <1>b, <2>1, <2>2, DurableIsListed
  <2>4. UNCHANGED <<synced, acked, proof>>
    BY <1>1 DEF AppendRow
  <2>5. CASE proof[p] \in seen[p]
    <3>1. pc'[p] = "finish" /\ UNCHANGED <<rows, tail>>
      BY <1>1, <2>5 DEF AppendRow, Goto, TypeOK
    <3>2. ToSet(rows)' = ToSet(rows) /\ Durable' = Durable
      BY <2>4, <3>1 DEF ToSet, Durable
    <3> HIDE DEF Durable
    <3> QED
      BY <1>b, <2>1, <2>2, <2>3, <2>4, <2>5, <3>1, <3>2 DEF DurableInv
  <2>6. CASE proof[p] \notin seen[p]
    <3>1. pc'[p] = "fsync" /\ rows' = Append(rows, proof[p])
      BY <1>1, <2>1, <2>6 DEF AppendRow, WriteRow, Goto, TypeOK
    <3>2. /\ Len(rows') = Len(rows) + 1 /\ DOMAIN rows' = 1..(Len(rows) + 1)
          /\ \A i \in 1..Len(rows) : rows'[i] = rows[i]
          /\ rows'[Len(rows) + 1] = proof[p]
      BY <2>1, <3>1 DEF TypeOK
    <3>3. proof'[p] \in ToSet(rows)'
      BY <1>c, <2>4, <3>2 DEF ToSet
    <3>4. Durable' = Durable
      BY <1>c, <2>3, <2>4, <3>2 DEF Durable
    <3>5. synced' <= Len(rows')
      BY <1>c, <2>3, <2>4, <3>2
    <3> HIDE DEF Durable
    <3> QED
      BY <1>b, <2>2, <2>4, <3>1, <3>3, <3>4, <3>5 DEF DurableInv
  <2> QED
    BY <2>5, <2>6
<1>2. ASSUME NEW p \in Procs, Fsync(p) PROVE DurableInv'
  <2>1. /\ pc[p] = "fsync" /\ pc'[p] = "finish" /\ synced' = Len(rows)
        /\ UNCHANGED <<rows, tail, acked, proof>>
        /\ \A q \in Procs \ {p} : pc'[q] = pc[q]
    BY <1>2 DEF Fsync, Goto, TypeOK
  <2>2. \A q \in Procs \ {p} : pc[q] \notin {"fsync", "finish"}
    BY <1>d, <2>1 DEF Locked
  <2>3. ToSet(rows)' = ToSet(rows) /\ Durable' = ToSet(rows)
    BY <1>c, <2>1 DEF ToSet, Durable
  <2>4. acked \subseteq ToSet(rows)
    BY <1>b, DurableIsListed
  <2>5. synced' <= Len(rows')
    BY <1>c, <2>1
  <2> HIDE DEF Durable
  <2> QED
    BY <1>b, <2>1, <2>2, <2>3, <2>4, <2>5 DEF DurableInv
<1>3. ASSUME NEW p \in Procs, Finish(p) PROVE DurableInv'
  <2>1. /\ pc[p] = "finish" /\ pc'[p] = "idle" /\ acked' = acked \cup {proof[p]}
        /\ UNCHANGED <<rows, tail, synced, proof>>
        /\ \A q \in Procs \ {p} : pc'[q] = pc[q]
    BY <1>3 DEF Finish, Return, Goto, TypeOK
  <2>2. \A q \in Procs \ {p} : pc[q] \notin {"fsync", "finish"}
    BY <1>d, <2>1 DEF Locked
  <2>3. ToSet(rows)' = ToSet(rows) /\ Durable' = Durable
    BY <2>1 DEF ToSet, Durable
  <2> HIDE DEF Durable
  <2> QED
    BY <1>b, <2>1, <2>2, <2>3 DEF DurableInv
<1>4. CASE PowerLoss
  <2>1. /\ synced' = Len(rows') /\ \A q \in Procs : pc'[q] = "idle"
        /\ UNCHANGED acked
    BY <1>4 DEF PowerLoss, Fault
  <2>2. PICK n \in 0..Len(rows) : /\ rows' = SubSeq(rows, 1, n)
                                  /\ synced <= Len(rows) => synced <= n
    BY <1>4, PowerLossCuts
  <2>a. synced <= Len(rows) /\ Len(rows) \in Nat
    BY <1>b, <1>c
  <2>3. n \in Nat /\ synced <= n /\ n <= Len(rows)
    BY <2>a, <2>2
  <2>4. Len(rows') = n /\ \A i \in 1..n : rows'[i] = rows[i]
    BY <2>2, <2>3 DEF TypeOK
  <2>5. Durable \subseteq Durable'
    BY <1>c, <2>1, <2>3, <2>4 DEF Durable
  <2>6. synced' <= Len(rows')
    BY <2>1, <2>3, <2>4
  <2> HIDE DEF Durable
  <2> QED
    BY <1>b, <2>1, <2>5, <2>6 DEF DurableInv
<1>5. ASSUME NEW p \in Procs, ProcessStep(p), ~AppendRow(p), ~Fsync(p), ~Finish(p)
      PROVE  DurableInv'
  <2>1. ~Kill(p) /\ ~WriteFails(p) /\ ~FsyncFails(p)
    BY FaultCounts DEF Kill, WriteFails, FsyncFails, Steady
  <2>2. /\ UNCHANGED <<rows, tail, synced, acked>>
        /\ pc[p] \notin {"fsync", "finish"} /\ pc'[p] \notin {"fsync", "finish"}
    BY <1>5, <2>1, ElsewhereStep
  <2>3. \A q \in Procs \ {p} : pc'[q] = pc[q] /\ proof'[q] = proof[q]
    BY <1>5, OthersStand DEF Same
  <2> QED
    BY <1>a, <2>2, <2>3, DurableFrame
<1>6. CASE (\A p \in Procs : ~ProcessStep(p)) /\ ~PowerLoss
  <2>1. UNCHANGED <<rows, tail, synced, acked, pc, proof>>
    BY <1>6, EnvironmentStands
  <2> QED
    BY <1>a, <2>1, DurableFrame
<1> QED
  BY <1>1, <1>2, <1>3, <1>4, <1>5, <1>6

\* What was written is listed, or stands in a glued last line.
LEMMA ListedOrGlued ==
    ASSUME TypeOK PROVE ToSet(rows) \subseteq Listed \cup Glued
<1>1. DOMAIN rows = 1..Len(rows) /\ Len(rows) \in Nat
  BY DEF TypeOK
<1>2. ASSUME NEW i \in DOMAIN rows, tail = "glued" PROVE rows[i] \in Listed \cup Glued
  <2>1. i \in 1..(Len(rows) - 2) \/ i \in {Len(rows) - 1, Len(rows)} \cap DOMAIN rows
    BY <1>1
  <2> QED
    BY <1>2, <2>1 DEF Listed, Glued
<1> QED
  BY <1>2 DEF ToSet, Listed

\* Without a power loss no row goes, and without kills and errors the row of every
\* reported import is covered by an fsync, so that no power loss takes it: an
\* import of a listed proof may skip its fsync, because whoever wrote that row has
\* fsynced it under the same flock.
THEOREM AckedIsDurable == Spec => []AckedRowSurvives
<1>1. Init => ListedInv
  BY DEF Init, ListedInv
<1>2. TypeOK /\ StoreInv /\ ListedInv /\ DurableInv => AckedRowSurvives
  <2> SUFFICES ASSUME TypeOK, StoreInv, ListedInv, DurableInv PROVE AckedRowSurvives
    OBVIOUS
  <2>1. ASSUME NoPower PROVE acked \subseteq ToSet(rows)
    BY <2>1 DEF ListedInv
  <2>2. ASSUME Steady PROVE acked \subseteq ToSet(rows)
    BY <2>2, DurableIsListed DEF DurableInv
  <2>3. happened \cap {"error", "power"} = {} => Listed = ToSet(rows)
    BY DEF StoreInv, SharedInv, Listed
  <2> QED
    BY <2>1, <2>2, <2>3, ListedOrGlued DEF AckedRowSurvives, Steady, NoPower
<1> QED
  BY <1>1, <1>2, TypeAndStore, ListedStep, DurableInit, DurableStep, PTL DEF Spec
=============================================================================

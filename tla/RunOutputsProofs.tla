-------------------------- MODULE RunOutputsProofs --------------------------
(***************************************************************************)
(* Proofs about RunOutputs, for any number of runs, trees and evidence     *)
(* paths.  The argument is that O_EXCL makes a marker, or an evidence      *)
(* inode, whose name tells who made it, and that nobody but its maker ever *)
(* unlinks it: a run let through therefore finds its own name where any    *)
(* conflicting run would have had to find none.                            *)
(***************************************************************************)
EXTENDS RunOutputs, TLAPS

LEMMA TypeInit == Init => TypeOK
<1> SUFFICES ASSUME Init PROVE TypeOK
  OBVIOUS
<1> QED
  BY TreeOfIsMap, EvidenceOfIsMap, BoundsAreNat DEF Init, TypeOK, Reserved

\* The places of a run, and the descriptor it holds there.
Places == {"check", "list", "mkdir", "marker", "evidence", "plan_unlink",
           "plan_create", "run", "append", "recheck", "fail",
           "rb_check", "rb_unlink", "rb_release", "rb_abandon", "rb_marker",
           "rb_plan", "rb_rmdir", "done", "failed", "refused", "dead"}

Placed ==
    /\ at \in [Runs -> Places]
    /\ held \subseteq Runs
    /\ \A r \in Runs : r \in held <=> at[r] \in Reserved

\* The rest of TypeOK.
Typed ==
    /\ created \subseteq Runs /\ granted \subseteq Runs /\ exists \subseteq Trees
    /\ marker \in [Trees -> Runs \cup {None}]
    /\ plan \in [Trees -> Runs \cup {None}]
    /\ artifacts \in [Trees -> SUBSET Runs]
    /\ path \in [Evidences -> Runs \cup {None, Foreign}]
    /\ content \in [Runs \cup {Foreign} -> Seq(Runs)]
    /\ faults \in 0..MaxFaults
    /\ broken \subseteq Runs \X Calls

LEMMA TypeParts == TypeOK <=> Placed /\ Typed
  BY DEF TypeOK, Placed, Typed, Places

\* A run that goes to a place opens or closes its own descriptor at most.
LEMMA MoveType ==
    ASSUME Placed, NEW r \in Runs, NEW l \in Places, Goto(r, l),
           held' \in {held, held \cup {r}, held \ {r}},
           r \in held' <=> l \in Reserved
    PROVE  Placed'
<1>1. at' \in [Runs -> Places]
  BY DEF Placed, Goto
<1>2. held' \subseteq Runs
  BY DEF Placed
<1>3. ASSUME NEW q \in Runs PROVE q \in held' <=> at'[q] \in Reserved
  <2>1. CASE q = r
    BY <2>1 DEF Placed, Goto
  <2>2. CASE q # r
    <3>1. at'[q] = at[q]
      BY <2>2 DEF Placed, Goto
    <3>2. q \in held' <=> q \in held
      BY <2>2
    <3> QED
      BY <3>1, <3>2 DEF Placed
  <2> QED
    BY <2>1, <2>2
<1> QED
  BY <1>1, <1>2, <1>3 DEF Placed, Reserved

\* ... and when it keeps the descriptor as it is.
LEMMA StayType ==
    ASSUME Placed, NEW r \in Runs, NEW l \in Places, Goto(r, l), UNCHANGED held,
           at[r] \in Reserved <=> l \in Reserved
    PROVE  Placed'
<1>1. r \in held' <=> l \in Reserved
  BY DEF Placed
<1> QED
  BY <1>1, MoveType

\* Every step of one run leaves its place and its descriptor in step.
LEMMA PlacedStep ==
    ASSUME Placed, NEW r \in Runs, Step(r)
    PROVE  Placed'
<1> USE DEF process
<1>1. CASE CheckTree(r)
  BY <1>1, StayType DEF CheckTree, Places, Reserved
<1>2. CASE ListTree(r)
  <2>1. at[r] = "list" /\ UNCHANGED held /\ (Goto(r, "marker") \/ Goto(r, "refused"))
    BY <1>2 DEF ListTree
  <2> QED
    BY <2>1, StayType DEF Places, Reserved
<1>3. CASE MakeTree(r)
  <2>1. at[r] = "mkdir" /\ UNCHANGED held /\ (Goto(r, "marker") \/ Goto(r, "refused"))
    BY <1>3 DEF MakeTree
  <2> QED
    BY <2>1, StayType DEF Places, Reserved
<1>4. CASE WriteMarker(r)
  <2>1. at[r] = "marker" /\ UNCHANGED held /\ (Goto(r, "evidence") \/ Goto(r, "refused"))
    BY <1>4 DEF WriteMarker
  <2> QED
    BY <2>1, StayType DEF Places, Reserved
<1>5. CASE ClaimEvidence(r)
  <2>1. at[r] = "evidence"
    BY <1>5 DEF ClaimEvidence
  <2>2. \/ held' = held \cup {r} /\ (Goto(r, "plan_unlink") \/ Goto(r, "run"))
        \/ UNCHANGED held /\ (Goto(r, "rb_marker") \/ Goto(r, "refused"))
    BY <1>5 DEF ClaimEvidence, Grant
  <2>3. CASE held' = held \cup {r} /\ (Goto(r, "plan_unlink") \/ Goto(r, "run"))
    BY <2>3, MoveType DEF Places, Reserved
  <2>4. CASE UNCHANGED held /\ (Goto(r, "rb_marker") \/ Goto(r, "refused"))
    BY <2>1, <2>4, StayType DEF Places, Reserved
  <2> QED
    BY <2>2, <2>3, <2>4
<1>6. CASE UnlinkPlan(r)
  <2>1. at[r] = "plan_unlink" /\ UNCHANGED held /\ (Goto(r, "plan_create") \/ Goto(r, "rb_check"))
    BY <1>6 DEF UnlinkPlan
  <2> QED
    BY <2>1, StayType DEF Places, Reserved
<1>7. CASE CreatePlan(r)
  <2>1. /\ at[r] = "plan_create" /\ UNCHANGED held
        /\ Goto(r, "run") \/ Goto(r, "rb_check")
    BY <1>7 DEF CreatePlan, Grant
  <2> QED
    BY <2>1, StayType DEF Places, Reserved
<1>8. CASE RollbackCheck(r)
  <2>1. at[r] = "rb_check" /\ UNCHANGED held /\ (Goto(r, "rb_unlink") \/ Goto(r, "rb_release"))
    BY <1>8 DEF RollbackCheck
  <2> QED
    BY <2>1, StayType DEF Places, Reserved
<1>9. CASE RollbackUnlink(r)
  <2>1. at[r] = "rb_unlink" /\ UNCHANGED held /\ (Goto(r, "rb_release") \/ Goto(r, "rb_abandon"))
    BY <1>9 DEF RollbackUnlink
  <2> QED
    BY <2>1, StayType DEF Places, Reserved
<1>10. CASE RollbackRelease(r)
  <2>1. held' = held \ {r} /\ (Goto(r, "rb_marker") \/ Goto(r, "refused"))
    BY <1>10 DEF RollbackRelease
  <2> QED
    BY <2>1, MoveType DEF Places, Reserved
<1>11. CASE RollbackMarker(r)
  <2>1. at[r] = "rb_marker" /\ UNCHANGED held /\ (Goto(r, "rb_plan") \/ Goto(r, "refused"))
    BY <1>11 DEF RollbackMarker
  <2> QED
    BY <2>1, StayType DEF Places, Reserved
<1>12. CASE RollbackPlan(r)
  <2>1. at[r] = "rb_plan" /\ UNCHANGED held /\ (Goto(r, "rb_rmdir") \/ Goto(r, "refused"))
    BY <1>12 DEF RollbackPlan
  <2> QED
    BY <2>1, StayType DEF Places, Reserved
<1>13. CASE RollbackRmdir(r)
  BY <1>13, StayType DEF RollbackRmdir, Places, Reserved
<1>14. CASE WriteArtifacts(r)
  BY <1>14 DEF WriteArtifacts, Placed, Reserved
<1>15. CASE AppendCheck(r)
  BY <1>15, StayType DEF AppendCheck, Places, Reserved
<1>16. CASE AppendWrite(r)
  <2>1. /\ at[r] = "append" /\ UNCHANGED held
        /\ Goto(r, "recheck") \/ Goto(r, "fail")
    BY <1>16 DEF AppendWrite
  <2> QED
    BY <2>1, StayType DEF Places, Reserved
<1>17. CASE AppendRecheck(r)
  BY <1>17, StayType DEF AppendRecheck, Places, Reserved
<1>18. CASE Abort(r)
  BY <1>18, StayType DEF Abort, Places, Reserved
<1>19. CASE Release(r)
  <2>1. held' = held \ {r} /\ (Goto(r, "done") \/ Goto(r, "failed"))
    BY <1>19 DEF Release
  <2> QED
    BY <2>1, MoveType DEF Places, Reserved
<1>20. CASE Kill(r)
  BY <1>20, MoveType DEF Kill, Places, Reserved
<1> QED
  BY <1>1, <1>2, <1>3, <1>4, <1>5, <1>6, <1>7, <1>8, <1>9, <1>10, <1>11, <1>12,
     <1>13, <1>14, <1>15, <1>16, <1>17, <1>18, <1>19, <1>20 DEF Step, Rollback

\* ... and every other variable typed.
LEMMA TypedStep ==
    ASSUME Typed, NEW r \in Runs, Step(r)
    PROVE  Typed'
<1> USE DEF Typed, tree, file
<1>0. TreeOf[r] \in Trees /\ EvidenceOf[r] \in Evidences
  BY TreeOfIsMap, EvidenceOfIsMap
<1>b. broken' \subseteq Runs \X Calls
  <2>1. UNCHANGED broken \/ \E c \in Calls : Breaks(r, c)
    BY DEF Calls, Step, Rollback, CheckTree, ListTree, MakeTree, WriteMarker,
           ClaimEvidence, UnlinkPlan, CreatePlan, RollbackCheck, RollbackUnlink,
           RollbackRelease, RollbackMarker, RollbackPlan, RollbackRmdir,
           WriteArtifacts, AppendCheck, AppendWrite, AppendRecheck, Abort, Release, Kill
  <2> QED
    BY <2>1 DEF Breaks
<1>1. CASE CheckTree(r) \/ ListTree(r)
  BY <1>b, <1>1 DEF CheckTree, ListTree
<1>2. CASE MakeTree(r)
  <2>1. created' \subseteq Runs /\ exists' \subseteq Trees
    BY <1>0, <1>2 DEF MakeTree
  <2> QED
    BY <1>b, <1>2, <2>1 DEF MakeTree
<1>3. CASE WriteMarker(r)
  <2>1. marker' \in [Trees -> Runs \cup {None}]
    BY <1>0, <1>3 DEF WriteMarker
  <2> QED
    BY <1>b, <1>3, <2>1 DEF WriteMarker
<1>4. CASE ClaimEvidence(r)
  <2>1. path' \in [Evidences -> Runs \cup {None, Foreign}]
    BY <1>0, <1>4 DEF ClaimEvidence
  <2>2. granted' \subseteq Runs
    BY <1>4 DEF ClaimEvidence, Grant
  <2>3. UNCHANGED <<created, tree, content, faults>>
    BY <1>4 DEF ClaimEvidence
  <2> QED
    BY <1>b, <2>1, <2>2, <2>3
<1>5. CASE UnlinkPlan(r)
  <2>1. plan' \in [Trees -> Runs \cup {None}]
    BY <1>0, <1>5 DEF UnlinkPlan
  <2> QED
    BY <1>b, <1>5, <2>1 DEF UnlinkPlan
<1>6. CASE CreatePlan(r)
  <2>1. plan' \in [Trees -> Runs \cup {None}]
    BY <1>0, <1>6 DEF CreatePlan
  <2>2. granted' \subseteq Runs
    BY <1>6 DEF CreatePlan, Grant
  <2>3. UNCHANGED <<created, held, exists, marker, artifacts, file, faults>>
    BY <1>6 DEF CreatePlan
  <2> QED
    BY <1>b, <2>1, <2>2, <2>3
<1>7. CASE RollbackCheck(r) \/ RollbackRelease(r)
  BY <1>b, <1>7 DEF RollbackCheck, RollbackRelease
<1>8. CASE RollbackUnlink(r)
  <2>1. path' \in [Evidences -> Runs \cup {None, Foreign}]
    BY <1>0, <1>8 DEF RollbackUnlink
  <2> QED
    BY <1>b, <1>8, <2>1 DEF RollbackUnlink
<1>9. CASE RollbackMarker(r)
  <2>1. marker' \in [Trees -> Runs \cup {None}]
    BY <1>0, <1>9 DEF RollbackMarker
  <2> QED
    BY <1>b, <1>9, <2>1 DEF RollbackMarker
<1>10. CASE RollbackPlan(r)
  <2>1. plan' \in [Trees -> Runs \cup {None}]
    BY <1>0, <1>10 DEF RollbackPlan
  <2> QED
    BY <1>b, <1>10, <2>1 DEF RollbackPlan
<1>11. CASE RollbackRmdir(r)
  <2>1. exists' \subseteq Trees
    BY <1>11 DEF RollbackRmdir
  <2> QED
    BY <1>b, <1>11, <2>1 DEF RollbackRmdir
<1>12. CASE WriteArtifacts(r)
  <2>1. artifacts' \in [Trees -> SUBSET Runs]
    BY <1>0, <1>12 DEF WriteArtifacts
  <2> QED
    BY <1>b, <1>12, <2>1 DEF WriteArtifacts, process
<1>13. CASE AppendWrite(r)
  <2>1. Append(content[r], r) \in Seq(Runs)
    OBVIOUS
  <2>2. content' \in [Runs \cup {Foreign} -> Seq(Runs)]
    BY <1>13, <2>1 DEF AppendWrite
  <2> QED
    BY <1>b, <1>13, <2>2 DEF AppendWrite
<1>14. CASE AppendCheck(r) \/ AppendRecheck(r) \/ Abort(r)
  BY <1>b, <1>14 DEF AppendCheck, AppendRecheck, Abort
<1>15. CASE Release(r) \/ Kill(r)
  BY <1>b, <1>15 DEF Release, Kill
<1> QED
  BY <1>1, <1>2, <1>3, <1>4, <1>5, <1>6, <1>7, <1>8, <1>9, <1>10, <1>11, <1>12,
     <1>13, <1>14, <1>15 DEF Step, Rollback

\* Every step of one run leaves the types as they are.
LEMMA TypeStep ==
    ASSUME TypeOK, NEW r \in Runs, Step(r)
    PROVE  TypeOK'
<1>1. Placed' /\ Typed'
  BY TypeParts, PlacedStep, TypedStep
<1> QED
  BY <1>1 DEF TypeOK, Placed, Typed, Places

LEMMA TypeNext == TypeOK /\ [Next]_vars => TypeOK'
<1> SUFFICES ASSUME TypeOK, [Next]_vars PROVE TypeOK'
  OBVIOUS
<1>1. CASE \E r \in Runs : Step(r)
  BY <1>1, TypeStep
<1>2. ASSUME NEW e \in Evidences, MoveEvidence(e) PROVE TypeOK'
  BY <1>2, BoundsAreNat DEF MoveEvidence, TypeOK, process, tree
<1>3. CASE AllEnded \/ UNCHANGED vars
  BY <1>3 DEF AllEnded, vars, process, tree, file, TypeOK
<1> QED
  BY <1>1, <1>2, <1>3 DEF Next

\* Types are respected and no way out of a run leaves its descriptor open.
THEOREM TypeCorrect == Spec => []TypeOK
<1> QED
  BY TypeInit, TypeNext, PTL DEF Spec

-----------------------------------------------------------------------------
(* Artifacts trees *)

LEMMA TreeInit == Init => TreeInv
<1> QED
  BY TreeOfIsMap DEF Init, TreeInv, Claimed, Underway

\* What a step of another run does to a tree cannot touch a claim on it.
LEMMA OthersKeepClaim ==
    ASSUME TypeOK, TreeInv, NEW r \in Runs, NEW q \in Runs, q # r, Step(q),
           at[r] \in Claimed \/ r \in granted
    PROVE  marker'[TreeOf[r]] = r /\ TreeOf[r] \in exists'
<1>1. marker[TreeOf[r]] = r /\ TreeOf[r] \in exists
  BY DEF TreeInv
<1>2. TreeOf[r] \in Trees /\ TreeOf[q] \in Trees /\ r # None
  BY TreeOfIsMap, NobodyIsNoRun
<1>3. CASE MakeTree(q)
  BY <1>1, <1>3 DEF MakeTree
<1>4. CASE WriteMarker(q)
  <2>1. TreeOf[q] = TreeOf[r] => marker' = marker
    BY <1>1, <1>2, <1>4 DEF WriteMarker
  <2>2. TreeOf[q] # TreeOf[r] => marker'[TreeOf[r]] = marker[TreeOf[r]]
    BY <1>2, <1>4 DEF WriteMarker, TypeOK
  <2> QED
    BY <1>1, <1>4, <2>1, <2>2 DEF WriteMarker
<1>5. CASE RollbackMarker(q)
  <2>1. TreeOf[q] # TreeOf[r]
    BY <1>1, <1>5 DEF RollbackMarker, TreeInv, Claimed
  <2> QED
    BY <1>1, <1>2, <1>5, <2>1 DEF RollbackMarker, TypeOK
<1>6. CASE RollbackRmdir(q)
  BY <1>1, <1>2, <1>6 DEF RollbackRmdir
<1>7. CASE UNCHANGED <<marker, exists>>
  BY <1>1, <1>7
<1> QED
  BY <1>3, <1>4, <1>5, <1>6, <1>7
  DEF Step, Rollback, tree, CheckTree, ListTree, ClaimEvidence, UnlinkPlan,
      CreatePlan, RollbackCheck, RollbackUnlink, RollbackRelease, RollbackPlan,
      WriteArtifacts, AppendCheck, AppendWrite, AppendRecheck, Abort, Release, Kill

\* How a step moves the run that takes it: a claim is made by the marker and
\* ended by a rollback or a kill, and nobody but the claim itself grants it.
LEMMA OwnStep ==
    ASSUME TypeOK, NEW r \in Runs, Step(r)
    PROVE  /\ \A q \in Runs \ {r} : at'[q] = at[q]
           /\ at'[r] \in Claimed => at[r] \in Claimed \/ WriteMarker(r)
           /\ at[r] \in Claimed /\ at'[r] \in Claimed => UNCHANGED <<marker, exists>>
           /\ at'[r] \in Underway => at[r] \in Underway \/ r \in granted'
           /\ at[r] \in Underway => at'[r] \in Underway \cup {"dead"} /\ UNCHANGED <<marker, exists>>
           /\ at[r] # "dead"
           /\ \/ UNCHANGED granted
              \/ /\ granted' = granted \cup {r} /\ at'[r] = "run"
                 /\ at[r] \in {"evidence", "plan_create"}
           /\ \/ UNCHANGED artifacts
              \/ at[r] = "run" /\ artifacts' = [artifacts EXCEPT ![TreeOf[r]] = @ \cup {r}]
           /\ at'[r] \in Reserved \ {"rb_release", "rb_abandon"} =>
                \/ at[r] \in Reserved \ {"rb_release", "rb_abandon"}
                \/ /\ path[EvidenceOf[r]] = None
                   /\ path' = [path EXCEPT ![EvidenceOf[r]] = r]
<1> USE DEF TypeOK, Reserved, Goto, Claimed, Underway, tree, process
<1>1. CASE CheckTree(r)
  BY <1>1 DEF CheckTree
<1>2. CASE ListTree(r)
  BY <1>2 DEF ListTree
<1>3. CASE MakeTree(r)
  BY <1>3 DEF MakeTree
<1>4. CASE WriteMarker(r)
  BY <1>4 DEF WriteMarker
<1>5. CASE ClaimEvidence(r)
  BY <1>5 DEF ClaimEvidence, Grant
<1>6. CASE UnlinkPlan(r)
  BY <1>6 DEF UnlinkPlan
<1>7. CASE CreatePlan(r)
  BY <1>7 DEF CreatePlan, Grant
<1>8. CASE RollbackCheck(r)
  BY <1>8 DEF RollbackCheck
<1>9. CASE RollbackUnlink(r)
  BY <1>9 DEF RollbackUnlink
<1>10. CASE RollbackRelease(r)
  BY <1>10 DEF RollbackRelease
<1>11. CASE RollbackMarker(r)
  BY <1>11 DEF RollbackMarker
<1>12. CASE RollbackPlan(r)
  BY <1>12 DEF RollbackPlan
<1>13. CASE RollbackRmdir(r)
  BY <1>13 DEF RollbackRmdir
<1>14. CASE WriteArtifacts(r)
  BY <1>14 DEF WriteArtifacts
<1>15. CASE AppendCheck(r)
  BY <1>15 DEF AppendCheck
<1>16. CASE AppendWrite(r)
  BY <1>16 DEF AppendWrite
<1>17. CASE AppendRecheck(r)
  BY <1>17 DEF AppendRecheck
<1>18. CASE Abort(r)
  BY <1>18 DEF Abort
<1>19. CASE Release(r)
  BY <1>19 DEF Release
<1>20. CASE Kill(r)
  BY <1>20 DEF Kill, Ended
<1> QED
  BY <1>1, <1>2, <1>3, <1>4, <1>5, <1>6, <1>7, <1>8, <1>9, <1>10,
     <1>11, <1>12, <1>13, <1>14, <1>15, <1>16, <1>17, <1>18, <1>19, <1>20 DEF Step, Rollback

LEMMA TreeStep ==
    ASSUME TypeOK, TreeInv, NEW q \in Runs, Step(q)
    PROVE  TreeInv'
<1> USE OwnStep
<1>1. \A r \in Runs : at'[r] \in Claimed \/ r \in granted'
                      => marker'[TreeOf[r]] = r /\ TreeOf[r] \in exists'
  <2> SUFFICES ASSUME NEW r \in Runs, at'[r] \in Claimed \/ r \in granted'
               PROVE  marker'[TreeOf[r]] = r /\ TreeOf[r] \in exists'
    OBVIOUS
  <2>1. CASE r # q
    BY <2>1, OthersKeepClaim
  <2>2. CASE r = q /\ WriteMarker(q)
    <3>1. at[q] = "marker" /\ at[q] \notin Claimed /\ at[q] \notin Underway
      BY <2>2 DEF WriteMarker, Claimed, Underway
    <3>2. at'[q] \in Claimed
      BY <2>2, <3>1 DEF TreeInv, WriteMarker
    <3> QED
      BY <2>2, <3>1, <3>2, TreeOfIsMap DEF WriteMarker, Goto, Claimed, Underway, TypeOK
  <2>3. CASE r = q /\ ~WriteMarker(q)
    <3>1. at[q] \in Claimed /\ marker[TreeOf[q]] = q /\ TreeOf[q] \in exists
      BY <2>3 DEF TreeInv, Claimed, Underway
    <3>2. UNCHANGED <<marker, exists>>
      BY <2>3, <3>1 DEF TreeInv, Claimed, Underway
    <3> QED
      BY <2>3, <3>1, <3>2
  <2> QED
    BY <2>1, <2>2, <2>3
<1>2. \A r \in Runs : at'[r] \in Underway => r \in granted'
  BY DEF TreeInv
<1>3. \A r \in granted' : at'[r] \in Underway \cup {"dead"}
  BY DEF TreeInv, TypeOK, Underway
<1>4. \A d \in Trees : \A r \in artifacts'[d] : r \in granted' /\ TreeOf[r] = d
  <2>1. granted \subseteq granted'
    OBVIOUS
  <2>2. CASE UNCHANGED artifacts
    BY <2>1, <2>2 DEF TreeInv
  <2>3. CASE at[q] = "run" /\ artifacts' = [artifacts EXCEPT ![TreeOf[q]] = @ \cup {q}]
    <3>1. q \in granted
      BY <2>3 DEF TreeInv, Underway
    <3> QED
      BY <2>1, <2>3, <3>1 DEF TreeInv, TypeOK
  <2> QED
    BY <2>2, <2>3
<1> QED
  BY <1>1, <1>2, <1>3, <1>4 DEF TreeInv

LEMMA TreeNext == TypeOK /\ TreeInv /\ [Next]_vars => TreeInv'
<1> SUFFICES ASSUME TypeOK, TreeInv, [Next]_vars PROVE TreeInv'
  OBVIOUS
<1>1. CASE \E r \in Runs : Step(r)
  BY <1>1, TreeStep
<1>2. CASE UNCHANGED <<process, tree>>
  BY <1>2 DEF process, tree, TreeInv
<1> QED
  BY <1>1, <1>2 DEF Next, MoveEvidence, AllEnded, vars

\* Claims on a tree exclude each other, whatever operators do to evidence files.
THEOREM TreesAreExclusive == Spec => [](TypeOK /\ TreeInv)
<1> QED
  BY TypeInit, TypeNext, TreeInit, TreeNext, PTL DEF Spec

\* Every file in an artifacts tree is the marker's owner's.
THEOREM TreesOfOneRun == Spec => []TreeOfOneRun
<1>1. TypeOK /\ TreeInv => TreeOfOneRun
  BY TreeOfIsMap DEF TypeOK, TreeInv, TreeOfOneRun
<1> QED
  BY <1>1, TreesAreExclusive, PTL

-----------------------------------------------------------------------------
(* Evidence files *)

LEMMA EvidenceInit == Init => EvidenceOfOneRun
<1> QED
  BY DEF Init, EvidenceOfOneRun

LEMMA EvidenceStep ==
    ASSUME TypeOK, EvidenceOfOneRun, NEW r \in Runs, AppendWrite(r)
    PROVE  EvidenceOfOneRun'
<1>1. CASE UNCHANGED content
  BY <1>1 DEF EvidenceOfOneRun
<1>2. CASE content' = [content EXCEPT ![r] = Append(content[r], r)]
  <2> SUFFICES ASSUME NEW i \in DOMAIN content', NEW n \in 1..Len(content'[i])
               PROVE  content'[i][n] = i
    BY DEF EvidenceOfOneRun
  <2>1. i \in Runs \cup {Foreign} /\ content[i] \in Seq(Runs) /\ i \in DOMAIN content
    BY <1>2 DEF TypeOK
  <2>2. CASE i # r
    BY <1>2, <2>1, <2>2 DEF EvidenceOfOneRun
  <2>3. CASE i = r
    <3>1. content'[i] = Append(content[i], i)
      BY <1>2, <2>1, <2>3 DEF TypeOK
    <3>2. \A m \in 1..Len(content[i]) : content[i][m] = i
      BY <2>1 DEF EvidenceOfOneRun
    <3> QED
      BY <2>1, <3>1, <3>2
  <2> QED
    BY <2>2, <2>3
<1> QED
  BY <1>1, <1>2 DEF AppendWrite

LEMMA EvidenceNext == TypeOK /\ EvidenceOfOneRun /\ [Next]_vars => EvidenceOfOneRun'
<1> SUFFICES ASSUME TypeOK, EvidenceOfOneRun, [Next]_vars PROVE EvidenceOfOneRun'
  OBVIOUS
<1>1. ASSUME NEW r \in Runs, AppendWrite(r) PROVE EvidenceOfOneRun'
  BY <1>1, EvidenceStep
<1>2. CASE UNCHANGED content
  BY <1>2 DEF EvidenceOfOneRun
<1>3. UNCHANGED content \/ \E r \in Runs : AppendWrite(r)
  BY DEF Next, vars, file, AllEnded, MoveEvidence, Step, Rollback, CheckTree, ListTree,
         MakeTree, WriteMarker, ClaimEvidence, UnlinkPlan, CreatePlan, RollbackCheck,
         RollbackUnlink, RollbackRelease, RollbackMarker, RollbackPlan, RollbackRmdir,
         WriteArtifacts, AppendCheck, AppendRecheck, Abort, Release, Kill
<1> QED
  BY <1>1, <1>2, <1>3

\* No evidence file ever holds a row of a run that did not make it, whatever
\* operators do to the names of evidence files.
THEOREM EvidenceFilesOfOneRun == Spec => []EvidenceOfOneRun
<1> QED
  BY TypeCorrect, EvidenceInit, EvidenceNext, PTL DEF Spec

-----------------------------------------------------------------------------
(* The refinement of RunGrants *)

LEMMA FileInit == Init => FileInv
<1> QED
  BY DEF Init, FileInv, Reserved

LEMMA FileStep ==
    ASSUME TypeOK, TreeInv, FileInv, NEW q \in Runs, Step(q)
    PROVE  faults' = faults /\ FileInv'
<1>0. faults' = faults
  BY DEF Step, Rollback, CheckTree, ListTree, MakeTree, WriteMarker, ClaimEvidence,
         UnlinkPlan, CreatePlan, RollbackCheck, RollbackUnlink, RollbackRelease,
         RollbackMarker, RollbackPlan, RollbackRmdir, WriteArtifacts, AppendCheck,
         AppendWrite, AppendRecheck, Abort, Release, Kill
<1> SUFFICES ASSUME faults = 0, NEW r \in Runs, at'[r] \in Reserved \ {"rb_release", "rb_abandon"} \/ r \in granted'
             PROVE  path'[EvidenceOf[r]] = r
  BY <1>0 DEF FileInv
<1>1. EvidenceOf[r] \in Evidences /\ EvidenceOf[q] \in Evidences /\ r # None
  BY EvidenceOfIsMap, NobodyIsNoRun
<1>2. CASE ClaimEvidence(q) /\ path[EvidenceOf[q]] = None /\ path' = [path EXCEPT ![EvidenceOf[q]] = q]
  <2>1. CASE r = q
    BY <1>1, <1>2, <2>1 DEF TypeOK
  <2>2. CASE r # q
    <3>1. path[EvidenceOf[r]] = r
      BY <2>2, OwnStep DEF FileInv
    <3> QED
      BY <1>1, <1>2, <3>1 DEF TypeOK
  <2> QED
    BY <2>1, <2>2
<1>3. CASE RollbackUnlink(q) /\ path' = [path EXCEPT ![EvidenceOf[q]] = None]
  <2>1. at[q] = "rb_unlink" /\ at'[q] \in {"rb_release", "rb_abandon"} /\ granted' = granted
    BY <1>3 DEF RollbackUnlink, Goto, TypeOK
  <2>2. path[EvidenceOf[q]] = q
    BY <2>1 DEF FileInv, Reserved
  <2>3. r # q
    BY <2>1 DEF TreeInv, Underway
  <2>4. path[EvidenceOf[r]] = r
    BY <2>3, OwnStep DEF FileInv
  <2> QED
    BY <1>1, <1>3, <2>2, <2>3, <2>4 DEF RollbackUnlink, TypeOK
<1>4. CASE UNCHANGED path
  <2>1. at[r] \in Reserved \ {"rb_release", "rb_abandon"} \/ r \in granted
    <3>1. CASE r # q
      BY <3>1, OwnStep
    <3>2. CASE r = q
      <4>1. at'[r] \in Reserved \ {"rb_release", "rb_abandon"} \/ r \in granted
        BY <3>2, OwnStep DEF Reserved
      <4>2. path[EvidenceOf[r]] = None => path' # [path EXCEPT ![EvidenceOf[r]] = r]
        BY <1>1, <1>4 DEF TypeOK
      <4> QED
        BY <3>2, <4>1, <4>2, OwnStep
    <3> QED
      BY <3>1, <3>2
  <2> QED
    BY <1>4, <2>1 DEF FileInv
<1> QED
  BY <1>2, <1>3, <1>4
  DEF file, Step, Rollback, CheckTree, ListTree, MakeTree, WriteMarker, ClaimEvidence,
      UnlinkPlan, CreatePlan, RollbackCheck, RollbackUnlink, RollbackRelease,
      RollbackMarker, RollbackPlan, RollbackRmdir, WriteArtifacts, AppendCheck,
      AppendWrite, AppendRecheck, Abort, Release, Kill

\* Nobody makes an inode's name but the claim that makes the inode.
LEMMA OnlyClaimsMakeNames ==
    ASSUME TypeOK, NEW r \in Runs, Step(r)
    PROVE  \/ /\ at[r] = "evidence" /\ path[EvidenceOf[r]] = None
              /\ path' = [path EXCEPT ![EvidenceOf[r]] = r]
           \/ at[r] # "plan_create" /\ path' = [path EXCEPT ![EvidenceOf[r]] = None]
           \/ path' = path
  BY DEF TypeOK, Goto, file, Step, Rollback, CheckTree, ListTree, MakeTree, WriteMarker,
         ClaimEvidence, UnlinkPlan, CreatePlan, RollbackCheck, RollbackUnlink,
         RollbackRelease, RollbackMarker, RollbackPlan, RollbackRmdir, WriteArtifacts,
         AppendCheck, AppendWrite, AppendRecheck, Abort, Release, Kill

\* The claim that grants a run at its evidence file found no file there.
LEMMA GrantsFindNoFile ==
    ASSUME TypeOK, NEW r \in Runs, Step(r), granted' # granted, at[r] = "evidence"
    PROVE  path[EvidenceOf[r]] = None /\ path' = [path EXCEPT ![EvidenceOf[r]] = r]
  BY DEF TypeOK, Goto, Step, Rollback, CheckTree, ListTree, process,
         MakeTree, WriteMarker, ClaimEvidence, UnlinkPlan, CreatePlan, RollbackCheck,
         RollbackUnlink, RollbackRelease, RollbackMarker, RollbackPlan, RollbackRmdir,
         WriteArtifacts, AppendCheck, AppendWrite, AppendRecheck, Abort, Release, Kill

\* A step that lets no run through gives no run an evidence file back.
LEMMA HoldingShrinks ==
    ASSUME TypeOK, TreeInv, NEW r \in Runs, Step(r), granted' = granted
    PROVE  Holding' \subseteq Holding
<1> SUFFICES ASSUME NEW q \in granted, path'[EvidenceOf[q]] = q
             PROVE  path[EvidenceOf[q]] = q
  BY DEF Holding
<1>1. q \in Runs /\ EvidenceOf[q] \in Evidences /\ EvidenceOf[r] \in Evidences /\ q # None
  BY EvidenceOfIsMap, NobodyIsNoRun DEF TypeOK
<1>2. CASE at[r] = "evidence" /\ path' = [path EXCEPT ![EvidenceOf[r]] = r]
  <2>1. q # r
    BY <1>2 DEF TreeInv, Underway
  <2> QED
    BY <1>1, <1>2, <2>1 DEF TypeOK
<1>3. CASE path' = [path EXCEPT ![EvidenceOf[r]] = None]
  BY <1>1, <1>3 DEF TypeOK
<1> QED
  BY <1>2, <1>3, OnlyClaimsMakeNames

\* A run is granted where no granted run shares its tree and none that holds its
\* evidence file shares the path.
LEMMA GrantStep ==
    ASSUME TypeOK, TreeInv, FileInv, NEW r \in Runs, Step(r), granted' # granted,
           faults' = faults
    PROVE  Grants!Grant(r) \/ Grants!GrantBereft(r)
<1>1. /\ granted' = granted \cup {r} /\ r \notin granted
      /\ at[r] \in {"evidence", "plan_create"}
  BY OwnStep
<1>2. Grants!TreeIsFree(r)
  <2> SUFFICES ASSUME NEW q \in granted PROVE TreeOf[r] # TreeOf[q]
    BY <1>1 DEF Grants!TreeIsFree
  <2> QED
    BY <1>1 DEF TreeInv, Claimed, TypeOK
<1>3. EvidenceOf[r] \in Evidences /\ r # None
  BY EvidenceOfIsMap, NobodyIsNoRun
<1>4. ASSUME NEW q \in granted
      PROVE  q \in Runs /\ q # r /\ q # None /\ EvidenceOf[q] \in Evidences
  BY <1>1, EvidenceOfIsMap, NobodyIsNoRun DEF TypeOK
<1>5. CASE at[r] = "evidence"
  <2>1. path[EvidenceOf[r]] = None /\ path' = [path EXCEPT ![EvidenceOf[r]] = r]
    BY <1>5, GrantsFindNoFile
  <2>2. path'[EvidenceOf[r]] = r
    BY <1>3, <2>1 DEF TypeOK
  <2>3. ASSUME NEW q \in granted
        PROVE  path'[EvidenceOf[q]] = q <=> path[EvidenceOf[q]] = q
    BY <1>3, <1>4, <2>1 DEF TypeOK
  <2>4. Holding' = Holding \cup {r}
    BY <1>1, <2>2, <2>3 DEF Holding
  <2>5. \A q \in Holding : EvidenceOf[r] # EvidenceOf[q]
    BY <1>4, <2>1 DEF Holding
  <2> QED
    BY <1>1, <1>2, <2>4, <2>5, faults' = faults DEF Grants!Grant
<1>6. CASE at[r] = "plan_create"
  <2>1. path' = path
    BY <1>6, OnlyClaimsMakeNames
  <2>2. CASE path[EvidenceOf[r]] = r
    <3>1. Holding' = Holding \cup {r}
      BY <1>1, <2>1, <2>2 DEF Holding
    <3>2. \A q \in Holding : EvidenceOf[r] # EvidenceOf[q]
      BY <1>4, <2>2 DEF Holding
    <3> QED
      BY <1>1, <1>2, <3>1, <3>2, faults' = faults DEF Grants!Grant
  <2>3. CASE path[EvidenceOf[r]] # r
    <3>a. at[r] \in Reserved \ {"rb_release", "rb_abandon"}
      BY <1>6 DEF Reserved
    <3>1. faults > 0
      BY <3>a, <2>3 DEF FileInv, TypeOK
    <3>2. Holding' = Holding
      BY <1>1, <2>1, <2>3 DEF Holding
    <3> QED
      BY <1>1, <1>2, <3>1, <3>2, faults' = faults DEF Grants!GrantBereft
  <2> QED
    BY <2>2, <2>3
<1> QED
  BY <1>1, <1>5, <1>6

\* Every step of a run lets a run through, or takes an evidence file away after
\* an operator has, or is not to be seen.
LEMMA GrantsStep ==
    ASSUME TypeOK, TreeInv, FileInv, NEW r \in Runs, Step(r)
    PROVE  [Grants!Next]_(Grants!vars)
<1>1. faults' = faults /\ FileInv' /\ TypeOK'
  BY FileStep, TypeStep
<1>2. CASE granted' # granted
  BY <1>1, <1>2, GrantStep DEF Grants!Next
<1>3. CASE granted' = granted /\ faults = 0
  <2>1. Holding' = Holding
    BY <1>1, <1>3 DEF FileInv, Holding, TypeOK
  <2> QED
    BY <1>1, <1>3, <2>1 DEF Grants!vars
<1>4. CASE granted' = granted /\ faults # 0
  <2>1. (faults > 0)' = TRUE
    BY <1>1, <1>4 DEF TypeOK
  <2> QED
    BY <1>4, <2>1, HoldingShrinks DEF Grants!Next, Grants!Meddle
<1> QED
  BY <1>2, <1>3, <1>4

\* An operator's move of an evidence file is Meddle.
LEMMA MoveStep ==
    ASSUME TypeOK, FileInv, NEW e \in Evidences, MoveEvidence(e)
    PROVE  FileInv' /\ Grants!Meddle
<1>1. (faults > 0)' = TRUE /\ faults' # 0
  BY DEF MoveEvidence, TypeOK
<1>2. granted' = granted
  BY DEF MoveEvidence, process
<1>3. Holding' \subseteq Holding
  <2> SUFFICES ASSUME NEW q \in granted, path'[EvidenceOf[q]] = q
               PROVE  path[EvidenceOf[q]] = q
    BY <1>2 DEF Holding
  <2> QED
    BY EvidenceOfIsMap, NobodyIsNoRun DEF MoveEvidence, TypeOK
<1> QED
  BY <1>1, <1>2, <1>3 DEF FileInv, Grants!Meddle

\* Any number of processes, killed anywhere, with operators moving evidence
\* files meanwhile, let runs through as RunGrants says: no two with one tree,
\* and no two with one evidence file unless an operator took the first's away.
THEOREM ClaimsImplementGrants == Spec => ImplementsGrants
<1> DEFINE Inv == TypeOK /\ TreeInv /\ FileInv
<1>1. Init => Inv /\ Grants!Init
  <2>1. Init => Grants!Init
    BY DEF Init, Grants!Init, Holding
  <2> QED
    BY <2>1, TypeInit, TreeInit, FileInit
<1>2. ASSUME Inv, [Next]_vars PROVE Inv' /\ [Grants!Next]_(Grants!vars)
  <2>1. CASE \E r \in Runs : Step(r)
    BY <1>2, <2>1, TypeStep, TreeStep, FileStep, GrantsStep
  <2>2. CASE \E e \in Evidences : MoveEvidence(e)
    BY <1>2, <2>2, MoveStep, TypeNext, TreeNext DEF Grants!Next
  <2>3. CASE UNCHANGED vars
    <3>1. FileInv' /\ UNCHANGED Grants!vars
      BY <1>2, <2>3 DEF vars, process, file, FileInv, Grants!vars, Holding
    <3> QED
      BY <1>2, <2>3, <3>1, TypeNext, TreeNext
  <2> QED
    BY <1>2, <2>1, <2>2, <2>3 DEF Next, AllEnded
<1> QED
  BY <1>1, <1>2, PTL DEF Spec, ImplementsGrants, Grants!Spec

-----------------------------------------------------------------------------
(* What a refused claim leaves *)

\* Where a run has no marker, no plan and no evidence file to its name, but what
\* a failing call left: before it makes them, after its rollback unlinked them,
\* and where a failing call gave the rollback up.
Unmarked   == {"check", "list", "mkdir", "marker", "rb_plan", "rb_rmdir", "refused"}
Unplanned  == {"check", "list", "mkdir", "marker", "evidence", "plan_unlink",
               "rb_rmdir", "refused"}
Unreserved == {"check", "list", "mkdir", "marker", "evidence", "rb_release",
               "rb_abandon", "rb_marker", "rb_plan", "rb_rmdir", "refused"}

\* The last part is why the rollback never keeps a file for the rows in it.
LeftBy(r) ==
    /\ at[r] \in Unmarked /\ marker[TreeOf[r]] = r => Broke(r, LeavesMarker)
    /\ at[r] \in Unplanned /\ plan[TreeOf[r]] = r => Broke(r, LeavesPlan)
    /\ at[r] \in Unreserved /\ path[EvidenceOf[r]] = r => Broke(r, LeavesEvidence)
    /\ at[r] = "rb_abandon" => Broke(r, {"unlink_evidence"})
    /\ content[r] # <<>> => r \in granted

LeftInv == \A r \in Runs : LeftBy(r)

LEMMA LeftInit == Init => LeftInv
  BY TreeOfIsMap, EvidenceOfIsMap, NobodyIsNoRun DEF Init, LeftInv, LeftBy

\* What failed once has failed for good, and a failing call of a run is told.
LEMMA LeftStays ==
    ASSUME broken \subseteq broken', NEW r, NEW calls, Broke(r, calls)
    PROVE  Broke(r, calls)'
  BY DEF Broke

LEMMA BreaksLeaves ==
    ASSUME NEW r, NEW c, NEW calls, c \in calls, Breaks(r, c)
    PROVE  Broke(r, calls)'
  BY DEF Broke, Breaks

LEMMA StepBreaks ==
    ASSUME NEW r \in Runs, Step(r)
    PROVE  broken \subseteq broken'
  BY DEF Breaks, Step, Rollback, CheckTree, ListTree, MakeTree, WriteMarker,
         ClaimEvidence, UnlinkPlan, CreatePlan, RollbackCheck, RollbackUnlink,
         RollbackRelease, RollbackMarker, RollbackPlan, RollbackRmdir,
         WriteArtifacts, AppendCheck, AppendWrite, AppendRecheck, Abort, Release, Kill

\* No step of another run puts this one's name anywhere.
LEMMA OthersLeave ==
    ASSUME TypeOK, NEW r \in Runs, NEW q \in Runs, q # r, Step(q)
    PROVE  /\ marker'[TreeOf[r]] = r => marker[TreeOf[r]] = r
           /\ plan'[TreeOf[r]] = r => plan[TreeOf[r]] = r
           /\ path'[EvidenceOf[r]] = r => path[EvidenceOf[r]] = r
           /\ content'[r] = content[r]
<1> DEFINE Left == /\ marker'[TreeOf[r]] = r => marker[TreeOf[r]] = r
                   /\ plan'[TreeOf[r]] = r => plan[TreeOf[r]] = r
                   /\ path'[EvidenceOf[r]] = r => path[EvidenceOf[r]] = r
                   /\ content'[r] = content[r]
<1>0. /\ TreeOf[r] \in Trees /\ TreeOf[q] \in Trees /\ r # None
      /\ EvidenceOf[r] \in Evidences /\ EvidenceOf[q] \in Evidences
  BY TreeOfIsMap, EvidenceOfIsMap, NobodyIsNoRun
<1> USE DEF tree, file
<1>1. CASE WriteMarker(q)
  BY <1>0, <1>1 DEF WriteMarker, TypeOK
<1>2. CASE ClaimEvidence(q)
  <2>1. path' = path \/ path' = [path EXCEPT ![EvidenceOf[q]] = q]
    BY <1>2 DEF ClaimEvidence
  <2> QED
    BY <1>0, <1>2, <2>1 DEF ClaimEvidence, TypeOK
<1>3. CASE UnlinkPlan(q)
  <2>1. plan' = plan \/ plan' = [plan EXCEPT ![TreeOf[q]] = None]
    BY <1>3 DEF UnlinkPlan
  <2> QED
    BY <1>0, <1>3, <2>1 DEF UnlinkPlan, TypeOK
<1>4. CASE CreatePlan(q)
  <2>1. plan' = plan \/ plan' = [plan EXCEPT ![TreeOf[q]] = q]
    BY <1>4 DEF CreatePlan
  <2> QED
    BY <1>0, <1>4, <2>1 DEF CreatePlan, TypeOK
<1>5. CASE RollbackUnlink(q)
  BY <1>0, <1>5 DEF RollbackUnlink, TypeOK
<1>6. CASE RollbackMarker(q)
  BY <1>0, <1>6 DEF RollbackMarker, TypeOK
<1>7. CASE RollbackPlan(q)
  BY <1>0, <1>7 DEF RollbackPlan, TypeOK
<1>8. CASE AppendWrite(q)
  BY <1>0, <1>8 DEF AppendWrite, TypeOK
<1>9. CASE UNCHANGED <<marker, plan, path, content>>
  BY <1>9
<1> QED
  BY <1>1, <1>2, <1>3, <1>4, <1>5, <1>6, <1>7, <1>8, <1>9
  DEF Step, Rollback, CheckTree, ListTree, MakeTree, RollbackCheck, RollbackRelease,
      RollbackRmdir, WriteArtifacts, AppendCheck, AppendRecheck, Abort, Release, Kill

\* A run names what it makes, and its rollback unlinks it all in its turn.
LEMMA OwnLeave ==
    ASSUME TypeOK, TreeInv, NEW r \in Runs, LeftBy(r), Step(r)
    PROVE  LeftBy(r)'
<1>0. /\ TreeOf[r] \in Trees /\ EvidenceOf[r] \in Evidences
      /\ r # None /\ r # Foreign /\ r \in DOMAIN at
  BY TreeOfIsMap, EvidenceOfIsMap, NobodyIsNoRun DEF TypeOK
<1>s. /\ Broke(r, LeavesMarker) => Broke(r, LeavesMarker)'
      /\ Broke(r, LeavesPlan) => Broke(r, LeavesPlan)'
      /\ Broke(r, LeavesEvidence) => Broke(r, LeavesEvidence)'
      /\ Broke(r, {"unlink_evidence"}) => Broke(r, {"unlink_evidence"})'
  BY LeftStays, StepBreaks
<1>g. Broke(r, {"unlink_evidence"}) =>
        Broke(r, LeavesMarker) /\ Broke(r, LeavesPlan) /\ Broke(r, LeavesEvidence)
  BY DEF Broke, LeavesMarker, LeavesPlan, LeavesEvidence
<1> USE DEF LeftBy, Goto, tree, file, process, Unmarked, Unplanned, Unreserved
\* The step moves the run without touching a name.
<1>a. ASSUME UNCHANGED <<marker, plan, path, content>>, granted \subseteq granted',
             at'[r] \in Unmarked => at[r] \in Unmarked,
             at'[r] \in Unplanned => at[r] \in Unplanned,
             at'[r] \in Unreserved => at[r] \in Unreserved,
             at'[r] # "rb_abandon"
      PROVE  LeftBy(r)'
  BY <1>a, <1>s
<1>1. CASE CheckTree(r)
  BY <1>0, <1>1, <1>a DEF CheckTree
<1>2. CASE ListTree(r)
  BY <1>0, <1>2, <1>a DEF ListTree
<1>3. CASE MakeTree(r)
  BY <1>0, <1>3, <1>a DEF MakeTree
<1>4. CASE WriteMarker(r)
  <2>1. /\ at[r] = "marker" /\ at'[r] \in {"evidence", "refused"}
        /\ UNCHANGED <<plan, path, content, granted>>
    BY <1>0, <1>4 DEF WriteMarker
  <2>2. at'[r] = "refused" => UNCHANGED marker \/ Broke(r, LeavesMarker)'
    <3>1. at'[r] = "refused" => UNCHANGED marker \/ Breaks(r, "write_marker")
      BY <1>0, <1>4 DEF WriteMarker
    <3> QED
      BY <3>1, BreaksLeaves DEF LeavesMarker
  <2> QED
    BY <2>1, <2>2, <1>s
<1>5. CASE ClaimEvidence(r)
  <2>1. /\ at[r] = "evidence"
        /\ at'[r] \in {"plan_unlink", "run", "rb_marker", "refused"}
        /\ UNCHANGED <<marker, plan, content>> /\ granted \subseteq granted'
    BY <1>0, <1>5 DEF ClaimEvidence, Grant
  <2>2. \/ at'[r] \in {"plan_unlink", "run"}
        \/ at'[r] = "rb_marker" /\ path' = path
        \/ at'[r] = "rb_marker" /\ Breaks(r, "fstat_evidence")
        \/ at'[r] = "refused" /\ Breaks(r, "close_evidence")
    BY <1>0, <1>5 DEF ClaimEvidence, Grant
  <2>3. /\ Breaks(r, "fstat_evidence") => Broke(r, LeavesEvidence)'
        /\ Breaks(r, "close_evidence") => Broke(r, LeavesEvidence)' /\ Broke(r, LeavesMarker)'
    BY BreaksLeaves DEF LeavesEvidence, LeavesMarker
  <2>4. at'[r] \in Unmarked => Broke(r, LeavesMarker)'
    BY <2>2, <2>3
  <2>5. at'[r] \in Unreserved => UNCHANGED path \/ Broke(r, LeavesEvidence)'
    BY <2>2, <2>3
  <2> QED
    BY <2>1, <2>4, <2>5, <1>s
<1>6. CASE UnlinkPlan(r)
  <2>1. /\ at[r] = "plan_unlink" /\ at'[r] \in {"plan_create", "rb_check"}
        /\ UNCHANGED <<marker, path, content, granted>>
    BY <1>0, <1>6 DEF UnlinkPlan
  <2> QED
    BY <2>1, <1>s
<1>7. CASE CreatePlan(r)
  <2>1. /\ at'[r] \in {"run", "rb_check"}
        /\ UNCHANGED <<marker, path, content>> /\ granted \subseteq granted'
    BY <1>0, <1>7 DEF CreatePlan, Grant
  <2> QED
    BY <2>1, <1>s
<1>8. CASE RollbackCheck(r)
  <2>1. r \notin granted
    BY <1>8 DEF RollbackCheck, TreeInv, Underway
  <2>2. content[r] = <<>>
    BY <2>1
  <2>3. \/ at'[r] = "rb_unlink"
        \/ at'[r] = "rb_release" /\ path[EvidenceOf[r]] # r
        \/ at'[r] = "rb_release" /\ Breaks(r, "lstat_reserved")
    BY <1>0, <1>8, <2>2 DEF RollbackCheck
  <2>4. UNCHANGED <<marker, plan, path, content, granted>>
    BY <1>8 DEF RollbackCheck
  <2>5. Breaks(r, "lstat_reserved") => Broke(r, LeavesEvidence)'
    BY BreaksLeaves DEF LeavesEvidence
  <2> QED
    BY <2>3, <2>4, <2>5, <1>s
<1>9. CASE RollbackUnlink(r)
  <2>1. \/ at'[r] = "rb_release" /\ path'[EvidenceOf[r]] = None
        \/ at'[r] = "rb_abandon" /\ Breaks(r, "unlink_evidence")
    BY <1>0, <1>9 DEF RollbackUnlink, TypeOK
  <2>2. UNCHANGED <<marker, plan, content, granted>>
    BY <1>9 DEF RollbackUnlink
  <2>3. Breaks(r, "unlink_evidence") =>
          Broke(r, LeavesEvidence)' /\ Broke(r, {"unlink_evidence"})'
    BY BreaksLeaves DEF LeavesEvidence
  <2> QED
    BY <1>0, <2>1, <2>2, <2>3, <1>s
<1>10. CASE RollbackRelease(r)
  <2>1. /\ UNCHANGED <<marker, plan, path, content, granted>>
        /\ at[r] \in {"rb_release", "rb_abandon"} /\ at'[r] \in {"rb_marker", "refused"}
        /\ at'[r] = "refused" => at[r] = "rb_abandon" \/ Breaks(r, "close_reserved")
    BY <1>0, <1>10 DEF RollbackRelease
  <2>2. at'[r] = "refused" => Broke(r, LeavesMarker)' /\ Broke(r, LeavesPlan)'
    <3>1. Breaks(r, "close_reserved") => Broke(r, LeavesMarker)' /\ Broke(r, LeavesPlan)'
      BY BreaksLeaves DEF LeavesMarker, LeavesPlan
    <3>2. at[r] = "rb_abandon" => Broke(r, LeavesMarker)' /\ Broke(r, LeavesPlan)'
      BY <1>s, <1>g
    <3> QED
      BY <2>1, <3>1, <3>2
  <2> QED
    BY <2>1, <2>2, <1>s
<1>11. CASE RollbackMarker(r)
  <2>1. /\ at[r] = "rb_marker" /\ UNCHANGED <<plan, path, content, granted>>
        /\ \/ at'[r] = "rb_plan" /\ marker'[TreeOf[r]] = None
           \/ at'[r] = "refused" /\ Breaks(r, "unlink_marker")
    BY <1>0, <1>11 DEF RollbackMarker, TypeOK
  <2>2. Breaks(r, "unlink_marker") => Broke(r, LeavesMarker)' /\ Broke(r, LeavesPlan)'
    BY BreaksLeaves DEF LeavesMarker, LeavesPlan
  <2> QED
    BY <1>0, <2>1, <2>2, <1>s
<1>12. CASE RollbackPlan(r)
  <2>1. /\ at[r] = "rb_plan" /\ at'[r] \in {"rb_rmdir", "refused"}
        /\ UNCHANGED <<marker, path, content, granted>>
        /\ plan'[TreeOf[r]] = None \/ Breaks(r, "unlink_plan")
    BY <1>0, <1>12 DEF RollbackPlan, TypeOK
  <2>2. Breaks(r, "unlink_plan") => Broke(r, LeavesPlan)'
    BY BreaksLeaves DEF LeavesPlan
  <2> QED
    BY <1>0, <2>1, <2>2, <1>s
<1>13. CASE RollbackRmdir(r)
  BY <1>0, <1>13, <1>s DEF RollbackRmdir
<1>14. CASE WriteArtifacts(r)
  BY <1>14, <1>s DEF WriteArtifacts
<1>15. CASE AppendCheck(r)
  BY <1>0, <1>15, <1>s DEF AppendCheck
<1>16. CASE AppendWrite(r)
  <2>1. r \in granted /\ at'[r] \in {"recheck", "fail"}
    BY <1>0, <1>16 DEF AppendWrite, TreeInv, Underway
  <2>2. UNCHANGED <<marker, plan, path, granted>>
    BY <1>16 DEF AppendWrite
  <2> QED
    BY <2>1, <2>2, <1>s
<1>17. CASE AppendRecheck(r) \/ Abort(r)
  BY <1>0, <1>17, <1>s DEF AppendRecheck, Abort
<1>18. CASE Release(r)
  BY <1>0, <1>18, <1>s DEF Release
<1>19. CASE Kill(r)
  BY <1>0, <1>19, <1>s DEF Kill
<1> QED
  BY <1>1, <1>2, <1>3, <1>4, <1>5, <1>6, <1>7, <1>8, <1>9, <1>10, <1>11, <1>12,
     <1>13, <1>14, <1>15, <1>16, <1>17, <1>18, <1>19 DEF Step, Rollback

LEMMA LeftNext == TypeOK /\ TreeInv /\ LeftInv /\ [Next]_vars => LeftInv'
<1> SUFFICES ASSUME TypeOK, TreeInv, LeftInv, [Next]_vars, NEW r \in Runs PROVE LeftBy(r)'
  BY DEF LeftInv
<1>0. LeftBy(r)
  BY DEF LeftInv
<1>1. ASSUME NEW q \in Runs, Step(q) PROVE LeftBy(r)'
  <2>1. CASE q = r
    BY <1>0, <1>1, <2>1, OwnLeave
  <2>2. CASE q # r
    <3>1. at'[r] = at[r] /\ granted \subseteq granted'
      BY <1>1, <2>2, OwnStep
    <3>2. /\ marker'[TreeOf[r]] = r => marker[TreeOf[r]] = r
          /\ plan'[TreeOf[r]] = r => plan[TreeOf[r]] = r
          /\ path'[EvidenceOf[r]] = r => path[EvidenceOf[r]] = r
          /\ content'[r] = content[r]
      BY <1>1, <2>2, OthersLeave
    <3>3. broken \subseteq broken'
      BY <1>1, StepBreaks
    <3>4. \A calls : Broke(r, calls) => Broke(r, calls)'
      BY <3>3, LeftStays
    <3> QED
      BY <1>0, <3>1, <3>2, <3>4 DEF LeftBy
  <2> QED
    BY <2>1, <2>2
<1>2. ASSUME NEW e \in Evidences, MoveEvidence(e) PROVE LeftBy(r)'
  <2>1. path'[EvidenceOf[r]] = r => path[EvidenceOf[r]] = r
    BY <1>2, EvidenceOfIsMap, NobodyIsNoRun DEF MoveEvidence, TypeOK
  <2>2. UNCHANGED <<at, granted, marker, plan, content, broken>>
    BY <1>2 DEF MoveEvidence, process, tree
  <2> QED
    BY <1>0, <2>1, <2>2 DEF LeftBy, Broke
<1>3. CASE UNCHANGED vars
  BY <1>0, <1>3 DEF vars, process, tree, file, LeftBy, Broke
<1> QED
  BY <1>1, <1>2, <1>3 DEF Next, AllEnded

\* Wherever a claim fails - at the tree, the marker, the evidence file or the
\* plan - it leaves neither marker nor plan nor evidence file of the run behind
\* but where a failure the rollback does not cover, or one of its own, is the
\* reason, though the files are unlinked by name while other runs claim.
THEOREM RefusedClaimsLeaveNothing == Spec => []RefusedLeavesNothing
<1>1. TypeOK /\ LeftInv => RefusedLeavesNothing
  BY DEF TypeOK, LeftInv, LeftBy, Unmarked, Unplanned, Unreserved, Reserved,
         RefusedLeavesNothing
<1> QED
  BY <1>1, TreesAreExclusive, LeftInit, LeftNext, PTL DEF Spec
=============================================================================

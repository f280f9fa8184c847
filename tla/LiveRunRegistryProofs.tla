----------------------- MODULE LiveRunRegistryProofs -----------------------
(***************************************************************************)
(* Proofs about LiveRunHistory, for histories of every length, and about   *)
(* LiveRunRegistry, for any number of processes, records, manifests, lock  *)
(* files and faults.                                                       *)
(*                                                                         *)
(* The code validates each event against its neighbours only: the last     *)
(* event of the run (time, status), its first (model) and the first that   *)
(* fills an axis.  ValidIsConsistent is why that is enough: of any two     *)
(* events of a run, however far apart, the later may follow the earlier.   *)
(***************************************************************************)
EXTENDS LiveRunRegistry, WellFoundedInduction, TLAPS

-----------------------------------------------------------------------------
(* Least and greatest elements: the two forms induction takes below. *)

\* A non-empty set of naturals has a least element.
LEMMA LeastNat ==
    ASSUME NEW S \in SUBSET Nat, S # {}
    PROVE  \E x \in S : \A y \in S : x <= y
<1> DEFINE R == {z \in Nat \X Nat : z[1] < z[2]}
<1>1. IsWellFoundedOn(R, Nat)
  <2>1. R = OpToRel(LAMBDA x, y : x < y, Nat)
    BY DEF OpToRel
  <2>2. QED
    BY <2>1, NatLessThanWellFounded DEF OpToRel
<1>2. PICK x \in S : \A y \in S : ~(<<y, x>> \in R)
  <2> HIDE DEF R
  <2> QED
    BY <1>1, WFMin
<1>3. \A y \in S : x <= y
  <2> TAKE y \in S
  <2>1. x \in Nat /\ y \in Nat
    OBVIOUS
  <2>2. ~(y < x)
    BY <1>2, <2>1
  <2> HIDE DEF R
  <2> QED
    BY <2>1, <2>2
<1> QED
  BY <1>3

\* A non-empty set of naturals with an upper bound has a greatest element.
LEMMA GreatestNat ==
    ASSUME NEW n \in Nat, NEW S \in SUBSET (0..n), S # {}
    PROVE  \E x \in S : \A y \in S : y <= x
<1> DEFINE D == {d \in 0..n : n - d \in S}
<1>1. D \in SUBSET Nat
  OBVIOUS
<1>2. D # {}
  <2>1. PICK x \in S : x \in 0..n
    OBVIOUS
  <2>2. n - x \in 0..n /\ n - (n - x) = x
    BY <2>1
  <2> QED
    BY <2>1, <2>2
<1>3. PICK d \in D : \A e \in D : d <= e
  <2> HIDE DEF D
  <2> QED
    BY <1>1, <1>2, LeastNat
<1>4. n - d \in S /\ d \in 0..n
  BY <1>3
<1>5. ASSUME NEW y \in S
      PROVE  y <= n - d
  <2>1. y \in 0..n /\ n - y \in 0..n /\ n - (n - y) = y
    OBVIOUS
  <2>2. d <= n - y
    BY <1>3, <2>1
  <2> QED
    BY <2>1, <2>2, <1>4
<1> QED
  BY <1>4, <1>5

-----------------------------------------------------------------------------
(* Validation looks only at the log before *)

\* Whether an event may take position n depends on the rows before n alone.
LEMMA FollowsPriorLocal ==
    ASSUME NEW log, NEW ext, NEW n \in Nat, NEW record,
           \A i \in 1..(n - 1) : log[i] = ext[i]
    PROVE  FollowsPrior(log, n, record) = FollowsPrior(ext, n, record)
<1>1. Prior(log, n, record.run_id) = Prior(ext, n, record.run_id)
  BY DEF Prior
<1>2. \A i \in Prior(log, n, record.run_id) : log[i] = ext[i]
  BY DEF Prior
<1>3. \A axis : Filled(log, Prior(log, n, record.run_id), axis)
                  = Filled(ext, Prior(log, n, record.run_id), axis)
  BY <1>2 DEF Filled
<1> DEFINE prior == Prior(log, n, record.run_id)
<1>4. \A axis, i : IsFirst(Filled(log, prior, axis), i) => i \in prior
  BY DEF IsFirst, Filled
<1> QED
  BY <1>1, <1>2, <1>3 DEF FollowsPrior

\* A valid history is valid however many of its last rows are lost.
LEMMA ValidPrefix ==
    ASSUME NEW log \in Seq(LiveRunRecord), ValidHistory(log),
           NEW n \in 0..Len(log)
    PROVE  ValidHistory(SubSeq(log, 1, n))
<1> DEFINE cut == SubSeq(log, 1, n)
<1>1. Len(cut) = n /\ \A i \in 1..n : cut[i] = log[i]
  OBVIOUS
<1>2. ASSUME NEW k \in 1..n
      PROVE  FollowsPrior(cut, k, cut[k])
  <2>1. FollowsPrior(log, k, log[k])
    BY DEF ValidHistory
  <2>2. cut[k] = log[k] /\ \A i \in 1..(k - 1) : log[i] = cut[i]
    BY <1>1
  <2> HIDE DEF cut
  <2> QED
    BY <2>1, <2>2, FollowsPriorLocal
<1> QED
  BY <1>1, <1>2 DEF ValidHistory

\* An accepted event leaves a valid history behind.
LEMMA ValidAppend ==
    ASSUME NEW log \in Seq(LiveRunRecord), NEW record \in LiveRunRecord,
           AcceptsNext(log, record)
    PROVE  ValidHistory(Append(log, record))
<1> DEFINE ext == Append(log, record)
<1>1. /\ Len(ext) = Len(log) + 1
      /\ \A i \in 1..Len(log) : ext[i] = log[i]
      /\ ext[Len(log) + 1] = record
  OBVIOUS
<1> HIDE DEF ext
<1>2. ASSUME NEW k \in 1..Len(ext)
      PROVE  FollowsPrior(ext, k, ext[k])
  <2>1. FollowsPrior(log, k, ext[k])
    BY <1>1 DEF AcceptsNext, ValidHistory
  <2>2. \A i \in 1..(k - 1) : log[i] = ext[i]
    BY <1>1
  <2> QED
    BY <2>1, <2>2, FollowsPriorLocal
<1> QED
  BY <1>2 DEF ValidHistory, ext

-----------------------------------------------------------------------------
(* Neighbours are enough *)

\* The transition table is transitive: a status two steps away is one the
\* table allows directly, so checking the last event alone loses nothing.
LEMMA TransitionsCompose ==
    \A s, t, u \in LiveRunStatus :
        t \in AllowedTransitions[s] /\ u \in AllowedTransitions[t]
            => u \in AllowedTransitions[s]
  BY DEF LiveRunStatus, AllowedTransitions

\* What FollowsPrior says of position j, as facts about an earlier event i.
LEMMA PriorIndex ==
    ASSUME NEW log \in Seq(LiveRunRecord), NEW j \in 1..Len(log), NEW run
    PROVE  /\ Prior(log, j, run) \in SUBSET Nat
           /\ Prior(log, j, run) \in SUBSET (0..Len(log))
           /\ \A i : i \in Prior(log, j, run)
                        <=> i \in 1..Len(log) /\ i < j /\ log[i].run_id = run
  BY DEF Prior

\* Time and status: strong induction on the later event.
LEMMA OrderedFromAfar ==
    ASSUME NEW log \in Seq(LiveRunRecord), ValidHistory(log),
           NEW i0 \in 1..Len(log), NEW j0 \in 1..Len(log),
           i0 < j0, log[i0].run_id = log[j0].run_id
    PROVE  /\ log[i0].generated_at <= log[j0].generated_at
           /\ log[j0].status \in AllowedTransitions[log[i0].status]
<1> DEFINE Ordered(i, j) ==
              /\ log[i].generated_at <= log[j].generated_at
              /\ log[j].status \in AllowedTransitions[log[i].status]
           Bad == {j \in 1..Len(log) : \E i \in 1..Len(log) :
                      i < j /\ log[i].run_id = log[j].run_id /\ ~Ordered(i, j)}
<1>1. SUFFICES ASSUME Bad # {} PROVE FALSE
  BY DEF Bad
<1>2. PICK j \in Bad : \A k \in Bad : j <= k
  <2>1. Bad \in SUBSET Nat
    OBVIOUS
  <2> HIDE DEF Bad
  <2> QED
    BY <1>1, <2>1, LeastNat
<1>3. PICK i \in 1..Len(log) :
         i < j /\ log[i].run_id = log[j].run_id /\ ~Ordered(i, j)
  BY <1>2
<1> DEFINE prior == Prior(log, j, log[j].run_id)
<1>4. j \in 1..Len(log) /\ i \in prior
  BY <1>2, <1>3 DEF Prior
<1>5. PICK k \in prior : \A x \in prior : x <= k
  <2> HIDE DEF prior
  <2>1. prior \in SUBSET (0..Len(log)) /\ prior # {}
    BY <1>4, PriorIndex DEF prior
  <2>2. Len(log) \in Nat
    OBVIOUS
  <2> QED
    BY <2>1, <2>2, GreatestNat
<1>6. IsLast(prior, k)
  BY <1>5 DEF IsLast
<1>7. k \in 1..Len(log) /\ k < j /\ log[k].run_id = log[j].run_id
  BY <1>4, <1>5 DEF Prior
<1>8. Ordered(k, j)
  <2>1. FollowsPrior(log, j, log[j])
    BY <1>4 DEF ValidHistory
  <2> QED
    BY <2>1, <1>5, <1>6 DEF FollowsPrior
<1>9. CASE i = k
  BY <1>3, <1>8, <1>9
<1>10. CASE i # k
  <2>1. i <= k /\ i < k
    BY <1>4, <1>5, <1>7, <1>10
  <2>2. k \notin Bad
    BY <1>2, <1>7
  <2>3. Ordered(i, k)
    BY <2>1, <2>2, <1>3, <1>7
  <2>4. /\ log[i] \in LiveRunRecord /\ log[j] \in LiveRunRecord
        /\ log[k] \in LiveRunRecord
    BY <1>4, <1>3, <1>7
  <2> HIDE DEF Bad, prior
  <2>5. log[i].generated_at <= log[j].generated_at
    <3>1. /\ log[i].generated_at \in Nat
          /\ log[j].generated_at \in Nat
          /\ log[k].generated_at \in Nat
      BY <2>4 DEF LiveRunRecord
    <3>2. /\ log[i].generated_at <= log[k].generated_at
          /\ log[k].generated_at <= log[j].generated_at
      BY <2>3, <1>8
    <3> HIDE DEF Ordered
    <3> QED
      BY <3>1, <3>2
  <2>6. log[j].status \in AllowedTransitions[log[i].status]
    <3>1. /\ log[i].status \in LiveRunStatus
          /\ log[j].status \in LiveRunStatus
          /\ log[k].status \in LiveRunStatus
      BY <2>4 DEF LiveRunRecord
    <3>2. /\ log[k].status \in AllowedTransitions[log[i].status]
          /\ log[j].status \in AllowedTransitions[log[k].status]
      BY <2>3, <1>8
    <3> QED
      BY <3>1, <3>2, TransitionsCompose
  <2> QED
    BY <2>5, <2>6, <1>3
<1> QED
  BY <1>9, <1>10

\* The model: both events agree with the first event of the run.
LEMMA SameModelFromAfar ==
    ASSUME NEW log \in Seq(LiveRunRecord), ValidHistory(log),
           NEW i \in 1..Len(log), NEW j \in 1..Len(log),
           i < j, log[i].run_id = log[j].run_id
    PROVE  log[i].model_id = log[j].model_id
<1> DEFINE prior == Prior(log, j, log[j].run_id)
           before == Prior(log, i, log[i].run_id)
<1>1. PICK h \in prior : \A x \in prior : h <= x
  <2>1. i \in prior /\ prior \in SUBSET Nat
    BY PriorIndex
  <2> HIDE DEF prior
  <2> QED
    BY <2>1, LeastNat
<1>2. i \in prior /\ h <= i /\ h \in 1..Len(log)
  BY <1>1 DEF Prior
<1>3. log[j].model_id = log[h].model_id
  <2>1. FollowsPrior(log, j, log[j]) /\ IsFirst(prior, h)
    BY <1>1 DEF ValidHistory, IsFirst
  <2> QED
    BY <2>1, <1>1 DEF FollowsPrior
<1>4. CASE h < i
  <2>1. h \in before /\ \A x \in before : x \in prior
    BY <1>1, <1>4 DEF Prior
  <2>2. IsFirst(before, h)
    BY <2>1, <1>1 DEF IsFirst
  <2>3. FollowsPrior(log, i, log[i])
    BY DEF ValidHistory
  <2>4. log[i].model_id = log[h].model_id
    BY <2>1, <2>2, <2>3 DEF FollowsPrior
  <2> QED
    BY <2>4, <1>3
<1> QED
  BY <1>2, <1>3, <1>4

\* An axis: both events agree with the first event that fills it.
LEMMA SameAxisFromAfar ==
    ASSUME NEW log \in Seq(LiveRunRecord), ValidHistory(log),
           NEW i \in 1..Len(log), NEW j \in 1..Len(log),
           i < j, log[i].run_id = log[j].run_id, NEW axis \in Axes,
           log[i].axes[axis] # None, log[j].axes[axis] # None
    PROVE  log[i].axes[axis] = log[j].axes[axis]
<1> DEFINE prior == Prior(log, j, log[j].run_id)
           before == Prior(log, i, log[i].run_id)
           filled == Filled(log, prior, axis)
<1>1. PICK h \in filled : \A x \in filled : h <= x
  <2>1. i \in filled /\ filled \in SUBSET Nat
    BY PriorIndex DEF Filled
  <2> HIDE DEF filled
  <2> QED
    BY <2>1, LeastNat
<1>2. /\ i \in filled /\ h <= i /\ h \in prior
      /\ h \in 1..Len(log) /\ log[h].axes[axis] # None
  BY <1>1 DEF Prior, Filled
<1>3. log[j].axes[axis] = log[h].axes[axis]
  <2>1. FollowsPrior(log, j, log[j]) /\ IsFirst(filled, h)
    BY <1>1 DEF ValidHistory, IsFirst
  <2> QED
    BY <2>1, <1>2 DEF FollowsPrior
<1>4. CASE h < i
  <2>1. /\ h \in before
        /\ h \in Filled(log, before, axis)
        /\ \A x \in Filled(log, before, axis) : x \in filled
    BY <1>2, <1>4 DEF Prior, Filled
  <2>2. IsFirst(Filled(log, before, axis), h)
    BY <2>1, <1>1 DEF IsFirst
  <2>3. FollowsPrior(log, i, log[i])
    BY DEF ValidHistory
  <2>4. log[i].axes[axis] = log[h].axes[axis]
    BY <2>1, <2>2, <2>3 DEF FollowsPrior
  <2> QED
    BY <2>4, <1>3
<1> QED
  BY <1>2, <1>3, <1>4

\* Validating every event against its neighbours makes the whole history
\* consistent: any two events of a run, of a history of any length.
THEOREM ValidIsConsistent ==
    ASSUME NEW log \in Seq(LiveRunRecord), ValidHistory(log)
    PROVE  ConsistentHistory(log)
<1>1. SUFFICES ASSUME NEW i \in 1..Len(log), NEW j \in 1..Len(log),
                      i < j, log[i].run_id = log[j].run_id
               PROVE  MayFollow(log[i], log[j])
  BY DEF ConsistentHistory
<1>2. /\ log[i].generated_at <= log[j].generated_at
      /\ log[j].status \in AllowedTransitions[log[i].status]
  BY <1>1, OrderedFromAfar
<1>3. log[i].model_id = log[j].model_id
  BY <1>1, SameModelFromAfar
<1>4. ASSUME NEW axis \in Axes,
             log[i].axes[axis] # None, log[j].axes[axis] # None
      PROVE  log[j].axes[axis] = log[i].axes[axis]
  BY <1>1, <1>4, SameAxisFromAfar
<1> QED
  BY <1>2, <1>3, <1>4 DEF MayFollow

-----------------------------------------------------------------------------
(* The current state of a run *)

\* A nonempty set of positions has one first and one last element, and the
\* model's choices are those.
LEMMA FirstAndLast ==
    ASSUME NEW n \in Nat, NEW S \in SUBSET (1..n), S # {}
    PROVE  /\ FirstOf(S) \in S /\ \A x : IsFirst(S, x) <=> x = FirstOf(S)
           /\ LastOf(S) \in S /\ \A x : IsLast(S, x) <=> x = LastOf(S)
<1>1. S \in SUBSET Nat /\ S \in SUBSET (0..n)
  OBVIOUS
<1>2. PICK a \in S : \A y \in S : a <= y
  BY <1>1, LeastNat
<1>3. PICK b \in S : \A y \in S : y <= b
  BY <1>1, GreatestNat
<1>4. IsFirst(S, a) /\ IsLast(S, b)
  BY <1>2, <1>3 DEF IsFirst, IsLast
<1>5. \A x : IsFirst(S, x) => x = a
  BY <1>1, <1>2 DEF IsFirst
<1>6. \A x : IsLast(S, x) => x = b
  BY <1>1, <1>3 DEF IsLast
<1>7. FirstOf(S) \in S /\ IsFirst(S, FirstOf(S))
  BY <1>4 DEF FirstOf
<1>8. LastOf(S) \in S /\ IsLast(S, LastOf(S))
  BY <1>4 DEF LastOf
<1> QED
  BY <1>5, <1>6, <1>7, <1>8

\* A later element joins the set: the first stays, the last is the new one.
LEMMA FirstAndLastJoined ==
    ASSUME NEW n \in Nat, NEW S \in SUBSET (1..n), S # {}
    PROVE  FirstOf(S \cup {n + 1}) = FirstOf(S) /\ LastOf(S \cup {n + 1}) = n + 1
<1> DEFINE T == S \cup {n + 1}
<1>1. n + 1 \in Nat /\ T \in SUBSET (1..(n + 1)) /\ T # {}
  OBVIOUS
<1>2. /\ FirstOf(S) \in S /\ IsFirst(S, FirstOf(S))
  BY FirstAndLast
<1>3. IsFirst(T, FirstOf(S)) /\ IsLast(T, n + 1)
  <2>1. FirstOf(S) \in 1..n /\ \A y \in S : FirstOf(S) <= y /\ y \in 1..n
    BY <1>2 DEF IsFirst
  <2>2. \A y \in T : FirstOf(S) <= y /\ y <= n + 1
    BY <2>1
  <2>3. FirstOf(S) \in T /\ n + 1 \in T
    BY <1>2
  <2> HIDE DEF T
  <2> QED
    BY <2>2, <2>3 DEF IsFirst, IsLast
<1> HIDE DEF T
<1>4. FirstOf(T) = FirstOf(S) /\ LastOf(T) = n + 1
  BY <1>1, <1>3, FirstAndLast
<1> QED
  BY <1>4 DEF T

\* A status may be left for itself.
LEMMA TransitionsStay == \A s \in LiveRunStatus : s \in AllowedTransitions[s]
  BY DEF LiveRunStatus, AllowedTransitions

\* An accepted event only extends the current state of every run that has one:
\* the projections of a manifest move forward whatever its length.
THEOREM AppendExtendsProjection ==
    ASSUME NEW log \in Seq(LiveRunRecord), NEW record \in LiveRunRecord,
           AcceptsNext(log, record), NEW run \in RunIds, Events(log, run) # {}
    PROVE  ProjectionExtends(Project(log, run), Project(Append(log, record), run))
<1> DEFINE n       == Len(log)
           ext     == Append(log, record)
           events  == Events(log, run)
           located == {i \in events : log[i].locator # None}
           later   == Events(ext, run)
           relocated == {i \in later : ext[i].locator # None}
           before  == Project(log, run)
           after   == Project(ext, run)
<1>1. /\ n \in Nat /\ Len(ext) = n + 1 /\ ext[n + 1] = record
      /\ \A i \in 1..n : ext[i] = log[i]
  OBVIOUS
<1>2. events \in SUBSET (1..n) /\ \A i \in events : log[i].run_id = run
  BY <1>1 DEF Events, Prior
<1>3. later = IF record.run_id = run THEN events \cup {n + 1} ELSE events
  BY <1>1 DEF Events, Prior
<1>4. \A i \in events : log[i] \in LiveRunRecord
  BY <1>2
<1>5. relocated = IF record.run_id = run /\ record.locator # None
                  THEN located \cup {n + 1} ELSE located
  <2> HIDE DEF events
  <2> QED
    BY <1>1, <1>2, <1>3
<1>6. /\ before.model_id = log[FirstOf(events)].model_id
      /\ before.status = log[LastOf(events)].status
      /\ before.first_at = log[FirstOf(events)].generated_at
      /\ before.last_at = log[LastOf(events)].generated_at
      /\ before.locator = IF located = {} THEN None ELSE log[LastOf(located)].locator
      /\ \A axis \in Axes : before.axes[axis] =
             IF Filled(log, events, axis) = {} THEN None
             ELSE log[FirstOf(Filled(log, events, axis))].axes[axis]
  BY DEF Project
<1>7. /\ after.model_id = ext[FirstOf(later)].model_id
      /\ after.status = ext[LastOf(later)].status
      /\ after.first_at = ext[FirstOf(later)].generated_at
      /\ after.last_at = ext[LastOf(later)].generated_at
      /\ after.locator = IF relocated = {} THEN None ELSE ext[LastOf(relocated)].locator
      /\ \A axis \in Axes : after.axes[axis] =
             IF Filled(ext, later, axis) = {} THEN None
             ELSE ext[FirstOf(Filled(ext, later, axis))].axes[axis]
  BY DEF Project
<1>8. /\ FirstOf(events) \in events /\ LastOf(events) \in events
      /\ IsFirst(events, FirstOf(events)) /\ IsLast(events, LastOf(events))
  BY <1>1, <1>2, FirstAndLast
<1> HIDE DEF n, ext, events, later, located, relocated, before, after
<1>9. later \in SUBSET (1..(n + 1)) /\ relocated \in SUBSET (1..(n + 1))
  <2>1. later \in SUBSET (1..(n + 1))
    <3>1. \A i \in 1..n : i \in 1..(n + 1)
      BY <1>1
    <3>2. n + 1 \in 1..(n + 1)
      BY <1>1
    <3> QED
      BY <1>2, <1>3, <3>1, <3>2
  <2> QED
    BY <2>1 DEF relocated
<1>10. /\ FirstOf(later) = FirstOf(events)
       /\ LastOf(later) = IF record.run_id = run THEN n + 1 ELSE LastOf(events)
  BY <1>1, <1>2, <1>3, FirstAndLastJoined DEF events
<1>11. record.run_id = run => FollowsPrior(log, n + 1, record) /\ events = Prior(log, n + 1, record.run_id)
  BY DEF AcceptsNext, n, events, Events
<1>12. after.model_id = before.model_id /\ after.first_at = before.first_at
  <2>1. ext[FirstOf(later)] = log[FirstOf(events)]
    BY <1>1, <1>2, <1>8, <1>10
  <2> QED
    BY <1>6, <1>7, <2>1
<1>13. after.last_at >= before.last_at /\ after.status \in AllowedTransitions[before.status]
  <2>1. CASE record.run_id = run
    <3>1. /\ log[LastOf(events)].generated_at <= record.generated_at
          /\ record.status \in AllowedTransitions[log[LastOf(events)].status]
      BY <1>8, <1>11, <2>1 DEF FollowsPrior
    <3>2. log[LastOf(events)].generated_at \in Nat /\ record.generated_at \in Nat
      BY <1>4, <1>8 DEF LiveRunRecord
    <3> QED
      BY <1>1, <1>6, <1>7, <1>10, <2>1, <3>1, <3>2
  <2>2. CASE record.run_id # run
    <3>1. log[LastOf(events)] \in LiveRunRecord /\ ext[LastOf(later)] = log[LastOf(events)]
      BY <1>1, <1>2, <1>4, <1>8, <1>10, <2>2
    <3>2. /\ log[LastOf(events)].generated_at \in Nat
          /\ log[LastOf(events)].status \in LiveRunStatus
      BY <3>1 DEF LiveRunRecord
    <3> QED
      BY <1>6, <1>7, <3>1, <3>2, TransitionsStay
  <2> QED
    BY <2>1, <2>2
<1>14. ASSUME NEW axis \in Axes, before.axes[axis] # None
       PROVE  after.axes[axis] = before.axes[axis]
  <2> DEFINE filled   == Filled(log, events, axis)
             refilled == Filled(ext, later, axis)
  <2>1. /\ filled # {} /\ before.axes[axis] = log[FirstOf(filled)].axes[axis]
    BY <1>6, <1>14
  <2>2. filled \in SUBSET (1..n)
    BY <1>2 DEF Filled
  <2>3. refilled = filled \/ refilled = filled \cup {n + 1}
    BY <1>1, <1>2, <1>3 DEF Filled
  <2> HIDE DEF filled, refilled
  <2>4. FirstOf(filled) \in filled /\ FirstOf(refilled) = FirstOf(filled) /\ refilled # {}
    <3>1. n \in Nat /\ filled # {}
      BY <1>1, <2>1
    <3>2. FirstOf(filled) \in filled
      BY <2>2, <3>1, FirstAndLast
    <3>3. FirstOf(filled \cup {n + 1}) = FirstOf(filled)
      BY <2>2, <3>1, FirstAndLastJoined
    <3> QED
      BY <2>3, <3>1, <3>2, <3>3
  <2>5. after.axes[axis] = ext[FirstOf(refilled)].axes[axis]
    BY <1>7, <2>4 DEF refilled
  <2> QED
    BY <1>1, <2>1, <2>2, <2>4, <2>5
<1>15. before.locator # None => after.locator # None
  <2> SUFFICES ASSUME before.locator # None PROVE after.locator # None
    OBVIOUS
  <2>1. located # {}
    BY <1>6
  <2>2. relocated # {}
    BY <1>5, <2>1
  <2>3. n + 1 \in Nat
    BY <1>1
  <2>4. LastOf(relocated) \in relocated
    BY <1>9, <2>2, <2>3, FirstAndLast
  <2> QED
    BY <1>7, <2>2, <2>4 DEF relocated
<1>16. ProjectionExtends(before, after)
  BY <1>12, <1>13, <1>14, <1>15 DEF ProjectionExtends
<1> QED
  BY <1>16 DEF before, after, ext
-----------------------------------------------------------------------------
(* Types and places *)

LEMMA OutcomeTypes ==
    /\ None_ \in Outcome /\ Error \in Outcome /\ Appended \in Outcome
    /\ \A seq \in Seq(LiveRunRecord) : Rows(seq) \in Outcome
  BY DEF None_, Error, Appended, Rows, Outcome

LEMMA TypeInit == Init => TypeOK
  BY BoundsAreNat, OutcomeTypes
     DEF Init, TypeOK, FilesTyped, ProcessTyped, AtItsPlace, HeldAt, PC

\* A process that returns leaves nothing open and nothing locked.
LEMMA ReturnTyped ==
    ASSUME ProcessTyped, NEW p \in Procs, NEW result \in Outcome,
           Return(p, result)
    PROVE  ProcessTyped'
<1>1. /\ pc' \in [Procs -> PC]
      /\ job' \in [Procs -> Records \cup {None}]
      /\ fd' \in [Procs -> Manifests \cup {None}]
      /\ lockFd' \in [Procs -> LockFiles \cup {None}]
      /\ holds' \in [Procs -> SUBSET {"lock", "leaf"}]
      /\ outcome' \in [Procs -> Outcome]
  BY DEF ProcessTyped, Return, PC
<1>2. ASSUME NEW q \in Procs
      PROVE  AtItsPlace(q)'
  <2>1. CASE q = p
    BY <2>1 DEF ProcessTyped, Return, AtItsPlace, HeldAt
  <2>2. CASE q # p
    BY <2>2 DEF ProcessTyped, Return, AtItsPlace
  <2> QED
    BY <2>1, <2>2
<1> QED
  BY <1>1, <1>2 DEF ProcessTyped

\* A process that goes on has what its next place needs; the others are where
\* they were.
LEMMA GotoTyped ==
    ASSUME ProcessTyped, NEW p \in Procs, NEW label \in PC, Goto(p, label),
           job' \in [Procs -> Records \cup {None}],
           fd' \in [Procs -> Manifests \cup {None}],
           lockFd' \in [Procs -> LockFiles \cup {None}],
           holds' \in [Procs -> SUBSET {"lock", "leaf"}],
           UNCHANGED outcome,
           \A q \in Procs \ {p} :
              /\ job'[q] = job[q] /\ fd'[q] = fd[q]
              /\ lockFd'[q] = lockFd[q] /\ holds'[q] = holds[q],
           AtItsPlace(p)'
    PROVE  ProcessTyped'
<1>1. pc' \in [Procs -> PC] /\ \A q \in Procs \ {p} : pc'[q] = pc[q]
  BY DEF ProcessTyped, Goto
<1>2. ASSUME NEW q \in Procs \ {p}
      PROVE  AtItsPlace(q)'
  BY <1>1 DEF ProcessTyped, AtItsPlace
<1> QED
  BY <1>1, <1>2 DEF ProcessTyped

\* The bytes of a line keep the manifests well typed.
LEMMA LineTyped ==
    ASSUME FilesTyped, NEW f \in Manifests, NEW record \in LiveRunRecord,
           \/ FinishLine(f, record)
           \/ Glue(f)
           \/ \E cut \in Cuts : CutLine(f, record, cut)
    PROVE  /\ rows' \in [Manifests -> Seq(LiveRunRecord)]
           /\ tail' \in [Manifests -> {"clean", "fragment", "unterminated", "corrupt"}]
<1>1. CASE FinishLine(f, record)
  <2>1. Append(rows[f], record) \in Seq(LiveRunRecord)
    BY DEF FilesTyped
  <2>2. CASE tail[f] \in {"clean", "fragment"}
    BY <1>1, <2>1, <2>2 DEF FilesTyped, FinishLine
  <2>3. CASE tail[f] = "unterminated"
    BY <1>1, <2>3 DEF FilesTyped, FinishLine
  <2>4. CASE tail[f] = "corrupt"
    BY <1>1, <2>4 DEF FilesTyped, FinishLine
  <2> QED
    BY <2>2, <2>3, <2>4 DEF FilesTyped
<1>2. CASE Glue(f)
  <2>1. Front(rows[f]) \in Seq(LiveRunRecord)
    BY DEF FilesTyped, Front
  <2> QED
    BY <1>2, <2>1 DEF FilesTyped, Glue
<1>3. ASSUME NEW cut \in Cuts, CutLine(f, record, cut)
      PROVE  /\ rows' \in [Manifests -> Seq(LiveRunRecord)]
             /\ tail' \in [Manifests -> {"clean", "fragment", "unterminated", "corrupt"}]
  BY <1>3, CutsAreCuts DEF FilesTyped, CutLine
<1> QED
  BY <1>1, <1>2, <1>3

LEMMA TypeStep == TypeOK /\ [Next]_vars => TypeOK'
<1> SUFFICES ASSUME TypeOK, [Next]_vars PROVE TypeOK'
  OBVIOUS
<1> USE NoneIsNoInode DEF files, process
<1>a. FilesTyped /\ ProcessTyped
  BY DEF TypeOK
<1>1. ASSUME NEW p \in Procs, NEW record \in Records, CallAppend(p, record)
      PROVE  TypeOK'
  <2>1. ProcessTyped'
    <3>1. AtItsPlace(p)'
      BY <1>1, <1>a DEF CallAppend, Goto, ProcessTyped, AtItsPlace, HeldAt
    <3> QED
      BY <1>1, <1>a, <3>1, GotoTyped DEF CallAppend, Goto, ProcessTyped, PC
  <2> QED
    BY <1>1, <2>1, BoundsAreNat DEF CallAppend, TypeOK, FilesTyped
<1>2. ASSUME NEW p \in Procs, CallRead(p)
      PROVE  TypeOK'
  <2>1. CASE manifest = None
    <3>1. ProcessTyped'
      BY <1>2, <1>a, <2>1, ReturnTyped, OutcomeTypes DEF CallRead
    <3> QED
      BY <1>2, <3>1, BoundsAreNat DEF CallRead, TypeOK, FilesTyped
  <2>2. CASE manifest # None
    <3>1. AtItsPlace(p)'
      BY <1>2, <1>a, <2>2 DEF CallRead, Goto, ProcessTyped, AtItsPlace, HeldAt
    <3>2. ProcessTyped'
      BY <1>2, <1>a, <2>2, <3>1, GotoTyped DEF CallRead, ProcessTyped, PC
    <3> QED
      BY <1>2, <3>2, BoundsAreNat DEF CallRead, TypeOK, FilesTyped
  <2> QED
    BY <2>1, <2>2
<1>3. ASSUME NEW p \in Procs, OpenLock(p)
      PROVE  TypeOK'
  <2>1. PICK f \in LockFiles : lockFile' = f /\ lockFd' = [lockFd EXCEPT ![p] = f]
    BY <1>3 DEF OpenLock
  <2>2. AtItsPlace(p)'
    BY <1>3, <1>a, <2>1 DEF OpenLock, Goto, ProcessTyped, AtItsPlace, HeldAt
  <2>3. ProcessTyped'
    BY <1>3, <1>a, <2>1, <2>2, GotoTyped DEF OpenLock, ProcessTyped, PC
  <2> QED
    BY <1>3, <2>1, <2>3 DEF OpenLock, TypeOK, FilesTyped
<1>4. ASSUME NEW p \in Procs, FlockLock(p)
      PROVE  TypeOK'
  <2>1. CASE lockFile = lockFd[p]
    <3>1. AtItsPlace(p)'
      BY <1>4, <1>a, <2>1 DEF FlockLock, Goto, ProcessTyped, AtItsPlace, HeldAt
    <3>2. ProcessTyped'
      BY <1>4, <1>a, <2>1, <3>1, GotoTyped DEF FlockLock, ProcessTyped, PC
    <3> QED
      BY <1>4, <3>2 DEF FlockLock, TypeOK, FilesTyped
  <2>2. CASE lockFile # lockFd[p]
    <3>1. ProcessTyped'
      BY <1>4, <1>a, <2>2, ReturnTyped, OutcomeTypes DEF FlockLock
    <3> QED
      BY <1>4, <3>1 DEF FlockLock, TypeOK, FilesTyped
  <2> QED
    BY <2>1, <2>2
<1>5. ASSUME NEW p \in Procs, OpenLeaf(p)
      PROVE  TypeOK'
  <2>1. CASE Return(p, Error) /\ UNCHANGED manifest
    <3>1. ProcessTyped'
      BY <1>a, <2>1, ReturnTyped, OutcomeTypes
    <3> QED
      BY <1>5, <2>1, <3>1 DEF OpenLeaf, TypeOK, FilesTyped
  <2>2. ASSUME NEW f \in Manifests, fd' = [fd EXCEPT ![p] = f], Goto(p, "flock_leaf"),
               manifest' \in Manifests \cup {None}, UNCHANGED <<job, lockFd, holds, outcome>>
        PROVE  TypeOK'
    <3>1. AtItsPlace(p)'
      BY <1>5, <1>a, <2>2 DEF OpenLeaf, Goto, ProcessTyped, AtItsPlace, HeldAt
    <3>2. ProcessTyped'
      BY <1>a, <2>2, <3>1, GotoTyped DEF ProcessTyped, PC
    <3> QED
      BY <1>5, <2>2, <3>2 DEF OpenLeaf, TypeOK, FilesTyped
  <2> QED
    BY <1>5, <1>a, <2>1, <2>2 DEF OpenLeaf, FilesTyped
<1>6. ASSUME NEW p \in Procs, FlockLeaf(p)
      PROVE  TypeOK'
  <2>1. AtItsPlace(p)'
    BY <1>6, <1>a DEF FlockLeaf, Goto, ProcessTyped, AtItsPlace, HeldAt
  <2>2. ProcessTyped'
    BY <1>6, <1>a, <2>1, GotoTyped DEF FlockLeaf, ProcessTyped, PC
  <2> QED
    BY <1>6, <2>2 DEF FlockLeaf, TypeOK, FilesTyped
<1>7. ASSUME NEW p \in Procs, ReadRows(p)
      PROVE  TypeOK'
  <2>1. fd[p] \in Manifests
    BY <1>7, <1>a DEF ReadRows, ProcessTyped, AtItsPlace
  <2>2. rows[fd[p]] \in Seq(LiveRunRecord)
    BY <1>a, <2>1 DEF FilesTyped
  <2>3. ProcessTyped'
    BY <1>7, <1>a, <2>2, ReturnTyped, OutcomeTypes DEF ReadRows
  <2> QED
    BY <1>7, <2>3 DEF ReadRows, TypeOK, FilesTyped
<1>8. ASSUME NEW p \in Procs, Validate(p)
      PROVE  TypeOK'
  <2>1. CASE Return(p, Error)
    <3>1. ProcessTyped'
      BY <1>a, <2>1, ReturnTyped, OutcomeTypes
    <3> QED
      BY <1>8, <3>1 DEF Validate, TypeOK, FilesTyped
  <2>2. CASE Goto(p, "write") /\ UNCHANGED <<job, fd, lockFd, holds, outcome>>
    <3>1. AtItsPlace(p)'
      BY <1>8, <1>a, <2>2 DEF Validate, IsAppend, Goto, ProcessTyped, AtItsPlace, HeldAt
    <3>2. ProcessTyped'
      BY <1>a, <2>2, <3>1, GotoTyped DEF ProcessTyped, PC
    <3> QED
      BY <1>8, <3>2 DEF Validate, TypeOK, FilesTyped
  <2> QED
    BY <1>8, <2>1, <2>2 DEF Validate
<1>b. ASSUME NEW p \in Procs, pc[p] \in {"write", "rewrite", "fsync", "recheck"}
      PROVE  fd[p] \in Manifests /\ job[p] \in LiveRunRecord /\ job[p] \in Records
  BY <1>a, <1>b, RecordsAreRecords DEF ProcessTyped, AtItsPlace
<1>9. ASSUME NEW p \in Procs, Write(p)
      PROVE  TypeOK'
  <2>1. /\ rows' \in [Manifests -> Seq(LiveRunRecord)]
        /\ tail' \in [Manifests -> {"clean", "fragment", "unterminated", "corrupt"}]
    BY <1>9, <1>a, <1>b, LineTyped DEF Write
  <2>2. Goto(p, "fsync") \/ Goto(p, "rewrite")
    BY <1>9 DEF Write
  <2>3. AtItsPlace(p)'
    BY <1>9, <1>a, <2>2 DEF Write, Goto, ProcessTyped, AtItsPlace, HeldAt
  <2>4. ProcessTyped'
    BY <1>9, <1>a, <2>2, <2>3, GotoTyped DEF Write, ProcessTyped, PC
  <2> QED
    BY <1>9, <2>1, <2>4 DEF Write, TypeOK, FilesTyped
<1>10. ASSUME NEW p \in Procs, Rewrite(p)
      PROVE  TypeOK'
  <2>1. /\ rows' \in [Manifests -> Seq(LiveRunRecord)]
        /\ tail' \in [Manifests -> {"clean", "fragment", "unterminated", "corrupt"}]
    BY <1>10, <1>a, <1>b, LineTyped DEF Rewrite
  <2>3. AtItsPlace(p)'
    BY <1>10, <1>a DEF Rewrite, Goto, ProcessTyped, AtItsPlace, HeldAt
  <2>4. ProcessTyped'
    BY <1>10, <1>a, <2>3, GotoTyped DEF Rewrite, ProcessTyped, PC
  <2> QED
    BY <1>10, <2>1, <2>4 DEF Rewrite, TypeOK, FilesTyped
<1>11. ASSUME NEW p \in Procs, Fsync(p)
      PROVE  TypeOK'
  <2>1. synced' \in [Manifests -> Nat]
    BY <1>11, <1>a, <1>b DEF Fsync, FilesTyped
  <2>3. AtItsPlace(p)'
    BY <1>11, <1>a DEF Fsync, Goto, ProcessTyped, AtItsPlace, HeldAt
  <2>4. ProcessTyped'
    BY <1>11, <1>a, <2>3, GotoTyped DEF Fsync, ProcessTyped, PC
  <2> QED
    BY <1>11, <2>1, <2>4 DEF Fsync, TypeOK, FilesTyped
<1>12. ASSUME NEW p \in Procs, Recheck(p)
      PROVE  TypeOK'
  <2>1. ProcessTyped'
    BY <1>12, <1>a, ReturnTyped, OutcomeTypes DEF Recheck
  <2>2. <<fd[p], Len(rows[fd[p]]), job[p]>> \in Manifests \X Nat \X Records
    BY <1>12, <1>a, <1>b DEF Recheck, FilesTyped
  <2> QED
    BY <1>12, <2>1, <2>2 DEF Recheck, TypeOK, FilesTyped
<1>13. ASSUME NEW p \in Procs, IOError(p)
      PROVE  TypeOK'
  BY <1>13, <1>a, ReturnTyped, OutcomeTypes DEF IOError, TypeOK, FilesTyped
<1>14. ASSUME NEW p \in Procs, Kill(p)
      PROVE  TypeOK'
  <2>1. ProcessTyped'
    BY <1>14, <1>a, ReturnTyped, OutcomeTypes DEF Kill
  <2> QED
    BY <1>14, <2>1, BoundsAreNat DEF Kill, Fault, TypeOK, FilesTyped
<1>15. ASSUME PowerLoss
      PROVE  TypeOK'
  <2>1. ProcessTyped'
    BY <1>15, OutcomeTypes DEF PowerLoss, ProcessTyped, AtItsPlace, HeldAt, PC
  <2>2. ASSUME NEW f \in Manifests, NEW image \in AfterPowerLoss(f)
        PROVE  /\ image[1] \in Seq(LiveRunRecord)
               /\ image[2] \in {"clean", "fragment", "unterminated", "corrupt"}
    <3>1. rows[f] \in Seq(LiveRunRecord) /\ synced[f] \in Nat
      BY <1>a DEF FilesTyped
    <3>2. \A n \in synced[f]..(Len(rows[f]) - 1) : SubSeq(rows[f], 1, n) \in Seq(LiveRunRecord)
      BY <3>1
    <3>3. \/ image = <<rows[f], tail[f]>>
          \/ \E n \in synced[f]..(Len(rows[f]) - 1), t \in {"clean", "fragment"} :
                image = <<SubSeq(rows[f], 1, n), t>>
          \/ image = <<rows[f], "clean">>
      BY <2>2 DEF AfterPowerLoss
    <3>4. tail[f] \in {"clean", "fragment", "unterminated", "corrupt"}
      BY <1>a DEF FilesTyped
    <3> QED
      BY <3>1, <3>2, <3>3, <3>4
  <2>3. PICK image : /\ \A f \in Manifests : image[f] \in AfterPowerLoss(f)
                     /\ rows' = [f \in Manifests |-> image[f][1]]
                     /\ tail' = [f \in Manifests |-> image[f][2]]
                     /\ synced' = [f \in Manifests |-> Len(image[f][1])]
    BY <1>15 DEF PowerLoss
  <2>4. FilesTyped'
    <3>1. \A f \in Manifests :
             /\ image[f][1] \in Seq(LiveRunRecord)
             /\ image[f][2] \in {"clean", "fragment", "unterminated", "corrupt"}
      BY <2>2, <2>3
    <3>2. \A f \in Manifests : Len(image[f][1]) \in Nat
      BY <3>1
    <3> QED
      BY <1>15, <1>a, <2>3, <3>1, <3>2 DEF PowerLoss, FilesTyped
  <2> QED
    BY <1>15, <2>1, <2>4, BoundsAreNat DEF PowerLoss, Fault, TypeOK
<1>16. ASSUME RemoveLockFile
      PROVE  TypeOK'
  BY <1>16, <1>a, BoundsAreNat
     DEF RemoveLockFile, Fault, TypeOK, FilesTyped, ProcessTyped, AtItsPlace
<1>17. ASSUME NEW f \in Manifests, NEW content \in Restores, Restore(f, content)
      PROVE  TypeOK'
  <2>1. FilesTyped'
    BY <1>17, <1>a, RestoresAreRows DEF Restore, FilesTyped
  <2>2. ProcessTyped'
    BY <1>17, <1>a DEF Restore, ProcessTyped, AtItsPlace
  <2> QED
    BY <1>17, <2>1, <2>2, BoundsAreNat DEF Restore, Fault, TypeOK
<1>18. CASE UNCHANGED vars
  BY <1>18 DEF vars, TypeOK, FilesTyped, ProcessTyped, AtItsPlace
<1> QED
  BY <1>1, <1>2, <1>3, <1>4, <1>5, <1>6, <1>7, <1>8, <1>9, <1>10, <1>11,
     <1>12, <1>13, <1>14, <1>15, <1>16, <1>17, <1>18
     DEF Next, Advance, AllReturned

\* Every state is well typed, and no process ever holds a descriptor or a
\* flock that its place in append_live_run or read_live_runs does not call for.
THEOREM TypeCorrect == Spec => []TypeOK
  BY TypeInit, TypeStep, PTL DEF Spec

-----------------------------------------------------------------------------
(* Locks and histories *)

LEMMA HistoryInit == Init => HistoryInv
<1> SUFFICES ASSUME Init PROVE HistoryInv
  OBVIOUS
<1>1. TypeOK
  BY TypeInit
<1>2. Excluded /\ AcceptedTillWritten
  BY DEF Init, Excluded, AcceptedTillWritten
<1>3. OnlyRestoredInvalid
  BY DEF Init, OnlyRestoredInvalid, ValidHistory
<1> QED
  BY <1>1, <1>2, <1>3 DEF HistoryInv

\* A step in which nobody newly gets a leaf's flock keeps the exclusion.
LEMMA ExcludedFrame ==
    ASSUME Excluded,
           \A p \in Procs : "leaf" \in holds'[p] =>
              "leaf" \in holds[p] /\ fd'[p] = fd[p] /\ job'[p] = job[p]
    PROVE  Excluded'
  BY DEF Excluded, IsAppend

\* A step that writes no manifest and lets nobody start to write keeps what
\* appenders have validated.
LEMMA AcceptedFrame ==
    ASSUME AcceptedTillWritten, UNCHANGED <<rows, tail>>,
           \A p \in Procs : pc'[p] \in {"write", "rewrite"} =>
              pc'[p] = pc[p] /\ fd'[p] = fd[p] /\ job'[p] = job[p]
    PROVE  AcceptedTillWritten'
  BY DEF AcceptedTillWritten

LEMMA RestoredFrame ==
    ASSUME OnlyRestoredInvalid, UNCHANGED <<rows, synced>>
    PROVE  OnlyRestoredInvalid'
  BY DEF OnlyRestoredInvalid

\* What a process that has a file to write to holds.
LEMMA AppenderAlone ==
    ASSUME TypeOK, Excluded, NEW p \in Procs,
           pc[p] \in {"write", "rewrite", "fsync", "recheck"}
    PROVE  /\ fd[p] \in Manifests
           /\ job[p] \in LiveRunRecord
           /\ \A q \in Procs \ {p} :
                 pc[q] \in {"write", "rewrite", "fsync", "recheck"} => fd[q] # fd[p]
<1>1. fd[p] \in Manifests /\ job[p] \in LiveRunRecord
  BY NoneIsNoInode, RecordsAreRecords DEF TypeOK, ProcessTyped, AtItsPlace
<1>2. ASSUME NEW q \in Procs, pc[q] \in {"write", "rewrite", "fsync", "recheck"}
      PROVE  "leaf" \in holds[q] /\ IsAppend(q)
  BY <1>2 DEF TypeOK, ProcessTyped, AtItsPlace, HeldAt, IsAppend
<1> QED
  BY <1>1, <1>2 DEF Excluded

LEMMA ValidFront ==
    ASSUME NEW seq \in Seq(LiveRunRecord), ValidHistory(seq)
    PROVE  ValidHistory(Front(seq))
<1>1. CASE seq = <<>>
  BY <1>1 DEF Front, ValidHistory
<1>2. CASE seq # <<>>
  <2>1. Len(seq) - 1 \in 0..Len(seq)
    BY <1>2
  <2> QED
    BY <2>1, ValidPrefix DEF Front
<1> QED
  BY <1>1, <1>2

\* Writing a line, or the rest of one, onto the file under the flock.
LEMMA FinishLineKeeps ==
    ASSUME HistoryInv, NEW p \in Procs, pc[p] \in {"write", "rewrite"},
           pc[p] = "write" => tail[fd[p]] = "clean",
           FinishLine(fd[p], job[p]), UNCHANGED synced
    PROVE  /\ OnlyRestoredInvalid'
           /\ \A f \in Manifests \ {fd[p]} : rows'[f] = rows[f] /\ tail'[f] = tail[f]
<1> DEFINE f == fd[p]
<1>1. /\ f \in Manifests /\ job[p] \in LiveRunRecord
      /\ rows \in [Manifests -> Seq(LiveRunRecord)]
      /\ tail \in [Manifests -> {"clean", "fragment", "unterminated", "corrupt"}]
  BY AppenderAlone DEF HistoryInv, TypeOK, FilesTyped
<1>2. CASE tail[f] \in {"clean", "fragment"}
  <2>1. AcceptsNext(rows[f], job[p])
    BY <1>2 DEF HistoryInv, AcceptedTillWritten
  <2>2. ValidHistory(Append(rows[f], job[p]))
    BY <1>1, <2>1, ValidAppend
  <2>3. /\ rows' = [rows EXCEPT ![f] = Append(@, job[p])]
        /\ tail' = [tail EXCEPT ![f] = "clean"]
    BY <1>2 DEF FinishLine
  <2> QED
    BY <1>1, <2>2, <2>3 DEF HistoryInv, OnlyRestoredInvalid
<1>3. CASE tail[f] \in {"unterminated", "corrupt"}
  <2>1. rows' = rows /\ (tail' = tail \/ tail' = [tail EXCEPT ![f] = "clean"])
    BY <1>3 DEF FinishLine
  <2> QED
    BY <1>1, <2>1, RestoredFrame DEF HistoryInv
<1> QED
  BY <1>1, <1>2, <1>3

\* An appender's write: the whole line, a cut one, or one glued to another's.
LEMMA WriteKeeps ==
    ASSUME HistoryInv, NEW p \in Procs, Write(p)
    PROVE  /\ OnlyRestoredInvalid'
           /\ \A f \in Manifests \ {fd[p]} : rows'[f] = rows[f] /\ tail'[f] = tail[f]
           /\ pc'[p] = "rewrite" /\ tail'[fd[p]] \in {"clean", "fragment"}
                => AcceptsNext(rows'[fd[p]], job[p])
<1> DEFINE f == fd[p]
<1>1. /\ f \in Manifests /\ job[p] \in LiveRunRecord
      /\ rows \in [Manifests -> Seq(LiveRunRecord)]
      /\ tail \in [Manifests -> {"clean", "fragment", "unterminated", "corrupt"}]
      /\ pc[p] = "write" /\ pc \in [Procs -> PC] /\ UNCHANGED <<synced, fd, job>>
  BY AppenderAlone DEF HistoryInv, TypeOK, FilesTyped, ProcessTyped, Write
<1>2. AcceptsNext(rows[f], job[p])
  BY <1>1 DEF HistoryInv, AcceptedTillWritten
<1>3. CASE tail[f] = "clean" /\ FinishLine(f, job[p]) /\ Goto(p, "fsync")
  BY <1>1, <1>3, FinishLineKeeps DEF Goto
<1>4. ASSUME NEW cut \in Cuts, CutLine(f, job[p], cut)
      PROVE  /\ OnlyRestoredInvalid'
             /\ \A g \in Manifests \ {f} : rows'[g] = rows[g] /\ tail'[g] = tail[g]
             /\ tail'[f] \in {"clean", "fragment"} => AcceptsNext(rows'[f], job[p])
  <2>1. cut \in {"fragment", "unterminated"}
    BY CutsAreCuts
  <2>2. ValidHistory(Append(rows[f], job[p])) /\ ValidHistory(rows[f])
    BY <1>1, <1>2, ValidAppend DEF AcceptsNext
  <2>3. ValidHistory(rows'[f]) /\ (tail'[f] = "fragment" => rows'[f] = rows[f])
    BY <1>1, <1>4, <2>1, <2>2 DEF CutLine
  <2>4. \A g \in Manifests \ {f} : rows'[g] = rows[g] /\ tail'[g] = tail[g]
    BY <1>1, <1>4 DEF CutLine
  <2>5. OnlyRestoredInvalid'
    BY <1>1, <2>3, <2>4 DEF HistoryInv, OnlyRestoredInvalid
  <2>6. tail'[f] = cut
    BY <1>1, <1>4 DEF CutLine
  <2> QED
    BY <1>2, <2>1, <2>3, <2>4, <2>5, <2>6
<1>5. CASE Glue(f)
  <2>1. ValidHistory(Front(rows[f]))
    BY <1>1, <1>2, ValidFront DEF AcceptsNext
  <2>2. /\ ValidHistory(rows'[f]) /\ tail'[f] = "corrupt"
        /\ \A g \in Manifests \ {f} : rows'[g] = rows[g] /\ tail'[g] = tail[g]
    BY <1>1, <1>5, <2>1 DEF Glue
  <2> QED
    BY <1>1, <2>2 DEF HistoryInv, OnlyRestoredInvalid
<1> QED
  BY <1>3, <1>4, <1>5 DEF Write

LEMMA HistoryStep == HistoryInv /\ [Next]_vars => HistoryInv'
<1> SUFFICES ASSUME HistoryInv, [Next]_vars PROVE HistoryInv'
  OBVIOUS
<1>a. TypeOK'
  BY TypeStep DEF HistoryInv
<1>b. TypeOK /\ Excluded /\ AcceptedTillWritten /\ OnlyRestoredInvalid
  BY DEF HistoryInv
<1>c. /\ pc \in [Procs -> PC] /\ job \in [Procs -> Records \cup {None}]
      /\ fd \in [Procs -> Manifests \cup {None}]
      /\ holds \in [Procs -> SUBSET {"lock", "leaf"}]
      /\ \A p \in Procs : holds[p] = HeldAt(pc[p])
  BY <1>b DEF TypeOK, ProcessTyped, AtItsPlace
<1> USE DEF files, process
\* A call that returns lets go; nobody else is touched.
<1>d. ASSUME NEW p \in Procs, NEW result, Return(p, result),
             UNCHANGED <<rows, tail, synced>>
      PROVE  HistoryInv'
  <2>1. \A q \in Procs : \/ pc'[q] = "idle" /\ holds'[q] = {}
                         \/ /\ pc'[q] = pc[q] /\ holds'[q] = holds[q]
                            /\ fd'[q] = fd[q] /\ job'[q] = job[q]
    BY <1>c, <1>d DEF Return
  <2> QED
    BY <1>a, <1>b, <1>d, <2>1, ExcludedFrame, AcceptedFrame, RestoredFrame DEF HistoryInv
\* A step before the process has the leaf's flock.
<1>e. ASSUME NEW p \in Procs, UNCHANGED <<rows, tail, synced>>,
             "leaf" \notin holds'[p], pc'[p] \notin {"write", "rewrite"},
             \A q \in Procs \ {p} :
                /\ pc'[q] = pc[q] /\ holds'[q] = holds[q]
                /\ fd'[q] = fd[q] /\ job'[q] = job[q]
      PROVE  HistoryInv'
  BY <1>a, <1>b, <1>e, ExcludedFrame, AcceptedFrame, RestoredFrame DEF HistoryInv
\* A step of a process that keeps its file, its job and its flocks, and stops
\* nobody else's.
<1>f. ASSUME NEW p \in Procs, NEW label, Goto(p, label), UNCHANGED <<job, fd, holds>>
      PROVE  /\ Excluded'
             /\ \A q \in Procs \ {p} : pc'[q] = pc[q]
             /\ pc'[p] = label
  BY <1>b, <1>c, <1>f, ExcludedFrame DEF Goto
<1>1. ASSUME NEW p \in Procs, NEW record \in Records, CallAppend(p, record)
      PROVE  HistoryInv'
  <2>1. "leaf" \notin holds'[p]
    BY <1>1, <1>c DEF CallAppend, HeldAt
  <2> QED
    BY <1>1, <1>c, <1>e, <2>1 DEF CallAppend, Goto
<1>2. ASSUME NEW p \in Procs, CallRead(p)
      PROVE  HistoryInv'
  <2>1. CASE manifest = None
    BY <1>2, <2>1, <1>d DEF CallRead
  <2>2. CASE manifest # None
    <3>1. "leaf" \notin holds'[p]
      BY <1>2, <1>c, <2>2 DEF CallRead, HeldAt
    <3> QED
      BY <1>2, <1>c, <1>e, <2>2, <3>1 DEF CallRead, Goto
  <2> QED
    BY <2>1, <2>2
<1>3. ASSUME NEW p \in Procs, OpenLock(p)
      PROVE  HistoryInv'
  <2>1. "leaf" \notin holds'[p]
    BY <1>3, <1>c DEF OpenLock, HeldAt
  <2> QED
    BY <1>3, <1>c, <1>e, <2>1 DEF OpenLock, Goto
<1>4. ASSUME NEW p \in Procs, FlockLock(p)
      PROVE  HistoryInv'
  <2>1. CASE lockFile = lockFd[p]
    <3>1. "leaf" \notin holds'[p]
      BY <1>4, <1>c, <2>1 DEF FlockLock, HeldAt
    <3> QED
      BY <1>4, <1>c, <1>e, <2>1, <3>1 DEF FlockLock, Goto
  <2>2. CASE lockFile # lockFd[p]
    BY <1>4, <2>2, <1>d DEF FlockLock
  <2> QED
    BY <2>1, <2>2
<1>5. ASSUME NEW p \in Procs, OpenLeaf(p)
      PROVE  HistoryInv'
  <2>1. CASE Return(p, Error)
    BY <1>5, <2>1, <1>d DEF OpenLeaf
  <2>2. ASSUME NEW f \in Manifests, fd' = [fd EXCEPT ![p] = f],
               Goto(p, "flock_leaf"), UNCHANGED <<job, holds>>
        PROVE  HistoryInv'
    <3>1. "leaf" \notin holds'[p]
      BY <1>5, <1>c, <2>2 DEF OpenLeaf, HeldAt
    <3> QED
      BY <1>5, <1>c, <1>e, <2>2, <3>1 DEF OpenLeaf, Goto
  <2>3. manifest \in Manifests \cup {None}
    BY <1>b DEF TypeOK, FilesTyped
  <2> QED
    BY <1>5, <2>1, <2>2, <2>3 DEF OpenLeaf
<1>6. ASSUME NEW p \in Procs, FlockLeaf(p)
      PROVE  HistoryInv'
  <2>1. /\ UNCHANGED <<rows, tail, synced, job, fd>>
        /\ \A q \in Procs \ {p} : pc'[q] = pc[q] /\ holds'[q] = holds[q]
        /\ pc'[p] = "validate"
    BY <1>6, <1>c DEF FlockLeaf, Goto
  <2>2. \A q \in Procs \ {p} : "leaf" \in holds[q] /\ fd[q] = fd[p]
                                  => ~IsAppend(p) /\ ~IsAppend(q)
    BY <1>6 DEF FlockLeaf, MayLock
  <2>3. Excluded'
    BY <1>b, <2>1, <2>2 DEF Excluded, IsAppend
  <2>4. AcceptedTillWritten'
    BY <1>b, <2>1, AcceptedFrame
  <2> QED
    BY <1>a, <1>b, <2>1, <2>3, <2>4, RestoredFrame DEF HistoryInv
<1>7. ASSUME NEW p \in Procs, ReadRows(p)
      PROVE  HistoryInv'
  BY <1>7, <1>d DEF ReadRows
<1>8. ASSUME NEW p \in Procs, Validate(p)
      PROVE  HistoryInv'
  <2>1. CASE Return(p, Error)
    BY <1>8, <2>1, <1>d DEF Validate
  <2>2. CASE /\ AcceptsNext(rows[fd[p]], job[p])
             /\ Goto(p, "write") /\ UNCHANGED <<job, fd, holds>>
    <3>1. UNCHANGED <<rows, tail, synced>>
      BY <1>8 DEF Validate
    <3>2. /\ Excluded' /\ pc'[p] = "write"
          /\ \A q \in Procs \ {p} : pc'[q] = pc[q]
      BY <2>2, <1>f
    <3>3. AcceptedTillWritten'
      BY <1>b, <2>2, <3>1, <3>2 DEF AcceptedTillWritten
    <3> QED
      BY <1>a, <1>b, <3>1, <3>2, <3>3, RestoredFrame DEF HistoryInv
  <2> QED
    BY <1>8, <2>1, <2>2 DEF Validate
<1>9. ASSUME NEW p \in Procs, Write(p)
      PROVE  HistoryInv'
  <2>1. PICK label \in {"fsync", "rewrite"} : Goto(p, label)
    BY <1>9 DEF Write
  <2>2. /\ Excluded' /\ pc'[p] = label /\ UNCHANGED <<job, fd, holds>>
        /\ \A q \in Procs \ {p} : pc'[q] = pc[q]
    BY <1>9, <2>1, <1>f DEF Write
  <2>3. pc[p] = "write"
    BY <1>9 DEF Write
  <2>4. \A q \in Procs \ {p} : pc[q] \in {"write", "rewrite"} =>
           fd[q] \in Manifests \ {fd[p]}
    BY <1>b, <2>3, AppenderAlone
  <2>5. AcceptedTillWritten'
    BY <1>9, <1>b, <2>1, <2>2, <2>4, WriteKeeps DEF AcceptedTillWritten
  <2> QED
    BY <1>9, <1>a, <2>2, <2>5, WriteKeeps DEF HistoryInv
<1>10. ASSUME NEW p \in Procs, Rewrite(p)
      PROVE  HistoryInv'
  <2>1. /\ Excluded' /\ pc'[p] = "fsync" /\ UNCHANGED <<job, fd, holds, synced>>
        /\ \A q \in Procs \ {p} : pc'[q] = pc[q]
    BY <1>10, <1>f DEF Rewrite
  <2>2. pc[p] = "rewrite" /\ FinishLine(fd[p], job[p])
    BY <1>10 DEF Rewrite
  <2>3. /\ OnlyRestoredInvalid'
        /\ \A f \in Manifests \ {fd[p]} : rows'[f] = rows[f] /\ tail'[f] = tail[f]
    BY <2>1, <2>2, FinishLineKeeps
  <2>4. \A q \in Procs \ {p} : pc[q] \in {"write", "rewrite"} =>
           fd[q] \in Manifests \ {fd[p]}
    BY <1>b, <2>2, AppenderAlone
  <2>5. AcceptedTillWritten'
    BY <1>b, <2>1, <2>3, <2>4 DEF AcceptedTillWritten
  <2> QED
    BY <1>a, <2>1, <2>3, <2>5 DEF HistoryInv
<1>11. ASSUME NEW p \in Procs, Fsync(p)
      PROVE  HistoryInv'
  <2>1. /\ Excluded' /\ pc'[p] = "recheck" /\ UNCHANGED <<job, fd, holds, rows, tail>>
        /\ \A q \in Procs \ {p} : pc'[q] = pc[q]
    BY <1>11, <1>f DEF Fsync
  <2>2. AcceptedTillWritten'
    BY <1>b, <2>1, AcceptedFrame
  <2>3. fd[p] \in Manifests
    BY <1>11, <1>b, AppenderAlone DEF Fsync
  <2>4. OnlyRestoredInvalid'
    <3>1. /\ synced \in [Manifests -> Nat]
          /\ \A f \in Manifests : Len(rows[f]) \in Nat
      BY <1>b DEF TypeOK, FilesTyped
    <3>2. \A f \in Manifests : synced'[f] = IF f = fd[p] THEN Len(rows[f]) ELSE synced[f]
      BY <1>11, <2>3, <3>1 DEF Fsync
    <3> QED
      BY <1>b, <2>1, <3>1, <3>2 DEF OnlyRestoredInvalid
  <2> QED
    BY <1>a, <2>1, <2>2, <2>4 DEF HistoryInv
<1>12. ASSUME NEW p \in Procs, Recheck(p)
      PROVE  HistoryInv'
  BY <1>12, <1>d DEF Recheck
<1>13. ASSUME NEW p \in Procs, IOError(p)
      PROVE  HistoryInv'
  BY <1>13, <1>d DEF IOError
<1>14. ASSUME NEW p \in Procs, Kill(p)
      PROVE  HistoryInv'
  BY <1>14, <1>d DEF Kill
<1>15. ASSUME PowerLoss
      PROVE  HistoryInv'
  <2>1. Excluded' /\ AcceptedTillWritten'
    BY <1>15 DEF PowerLoss, Excluded, AcceptedTillWritten
  <2>2. PICK image : /\ \A f \in Manifests : image[f] \in AfterPowerLoss(f)
                     /\ rows' = [f \in Manifests |-> image[f][1]]
                     /\ synced' = [f \in Manifests |-> Len(image[f][1])]
    BY <1>15 DEF PowerLoss
  <2>3. ASSUME NEW f \in Manifests
        PROVE  \/ ValidHistory(image[f][1])
               \/ image[f][1] \in Restores
    <3>1. rows[f] \in Seq(LiveRunRecord) /\ synced[f] \in Nat
      BY <1>b DEF TypeOK, FilesTyped
    <3>2. CASE image[f][1] = rows[f]
      BY <1>b, <3>2 DEF OnlyRestoredInvalid
    <3>3. ASSUME NEW n \in synced[f]..(Len(rows[f]) - 1),
                 image[f][1] = SubSeq(rows[f], 1, n)
          PROVE  ValidHistory(image[f][1])
      <4>1. n \in 0..Len(rows[f]) /\ ~(synced[f] >= Len(rows[f]))
        BY <3>1
      <4>2. ValidHistory(rows[f])
        BY <1>b, <4>1 DEF OnlyRestoredInvalid
      <4> QED
        BY <3>1, <3>3, <4>1, <4>2, ValidPrefix
    <3>4. \/ image[f] = <<rows[f], tail[f]>>
          \/ \E n \in synced[f]..(Len(rows[f]) - 1), t \in {"clean", "fragment"} :
                image[f] = <<SubSeq(rows[f], 1, n), t>>
          \/ image[f] = <<rows[f], "clean">>
      BY <2>2 DEF AfterPowerLoss
    <3> QED
      BY <3>2, <3>3, <3>4
  <2>4. \A f \in Manifests : Len(rows'[f]) \in Nat
    BY <1>a DEF TypeOK, FilesTyped
  <2>5. OnlyRestoredInvalid'
    BY <2>2, <2>3, <2>4 DEF OnlyRestoredInvalid
  <2> QED
    BY <1>a, <2>1, <2>5 DEF HistoryInv
<1>16. ASSUME RemoveLockFile
      PROVE  HistoryInv'
  BY <1>16, <1>a, <1>b, ExcludedFrame, AcceptedFrame, RestoredFrame
     DEF RemoveLockFile, HistoryInv
<1>17. ASSUME NEW f \in Manifests, NEW content \in Restores, Restore(f, content)
      PROVE  HistoryInv'
  <2>1. Excluded'
    BY <1>17, <1>b, ExcludedFrame DEF Restore
  <2>2. \A p \in Procs : fd[p] # f
    BY <1>17 DEF Restore, FreshManifest
  <2>3. /\ rows' = [rows EXCEPT ![f] = content]
        /\ synced' = [synced EXCEPT ![f] = Len(content)]
        /\ UNCHANGED <<tail, pc, job, fd>>
    BY <1>17 DEF Restore
  <2>4. AcceptedTillWritten'
    <3>1. \A p \in Procs : pc[p] \in {"write", "rewrite"} => rows'[fd[p]] = rows[fd[p]]
      BY <1>b, <2>2, <2>3, AppenderAlone DEF TypeOK, FilesTyped
    <3> QED
      BY <1>b, <2>3, <3>1 DEF AcceptedTillWritten
  <2>5. OnlyRestoredInvalid'
    <3>1. /\ rows \in [Manifests -> Seq(LiveRunRecord)]
          /\ synced \in [Manifests -> Nat] /\ Len(content) \in Nat
      BY <1>b, RestoresAreRows DEF TypeOK, FilesTyped
    <3>2. \A g \in Manifests :
             /\ rows'[g] = IF g = f THEN content ELSE rows[g]
             /\ synced'[g] = IF g = f THEN Len(content) ELSE synced[g]
      BY <2>3, <3>1
    <3> QED
      BY <1>b, <3>1, <3>2 DEF OnlyRestoredInvalid
  <2> QED
    BY <1>a, <2>1, <2>4, <2>5 DEF HistoryInv
<1>18. CASE UNCHANGED vars
  <2>1. UNCHANGED <<rows, tail, synced, pc, job, fd, holds>>
    BY <1>18 DEF vars
  <2> QED
    BY <1>a, <1>b, <2>1, ExcludedFrame, AcceptedFrame, RestoredFrame DEF HistoryInv
<1> QED
  BY <1>1, <1>2, <1>3, <1>4, <1>5, <1>6, <1>7, <1>8, <1>9, <1>10, <1>11,
     <1>12, <1>13, <1>14, <1>15, <1>16, <1>17, <1>18
     DEF Next, Advance, AllReturned

THEOREM HistoryCorrect == Spec => []HistoryInv
  BY HistoryInit, HistoryStep, PTL DEF Spec

\* What an appender validated is still acceptable when it writes, whatever
\* happened to the lock file and whoever else was about.
THEOREM WritesStillAccepted == Spec => []StillAccepted
<1>1. HistoryInv => StillAccepted
  BY DEF HistoryInv, AcceptedTillWritten, StillAccepted
<1> QED
  BY <1>1, HistoryCorrect, PTL

\* No append, failed, cut, glued or lost in part, ever makes a manifest's
\* history invalid.
THEOREM ManifestsStayValid == Spec => []ManifestIsValid
<1>1. HistoryInv => ManifestIsValid
  BY DEF HistoryInv, OnlyRestoredInvalid, ManifestIsValid
<1> QED
  BY <1>1, HistoryCorrect, PTL

\* A read returns a history in which any two events of a run are consistent,
\* or an error.
THEOREM ReadsAreConsistent == Spec => []ReadsConsistentHistory
<1>1. Init => ReadsConsistentHistory
  BY DEF Init, ReadsConsistentHistory, None_
<1>2. TypeOK /\ ReadsConsistentHistory /\ [Next]_vars => ReadsConsistentHistory'
  <2> SUFFICES ASSUME TypeOK, ReadsConsistentHistory, [Next]_vars,
                      NEW q \in Procs, outcome'[q].status = "rows"
               PROVE  ConsistentHistory(outcome'[q].rows)
    BY DEF ReadsConsistentHistory
  <2>1. outcome \in [Procs -> Outcome]
    BY DEF TypeOK, ProcessTyped
  <2>2. ASSUME NEW p \in Procs, NEW result \in {None_, Error, Appended}, Return(p, result)
        PROVE  outcome'[q] = outcome[q]
    BY <2>1, <2>2 DEF Return, None_, Error, Appended
  <2>3. ASSUME NEW p \in Procs, ReadRows(p), outcome'[q] # outcome[q]
        PROVE  ConsistentHistory(outcome'[q].rows)
    <3>1. Return(p, Rows(rows[fd[p]])) /\ ValidHistory(rows[fd[p]])
      BY <2>2, <2>3 DEF ReadRows
    <3>2. fd[p] \in Manifests
      BY <2>3 DEF ReadRows, TypeOK, ProcessTyped, AtItsPlace
    <3>3. rows[fd[p]] \in Seq(LiveRunRecord)
      BY <3>2 DEF TypeOK, FilesTyped
    <3>4. outcome'[q].rows = rows[fd[p]]
      BY <2>1, <2>3, <3>1 DEF Return, Rows
    <3> QED
      BY <3>1, <3>3, <3>4, ValidIsConsistent
  <2>4. CASE outcome'[q] = outcome[q]
    BY <2>4 DEF ReadsConsistentHistory
  <2>5. CASE outcome'[q] # outcome[q]
    <3>1. CASE \E p \in Procs : ReadRows(p)
      BY <2>3, <2>5, <3>1
    <3>2. CASE \E p \in Procs :
                  CallRead(p) \/ FlockLock(p) \/ OpenLeaf(p) \/ Validate(p)
                  \/ Recheck(p) \/ IOError(p) \/ Kill(p)
      BY <2>2, <2>5, <3>2
         DEF CallRead, FlockLock, OpenLeaf, Validate, Recheck, IOError, Kill
    <3>3. CASE PowerLoss
      BY <3>3 DEF PowerLoss, None_
    <3>4. CASE \/ \E p \in Procs, record \in Records : CallAppend(p, record)
               \/ \E p \in Procs : OpenLock(p) \/ FlockLeaf(p) \/ Write(p)
                                   \/ Rewrite(p) \/ Fsync(p)
               \/ RemoveLockFile \/ AllReturned \/ UNCHANGED vars
               \/ \E f \in Manifests, content \in Restores : Restore(f, content)
      BY <2>5, <3>4
         DEF CallAppend, OpenLock, FlockLeaf, Write, Rewrite, Fsync, RemoveLockFile,
             AllReturned, vars, Restore, process
    <3> QED
      BY <3>1, <3>2, <3>3, <3>4 DEF Next, Advance
  <2> QED
    BY <2>4, <2>5
<1> QED
  BY <1>1, <1>2, TypeCorrect, PTL DEF Spec

-----------------------------------------------------------------------------
(* Durability, when no short write stops just before a newline *)

LEMMA DurabilityInit == Init => DurabilityInv
  BY DEF Init, DurabilityInv

\* Steps that leave the files and the acknowledged rows alone, and let nobody
\* reach the fsync or the recheck.
LEMMA DurabilityFrame ==
    ASSUME DurabilityInv, UNCHANGED <<rows, tail, synced, acked>>,
           \A p \in Procs : pc'[p] \in {"fsync", "recheck"} =>
              pc'[p] = pc[p] /\ fd'[p] = fd[p] /\ job'[p] = job[p]
    PROVE  DurabilityInv'
  BY DEF DurabilityInv

\* A row appended to the file a process has to itself.
LEMMA DurabilityAppend ==
    ASSUME TypeOK, Excluded, DurabilityInv, NEW p \in Procs,
           pc[p] \in {"write", "rewrite"}, Goto(p, "fsync"),
           rows' = [rows EXCEPT ![fd[p]] = Append(@, job[p])],
           tail' = [tail EXCEPT ![fd[p]] = "clean"],
           UNCHANGED <<synced, fd, job, acked>>
    PROVE  DurabilityInv'
<1> DEFINE f == fd[p]
<1>1. /\ f \in Manifests /\ job[p] \in LiveRunRecord
      /\ rows \in [Manifests -> Seq(LiveRunRecord)]
      /\ tail \in [Manifests -> {"clean", "fragment", "unterminated", "corrupt"}]
      /\ synced \in [Manifests -> Nat] /\ pc \in [Procs -> PC]
      /\ acked \subseteq Manifests \X Nat \X Records
  BY AppenderAlone DEF TypeOK, FilesTyped, ProcessTyped
<1>2. /\ rows[f] \in Seq(LiveRunRecord)
      /\ Len(rows'[f]) = Len(rows[f]) + 1
      /\ rows'[f][Len(rows[f]) + 1] = job[p]
      /\ \A i \in 1..Len(rows[f]) : rows'[f][i] = rows[f][i]
      /\ \A g \in Manifests \ {f} : rows'[g] = rows[g]
  BY <1>1
<1>3. ASSUME NEW g \in Manifests
      PROVE  tail'[g] \in {"clean", "fragment"} /\ synced'[g] <= Len(rows'[g])
  BY <1>1, <1>2 DEF DurabilityInv
<1>4. ASSUME NEW a \in acked'
      PROVE  a[2] \in 1..synced'[a[1]] /\ rows'[a[1]][a[2]] = a[3]
  <2>1. /\ a[1] \in Manifests /\ a[2] \in 1..synced[a[1]]
        /\ synced[a[1]] <= Len(rows[a[1]]) /\ rows[a[1]][a[2]] = a[3]
    BY <1>1 DEF DurabilityInv
  <2>2. a[2] \in 1..Len(rows[a[1]])
    BY <1>1, <2>1
  <2> QED
    BY <1>2, <2>1, <2>2
<1>5. ASSUME NEW q \in Procs, pc'[q] \in {"fsync", "recheck"}
      PROVE  /\ Len(rows'[fd'[q]]) > 0 /\ rows'[fd'[q]][Len(rows'[fd'[q]])] = job'[q]
             /\ pc'[q] = "recheck" => synced'[fd'[q]] = Len(rows'[fd'[q]])
  <2>1. CASE q = p
    BY <1>1, <1>2, <2>1 DEF Goto
  <2>2. CASE q # p
    <3>1. pc'[q] = pc[q]
      BY <1>1, <2>2 DEF Goto
    <3>2. fd[q] \in Manifests \ {f}
      BY <1>5, <2>2, <3>1, AppenderAlone
    <3> QED
      BY <1>2, <1>5, <3>1, <3>2 DEF DurabilityInv
  <2> QED
    BY <2>1, <2>2
<1> QED
  BY <1>3, <1>4, <1>5 DEF DurabilityInv

LEMMA DurabilityStep ==
    ASSUME Cuts \subseteq {"fragment"}
    PROVE  HistoryInv /\ DurabilityInv /\ [Next]_vars => DurabilityInv'
<1> SUFFICES ASSUME HistoryInv, DurabilityInv, [Next]_vars PROVE DurabilityInv'
  OBVIOUS
<1>a. TypeOK /\ Excluded
  BY DEF HistoryInv
<1>b. /\ rows \in [Manifests -> Seq(LiveRunRecord)]
      /\ tail \in [Manifests -> {"clean", "fragment", "unterminated", "corrupt"}]
      /\ synced \in [Manifests -> Nat] /\ pc \in [Procs -> PC]
      /\ acked \subseteq Manifests \X Nat \X Records
  BY <1>a DEF TypeOK, FilesTyped, ProcessTyped
<1> USE DEF files, process
<1>c. ASSUME NEW p \in Procs, NEW result, Return(p, result),
             UNCHANGED <<rows, tail, synced, acked>>
      PROVE  DurabilityInv'
  <2>1. \A q \in Procs : pc'[q] = "idle" \/
           (pc'[q] = pc[q] /\ fd'[q] = fd[q] /\ job'[q] = job[q])
    BY <1>a, <1>c DEF Return, TypeOK, ProcessTyped
  <2> QED
    BY <1>c, <2>1, DurabilityFrame
<1>d. ASSUME NEW p \in Procs, pc'[p] \notin {"fsync", "recheck"},
             \A q \in Procs \ {p} : pc'[q] = pc[q] /\ fd'[q] = fd[q] /\ job'[q] = job[q],
             UNCHANGED <<rows, tail, synced, acked>>
      PROVE  DurabilityInv'
  BY <1>d, DurabilityFrame
<1>1. ASSUME NEW p \in Procs, NEW record \in Records, CallAppend(p, record)
      PROVE  DurabilityInv'
  BY <1>1, <1>a, <1>d DEF CallAppend, Goto, TypeOK, ProcessTyped
<1>2. ASSUME NEW p \in Procs, CallRead(p)
      PROVE  DurabilityInv'
  <2>1. CASE manifest = None
    BY <1>2, <2>1, <1>c DEF CallRead
  <2>2. CASE manifest # None
    BY <1>2, <2>2, <1>a, <1>d DEF CallRead, Goto, TypeOK, ProcessTyped
  <2> QED
    BY <2>1, <2>2
<1>3. ASSUME NEW p \in Procs, OpenLock(p)
      PROVE  DurabilityInv'
  BY <1>3, <1>a, <1>d DEF OpenLock, Goto, TypeOK, ProcessTyped
<1>4. ASSUME NEW p \in Procs, FlockLock(p)
      PROVE  DurabilityInv'
  <2>1. CASE lockFile = lockFd[p]
    BY <1>4, <2>1, <1>a, <1>d DEF FlockLock, Goto, TypeOK, ProcessTyped
  <2>2. CASE lockFile # lockFd[p]
    BY <1>4, <2>2, <1>c DEF FlockLock
  <2> QED
    BY <2>1, <2>2
<1>5. ASSUME NEW p \in Procs, OpenLeaf(p)
      PROVE  DurabilityInv'
  <2>1. CASE Return(p, Error)
    BY <1>5, <2>1, <1>c DEF OpenLeaf
  <2>2. ASSUME NEW f, fd' = [fd EXCEPT ![p] = f], Goto(p, "flock_leaf"), UNCHANGED job
        PROVE  DurabilityInv'
    BY <1>5, <2>2, <1>a, <1>d DEF OpenLeaf, Goto, TypeOK, ProcessTyped
  <2> QED
    BY <1>5, <2>1, <2>2 DEF OpenLeaf
<1>6. ASSUME NEW p \in Procs, FlockLeaf(p)
      PROVE  DurabilityInv'
  BY <1>6, <1>a, <1>d DEF FlockLeaf, Goto, TypeOK, ProcessTyped
<1>7. ASSUME NEW p \in Procs, ReadRows(p)
      PROVE  DurabilityInv'
  BY <1>7, <1>c DEF ReadRows
<1>8. ASSUME NEW p \in Procs, Validate(p)
      PROVE  DurabilityInv'
  <2>1. CASE Return(p, Error)
    BY <1>8, <2>1, <1>c DEF Validate
  <2>2. CASE Goto(p, "write") /\ UNCHANGED <<job, fd>>
    BY <1>8, <2>2, <1>a, <1>d DEF Validate, Goto, TypeOK, ProcessTyped
  <2> QED
    BY <1>8, <2>1, <2>2 DEF Validate
<1>9. ASSUME NEW p \in Procs, Write(p)
      PROVE  DurabilityInv'
  <2>1. /\ pc[p] = "write" /\ UNCHANGED <<synced, fd, job, acked>>
        /\ fd[p] \in Manifests /\ tail[fd[p]] # "unterminated"
    BY <1>9, <1>a, AppenderAlone DEF Write, DurabilityInv
  <2>2. CASE FinishLine(fd[p], job[p]) /\ Goto(p, "fsync") /\ tail[fd[p]] = "clean"
    BY <2>1, <2>2, <1>a, DurabilityAppend DEF FinishLine
  <2>3. CASE CutLine(fd[p], job[p], "fragment") /\ Goto(p, "rewrite")
    <3>1. rows' = rows /\ tail' = [tail EXCEPT ![fd[p]] = "fragment"]
      BY <1>b, <2>1, <2>3 DEF CutLine
    <3>2. pc'[p] = "rewrite" /\ \A q \in Procs \ {p} : pc'[q] = pc[q]
      BY <1>b, <2>3 DEF Goto
    <3> QED
      BY <1>b, <2>1, <3>1, <3>2 DEF DurabilityInv
  <2> QED
    BY <1>9, <2>1, <2>2, <2>3 DEF Write
<1>10. ASSUME NEW p \in Procs, Rewrite(p)
      PROVE  DurabilityInv'
  <2>1. /\ pc[p] = "rewrite" /\ UNCHANGED <<synced, fd, job, acked>>
        /\ fd[p] \in Manifests /\ tail[fd[p]] \in {"clean", "fragment"}
    BY <1>10, <1>a, AppenderAlone DEF Rewrite, DurabilityInv
  <2> QED
    BY <1>10, <2>1, <1>a, DurabilityAppend DEF Rewrite, FinishLine
<1>11. ASSUME NEW p \in Procs, Fsync(p)
      PROVE  DurabilityInv'
  <2>1. /\ pc[p] = "fsync" /\ fd[p] \in Manifests
        /\ \A q \in Procs \ {p} : pc[q] \in {"fsync", "recheck"} => fd[q] \in Manifests \ {fd[p]}
    BY <1>11, <1>a, AppenderAlone DEF Fsync
  <2>2. /\ UNCHANGED <<rows, tail, fd, job, acked>>
        /\ pc'[p] = "recheck" /\ \A q \in Procs \ {p} : pc'[q] = pc[q]
        /\ \A g \in Manifests : synced'[g] = IF g = fd[p] THEN Len(rows[g]) ELSE synced[g]
    BY <1>11, <1>b, <2>1 DEF Fsync, Goto
  <2>3. \A g \in Manifests : /\ Len(rows[g]) \in Nat /\ synced[g] \in Nat
                             /\ synced[g] <= synced'[g] /\ synced'[g] <= Len(rows[g])
    BY <1>b, <2>2 DEF DurabilityInv
  <2>4. \A a \in acked : a[1] \in Manifests /\ a[2] \in 1..synced'[a[1]]
    <3> TAKE a \in acked
    <3>1. a[1] \in Manifests /\ a[2] \in 1..synced[a[1]]
      BY <1>b DEF DurabilityInv
    <3>2. synced[a[1]] \in Nat /\ synced'[a[1]] \in Nat /\ synced[a[1]] <= synced'[a[1]]
      BY <2>2, <2>3, <3>1
    <3> QED
      BY <3>1, <3>2
  <2> QED
    BY <2>1, <2>2, <2>3, <2>4 DEF DurabilityInv
<1>12. ASSUME NEW p \in Procs, Recheck(p)
      PROVE  DurabilityInv'
  <2>1. CASE UNCHANGED acked
    BY <1>12, <2>1, <1>c DEF Recheck
  <2>2. CASE acked' = acked \cup {<<fd[p], Len(rows[fd[p]]), job[p]>>}
    <3>1. /\ fd[p] \in Manifests /\ pc[p] = "recheck"
          /\ UNCHANGED <<rows, tail, synced>>
          /\ \E result : Return(p, result)
      BY <1>12, <1>a, AppenderAlone DEF Recheck
    <3>2. \A q \in Procs : pc'[q] = "idle" \/
             (pc'[q] = pc[q] /\ fd'[q] = fd[q] /\ job'[q] = job[q])
      BY <1>a, <3>1 DEF Return, TypeOK, ProcessTyped
    <3>3. /\ Len(rows[fd[p]]) \in 1..synced[fd[p]]
          /\ rows[fd[p]][Len(rows[fd[p]])] = job[p]
      BY <1>b, <3>1 DEF DurabilityInv
    <3> QED
      BY <2>2, <3>1, <3>2, <3>3 DEF DurabilityInv
  <2> QED
    BY <1>12, <2>1, <2>2 DEF Recheck
<1>13. ASSUME NEW p \in Procs, IOError(p)
      PROVE  DurabilityInv'
  BY <1>13, <1>c DEF IOError
<1>14. ASSUME NEW p \in Procs, Kill(p)
      PROVE  DurabilityInv'
  BY <1>14, <1>c DEF Kill
<1>15. ASSUME PowerLoss
      PROVE  DurabilityInv'
  <2>1. PICK image : /\ \A f \in Manifests : image[f] \in AfterPowerLoss(f)
                     /\ rows' = [f \in Manifests |-> image[f][1]]
                     /\ tail' = [f \in Manifests |-> image[f][2]]
                     /\ synced' = [f \in Manifests |-> Len(image[f][1])]
    BY <1>15 DEF PowerLoss
  <2>2. ASSUME NEW f \in Manifests
        PROVE  /\ image[f][2] \in {"clean", "fragment"}
               /\ Len(image[f][1]) \in Nat
               /\ synced[f] <= Len(image[f][1]) /\ synced[f] \in Nat
               /\ \A i \in 1..synced[f] : image[f][1][i] = rows[f][i]
    <3>1. /\ rows[f] \in Seq(LiveRunRecord) /\ synced[f] \in Nat
          /\ tail[f] \in {"clean", "fragment"} /\ synced[f] <= Len(rows[f])
      BY <1>b DEF DurabilityInv
    <3>2. \/ image[f] = <<rows[f], tail[f]>>
          \/ \E n \in synced[f]..(Len(rows[f]) - 1), t \in {"clean", "fragment"} :
                image[f] = <<SubSeq(rows[f], 1, n), t>>
          \/ image[f] = <<rows[f], "clean">>
      BY <2>1 DEF AfterPowerLoss
    <3>3. ASSUME NEW n \in synced[f]..(Len(rows[f]) - 1)
          PROVE  /\ Len(SubSeq(rows[f], 1, n)) = n
                 /\ \A i \in 1..synced[f] : SubSeq(rows[f], 1, n)[i] = rows[f][i]
      BY <3>1
    <3> QED
      BY <3>1, <3>2, <3>3
  <2>3. \A a \in acked : a[1] \in Manifests /\ a[2] \in 1..synced[a[1]] /\ rows[a[1]][a[2]] = a[3]
    BY <1>b DEF DurabilityInv
  <2>4. \A a \in acked : a[2] \in 1..synced'[a[1]] /\ rows'[a[1]][a[2]] = a[3]
    <3> TAKE a \in acked
    <3>1. a[1] \in Manifests /\ a[2] \in 1..synced[a[1]] /\ rows[a[1]][a[2]] = a[3]
      BY <2>3
    <3>2. /\ rows'[a[1]] = image[a[1]][1] /\ synced'[a[1]] = Len(image[a[1]][1])
      BY <2>1, <3>1
    <3>3. /\ Len(image[a[1]][1]) \in Nat /\ synced[a[1]] \in Nat
          /\ synced[a[1]] <= Len(image[a[1]][1])
          /\ \A i \in 1..synced[a[1]] : image[a[1]][1][i] = rows[a[1]][i]
      BY <2>2, <3>1
    <3> QED
      BY <3>1, <3>2, <3>3
  <2>5. /\ acked' = acked /\ \A p \in Procs : pc'[p] = "idle"
    BY <1>15 DEF PowerLoss
  <2>6. \A f \in Manifests : tail'[f] \in {"clean", "fragment"} /\ synced'[f] <= Len(rows'[f])
    BY <2>1, <2>2
  <2> QED
    BY <2>4, <2>5, <2>6 DEF DurabilityInv
<1>16. ASSUME RemoveLockFile
      PROVE  DurabilityInv'
  BY <1>16, DurabilityFrame DEF RemoveLockFile
<1>17. ASSUME NEW f \in Manifests, NEW content \in Restores, Restore(f, content)
      PROVE  DurabilityInv'
  <2>1. /\ rows[f] = <<>> /\ tail[f] = "clean" /\ \A p \in Procs : fd[p] # f
        /\ UNCHANGED <<tail, pc, fd, job, acked>>
    BY <1>17 DEF Restore, FreshManifest
  <2>2. /\ rows' = [rows EXCEPT ![f] = content]
        /\ synced' = [synced EXCEPT ![f] = Len(content)]
        /\ Len(content) \in Nat
    BY <1>17, RestoresAreRows DEF Restore
  <2>3. \A g \in Manifests : /\ rows'[g] = IF g = f THEN content ELSE rows[g]
                             /\ synced'[g] = IF g = f THEN Len(content) ELSE synced[g]
    BY <1>b, <2>2
  <2>4. \A a \in acked : a[1] \in Manifests \ {f}
    BY <1>b, <2>1 DEF DurabilityInv
  <2>5. \A p \in Procs : pc[p] \in {"fsync", "recheck"} => fd[p] \in Manifests \ {f}
    BY <1>a, <2>1, AppenderAlone
  <2> QED
    BY <2>1, <2>2, <2>3, <2>4, <2>5 DEF DurabilityInv
<1>18. CASE UNCHANGED vars
  BY <1>18 DEF vars, DurabilityInv
<1> QED
  BY <1>1, <1>2, <1>3, <1>4, <1>5, <1>6, <1>7, <1>8, <1>9, <1>10, <1>11,
     <1>12, <1>13, <1>14, <1>15, <1>16, <1>17, <1>18
     DEF Next, Advance, AllReturned

\* When no short write stops just before a newline, the record of an append
\* that succeeded is at its place for good.
THEOREM AcksAreDurable ==
    ASSUME Cuts \subseteq {"fragment"}
    PROVE  Spec => []AckedIsDurable
<1>1. HistoryInv /\ DurabilityInv => AckedIsDurable
  <2> SUFFICES ASSUME HistoryInv, DurabilityInv, NEW a \in acked
               PROVE  a[2] \in 1..Len(rows[a[1]]) /\ rows[a[1]][a[2]] = a[3]
    BY DEF AckedIsDurable
  <2>1. /\ a[1] \in Manifests /\ rows \in [Manifests -> Seq(LiveRunRecord)]
        /\ synced \in [Manifests -> Nat]
    BY DEF HistoryInv, TypeOK, FilesTyped
  <2> QED
    BY <2>1 DEF DurabilityInv
<1>2. HistoryInv /\ DurabilityInv /\ [Next]_vars => DurabilityInv'
  BY DurabilityStep
<1> QED
  BY <1>1, <1>2, DurabilityInit, HistoryCorrect, PTL DEF Spec

-----------------------------------------------------------------------------
(* The registry implements the ledger, when nobody restores a copy *)

LEMMA SameAcceptance ==
    \A seq, record : Ledger!AcceptsNext(seq, record) = AcceptsNext(seq, record)
  BY DEF Ledger!AcceptsNext, AcceptsNext, Ledger!ValidHistory, ValidHistory,
         Ledger!FollowsPrior, FollowsPrior, Ledger!Prior, Prior,
         Ledger!IsFirst, IsFirst, Ledger!IsLast, IsLast, Ledger!Filled, Filled,
         Ledger!AllowedTransitions, AllowedTransitions,
         Ledger!LiveRunStatus, LiveRunStatus

\* With no copies restored there is one manifest for good: whoever has a file
\* open has that one, and every acknowledged row is in it.
OneManifest ==
    /\ \A p \in Procs : fd[p] # None => fd[p] = manifest
    /\ \A a \in acked : a[1] = manifest

LEMMA OneManifestStep ==
    ASSUME Restores = {}
    PROVE  TypeOK /\ OneManifest /\ [Next]_vars
             => /\ OneManifest'
                /\ manifest' = manifest \/ (manifest = None /\ UNCHANGED <<rows, acked>>)
<1> SUFFICES ASSUME TypeOK, OneManifest, [Next]_vars
             PROVE  /\ OneManifest'
                    /\ manifest' = manifest \/ (manifest = None /\ UNCHANGED <<rows, acked>>)
  OBVIOUS
<1> USE DEF files, process
<1>a. fd \in [Procs -> Manifests \cup {None}] /\ None \notin Manifests
  BY NoneIsNoInode DEF TypeOK, ProcessTyped
<1>1. ASSUME NEW p \in Procs, NEW result, Return(p, result),
             UNCHANGED <<manifest, acked>>
      PROVE  OneManifest'
  BY <1>1, <1>a DEF OneManifest, Return
<1>2. ASSUME NEW p \in Procs, OpenLeaf(p)
      PROVE  /\ OneManifest'
             /\ manifest' = manifest \/ (manifest = None /\ UNCHANGED <<rows, acked>>)
  <2>1. CASE manifest # None
    BY <1>2, <1>a, <2>1 DEF OpenLeaf, OneManifest
  <2>2. CASE manifest = None /\ IsAppend(p)
    <3>1. PICK f \in Manifests : manifest' = f /\ fd' = [fd EXCEPT ![p] = f]
      BY <1>2, <2>2 DEF OpenLeaf
    <3>2. \A q \in Procs : fd[q] = None
      BY <1>a, <2>2 DEF OneManifest
    <3>3. acked = {}
      BY <1>a, <2>2 DEF OneManifest, TypeOK
    <3> QED
      BY <1>2, <1>a, <2>2, <3>1, <3>2, <3>3 DEF OpenLeaf, OneManifest
  <2>3. CASE manifest = None /\ ~IsAppend(p)
    BY <1>1, <1>2, <2>3 DEF OpenLeaf
  <2> QED
    BY <2>1, <2>2, <2>3
<1>3. ASSUME NEW p \in Procs, Recheck(p)
      PROVE  OneManifest' /\ manifest' = manifest
  <2>1. CASE UNCHANGED acked
    BY <1>1, <1>3, <2>1 DEF Recheck
  <2>2. CASE manifest = fd[p] /\ Return(p, Appended)
             /\ acked' = acked \cup {<<fd[p], Len(rows[fd[p]]), job[p]>>}
    BY <1>3, <1>a, <2>2 DEF Recheck, OneManifest, Return
  <2> QED
    BY <1>3, <2>1, <2>2 DEF Recheck
<1>4. ASSUME NEW p \in Procs, CallRead(p) \/ FlockLock(p) \/ Validate(p)
      PROVE  OneManifest' /\ manifest' = manifest
  <2>1. UNCHANGED <<manifest, acked>> /\ (UNCHANGED fd \/ \E result : Return(p, result))
    BY <1>4 DEF CallRead, FlockLock, Validate
  <2> QED
    BY <1>1, <2>1 DEF OneManifest
<1>5. ASSUME NEW p \in Procs, ReadRows(p) \/ IOError(p) \/ Kill(p)
      PROVE  OneManifest' /\ manifest' = manifest
  <2>1. UNCHANGED <<manifest, acked>> /\ \E result : Return(p, result)
    BY <1>5 DEF ReadRows, IOError, Kill
  <2> QED
    BY <1>1, <2>1
<1>6. ASSUME NEW p \in Procs,
             \/ \E record \in Records : CallAppend(p, record)
             \/ OpenLock(p) \/ FlockLeaf(p) \/ Write(p) \/ Rewrite(p) \/ Fsync(p)
      PROVE  OneManifest' /\ manifest' = manifest
  BY <1>6 DEF CallAppend, OpenLock, FlockLeaf, Write, Rewrite, Fsync, OneManifest
<1>7. CASE PowerLoss
  BY <1>7 DEF PowerLoss, OneManifest
<1>8. CASE RemoveLockFile \/ AllReturned \/ UNCHANGED vars
  BY <1>8 DEF RemoveLockFile, AllReturned, vars, OneManifest
<1> QED
  BY <1>2, <1>3, <1>4, <1>5, <1>6, <1>7, <1>8 DEF Next, Advance

LedgerRows == IF manifest = None THEN <<>> ELSE rows[manifest]
Promises == {<<a[2], a[3]>> : a \in acked}

\* A step on the file, seen as a step of the ledger.
LEMMA LedgerStep ==
    ASSUME Restores = {}, Cuts \subseteq {"fragment"}
    PROVE  HistoryInv /\ DurabilityInv /\ OneManifest /\ [Next]_vars
             => [Ledger!Next]_<<LedgerRows, Promises>>
<1> SUFFICES ASSUME HistoryInv, DurabilityInv, OneManifest, [Next]_vars
             PROVE  [Ledger!Next]_<<LedgerRows, Promises>>
  OBVIOUS
<1> USE DEF files, process
<1>a. /\ TypeOK /\ Excluded /\ AcceptedTillWritten
      /\ rows \in [Manifests -> Seq(LiveRunRecord)]
      /\ tail \in [Manifests -> {"clean", "fragment", "unterminated", "corrupt"}]
      /\ acked \subseteq Manifests \X Nat \X Records
      /\ None \notin Manifests
  BY NoneIsNoInode DEF HistoryInv, TypeOK, FilesTyped
<1>b. ASSUME UNCHANGED <<manifest, rows, acked>>
      PROVE  UNCHANGED <<LedgerRows, Promises>>
  BY <1>b DEF LedgerRows, Promises
\* A whole line reaches the manifest: the ledger records an event.
<1>c. ASSUME NEW p \in Procs, pc[p] \in {"write", "rewrite"},
             pc[p] = "write" => tail[fd[p]] = "clean", tail[fd[p]] \in {"clean", "fragment"},
             rows' = [rows EXCEPT ![fd[p]] = Append(@, job[p])],
             UNCHANGED <<manifest, acked>>
      PROVE  Ledger!Record(job[p])
  <2>1. fd[p] \in Manifests /\ fd[p] = manifest
    BY <1>a, <1>c, AppenderAlone DEF OneManifest
  <2>2. LedgerRows = rows[manifest] /\ LedgerRows' = Append(rows[manifest], job[p])
    BY <1>a, <1>c, <2>1 DEF LedgerRows
  <2>3. Ledger!AcceptsNext(LedgerRows, job[p])
    BY <1>a, <1>c, <2>1, <2>2, SameAcceptance DEF AcceptedTillWritten
  <2>4. UNCHANGED Promises
    BY <1>c DEF Promises
  <2> QED
    BY <2>2, <2>3, <2>4 DEF Ledger!Record, LedgerRows, Promises
<1>d. ASSUME NEW p \in Procs, pc[p] \in {"write", "rewrite", "fsync", "recheck"}
      PROVE  job[p] \in Records
  BY <1>a, <1>d DEF TypeOK, ProcessTyped, AtItsPlace
<1>1. ASSUME NEW p \in Procs, Write(p)
      PROVE  [Ledger!Next]_<<LedgerRows, Promises>>
  <2>1. pc[p] = "write" /\ fd[p] \in Manifests /\ tail[fd[p]] \in {"clean", "fragment"}
    BY <1>1, <1>a, AppenderAlone DEF Write, DurabilityInv
  <2>2. CASE tail[fd[p]] = "clean" /\ FinishLine(fd[p], job[p])
    BY <1>1, <2>1, <2>2, <1>c, <1>d DEF Write, FinishLine, Ledger!Next
  <2>3. CASE CutLine(fd[p], job[p], "fragment")
    BY <1>1, <1>a, <1>b, <2>1, <2>3 DEF Write, CutLine
  <2> QED
    BY <1>1, <2>1, <2>2, <2>3 DEF Write
<1>2. ASSUME NEW p \in Procs, Rewrite(p)
      PROVE  [Ledger!Next]_<<LedgerRows, Promises>>
  <2>1. pc[p] = "rewrite" /\ fd[p] \in Manifests /\ tail[fd[p]] \in {"clean", "fragment"}
    BY <1>2, <1>a, AppenderAlone DEF Rewrite, DurabilityInv
  <2> QED
    BY <1>2, <2>1, <1>c, <1>d DEF Rewrite, FinishLine, Ledger!Next
\* Success is reported: the ledger promises its last event.
<1>3. ASSUME NEW p \in Procs, Recheck(p)
      PROVE  [Ledger!Next]_<<LedgerRows, Promises>>
  <2>1. /\ fd[p] \in Manifests /\ fd[p] = manifest
        /\ UNCHANGED <<manifest, rows>> /\ pc[p] = "recheck"
    BY <1>3, <1>a, AppenderAlone DEF Recheck, OneManifest
  <2>2. acked' = acked \cup {<<fd[p], Len(rows[fd[p]]), job[p]>>}
    BY <1>3, <2>1 DEF Recheck
  <2> DEFINE new == <<fd[p], Len(rows[fd[p]]), job[p]>>
  <2>3. LedgerRows = rows[manifest] /\ UNCHANGED LedgerRows
    BY <1>a, <2>1 DEF LedgerRows
  <2>4. Len(rows[manifest]) > 0 /\ rows[manifest][Len(rows[manifest])] = job[p]
    BY <2>1 DEF DurabilityInv
  <2>5. Len(LedgerRows) \in 1..Len(LedgerRows)
    BY <1>a, <2>1, <2>3, <2>4
  <2>6. <<new[2], new[3]>> = <<Len(LedgerRows), LedgerRows[Len(LedgerRows)]>>
    BY <2>1, <2>3, <2>4
  <2>7. Promises' = Promises \cup {<<new[2], new[3]>>}
    <3> HIDE DEF new
    <3>1. acked' = acked \cup {new}
      BY <2>2 DEF new
    <3> QED
      BY <3>1 DEF Promises
  <2>8. Promises' = Promises \cup {<<Len(LedgerRows), LedgerRows[Len(LedgerRows)]>>}
    BY <2>6, <2>7
  <2>9. PICK n : n = Len(LedgerRows)
    OBVIOUS
  <2>10. n \in 1..Len(LedgerRows) /\ Promises' = Promises \cup {<<n, LedgerRows[n]>>}
    BY <2>5, <2>8, <2>9
  <2>11. Ledger!Promise(n)
    BY <2>3, <2>10 DEF Ledger!Promise, LedgerRows, Promises
  <2> QED
    BY <2>10, <2>11 DEF Ledger!Next, LedgerRows
\* A power loss: the ledger loses events it promised to nobody.
<1>4. CASE PowerLoss
  <2>1. CASE manifest = None
    BY <1>4, <2>1 DEF PowerLoss, LedgerRows, Promises
  <2>2. CASE manifest # None
    <3>1. /\ manifest \in Manifests /\ UNCHANGED <<manifest, acked>>
          /\ rows[manifest] \in Seq(LiveRunRecord)
      BY <1>4, <1>a, <2>2 DEF PowerLoss, TypeOK, FilesTyped
    <3>2. PICK image : /\ image[manifest] \in AfterPowerLoss(manifest)
                       /\ rows'[manifest] = image[manifest][1]
      BY <1>4, <3>1 DEF PowerLoss
    <3>3. CASE rows'[manifest] = rows[manifest]
      BY <2>2, <3>1, <3>3 DEF LedgerRows, Promises
    <3>4. ASSUME NEW n \in synced[manifest]..(Len(rows[manifest]) - 1),
                 rows'[manifest] = SubSeq(rows[manifest], 1, n)
          PROVE  Ledger!Lose(n) /\ n \in 0..Len(LedgerRows)
      <4>1. synced[manifest] \in Nat
        BY <3>1, <1>a DEF TypeOK, FilesTyped
      <4>2. n \in 0..Len(rows[manifest])
        BY <3>1, <4>1
      <4>3. \A a \in acked : a[1] = manifest /\ a[2] \in 1..synced[a[1]]
        BY DEF DurabilityInv, OneManifest
      <4>4. \A a \in acked : a[2] \in Nat /\ a[2] <= n
        BY <4>1, <4>2, <4>3
      <4>5. \A x \in Promises : x[1] <= n
        BY <4>4 DEF Promises
      <4> QED
        BY <2>2, <3>1, <3>4, <4>2, <4>5 DEF Ledger!Lose, LedgerRows, Promises
    <3>5. \/ image[manifest] = <<rows[manifest], tail[manifest]>>
          \/ \E n \in synced[manifest]..(Len(rows[manifest]) - 1), t \in {"clean", "fragment"} :
                image[manifest] = <<SubSeq(rows[manifest], 1, n), t>>
          \/ image[manifest] = <<rows[manifest], "clean">>
      BY <3>2 DEF AfterPowerLoss
    <3> QED
      BY <3>2, <3>3, <3>4, <3>5 DEF Ledger!Next, LedgerRows, Promises
  <2> QED
    BY <2>1, <2>2
\* The manifest is created empty; everything else is invisible.
<1>5. ASSUME NEW p \in Procs, OpenLeaf(p)
      PROVE  UNCHANGED <<LedgerRows, Promises>>
  <2>1. UNCHANGED <<rows, acked>>
    BY <1>5 DEF OpenLeaf
  <2>2. CASE UNCHANGED manifest
    BY <1>b, <2>1, <2>2
  <2>3. CASE manifest = None /\ manifest' \in Manifests /\ rows[manifest'] = <<>>
    BY <1>a, <2>1, <2>3 DEF LedgerRows, Promises
  <2> QED
    BY <1>5, <2>2, <2>3 DEF OpenLeaf, FreshManifest
<1>6. ASSUME NEW p \in Procs,
             \/ \E record \in Records : CallAppend(p, record)
             \/ CallRead(p) \/ OpenLock(p) \/ FlockLock(p) \/ FlockLeaf(p)
             \/ ReadRows(p) \/ Validate(p) \/ Fsync(p) \/ IOError(p) \/ Kill(p)
      PROVE  UNCHANGED <<LedgerRows, Promises>>
  BY <1>6, <1>b DEF CallAppend, CallRead, OpenLock, FlockLock, FlockLeaf,
                    ReadRows, Validate, Fsync, IOError, Kill
<1>7. CASE RemoveLockFile \/ AllReturned \/ UNCHANGED vars
  BY <1>7, <1>b DEF RemoveLockFile, AllReturned, vars
<1> QED
  BY <1>1, <1>2, <1>3, <1>4, <1>5, <1>6, <1>7 DEF Next, Advance

\* Processes that lock, write, fsync, die and lose power implement the ledger
\* of events that are accepted one at a time and kept once promised.
THEOREM RegistryImplementsLedger ==
    ASSUME Restores = {}, Cuts \subseteq {"fragment"}
    PROVE  Spec => ImplementsLedger
<1>1. Init => Ledger!Init /\ OneManifest
  BY DEF Init, Ledger!Init, OneManifest
<1>2. TypeOK /\ OneManifest /\ [Next]_vars => OneManifest'
  BY OneManifestStep
<1>3. HistoryInv /\ DurabilityInv /\ [Next]_vars => DurabilityInv'
  BY DurabilityStep
<1>4. HistoryInv /\ DurabilityInv /\ OneManifest /\ [Next]_vars
        => [Ledger!Next]_<<LedgerRows, Promises>>
  BY LedgerStep
<1>5. HistoryInv => TypeOK
  BY DEF HistoryInv
<1> QED
  BY <1>1, <1>2, <1>3, <1>4, <1>5, DurabilityInit, HistoryCorrect, PTL
     DEF Spec, ImplementsLedger, Ledger!Spec, LedgerRows, Promises

-----------------------------------------------------------------------------
(* Projections *)

\* A manifest that stays in place grows by one accepted event at a time.
LEMMA GrowsByAccepted ==
    ASSUME HistoryInv, [Next]_vars, NEW f \in Manifests,
           manifest = f, manifest' = f, Len(rows'[f]) > Len(rows[f])
    PROVE  \E record \in LiveRunRecord :
              AcceptsNext(rows[f], record) /\ rows'[f] = Append(rows[f], record)
<1> USE DEF files
<1>a. /\ rows \in [Manifests -> Seq(LiveRunRecord)]
      /\ tail \in [Manifests -> {"clean", "fragment", "unterminated", "corrupt"}]
      /\ rows[f] \in Seq(LiveRunRecord) /\ Len(rows[f]) \in Nat
  BY DEF HistoryInv, TypeOK, FilesTyped
<1>b. rows' # rows
  BY <1>a
<1>c. ASSUME NEW p \in Procs, pc[p] \in {"write", "rewrite"},
             rows' = [rows EXCEPT ![fd[p]] = Append(@, job[p])],
             pc[p] = "write" \/ tail[fd[p]] \in {"clean", "fragment"}
      PROVE  \E record \in LiveRunRecord :
                AcceptsNext(rows[f], record) /\ rows'[f] = Append(rows[f], record)
  <2>1. fd[p] \in Manifests /\ job[p] \in LiveRunRecord
    BY <1>c, AppenderAlone DEF HistoryInv
  <2>2. fd[p] = f
    BY <1>a, <1>c, <2>1
  <2>3. AcceptsNext(rows[f], job[p])
    BY <1>c, <2>2 DEF HistoryInv, AcceptedTillWritten
  <2> QED
    BY <1>a, <1>c, <2>1, <2>2, <2>3
<1>1. ASSUME NEW p \in Procs, Write(p)
      PROVE  \E record \in LiveRunRecord :
                AcceptsNext(rows[f], record) /\ rows'[f] = Append(rows[f], record)
  <2>1. fd[p] \in Manifests /\ job[p] \in LiveRunRecord /\ pc[p] = "write"
    BY <1>1, AppenderAlone DEF HistoryInv, Write
  <2>2. CASE tail[fd[p]] = "clean" /\ FinishLine(fd[p], job[p])
    <3>1. rows' = [rows EXCEPT ![fd[p]] = Append(@, job[p])]
      BY <2>2 DEF FinishLine
    <3> QED
      BY <1>c, <2>1, <3>1
  <2>3. ASSUME NEW cut \in Cuts, CutLine(fd[p], job[p], cut)
        PROVE  \E record \in LiveRunRecord :
                  AcceptsNext(rows[f], record) /\ rows'[f] = Append(rows[f], record)
    <3>1. CASE cut = "unterminated"
      BY <1>c, <2>1, <2>3, <3>1 DEF CutLine
    <3>2. CASE cut # "unterminated"
      <4>1. rows' = rows
        BY <1>a, <2>1, <2>3, <3>2 DEF CutLine
      <4> QED
        BY <1>b, <4>1
    <3> QED
      BY <3>1, <3>2
  <2>4. CASE Glue(fd[p])
    <3>1. AcceptsNext(rows[fd[p]], job[p])
      BY <2>1 DEF HistoryInv, AcceptedTillWritten
    <3>2. rows' = [rows EXCEPT ![fd[p]] = Front(@)]
      BY <2>4 DEF Glue
    <3>3. fd[p] = f /\ rows'[f] = Front(rows[f])
      BY <1>a, <2>1, <3>2
    <3>4. Len(Front(rows[f])) <= Len(rows[f])
      <4>1. CASE rows[f] = <<>>
        BY <4>1 DEF Front
      <4>2. CASE rows[f] # <<>>
        BY <1>a, <4>2 DEF Front
      <4> QED
        BY <4>1, <4>2
    <3> QED
      BY <1>a, <3>3, <3>4
  <2> QED
    BY <1>1, <2>2, <2>3, <2>4 DEF Write
<1>2. ASSUME NEW p \in Procs, Rewrite(p)
      PROVE  \E record \in LiveRunRecord :
                AcceptsNext(rows[f], record) /\ rows'[f] = Append(rows[f], record)
  <2>1. /\ fd[p] \in Manifests /\ job[p] \in LiveRunRecord /\ pc[p] = "rewrite"
        /\ FinishLine(fd[p], job[p])
    BY <1>2, AppenderAlone DEF HistoryInv, Rewrite
  <2>2. CASE tail[fd[p]] \in {"clean", "fragment"}
    <3>1. rows' = [rows EXCEPT ![fd[p]] = Append(@, job[p])]
      BY <2>1, <2>2 DEF FinishLine
    <3> QED
      BY <1>c, <2>1, <2>2, <3>1
  <2>3. CASE tail[fd[p]] \in {"unterminated", "corrupt"}
    <3>1. rows' = rows
      BY <2>1, <2>3 DEF FinishLine
    <3> QED
      BY <1>b, <3>1
  <2> QED
    BY <1>a, <2>1, <2>2, <2>3
<1>3. ASSUME PowerLoss
      PROVE  FALSE
  <2>1. PICK image \in [Manifests -> UNION {AfterPowerLoss(g) : g \in Manifests}] :
             /\ \A g \in Manifests : image[g] \in AfterPowerLoss(g)
             /\ rows' = [g \in Manifests |-> image[g][1]]
    BY <1>3 DEF PowerLoss
  <2>2. image[f] \in AfterPowerLoss(f) /\ rows'[f] = image[f][1]
    BY <2>1
  <2>3. synced[f] \in Nat
    BY DEF HistoryInv, TypeOK, FilesTyped
  <2>4. Len(rows'[f]) <= Len(rows[f])
    <3>1. CASE image[f][1] = rows[f]
      BY <1>a, <2>2, <3>1
    <3>2. ASSUME NEW n \in synced[f]..(Len(rows[f]) - 1), image[f][1] = SubSeq(rows[f], 1, n)
          PROVE  Len(rows'[f]) <= Len(rows[f])
      <4>1. n \in 0..Len(rows[f])
        BY <1>a, <2>3
      <4> QED
        BY <1>a, <2>2, <3>2, <4>1
    <3> QED
      BY <2>2, <3>1, <3>2 DEF AfterPowerLoss
  <2>5. rows'[f] = rows[f] \/ \E n \in synced[f]..(Len(rows[f]) - 1) : rows'[f] = SubSeq(rows[f], 1, n)
    BY <2>2 DEF AfterPowerLoss
  <2>6. Len(rows'[f]) \in Nat
    <3>1. ASSUME NEW n \in synced[f]..(Len(rows[f]) - 1), rows'[f] = SubSeq(rows[f], 1, n)
          PROVE  Len(rows'[f]) \in Nat
      <4>1. n \in 0..Len(rows[f])
        BY <1>a, <2>3
      <4> QED
        BY <1>a, <3>1, <4>1
    <3> QED
      BY <1>a, <2>5, <3>1
  <2> QED
    BY <1>a, <2>4, <2>6
<1>4. ASSUME NEW g \in Manifests, NEW content \in Restores, Restore(g, content)
      PROVE  FALSE
  BY <1>4 DEF Restore, FreshManifest, Fault
<1>5. ASSUME NEW p \in Procs, NEW record \in Records, CallAppend(p, record)
      PROVE  FALSE
  BY <1>b, <1>5 DEF CallAppend
<1>6. ASSUME NEW p \in Procs, CallRead(p) \/ IOError(p) \/ Kill(p)
      PROVE  FALSE
  BY <1>b, <1>6 DEF CallRead, IOError, Kill
<1>7. ASSUME NEW p \in Procs,
             \/ OpenLock(p) \/ FlockLock(p) \/ OpenLeaf(p) \/ FlockLeaf(p)
             \/ ReadRows(p) \/ Validate(p) \/ Fsync(p) \/ Recheck(p)
      PROVE  FALSE
  BY <1>b, <1>7 DEF OpenLock, FlockLock, OpenLeaf, FlockLeaf, ReadRows, Validate, Fsync, Recheck
<1>8. CASE RemoveLockFile
  BY <1>b, <1>8 DEF RemoveLockFile
<1>9. CASE UNCHANGED vars
  BY <1>b, <1>9 DEF vars
<1> QED
  BY <1>1, <1>2, <1>3, <1>4, <1>5, <1>6, <1>7, <1>8, <1>9 DEF Next, Advance, AllReturned

\* The current-state view of a run only moves forward while its manifest stays
\* in place: status, time, axes filled once and a fixed model, for any number
\* of appenders, short writes, kills and power losses.
THEOREM ProjectionsMoveForward == Spec => ProjectionsOnlyExtend
<1> DEFINE Forward == \A f \in Manifests, run \in RunIds :
              /\ manifest = f /\ manifest' = f
              /\ ValidHistory(rows[f]) /\ Len(rows'[f]) > Len(rows[f])
              /\ Events(rows[f], run) # {}
              => ProjectionExtends(Project(rows[f], run), Project(rows'[f], run))
<1>1. HistoryInv /\ [Next]_vars => [Forward]_rows
  <2> SUFFICES ASSUME HistoryInv, [Next]_vars,
                      NEW f \in Manifests, NEW run \in RunIds,
                      manifest = f, manifest' = f, Len(rows'[f]) > Len(rows[f]),
                      Events(rows[f], run) # {}
               PROVE  ProjectionExtends(Project(rows[f], run), Project(rows'[f], run))
    OBVIOUS
  <2>1. PICK record \in LiveRunRecord :
             AcceptsNext(rows[f], record) /\ rows'[f] = Append(rows[f], record)
    BY GrowsByAccepted
  <2>2. rows[f] \in Seq(LiveRunRecord)
    BY DEF HistoryInv, TypeOK, FilesTyped
  <2>3. ProjectionExtends(Project(rows[f], run), Project(Append(rows[f], record), run))
    BY <2>1, <2>2, AppendExtendsProjection
  <2> QED
    BY <2>1, <2>3
<1> QED
  BY <1>1, HistoryCorrect, PTL DEF Spec, ProjectionsOnlyExtend
=============================================================================

------------------------- MODULE PublicationProofs -------------------------
(***************************************************************************)
(* Proofs about Publication, for every set of articles and workers, every  *)
(* policy relation, both guard modes and any number of faults.             *)
(***************************************************************************)
EXTENDS Publication, FiniteSetTheorems, TLAPS

-----------------------------------------------------------------------------
(* Types *)

\* Every row update of the publication repository yields a row.
LEMMA RowUpdates ==
    ASSUME NEW r \in Row, NEW id \in Nat
    PROVE  /\ \A w \in Workers : Claimed(r, w) \in Row
           /\ \A status \in Statuses : Released(r, status) \in Row
           /\ PostSaved(r, id) \in Row
           /\ LegacyIntent(r) \in Row
           /\ Completed(r) \in Row
           /\ Refreshed(r) \in Row
           /\ [r EXCEPT !.wp = id] \in Row
           /\ [r EXCEPT !.pub = TRUE] \in Row
           /\ [r EXCEPT !.lease = "expired"] \in Row
  <1>1. Bump(r.att) \in 0..2
    BY DEF Row, Bump
  <1>2. ASSUME NEW w \in Workers PROVE Claimed(r, w) \in Row
    BY <1>1 DEF Row, Statuses, Claimed
  <1>3. ASSUME NEW status \in Statuses PROVE Released(r, status) \in Row
    BY DEF Row, Released
  <1>4. PostSaved(r, id) \in Row
    BY DEF Row, Statuses, PostSaved
  <1>8. LegacyIntent(r) \in Row
    <2> DEFINE first == 1
    <2>1. first \in 0..2
      OBVIOUS
    <2>2. LegacyIntent(r) = [r EXCEPT !.st = "claimed", !.lease = "live",
                                      !.att = first]
      BY DEF LegacyIntent
    <2> HIDE DEF first
    <2> QED BY <2>1, <2>2 DEF Row, Statuses
  <1>5. Completed(r) \in Row
    BY <1>3 DEF Row, Statuses, Completed
  <1>6. Refreshed(r) \in Row
    BY <1>3 DEF Row, Statuses, Refreshed
  <1>7. /\ [r EXCEPT !.wp = id] \in Row
        /\ [r EXCEPT !.pub = TRUE] \in Row
        /\ [r EXCEPT !.lease = "expired"] \in Row
    BY DEF Row
  <1> QED BY <1>2, <1>3, <1>4, <1>5, <1>6, <1>7, <1>8

\* The batch limit of a run is a natural number.
LEMMA LimitIsNat == Limit \in Nat
  <1>1. IsFiniteSet({a \in Articles : Fetchable(a)})
    BY ArticlesAssumption, FS_Subset, {a \in Articles : Fetchable(a)} \subseteq Articles
  <1>2. Cardinality({a \in Articles : Fetchable(a)}) \in Nat
    BY <1>1, FS_CardinalityType
  <1> QED BY <1>2, SettingsAssumption DEF Limit

\* What a step does to the locks and to the worker's own bookkeeping.
LocalTypes ==
    /\ wpLock \in Workers \union {None}
    /\ mutex \in Workers \union {None}
    /\ pc \in [Workers -> Steps]
    /\ job \in [Workers -> Job]
    /\ seen \in [Workers -> SUBSET Articles]
    /\ left \in [Workers -> Nat]
    /\ \A w \in Workers : OnItem(w) => job[w].art \in Articles

\* The control helpers keep the types of what they touch.
LEMMA ControlTypes ==
    ASSUME TypeOK, NEW w \in Workers
    PROVE  /\ \A step \in Steps : OnItem(w) /\ Advance(w, step) => LocalTypes'
           /\ \A step \in Steps : OnItem(w) /\ Divert(w, step) => LocalTypes'
           /\ NextItem(w) => LocalTypes'
           /\ OnItem(w) /\ GiveUp(w) => LocalTypes'
           /\ EndRun(w) => LocalTypes'
  <1> USE DEF TypeOK, LocalTypes, lockVars, runVars, OnItem
  <1>1. NoJob \in Job
    BY DEF NoJob, Job
  <1>2. {"loop", "idle", "failing"} \subseteq Steps
    BY DEF Steps
  <1>3. LeaveGuard(w) => mutex' \in Workers \union {None}
    BY DEF LeaveGuard, Drop
  <1>4. ASSUME NEW step \in Steps, OnItem(w), Advance(w, step) PROVE LocalTypes'
    BY <1>4 DEF Advance, Goto
  <1>5. ASSUME NEW step \in Steps, OnItem(w), Divert(w, step) PROVE LocalTypes'
    BY <1>5, <1>3 DEF Divert, Goto
  <1>6. NextItem(w) => LocalTypes'
    BY <1>1, <1>2, <1>3 DEF NextItem, Goto
  <1>7. OnItem(w) /\ GiveUp(w) => LocalTypes'
    BY <1>2, <1>4, <1>6 DEF GiveUp
  <1>8. EndRun(w) => LocalTypes'
    BY <1>1, <1>2 DEF EndRun, Goto, Drop
  <1> QED BY <1>4, <1>5, <1>6, <1>7, <1>8

\* A write to one row, a count, and the snapshot a worker takes keep the types.
LEMMA WriteTypes ==
    ASSUME TypeOK, NEW a
    PROVE  /\ \A r : (a \in Articles => r \in Row) /\ SetRow(a, r)
                        => row' \in [Articles -> Row]
           /\ \A f \in [Articles -> Nat] : AddTo(f, a) \in [Articles -> Nat]
           /\ a \in Articles => Snapshot(a) \in Job
           /\ a \in Articles => row[a] \in Row
  <1>1. ASSUME NEW r, a \in Articles => r \in Row, SetRow(a, r)
        PROVE  row' \in [Articles -> Row]
    BY <1>1 DEF TypeOK, SetRow
  <1>2. ASSUME NEW f \in [Articles -> Nat] PROVE AddTo(f, a) \in [Articles -> Nat]
    <2>1. CASE a \in Articles
      <3>1. f[a] + 1 \in Nat
        BY <2>1
      <3> QED BY <3>1 DEF AddTo
    <2>2. CASE a \notin Articles
      BY <2>2 DEF AddTo
    <2> QED BY <2>1, <2>2
  <1>3. ASSUME a \in Articles PROVE Snapshot(a) \in Job /\ row[a] \in Row
    <2>1. row[a] \in Row
      BY <1>3 DEF TypeOK
    <2>2. row[a].wp \in Nat
      BY <2>1 DEF Row
    <2>3. FreshState(row[a]) \in BOOLEAN
      BY DEF FreshState
    <2> QED BY <1>3, <2>1, <2>2, <2>3 DEF Snapshot, Job
  <1> QED BY <1>1, <1>2, <1>3

\* Every variable has its type in every reachable state.
THEOREM TypeCorrect == Spec => []TypeOK
  <1>1. Init => TypeOK
    BY SettingsAssumption DEF Init, TypeOK, Row, Statuses, Job, NoJob, Steps,
       OnItem
  <1>2. TypeOK /\ [Next]_vars => TypeOK'
    <2> SUFFICES ASSUME TypeOK, [Next]_vars PROVE TypeOK'
      OBVIOUS
    <2> USE DEF TypeOK, tableVars, siteVars, OnItem
    <2>1. ASSUME NEW w \in Workers, WorkerStep(w) PROVE TypeOK'
      <3>1. CASE w \in Durable /\ StartDurable(w)
        BY <3>1, LimitIsNat DEF StartDurable, Goto, Steps
      <3>2. CASE w \in Legacy /\ StartLegacy(w)
        BY <3>2 DEF StartLegacy, Goto, Steps
      <3>3. CASE HoldMutex(w)
        <4>1. LocalTypes'
          <5>1. CASE EndRun(w) \/ NextItem(w)
            BY <5>1, ControlTypes
          <5>2. CASE Advance(w, "loop") \/ (OnItem(w) /\ Advance(w, "guard"))
            BY <5>2 DEF Advance, LocalTypes, Goto, Steps, lockVars, runVars
          <5>3. CASE /\ mutex' = w /\ UNCHANGED <<wpLock, runVars>>
                     /\ Goto(w, "loop") \/ (OnItem(w) /\ Goto(w, "guard"))
            BY <5>3 DEF LocalTypes, Goto, Steps, runVars
          <5> QED BY <3>3, <5>1, <5>2, <5>3 DEF HoldMutex
        <4> QED BY <3>3, <4>1 DEF HoldMutex, LocalTypes
      <3>4. CASE \E a \in Articles : ClaimNext(w, a)
        <4>0. PICK a \in Articles : ClaimNext(w, a)
          BY <3>4
        <4>1. row' \in [Articles -> Row]
          BY <4>0, WriteTypes, RowUpdates DEF ClaimNext
        <4>2. job' \in [Workers -> Job]
          BY <4>0, WriteTypes DEF ClaimNext
        <4> QED BY <4>0, <4>1, <4>2 DEF ClaimNext, Snapshot, Goto, Steps, lockVars
      <3>5. CASE \E a \in Articles : LoadItem(w, a)
        <4>0. PICK a \in Articles : LoadItem(w, a)
          BY <3>5
        <4>1. job' \in [Workers -> Job]
          BY <4>0, WriteTypes DEF LoadItem
        <4>2. seen' \in [Workers -> SUBSET Articles] /\ pc' \in [Workers -> Steps]
          BY <4>0 DEF LoadItem, Goto, Steps
        <4>3. \A v \in Workers : OnItem(v)' => job'[v].art \in Articles
          BY <4>0 DEF LoadItem, Snapshot, Goto
        <4> QED BY <4>0, <4>1, <4>2, <4>3 DEF LoadItem, lockVars
      <3>6. CASE FinishRun(w)
        BY <3>6, ControlTypes DEF FinishRun, LocalTypes
      <3>7. CASE SaveIdentity(w)
        BY <3>7, ControlTypes DEF SaveIdentity, LocalTypes, Steps
      <3>8. CASE Reconcile(w)
        BY <3>8, ControlTypes DEF Reconcile, LocalTypes, Steps
      <3>9. CASE GuardCheck(w)
        <4>1. LocalTypes'
          <5>1. CASE /\ OnItem(w) /\ \E c \in Canonicals(job[w].art) :
                                        job' = [job EXCEPT ![w].canon = c]
                     /\ Goto(w, "reject") /\ LeaveGuard(w) /\ UNCHANGED <<wpLock, seen, left>>
            BY <5>1 DEF Canonicals, Job, Goto, LeaveGuard, Drop, LocalTypes, Steps
          <5> QED BY <3>9, <5>1, ControlTypes DEF GuardCheck, Steps
        <4> QED BY <3>9, <4>1 DEF GuardCheck, LocalTypes
      <3>10. CASE PrepareImage(w)
        BY <3>10, ControlTypes DEF PrepareImage, LocalTypes, Steps
      <3>11. CASE BeginLegacyCreation(w)
        <4>1. row' \in [Articles -> Row]
          BY <3>11, WriteTypes, RowUpdates DEF BeginLegacyCreation
        <4>2. LocalTypes'
          BY <3>11, ControlTypes DEF BeginLegacyCreation, Steps
        <4> QED BY <4>1, <4>2, <3>11 DEF BeginLegacyCreation, LocalTypes
      <3>12. CASE SendCreate(w)
        <4>1. sent' \in [Articles -> Nat]
          BY <3>12, WriteTypes DEF SendCreate
        <4>2. LocalTypes'
          BY <3>12, ControlTypes DEF SendCreate, Steps
        <4> QED BY <4>1, <4>2, <3>12 DEF SendCreate, LocalTypes
      <3>13. CASE CreateSucceeds(w)
        <4>1. posts' \in [Articles -> Nat]
          BY <3>13, WriteTypes DEF CreateSucceeds
        <4>2. job' \in [Workers -> Job]
          <5>1. job[w].art \in Articles /\ posts[job[w].art] + 1 \in Nat
            BY <3>13 DEF CreateSucceeds, OnItem
          <5> QED BY <3>13, <5>1 DEF CreateSucceeds, Job
        <4> QED BY <3>13, <4>1, <4>2 DEF CreateSucceeds, Goto, Steps, lockVars
      <3>14. CASE SavePost(w)
        <4>0. job[w].ptr \in Nat
          BY DEF Job
        <4>1. row' \in [Articles -> Row]
          BY <3>14, <4>0, WriteTypes, RowUpdates DEF SavePost
        <4>2. LocalTypes'
          BY <3>14, ControlTypes DEF SavePost, Steps
        <4> QED BY <4>1, <4>2, <3>14 DEF SavePost, LocalTypes
      <3>15. CASE WriteYoast(w)
        BY <3>15, ControlTypes DEF WriteYoast, LocalTypes, Steps
      <3>16. CASE Complete(w)
        <4>1. row' \in [Articles -> Row]
          BY <3>16, WriteTypes, RowUpdates DEF Complete
        <4>2. LocalTypes'
          BY <3>16, ControlTypes DEF Complete, Steps
        <4> QED BY <4>1, <4>2, <3>16 DEF Complete, LocalTypes
      <3>17. CASE RequireManual(w)
        <4>1. row' \in [Articles -> Row]
          BY <3>17, WriteTypes, RowUpdates DEF RequireManual, SetRow, Statuses
        <4>2. LocalTypes'
          BY <3>17, ControlTypes DEF RequireManual, Steps
        <4> QED BY <4>1, <4>2, <3>17 DEF RequireManual, LocalTypes
      <3>18. CASE DeferGuard(w)
        <4>1. row' \in [Articles -> Row]
          BY <3>18, WriteTypes, RowUpdates DEF DeferGuard
        <4>2. LocalTypes'
          BY <3>18, ControlTypes DEF DeferGuard, Steps
        <4> QED BY <4>1, <4>2, <3>18 DEF DeferGuard, LocalTypes
      <3>19. CASE RejectDuplicate(w)
        <4>1. row' \in [Articles -> Row]
          BY <3>19, WriteTypes, RowUpdates DEF RejectDuplicate, Statuses
        <4>2. LocalTypes'
          BY <3>19, ControlTypes DEF RejectDuplicate, Steps
        <4> QED BY <4>1, <4>2, <3>19 DEF RejectDuplicate, LocalTypes
      <3>20. CASE FailClaim(w)
        BY <3>20, ControlTypes, RowUpdates DEF FailClaim, LocalTypes, Statuses
      <3> QED BY <2>1, <3>1, <3>2, <3>3, <3>4, <3>5, <3>6, <3>7, <3>8, <3>9, <3>10,
                 <3>11, <3>12, <3>13, <3>14, <3>15, <3>16, <3>17, <3>18, <3>19, <3>20
                 DEF WorkerStep
    <2>2. ASSUME NEW w \in Workers, WorkerFault(w) PROVE TypeOK'
      <3>0. UseFault => faults' \in Nat
        BY DEF UseFault
      <3>1. CASE StepFails(w) \/ CreateRefused(w)
        BY <3>0, <3>1, ControlTypes DEF StepFails, CreateRefused, LocalTypes
      <3>2. CASE GuardUnavailable(w)
        BY <3>0, <3>2, ControlTypes DEF GuardUnavailable, LocalTypes, Steps
      <3>3. CASE CreateUnanswered(w)
        <4>1. adrift' \in [Articles -> Nat]
          BY <3>3, WriteTypes DEF CreateUnanswered
        <4> QED BY <3>0, <3>3, <4>1, ControlTypes DEF CreateUnanswered, LocalTypes
      <3>4. Abandon(w) => /\ LocalTypes' /\ adrift' \in [Articles -> Nat]
                          /\ UNCHANGED <<due, sent, posts>>
        <4>1. Abandon(w) => adrift' \in [Articles -> Nat]
          <5>1. AddTo(adrift, job[w].art) \in [Articles -> Nat]
            BY WriteTypes
          <5> QED BY <5>1 DEF Abandon
        <4> QED BY <4>1, ControlTypes DEF Abandon
      <3>5. CASE Interrupt(w)
        BY <3>0, <3>4, <3>5, RowUpdates DEF Interrupt, LocalTypes, Statuses
      <3>6. CASE Crash(w)
        BY <3>0, <3>4, <3>6 DEF Crash, LocalTypes
      <3>7. CASE LosePublisherLock(w) \/ LoseMutex(w)
        BY <3>0, <3>7 DEF LosePublisherLock, LoseMutex, runVars
      <3> QED BY <2>2, <3>1, <3>2, <3>3, <3>5, <3>6, <3>7 DEF WorkerFault
    <2>3. ASSUME NEW a \in Articles, Environment(a) PROVE TypeOK'
      <3>1. CASE LandLate(a) \/ NeverLands(a)
        BY <2>3, <3>1 DEF LandLate, NeverLands, AddTo, lockVars, runVars
      <3>2. CASE Expire(a)
        <4>1. row' \in [Articles -> Row]
          BY <3>2, WriteTypes, RowUpdates DEF Expire
        <4> QED BY <3>2, <4>1 DEF Expire, lockVars, runVars
      <3>3. CASE Reschedule(a)
        BY <3>3 DEF Reschedule, lockVars, runVars
      <3> QED BY <2>3, <3>1, <3>2, <3>3 DEF Environment
    <2>4. CASE UNCHANGED vars
      BY <2>4 DEF vars
    <2> QED BY <2>1, <2>2, <2>3, <2>4 DEF Next
  <1> QED BY <1>1, <1>2, PTL DEF Spec

-----------------------------------------------------------------------------
(* One request and one post per article *)

\* Rows keep pointer and outcome, and none becomes fresh.
RowsKept ==
    \A a \in Articles :
        /\ row'[a].wp = row[a].wp /\ row'[a].pub = row[a].pub
        /\ FreshState(row'[a]) => FreshState(row[a])
        /\ row'[a].tok # None => InClaim(row'[a])

\* No worker gains a permission, a request or an unproven pointer.
ControlKept ==
    /\ GateHolds'
    /\ \A a \in Articles : \A w \in Workers :
          /\ Armed(w, a)' => Armed(w, a)
          /\ Awaiting(w, a)' => Awaiting(w, a)
          /\ job'[w].art = a => job'[w].ptr <= posts[a]
          /\ Saving(w, a)' => /\ job'[w].ptr = 1
                              /\ pc'[w] # "persist" => row[a].wp = 1

QuietStep == RowsKept /\ ControlKept /\ UNCHANGED <<sent, posts, adrift>>

\* A step that creates no permission, no request and no pointer is harmless.
LEMMA QuietPreserves ==
    ASSUME CreationInv, QuietStep PROVE CreationInv'
  <1> USE DEF CreationInv, QuietStep, RowsKept, ControlKept
  <1>1. AtMostOneCreate'
    BY DEF AtMostOneCreate
  <1>2. PermissionIsUnique'
    BY DEF PermissionIsUnique
  <1>3. RequestIsAccounted'
    BY DEF RequestIsAccounted
  <1>4. PointersAreReal'
    BY DEF PointersAreReal
  <1>5. TokenMeansClaim'
    BY DEF TokenMeansClaim
  <1> QED BY <1>1, <1>2, <1>3, <1>4, <1>5

\* Rows left alone and rows released to a status other than fresh are kept.
LEMMA RowsKeptBy ==
    ASSUME TypeOK, CreationInv
    PROVE  /\ UNCHANGED row => RowsKept
           /\ \A a, status : /\ status # "fresh"
                             /\ row' = [row EXCEPT ![a] = Released(row[a], status)]
                             => RowsKept
  <1> USE DEF TypeOK, CreationInv, RowsKept
  <1>1. UNCHANGED row => RowsKept
    BY DEF TokenMeansClaim
  <1>2. ASSUME NEW a, NEW status, status # "fresh",
               row' = [row EXCEPT ![a] = Released(row[a], status)]
        PROVE  RowsKept
    BY <1>2 DEF TokenMeansClaim, Released, FreshState, Row
  <1> QED BY <1>1, <1>2

\* The steps at which a durable worker may still create.
ArmedSteps == {"identity", "reconcile", "guard", "image", "precheck", "post", "defer",
               "reject"}

\* A move of worker w within its item that needs no new permission.
PlainMove(w, step) ==
    /\ Goto(w, step)
    /\ \A v \in Workers \ {w} : job'[v] = job[v]
    /\ job'[w].art = job[w].art /\ job'[w].ptr = job[w].ptr
    /\ job'[w].fresh = job[w].fresh
    /\ step # "await"
    /\ w \in Durable /\ step \in ArmedSteps => pc[w] \in ArmedSteps
    /\ w \in Durable /\ step \in ArmedSteps \ {"identity", "reconcile"} => job[w].fresh
    /\ w \notin Durable => step # "post"
    /\ step = "persist" => job[w].ptr > 0
    /\ step # "yoast" /\ (step = "complete" => pc[w] = "yoast")

LEMMA PlainMoveKept ==
    ASSUME TypeOK, CreationInv, NEW w \in Workers, NEW step, PlainMove(w, step)
    PROVE  ControlKept
  <1> USE DEF TypeOK, CreationInv, PlainMove, Goto
  <1>1. GateHolds'
    BY DEF GateHolds, ArmedSteps, Workers
  <1>2. ASSUME NEW a \in Articles, NEW v \in Workers
        PROVE  /\ Armed(v, a)' => Armed(v, a)
               /\ Awaiting(v, a)' => Awaiting(v, a)
               /\ job'[v].art = a => job'[v].ptr <= posts[a]
    BY DEF Armed, Awaiting, PointersAreReal, ArmedSteps
  <1>3. ASSUME NEW a \in Articles, NEW v \in Workers, Saving(v, a)'
        PROVE  job'[v].ptr = 1 /\ (pc'[v] # "persist" => row[a].wp = 1)
    <2>1. CASE v # w
      BY <1>3, <2>1 DEF Saving, PointersAreReal
    <2>2. CASE v = w
      <3>1. job[w].art = a /\ job[w].ptr <= posts[a] /\ posts[a] <= 1
        BY <1>3, <2>2 DEF Saving, PointersAreReal
      <3>2. job[w].ptr \in Nat /\ posts[a] \in Nat
        BY DEF Job
      <3>3. CASE step = "persist"
        BY <2>2, <3>1, <3>2, <3>3
      <3>4. CASE step = "complete"
        BY <2>2, <3>1, <3>4 DEF Saving, PointersAreReal
      <3> QED BY <1>3, <2>2, <3>3, <3>4 DEF Saving
    <2> QED BY <2>1, <2>2
  <1> QED BY <1>1, <1>2, <1>3 DEF ControlKept

\* Ending an item, ending a run and giving up keep the control part.
LEMMA ControlKeptBy ==
    ASSUME TypeOK, CreationInv, NEW w \in Workers
    PROVE  /\ UNCHANGED <<pc, job>> => ControlKept
           /\ NextItem(w) => ControlKept
           /\ EndRun(w) => ControlKept
           /\ GiveUp(w) => ControlKept
  <1> USE ArticlesAssumption DEF TypeOK, CreationInv, ControlKept, GateHolds,
      PointersAreReal, Armed, Awaiting, Saving, Goto, NoJob
  <1>1. UNCHANGED <<pc, job>> => ControlKept
    OBVIOUS
  <1>2. NextItem(w) => ControlKept
    BY DEF NextItem
  <1>3. EndRun(w) => ControlKept
    BY DEF EndRun
  <1>4. GiveUp(w) => ControlKept
    <2>1. Advance(w, "failing") => PlainMove(w, "failing")
      BY DEF Advance, PlainMove, runVars, ArmedSteps
    <2> QED BY <1>2, <2>1, PlainMoveKept DEF GiveUp
  <1> QED BY <1>1, <1>2, <1>3, <1>4

\* The steps of a worker that neither claim, create, save nor publish.
LEMMA QuietWorkerSteps ==
    ASSUME TypeOK, CreationInv, NEW w \in Workers,
           \/ StartDurable(w) \/ StartLegacy(w) \/ HoldMutex(w)
           \/ w \notin Durable /\ \E a \in Articles : LoadItem(w, a)
           \/ FinishRun(w) \/ SaveIdentity(w) \/ Reconcile(w) \/ GuardCheck(w)
           \/ PrepareImage(w) \/ WriteYoast(w) \/ RequireManual(w)
           \/ RejectDuplicate(w) \/ FailClaim(w)
    PROVE  QuietStep
  <1> USE RowsKeptBy, ControlKeptBy DEF QuietStep, tableVars, siteVars
  <1>1. CASE StartDurable(w) \/ StartLegacy(w)
    <2>1. PICK step \in {"hold", "loop"} : PlainMove(w, step)
      BY <1>1 DEF StartDurable, StartLegacy, PlainMove, Goto, ArmedSteps
    <2> QED BY <1>1, <2>1, PlainMoveKept DEF StartDurable, StartLegacy
  <1>2. CASE HoldMutex(w)
    <2>1. CASE pc' = [pc EXCEPT ![w] = IF w \in Durable THEN "loop" ELSE "guard"]
               /\ UNCHANGED job
      <3>1. ControlKept
        BY <1>2, <2>1 DEF HoldMutex, TypeOK, CreationInv, ControlKept, GateHolds,
           PointersAreReal, Armed, Awaiting, Saving
      <3> QED BY <1>2, <3>1 DEF HoldMutex
    <2> QED BY <1>2, <2>1 DEF HoldMutex, Advance, Goto, runVars
  <1>3. CASE w \notin Durable /\ \E a \in Articles : LoadItem(w, a)
    <2>1. PICK a \in Articles : LoadItem(w, a)
      BY <1>3
    <2>2. CASE row[a].pub
      BY <2>1, <2>2 DEF LoadItem
    <2>3. CASE ~row[a].pub
      <3>1. /\ w \notin Durable
            /\ pc' = [pc EXCEPT ![w] = "reconcile"] /\ job' = [job EXCEPT ![w] = Snapshot(a)]
        BY <1>3, <2>1, <2>3 DEF LoadItem, Goto
      <3>2. GateHolds'
        BY <3>1 DEF TypeOK, CreationInv, GateHolds
      <3>3. ASSUME NEW b \in Articles, NEW v \in Workers
            PROVE  /\ Armed(v, b)' => Armed(v, b)
                   /\ Awaiting(v, b)' => Awaiting(v, b)
                   /\ job'[v].art = b => job'[v].ptr <= posts[b]
        BY <3>1 DEF TypeOK, CreationInv, PointersAreReal, Armed, Awaiting, Snapshot
      <3>4. ASSUME NEW b \in Articles, NEW v \in Workers, Saving(v, b)'
            PROVE  job'[v].ptr = 1 /\ (pc'[v] # "persist" => row[b].wp = 1)
        BY <3>1, <3>4 DEF TypeOK, CreationInv, PointersAreReal, Saving
      <3> QED BY <2>1, <3>2, <3>3, <3>4 DEF LoadItem, ControlKept
    <2> QED BY <2>2, <2>3
  <1>4. CASE FinishRun(w)
    BY <1>4 DEF FinishRun
  <1>5. CASE SaveIdentity(w) \/ PrepareImage(w) \/ WriteYoast(w)
    <2>1. CASE \E step \in Steps : PlainMove(w, step)
      BY <1>5, <2>1, PlainMoveKept DEF SaveIdentity, PrepareImage, WriteYoast
    <2>2. CASE GiveUp(w)
      BY <1>5, <2>2 DEF SaveIdentity, PrepareImage, WriteYoast
    <2> QED BY <1>5, <2>1, <2>2 DEF SaveIdentity, PrepareImage, WriteYoast, Advance,
                Divert, Goto, runVars, PlainMove, ArmedSteps, Steps, CreationInv, GateHolds
  <1>6. CASE Reconcile(w)
    <2>1. PICK step : PlainMove(w, step)
      BY <1>6 DEF Reconcile, Advance, Goto, runVars, PlainMove, ArmedSteps
    <2> QED BY <1>6, <2>1, PlainMoveKept DEF Reconcile
  <1>7. CASE GuardCheck(w)
    <2>1. PICK step : PlainMove(w, step)
      <3>1. /\ pc[w] \in {"guard", "precheck"}
            /\ w \in Durable => job[w].fresh
        BY <1>7 DEF GuardCheck, CreationInv, GateHolds
      <3>2. /\ \A v \in Workers \ {w} : job'[v] = job[v]
            /\ job'[w].art = job[w].art /\ job'[w].ptr = job[w].ptr
            /\ job'[w].fresh = job[w].fresh
        BY <1>7 DEF GuardCheck, Advance, Divert, runVars, TypeOK, Job
      <3>3. PICK step \in {"image", "post", "defer", "reject", "manual"} \union
                          (IF w \in Durable THEN {} ELSE {"intent"}) :
               Goto(w, step) /\ (w \notin Durable => step # "post")
        BY <1>7, WorkersAssumption DEF GuardCheck, Advance, Divert, Workers
      <3> QED BY <3>1, <3>2, <3>3 DEF PlainMove, ArmedSteps
    <2> QED BY <1>7, <2>1, PlainMoveKept DEF GuardCheck
  <1>8. CASE RequireManual(w)
    BY <1>8 DEF RequireManual, SetRow
  <1>9. CASE RejectDuplicate(w)
    BY <1>9 DEF RejectDuplicate, SetRow
  <1>10. CASE FailClaim(w)
    BY <1>10 DEF FailClaim
  <1> QED BY <1>1, <1>2, <1>3, <1>4, <1>5, <1>6, <1>7, <1>8, <1>9, <1>10

\* The remaining steps: the claim, the legacy intent, the request and its
\* outcomes, the two saves, and the return of a claim to the fresh state.

LEMMA ClaimNextPreserves ==
    ASSUME TypeOK, CreationInv, NEW w \in Durable, NEW a \in Articles, ClaimNext(w, a)
    PROVE  CreationInv'
  <1> USE DEF TypeOK, CreationInv, ClaimNext, SetRow, Snapshot, Goto, siteVars
  <1>1. AtMostOneCreate' /\ GateHolds'
    BY DEF AtMostOneCreate, GateHolds, Workers
  <1>2. PermissionIsUnique'
    BY DEF PermissionIsUnique, Armed, FreshState, Claimed, Row, Workers
  <1>3. RequestIsAccounted'
    BY DEF RequestIsAccounted, Awaiting, Workers
  <1>4. PointersAreReal'
    BY DEF PointersAreReal, Saving, Claimed, Row, Workers
  <1>5. TokenMeansClaim'
    BY DEF TokenMeansClaim, Claimed, InClaim, Row
  <1> QED BY <1>1, <1>2, <1>3, <1>4, <1>5

LEMMA IntentPreserves ==
    ASSUME TypeOK, CreationInv, NEW w \in Workers, BeginLegacyCreation(w)
    PROVE  CreationInv'
  <1> DEFINE a == job[w].art
  <1> USE DEF TypeOK, CreationInv, BeginLegacyCreation, siteVars
  <1>1. CASE NextItem(w) /\ UNCHANGED row
    BY <1>1, RowsKeptBy, ControlKeptBy, QuietPreserves DEF QuietStep
  <1>2. CASE FreshState(row[a]) /\ SetRow(a, LegacyIntent(row[a])) /\ Advance(w, "post")
    <2> USE <1>2 DEF SetRow, Advance, Goto, runVars
    <2>1. AtMostOneCreate'
      BY DEF AtMostOneCreate
    <2>2. PermissionIsUnique'
      BY DEF PermissionIsUnique, Armed, FreshState, LegacyIntent, Row
    <2>3. RequestIsAccounted'
      BY DEF RequestIsAccounted, Awaiting
    <2>4. PointersAreReal'
      BY DEF PointersAreReal, Saving, LegacyIntent, Row
    <2>5. TokenMeansClaim'
      BY DEF TokenMeansClaim, FreshState, LegacyIntent, Row
    <2>6. GateHolds'
      BY WorkersAssumption DEF GateHolds, Workers
    <2> QED BY <2>1, <2>2, <2>3, <2>4, <2>5, <2>6
  <1> QED BY <1>1, <1>2

LEMMA SendCreatePreserves ==
    ASSUME TypeOK, CreationInv, NEW w \in Workers, SendCreate(w)
    PROVE  CreationInv'
  <1> USE DEF TypeOK, CreationInv, SendCreate, Advance, AddTo, Goto, tableVars, runVars
  <1>1. AtMostOneCreate' /\ GateHolds'
    BY DEF AtMostOneCreate, GateHolds, PermissionIsUnique, Armed, Workers
  <1>2. PermissionIsUnique'
    BY DEF PermissionIsUnique, Armed, GateHolds
  <1>3. RequestIsAccounted'
    BY DEF RequestIsAccounted, Awaiting, PermissionIsUnique, Armed, GateHolds
  <1>4. PointersAreReal'
    BY DEF PointersAreReal, Saving
  <1>5. TokenMeansClaim'
    BY DEF TokenMeansClaim
  <1> QED BY <1>1, <1>2, <1>3, <1>4, <1>5

LEMMA CreateSucceedsPreserves ==
    ASSUME TypeOK, CreationInv, NEW w \in Workers, CreateSucceeds(w)
    PROVE  CreationInv'
  <1> DEFINE a == job[w].art
  <1> USE DEF TypeOK, CreationInv, CreateSucceeds, AddTo, Goto, tableVars
  <1>1. a \in Articles /\ posts[a] = 0 /\ sent[a] > 0
    BY DEF RequestIsAccounted, Awaiting, OnItem
  <1>2. /\ posts'[a] = 1 /\ job'[w].ptr = 1 /\ job'[w].art = a
        /\ \A b \in Articles \ {a} : posts'[b] = posts[b]
    BY <1>1 DEF Job
  <1>3. AtMostOneCreate' /\ GateHolds'
    BY DEF AtMostOneCreate, GateHolds, Workers
  <1>4. PermissionIsUnique'
    BY DEF PermissionIsUnique, Armed
  <1>5. RequestIsAccounted'
    BY <1>1 DEF RequestIsAccounted, Awaiting
  <1>6. PointersAreReal'
    BY <1>1, <1>2 DEF PointersAreReal, Saving, Row, Job
  <1>7. TokenMeansClaim'
    BY DEF TokenMeansClaim
  <1> QED BY <1>3, <1>4, <1>5, <1>6, <1>7

LEMMA SavePostPreserves ==
    ASSUME TypeOK, CreationInv, NEW w \in Workers, SavePost(w)
    PROVE  CreationInv'
  <1> DEFINE a == job[w].art
             id == job[w].ptr
  <1> USE DEF TypeOK, CreationInv, SavePost, siteVars
  <1>1. CASE GiveUp(w) /\ UNCHANGED row
    BY <1>1, RowsKeptBy, ControlKeptBy, QuietPreserves DEF QuietStep
  <1>2. CASE /\ Advance(w, "yoast")
             /\ \/ SetRow(a, PostSaved(row[a], id))
                \/ SetRow(a, [row[a] EXCEPT !.wp = id])
    <2> USE <1>2 DEF SetRow, Advance, Goto, runVars
    <2>1. a \in Articles /\ id = 1 /\ posts[a] = 1
      BY DEF OnItem, Saving, PointersAreReal
    <2>2. /\ row'[a].wp = 1 /\ row'[a].pub = row[a].pub /\ row'[a].tok = row[a].tok
          /\ InClaim(row[a]) => InClaim(row'[a])
          /\ ~FreshState(row'[a])
          /\ \A b \in Articles \ {a} : row'[b] = row[b]
      <3>1. \A b \in Articles \ {a} : row'[b] = row[b]
        OBVIOUS
      <3>2. row'[a] \in {PostSaved(row[a], id), [row[a] EXCEPT !.wp = id]}
        BY <2>1
      <3>3. row[a] \in Row
        BY <2>1
      <3> HIDE <1>2 DEF SetRow
      <3>4. CASE row'[a] = PostSaved(row[a], id)
        BY <2>1, <3>1, <3>3, <3>4 DEF PostSaved, Row, InClaim, FreshState
      <3>5. CASE row'[a] = [row[a] EXCEPT !.wp = id]
        BY <2>1, <3>1, <3>3, <3>5 DEF Row, InClaim, FreshState
      <3> QED BY <3>2, <3>4, <3>5
    <2> HIDE <1>2 DEF SetRow
    <2>3. AtMostOneCreate' /\ GateHolds'
      BY <1>2 DEF AtMostOneCreate, GateHolds, Workers
    <2>4. PermissionIsUnique'
      BY <1>2, <2>2 DEF PermissionIsUnique, Armed
    <2>5. RequestIsAccounted'
      BY <1>2 DEF RequestIsAccounted, Awaiting
    <2>6. PointersAreReal'
      BY <1>2, <2>1, <2>2 DEF PointersAreReal, Saving
    <2>7. TokenMeansClaim'
      BY <2>2 DEF TokenMeansClaim
    <2> QED BY <2>3, <2>4, <2>5, <2>6, <2>7
  <1> QED BY <1>1, <1>2

LEMMA CompletePreserves ==
    ASSUME TypeOK, CreationInv, NEW w \in Workers, Complete(w)
    PROVE  CreationInv'
  <1> DEFINE a == job[w].art
  <1> USE DEF TypeOK, CreationInv, Complete, siteVars
  <1>1. CASE GiveUp(w) /\ UNCHANGED row
    BY <1>1, RowsKeptBy, ControlKeptBy, QuietPreserves DEF QuietStep
  <1>2. CASE /\ NextItem(w)
             /\ \/ SetRow(a, Completed(row[a]))
                \/ SetRow(a, [row[a] EXCEPT !.pub = TRUE])
    <2>1. a \in Articles /\ row[a].wp = 1
      BY DEF OnItem, Saving, PointersAreReal
    <2>2. /\ row'[a].wp = 1 /\ row'[a].pub
          /\ row'[a].tok # None => InClaim(row'[a])
          /\ \A b \in Articles \ {a} : row'[b] = row[b]
      <3>1. \A b \in Articles \ {a} : row'[b] = row[b]
        BY <1>2 DEF SetRow
      <3>2. row'[a] \in {Completed(row[a]), [row[a] EXCEPT !.pub = TRUE]}
        BY <1>2, <2>1 DEF SetRow
      <3>3. row[a] \in Row /\ (row[a].tok # None => InClaim(row[a]))
        BY <2>1 DEF TokenMeansClaim
      <3>4. CASE row'[a] = Completed(row[a])
        BY <2>1, <3>1, <3>3, <3>4 DEF Completed, Released, Row
      <3>5. CASE row'[a] = [row[a] EXCEPT !.pub = TRUE]
        BY <2>1, <3>1, <3>3, <3>5 DEF Row, InClaim
      <3> QED BY <3>2, <3>4, <3>5
    <2>3. ControlKept
      BY <1>2, ControlKeptBy
    <2>4. AtMostOneCreate' /\ GateHolds'
      BY <2>3 DEF AtMostOneCreate, ControlKept
    <2>5. PermissionIsUnique'
      BY <2>2, <2>3 DEF PermissionIsUnique, ControlKept, FreshState
    <2>6. RequestIsAccounted'
      BY <2>3 DEF RequestIsAccounted, ControlKept
    <2>7. PointersAreReal'
      BY <2>1, <2>2, <2>3 DEF PointersAreReal, ControlKept
    <2>8. TokenMeansClaim'
      BY <2>2 DEF TokenMeansClaim
    <2> QED BY <2>4, <2>5, <2>6, <2>7, <2>8
  <1> QED BY <1>1, <1>2

\* Only the one holder of the permission makes a row fresh again, and gives
\* its permission back by doing so.
LEMMA DeferGuardPreserves ==
    ASSUME TypeOK, CreationInv, NEW w \in Workers, DeferGuard(w)
    PROVE  CreationInv'
  <1> USE DEF TypeOK, CreationInv, DeferGuard, siteVars
  <1>0. PICK a \in Articles : a = job[w].art
    BY DEF OnItem
  <1>1. CASE (GiveUp(w) \/ NextItem(w)) /\ UNCHANGED row
    BY <1>1, RowsKeptBy, ControlKeptBy, QuietPreserves DEF QuietStep
  <1>2. CASE w \in Durable /\ SetRow(a, Refreshed(row[a])) /\ NextItem(w)
    <2>1. Armed(w, a) /\ sent[a] = 0
      BY <1>0, <1>2 DEF GateHolds, Armed, PermissionIsUnique
    <2>2. \A v \in Workers : ~Armed(v, a)'
      <3>1. ~Armed(w, a)'
        BY <1>2, <2>1, ArticlesAssumption DEF Armed, NextItem, NoJob
      <3>2. ASSUME NEW v \in Workers \ {w} PROVE ~Armed(v, a)'
        <4>1. ~Armed(v, a)
          BY <2>1 DEF PermissionIsUnique
        <4>2. job'[v] = job[v] /\ pc'[v] = pc[v]
          BY <1>2 DEF NextItem, Goto
        <4> QED BY <4>1, <4>2 DEF Armed
      <3> QED BY <3>1, <3>2
    <2>3. /\ row'[a].wp = row[a].wp /\ row'[a].pub = row[a].pub /\ row'[a].tok = None
          /\ \A b \in Articles \ {a} : row'[b] = row[b]
      BY <1>2, <2>1 DEF SetRow, Refreshed, Released, Row
    <2>4. ControlKept
      BY <1>2, ControlKeptBy
    <2>5. AtMostOneCreate' /\ GateHolds'
      BY <2>4 DEF AtMostOneCreate, ControlKept
    <2>6. PermissionIsUnique'
      <3> SUFFICES ASSUME NEW b \in Articles
                   PROVE  /\ FreshState(row'[b]) => sent[b] = 0
                          /\ \A v \in Workers :
                                Armed(v, b)' =>
                                   /\ sent[b] = 0 /\ ~FreshState(row'[b])
                                   /\ \A u \in Workers : Armed(u, b)' => u = v
        BY DEF PermissionIsUnique
      <3>1. CASE b = a
        BY <2>1, <2>2, <3>1
      <3>2. CASE b # a
        BY <2>3, <2>4, <3>2 DEF PermissionIsUnique, ControlKept
      <3> QED BY <3>1, <3>2
    <2>7. RequestIsAccounted'
      BY <2>4 DEF RequestIsAccounted, ControlKept
    <2>8. PointersAreReal'
      BY <2>3, <2>4 DEF PointersAreReal, ControlKept
    <2>9. TokenMeansClaim'
      BY <2>3 DEF TokenMeansClaim
    <2> QED BY <2>5, <2>6, <2>7, <2>8, <2>9
  <1> QED BY <1>0, <1>1, <1>2

\* Losing a lock and failing a step create nothing; a request left behind is
\* adrift and stays the only one.
LEMMA FaultPreserves ==
    ASSUME TypeOK, CreationInv, NEW w \in Workers, WorkerFault(w)
    PROVE  CreationInv'
  <1>1. CASE StepFails(w) \/ CreateRefused(w) \/ LosePublisherLock(w) \/ LoseMutex(w)
    BY <1>1, RowsKeptBy, ControlKeptBy, QuietPreserves
       DEF StepFails, CreateRefused, LosePublisherLock, LoseMutex, QuietStep,
           tableVars, siteVars, runVars
  <1>2. CASE GuardUnavailable(w)
    <2>1. w \in Durable => job[w].fresh
      BY <1>2 DEF GuardUnavailable, CreationInv, GateHolds
    <2>2. PlainMove(w, "defer")
      BY <1>2, <2>1 DEF GuardUnavailable, Divert, runVars, PlainMove, ArmedSteps
    <2> QED BY <1>2, <2>2, RowsKeptBy, PlainMoveKept, QuietPreserves
            DEF GuardUnavailable, QuietStep, tableVars, siteVars
  <1>3. ASSUME RowsKept, ControlKept, UNCHANGED <<sent, posts>>, pc[w] = "await",
               pc'[w] # "await", adrift' = AddTo(adrift, job[w].art)
        PROVE  CreationInv'
    <2> USE DEF CreationInv, RowsKept, ControlKept
    <2>0. PICK a \in Articles : a = job[w].art
      BY <1>3 DEF TypeOK, OnItem
    <2>1. sent[a] > 0 /\ posts[a] = 0 /\ adrift[a] = 0
      BY <1>3, <2>0 DEF RequestIsAccounted, Awaiting
    <2>2. adrift'[a] = 1 /\ \A b \in Articles \ {a} : adrift'[b] = adrift[b]
      BY <1>3, <2>0, <2>1 DEF TypeOK, AddTo
    <2>3. \A v \in Workers : ~Awaiting(v, a)'
      <3> SUFFICES ASSUME NEW v \in Workers, Awaiting(v, a)' PROVE FALSE
        OBVIOUS
      <3>1. Awaiting(v, a) /\ Awaiting(w, a)
        BY <1>3, <2>0 DEF Awaiting
      <3>2. v = w
        BY <3>1 DEF RequestIsAccounted
      <3> QED BY <1>3, <3>2 DEF Awaiting
    <2>4. AtMostOneCreate' /\ GateHolds'
      BY <1>3 DEF AtMostOneCreate
    <2>5. PermissionIsUnique'
      BY <1>3 DEF PermissionIsUnique
    <2>6. RequestIsAccounted'
      BY <1>3, <2>1, <2>2, <2>3 DEF RequestIsAccounted
    <2>7. PointersAreReal'
      BY <1>3 DEF PointersAreReal
    <2>8. TokenMeansClaim'
      BY <1>3 DEF TokenMeansClaim
    <2> QED BY <2>4, <2>5, <2>6, <2>7, <2>8
  <1>4. CASE CreateUnanswered(w)
    <2>1. pc'[w] # "await"
      BY <1>4 DEF CreateUnanswered, GiveUp, Advance, NextItem, Goto, TypeOK
    <2> QED BY <1>3, <1>4, <2>1, RowsKeptBy, ControlKeptBy DEF CreateUnanswered, tableVars
  <1>5. ASSUME RowsKept, Abandon(w) PROVE CreationInv'
    <2>1. ControlKept /\ pc'[w] # "await" /\ UNCHANGED <<sent, posts>>
      BY <1>5, ControlKeptBy DEF Abandon, EndRun, Goto, TypeOK
    <2>2. CASE pc[w] = "await"
      BY <1>3, <1>5, <2>1, <2>2 DEF Abandon
    <2>3. CASE pc[w] # "await"
      BY <1>5, <2>1, <2>3, QuietPreserves DEF Abandon, QuietStep
    <2> QED BY <2>2, <2>3
  <1>6. CASE Crash(w)
    BY <1>5, <1>6, RowsKeptBy DEF Crash
  <1>7. CASE Interrupt(w)
    BY <1>5, <1>7, RowsKeptBy DEF Interrupt
  <1> QED BY <1>1, <1>2, <1>4, <1>6, <1>7 DEF WorkerFault

LEMMA EnvironmentPreserves ==
    ASSUME TypeOK, CreationInv, NEW a \in Articles, Environment(a)
    PROVE  CreationInv'
  <1>1. UNCHANGED <<pc, job>> /\ ControlKept
    <2>1. UNCHANGED <<pc, job>>
      BY DEF Environment, LandLate, NeverLands, Expire, Reschedule, runVars
    <2> QED BY <2>1 DEF ControlKept, CreationInv, GateHolds, PointersAreReal, Armed,
                Awaiting, Saving
  <1>2. CASE Reschedule(a)
    BY <1>1, <1>2, RowsKeptBy, QuietPreserves DEF Reschedule, QuietStep, siteVars
  <1>3. CASE Expire(a)
    <2>1. RowsKept
      BY <1>3 DEF Expire, SetRow, RowsKept, TypeOK, CreationInv, TokenMeansClaim, Row,
         InClaim, FreshState
    <2> QED BY <1>1, <1>3, <2>1, QuietPreserves DEF Expire, QuietStep, siteVars
  <1>4. CASE LandLate(a) \/ NeverLands(a)
    <2> USE <1>1, <1>4 DEF LandLate, NeverLands, AddTo, tableVars, CreationInv, TypeOK
    <2>1. adrift[a] = 1 /\ posts[a] = 0 /\ sent[a] > 0
      BY DEF RequestIsAccounted
    <2>2. /\ adrift'[a] = 0 /\ posts'[a] <= 1 /\ posts'[a] \in Nat
          /\ \A b \in Articles \ {a} : adrift'[b] = adrift[b] /\ posts'[b] = posts[b]
      BY <2>1
    <2>3. AtMostOneCreate' /\ GateHolds'
      BY DEF AtMostOneCreate, GateHolds
    <2>4. PermissionIsUnique'
      BY DEF PermissionIsUnique, Armed
    <2>5. RequestIsAccounted'
      BY <2>1, <2>2 DEF RequestIsAccounted, Awaiting
    <2>6. PointersAreReal'
      BY <2>1, <2>2 DEF PointersAreReal, Saving, Row, Job
    <2>7. TokenMeansClaim'
      BY DEF TokenMeansClaim
    <2> QED BY <2>3, <2>4, <2>5, <2>6, <2>7
  <1> QED BY <1>2, <1>3, <1>4 DEF Environment

LEMMA StepPreserves ==
    ASSUME TypeOK, CreationInv, [Next]_vars PROVE CreationInv'
  <1>1. ASSUME NEW w \in Workers, WorkerStep(w) PROVE CreationInv'
    BY <1>1, QuietWorkerSteps, QuietPreserves, ClaimNextPreserves, IntentPreserves,
       SendCreatePreserves, CreateSucceedsPreserves, SavePostPreserves,
       CompletePreserves, DeferGuardPreserves, WorkersAssumption DEF WorkerStep, Workers
  <1>2. ASSUME NEW w \in Workers, WorkerFault(w) PROVE CreationInv'
    BY <1>2, FaultPreserves
  <1>3. ASSUME NEW a \in Articles, Environment(a) PROVE CreationInv'
    BY <1>3, EnvironmentPreserves
  <1>4. CASE UNCHANGED vars
    BY <1>4 DEF vars, CreationInv, AtMostOneCreate, GateHolds, PermissionIsUnique,
       RequestIsAccounted, PointersAreReal, TokenMeansClaim, Armed, Awaiting, Saving
  <1> QED BY <1>1, <1>2, <1>3, <1>4 DEF Next

\* The strengthening is an invariant of every run of the publication system.
THEOREM CreationInvariant == Spec => []CreationInv
  <1>1. Init => CreationInv
    BY DEF Init, CreationInv, AtMostOneCreate, GateHolds, PermissionIsUnique,
       RequestIsAccounted, PointersAreReal, TokenMeansClaim, Armed, Awaiting, Saving,
       NoJob, Workers
  <1>2. TypeOK /\ CreationInv /\ [Next]_vars => CreationInv'
    BY StepPreserves
  <1> QED BY <1>1, <1>2, TypeCorrect, PTL DEF Spec

\* No article is submitted to WordPress twice, for any number of workers of
\* either kind, any crashes, lost locks, expired claims and deferrals.
THEOREM OneCreatePerArticle == Spec => []AtMostOneCreate
  <1>1. CreationInv => AtMostOneCreate
    BY DEF CreationInv
  <1> QED BY <1>1, CreationInvariant, PTL

\* A published row points to a post that exists.
THEOREM PublishedPointsToPost == Spec => []PublishedMeansPosted
  <1>1. TypeOK /\ CreationInv => PublishedMeansPosted
    BY DEF TypeOK, Row, CreationInv, PointersAreReal, PublishedMeansPosted
  <1> QED BY <1>1, TypeCorrect, CreationInvariant, PTL

-----------------------------------------------------------------------------
(* Action properties *)

\* What the row updates leave alone.
LEMMA RowFields ==
    ASSUME NEW r \in Row, NEW id
    PROVE  /\ PostSaved(r, id).wp = id /\ PostSaved(r, id).tok = r.tok
           /\ LegacyIntent(r).wp = r.wp
           /\ Completed(r).wp = r.wp
           /\ Refreshed(r).wp = r.wp
           /\ [r EXCEPT !.wp = id].wp = id /\ [r EXCEPT !.wp = id].tok = r.tok
           /\ [r EXCEPT !.pub = TRUE].wp = r.wp
  <1>1. PostSaved(r, id).wp = id /\ PostSaved(r, id).tok = r.tok
    BY DEF Row, PostSaved
  <1>2. LegacyIntent(r).wp = r.wp
    BY DEF Row, LegacyIntent
  <1>3. Completed(r).wp = r.wp /\ Refreshed(r).wp = r.wp
    BY DEF Row, Completed, Refreshed, Released
  <1>4. /\ [r EXCEPT !.wp = id].wp = id /\ [r EXCEPT !.wp = id].tok = r.tok
        /\ [r EXCEPT !.pub = TRUE].wp = r.wp
    BY DEF Row
  <1> QED BY <1>1, <1>2, <1>3, <1>4

\* A step leaves the pointer of a row alone or sets it to the one post's id.
LEMMA PointerWrites ==
    ASSUME TypeOK, CreationInv, [Next]_vars, NEW a \in Articles
    PROVE  row'[a].wp \in {row[a].wp, 1}
  <1> USE DEF TypeOK
  <1>1. row[a] \in Row
    OBVIOUS
  <1>2. CASE RowsKept \/ UNCHANGED row
    BY <1>2 DEF RowsKept
  <1>3. ASSUME NEW w \in Workers, WorkerStep(w) PROVE row'[a].wp \in {row[a].wp, 1}
    <2>1. CASE QuietStep
      BY <1>2, <2>1 DEF QuietStep
    <2>2. CASE \E b \in Articles : ClaimNext(w, b)
      BY <1>1, <2>2 DEF ClaimNext, SetRow, Claimed, Row
    <2>3. CASE BeginLegacyCreation(w)
      <3>1. row'[a] \in {row[a], LegacyIntent(row[a])}
        BY <2>3 DEF BeginLegacyCreation, SetRow
      <3> QED BY <1>1, <3>1, RowFields
    <2>4. CASE SendCreate(w) \/ CreateSucceeds(w)
      BY <1>2, <2>4 DEF SendCreate, CreateSucceeds, tableVars
    <2>5. CASE SavePost(w)
      <3>1. job[w].art = a => job[w].ptr = 1
        BY <2>5 DEF SavePost, CreationInv, PointersAreReal, Saving
      <3>2. \/ row'[a] = row[a]
            \/ /\ job[w].art = a
               /\ row'[a] \in {PostSaved(row[a], job[w].ptr), [row[a] EXCEPT !.wp = job[w].ptr]}
        BY <2>5 DEF SavePost, SetRow
      <3>3. CASE job[w].art = a /\ row'[a] = PostSaved(row[a], job[w].ptr)
        BY <1>1, <3>1, <3>3, RowFields
      <3>4. CASE job[w].art = a /\ row'[a] = [row[a] EXCEPT !.wp = job[w].ptr]
        BY <1>1, <3>1, <3>4 DEF Row
      <3> QED BY <3>1, <3>2, <3>3, <3>4
    <2>6. CASE Complete(w)
      <3>1. row'[a] \in {row[a], Completed(row[a]), [row[a] EXCEPT !.pub = TRUE]}
        BY <2>6 DEF Complete, SetRow
      <3> QED BY <1>1, <3>1, RowFields
    <2>7. CASE DeferGuard(w)
      <3>1. row'[a] \in {row[a], Refreshed(row[a])}
        BY <2>7 DEF DeferGuard, SetRow
      <3> QED BY <1>1, <3>1, RowFields
    <2> QED BY <1>3, <2>1, <2>2, <2>3, <2>4, <2>5, <2>6, <2>7, QuietWorkerSteps,
               WorkersAssumption DEF WorkerStep
  <1>4. ASSUME NEW w \in Workers, WorkerFault(w) PROVE RowsKept \/ UNCHANGED row
    BY <1>4, RowsKeptBy DEF WorkerFault, StepFails, GuardUnavailable, CreateRefused,
       CreateUnanswered, Interrupt, Crash, LosePublisherLock, LoseMutex, tableVars
  <1>5. ASSUME NEW b \in Articles, Environment(b) PROVE row'[a].wp = row[a].wp
    BY <1>1, <1>5 DEF Environment, LandLate, NeverLands, Expire, Reschedule, SetRow,
       tableVars, Row
  <1>6. CASE UNCHANGED vars
    BY <1>2, <1>6 DEF vars
  <1> QED BY <1>2, <1>3, <1>4, <1>5, <1>6 DEF Next

\* A saved post id is never replaced or erased.
THEOREM PointersAreKept == Spec => PointerIsKept
  <1>1. TypeOK /\ CreationInv /\ [Next]_vars =>
           [\A a \in Articles : row[a].wp > 0 => row'[a].wp = row[a].wp]_vars
    <2> SUFFICES ASSUME TypeOK, CreationInv, [Next]_vars, NEW a \in Articles, row[a].wp > 0
                 PROVE  row'[a].wp = row[a].wp
      OBVIOUS
    <2>1. row[a].wp = 1
      <3>1. row[a].wp \in Nat /\ posts[a] \in Nat
        BY DEF TypeOK, Row
      <3>2. row[a].wp <= posts[a] /\ posts[a] <= 1
        BY DEF CreationInv, PointersAreReal
      <3> QED BY <3>1, <3>2
    <2> QED BY <2>1, PointerWrites
  <1> QED BY <1>1, TypeCorrect, CreationInvariant, PTL DEF Spec, PointerIsKept

\* The token of a row with a live lease changes only by a step of its owner.
LEMMA TokenWrites ==
    ASSUME TypeOK, CreationInv, [Next]_vars, NEW a \in Articles, NEW w \in Workers,
           row[a].tok = w, row[a].lease = "live", row'[a].tok # w
    PROVE  job[w].art = a /\ pc'[w] # pc[w]
  <1> USE DEF TypeOK
  <1>1. row[a] \in Row /\ InClaim(row[a]) /\ w # None
    BY WorkersAssumption DEF CreationInv, TokenMeansClaim
  <1>2. ASSUME NEW v \in Workers, WorkerStep(v) PROVE job[w].art = a /\ pc'[w] # pc[w]
    <2>1. CASE UNCHANGED row
      BY <2>1
    <2>2. ASSUME NEW b \in Articles, ClaimNext(v, b) PROVE FALSE
      BY <1>1, <2>2 DEF ClaimNext, Claimable, InClaim, SetRow, Claimed
    <2>3. ASSUME BeginLegacyCreation(v) PROVE FALSE
      BY <1>1, <2>3 DEF BeginLegacyCreation, FreshState, InClaim, SetRow, LegacyIntent
    <2>4. ASSUME SavePost(v) PROVE FALSE
      <3>1. row'[a] \in {row[a], PostSaved(row[a], job[v].ptr),
                         [row[a] EXCEPT !.wp = job[v].ptr]}
        BY <2>4 DEF SavePost, SetRow
      <3>2. CASE row'[a] = PostSaved(row[a], job[v].ptr)
        BY <1>1, <3>2, RowFields
      <3>3. CASE row'[a] = [row[a] EXCEPT !.wp = job[v].ptr]
        BY <1>1, <3>3 DEF Row
      <3> QED BY <3>1, <3>2, <3>3
    <2>5. CASE Complete(v)
      BY <1>1, <2>5 DEF Complete, SetRow, Owned, Completed, NextItem, Goto, Row
    <2>6. CASE RequireManual(v)
      BY <1>1, <2>6 DEF RequireManual, SetRow, Owned, Released, NextItem, Goto, Row
    <2>7. CASE DeferGuard(v)
      BY <1>1, <2>7 DEF DeferGuard, SetRow, Refreshed, Released, NextItem, Goto, Row
    <2>8. CASE RejectDuplicate(v)
      BY <1>1, <2>8 DEF RejectDuplicate, SetRow, MayReject, Released, NextItem, Goto, Row,
         tableVars
    <2>9. CASE FailClaim(v)
      BY <1>1, <2>9 DEF FailClaim, Owned, Released, NextItem, Goto, Row
    <2> QED BY <1>2, <2>1, <2>2, <2>3, <2>4, <2>5, <2>6, <2>7, <2>8, <2>9
            DEF WorkerStep, StartDurable, StartLegacy, HoldMutex, LoadItem, FinishRun,
                SaveIdentity, Reconcile, GuardCheck, PrepareImage, SendCreate,
                CreateSucceeds, WriteYoast, tableVars
  <1>3. ASSUME NEW v \in Workers, WorkerFault(v) PROVE job[w].art = a /\ pc'[w] # pc[w]
    <2>1. CASE UNCHANGED row
      BY <2>1
    <2>2. CASE Interrupt(v)
      BY <1>1, <2>2 DEF Interrupt, Abandon, EndRun, Goto, Owned, Released, Row
    <2> QED BY <1>3, <2>1, <2>2 DEF WorkerFault, StepFails, GuardUnavailable,
               CreateRefused, CreateUnanswered, Crash, LosePublisherLock, LoseMutex, tableVars
  <1>4. ASSUME NEW b \in Articles, Environment(b) PROVE FALSE
    BY <1>1, <1>4 DEF Environment, LandLate, NeverLands, Expire, Reschedule, SetRow,
       tableVars, Row
  <1>5. CASE UNCHANGED vars
    BY <1>5 DEF vars
  <1> QED BY <1>2, <1>3, <1>4, <1>5 DEF Next

\* No worker, however stale, finishes, fails, releases or replaces the live
\* claim of another.
THEOREM LiveClaimsAreOwned == Spec => LiveClaimIsOwners
  <1>1. TypeOK /\ CreationInv /\ [Next]_vars =>
           [\A a \in Articles : \A w \in Workers :
              (row[a].tok = w /\ row[a].lease = "live" /\ row'[a].tok # w)
                 => job[w].art = a /\ pc'[w] # pc[w]]_vars
    BY TokenWrites
  <1> QED BY <1>1, TypeCorrect, CreationInvariant, PTL DEF Spec, LiveClaimIsOwners

-----------------------------------------------------------------------------
(* Confirmed pairs: a row whose article may have a post stays visible to the *)
(* guard of its peers.                                                       *)

\* The guard of a peer takes the row for a published one or an unresolved attempt.
Marked(r) ==
    r.att > 0 /\ r.st \in {"claimed", "post_created", "retryable", "published", "manual_review"}

\* The request of the article is sent, or nothing but the sending is left.
Committed(a) == sent[a] > 0 \/ \E w \in Workers : Armed(w, a) /\ pc[w] = "post"

Mutual(a, b) == <<a, b>> \in ConfirmedPair /\ <<b, a>> \in ConfirmedPair

AttemptsAreMarked ==
    \A a \in Articles : (sent[a] > 0 \/ \E w \in Workers : Armed(w, a)) => Marked(row[a])

OneOfAPair == \A a, b \in Articles : Mutual(a, b) => ~(Committed(a) /\ Committed(b))

\* How a worker comes to stand before its request.
NewPost(w) ==
    /\ pc'[w] = "post" /\ pc[w] # "post"
    /\ \A v \in Workers \ {w} : pc'[v] = pc[v] /\ job'[v] = job[v]
    /\ sent' = sent /\ job'[w].art = job[w].art
    /\ \/ /\ w \in Durable /\ job'[w].fresh = job[w].fresh
          /\ pc[w] = "precheck" /\ UNCHANGED row
          /\ w \in Enforcing => UnresolvedPeers(job[w].art) = {} /\ Canonicals(job[w].art) = {}
       \/ /\ w \in Legacy /\ BeginLegacyCreation(w) /\ FreshState(row[job[w].art])
          /\ row' = [row EXCEPT ![job[w].art] = LegacyIntent(row[job[w].art])]

\* What one step does to the permission of a worker.
Moves(w) ==
    \/ pc'[w] = pc[w] /\ job'[w] = job[w]
    \/ pc'[w] \notin ArmedSteps
    \/ w \in Legacy /\ pc'[w] # "post"
    \/ w \in Durable /\ \E a \in Articles : ClaimNext(w, a)
    \/ /\ w \in Durable /\ job'[w].art = job[w].art /\ job'[w].fresh = job[w].fresh
       /\ pc[w] \in ArmedSteps /\ pc'[w] # "post"
    \/ NewPost(w)

\* The ends of an item and of a run take every permission away.
LEMMA EndsMove ==
    ASSUME TypeOK, NEW w \in Workers,
           \/ NextItem(w) \/ EndRun(w) \/ GiveUp(w)
           \/ \E step \in Steps \ ArmedSteps : Advance(w, step) \/ Divert(w, step)
    PROVE  /\ pc'[w] \notin ArmedSteps
           /\ \A v \in Workers \ {w} : pc'[v] = pc[v] /\ job'[v] = job[v]
  BY DEF TypeOK, NextItem, EndRun, GiveUp, Advance, Divert, Goto, runVars, ArmedSteps

\* Whatever happens, a worker comes by a permission only as Moves says, and no
\* two workers move at once.
LEMMA WorkerMoves ==
    ASSUME TypeOK, CreationInv, NEW w \in Workers, WorkerStep(w) \/ WorkerFault(w)
    PROVE  /\ Moves(w)
           /\ \A v \in Workers \ {w} : pc'[v] = pc[v] /\ job'[v] = job[v]
  <1> DEFINE Others == \A v \in Workers \ {w} : pc'[v] = pc[v] /\ job'[v] = job[v]
             Ends == \/ NextItem(w) \/ EndRun(w) \/ GiveUp(w)
                     \/ \E step \in Steps \ ArmedSteps : Advance(w, step) \/ Divert(w, step)
  <1>1. Ends => Moves(w) /\ Others
    BY EndsMove DEF Moves
  <1>2. CASE StartDurable(w) \/ StartLegacy(w)
    BY <1>2 DEF StartDurable, StartLegacy, Goto, TypeOK, Moves, ArmedSteps
  <1>3. CASE HoldMutex(w)
    <2>1. CASE Ends
      BY <1>1, <2>1
    <2>2. CASE pc' = [pc EXCEPT ![w] = IF w \in Durable THEN "loop" ELSE "guard"]
               /\ UNCHANGED job
      BY <2>2, WorkersAssumption DEF TypeOK, Moves, ArmedSteps, Workers
    <2> QED BY <1>3, <2>1, <2>2 DEF HoldMutex, Advance, Goto, runVars
  <1>4. CASE w \in Durable /\ \E a \in Articles : ClaimNext(w, a)
    BY <1>4 DEF ClaimNext, Goto, TypeOK, Moves
  <1>5. CASE w \in Legacy /\ \E a \in Articles : LoadItem(w, a)
    BY <1>5 DEF LoadItem, Goto, TypeOK, Moves
  <1>6. CASE FinishRun(w)
    BY <1>1, <1>6 DEF FinishRun
  <1>7. CASE SaveIdentity(w)
    <2>1. CASE Advance(w, "reconcile")
      BY <1>7, <2>1, WorkersAssumption
         DEF SaveIdentity, Advance, Goto, runVars, TypeOK, Moves, ArmedSteps, Workers
    <2> QED BY <1>1, <1>7, <2>1 DEF SaveIdentity
  <1>8. CASE Reconcile(w)
    <2>1. CASE Advance(w, "persist") \/ Advance(w, "manual") \/ Advance(w, "hold")
      <3>1. {"persist", "manual", "hold"} \subseteq Steps \ ArmedSteps
        BY DEF Steps, ArmedSteps
      <3> QED BY <1>1, <2>1, <3>1
    <2>2. CASE w \in Durable /\ Advance(w, "guard")
      BY <1>8, <2>2 DEF Reconcile, Advance, Goto, runVars, TypeOK, Moves, ArmedSteps
    <2> QED BY <1>8, <2>1, <2>2 DEF Reconcile
  <1>9. CASE GuardCheck(w)
    <2>0. /\ pc[w] \in {"guard", "precheck"} /\ UNCHANGED <<row, sent>>
          /\ \A v \in Workers \ {w} : pc'[v] = pc[v] /\ job'[v] = job[v]
          /\ job'[w].art = job[w].art /\ job'[w].fresh = job[w].fresh
      BY <1>9 DEF GuardCheck, Advance, Divert, Goto, runVars, tableVars, siteVars, TypeOK, Job
    <2>1. CASE pc'[w] # "post"
      BY <2>0, <2>1, WorkersAssumption DEF Moves, ArmedSteps, Workers
    <2>2. CASE pc'[w] = "post"
      <3>1. pc[w] = "precheck" /\ w \in Durable
        BY <1>9, <2>2 DEF GuardCheck, Advance, Divert, Goto, TypeOK, Workers
      <3>2. w \in Enforcing => UnresolvedPeers(job[w].art) = {} /\ Canonicals(job[w].art) = {}
        BY <1>9, <2>2 DEF GuardCheck, Advance, Divert, Goto, TypeOK
      <3> QED BY <2>0, <2>2, <3>1, <3>2 DEF Moves, NewPost
    <2> QED BY <2>0, <2>1, <2>2
  <1>10. CASE PrepareImage(w)
    BY <1>10, WorkersAssumption
       DEF PrepareImage, Advance, Goto, runVars, TypeOK, Moves, ArmedSteps, Workers
  <1>11. CASE BeginLegacyCreation(w)
    <2>1. CASE FreshState(row[job[w].art])
      <3>1. /\ w \in Legacy /\ pc[w] = "intent" /\ sent' = sent /\ job' = job
            /\ row' = [row EXCEPT ![job[w].art] = LegacyIntent(row[job[w].art])]
            /\ pc' = [pc EXCEPT ![w] = "post"]
        BY <1>11, <2>1 DEF BeginLegacyCreation, SetRow, Advance, Goto, runVars, siteVars
      <3> QED BY <1>11, <2>1, <3>1 DEF TypeOK, Moves, NewPost
    <2>2. CASE ~FreshState(row[job[w].art])
      BY <1>1, <1>11, <2>2 DEF BeginLegacyCreation
    <2> QED BY <2>1, <2>2
  <1>12. CASE SendCreate(w)
    BY <1>12 DEF SendCreate, Advance, Goto, runVars, TypeOK, Moves, ArmedSteps
  <1>13. CASE CreateSucceeds(w)
    BY <1>13 DEF CreateSucceeds, Goto, TypeOK, Moves, ArmedSteps
  <1>14. CASE SavePost(w) \/ WriteYoast(w) \/ Complete(w) \/ FailClaim(w)
    <2>1. {"yoast", "complete"} \subseteq Steps \ ArmedSteps
      BY DEF Steps, ArmedSteps
    <2> QED BY <1>1, <1>14, <2>1 DEF SavePost, WriteYoast, Complete, FailClaim
  <1>15. CASE RequireManual(w) \/ DeferGuard(w) \/ RejectDuplicate(w)
    BY <1>1, <1>15 DEF RequireManual, DeferGuard, RejectDuplicate
  <1>16. CASE StepFails(w) \/ CreateRefused(w) \/ CreateUnanswered(w)
    BY <1>1, <1>16 DEF StepFails, CreateRefused, CreateUnanswered
  <1>17. CASE GuardUnavailable(w)
    BY <1>17, WorkersAssumption
       DEF GuardUnavailable, Divert, Goto, runVars, TypeOK, Moves, ArmedSteps, Workers
  <1>18. CASE Interrupt(w) \/ Crash(w)
    BY <1>1, <1>18 DEF Interrupt, Crash, Abandon
  <1>19. CASE LosePublisherLock(w) \/ LoseMutex(w)
    BY <1>19 DEF LosePublisherLock, LoseMutex, runVars, Moves
  <1> QED
    BY <1>2, <1>3, <1>4, <1>5, <1>6, <1>7, <1>8, <1>9, <1>10, <1>11, <1>12, <1>13, <1>14,
       <1>15, <1>16, <1>17, <1>18, <1>19 DEF WorkerStep, WorkerFault

\* The steps that may take the mark from a row: a fresh first attempt that is put
\* off, and a rejection.
Unmarks(w, a) ==
    /\ job[w].art = a
    /\ \/ w \in Durable /\ DeferGuard(w)
       \/ RejectDuplicate(w) /\ MayReject(a, w)

\* What the row updates make of a marked row.
LEMMA MarkedUpdates ==
    ASSUME NEW r \in Row, Marked(r), NEW id
    PROVE  /\ Marked(Released(r, "retryable"))
           /\ Marked(Released(r, "manual_review"))
           /\ Marked(PostSaved(r, id))
           /\ Marked(Completed(r))
           /\ Marked([r EXCEPT !.wp = id])
           /\ Marked([r EXCEPT !.pub = TRUE])
  <1>1. Marked(Released(r, "retryable")) /\ Marked(Released(r, "manual_review"))
    BY DEF Marked, Released, Row
  <1>2. Marked(PostSaved(r, id))
    BY DEF Marked, PostSaved, Row
  <1>3. Marked(Completed(r))
    BY DEF Marked, Completed, Released, Row
  <1>4. /\ Marked([r EXCEPT !.wp = id])
        /\ Marked([r EXCEPT !.pub = TRUE])
    BY DEF Marked, Row
  <1> QED BY <1>1, <1>2, <1>3, <1>4

\* A claim and a legacy intent mark the row they are made on.
LEMMA NewMarks ==
    ASSUME NEW r \in Row, NEW w \in Workers
    PROVE  Marked(Claimed(r, w)) /\ Marked(LegacyIntent(r))
  <1>1. Marked(Claimed(r, w))
    <2>1. Bump(r.att) > 0
      BY DEF Bump
    <2> QED BY <2>1 DEF Marked, Claimed, Row
  <1>2. Marked(LegacyIntent(r))
    BY DEF Marked, LegacyIntent, Row
  <1> QED BY <1>1, <1>2

\* A marked row stays marked, save for the two steps above.
LEMMA MarksAreKept ==
    ASSUME TypeOK, [Next]_vars, NEW a \in Articles, Marked(row[a]),
           \A w \in Workers : ~Unmarks(w, a)
    PROVE  Marked(row'[a])
  <1>0. row[a] \in Row /\ (row'[a] = row[a] => Marked(row'[a]))
    BY DEF TypeOK
  <1>1. ASSUME NEW w \in Workers, WorkerStep(w) PROVE Marked(row'[a])
    <2>1. CASE row' = row
      BY <1>0, <2>1
    <2>2. CASE w \in Durable /\ \E b \in Articles : ClaimNext(w, b)
      <3>1. PICK b \in Articles : row' = [row EXCEPT ![b] = Claimed(row[b], w)]
        BY <2>2 DEF ClaimNext, SetRow
      <3> QED BY <1>0, <3>1, NewMarks DEF TypeOK
    <2>3. CASE BeginLegacyCreation(w) /\ row' # row
      <3>1. row' = [row EXCEPT ![job[w].art] = LegacyIntent(row[job[w].art])]
        BY <2>3 DEF BeginLegacyCreation, SetRow
      <3> QED BY <1>0, <3>1, NewMarks DEF TypeOK
    <2>4. CASE SavePost(w) /\ row' # row
      <3> DEFINE b == job[w].art
                 id == job[w].ptr
      <3>1. \/ row' = [row EXCEPT ![b] = PostSaved(row[b], id)]
            \/ row' = [row EXCEPT ![b] = [row[b] EXCEPT !.wp = id]]
        BY <2>4 DEF SavePost, SetRow
      <3>2. \/ row'[a] \in {row[a], PostSaved(row[a], id)}
            \/ row'[a] = [row[a] EXCEPT !.wp = id]
        BY <3>1 DEF TypeOK
      <3> HIDE DEF b, id
      <3>3. Marked(PostSaved(row[a], id)) /\ Marked([row[a] EXCEPT !.wp = id])
        BY <1>0, MarkedUpdates
      <3> QED BY <1>0, <3>2, <3>3
    <2>5. CASE Complete(w) /\ row' # row
      <3> DEFINE b == job[w].art
      <3>1. \/ row' = [row EXCEPT ![b] = Completed(row[b])]
            \/ row' = [row EXCEPT ![b] = [row[b] EXCEPT !.pub = TRUE]]
        BY <2>5 DEF Complete, SetRow
      <3>2. \/ row'[a] \in {row[a], Completed(row[a])}
            \/ row'[a] = [row[a] EXCEPT !.pub = TRUE]
        BY <3>1 DEF TypeOK
      <3>3. Marked(Completed(row[a])) /\ Marked([row[a] EXCEPT !.pub = TRUE])
        BY <1>0, MarkedUpdates
      <3> QED BY <1>0, <3>2, <3>3
    <2>6. CASE RequireManual(w) /\ row' # row
      <3> DEFINE b == job[w].art
      <3>1. row' = [row EXCEPT ![b] = Released(row[b], "manual_review")]
        BY <2>6 DEF RequireManual, SetRow
      <3> HIDE DEF b
      <3> QED BY <1>0, <3>1, MarkedUpdates DEF TypeOK
    <2>7. CASE DeferGuard(w) /\ row' # row
      <3>1. w \in Durable /\ row' = [row EXCEPT ![job[w].art] = Refreshed(row[job[w].art])]
        BY <2>7 DEF DeferGuard, SetRow
      <3>2. job[w].art # a
        BY <2>7, <3>1 DEF Unmarks
      <3> QED BY <1>0, <3>1, <3>2
    <2>8. CASE RejectDuplicate(w) /\ row' # row
      <3> DEFINE b == job[w].art
      <3>1. MayReject(b, w) /\ row' = [row EXCEPT ![b] = Released(row[b], "duplicate")]
        BY <2>8 DEF RejectDuplicate, SetRow, tableVars
      <3>2. b # a
        BY <2>8, <3>1 DEF Unmarks
      <3> QED BY <1>0, <3>1, <3>2
    <2>9. CASE FailClaim(w) /\ row' # row
      <3> DEFINE b == job[w].art
      <3>1. row' = [row EXCEPT ![b] = Released(row[b], "retryable")]
        BY <2>9 DEF FailClaim
      <3> HIDE DEF b
      <3> QED BY <1>0, <3>1, MarkedUpdates DEF TypeOK
    <2>10. \/ StartDurable(w) \/ StartLegacy(w) \/ HoldMutex(w)
           \/ \E b \in Articles : LoadItem(w, b)
           \/ FinishRun(w) \/ SaveIdentity(w) \/ Reconcile(w) \/ GuardCheck(w)
           \/ PrepareImage(w) \/ SendCreate(w) \/ CreateSucceeds(w) \/ WriteYoast(w)
           => row' = row
      BY DEF StartDurable, StartLegacy, HoldMutex, LoadItem, FinishRun, SaveIdentity,
         Reconcile, GuardCheck, PrepareImage, SendCreate, CreateSucceeds, WriteYoast, tableVars
    <2> QED BY <1>1, <2>1, <2>2, <2>3, <2>4, <2>5, <2>6, <2>7, <2>8, <2>9, <2>10
            DEF WorkerStep
  <1>2. ASSUME NEW w \in Workers, WorkerFault(w) PROVE Marked(row'[a])
    <2>1. CASE row' = row
      BY <1>0, <2>1
    <2>2. CASE Interrupt(w) /\ row' # row
      <3> DEFINE b == job[w].art
      <3>1. row' = [row EXCEPT ![b] = Released(row[b], "retryable")]
        BY <2>2 DEF Interrupt
      <3> HIDE DEF b
      <3> QED BY <1>0, <3>1, MarkedUpdates DEF TypeOK
    <2> QED BY <1>2, <2>1, <2>2 DEF WorkerFault, StepFails, GuardUnavailable, CreateRefused,
            CreateUnanswered, Crash, LosePublisherLock, LoseMutex, tableVars
  <1>3. ASSUME NEW b \in Articles, Environment(b) PROVE Marked(row'[a])
    <2>1. row' = row \/ row' = [row EXCEPT ![b] = [row[b] EXCEPT !.lease = "expired"]]
      BY <1>3 DEF Environment, LandLate, NeverLands, Expire, Reschedule, SetRow, tableVars
    <2>2. row'[a] = row[a] \/ row'[a] = [row[a] EXCEPT !.lease = "expired"]
      BY <2>1 DEF TypeOK
    <2>3. Marked([row[a] EXCEPT !.lease = "expired"])
      BY <1>0 DEF Marked, Row
    <2> QED BY <1>0, <2>2, <2>3
  <1> QED BY <1>0, <1>1, <1>2, <1>3 DEF Next, vars

\* Only a request that was all that was left is sent.
LEMMA SendsAreCommitted ==
    ASSUME TypeOK, CreationInv, [Next]_vars, NEW a \in Articles, sent'[a] > 0, sent[a] = 0
    PROVE  \E w \in Workers : Armed(w, a) /\ pc[w] = "post"
  <1>0. sent' # sent
    OBVIOUS
  <1>1. PICK w \in Workers : SendCreate(w)
    <2>1. ASSUME NEW w \in Workers, WorkerStep(w) PROVE SendCreate(w)
      BY <1>0, <2>1 DEF WorkerStep, StartDurable, StartLegacy, HoldMutex, ClaimNext, LoadItem,
         FinishRun, SaveIdentity, Reconcile, GuardCheck, PrepareImage, BeginLegacyCreation,
         CreateSucceeds, SavePost, WriteYoast, Complete, RequireManual, DeferGuard,
         RejectDuplicate, FailClaim, siteVars
    <2>2. ASSUME NEW w \in Workers, WorkerFault(w) PROVE sent' = sent
      BY <2>2 DEF WorkerFault, StepFails, GuardUnavailable, CreateRefused, CreateUnanswered,
         Interrupt, Crash, Abandon, LosePublisherLock, LoseMutex, siteVars
    <2>3. ASSUME NEW b \in Articles, Environment(b) PROVE sent' = sent
      BY <2>3 DEF Environment, LandLate, NeverLands, Expire, Reschedule, siteVars
    <2> QED BY <1>0, <2>1, <2>2, <2>3 DEF Next, vars
  <1>2. job[w].art = a /\ pc[w] = "post"
    BY <1>1 DEF SendCreate, AddTo, TypeOK
  <1> QED BY <1>2 DEF Armed, CreationInv, GateHolds

\* A legacy run rejects only an article nobody may create and has created.
RejectionsAreSafe ==
    \A w \in Legacy, a \in Articles :
        (RejectDuplicate(w) /\ job[w].art = a /\ MayReject(a, w)) =>
            sent[a] = 0 /\ \A v \in Workers : ~Armed(v, a)

\* The two steps that take a mark away are taken by the one worker that holds the
\* permission, which gives it up, or are safe by assumption.
LEMMA UnmarksAreSafe ==
    ASSUME TypeOK, CreationInv, [Next]_vars, RejectionsAreSafe,
           NEW a \in Articles, NEW w \in Workers, Unmarks(w, a)
    PROVE  sent'[a] = 0 /\ \A v \in Workers : ~Armed(v, a)'
  <1>1. /\ sent' = sent /\ pc'[w] \notin ArmedSteps
        /\ \A v \in Workers \ {w} : pc'[v] = pc[v] /\ job'[v] = job[v]
    <2>1. sent' = sent /\ (NextItem(w) \/ GiveUp(w))
      BY DEF Unmarks, DeferGuard, RejectDuplicate, siteVars
    <2> QED BY <2>1, EndsMove
  <1>2. CASE w \in Durable
    <2>1. Armed(w, a)
      BY <1>2 DEF Unmarks, DeferGuard, RejectDuplicate, Armed, CreationInv, GateHolds
    <2>2. sent[a] = 0 /\ \A v \in Workers : Armed(v, a) => v = w
      BY <2>1 DEF CreationInv, PermissionIsUnique
    <2>3. ~Armed(w, a)'
      BY <1>1, <1>2 DEF Armed, ArmedSteps
    <2>4. ASSUME NEW v \in Workers \ {w} PROVE ~Armed(v, a)'
      BY <1>1, <2>2 DEF Armed
    <2> QED BY <1>1, <2>2, <2>3, <2>4
  <1>3. CASE w \in Legacy
    <2>1. w \notin Durable
      BY <1>3, WorkersAssumption
    <2>2. sent[a] = 0 /\ \A v \in Workers : ~Armed(v, a)
      BY <1>3, <2>1 DEF Unmarks, RejectionsAreSafe
    <2>3. ~Armed(w, a)'
      BY <1>1, <2>1 DEF Armed, ArmedSteps
    <2>4. ASSUME NEW v \in Workers \ {w} PROVE ~Armed(v, a)'
      BY <1>1, <2>2 DEF Armed
    <2> QED BY <1>1, <2>2, <2>3, <2>4
  <1> QED BY <1>2, <1>3 DEF Workers

\* How the workers move in a step of the system.
LEMMA EveryMove ==
    ASSUME TypeOK, CreationInv, [Next]_vars, NEW w \in Workers PROVE Moves(w)
  <1>1. ASSUME NEW v \in Workers, WorkerStep(v) \/ WorkerFault(v) PROVE Moves(w)
    <2>1. v # w => pc'[w] = pc[w] /\ job'[w] = job[w]
      BY <1>1, WorkerMoves
    <2>2. v = w => Moves(w)
      BY <1>1, WorkerMoves
    <2> QED BY <2>1, <2>2 DEF Moves
  <1>2. ASSUME NEW a \in Articles, Environment(a) PROVE Moves(w)
    BY <1>2 DEF Environment, LandLate, NeverLands, Expire, Reschedule, runVars, Moves
  <1> QED BY <1>1, <1>2 DEF Next, vars, Moves

\* The row of an article that may be created or has been is marked after a step.
LEMMA AttemptsStep ==
    ASSUME TypeOK, CreationInv, AttemptsAreMarked, [Next]_vars, RejectionsAreSafe
    PROVE  AttemptsAreMarked'
  <1> SUFFICES ASSUME NEW a \in Articles, sent'[a] > 0 \/ \E w \in Workers : Armed(w, a)'
               PROVE  Marked(row'[a])
    BY DEF AttemptsAreMarked
  <1>1. \A w \in Workers : ~Unmarks(w, a)
    <2>1. sent'[a] > 0 => sent'[a] # 0
      OBVIOUS
    <2> QED BY <2>1, UnmarksAreSafe
  <1>2. CASE Marked(row[a])
    BY <1>1, <1>2, MarksAreKept
  <1>3. CASE sent'[a] > 0
    <2>1. sent[a] > 0 \/ sent[a] = 0
      BY DEF TypeOK
    <2>2. Marked(row[a])
      BY <1>3, <2>1, SendsAreCommitted DEF AttemptsAreMarked
    <2> QED BY <1>2, <2>2
  <1>4. ASSUME NEW w \in Workers, Armed(w, a)' PROVE Marked(row'[a])
    <2>1. CASE Armed(w, a)
      BY <1>2, <2>1 DEF AttemptsAreMarked
    <2>2. CASE w \in Durable /\ \E b \in Articles : ClaimNext(w, b)
      <3>1. PICK b \in Articles : ClaimNext(w, b)
        BY <2>2
      <3>2. b = a
        BY <1>4, <3>1 DEF ClaimNext, Snapshot, Armed, TypeOK
      <3>3. row'[a] = Claimed(row[a], w) /\ row[a] \in Row
        BY <3>1, <3>2 DEF ClaimNext, SetRow, TypeOK
      <3> QED BY <3>3, NewMarks
    <2>3. CASE NewPost(w) /\ ~Armed(w, a)
      <3>1. job[w].art = a /\ row[a] \in Row
        BY <1>4, <2>3 DEF NewPost, Armed, TypeOK
      <3>2. w \in Legacy
        BY <1>4, <2>3, <3>1 DEF NewPost, Armed
      <3>3. row'[a] = LegacyIntent(row[a])
        BY <2>3, <3>1, <3>2, WorkersAssumption DEF NewPost, TypeOK
      <3> QED BY <3>1, <3>3, NewMarks
    <2>4. Armed(w, a) \/ (w \in Durable /\ \E b \in Articles : ClaimNext(w, b)) \/ NewPost(w)
      <3>1. Moves(w)
        BY EveryMove
      <3>2. w \in Durable => pc'[w] \in ArmedSteps
        BY <1>4 DEF Armed, ArmedSteps
      <3>3. w \notin Durable => pc'[w] = "post" /\ w \in Legacy
        BY <1>4 DEF Armed, Workers
      <3>4. w \in Durable => w \notin Legacy
        BY WorkersAssumption
      <3>5. job'[w].art = a /\ (w \in Durable => job'[w].fresh)
        BY <1>4 DEF Armed
      <3> QED BY <3>1, <3>2, <3>3, <3>4, <3>5, <1>4 DEF Moves, Armed, ArmedSteps
    <2> QED BY <2>1, <2>2, <2>3, <2>4
  <1> QED BY <1>3, <1>4

\* A legacy run writes its intent only while no peer of the article is committed.
IntentsAreSafe ==
    \A w \in Legacy :
        (BeginLegacyCreation(w) /\ FreshState(row[job[w].art])) =>
            \A b \in Articles : Mutual(job[w].art, b) => ~Committed(b)

LEMMA NewlyCommitted ==
    ASSUME TypeOK, CreationInv, [Next]_vars, NEW a \in Articles, Committed(a)'
    PROVE  Committed(a) \/ \E w \in Workers : NewPost(w) /\ job[w].art = a
  <1>1. CASE sent'[a] > 0
    <2>1. sent[a] > 0 \/ sent[a] = 0
      BY DEF TypeOK
    <2> QED BY <1>1, <2>1, SendsAreCommitted DEF Committed
  <1>2. ASSUME NEW w \in Workers, Armed(w, a)', pc'[w] = "post"
        PROVE  Committed(a) \/ (NewPost(w) /\ job[w].art = a)
    <2>1. Moves(w)
      BY EveryMove
    <2>2. ~(w \in Durable /\ \E b \in Articles : ClaimNext(w, b))
      BY <1>2 DEF ClaimNext, Goto, TypeOK
    <2>3. CASE pc'[w] = pc[w] /\ job'[w] = job[w]
      BY <1>2, <2>3 DEF Committed, Armed
    <2>4. CASE NewPost(w)
      BY <1>2, <2>4 DEF NewPost, Armed
    <2> QED BY <1>2, <2>1, <2>2, <2>3, <2>4 DEF Moves, ArmedSteps
  <1> QED BY <1>1, <1>2 DEF Committed

\* A peer whose row is marked is found by the guard, as published or as unresolved.
LEMMA GuardSeesMarked ==
    ASSUME TypeOK, NEW a \in Articles, NEW b \in Articles,
           <<a, b>> \in ConfirmedPair, Marked(row[b])
    PROVE  Canonicals(a) # {} \/ UnresolvedPeers(a) # {}
  <1>1. b \in Canonicals(a) \/ b \in UnresolvedPeers(a)
    BY DEF Canonicals, UnresolvedPeers, Marked, Unresolved, External
  <1> QED BY <1>1

\* A worker that comes to stand before its request has no committed peer.
LEMMA NewPostIsAlone ==
    ASSUME TypeOK, AttemptsAreMarked, IntentsAreSafe, Durable \subseteq Enforcing,
           NEW w \in Workers, NewPost(w), NEW a \in Articles, job[w].art = a,
           NEW b \in Articles, Mutual(a, b)
    PROVE  ~Committed(b)
  <1>1. CASE /\ w \in Durable
             /\ w \in Enforcing => UnresolvedPeers(a) = {} /\ Canonicals(a) = {}
    <2> SUFFICES ASSUME Committed(b) PROVE FALSE
      OBVIOUS
    <2>1. Marked(row[b])
      BY DEF Committed, AttemptsAreMarked
    <2>2. Canonicals(a) = {} /\ UnresolvedPeers(a) = {}
      BY <1>1
    <2> QED BY <2>1, <2>2, GuardSeesMarked DEF Mutual
  <1>2. CASE w \in Legacy /\ BeginLegacyCreation(w) /\ FreshState(row[job[w].art])
    BY <1>2 DEF IntentsAreSafe
  <1> QED BY <1>1, <1>2 DEF NewPost

\* Never do both articles of a confirmed pair get as far as their request.
LEMMA PairStep ==
    ASSUME TypeOK, CreationInv, AttemptsAreMarked, OneOfAPair, [Next]_vars,
           IntentsAreSafe, Durable \subseteq Enforcing
    PROVE  OneOfAPair'
  <1> SUFFICES ASSUME NEW a \in Articles, NEW b \in Articles, Mutual(a, b),
                      Committed(a)', Committed(b)'
               PROVE  FALSE
    BY DEF OneOfAPair, Mutual
  <1>1. a # b /\ Mutual(b, a)
    BY PairsAssumption DEF Mutual
  <1>2. ASSUME NEW c \in Articles, NEW d \in Articles, Mutual(c, d), Mutual(d, c), c # d,
               NEW w \in Workers, NewPost(w), job[w].art = c, Committed(d)'
        PROVE  FALSE
    <2>1. ~Committed(d)
      BY <1>2, NewPostIsAlone
    <2>2. PICK v \in Workers : NewPost(v) /\ job[v].art = d
      BY <1>2, <2>1, NewlyCommitted
    <2>3. v = w
      BY <1>2, <2>2 DEF NewPost
    <2> QED BY <1>2, <2>2, <2>3
  <1>3. Committed(a) /\ Committed(b)
    BY <1>1, <1>2, NewlyCommitted
  <1> QED BY <1>3 DEF OneOfAPair

LEMMA PostsMeanCommitted ==
    ASSUME TypeOK, CreationInv, NEW a \in Articles, posts[a] # 0
    PROVE  Committed(a)
  <1>1. sent[a] # 0 /\ sent[a] \in Nat
    BY DEF CreationInv, RequestIsAccounted, TypeOK
  <1> QED BY <1>1 DEF Committed

\* Legacy runs and time never touch a token, and change a status only towards
\* manual review, unless the row is one that no run is on; they never make a row
\* retryable.
LEMMA LegacyWrites ==
    ASSUME TypeOK, NEW a \in Articles,
           \/ \E w \in Legacy : WorkerStep(w) \/ WorkerFault(w)
           \/ \E b \in Articles : Environment(b)
    PROVE  /\ row'[a].tok = row[a].tok
           /\ row[a].st \in {"claimed", "manual_review"} =>
                 row'[a].st \in {"claimed", "manual_review"}
           /\ row[a].st # "retryable" => row'[a].st # "retryable"
  <1>0. row[a] \in Row
    BY DEF TypeOK
  <1>1. CASE row'[a] = row[a]
    BY <1>1
  <1>2. ASSUME NEW w \in Legacy, WorkerStep(w), row'[a] # row[a]
        PROVE  /\ row'[a].tok = row[a].tok
               /\ row[a].st \in {"claimed", "manual_review"} =>
                     row'[a].st \in {"claimed", "manual_review"}
               /\ row[a].st # "retryable" => row'[a].st # "retryable"
    <2>0. w \notin Durable
      BY WorkersAssumption
    <2>1. CASE BeginLegacyCreation(w)
      <3>1. row'[a] = LegacyIntent(row[a])
        BY <1>2, <2>1 DEF BeginLegacyCreation, SetRow, TypeOK
      <3> QED BY <1>0, <3>1 DEF LegacyIntent, Row
    <2>2. CASE SavePost(w)
      <3> DEFINE id == job[w].ptr
      <3>1. row'[a] = [row[a] EXCEPT !.wp = id]
        BY <1>2, <2>0, <2>2 DEF SavePost, SetRow, TypeOK
      <3> QED BY <1>0, <3>1 DEF Row
    <2>3. CASE Complete(w)
      <3>1. row'[a] = [row[a] EXCEPT !.pub = TRUE]
        BY <1>2, <2>0, <2>3 DEF Complete, SetRow, TypeOK
      <3> QED BY <1>0, <3>1 DEF Row
    <2>4. CASE RequireManual(w)
      <3>1. row'[a] = Released(row[a], "manual_review") /\ row[a].tok = None
        BY <1>2, <2>0, <2>4 DEF RequireManual, SetRow, TypeOK
      <3> QED BY <1>0, <3>1 DEF Released, Row
    <2>5. CASE RejectDuplicate(w)
      <3>1. /\ row'[a] = Released(row[a], "duplicate") /\ row[a].tok = None
            /\ row[a].st \notin {"claimed", "manual_review"}
        BY <1>2, <2>0, <2>5 DEF RejectDuplicate, MayReject, SetRow, TypeOK, tableVars
      <3> QED BY <1>0, <3>1 DEF Released, Row
    <2>6. CASE DeferGuard(w) \/ FailClaim(w)
      BY <1>2, <2>0, <2>6 DEF DeferGuard, FailClaim
    <2> QED BY <1>2, <2>0, <2>1, <2>2, <2>3, <2>4, <2>5, <2>6
            DEF WorkerStep, StartDurable, StartLegacy, HoldMutex, LoadItem, FinishRun,
                SaveIdentity, Reconcile, GuardCheck, PrepareImage,
                SendCreate, CreateSucceeds, WriteYoast, tableVars
  <1>3. ASSUME NEW w \in Legacy, WorkerFault(w) PROVE row' = row
    BY <1>3, WorkersAssumption DEF WorkerFault, StepFails, GuardUnavailable, CreateRefused,
       CreateUnanswered, Interrupt, Crash, LosePublisherLock, LoseMutex, tableVars
  <1>4. ASSUME NEW b \in Articles, Environment(b), row'[a] # row[a]
        PROVE  row'[a].tok = row[a].tok /\ row'[a].st = row[a].st
    <2>1. row'[a] = [row[a] EXCEPT !.lease = "expired"]
      BY <1>4 DEF Environment, LandLate, NeverLands, Expire, Reschedule, SetRow, tableVars,
         TypeOK
    <2> QED BY <1>0, <2>1 DEF Row
  <1> QED BY <1>1, <1>2, <1>3, <1>4

\* Only the durable service releases a row as retryable.
NoRetryable == \A a \in Articles : row[a].st # "retryable"

LEMMA NoRetryableStep ==
    ASSUME TypeOK, NoRetryable, Durable = {}, [Next]_vars
    PROVE  NoRetryable'
  <1>1. CASE UNCHANGED vars
    BY <1>1 DEF vars, NoRetryable
  <1>2. CASE Next
    <2>1. \/ \E w \in Legacy : WorkerStep(w) \/ WorkerFault(w)
          \/ \E b \in Articles : Environment(b)
      BY <1>2 DEF Next, Workers
    <2> QED BY <2>1, LegacyWrites DEF NoRetryable
  <1> QED BY <1>1, <1>2

\* Where no row is retryable, a legacy run rejects only articles nobody attempted.
LEMMA RejectionsAreOfUntried ==
    ASSUME TypeOK, AttemptsAreMarked, NoRetryable, Durable = {}
    PROVE  RejectionsAreSafe
  <1> SUFFICES ASSUME NEW w \in Legacy, NEW a \in Articles, MayReject(a, w)
               PROVE  sent[a] = 0 /\ \A v \in Workers : ~Armed(v, a)
    BY DEF RejectionsAreSafe
  <1>1. row[a].st \in {"fresh", "pending"}
    BY DEF MayReject, NoRetryable
  <1>2. ~Marked(row[a])
    BY <1>1 DEF Marked
  <1>3. sent[a] \in Nat
    BY DEF TypeOK
  <1> QED BY <1>2, <1>3 DEF AttemptsAreMarked

\* Runs of one mode never forget a post nobody knows of: the row stays one that is
\* sent to manual review and that the guard takes for unresolved (claim_next,
\* reconcile, defer_duplicate_guard, reject_duplicate).  Without legacy runs nobody
\* rejects a row he has no claim on; without durable runs no attempt is released
\* as retryable, and reject_duplicate refuses every row with an attempt.
THEOREM OrphansAreKept ==
    ASSUME Legacy = {} \/ Durable = {} PROVE Spec => []OrphanStaysUnresolved
  <1> DEFINE Inv == AttemptsAreMarked /\ (Durable = {} => NoRetryable)
  <1>1. Init => Inv
    <2>1. Init => AttemptsAreMarked
      BY ArticlesAssumption DEF Init, AttemptsAreMarked, Armed, NoJob
    <2>2. Init => NoRetryable
      BY DEF Init, NoRetryable
    <2> QED BY <2>1, <2>2
  <1>2. TypeOK /\ CreationInv /\ Inv /\ [Next]_vars => Inv'
    <2> SUFFICES ASSUME TypeOK, CreationInv, Inv, [Next]_vars PROVE Inv'
      OBVIOUS
    <2>1. Durable = {} => RejectionsAreSafe /\ NoRetryable'
      BY RejectionsAreOfUntried, NoRetryableStep
    <2>2. Legacy = {} => RejectionsAreSafe
      BY DEF RejectionsAreSafe
    <2>3. AttemptsAreMarked'
      BY <2>1, <2>2, AttemptsStep
    <2> QED BY <2>1, <2>3
  <1>3. TypeOK /\ CreationInv /\ Inv => OrphanStaysUnresolved
    <2> SUFFICES ASSUME TypeOK, CreationInv, AttemptsAreMarked, NEW a \in Articles,
                        posts[a] > 0, ~External(row[a])
                 PROVE  Unresolved(row[a])
      BY DEF OrphanStaysUnresolved
    <2>1. sent[a] > 0
      BY DEF CreationInv, RequestIsAccounted, TypeOK
    <2>2. Marked(row[a])
      BY <2>1 DEF AttemptsAreMarked
    <2> QED BY <2>2 DEF Marked, Unresolved, External
  <1> QED BY <1>1, <1>2, <1>3, TypeCorrect, CreationInvariant, PTL DEF Spec

\* Durable runs that enforce the policy never post both articles of a confirmed
\* pair, whichever locks they lose: each claims its article before it looks for the
\* other's, and the later one sees the earlier one's claim.
THEOREM DurablePairsAreSafe ==
    ASSUME Legacy = {}, Durable \subseteq Enforcing PROVE Spec => []NoConfirmedPairPosted
  <1> DEFINE Inv == AttemptsAreMarked /\ OneOfAPair
  <1>1. Init => Inv
    <2>1. Init => \A a \in Articles : ~Committed(a) /\ \A w \in Workers : ~Armed(w, a)
      BY ArticlesAssumption DEF Init, Committed, Armed, NoJob
    <2>2. Init => \A a \in Articles : ~(sent[a] > 0)
      BY DEF Init
    <2> QED BY <2>1, <2>2 DEF AttemptsAreMarked, OneOfAPair
  <1>2. TypeOK /\ CreationInv /\ Inv /\ [Next]_vars => Inv'
    <2>1. RejectionsAreSafe /\ IntentsAreSafe
      BY DEF RejectionsAreSafe, IntentsAreSafe
    <2> QED BY <2>1, AttemptsStep, PairStep
  <1>3. TypeOK /\ CreationInv /\ Inv => NoConfirmedPairPosted
    BY PostsMeanCommitted DEF NoConfirmedPairPosted, OneOfAPair, Mutual
  <1> QED BY <1>1, <1>2, <1>3, TypeCorrect, CreationInvariant, PTL DEF Spec

-----------------------------------------------------------------------------
(* Runs of both kinds under a mutex that is never lost: legacy runs write    *)
(* their intent after the last look at the candidates, and only the mutex    *)
(* keeps the peers away in between.                                          *)

HeldSteps(w) ==
    IF w \in Durable THEN Steps \ {"idle", "hold"}
    ELSE {"guard", "image", "precheck", "intent", "post", "await"}

MutexIsHeld == \A w \in Workers : pc[w] \in HeldSteps(w) => mutex = w

\* A worker enters the steps under the mutex by taking it, and leaves them before
\* it gives the mutex back.
LEMMA MutexStep ==
    ASSUME TypeOK, MutexIsHeld, Workers \subseteq Enforcing,
           NEW w \in Workers, WorkerStep(w) \/ WorkerFault(w), ~LoseMutex(w)
    PROVE  /\ \A v \in Workers \ {w} : mutex = v => mutex' = v
           /\ pc'[w] \in HeldSteps(w) => mutex' = w
  <1> DEFINE Held == /\ \A v \in Workers \ {w} : mutex = v => mutex' = v
                     /\ pc'[w] \in HeldSteps(w) => mutex' = w
  <1> USE WorkersAssumption DEF TypeOK
  <1>0. pc[w] \in HeldSteps(w) => mutex = w
    BY DEF MutexIsHeld
  <1>1. ASSUME mutex' = mutex, pc'[w] \in HeldSteps(w) => pc[w] \in HeldSteps(w)
        PROVE  Held
    BY <1>0, <1>1
  <1>2. NextItem(w) /\ pc[w] \notin {"idle", "hold"} => Held
    BY <1>0 DEF NextItem, LeaveGuard, Drop, Goto, HeldSteps, Steps, Workers
  <1>3. EndRun(w) => Held
    BY <1>0 DEF EndRun, Drop, Goto, HeldSteps
  <1>4. ASSUME NEW step, Advance(w, step),
               step \in HeldSteps(w) => pc[w] \in HeldSteps(w)
        PROVE  Held
    BY <1>1, <1>4 DEF Advance, Goto, lockVars
  <1>5. ASSUME NEW step \in {"manual", "defer", "reject", "complete"}, Divert(w, step),
               pc[w] \notin {"idle", "hold"}
        PROVE  Held
    BY <1>0, <1>5 DEF Divert, LeaveGuard, Drop, Goto, HeldSteps, Steps
  <1>6. GiveUp(w) /\ pc[w] \notin {"idle", "hold"} => Held
    <2>1. w \in Durable /\ pc[w] \notin {"idle", "hold"} => pc[w] \in HeldSteps(w)
      BY DEF HeldSteps
    <2> QED BY <1>2, <1>4, <2>1 DEF GiveUp
  <1>7. CASE (w \in Durable /\ StartDurable(w)) \/ (w \in Legacy /\ StartLegacy(w))
    BY <1>0, <1>7 DEF StartDurable, StartLegacy, Goto, HeldSteps
  <1>8. CASE HoldMutex(w)
    <2>0. w \in Enforcing /\ pc[w] = "hold"
      BY <1>8 DEF HoldMutex
    <2>1. CASE mutex = None
      <3>1. mutex' = w
        BY <1>8, <2>0, <2>1 DEF HoldMutex
      <3> QED BY <2>1, <3>1 DEF Workers
    <2>2. CASE mutex # None /\ w \notin Durable /\ NextItem(w)
      BY <2>2 DEF NextItem, LeaveGuard, Drop, Goto, HeldSteps, Steps, MutexIsHeld
    <2>3. CASE mutex # None /\ EndRun(w)
      BY <1>3, <2>3
    <2> QED BY <1>8, <2>0, <2>1, <2>2, <2>3 DEF HoldMutex
  <1>9. CASE w \in Durable /\ \E a \in Articles : ClaimNext(w, a)
    BY <1>0, <1>9 DEF ClaimNext, Goto, HeldSteps, lockVars
  <1>10. CASE w \in Legacy /\ \E a \in Articles : LoadItem(w, a)
    BY <1>0, <1>10 DEF LoadItem, Goto, HeldSteps, lockVars
  <1>11. CASE FinishRun(w)
    BY <1>3, <1>11 DEF FinishRun
  <1>12. CASE SaveIdentity(w)
    BY <1>4, <1>6, <1>12 DEF SaveIdentity, HeldSteps
  <1>13. CASE Reconcile(w)
    <2>1. PICK step \in {"persist", "manual", "guard", "hold"} :
             Advance(w, step) /\ (w \notin Durable => step # "guard")
      BY <1>13 DEF Reconcile
    <2>2. pc[w] = "reconcile"
      BY <1>13 DEF Reconcile
    <2> QED BY <1>4, <2>1, <2>2 DEF HeldSteps
  <1>14. CASE GuardCheck(w)
    <2>1. pc[w] \in {"guard", "precheck"} /\ w \in Enforcing
      BY <1>14 DEF GuardCheck
    <2>2. pc[w] \in HeldSteps(w)
      BY <2>1 DEF HeldSteps
    <2>3. CASE \E step : Advance(w, step)
      BY <1>4, <2>2, <2>3
    <2>4. CASE \E step \in {"manual", "defer"} : Divert(w, step)
      BY <1>5, <2>1, <2>4
    <2>5. CASE Goto(w, "reject") /\ LeaveGuard(w)
      BY <1>0, <2>2, <2>5 DEF LeaveGuard, Drop, Goto, HeldSteps, Steps
    <2> QED BY <1>14, <2>3, <2>4, <2>5 DEF GuardCheck
  <1>15. CASE PrepareImage(w)
    BY <1>4, <1>15 DEF PrepareImage, HeldSteps
  <1>16. CASE BeginLegacyCreation(w)
    BY <1>2, <1>4, <1>16 DEF BeginLegacyCreation, HeldSteps
  <1>17. CASE SendCreate(w)
    BY <1>4, <1>17 DEF SendCreate, HeldSteps
  <1>18. CASE CreateSucceeds(w)
    BY <1>0, <1>18 DEF CreateSucceeds, Goto, lockVars, HeldSteps
  <1>19. CASE SavePost(w)
    BY <1>4, <1>6, <1>19 DEF SavePost, HeldSteps
  <1>20. CASE WriteYoast(w)
    BY <1>5, <1>20 DEF WriteYoast
  <1>21. CASE Complete(w) \/ RequireManual(w) \/ DeferGuard(w)
    BY <1>2, <1>6, <1>21 DEF Complete, RequireManual, DeferGuard
  <1>22. CASE RejectDuplicate(w) \/ FailClaim(w)
    BY <1>2, <1>6, <1>22 DEF RejectDuplicate, FailClaim
  <1>23. CASE StepFails(w)
    <2>1. CASE pc[w] # "hold"
      BY <1>6, <1>23, <2>1 DEF StepFails
    <2>2. CASE pc[w] = "hold"
      <3>1. w \in Legacy /\ NextItem(w)
        BY <1>23, <2>2 DEF StepFails, GiveUp, Workers
      <3> QED BY <3>1 DEF NextItem, LeaveGuard, Drop, Goto, HeldSteps, Workers
    <2> QED BY <2>1, <2>2
  <1>24. CASE GuardUnavailable(w)
    BY <1>5, <1>24 DEF GuardUnavailable
  <1>25. CASE CreateRefused(w) \/ CreateUnanswered(w)
    BY <1>6, <1>25 DEF CreateRefused, CreateUnanswered
  <1>26. CASE Interrupt(w) \/ Crash(w)
    BY <1>3, <1>26 DEF Interrupt, Crash, Abandon
  <1>27. CASE LosePublisherLock(w)
    BY <1>1, <1>27 DEF LosePublisherLock
  <1> QED
    BY <1>7, <1>8, <1>9, <1>10, <1>11, <1>12, <1>13, <1>14, <1>15, <1>16, <1>17, <1>18,
       <1>19, <1>20, <1>21, <1>22, <1>23, <1>24, <1>25, <1>26, <1>27
       DEF WorkerStep, WorkerFault

LEMMA MutexInvariantStep ==
    ASSUME TypeOK, MutexIsHeld, Workers \subseteq Enforcing, CreationInv,
           [Next]_vars, \A w \in Workers : ~LoseMutex(w)
    PROVE  MutexIsHeld'
  <1>1. ASSUME NEW w \in Workers, WorkerStep(w) \/ WorkerFault(w) PROVE MutexIsHeld'
    <2>1. \A v \in Workers \ {w} : pc'[v] = pc[v]
      BY <1>1, WorkerMoves
    <2>2. \A v \in Workers \ {w} : mutex = v => mutex' = v
      BY <1>1, MutexStep
    <2>3. pc'[w] \in HeldSteps(w) => mutex' = w
      BY <1>1, MutexStep
    <2> QED BY <2>1, <2>2, <2>3 DEF MutexIsHeld
  <1>2. ASSUME NEW a \in Articles, Environment(a) PROVE MutexIsHeld'
    BY <1>2 DEF Environment, LandLate, NeverLands, Expire, Reschedule, lockVars, MutexIsHeld
  <1> QED BY <1>1, <1>2 DEF Next, vars, MutexIsHeld

\* What the database takes for an external outcome is one: a request was sent.
OutcomesAreSent == \A a \in Articles : External(row[a]) => sent[a] > 0

\* A sent request stays sent.
LEMMA SentStays ==
    ASSUME TypeOK, [Next]_vars, NEW a \in Articles, sent[a] > 0 PROVE sent'[a] > 0
  <1>1. ASSUME NEW w \in Workers, WorkerStep(w) PROVE sent'[a] > 0
    <2>1. CASE sent' = sent
      BY <2>1
    <2>2. CASE SendCreate(w)
      BY <2>2 DEF SendCreate, AddTo, TypeOK
    <2> QED BY <1>1, <2>1, <2>2 DEF WorkerStep, StartDurable, StartLegacy, HoldMutex,
          ClaimNext, LoadItem, FinishRun, SaveIdentity, Reconcile, GuardCheck, PrepareImage,
          BeginLegacyCreation, CreateSucceeds, SavePost, WriteYoast, Complete, RequireManual,
          DeferGuard, RejectDuplicate, FailClaim, siteVars
  <1>2. ASSUME NEW w \in Workers, WorkerFault(w) PROVE sent' = sent
    BY <1>2 DEF WorkerFault, StepFails, GuardUnavailable, CreateRefused, CreateUnanswered,
       Interrupt, Crash, Abandon, LosePublisherLock, LoseMutex, siteVars
  <1>3. ASSUME NEW b \in Articles, Environment(b) PROVE sent' = sent
    BY <1>3 DEF Environment, LandLate, NeverLands, Expire, Reschedule, siteVars
  <1> QED BY <1>1, <1>2, <1>3 DEF Next, vars

\* The row updates that make no outcome out of nothing.
LEMMA ExternalUpdates ==
    ASSUME NEW r \in Row, NEW w
    PROVE  /\ External(Claimed(r, w)) => External(r)
           /\ \A status \in Statuses \ {"published", "post_created"} :
                 External(Released(r, status)) => External(r)
           /\ External(LegacyIntent(r)) => External(r)
           /\ External(Refreshed(r)) => External(r)
           /\ External([r EXCEPT !.lease = "expired"]) => External(r)
  <1>1. External(Claimed(r, w)) => External(r)
    BY DEF External, Claimed, Row
  <1>2. ASSUME NEW status \in Statuses \ {"published", "post_created"},
               External(Released(r, status))
        PROVE  External(r)
    BY <1>2 DEF External, Released, Row
  <1>3. External(LegacyIntent(r)) => External(r)
    BY DEF External, LegacyIntent, Row
  <1>4. External(Refreshed(r)) => External(r)
    BY DEF External, Refreshed, Released, Row
  <1>5. External([r EXCEPT !.lease = "expired"]) => External(r)
    BY DEF External, Row
  <1> QED BY <1>1, <1>2, <1>3, <1>4, <1>5

LEMMA OutcomesStep ==
    ASSUME TypeOK, CreationInv, OutcomesAreSent, [Next]_vars
    PROVE  OutcomesAreSent'
  <1> SUFFICES ASSUME NEW a \in Articles, External(row'[a]) PROVE sent[a] > 0
    BY SentStays DEF OutcomesAreSent
  <1>0. row[a] \in Row /\ (External(row[a]) => sent[a] > 0)
    BY DEF TypeOK, OutcomesAreSent
  <1>1. CASE row'[a] = row[a]
    BY <1>0, <1>1
  <1>2. ASSUME NEW w \in Workers, Saving(w, a) PROVE sent[a] > 0
    <2>1. 1 <= posts[a]
      BY <1>2 DEF CreationInv, PointersAreReal, Saving
    <2>2. posts[a] # 0 /\ sent[a] \in Nat
      BY <2>1 DEF TypeOK
    <2> QED BY <2>2 DEF CreationInv, RequestIsAccounted
  <1>3. ASSUME NEW w \in Workers, WorkerStep(w), row'[a] # row[a] PROVE sent[a] > 0
    <2>1. CASE w \in Durable /\ \E b \in Articles : ClaimNext(w, b)
      <3>1. PICK b \in Articles : row' = [row EXCEPT ![b] = Claimed(row[b], w)]
        BY <2>1 DEF ClaimNext, SetRow
      <3>2. row'[a] = Claimed(row[a], w)
        BY <1>3, <3>1 DEF TypeOK
      <3> QED BY <1>0, <3>2, ExternalUpdates
    <2>2. CASE BeginLegacyCreation(w)
      <3>1. row'[a] = LegacyIntent(row[a])
        BY <1>3, <2>2 DEF BeginLegacyCreation, SetRow, TypeOK
      <3> QED BY <1>0, <3>1, ExternalUpdates
    <2>3. CASE SavePost(w) \/ Complete(w)
      <3>1. job[w].art = a
        BY <1>3, <2>3 DEF SavePost, Complete, SetRow, TypeOK
      <3>2. Saving(w, a)
        BY <2>3, <3>1 DEF SavePost, Complete, Saving
      <3> QED BY <1>2, <3>2
    <2>4. CASE RequireManual(w)
      <3>1. row'[a] = Released(row[a], "manual_review")
        BY <1>3, <2>4 DEF RequireManual, SetRow, TypeOK
      <3> QED BY <1>0, <3>1, ExternalUpdates DEF Statuses
    <2>5. CASE DeferGuard(w)
      <3>1. row'[a] = Refreshed(row[a])
        BY <1>3, <2>5 DEF DeferGuard, SetRow, TypeOK
      <3> QED BY <1>0, <3>1, ExternalUpdates
    <2>6. CASE RejectDuplicate(w)
      <3>1. row'[a] = Released(row[a], "duplicate")
        BY <1>3, <2>6 DEF RejectDuplicate, SetRow, TypeOK, tableVars
      <3> QED BY <1>0, <3>1, ExternalUpdates DEF Statuses
    <2>7. CASE FailClaim(w)
      <3>1. row'[a] = Released(row[a], "retryable")
        BY <1>3, <2>7 DEF FailClaim, TypeOK
      <3> QED BY <1>0, <3>1, ExternalUpdates DEF Statuses
    <2> QED BY <1>3, <2>1, <2>2, <2>3, <2>4, <2>5, <2>6, <2>7
            DEF WorkerStep, StartDurable, StartLegacy, HoldMutex, LoadItem, FinishRun,
                SaveIdentity, Reconcile, GuardCheck, PrepareImage, SendCreate,
                CreateSucceeds, WriteYoast, tableVars
  <1>4. ASSUME NEW w \in Workers, WorkerFault(w), row'[a] # row[a] PROVE sent[a] > 0
    <2>1. row'[a] = Released(row[a], "retryable")
      BY <1>4 DEF WorkerFault, StepFails, GuardUnavailable, CreateRefused, CreateUnanswered,
         Interrupt, Crash, LosePublisherLock, LoseMutex, tableVars, TypeOK
    <2> QED BY <1>0, <2>1, ExternalUpdates DEF Statuses
  <1>5. ASSUME NEW b \in Articles, Environment(b), row'[a] # row[a] PROVE sent[a] > 0
    <2>1. row'[a] = [row[a] EXCEPT !.lease = "expired"]
      BY <1>5 DEF Environment, LandLate, NeverLands, Expire, Reschedule, SetRow, tableVars,
         TypeOK
    <2> QED BY <1>0, <2>1, ExternalUpdates
  <1> QED BY <1>1, <1>3, <1>4, <1>5 DEF Next, vars

\* A worker that is to reject its article has seen the post of a confirmed original.
RejectsHaveOriginals ==
    \A w \in Workers :
        pc[w] = "reject" => /\ job[w].canon \in Articles
                            /\ <<job[w].art, job[w].canon>> \in ConfirmedPair
                            /\ sent[job[w].canon] > 0

\* A legacy run that is about to write its intent has no committed peer.
IntentsAreAlone ==
    \A w \in Legacy :
        pc[w] = "intent" => \A b \in Articles : Mutual(job[w].art, b) => ~Committed(b)

\* The permission of a durable run comes with the claim, that of a legacy run with
\* its intent.
ArmedOwnsRow ==
    \A w \in Workers, a \in Articles :
        Armed(w, a) => IF w \in Durable THEN row[a].tok = w
                       ELSE row[a].st \in {"claimed", "manual_review"}

\* The rejections and the intents are reached by the guard alone.
LEMMA GuardMoves ==
    ASSUME TypeOK, CreationInv, [Next]_vars, NEW w \in Workers,
           pc'[w] \in {"reject", "intent"}
    PROVE  \/ pc'[w] = pc[w] /\ job'[w] = job[w]
           \/ /\ pc'[w] = "reject" /\ job'[w].canon \in Canonicals(job[w].art)
              /\ job'[w].art = job[w].art
           \/ /\ pc'[w] = "intent" /\ job'[w].art = job[w].art
              /\ w \in Enforcing =>
                    Canonicals(job[w].art) = {} /\ UnresolvedPeers(job[w].art) = {}
              /\ \A v \in Workers \ {w} : pc'[v] = pc[v]
  <1> DEFINE Kept == pc'[w] = pc[w] /\ job'[w] = job[w]
  <1>1. ASSUME NEW v \in Workers, v # w, WorkerStep(v) \/ WorkerFault(v) PROVE Kept
    BY <1>1, WorkerMoves
  <1>2. ASSUME NEW a \in Articles, Environment(a) PROVE Kept
    BY <1>2 DEF Environment, LandLate, NeverLands, Expire, Reschedule, runVars
  <1>3. CASE GuardCheck(w)
    <2>1. \A v \in Workers \ {w} : pc'[v] = pc[v]
      BY <1>3, WorkerMoves DEF WorkerStep
    <2>2. CASE pc'[w] = "reject"
      <3>1. PICK c \in Canonicals(job[w].art) : job' = [job EXCEPT ![w].canon = c]
        BY <1>3, <2>2 DEF GuardCheck, Advance, Divert, Goto, TypeOK
      <3>2. job'[w].canon = c /\ job'[w].art = job[w].art
        BY <3>1 DEF TypeOK, Job
      <3> QED BY <2>2, <3>1, <3>2
    <2>3. CASE pc'[w] = "intent"
      <3>1. job' = job
        BY <1>3, <2>3 DEF GuardCheck, Advance, Divert, Goto, runVars, TypeOK
      <3>2. w \in Enforcing =>
              Canonicals(job[w].art) = {} /\ UnresolvedPeers(job[w].art) = {}
        BY <1>3, <2>3 DEF GuardCheck, Advance, Divert, Goto, TypeOK
      <3> QED BY <2>1, <2>3, <3>1, <3>2
    <2> QED BY <2>2, <2>3
  <1>4. ASSUME WorkerStep(w), ~GuardCheck(w) PROVE Kept
    <2>1. NextItem(w) \/ EndRun(w) \/ GiveUp(w) => pc'[w] \notin {"reject", "intent"}
      BY DEF NextItem, EndRun, GiveUp, Advance, Goto, TypeOK
    <2>2. ~(NextItem(w) \/ EndRun(w) \/ GiveUp(w))
      BY <2>1
    <2>3. \A step : Advance(w, step) \/ Divert(w, step) => pc'[w] = step
      BY DEF Advance, Divert, Goto, TypeOK
    <2>4. ~(StartDurable(w) \/ StartLegacy(w) \/ HoldMutex(w) \/ FinishRun(w))
      BY <2>2, <2>3 DEF StartDurable, StartLegacy, HoldMutex, FinishRun, Goto, TypeOK
    <2>5. ~(SaveIdentity(w) \/ Reconcile(w) \/ PrepareImage(w) \/ BeginLegacyCreation(w))
      BY <2>2, <2>3 DEF SaveIdentity, Reconcile, PrepareImage, BeginLegacyCreation
    <2>6. ~(SendCreate(w) \/ CreateSucceeds(w) \/ SavePost(w) \/ WriteYoast(w) \/ Complete(w))
      BY <2>2, <2>3 DEF SendCreate, CreateSucceeds, SavePost, WriteYoast, Complete, Goto, TypeOK
    <2>7. ~(RequireManual(w) \/ DeferGuard(w) \/ RejectDuplicate(w) \/ FailClaim(w))
      BY <2>2 DEF RequireManual, DeferGuard, RejectDuplicate, FailClaim
    <2>8. ~\E a \in Articles : ClaimNext(w, a)
      BY DEF ClaimNext, Goto, TypeOK
    <2>9. ASSUME NEW a \in Articles, LoadItem(w, a) PROVE Kept
      BY <2>9 DEF LoadItem, Goto, TypeOK
    <2> QED BY <1>4, <2>4, <2>5, <2>6, <2>7, <2>8, <2>9 DEF WorkerStep
  <1>5. ASSUME WorkerFault(w) PROVE Kept
    <2>1. NextItem(w) \/ EndRun(w) \/ GiveUp(w) => pc'[w] \notin {"reject", "intent"}
      BY DEF NextItem, EndRun, GiveUp, Advance, Goto, TypeOK
    <2>2. ~(NextItem(w) \/ EndRun(w) \/ GiveUp(w) \/ Divert(w, "defer"))
      BY <2>1 DEF Divert, Goto, TypeOK
    <2> QED BY <1>5, <2>2 DEF WorkerFault, StepFails, GuardUnavailable, CreateRefused,
            CreateUnanswered, Interrupt, Crash, Abandon, LosePublisherLock, LoseMutex, runVars
  <1> QED BY <1>1, <1>2, <1>3, <1>4, <1>5 DEF Next, vars

LEMMA OriginalsStep ==
    ASSUME TypeOK, CreationInv, OutcomesAreSent, RejectsHaveOriginals, [Next]_vars
    PROVE  RejectsHaveOriginals'
  <1> SUFFICES ASSUME NEW w \in Workers, pc'[w] = "reject"
               PROVE  /\ job'[w].canon \in Articles
                      /\ <<job'[w].art, job'[w].canon>> \in ConfirmedPair
                      /\ sent'[job'[w].canon] > 0
    BY DEF RejectsHaveOriginals
  <1>1. CASE pc'[w] = pc[w] /\ job'[w] = job[w]
    BY <1>1, SentStays DEF RejectsHaveOriginals
  <1>2. CASE job'[w].canon \in Canonicals(job[w].art) /\ job'[w].art = job[w].art
    <2>1. job'[w].canon \in Articles /\ External(row[job'[w].canon])
      BY <1>2 DEF Canonicals
    <2>2. <<job'[w].art, job'[w].canon>> \in ConfirmedPair
      BY <1>2 DEF Canonicals
    <2> QED BY <2>1, <2>2, SentStays DEF OutcomesAreSent
  <1> QED BY <1>1, <1>2, GuardMoves

LEMMA IntentsStep ==
    ASSUME TypeOK, CreationInv, AttemptsAreMarked, MutexIsHeld, IntentsAreAlone,
           Workers \subseteq Enforcing, [Next]_vars
    PROVE  IntentsAreAlone'
  <1> SUFFICES ASSUME NEW w \in Legacy, pc'[w] = "intent",
                      NEW b \in Articles, Mutual(job'[w].art, b), Committed(b)'
               PROVE  FALSE
    BY DEF IntentsAreAlone, Mutual
  <1>0. w \in Workers /\ w \notin Durable
    BY WorkersAssumption DEF Workers
  <1>1. CASE pc'[w] = pc[w] /\ job'[w] = job[w]
    <2>1. ~Committed(b) /\ mutex = w
      BY <1>0, <1>1 DEF IntentsAreAlone, MutexIsHeld, HeldSteps
    <2>2. PICK v \in Workers : NewPost(v)
      BY <2>1, NewlyCommitted
    <2>3. pc[v] \in {"precheck", "intent"} /\ v # w
      BY <1>1, <2>2 DEF NewPost, BeginLegacyCreation
    <2>4. mutex = v
      BY <2>3 DEF MutexIsHeld, HeldSteps, Steps
    <2> QED BY <2>1, <2>3, <2>4
  <1>2. CASE /\ job'[w].art = job[w].art
             /\ Canonicals(job[w].art) = {} /\ UnresolvedPeers(job[w].art) = {}
             /\ \A v \in Workers \ {w} : pc'[v] = pc[v]
    <2>1. ~Marked(row[b])
      <3>1. job[w].art \in Articles
        BY <1>2, PairsAssumption DEF Mutual
      <3> QED BY <1>2, <3>1, GuardSeesMarked DEF Mutual
    <2>2. ~Committed(b)
      BY <2>1 DEF Committed, AttemptsAreMarked
    <2>3. PICK v \in Workers : NewPost(v)
      BY <2>2, NewlyCommitted
    <2> QED BY <1>2, <2>3 DEF NewPost
  <1> QED BY <1>0, <1>1, <1>2, GuardMoves

\* Durable runs write rows under their claim or by claiming, and every write but
\* the claim ends their permission.
LEMMA DurableWrites ==
    ASSUME TypeOK, NEW w \in Durable, WorkerStep(w) \/ WorkerFault(w), row' # row
    PROVE  /\ pc[w] \notin {"idle", "hold"}
           /\ pc'[w] \notin ArmedSteps \/ \E a \in Articles : ClaimNext(w, a)
  <1>0. w \in Workers /\ w \notin Legacy
    BY WorkersAssumption DEF Workers
  <1>1. ASSUME NextItem(w) \/ EndRun(w) \/ GiveUp(w) \/ Advance(w, "yoast")
        PROVE  pc'[w] \notin ArmedSteps
    <2>1. "yoast" \in Steps \ ArmedSteps
      BY DEF Steps, ArmedSteps
    <2> QED BY <1>0, <1>1, <2>1, EndsMove
  <1>2. CASE WorkerStep(w)
    <2>1. CASE \E a \in Articles : ClaimNext(w, a)
      BY <2>1 DEF ClaimNext
    <2>2. CASE SavePost(w) \/ Complete(w) \/ RequireManual(w) \/ DeferGuard(w)
      BY <1>0, <1>1, <2>2 DEF SavePost, Complete, RequireManual, DeferGuard
    <2>3. CASE RejectDuplicate(w) \/ FailClaim(w)
      BY <1>0, <1>1, <2>3 DEF RejectDuplicate, FailClaim
    <2> QED BY <1>0, <1>2, <2>1, <2>2, <2>3
            DEF WorkerStep, StartDurable, StartLegacy, HoldMutex, LoadItem, FinishRun,
                SaveIdentity, Reconcile, GuardCheck, PrepareImage, BeginLegacyCreation,
                SendCreate, CreateSucceeds, WriteYoast, tableVars
  <1>3. CASE WorkerFault(w)
    <2>1. Interrupt(w)
      BY <1>3 DEF WorkerFault, StepFails, GuardUnavailable, CreateRefused, CreateUnanswered,
         Crash, LosePublisherLock, LoseMutex, tableVars
    <2> QED BY <1>1, <2>1 DEF Interrupt, Abandon
  <1> QED BY <1>2, <1>3

\* Nobody else writes the row of a worker that holds the mutex and a permission.
LEMMA ArmedOwnsStep ==
    ASSUME TypeOK, CreationInv, MutexIsHeld, ArmedOwnsRow, [Next]_vars,
           NEW w \in Workers, NEW a \in Articles, Armed(w, a)'
    PROVE  IF w \in Durable THEN row'[a].tok = w
           ELSE row'[a].st \in {"claimed", "manual_review"}
  <1> DEFINE Owns == IF w \in Durable THEN row'[a].tok = w
                     ELSE row'[a].st \in {"claimed", "manual_review"}
  <1>0. /\ row[a] \in Row
        /\ w \in Durable => pc'[w] \in ArmedSteps
        /\ w \notin Durable => pc'[w] = "post"
    BY DEF TypeOK, Armed, ArmedSteps
  <1>1. CASE w \in Durable /\ \E b \in Articles : ClaimNext(w, b)
    <2>1. PICK b \in Articles : ClaimNext(w, b)
      BY <1>1
    <2>2. b = a
      BY <2>1 DEF ClaimNext, Snapshot, Armed, TypeOK
    <2>3. row'[a] = Claimed(row[a], w)
      BY <2>1, <2>2 DEF ClaimNext, SetRow, TypeOK
    <2> QED BY <1>0, <1>1, <2>3 DEF Claimed, Row
  <1>2. CASE NewPost(w) /\ w \in Legacy
    <2>1. job[w].art = a
      BY <1>2 DEF NewPost, Armed
    <2>2. row'[a] = LegacyIntent(row[a]) /\ w \notin Durable
      BY <1>2, <2>1, WorkersAssumption DEF NewPost, TypeOK
    <2> QED BY <1>0, <2>2 DEF LegacyIntent, Row
  <1>3. ASSUME Armed(w, a), w \in Durable => ~\E b \in Articles : ClaimNext(w, b) PROVE Owns
    <2>1. IF w \in Durable THEN row[a].tok = w
          ELSE row[a].st \in {"claimed", "manual_review"}
      BY <1>3 DEF ArmedOwnsRow
    <2>2. mutex = w
      BY <1>3 DEF MutexIsHeld, HeldSteps, Armed, Steps
    <2>3. CASE row'[a] = row[a]
      BY <2>1, <2>3
    <2>4. ASSUME NEW v \in Durable, WorkerStep(v) \/ WorkerFault(v) PROVE row' = row
      <3> SUFFICES ASSUME row' # row PROVE FALSE
        OBVIOUS
      <3>1. /\ pc[v] \notin {"idle", "hold"}
            /\ pc'[v] \notin ArmedSteps \/ \E b \in Articles : ClaimNext(v, b)
        BY <2>4, DurableWrites
      <3>2. v \in Workers /\ pc[v] \in HeldSteps(v)
        BY <3>1 DEF HeldSteps, TypeOK, Workers
      <3>3. v = w
        BY <2>2, <3>2 DEF MutexIsHeld
      <3> QED BY <1>0, <1>3, <3>1, <3>3
    <2>5. CASE \/ \E v \in Legacy : WorkerStep(v) \/ WorkerFault(v)
               \/ \E b \in Articles : Environment(b)
      BY <2>1, <2>5, LegacyWrites
    <2> QED BY <2>3, <2>4, <2>5 DEF Next, vars, Workers
  <1>4. Armed(w, a) \/ (w \in Durable /\ \E b \in Articles : ClaimNext(w, b)) \/ NewPost(w)
    <2>1. Moves(w)
      BY EveryMove
    <2>2. w \notin Durable => w \in Legacy
      BY DEF Workers
    <2>3. w \in Durable => w \notin Legacy
      BY WorkersAssumption
    <2>4. job'[w].art = a /\ (w \in Durable => job'[w].fresh)
      BY DEF Armed
    <2> QED BY <1>0, <2>1, <2>2, <2>3, <2>4 DEF Moves, Armed, ArmedSteps
  <1>5. CASE NewPost(w) /\ w \in Durable
    <2>1. Armed(w, a)
      BY <1>0, <1>5, WorkersAssumption DEF NewPost, Armed
    <2>2. ~\E b \in Articles : ClaimNext(w, b)
      BY <1>5 DEF NewPost, ClaimNext, BeginLegacyCreation
    <2> QED BY <1>3, <2>1, <2>2
  <1> QED BY <1>1, <1>2, <1>3, <1>4, <1>5 DEF Workers

\* While no session loses the mutex, runs of both kinds that all enforce the policy
\* never post both articles of a confirmed pair, whatever else fails, as long as
\* the policy confirms pairs in both directions (PublicationDuplicateGuard.hold).
THEOREM MutexKeepsPairsApart ==
    ASSUME Workers \subseteq Enforcing,
           \A a, b \in Articles : <<a, b>> \in ConfirmedPair => <<b, a>> \in ConfirmedPair
    PROVE  Spec /\ [][\A w \in Workers : ~LoseMutex(w)]_vars => []NoConfirmedPairPosted
  <1> DEFINE Kept == \A w \in Workers : ~LoseMutex(w)
             Inv == /\ AttemptsAreMarked /\ OneOfAPair
                    /\ MutexIsHeld /\ OutcomesAreSent /\ RejectsHaveOriginals
                    /\ IntentsAreAlone /\ ArmedOwnsRow
  <1>1. Init => Inv
    <2> SUFFICES ASSUME Init PROVE Inv
      OBVIOUS
    <2>1. \A a \in Articles : ~Committed(a) /\ \A w \in Workers : ~Armed(w, a)
      BY ArticlesAssumption DEF Init, Committed, Armed, NoJob
    <2>2. \A a \in Articles : ~(sent[a] > 0) /\ ~External(row[a])
      BY DEF Init, External
    <2>3. \A w \in Workers : pc[w] = "idle"
      BY DEF Init
    <2>4. MutexIsHeld /\ RejectsHaveOriginals /\ IntentsAreAlone
      BY <2>3 DEF MutexIsHeld, HeldSteps, RejectsHaveOriginals, IntentsAreAlone, Workers
    <2> QED BY <2>1, <2>2, <2>4
            DEF AttemptsAreMarked, OneOfAPair, OutcomesAreSent, ArmedOwnsRow
  <1>2. TypeOK /\ CreationInv /\ Inv /\ [Next]_vars /\ [Kept]_vars => Inv'
    <2> SUFFICES ASSUME TypeOK, CreationInv, Inv, [Next]_vars, [Kept]_vars PROVE Inv'
      OBVIOUS
    <2>0. UNCHANGED vars => Kept \/ Inv'
      <3>1. ASSUME UNCHANGED vars PROVE Kept
        BY <3>1 DEF vars, LoseMutex, UseFault, TypeOK
      <3> QED BY <3>1
    <2>1. CASE Kept
      <3>1. RejectionsAreSafe
        <4> SUFFICES ASSUME NEW w \in Legacy, NEW a \in Articles, RejectDuplicate(w),
                            job[w].art = a, MayReject(a, w)
                     PROVE  sent[a] = 0 /\ \A v \in Workers : ~Armed(v, a)
          BY DEF RejectionsAreSafe
        <4>1. w \in Workers /\ w \notin Durable /\ pc[w] = "reject"
          BY WorkersAssumption DEF Workers, RejectDuplicate
        <4>2. ~Committed(a)
          <5>1. Committed(job[w].canon) /\ Mutual(a, job[w].canon)
            BY <4>1 DEF RejectsHaveOriginals, Committed, Mutual
          <5> QED BY <4>1, <5>1 DEF OneOfAPair, RejectsHaveOriginals
        <4>3. sent[a] = 0
          BY <4>2 DEF Committed, TypeOK
        <4>4. row[a].tok = None /\ row[a].st \in {"fresh", "pending", "retryable"}
          BY <4>1 DEF MayReject
        <4>5. ASSUME NEW v \in Workers, Armed(v, a) PROVE FALSE
          BY <4>4, <4>5, WorkersAssumption DEF ArmedOwnsRow
        <4> QED BY <4>3, <4>5
      <3>2. IntentsAreSafe
        BY DEF IntentsAreSafe, IntentsAreAlone, BeginLegacyCreation
      <3>3. Durable \subseteq Enforcing
        BY DEF Workers
      <3>4. ArmedOwnsRow'
        BY ArmedOwnsStep DEF ArmedOwnsRow
      <3>5. MutexIsHeld'
        BY <2>1, MutexInvariantStep
      <3>6. AttemptsAreMarked' /\ OneOfAPair'
        BY <3>1, <3>2, <3>3, AttemptsStep, PairStep
      <3>7. OutcomesAreSent' /\ RejectsHaveOriginals' /\ IntentsAreAlone'
        BY OutcomesStep, OriginalsStep, IntentsStep
      <3> QED BY <3>4, <3>5, <3>6, <3>7
    <2> QED BY <2>0, <2>1
  <1>3. TypeOK /\ CreationInv /\ Inv => NoConfirmedPairPosted
    BY PostsMeanCommitted DEF NoConfirmedPairPosted, OneOfAPair, Mutual
  <1> QED BY <1>1, <1>2, <1>3, TypeCorrect, CreationInvariant, PTL DEF Spec

-----------------------------------------------------------------------------
(* The table of rich articles implements LeaseQueue *)

QueueStep == [Lease!Next]_(Lease!vars)

\* How a write to one row looks in the queue.
LEMMA QueueWrite ==
    ASSUME NEW a \in Articles, NEW r, SetRow(a, r), row \in [Articles -> Row]
    PROVE  /\ queueState' = [queueState EXCEPT ![a] = QueueState(r)]
           /\ queueHolder' = [queueHolder EXCEPT ![a] = r.tok]
           /\ queueLive' = [queueLive EXCEPT ![a] = (r.tok # None /\ r.lease = "live")]
  <1>1. row' = [b \in Articles |-> IF b = a THEN r ELSE row[b]]
    BY DEF SetRow
  <1>2. \A b \in Articles : row'[b] = IF b = a THEN r ELSE row[b]
    BY <1>1
  <1>3. queueState' = [queueState EXCEPT ![a] = QueueState(r)]
    BY <1>2 DEF queueState
  <1>4. queueHolder' = [queueHolder EXCEPT ![a] = r.tok]
    BY <1>2 DEF queueHolder
  <1>5. queueLive' = [queueLive EXCEPT ![a] = (r.tok # None /\ r.lease = "live")]
    BY <1>2 DEF queueLive
  <1> QED BY <1>3, <1>4, <1>5

LEMMA RowsUntouched ==
    ASSUME UNCHANGED row PROVE UNCHANGED <<queueState, queueHolder, queueLive>>
  BY DEF queueState, queueHolder, queueLive

\* The other workers stay busy with what they are on, legacy ones do not count.
LEMMA OneTurns ==
    ASSUME TypeOK, CreationInv, NEW w \in Workers, WorkerStep(w) \/ WorkerFault(w)
    PROVE  /\ w \notin Durable => UNCHANGED queueBusy
           /\ w \in Durable =>
                 queueBusy' = [queueBusy EXCEPT ![w] =
                                  IF OnItem(w)' THEN job'[w].art ELSE None]
  <1>1. ASSUME NEW v \in Durable, v # w
        PROVE  (IF OnItem(v)' THEN job'[v].art ELSE None) =
               (IF OnItem(v) THEN job[v].art ELSE None)
    <2>1. pc'[v] = pc[v] /\ job'[v] = job[v]
      BY <1>1, WorkerMoves DEF Workers
    <2> QED BY <2>1 DEF OnItem
  <1> QED BY <1>1 DEF queueBusy

\* A step that writes no row, and leaves its worker on its article or on none.
LEMMA WorkersTurn ==
    ASSUME UNCHANGED row, NEW w \in Durable,
           \/ UNCHANGED queueBusy
           \/ queueBusy' = [queueBusy EXCEPT ![w] = None]
    PROVE  QueueStep
  <1>1. CASE UNCHANGED queueBusy
    BY <1>1, RowsUntouched DEF QueueStep, Lease!vars
  <1>2. CASE queueBusy' = [queueBusy EXCEPT ![w] = None]
    BY <1>2, RowsUntouched DEF QueueStep, Lease!Next, Lease!Leave, Lease!Turn
  <1> QED BY <1>1, <1>2

\* A write that keeps token and lease of a claimed row, or the token of an open
\* one, and never opens a closed row.
LEMMA ClaimIsKept ==
    ASSUME TypeOK, NEW a \in Articles, NEW r, SetRow(a, r), UNCHANGED queueBusy,
           r.tok = row[a].tok,
           r.tok # None => r.lease = row[a].lease,
           Closed(row[a]) /\ r.tok = None => Closed(r)
    PROVE  QueueStep
  <1>0. row \in [Articles -> Row]
    BY DEF TypeOK
  <1>1. /\ queueState' = [queueState EXCEPT ![a] = QueueState(r)]
        /\ queueHolder' = [queueHolder EXCEPT ![a] = r.tok]
        /\ queueLive' = [queueLive EXCEPT ![a] = (r.tok # None /\ r.lease = "live")]
    BY <1>0, QueueWrite
  <1>2. /\ queueState[a] = QueueState(row[a]) /\ queueHolder[a] = r.tok
        /\ queueLive[a] = (r.tok # None /\ r.lease = "live")
    BY DEF queueState, queueHolder, queueLive
  <1>3. UNCHANGED <<queueHolder, queueLive>>
    <2>1. queueHolder = [queueHolder EXCEPT ![a] = queueHolder[a]]
      BY DEF queueHolder
    <2>2. queueLive = [queueLive EXCEPT ![a] = queueLive[a]]
      BY DEF queueLive
    <2> QED BY <1>1, <1>2, <2>1, <2>2
  <1>4. CASE QueueState(r) = QueueState(row[a])
    <2>1. queueState = [queueState EXCEPT ![a] = queueState[a]]
      BY DEF queueState
    <2> QED BY <1>1, <1>2, <1>3, <1>4, <2>1 DEF QueueStep, Lease!vars
  <1>5. CASE QueueState(r) # QueueState(row[a])
    <2>1. r.tok = None /\ queueState[a] = "open" /\ QueueState(r) = "closed"
      BY <1>2, <1>5 DEF QueueState
    <2>2. /\ queueHolder' = [queueHolder EXCEPT ![a] = None]
          /\ queueLive' = [queueLive EXCEPT ![a] = FALSE]
      BY <1>1, <2>1
    <2>3. Lease!Withdraw(a)
      BY <1>1, <2>1, <2>2 DEF Lease!Withdraw, Lease!Become
    <2> QED BY <2>3 DEF QueueStep, Lease!Next
  <1> QED BY <1>4, <1>5

\* A worker ends the claim it holds and turns away.
LEMMA HolderEnds ==
    ASSUME TypeOK, NEW w \in Durable, NEW a \in Articles, OnItem(w), job[w].art = a,
           row[a].tok = w, NEW r, SetRow(a, r), r.tok = None,
           queueBusy' = [queueBusy EXCEPT ![w] = None]
    PROVE  QueueStep
  <1>0. row \in [Articles -> Row] /\ w # None
    BY WorkersAssumption DEF TypeOK, Workers
  <1>1. /\ queueState' = [queueState EXCEPT ![a] = QueueState(r)]
        /\ queueHolder' = [queueHolder EXCEPT ![a] = None]
        /\ queueLive' = [queueLive EXCEPT ![a] = FALSE]
    BY <1>0, QueueWrite
  <1>2. queueState[a] = "held" /\ queueHolder[a] = w /\ queueBusy[w] = a
    BY <1>0 DEF queueState, queueHolder, queueBusy, QueueState
  <1>3. QueueState(r) \in {"open", "closed"}
    BY DEF QueueState
  <1>4. Lease!End(a, w, QueueState(r))
    BY <1>1, <1>2 DEF Lease!End, Lease!Become, Lease!Turn
  <1>5. Lease!End(a, w, "open") \/ Lease!End(a, w, "closed")
    BY <1>3, <1>4
  <1> QED BY <1>5 DEF QueueStep, Lease!Next

\* A worker that does not claim stays on its article or turns away from it.
LEMMA DurableTurns ==
    ASSUME TypeOK, NEW w \in Durable, WorkerStep(w) \/ WorkerFault(w),
           ~\E a \in Articles : ClaimNext(w, a)
    PROVE  ~OnItem(w)' \/ (OnItem(w) /\ job'[w].art = job[w].art)
  <1> DEFINE Done == ~OnItem(w)' \/ (OnItem(w) /\ job'[w].art = job[w].art)
  <1>0. w \in Workers /\ w \notin Legacy /\ pc \in [Workers -> Steps]
    BY WorkersAssumption DEF Workers, TypeOK
  <1>1. NextItem(w) \/ EndRun(w) => Done
    BY <1>0 DEF NextItem, EndRun, Goto, OnItem
  <1>2. ASSUME OnItem(w), NEW step, Advance(w, step) \/ Divert(w, step) PROVE Done
    BY <1>2 DEF Advance, Divert, runVars
  <1>3. OnItem(w) /\ GiveUp(w) => Done
    BY <1>1, <1>2 DEF GiveUp
  <1>4. CASE StartDurable(w) \/ StartLegacy(w) \/ HoldMutex(w) \/ FinishRun(w)
    BY <1>0, <1>1, <1>4 DEF StartDurable, StartLegacy, HoldMutex, FinishRun, Advance, Goto, OnItem
  <1>5. CASE GuardCheck(w)
    BY <1>0, <1>5 DEF GuardCheck, Advance, Divert, runVars, OnItem, TypeOK, Job
  <1>6. CASE CreateSucceeds(w)
    BY <1>0, <1>6 DEF CreateSucceeds, OnItem, TypeOK, Job
  <1>7. CASE \/ SaveIdentity(w) \/ Reconcile(w) \/ PrepareImage(w) \/ BeginLegacyCreation(w)
             \/ SendCreate(w) \/ SavePost(w) \/ WriteYoast(w) \/ Complete(w)
    <2>1. OnItem(w)
      BY <1>7 DEF SaveIdentity, Reconcile, PrepareImage, BeginLegacyCreation, SendCreate,
         SavePost, WriteYoast, Complete, OnItem
    <2> QED BY <1>1, <1>2, <1>3, <1>7, <2>1
            DEF SaveIdentity, Reconcile, PrepareImage, BeginLegacyCreation, SendCreate,
                SavePost, WriteYoast, Complete
  <1>8. CASE RequireManual(w) \/ DeferGuard(w) \/ RejectDuplicate(w) \/ FailClaim(w)
    <2>1. OnItem(w)
      BY <1>8 DEF RequireManual, DeferGuard, RejectDuplicate, FailClaim, OnItem
    <2> QED BY <1>1, <1>3, <1>8, <2>1
            DEF RequireManual, DeferGuard, RejectDuplicate, FailClaim
  <1>9. CASE StepFails(w) \/ GuardUnavailable(w) \/ CreateRefused(w) \/ CreateUnanswered(w)
    <2>1. OnItem(w)
      BY <1>0, <1>9 DEF StepFails, GuardUnavailable, CreateRefused, CreateUnanswered, OnItem
    <2> QED BY <1>2, <1>3, <1>9, <2>1
            DEF StepFails, GuardUnavailable, CreateRefused, CreateUnanswered
  <1>10. CASE Interrupt(w) \/ Crash(w)
    BY <1>1, <1>10 DEF Interrupt, Crash, Abandon
  <1>11. CASE LosePublisherLock(w) \/ LoseMutex(w)
    BY <1>11 DEF LosePublisherLock, LoseMutex, runVars, OnItem
  <1> QED BY <1>0, <1>4, <1>5, <1>6, <1>7, <1>8, <1>9, <1>10, <1>11 DEF WorkerStep, WorkerFault

\* Apart from the claim itself and a saved post id, what a durable worker writes
\* is the end of the claim it holds.
LEMMA DurableEnds ==
    ASSUME TypeOK, NEW w \in Durable, WorkerStep(w) \/ WorkerFault(w), row' # row,
           ~SavePost(w), ~\E a \in Articles : ClaimNext(w, a)
    PROVE  /\ OnItem(w) /\ ~OnItem(w)' /\ row[job[w].art].tok = w
           /\ \E r : SetRow(job[w].art, r) /\ r.tok = None
  <1> DEFINE a == job[w].art
  <1>0. w \in Workers /\ w \notin Legacy /\ pc \in [Workers -> Steps]
    BY WorkersAssumption DEF Workers, TypeOK
  <1>1. NextItem(w) \/ EndRun(w) => ~OnItem(w)'
    BY <1>0 DEF NextItem, EndRun, Goto, OnItem
  <1>2. OnItem(w) => row[a] \in Row
    BY <1>0 DEF TypeOK
  <1>3. ASSUME OnItem(w)
        PROVE  /\ \A status : Released(row[a], status).tok = None
               /\ Completed(row[a]).tok = None /\ Refreshed(row[a]).tok = None
    BY <1>2, <1>3 DEF Released, Completed, Refreshed, Row
  <1>4. CASE Complete(w)
    BY <1>0, <1>1, <1>3, <1>4 DEF Complete, Owned, OnItem
  <1>5. CASE RequireManual(w)
    BY <1>0, <1>1, <1>3, <1>5 DEF RequireManual, Owned, OnItem
  <1>6. CASE DeferGuard(w)
    BY <1>0, <1>1, <1>3, <1>6 DEF DeferGuard, OnItem
  <1>7. CASE RejectDuplicate(w)
    BY <1>0, <1>1, <1>3, <1>7 DEF RejectDuplicate, MayReject, OnItem, tableVars
  <1>8. CASE FailClaim(w)
    BY <1>0, <1>1, <1>3, <1>8 DEF FailClaim, Owned, OnItem, SetRow
  <1>9. CASE Interrupt(w)
    BY <1>0, <1>1, <1>3, <1>9 DEF Interrupt, Abandon, Owned, OnItem, SetRow
  <1> QED BY <1>0, <1>4, <1>5, <1>6, <1>7, <1>8, <1>9
          DEF WorkerStep, WorkerFault, StartDurable, StartLegacy, HoldMutex, FinishRun,
              SaveIdentity, Reconcile, GuardCheck, PrepareImage, BeginLegacyCreation,
              SendCreate, CreateSucceeds, WriteYoast, StepFails, GuardUnavailable,
              CreateRefused, CreateUnanswered, Crash, LosePublisherLock, LoseMutex, tableVars

LEMMA DurableQueue ==
    ASSUME TypeOK, CreationInv, NEW w \in Durable, WorkerStep(w) \/ WorkerFault(w)
    PROVE  QueueStep
  <1> DEFINE turn == IF OnItem(w)' THEN job'[w].art ELSE None
  <1>0. /\ w \in Workers /\ w # None /\ row \in [Articles -> Row]
        /\ \A b \in Articles : row[b] \in Row
        /\ job \in [Workers -> Job] /\ pc \in [Workers -> Steps]
    BY WorkersAssumption DEF Workers, TypeOK
  <1>1. queueBusy' = [queueBusy EXCEPT ![w] = turn]
    BY <1>0, OneTurns
  <1>2. queueBusy = [queueBusy EXCEPT ![w] = queueBusy[w]]
    BY DEF queueBusy
  <1>3. CASE \E a \in Articles : ClaimNext(w, a)
    <2>1. PICK a \in Articles : ClaimNext(w, a)
      BY <1>3
    <2> DEFINE r == Claimed(row[a], w)
    <2>2. SetRow(a, r) /\ r.tok = w /\ r.lease = "live"
      BY <1>0, <2>1 DEF ClaimNext, Claimed, Row
    <2>3. /\ pc'[w] = "identity" /\ job'[w].art = a /\ pc[w] = "loop"
      BY <1>0, <2>1 DEF ClaimNext, Goto, Snapshot
    <2>4. queueBusy[w] = None /\ turn = a
      BY <2>3 DEF queueBusy, OnItem
    <2> HIDE DEF r, turn
    <2>5. /\ queueState' = [queueState EXCEPT ![a] = "held"]
          /\ queueHolder' = [queueHolder EXCEPT ![a] = w]
          /\ queueLive' = [queueLive EXCEPT ![a] = TRUE]
      BY <1>0, <2>2, QueueWrite DEF QueueState
    <2>6. row[a].tok # None => InClaim(row[a])
      BY DEF CreationInv, TokenMeansClaim
    <2>7. queueState[a] = "open" \/ (queueState[a] = "held" /\ ~queueLive[a])
      BY <2>1, <2>6 DEF ClaimNext, Claimable, InClaim, queueState, queueLive, QueueState, Closed
    <2>8. Lease!Take(a, w)
      BY <1>1, <2>4, <2>5, <2>7 DEF Lease!Take, Lease!Become, Lease!Turn
    <2> QED BY <2>8 DEF QueueStep, Lease!Next
  <1>4. CASE ~\E a \in Articles : ClaimNext(w, a)
    <2>1. turn = None \/ turn = queueBusy[w]
      BY <1>4, DurableTurns DEF queueBusy
    <2>2. CASE row' = row
      <3> HIDE DEF turn
      <3>1. UNCHANGED queueBusy \/ queueBusy' = [queueBusy EXCEPT ![w] = None]
        BY <1>1, <1>2, <2>1
      <3> QED BY <2>2, <3>1, WorkersTurn
    <2>3. CASE SavePost(w) /\ row' # row
      <3> DEFINE a == job[w].art
                 r == PostSaved(row[a], job[w].ptr)
      <3>1. OnItem(w) /\ a \in Articles
        BY <1>0, <2>3 DEF SavePost, OnItem, TypeOK
      <3>2. SetRow(a, r) /\ row[a].tok = w /\ Advance(w, "yoast")
        BY <2>3, WorkersAssumption DEF SavePost, Owned
      <3>3. turn = queueBusy[w]
        BY <1>0, <3>1, <3>2 DEF Advance, Goto, runVars, OnItem, queueBusy
      <3>4. r.tok = row[a].tok /\ r.lease = row[a].lease
        BY <1>0, <3>1 DEF PostSaved, Row
      <3>5. UNCHANGED queueBusy
        <4> HIDE DEF turn
        <4> QED BY <1>1, <1>2, <3>3
      <3>6. row[a].tok # None
        BY <1>0, <3>2
      <3> HIDE DEF r
      <3> QED BY <3>1, <3>2, <3>4, <3>5, <3>6, ClaimIsKept
    <2>4. CASE ~SavePost(w) /\ row' # row
      <3> DEFINE a == job[w].art
      <3>1. /\ OnItem(w) /\ ~OnItem(w)' /\ row[a].tok = w
            /\ \E r : SetRow(a, r) /\ r.tok = None
        BY <1>4, <2>4, DurableEnds
      <3>2. PICK r : SetRow(a, r) /\ r.tok = None
        BY <3>1
      <3>3. turn = None /\ a \in Articles
        BY <1>0, <3>1 DEF TypeOK
      <3> HIDE DEF turn
      <3> QED BY <1>1, <3>1, <3>2, <3>3, HolderEnds
    <2> QED BY <2>2, <2>3, <2>4
  <1> QED BY <1>3, <1>4

\* A legacy worker writes a row without asking who holds it, but leaves token and
\* lease alone, or withdraws a row that carries no token.
LEMMA LegacyQueue ==
    ASSUME TypeOK, CreationInv, NEW w \in Legacy, WorkerStep(w) \/ WorkerFault(w)
    PROVE  QueueStep
  <1> DEFINE a == job[w].art
  <1>0. /\ w \in Workers /\ w \notin Durable
        /\ \A b \in Articles : row[b] \in Row
        /\ \A b \in Articles : row[b].tok # None => InClaim(row[b])
    BY WorkersAssumption DEF Workers, TypeOK, CreationInv, TokenMeansClaim
  <1>1. UNCHANGED queueBusy
    BY <1>0, OneTurns
  <1>2. CASE row' = row
    BY <1>1, <1>2, RowsUntouched DEF QueueStep, Lease!vars
  <1>3. CASE row' # row
    <2>1. a \in Articles
      <3>1. OnItem(w)
        BY <1>0, <1>3 DEF WorkerStep, WorkerFault, StartDurable, StartLegacy, HoldMutex, LoadItem,
           FinishRun, SaveIdentity, Reconcile, GuardCheck, PrepareImage, BeginLegacyCreation,
           SendCreate, CreateSucceeds, SavePost, WriteYoast, Complete, RequireManual,
           DeferGuard, RejectDuplicate, FailClaim, StepFails, GuardUnavailable, CreateRefused,
           CreateUnanswered, Interrupt, Crash, LosePublisherLock, LoseMutex, tableVars, OnItem
      <3> QED BY <1>0, <3>1 DEF TypeOK
    <2>2. CASE BeginLegacyCreation(w)
      <3> DEFINE r == LegacyIntent(row[a])
      <3>1. SetRow(a, r) /\ FreshState(row[a])
        BY <1>3, <2>2 DEF BeginLegacyCreation
      <3>2. r.tok = row[a].tok /\ r.tok = None /\ ~Closed(row[a])
        BY <1>0, <2>1, <3>1 DEF LegacyIntent, FreshState, Closed, Row
      <3> HIDE DEF r
      <3> QED BY <1>1, <2>1, <3>1, <3>2, ClaimIsKept
    <2>3. CASE SavePost(w)
      <3> DEFINE id == job[w].ptr
                 r == [row[a] EXCEPT !.wp = id]
      <3>1. SetRow(a, r)
        BY <1>0, <1>3, <2>3 DEF SavePost
      <3>2. r.tok = row[a].tok /\ r.lease = row[a].lease /\ r.pub = row[a].pub /\ r.st = row[a].st
        BY <1>0, <2>1 DEF Row
      <3> HIDE DEF r
      <3> QED BY <1>1, <2>1, <3>1, <3>2, ClaimIsKept DEF Closed
    <2>4. CASE Complete(w)
      <3> DEFINE r == [row[a] EXCEPT !.pub = TRUE]
      <3>1. SetRow(a, r)
        BY <1>0, <1>3, <2>4 DEF Complete
      <3>2. r.tok = row[a].tok /\ r.lease = row[a].lease
        BY <1>0, <2>1 DEF Row
      <3>3. Closed(r)
        BY <1>0, <2>1 DEF Row, Closed
      <3> HIDE DEF r
      <3> QED BY <1>1, <2>1, <3>1, <3>2, <3>3, ClaimIsKept
    <2>5. CASE RequireManual(w) \/ RejectDuplicate(w)
      <3>1. PICK status \in {"manual_review", "duplicate"} :
               SetRow(a, Released(row[a], status)) /\ row[a].tok = None
        BY <1>0, <1>3, <2>5 DEF RequireManual, RejectDuplicate, MayReject, SetRow, tableVars
      <3> DEFINE r == Released(row[a], status)
      <3>2. r.tok = row[a].tok /\ r.tok = None /\ r.st = status
        BY <1>0, <2>1, <3>1 DEF Released, Row
      <3>3. SetRow(a, r)
        BY <3>1
      <3>4. Closed(r)
        BY <3>2 DEF Closed
      <3> HIDE DEF r
      <3> QED BY <1>1, <2>1, <3>2, <3>3, <3>4, ClaimIsKept
    <2> QED BY <1>0, <1>3, <2>2, <2>3, <2>4, <2>5
            DEF WorkerStep, WorkerFault, StartDurable, StartLegacy, HoldMutex, LoadItem,
                FinishRun, SaveIdentity, Reconcile, GuardCheck, PrepareImage, SendCreate,
                CreateSucceeds, WriteYoast, DeferGuard, FailClaim, StepFails, GuardUnavailable,
                CreateRefused, CreateUnanswered, Interrupt, Crash, LosePublisherLock,
                LoseMutex, tableVars
  <1> QED BY <1>2, <1>3

\* Time: only the lapse of a lease is seen in the queue.
LEMMA EnvironmentQueue ==
    ASSUME TypeOK, NEW a \in Articles, Environment(a) PROVE QueueStep
  <1>1. UNCHANGED queueBusy
    BY DEF Environment, LandLate, NeverLands, Expire, Reschedule, runVars, queueBusy, OnItem
  <1>2. CASE row' = row
    BY <1>1, <1>2, RowsUntouched DEF QueueStep, Lease!vars
  <1>3. CASE Expire(a)
    <2> DEFINE r == [row[a] EXCEPT !.lease = "expired"]
    <2>0. row \in [Articles -> Row] /\ row[a] \in Row
      BY DEF TypeOK
    <2>1. SetRow(a, r) /\ InClaim(row[a]) /\ row[a].lease = "live"
      BY <1>3 DEF Expire
    <2>2. /\ r.tok = row[a].tok /\ r.lease = "expired"
          /\ r.pub = row[a].pub /\ r.st = row[a].st
      BY <2>0 DEF Row
    <2> HIDE DEF r
    <2>3. CASE r.tok = None
      BY <1>1, <2>1, <2>2, <2>3, ClaimIsKept DEF Closed
    <2>4. CASE r.tok # None
      <3>1. /\ queueState' = [queueState EXCEPT ![a] = "held"]
            /\ queueHolder' = [queueHolder EXCEPT ![a] = r.tok]
            /\ queueLive' = [queueLive EXCEPT ![a] = FALSE]
        BY <2>0, <2>1, <2>2, <2>4, QueueWrite DEF QueueState
      <3>2. queueState[a] = "held" /\ queueLive[a] /\ queueHolder[a] = r.tok
        BY <2>1, <2>2, <2>4 DEF queueState, queueLive, queueHolder, QueueState
      <3>3. Lease!Lapse(a)
        BY <1>1, <3>1, <3>2 DEF Lease!Lapse, Lease!Become
      <3> QED BY <3>3 DEF QueueStep, Lease!Next
    <2> QED BY <2>3, <2>4
  <1> QED BY <1>2, <1>3 DEF Environment, LandLate, NeverLands, Reschedule, tableVars

LEMMA QueueInit == Init => Lease!Init
  <1> SUFFICES ASSUME Init PROVE Lease!Init
    OBVIOUS
  <1>1. \A a \in Articles : /\ row[a].tok = None /\ row[a].pub = FALSE
                            /\ row[a].st \in {"pending", "fresh"}
    BY DEF Init
  <1>2. /\ queueState = [a \in Articles |-> "open"]
        /\ queueHolder = [a \in Articles |-> None]
        /\ queueLive = [a \in Articles |-> FALSE]
    BY <1>1 DEF queueState, queueHolder, queueLive, QueueState, Closed
  <1>3. queueBusy = [w \in Durable |-> None]
    BY DEF Init, queueBusy, OnItem, Workers
  <1> QED BY <1>2, <1>3 DEF Lease!Init

\* The claims on rich articles are leases, whatever crashes, faults and legacy
\* runs come between: every step is a step of the abstract queue or none.
THEOREM ClaimsKeepLeases == Spec => KeepsLeases
  <1>1. TypeOK /\ CreationInv /\ [Next]_vars => [Lease!Next]_(Lease!vars)
    <2> SUFFICES ASSUME TypeOK, CreationInv, [Next]_vars PROVE QueueStep
      BY DEF QueueStep
    <2>1. CASE UNCHANGED vars
      <3>1. UNCHANGED queueBusy
        BY <2>1 DEF vars, queueBusy, OnItem
      <3> QED BY <2>1, <3>1, RowsUntouched DEF vars, QueueStep, Lease!vars
    <2> QED BY <2>1, DurableQueue, LegacyQueue, EnvironmentQueue DEF Next, Workers
  <1> QED BY <1>1, QueueInit, TypeCorrect, CreationInvariant, PTL
          DEF Spec, KeepsLeases, Lease!Spec
=============================================================================

-------------------------- MODULE EnrichmentProofs --------------------------
(***************************************************************************)
(* Proofs about Enrichment, for every set of articles and workers, every   *)
(* policy relation, every batch size and any number of faults.             *)
(***************************************************************************)
EXTENDS Enrichment, FiniteSetTheorems, TLAPS

-----------------------------------------------------------------------------
(* Types *)

\* Every row update of the raw repository yields a row.
LEMMA RawUpdates ==
    ASSUME NEW r \in Raw
    PROVE  /\ \A w \in Workers : Claimed(r, w) \in Raw
           /\ Released(r, "retryable") \in Raw
           /\ [Released(r, "completed") EXCEPT !.processed = TRUE] \in Raw
           /\ Retired(r) \in Raw
           /\ Consumed(r) \in Raw
           /\ [r EXCEPT !.processed = TRUE] \in Raw
           /\ [r EXCEPT !.chosen = TRUE] \in Raw
           /\ [r EXCEPT !.lease = "expired"] \in Raw
  <1>1. \A w \in Workers : Claimed(r, w) \in Raw
    BY DEF Raw, Claimed
  <1>2. \A s \in {"retryable", "completed", "duplicate"} : Released(r, s) \in Raw
    BY DEF Raw, Released
  <1>3. [Released(r, "completed") EXCEPT !.processed = TRUE] \in Raw
    BY <1>2 DEF Raw
  <1>4. Retired(r) \in Raw
    BY <1>2 DEF Raw, Retired
  <1>5. Consumed(r) \in Raw
    BY DEF Raw, Consumed
  <1> QED BY <1>1, <1>2, <1>3, <1>4, <1>5 DEF Raw

\* The batch limit of a run is a natural number.
LEMMA LimitIsNat == Limit \in Nat
  <1>1. IsFiniteSet({a \in Articles : Pending(a)})
    BY EnrichmentAssumption, FS_Subset, {a \in Articles : Pending(a)} \subseteq Articles
  <1>2. Cardinality({a \in Articles : Pending(a)}) \in Nat
    BY <1>1, FS_CardinalityType
  <1> QED BY <1>2, EnrichmentAssumption DEF Limit

\* The types of what a worker keeps for itself.
LocalTypes ==
    /\ pc \in [Workers -> Steps]
    /\ item \in [Workers -> Articles \union {None}]
    /\ batch \in [Workers -> SUBSET Articles]
    /\ left \in [Workers -> Nat]
    /\ \A w \in Workers : pc[w] \notin {"idle", "loop"} => item[w] \in Articles

OnItem(w) == pc[w] \notin {"idle", "loop"}

\* The control helpers keep those types.
LEMMA ControlTypes ==
    ASSUME TypeOK, NEW w \in Workers
    PROVE  /\ \A step \in Steps : OnItem(w) /\ Advance(w, step) => LocalTypes'
           /\ NextItem(w) => LocalTypes'
           /\ OnItem(w) /\ GiveUp(w) => LocalTypes'
           /\ EndRun(w) => LocalTypes'
  <1> USE DEF TypeOK, LocalTypes, OnItem, runVars, Goto
  <1>1. \A step \in Steps : OnItem(w) /\ Advance(w, step) => LocalTypes'
    BY DEF Advance
  <1>2. NextItem(w) => LocalTypes'
    BY DEF NextItem, Steps
  <1>3. OnItem(w) /\ GiveUp(w) => LocalTypes'
    BY <1>1, <1>2 DEF GiveUp, Steps
  <1>4. EndRun(w) => LocalTypes'
    BY DEF EndRun, Steps
  <1> QED BY <1>1, <1>2, <1>3, <1>4

\* Every variable has its type in every reachable state.
THEOREM TypeCorrect == Spec => []TypeOK
  <1>1. Init => TypeOK
    BY EnrichmentAssumption DEF Init, TypeOK, Raw, RichStates, Steps
  <1>2. TypeOK /\ [Next]_vars => TypeOK'
    <2> SUFFICES ASSUME TypeOK, [Next]_vars PROVE TypeOK'
      OBVIOUS
    <2> USE DEF OnItem, SetRaw
    <2>0. LocalTypes /\ (\A a \in Articles : raw[a] \in Raw)
      BY DEF TypeOK, LocalTypes
    <2>a. ASSUME raw' \in [Articles -> Raw], rich' \in [Articles -> RichStates],
                 LocalTypes', faults' \in Nat
          PROVE  TypeOK'
      BY <2>a DEF TypeOK, LocalTypes
    <2>b. /\ raw \in [Articles -> Raw] /\ rich \in [Articles -> RichStates]
          /\ faults \in Nat
      BY DEF TypeOK
    <2>c. UseFault => faults' \in Nat
      BY <2>b DEF UseFault
    <2>1. ASSUME NEW w \in Workers, WorkerStep(w) PROVE TypeOK'
      <3>1. CASE StartDurable(w)
        BY <3>1, <2>a, <2>b, LimitIsNat DEF StartDurable, Goto, TypeOK, LocalTypes, Steps
      <3>2. CASE StartLegacy(w)
        BY <3>2, <2>a, <2>b DEF StartLegacy, Goto, TypeOK, LocalTypes, Steps
      <3>3. ASSUME NEW a \in Articles, ClaimNext(w, a) PROVE TypeOK'
        <4>1. raw' \in [Articles -> Raw]
          BY <3>3, <2>0, <2>b, RawUpdates DEF ClaimNext
        <4>2. LocalTypes'
          BY <3>3, <2>0 DEF ClaimNext, Goto, LocalTypes, Steps
        <4> QED BY <3>3, <4>1, <4>2, <2>a, <2>b DEF ClaimNext
      <3>4. ASSUME NEW a \in Articles, TakeNext(w, a) PROVE TypeOK'
        BY <3>4, <2>a, <2>b DEF TakeNext, Goto, TypeOK, LocalTypes, Steps
      <3>5. CASE FinishRun(w)
        BY <3>5, <2>a, <2>b, ControlTypes DEF FinishRun
      <3>6. CASE Assess(w)
        <4>1. {"reject", "enrich"} \subseteq Steps
          BY DEF Steps
        <4>2. LocalTypes'
          BY <3>6, <4>1, ControlTypes DEF Assess
        <4> QED BY <3>6, <4>2, <2>a, <2>b, <2>c DEF Assess
      <3>7. CASE Reject(w)
        <4>1. item[w] \in Articles /\ raw[item[w]] \in Raw
          BY <3>7 DEF Reject, TypeOK
        <4>2. LocalTypes'
          BY <3>7, ControlTypes DEF Reject
        <4> QED BY <3>7, <4>1, <4>2, <2>a, <2>b, RawUpdates DEF Reject
      <3>8. CASE Enrich(w)
        <4>1. LocalTypes'
          BY <3>8, ControlTypes DEF Enrich, Steps
        <4> QED BY <3>8, <4>1, <2>a, <2>b DEF Enrich
      <3>9. CASE Store(w)
        <4>1. LocalTypes'
          BY <3>9, ControlTypes DEF Store, Steps
        <4>2. \A s \in RichStates : Stored(s) \in RichStates
          BY DEF Stored, RichStates
        <4> QED BY <3>9, <4>1, <4>2, <2>a, <2>b DEF Store
      <3>10. CASE Finish(w)
        <4>1. item[w] \in Articles /\ raw[item[w]] \in Raw
          BY <3>10 DEF Finish, TypeOK
        <4>2. LocalTypes'
          BY <3>10, ControlTypes DEF Finish
        <4> QED BY <3>10, <4>1, <4>2, <2>a, <2>b, RawUpdates DEF Finish
      <3>11. CASE FailClaim(w)
        <4>1. item[w] \in Articles /\ raw[item[w]] \in Raw
          BY <3>11 DEF FailClaim, TypeOK
        <4>2. LocalTypes'
          BY <3>11, ControlTypes DEF FailClaim
        <4> QED BY <3>11, <4>1, <4>2, <2>a, <2>b, RawUpdates DEF FailClaim
      <3> QED BY <2>1, <3>1, <3>2, <3>3, <3>4, <3>5, <3>6, <3>7, <3>8, <3>9, <3>10,
                 <3>11 DEF WorkerStep
    <2>2. ASSUME NEW w \in Workers, WorkerFault(w) PROVE TypeOK'
      <3>1. CASE StepFails(w)
        <4>1. LocalTypes'
          BY <3>1, ControlTypes DEF StepFails
        <4> QED BY <3>1, <4>1, <2>a, <2>b, <2>c DEF StepFails
      <3>2. CASE Interrupt(w)
        <4>1. item[w] \in Articles /\ raw[item[w]] \in Raw
          BY <3>2 DEF Interrupt, TypeOK
        <4> QED BY <3>2, <4>1, <2>a, <2>b, <2>c, ControlTypes, RawUpdates DEF Interrupt
      <3>3. CASE Crash(w)
        BY <3>3, <2>a, <2>b, <2>c, ControlTypes DEF Crash
      <3> QED BY <2>2, <3>1, <3>2, <3>3 DEF WorkerFault
    <2>3. ASSUME NEW a \in Articles, Neighbour(a) PROVE TypeOK'
      <3>1. LocalTypes' /\ faults' \in Nat
        BY <2>3, <2>0, <2>b
        DEF LocalTypes, Neighbour, Expire, Choose, TakeUp, Post, Defer, HandOver, RejectStored, runVars
      <3>2. raw' \in [Articles -> Raw]
        <4>1. ASSUME NEW r \in Raw, SetRaw(a, r) PROVE raw' \in [Articles -> Raw]
          BY <4>1, <2>b
        <4>2. raw[a] \in Raw
          BY <2>b
        <4>3. CASE Expire(a)
          BY <4>1, <4>2, <4>3, RawUpdates DEF Expire
        <4>4. CASE Choose(a)
          BY <4>1, <4>2, <4>4, RawUpdates DEF Choose
        <4>5. CASE RejectStored(a)
          BY <4>1, <4>2, <4>5, RawUpdates DEF RejectStored
        <4> QED BY <2>3, <2>b, <4>3, <4>4, <4>5 DEF Neighbour, TakeUp, Post, Defer, HandOver
      <3>3. rich' \in [Articles -> RichStates]
        BY <2>3, <2>b
        DEF Neighbour, Expire, Choose, TakeUp, Post, Defer, HandOver, RejectStored, RichStates
      <3> QED BY <3>1, <3>2, <3>3, <2>a
    <2>4. CASE UNCHANGED vars
      BY <2>4 DEF TypeOK, vars, runVars
    <2> QED BY <2>1, <2>2, <2>3, <2>4 DEF Next
  <1> QED BY <1>1, <1>2, PTL DEF Spec

-----------------------------------------------------------------------------
(* The inductive invariant *)

\* What WorkInv says of one raw row and of what has become of its article.
RowSound(r, s) ==
    /\ r.processed => r.st = "duplicate" \/ s # "absent"
    /\ r.st = "duplicate" => r.processed
    /\ IF r.st = "claimed" THEN r.tok \in Durable /\ r.lease # "none"
       ELSE r.tok = None /\ r.lease = "none"

\* What it says of the workers.
WorkersSound == StoredBeforeFinish /\ BetweenItems

LEMMA WorkInvSplits ==
    WorkInv <=> (\A a \in Articles : RowSound(raw[a], rich[a])) /\ WorkersSound
  BY DEF WorkInv, RowSound, WorkersSound, ProcessedIsStored, DuplicateIsProcessed,
     ClaimIsWhole

\* Every row update keeps a row sound under the guard it is made with.
LEMMA SoundUpdates ==
    ASSUME NEW r \in Raw, NEW s, RowSound(r, s)
    PROVE  /\ \A w \in Durable : Claimable(r) => RowSound(Claimed(r, w), s)
           /\ r.st = "claimed" => RowSound(Released(r, "retryable"), s)
           /\ s # "absent" =>
                RowSound([Released(r, "completed") EXCEPT !.processed = TRUE], s)
           /\ RowSound(Retired(r), s)
           /\ s # "absent" => RowSound(Consumed(r), s)
           /\ s # "absent" => RowSound([r EXCEPT !.processed = TRUE], s)
           /\ RowSound([r EXCEPT !.chosen = TRUE], s)
           /\ r.st = "claimed" => RowSound([r EXCEPT !.lease = "expired"], s)
           /\ \A t : t # "absent" => RowSound(r, t)
  <1> USE DEF RowSound, Raw
  <1>1. \A w \in Durable : Claimable(r) => RowSound(Claimed(r, w), s)
    BY DEF Claimable, Claimed
  <1>2. r.st = "claimed" => RowSound(Released(r, "retryable"), s)
    BY DEF Released
  <1>3. s # "absent" =>
          RowSound([Released(r, "completed") EXCEPT !.processed = TRUE], s)
    BY DEF Released
  <1>4. RowSound(Retired(r), s)
    BY DEF Retired, Released
  <1>5. s # "absent" => RowSound(Consumed(r), s)
    BY DEF Consumed
  <1>6. s # "absent" => RowSound([r EXCEPT !.processed = TRUE], s)
    OBVIOUS
  <1>7. RowSound([r EXCEPT !.chosen = TRUE], s)
    OBVIOUS
  <1>8. r.st = "claimed" => RowSound([r EXCEPT !.lease = "expired"], s)
    OBVIOUS
  <1>9. \A t : t # "absent" => RowSound(r, t)
    OBVIOUS
  <1> QED BY <1>1, <1>2, <1>3, <1>4, <1>5, <1>6, <1>7, <1>8, <1>9

\* An article, once stored, stays stored.
StoredStays == \A a \in Articles : rich[a] # "absent" => rich'[a] # "absent"

\* The control helpers keep the workers sound.
LEMMA ControlSound ==
    ASSUME TypeOK, WorkersSound, StoredStays, NEW w \in Workers
    PROVE  /\ \A step \in Steps \ {"idle", "loop", "finish"} :
                 OnItem(w) /\ Advance(w, step) => WorkersSound'
           /\ OnItem(w) /\ Advance(w, "finish") /\ rich'[item[w]] # "absent"
                 => WorkersSound'
           /\ NextItem(w) => WorkersSound'
           /\ OnItem(w) /\ GiveUp(w) => WorkersSound'
           /\ EndRun(w) => WorkersSound'
  <1> USE DEF TypeOK, WorkersSound, StoredStays, StoredBeforeFinish, BetweenItems,
              OnItem, Goto, runVars
  <1>1. \A step \in Steps \ {"idle", "loop", "finish"} :
           OnItem(w) /\ Advance(w, step) => WorkersSound'
    BY DEF Advance
  <1>2. OnItem(w) /\ Advance(w, "finish") /\ rich'[item[w]] # "absent"
           => WorkersSound'
    BY DEF Advance
  <1>3. NextItem(w) => WorkersSound'
    BY DEF NextItem
  <1>4. OnItem(w) /\ GiveUp(w) => WorkersSound'
    BY <1>1, <1>3 DEF GiveUp, Steps
  <1>5. EndRun(w) => WorkersSound'
    BY DEF EndRun
  <1> QED BY <1>1, <1>2, <1>3, <1>4, <1>5

LEMMA WorkInvInit == Init => WorkInv
  BY DEF Init, WorkInv, ProcessedIsStored, StoredBeforeFinish, DuplicateIsProcessed,
     ClaimIsWhole, BetweenItems

LEMMA WorkInvStep == TypeOK /\ WorkInv /\ [Next]_vars => WorkInv'
  <1> SUFFICES ASSUME TypeOK, WorkInv, [Next]_vars PROVE WorkInv'
    OBVIOUS
  <1>a. /\ \A a \in Articles : RowSound(raw[a], rich[a]) /\ raw[a] \in Raw
        /\ WorkersSound
        /\ raw \in [Articles -> Raw] /\ rich \in [Articles -> RichStates]
    BY WorkInvSplits DEF TypeOK
  <1>b. ASSUME \A a \in Articles : RowSound(raw'[a], rich'[a]), WorkersSound'
        PROVE  WorkInv'
    BY <1>b DEF WorkInv, RowSound, WorkersSound, ProcessedIsStored,
       DuplicateIsProcessed, ClaimIsWhole
  <1>c. UNCHANGED <<raw, rich>> /\ WorkersSound' => WorkInv'
    BY <1>a, <1>b
  <1>d. ASSUME NEW a \in Articles, NEW r, RowSound(r, rich[a]), SetRaw(a, r),
               UNCHANGED rich, WorkersSound'
        PROVE  WorkInv'
    <2>1. \A b \in Articles : RowSound(raw'[b], rich'[b])
      BY <1>a, <1>d DEF SetRaw
    <2> QED BY <2>1, <1>b, <1>d
  <1>e. UNCHANGED rich => StoredStays
    BY DEF StoredStays
  <1>1. ASSUME NEW w \in Workers, WorkerStep(w) PROVE WorkInv'
    <2> USE DEF OnItem
    <2>1. CASE StartDurable(w) \/ StartLegacy(w)
      <3>1. WorkersSound'
        BY <2>1, <1>a
        DEF StartDurable, StartLegacy, WorkersSound, StoredBeforeFinish, BetweenItems,
            Goto, TypeOK
      <3> QED BY <2>1, <3>1, <1>c DEF StartDurable, StartLegacy
    <2>2. ASSUME w \in Durable, NEW a \in Articles, ClaimNext(w, a) PROVE WorkInv'
      <3>1. RowSound(Claimed(raw[a], w), rich[a])
        BY <2>2, <1>a, SoundUpdates DEF ClaimNext
      <3>2. WorkersSound'
        BY <2>2, <1>a
        DEF ClaimNext, WorkersSound, StoredBeforeFinish, BetweenItems, Goto, TypeOK
      <3> QED BY <2>2, <3>1, <3>2, <1>d DEF ClaimNext
    <2>3. ASSUME NEW a \in Articles, TakeNext(w, a) PROVE WorkInv'
      <3>1. WorkersSound'
        BY <2>3, <1>a
        DEF TakeNext, WorkersSound, StoredBeforeFinish, BetweenItems, Goto, TypeOK
      <3> QED BY <2>3, <3>1, <1>c DEF TakeNext
    <2>4. CASE FinishRun(w)
      BY <2>4, <1>a, <1>c, <1>e, ControlSound DEF FinishRun
    <2>5. CASE Assess(w)
      <3>1. {"reject", "enrich"} \subseteq Steps \ {"idle", "loop", "finish"}
        BY DEF Steps
      <3> QED BY <2>5, <3>1, <1>a, <1>c, <1>e, ControlSound DEF Assess
    <2>6. CASE Reject(w)
      <3>1. item[w] \in Articles /\ StoredStays
        BY <2>6, <1>e DEF Reject, TypeOK
      <3>2. RowSound(Retired(raw[item[w]]), rich[item[w]])
        BY <3>1, <1>a, SoundUpdates
      <3>3. WorkersSound'
        BY <2>6, <3>1, <1>a, ControlSound DEF Reject
      <3> QED BY <2>6, <3>1, <3>2, <3>3, <1>c, <1>d DEF Reject
    <2>7. CASE Enrich(w)
      <3>1. "store" \in Steps \ {"idle", "loop", "finish"}
        BY DEF Steps
      <3> QED BY <2>7, <3>1, <1>a, <1>c, <1>e, ControlSound DEF Enrich
    <2>8. CASE Store(w)
      <3> DEFINE a == item[w]
      <3>1. a \in Articles
        BY <2>8 DEF Store, TypeOK
      <3>2. \A b \in Articles :
               IF b = a THEN rich'[b] # "absent" ELSE rich'[b] = rich[b]
        BY <2>8, <1>a DEF Store, Stored
      <3>3. WorkersSound'
        <4>1. StoredStays
          BY <3>2 DEF StoredStays
        <4> QED BY <2>8, <3>1, <3>2, <4>1, <1>a, ControlSound DEF Store
      <3>4. \A b \in Articles : RowSound(raw'[b], rich'[b])
        BY <2>8, <3>2, <1>a, SoundUpdates DEF Store
      <3> QED BY <3>3, <3>4, <1>b
    <2>9. CASE Finish(w)
      <3>1. item[w] \in Articles /\ rich[item[w]] # "absent" /\ StoredStays
        BY <2>9, <1>a, <1>e DEF Finish, TypeOK, WorkersSound, StoredBeforeFinish
      <3>2. /\ RowSound([Released(raw[item[w]], "completed") EXCEPT !.processed = TRUE],
                        rich[item[w]])
            /\ RowSound([raw[item[w]] EXCEPT !.processed = TRUE], rich[item[w]])
        BY <3>1, <1>a, SoundUpdates
      <3>3. WorkersSound'
        BY <2>9, <3>1, <1>a, ControlSound DEF Finish
      <3> QED BY <2>9, <3>1, <3>2, <3>3, <1>c, <1>d DEF Finish
    <2>10. CASE FailClaim(w)
      <3>1. item[w] \in Articles /\ StoredStays
        BY <2>10, <1>e DEF FailClaim, TypeOK
      <3>2. WorkersSound'
        BY <2>10, <3>1, <1>a, ControlSound DEF FailClaim
      <3>3. CASE Owned(item[w], w)
        <4>1. RowSound(Released(raw[item[w]], "retryable"), rich[item[w]])
          BY <3>1, <3>3, <1>a, SoundUpdates DEF Owned
        <4> QED BY <2>10, <3>1, <3>2, <3>3, <4>1, <1>a, <1>d DEF FailClaim, SetRaw
      <3> QED BY <2>10, <3>2, <3>3, <1>c DEF FailClaim
    <2>11. (w \in Durable /\ \E a \in Articles : ClaimNext(w, a)) => WorkInv'
      BY <2>2
    <2>12. (\E a \in Articles : TakeNext(w, a)) => WorkInv'
      BY <2>3
    <2> QED BY <1>1, <2>1, <2>4, <2>5, <2>6, <2>7, <2>8, <2>9, <2>10, <2>11, <2>12
            DEF WorkerStep
  <1>2. ASSUME NEW w \in Workers, WorkerFault(w) PROVE WorkInv'
    <2> USE DEF OnItem
    <2>1. CASE StepFails(w)
      BY <2>1, <1>a, <1>c, <1>e, ControlSound DEF StepFails
    <2>2. CASE Interrupt(w)
      <3>1. item[w] \in Articles /\ StoredStays
        BY <2>2, <1>e DEF Interrupt, TypeOK
      <3>2. WorkersSound'
        BY <2>2, <3>1, <1>a, ControlSound DEF Interrupt
      <3>3. CASE Owned(item[w], w)
        <4>1. RowSound(Released(raw[item[w]], "retryable"), rich[item[w]])
          BY <3>1, <3>3, <1>a, SoundUpdates DEF Owned
        <4> QED BY <2>2, <3>1, <3>2, <3>3, <4>1, <1>a, <1>d DEF Interrupt, SetRaw
      <3> QED BY <2>2, <3>2, <3>3, <1>c DEF Interrupt
    <2>3. CASE Crash(w)
      BY <2>3, <1>a, <1>c, <1>e, ControlSound DEF Crash
    <2> QED BY <1>2, <2>1, <2>2, <2>3 DEF WorkerFault
  <1>3. ASSUME NEW a \in Articles, Neighbour(a) PROVE WorkInv'
    <2>1. StoredStays
      BY <1>3, <1>a
      DEF StoredStays, Neighbour, Expire, Choose, TakeUp, Post, Defer, HandOver, RejectStored
    <2>2. WorkersSound'
      BY <1>3, <2>1, <1>a
      DEF Neighbour, Expire, Choose, TakeUp, Post, Defer, HandOver, RejectStored, StoredStays, TypeOK,
          WorkersSound, StoredBeforeFinish, BetweenItems, runVars
    <2>3. CASE Expire(a)
      BY <2>2, <2>3, <1>a, <1>d, SoundUpdates DEF Expire
    <2>4. CASE Choose(a)
      BY <2>2, <2>4, <1>a, <1>d, SoundUpdates DEF Choose
    <2>5. CASE TakeUp(a) \/ Post(a) \/ Defer(a) \/ HandOver(a)
      <3>1. \A b \in Articles : RowSound(raw'[b], rich'[b])
        BY <2>5, <1>a, SoundUpdates DEF TakeUp, Post, Defer, HandOver
      <3> QED BY <3>1, <2>2, <1>b
    <2>6. CASE RejectStored(a)
      <3>1. \A b \in Articles : RowSound(raw'[b], rich'[b])
        <4>1. RowSound(Consumed(raw[a]), "duplicate")
          <5>1. RowSound(Consumed(raw[a]), rich[a]) /\ Consumed(raw[a]) \in Raw
            BY <2>6, <1>a, SoundUpdates, RawUpdates DEF RejectStored
          <5> QED BY <5>1 DEF RowSound
        <4> QED BY <2>6, <4>1, <1>a DEF RejectStored, SetRaw
      <3> QED BY <3>1, <2>2, <1>b
    <2> QED BY <1>3, <2>3, <2>4, <2>5, <2>6 DEF Neighbour
  <1>4. CASE UNCHANGED vars
    <2>1. WorkersSound'
      BY <1>4, <1>a DEF vars, runVars, WorkersSound, StoredBeforeFinish, BetweenItems
    <2> QED BY <1>4, <2>1, <1>c DEF vars
  <1> QED BY <1>1, <1>2, <1>3, <1>4 DEF Next

\* The inductive invariant holds in every reachable state.
THEOREM WorkInvariant == Spec => []WorkInv
  BY WorkInvInit, WorkInvStep, TypeCorrect, PTL DEF Spec

\* A raw row leaves the work list only with its article stored or as a
\* duplicate, whatever crashes, stale owners and mixtures of the modes happen.
THEOREM ProcessedRowsAreStored == Spec => []ProcessedIsStored
  BY WorkInvariant, PTL DEF WorkInv

-----------------------------------------------------------------------------
(* Steps *)

\* A row rejected as a duplicate is never processed again, by nobody.
THEOREM DuplicatesAreTerminal == Spec => DuplicateIsTerminal
  <1> DEFINE Final(a) == raw[a].st = "duplicate" =>
                           raw'[a].st = "duplicate" /\ raw'[a].processed
  <1>1. TypeOK /\ WorkInv /\ [Next]_vars => \A a \in Articles : Final(a)
    <2> SUFFICES ASSUME TypeOK, WorkInv, [Next]_vars, NEW a \in Articles,
                        raw[a].st = "duplicate"
                 PROVE  raw'[a].st = "duplicate" /\ raw'[a].processed
      OBVIOUS
    <2>0. raw[a].processed /\ raw \in [Articles -> Raw]
      BY DEF WorkInv, DuplicateIsProcessed, TypeOK
    <2> USE DEF SetRaw, Raw
    <2>1. ASSUME NEW w \in Workers, WorkerStep(w)
          PROVE  raw'[a].st = "duplicate" /\ raw'[a].processed
      <3>1. CASE UNCHANGED raw
        BY <3>1, <2>0
      <3>2. ASSUME NEW b \in Articles, ClaimNext(w, b) PROVE raw'[a] = raw[a]
        BY <3>2, <2>0 DEF ClaimNext, Claimable
      <3>3. CASE Reject(w)
        BY <3>3, <2>0 DEF Reject, MayRetire
      <3>4. CASE Finish(w)
        BY <3>4, <2>0 DEF Finish, Owned, Released
      <3>5. CASE FailClaim(w)
        BY <3>5, <2>0 DEF FailClaim, Owned
      <3>6. (\E b \in Articles : ClaimNext(w, b)) => raw'[a] = raw[a]
        BY <3>2
      <3>7. \/ UNCHANGED raw \/ Reject(w) \/ Finish(w) \/ FailClaim(w)
            \/ \E b \in Articles : ClaimNext(w, b)
        BY <2>1 DEF WorkerStep, StartDurable, StartLegacy, TakeNext, FinishRun, Assess,
           Enrich, Store
      <3> QED BY <2>0, <3>1, <3>3, <3>4, <3>5, <3>6, <3>7
    <2>2. ASSUME NEW w \in Workers, WorkerFault(w) PROVE raw'[a] = raw[a]
      BY <2>2, <2>0 DEF WorkerFault, StepFails, Interrupt, Crash, Owned
    <2>3. ASSUME NEW b \in Articles, Neighbour(b)
          PROVE  raw'[a].st = "duplicate" /\ raw'[a].processed
      <3>1. CASE Expire(b) \/ Choose(b) \/ TakeUp(b) \/ Post(b) \/ Defer(b) \/ HandOver(b)
        BY <3>1, <2>0 DEF Expire, Choose, TakeUp, Post, Defer, HandOver
      <3>2. CASE RejectStored(b)
        BY <3>2, <2>0 DEF RejectStored, Consumed
      <3> QED BY <2>3, <3>1, <3>2 DEF Neighbour
    <2> QED BY <2>0, <2>1, <2>2, <2>3 DEF Next, vars
  <1>2. TypeOK /\ WorkInv /\ [Next]_vars => [\A a \in Articles : Final(a)]_vars
    BY <1>1
  <1> QED BY <1>2, TypeCorrect, WorkInvariant, PTL DEF Spec, DuplicateIsTerminal

\* Enriching a row again never makes an article fresh that the publisher has
\* already taken up.
THEOREM ProvenanceKept == Spec => ProvenanceIsKept
  <1> DEFINE Kept == \A a \in Articles : rich'[a] = "fresh" => rich[a] \in {"absent", "fresh"}
  <1>1. TypeOK /\ [Next]_vars => (pc' # pc => Kept)
    <2> SUFFICES ASSUME TypeOK, [Next]_vars, pc' # pc PROVE Kept
      OBVIOUS
    <2>0. rich \in [Articles -> RichStates]
      BY DEF TypeOK
    <2>1. CASE UNCHANGED rich
      BY <2>1
    <2>2. ASSUME NEW w \in Workers, Store(w) PROVE Kept
      BY <2>2, <2>0 DEF Store, Stored
    <2>3. ASSUME NEW b \in Articles, Neighbour(b) PROVE FALSE
      BY <2>3 DEF Neighbour, Expire, Choose, TakeUp, Post, Defer, HandOver, RejectStored
    <2>4. ASSUME NEW w \in Workers, WorkerStep(w) PROVE UNCHANGED rich \/ Store(w)
      BY <2>4
      DEF WorkerStep, StartDurable, StartLegacy, ClaimNext, TakeNext, FinishRun, Assess,
          Reject, Enrich, Finish, FailClaim
    <2>5. ASSUME NEW w \in Workers, WorkerFault(w) PROVE UNCHANGED rich
      BY <2>5 DEF WorkerFault, StepFails, Interrupt, Crash
    <2> QED BY <2>1, <2>2, <2>3, <2>4, <2>5 DEF Next, vars
  <1>2. TypeOK /\ [Next]_vars => [pc' # pc => Kept]_vars
    BY <1>1
  <1> QED BY <1>2, TypeCorrect, PTL DEF Spec, ProvenanceIsKept

-----------------------------------------------------------------------------
(* No story is lost *)

\* The article is given up for one that stands, or has a post of its own.
Justified(a) ==
    rich[a] = "posted" \/ \E c \in Articles : <<a, c>> \in Repeats /\ Standing(c)

StoryInv ==
    /\ NoStoryLost
    /\ \A w \in Workers : pc[w] = "reject" => Justified(item[w])

\* Repeating is inherited: what repeats a repetition repeats the original.
RepeatsChain ==
    \A a, b, c \in Articles :
        (<<a, b>> \in Repeats /\ <<b, c>> \in Repeats /\ a # c) => <<a, c>> \in Repeats

\* A write to a raw row that neither gives it up nor ends its standing.
Calm(r, q) ==
    /\ r.processed /\ r.st # "duplicate" => q.processed /\ q.st # "duplicate"
    /\ q.st = "duplicate" => r.st = "duplicate"

LEMMA CalmUpdates ==
    ASSUME NEW r \in Raw
    PROVE  /\ \A w \in Workers : Claimable(r) => Calm(r, Claimed(r, w))
           /\ r.st = "claimed" => Calm(r, Released(r, "retryable"))
           /\ Calm(r, [Released(r, "completed") EXCEPT !.processed = TRUE])
           /\ Calm(r, Consumed(r))
           /\ Calm(r, [r EXCEPT !.processed = TRUE])
           /\ Calm(r, [r EXCEPT !.lease = "expired"])
           /\ Calm(r, [r EXCEPT !.chosen = TRUE])
  BY DEF Calm, Raw, Claimable, Claimed, Released, Consumed

\* A stage of publication that neither ends standing nor gives up.
CalmStage(s, t) ==
    /\ s = "posted" => t = "posted"
    /\ s \in {"fresh", "taken", "review"} => t \in {"fresh", "taken", "review", "posted"}
    /\ t = "duplicate" => s = "duplicate"

CalmStep ==
    /\ \A a \in Articles : Calm(raw[a], raw'[a])
    /\ \A a \in Articles : CalmStage(rich[a], rich'[a])

\* Nobody comes to reject an article without having been about to.
NoNewReject ==
    \A w \in Workers : pc'[w] = "reject" => pc[w] = "reject" /\ item'[w] = item[w]

LEMMA CalmKeeps ==
    ASSUME StoryInv, CalmStep, NoNewReject,
           \A w \in Workers : pc[w] \notin {"idle", "loop"} => item[w] \in Articles
    PROVE  StoryInv'
  <1>1. \A c \in Articles : Standing(c) => Standing(c)'
    BY DEF CalmStep, Calm, CalmStage, Standing
  <1>2. \A a \in Articles : GivenUp(a)' => GivenUp(a)
    BY DEF CalmStep, Calm, CalmStage, GivenUp
  <1>3. NoStoryLost'
    BY <1>1, <1>2 DEF StoryInv, NoStoryLost
  <1>4. ASSUME NEW w \in Workers, pc'[w] = "reject" PROVE Justified(item[w])'
    <2>1. pc[w] = "reject" /\ item'[w] = item[w] /\ item[w] \in Articles
      BY <1>4 DEF NoNewReject
    <2>2. CASE rich[item[w]] = "posted"
      BY <2>1, <2>2 DEF Justified, CalmStep, CalmStage
    <2>3. CASE \E c \in Articles : <<item[w], c>> \in Repeats /\ Standing(c)
      BY <2>1, <2>3, <1>1 DEF Justified
    <2> QED BY <2>1, <2>2, <2>3 DEF StoryInv, Justified
  <1> QED BY <1>3, <1>4 DEF StoryInv

\* The control helpers lead nobody to a rejection.
LEMMA ControlCalm ==
    ASSUME TypeOK, NEW w \in Workers
    PROVE  /\ \A step \in Steps \ {"reject"} : Advance(w, step) => NoNewReject
           /\ NextItem(w) => NoNewReject
           /\ GiveUp(w) => NoNewReject
           /\ EndRun(w) => NoNewReject
  BY DEF TypeOK, NoNewReject, Advance, NextItem, GiveUp, EndRun, Goto, runVars, Steps

\* A publisher rejects a stored article for a posted one, which then stands in for
\* it wherever the rejected one stood.
LEMMA RejectedKeeps ==
    ASSUME RepeatsChain, TypeOK, StoryInv, NEW b \in Articles, RejectStored(b)
    PROVE  StoryInv'
  <1>0. /\ raw \in [Articles -> Raw] /\ rich \in [Articles -> RichStates]
        /\ UNCHANGED <<pc, item>>
        /\ \A w \in Workers : pc[w] \notin {"idle", "loop"} => item[w] \in Articles
    BY DEF TypeOK, RejectStored, runVars
  <1>1. PICK x \in Articles : <<b, x>> \in Repeats /\ rich[x] = "posted"
    BY DEF RejectStored, PriorPosts, Repeated
  <1>2. x # b /\ rich'[x] = "posted"
    BY <1>0, <1>1 DEF RejectStored
  <1>3. \A c \in Articles \ {b} : Standing(c) => Standing(c)'
    BY <1>0 DEF RejectStored, SetRaw, Standing
  <1>4. Standing(x)'
    BY <1>2 DEF Standing
  <1>5. ASSUME NEW a \in Articles, Justified(a) PROVE Justified(a)'
    <2>1. CASE rich[a] = "posted"
      BY <2>1, <1>0 DEF RejectStored, Justified
    <2>2. ASSUME NEW c \in Articles, <<a, c>> \in Repeats, Standing(c) PROVE Justified(a)'
      <3>1. CASE c # b
        BY <2>2, <3>1, <1>3 DEF Justified
      <3>2. CASE c = b /\ a = x
        BY <3>2, <1>2 DEF Justified
      <3>3. CASE c = b /\ a # x
        BY <2>2, <3>3, <1>1, <1>4 DEF Justified, RepeatsChain
      <3> QED BY <3>1, <3>2, <3>3
    <2> QED BY <1>5, <2>1, <2>2 DEF Justified
  <1>6. ASSUME NEW a \in Articles, GivenUp(a)'
        PROVE  \E c \in Articles : <<a, c>> \in Repeats /\ Standing(c)'
    <2>1. CASE a = b
      BY <2>1, <1>1, <1>4
    <2>2. CASE a # b
      <3>1. GivenUp(a)
        BY <1>6, <2>2, <1>0 DEF RejectStored, SetRaw, GivenUp
      <3>2. Justified(a)
        BY <3>1 DEF StoryInv, NoStoryLost, Justified
      <3> QED BY <3>2, <1>5, <1>6 DEF Justified, GivenUp
    <2> QED BY <2>1, <2>2
  <1>7. ASSUME NEW w \in Workers, pc'[w] = "reject" PROVE Justified(item[w])'
    BY <1>7, <1>0, <1>5 DEF StoryInv, Justified
  <1> QED BY <1>6, <1>7 DEF StoryInv, NoStoryLost

LEMMA StoryInvStep ==
    ASSUME RepeatsChain, TypeOK, StoryInv, [Next]_vars
    PROVE  StoryInv'
  <1>0. /\ raw \in [Articles -> Raw] /\ rich \in [Articles -> RichStates]
        /\ pc \in [Workers -> Steps] /\ item \in [Workers -> Articles \union {None}]
        /\ \A w \in Workers : pc[w] \notin {"idle", "loop"} => item[w] \in Articles
    BY DEF TypeOK
  <1>a. CalmStep /\ NoNewReject => StoryInv'
    BY <1>0, CalmKeeps
  <1>b. UNCHANGED <<raw, rich>> => CalmStep
    BY DEF CalmStep, Calm, CalmStage
  <1>c. ASSUME NEW a \in Articles, NEW q, Calm(raw[a], q), SetRaw(a, q), UNCHANGED rich
        PROVE  CalmStep
    BY <1>c, <1>0 DEF CalmStep, Calm, CalmStage, SetRaw
  <1>1. ASSUME NEW w \in Workers, WorkerStep(w) PROVE StoryInv'
    <2>1. CASE StartDurable(w) \/ StartLegacy(w) \/ \E a \in Articles : TakeNext(w, a)
      BY <2>1, <1>0, <1>a, <1>b DEF StartDurable, StartLegacy, TakeNext, Goto, NoNewReject
    <2>2. ASSUME NEW a \in Articles, ClaimNext(w, a) PROVE StoryInv'
      <3>1. NoNewReject
        BY <2>2, <1>0 DEF ClaimNext, Goto, NoNewReject
      <3>2. CalmStep
        BY <2>2, <1>0, <1>c, CalmUpdates DEF ClaimNext
      <3> QED BY <3>1, <3>2, <1>a
    <2>3. CASE FinishRun(w)
      BY <2>3, <1>a, <1>b, ControlCalm DEF FinishRun
    <2>4. CASE Assess(w)
      <3>1. UNCHANGED <<raw, rich, item>> /\ item[w] \in Articles
        BY <2>4, <1>0 DEF Assess, Advance, runVars
      <3>2. CASE Advance(w, "enrich")
        BY <3>1, <3>2, <1>a, <1>b, ControlCalm DEF Steps
      <3>3. CASE Advance(w, "reject") /\ Anchors(item[w]) # {}
        <4>1. Justified(item[w])
          BY <3>1, <3>3 DEF Anchors, Repeated, Justified, Standing
        <4>2. \A v \in Workers : pc'[v] = "reject" => Justified(item[v])
          BY <3>3, <4>1, <1>0 DEF Advance, Goto, StoryInv
        <4> QED BY <3>1, <4>2 DEF StoryInv, NoStoryLost, GivenUp, Standing, Justified
      <3> QED BY <2>4, <3>2, <3>3 DEF Assess
    <2>5. CASE Reject(w)
      <3>1. NoNewReject
        BY <2>5, ControlCalm DEF Reject
      <3>2. CASE UNCHANGED raw
        BY <2>5, <3>1, <3>2, <1>a, <1>b DEF Reject
      <3>3. CASE MayRetire(item[w], w) /\ SetRaw(item[w], Retired(raw[item[w]]))
        <4> DEFINE a == item[w]
        <4>1. /\ a \in Articles /\ ~raw[a].processed /\ UNCHANGED rich
              /\ Justified(a) /\ raw[a] \in Raw
          BY <2>5, <3>3, <1>0 DEF Reject, MayRetire, StoryInv
        <4>2. \A c \in Articles : Standing(c) => Standing(c)'
          BY <3>3, <4>1, <1>0 DEF SetRaw, Standing
        <4>3. \A c \in Articles : GivenUp(c)' => GivenUp(c) \/ c = a
          BY <3>3, <4>1, <1>0 DEF SetRaw, GivenUp
        <4>4. \A c \in Articles : Justified(c) => Justified(c)'
          BY <4>1, <4>2 DEF Justified
        <4>5. \A c \in Articles : GivenUp(c)' => Justified(c)'
          BY <4>1, <4>3, <4>4 DEF StoryInv, NoStoryLost, Justified
        <4>6. ASSUME NEW v \in Workers, pc'[v] = "reject" PROVE Justified(item[v])'
          <5>1. pc[v] = "reject" /\ item'[v] = item[v] /\ item[v] \in Articles
            BY <4>6, <3>1, <1>0 DEF NoNewReject
          <5> QED BY <5>1, <4>4 DEF StoryInv, Justified
        <4> QED BY <4>5, <4>6 DEF StoryInv, NoStoryLost, Justified, GivenUp
      <3> QED BY <2>5, <3>2, <3>3 DEF Reject
    <2>6. CASE Enrich(w)
      <3>1. NoNewReject
        BY <2>6, ControlCalm DEF Enrich, Steps
      <3> QED BY <2>6, <3>1, <1>a, <1>b DEF Enrich
    <2>7. CASE Store(w)
      <3>1. NoNewReject
        BY <2>7, ControlCalm DEF Store, Steps
      <3>2. CalmStep
        BY <2>7, <1>0 DEF Store, Stored, CalmStep, Calm, CalmStage
      <3> QED BY <3>1, <3>2, <1>a
    <2>8. CASE Finish(w)
      <3>1. NoNewReject
        BY <2>8, ControlCalm DEF Finish
      <3>2. item[w] \in Articles /\ raw[item[w]] \in Raw /\ UNCHANGED rich
        BY <2>8, <1>0 DEF Finish
      <3>3. CalmStep
        BY <2>8, <3>2, <1>b, <1>c, CalmUpdates DEF Finish
      <3> QED BY <3>1, <3>3, <1>a
    <2>9. CASE FailClaim(w)
      <3>1. NoNewReject
        BY <2>9, ControlCalm DEF FailClaim
      <3>2. item[w] \in Articles /\ raw[item[w]] \in Raw /\ UNCHANGED rich
        BY <2>9, <1>0 DEF FailClaim
      <3>3. CalmStep
        BY <2>9, <3>2, <1>b, <1>c, CalmUpdates DEF FailClaim, Owned, SetRaw
      <3> QED BY <3>1, <3>3, <1>a
    <2> QED BY <1>1, <2>1, <2>2, <2>3, <2>4, <2>5, <2>6, <2>7, <2>8, <2>9 DEF WorkerStep
  <1>2. ASSUME NEW w \in Workers, WorkerFault(w) PROVE StoryInv'
    <2>1. CASE StepFails(w) \/ Crash(w)
      BY <2>1, <1>a, <1>b, ControlCalm DEF StepFails, Crash
    <2>2. CASE Interrupt(w)
      <3>1. item[w] \in Articles /\ raw[item[w]] \in Raw /\ UNCHANGED rich
        BY <2>2, <1>0 DEF Interrupt
      <3>2. CalmStep
        BY <2>2, <3>1, <1>b, <1>c, CalmUpdates DEF Interrupt, Owned, SetRaw
      <3> QED BY <2>2, <3>2, <1>a, ControlCalm DEF Interrupt
    <2> QED BY <1>2, <2>1, <2>2 DEF WorkerFault
  <1>3. ASSUME NEW a \in Articles, Neighbour(a) PROVE StoryInv'
    <2>1. CASE RejectStored(a)
      BY <2>1, RejectedKeeps
    <2>2. CASE Expire(a) \/ Choose(a)
      <3>1. NoNewReject
        BY <2>2 DEF Expire, Choose, NoNewReject, runVars
      <3>2. CalmStep
        BY <2>2, <1>0, <1>c, CalmUpdates DEF Expire, Choose
      <3> QED BY <3>1, <3>2, <1>a
    <2>3. CASE TakeUp(a) \/ Post(a) \/ Defer(a) \/ HandOver(a)
      <3>1. NoNewReject
        BY <2>3 DEF TakeUp, Post, Defer, HandOver, NoNewReject, runVars
      <3>2. CalmStep
        BY <2>3, <1>0 DEF TakeUp, Post, Defer, HandOver, CalmStep, Calm, CalmStage
      <3> QED BY <3>1, <3>2, <1>a
    <2> QED BY <1>3, <2>1, <2>2, <2>3 DEF Neighbour
  <1>4. CASE UNCHANGED vars
    BY <1>4, <1>a, <1>b DEF vars, runVars, NoNewReject
  <1> QED BY <1>1, <1>2, <1>3, <1>4 DEF Next

\* Where repeating is inherited, an article is given up only for one that stands.
THEOREM StoriesAreKept == ASSUME RepeatsChain PROVE Spec => []NoStoryLost
  <1>1. Init => StoryInv
    BY DEF Init, StoryInv, NoStoryLost, GivenUp
  <1>2. TypeOK /\ StoryInv /\ [Next]_vars => StoryInv'
    BY StoryInvStep
  <1>3. StoryInv => NoStoryLost
    BY DEF StoryInv
  <1> QED BY <1>1, <1>2, <1>3, TypeCorrect, PTL DEF Spec

-----------------------------------------------------------------------------
(* The raw table implements LeaseQueue *)

QueueStep == [Lease!Next]_(Lease!vars)

\* How a write to one raw row looks in the queue.
LEMMA QueueWrite ==
    ASSUME raw \in [Articles -> Raw], NEW a \in Articles, NEW r, SetRaw(a, r)
    PROVE  /\ queueState' = [queueState EXCEPT ![a] = QueueState(r)]
           /\ queueHolder' = [queueHolder EXCEPT ![a] = r.tok]
           /\ queueLive' = [queueLive EXCEPT ![a] = (r.lease = "live")]
  BY DEF queueState, queueHolder, queueLive, SetRaw

\* Workers come and go without touching a row.
LEMMA WorkersTurn ==
    ASSUME UNCHANGED raw, item \in [Workers -> Articles \union {None}], NEW w \in Workers,
           \/ UNCHANGED item
           \/ w \notin Durable /\ \E i : item' = [item EXCEPT ![w] = i]
           \/ item' = [item EXCEPT ![w] = None]
    PROVE  QueueStep
  <1>1. UNCHANGED <<queueState, queueHolder, queueLive>>
    BY DEF queueState, queueHolder, queueLive
  <1>2. CASE UNCHANGED queueBusy
    BY <1>1, <1>2 DEF QueueStep, Lease!vars
  <1>3. CASE w \in Durable /\ item' = [item EXCEPT ![w] = None]
    <2>1. queueBusy' = [queueBusy EXCEPT ![w] = None]
      BY <1>3 DEF queueBusy, Workers
    <2> QED BY <1>1, <1>3, <2>1 DEF QueueStep, Lease!Next, Lease!Leave, Lease!Turn
  <1>4. CASE w \notin Durable /\ \E i : item' = [item EXCEPT ![w] = i]
    <2>1. UNCHANGED queueBusy
      BY <1>4 DEF queueBusy, Workers
    <2> QED BY <2>1, <1>2
  <1>5. CASE UNCHANGED item
    BY <1>5, <1>2 DEF queueBusy
  <1> QED BY <1>3, <1>4, <1>5

\* A worker ends the claim it holds and turns away.
LEMMA HolderEnds ==
    ASSUME TypeOK, NEW w \in Durable, Owned(item[w], w), item[w] \in Articles,
           NEW r, SetRaw(item[w], r), r.st # "claimed", r.tok = None, r.lease # "live",
           item' = [item EXCEPT ![w] = None]
    PROVE  QueueStep
  <1> DEFINE a == item[w]
  <1>1. /\ queueState' = [queueState EXCEPT ![a] = QueueState(r)]
        /\ queueHolder' = [queueHolder EXCEPT ![a] = None]
        /\ queueLive' = [queueLive EXCEPT ![a] = FALSE]
    BY QueueWrite DEF TypeOK
  <1>2. queueBusy' = [queueBusy EXCEPT ![w] = None]
    BY DEF queueBusy, TypeOK, Workers
  <1>3. queueState[a] = "held" /\ queueHolder[a] = w /\ queueBusy[w] = a
    BY DEF queueState, queueHolder, queueBusy, QueueState, Owned
  <1>4. QueueState(r) \in {"open", "closed"}
    BY DEF QueueState
  <1>5. Lease!End(a, w, QueueState(r))
    BY <1>1, <1>2, <1>3 DEF Lease!End, Lease!Become, Lease!Turn
  <1>6. Lease!End(a, w, "open") \/ Lease!End(a, w, "closed")
    BY <1>4, <1>5
  <1> QED BY <1>6 DEF QueueStep, Lease!Next

\* Others consume a row: a claim on it stays, an open row is withdrawn.
LEMMA OthersConsume ==
    ASSUME raw \in [Articles -> Raw], NEW a \in Articles, NEW r, SetRaw(a, r), r.processed,
           r.st = "claimed" <=> raw[a].st = "claimed",
           r.tok = raw[a].tok, r.lease = raw[a].lease,
           r.st # "claimed" => r.tok = None /\ r.lease # "live",
           UNCHANGED queueBusy
    PROVE  QueueStep
  <1>1. /\ queueState' = [queueState EXCEPT ![a] = QueueState(r)]
        /\ queueHolder' = [queueHolder EXCEPT ![a] = r.tok]
        /\ queueLive' = [queueLive EXCEPT ![a] = (r.lease = "live")]
    BY QueueWrite
  <1>2. /\ queueState[a] = QueueState(raw[a]) /\ queueHolder[a] = r.tok
        /\ queueLive[a] = (r.lease = "live")
    BY DEF queueState, queueHolder, queueLive
  <1>3. UNCHANGED <<queueHolder, queueLive>>
    <2>1. queueHolder = [queueHolder EXCEPT ![a] = queueHolder[a]]
      BY DEF queueHolder
    <2>2. queueLive = [queueLive EXCEPT ![a] = queueLive[a]]
      BY DEF queueLive
    <2> QED BY <1>1, <1>2, <2>1, <2>2
  <1>4. CASE QueueState(r) = QueueState(raw[a])
    <2>1. UNCHANGED queueState
      BY <1>1, <1>2, <1>4 DEF queueState
    <2> QED BY <2>1, <1>3 DEF QueueStep, Lease!vars
  <1>5. CASE QueueState(r) # QueueState(raw[a])
    <2>1. r.st # "claimed" /\ queueState[a] = "open" /\ QueueState(r) = "closed"
      BY <1>2, <1>5 DEF QueueState
    <2>2. /\ queueHolder' = [queueHolder EXCEPT ![a] = None]
          /\ queueLive' = [queueLive EXCEPT ![a] = FALSE]
      BY <1>1, <2>1
    <2>3. Lease!Withdraw(a)
      BY <1>1, <2>1, <2>2 DEF Lease!Withdraw, Lease!Become
    <2> QED BY <2>3 DEF QueueStep, Lease!Next
  <1> QED BY <1>4, <1>5

LEMMA QueueInit == TypeOK /\ Init => Lease!Init
  <1> SUFFICES ASSUME TypeOK, Init PROVE Lease!Init
    OBVIOUS
  <1>1. /\ queueState = [a \in Articles |-> "open"]
        /\ queueHolder = [a \in Articles |-> None]
        /\ queueLive = [a \in Articles |-> FALSE]
        /\ queueBusy = [w \in Durable |-> None]
    BY DEF Init, queueState, queueHolder, queueLive, queueBusy, QueueState, Workers
  <1> QED BY <1>1 DEF Lease!Init

\* Every step of the workers and their neighbours is a step of the queue or none.
LEMMA QueueSimulation == TypeOK /\ WorkInv /\ [Next]_vars => QueueStep
  <1> SUFFICES ASSUME TypeOK, WorkInv, [Next]_vars PROVE QueueStep
    OBVIOUS
  <1>a. /\ raw \in [Articles -> Raw]
        /\ item \in [Workers -> Articles \union {None}]
        /\ \A a \in Articles : raw[a] \in Raw
        /\ \A w \in Workers : pc[w] \notin {"idle", "loop"} => item[w] \in Articles
        /\ \A w \in Workers : pc[w] \in {"idle", "loop"} => item[w] = None
        /\ ClaimIsWhole
    BY DEF TypeOK, WorkInv, BetweenItems
  <1>b. ASSUME NEW w \in Workers, UNCHANGED raw,
               UNCHANGED item \/ item' = [item EXCEPT ![w] = None]
        PROVE  QueueStep
    BY <1>a, <1>b, WorkersTurn
  <1>c. ASSUME NEW w \in Workers, UNCHANGED raw, GiveUp(w) PROVE QueueStep
    BY <1>b, <1>c DEF GiveUp, Advance, NextItem, runVars
  <1>1. ASSUME NEW w \in Workers, WorkerStep(w) PROVE QueueStep
    <2>1. CASE \/ StartDurable(w) \/ StartLegacy(w) \/ FinishRun(w) \/ Assess(w)
               \/ Enrich(w) \/ Store(w)
      <3>1. UNCHANGED raw /\ (UNCHANGED item \/ item' = [item EXCEPT ![w] = None])
        BY <2>1
        DEF StartDurable, StartLegacy, FinishRun, Assess, Enrich, Store, EndRun, GiveUp,
            Advance, NextItem, runVars
      <3> QED BY <3>1, <1>b
    <2>2. ASSUME w \in Durable, NEW a \in Articles, ClaimNext(w, a) PROVE QueueStep
      <3> DEFINE r == Claimed(raw[a], w)
      <3>1. Claimable(raw[a]) /\ SetRaw(a, r) /\ item[w] = None
            /\ item' = [item EXCEPT ![w] = a] /\ raw[a] \in Raw
        BY <2>2, <1>a DEF ClaimNext
      <3>2. r.st = "claimed" /\ r.tok = w /\ r.lease = "live"
        BY <3>1 DEF Claimed, Raw
      <3> HIDE DEF r
      <3>3. /\ queueState' = [queueState EXCEPT ![a] = "held"]
            /\ queueHolder' = [queueHolder EXCEPT ![a] = w]
            /\ queueLive' = [queueLive EXCEPT ![a] = TRUE]
        BY <3>1, <3>2, <1>a, QueueWrite DEF QueueState
      <3>4. queueBusy[w] = None /\ queueBusy' = [queueBusy EXCEPT ![w] = a]
        BY <2>2, <3>1, <1>a DEF queueBusy, Workers
      <3>5. queueState[a] = "open" \/ (queueState[a] = "held" /\ ~queueLive[a])
        BY <3>1 DEF Claimable, queueState, queueLive, QueueState
      <3>6. Lease!Take(a, w)
        BY <3>3, <3>4, <3>5 DEF Lease!Take, Lease!Become, Lease!Turn
      <3> QED BY <2>2, <3>6 DEF QueueStep, Lease!Next
    <2>3. ASSUME w \in Legacy, NEW a \in Articles, TakeNext(w, a) PROVE QueueStep
      <3>1. w \notin Durable
        BY <2>3, EnrichmentAssumption
      <3> QED BY <2>3, <3>1, <1>a, WorkersTurn DEF TakeNext
    <2>4. CASE Reject(w) /\ MayRetire(item[w], w)
      <3> DEFINE a == item[w]
                 r == Retired(raw[a])
      <3>1. /\ a \in Articles /\ raw[a] \in Raw /\ SetRaw(a, r)
            /\ item' = [item EXCEPT ![w] = None]
        BY <2>4, <1>a DEF Reject, NextItem
      <3>2. r.st = "duplicate" /\ r.processed /\ r.tok = None /\ r.lease = "none"
        BY <3>1 DEF Retired, Released, Raw
      <3>3. CASE w \in Durable
        <4>1. Owned(a, w)
          BY <2>4, <3>3 DEF MayRetire
        <4> HIDE DEF r
        <4> QED BY <3>1, <3>2, <3>3, <4>1, HolderEnds
      <3>4. CASE w \notin Durable
        <4>1. raw[a].st # "claimed" /\ raw[a].tok = None /\ raw[a].lease = "none"
          BY <2>4, <3>1, <3>4, <1>a DEF MayRetire, ClaimIsWhole
        <4>2. UNCHANGED queueBusy
          BY <3>1, <3>4, <1>a DEF queueBusy, Workers
        <4> HIDE DEF r
        <4> QED BY <3>1, <3>2, <4>1, <4>2, <1>a, OthersConsume
      <3> QED BY <3>3, <3>4
    <2>5. CASE Reject(w) /\ ~MayRetire(item[w], w)
      BY <2>5, <1>c DEF Reject
    <2>6. CASE Finish(w)
      <3> DEFINE a == item[w]
                 done == [Released(raw[a], "completed") EXCEPT !.processed = TRUE]
                 marked == [raw[a] EXCEPT !.processed = TRUE]
      <3>1. a \in Articles /\ raw[a] \in Raw
        BY <2>6, <1>a DEF Finish
      <3>2. CASE w \in Durable /\ ~Owned(a, w) /\ GiveUp(w) /\ UNCHANGED raw
        BY <3>2, <1>c
      <3>3. CASE w \in Durable /\ Owned(a, w) /\ SetRaw(a, done) /\ NextItem(w)
        <4>1. done.st = "completed" /\ done.tok = None /\ done.lease = "none"
          BY <3>1 DEF Released, Raw
        <4>2. item' = [item EXCEPT ![w] = None]
          BY <3>3 DEF NextItem
        <4> HIDE DEF done
        <4> QED BY <3>1, <3>3, <4>1, <4>2, HolderEnds
      <3>4. CASE w \in Legacy /\ SetRaw(a, marked) /\ NextItem(w)
        <4>1. /\ marked.processed /\ marked.st = raw[a].st /\ marked.tok = raw[a].tok
              /\ marked.lease = raw[a].lease
          BY <3>1 DEF Raw
        <4>2. raw[a].st # "claimed" => raw[a].tok = None /\ raw[a].lease = "none"
          BY <3>1, <1>a DEF ClaimIsWhole
        <4>3. UNCHANGED queueBusy
          BY <3>4, <1>a, EnrichmentAssumption DEF NextItem, queueBusy, Workers
        <4> HIDE DEF marked
        <4> QED BY <3>1, <3>4, <4>1, <4>2, <4>3, <1>a, OthersConsume
      <3> QED BY <2>6, <3>2, <3>3, <3>4 DEF Finish
    <2>7. CASE FailClaim(w)
      <3> DEFINE a == item[w]
                 r == Released(raw[a], "retryable")
      <3>1. a \in Articles /\ raw[a] \in Raw /\ item' = [item EXCEPT ![w] = None]
        BY <2>7, <1>a DEF FailClaim, NextItem
      <3>2. CASE ~Owned(a, w)
        BY <2>7, <3>1, <3>2, <1>b DEF FailClaim
      <3>3. CASE Owned(a, w)
        <4>1. r.st = "retryable" /\ r.tok = None /\ r.lease = "none"
          BY <3>1 DEF Released, Raw
        <4>2. SetRaw(a, r)
          BY <2>7, <3>3 DEF FailClaim, SetRaw
        <4>3. w \in Durable
          BY <3>1, <3>3, <1>a DEF Owned, ClaimIsWhole
        <4> HIDE DEF r
        <4> QED BY <3>1, <3>3, <4>1, <4>2, <4>3, HolderEnds
      <3> QED BY <3>2, <3>3
    <2>8. (w \in Durable /\ \E a \in Articles : ClaimNext(w, a)) => QueueStep
      BY <2>2
    <2>9. (w \in Legacy /\ \E a \in Articles : TakeNext(w, a)) => QueueStep
      BY <2>3
    <2> QED BY <1>1, <2>1, <2>4, <2>5, <2>6, <2>7, <2>8, <2>9 DEF WorkerStep
  <1>2. ASSUME NEW w \in Workers, WorkerFault(w) PROVE QueueStep
    <2>1. CASE StepFails(w)
      BY <2>1, <1>c DEF StepFails
    <2>2. CASE Crash(w)
      BY <2>2, <1>b DEF Crash, EndRun
    <2>3. CASE Interrupt(w)
      <3> DEFINE a == item[w]
                 r == Released(raw[a], "retryable")
      <3>1. a \in Articles /\ raw[a] \in Raw /\ item' = [item EXCEPT ![w] = None]
        BY <2>3, <1>a DEF Interrupt, EndRun
      <3>2. CASE ~Owned(a, w)
        BY <2>3, <3>1, <3>2, <1>b DEF Interrupt
      <3>3. CASE Owned(a, w)
        <4>1. r.st = "retryable" /\ r.tok = None /\ r.lease = "none"
          BY <3>1 DEF Released, Raw
        <4>2. SetRaw(a, r) /\ w \in Durable
          BY <2>3, <3>3 DEF Interrupt, SetRaw
        <4> HIDE DEF r
        <4> QED BY <3>1, <3>3, <4>1, <4>2, HolderEnds
      <3> QED BY <3>2, <3>3
    <2> QED BY <1>2, <2>1, <2>2, <2>3 DEF WorkerFault
  <1>3. ASSUME NEW a \in Articles, Neighbour(a) PROVE QueueStep
    <2>1. UNCHANGED item /\ UNCHANGED queueBusy
      BY <1>3
      DEF Neighbour, Expire, Choose, TakeUp, Post, Defer, HandOver, RejectStored, runVars, queueBusy
    <2>2. CASE TakeUp(a) \/ Post(a) \/ Defer(a) \/ HandOver(a)
      <3>1. UNCHANGED <<queueState, queueHolder, queueLive>>
        BY <2>2 DEF TakeUp, Post, Defer, HandOver, queueState, queueHolder, queueLive
      <3> QED BY <2>1, <3>1 DEF QueueStep, Lease!vars
    <2>3. CASE Choose(a)
      <3> DEFINE r == [raw[a] EXCEPT !.chosen = TRUE]
      <3>1. /\ r.st = raw[a].st /\ r.tok = raw[a].tok /\ r.lease = raw[a].lease
            /\ r.processed = raw[a].processed
        BY <1>a DEF Raw
      <3>2. SetRaw(a, r)
        BY <2>3 DEF Choose
      <3> HIDE DEF r
      <3>3. /\ queueState' = [queueState EXCEPT ![a] = QueueState(raw[a])]
            /\ queueHolder' = [queueHolder EXCEPT ![a] = raw[a].tok]
            /\ queueLive' = [queueLive EXCEPT ![a] = (raw[a].lease = "live")]
        BY <3>1, <3>2, <1>a, QueueWrite DEF QueueState
      <3>4. UNCHANGED <<queueState, queueHolder, queueLive>>
        BY <3>3 DEF queueState, queueHolder, queueLive
      <3> QED BY <2>1, <3>4 DEF QueueStep, Lease!vars
    <2>4. CASE Expire(a)
      <3> DEFINE r == [raw[a] EXCEPT !.lease = "expired"]
      <3>1. r.st = "claimed" /\ r.tok = raw[a].tok /\ r.lease = "expired"
        BY <2>4, <1>a DEF Raw, Expire
      <3>2. SetRaw(a, r)
        BY <2>4 DEF Expire
      <3> HIDE DEF r
      <3>3. /\ queueState' = [queueState EXCEPT ![a] = "held"]
            /\ queueHolder' = [queueHolder EXCEPT ![a] = queueHolder[a]]
            /\ queueLive' = [queueLive EXCEPT ![a] = FALSE]
        <4>1. QueueState(r) = "held" /\ (r.lease = "live") = FALSE
          BY <3>1 DEF QueueState
        <4>2. r.tok = queueHolder[a]
          BY <3>1 DEF queueHolder
        <4>3. /\ queueState' = [queueState EXCEPT ![a] = QueueState(r)]
              /\ queueHolder' = [queueHolder EXCEPT ![a] = r.tok]
              /\ queueLive' = [queueLive EXCEPT ![a] = (r.lease = "live")]
          BY <3>2, <1>a, QueueWrite
        <4> HIDE DEF r
        <4> QED BY <4>1, <4>2, <4>3
      <3>4. queueState[a] = "held" /\ queueLive[a]
        BY <2>4 DEF Expire, queueState, queueLive, QueueState
      <3>5. Lease!Become(a, "held", queueHolder[a], FALSE)
        BY <3>3 DEF Lease!Become
      <3>6. Lease!Lapse(a)
        BY <2>1, <3>4, <3>5 DEF Lease!Lapse
      <3> QED BY <3>6 DEF QueueStep, Lease!Next
    <2>5. CASE RejectStored(a)
      <3> DEFINE r == Consumed(raw[a])
      <3>1. /\ r.processed /\ r.tok = raw[a].tok /\ r.lease = raw[a].lease
            /\ (r.st = "claimed" <=> raw[a].st = "claimed")
        BY <1>a DEF Consumed, Raw
      <3>2. r.st # "claimed" => r.tok = None /\ r.lease = "none"
        BY <3>1, <1>a DEF ClaimIsWhole
      <3>3. SetRaw(a, r)
        BY <2>5 DEF RejectStored
      <3> HIDE DEF r
      <3> QED BY <2>1, <3>1, <3>2, <3>3, <1>a, OthersConsume
    <2> QED BY <1>3, <2>2, <2>3, <2>4, <2>5 DEF Neighbour
  <1>4. CASE UNCHANGED vars
    <2>1. UNCHANGED <<queueState, queueHolder, queueLive, queueBusy>>
      BY <1>4 DEF vars, runVars, queueState, queueHolder, queueLive, queueBusy
    <2> QED BY <2>1 DEF QueueStep, Lease!vars
  <1> QED BY <1>1, <1>2, <1>3, <1>4 DEF Next

\* The raw table implements a table of leased work: a claim is ended only by
\* the worker that holds it and is on that row, and taken over only after its
\* lease has lapsed.
THEOREM RawTableKeepsLeases == Spec => KeepsLeases
  <1>1. Spec => Lease!Init
    BY TypeCorrect, QueueInit, PTL DEF Spec
  <1> QED BY <1>1, QueueSimulation, TypeCorrect, WorkInvariant, PTL
          DEF Spec, KeepsLeases, Lease!Spec, QueueStep
=============================================================================

--------------------------- MODULE EmbeddingProofs ---------------------------
(***************************************************************************)
(* Proofs about Embedding, for every set of articles, workers and          *)
(* ingesters, every number of versions and any number of faults.           *)
(***************************************************************************)
EXTENDS Embedding, TLAPS

-----------------------------------------------------------------------------
(* Documents *)

\* A document is an article with one of its versions.
LEMMA DocumentParts ==
    /\ \A d \in Documents : /\ ArticleOf(d) \in Articles
                            /\ VersionOf(d) \in Nat \ {0}
    /\ \A a \in Articles : \A v \in 1..Versions[a] : <<a, v>> \in Documents
  <1>1. ASSUME NEW d \in Documents
        PROVE  ArticleOf(d) \in Articles /\ VersionOf(d) \in Nat \ {0}
    <2>1. PICK a \in Articles : d \in {a} \X (1..Versions[a])
      BY DEF Documents
    <2>2. Versions[a] \in Nat
      BY BoundsAssumption
    <2> QED BY <2>1, <2>2 DEF ArticleOf, VersionOf
  <1>2. ASSUME NEW a \in Articles, NEW v \in 1..Versions[a]
        PROVE  <<a, v>> \in Documents
    BY DEF Documents
  <1> QED BY <1>1, <1>2

-----------------------------------------------------------------------------
(* The actors: what each keeps for itself *)

Actors == Workers \union Ingesters

LocalInv ==
    /\ pc \in [Actors -> WorkerSteps \union IngesterSteps]
    /\ item \in [Actors -> Documents \union {None}]
    /\ text \in [Workers -> Nat]
    /\ left \in [Workers -> Nat]
    /\ scan \in [Ingesters -> SUBSET Documents]
    /\ ItemMeansBusy
    /\ TextIsChecked

OnJob(w) == pc[w] \notin {"idle", "loop"}

\* A worker that is on a job has a document.
LEMMA OnJobHasItem ==
    ASSUME LocalInv
    PROVE  /\ \A w \in Workers : OnJob(w) => item[w] \in Documents
           /\ \A i \in Ingesters : pc[i] = "enqueue" => item[i] \in Documents
  BY DEF LocalInv, ItemMeansBusy, OnJob, Actors

\* The control helpers of the workers keep the local invariant.
LEMMA WorkerControl ==
    ASSUME LocalInv, NEW w \in Workers
    PROVE  /\ NextJob(w) => LocalInv'
           /\ EndRun(w) => LocalInv'
           /\ \A step \in {"invalid", "unavailable", "raise"} :
                 OnJob(w) /\ Proceed(w, step) => LocalInv'
           /\ \A step \in {"embed", "persist"} :
                 pc[w] \in {"reconcile", "embed"} /\ Proceed(w, step) => LocalInv'
  <1> USE DEF LocalInv, ItemMeansBusy, TextIsChecked, OnJob, Goto, runVars, Actors,
              WorkerSteps
  <1>0. w \notin Ingesters
    BY ActorsAssumption
  <1>1. NextJob(w) => LocalInv'
    BY <1>0 DEF NextJob
  <1>2. EndRun(w) => LocalInv'
    BY <1>0 DEF EndRun
  <1>3. \A step \in {"invalid", "unavailable", "raise"} :
           OnJob(w) /\ Proceed(w, step) => LocalInv'
    BY <1>0 DEF Proceed
  <1>4. \A step \in {"embed", "persist"} :
           pc[w] \in {"reconcile", "embed"} /\ Proceed(w, step) => LocalInv'
    BY <1>0 DEF Proceed
  <1> QED BY <1>1, <1>2, <1>3, <1>4

LEMMA LocalInvStep ==
    ASSUME TypeOK, LocalInv, [Next]_vars PROVE LocalInv'
  <1>a. body \in [Articles -> Nat] /\ \A a \in Articles : body[a] \in 1..Versions[a]
    BY DEF TypeOK
  <1>b. ASSUME UNCHANGED <<pc, runVars>> PROVE LocalInv'
    BY <1>b DEF LocalInv, ItemMeansBusy, TextIsChecked, runVars
  <1>c. Workers \intersect Ingesters = {} /\ None \notin Documents
    BY ActorsAssumption
  <1>1. ASSUME NEW w \in Workers, WorkerStep(w) PROVE LocalInv'
    <2>0. w \notin Ingesters
      BY <1>c
    <2>1. CASE Start(w)
      BY <2>1, <2>0, BoundsAssumption
      DEF Start, LocalInv, ItemMeansBusy, TextIsChecked, Goto, Actors, WorkerSteps
    <2>2. CASE FinishRun(w)
      BY <2>2, WorkerControl DEF FinishRun
    <2>3. ASSUME NEW d \in Documents, ClaimNext(w, d) PROVE LocalInv'
      <3>1. left' \in [Workers -> Nat]
        BY <2>3 DEF ClaimNext, LocalInv
      <3> QED BY <2>3, <2>0, <3>1, <1>c
          DEF ClaimNext, LocalInv, ItemMeansBusy, TextIsChecked, Goto, Actors, WorkerSteps
    <2>4. CASE Load(w)
      <3>1. item[w] \in Documents
        BY <2>4, OnJobHasItem DEF Load, OnJob
      <3>2. body[ArticleOf(item[w])] \in Nat
        BY <3>1, <1>a, DocumentParts
      <3> QED BY <2>4, <2>0, <3>1, <3>2
          DEF Load, LocalInv, ItemMeansBusy, TextIsChecked, Goto, Actors, WorkerSteps
    <2>5. CASE Reconcile(w)
      BY <2>5, WorkerControl DEF Reconcile
    <2>6. CASE Embed(w)
      BY <2>6, WorkerControl DEF Embed, OnJob
    <2>7. CASE Persist(w)
      BY <2>7, WorkerControl DEF Persist
    <2>8. CASE FailMismatch(w) \/ FailInvalid(w)
      BY <2>8, WorkerControl DEF FailMismatch, FailInvalid
    <2>9. CASE FailUnavailable(w) \/ Raise(w)
      BY <2>9, WorkerControl DEF FailUnavailable, Raise
    <2> QED BY <1>1, <2>1, <2>2, <2>3, <2>4, <2>5, <2>6, <2>7, <2>8, <2>9 DEF WorkerStep
  <1>2. ASSUME NEW w \in Workers, WorkerFault(w) PROVE LocalInv'
    BY <1>2, WorkerControl DEF WorkerFault, ProviderFails, StepFails, Crash, OnJob
  <1>3. ASSUME NEW i \in Ingesters, IngesterStep(i) \/ CrashScan(i) PROVE LocalInv'
    <2>0. i \notin Workers
      BY <1>c
    <2> USE DEF LocalInv, ItemMeansBusy, TextIsChecked, Goto, Actors, IngesterSteps
    <2>1. CASE Scan(i)
      <3>1. {<<a, body[a]>> : a \in Articles} \subseteq Documents
        BY <1>a, DocumentParts
      <3> QED BY <2>1, <2>0, <3>1 DEF Scan
    <2>2. ASSUME NEW d \in Documents, Register(i, d) PROVE LocalInv'
      BY <2>2, <2>0, <1>c DEF Register
    <2>3. CASE Enqueue(i)
      BY <2>3, <2>0 DEF Enqueue
    <2>4. CASE StopScan(i)
      BY <2>4, <2>0 DEF StopScan
    <2> QED BY <1>3, <2>1, <2>2, <2>3, <2>4 DEF IngesterStep, FinishScan, CrashScan
  <1>4. ASSUME NEW d \in Documents, Expire(d) PROVE LocalInv'
    BY <1>4, <1>b DEF Expire
  <1>5. ASSUME NEW a \in Articles, Edit(a) PROVE LocalInv'
    BY <1>5, <1>b DEF Edit
  <1>6. CASE UNCHANGED vars
    BY <1>6, <1>b DEF vars, runVars
  <1> QED BY <1>1, <1>2, <1>3, <1>4, <1>5, <1>6 DEF Next

-----------------------------------------------------------------------------
(* The store: jobs and chunks *)

\* What a job says of itself and of the chunks of its document.
JobSound(r, c, d) ==
    /\ r \in Job
    /\ IF r.st = "claimed" THEN r.tok \in Workers /\ r.lease # "none"
       ELSE r.tok = None /\ r.lease = "none"
    /\ IF r.st = "completed" THEN c = VersionOf(d) ELSE c = 0

JobsSound ==
    /\ job \in [Documents -> Job]
    /\ chunks \in [Documents -> Nat]
    /\ \A d \in Documents : JobSound(job[d], chunks[d], d)

LEMMA JobsSoundSplits ==
    JobsSound <=> /\ job \in [Documents -> Job] /\ chunks \in [Documents -> Nat]
                  /\ EmbeddedIsTrue /\ ClaimIsWhole
  BY DEF JobsSound, JobSound, EmbeddedIsTrue, ClaimIsWhole

\* Every update of a job keeps it sound under the guard it is made with.
LEMMA SoundUpdates ==
    ASSUME NEW d \in Documents, NEW r \in Job, NEW c, JobSound(r, c, d)
    PROVE  /\ \A w \in Workers : r.st # "completed" => JobSound(Claimed(r, w), c, d)
           /\ \A s \in {"retryable", "failed"}, e \in Errors :
                 r.st = "claimed" => JobSound(Ended(r, s, e), c, d)
           /\ JobSound(Ended(r, "completed", "none"), VersionOf(d), d)
           /\ r.st = "absent" => JobSound([r EXCEPT !.st = "pending"], c, d)
           /\ r.st = "claimed" => JobSound([r EXCEPT !.lease = "expired"], c, d)
  <1> USE DEF JobSound
  <1>1. ASSUME NEW w \in Workers, r.st # "completed" PROVE JobSound(Claimed(r, w), c, d)
    <2>1. (IF r.att < MaxAttempts THEN r.att + 1 ELSE r.att) \in 0..MaxAttempts
      BY BoundsAssumption DEF Job
    <2> QED BY <1>1, <2>1 DEF Claimed, Job, Statuses, Errors
  <1>2. ASSUME NEW s \in {"retryable", "failed"}, NEW e \in Errors, r.st = "claimed"
        PROVE  JobSound(Ended(r, s, e), c, d)
    BY <1>2 DEF Ended, Job, Statuses
  <1>3. JobSound(Ended(r, "completed", "none"), VersionOf(d), d)
    BY DEF Ended, Job, Statuses, Errors
  <1>4. r.st = "absent" => JobSound([r EXCEPT !.st = "pending"], c, d)
    BY DEF Job, Statuses
  <1>5. r.st = "claimed" => JobSound([r EXCEPT !.lease = "expired"], c, d)
    BY DEF Job
  <1> QED BY <1>1, <1>2, <1>3, <1>4, <1>5

\* A sound update of one job keeps all of them sound.
LEMMA SoundWrite ==
    ASSUME JobsSound, NEW d \in Documents, NEW r, SetJob(d, r), NEW c \in Nat,
           chunks' = [chunks EXCEPT ![d] = c], JobSound(r, c, d)
    PROVE  JobsSound'
  BY DEF JobsSound, JobSound, SetJob

\* The same where the chunks stay.
LEMMA SoundJob ==
    ASSUME JobsSound, NEW d \in Documents, NEW r, SetJob(d, r), UNCHANGED chunks,
           JobSound(r, chunks[d], d)
    PROVE  JobsSound'
  <1>1. chunks[d] \in Nat /\ chunks' = [chunks EXCEPT ![d] = chunks[d]]
    BY DEF JobsSound
  <1> QED BY <1>1, SoundWrite

\* Giving up a claim keeps the jobs sound, whoever owns it by now.
LEMMA SoundEnd ==
    ASSUME JobsSound, NEW d \in Documents, NEW w, UNCHANGED chunks,
           NEW s \in {"retryable", "failed"}, NEW e \in Errors, EndIfOwned(d, w, s, e)
    PROVE  JobsSound'
  <1>1. CASE ~Owned(d, w)
    BY <1>1 DEF EndIfOwned, JobsSound
  <1>2. CASE Owned(d, w)
    <2>1. SetJob(d, Ended(job[d], s, e))
      BY <1>2 DEF EndIfOwned, SetJob
    <2>2. JobSound(Ended(job[d], s, e), chunks[d], d)
      BY <1>2, SoundUpdates DEF Owned, JobsSound
    <2> QED BY <2>1, <2>2, SoundJob
  <1> QED BY <1>1, <1>2

LEMMA JobsSoundStep ==
    ASSUME TypeOK, LocalInv, JobsSound, [Next]_vars PROVE JobsSound'
  <1>a. ASSUME UNCHANGED <<job, chunks>> PROVE JobsSound'
    BY <1>a DEF JobsSound
  <1>b. \A d \in Documents : job[d] \in Job /\ JobSound(job[d], chunks[d], d)
    BY DEF JobsSound
  <1>1. ASSUME NEW w \in Workers, WorkerStep(w) PROVE JobsSound'
    <2>1. CASE Start(w) \/ FinishRun(w) \/ Load(w) \/ Embed(w)
      BY <2>1, <1>a DEF Start, FinishRun, Load, Embed, storeVars
    <2>2. ASSUME NEW d \in Documents, ClaimNext(w, d) PROVE JobsSound'
      <3>1. job[d].st # "completed"
        BY <2>2 DEF ClaimNext, First, Claimable
      <3>2. JobSound(Claimed(job[d], w), chunks[d], d)
        BY <3>1, <1>b, SoundUpdates
      <3> QED BY <2>2, <3>2, SoundJob DEF ClaimNext
    <2>3. CASE Reconcile(w)
      <3> DEFINE d == item[w]
      <3>1. d \in Documents /\ text[w] = VersionOf(d)
        BY <2>3, OnJobHasItem DEF Reconcile, OnJob, LocalInv, TextIsChecked
      <3>2. CASE UNCHANGED job
        BY <2>3, <3>2, <1>a DEF Reconcile
      <3>3. CASE chunks[d] = text[w] /\ SetJob(d, Ended(job[d], "completed", "none"))
        <4>1. JobSound(Ended(job[d], "completed", "none"), chunks[d], d)
          BY <3>1, <3>3, <1>b, SoundUpdates
        <4> QED BY <2>3, <3>1, <3>3, <4>1, SoundJob DEF Reconcile
      <3> QED BY <2>3, <3>2, <3>3 DEF Reconcile
    <2>4. CASE Persist(w)
      <3> DEFINE d == item[w]
      <3>1. d \in Documents /\ text[w] = VersionOf(d) /\ text[w] \in Nat
        BY <2>4, OnJobHasItem DEF Persist, OnJob, LocalInv, TextIsChecked
      <3>2. CASE ~Owned(d, w)
        BY <2>4, <3>2, <1>a DEF Persist
      <3>3. CASE Owned(d, w)
        <4>1. JobSound(Ended(job[d], "completed", "none"), text[w], d)
          BY <3>1, <1>b, SoundUpdates
        <4>2. /\ chunks' = [chunks EXCEPT ![d] = text[w]]
              /\ SetJob(d, Ended(job[d], "completed", "none"))
          BY <2>4, <3>3 DEF Persist
        <4> QED BY <3>1, <4>1, <4>2, SoundWrite
      <3> QED BY <3>2, <3>3
    <2>5. CASE FailMismatch(w) \/ FailInvalid(w) \/ FailUnavailable(w) \/ Raise(w)
      <3>1. item[w] \in Documents
        BY <2>5, OnJobHasItem
        DEF FailMismatch, FailInvalid, FailUnavailable, Raise, OnJob
      <3> QED BY <2>5, <3>1, SoundEnd
          DEF FailMismatch, FailInvalid, FailUnavailable, Raise, Errors
    <2> QED BY <1>1, <2>1, <2>2, <2>3, <2>4, <2>5 DEF WorkerStep
  <1>2. ASSUME NEW w \in Workers, WorkerFault(w) PROVE JobsSound'
    BY <1>2, <1>a DEF WorkerFault, ProviderFails, StepFails, Crash, storeVars
  <1>3. ASSUME NEW i \in Ingesters, IngesterStep(i) \/ CrashScan(i) PROVE JobsSound'
    <2>1. CASE Enqueue(i)
      <3> DEFINE d == item[i]
      <3>1. d \in Documents
        BY <2>1, OnJobHasItem DEF Enqueue
      <3>2. CASE job[d].st # "absent"
        BY <2>1, <3>2, <1>a DEF Enqueue
      <3>3. CASE job[d].st = "absent"
        <4> DEFINE r == [job[d] EXCEPT !.st = "pending"]
        <4>1. SetJob(d, r) /\ UNCHANGED chunks
          BY <2>1, <3>3 DEF Enqueue, SetJob
        <4>2. JobSound(r, chunks[d], d)
          BY <3>1, <3>3, <1>b, SoundUpdates
        <4> QED BY <3>1, <4>1, <4>2, SoundJob
      <3> QED BY <3>2, <3>3
    <2>2. CASE Scan(i) \/ StopScan(i) \/ \E d \in Documents : Register(i, d)
      BY <2>2, <1>a DEF Scan, StopScan, Register, storeVars
    <2> QED BY <1>3, <2>1, <2>2 DEF IngesterStep, FinishScan, CrashScan
  <1>4. ASSUME NEW d \in Documents, Expire(d) PROVE JobsSound'
    <2>1. JobSound([job[d] EXCEPT !.lease = "expired"], chunks[d], d)
      BY <1>4, <1>b, SoundUpdates DEF Expire
    <2> QED BY <1>4, <2>1, SoundJob DEF Expire
  <1>5. ASSUME NEW a \in Articles, Edit(a) PROVE JobsSound'
    BY <1>5, <1>a DEF Edit, storeVars
  <1>6. CASE UNCHANGED vars
    BY <1>6, <1>a DEF vars, storeVars
  <1> QED BY <1>1, <1>2, <1>3, <1>4, <1>5, <1>6 DEF Next

-----------------------------------------------------------------------------
(* Types and registration *)

\* The variables that no other invariant speaks of.
RestTypes ==
    /\ body \in [Articles -> Nat]
    /\ \A a \in Articles : body[a] \in 1..Versions[a]
    /\ docs \in SUBSET Documents
    /\ faults \in Nat

LEMMA TypesSplit ==
    /\ RestTypes /\ LocalInv /\ JobsSound => TypeOK
    /\ TypeOK => RestTypes
  BY DEF RestTypes, LocalInv, JobsSound, TypeOK, Actors

LEMMA RestStep ==
    ASSUME TypeOK, LocalInv, [Next]_vars PROVE RestTypes'
  <1>a. RestTypes
    BY TypesSplit
  <1>b. ASSUME UNCHANGED <<body, docs>>, UNCHANGED faults \/ UseFault PROVE RestTypes'
    BY <1>a, <1>b DEF RestTypes, UseFault
  <1>1. ASSUME NEW w \in Workers, WorkerStep(w) \/ WorkerFault(w) PROVE RestTypes'
    BY <1>1, <1>b
    DEF WorkerStep, WorkerFault, Start, FinishRun, ClaimNext, Load, Reconcile, Embed,
        Persist, FailMismatch, FailInvalid, FailUnavailable, Raise, ProviderFails,
        StepFails, Crash, storeVars
  <1>2. ASSUME NEW i \in Ingesters, IngesterStep(i) \/ CrashScan(i) PROVE RestTypes'
    <2>1. ASSUME NEW d \in Documents, Register(i, d) PROVE RestTypes'
      BY <2>1, <1>a DEF Register, RestTypes
    <2> QED BY <1>2, <1>b, <2>1
        DEF IngesterStep, Scan, Enqueue, FinishScan, CrashScan, StopScan, storeVars
  <1>3. ASSUME NEW d \in Documents, Expire(d) PROVE RestTypes'
    BY <1>3, <1>b DEF Expire
  <1>4. ASSUME NEW a \in Articles, Edit(a) PROVE RestTypes'
    <2>1. Versions[a] \in Nat
      BY BoundsAssumption
    <2> QED BY <1>4, <1>a, <2>1 DEF Edit, storeVars, RestTypes
  <1>5. CASE UNCHANGED vars
    BY <1>5, <1>b DEF vars
  <1> QED BY <1>1, <1>2, <1>3, <1>4, <1>5 DEF Next

LEMMA RegisteredStep ==
    ASSUME TypeOK, LocalInv, JobsAreRegistered, [Next]_vars PROVE JobsAreRegistered'
  <1>a. ASSUME docs \subseteq docs',
               \A d \in Documents : job'[d].st # "absent" => job[d].st # "absent" \/ d \in docs,
               \A i \in Ingesters : pc'[i] = "enqueue" =>
                   item'[i] \in docs' \/ (pc[i] = "enqueue" /\ item'[i] = item[i])
        PROVE  JobsAreRegistered'
    BY <1>a DEF JobsAreRegistered
  <1>b. /\ pc \in [Actors -> WorkerSteps \union IngesterSteps]
        /\ item \in [Actors -> Documents \union {None}]
        /\ job \in [Documents -> Job]
    BY DEF TypeOK, Actors
  <1>c. Workers \intersect Ingesters = {}
    BY ActorsAssumption
  <1>1. ASSUME NEW w \in Workers, WorkerStep(w) \/ WorkerFault(w)
        PROVE  JobsAreRegistered'
    <2>1. w \notin Ingesters /\ UNCHANGED docs
      BY <1>1, <1>c
      DEF WorkerStep, WorkerFault, Start, FinishRun, ClaimNext, Load, Reconcile, Embed,
          Persist, FailMismatch, FailInvalid, FailUnavailable, Raise, ProviderFails,
          StepFails, Crash, storeVars
    <2>2. \A i \in Ingesters : pc'[i] = pc[i] /\ item'[i] = item[i]
      BY <1>1, <2>1, <1>b
      DEF WorkerStep, WorkerFault, Start, FinishRun, ClaimNext, Load, Reconcile, Embed,
          Persist, FailMismatch, FailInvalid, FailUnavailable, Raise, ProviderFails,
          StepFails, Crash, NextJob, EndRun, Proceed, Goto, runVars, Actors
    <2>3. \A d \in Documents : job'[d].st # "absent" => job[d].st # "absent"
      <3>1. ASSUME NEW d \in Documents, NEW r, SetJob(d, r), job[d].st # "absent"
            PROVE  \A e \in Documents : job'[e].st # "absent" => job[e].st # "absent"
        BY <3>1, <1>b DEF SetJob
      <3>2. CASE \E d \in Documents : ClaimNext(w, d)
        BY <3>1, <3>2 DEF ClaimNext, First, Claimable
      <3>3. CASE UNCHANGED job
        BY <3>3
      <3>4. CASE Reconcile(w)
        BY <3>1, <3>3, <3>4, OnJobHasItem DEF Reconcile, OnJob, Owned
      <3>5. CASE Persist(w)
        BY <3>1, <3>3, <3>5, OnJobHasItem DEF Persist, OnJob, Owned
      <3>6. CASE FailMismatch(w) \/ FailInvalid(w) \/ FailUnavailable(w) \/ Raise(w)
        <4>1. item[w] \in Documents
          BY <3>6, OnJobHasItem
          DEF FailMismatch, FailInvalid, FailUnavailable, Raise, OnJob
        <4> QED BY <3>6, <4>1, <3>1, <3>3
            DEF FailMismatch, FailInvalid, FailUnavailable, Raise, EndIfOwned, Owned, SetJob
      <3> QED BY <1>1, <3>2, <3>3, <3>4, <3>5, <3>6
          DEF WorkerStep, WorkerFault, Start, FinishRun, Load, Embed, ProviderFails,
              StepFails, Crash, storeVars
    <2> QED BY <2>1, <2>2, <2>3, <1>a
  <1>2. ASSUME NEW i \in Ingesters, IngesterStep(i) \/ CrashScan(i)
        PROVE  JobsAreRegistered'
    <2> USE DEF Goto, Actors
    <2>1. CASE Scan(i)
      BY <2>1, <1>a, <1>b DEF Scan, storeVars
    <2>2. ASSUME NEW d \in Documents, Register(i, d) PROVE JobsAreRegistered'
      BY <2>2, <1>a, <1>b DEF Register
    <2>3. CASE Enqueue(i)
      <3>1. item[i] \in Documents /\ item[i] \in docs
        BY <2>3, OnJobHasItem DEF Enqueue, JobsAreRegistered
      <3>2. \A d \in Documents : d # item[i] => job'[d] = job[d]
        BY <2>3, <1>b DEF Enqueue
      <3> QED BY <2>3, <3>1, <3>2, <1>a, <1>b DEF Enqueue
    <2>4. CASE StopScan(i)
      BY <2>4, <1>a, <1>b DEF StopScan, storeVars
    <2> QED BY <1>2, <2>1, <2>2, <2>3, <2>4 DEF IngesterStep, FinishScan, CrashScan
  <1>3. ASSUME NEW d \in Documents, Expire(d) PROVE JobsAreRegistered'
    BY <1>3, <1>a, <1>b DEF Expire, SetJob, runVars
  <1>4. ASSUME NEW a \in Articles, Edit(a) PROVE JobsAreRegistered'
    BY <1>4, <1>a DEF Edit, storeVars, runVars
  <1>5. CASE UNCHANGED vars
    BY <1>5, <1>a DEF vars
  <1> QED BY <1>1, <1>2, <1>3, <1>4, <1>5 DEF Next

-----------------------------------------------------------------------------
(* The invariants *)

Inv == TypeOK /\ LocalInv /\ JobsSound /\ JobsAreRegistered

LEMMA InvInit == Init => Inv
  <1> SUFFICES ASSUME Init PROVE Inv
    OBVIOUS
  <1>1. RestTypes
    BY BoundsAssumption DEF Init, RestTypes
  <1>2. LocalInv
    BY DEF Init, LocalInv, ItemMeansBusy, TextIsChecked, Actors, WorkerSteps
  <1>3. JobsSound
    BY BoundsAssumption, DocumentParts DEF Init, JobsSound, JobSound, Job, Statuses, Errors
  <1>4. JobsAreRegistered
    BY DEF Init, JobsAreRegistered
  <1> QED BY <1>1, <1>2, <1>3, <1>4, TypesSplit DEF Inv

LEMMA InvStep == Inv /\ [Next]_vars => Inv'
  <1> SUFFICES ASSUME Inv, [Next]_vars PROVE Inv'
    OBVIOUS
  <1>1. TypeOK /\ LocalInv /\ JobsSound /\ JobsAreRegistered
    BY DEF Inv
  <1>2. RestTypes' /\ LocalInv' /\ JobsSound' /\ JobsAreRegistered'
    BY <1>1, RestStep, LocalInvStep, JobsSoundStep, RegisteredStep
  <1>3. TypeOK'
    BY <1>2 DEF RestTypes, LocalInv, JobsSound, TypeOK, Actors
  <1> QED BY <1>2, <1>3 DEF Inv

LEMMA Invariance == Spec => []Inv
  BY InvInit, InvStep, PTL DEF Spec

\* Every variable of Embedding has its type in every reachable state.
THEOREM TypeCorrect == Spec => []TypeOK
  <1>1. Inv => TypeOK
    BY DEF Inv
  <1> QED BY <1>1, Invariance, PTL

\* The inductive invariant of the vector store and the workers on it.
THEOREM StoreInvariant == Spec => []StoreInv
  <1>1. Inv => StoreInv
    BY JobsSoundSplits DEF Inv, LocalInv, StoreInv
  <1> QED BY <1>1, Invariance, PTL

\* Chunks are stored exactly for completed jobs, and they are of the version
\* they are filed under, whatever is edited or lapses in between.
THEOREM EmbeddingsAreTrue == Spec => []EmbeddedIsTrue
  <1>1. StoreInv => EmbeddedIsTrue
    BY DEF StoreInv
  <1> QED BY <1>1, StoreInvariant, PTL

-----------------------------------------------------------------------------
(* The job table implements LeaseQueue *)

QueueStep == [Lease!Next]_(Lease!vars)

\* How a write to one job looks in the queue.
LEMMA QueueWrite ==
    ASSUME job \in [Documents -> Job], NEW d \in Documents, NEW r, SetJob(d, r)
    PROVE  /\ queueState' = [queueState EXCEPT ![d] = QueueState(r)]
           /\ queueHolder' = [queueHolder EXCEPT ![d] = r.tok]
           /\ queueLive' = [queueLive EXCEPT ![d] = (r.lease = "live")]
  BY DEF queueState, queueHolder, queueLive, SetJob

LEMMA JobsStay ==
    ASSUME UNCHANGED job PROVE UNCHANGED <<queueState, queueHolder, queueLive>>
  BY DEF queueState, queueHolder, queueLive

\* A worker that changes no job either stays on its item or leaves it.
LEMMA WorkersTurn ==
    ASSUME LocalInv, UNCHANGED job, NEW w \in Workers,
           UNCHANGED item \/ item' = [item EXCEPT ![w] = None]
    PROVE  QueueStep
  <1>1. UNCHANGED <<queueState, queueHolder, queueLive>>
    BY JobsStay
  <1>2. CASE UNCHANGED item
    <2>1. UNCHANGED queueBusy
      BY <1>2 DEF queueBusy
    <2> QED BY <1>1, <2>1 DEF QueueStep, Lease!vars
  <1>3. CASE item' = [item EXCEPT ![w] = None]
    <2>1. queueBusy' = [queueBusy EXCEPT ![w] = None]
      BY <1>3 DEF queueBusy, LocalInv, Actors
    <2> QED BY <1>1, <2>1 DEF QueueStep, Lease!Next, Lease!Leave, Lease!Turn
  <1> QED BY <1>2, <1>3

\* Ingesters are not holders.
LEMMA IngestersAside ==
    ASSUME LocalInv, UNCHANGED job, NEW i \in Ingesters,
           \E d : item' = [item EXCEPT ![i] = d]
    PROVE  QueueStep
  <1>1. i \notin Workers
    BY ActorsAssumption
  <1>2. UNCHANGED queueBusy
    BY <1>1 DEF queueBusy, LocalInv, Actors
  <1> QED BY <1>2, JobsStay DEF QueueStep, Lease!vars

\* A worker ends the claim it owns and turns away.
LEMMA OwnerEnds ==
    ASSUME LocalInv, job \in [Documents -> Job], NEW w \in Workers,
           item[w] \in Documents, Owned(item[w], w),
           NEW s \in {"completed", "retryable", "failed"}, NEW e,
           SetJob(item[w], Ended(job[item[w]], s, e)),
           item' = [item EXCEPT ![w] = None]
    PROVE  QueueStep
  <1> DEFINE d == item[w]
             r == Ended(job[d], s, e)
  <1>1. r.st = s /\ r.tok = None /\ r.lease = "none"
    BY DEF Ended, Job
  <1>2. SetJob(d, r)
    OBVIOUS
  <1> HIDE DEF r
  <1>3. QueueState(r) \in {"open", "closed"}
    BY <1>1 DEF QueueState
  <1>4. Lease!Become(d, QueueState(r), None, FALSE)
    BY <1>1, <1>2, QueueWrite DEF Lease!Become
  <1>5. queueBusy' = [queueBusy EXCEPT ![w] = None]
    BY DEF queueBusy, LocalInv, Actors
  <1>6. queueState[d] = "held" /\ queueHolder[d] = w /\ queueBusy[w] = d
    BY DEF queueState, queueHolder, queueBusy, QueueState, Owned
  <1>7. Lease!End(d, w, QueueState(r))
    BY <1>4, <1>5, <1>6 DEF Lease!End, Lease!Turn
  <1>8. Lease!End(d, w, "open") \/ Lease!End(d, w, "closed")
    BY <1>3, <1>7
  <1> QED BY <1>8 DEF QueueStep, Lease!Next

LEMMA QueueInit == Init => Lease!Init
  <1> SUFFICES ASSUME Init PROVE Lease!Init
    OBVIOUS
  <1>1. /\ queueState = [d \in Documents |-> "open"]
        /\ queueHolder = [d \in Documents |-> None]
        /\ queueLive = [d \in Documents |-> FALSE]
        /\ queueBusy = [w \in Workers |-> None]
    BY DEF Init, queueState, queueHolder, queueLive, queueBusy, QueueState
  <1> QED BY <1>1 DEF Lease!Init

\* Every step of workers, ingesters and editors is a step of the queue or none.
LEMMA QueueSimulation == Inv /\ [Next]_vars => QueueStep
  <1> SUFFICES ASSUME Inv, [Next]_vars PROVE QueueStep
    OBVIOUS
  <1>a. /\ LocalInv /\ job \in [Documents -> Job]
        /\ \A d \in Documents : job[d] \in Job
        /\ \A w \in Workers : pc[w] = "loop" => item[w] = None
    BY DEF Inv, JobsSound, LocalInv, ItemMeansBusy
  <1>b. ASSUME NEW w \in Workers, UNCHANGED job,
               UNCHANGED item \/ item' = [item EXCEPT ![w] = None]
        PROVE  QueueStep
    BY <1>a, <1>b, WorkersTurn
  <1>1. ASSUME NEW w \in Workers, WorkerStep(w) PROVE QueueStep
    <2>1. CASE Start(w) \/ FinishRun(w) \/ Load(w) \/ Embed(w)
      BY <2>1, <1>b DEF Start, FinishRun, Load, Embed, storeVars, EndRun, Proceed, runVars
    <2>2. ASSUME NEW d \in Documents, ClaimNext(w, d) PROVE QueueStep
      <3> DEFINE r == Claimed(job[d], w)
      <3>1. /\ Claimable(d) /\ SetJob(d, r) /\ item[w] = None
            /\ item' = [item EXCEPT ![w] = d] /\ job[d] \in Job
        BY <2>2, <1>a DEF ClaimNext, First
      <3>2. r.st = "claimed" /\ r.tok = w /\ r.lease = "live"
        BY <3>1 DEF Claimed, Job
      <3> HIDE DEF r
      <3>3. Lease!Become(d, "held", w, TRUE)
        BY <3>1, <3>2, <1>a, QueueWrite DEF QueueState, Lease!Become
      <3>4. queueBusy[w] = None /\ queueBusy' = [queueBusy EXCEPT ![w] = d]
        BY <3>1, <1>a DEF queueBusy, LocalInv, Actors
      <3>5. queueState[d] = "open" \/ (queueState[d] = "held" /\ ~queueLive[d])
        BY <3>1 DEF Claimable, queueState, queueLive, QueueState
      <3>6. Lease!Take(d, w)
        BY <3>3, <3>4, <3>5 DEF Lease!Take, Lease!Turn
      <3> QED BY <3>6 DEF QueueStep, Lease!Next
    <2>3. CASE Reconcile(w)
      <3>1. item[w] \in Documents
        BY <2>3, <1>a, OnJobHasItem DEF Reconcile, OnJob
      <3>2. CASE UNCHANGED job
        BY <2>3, <3>2, <1>b DEF Reconcile, NextJob, Proceed, runVars
      <3>3. CASE /\ Owned(item[w], w) /\ NextJob(w)
                 /\ SetJob(item[w], Ended(job[item[w]], "completed", "none"))
        BY <3>1, <3>3, <1>a, OwnerEnds DEF NextJob
      <3> QED BY <2>3, <3>2, <3>3 DEF Reconcile
    <2>4. CASE Persist(w)
      <3>1. item[w] \in Documents
        BY <2>4, <1>a, OnJobHasItem DEF Persist, OnJob
      <3>2. CASE UNCHANGED job
        BY <2>4, <3>2, <1>b DEF Persist, NextJob
      <3>3. CASE /\ Owned(item[w], w) /\ NextJob(w)
                 /\ SetJob(item[w], Ended(job[item[w]], "completed", "none"))
        BY <3>1, <3>3, <1>a, OwnerEnds DEF NextJob
      <3> QED BY <2>4, <3>2, <3>3 DEF Persist
    <2>5. CASE FailMismatch(w) \/ FailInvalid(w) \/ FailUnavailable(w) \/ Raise(w)
      <3>1. item[w] \in Documents
        BY <2>5, <1>a, OnJobHasItem
        DEF FailMismatch, FailInvalid, FailUnavailable, Raise, OnJob
      <3>2. item' = [item EXCEPT ![w] = None]
        BY <2>5 DEF FailMismatch, FailInvalid, FailUnavailable, Raise, NextJob, EndRun
      <3>3. PICK s \in {"retryable", "failed"}, e \in Errors : EndIfOwned(item[w], w, s, e)
        BY <2>5 DEF FailMismatch, FailInvalid, FailUnavailable, Raise, Errors
      <3>4. CASE ~Owned(item[w], w)
        BY <3>2, <3>3, <3>4, <1>b DEF EndIfOwned
      <3>5. CASE Owned(item[w], w)
        <4>1. SetJob(item[w], Ended(job[item[w]], s, e))
          BY <3>3, <3>5 DEF EndIfOwned, SetJob
        <4> QED BY <3>1, <3>2, <3>5, <4>1, <1>a, OwnerEnds
      <3> QED BY <3>4, <3>5
    <2> QED BY <1>1, <2>1, <2>2, <2>3, <2>4, <2>5 DEF WorkerStep
  <1>2. ASSUME NEW w \in Workers, WorkerFault(w) PROVE QueueStep
    BY <1>2, <1>b
    DEF WorkerFault, ProviderFails, StepFails, Crash, EndRun, Proceed, runVars, storeVars
  <1>3. ASSUME NEW i \in Ingesters, IngesterStep(i) \/ CrashScan(i) PROVE QueueStep
    <2>1. CASE Scan(i)
      <3>1. UNCHANGED <<queueState, queueHolder, queueLive, queueBusy>>
        BY <2>1 DEF Scan, storeVars, queueState, queueHolder, queueLive, queueBusy
      <3> QED BY <3>1 DEF QueueStep, Lease!vars
    <2>2. CASE StopScan(i) \/ \E d \in Documents : Register(i, d)
      BY <2>2, <1>a, IngestersAside DEF StopScan, Register, storeVars
    <2>3. CASE Enqueue(i)
      <3> DEFINE d == item[i]
                 r == [job[d] EXCEPT !.st = "pending"]
      <3>1. d \in Documents /\ job[d] \in Job
        BY <2>3, <1>a, OnJobHasItem DEF Enqueue
      <3>2. CASE UNCHANGED job
        BY <2>3, <3>2, <1>a, IngestersAside DEF Enqueue
      <3>3. CASE job[d].st = "absent" /\ SetJob(d, r)
        <4>1. r.st = "pending" /\ r.tok = job[d].tok /\ r.lease = job[d].lease
          BY <3>1 DEF Job
        <4>2. SetJob(d, r)
          BY <3>3
        <4> HIDE DEF r
        <4>3. /\ QueueState(r) = queueState[d] /\ r.tok = queueHolder[d]
              /\ (r.lease = "live") = queueLive[d]
          BY <3>1, <3>3, <4>1 DEF QueueState, queueState, queueHolder, queueLive
        <4>4. UNCHANGED <<queueState, queueHolder, queueLive>>
          <5>1. /\ queueState' = [queueState EXCEPT ![d] = QueueState(r)]
                /\ queueHolder' = [queueHolder EXCEPT ![d] = r.tok]
                /\ queueLive' = [queueLive EXCEPT ![d] = (r.lease = "live")]
            BY <3>1, <4>2, <1>a, QueueWrite
          <5>2. /\ queueState = [queueState EXCEPT ![d] = queueState[d]]
                /\ queueHolder = [queueHolder EXCEPT ![d] = queueHolder[d]]
                /\ queueLive = [queueLive EXCEPT ![d] = queueLive[d]]
            BY DEF queueState, queueHolder, queueLive
          <5> QED BY <4>3, <5>1, <5>2
        <4>5. i \notin Workers
          BY ActorsAssumption
        <4>6. UNCHANGED queueBusy
          BY <2>3, <4>5, <1>a DEF Enqueue, queueBusy, LocalInv, Actors
        <4> QED BY <4>4, <4>6 DEF QueueStep, Lease!vars
      <3> QED BY <2>3, <3>2, <3>3 DEF Enqueue, SetJob
    <2> QED BY <1>3, <2>1, <2>2, <2>3 DEF IngesterStep, FinishScan, CrashScan
  <1>4. ASSUME NEW d \in Documents, Expire(d) PROVE QueueStep
    <2> DEFINE r == [job[d] EXCEPT !.lease = "expired"]
    <2>1. r.st = "claimed" /\ r.tok = job[d].tok /\ r.lease = "expired"
      BY <1>4, <1>a DEF Expire, Job
    <2>2. SetJob(d, r) /\ UNCHANGED item
      BY <1>4 DEF Expire, runVars
    <2> HIDE DEF r
    <2>3. queueHolder[d] = job[d].tok
      BY DEF queueHolder
    <2>4. Lease!Become(d, "held", queueHolder[d], FALSE)
      BY <2>1, <2>2, <2>3, <1>a, QueueWrite DEF QueueState, Lease!Become
    <2>5. queueState[d] = "held" /\ queueLive[d] /\ UNCHANGED queueBusy
      BY <1>4, <2>2 DEF Expire, queueState, queueLive, QueueState, queueBusy
    <2>6. Lease!Lapse(d)
      BY <2>4, <2>5 DEF Lease!Lapse
    <2> QED BY <2>6 DEF QueueStep, Lease!Next
  <1>5. CASE UNCHANGED <<job, item>>
    <2>1. UNCHANGED <<queueState, queueHolder, queueLive, queueBusy>>
      BY <1>5 DEF queueState, queueHolder, queueLive, queueBusy
    <2> QED BY <2>1 DEF QueueStep, Lease!vars
  <1>6. ASSUME NEW a \in Articles, Edit(a) PROVE QueueStep
    BY <1>5, <1>6 DEF Edit, storeVars, runVars
  <1>7. UNCHANGED vars => QueueStep
    BY <1>5 DEF vars
  <1> QED BY <1>1, <1>2, <1>3, <1>4, <1>6, <1>7 DEF Next

\* The job table implements a table of leased work: a claim is ended only by the
\* worker that holds it and is on that job, taken over only after its lease
\* has lapsed, and a completed or failed job is never claimed again.
THEOREM JobTableKeepsLeases == Spec => KeepsLeases
  <1>1. Spec => Lease!Init
    BY QueueInit DEF Spec
  <1> QED BY <1>1, QueueSimulation, Invariance, PTL
          DEF Spec, KeepsLeases, Lease!Spec, QueueStep
=============================================================================

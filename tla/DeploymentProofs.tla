--------------------------- MODULE DeploymentProofs ---------------------------
(***************************************************************************)
(* Proofs about module Deployment, for any migrations, any number of       *)
(* operators and readers, any number of crashes and edits.  The invariant  *)
(* says what the holder of the lock knows: nobody else moves the ledger or *)
(* the schema, so what it found pending is untouched until its own script; *)
(* and what a reader knows: the rows it read are still in the ledger.      *)
(***************************************************************************)
EXTENDS Deployment, TLAPS

LockInv ==
    /\ \A s \in Appliers : lock = s <=> pc[s] # "idle"
    /\ \A s \in Readers : pc[s] \in {"idle", "inspect"}

Typed ==
    /\ done \in [Migrations -> Nat] /\ ledger \subseteq Migrations
    /\ dirty \subseteq AllPreflights /\ lock \in Appliers \cup {Nobody}
    /\ pc \in [Sessions -> {"idle", "inspect", "choose", "script", "orphan"}]
    /\ records \in [Sessions -> SUBSET Migrations]
    /\ seen \in [Sessions -> [Migrations -> Statuses \cup {"unseen"}]]
    /\ mig \in [Sessions -> 1..(Count + 1)] /\ at \in [Sessions -> Nat]
    /\ breaks \in 0..MaxBreaks /\ edits \in 0..MaxEdits

\* What a session has read is still so.
ReadInv ==
    \A s \in Sessions :
        /\ records[s] \subseteq ledger
        /\ \A m \in records[s] : Needs[m] \subseteq records[s]
        /\ pc[s] = "inspect" =>
               /\ \A m \in records[s] : m < mig[s] => seen[s][m] = "applied"
               /\ \A m \in Migrations : seen[s][m] = "applied" => m \in records[s]
        /\ \A m \in Migrations :
               /\ seen[s][m] # "drift"
               /\ seen[s][m] = "applied" =>
                      m \in ledger /\ \A n \in Needs[m] : seen[s][n] = "applied"

InScript(s) == pc[s] \in {"script", "orphan"}

\* What the holder of the lock relies on.
HolderInv ==
    \A s \in Appliers :
        /\ pc[s] = "inspect" => records[s] = ledger
        /\ pc[s] # "idle" =>
               \A m \in Migrations : seen[s][m] = "pending" =>
                   m \notin ledger /\ ((InScript(s) /\ m = mig[s]) \/ done[m] = 0)
        /\ InScript(s) =>
               /\ mig[s] \in Migrations /\ seen[s][mig[s]] = "pending"
               /\ done[mig[s]] = at[s] /\ at[s] <= Length[mig[s]]
               /\ \A n \in Needs[mig[s]] : seen[s][n] = "applied"

IInv == Typed /\ LockInv /\ RecordedIsExecuted /\ ReadInv /\ HolderInv
-----------------------------------------------------------------------------
\* The positions of the inspection, and the migrations among them.
LEMMA Counting ==
    /\ 1 \in 1..(Count + 1)
    /\ \A m \in Migrations : m \in Nat /\ m \in 1..(Count + 1) /\ m + 1 \in 1..(Count + 1)
    /\ \A k \in 1..(Count + 1) : k <= Count => k \in Migrations
  BY DeploymentAssumption DEF Migrations

LEMMA InitIInv == Init => IInv
  <1> SUFFICES ASSUME Init PROVE IInv
    OBVIOUS
  <1> USE DeploymentAssumption, Counting DEF Sessions
  <1>1. done \in [Migrations -> Nat]
    <2>1. UNION {0..Length[m] : m \in Migrations} \subseteq Nat
      OBVIOUS
    <2> QED BY <2>1 DEF Init
  <1>2. Exposed \subseteq AllPreflights
    BY DEF Exposed
  <1>3. Typed
    <2>1. Nobody \in Appliers \cup {Nobody} /\ 0 \in 0..MaxBreaks /\ 0 \in 0..MaxEdits
      OBVIOUS
    <2>2. Unseen \in [Migrations -> Statuses \cup {"unseen"}]
      BY DEF Unseen
    <2> QED BY <1>1, <1>2, <2>1, <2>2 DEF Init, Typed
  <1>4. LockInv
    BY DEF Init, LockInv
  <1>5. RecordedIsExecuted
    BY DEF Init, RecordedIsExecuted
  <1>6. ReadInv
    BY DEF Init, ReadInv, Unseen
  <1>7. HolderInv
    BY DEF Init, HolderInv, Unseen, InScript
  <1> QED BY <1>3, <1>4, <1>5, <1>6, <1>7 DEF IInv

\* The end of a run: only its pc and the lock change.
LEMMA LeaveIInv ==
    ASSUME IInv, NEW s \in Sessions, Leave(s), breaks' \in 0..MaxBreaks, pc[s] # "idle"
    PROVE  IInv'
  <1> USE DeploymentAssumption DEF Sessions
  <1>1. Typed'
    BY DEF IInv, Typed, Leave
  <1>2. LockInv'
    BY DEF IInv, Typed, LockInv, Leave
  <1>3. RecordedIsExecuted'
    BY DEF IInv, RecordedIsExecuted, Leave
  <1>4. ReadInv'
    BY DEF IInv, Typed, ReadInv, Leave
  <1>5. HolderInv'
    BY DEF IInv, Typed, HolderInv, InScript, Leave
  <1> QED BY <1>1, <1>2, <1>3, <1>4, <1>5 DEF IInv

LEMMA StartIInv ==
    ASSUME IInv, NEW s \in Sessions, Start(s)
    PROVE  IInv'
  <1> USE DeploymentAssumption DEF Sessions
  <1>1. Typed'
    BY DEF IInv, Typed, Start, Unseen, Migrations
  <1>2. LockInv'
    BY DEF IInv, Typed, LockInv, Start
  <1>3. RecordedIsExecuted'
    BY DEF IInv, RecordedIsExecuted, Start
  <1>4. ReadInv'
    BY DEF IInv, Typed, ReadInv, Start, Unseen, RecordedIsExecuted, Migrations
  <1>5. HolderInv'
    BY DEF IInv, Typed, HolderInv, InScript, Start, Unseen
  <1> QED BY <1>1, <1>2, <1>3, <1>4, <1>5 DEF IInv

LEMMA InspectIInv ==
    ASSUME IInv, NEW s \in Sessions, Inspect(s)
    PROVE  IInv'
  <1> USE DeploymentAssumption, Counting DEF Sessions
  <1> DEFINE m == mig[s]
  <1>1. m \in Migrations /\ Status(m, records[s]) \in Statuses
    BY DEF IInv, Typed, Inspect, Status, Statuses
  <1>2. /\ seen' \in [Sessions -> [Migrations -> Statuses \cup {"unseen"}]]
        /\ \A t \in Sessions, n \in Migrations :
               seen'[t][n] = IF t = s /\ n = m THEN Status(m, records[s]) ELSE seen[t][n]
    BY <1>1 DEF IInv, Typed, Inspect
  <1>3. /\ Status(m, records[s]) # "drift"
        /\ Status(m, records[s]) = "applied" <=> m \in records[s]
        /\ Status(m, records[s]) = "pending" => m \notin records[s] /\ done[m] = 0
    BY <1>1 DEF IInv, Typed, Status, Complete, RecordedIsExecuted, ReadInv
  <1>4. Typed'
    BY <1>1, <1>2 DEF IInv, Typed, Inspect
  <1>5. LockInv'
    BY DEF IInv, LockInv, Inspect
  <1>6. RecordedIsExecuted'
    BY DEF IInv, RecordedIsExecuted, Inspect
  <1>7. ReadInv'
    <2>0. /\ pc[s] = "inspect" /\ m \in Nat /\ mig' = [mig EXCEPT ![s] = m + 1] /\ mig'[s] = m + 1
          /\ \A t \in Sessions : t # s => mig'[t] = mig[t]
          /\ UNCHANGED <<ledger, pc, records>>
      BY <1>1 DEF IInv, Typed, Inspect
    <2>1. \A n \in records[s] : n < mig'[s] => seen'[s][n] = "applied"
      <3> SUFFICES ASSUME NEW n \in records[s], n < m + 1 PROVE seen'[s][n] = "applied"
        BY <2>0
      <3>1. n \in Migrations /\ n \in Nat
        BY DEF IInv, Typed
      <3>2. CASE n = m
        BY <1>1, <1>2, <1>3, <3>2
      <3>3. CASE n < m
        BY <1>2, <2>0, <3>1, <3>3 DEF IInv, ReadInv
      <3> QED BY <2>0, <3>1, <3>2, <3>3
    <2>2. seen'[s][m] = "applied" => m \in ledger /\ \A n \in Needs[m] : seen'[s][n] = "applied"
      <3> SUFFICES ASSUME seen'[s][m] = "applied"
                   PROVE  m \in ledger /\ \A n \in Needs[m] : seen'[s][n] = "applied"
        OBVIOUS
      <3>1. m \in records[s] /\ m \in ledger /\ Needs[m] \subseteq records[s]
        BY <1>1, <1>2, <1>3 DEF IInv, ReadInv
      <3>2. \A n \in Needs[m] : n \in Migrations /\ n < m + 1
        BY <1>1, <2>0
      <3> QED BY <2>0, <2>1, <3>1, <3>2
    <2>3. \A n \in Migrations : seen[s][n] = "applied" =>
              \A k \in Needs[n] : seen'[s][k] = "applied"
      <3> SUFFICES ASSUME NEW n \in Migrations, seen[s][n] = "applied", NEW k \in Needs[n]
                   PROVE  seen'[s][k] = "applied"
        OBVIOUS
      <3>1. k \in Migrations /\ seen[s][k] = "applied"
        BY DEF IInv, ReadInv
      <3>2. CASE k # m
        BY <1>2, <3>1, <3>2
      <3>3. CASE k = m
        BY <1>1, <1>2, <1>3, <2>0, <3>1, <3>3 DEF IInv, ReadInv
      <3> QED BY <3>2, <3>3
    <2>4. ASSUME NEW t \in Sessions, NEW n \in Migrations
          PROVE  /\ seen'[t][n] # "drift"
                 /\ seen'[t][n] = "applied" =>
                        n \in ledger' /\ \A k \in Needs[n] : seen'[t][k] = "applied"
      <3>1. CASE t # s
        BY <1>2, <2>0, <3>1 DEF IInv, ReadInv
      <3>2. CASE t = s /\ n = m
        BY <1>1, <1>2, <1>3, <2>0, <2>2, <3>2
      <3>3. CASE t = s /\ n # m
        BY <1>2, <2>0, <2>3, <3>3 DEF IInv, ReadInv
      <3> QED BY <3>1, <3>2, <3>3
    <2>5. ASSUME NEW t \in Sessions
          PROVE  /\ records'[t] \subseteq ledger'
                 /\ \A n \in records'[t] : Needs[n] \subseteq records'[t]
                 /\ pc'[t] = "inspect" =>
                        /\ \A n \in records'[t] : n < mig'[t] => seen'[t][n] = "applied"
                        /\ \A n \in Migrations : seen'[t][n] = "applied" => n \in records'[t]
      <3>1. CASE t # s
        BY <1>2, <2>0, <3>1 DEF IInv, Typed, ReadInv
      <3>2. CASE t = s
        BY <1>1, <1>2, <1>3, <2>0, <2>1, <3>2 DEF IInv, ReadInv
      <3> QED BY <3>1, <3>2
    <2> QED BY <2>4, <2>5 DEF ReadInv
  <1>8. HolderInv'
    BY <1>1, <1>2, <1>3 DEF IInv, Typed, HolderInv, InScript, Inspect
  <1> QED BY <1>4, <1>5, <1>6, <1>7, <1>8 DEF IInv

LEMMA DecideIInv ==
    ASSUME IInv, NEW s \in Sessions, Decide(s)
    PROVE  IInv'
  <1> USE DeploymentAssumption DEF Sessions
  <1>1. CASE Blocked(s) \/ With(s, "pending") = {}
    BY <1>1, LeaveIInv DEF Decide, Inspected, IInv, Typed
  <1>2. CASE ~(Blocked(s) \/ With(s, "pending") = {})
    <2>1. Typed'
      BY <1>2 DEF IInv, Typed, Decide
    <2>2. LockInv'
      BY <1>2 DEF IInv, Typed, LockInv, Decide, Inspected
    <2>3. RecordedIsExecuted'
      BY <1>2 DEF IInv, RecordedIsExecuted, Decide
    <2>4. ReadInv'
      BY <1>2 DEF IInv, Typed, ReadInv, Decide
    <2>5. HolderInv'
      BY <1>2 DEF IInv, Typed, HolderInv, InScript, Decide, Inspected
    <2> QED BY <2>1, <2>2, <2>3, <2>4, <2>5 DEF IInv
  <1> QED BY <1>1, <1>2

LEMMA BeginIInv ==
    ASSUME IInv, NEW s \in Sessions, Begin(s)
    PROVE  IInv'
  <1> USE DeploymentAssumption DEF Sessions
  <1>0. PICK m \in With(s, "pending") :
            IF Needs[m] \subseteq With(s, "applied") /\ Passes(m)
            THEN /\ pc' = [pc EXCEPT ![s] = "script"]
                 /\ mig' = [mig EXCEPT ![s] = m]
                 /\ at' = [at EXCEPT ![s] = 0]
                 /\ UNCHANGED <<done, ledger, dirty, lock, records, seen, edits>>
            ELSE Leave(s)
    BY DEF Begin
  <1>1. CASE ~(Needs[m] \subseteq With(s, "applied") /\ Passes(m))
    BY <1>0, <1>1, LeaveIInv DEF Begin, IInv, Typed
  <1>2. CASE Needs[m] \subseteq With(s, "applied") /\ Passes(m)
    <2>0. /\ pc[s] = "choose" /\ s \in Appliers /\ m \in Migrations
          /\ seen[s][m] = "pending" /\ breaks' = breaks
      BY DEF Begin, With, IInv, LockInv
    <2>a. /\ pc' = [pc EXCEPT ![s] = "script"]
          /\ mig' = [mig EXCEPT ![s] = m]
          /\ at' = [at EXCEPT ![s] = 0]
          /\ UNCHANGED <<done, ledger, dirty, lock, records, seen, edits>>
          /\ m \in 1..(Count + 1)
      BY <1>0, <1>2, <2>0, Counting
    <2>1. Typed'
      BY <2>a, <2>0 DEF IInv, Typed
    <2>2. LockInv'
      BY <1>0, <1>2, <2>0 DEF IInv, Typed, LockInv
    <2>3. RecordedIsExecuted'
      BY <1>0, <1>2 DEF IInv, RecordedIsExecuted
    <2>4. ReadInv'
      BY <1>0, <1>2, <2>0 DEF IInv, Typed, ReadInv
    <2>5. HolderInv'
      <3>1. done[m] = 0 /\ 0 <= Length[m]
        BY <2>0 DEF IInv, HolderInv, InScript
      <3>2. \A n \in Needs[m] : seen[s][n] = "applied"
        BY <1>2 DEF With
      <3> QED BY <1>0, <1>2, <2>0, <3>1, <3>2 DEF IInv, Typed, HolderInv, InScript
    <2> QED BY <2>1, <2>2, <2>3, <2>4, <2>5 DEF IInv
  <1> QED BY <1>1, <1>2

LEMMA StatementIInv ==
    ASSUME IInv, NEW s \in Sessions, Statement(s)
    PROVE  IInv'
  <1> USE DeploymentAssumption DEF Sessions
  <1> DEFINE m == mig[s]
  <1>1. CASE at[s] + 1 \in Fragile[m] /\ Preflights[m] \cap dirty # {}
    BY <1>1, LeaveIInv DEF Statement, IInv, Typed
  <1>2. CASE ~(at[s] + 1 \in Fragile[m] /\ Preflights[m] \cap dirty # {})
    <2>0. /\ InScript(s) /\ s \in Appliers /\ m \in Migrations /\ m \notin ledger
          /\ done[m] = at[s] /\ at[s] < Length[m] /\ breaks' = breaks
          /\ at[s] \in Nat /\ Length[m] \in Nat
      BY DEF Statement, InScript, IInv, Typed, LockInv, HolderInv
    <2>1. /\ done' = [done EXCEPT ![m] = at[s] + 1]
          /\ at' = [at EXCEPT ![s] = at[s] + 1]
          /\ UNCHANGED <<ledger, dirty, lock, pc, records, seen, mig, edits>>
      BY <1>2, <2>0 DEF Statement, IInv, Typed
    <2>2. Typed'
      BY <2>0, <2>1 DEF IInv, Typed
    <2>3. LockInv'
      BY <2>1 DEF IInv, LockInv
    <2>4. RecordedIsExecuted'
      BY <2>0, <2>1 DEF IInv, Typed, RecordedIsExecuted
    <2>5. ReadInv'
      BY <2>1 DEF IInv, ReadInv
    <2>6. HolderInv'
      <3>1. \A t \in Appliers : pc[t] # "idle" => t = s
        BY <2>0 DEF IInv, LockInv, InScript
      <3>2. done'[m] = at'[s] /\ at'[s] <= Length[m]
        BY <2>0, <2>1 DEF IInv, Typed
      <3>3. \A n \in Migrations : n # m => done'[n] = done[n]
        BY <2>0, <2>1 DEF IInv, Typed
      <3> QED BY <2>0, <2>1, <3>1, <3>2, <3>3 DEF IInv, HolderInv, InScript
    <2> QED BY <2>2, <2>3, <2>4, <2>5, <2>6 DEF IInv
  <1> QED BY <1>1, <1>2

LEMMA RecordIInv ==
    ASSUME IInv, NEW s \in Sessions, Record(s)
    PROVE  IInv'
  <1> USE DeploymentAssumption DEF Sessions
  <1> DEFINE m == mig[s]
  <1>1. CASE ~(Complete(m) /\ m \notin ledger)
    BY <1>1, LeaveIInv DEF Record, IInv, Typed
  <1>2. CASE Complete(m) /\ m \notin ledger
    <2>0. /\ pc[s] = "script" /\ s \in Appliers /\ m \in Migrations
          /\ done[m] = Length[m] /\ breaks' = breaks /\ m \notin ledger
          /\ \A n \in Needs[m] : seen[s][n] = "applied" /\ n \in ledger
          /\ Needs[m] \subseteq Migrations
      BY <1>2 DEF Record, ScriptDone, InScript, IInv, Typed, LockInv, HolderInv, ReadInv
    <2>1. /\ ledger' = ledger \cup {m}
          /\ pc' = [pc EXCEPT ![s] = "choose"]
          /\ UNCHANGED <<done, dirty, lock, records, mig, at, edits>>
      BY <1>2 DEF Record
    <2>2. /\ seen' \in [Sessions -> [Migrations -> Statuses \cup {"unseen"}]]
          /\ \A t \in Sessions, n \in Migrations :
                 seen'[t][n] = IF t = s /\ n = m THEN "applied" ELSE seen[t][n]
      BY <1>2, <2>0 DEF Record, IInv, Typed, Statuses
    <2>3. Typed'
      BY <2>0, <2>1, <2>2 DEF IInv, Typed
    <2>4. LockInv'
      BY <2>0, <2>1 DEF IInv, Typed, LockInv
    <2>5. RecordedIsExecuted'
      BY <2>0, <2>1 DEF IInv, RecordedIsExecuted
    <2>6. ReadInv'
      <3>1. \A t \in Sessions : pc'[t] = "inspect" => pc[t] = "inspect" /\ t # s
        BY <2>0, <2>1 DEF IInv, Typed
      <3>2. \A t \in Sessions, n \in Migrations :
                seen'[t][n] = "applied" => \A k \in Needs[n] : seen'[t][k] = "applied"
        BY <2>0, <2>2 DEF IInv, ReadInv
      <3> QED BY <2>0, <2>1, <2>2, <3>1, <3>2 DEF IInv, Typed, ReadInv
    <2>7. HolderInv'
      <3>1. \A t \in Appliers : pc[t] # "idle" => t = s
        BY <2>0 DEF IInv, LockInv
      <3>2. \A t \in Appliers : pc'[t] = IF t = s THEN "choose" ELSE pc[t]
        BY <2>1 DEF IInv, Typed
      <3> QED BY <2>0, <2>1, <2>2, <3>1, <3>2 DEF IInv, HolderInv, InScript
    <2> QED BY <2>3, <2>4, <2>5, <2>6, <2>7 DEF IInv
  <1> QED BY <1>1, <1>2

LEMMA DiesIInv ==
    ASSUME IInv, NEW s \in Sessions, Dies(s), breaks' \in 0..MaxBreaks
    PROVE  IInv'
  <1> USE DeploymentAssumption DEF Sessions
  <1>1. Typed'
    BY DEF IInv, Typed, Dies
  <1>2. LockInv'
    BY DEF IInv, Typed, LockInv, Dies
  <1>3. RecordedIsExecuted'
    BY DEF IInv, RecordedIsExecuted, Dies
  <1>4. ReadInv'
    BY DEF IInv, Typed, ReadInv, Dies
  <1>5. HolderInv'
    BY DEF IInv, Typed, HolderInv, InScript, Dies
  <1> QED BY <1>1, <1>2, <1>3, <1>4, <1>5 DEF IInv

LEMMA EditIInv ==
    ASSUME IInv, NEW p \in AllPreflights, Edit(p)
    PROVE  IInv'
  <1>1. Typed'
    BY DeploymentAssumption DEF IInv, Typed, Edit
  <1>2. (LockInv /\ RecordedIsExecuted /\ ReadInv /\ HolderInv)'
    BY DEF IInv, LockInv, RecordedIsExecuted, ReadInv, HolderInv, InScript, Edit
  <1> QED BY <1>1, <1>2 DEF IInv

\* The invariant is inductive: one case per action.
LEMMA NextIInv == IInv /\ [Next]_vars => IInv'
  <1> SUFFICES ASSUME IInv, [Next]_vars PROVE IInv'
    OBVIOUS
  <1> USE DeploymentAssumption
  <1>1. ASSUME NEW s \in Sessions, Start(s) PROVE IInv'
    BY <1>1, StartIInv
  <1>2. ASSUME NEW s \in Sessions, Inspect(s) PROVE IInv'
    BY <1>2, InspectIInv
  <1>3. ASSUME NEW s \in Sessions, Report(s) PROVE IInv'
    BY <1>3, LeaveIInv DEF Report, Inspected, IInv, Typed
  <1>4. ASSUME NEW s \in Sessions, Decide(s) PROVE IInv'
    BY <1>4, DecideIInv
  <1>5. ASSUME NEW s \in Sessions, Begin(s) PROVE IInv'
    BY <1>5, BeginIInv
  <1>6. ASSUME NEW s \in Sessions, Finish(s) PROVE IInv'
    BY <1>6, LeaveIInv DEF Finish, IInv, Typed
  <1>7. ASSUME NEW s \in Sessions, Statement(s) PROVE IInv'
    BY <1>7, StatementIInv
  <1>8. ASSUME NEW s \in Sessions, Record(s) PROVE IInv'
    BY <1>8, RecordIInv
  <1>9. ASSUME NEW s \in Sessions, Break(s) PROVE IInv'
    <2>1. breaks' \in 0..MaxBreaks
      BY <1>9 DEF Break, IInv, Typed
    <2> QED BY <1>9, <2>1, LeaveIInv, DiesIInv DEF Break
  <1>10. ASSUME NEW s \in Sessions, OrphanEnds(s) PROVE IInv'
    BY <1>10, LeaveIInv DEF OrphanEnds, IInv, Typed
  <1>11. ASSUME NEW p \in AllPreflights, Edit(p) PROVE IInv'
    BY <1>11, EditIInv
  <1>12. CASE UNCHANGED vars
    BY <1>12 DEF vars, IInv, Typed, LockInv, RecordedIsExecuted, ReadInv, HolderInv, InScript
  <1> QED BY <1>1, <1>2, <1>3, <1>4, <1>5, <1>6, <1>7, <1>8, <1>9, <1>10, <1>11, <1>12
       DEF Next

\* Every reachable state satisfies the invariant.
LEMMA Invariance == Spec => []IInv
  BY InitIInv, NextIInv, PTL DEF Spec
-----------------------------------------------------------------------------
LEMMA IInvImplies ==
    IInv => TypeOK /\ RecordedIsExecuted /\ ScriptRunsAlone /\ ReportsHold
  <1> SUFFICES ASSUME IInv PROVE TypeOK /\ RecordedIsExecuted /\ ScriptRunsAlone /\ ReportsHold
    OBVIOUS
  <1> USE DeploymentAssumption DEF Sessions
  <1>1. TypeOK
    BY DEF IInv, Typed, TypeOK, LockInv
  <1>2. ScriptRunsAlone
    <2> SUFFICES ASSUME NEW s \in Sessions, pc[s] \in {"script", "orphan"}
                 PROVE  /\ done[mig[s]] = at[s] /\ mig[s] \notin ledger
                        /\ \A t \in Sessions \ {s} : pc[t] \notin {"choose", "script", "orphan"}
      BY DEF ScriptRunsAlone
    <2>1. s \in Appliers /\ lock = s
      BY DEF IInv, LockInv
    <2>2. /\ mig[s] \in Migrations /\ seen[s][mig[s]] = "pending"
          /\ done[mig[s]] = at[s]
      BY <2>1 DEF IInv, HolderInv, InScript
    <2>3. mig[s] \notin ledger
      BY <2>1, <2>2 DEF IInv, HolderInv
    <2>4. ASSUME NEW t \in Sessions \ {s} PROVE pc[t] \notin {"choose", "script", "orphan"}
      BY <2>1 DEF IInv, LockInv
    <2> QED BY <2>2, <2>3, <2>4
  <1>3. ReportsHold
    BY DEF IInv, ReadInv, ReportsHold, With, RecordedIsExecuted
  <1> QED BY <1>1, <1>2, <1>3 DEF IInv

\* Every variable of the migration service keeps its type, and only the holder of
\* the lock is past its inspection.
THEOREM TypeCorrect == Spec => []TypeOK
  BY Invariance, IInvImplies, PTL

\* The ledger never runs ahead of the database: a row stands for a script that ran
\* to its end and for rows of all it depends on (service.py, apply).
THEOREM LedgerIsTrue == Spec => []RecordedIsExecuted
  BY Invariance, IInvImplies, PTL

\* A migration script never meets the work of another run (_inspect, migration_lock).
THEOREM ScriptsRunAlone == Spec => []ScriptRunsAlone
  BY Invariance, IInvImplies, PTL

\* A report made without the lock never shows a false applied, drift or broken
\* dependency (_inspect, feature_readiness).
THEOREM ReportsAreTrue == Spec => []ReportsHold
  BY Invariance, IInvImplies, PTL
=============================================================================

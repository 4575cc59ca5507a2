------------------------------ MODULE Deployment ------------------------------
(***************************************************************************)
(* The migration service of GetNewsAPI/deployment on one database: several *)
(* operators run apply, others only look (plan, check, verify, readiness). *)
(* A script is a sequence of statements, each committed for good when it   *)
(* ends; the ledger holds the migrations that were executed and verified.  *)
(* What exists in the schema shows before the last statement has run: the  *)
(* backfills of app-002 leave no trace a verification reads.               *)
(***************************************************************************)
EXTENDS Integers, FiniteSets

CONSTANTS
    Count,        \* forward migrations of the target, 1..Count in their order
    Needs,        \* Needs[m]: the forward migrations m depends on
    Preflights,   \* Preflights[m]: the read-only scripts that must find no row
    Fresh,        \* preflights that also fail once their migration's table exists
    Length,       \* Length[m]: statements of the script
    Shown,        \* Shown[m]: statements after which the schema of m verifies
    Fragile,      \* Fragile[m]: statements that fail on rows a preflight of m finds
    Appliers, Readers, Nobody,
    MaxBreaks,    \* bound: errors and deaths of runs
    MaxEdits      \* bound: changes of the rows the preflights look at

Migrations == 1..Count

ASSUME DeploymentAssumption ==
    /\ Count \in Nat
    /\ Needs \in [Migrations -> SUBSET Migrations]
    /\ \A m \in Migrations : \A n \in Needs[m] : n < m
    /\ Length \in [Migrations -> Nat] /\ Shown \in [Migrations -> Nat]
    /\ \A m \in Migrations : 0 < Shown[m] /\ Shown[m] <= Length[m]
    /\ Fragile \in [Migrations -> SUBSET Nat]
    /\ Appliers \cap Readers = {}
    /\ Nobody \notin Appliers \cup Readers
    /\ MaxBreaks \in Nat /\ MaxEdits \in Nat

Sessions == Appliers \cup Readers
AllPreflights == UNION {Preflights[m] : m \in Migrations}

VARIABLES
    done,     \* done[m]: statements of m the database has executed
    ledger,   \* the rows of getnewsapi_migration_ledger
    dirty,    \* the preflights whose queries return rows of data now
    lock,     \* the session that holds the advisory lock
    pc, records, seen, mig, at,   \* of a session: see Start, Inspect, Statement
    breaks, edits

vars == <<done, ledger, dirty, lock, pc, records, seen, mig, at, breaks, edits>>

Statuses == {"pending", "applied", "drift", "ambiguous", "untracked"}
Unseen == [m \in Migrations |-> "unseen"]

\* The preflights that can find a row: none whose unique index stands already.
Exposed == {p \in AllPreflights :
                \A m \in Migrations : p \in Preflights[m] =>
                    \A i \in Fragile[m] : done[m] < i}

\* The scripts may have been run by hand before there was a ledger, in their
\* order and perhaps not to the end.
Init ==
    /\ done \in {d \in [Migrations -> UNION {0..Length[m] : m \in Migrations}] :
                    \A m \in Migrations :
                        /\ d[m] <= Length[m]
                        /\ d[m] > 0 => \A n \in Needs[m] : d[n] >= Shown[n]}
    /\ dirty \in SUBSET Exposed
    /\ ledger = {} /\ lock = Nobody
    /\ pc = [s \in Sessions |-> "idle"]
    /\ records = [s \in Sessions |-> {}]
    /\ seen = [s \in Sessions |-> Unseen]
    /\ mig = [s \in Sessions |-> 1]
    /\ at = [s \in Sessions |-> 0]
    /\ breaks = 0 /\ edits = 0
-----------------------------------------------------------------------------
Complete(m) == done[m] >= Shown[m]

Status_PartialIsPending(m, recorded) ==
    IF m \in recorded THEN IF Complete(m) THEN "applied" ELSE "drift"
    ELSE IF Complete(m) THEN "untracked" ELSE "pending"
Status_Adopting(m, recorded) ==
    IF m \in recorded /\ ~Complete(m) THEN "drift"
    ELSE IF Complete(m) THEN "applied"
    ELSE IF done[m] = 0 THEN "pending" ELSE "ambiguous"

\* What _inspect says of a migration from the ledger rows it read and the schema.
Status(m, recorded) ==
    IF m \in recorded THEN IF Complete(m) THEN "applied" ELSE "drift"
    ELSE IF done[m] = 0 THEN "pending"
    ELSE IF Complete(m) THEN "untracked" ELSE "ambiguous"

With(s, status) == {m \in Migrations : seen[s][m] = status}

\* _blocked: a status that needs a person, or a migration applied before one it needs.
Blocked(s) ==
    \/ \E m \in Migrations : seen[s][m] \in {"drift", "ambiguous", "untracked"}
    \/ \E m \in With(s, "applied") : ~(Needs[m] \subseteq With(s, "applied"))

Passes(m) ==
    \A p \in Preflights[m] : p \notin dirty /\ (p \in Fresh => done[m] = 0)

\* The run ends and its connection closes, which releases the lock.
Leave(s) ==
    /\ pc' = [pc EXCEPT ![s] = "idle"]
    /\ lock' = IF lock = s THEN Nobody ELSE lock
    /\ UNCHANGED <<done, ledger, dirty, records, seen, mig, at, edits>>

\* A run begins.  apply has passed its gates and takes the lock, or gives up when
\* another session holds it; every run then reads the ledger.
Start(s) ==
    /\ pc[s] = "idle"
    /\ s \in Appliers => lock = Nobody
    /\ lock' = IF s \in Appliers THEN s ELSE lock
    /\ pc' = [pc EXCEPT ![s] = "inspect"]
    /\ records' = [records EXCEPT ![s] = ledger]
    /\ seen' = [seen EXCEPT ![s] = Unseen]
    /\ mig' = [mig EXCEPT ![s] = 1]
    /\ UNCHANGED <<done, ledger, dirty, at, breaks, edits>>

\* Then it inspects the schema, one migration after the other.
Inspect(s) ==
    /\ pc[s] = "inspect" /\ mig[s] <= Count
    /\ seen' = [seen EXCEPT ![s][mig[s]] = Status(mig[s], records[s])]
    /\ mig' = [mig EXCEPT ![s] = mig[s] + 1]
    /\ UNCHANGED <<done, ledger, dirty, lock, pc, records, at, breaks, edits>>

Inspected(s) == pc[s] = "inspect" /\ mig[s] = Count + 1

\* plan, check, verify and feature_readiness report and change nothing.
Report(s) ==
    /\ Inspected(s) /\ s \in Readers
    /\ Leave(s) /\ UNCHANGED breaks

\* apply refuses a blocked target; with nothing pending it only looks again.
Decide(s) ==
    /\ Inspected(s) /\ s \in Appliers
    /\ IF Blocked(s) \/ With(s, "pending") = {}
       THEN Leave(s)
       ELSE /\ pc' = [pc EXCEPT ![s] = "choose"]
            /\ UNCHANGED <<done, ledger, dirty, lock, records, seen, mig, at, edits>>
    /\ UNCHANGED breaks

\* The first migration still pending: its dependencies, its preflights, then its script.
Begin(s) ==
    /\ pc[s] = "choose"
    /\ \E m \in With(s, "pending") :
        /\ \A n \in With(s, "pending") : m <= n
        /\ IF Needs[m] \subseteq With(s, "applied") /\ Passes(m)
           THEN /\ pc' = [pc EXCEPT ![s] = "script"]
                /\ mig' = [mig EXCEPT ![s] = m]
                /\ at' = [at EXCEPT ![s] = 0]
                /\ UNCHANGED <<done, ledger, dirty, lock, records, seen, edits>>
           ELSE Leave(s)
    /\ UNCHANGED breaks

\* The last migration is through: the whole schema is verified and the run ends.
Finish(s) ==
    /\ pc[s] = "choose" /\ With(s, "pending") = {}
    /\ Leave(s) /\ UNCHANGED breaks

\* execute_script: the server executes the next statement and commits it, or
\* fails on the rows it meets; what was executed before stays.
Statement(s) ==
    /\ pc[s] \in {"script", "orphan"} /\ at[s] < Length[mig[s]]
    /\ IF at[s] + 1 \in Fragile[mig[s]] /\ Preflights[mig[s]] \cap dirty # {}
       THEN Leave(s)
       ELSE /\ done' = [done EXCEPT ![mig[s]] = IF @ <= at[s] THEN at[s] + 1 ELSE @]
            /\ at' = [at EXCEPT ![s] = at[s] + 1]
            /\ UNCHANGED <<ledger, dirty, lock, pc, records, seen, mig, edits>>
    /\ UNCHANGED breaks

ScriptDone_WhenItShows(s) == Complete(mig[s])
ScriptDone(s) == at[s] = Length[mig[s]]

\* verify_artifact, then record_migration; a failure ends the run without a row.
Record(s) ==
    /\ pc[s] = "script" /\ ScriptDone(s)
    /\ IF Complete(mig[s]) /\ mig[s] \notin ledger
       THEN /\ ledger' = ledger \cup {mig[s]}
            /\ seen' = [seen EXCEPT ![s][mig[s]] = "applied"]
            /\ pc' = [pc EXCEPT ![s] = "choose"]
            /\ UNCHANGED <<done, dirty, lock, records, mig, at, edits>>
       ELSE Leave(s)
    /\ UNCHANGED breaks

\* The process dies in the script: the server still works on what it was sent,
\* and the session, with the lock, lives until it notices.
Dies(s) ==
    /\ pc[s] = "script"
    /\ pc' = [pc EXCEPT ![s] = "orphan"]
    /\ UNCHANGED <<done, ledger, dirty, lock, records, seen, mig, at, edits>>

\* An error or a death of the process, at any step of a run.
Break(s) ==
    /\ breaks < MaxBreaks /\ pc[s] \notin {"idle", "orphan"}
    /\ breaks' = breaks + 1
    /\ Leave(s) \/ Dies(s)

OrphanEnds(s) == pc[s] = "orphan" /\ Leave(s) /\ UNCHANGED breaks

\* The application, or a person, changes the rows a preflight looks at.
Edit(p) ==
    /\ edits < MaxEdits /\ p \in Exposed
    /\ edits' = edits + 1
    /\ dirty' = IF p \in dirty THEN dirty \ {p} ELSE dirty \cup {p}
    /\ UNCHANGED <<done, ledger, lock, pc, records, seen, mig, at, breaks>>

Next ==
    \/ \E s \in Sessions :
        \/ Start(s) \/ Inspect(s) \/ Report(s) \/ Decide(s) \/ Begin(s)
        \/ Finish(s) \/ Statement(s) \/ Record(s) \/ Break(s) \/ OrphanEnds(s)
    \/ \E p \in AllPreflights : Edit(p)

Spec == Init /\ [][Next]_vars
-----------------------------------------------------------------------------
\* Every variable has its type.
TypeOK ==
    /\ done \in [Migrations -> Nat] /\ ledger \subseteq Migrations
    /\ dirty \subseteq AllPreflights /\ lock \in Appliers \cup {Nobody}
    /\ pc \in [Sessions -> {"idle", "inspect", "choose", "script", "orphan"}]
    /\ records \in [Sessions -> SUBSET Migrations]
    /\ seen \in [Sessions -> [Migrations -> Statuses \cup {"unseen"}]]
    /\ mig \in [Sessions -> 1..(Count + 1)] /\ at \in [Sessions -> Nat]
    /\ \A s \in Sessions : pc[s] \in {"choose", "script", "orphan"} => lock = s
    /\ breaks \in 0..MaxBreaks /\ edits \in 0..MaxEdits

\* A ledger row stands for a script that ran to its last statement, the backfills
\* included, and for rows of all it depends on (service.py, apply), whoever
\* crashed and whatever the schema already showed.
RecordedIsExecuted ==
    \A m \in ledger : done[m] = Length[m] /\ Needs[m] \subseteq ledger

\* A script meets nothing but its own work: neither the remains of an earlier run
\* nor a run that works beside it, not even one whose process is gone
\* (_inspect's ambiguous status, migration_lock).
ScriptRunsAlone ==
    \A s \in Sessions : pc[s] \in {"script", "orphan"} =>
        /\ done[mig[s]] = at[s] /\ mig[s] \notin ledger
        /\ \A t \in Sessions \ {s} : pc[t] \notin {"choose", "script", "orphan"}

\* A look without the lock, in the middle of an apply, never says applied of a
\* migration whose script has not run to the end, and never raises a false drift
\* or a false "applied while its dependency is not" (read_ledger is read before
\* the schema; _inspect).
ReportsHold ==
    \A s \in Sessions :
        /\ With(s, "drift") = {}
        /\ \A m \in With(s, "applied") :
            /\ done[m] = Length[m]
            /\ \A n \in Needs[m] : seen[s][n] = "applied"
=============================================================================

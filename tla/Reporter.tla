------------------------------- MODULE Reporter -------------------------------
(***************************************************************************)
(* Delivery of the daily cost report of one date.  A run of the reporter   *)
(* (run_report) writes a PDF and a JSON snapshot and a delivery marker     *)
(* beside them, uploads the two files to Google Drive and sends the report *)
(* to its notification channels, saving the marker after each acceptance.  *)
(* The Apps Script receiver (doPost) handles uploads one at a time behind  *)
(* its script lock, and may still handle one after the reporter gave up    *)
(* waiting.  The fetch of the billing data is module Billing.              *)
(*                                                                         *)
(* Abstractions.  A file holds the number of the fetch it was made from.   *)
(* A destination is an Apps Script deployment or the OAuth backend, and    *)
(* holds one pair of files; folders are there already.  The script lock is *)
(* taken for the nonce and the comparison of both files in one step, since *)
(* only its holder changes them.  Signatures and formats are right.  Time  *)
(* is the age of each request in ticks: Window ticks are 300 seconds.      *)
(* Losing the file lock ends an execution before it reads anything: runs   *)
(* come one after the other.  Runs with --demo use files of their own.     *)
(***************************************************************************)
EXTENDS Billing, Sequences, FiniteSetsExt

CONSTANTS
    ChannelOrder,   \* notification channels in sending order: email, then WhatsApp
    WhatsApp,       \* the channels sent through the retrying HTTP session
    ScriptTargets,  \* destinations behind an Apps Script deployment
    OAuthTargets,   \* destinations of the OAuth backend
    Ids,            \* bound: requests that can be under way or remembered at once
    Window,         \* ticks a signed timestamp is accepted for
    MaxNonces,      \* AI_COST_MAX_NONCES
    MaxForced,      \* bound on runs with --force-resend
    MaxInspected,   \* bound on runs with --no-send
    MaxCrashes,     \* bound on runs killed in the middle
    MaxFaults       \* bound on failed calls, lost answers and changed settings

Channels == {ChannelOrder[k] : k \in DOMAIN ChannelOrder}
Targets == ScriptTargets \union OAuthTargets

ASSUME ChannelsAssumption == ChannelOrder \in Seq(Channels) /\ WhatsApp \subseteq Channels
ASSUME TargetsAssumption ==
    /\ Targets # {} /\ "none" \notin Targets
    /\ ScriptTargets \intersect OAuthTargets = {}
ASSUME ReporterBounds ==
    /\ Ids \subseteq Nat \ {0}
    /\ {Window, MaxNonces, MaxForced, MaxInspected, MaxCrashes, MaxFaults} \subseteq Nat

VARIABLES
    disk,     \* the pdf and the json of the date
    marker,   \* the delivery marker, or NoMarker
    run,      \* the run under way
    target,   \* the configured destination
    drive,    \* the pair of files each destination holds
    net,      \* requests sent to the receiver
    script,   \* the request the receiver is executing
    mail,     \* what each channel accepted, in order
    made,     \* number of fetches whose amounts were written
    budget    \* what went out of the ordinary so far

vars == <<billingVars, disk, marker, run, target, drive, net, script, mail, made, budget>>

Absent == 0
MaxMade == 1 + MaxForced + MaxInspected + MaxCrashes
Torn == MaxMade + 1   \* a PDF whose writing was cut off
Contents == 0..Torn

NoMarker == [drive |-> FALSE, replace |-> FALSE, sent |-> {}, target |-> "none"]
FreshMarker(t, forced) == [drive |-> FALSE, replace |-> forced, sent |-> {}, target |-> t]
NoRun == [pc |-> "idle", mode |-> "send", made |-> 0, status |-> NoMarker, id |-> 0,
          answer |-> "none"]
NoRequest == [copies |-> 0, age |-> 0, noted |-> FALSE, ran |-> 0, replace |-> FALSE,
              to |-> "none", files |-> [pdf |-> Absent, json |-> Absent]]
NotRunning == [id |-> 0, left |-> {}]

Init ==
    /\ BillingInit
    /\ disk = [pdf |-> Absent, json |-> Absent]
    /\ marker = NoMarker
    /\ run = NoRun
    /\ target \in Targets
    /\ drive = [t \in Targets |-> [pdf |-> Absent, json |-> Absent]]
    /\ net = [i \in Ids |-> NoRequest]
    /\ script = NotRunning
    /\ mail = [c \in Channels |-> <<>>]
    /\ made = 0
    /\ budget = [forced |-> 0, inspected |-> 0, crashes |-> 0, faults |-> 0]

Marked == marker # NoMarker

Fault == budget.faults < MaxFaults /\ budget' = [budget EXCEPT !.faults = @ + 1]

\* The run goes on at step p, or ends with an error.
Goto(p) == run' = [run EXCEPT !.pc = p]
EndRun == run' = NoRun

remoteVars == <<drive, net, script, mail>>
localVars == <<disk, marker, target, made>>

-----------------------------------------------------------------------------
(* run_report: from the lock to the marker *)

Loaded_AnyTarget == [marker EXCEPT !.target = target]
\* The marker of the same destination says what is delivered already.
Loaded == [marker EXCEPT !.drive = @ /\ marker.target = target,
                         !.replace = @ /\ marker.target = target,
                         !.target = target]

Complete(status) == status.drive /\ status.sent = Channels

Reuses_Never(mode) == FALSE
\* An ordinary run finds a marker: it goes on with the snapshot on disk.
Reuses(mode) == Marked /\ mode = "send"

\* An unfinished delivery is resumed; a finished one is left alone.
Resume(mode) ==
    /\ run.pc = "idle"
    /\ Reuses(mode)
    /\ ~Complete(Loaded)
    /\ disk.json # Absent
    /\ run' = [NoRun EXCEPT !.pc = "deliver", !.made = disk.json, !.status = Loaded]
    /\ UNCHANGED <<billingVars, localVars, remoteVars, budget>>

\* Everything else fetches the billing data again; an inspection never does so
\* once there is a marker.
Regenerate(mode) ==
    /\ run.pc = "idle"
    /\ ~Reuses(mode)
    /\ mode = "inspect" => ~Marked /\ budget.inspected < MaxInspected
    /\ mode = "force" => budget.forced < MaxForced
    /\ StartFetch
    /\ run' = [NoRun EXCEPT !.pc = "fetch", !.mode = mode,
                            !.status = FreshMarker(target, mode = "force")]
    /\ budget' = [budget EXCEPT !.forced = @ + (IF mode = "force" THEN 1 ELSE 0),
                                !.inspected = @ + (IF mode = "inspect" THEN 1 ELSE 0)]
    /\ UNCHANGED <<localVars, remoteVars>>

ReadBilling ==
    /\ run.pc = "fetch"
    /\ BillingStep
    /\ UNCHANGED <<localVars, remoteVars, run, budget>>

BillingFails_Swallowed ==
    /\ run.pc = "fetch"
    /\ FetchFails
    /\ UNCHANGED <<localVars, remoteVars, run, budget>>
BillingFails ==
    /\ run.pc = "fetch"
    /\ FetchFails
    /\ EndRun
    /\ UNCHANGED <<localVars, remoteVars, budget>>

\* create_pdf
WritePdf ==
    /\ run.pc = "fetch"
    /\ UseAmounts
    /\ made' = made + 1
    /\ run' = [run EXCEPT !.pc = "json", !.made = made']
    /\ disk' = [disk EXCEPT !.pdf = made']
    /\ UNCHANGED <<marker, target, remoteVars, budget>>

\* write_json_atomic(json_path): an inspection ends here.
WriteJson ==
    /\ run.pc = "json"
    /\ disk' = [disk EXCEPT !.json = run.made]
    /\ IF run.mode = "inspect" THEN EndRun ELSE Goto("mark")
    /\ UNCHANGED <<billingVars, marker, target, made, remoteVars, budget>>

\* The marker is written before the first external send.
WriteMarker ==
    /\ run.pc = "mark"
    /\ marker' = run.status
    /\ Goto("deliver")
    /\ UNCHANGED <<billingVars, disk, target, made, remoteVars, budget>>

-----------------------------------------------------------------------------
(* run_report: Drive, then the channels, saving the marker after each *)

Free(i) == net[i].copies = 0 /\ ~net[i].noted /\ script.id # i

\* AppsScriptPublisher.publish: a request of its own timestamp and nonce.
SendRequest(i) ==
    /\ run.pc = "deliver" /\ ~run.status.drive
    /\ run.status.target \in ScriptTargets
    /\ disk.pdf # Torn
    /\ Free(i) /\ \A j \in Ids : Free(j) => i <= j
    /\ net' = [net EXCEPT ![i] = [NoRequest EXCEPT !.copies = 1, !.replace = run.status.replace,
                                                   !.to = run.status.target, !.files = disk]]
    /\ run' = [run EXCEPT !.pc = "await", !.id = i, !.answer = "none"]
    /\ UNCHANGED <<billingVars, localVars, drive, script, mail, budget>>

\* The format of the PDF is checked before it is sent.
RefuseTorn ==
    /\ run.pc = "deliver" /\ ~run.status.drive
    /\ run.status.target \in ScriptTargets
    /\ disk.pdf = Torn
    /\ EndRun
    /\ UNCHANGED <<billingVars, localVars, remoteVars, budget>>

Uploaded(status) == [status EXCEPT !.drive = TRUE, !.replace = FALSE]

AnswerArrives ==
    /\ run.pc = "await" /\ run.answer # "none"
    /\ IF run.answer = "ok"
       THEN run' = [run EXCEPT !.pc = "save", !.status = Uploaded(@), !.id = 0, !.answer = "none"]
       ELSE EndRun
    /\ UNCHANGED <<billingVars, localVars, remoteVars, budget>>

\* The answer is lost or late: the run fails, the request stays on its way.
AnswerLost ==
    /\ run.pc = "await"
    /\ Fault
    /\ EndRun
    /\ UNCHANGED <<billingVars, localVars, remoteVars>>

\* DrivePublisher.upsert_file: a file that is there is kept unless replaced.
Upserted(t, file, replace) ==
    IF drive[t][file] # Absent /\ ~replace THEN drive ELSE [drive EXCEPT ![t][file] = disk[file]]

\* DrivePublisher.publish: the PDF, then the JSON; ok tells whether the run
\* learns of it.
Upsert(file, from, to) ==
    /\ run.pc = from /\ ~run.status.drive
    /\ run.status.target \in OAuthTargets
    /\ drive' = Upserted(run.status.target, file, run.status.replace)
    /\ \/ /\ run' = [run EXCEPT !.pc = to, !.status = IF to = "save" THEN Uploaded(@) ELSE @]
          /\ UNCHANGED budget
       \/ Fault /\ EndRun
    /\ UNCHANGED <<billingVars, localVars, net, script, mail>>

UpsertPdf == Upsert("pdf", "deliver", "oauth")
UpsertJson == Upsert("json", "oauth", "save")

\* Channels that have not accepted the report yet, in order.
Waiting(k) == ChannelOrder[k] \notin run.status.sent
NextChannel(c) == \E k \in DOMAIN ChannelOrder :
    ChannelOrder[k] = c /\ Waiting(k) /\ \A j \in 1..(k - 1) : ~Waiting(j)

Accept(c) == mail' = [mail EXCEPT ![c] = Append(@, [pdf |-> disk.pdf, body |-> run.made])]

SendTo(c) ==
    /\ run.pc = "deliver" /\ run.status.drive /\ NextChannel(c)
    /\ Accept(c)
    /\ run' = [run EXCEPT !.pc = "save", !.status.sent = @ \union {c}]
    /\ UNCHANGED <<billingVars, localVars, drive, net, script, budget>>

\* The channel accepts and its answer is lost: the run fails, or the HTTP
\* session posts the message once more.
SendUnanswered(c) ==
    /\ run.pc = "deliver" /\ run.status.drive /\ NextChannel(c)
    /\ Fault
    /\ Accept(c)
    /\ EndRun \/ (c \in WhatsApp /\ UNCHANGED run)
    /\ UNCHANGED <<billingVars, localVars, drive, net, script>>

CallFails ==
    /\ run.pc \in {"deliver", "oauth"} /\ ~Complete(run.status)
    /\ Fault
    /\ EndRun
    /\ UNCHANGED <<billingVars, localVars, remoteVars>>

SaveMarker_Skipped ==
    /\ run.pc = "save"
    /\ marker' = IF run.status.sent = {} THEN run.status ELSE marker
    /\ Goto("deliver")
    /\ UNCHANGED <<billingVars, disk, target, made, remoteVars, budget>>
SaveMarker ==
    /\ run.pc = "save"
    /\ marker' = run.status
    /\ Goto("deliver")
    /\ UNCHANGED <<billingVars, disk, target, made, remoteVars, budget>>

FinishRun ==
    /\ run.pc = "deliver" /\ Complete(run.status)
    /\ EndRun
    /\ UNCHANGED <<billingVars, localVars, remoteVars, budget>>

\* The process is killed; a PDF it was writing is left cut off.
Crash ==
    /\ run.pc # "idle"
    /\ budget.crashes < MaxCrashes
    /\ budget' = [budget EXCEPT !.crashes = @ + 1]
    /\ \/ UNCHANGED disk
       \/ run.pc = "fetch" /\ stage = "done" /\ disk' = [disk EXCEPT !.pdf = Torn]
    /\ Forget("idle")
    /\ EndRun
    /\ UNCHANGED <<marker, target, made, remoteVars>>

\* The destination is reconfigured between two runs.
Reconfigure(t) ==
    /\ run.pc = "idle" /\ t # target
    /\ Fault
    /\ target' = t
    /\ UNCHANGED <<billingVars, disk, marker, made, run, remoteVars>>

-----------------------------------------------------------------------------
(* doPost: the receiver *)

Answer(i, a) ==
    run' = IF run.pc = "await" /\ run.id = i /\ run.answer = "none"
           THEN [run EXCEPT !.answer = a] ELSE run

Fresh(i) == net[i].age <= Window

Kept_Short(i) == net[i].age < Window
\* A nonce is pruned once its timestamp has left the acceptance window.
Kept(i) == net[i].age <= Window

Remembered == {i \in Ids : net[i].noted /\ Kept(i)}

Writable_New(i, file) == drive[net[i].to][file] = Absent \/ net[i].replace
\* The file may be written: it is not there, has the same bytes, or is replaced.
Writable(i, file) ==
    LET held == drive[net[i].to][file] IN held \in {Absent, net[i].files[file]} \/ net[i].replace

Admissible(i) ==
    /\ script.id = 0
    /\ Fresh(i)
    /\ i \notin Remembered
    /\ Cardinality(Remembered) < MaxNonces

Noted(i) == [net EXCEPT ![i].copies = @ - 1, ![i].noted = TRUE, ![i].ran = @ + 1]

\* The nonce is remembered, and both files are compared before either is written.
Admit(i) ==
    /\ net[i].copies > 0
    /\ Admissible(i)
    /\ net' = Noted(i)
    /\ IF \A file \in {"pdf", "json"} : Writable(i, file)
       THEN /\ script' = [id |-> i,
                          left |-> {f \in {"pdf", "json"} : drive[net[i].to][f] # net[i].files[f]}]
            /\ UNCHANGED run
       ELSE Answer(i, "error") /\ UNCHANGED script
    /\ UNCHANGED <<billingVars, localVars, drive, mail, budget>>

\* busy, expired_timestamp, replayed_request or replay_capacity.
Refuse(i) ==
    /\ net[i].copies > 0
    /\ ~Admissible(i)
    /\ net' = [net EXCEPT ![i].copies = @ - 1]
    /\ Answer(i, "error")
    /\ UNCHANGED <<billingVars, localVars, drive, script, mail, budget>>

\* The PDF goes first.
NextFile == IF "pdf" \in script.left THEN "pdf" ELSE "json"

StoreFile ==
    /\ script.left # {}
    /\ LET r == net[script.id] IN drive' = [drive EXCEPT ![r.to][NextFile] = r.files[NextFile]]
    /\ script' = [script EXCEPT !.left = @ \ {NextFile}]
    /\ UNCHANGED <<billingVars, localVars, run, net, mail, budget>>

StoreFails ==
    /\ script.left # {}
    /\ Fault
    /\ Answer(script.id, "error")
    /\ script' = NotRunning
    /\ UNCHANGED <<billingVars, localVars, drive, net, mail>>

Reply ==
    /\ script.id # 0 /\ script.left = {}
    /\ Answer(script.id, "ok")
    /\ script' = NotRunning
    /\ UNCHANGED <<billingVars, localVars, drive, net, mail, budget>>

\* A request is delivered once more, even after it was handled.
Duplicate(i) ==
    /\ net[i].to # "none" /\ net[i].copies < 2
    /\ Fault
    /\ net' = [net EXCEPT ![i].copies = @ + 1]
    /\ UNCHANGED <<billingVars, localVars, run, drive, script, mail>>

\* Time passes; the reporter stops waiting long before a timestamp expires.
Tick ==
    /\ \E i \in Ids : net[i].to # "none"
    /\ run.pc = "await" => net[run.id].age < Window
    /\ net' = [i \in Ids |->
                 IF net[i].to = "none" \/ (~Fresh(i) /\ net[i].copies = 0 /\ script.id # i)
                 THEN NoRequest
                 ELSE [net[i] EXCEPT !.age = IF Fresh(i) THEN @ + 1 ELSE @]]
    /\ UNCHANGED <<billingVars, localVars, run, drive, script, mail, budget>>

-----------------------------------------------------------------------------
Modes == {"send", "force", "inspect"}

Start == \E mode \in Modes : Resume(mode) \/ Regenerate(mode)
Deliver ==
    \/ \E i \in Ids : SendRequest(i)
    \/ RefuseTorn \/ AnswerArrives
    \/ UpsertPdf \/ UpsertJson
    \/ \E c \in Channels : SendTo(c)
    \/ SaveMarker \/ FinishRun
Disturb ==
    \/ AnswerLost \/ CallFails \/ Crash \/ StoreFails
    \/ \E c \in Channels : SendUnanswered(c)
    \/ \E t \in Targets : Reconfigure(t)
    \/ \E i \in Ids : Duplicate(i)
Receive(i) == Admit(i) \/ Refuse(i)

Next ==
    \/ Start \/ ReadBilling \/ BillingFails \/ WritePdf \/ WriteJson \/ WriteMarker
    \/ Deliver \/ Disturb
    \/ \E i \in Ids : Receive(i)
    \/ StoreFile \/ Reply \/ Tick

Spec == Init /\ [][Next]_vars

\* The reporter is run again until it succeeds, a run goes on, the receiver
\* handles what reaches it, and time passes.
Fairness ==
    /\ WF_vars(Resume("send") \/ Regenerate("send"))
    /\ WF_vars(ReadBilling \/ WritePdf \/ WriteJson \/ WriteMarker \/ Deliver)
    /\ WF_vars(BillingFails /\ series.zero /\ ~AllZero)
    /\ \A i \in Ids : WF_vars(Receive(i))
    /\ WF_vars(StoreFile \/ Reply)
    /\ WF_vars(Tick)

FairSpec == Spec /\ Fairness

-----------------------------------------------------------------------------
Files == [pdf: Contents, json: Contents]

TypeOK ==
    /\ BillingTypeOK
    /\ disk \in Files
    /\ marker \in [drive: BOOLEAN, replace: BOOLEAN, sent: SUBSET Channels,
                   target: Targets \union {"none"}]
    /\ run.pc \in {"idle", "fetch", "json", "mark", "deliver", "await", "oauth", "save"}
    /\ run.pc = "fetch" <=> stage \in Fetching \union {"done"}
    /\ drive \in [Targets -> Files]
    /\ \A i \in Ids : net[i].copies \in 0..2 /\ net[i].age \in 0..(Window + 1)
    /\ script.id \in Ids \union {0}
    /\ \A c \in Channels : mail[c] \in Seq([pdf: Contents, body: Contents])
    /\ made \in 0..MaxMade

Cut == budget.forced > 0 /\ budget.crashes > 0

\* Without --force-resend the report of a date is one snapshot everywhere: every
\* file and message that left the machine was made from the same fetch.
OneSnapshot ==
    budget.forced = 0 =>
        LET sent == UNION {UNION {{m.pdf, m.body} : m \in {mail[c][k] : k \in DOMAIN mail[c]}} : c \in Channels}
            kept == {drive[t][f] : t \in Targets, f \in {"pdf", "json"}} \ {Absent}
        IN Cardinality(sent \union kept) <= 1

\* A destination recorded as delivered holds the snapshot that is on disk, also
\* when an earlier request for it is handled only later.  After a forced run the
\* OAuth backend may keep the files of an earlier snapshot: it compares names.
\* After two of them a late request of the first may replace what the second stored.
RecordedIsStored ==
    (/\ marker.drive /\ ~Cut /\ budget.forced <= 1
     /\ run.mode = "force" => run.pc \notin {"json", "mark"}
     /\ marker.target \in OAuthTargets => budget.forced = 0)
        => drive[marker.target] = disk

\* A channel accepts the report once, and once more at most for each forced run,
\* crash and lost answer.
ResentOnlyForCause ==
    \A c \in Channels :
        Len(mail[c]) <= 1 + budget.forced + budget.crashes + budget.faults

\* A request that is delivered twice is executed once (its nonce is kept as long
\* as its timestamp is accepted).
ExecutedOnce == \A i \in Ids : net[i].ran <= 1

\* Run again until it succeeds, the reporter delivers to every destination, once
\* the billing providers answer; a forced run that was disturbed may leave
\* files that only another forced run replaces.
Recovers == <>[][~BillingFails]_vars
EveryChannelServed ==
    Recovers => \/ <>[](Marked /\ Complete(Loaded))
                \/ <>(budget.forced > 0 /\ budget.crashes + budget.faults > 0)

\* README.md: "then reuses the same PDF and JSON snapshot on unfinished reruns".
RetryReusesSnapshot ==
    \A c \in Channels : \A k \in DOMAIN mail[c] : mail[c][k].pdf = mail[c][k].body
=============================================================================

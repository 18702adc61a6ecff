----------------------------- MODULE Supervisor -----------------------------
(***************************************************************************)
(* full-sync.sh: how "supervise", started by a timer, takes a migration    *)
(* from the first inventory to the final handoff, while an operator may    *)
(* run the public command of any phase beside it.                          *)
(*                                                                         *)
(* A phase is a name here, with the status files pcm_start_phase and       *)
(* pcm_run_phase keep and a command whose result depends on three pieces   *)
(* of data: the live source, the staging tree and the folders of Proton    *)
(* Drive, each compared with the frozen snapshot and each open to changes  *)
(* from outside.  What happens inside a phase is in the modules            *)
(* PhaseRunner, SourceManifest, UploadPlan, ProtonUpload and ProtonVerify; *)
(* that a launched command gets to run and to end is assumed (PhaseRunner  *)
(* shows where that fails).                                                *)
(***************************************************************************)
EXTENDS Naturals, Sequences

CONSTANTS
  Folders,       \* folders of the snapshot, listed one by one on Proton Drive
  Operated,      \* commands the operator may run: phases, "upload-plan", "completion"
  MaxAttempts,   \* PCM_MAX_PHASE_ATTEMPTS
  Acknowledged,  \* PCM_DESTINATION_CAPACITY_ACKNOWLEDGED
  QuotaLeft,     \* the quota predicate of the completion gate: after the upload there is
                 \* still room for the whole snapshot, or the quota is unknown and acknowledged
  MaxMishaps,    \* bound on failures, damage and reboots
  MaxCommands,   \* bound on commands of the operator
  None

ASSUME AttemptsAssumption == MaxAttempts \in Nat \ {0}
ASSUME BoundsAssumption == MaxMishaps \in Nat /\ MaxCommands \in Nat
ASSUME QuotaAssumption == Acknowledged \in BOOLEAN /\ QuotaLeft \in BOOLEAN

\* The two loops of supervise.
Early == <<"inventory", "checksums">>
\* Mutant: the tree is verified before it is reconciled.
VerifyFirst == <<"download", "metadata-apply", "verify-local", "reconcile", "source-freshness">>

Late  == <<"download", "metadata-apply", "reconcile", "verify-local", "source-freshness">>
Members(list) == {list[i] : i \in DOMAIN list}

\* Phases run by pcm_start_phase, and with source-freeze all that have a status.
Phases == Members(Early) \cup Members(Late) \cup {"remediate", "upload", "proton-verify"}
Tracked == Phases \cup {"source-freeze"}
\* What ATTENTION_REQUIRED.json may name.
Subjects == Tracked \cup {"supervisor-preflight", "destination-verification", "completion"}

ASSUME OperatedAssumption == Operated \subseteq Phases \cup {"upload-plan", "completion"}
ASSUME NoneAssumption == None \notin Subjects

\* Who may run completion_gate, and the order in which overall_json reads for it: the status
\* of each phase, then what the phases have left.
Shells  == {"supervisor", "operator"}
Reports == <<"inventory", "checksums", "source-freeze", "download", "metadata-apply", "reconcile",
             "verify-local", "source-freshness", "upload", "proton-verify", "verification", "audit",
             "attention", "acceptance", "freshness">>

VARIABLES
  state,      \* status.json of each phase
  attempts,   \* file "attempts" of each phase
  run,        \* the process of each phase: none, running, listing (the verification, once
              \* its table is ready), or its command's verdict
  frozen,     \* frozen.json exists
  checked,    \* verify-local has recorded files of an exact tree as good
  reconciled, \* the reconcile report has no count or byte delta
  audit,      \* the last completion audit was complete
  upload,     \* upload.sqlite: absent, empty (no plan in it), or the status it records;
              \* "blocked" stands for every blocked and failed status
  accepted,   \* upload-accepted.json exists
  verify,     \* verify.sqlite, likewise
  listing,    \* what verify.sqlite records of each folder
  attention,  \* the phase ATTENTION_REQUIRED.json names, or None
  handoff,    \* final-handoff.json exists
  source,     \* live pCloud, compared with the snapshot
  stage,      \* staging tree, likewise
  drive,      \* each folder of Proton Drive, likewise
  touched,    \* history: folders changed on Proton Drive after they were found to match
  tick,       \* step of the supervisor
  choice,     \* the phase it starts or waits for
  gate,       \* completion_gate of each shell: the report it reads next, or its outcome
  requested,  \* commands of the operator that passed their gates
  mishaps, commands

phases    == <<state, attempts, run>>
databases == <<upload, verify, listing>>
requests  == <<gate, requested>>
evidence  == <<frozen, checked, reconciled, audit, accepted, handoff>>
data      == <<source, stage, drive, touched>>
bounds    == <<mishaps, commands>>
vars == <<phases, evidence, databases, attention, data, tick, choice, requests, bounds>>

\* Each variable holds a value the code can put there.
TypeOK ==
  /\ state \in [Tracked -> {"not_started", "running", "complete", "failed", "blocked"}]
  /\ attempts \in [Phases -> 0..(MaxAttempts + 1)]
  /\ run \in [Phases -> {"none", "running", "listing", "ok", "failed"}]
  /\ frozen \in BOOLEAN /\ checked \in BOOLEAN /\ reconciled \in BOOLEAN
  /\ audit \in BOOLEAN /\ accepted \in BOOLEAN /\ handoff \in BOOLEAN
  /\ upload \in {"absent", "empty", "planned", "uploading", "recoverable", "blocked", "complete"}
  /\ verify \in {"not_started", "empty", "verifying", "recoverable", "blocked", "verified"}
  /\ listing \in [Folders -> {"pending", "complete", "mismatched"}]
  /\ attention \in Subjects \cup {None}
  /\ source \in {"same", "changed"}
  /\ stage \in {"empty", "partial", "exact", "drifted"}
  /\ drive \in [Folders -> {"missing", "exact", "drifted"}] /\ touched \subseteq Folders
  /\ tick \in {"idle", "deciding", "launching", "waiting", "freezing", "frozen", "planning",
               "gating"}
  /\ choice \in Phases \cup {None} /\ requested \subseteq Operated
  /\ gate \in [Shells -> Members(Reports) \cup {"closed", "failed", "passed"}]
  /\ mishaps \in 0..MaxMishaps /\ commands \in 0..MaxCommands

Init ==
  /\ state = [p \in Tracked |-> "not_started"]
  /\ attempts = [p \in Phases |-> 0]
  /\ run = [p \in Phases |-> "none"]
  /\ frozen = FALSE /\ checked = FALSE /\ reconciled = FALSE /\ audit = FALSE
  /\ accepted = FALSE /\ handoff = FALSE
  /\ upload = "absent" /\ verify = "not_started" /\ attention = None
  /\ listing = [f \in Folders |-> "pending"]
  /\ source = "same" /\ stage = "empty"
  /\ drive = [f \in Folders |-> "missing"] /\ touched = {}
  /\ tick = "idle" /\ choice = None /\ requested = {}
  /\ gate = [g \in Shells |-> "closed"]
  /\ mishaps = 0 /\ commands = 0

-----------------------------------------------------------------------------
(* What the scripts read *)

\* A running phase whose process is gone is shown as interrupted.
PhaseState(p) ==
  IF state[p] = "running" /\ (p \in Phases => run[p] = "none") THEN "interrupted" ELSE state[p]

Complete(p) == PhaseState(p) = "complete"
Finished(list) == \A p \in Members(list) : Complete(p)

\* The phase a loop of supervise stops at.
Pending(p, list) ==
  \E i \in DOMAIN list : /\ list[i] = p /\ ~Complete(p)
                         /\ \A j \in 1..(i - 1) : Complete(list[j])

AuditPasses ==
  /\ reconciled
  /\ \A p \in {"metadata-apply", "verify-local", "source-freshness"} : state[p] = "complete"

\* require_phase_complete of each *_start.
Needs(p) ==
  CASE p = "checksums" -> {"inventory"}
    [] p = "download" -> {"source-freeze"}
    [] p = "metadata-apply" -> {"download"}
    [] p = "reconcile" -> {"metadata-apply"}
    [] p = "verify-local" -> {"reconcile"}
    [] p = "source-freshness" -> {"verify-local"}
    [] p = "upload" -> {"source-freshness"}
    [] OTHER -> {}

Audited(p) == p \in {"upload", "proton-verify"} /\ frozen /\ \A q \in Needs(p) : Complete(q)

\* All that p's *_start function tests before pcm_start_phase.
Gate(p) ==
  /\ frozen <=> p \notin Members(Early)
  /\ \A q \in Needs(p) : Complete(q)
  /\ p = "remediate" => attempts["verify-local"] > 0
  /\ p = "upload" => upload # "absent"
  /\ p = "proton-verify" => accepted
  /\ Audited(p) => AuditPasses

\* The gate runs the audit, whose report stays.
WritesAudit(p) == audit' = IF Audited(p) THEN AuditPasses ELSE audit

\* Mutant: the attention file is marked and left in place.
Marked(p) ==
  IF attention = p \/ (p = "proton-verify" /\ attention = "destination-verification")
  THEN "archived" ELSE attention

\* archive_attention.
Archived(p) ==
  IF attention = p \/ (p = "proton-verify" /\ attention = "destination-verification")
  THEN None ELSE attention

-----------------------------------------------------------------------------
(* pcm_start_phase and pcm_run_phase, as the supervisor sees them *)

NextAttempt(p) == IF attempts[p] > MaxAttempts THEN attempts[p] ELSE attempts[p] + 1

\* A running phase is left alone; a phase out of attempts is blocked.
LaunchPhase(p) ==
  IF run[p] # "none"
  THEN UNCHANGED <<phases, attention>>
  ELSE /\ attempts' = [attempts EXCEPT ![p] = NextAttempt(p)]
       /\ IF attempts[p] >= MaxAttempts
          THEN /\ state' = [state EXCEPT ![p] = "blocked"]
               /\ attention' = p
               /\ run' = run
          ELSE /\ state' = [state EXCEPT ![p] = "running"]
               /\ run' = [run EXCEPT ![p] = "running"]
               /\ attention' = attention

\* Its command has exited: the status is written, the attention raised or archived.
PhaseEnds(p) ==
  /\ run[p] \in {"ok", "failed"}
  /\ run' = [run EXCEPT ![p] = "none"]
  /\ IF run[p] = "ok"
     THEN state' = [state EXCEPT ![p] = "complete"] /\ attention' = Archived(p)
     ELSE state' = [state EXCEPT ![p] = "failed"] /\ attention' = p
  /\ UNCHANGED <<attempts, evidence, databases, data, tick, choice, requests, bounds>>

-----------------------------------------------------------------------------
(* The commands of the phases *)

Busy(p) == run[p] \in {"running", "listing"}

Exits(p, verdict) ==
  /\ run' = [run EXCEPT ![p] = verdict]
  /\ checked' = (checked \/ (p = "verify-local" /\ stage = "exact"))
  /\ UNCHANGED <<state, attempts, frozen, audit, accepted, handoff, listing, attention, source,
                 touched, tick, choice, requests, commands>>

\* inventory and checksums refuse to change a frozen manifest.
EarlyExits(p) ==
  /\ p \in Members(Early)
  /\ Exits(p, IF frozen THEN "failed" ELSE "ok")
  /\ UNCHANGED <<reconciled, upload, verify, stage, drive, mishaps>>

\* rclone replaces what differs from the live source.
FetchWorks(p) ==
  /\ p \in {"download", "remediate"}
  /\ ~(stage = "exact" /\ source = "same")
  /\ stage' = "partial"
  /\ UNCHANGED <<phases, evidence, databases, attention, source, drive, touched, tick, choice,
                 requests, bounds>>

\* The tree follows the live source. Damage that keeps size and time may go unnoticed, and
\* a change of the source may have come after its file was fetched.
Fetched ==
  IF source = "same" THEN {"exact"} \cup (IF stage = "drifted" THEN {"drifted"} ELSE {})
  ELSE {"drifted"} \cup (IF stage \in {"exact", "partial"} THEN {"exact"} ELSE {})

\* remediate fetches what the last report names, which a new verification empties.
FetchExits(p) ==
  /\ p \in {"download", "remediate"}
  /\ stage' \in Fetched \cup {q \in {stage} : p = "remediate"}
  /\ Exits(p, "ok")
  /\ UNCHANGED <<reconciled, upload, verify, drive, mishaps>>

\* apply-metadata fails when an entry is missing from the tree.
MetadataExits ==
  /\ \E verdict \in {"ok", "failed"} :
       /\ verdict = "ok" => stage \in {"exact", "drifted"}
       /\ verdict = "failed" => stage # "exact"
       /\ Exits("metadata-apply", verdict)
  /\ UNCHANGED <<reconciled, upload, verify, stage, drive, mishaps>>

\* reconcile-summary exits 0 whatever deltas its report holds.
ReconcileExits ==
  /\ reconciled' \in {stage = "exact"} \cup (IF stage = "drifted" THEN {TRUE} ELSE {})
  /\ Exits("reconcile", "ok")
  /\ UNCHANGED <<upload, verify, stage, drive, mishaps>>

\* A file found good before is not read again while its size and time stay.
VerifyLocalExits ==
  /\ \E verdict \in {"ok", "failed"} :
       /\ verdict = "ok" => stage = "exact" \/ (stage = "drifted" /\ checked)
       /\ verdict = "failed" => stage # "exact"
       /\ Exits("verify-local", verdict)
  /\ UNCHANGED <<reconciled, upload, verify, stage, drive, mishaps>>

FreshnessExits ==
  /\ Exits("source-freshness", IF source = "same" THEN "ok" ELSE "failed")
  /\ UNCHANGED <<reconciled, upload, verify, stage, drive, mishaps>>

\* What a folder becomes that is sent now: a tree that is being fetched, or has drifted,
\* may still hold it as it was.
Sent == CASE stage = "exact" -> {"exact"} [] stage = "empty" -> {} [] OTHER -> {"exact", "drifted"}

\* The worker sends what the staging tree holds now, folder by folder; what it has stored
\* it never sends again.
UploadWorks ==
  /\ upload \notin {"absent", "empty"}
  /\ upload' = "uploading"
  /\ \/ drive' = drive
     \/ \E f \in Folders, as \in Sent : drive[f] = "missing" /\ drive' = [drive EXCEPT ![f] = as]
  /\ UNCHANGED <<phases, evidence, verify, listing, attention, source, stage, touched, tick, choice,
                 requests, bounds>>

UploadExits ==
  /\ upload = "uploading"
  /\ \A f \in Folders : drive[f] # "missing"
  /\ upload' = "complete"
  /\ Exits("upload", "ok")
  /\ UNCHANGED <<reconciled, verify, stage, drive, mishaps>>

\* Files are missing from the tree, or the database has no plan.
UploadGivesUp ==
  /\ \/ upload = "empty"
     \/ upload = "uploading" /\ stage # "exact"
  /\ upload' \in IF upload = "empty" THEN {"empty"} ELSE {"recoverable", "blocked"}
  /\ Exits("upload", "failed")
  /\ UNCHANGED <<reconciled, verify, stage, drive, mishaps>>

\* connect creates the database with its tables, and nothing in them.
VerifyConnects ==
  /\ run["proton-verify"] = "running" /\ verify = "not_started"
  /\ verify' = "empty"
  /\ UNCHANGED <<phases, evidence, upload, listing, attention, data, tick, choice, requests,
                 bounds>>

\* initialize fills an empty database; a run that resumes lists again what differed, where
\* attempts are left.
VerifyBegins ==
  /\ run["proton-verify"] = "running" /\ verify # "not_started"
  /\ verify' = "verifying"
  /\ run' = [run EXCEPT !["proton-verify"] = "listing"]
  /\ \/ listing' = listing
     \/ listing' = [f \in Folders |-> IF listing[f] = "mismatched" THEN "pending" ELSE listing[f]]
  /\ UNCHANGED <<state, attempts, evidence, upload, attention, data, tick, choice, requests,
                 bounds>>

\* Mutant: names and counts are compared, contents are not.
CountsAgree(f) == drive[f] # "missing"

Matches(f) == drive[f] = "exact"

\* Each folder is judged when it is listed. One that is complete is never listed again.
VerifyLists(f) ==
  /\ run["proton-verify"] = "listing" /\ listing[f] = "pending"
  /\ listing' = [listing EXCEPT ![f] = IF Matches(f) THEN "complete" ELSE "mismatched"]
  /\ UNCHANGED <<phases, evidence, upload, verify, attention, data, tick, choice, requests, bounds>>

AllMatched == \A f \in Folders : listing[f] = "complete"

VerifyExits ==
  /\ run["proton-verify"] = "listing"
  /\ \A f \in Folders : listing[f] # "pending"
  /\ IF AllMatched
     THEN verify' = "verified" /\ Exits("proton-verify", "ok")
     ELSE verify' \in {"recoverable", "blocked"} /\ Exits("proton-verify", "failed")
  /\ UNCHANGED <<reconciled, upload, stage, drive, mishaps>>

CommandStep(p) ==
  /\ Busy(p)
  /\ \/ EarlyExits(p) \/ FetchWorks(p) \/ FetchExits(p)
     \/ p = "metadata-apply" /\ MetadataExits
     \/ p = "reconcile" /\ ReconcileExits
     \/ p = "verify-local" /\ VerifyLocalExits
     \/ p = "source-freshness" /\ FreshnessExits
     \/ p = "upload" /\ (UploadWorks \/ UploadExits \/ UploadGivesUp)
     \/ p = "proton-verify" /\ (VerifyConnects \/ VerifyBegins \/ VerifyExits)
     \/ p = "proton-verify" /\ \E f \in Folders : VerifyLists(f)

-----------------------------------------------------------------------------
(* completion_gate, run by the supervisor and by a command of the operator *)

\* The results of reading one report: its part of the predicates of overall_json. While
\* source-freshness is under way its report may be there or not.
Passes(report) ==
  CASE report \in Tracked -> {Complete(report)}
    [] report = "verification" -> {verify = "verified"}
    [] report = "audit" -> {audit}
    [] report = "attention" -> {attention = None}
    [] report = "acceptance" -> {accepted /\ QuotaLeft}
    [] report = "freshness" -> IF state["source-freshness"] = "running" THEN BOOLEAN
                               ELSE {state["source-freshness"] = "complete"}

\* The reports are copied one after the other, while everything else goes on.
ReadReport(g, i) ==
  /\ gate[g] = Reports[i]
  /\ \E passes \in Passes(Reports[i]) :
       gate' = [gate EXCEPT ![g] = IF ~passes THEN "failed"
                                   ELSE IF i < Len(Reports) THEN Reports[i + 1] ELSE "passed"]
  /\ UNCHANGED <<phases, evidence, databases, attention, data, tick, choice, requested, bounds>>

CloseGate(g) ==
  /\ gate' = [gate EXCEPT ![g] = "closed"]
  /\ tick' = IF g = "supervisor" THEN "idle" ELSE tick
  /\ UNCHANGED <<phases, databases, data, choice, requested, bounds>>

RefuseGate(g) ==
  /\ gate[g] = "failed"
  /\ attention' = "completion"
  /\ CloseGate(g) /\ UNCHANGED evidence

\* The handoff is written from what was read.
HandOff(g) ==
  /\ gate[g] = "passed"
  /\ handoff' = TRUE
  /\ CloseGate(g) /\ UNCHANGED <<frozen, checked, reconciled, audit, accepted, attention>>

GateStep(g) == RefuseGate(g) \/ HandOff(g) \/ \E i \in DOMAIN Reports : ReadReport(g, i)

-----------------------------------------------------------------------------
(* supervise *)

GoesIdle == tick' = "idle" /\ choice' = None

\* Lock, preflight, attention. The attention of an earlier preflight is archived.
BeginTick ==
  /\ tick = "idle"
  /\ attention' = Archived("supervisor-preflight")
  /\ tick' = IF attention' = None THEN "deciding" ELSE "idle"
  /\ UNCHANGED <<phases, evidence, databases, data, choice, requests, bounds>>

\* A *_start function whose gate fails ends the shell (set -e): nothing is reported.
TriesToStart(p) ==
  /\ IF Gate(p) /\ (p = "upload" /\ upload # "recoverable" => Acknowledged)
     THEN tick' = "launching" /\ choice' = p
     ELSE GoesIdle
  /\ WritesAudit(p)
  /\ UNCHANGED <<phases, frozen, checked, reconciled, accepted, handoff, databases, attention,
                 data, requests, bounds>>

Raises(subject) ==
  /\ attention' = subject
  /\ GoesIdle
  /\ UNCHANGED <<phases, evidence, databases, data, requests, bounds>>

IsNext(p) ==
  /\ tick = "deciding"
  /\ \/ Pending(p, Early)
     \/ Finished(Early) /\ frozen /\ Complete("source-freeze") /\ Pending(p, Late)

StartPhase(p) == IsNext(p) /\ PhaseState(p) \in {"not_started", "interrupted"} /\ TriesToStart(p)

LeaveRunning(p) ==
  /\ IsNext(p) /\ PhaseState(p) = "running"
  /\ GoesIdle
  /\ UNCHANGED <<phases, evidence, databases, attention, data, requests, bounds>>

\* Mutant: a phase out of attempts is left alone.
AskIfFailed(p) == IsNext(p) /\ PhaseState(p) = "failed" /\ Raises(p)

AskForRecovery(p) == IsNext(p) /\ PhaseState(p) \in {"failed", "blocked"} /\ Raises(p)

\* source_freeze, whose report is written by a command of its own.
BeginFreeze ==
  /\ tick = "deciding" /\ Finished(Early)
  /\ ~(frozen /\ Complete("source-freeze"))
  /\ state' = [state EXCEPT !["source-freeze"] = "running"]
  /\ tick' = "freezing"
  /\ UNCHANGED <<attempts, run, evidence, databases, attention, data, choice, requests, bounds>>

CommitFreeze ==
  /\ tick = "freezing"
  /\ frozen' = TRUE
  /\ tick' = "frozen"
  /\ UNCHANGED <<phases, checked, reconciled, audit, accepted, handoff, databases, attention,
                 data, choice, requests, bounds>>

EndFreeze ==
  /\ tick = "frozen"
  /\ state' = [state EXCEPT !["source-freeze"] = "complete"]
  /\ attention' = Archived("source-freeze")
  /\ GoesIdle
  /\ UNCHANGED <<attempts, run, evidence, databases, data, requests, bounds>>

UploadTurn ==
  /\ tick = "deciding"
  /\ Finished(Early) /\ frozen /\ Complete("source-freeze") /\ Finished(Late)

\* upload_plan is called as a condition, where set -e is off: no gate of it stops it.
BeginPlan ==
  /\ UploadTurn /\ upload = "absent"
  /\ audit' = AuditPasses
  /\ tick' = "planning"
  /\ UNCHANGED <<phases, frozen, checked, reconciled, accepted, handoff, databases, attention,
                 data, choice, requests, bounds>>

\* The database is created before the tree is looked at.
EndPlan ==
  /\ tick = "planning"
  /\ \/ upload' = "planned" /\ stage \in {"exact", "drifted"}
     \/ upload' = "empty" /\ stage # "exact"
  /\ GoesIdle
  /\ UNCHANGED <<phases, evidence, verify, listing, attention, data, requests, bounds>>

\* The status of a database without a plan is an error, which ends the shell.
FindNoPlan ==
  /\ UploadTurn /\ upload = "empty"
  /\ GoesIdle
  /\ UNCHANGED <<phases, evidence, databases, attention, data, requests, bounds>>

StartUpload ==
  /\ UploadTurn /\ upload \in {"planned", "uploading", "recoverable"}
  /\ TriesToStart("upload")

AskForUpload == UploadTurn /\ upload = "blocked" /\ Raises("upload")

WriteAcceptance ==
  /\ UploadTurn /\ upload = "complete" /\ ~accepted
  /\ accepted' = TRUE
  /\ GoesIdle
  /\ UNCHANGED <<phases, frozen, checked, reconciled, audit, handoff, databases, attention, data,
                 requests, bounds>>

VerifyTurn == UploadTurn /\ upload = "complete" /\ accepted

StartVerify ==
  /\ VerifyTurn /\ verify \in {"not_started", "verifying", "recoverable"}
  /\ TriesToStart("proton-verify")

\* Nor has a verification database that was created and not filled.
FindNoVerify ==
  /\ VerifyTurn /\ verify = "empty"
  /\ GoesIdle
  /\ UNCHANGED <<phases, evidence, databases, attention, data, requests, bounds>>

AskForVerify == VerifyTurn /\ verify = "blocked" /\ Raises("destination-verification")

OpenGate ==
  /\ VerifyTurn /\ verify = "verified"
  /\ gate' = [gate EXCEPT !["supervisor"] = Reports[1]]
  /\ attention' = Archived("completion")
  /\ tick' = "gating"
  /\ UNCHANGED <<phases, evidence, databases, data, choice, requested, bounds>>

LaunchChosen ==
  /\ tick = "launching"
  /\ LaunchPhase(choice)
  /\ tick' = "waiting"
  /\ UNCHANGED <<evidence, databases, data, choice, requests, bounds>>

\* The phase runs in the foreground of the supervisor.
PhaseReturns ==
  /\ tick = "waiting" /\ run[choice] = "none"
  /\ GoesIdle
  /\ UNCHANGED <<phases, evidence, databases, attention, data, requests, bounds>>

SupervisorStep ==
  \/ BeginTick \/ BeginFreeze \/ CommitFreeze \/ EndFreeze
  \/ \E p \in Phases : StartPhase(p) \/ LeaveRunning(p) \/ AskForRecovery(p)
  \/ BeginPlan \/ EndPlan \/ FindNoPlan \/ StartUpload \/ AskForUpload \/ WriteAcceptance
  \/ StartVerify \/ AskForVerify \/ FindNoVerify \/ OpenGate \/ GateStep("supervisor")
  \/ LaunchChosen \/ PhaseReturns

-----------------------------------------------------------------------------
(* The operator *)

\* A public command passes its gate, or ends there.
OperatorAsks(p) ==
  /\ p \in Operated \cap Phases /\ commands < MaxCommands
  /\ commands' = commands + 1
  /\ requested' = IF Gate(p) THEN requested \cup {p} ELSE requested
  /\ WritesAudit(p)
  /\ UNCHANGED <<phases, frozen, checked, reconciled, accepted, handoff, databases, attention,
                 data, tick, choice, gate, mishaps>>

OperatorLaunches(p) ==
  /\ p \in requested
  /\ LaunchPhase(p)
  /\ requested' = requested \ {p}
  /\ UNCHANGED <<evidence, databases, data, tick, choice, gate, bounds>>

\* "upload plan", with its gates in force.
OperatorPlans ==
  /\ "upload-plan" \in Operated /\ commands < MaxCommands
  /\ frozen /\ Complete("source-freshness") /\ Complete("verify-local")
  /\ audit' = AuditPasses
  /\ IF AuditPasses /\ Acknowledged /\ upload \in {"absent", "empty"}
     THEN upload' \in {"planned" : x \in {stage} \cap {"exact", "drifted"}} \cup
                      {"empty" : x \in {stage} \ {"exact"}}
     ELSE upload' = upload
  /\ commands' = commands + 1
  /\ UNCHANGED <<phases, frozen, checked, reconciled, accepted, handoff, verify, listing,
                 attention, data, tick, choice, requests, mishaps>>

\* "completion gate", one at a time.
OperatorGates ==
  /\ "completion" \in Operated /\ commands < MaxCommands /\ gate["operator"] = "closed"
  /\ commands' = commands + 1
  /\ IF frozen
     THEN gate' = [gate EXCEPT !["operator"] = Reports[1]] /\ attention' = Archived("completion")
     ELSE gate' = gate /\ attention' = "completion"
  /\ UNCHANGED <<phases, evidence, databases, data, tick, choice, requested, mishaps>>

OperatorStep == OperatorPlans \/ OperatorGates \/ \E p \in Phases : OperatorAsks(p)

-----------------------------------------------------------------------------
(* What may go wrong *)

Mishap == mishaps < MaxMishaps /\ mishaps' = mishaps + 1

PreflightFails ==
  /\ tick = "idle" /\ Mishap
  /\ attention' = "supervisor-preflight"
  /\ UNCHANGED <<phases, evidence, databases, data, tick, choice, requests, commands>>

FreezeFails ==
  /\ tick = "freezing" /\ Mishap
  /\ state' = [state EXCEPT !["source-freeze"] = "failed"]
  /\ attention' = "source-freeze"
  /\ GoesIdle
  /\ UNCHANGED <<attempts, run, evidence, databases, data, requests, commands>>

\* A command fails for a reason of its own. The workers record how.
CommandFails(p) ==
  /\ Busy(p) /\ Mishap
  /\ Exits(p, "failed")
  /\ upload' \in IF p = "upload" /\ upload = "uploading"
                 THEN {"uploading", "recoverable", "blocked"} ELSE {upload}
  /\ verify' \in IF run[p] = "listing"
                 THEN {"verifying"} \cup {v \in {"recoverable", "blocked"} : ~AllMatched} ELSE {verify}
  /\ UNCHANGED <<reconciled, stage, drive>>

\* Nobody looks at the exit code of the plan.
PlanFails ==
  /\ tick = "planning" /\ Mishap
  /\ upload' \in {"absent", "empty"}
  /\ GoesIdle
  /\ UNCHANGED <<phases, evidence, verify, listing, attention, data, requests, commands>>

SourceChanges ==
  /\ frozen /\ source = "same" /\ Mishap
  /\ source' = "changed"
  /\ UNCHANGED <<phases, evidence, databases, attention, stage, drive, touched, tick, choice,
                 requests, commands>>

StageIsDamaged ==
  /\ stage = "exact" /\ Mishap
  /\ stage' = "drifted"
  /\ UNCHANGED <<phases, evidence, databases, attention, source, drive, touched, tick, choice,
                 requests, commands>>

\* Anyone who may use the account changes a folder, or puts it right.
DriveChanges(f) ==
  /\ drive[f] # "missing" /\ Mishap
  /\ drive' = [drive EXCEPT ![f] = IF @ = "exact" THEN "drifted" ELSE "exact"]
  /\ touched' = IF listing[f] = "complete" THEN touched \cup {f} ELSE touched
  /\ UNCHANGED <<phases, evidence, databases, attention, source, stage, tick, choice, requests,
                 commands>>

Reboot ==
  /\ Mishap
  /\ run' = [p \in Phases |-> "none"]
  /\ upload' \in IF tick = "planning" THEN {"absent", "empty"} ELSE {upload}
  /\ requested' = {} /\ gate' = [g \in Shells |-> "closed"]
  /\ GoesIdle
  /\ UNCHANGED <<state, attempts, evidence, verify, listing, attention, data, commands>>

MishapStep ==
  \/ PreflightFails \/ FreezeFails \/ PlanFails \/ SourceChanges \/ StageIsDamaged \/ Reboot
  \/ \E p \in Phases : CommandFails(p)
  \/ \E f \in Folders : DriveChanges(f)

Next ==
  \/ SupervisorStep
  \/ \E p \in Phases : CommandStep(p) \/ PhaseEnds(p) \/ OperatorLaunches(p)
  \/ OperatorStep \/ GateStep("operator")
  \/ MishapStep

Spec == Init /\ [][Next]_vars

\* The timer starts a supervisor whenever none runs; the processes of the phases run to their
\* end. The shells of the operator may stop where they are.
Fairness ==
  /\ WF_vars(SupervisorStep)
  /\ \A p \in Phases : WF_vars(CommandStep(p)) /\ WF_vars(PhaseEnds(p))

FairSpec == Spec /\ Fairness

-----------------------------------------------------------------------------
(* Properties *)

\* A final handoff exists only after an accepted upload, every folder of which verification
\* has found on Proton Drive as the frozen snapshot has it; only a folder that somebody
\* changed there after it was listed can differ from it. No change at the source, in the
\* staging tree, on Proton Drive before that, or between the reports that the gate reads one
\* by one, while another shell reads them too, leads to a handoff of anything else.
HandoffIsTrue ==
  handoff => accepted /\ \A f \in Folders : drive[f] = "exact" \/ f \in touched

\* With nothing going wrong and nobody interfering, the timer alone carries a migration to
\* its final handoff.
QuietRunFinishes ==
  [](mishaps = 0 /\ commands = 0) /\ Acknowledged /\ QuotaLeft => <>handoff

\* The supervisor ends the shell of every tick without a word.
StopsSilently ==
  \/ Finished(Late) /\ upload = "empty"
  \/ Finished(Late) /\ upload = "complete" /\ verify = "empty"
  \/ Finished(Late) /\ ~AuditPasses
  \/ Finished(Late) /\ ~Acknowledged
  \/ frozen /\ \E p \in Members(Early) : Pending(p, Early) /\ PhaseState(p) = "interrupted"

\* Left alone, the supervisor ends finished, asking for an operator, or in one of the named
\* stops: there is no other way for a migration to get stuck.
EndsAsExpected == <>[](handoff \/ attention # None \/ StopsSilently)

\* docs/configuration.md: check the quota before the upload, and on exhaustion stop and
\* write the attention state. Expected: left alone, the supervisor finishes or asks.
FinishesOrAsks == <>[](handoff \/ attention # None)
=============================================================================

------------------------- MODULE Supervisor_proofs --------------------------
(***************************************************************************)
(* Machine-checked proofs about the handoff, for any number of attempts,   *)
(* of mishaps and of commands of the operator, and for every set of        *)
(* commands the operator may run.                                          *)
(***************************************************************************)
EXTENDS Supervisor, TLAPS

\* What a folder recorded as complete stands for: somebody may have changed it since.
CompleteIsTrue ==
  \A f \in Folders : listing[f] = "complete" => drive[f] = "exact" \/ f \in touched

\* A gate that has read the verification, or the acceptance, goes on with what it read.
PastVerification == {"audit", "attention", "acceptance", "freshness", "passed"}
PastAcceptance   == {"freshness", "passed"}

\* What was read of the verification and of the acceptance is never undone, whatever runs
\* between the reads: no complete folder is taken back, no acceptance is removed.
HandoffInv ==
  /\ CompleteIsTrue
  /\ verify = "verified" => AllMatched
  /\ \A g \in Shells : gate[g] \in PastVerification => AllMatched
  /\ \A g \in Shells : gate[g] \in PastAcceptance => accepted
  /\ handoff => AllMatched /\ accepted

IInv == TypeOK /\ HandoffInv

-----------------------------------------------------------------------------
LEMMA PhaseNames ==
  /\ Members(Early) = {"inventory", "checksums"}
  /\ Members(Late) = {"download", "metadata-apply", "reconcile", "verify-local", "source-freshness"}
  /\ Phases = {"inventory", "checksums", "download", "metadata-apply", "reconcile", "verify-local",
               "source-freshness", "remediate", "upload", "proton-verify"}
  /\ Phases \subseteq Tracked /\ Tracked \subseteq Subjects /\ "source-freeze" \in Tracked
  /\ {"supervisor-preflight", "destination-verification", "completion"} \subseteq Subjects
<1>1. Members(Early) = {"inventory", "checksums"}
  <2>1. DOMAIN Early = {1, 2}
    BY DEF Early
  <2>. QED
    BY <2>1 DEF Members, Early
<1>2. Members(Late) = {"download", "metadata-apply", "reconcile", "verify-local", "source-freshness"}
  <2>1. DOMAIN Late = {1, 2, 3, 4, 5}
    BY DEF Late
  <2>. QED
    BY <2>1 DEF Members, Late
<1>. QED
  BY <1>1, <1>2 DEF Phases, Tracked, Subjects

LEMMA ArchivedType ==
  ASSUME TypeOK, NEW p
  PROVE  Archived(p) \in Subjects \cup {None}
BY DEF TypeOK, Archived

LEMMA AuditType ==
  ASSUME TypeOK
  PROVE  AuditPasses \in BOOLEAN /\ \A p : WritesAudit(p) => audit' \in BOOLEAN
BY DEF TypeOK, AuditPasses, WritesAudit

LEMMA ReportNames ==
  /\ DOMAIN Reports = 1..15 /\ Len(Reports) = 15 /\ Reports[1] \in Members(Reports)
  /\ Reports[10] = "proton-verify" /\ Reports[11] = "verification" /\ Reports[12] = "audit"
  /\ Reports[13] = "attention" /\ Reports[14] = "acceptance" /\ Reports[15] = "freshness"
  /\ \A i \in 1..10 : Reports[i] \notin PastVerification \cup PastAcceptance \cup {"verification"}
<1>1. DOMAIN Reports = 1..15 /\ Len(Reports) = 15
  BY DEF Reports
<1>. QED
  BY <1>1 DEF Reports, Members, PastVerification, PastAcceptance

\* A step that leaves alone what the gate relies on.
LEMMA HandoffStays ==
  ASSUME HandoffInv, UNCHANGED <<listing, drive, touched, gate, accepted, handoff>>,
         verify' = verify \/ verify' # "verified"
  PROVE  HandoffInv'
BY DEF HandoffInv, CompleteIsTrue, AllMatched

-----------------------------------------------------------------------------
(* Preservation *)

LEMMA BeginTickKeeps ==
  ASSUME IInv, BeginTick
  PROVE  IInv'
<1> USE DEF IInv, BeginTick, phases, evidence, databases, data, requests, bounds
<1>1. TypeOK'
  BY PhaseNames, ArchivedType, AuditType, BoundsAssumption, AttemptsAssumption, OperatedAssumption DEF TypeOK
<1>2. HandoffInv'
  BY HandoffStays
<1>. QED
  BY <1>1, <1>2

LEMMA BeginFreezeKeeps ==
  ASSUME IInv, BeginFreeze
  PROVE  IInv'
<1> USE DEF IInv, BeginFreeze, phases, evidence, databases, data, requests, bounds
<1>1. TypeOK'
  BY PhaseNames, ArchivedType, AuditType, BoundsAssumption, AttemptsAssumption, OperatedAssumption DEF TypeOK
<1>2. HandoffInv'
  BY HandoffStays
<1>. QED
  BY <1>1, <1>2

LEMMA CommitFreezeKeeps ==
  ASSUME IInv, CommitFreeze
  PROVE  IInv'
<1> USE DEF IInv, CommitFreeze, phases, evidence, databases, data, requests, bounds
<1>1. TypeOK'
  BY PhaseNames, ArchivedType, AuditType, BoundsAssumption, AttemptsAssumption, OperatedAssumption DEF TypeOK
<1>2. HandoffInv'
  BY HandoffStays
<1>. QED
  BY <1>1, <1>2

LEMMA EndFreezeKeeps ==
  ASSUME IInv, EndFreeze
  PROVE  IInv'
<1> USE DEF IInv, EndFreeze, GoesIdle, phases, evidence, databases, data, requests, bounds
<1>1. TypeOK'
  BY PhaseNames, ArchivedType, AuditType, BoundsAssumption, AttemptsAssumption, OperatedAssumption DEF TypeOK
<1>2. HandoffInv'
  BY HandoffStays
<1>. QED
  BY <1>1, <1>2

LEMMA StartPhaseKeeps ==
  ASSUME IInv, NEW p \in Phases, StartPhase(p)
  PROVE  IInv'
<1> USE DEF IInv, StartPhase, TriesToStart, GoesIdle, phases, evidence, databases, data, requests, bounds
<1>1. TypeOK'
  BY PhaseNames, ArchivedType, AuditType, BoundsAssumption, AttemptsAssumption, OperatedAssumption DEF TypeOK
<1>2. HandoffInv'
  BY HandoffStays
<1>. QED
  BY <1>1, <1>2

LEMMA LeaveRunningKeeps ==
  ASSUME IInv, NEW p \in Phases, LeaveRunning(p)
  PROVE  IInv'
<1> USE DEF IInv, LeaveRunning, GoesIdle, phases, evidence, databases, data, requests, bounds
<1>1. TypeOK'
  BY PhaseNames, ArchivedType, AuditType, BoundsAssumption, AttemptsAssumption, OperatedAssumption DEF TypeOK
<1>2. HandoffInv'
  BY HandoffStays
<1>. QED
  BY <1>1, <1>2

LEMMA AskForRecoveryKeeps ==
  ASSUME IInv, NEW p \in Phases, AskForRecovery(p)
  PROVE  IInv'
<1> USE DEF IInv, AskForRecovery, Raises, GoesIdle, phases, evidence, databases, data, requests, bounds
<1>1. TypeOK'
  BY PhaseNames, ArchivedType, AuditType, BoundsAssumption, AttemptsAssumption, OperatedAssumption DEF TypeOK
<1>2. HandoffInv'
  BY HandoffStays
<1>. QED
  BY <1>1, <1>2

LEMMA BeginPlanKeeps ==
  ASSUME IInv, BeginPlan
  PROVE  IInv'
<1> USE DEF IInv, BeginPlan, phases, evidence, databases, data, requests, bounds
<1>1. TypeOK'
  BY PhaseNames, ArchivedType, AuditType, BoundsAssumption, AttemptsAssumption, OperatedAssumption DEF TypeOK
<1>2. HandoffInv'
  BY HandoffStays
<1>. QED
  BY <1>1, <1>2

LEMMA EndPlanKeeps ==
  ASSUME IInv, EndPlan
  PROVE  IInv'
<1> USE DEF IInv, EndPlan, GoesIdle, phases, evidence, databases, data, requests, bounds
<1>1. TypeOK'
  BY PhaseNames, ArchivedType, AuditType, BoundsAssumption, AttemptsAssumption, OperatedAssumption DEF TypeOK
<1>2. HandoffInv'
  BY HandoffStays
<1>. QED
  BY <1>1, <1>2

LEMMA FindNoPlanKeeps ==
  ASSUME IInv, FindNoPlan
  PROVE  IInv'
<1> USE DEF IInv, FindNoPlan, GoesIdle, phases, evidence, databases, data, requests, bounds
<1>1. TypeOK'
  BY PhaseNames, ArchivedType, AuditType, BoundsAssumption, AttemptsAssumption, OperatedAssumption DEF TypeOK
<1>2. HandoffInv'
  BY HandoffStays
<1>. QED
  BY <1>1, <1>2

LEMMA StartUploadKeeps ==
  ASSUME IInv, StartUpload
  PROVE  IInv'
<1> USE DEF IInv, StartUpload, TriesToStart, GoesIdle, phases, evidence, databases, data, requests, bounds
<1>1. TypeOK'
  BY PhaseNames, ArchivedType, AuditType, BoundsAssumption, AttemptsAssumption, OperatedAssumption DEF TypeOK
<1>2. HandoffInv'
  BY HandoffStays
<1>. QED
  BY <1>1, <1>2

LEMMA AskForUploadKeeps ==
  ASSUME IInv, AskForUpload
  PROVE  IInv'
<1> USE DEF IInv, AskForUpload, Raises, GoesIdle, phases, evidence, databases, data, requests, bounds
<1>1. TypeOK'
  BY PhaseNames, ArchivedType, AuditType, BoundsAssumption, AttemptsAssumption, OperatedAssumption DEF TypeOK
<1>2. HandoffInv'
  BY HandoffStays
<1>. QED
  BY <1>1, <1>2

LEMMA WriteAcceptanceKeeps ==
  ASSUME IInv, WriteAcceptance
  PROVE  IInv'
<1> USE DEF IInv, WriteAcceptance, GoesIdle, phases, evidence, databases, data, requests, bounds
<1>1. TypeOK'
  BY PhaseNames, ArchivedType, AuditType, BoundsAssumption, AttemptsAssumption, OperatedAssumption DEF TypeOK
<1>2. HandoffInv'
  BY DEF HandoffInv, CompleteIsTrue, AllMatched, PastVerification, PastAcceptance, TypeOK
<1>. QED
  BY <1>1, <1>2

LEMMA StartVerifyKeeps ==
  ASSUME IInv, StartVerify
  PROVE  IInv'
<1> USE DEF IInv, StartVerify, TriesToStart, GoesIdle, phases, evidence, databases, data, requests, bounds
<1>1. TypeOK'
  BY PhaseNames, ArchivedType, AuditType, BoundsAssumption, AttemptsAssumption, OperatedAssumption DEF TypeOK
<1>2. HandoffInv'
  BY HandoffStays
<1>. QED
  BY <1>1, <1>2

LEMMA FindNoVerifyKeeps ==
  ASSUME IInv, FindNoVerify
  PROVE  IInv'
<1> USE DEF IInv, FindNoVerify, GoesIdle, phases, evidence, databases, data, requests, bounds
<1>1. TypeOK'
  BY PhaseNames, ArchivedType, AuditType, BoundsAssumption, AttemptsAssumption, OperatedAssumption DEF TypeOK
<1>2. HandoffInv'
  BY HandoffStays
<1>. QED
  BY <1>1, <1>2

LEMMA AskForVerifyKeeps ==
  ASSUME IInv, AskForVerify
  PROVE  IInv'
<1> USE DEF IInv, AskForVerify, Raises, GoesIdle, phases, evidence, databases, data, requests, bounds
<1>1. TypeOK'
  BY PhaseNames, ArchivedType, AuditType, BoundsAssumption, AttemptsAssumption, OperatedAssumption DEF TypeOK
<1>2. HandoffInv'
  BY HandoffStays
<1>. QED
  BY <1>1, <1>2

LEMMA OpenGateKeeps ==
  ASSUME IInv, OpenGate
  PROVE  IInv'
<1> USE DEF IInv, OpenGate, phases, evidence, databases, data, requests, bounds
<1>1. TypeOK'
  <2>1. gate' \in [Shells -> Members(Reports) \cup {"closed", "failed", "passed"}]
    BY ReportNames DEF TypeOK
  <2>2. attention' \in Subjects \cup {None}
    BY ArchivedType
  <2>. QED
    BY <2>1, <2>2 DEF TypeOK
<1>2. HandoffInv'
  BY ReportNames DEF HandoffInv, CompleteIsTrue, AllMatched, PastVerification, PastAcceptance, TypeOK
<1>. QED
  BY <1>1, <1>2

LEMMA ReadReportKeeps ==
  ASSUME IInv, NEW g \in Shells, NEW i \in DOMAIN Reports, ReadReport(g, i)
  PROVE  IInv'
<1> USE DEF IInv, ReadReport, phases, evidence, databases, data, bounds
<1>1. PICK passes \in Passes(Reports[i]) :
        gate' = [gate EXCEPT ![g] = IF ~passes THEN "failed"
                                    ELSE IF i < Len(Reports) THEN Reports[i + 1] ELSE "passed"]
  OBVIOUS
<1> DEFINE next == IF ~passes THEN "failed" ELSE IF i < Len(Reports) THEN Reports[i + 1] ELSE "passed"
<1>2. next \in Members(Reports) \cup {"closed", "failed", "passed"}
  BY ReportNames DEF Members
<1>3. gate \in [Shells -> Members(Reports) \cup {"closed", "failed", "passed"}] /\ gate' = [gate EXCEPT ![g] = next]
  BY <1>1 DEF TypeOK
<1>4. TypeOK'
  <2>1. gate' \in [Shells -> Members(Reports) \cup {"closed", "failed", "passed"}]
    BY <1>2, <1>3
  <2>. QED
    BY <2>1 DEF TypeOK
<1>5. next \in PastVerification => AllMatched
  <2>1. CASE i < 10
    BY <2>1, ReportNames DEF PastVerification
  <2>2. CASE i = 10
    BY <2>2, ReportNames DEF PastVerification
  <2>3. CASE i = 11
    <3>1. Passes(Reports[i]) = {verify = "verified"}
      BY <2>3, ReportNames, PhaseNames DEF Passes, Tracked
    <3>. QED
      BY <3>1, <1>1 DEF HandoffInv, PastVerification
  <2>4. CASE i > 11
    <3>1. Reports[i] \in PastVerification
      <4>1. i \in {12, 13, 14, 15}
        BY <2>4, ReportNames
      <4>. QED
        BY <4>1, ReportNames DEF PastVerification
    <3>. QED
      BY <3>1 DEF HandoffInv
  <2>. QED
    BY <2>1, <2>2, <2>3, <2>4, ReportNames
<1>6. next \in PastAcceptance => accepted
  <2>1. CASE i < 10
    BY <2>1, ReportNames DEF PastAcceptance
  <2>2. CASE i \in {10, 11, 12, 13}
    BY <2>2, ReportNames DEF PastAcceptance
  <2>3. CASE i = 14
    <3>1. Passes(Reports[i]) = {accepted /\ QuotaLeft}
      BY <2>3, ReportNames, PhaseNames DEF Passes, Tracked
    <3>2. passes => accepted
      BY <3>1
    <3>. QED
      BY <3>2 DEF PastAcceptance
  <2>4. CASE i = 15
    BY <2>4, ReportNames DEF HandoffInv, PastAcceptance
  <2>. QED
    BY <2>1, <2>2, <2>3, <2>4, ReportNames
<1>7. HandoffInv'
  <2> HIDE DEF next
  <2>. QED
    BY <1>3, <1>5, <1>6 DEF HandoffInv, CompleteIsTrue, AllMatched
<1>. QED
  BY <1>4, <1>7

LEMMA RefuseGateKeeps ==
  ASSUME IInv, NEW g \in Shells, RefuseGate(g)
  PROVE  IInv'
<1> USE DEF IInv, RefuseGate, CloseGate, phases, evidence, databases, data, bounds
<1>1. TypeOK'
  BY PhaseNames DEF TypeOK
<1>2. HandoffInv'
  BY DEF HandoffInv, CompleteIsTrue, AllMatched, PastVerification, PastAcceptance, TypeOK
<1>. QED
  BY <1>1, <1>2

LEMMA HandOffKeeps ==
  ASSUME IInv, NEW g \in Shells, HandOff(g)
  PROVE  IInv'
<1> USE DEF IInv, HandOff, CloseGate, phases, databases, data, bounds
<1>1. TypeOK'
  BY DEF TypeOK
<1>2. AllMatched /\ accepted
  BY DEF HandoffInv, PastVerification, PastAcceptance
<1>3. HandoffInv'
  BY <1>2 DEF HandoffInv, CompleteIsTrue, AllMatched, PastVerification, PastAcceptance, TypeOK
<1>. QED
  BY <1>1, <1>3

LEMMA LaunchChosenKeeps ==
  ASSUME IInv, LaunchChosen
  PROVE  IInv'
<1> USE DEF IInv, LaunchChosen, LaunchPhase, NextAttempt, phases, evidence, databases, data, requests, bounds
<1>1. TypeOK'
  BY PhaseNames, ArchivedType, AuditType, BoundsAssumption, AttemptsAssumption, OperatedAssumption DEF TypeOK
<1>2. HandoffInv'
  BY HandoffStays
<1>. QED
  BY <1>1, <1>2

LEMMA PhaseReturnsKeeps ==
  ASSUME IInv, PhaseReturns
  PROVE  IInv'
<1> USE DEF IInv, PhaseReturns, GoesIdle, phases, evidence, databases, data, requests, bounds
<1>1. TypeOK'
  BY PhaseNames, ArchivedType, AuditType, BoundsAssumption, AttemptsAssumption, OperatedAssumption DEF TypeOK
<1>2. HandoffInv'
  BY HandoffStays
<1>. QED
  BY <1>1, <1>2

LEMMA EarlyExitsKeeps ==
  ASSUME IInv, NEW p \in Phases, EarlyExits(p)
  PROVE  IInv'
<1> USE DEF IInv, EarlyExits, Exits, phases, evidence, databases, data, requests, bounds
<1>1. TypeOK'
  BY PhaseNames, ArchivedType, AuditType, BoundsAssumption, AttemptsAssumption, OperatedAssumption DEF TypeOK
<1>2. HandoffInv'
  BY HandoffStays
<1>. QED
  BY <1>1, <1>2

LEMMA FetchWorksKeeps ==
  ASSUME IInv, NEW p \in Phases, FetchWorks(p)
  PROVE  IInv'
<1> USE DEF IInv, FetchWorks, phases, evidence, databases, data, requests, bounds
<1>1. TypeOK'
  BY PhaseNames, ArchivedType, AuditType, BoundsAssumption, AttemptsAssumption, OperatedAssumption DEF TypeOK
<1>2. HandoffInv'
  BY HandoffStays
<1>. QED
  BY <1>1, <1>2

LEMMA FetchExitsKeeps ==
  ASSUME IInv, NEW p \in Phases, FetchExits(p)
  PROVE  IInv'
<1> USE DEF IInv, FetchExits, Exits, Fetched, phases, evidence, databases, data, requests, bounds
<1>1. TypeOK'
  BY PhaseNames, ArchivedType, AuditType, BoundsAssumption, AttemptsAssumption, OperatedAssumption DEF TypeOK
<1>2. HandoffInv'
  BY HandoffStays
<1>. QED
  BY <1>1, <1>2

LEMMA MetadataExitsKeeps ==
  ASSUME IInv, MetadataExits
  PROVE  IInv'
<1> USE DEF IInv, MetadataExits, Exits, phases, evidence, databases, data, requests, bounds
<1>1. TypeOK'
  BY PhaseNames, ArchivedType, AuditType, BoundsAssumption, AttemptsAssumption, OperatedAssumption DEF TypeOK
<1>2. HandoffInv'
  BY HandoffStays
<1>. QED
  BY <1>1, <1>2

LEMMA ReconcileExitsKeeps ==
  ASSUME IInv, ReconcileExits
  PROVE  IInv'
<1> USE DEF IInv, ReconcileExits, Exits, phases, evidence, databases, data, requests, bounds
<1>1. TypeOK'
  <2>1. reconciled' \in BOOLEAN
    OBVIOUS
  <2>. QED
    BY <2>1, PhaseNames DEF TypeOK
<1>2. HandoffInv'
  BY HandoffStays
<1>. QED
  BY <1>1, <1>2

LEMMA VerifyLocalExitsKeeps ==
  ASSUME IInv, VerifyLocalExits
  PROVE  IInv'
<1> USE DEF IInv, VerifyLocalExits, Exits, phases, evidence, databases, data, requests, bounds
<1>1. TypeOK'
  BY PhaseNames, ArchivedType, AuditType, BoundsAssumption, AttemptsAssumption, OperatedAssumption DEF TypeOK
<1>2. HandoffInv'
  BY HandoffStays
<1>. QED
  BY <1>1, <1>2

LEMMA FreshnessExitsKeeps ==
  ASSUME IInv, FreshnessExits
  PROVE  IInv'
<1> USE DEF IInv, FreshnessExits, Exits, phases, evidence, databases, data, requests, bounds
<1>1. TypeOK'
  BY PhaseNames, ArchivedType, AuditType, BoundsAssumption, AttemptsAssumption, OperatedAssumption DEF TypeOK
<1>2. HandoffInv'
  BY HandoffStays
<1>. QED
  BY <1>1, <1>2

LEMMA UploadWorksKeeps ==
  ASSUME IInv, UploadWorks
  PROVE  IInv'
<1> USE DEF IInv, UploadWorks, phases, evidence, databases, data, requests, bounds
<1>1. TypeOK'
  <2>1. upload' = "uploading"
    OBVIOUS
  <2>2. drive' \in [Folders -> {"missing", "exact", "drifted"}]
    BY DEF TypeOK, Sent
  <2>. QED
    BY <2>1, <2>2 DEF TypeOK
<1>2. HandoffInv'
  <2>1. \A f \in Folders : drive[f] = "exact" => drive'[f] = "exact"
    BY DEF TypeOK
  <2>. QED
    BY <2>1 DEF HandoffInv, CompleteIsTrue, AllMatched
<1>. QED
  BY <1>1, <1>2

LEMMA UploadExitsKeeps ==
  ASSUME IInv, UploadExits
  PROVE  IInv'
<1> USE DEF IInv, UploadExits, Exits, phases, evidence, databases, data, requests, bounds
<1>1. TypeOK'
  BY PhaseNames, ArchivedType, AuditType, BoundsAssumption, AttemptsAssumption, OperatedAssumption DEF TypeOK
<1>2. HandoffInv'
  BY HandoffStays
<1>. QED
  BY <1>1, <1>2

LEMMA UploadGivesUpKeeps ==
  ASSUME IInv, UploadGivesUp
  PROVE  IInv'
<1> USE DEF IInv, UploadGivesUp, Exits, phases, evidence, databases, data, requests, bounds
<1>1. TypeOK'
  BY PhaseNames, ArchivedType, AuditType, BoundsAssumption, AttemptsAssumption, OperatedAssumption DEF TypeOK
<1>2. HandoffInv'
  BY HandoffStays
<1>. QED
  BY <1>1, <1>2

LEMMA VerifyConnectsKeeps ==
  ASSUME IInv, VerifyConnects
  PROVE  IInv'
<1> USE DEF IInv, VerifyConnects, phases, evidence, databases, data, requests, bounds
<1>1. TypeOK'
  BY PhaseNames, ArchivedType, AuditType, BoundsAssumption, AttemptsAssumption, OperatedAssumption DEF TypeOK
<1>2. HandoffInv'
  BY HandoffStays
<1>. QED
  BY <1>1, <1>2

LEMMA VerifyBeginsKeeps ==
  ASSUME IInv, VerifyBegins
  PROVE  IInv'
<1> USE DEF IInv, VerifyBegins, phases, evidence, databases, data, requests, bounds
<1>1. TypeOK'
  <2>1. run' \in [Phases -> {"none", "running", "listing", "ok", "failed"}]
    BY DEF TypeOK
  <2>2. listing' \in [Folders -> {"pending", "complete", "mismatched"}]
    BY DEF TypeOK
  <2>. QED
    BY <2>1, <2>2 DEF TypeOK
<1>2. HandoffInv'
  <2>1. \A f \in Folders : listing[f] = "complete" <=> listing'[f] = "complete"
    BY DEF TypeOK
  <2>. QED
    BY <2>1 DEF HandoffInv, CompleteIsTrue, AllMatched
<1>. QED
  BY <1>1, <1>2

LEMMA VerifyListsKeeps ==
  ASSUME IInv, NEW f \in Folders, VerifyLists(f)
  PROVE  IInv'
<1> USE DEF IInv, VerifyLists, Matches, phases, evidence, databases, data, requests, bounds
<1>1. TypeOK'
  BY PhaseNames, ArchivedType, AuditType, BoundsAssumption, AttemptsAssumption, OperatedAssumption DEF TypeOK
<1>2. HandoffInv'
  <2>1. \A e \in Folders : listing'[e] = "complete" => \/ listing[e] = "complete"
                                                   \/ drive[e] = "exact"
    BY DEF TypeOK
  <2>2. ~AllMatched
    BY DEF AllMatched
  <2>3. CompleteIsTrue'
    BY <2>1 DEF HandoffInv, CompleteIsTrue
  <2>. QED
    BY <2>2, <2>3 DEF HandoffInv
<1>. QED
  BY <1>1, <1>2

LEMMA VerifyExitsKeeps ==
  ASSUME IInv, VerifyExits
  PROVE  IInv'
<1> USE DEF IInv, VerifyExits, Exits, phases, evidence, databases, data, requests, bounds
<1>1. TypeOK'
  <2>1. verify' \in {"verified", "recoverable", "blocked"}
    OBVIOUS
  <2>2. run' \in [Phases -> {"none", "running", "listing", "ok", "failed"}] /\ checked' \in BOOLEAN
    BY DEF TypeOK
  <2>3. UNCHANGED <<state, attempts, frozen, reconciled, audit, accepted, handoff, upload, attention,
                    listing, source, stage, drive, touched, tick, choice, gate, requested, mishaps,
                    commands>>
    OBVIOUS
  <2>. QED
    BY <2>1, <2>2, <2>3 DEF TypeOK
<1>2. HandoffInv'
  BY DEF HandoffInv, CompleteIsTrue, AllMatched
<1>. QED
  BY <1>1, <1>2

LEMMA PhaseEndsKeeps ==
  ASSUME IInv, NEW p \in Phases, PhaseEnds(p)
  PROVE  IInv'
<1> USE DEF IInv, PhaseEnds, phases, evidence, databases, data, requests, bounds
<1>1. TypeOK'
  BY PhaseNames, ArchivedType, AuditType, BoundsAssumption, AttemptsAssumption, OperatedAssumption DEF TypeOK
<1>2. HandoffInv'
  BY HandoffStays
<1>. QED
  BY <1>1, <1>2

LEMMA OperatorLaunchesKeeps ==
  ASSUME IInv, NEW p \in Phases, OperatorLaunches(p)
  PROVE  IInv'
<1> USE DEF IInv, OperatorLaunches, LaunchPhase, NextAttempt, phases, evidence, databases, data, requests, bounds
<1>1. TypeOK'
  BY PhaseNames, ArchivedType, AuditType, BoundsAssumption, AttemptsAssumption, OperatedAssumption DEF TypeOK
<1>2. HandoffInv'
  BY HandoffStays
<1>. QED
  BY <1>1, <1>2

LEMMA OperatorAsksKeeps ==
  ASSUME IInv, NEW p \in Phases, OperatorAsks(p)
  PROVE  IInv'
<1> USE DEF IInv, OperatorAsks, phases, evidence, databases, data, requests, bounds
<1>1. TypeOK'
  <2>1. commands' \in 0..MaxCommands /\ requested' \subseteq Operated /\ audit' \in BOOLEAN
    BY BoundsAssumption, AuditType DEF TypeOK
  <2>. QED
    BY <2>1 DEF TypeOK
<1>2. HandoffInv'
  BY HandoffStays
<1>. QED
  BY <1>1, <1>2

LEMMA OperatorPlansKeeps ==
  ASSUME IInv, OperatorPlans
  PROVE  IInv'
<1> USE DEF IInv, OperatorPlans, phases, evidence, databases, data, requests, bounds
<1>1. TypeOK'
  <2>1. commands' \in 0..MaxCommands /\ audit' \in BOOLEAN
    BY BoundsAssumption, AuditType DEF TypeOK
  <2>2. upload' \in {upload, "planned", "empty"}
    OBVIOUS
  <2>. QED
    BY <2>1, <2>2 DEF TypeOK
<1>2. HandoffInv'
  BY HandoffStays
<1>. QED
  BY <1>1, <1>2

LEMMA OperatorGatesKeeps ==
  ASSUME IInv, OperatorGates
  PROVE  IInv'
<1> USE DEF IInv, OperatorGates, phases, evidence, databases, data, requests, bounds
<1>1. TypeOK'
  <2>1. commands' \in 0..MaxCommands
    BY BoundsAssumption DEF TypeOK
  <2>2. gate' \in [Shells -> Members(Reports) \cup {"closed", "failed", "passed"}]
    BY ReportNames DEF TypeOK
  <2>3. attention' \in Subjects \cup {None}
    BY PhaseNames, ArchivedType
  <2>. QED
    BY <2>1, <2>2, <2>3 DEF TypeOK
<1>2. HandoffInv'
  BY ReportNames DEF HandoffInv, CompleteIsTrue, AllMatched, PastVerification, PastAcceptance, TypeOK
<1>. QED
  BY <1>1, <1>2

LEMMA PreflightFailsKeeps ==
  ASSUME IInv, PreflightFails
  PROVE  IInv'
<1> USE DEF IInv, PreflightFails, Mishap, phases, evidence, databases, data, requests, bounds
<1>1. TypeOK'
  BY PhaseNames, ArchivedType, AuditType, BoundsAssumption, AttemptsAssumption, OperatedAssumption DEF TypeOK
<1>2. HandoffInv'
  BY HandoffStays
<1>. QED
  BY <1>1, <1>2

LEMMA FreezeFailsKeeps ==
  ASSUME IInv, FreezeFails
  PROVE  IInv'
<1> USE DEF IInv, FreezeFails, Mishap, GoesIdle, phases, evidence, databases, data, requests, bounds
<1>1. TypeOK'
  BY PhaseNames, ArchivedType, AuditType, BoundsAssumption, AttemptsAssumption, OperatedAssumption DEF TypeOK
<1>2. HandoffInv'
  BY HandoffStays
<1>. QED
  BY <1>1, <1>2

LEMMA PlanFailsKeeps ==
  ASSUME IInv, PlanFails
  PROVE  IInv'
<1> USE DEF IInv, PlanFails, Mishap, GoesIdle, phases, evidence, databases, data, requests, bounds
<1>1. TypeOK'
  BY PhaseNames, ArchivedType, AuditType, BoundsAssumption, AttemptsAssumption, OperatedAssumption DEF TypeOK
<1>2. HandoffInv'
  BY HandoffStays
<1>. QED
  BY <1>1, <1>2

LEMMA SourceChangesKeeps ==
  ASSUME IInv, SourceChanges
  PROVE  IInv'
<1> USE DEF IInv, SourceChanges, Mishap, phases, evidence, databases, data, requests, bounds
<1>1. TypeOK'
  BY PhaseNames, ArchivedType, AuditType, BoundsAssumption, AttemptsAssumption, OperatedAssumption DEF TypeOK
<1>2. HandoffInv'
  BY HandoffStays
<1>. QED
  BY <1>1, <1>2

LEMMA StageIsDamagedKeeps ==
  ASSUME IInv, StageIsDamaged
  PROVE  IInv'
<1> USE DEF IInv, StageIsDamaged, Mishap, phases, evidence, databases, data, requests, bounds
<1>1. TypeOK'
  BY PhaseNames, ArchivedType, AuditType, BoundsAssumption, AttemptsAssumption, OperatedAssumption DEF TypeOK
<1>2. HandoffInv'
  BY HandoffStays
<1>. QED
  BY <1>1, <1>2

LEMMA DriveChangesKeeps ==
  ASSUME IInv, NEW f \in Folders, DriveChanges(f)
  PROVE  IInv'
<1> USE DEF IInv, DriveChanges, Mishap, phases, evidence, databases, data, requests, bounds
<1>1. TypeOK'
  BY PhaseNames, ArchivedType, AuditType, BoundsAssumption, AttemptsAssumption, OperatedAssumption DEF TypeOK
<1>2. HandoffInv'
  <2>1. \A e \in Folders \ {f} : drive'[e] = drive[e]
    BY DEF TypeOK
  <2>2. touched \subseteq touched' /\ (listing[f] = "complete" => f \in touched')
    OBVIOUS
  <2>. QED
    BY <2>1, <2>2 DEF HandoffInv, CompleteIsTrue, AllMatched
<1>. QED
  BY <1>1, <1>2

LEMMA RebootKeeps ==
  ASSUME IInv, Reboot
  PROVE  IInv'
<1> USE DEF IInv, Reboot, Mishap, GoesIdle, phases, evidence, databases, data, requests, bounds
<1>1. TypeOK'
  BY PhaseNames, ArchivedType, AuditType, BoundsAssumption, AttemptsAssumption, OperatedAssumption DEF TypeOK
<1>2. HandoffInv'
  BY DEF HandoffInv, CompleteIsTrue, AllMatched, PastVerification, PastAcceptance
<1>. QED
  BY <1>1, <1>2

LEMMA CommandFailsKeeps ==
  ASSUME IInv, NEW p \in Phases, CommandFails(p)
  PROVE  IInv'
<1> USE DEF IInv, CommandFails, Mishap, Exits, phases, evidence, databases, data, requests, bounds
<1>1. TypeOK'
  BY PhaseNames, ArchivedType, AuditType, BoundsAssumption, AttemptsAssumption, OperatedAssumption DEF TypeOK
<1>2. HandoffInv'
  BY HandoffStays
<1>. QED
  BY <1>1, <1>2

LEMMA InitIInv == Init => IInv
<1> SUFFICES ASSUME Init PROVE IInv
  OBVIOUS
<1>1. TypeOK
  <2>1. 0 \in 0..MaxMishaps /\ 0 \in 0..MaxCommands /\ 0 \in 0..(MaxAttempts + 1)
    BY BoundsAssumption, AttemptsAssumption
  <2>. QED
    BY <2>1 DEF Init, TypeOK
<1>2. HandoffInv
  <2>1. \A f \in Folders : listing[f] = "pending"
    BY DEF Init
  <2>2. \A g \in Shells : gate[g] = "closed"
    BY DEF Init
  <2>. QED
    BY <2>1, <2>2 DEF Init, HandoffInv, CompleteIsTrue, PastVerification, PastAcceptance
<1>. QED
  BY <1>1, <1>2 DEF IInv

LEMMA StepIInv == IInv /\ [Next]_vars => IInv'
<1> SUFFICES ASSUME IInv, [Next]_vars PROVE IInv'
  OBVIOUS
<1>1. CASE UNCHANGED vars
  BY <1>1 DEF vars, phases, evidence, databases, data, requests, bounds, IInv, TypeOK, HandoffInv,
     CompleteIsTrue, AllMatched
<1>2. ASSUME NEW g \in Shells, GateStep(g) PROVE IInv'
  BY <1>2, ReadReportKeeps, RefuseGateKeeps, HandOffKeeps DEF GateStep
<1>3. CASE SupervisorStep
  BY <1>2, <1>3, BeginTickKeeps, BeginFreezeKeeps, CommitFreezeKeeps, EndFreezeKeeps, StartPhaseKeeps,
     LeaveRunningKeeps, AskForRecoveryKeeps, BeginPlanKeeps, EndPlanKeeps, FindNoPlanKeeps,
     StartUploadKeeps, AskForUploadKeeps, WriteAcceptanceKeeps, StartVerifyKeeps, FindNoVerifyKeeps,
     AskForVerifyKeeps, OpenGateKeeps, LaunchChosenKeeps, PhaseReturnsKeeps DEF SupervisorStep, Shells
<1>4. CASE \E p \in Phases : CommandStep(p)
  BY <1>4, EarlyExitsKeeps, FetchWorksKeeps, FetchExitsKeeps, MetadataExitsKeeps, ReconcileExitsKeeps,
     VerifyLocalExitsKeeps, FreshnessExitsKeeps, UploadWorksKeeps, UploadExitsKeeps, UploadGivesUpKeeps,
     VerifyConnectsKeeps, VerifyBeginsKeeps, VerifyListsKeeps, VerifyExitsKeeps DEF CommandStep
<1>5. CASE \E p \in Phases : PhaseEnds(p) \/ OperatorLaunches(p)
  BY <1>5, PhaseEndsKeeps, OperatorLaunchesKeeps
<1>6. CASE OperatorStep \/ GateStep("operator")
  BY <1>2, <1>6, OperatorPlansKeeps, OperatorGatesKeeps, OperatorAsksKeeps DEF OperatorStep, Shells
<1>7. CASE MishapStep
  BY <1>7, PreflightFailsKeeps, FreezeFailsKeeps, PlanFailsKeeps, SourceChangesKeeps, StageIsDamagedKeeps,
     DriveChangesKeeps, RebootKeeps, CommandFailsKeeps DEF MishapStep
<1>. QED
  BY <1>1, <1>3, <1>4, <1>5, <1>6, <1>7 DEF Next

\* In every state: a folder recorded as complete matches unless it was changed since, and a
\* gate that has read the verification and the acceptance acts on facts that still hold. It
\* says nothing of the other reports, which may be out of date when the handoff is written.
THEOREM SupervisorInvariant == Spec => []IInv
<1>. QED
  BY InitIInv, StepIInv, PTL DEF Spec

-----------------------------------------------------------------------------
(* The properties *)

\* Status files, databases, evidence and the shells keep their types.
THEOREM SupervisorTypeOK == Spec => []TypeOK
<1>. QED
  BY SupervisorInvariant, PTL DEF IInv

\* A final handoff stands for an accepted upload of which every folder was found on Proton
\* Drive as the snapshot has it, and only one that was changed there afterwards may differ:
\* whatever changes, fails or reboots, and whatever runs while the gate reads its reports.
THEOREM SupervisorHandoffIsTrue == Spec => []HandoffIsTrue
<1>1. IInv => HandoffIsTrue
  BY DEF IInv, HandoffInv, CompleteIsTrue, AllMatched, HandoffIsTrue
<1>. QED
  BY <1>1, SupervisorInvariant, PTL

=============================================================================

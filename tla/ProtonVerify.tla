---------------------------- MODULE ProtonVerify ----------------------------
(***************************************************************************)
(* The destination verification worker: proton-verify.py run, started by   *)
(* proton_verify_start of full-sync.sh once the upload is accepted.        *)
(*                                                                         *)
(* verify.sqlite survives a crash: the directories table (dirStatus,       *)
(* attempts, class, count), the mismatches table (rows), and the metadata  *)
(* keys status and completed_at.  It is opened in autocommit mode, so the  *)
(* DELETE, the INSERTs and the UPDATE that record one listing are durable  *)
(* one by one.  The rest is the memory of one process.                     *)
(***************************************************************************)
EXTENDS Naturals, FiniteSets

CONSTANTS
  Dirs,           \* rows of the directories table, one per listing to make
  Slots,          \* worker slots, each with a Proton CLI cache of its own
  MaxAttempts,    \* --max-attempts
  FailureClasses, \* what classify_error may read in the output of the CLI
  Discrepancies,  \* what compare_listing may find wrong with a directory
  None

ASSUME AttemptsAssumption == MaxAttempts \in Nat \ {0}
ASSUME NoneAssumption == None \notin Slots
ASSUME SlotsAssumption == Slots # {}
ASSUME ClassAssumption ==
  /\ None \notin FailureClasses \cup {"max-attempts"}
  /\ "max-attempts" \notin FailureClasses
ASSUME DiscrepancyAssumption == IsFiniteSet(Discrepancies)

VARIABLES
  dirStatus, attempts, class, count, \* table directories
  rows,        \* table mismatches, by directory
  status,      \* metadata key "status"; "absent" before verify.sqlite exists
  completed,   \* metadata key "completed_at" is set
  pc, resume, queue, slot, available, outcome, done, current, stop,
  outage,      \* standing conditions only the operator can lift
  wrong,       \* what differs now on Proton Drive from the frozen manifest
  listings,    \* history: listings made of each directory
  seen,        \* history: directories some listing found without a discrepancy
  due          \* history: what the run has still to list, unless killed or stopped

table    == <<dirStatus, attempts, class, count>>
database == <<table, rows, status, completed>>
pool     == <<queue, slot, available, outcome, done, current>>
memory   == <<resume, pool, stop>>
drive    == <<outage, wrong>>
history  == <<listings, seen, due>>
vars     == <<database, pc, memory, drive, history>>

-----------------------------------------------------------------------------
Standing == {"authentication", "quota"} \cap FailureClasses

RetryBlocked == {"authentication", "quota", "permission", "ambiguity", "max-attempts"}

Retryable(d) ==
  \/ dirStatus[d] = "failed" /\ attempts[d] < MaxAttempts /\ class[d] \notin RetryBlocked
  \/ dirStatus[d] = "mismatched" /\ attempts[d] < MaxAttempts

FailedWith(c) == \E d \in Dirs : dirStatus[d] = "failed" /\ class[d] = c

\* Mutant: takes "every directory was listed" for "every directory matched".
AllListed == \A d \in Dirs : dirStatus[d] \in {"complete", "mismatched"}

AllComplete == \A d \in Dirs : dirStatus[d] = "complete" /\ count[d] = 0

DirStatus == {"pending", "running", "complete", "mismatched", "failed"}
FinalStates == {"verified", "blocked-authentication", "blocked-quota", "recoverable",
                "failed-verification"}
Statuses == FinalStates \cup {"absent", "unplanned", "planned", "verifying"}
Steps == {"idle", "initialize", "recover", "requeue", "clear", "reopen", "giveup", "exhaust",
          "begin", "fill", "wait", "collect", "record", "close", "finish"}

\* What a worker hands back: the discrepancies of a listing, or the class of a failure.
Listed(found) == [kind |-> "listed", found |-> found]
Failed(c) == [kind |-> "failed", class |-> c]
NoResult == [kind |-> "none"]
Submitted == [kind |-> "submitted"]
Listing == [kind |-> "listing"]
Outcomes == {NoResult, Submitted, Listing}
              \cup {Listed(found) : found \in SUBSET Discrepancies}
              \cup {Failed(c) : c \in FailureClasses}

\* Each variable holds a value the code can put there.
TypeOK ==
  /\ dirStatus \in [Dirs -> DirStatus]
  /\ attempts \in [Dirs -> Nat]
  /\ class \in [Dirs -> FailureClasses \cup {"max-attempts", None}]
  /\ count \in [Dirs -> Nat]
  /\ rows \in [Dirs -> SUBSET Discrepancies]
  /\ status \in Statuses
  /\ completed \in BOOLEAN
  /\ pc \in Steps
  /\ resume \in BOOLEAN
  /\ queue \subseteq Dirs
  /\ slot \in [Dirs -> Slots \cup {None}]
  /\ available \subseteq Slots
  /\ outcome \in [Dirs -> Outcomes]
  /\ done \subseteq Dirs
  /\ current \in SUBSET Dirs
  /\ stop \in BOOLEAN
  /\ outage \subseteq Standing
  /\ wrong \in [Dirs -> SUBSET Discrepancies]
  /\ listings \in [Dirs -> Nat]
  /\ seen \subseteq Dirs
  /\ due \subseteq Dirs

Active == {d \in Dirs : slot[d] # None}

Init ==
  /\ dirStatus = [d \in Dirs |-> "pending"]
  /\ attempts = [d \in Dirs |-> 0]
  /\ class = [d \in Dirs |-> None]
  /\ count = [d \in Dirs |-> 0]
  /\ rows = [d \in Dirs |-> {}]
  /\ status = "absent" /\ completed = FALSE
  /\ pc = "idle" /\ resume = FALSE
  /\ queue = {} /\ done = {} /\ current = {} /\ stop = FALSE
  /\ slot = [d \in Dirs |-> None]
  /\ available = Slots
  /\ outcome = [d \in Dirs |-> NoResult]
  /\ outage = {}
  /\ wrong \in [Dirs -> SUBSET Discrepancies]  \* what the upload, or the user, left there
  /\ listings = [d \in Dirs |-> 0]
  /\ seen = {} /\ due = {}

-----------------------------------------------------------------------------
(* Starting a run *)

\* The memory of a process is gone when it ends, however it ends.
ProcessEnds ==
  /\ pc' = "idle" /\ resume' = FALSE
  /\ queue' = {} /\ done' = {} /\ current' = {} /\ stop' = FALSE
  /\ slot' = [d \in Dirs |-> None]
  /\ available' = Slots
  /\ outcome' = [d \in Dirs |-> NoResult]

\* proton_verify_start: --retry-failed --resume as soon as verify.sqlite exists.
StartVerify ==
  /\ pc = "idle"
  /\ pc' = "initialize"
  /\ resume' = (status # "absent")
  /\ UNCHANGED <<database, pool, stop, drive, history>>

\* connect creates the file and its tables before there is a plan in it.
OpenDatabase ==
  /\ pc = "initialize" /\ status = "absent"
  /\ status' = "unplanned"
  /\ UNCHANGED <<table, rows, completed, pc, memory, drive, history>>

\* One transaction: all rows, the binding and the status "planned". Later runs only
\* check the binding.
Initialize ==
  /\ pc = "initialize" /\ status # "absent"
  /\ status' = IF status = "unplanned" THEN "planned" ELSE status
  /\ pc' = "recover"
  /\ UNCHANGED <<table, rows, completed, memory, drive, history>>

\* Directories an earlier process left running go back to pending, or fail.
RecoverInterrupted ==
  LET cut == {d \in Dirs : dirStatus[d] = "running"}
  IN  /\ pc = "recover"
      /\ dirStatus' = [d \in Dirs |->
           IF d \notin cut THEN dirStatus[d]
           ELSE IF attempts[d] < MaxAttempts THEN "pending" ELSE "failed"]
      /\ class' = [d \in Dirs |->
           IF d \in cut /\ attempts[d] >= MaxAttempts THEN "max-attempts" ELSE class[d]]
      /\ due' = {d \in Dirs :
                   \/ dirStatus[d] \in {"pending", "running"} /\ attempts[d] < MaxAttempts
                   \/ resume /\ Retryable(d)}
      /\ pc' = IF resume THEN "requeue" ELSE "exhaust"
      /\ UNCHANGED <<attempts, count, rows, status, completed, memory, drive, listings, seen>>

RequeueFailed ==
  LET requeued == {d \in Dirs : dirStatus[d] = "failed" /\ Retryable(d)}
  IN  /\ pc = "requeue"
      /\ dirStatus' = [d \in Dirs |-> IF d \in requeued THEN "pending" ELSE dirStatus[d]]
      /\ class' = [d \in Dirs |-> IF d \in requeued THEN None ELSE class[d]]
      /\ pc' = "clear"
      /\ UNCHANGED <<attempts, count, rows, status, completed, memory, drive, history>>

\* Directories to be listed again because they did not match.
Reopened == {d \in Dirs : dirStatus[d] = "mismatched" /\ Retryable(d)}

\* requeue_mismatched, first statement
ClearMismatches ==
  /\ pc = "clear"
  /\ rows' = [d \in Dirs |-> IF d \in Reopened THEN {} ELSE rows[d]]
  /\ pc' = "reopen"
  /\ UNCHANGED <<table, status, completed, memory, drive, history>>

\* Mutant: the rows are deleted and the directories forgotten.
ReopenNothing ==
  /\ pc = "reopen"
  /\ pc' = "giveup"
  /\ UNCHANGED <<database, memory, drive, history>>

\* requeue_mismatched, second statement
ReopenMismatched ==
  /\ pc = "reopen"
  /\ dirStatus' = [d \in Dirs |-> IF d \in Reopened THEN "pending" ELSE dirStatus[d]]
  /\ count' = [d \in Dirs |-> IF d \in Reopened THEN 0 ELSE count[d]]
  /\ class' = [d \in Dirs |-> IF d \in Reopened THEN None ELSE class[d]]
  /\ pc' = "giveup"
  /\ UNCHANGED <<attempts, rows, status, completed, memory, drive, history>>

\* Rows of one status whose attempts are used up fail for good.
FailExhausted(rowStatus) ==
  LET spent == {d \in Dirs : dirStatus[d] = rowStatus /\ attempts[d] >= MaxAttempts}
  IN  /\ dirStatus' = [d \in Dirs |-> IF d \in spent THEN "failed" ELSE dirStatus[d]]
      /\ class' = [d \in Dirs |-> IF d \in spent THEN "max-attempts" ELSE class[d]]
      /\ UNCHANGED <<attempts, count, rows, completed>>

\* requeue_mismatched, third statement
GiveUpMismatched ==
  /\ pc = "giveup"
  /\ FailExhausted("mismatched")
  /\ pc' = "exhaust"
  /\ UNCHANGED <<status, memory, drive, history>>

FailExhaustedPending ==
  /\ pc = "exhaust"
  /\ FailExhausted("pending")
  /\ pc' = "begin"
  /\ UNCHANGED <<status, memory, drive, history>>

BeginVerifying ==
  /\ pc = "begin"
  /\ status' = "verifying"
  /\ queue' = {d \in Dirs : dirStatus[d] = "pending" /\ attempts[d] < MaxAttempts}
  /\ stop' = FALSE
  /\ pc' = "fill"
  /\ UNCHANGED <<table, rows, completed, resume, slot, available, outcome, done, current,
                 drive, history>>

-----------------------------------------------------------------------------
(* The listings, by a pool of workers *)

MaySchedule == available # {} /\ queue # {} /\ ~stop

\* Mutant: the attempt is not counted when it begins.
ClaimUncounted(d) == UNCHANGED attempts

CountAttempt(d) == attempts' = [attempts EXCEPT ![d] = @ + 1]

SubmitListing(d, s) ==
  /\ pc = "fill" /\ MaySchedule
  /\ d \in queue /\ s \in available
  /\ CountAttempt(d)
  /\ dirStatus' = [dirStatus EXCEPT ![d] = "running"]
  /\ class' = [class EXCEPT ![d] = None]
  /\ queue' = queue \ {d}
  /\ slot' = [slot EXCEPT ![d] = s]
  /\ available' = available \ {s}
  /\ outcome' = [outcome EXCEPT ![d] = Submitted]
  /\ due' = due \ {d}
  /\ UNCHANGED <<count, rows, status, completed, pc, resume, done, current, stop, drive,
                 listings, seen>>

AwaitWorkers ==
  /\ pc = "fill" /\ ~MaySchedule
  /\ pc' = IF Active = {} THEN "close" ELSE "wait"
  /\ UNCHANGED <<database, memory, drive, history>>

\* verify_one: a worker thread starts the CLI.
LaunchCLI(d) ==
  /\ outcome[d] = Submitted
  /\ outcome' = [outcome EXCEPT ![d] = Listing]
  /\ listings' = [listings EXCEPT ![d] = @ + 1]
  /\ UNCHANGED <<database, pc, resume, queue, slot, available, done, current, stop, drive, seen, due>>

\* The CLI lists the directory and compare_listing compares it.
ListDirectory(d) ==
  /\ outcome[d] = Listing /\ "authentication" \notin outage
  /\ outcome' = [outcome EXCEPT ![d] = Listed(wrong[d])]
  /\ seen' = IF wrong[d] = {} THEN seen \cup {d} ELSE seen
  /\ UNCHANGED <<database, pc, resume, queue, slot, available, done, current, stop, drive,
                 listings, due>>

\* It fails, times out, or answers what is not a listing ("unknown").
ListFails(d, c) ==
  /\ outcome[d] = Listing
  /\ c \in Standing => c \in outage
  /\ outcome' = [outcome EXCEPT ![d] = Failed(c)]
  /\ UNCHANGED <<database, pc, resume, queue, slot, available, done, current, stop, drive, history>>

Finished == {d \in Active : outcome[d].kind \in {"listed", "failed"}}

WaitReturns ==
  /\ pc = "wait" /\ Finished # {}
  /\ done' = Finished
  /\ pc' = "collect"
  /\ UNCHANGED <<database, resume, queue, slot, available, outcome, current, stop, drive, history>>

\* Mutant: the rows of an earlier listing stay.
KeepOldRows(d) == UNCHANGED rows

DeleteRows(d) == rows' = [rows EXCEPT ![d] = {}]

\* A listing came back: the rows of an earlier one are deleted first.
TakeListing(d) ==
  /\ pc = "collect" /\ d \in done /\ outcome[d].kind = "listed"
  /\ DeleteRows(d)
  /\ available' = available \cup {slot[d]}
  /\ slot' = [slot EXCEPT ![d] = None]
  /\ done' = done \ {d}
  /\ current' = {d}
  /\ pc' = "record"
  /\ UNCHANGED <<table, status, completed, resume, queue, outcome, stop, drive, history>>

InsertMismatch(d, x) ==
  /\ pc = "record" /\ d \in current
  /\ x \in outcome[d].found \ rows[d]
  /\ rows' = [rows EXCEPT ![d] = @ \cup {x}]
  /\ UNCHANGED <<table, status, completed, pc, memory, drive, history>>

RecordListing(d) ==
  /\ pc = "record" /\ d \in current
  /\ outcome[d].found \subseteq rows[d]
  /\ dirStatus' = [dirStatus EXCEPT ![d] = IF outcome[d].found = {} THEN "complete" ELSE "mismatched"]
  /\ count' = [count EXCEPT ![d] = Cardinality(outcome[d].found)]
  /\ class' = [class EXCEPT ![d] = None]
  /\ outcome' = [outcome EXCEPT ![d] = NoResult]
  /\ current' = {}
  /\ pc' = "collect"
  /\ UNCHANGED <<attempts, rows, status, completed, resume, queue, slot, available, done, stop,
                 drive, history>>

StopAfter(c) == stop \/ c \in {"authentication", "quota"}

RecordFailure(d) ==
  LET c == outcome[d].class
  IN  /\ pc = "collect" /\ d \in done /\ outcome[d].kind = "failed"
      /\ dirStatus' = [dirStatus EXCEPT ![d] = "failed"]
      /\ class' = [class EXCEPT ![d] = c]
      /\ stop' = StopAfter(c)
      /\ due' = IF stop' THEN {} ELSE due
      /\ available' = available \cup {slot[d]}
      /\ slot' = [slot EXCEPT ![d] = None]
      /\ outcome' = [outcome EXCEPT ![d] = NoResult]
      /\ done' = done \ {d}
      /\ UNCHANGED <<attempts, count, rows, status, completed, pc, resume, queue, current, drive,
                     listings, seen>>

EndBatch ==
  /\ pc = "collect" /\ done = {}
  /\ pc' = IF Active # {} \/ (queue # {} /\ ~stop) THEN "fill" ELSE "close"
  /\ UNCHANGED <<database, memory, drive, history>>

-----------------------------------------------------------------------------
(* The end of a run *)

CloseMismatched ==
  /\ pc = "close"
  /\ FailExhausted("mismatched")
  /\ pc' = "finish"
  /\ UNCHANGED <<status, memory, drive, history>>

\* Mutant: looks for failed directories only.
FinalStateOfFailures ==
  IF AllComplete THEN "verified"
  ELSE IF \E d \in Dirs : dirStatus[d] = "failed" /\ Retryable(d) THEN "recoverable"
  ELSE "failed-verification"

\* Mutant: ends with the word the upload uses.
FinalStateOfUpload == IF AllComplete THEN "complete" ELSE "failed-verification"

FinalState ==
  IF AllComplete THEN "verified"
  ELSE IF FailedWith("authentication") THEN "blocked-authentication"
  ELSE IF FailedWith("quota") THEN "blocked-quota"
  ELSE IF \E d \in Dirs : Retryable(d) THEN "recoverable"
  ELSE "failed-verification"

\* completed_at is written before the status.
MarkCompleted ==
  /\ pc = "finish" /\ FinalState = "verified" /\ ~completed
  /\ completed' = TRUE
  /\ UNCHANGED <<table, rows, status, pc, memory, drive, history>>

FinishRun ==
  /\ pc = "finish" /\ (FinalState = "verified" => completed)
  /\ status' = FinalState
  /\ ProcessEnds
  /\ UNCHANGED <<table, rows, completed, drive, history>>

-----------------------------------------------------------------------------
(* The world around it *)

\* A listing that outlives its worker changes nothing, and prints to a pipe nobody reads.
Crash ==
  /\ pc # "idle"
  /\ ProcessEnds
  /\ due' = {}
  /\ UNCHANGED <<database, drive, listings, seen>>

\* A late upload, the user, or Proton changes what a directory holds.
DriveChanges(d) ==
  /\ \E w \in SUBSET Discrepancies : wrong' = [wrong EXCEPT ![d] = w]
  /\ UNCHANGED <<database, pc, memory, outage, history>>

ConditionArises(c) ==
  /\ c \in Standing \ outage
  /\ outage' = outage \cup {c}
  /\ UNCHANGED <<database, pc, memory, wrong, history>>

OperatorCorrects(c) ==
  /\ c \in outage
  /\ outage' = outage \ {c}
  /\ UNCHANGED <<database, pc, memory, wrong, history>>

PoolStep ==
  \/ \E d \in Dirs, s \in Slots : SubmitListing(d, s)
  \/ AwaitWorkers
  \/ \E d \in Dirs : LaunchCLI(d) \/ ListDirectory(d)
  \/ \E d \in Dirs, c \in FailureClasses : ListFails(d, c)
  \/ WaitReturns
  \/ \E d \in Dirs : TakeListing(d) \/ RecordListing(d) \/ RecordFailure(d)
  \/ \E d \in Dirs, x \in Discrepancies : InsertMismatch(d, x)
  \/ EndBatch

RunStep ==
  \/ OpenDatabase \/ Initialize \/ RecoverInterrupted \/ RequeueFailed
  \/ ClearMismatches \/ ReopenMismatched \/ GiveUpMismatched \/ FailExhaustedPending
  \/ BeginVerifying \/ PoolStep \/ CloseMismatched \/ MarkCompleted \/ FinishRun

Next ==
  \/ StartVerify
  \/ RunStep
  \/ Crash
  \/ \E d \in Dirs : DriveChanges(d)
  \/ \E c \in Standing : ConditionArises(c) \/ OperatorCorrects(c)

Spec == Init /\ [][Next]_vars

\* A phase process keeps running and every listing ends: --timeout kills it. Nobody has
\* to start another.
FairSpec == Spec /\ WF_vars(RunStep)

-----------------------------------------------------------------------------
(* Properties *)

\* A directory counts as complete only when a listing of it was compared and matched,
\* and "verified" and completed_at are given for nothing less than all of them.
VerifiedWasSeen ==
  /\ \A d \in Dirs : dirStatus[d] = "complete" => d \in seen
  /\ status = "verified" \/ completed => seen = Dirs

\* The evidence agrees with the table, though it is written row by row: a complete
\* directory has no mismatch row, and one that was given up for its mismatches still has
\* the rows that say why.
EvidenceAgrees ==
  \A d \in Dirs :
    /\ dirStatus[d] = "complete" => rows[d] = {} /\ count[d] = 0
    /\ dirStatus[d] = "failed" /\ count[d] > 0 => rows[d] # {}

\* The status a run ends with tells the truth: "verified" when all matched, "recoverable"
\* only if a resume will list something again, "failed-verification" only if it will not.
Verdict ==
  /\ \A d \in Dirs : dirStatus[d] # "running"
  /\ status' = "verified" <=> AllComplete
  /\ status' = "recoverable" =>
       /\ \E d \in Dirs : Retryable(d)
       /\ \A c \in {"authentication", "quota"} : ~FailedWith(c)
  /\ status' = "failed-verification" =>
       /\ \E d \in Dirs : dirStatus[d] = "failed"
       /\ \A d \in Dirs : dirStatus[d] # "pending" /\ ~Retryable(d)

FinishTellsTruth == [][(pc = "finish" /\ pc' = "idle" /\ status' # status) => Verdict]_vars

\* Verification keeps the promise of BoundedTries: no directory is listed
\* more often than --max-attempts, crashes included, none after it was found to match, and
\* completed_at, once set, stands for all of them.
Contract == INSTANCE BoundedTries WITH
  Units <- Dirs,
  MaxTries <- MaxAttempts,
  tries <- listings,
  delivered <- seen,
  confirmed <- {d \in Dirs : dirStatus[d] = "complete"},
  accepted <- completed

KeepsContract == Contract!Spec

\* Every run lists all that was left to list when it began, and a resume all that may be
\* retried too, mismatched directories among them, unless it is killed or stopped by a
\* sign-in or quota failure. So the launches the phase is allowed are not wasted.
RunListsAll == due # {} ~> due = {}
=============================================================================

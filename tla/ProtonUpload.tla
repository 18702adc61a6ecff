---------------------------- MODULE ProtonUpload ----------------------------
(***************************************************************************)
(* The upload worker: proton-upload.py run, with the classification pass   *)
(* of proton-remediate.py that "upload resume" puts in front of it and the *)
(* acceptance test of full-sync.sh.                                        *)
(*                                                                         *)
(* What survives a crash is upload.sqlite (unit*, dir*, status), the unit  *)
(* logs (logged), the acceptance evidence (accepted), Proton Drive itself  *)
(* (folders, stored) and the CLI commands the process had started          *)
(* (orphans).  What one process holds in memory (pc, retry, dirQueue,      *)
(* queue, slot, available, outcome, done, stop) is lost by it.             *)
(* The database is opened in autocommit mode, so every UPDATE is durable   *)
(* on its own: a crash can fall between any two actions.                   *)
(***************************************************************************)
EXTENDS Naturals, FiniteSets

CONSTANTS
  Units,          \* rows of the units table, as create_plan laid them out
  Dirs,           \* rows of the remote_dirs table
  Parent,         \* [Dirs -> Dirs \cup {None}]: the planned parent folder
  Slots,          \* worker slots, each with a Proton CLI cache of its own
  MaxAttempts,    \* --max-attempts
  FailureClasses, \* what classify_error may read in the output of the CLI
  MaxOrphans,     \* bound: commands without a worker at one time
  None

ASSUME AttemptsAssumption == MaxAttempts \in Nat \ {0}
ASSUME SlotsAssumption == Slots # {}  \* ThreadPoolExecutor takes no fewer than one worker
ASSUME ParentAssumption == Parent \in [Dirs -> Dirs \cup {None}]
ASSUME RowsAssumption == Units \cap Dirs = {}  \* rows of two tables
ASSUME NoneAssumption ==
  /\ None \notin Slots \cup Dirs
  /\ None \notin {"authentication", "quota", "stage-safety"}
ASSUME ClassAssumption ==
  FailureClasses \subseteq {"authentication", "quota", "transport", "not-found", "ambiguity",
                            "mime", "literal-path", "permission", "unknown"}

VARIABLES
  unitStatus, unitAttempts, unitClass,  \* table units
  dirStatus, dirAttempts, dirClass,     \* table remote_dirs
  status,      \* metadata key "status"
  accepted,    \* the upload-accepted evidence file exists
  logged,      \* failure classes readable in each unit's log file
  pc, retry, dirQueue, dir, queue, slot, available, outcome, done, stop,
  outage,      \* standing conditions only the operator can lift
  folders,     \* planned folders that exist on Proton Drive
  stored,      \* units whose whole content is on Proton Drive
  orphans,     \* commands that outlived their worker: <<unit, slot>> or <<folder, None>>
  launches,    \* history: CLI uploads started for each unit
  tripped,     \* history: this run recorded a failure that must end its scheduling
  due          \* history: rows this run has still to take up

unitTable == <<unitStatus, unitAttempts, unitClass>>
dirTable  == <<dirStatus, dirAttempts, dirClass>>
database  == <<unitTable, dirTable, status>>
files     == <<accepted, logged>>
pool      == <<queue, slot, available, outcome, done>>
memory    == <<retry, dirQueue, dir, pool, stop>>
drive     == <<outage, folders, stored, orphans>>
history   == <<launches, tripped, due>>
vars == <<database, files, pc, memory, drive, history>>

-----------------------------------------------------------------------------
(* Failure classes *)

\* Conditions that make every CLI call fail until the operator corrects them.
Standing == {"authentication", "quota"} \cap FailureClasses

\* proton-upload.py calls a transport failure of a unit "transient".
ClassifyFailure(c) == IF c = "transport" THEN "transient" ELSE c

UnitClasses == {ClassifyFailure(c) : c \in FailureClasses} \cup {"stage-safety", "max-attempts", None}
DirClasses  == FailureClasses \cup {"ambiguity", "max-attempts", None}

\* The tests of classify_error, in the order it makes them.
Rank == [c \in {"authentication", "quota", "transport", "not-found", "ambiguity",
                "mime", "literal-path", "permission", "unknown"} |->
           CASE c = "authentication" -> 1 [] c = "quota"        -> 2 [] c = "transport"  -> 3
             [] c = "not-found"      -> 4 [] c = "ambiguity"    -> 5 [] c = "mime"       -> 6
             [] c = "literal-path"   -> 7 [] c = "permission"   -> 8 [] c = "unknown"    -> 9]

\* The log is opened for append and read whole: the class is the first that matches
\* anything the unit's commands ever printed.
ClassOfLog(log) == ClassifyFailure(CHOOSE k \in log : \A m \in log : Rank[k] <= Rank[m])

UnitRetryBlocked == {"authentication", "quota", "mime", "ambiguity", "permission", "max-attempts"}
DirRetryBlocked  == UnitRetryBlocked \ {"mime"}
Remediable       == {"transient", "transport", "unknown", "literal-path"}

\* Mutant: forgets that only failed rows are requeued.
RetryableAnyStatus(u) ==
  /\ unitAttempts[u] < MaxAttempts
  /\ unitClass[u] \notin UnitRetryBlocked

RetryableUnit(u) ==
  /\ unitStatus[u] = "failed"
  /\ unitAttempts[u] < MaxAttempts
  /\ unitClass[u] \notin UnitRetryBlocked

RetryableDir(d) ==
  /\ dirStatus[d] = "failed"
  /\ dirAttempts[d] < MaxAttempts
  /\ dirClass[d] \notin DirRetryBlocked

RemediableUnit(u) ==
  /\ unitStatus[u] = "failed"
  /\ unitAttempts[u] < MaxAttempts
  /\ unitClass[u] \in Remediable

FailedWith(c) ==
  \/ \E u \in Units : unitStatus[u] = "failed" /\ unitClass[u] = c
  \/ \E d \in Dirs : dirStatus[d] = "failed" /\ dirClass[d] = c

\* Mutant: takes "nothing left to do" for "everything done".
AllSettled ==
  /\ \A u \in Units : unitStatus[u] \in {"complete", "failed"}
  /\ \A d \in Dirs : dirStatus[d] \in {"complete", "failed"}

AllComplete ==
  /\ \A u \in Units : unitStatus[u] = "complete"
  /\ \A d \in Dirs : dirStatus[d] = "complete"

-----------------------------------------------------------------------------
RowStatus == {"pending", "running", "complete", "failed"}
FinalStates == {"complete", "blocked-authentication", "blocked-quota", "attention-required",
                "recoverable", "blocked-remediation"}
Statuses == FinalStates \cup {"planned", "preparing-directories", "uploading"}
Steps == {"idle", "remediate", "recover", "requeue", "prepare", "dirs", "info", "create",
          "gate", "fill", "wait", "collect", "finish"}
Outcomes == {"none", "submitted", "busy", "ok", "stage-safety", "timeout"} \cup FailureClasses

\* Each variable holds a value the code can put there.
TypeOK ==
  /\ unitStatus \in [Units -> RowStatus]
  /\ unitAttempts \in [Units -> Nat]
  /\ unitClass \in [Units -> UnitClasses \cup {"transient"}]
  /\ dirStatus \in [Dirs -> RowStatus]
  /\ dirAttempts \in [Dirs -> Nat]
  /\ dirClass \in [Dirs -> DirClasses \cup {"transport"}]
  /\ status \in Statuses
  /\ accepted \in BOOLEAN
  /\ logged \in [Units -> SUBSET FailureClasses]
  /\ pc \in Steps
  /\ retry \in BOOLEAN
  /\ dirQueue \subseteq Dirs
  /\ dir \in Dirs \cup {None}
  /\ queue \subseteq Units
  /\ slot \in [Units -> Slots \cup {None}]
  /\ available \subseteq Slots
  /\ outcome \in [Units -> Outcomes]
  /\ done \subseteq Units
  /\ stop \in BOOLEAN
  /\ outage \subseteq Standing
  /\ folders \subseteq Dirs
  /\ stored \subseteq Units
  /\ orphans \subseteq (Units \X Slots) \cup (Dirs \X {None})
  /\ launches \in [Units -> Nat]
  /\ tripped \in BOOLEAN
  /\ due \subseteq Units \cup Dirs

Active == {u \in Units : slot[u] # None}

\* create_plan has committed its single transaction: everything is pending.
Init ==
  /\ unitStatus = [u \in Units |-> "pending"]
  /\ unitAttempts = [u \in Units |-> 0]
  /\ unitClass = [u \in Units |-> None]
  /\ dirStatus = [d \in Dirs |-> "pending"]
  /\ dirAttempts = [d \in Dirs |-> 0]
  /\ dirClass = [d \in Dirs |-> None]
  /\ status = "planned"
  /\ accepted = FALSE
  /\ logged = [u \in Units |-> {}]
  /\ pc = "idle" /\ retry = FALSE
  /\ dirQueue = {} /\ dir = None
  /\ queue = {} /\ done = {} /\ stop = FALSE
  /\ slot = [u \in Units |-> None]
  /\ available = Slots
  /\ outcome = [u \in Units |-> "none"]
  /\ outage = {}
  /\ folders \in SUBSET Dirs  \* earlier runs, or the user, may have made some
  /\ \A d \in folders : Parent[d] \in folders \cup {None}
  /\ stored = {} /\ orphans = {}
  /\ launches = [u \in Units |-> 0] /\ tripped = FALSE /\ due = {}

-----------------------------------------------------------------------------
(* Starting a run *)

\* The memory of a process is gone when it ends, however it ends.
ProcessEnds ==
  /\ pc' = "idle" /\ retry' = FALSE
  /\ dirQueue' = {} /\ dir' = None
  /\ queue' = {} /\ done' = {} /\ stop' = FALSE
  /\ slot' = [u \in Units |-> None]
  /\ available' = Slots
  /\ outcome' = [u \in Units |-> "none"]
  /\ tripped' = FALSE /\ due' = {}

\* upload_start: run without --retry-failed.
StartUpload ==
  /\ pc = "idle"
  /\ pc' = "recover" /\ retry' = FALSE
  /\ UNCHANGED <<database, files, dirQueue, dir, pool, stop, drive, history>>

\* upload_recover_start: remediate, then run with --retry-failed.
ResumeUpload ==
  /\ pc = "idle"
  /\ pc' = "remediate" /\ retry' = TRUE
  /\ UNCHANGED <<database, files, dirQueue, dir, pool, stop, drive, history>>

\* Mutant: a status no reader knows.
RemediatedUnknown(requeued) == IF requeued # {} THEN "requeued" ELSE "blocked-remediation"

RemediatedState(requeued) ==
  IF \A u \in Units : unitStatus[u] = "complete" THEN "complete"
  ELSE IF \E u \in Units : unitStatus[u] = "failed" /\ unitClass[u] = "authentication"
       THEN "blocked-authentication"
  ELSE IF requeued # {} THEN "recoverable" ELSE "blocked-remediation"

Requeue(us) == unitStatus' = [u \in Units |-> IF u \in us THEN "pending" ELSE unitStatus[u]]

\* proton-remediate.py main: requeue what may be retried, then write the status. It
\* looks at no row of remote_dirs.
Remediate ==
  LET requeued == {u \in Units : RemediableUnit(u)}
  IN  /\ pc = "remediate"
      /\ Requeue(requeued)
      /\ status' = RemediatedState(requeued)
      /\ pc' = "recover"
      /\ UNCHANGED <<dirTable, unitAttempts, unitClass, files, memory, drive, history>>

\* It dies half way, some rows updated and the status not; its "|| true" lets the run
\* go on unless the phase died with it.
RemediateCutShort ==
  /\ pc = "remediate"
  /\ \E requeued \in SUBSET {u \in Units : RemediableUnit(u)} : Requeue(requeued)
  /\ \/ pc' = "recover" /\ UNCHANGED <<memory, tripped, due>>
     \/ ProcessEnds
  /\ UNCHANGED <<dirTable, unitAttempts, unitClass, status, files, drive, launches>>

\* Rows an earlier process left running go back to pending, or fail with "max-attempts".
RecoverInterrupted ==
  LET unitCut == {u \in Units : unitStatus[u] = "running"}
      dirCut  == {d \in Dirs : dirStatus[d] = "running"}
  IN  /\ pc = "recover"
      /\ unitStatus' = [u \in Units |->
           IF u \notin unitCut THEN unitStatus[u]
           ELSE IF unitAttempts[u] < MaxAttempts THEN "pending" ELSE "failed"]
      /\ unitClass' = [u \in Units |->
           IF u \in unitCut /\ unitAttempts[u] >= MaxAttempts THEN "max-attempts" ELSE unitClass[u]]
      /\ dirStatus' = [d \in Dirs |->
           IF d \notin dirCut THEN dirStatus[d]
           ELSE IF dirAttempts[d] < MaxAttempts THEN "pending" ELSE "failed"]
      /\ dirClass' = [d \in Dirs |->
           IF d \in dirCut /\ dirAttempts[d] >= MaxAttempts THEN "max-attempts" ELSE dirClass[d]]
      /\ due' =
           {u \in Units :
              \/ unitStatus[u] \in {"pending", "running"} /\ unitAttempts[u] < MaxAttempts
              \/ retry /\ RetryableUnit(u)} \cup
           {d \in Dirs :
              \/ dirStatus[d] \in {"pending", "running"} /\ dirAttempts[d] < MaxAttempts
              \/ retry /\ RetryableDir(d)}
      /\ pc' = "requeue"
      /\ UNCHANGED <<unitAttempts, dirAttempts, status, files, memory, drive, launches, tripped>>

\* Mutant: retries the folders and forgets the units.
RequeueDirsOnly ==
  /\ pc = "requeue"
  /\ dirStatus' = [d \in Dirs |-> IF RetryableDir(d) THEN "pending" ELSE dirStatus[d]]
  /\ pc' = "prepare"
  /\ UNCHANGED <<unitTable, dirAttempts, dirClass, status, files, memory, drive, history>>

\* --retry-failed
RequeueFailed ==
  /\ pc = "requeue"
  /\ IF retry
     THEN /\ Requeue({u \in Units : RetryableUnit(u)})
          /\ dirStatus' = [d \in Dirs |-> IF RetryableDir(d) THEN "pending" ELSE dirStatus[d]]
     ELSE UNCHANGED <<unitStatus, dirStatus>>
  /\ pc' = "prepare"
  /\ UNCHANGED <<unitAttempts, unitClass, dirAttempts, dirClass, status, files, memory, drive, history>>

PrepareDirectories ==
  /\ pc = "prepare"
  /\ status' = "preparing-directories"
  /\ dirQueue' = {d \in Dirs : dirStatus[d] = "pending" /\ dirAttempts[d] < MaxAttempts}
  /\ stop' = FALSE /\ tripped' = FALSE
  /\ pc' = "dirs"
  /\ UNCHANGED <<unitTable, dirTable, files, retry, dir, pool, drive, launches, due>>

-----------------------------------------------------------------------------
(* The folders, one at a time, shorter paths first *)

\* ORDER BY length(path): a folder never precedes its parent.
NextDir(d) == d \in dirQueue /\ Parent[d] \notin dirQueue

BeginDir(d) ==
  /\ pc = "dirs" /\ ~stop
  /\ NextDir(d)
  /\ dirQueue' = dirQueue \ {d}
  /\ dirStatus' = [dirStatus EXCEPT ![d] = "running"]
  /\ dirAttempts' = [dirAttempts EXCEPT ![d] = @ + 1]
  /\ dir' = d
  /\ due' = due \ {d}
  /\ pc' = "info"
  /\ UNCHANGED <<unitTable, dirClass, status, files, retry, pool, stop, drive, launches, tripped>>

DirCompletes ==
  /\ dirStatus' = [dirStatus EXCEPT ![dir] = "complete"]
  /\ dirClass' = [dirClass EXCEPT ![dir] = None]
  /\ dir' = None
  /\ pc' = "dirs"
  /\ UNCHANGED <<stop, tripped>>

DirFails(c) ==
  /\ dirStatus' = [dirStatus EXCEPT ![dir] = "failed"]
  /\ dirClass' = [dirClass EXCEPT ![dir] = c]
  /\ stop' = (c \in {"authentication", "quota"})
  /\ tripped' = stop'
  /\ dir' = None
  /\ pc' = "dirs"

\* A CLI call may fail with c: with a standing condition only while it lasts.
MayFail(c) == c \in FailureClasses /\ (c \in Standing => c \in outage)

\* "filesystem info": the folder is there.
InfoFindsFolder ==
  /\ pc = "info" /\ dir \in folders /\ "authentication" \notin outage
  /\ DirCompletes
  /\ UNCHANGED <<unitTable, dirAttempts, status, files, retry, dirQueue, pool, drive, history>>

\* It is not: create it.
InfoFindsNothing ==
  /\ pc = "info" /\ dir \notin folders /\ "authentication" \notin outage
  /\ pc' = "create"
  /\ UNCHANGED <<database, files, memory, drive, history>>

\* Any other failure, a file in the folder's place or an unreadable answer.
InfoFails(c) ==
  /\ pc = "info"
  /\ \/ MayFail(c) /\ c # "not-found"
     \/ c = "ambiguity"
  /\ DirFails(c)
  /\ UNCHANGED <<unitTable, dirAttempts, status, files, retry, dirQueue, pool, drive, launches, due>>

\* Proton makes the folder; the worker has not heard of it yet.
DriveCreatesFolder ==
  /\ pc = "create" /\ dir \notin folders /\ outage = {}
  /\ Parent[dir] \in folders \cup {None}
  /\ folders' = folders \cup {dir}
  /\ UNCHANGED <<database, files, pc, memory, outage, stored, orphans, history>>

CreateSucceeds ==
  /\ pc = "create" /\ dir \in folders
  /\ DirCompletes
  /\ UNCHANGED <<unitTable, dirAttempts, status, files, retry, dirQueue, pool, drive, history>>

CreateFails(c) ==
  /\ pc = "create"
  /\ MayFail(c)
  /\ DirFails(c)
  /\ UNCHANGED <<unitTable, dirAttempts, status, files, retry, dirQueue, pool, drive, launches, due>>

EndDirs ==
  /\ pc = "dirs"
  /\ stop \/ dirQueue = {}
  /\ pc' = "gate"
  /\ UNCHANGED <<database, files, memory, drive, history>>

-----------------------------------------------------------------------------
(* The units, by a pool of workers *)

\* Mutant: every folder was tried, whatever came of it.
EveryDirTried == ~stop /\ dirQueue = {}

Transferable == ~stop /\ \A d \in Dirs : dirStatus[d] = "complete"

BeginUploading ==
  /\ pc = "gate" /\ Transferable
  /\ status' = "uploading"
  /\ queue' = {u \in Units : unitStatus[u] = "pending" /\ unitAttempts[u] < MaxAttempts}
  /\ available' = Slots
  /\ pc' = "fill"
  /\ UNCHANGED <<unitTable, dirTable, files, retry, dirQueue, dir, slot, outcome, done, stop, drive, history>>

SkipUploading ==
  /\ pc = "gate" /\ ~Transferable
  /\ pc' = "finish"
  /\ UNCHANGED <<database, files, memory, drive, history>>

MaySchedule == available # {} /\ queue # {} /\ ~stop

\* Mutant: the attempt is not counted when it begins.
ClaimUncounted(u) ==
  /\ unitStatus' = [unitStatus EXCEPT ![u] = "running"]
  /\ UNCHANGED unitAttempts

ClaimUnit(u) ==
  /\ unitStatus' = [unitStatus EXCEPT ![u] = "running"]
  /\ unitAttempts' = [unitAttempts EXCEPT ![u] = @ + 1]

\* Mutant: the slot stays in the list of available ones.
ShareSlot(u, s) ==
  /\ slot' = [slot EXCEPT ![u] = s]
  /\ UNCHANGED available

TakeSlot(u, s) ==
  /\ slot' = [slot EXCEPT ![u] = s]
  /\ available' = available \ {s}

\* The next unit of the deque: which one depends on sizes the model does not know.
SubmitUnit(u, s) ==
  /\ pc = "fill" /\ MaySchedule
  /\ u \in queue /\ s \in available
  /\ ClaimUnit(u)
  /\ queue' = queue \ {u}
  /\ TakeSlot(u, s)
  /\ outcome' = [outcome EXCEPT ![u] = "submitted"]
  /\ due' = due \ {u}
  /\ UNCHANGED <<dirTable, unitClass, status, files, pc, retry, dirQueue, dir, done, stop, drive, launches, tripped>>

\* Mutant: waits for workers even when there is none.
AwaitNobody ==
  /\ pc = "fill" /\ ~MaySchedule
  /\ pc' = "wait"
  /\ UNCHANGED <<database, files, memory, drive, history>>

AwaitWorkers ==
  /\ pc = "fill" /\ ~MaySchedule
  /\ pc' = IF Active = {} THEN "finish" ELSE "wait"
  /\ UNCHANGED <<database, files, memory, drive, history>>

\* A worker thread checks the staged paths and starts the CLI.
LaunchCLI(u) ==
  /\ outcome[u] = "submitted"
  /\ outcome' = [outcome EXCEPT ![u] = "busy"]
  /\ launches' = [launches EXCEPT ![u] = @ + 1]
  /\ UNCHANGED <<database, files, pc, retry, dirQueue, dir, queue, slot, available, done, stop, drive, tripped, due>>

StageUnsafe(u) ==
  /\ outcome[u] = "submitted"
  /\ outcome' = [outcome EXCEPT ![u] = "stage-safety"]
  /\ UNCHANGED <<database, files, pc, retry, dirQueue, dir, queue, slot, available, done, stop, drive, history>>

\* Proton holds the whole unit; the CLI has not exited yet.
DriveStoresUnit(u) ==
  /\ outcome[u] = "busy" /\ u \notin stored /\ outage = {}
  /\ folders = Dirs
  /\ stored' = stored \cup {u}
  /\ UNCHANGED <<database, files, pc, memory, outage, folders, orphans, history>>

CLIExits(u, result) ==
  /\ outcome[u] = "busy"
  /\ \/ result = "ok" /\ u \in stored
     \/ result = "timeout"
     \/ MayFail(result)
  /\ outcome' = [outcome EXCEPT ![u] = result]
  /\ logged' = [logged EXCEPT ![u] = @ \cup (FailureClasses \cap {result})]
  /\ UNCHANGED <<database, accepted, pc, retry, dirQueue, dir, queue, slot, available, done, stop, drive, history>>

Finished == {u \in Active : outcome[u] \notin {"submitted", "busy"}}

\* concurrent.futures.wait returns every future that is done by now.
WaitReturns ==
  /\ pc = "wait" /\ Finished # {}
  /\ done' = Finished
  /\ pc' = "collect"
  /\ UNCHANGED <<database, files, retry, dirQueue, dir, queue, slot, available, outcome, stop, drive, history>>

\* The class the collector writes: of the log when the CLI exited, of the exception otherwise.
RecordedClass(u) ==
  CASE outcome[u] = "ok" -> None
    [] outcome[u] = "stage-safety" -> "stage-safety"
    [] outcome[u] = "timeout" -> "transient"
    [] OTHER -> ClassOfLog(logged[u])

StopsScheduling(c) == c \in {"authentication", "quota", "stage-safety"}

\* Mutant: the flag is assigned where the code only ever raises it.
StopOverwritten(c) == StopsScheduling(c)

StopAfter(c) == stop \/ StopsScheduling(c)

\* Mutant: a command cut off by the timeout counts as done.
SucceededOrTimedOut(u) == outcome[u] \in {"ok", "timeout"}

Succeeded(u) == outcome[u] = "ok"

CollectResult(u) ==
  LET class == RecordedClass(u)
  IN  /\ pc = "collect" /\ u \in done
      /\ unitStatus' = [unitStatus EXCEPT ![u] = IF Succeeded(u) THEN "complete" ELSE "failed"]
      /\ unitClass' = [unitClass EXCEPT ![u] = class]
      /\ stop' = StopAfter(class)
      /\ tripped' = (tripped \/ StopsScheduling(class))
      /\ available' = available \cup {slot[u]}
      /\ slot' = [slot EXCEPT ![u] = None]
      /\ outcome' = [outcome EXCEPT ![u] = "none"]
      /\ done' = done \ {u}
      /\ UNCHANGED <<dirTable, unitAttempts, status, files, pc, retry, dirQueue, dir, queue, drive, launches, due>>

EndBatch ==
  /\ pc = "collect" /\ done = {}
  /\ pc' = IF Active # {} \/ (queue # {} /\ ~stop) THEN "fill" ELSE "finish"
  /\ UNCHANGED <<database, files, memory, drive, history>>

-----------------------------------------------------------------------------
(* The end of a run *)

\* Mutant: looks for retryable units only.
FinalStateOfUnits ==
  IF AllComplete THEN "complete"
  ELSE IF \E u \in Units : RetryableUnit(u) THEN "recoverable"
  ELSE "blocked-remediation"

FinalState ==
  IF AllComplete THEN "complete"
  ELSE IF FailedWith("authentication") THEN "blocked-authentication"
  ELSE IF FailedWith("quota") THEN "blocked-quota"
  ELSE IF FailedWith("stage-safety") THEN "attention-required"
  ELSE IF (\E u \in Units : RetryableUnit(u)) \/ (\E d \in Dirs : RetryableDir(d)) THEN "recoverable"
  ELSE "blocked-remediation"

FinishRun ==
  /\ pc = "finish"
  /\ status' = FinalState
  /\ ProcessEnds
  /\ UNCHANGED <<unitTable, dirTable, files, drive, launches>>

\* write_upload_acceptance: the evidence file, from the status of the database.
AcceptUpload ==
  /\ status = "complete" /\ AllComplete
  /\ accepted' = TRUE
  /\ UNCHANGED <<database, logged, pc, memory, drive, history>>

-----------------------------------------------------------------------------
(* The world around it *)

\* Commands with something left to do to Proton Drive, each with the slot of its cache.
Commands ==
  {c \in Units \X Slots : outcome[c[1]] = "busy" /\ c[2] = slot[c[1]]} \cup
  {c \in Dirs \X {None} : pc = "create" /\ c[1] = dir /\ dir \notin folders}

\* The process dies and its memory is gone, at whatever point of a run. Its CLI commands
\* are processes of their own and may live on. They have inherited no lock, so the next
\* run starts beside them, with every slot available again.
Crash ==
  /\ pc # "idle"
  /\ \E left \in SUBSET Commands : orphans' = orphans \cup left
  /\ Cardinality(orphans') <= MaxOrphans
  /\ ProcessEnds
  /\ UNCHANGED <<database, files, outage, folders, stored, launches>>

\* What commands without a worker still do to Proton Drive.
OrphanStores(u, s) ==
  /\ <<u, s>> \in orphans /\ u \notin stored /\ outage = {}
  /\ folders = Dirs
  /\ stored' = stored \cup {u}
  /\ UNCHANGED <<database, files, pc, memory, outage, folders, orphans, history>>

OrphanCreates(d) ==
  /\ <<d, None>> \in orphans /\ d \notin folders /\ outage = {}
  /\ Parent[d] \in folders \cup {None}
  /\ folders' = folders \cup {d}
  /\ orphans' = orphans \ {<<d, None>>}
  /\ UNCHANGED <<database, files, pc, memory, outage, stored, history>>

\* An upload still prints into the log of its unit, which it has open.
OrphanPrints(u, s, k) ==
  /\ <<u, s>> \in orphans /\ MayFail(k)
  /\ logged' = [logged EXCEPT ![u] = @ \cup {k}]
  /\ UNCHANGED <<database, accepted, pc, memory, drive, history>>

OrphanEnds(c) ==
  /\ c \in orphans
  /\ orphans' = orphans \ {c}
  /\ UNCHANGED <<database, files, pc, memory, outage, folders, stored, history>>

ConditionArises(c) ==
  /\ c \in Standing \ outage
  /\ outage' = outage \cup {c}
  /\ UNCHANGED <<database, files, pc, memory, folders, stored, orphans, history>>

\* auth login, or more quota
OperatorCorrects(c) ==
  /\ c \in outage
  /\ outage' = outage \ {c}
  /\ UNCHANGED <<database, files, pc, memory, folders, stored, orphans, history>>

DirStep ==
  \/ \E d \in Dirs : BeginDir(d)
  \/ InfoFindsFolder \/ InfoFindsNothing \/ DriveCreatesFolder \/ CreateSucceeds
  \/ \E c \in FailureClasses \cup {"ambiguity"} : InfoFails(c)
  \/ \E c \in FailureClasses : CreateFails(c)
  \/ EndDirs

PoolStep ==
  \/ BeginUploading \/ SkipUploading
  \/ \E u \in Units, s \in Slots : SubmitUnit(u, s)
  \/ AwaitWorkers
  \/ \E u \in Units : LaunchCLI(u) \/ StageUnsafe(u) \/ DriveStoresUnit(u)
  \/ \E u \in Units, r \in FailureClasses \cup {"ok", "timeout"} : CLIExits(u, r)
  \/ WaitReturns
  \/ \E u \in Units : CollectResult(u)
  \/ EndBatch

OrphanStep ==
  \/ \E u \in Units, s \in Slots : OrphanStores(u, s)
  \/ \E u \in Units, s \in Slots, k \in FailureClasses : OrphanPrints(u, s, k)
  \/ \E d \in Dirs : OrphanCreates(d)
  \/ \E c \in orphans : OrphanEnds(c)

RunStep ==
  \/ Remediate \/ RemediateCutShort \/ RecoverInterrupted \/ RequeueFailed \/ PrepareDirectories
  \/ DirStep \/ PoolStep \/ FinishRun

Next ==
  \/ StartUpload \/ ResumeUpload
  \/ RunStep
  \/ AcceptUpload
  \/ Crash
  \/ OrphanStep
  \/ \E c \in Standing : ConditionArises(c) \/ OperatorCorrects(c)

Spec == Init /\ [][Next]_vars

\* A phase process keeps running, and every CLI command ends: --timeout kills it. Nobody
\* has to start another.
FairSpec == Spec /\ WF_vars(RunStep)

\* The operator docs/recovery.md hopes for: lifts what stands in the way and resumes again
\* and again. No launch limit spoils it; what fails even then fails in the program.
PatientSpec ==
  /\ FairSpec
  /\ SF_vars(ResumeUpload)
  /\ \A c \in Standing : WF_vars(OperatorCorrects(c))

-----------------------------------------------------------------------------
(* Properties *)

\* What the database calls complete is on Proton Drive, whatever crashed when: a folder
\* exists, and a unit is stored whole (run_upload writes "complete" on exit code 0 only).
CompleteIsStored ==
  /\ \A u \in Units : unitStatus[u] = "complete" => u \in stored
  /\ \A d \in Dirs : dirStatus[d] = "complete" => d \in folders

\* The acceptance evidence is written for nothing less than the whole plan on Drive
\* (write_upload_acceptance, the gate before destination verification).
AcceptedIsStored == accepted => stored = Units /\ folders = Dirs

\* No upload command runs before every planned folder exists: the CLI is given a parent
\* folder that ensure_remote_dir has seen or made.
FoldersFirst == (\E u \in Units : outcome[u] \in {"submitted", "busy"}) => folders = Dirs

\* Two commands of one run never share a worker slot, so never a CLI cache directory, and
\* a slot on loan is not in the list of available ones. Of commands that outlived an
\* earlier run the list knows nothing: with those a cache may be shared.
SlotsExclusive ==
  \A u \in Active :
    /\ slot[u] \notin available
    /\ \A v \in Active : slot[u] = slot[v] => u = v

\* Crashes included, no unit is handed to the CLI more than --max-attempts times: the
\* attempt is counted in the database before the command starts.
LaunchesBounded == \A u \in Units : launches[u] <= MaxAttempts

\* Once a run has recorded an authentication, quota or stage-safety failure it starts no
\* further unit and no further folder, however the results of one batch are ordered.
StopHolds ==
  [][tripped =>
       /\ \A u \in Units : outcome[u] = "none" => outcome'[u] = "none"
       /\ \A d \in Dirs : dirStatus[d] # "running" => dirStatus'[d] # "running"]_vars

\* The status a run ends with tells the operator the truth: nothing is left running;
\* "complete" when all is, "recoverable" only if a resume will retry something and nothing
\* needs a person first, "blocked-remediation" only if some failure will not be retried.
Verdict ==
  /\ \A u \in Units : unitStatus[u] # "running"
  /\ \A d \in Dirs : dirStatus[d] # "running"
  /\ status' = "complete" <=> AllComplete
  /\ status' = "recoverable" =>
       /\ (\E u \in Units : RetryableUnit(u)) \/ (\E d \in Dirs : RetryableDir(d))
       /\ \A c \in {"authentication", "quota", "stage-safety"} : ~FailedWith(c)
  /\ status' = "blocked-remediation" =>
       /\ \E x \in Units \cup Dirs :
            \/ x \in Units /\ unitStatus[x] = "failed"
            \/ x \in Dirs /\ dirStatus[x] = "failed"
       /\ \A u \in Units : ~RetryableUnit(u)
       /\ \A d \in Dirs : ~RetryableDir(d)

FinishTellsTruth == [][(pc = "finish" /\ status' # status) => Verdict]_vars

\* Work done stays done: no later run, remediation or crash reopens a complete row, so no
\* unit that was stored is uploaded again.
CompleteIsFinal ==
  [][/\ \A u \in Units : unitStatus[u] = "complete" =>
            unitStatus'[u] = "complete" /\ launches'[u] = launches[u]
     /\ \A d \in Dirs : dirStatus[d] = "complete" => dirStatus'[d] = "complete"]_vars

\* The upload keeps the promise of BoundedTries: bounded tries, confirmation only of
\* what is stored, no try after it, acceptance only of the whole.
Contract == INSTANCE BoundedTries WITH
  MaxTries <- MaxAttempts,
  tries <- launches,
  delivered <- stored,
  confirmed <- {u \in Units : unitStatus[u] = "complete"}

KeepsContract == Contract!Spec

\* Every run ends, by its own verdict or by a crash.
RunEnds == pc # "idle" ~> pc = "idle"

\* Every run takes up all that was left to do when it began, and a resume all that may be
\* retried too, unless a failure stopped it: the folders, and the units once every folder
\* is there. So the launches the phase is allowed are not wasted.
RunTriesAll ==
  pc = "finish" /\ ~stop =>
    /\ due \cap Dirs = {}
    /\ (\A d \in Dirs : dirStatus[d] = "complete") => due = {}

\* docs/recovery.md: after blocked-authentication, log in, then resume the phase. Expected
\* to bring the failed rows back.
LoginRecovers ==
  <>[](outage = {}) /\ <>[][~Crash]_vars => []<>~FailedWith("authentication")

\* docs/recovery.md: permission and ambiguity states require review. Expected of a unit
\* whose command has just failed that way: it is recorded so.
ReviewIsRecorded ==
  [][\A u \in Units :
       (pc = "collect" /\ pc' = "collect" /\ u \in done \ done' /\ outcome[u] \in {"permission", "ambiguity"})
         => unitClass'[u] = outcome[u]]_vars
=============================================================================

------------------------ MODULE ProtonUpload_proofs ------------------------
(***************************************************************************)
(* Machine-checked proofs about the upload worker, for any set of units,   *)
(* folders and slots and any bound on attempts: what holds throughout a    *)
(* run, and then that a run ends with a true status and starts nothing     *)
(* after a failure that must stop it.                                      *)
(***************************************************************************)
EXTENDS ProtonUpload, TLAPS

PoolSteps == {"fill", "wait", "collect"}

\* What the process holds about its workers agrees with itself and with the database.
PoolInv ==
  /\ \A u \in Units : slot[u] = None <=> outcome[u] = "none"
  /\ \A u \in Units : slot[u] # None => unitStatus[u] = "running" /\ pc \in PoolSteps
  /\ \A u \in Units : slot[u] # None => slot[u] \notin available
  /\ \A u, v \in Units : slot[u] # None /\ slot[u] = slot[v] => u = v
  /\ \A u \in done : outcome[u] \notin {"none", "submitted", "busy"}
  /\ \A u \in Units : outcome[u] = "ok" => u \in stored
  /\ \A u \in Units : outcome[u] \in FailureClasses => logged[u] # {}
  /\ \A u \in queue : unitStatus[u] = "pending" /\ unitAttempts[u] < MaxAttempts
  /\ queue # {} => pc \in PoolSteps \cup {"finish"}
  /\ pc \in PoolSteps => \A d \in Dirs : dirStatus[d] = "complete"

\* Every launch was counted first, and nothing is counted past the bound.
CountInv ==
  \A u \in Units :
    /\ launches[u] <= unitAttempts[u]
    /\ unitAttempts[u] <= MaxAttempts
    /\ outcome[u] = "submitted" => launches[u] < unitAttempts[u]
    /\ outcome[u] = "busy" => launches[u] > 0
    /\ \A s \in Slots : <<u, s>> \in orphans => launches[u] > 0

\* The loop over the folders touches pending rows, and the row it works on is running.
DirInv ==
  /\ \A d \in dirQueue : dirStatus[d] = "pending" /\ pc \notin {"idle", "remediate", "recover", "requeue", "prepare"}
  /\ pc \in {"info", "create"} => dir \in Dirs /\ dirStatus[dir] = "running"

AcceptedInv == accepted => AllComplete

IInv == TypeOK /\ PoolInv /\ CountInv /\ DirInv /\ CompleteIsStored /\ AcceptedInv

-----------------------------------------------------------------------------
(* Classification *)

\* Among the classes a log shows there is a first one in the order classify_error tests them.
LEMMA FirstClassExists ==
  ASSUME NEW log \in SUBSET FailureClasses, log # {}
  PROVE  \E k \in log : \A m \in log : Rank[k] <= Rank[m]
<1>1. log \subseteq {"authentication", "quota", "transport", "not-found", "ambiguity",
                     "mime", "literal-path", "permission", "unknown"}
  BY ClassAssumption
<1>2. /\ Rank["authentication"] = 1 /\ Rank["quota"] = 2 /\ Rank["transport"] = 3
      /\ Rank["not-found"] = 4 /\ Rank["ambiguity"] = 5 /\ Rank["mime"] = 6
      /\ Rank["literal-path"] = 7 /\ Rank["permission"] = 8 /\ Rank["unknown"] = 9
  BY DEF Rank
<1>3. CASE log \cap {"authentication", "quota", "transport"} # {}
  <2>1. CASE "authentication" \in log
    BY <1>1, <1>2, <2>1
  <2>2. CASE "authentication" \notin log /\ "quota" \in log
    BY <1>1, <1>2, <2>2
  <2>3. CASE "authentication" \notin log /\ "quota" \notin log /\ "transport" \in log
    BY <1>1, <1>2, <2>3
  <2>. QED
    BY <1>3, <2>1, <2>2, <2>3
<1>4. CASE /\ log \cap {"authentication", "quota", "transport"} = {}
           /\ log \cap {"not-found", "ambiguity", "mime"} # {}
  <2>1. CASE "not-found" \in log
    BY <1>1, <1>2, <1>4, <2>1
  <2>2. CASE "not-found" \notin log /\ "ambiguity" \in log
    BY <1>1, <1>2, <1>4, <2>2
  <2>3. CASE "not-found" \notin log /\ "ambiguity" \notin log /\ "mime" \in log
    BY <1>1, <1>2, <1>4, <2>3
  <2>. QED
    BY <1>4, <2>1, <2>2, <2>3
<1>5. CASE log \subseteq {"literal-path", "permission", "unknown"}
  <2>1. CASE "literal-path" \in log
    BY <1>2, <1>5, <2>1
  <2>2. CASE "literal-path" \notin log /\ "permission" \in log
    BY <1>2, <1>5, <2>2
  <2>3. CASE log = {"unknown"}
    BY <1>2, <2>3
  <2>. QED
    BY <1>5, <2>1, <2>2, <2>3
<1>6. \/ log \cap {"authentication", "quota", "transport"} # {}
      \/ log \cap {"not-found", "ambiguity", "mime"} # {}
      \/ log \subseteq {"literal-path", "permission", "unknown"}
  BY <1>1
<1>. QED
  BY <1>3, <1>4, <1>5, <1>6

\* The class recorded for a log is one classify_failure can return.
LEMMA ClassOfLogType ==
  ASSUME NEW log \in SUBSET FailureClasses, log # {}
  PROVE  ClassOfLog(log) \in {ClassifyFailure(c) : c \in FailureClasses}
<1>1. PICK k \in log : \A m \in log : Rank[k] <= Rank[m]
  BY FirstClassExists
<1>2. (CHOOSE j \in log : \A m \in log : Rank[j] <= Rank[m]) \in log
  BY <1>1
<1>. QED
  BY <1>2 DEF ClassOfLog

-----------------------------------------------------------------------------
(* Preservation *)

LEMMA StartUploadKeeps ==
  ASSUME IInv, StartUpload
  PROVE  IInv'
<1> USE DEF IInv, StartUpload, vars, database, unitTable, dirTable, files, pool, memory, drive, history
<1>1. TypeOK'
  BY DEF TypeOK, RowStatus, FinalStates, Statuses, Steps, Outcomes, UnitClasses, DirClasses, Standing
<1>2. PoolInv'
  BY DEF PoolInv, TypeOK, PoolSteps
<1>3. CountInv'
  BY DEF CountInv, PoolInv, TypeOK
<1>4. DirInv'
  BY DEF DirInv, TypeOK, PoolSteps
<1>5. CompleteIsStored'
  BY DEF CompleteIsStored, TypeOK
<1>6. AcceptedInv'
  BY DEF AcceptedInv, AllComplete, TypeOK
<1>. QED
  BY <1>1, <1>2, <1>3, <1>4, <1>5, <1>6

LEMMA ResumeUploadKeeps ==
  ASSUME IInv, ResumeUpload
  PROVE  IInv'
<1> USE DEF IInv, ResumeUpload, vars, database, unitTable, dirTable, files, pool, memory, drive, history
<1>1. TypeOK'
  BY DEF TypeOK, RowStatus, FinalStates, Statuses, Steps, Outcomes, UnitClasses, DirClasses, Standing
<1>2. PoolInv'
  BY DEF PoolInv, TypeOK, PoolSteps
<1>3. CountInv'
  BY DEF CountInv, PoolInv, TypeOK
<1>4. DirInv'
  BY DEF DirInv, TypeOK, PoolSteps
<1>5. CompleteIsStored'
  BY DEF CompleteIsStored, TypeOK
<1>6. AcceptedInv'
  BY DEF AcceptedInv, AllComplete, TypeOK
<1>. QED
  BY <1>1, <1>2, <1>3, <1>4, <1>5, <1>6

LEMMA RemediateKeeps ==
  ASSUME IInv, Remediate
  PROVE  IInv'
<1> USE DEF IInv, Remediate, Requeue, RemediatedState, RemediableUnit, vars, database, unitTable, dirTable, files, pool, memory, drive, history
<1>1. TypeOK'
  BY DEF TypeOK, RowStatus, FinalStates, Statuses, Steps, Outcomes, UnitClasses, DirClasses, Standing
<1>2. PoolInv'
  BY DEF PoolInv, TypeOK, PoolSteps
<1>3. CountInv'
  BY DEF CountInv, PoolInv, TypeOK
<1>4. DirInv'
  BY DEF DirInv, TypeOK, PoolSteps
<1>5. CompleteIsStored'
  BY DEF CompleteIsStored, TypeOK
<1>6. AcceptedInv'
  BY DEF AcceptedInv, AllComplete, TypeOK
<1>. QED
  BY <1>1, <1>2, <1>3, <1>4, <1>5, <1>6

LEMMA RemediateCutShortKeeps ==
  ASSUME IInv, RemediateCutShort
  PROVE  IInv'
<1> USE DEF IInv, RemediateCutShort, Requeue, RemediableUnit, ProcessEnds, vars, database, unitTable, dirTable, files, pool, memory, drive, history
<1>1. TypeOK'
  <2>1. unitStatus' \in [Units -> RowStatus]
    BY DEF TypeOK, RowStatus
  <2>2. CASE pc' = "recover" /\ UNCHANGED <<memory, tripped, due>>
    BY <2>1, <2>2 DEF TypeOK, Steps
  <2>3. CASE ProcessEnds
    BY <2>1, <2>3 DEF TypeOK, Steps, Outcomes
  <2>. QED
    BY <2>2, <2>3
<1>2. PoolInv'
  BY DEF PoolInv, TypeOK, PoolSteps
<1>3. CountInv'
  BY DEF CountInv, PoolInv, TypeOK
<1>4. DirInv'
  BY DEF DirInv, TypeOK, PoolSteps
<1>5. CompleteIsStored'
  BY DEF CompleteIsStored, TypeOK
<1>6. AcceptedInv'
  BY DEF AcceptedInv, AllComplete, TypeOK
<1>. QED
  BY <1>1, <1>2, <1>3, <1>4, <1>5, <1>6

LEMMA RecoverInterruptedKeeps ==
  ASSUME IInv, RecoverInterrupted
  PROVE  IInv'
<1> USE DEF IInv, RecoverInterrupted, vars, database, unitTable, dirTable, files, pool, memory, drive, history
<1>1. TypeOK'
  BY DEF TypeOK, RowStatus, FinalStates, Statuses, Steps, Outcomes, UnitClasses, DirClasses, Standing
<1>2. PoolInv'
  BY DEF PoolInv, TypeOK, PoolSteps
<1>3. CountInv'
  BY DEF CountInv, PoolInv, TypeOK
<1>4. DirInv'
  BY DEF DirInv, TypeOK, PoolSteps
<1>5. CompleteIsStored'
  BY DEF CompleteIsStored, TypeOK
<1>6. AcceptedInv'
  BY DEF AcceptedInv, AllComplete, TypeOK
<1>. QED
  BY <1>1, <1>2, <1>3, <1>4, <1>5, <1>6

LEMMA RequeueFailedKeeps ==
  ASSUME IInv, RequeueFailed
  PROVE  IInv'
<1> USE DEF IInv, RequeueFailed, Requeue, RetryableUnit, RetryableDir, vars, database, unitTable, dirTable, files, pool, memory, drive, history
<1>1. TypeOK'
  BY DEF TypeOK, RowStatus, FinalStates, Statuses, Steps, Outcomes, UnitClasses, DirClasses, Standing
<1>2. PoolInv'
  BY DEF PoolInv, TypeOK, PoolSteps
<1>3. CountInv'
  BY DEF CountInv, PoolInv, TypeOK
<1>4. DirInv'
  BY DEF DirInv, TypeOK, PoolSteps
<1>5. CompleteIsStored'
  BY DEF CompleteIsStored, TypeOK
<1>6. AcceptedInv'
  BY DEF AcceptedInv, AllComplete, TypeOK
<1>. QED
  BY <1>1, <1>2, <1>3, <1>4, <1>5, <1>6

LEMMA PrepareDirectoriesKeeps ==
  ASSUME IInv, PrepareDirectories
  PROVE  IInv'
<1> USE DEF IInv, PrepareDirectories, vars, database, unitTable, dirTable, files, pool, memory, drive, history
<1>1. TypeOK'
  BY DEF TypeOK, RowStatus, FinalStates, Statuses, Steps, Outcomes, UnitClasses, DirClasses, Standing
<1>2. PoolInv'
  BY DEF PoolInv, TypeOK, PoolSteps
<1>3. CountInv'
  BY DEF CountInv, PoolInv, TypeOK
<1>4. DirInv'
  BY DEF DirInv, TypeOK, PoolSteps
<1>5. CompleteIsStored'
  BY DEF CompleteIsStored, TypeOK
<1>6. AcceptedInv'
  BY DEF AcceptedInv, AllComplete, TypeOK
<1>. QED
  BY <1>1, <1>2, <1>3, <1>4, <1>5, <1>6

LEMMA BeginDirKeeps ==
  ASSUME IInv, NEW d \in Dirs, BeginDir(d)
  PROVE  IInv'
<1> USE DEF IInv, BeginDir, NextDir, vars, database, unitTable, dirTable, files, pool, memory, drive, history
<1>1. TypeOK'
  BY DEF TypeOK, RowStatus, FinalStates, Statuses, Steps, Outcomes, UnitClasses, DirClasses, Standing
<1>2. PoolInv'
  BY DEF PoolInv, TypeOK, PoolSteps
<1>3. CountInv'
  BY DEF CountInv, PoolInv, TypeOK
<1>4. DirInv'
  BY DEF DirInv, TypeOK, PoolSteps
<1>5. CompleteIsStored'
  BY DEF CompleteIsStored, TypeOK
<1>6. AcceptedInv'
  BY DEF AcceptedInv, AllComplete, TypeOK, DirInv
<1>. QED
  BY <1>1, <1>2, <1>3, <1>4, <1>5, <1>6

LEMMA InfoFindsFolderKeeps ==
  ASSUME IInv, InfoFindsFolder
  PROVE  IInv'
<1> USE DEF IInv, InfoFindsFolder, DirCompletes, vars, database, unitTable, dirTable, files, pool, memory, drive, history
<1>1. TypeOK'
  BY DEF TypeOK, RowStatus, FinalStates, Statuses, Steps, Outcomes, UnitClasses, DirClasses, Standing
<1>2. PoolInv'
  BY DEF PoolInv, TypeOK, PoolSteps
<1>3. CountInv'
  BY DEF CountInv, PoolInv, TypeOK
<1>4. DirInv'
  BY DEF DirInv, TypeOK, PoolSteps
<1>5. CompleteIsStored'
  BY DEF CompleteIsStored, TypeOK
<1>6. AcceptedInv'
  BY DEF AcceptedInv, AllComplete, TypeOK
<1>. QED
  BY <1>1, <1>2, <1>3, <1>4, <1>5, <1>6

LEMMA InfoFindsNothingKeeps ==
  ASSUME IInv, InfoFindsNothing
  PROVE  IInv'
<1> USE DEF IInv, InfoFindsNothing, vars, database, unitTable, dirTable, files, pool, memory, drive, history
<1>1. TypeOK'
  BY DEF TypeOK, RowStatus, FinalStates, Statuses, Steps, Outcomes, UnitClasses, DirClasses, Standing
<1>2. PoolInv'
  BY DEF PoolInv, TypeOK, PoolSteps
<1>3. CountInv'
  BY DEF CountInv, PoolInv, TypeOK
<1>4. DirInv'
  BY DEF DirInv, TypeOK, PoolSteps
<1>5. CompleteIsStored'
  BY DEF CompleteIsStored, TypeOK
<1>6. AcceptedInv'
  BY DEF AcceptedInv, AllComplete, TypeOK
<1>. QED
  BY <1>1, <1>2, <1>3, <1>4, <1>5, <1>6

LEMMA DriveCreatesFolderKeeps ==
  ASSUME IInv, DriveCreatesFolder
  PROVE  IInv'
<1> USE DEF IInv, DriveCreatesFolder, vars, database, unitTable, dirTable, files, pool, memory, drive, history
<1>1. TypeOK'
  BY DEF TypeOK, RowStatus, FinalStates, Statuses, Steps, Outcomes, UnitClasses, DirClasses, Standing, DirInv
<1>2. PoolInv'
  BY DEF PoolInv, TypeOK, PoolSteps
<1>3. CountInv'
  BY DEF CountInv, PoolInv, TypeOK
<1>4. DirInv'
  BY DEF DirInv, TypeOK, PoolSteps
<1>5. CompleteIsStored'
  BY DEF CompleteIsStored, TypeOK
<1>6. AcceptedInv'
  BY DEF AcceptedInv, AllComplete, TypeOK
<1>. QED
  BY <1>1, <1>2, <1>3, <1>4, <1>5, <1>6

LEMMA CreateSucceedsKeeps ==
  ASSUME IInv, CreateSucceeds
  PROVE  IInv'
<1> USE DEF IInv, CreateSucceeds, DirCompletes, vars, database, unitTable, dirTable, files, pool, memory, drive, history
<1>1. TypeOK'
  BY DEF TypeOK, RowStatus, FinalStates, Statuses, Steps, Outcomes, UnitClasses, DirClasses, Standing
<1>2. PoolInv'
  BY DEF PoolInv, TypeOK, PoolSteps
<1>3. CountInv'
  BY DEF CountInv, PoolInv, TypeOK
<1>4. DirInv'
  BY DEF DirInv, TypeOK, PoolSteps
<1>5. CompleteIsStored'
  BY DEF CompleteIsStored, TypeOK
<1>6. AcceptedInv'
  BY DEF AcceptedInv, AllComplete, TypeOK
<1>. QED
  BY <1>1, <1>2, <1>3, <1>4, <1>5, <1>6

LEMMA InfoFailsKeeps ==
  ASSUME IInv, NEW c \in FailureClasses \cup {"ambiguity"}, InfoFails(c)
  PROVE  IInv'
<1> USE DEF IInv, InfoFails, DirFails, MayFail, vars, database, unitTable, dirTable, files, pool, memory, drive, history
<1>1. TypeOK'
  BY DEF TypeOK, RowStatus, FinalStates, Statuses, Steps, Outcomes, UnitClasses, DirClasses, Standing, DirInv
<1>2. PoolInv'
  BY DEF PoolInv, TypeOK, PoolSteps
<1>3. CountInv'
  BY DEF CountInv, PoolInv, TypeOK
<1>4. DirInv'
  BY DEF DirInv, TypeOK, PoolSteps
<1>5. CompleteIsStored'
  BY DEF CompleteIsStored, TypeOK
<1>6. AcceptedInv'
  BY DEF AcceptedInv, AllComplete, TypeOK, DirInv
<1>. QED
  BY <1>1, <1>2, <1>3, <1>4, <1>5, <1>6

LEMMA CreateFailsKeeps ==
  ASSUME IInv, NEW c \in FailureClasses, CreateFails(c)
  PROVE  IInv'
<1> USE DEF IInv, CreateFails, DirFails, MayFail, vars, database, unitTable, dirTable, files, pool, memory, drive, history
<1>1. TypeOK'
  BY DEF TypeOK, RowStatus, FinalStates, Statuses, Steps, Outcomes, UnitClasses, DirClasses, Standing, DirInv
<1>2. PoolInv'
  BY DEF PoolInv, TypeOK, PoolSteps
<1>3. CountInv'
  BY DEF CountInv, PoolInv, TypeOK
<1>4. DirInv'
  BY DEF DirInv, TypeOK, PoolSteps
<1>5. CompleteIsStored'
  BY DEF CompleteIsStored, TypeOK
<1>6. AcceptedInv'
  BY DEF AcceptedInv, AllComplete, TypeOK, DirInv
<1>. QED
  BY <1>1, <1>2, <1>3, <1>4, <1>5, <1>6

LEMMA EndDirsKeeps ==
  ASSUME IInv, EndDirs
  PROVE  IInv'
<1> USE DEF IInv, EndDirs, vars, database, unitTable, dirTable, files, pool, memory, drive, history
<1>1. TypeOK'
  BY DEF TypeOK, RowStatus, FinalStates, Statuses, Steps, Outcomes, UnitClasses, DirClasses, Standing
<1>2. PoolInv'
  BY DEF PoolInv, TypeOK, PoolSteps
<1>3. CountInv'
  BY DEF CountInv, PoolInv, TypeOK
<1>4. DirInv'
  BY DEF DirInv, TypeOK, PoolSteps
<1>5. CompleteIsStored'
  BY DEF CompleteIsStored, TypeOK
<1>6. AcceptedInv'
  BY DEF AcceptedInv, AllComplete, TypeOK
<1>. QED
  BY <1>1, <1>2, <1>3, <1>4, <1>5, <1>6

LEMMA BeginUploadingKeeps ==
  ASSUME IInv, BeginUploading
  PROVE  IInv'
<1> USE DEF IInv, BeginUploading, Transferable, vars, database, unitTable, dirTable, files, pool, memory, drive, history
<1>1. TypeOK'
  BY DEF TypeOK, RowStatus, FinalStates, Statuses, Steps, Outcomes, UnitClasses, DirClasses, Standing
<1>2. PoolInv'
  BY DEF PoolInv, TypeOK, PoolSteps
<1>3. CountInv'
  BY DEF CountInv, PoolInv, TypeOK
<1>4. DirInv'
  BY DEF DirInv, TypeOK, PoolSteps
<1>5. CompleteIsStored'
  BY DEF CompleteIsStored, TypeOK
<1>6. AcceptedInv'
  BY DEF AcceptedInv, AllComplete, TypeOK
<1>. QED
  BY <1>1, <1>2, <1>3, <1>4, <1>5, <1>6

LEMMA SkipUploadingKeeps ==
  ASSUME IInv, SkipUploading
  PROVE  IInv'
<1> USE DEF IInv, SkipUploading, vars, database, unitTable, dirTable, files, pool, memory, drive, history
<1>1. TypeOK'
  BY DEF TypeOK, RowStatus, FinalStates, Statuses, Steps, Outcomes, UnitClasses, DirClasses, Standing
<1>2. PoolInv'
  BY DEF PoolInv, TypeOK, PoolSteps
<1>3. CountInv'
  BY DEF CountInv, PoolInv, TypeOK
<1>4. DirInv'
  BY DEF DirInv, TypeOK, PoolSteps
<1>5. CompleteIsStored'
  BY DEF CompleteIsStored, TypeOK
<1>6. AcceptedInv'
  BY DEF AcceptedInv, AllComplete, TypeOK
<1>. QED
  BY <1>1, <1>2, <1>3, <1>4, <1>5, <1>6

LEMMA SubmitUnitKeeps ==
  ASSUME IInv, NEW u \in Units, NEW s \in Slots, SubmitUnit(u, s)
  PROVE  IInv'
<1> USE DEF IInv, SubmitUnit, ClaimUnit, TakeSlot, MaySchedule, vars, database, unitTable, dirTable, files, pool, memory, drive, history
<1>1. TypeOK'
  BY DEF TypeOK, RowStatus, FinalStates, Statuses, Steps, Outcomes, UnitClasses, DirClasses, Standing
<1>2. PoolInv'
  BY NoneAssumption, ClassAssumption DEF PoolInv, TypeOK, PoolSteps
<1>3. CountInv'
  <2>1. /\ unitAttempts[u] \in Nat /\ unitAttempts[u] < MaxAttempts
        /\ launches[u] \in Nat /\ launches[u] <= unitAttempts[u]
    BY DEF TypeOK, PoolInv, CountInv
  <2>2. /\ unitAttempts' = [unitAttempts EXCEPT ![u] = unitAttempts[u] + 1]
        /\ outcome' = [outcome EXCEPT ![u] = "submitted"]
        /\ launches' = launches
    OBVIOUS
  <2>3. SUFFICES ASSUME NEW x \in Units
                 PROVE  /\ launches[x] <= unitAttempts'[x]
                        /\ unitAttempts'[x] <= MaxAttempts
                        /\ outcome'[x] = "submitted" => launches[x] < unitAttempts'[x]
                        /\ outcome'[x] = "busy" => launches[x] > 0
    BY <2>2 DEF CountInv
  <2>4. CASE x = u
    BY <2>1, <2>2, <2>4, AttemptsAssumption DEF TypeOK
  <2>5. CASE x # u
    BY <2>2, <2>5 DEF TypeOK, CountInv
  <2>. QED
    BY <2>4, <2>5
<1>4. DirInv'
  BY DEF DirInv, TypeOK, PoolSteps
<1>5. CompleteIsStored'
  BY DEF CompleteIsStored, TypeOK
<1>6. AcceptedInv'
  BY DEF AcceptedInv, AllComplete, TypeOK, PoolInv
<1>. QED
  BY <1>1, <1>2, <1>3, <1>4, <1>5, <1>6

LEMMA AwaitWorkersKeeps ==
  ASSUME IInv, AwaitWorkers
  PROVE  IInv'
<1> USE DEF IInv, AwaitWorkers, Active, vars, database, unitTable, dirTable, files, pool, memory, drive, history
<1>1. TypeOK'
  BY DEF TypeOK, RowStatus, FinalStates, Statuses, Steps, Outcomes, UnitClasses, DirClasses, Standing
<1>2. PoolInv'
  BY DEF PoolInv, TypeOK, PoolSteps
<1>3. CountInv'
  BY DEF CountInv, PoolInv, TypeOK
<1>4. DirInv'
  BY DEF DirInv, TypeOK, PoolSteps
<1>5. CompleteIsStored'
  BY DEF CompleteIsStored, TypeOK
<1>6. AcceptedInv'
  BY DEF AcceptedInv, AllComplete, TypeOK
<1>. QED
  BY <1>1, <1>2, <1>3, <1>4, <1>5, <1>6

LEMMA LaunchCLIKeeps ==
  ASSUME IInv, NEW u \in Units, LaunchCLI(u)
  PROVE  IInv'
<1> USE DEF IInv, LaunchCLI, vars, database, unitTable, dirTable, files, pool, memory, drive, history
<1>1. TypeOK'
  BY DEF TypeOK, RowStatus, FinalStates, Statuses, Steps, Outcomes, UnitClasses, DirClasses, Standing
<1>2. PoolInv'
  BY NoneAssumption, ClassAssumption DEF PoolInv, TypeOK, PoolSteps
<1>3. CountInv'
  BY DEF CountInv, PoolInv, TypeOK
<1>4. DirInv'
  BY DEF DirInv, TypeOK, PoolSteps
<1>5. CompleteIsStored'
  BY DEF CompleteIsStored, TypeOK
<1>6. AcceptedInv'
  BY DEF AcceptedInv, AllComplete, TypeOK
<1>. QED
  BY <1>1, <1>2, <1>3, <1>4, <1>5, <1>6

LEMMA StageUnsafeKeeps ==
  ASSUME IInv, NEW u \in Units, StageUnsafe(u)
  PROVE  IInv'
<1> USE DEF IInv, StageUnsafe, vars, database, unitTable, dirTable, files, pool, memory, drive, history
<1>1. TypeOK'
  BY DEF TypeOK, RowStatus, FinalStates, Statuses, Steps, Outcomes, UnitClasses, DirClasses, Standing
<1>2. PoolInv'
  BY NoneAssumption, ClassAssumption DEF PoolInv, TypeOK, PoolSteps
<1>3. CountInv'
  BY DEF CountInv, PoolInv, TypeOK
<1>4. DirInv'
  BY DEF DirInv, TypeOK, PoolSteps
<1>5. CompleteIsStored'
  BY DEF CompleteIsStored, TypeOK
<1>6. AcceptedInv'
  BY DEF AcceptedInv, AllComplete, TypeOK
<1>. QED
  BY <1>1, <1>2, <1>3, <1>4, <1>5, <1>6

LEMMA DriveStoresUnitKeeps ==
  ASSUME IInv, NEW u \in Units, DriveStoresUnit(u)
  PROVE  IInv'
<1> USE DEF IInv, DriveStoresUnit, vars, database, unitTable, dirTable, files, pool, memory, drive, history
<1>1. TypeOK'
  BY DEF TypeOK, RowStatus, FinalStates, Statuses, Steps, Outcomes, UnitClasses, DirClasses, Standing
<1>2. PoolInv'
  BY DEF PoolInv, TypeOK, PoolSteps
<1>3. CountInv'
  BY DEF CountInv, PoolInv, TypeOK
<1>4. DirInv'
  BY DEF DirInv, TypeOK, PoolSteps
<1>5. CompleteIsStored'
  BY DEF CompleteIsStored, TypeOK
<1>6. AcceptedInv'
  BY DEF AcceptedInv, AllComplete, TypeOK
<1>. QED
  BY <1>1, <1>2, <1>3, <1>4, <1>5, <1>6

LEMMA CLIExitsKeeps ==
  ASSUME IInv, NEW u \in Units, NEW r \in FailureClasses \cup {"ok", "timeout"}, CLIExits(u, r)
  PROVE  IInv'
<1> USE DEF IInv, CLIExits, MayFail, vars, database, unitTable, dirTable, files, pool, memory, drive, history
<1>1. TypeOK'
  BY DEF TypeOK, RowStatus, FinalStates, Statuses, Steps, Outcomes, UnitClasses, DirClasses, Standing
<1>2. PoolInv'
  BY NoneAssumption, ClassAssumption DEF PoolInv, TypeOK, PoolSteps
<1>3. CountInv'
  BY ClassAssumption DEF CountInv, PoolInv, TypeOK
<1>4. DirInv'
  BY DEF DirInv, TypeOK, PoolSteps
<1>5. CompleteIsStored'
  BY DEF CompleteIsStored, TypeOK
<1>6. AcceptedInv'
  BY DEF AcceptedInv, AllComplete, TypeOK
<1>. QED
  BY <1>1, <1>2, <1>3, <1>4, <1>5, <1>6

LEMMA WaitReturnsKeeps ==
  ASSUME IInv, WaitReturns
  PROVE  IInv'
<1> USE DEF IInv, WaitReturns, Finished, Active, vars, database, unitTable, dirTable, files, pool, memory, drive, history
<1>1. TypeOK'
  BY DEF TypeOK, RowStatus, FinalStates, Statuses, Steps, Outcomes, UnitClasses, DirClasses, Standing
<1>2. PoolInv'
  BY DEF PoolInv, TypeOK, PoolSteps
<1>3. CountInv'
  BY DEF CountInv, PoolInv, TypeOK
<1>4. DirInv'
  BY DEF DirInv, TypeOK, PoolSteps
<1>5. CompleteIsStored'
  BY DEF CompleteIsStored, TypeOK
<1>6. AcceptedInv'
  BY DEF AcceptedInv, AllComplete, TypeOK
<1>. QED
  BY <1>1, <1>2, <1>3, <1>4, <1>5, <1>6

LEMMA CollectResultKeeps ==
  ASSUME IInv, NEW u \in Units, CollectResult(u)
  PROVE  IInv'
<1> USE DEF IInv, CollectResult, Succeeded, StopAfter, StopsScheduling, vars, database, unitTable, dirTable, files, pool, memory, drive, history
<1>1. TypeOK'
  BY ClassOfLogType, ClassAssumption DEF TypeOK, RowStatus, FinalStates, Statuses, Steps, Outcomes, UnitClasses, DirClasses, Standing, PoolInv, RecordedClass
<1>2. PoolInv'
  BY NoneAssumption, ClassAssumption DEF PoolInv, TypeOK, PoolSteps
<1>3. CountInv'
  BY DEF CountInv, PoolInv, TypeOK
<1>4. DirInv'
  BY DEF DirInv, TypeOK, PoolSteps
<1>5. CompleteIsStored'
  BY DEF CompleteIsStored, TypeOK, PoolInv
<1>6. AcceptedInv'
  BY DEF AcceptedInv, AllComplete, TypeOK, PoolInv
<1>. QED
  BY <1>1, <1>2, <1>3, <1>4, <1>5, <1>6

LEMMA EndBatchKeeps ==
  ASSUME IInv, EndBatch
  PROVE  IInv'
<1> USE DEF IInv, EndBatch, Active, vars, database, unitTable, dirTable, files, pool, memory, drive, history
<1>1. TypeOK'
  BY DEF TypeOK, RowStatus, FinalStates, Statuses, Steps, Outcomes, UnitClasses, DirClasses, Standing
<1>2. PoolInv'
  BY DEF PoolInv, TypeOK, PoolSteps
<1>3. CountInv'
  BY DEF CountInv, PoolInv, TypeOK
<1>4. DirInv'
  BY DEF DirInv, TypeOK, PoolSteps
<1>5. CompleteIsStored'
  BY DEF CompleteIsStored, TypeOK
<1>6. AcceptedInv'
  BY DEF AcceptedInv, AllComplete, TypeOK
<1>. QED
  BY <1>1, <1>2, <1>3, <1>4, <1>5, <1>6

LEMMA FinishRunKeeps ==
  ASSUME IInv, FinishRun
  PROVE  IInv'
<1> USE DEF IInv, FinishRun, FinalState, FailedWith, ProcessEnds, vars, database, unitTable, dirTable, files, pool, memory, drive, history
<1>1. TypeOK'
  BY DEF TypeOK, RowStatus, FinalStates, Statuses, Steps, Outcomes, UnitClasses, DirClasses, Standing
<1>2. PoolInv'
  BY DEF PoolInv, TypeOK, PoolSteps
<1>3. CountInv'
  BY DEF CountInv, PoolInv, TypeOK
<1>4. DirInv'
  BY DEF DirInv, TypeOK, PoolSteps
<1>5. CompleteIsStored'
  BY DEF CompleteIsStored, TypeOK
<1>6. AcceptedInv'
  BY DEF AcceptedInv, AllComplete, TypeOK
<1>. QED
  BY <1>1, <1>2, <1>3, <1>4, <1>5, <1>6

LEMMA AcceptUploadKeeps ==
  ASSUME IInv, AcceptUpload
  PROVE  IInv'
<1> USE DEF IInv, AcceptUpload, vars, database, unitTable, dirTable, files, pool, memory, drive, history
<1>1. TypeOK'
  BY DEF TypeOK, RowStatus, FinalStates, Statuses, Steps, Outcomes, UnitClasses, DirClasses, Standing
<1>2. PoolInv'
  BY DEF PoolInv, TypeOK, PoolSteps
<1>3. CountInv'
  BY DEF CountInv, PoolInv, TypeOK
<1>4. DirInv'
  BY DEF DirInv, TypeOK, PoolSteps
<1>5. CompleteIsStored'
  BY DEF CompleteIsStored, TypeOK
<1>6. AcceptedInv'
  BY DEF AcceptedInv, AllComplete, TypeOK
<1>. QED
  BY <1>1, <1>2, <1>3, <1>4, <1>5, <1>6

LEMMA CrashKeeps ==
  ASSUME IInv, Crash
  PROVE  IInv'
<1> USE DEF IInv, Crash, ProcessEnds, vars, database, unitTable, dirTable, files, pool, memory, drive, history
<1>1. PICK left \in SUBSET Commands : orphans' = orphans \cup left
  OBVIOUS
<1>2. TypeOK'
  <2>1. Commands \subseteq (Units \X Slots) \cup (Dirs \X {None})
    BY DEF Commands
  <2>2. orphans' \subseteq (Units \X Slots) \cup (Dirs \X {None})
    BY <1>1, <2>1 DEF TypeOK
  <2>. QED
    BY <2>2 DEF TypeOK, RowStatus, FinalStates, Statuses, Steps, Outcomes, UnitClasses, DirClasses, Standing
<1>3. PoolInv'
  BY ClassAssumption, NoneAssumption DEF PoolInv, TypeOK, PoolSteps
<1>4. CountInv'
  <2>1. ASSUME NEW u \in Units, NEW s \in Slots, <<u, s>> \in left
        PROVE  launches[u] > 0
    BY <1>1, <2>1, NoneAssumption DEF Commands, CountInv
  <2>. QED
    BY <1>1, <2>1 DEF CountInv, PoolInv, TypeOK
<1>5. DirInv'
  BY DEF DirInv, TypeOK, PoolSteps
<1>6. CompleteIsStored'
  BY DEF CompleteIsStored, TypeOK
<1>7. AcceptedInv'
  BY DEF AcceptedInv, AllComplete, TypeOK
<1>. QED
  BY <1>2, <1>3, <1>4, <1>5, <1>6, <1>7

LEMMA OrphanStoresKeeps ==
  ASSUME IInv, NEW u \in Units, NEW s \in Slots, OrphanStores(u, s)
  PROVE  IInv'
<1> USE DEF IInv, OrphanStores, vars, database, unitTable, dirTable, files, pool, memory, drive, history
<1>1. TypeOK'
  BY DEF TypeOK, RowStatus, FinalStates, Statuses, Steps, Outcomes, UnitClasses, DirClasses, Standing
<1>2. PoolInv'
  BY DEF PoolInv, TypeOK, PoolSteps
<1>3. CountInv'
  BY DEF CountInv, PoolInv, TypeOK
<1>4. DirInv'
  BY DEF DirInv, TypeOK, PoolSteps
<1>5. CompleteIsStored'
  BY DEF CompleteIsStored, TypeOK
<1>6. AcceptedInv'
  BY DEF AcceptedInv, AllComplete, TypeOK
<1>. QED
  BY <1>1, <1>2, <1>3, <1>4, <1>5, <1>6

LEMMA OrphanPrintsKeeps ==
  ASSUME IInv, NEW u \in Units, NEW s \in Slots, NEW k \in FailureClasses, OrphanPrints(u, s, k)
  PROVE  IInv'
<1> USE DEF IInv, OrphanPrints, MayFail, vars, database, unitTable, dirTable, files, pool, memory, drive, history
<1>1. TypeOK'
  BY DEF TypeOK, RowStatus, FinalStates, Statuses, Steps, Outcomes, UnitClasses, DirClasses, Standing
<1>2. PoolInv'
  BY DEF PoolInv, TypeOK, PoolSteps
<1>3. CountInv'
  BY DEF CountInv, PoolInv, TypeOK
<1>4. DirInv'
  BY DEF DirInv, TypeOK, PoolSteps
<1>5. CompleteIsStored'
  BY DEF CompleteIsStored, TypeOK
<1>6. AcceptedInv'
  BY DEF AcceptedInv, AllComplete, TypeOK
<1>. QED
  BY <1>1, <1>2, <1>3, <1>4, <1>5, <1>6

LEMMA OrphanCreatesKeeps ==
  ASSUME IInv, NEW d \in Dirs, OrphanCreates(d)
  PROVE  IInv'
<1> USE DEF IInv, OrphanCreates, vars, database, unitTable, dirTable, files, pool, memory, drive, history
<1>1. TypeOK'
  BY DEF TypeOK, RowStatus, FinalStates, Statuses, Steps, Outcomes, UnitClasses, DirClasses, Standing
<1>2. PoolInv'
  BY DEF PoolInv, TypeOK, PoolSteps
<1>3. CountInv'
  BY DEF CountInv, PoolInv, TypeOK
<1>4. DirInv'
  BY DEF DirInv, TypeOK, PoolSteps
<1>5. CompleteIsStored'
  BY DEF CompleteIsStored, TypeOK
<1>6. AcceptedInv'
  BY DEF AcceptedInv, AllComplete, TypeOK
<1>. QED
  BY <1>1, <1>2, <1>3, <1>4, <1>5, <1>6

LEMMA OrphanEndsKeeps ==
  ASSUME IInv, NEW c \in orphans, OrphanEnds(c)
  PROVE  IInv'
<1> USE DEF IInv, OrphanEnds, vars, database, unitTable, dirTable, files, pool, memory, drive, history
<1>1. TypeOK'
  BY DEF TypeOK, RowStatus, FinalStates, Statuses, Steps, Outcomes, UnitClasses, DirClasses, Standing
<1>2. PoolInv'
  BY DEF PoolInv, TypeOK, PoolSteps
<1>3. CountInv'
  BY DEF CountInv, PoolInv, TypeOK
<1>4. DirInv'
  BY DEF DirInv, TypeOK, PoolSteps
<1>5. CompleteIsStored'
  BY DEF CompleteIsStored, TypeOK
<1>6. AcceptedInv'
  BY DEF AcceptedInv, AllComplete, TypeOK
<1>. QED
  BY <1>1, <1>2, <1>3, <1>4, <1>5, <1>6

LEMMA ConditionArisesKeeps ==
  ASSUME IInv, NEW c \in Standing, ConditionArises(c)
  PROVE  IInv'
<1> USE DEF IInv, ConditionArises, vars, database, unitTable, dirTable, files, pool, memory, drive, history
<1>1. TypeOK'
  BY DEF TypeOK, RowStatus, FinalStates, Statuses, Steps, Outcomes, UnitClasses, DirClasses, Standing
<1>2. PoolInv'
  BY DEF PoolInv, TypeOK, PoolSteps
<1>3. CountInv'
  BY DEF CountInv, PoolInv, TypeOK
<1>4. DirInv'
  BY DEF DirInv, TypeOK, PoolSteps
<1>5. CompleteIsStored'
  BY DEF CompleteIsStored, TypeOK
<1>6. AcceptedInv'
  BY DEF AcceptedInv, AllComplete, TypeOK
<1>. QED
  BY <1>1, <1>2, <1>3, <1>4, <1>5, <1>6

LEMMA OperatorCorrectsKeeps ==
  ASSUME IInv, NEW c \in Standing, OperatorCorrects(c)
  PROVE  IInv'
<1> USE DEF IInv, OperatorCorrects, vars, database, unitTable, dirTable, files, pool, memory, drive, history
<1>1. TypeOK'
  BY DEF TypeOK, RowStatus, FinalStates, Statuses, Steps, Outcomes, UnitClasses, DirClasses, Standing
<1>2. PoolInv'
  BY DEF PoolInv, TypeOK, PoolSteps
<1>3. CountInv'
  BY DEF CountInv, PoolInv, TypeOK
<1>4. DirInv'
  BY DEF DirInv, TypeOK, PoolSteps
<1>5. CompleteIsStored'
  BY DEF CompleteIsStored, TypeOK
<1>6. AcceptedInv'
  BY DEF AcceptedInv, AllComplete, TypeOK
<1>. QED
  BY <1>1, <1>2, <1>3, <1>4, <1>5, <1>6

-----------------------------------------------------------------------------
(* The invariant *)

LEMMA InitIInv == Init => IInv
<1> SUFFICES ASSUME Init PROVE IInv
  OBVIOUS
<1> USE DEF Init
<1>1. TypeOK
  BY DEF TypeOK, RowStatus, FinalStates, Statuses, Steps, Outcomes, UnitClasses, DirClasses, Standing
<1>2. PoolInv
  BY ClassAssumption DEF PoolInv, PoolSteps
<1>3. CountInv
  BY AttemptsAssumption DEF CountInv
<1>4. DirInv /\ CompleteIsStored /\ AcceptedInv
  BY DEF DirInv, CompleteIsStored, AcceptedInv
<1>. QED
  BY <1>1, <1>2, <1>3, <1>4 DEF IInv

LEMMA StepIInv == IInv /\ [Next]_vars => IInv'
<1> SUFFICES ASSUME IInv, [Next]_vars PROVE IInv'
  OBVIOUS
<1>1. CASE UNCHANGED vars
  BY <1>1 DEF IInv, TypeOK, PoolInv, CountInv, DirInv, CompleteIsStored, AcceptedInv, AllComplete,
              vars, database, unitTable, dirTable, files, pool, memory, drive, history
<1>2. CASE DirStep
  BY <1>2, BeginDirKeeps, InfoFindsFolderKeeps, InfoFindsNothingKeeps, DriveCreatesFolderKeeps,
     CreateSucceedsKeeps, InfoFailsKeeps, CreateFailsKeeps, EndDirsKeeps DEF DirStep
<1>3. CASE PoolStep
  BY <1>3, BeginUploadingKeeps, SkipUploadingKeeps, SubmitUnitKeeps, AwaitWorkersKeeps, LaunchCLIKeeps,
     StageUnsafeKeeps, DriveStoresUnitKeeps, CLIExitsKeeps, WaitReturnsKeeps, CollectResultKeeps,
     EndBatchKeeps DEF PoolStep
<1>4. CASE RunStep
  BY <1>2, <1>3, <1>4, RemediateKeeps, RemediateCutShortKeeps, RecoverInterruptedKeeps,
     RequeueFailedKeeps, PrepareDirectoriesKeeps, FinishRunKeeps DEF RunStep
<1>5. CASE StartUpload \/ ResumeUpload \/ AcceptUpload \/ Crash
  BY <1>5, StartUploadKeeps, ResumeUploadKeeps, AcceptUploadKeeps, CrashKeeps
<1>6. CASE \E c \in Standing : ConditionArises(c) \/ OperatorCorrects(c)
  BY <1>6, ConditionArisesKeeps, OperatorCorrectsKeeps
<1>7. CASE OrphanStep
  BY <1>7, OrphanStoresKeeps, OrphanPrintsKeeps, OrphanCreatesKeeps, OrphanEndsKeeps DEF OrphanStep
<1>. QED
  BY <1>1, <1>4, <1>5, <1>6, <1>7 DEF Next

\* The inductive invariant: tables, memory, drive and evidence of the upload agree.
THEOREM UploadInvariant == Spec => []IInv
<1>. QED
  BY InitIInv, StepIInv, PTL DEF Spec

\* Every variable of the upload worker keeps its type.
THEOREM UploadTypeOK == Spec => []TypeOK
<1>1. IInv => TypeOK
  BY DEF IInv
<1>. QED
  BY <1>1, UploadInvariant, PTL

\* Whatever crashes when, a row the database calls complete is on Proton Drive.
THEOREM UploadCompleteIsStored == Spec => []CompleteIsStored
<1>1. IInv => CompleteIsStored
  BY DEF IInv
<1>. QED
  BY <1>1, UploadInvariant, PTL

\* Acceptance evidence exists only when the whole plan is on Proton Drive.
THEOREM UploadAcceptedIsStored == Spec => []AcceptedIsStored
<1>1. IInv => AcceptedIsStored
  BY DEF IInv, TypeOK, AcceptedInv, AllComplete, CompleteIsStored, AcceptedIsStored
<1>. QED
  BY <1>1, UploadInvariant, PTL

\* No unit is in flight before every planned folder exists.
THEOREM UploadFoldersFirst == Spec => []FoldersFirst
<1>1. IInv => FoldersFirst
  BY DEF IInv, TypeOK, PoolInv, CompleteIsStored, FoldersFirst
<1>. QED
  BY <1>1, UploadInvariant, PTL

\* Commands of one run never share a worker slot.
THEOREM UploadSlotsExclusive == Spec => []SlotsExclusive
<1>1. IInv => SlotsExclusive
  BY DEF IInv, PoolInv, SlotsExclusive, Active
<1>. QED
  BY <1>1, UploadInvariant, PTL

\* No unit is handed to the CLI more often than the bound, crashes included.
THEOREM UploadLaunchesBounded == Spec => []LaunchesBounded
<1>1. IInv => LaunchesBounded
  BY AttemptsAssumption DEF IInv, TypeOK, CountInv, LaunchesBounded
<1>. QED
  BY <1>1, UploadInvariant, PTL

-----------------------------------------------------------------------------
(* The upload implements its contract *)

Confirmed == {u \in Units : unitStatus[u] = "complete"}

\* The contract's variables, as the upload worker represents them.
ContractUnchanged == launches' = launches /\ stored' = stored /\ Confirmed' = Confirmed /\ accepted' = accepted

\* Starting, recovering and requeuing reopen no confirmed unit.
LEMMA QuietRunSteps ==
  ASSUME IInv,
         \/ StartUpload \/ ResumeUpload \/ Remediate \/ RemediateCutShort \/ RecoverInterrupted
         \/ RequeueFailed \/ PrepareDirectories \/ FinishRun \/ Crash
         \/ \E c \in Standing : ConditionArises(c) \/ OperatorCorrects(c)
  PROVE  ContractUnchanged
<1> USE DEF ContractUnchanged, Confirmed, database, unitTable, dirTable, files, pool, memory, drive, history
<1>1. CASE StartUpload \/ ResumeUpload
  BY <1>1 DEF StartUpload, ResumeUpload
<1>2. CASE Remediate
  BY <1>2 DEF Remediate, Requeue, RemediableUnit, IInv, TypeOK
<1>3. CASE RemediateCutShort
  BY <1>3 DEF RemediateCutShort, Requeue, RemediableUnit, IInv, TypeOK
<1>4. CASE RecoverInterrupted
  BY <1>4 DEF RecoverInterrupted, IInv, TypeOK
<1>5. CASE RequeueFailed
  BY <1>5 DEF RequeueFailed, Requeue, RetryableUnit, IInv, TypeOK
<1>6. CASE PrepareDirectories \/ FinishRun \/ Crash
  BY <1>6 DEF PrepareDirectories, FinishRun, Crash
<1>7. CASE \E c \in Standing : ConditionArises(c) \/ OperatorCorrects(c)
  BY <1>7 DEF ConditionArises, OperatorCorrects
<1>. QED
  BY <1>1, <1>2, <1>3, <1>4, <1>5, <1>6, <1>7

\* A command that outlived its worker may deliver its unit; it was launched, so that is
\* within the promise.
LEMMA OrphanStepsRefine ==
  ASSUME IInv, OrphanStep
  PROVE  \/ ContractUnchanged
         \/ \E u \in Units : Contract!Deliver(u)
<1> USE DEF ContractUnchanged, Confirmed, database, unitTable, dirTable, files, pool, memory, drive, history
<1>1. ASSUME NEW u \in Units, NEW s \in Slots, OrphanStores(u, s)
      PROVE  Contract!Deliver(u)
  <2>1. u \notin Confirmed
    BY <1>1 DEF OrphanStores, IInv, CompleteIsStored
  <2>2. launches[u] > 0
    BY <1>1 DEF OrphanStores, IInv, CountInv
  <2>. QED
    BY <1>1, <2>1, <2>2 DEF OrphanStores, Contract!Deliver
<1>2. ASSUME NEW u \in Units, NEW s \in Slots, NEW k \in FailureClasses, OrphanPrints(u, s, k)
      PROVE  ContractUnchanged
  BY <1>2 DEF OrphanPrints
<1>3. ASSUME NEW d \in Dirs, OrphanCreates(d)
      PROVE  ContractUnchanged
  BY <1>3 DEF OrphanCreates
<1>4. ASSUME NEW c \in orphans, OrphanEnds(c)
      PROVE  ContractUnchanged
  BY <1>4 DEF OrphanEnds
<1>. QED
  BY <1>1, <1>2, <1>3, <1>4 DEF OrphanStep

\* The folders are none of the contract's business.
LEMMA QuietDirSteps ==
  ASSUME IInv, DirStep
  PROVE  ContractUnchanged
BY DEF DirStep, BeginDir, InfoFindsFolder, InfoFindsNothing, DriveCreatesFolder, CreateSucceeds, InfoFails,
       CreateFails, EndDirs, ContractUnchanged, Confirmed,
       database, unitTable, dirTable, files, pool, memory, drive, history

\* A step of the worker pool is a try, a delivery, a confirmation or nothing.
LEMMA PoolStepsRefine ==
  ASSUME IInv, PoolStep
  PROVE  \/ ContractUnchanged
         \/ \E u \in Units : Contract!Try(u) \/ Contract!Deliver(u) \/ Contract!Confirm(u)
<1> USE DEF ContractUnchanged, Confirmed, database, unitTable, dirTable, files, pool, memory, drive, history
<1>1. CASE BeginUploading \/ SkipUploading \/ AwaitWorkers \/ WaitReturns \/ EndBatch
  BY <1>1 DEF BeginUploading, SkipUploading, AwaitWorkers, WaitReturns, EndBatch
<1>2. ASSUME NEW u \in Units, NEW s \in Slots, SubmitUnit(u, s)
      PROVE  ContractUnchanged
  <2>1. unitStatus[u] = "pending" /\ unitStatus' = [unitStatus EXCEPT ![u] = "running"]
    BY <1>2 DEF SubmitUnit, ClaimUnit, IInv, PoolInv
  <2>. QED
    BY <1>2, <2>1 DEF SubmitUnit, IInv, TypeOK
<1>3. ASSUME NEW u \in Units, LaunchCLI(u)
      PROVE  Contract!Try(u)
  <2>1. u \notin Confirmed
    BY <1>3 DEF LaunchCLI, IInv, PoolInv
  <2>2. launches[u] < MaxAttempts
    BY <1>3, AttemptsAssumption DEF LaunchCLI, IInv, TypeOK, CountInv
  <2>. QED
    BY <1>3, <2>1, <2>2 DEF LaunchCLI, Contract!Try
<1>4. ASSUME NEW u \in Units, StageUnsafe(u)
      PROVE  ContractUnchanged
  BY <1>4 DEF StageUnsafe
<1>5. ASSUME NEW u \in Units, DriveStoresUnit(u)
      PROVE  Contract!Deliver(u)
  <2>1. u \notin Confirmed
    BY <1>5 DEF DriveStoresUnit, IInv, PoolInv
  <2>2. launches[u] > 0
    BY <1>5 DEF DriveStoresUnit, IInv, CountInv
  <2>. QED
    BY <1>5, <2>1, <2>2 DEF DriveStoresUnit, Contract!Deliver
<1>6. ASSUME NEW u \in Units, NEW r \in FailureClasses \cup {"ok", "timeout"}, CLIExits(u, r)
      PROVE  ContractUnchanged
  BY <1>6 DEF CLIExits
<1>7. ASSUME NEW u \in Units, CollectResult(u)
      PROVE  ContractUnchanged \/ Contract!Confirm(u)
  <2>1. unitStatus[u] # "complete"
    BY <1>7 DEF CollectResult, IInv, PoolInv
  <2>2. CASE outcome[u] = "ok"
    <3>1. Confirmed' = Confirmed \cup {u}
      BY <1>7, <2>2 DEF CollectResult, Succeeded, IInv, TypeOK
    <3>2. u \in stored
      BY <2>2 DEF IInv, PoolInv
    <3>. QED
      BY <1>7, <3>1, <3>2 DEF CollectResult, Contract!Confirm
  <2>3. CASE outcome[u] # "ok"
    BY <1>7, <2>1, <2>3 DEF CollectResult, Succeeded, IInv, TypeOK
  <2>. QED
    BY <2>2, <2>3
<1>. QED
  BY <1>1, <1>2, <1>3, <1>4, <1>5, <1>6, <1>7 DEF PoolStep

\* The upload worker implements BoundedTries: crashes, retries and resumes included.
THEOREM UploadKeepsContract == Spec => KeepsContract
<1>1. Init => Contract!Init
  BY DEF Init, Contract!Init
<1>2. IInv /\ [Next]_vars => [Contract!Next]_(Contract!vars)
  <2> SUFFICES ASSUME IInv, [Next]_vars
               PROVE  [Contract!Next]_(Contract!vars)
    OBVIOUS
  <2>1. ContractUnchanged => UNCHANGED Contract!vars
    BY DEF ContractUnchanged, Confirmed, Contract!vars
  <2>2. CASE UNCHANGED vars
    BY <2>1, <2>2 DEF vars, database, unitTable, files, drive, history, ContractUnchanged, Confirmed
  <2>3. CASE PoolStep
    BY <2>1, <2>3, PoolStepsRefine DEF Contract!Next
  <2>4. CASE AcceptUpload
    BY <2>4 DEF AcceptUpload, AllComplete, Contract!Next, Contract!Accept,
                database, unitTable, drive, history
  <2>5. CASE DirStep
    BY <2>1, <2>5, QuietDirSteps
  <2>6. CASE \/ StartUpload \/ ResumeUpload \/ Remediate \/ RemediateCutShort \/ RecoverInterrupted
             \/ RequeueFailed \/ PrepareDirectories \/ FinishRun \/ Crash
             \/ \E c \in Standing : ConditionArises(c) \/ OperatorCorrects(c)
    BY <2>1, <2>6, QuietRunSteps
  <2>7. CASE OrphanStep
    BY <2>1, <2>7, OrphanStepsRefine DEF Contract!Next
  <2>. QED
    BY <2>2, <2>3, <2>4, <2>5, <2>6, <2>7 DEF Next, RunStep
<1>. QED
  BY <1>1, <1>2, UploadInvariant, PTL DEF Spec, KeepsContract, Contract!Spec

-----------------------------------------------------------------------------
(* Action properties *)

\* A complete row is never reopened, by any later run, remediation or crash.
THEOREM UploadCompleteIsFinal == Spec => CompleteIsFinal
<1> DEFINE Final ==
      /\ \A u \in Units : unitStatus[u] = "complete" =>
            unitStatus'[u] = "complete" /\ launches'[u] = launches[u]
      /\ \A d \in Dirs : dirStatus[d] = "complete" => dirStatus'[d] = "complete"
<1>1. IInv /\ [Next]_vars => [Final]_vars
  <2> SUFFICES ASSUME IInv, Next
               PROVE  Final
    OBVIOUS
  <2> USE DEF database, unitTable, dirTable, files, pool, memory, drive, history
  <2>1. CASE PoolStep
    <3>1. dirStatus' = dirStatus
      BY <2>1 DEF PoolStep, BeginUploading, SkipUploading, SubmitUnit, AwaitWorkers, LaunchCLI, StageUnsafe,
                  DriveStoresUnit, CLIExits, WaitReturns, CollectResult, EndBatch
    <3>2. CASE ContractUnchanged
      BY <3>1, <3>2 DEF ContractUnchanged, Confirmed
    <3>3. CASE \E u \in Units : Contract!Try(u) \/ Contract!Deliver(u) \/ Contract!Confirm(u)
      BY <3>1, <3>3 DEF Contract!Try, Contract!Deliver, Contract!Confirm, IInv, TypeOK
    <3>. QED
      BY <2>1, <3>2, <3>3, PoolStepsRefine
  <2>2. CASE DirStep
    <3>1. ContractUnchanged
      BY <2>2, QuietDirSteps
    <3>2. \A d \in Dirs : dirStatus[d] = "complete" => dirStatus'[d] = "complete"
      BY <2>2 DEF DirStep, BeginDir, NextDir, InfoFindsFolder, InfoFindsNothing, DriveCreatesFolder,
                  CreateSucceeds, InfoFails, CreateFails, EndDirs, DirCompletes, DirFails, IInv, TypeOK, DirInv
    <3>. QED
      BY <3>1, <3>2 DEF ContractUnchanged, Confirmed
  <2>3. CASE \/ StartUpload \/ ResumeUpload \/ Remediate \/ RemediateCutShort \/ RecoverInterrupted
             \/ RequeueFailed \/ PrepareDirectories \/ FinishRun \/ Crash
             \/ \E c \in Standing : ConditionArises(c) \/ OperatorCorrects(c)
    <3>1. ContractUnchanged
      BY <2>3, QuietRunSteps
    <3>2. \A d \in Dirs : dirStatus[d] = "complete" => dirStatus'[d] = "complete"
      BY <2>3 DEF StartUpload, ResumeUpload, Remediate, RemediateCutShort, RecoverInterrupted, RequeueFailed,
                  RetryableDir, PrepareDirectories, FinishRun, Crash, ConditionArises, OperatorCorrects, IInv, TypeOK
    <3>. QED
      BY <3>1, <3>2 DEF ContractUnchanged, Confirmed
  <2>4. CASE AcceptUpload \/ OrphanStep
    BY <2>4 DEF AcceptUpload, OrphanStep, OrphanStores, OrphanPrints, OrphanCreates, OrphanEnds
  <2>. QED
    BY <2>1, <2>2, <2>3, <2>4 DEF Next, RunStep
<1>. QED
  BY <1>1, UploadInvariant, PTL DEF Spec, CompleteIsFinal

-----------------------------------------------------------------------------
(* How a run ends *)

\* The steps after the rows of an earlier process were recovered.
Recovered == {"requeue", "prepare", "dirs", "info", "create", "gate", "finish"} \cup PoolSteps

\* Scheduling is stopped once it is tripped, and a recorded failure says why.
StopInv ==
  /\ tripped => stop
  /\ stop => /\ pc \in {"dirs", "gate", "finish"} \cup PoolSteps
             /\ \E c \in {"authentication", "quota", "stage-safety"} : FailedWith(c)

\* A row is running only while this process works on it.
RunningInv ==
  pc \in Recovered =>
    /\ \A u \in Units : unitStatus[u] = "running" => slot[u] # None
    /\ \A d \in Dirs : dirStatus[d] = "running" => pc \in {"info", "create"} /\ d = dir

\* A pending row has an attempt left, and is in the queue of the loop that takes it up.
PendingInv ==
  /\ \A u \in Units : unitStatus[u] = "pending" => unitAttempts[u] < MaxAttempts
  /\ \A d \in Dirs : dirStatus[d] = "pending" => dirAttempts[d] < MaxAttempts
  /\ pc \in {"dirs", "info", "create"} => \A d \in Dirs : dirStatus[d] = "pending" => d \in dirQueue
  /\ pc \in {"gate", "finish"} /\ ~stop => \A d \in Dirs : dirStatus[d] # "pending"
  /\ pc \in PoolSteps => \A u \in Units : unitStatus[u] = "pending" => u \in queue
  /\ pc = "finish" /\ ~stop => \/ \E d \in Dirs : dirStatus[d] # "complete"
                               \/ \A u \in Units : unitStatus[u] # "pending"

\* No slot is lost: each is available or on loan.
SlotInv == pc \in PoolSteps => \A s \in Slots : s \in available \/ \E u \in Units : slot[u] = s

EndInv == StopInv /\ RunningInv /\ PendingInv /\ SlotInv
-----------------------------------------------------------------------------
(* Preservation *)

\* What the CLI, Proton Drive and the operator do moves no row and no loop.
LEMMA OutsideEndKeeps ==
  ASSUME IInv, EndInv,
         \/ AcceptUpload \/ DriveCreatesFolder \/ OrphanStep
         \/ \E c \in Standing : ConditionArises(c) \/ OperatorCorrects(c)
         \/ \E u \in Units : LaunchCLI(u) \/ StageUnsafe(u) \/ DriveStoresUnit(u)
         \/ \E u \in Units, r \in FailureClasses \cup {"ok", "timeout"} : CLIExits(u, r)
  PROVE  EndInv'
<1>1. UNCHANGED <<unitTable, dirTable, pc, dirQueue, dir, queue, slot, available, stop, tripped>>
  BY DEF AcceptUpload, DriveCreatesFolder, ConditionArises, OperatorCorrects, LaunchCLI, StageUnsafe,
         DriveStoresUnit, CLIExits, OrphanStep, OrphanStores, OrphanPrints, OrphanCreates, OrphanEnds,
         database, memory, pool, history
<1>. QED
  BY <1>1 DEF EndInv, StopInv, FailedWith, RunningInv, PendingInv, SlotInv, unitTable, dirTable

\* "filesystem info" that finds nothing goes on to create the folder.
LEMMA InfoFindsNothingEndKeeps ==
  ASSUME IInv, EndInv, InfoFindsNothing
  PROVE  EndInv'
BY DEF EndInv, StopInv, FailedWith, RunningInv, Recovered, PendingInv, SlotInv, PoolSteps, InfoFindsNothing,
       database, unitTable, dirTable, files, pool, memory, drive, history

LEMMA StartUploadEndKeeps ==
  ASSUME IInv, EndInv, StartUpload
  PROVE  EndInv'
<1> USE DEF IInv, EndInv, TypeOK, StartUpload, vars, database, unitTable, dirTable, files, pool, memory, drive, history
<1>1. StopInv'
  BY DEF StopInv, FailedWith, PoolSteps
<1>2. RunningInv'
  BY DEF RunningInv, Recovered, PoolSteps
<1>3. PendingInv'
  BY DEF PendingInv, PoolSteps
<1>4. SlotInv'
  BY DEF SlotInv, PoolSteps
<1>. QED
  BY <1>1, <1>2, <1>3, <1>4

LEMMA ResumeUploadEndKeeps ==
  ASSUME IInv, EndInv, ResumeUpload
  PROVE  EndInv'
<1> USE DEF IInv, EndInv, TypeOK, ResumeUpload, vars, database, unitTable, dirTable, files, pool, memory, drive, history
<1>1. StopInv'
  BY DEF StopInv, FailedWith, PoolSteps
<1>2. RunningInv'
  BY DEF RunningInv, Recovered, PoolSteps
<1>3. PendingInv'
  BY DEF PendingInv, PoolSteps
<1>4. SlotInv'
  BY DEF SlotInv, PoolSteps
<1>. QED
  BY <1>1, <1>2, <1>3, <1>4

LEMMA RemediateEndKeeps ==
  ASSUME IInv, EndInv, Remediate
  PROVE  EndInv'
<1> USE DEF IInv, EndInv, TypeOK, Remediate, Requeue, RemediatedState, RemediableUnit, vars, database, unitTable, dirTable, files, pool, memory, drive, history
<1>1. StopInv'
  BY DEF StopInv, FailedWith, PoolSteps
<1>2. RunningInv'
  BY DEF RunningInv, Recovered, PoolSteps
<1>3. PendingInv'
  BY DEF PendingInv, PoolSteps
<1>4. SlotInv'
  BY DEF SlotInv, PoolSteps
<1>. QED
  BY <1>1, <1>2, <1>3, <1>4

LEMMA RemediateCutShortEndKeeps ==
  ASSUME IInv, EndInv, RemediateCutShort
  PROVE  EndInv'
<1> USE DEF IInv, EndInv, TypeOK, RemediateCutShort, Requeue, RemediableUnit, ProcessEnds, vars, database, unitTable, dirTable, files, pool, memory, drive, history
<1>1. StopInv'
  BY DEF StopInv, FailedWith, PoolSteps
<1>2. RunningInv'
  BY DEF RunningInv, Recovered, PoolSteps
<1>3. PendingInv'
  BY DEF PendingInv, PoolSteps
<1>4. SlotInv'
  BY DEF SlotInv, PoolSteps
<1>. QED
  BY <1>1, <1>2, <1>3, <1>4

LEMMA RecoverInterruptedEndKeeps ==
  ASSUME IInv, EndInv, RecoverInterrupted
  PROVE  EndInv'
<1> USE DEF IInv, EndInv, TypeOK, RecoverInterrupted, vars, database, unitTable, dirTable, files, pool, memory, drive, history
<1>1. StopInv'
  BY DEF StopInv, FailedWith, PoolSteps
<1>2. RunningInv'
  BY DEF RunningInv, Recovered, PoolSteps
<1>3. PendingInv'
  BY DEF PendingInv, PoolSteps
<1>4. SlotInv'
  BY DEF SlotInv, PoolSteps
<1>. QED
  BY <1>1, <1>2, <1>3, <1>4

LEMMA RequeueFailedEndKeeps ==
  ASSUME IInv, EndInv, RequeueFailed
  PROVE  EndInv'
<1> USE DEF IInv, EndInv, TypeOK, RequeueFailed, Requeue, RetryableUnit, RetryableDir, vars, database, unitTable, dirTable, files, pool, memory, drive, history
<1>1. StopInv'
  BY DEF StopInv, FailedWith, PoolSteps
<1>2. RunningInv'
  BY DEF RunningInv, Recovered, PoolSteps
<1>3. PendingInv'
  BY DEF PendingInv, PoolSteps
<1>4. SlotInv'
  BY DEF SlotInv, PoolSteps
<1>. QED
  BY <1>1, <1>2, <1>3, <1>4

LEMMA PrepareDirectoriesEndKeeps ==
  ASSUME IInv, EndInv, PrepareDirectories
  PROVE  EndInv'
<1> USE DEF IInv, EndInv, TypeOK, PrepareDirectories, vars, database, unitTable, dirTable, files, pool, memory, drive, history
<1>1. StopInv'
  BY DEF StopInv, FailedWith, PoolSteps
<1>2. RunningInv'
  BY DEF RunningInv, Recovered, PoolSteps
<1>3. PendingInv'
  BY DEF PendingInv, PoolSteps
<1>4. SlotInv'
  BY DEF SlotInv, PoolSteps
<1>. QED
  BY <1>1, <1>2, <1>3, <1>4

LEMMA BeginDirEndKeeps ==
  ASSUME IInv, EndInv, NEW d \in Dirs, BeginDir(d)
  PROVE  EndInv'
<1> USE DEF IInv, EndInv, TypeOK, BeginDir, NextDir, vars, database, unitTable, dirTable, files, pool, memory, drive, history
<1>1. StopInv'
  BY DEF StopInv, FailedWith, PoolSteps
<1>2. RunningInv'
  BY DEF RunningInv, Recovered, PoolSteps
<1>3. PendingInv'
  BY DEF PendingInv, PoolSteps
<1>4. SlotInv'
  BY DEF SlotInv, PoolSteps
<1>. QED
  BY <1>1, <1>2, <1>3, <1>4

LEMMA InfoFindsFolderEndKeeps ==
  ASSUME IInv, EndInv, InfoFindsFolder
  PROVE  EndInv'
<1> USE DEF IInv, EndInv, TypeOK, InfoFindsFolder, DirCompletes, vars, database, unitTable, dirTable, files, pool, memory, drive, history
<1>1. StopInv'
  BY DEF StopInv, FailedWith, PoolSteps
<1>2. RunningInv'
  BY DEF RunningInv, Recovered, PoolSteps
<1>3. PendingInv'
  BY DEF PendingInv, PoolSteps
<1>4. SlotInv'
  BY DEF SlotInv, PoolSteps
<1>. QED
  BY <1>1, <1>2, <1>3, <1>4

LEMMA CreateSucceedsEndKeeps ==
  ASSUME IInv, EndInv, CreateSucceeds
  PROVE  EndInv'
<1> USE DEF IInv, EndInv, TypeOK, CreateSucceeds, DirCompletes, vars, database, unitTable, dirTable, files, pool, memory, drive, history
<1>1. StopInv'
  BY DEF StopInv, FailedWith, PoolSteps
<1>2. RunningInv'
  BY DEF RunningInv, Recovered, PoolSteps
<1>3. PendingInv'
  BY DEF PendingInv, PoolSteps
<1>4. SlotInv'
  BY DEF SlotInv, PoolSteps
<1>. QED
  BY <1>1, <1>2, <1>3, <1>4

LEMMA InfoFailsEndKeeps ==
  ASSUME IInv, EndInv, NEW c \in FailureClasses \cup {"ambiguity"}, InfoFails(c)
  PROVE  EndInv'
<1> USE DEF IInv, EndInv, TypeOK, InfoFails, DirFails, MayFail, vars, database, unitTable, dirTable, files, pool, memory, drive, history
<1>1. StopInv'
  <2>1. dir \in Dirs
    BY DEF DirInv
  <2>2. /\ tripped' = stop' /\ pc' = "dirs"
        /\ stop' => c \in {"authentication", "quota"}
        /\ dirStatus'[dir] = "failed" /\ dirClass'[dir] = c
    BY <2>1
  <2>. QED
    BY <2>1, <2>2 DEF StopInv, FailedWith
<1>2. RunningInv'
  BY DEF RunningInv, Recovered, PoolSteps
<1>3. PendingInv'
  BY DEF PendingInv, PoolSteps
<1>4. SlotInv'
  BY DEF SlotInv, PoolSteps
<1>. QED
  BY <1>1, <1>2, <1>3, <1>4

LEMMA CreateFailsEndKeeps ==
  ASSUME IInv, EndInv, NEW c \in FailureClasses, CreateFails(c)
  PROVE  EndInv'
<1> USE DEF IInv, EndInv, TypeOK, CreateFails, DirFails, MayFail, vars, database, unitTable, dirTable, files, pool, memory, drive, history
<1>1. StopInv'
  <2>1. dir \in Dirs
    BY DEF DirInv
  <2>2. /\ tripped' = stop' /\ pc' = "dirs"
        /\ stop' => c \in {"authentication", "quota"}
        /\ dirStatus'[dir] = "failed" /\ dirClass'[dir] = c
    BY <2>1
  <2>. QED
    BY <2>1, <2>2 DEF StopInv, FailedWith
<1>2. RunningInv'
  BY DEF RunningInv, Recovered, PoolSteps
<1>3. PendingInv'
  BY DEF PendingInv, PoolSteps
<1>4. SlotInv'
  BY DEF SlotInv, PoolSteps
<1>. QED
  BY <1>1, <1>2, <1>3, <1>4

LEMMA EndDirsEndKeeps ==
  ASSUME IInv, EndInv, EndDirs
  PROVE  EndInv'
<1> USE DEF IInv, EndInv, TypeOK, EndDirs, vars, database, unitTable, dirTable, files, pool, memory, drive, history
<1>1. StopInv'
  BY DEF StopInv, FailedWith, PoolSteps
<1>2. RunningInv'
  BY DEF RunningInv, Recovered, PoolSteps
<1>3. PendingInv'
  BY DEF PendingInv, PoolSteps
<1>4. SlotInv'
  BY DEF SlotInv, PoolSteps
<1>. QED
  BY <1>1, <1>2, <1>3, <1>4

LEMMA BeginUploadingEndKeeps ==
  ASSUME IInv, EndInv, BeginUploading
  PROVE  EndInv'
<1> USE DEF IInv, EndInv, TypeOK, BeginUploading, Transferable, vars, database, unitTable, dirTable, files, pool, memory, drive, history
<1>1. StopInv'
  BY DEF StopInv, FailedWith, PoolSteps
<1>2. RunningInv'
  BY DEF RunningInv, Recovered, PoolSteps
<1>3. PendingInv'
  BY DEF PendingInv, PoolSteps
<1>4. SlotInv'
  BY DEF SlotInv, PoolSteps
<1>. QED
  BY <1>1, <1>2, <1>3, <1>4

LEMMA SkipUploadingEndKeeps ==
  ASSUME IInv, EndInv, SkipUploading
  PROVE  EndInv'
<1> USE DEF IInv, EndInv, TypeOK, SkipUploading, vars, database, unitTable, dirTable, files, pool, memory, drive, history
<1>1. StopInv'
  BY DEF StopInv, FailedWith, PoolSteps
<1>2. RunningInv'
  BY DEF RunningInv, Recovered, PoolSteps
<1>3. PendingInv'
  BY DEF PendingInv, PoolSteps, Transferable
<1>4. SlotInv'
  BY DEF SlotInv, PoolSteps
<1>. QED
  BY <1>1, <1>2, <1>3, <1>4

LEMMA SubmitUnitEndKeeps ==
  ASSUME IInv, EndInv, NEW u \in Units, NEW s \in Slots, SubmitUnit(u, s)
  PROVE  EndInv'
<1> USE DEF IInv, EndInv, TypeOK, SubmitUnit, ClaimUnit, TakeSlot, MaySchedule, vars, database, unitTable, dirTable, files, pool, memory, drive, history
<1>1. StopInv'
  BY DEF StopInv, FailedWith, PoolSteps
<1>2. RunningInv'
  BY NoneAssumption DEF RunningInv, Recovered, PoolSteps
<1>3. PendingInv'
  BY DEF PendingInv, PoolSteps
<1>4. SlotInv'
  <2>1. pc \in PoolSteps /\ available' = available \ {s} /\ slot'[u] = s
    BY DEF PoolSteps
  <2>2. ASSUME NEW v \in Units, slot[v] # slot'[v]
        PROVE  slot[v] = None
    BY <2>2 DEF PoolInv
  <2>. QED
    BY <2>1, <2>2, NoneAssumption DEF SlotInv
<1>. QED
  BY <1>1, <1>2, <1>3, <1>4

LEMMA AwaitWorkersEndKeeps ==
  ASSUME IInv, EndInv, AwaitWorkers
  PROVE  EndInv'
<1> USE DEF IInv, EndInv, TypeOK, AwaitWorkers, Active, vars, database, unitTable, dirTable, files, pool, memory, drive, history
<1>1. StopInv'
  BY DEF StopInv, FailedWith, PoolSteps
<1>2. RunningInv'
  BY DEF RunningInv, Recovered, PoolSteps
<1>3. PendingInv'
  BY SlotsAssumption, NoneAssumption DEF PendingInv, PoolSteps, PoolInv, SlotInv, MaySchedule
<1>4. SlotInv'
  BY DEF SlotInv, PoolSteps
<1>. QED
  BY <1>1, <1>2, <1>3, <1>4

LEMMA WaitReturnsEndKeeps ==
  ASSUME IInv, EndInv, WaitReturns
  PROVE  EndInv'
<1> USE DEF IInv, EndInv, TypeOK, WaitReturns, Finished, Active, vars, database, unitTable, dirTable, files, pool, memory, drive, history
<1>1. StopInv'
  BY DEF StopInv, FailedWith, PoolSteps
<1>2. RunningInv'
  BY DEF RunningInv, Recovered, PoolSteps
<1>3. PendingInv'
  BY DEF PendingInv, PoolSteps
<1>4. SlotInv'
  BY DEF SlotInv, PoolSteps
<1>. QED
  BY <1>1, <1>2, <1>3, <1>4

LEMMA CollectResultEndKeeps ==
  ASSUME IInv, EndInv, NEW u \in Units, CollectResult(u)
  PROVE  EndInv'
<1> USE DEF IInv, EndInv, TypeOK, CollectResult, Succeeded, StopAfter, StopsScheduling, vars, database, unitTable, dirTable, files, pool, memory, drive, history
<1>1. StopInv'
  <2> DEFINE class == RecordedClass(u)
  <2>1. /\ stop' = (stop \/ class \in {"authentication", "quota", "stage-safety"})
        /\ tripped' = (tripped \/ class \in {"authentication", "quota", "stage-safety"})
        /\ pc' = "collect"
    OBVIOUS
  <2>2. unitClass'[u] = class
    BY DEF PoolInv
  <2>3. CASE class \in {"authentication", "quota", "stage-safety"}
    <3>1. outcome[u] # "ok"
      BY <2>3, NoneAssumption DEF RecordedClass
    <3>2. unitStatus'[u] = "failed"
      BY <3>1
    <3>. QED
      BY <2>1, <2>2, <2>3, <3>2 DEF StopInv, FailedWith, PoolSteps
  <2>4. CASE class \notin {"authentication", "quota", "stage-safety"}
    <3>1. u \in Units /\ unitStatus[u] # "failed"
      BY DEF PoolInv
    <3>2. \A c : FailedWith(c) => FailedWith(c)'
      BY <3>1 DEF FailedWith
    <3>. QED
      BY <2>1, <2>4, <3>2 DEF StopInv, PoolSteps
  <2>. QED
    BY <2>3, <2>4
<1>2. RunningInv'
  BY DEF RunningInv, Recovered, PoolSteps
<1>3. PendingInv'
  BY DEF PendingInv, PoolSteps
<1>4. SlotInv'
  BY DEF SlotInv, PoolSteps
<1>. QED
  BY <1>1, <1>2, <1>3, <1>4

LEMMA EndBatchEndKeeps ==
  ASSUME IInv, EndInv, EndBatch
  PROVE  EndInv'
<1> USE DEF IInv, EndInv, TypeOK, EndBatch, Active, vars, database, unitTable, dirTable, files, pool, memory, drive, history
<1>1. StopInv'
  BY DEF StopInv, FailedWith, PoolSteps
<1>2. RunningInv'
  BY DEF RunningInv, Recovered, PoolSteps
<1>3. PendingInv'
  BY DEF PendingInv, PoolSteps, PoolInv
<1>4. SlotInv'
  BY DEF SlotInv, PoolSteps
<1>. QED
  BY <1>1, <1>2, <1>3, <1>4

LEMMA FinishRunEndKeeps ==
  ASSUME IInv, EndInv, FinishRun
  PROVE  EndInv'
<1> USE DEF IInv, EndInv, TypeOK, FinishRun, FinalState, FailedWith, ProcessEnds, vars, database, unitTable, dirTable, files, pool, memory, drive, history
<1>1. StopInv'
  BY DEF StopInv, FailedWith, PoolSteps
<1>2. RunningInv'
  BY DEF RunningInv, Recovered, PoolSteps
<1>3. PendingInv'
  BY DEF PendingInv, PoolSteps
<1>4. SlotInv'
  BY DEF SlotInv, PoolSteps
<1>. QED
  BY <1>1, <1>2, <1>3, <1>4

LEMMA CrashEndKeeps ==
  ASSUME IInv, EndInv, Crash
  PROVE  EndInv'
<1> USE DEF IInv, EndInv, TypeOK, Crash, ProcessEnds, vars, database, unitTable, dirTable, files, pool, memory, drive, history
<1>1. StopInv'
  BY DEF StopInv, FailedWith, PoolSteps
<1>2. RunningInv'
  BY DEF RunningInv, Recovered, PoolSteps
<1>3. PendingInv'
  BY DEF PendingInv, PoolSteps
<1>4. SlotInv'
  BY DEF SlotInv, PoolSteps
<1>. QED
  BY <1>1, <1>2, <1>3, <1>4

-----------------------------------------------------------------------------
(* The invariant *)

LEMMA InitEndInv == Init => EndInv
BY AttemptsAssumption DEF Init, EndInv, StopInv, RunningInv, Recovered, PendingInv, SlotInv, PoolSteps

LEMMA StepEndInv == IInv /\ EndInv /\ [Next]_vars => EndInv'
<1> SUFFICES ASSUME IInv, EndInv, [Next]_vars PROVE EndInv'
  OBVIOUS
<1>1. CASE UNCHANGED vars
  BY <1>1 DEF EndInv, StopInv, FailedWith, RunningInv, PendingInv, SlotInv,
              vars, database, unitTable, dirTable, files, pool, memory, drive, history
<1>2. CASE DirStep
  BY <1>2, BeginDirEndKeeps, InfoFindsFolderEndKeeps, InfoFindsNothingEndKeeps, OutsideEndKeeps,
     CreateSucceedsEndKeeps, InfoFailsEndKeeps, CreateFailsEndKeeps, EndDirsEndKeeps DEF DirStep
<1>3. CASE PoolStep
  BY <1>3, BeginUploadingEndKeeps, SkipUploadingEndKeeps, SubmitUnitEndKeeps, AwaitWorkersEndKeeps,
     OutsideEndKeeps, WaitReturnsEndKeeps, CollectResultEndKeeps, EndBatchEndKeeps DEF PoolStep
<1>4. CASE RunStep
  BY <1>2, <1>3, <1>4, RemediateEndKeeps, RemediateCutShortEndKeeps, RecoverInterruptedEndKeeps,
     RequeueFailedEndKeeps, PrepareDirectoriesEndKeeps, FinishRunEndKeeps DEF RunStep
<1>5. CASE StartUpload \/ ResumeUpload \/ Crash
  BY <1>5, StartUploadEndKeeps, ResumeUploadEndKeeps, CrashEndKeeps
<1>6. CASE AcceptUpload \/ OrphanStep \/ \E c \in Standing : ConditionArises(c) \/ OperatorCorrects(c)
  BY <1>6, OutsideEndKeeps
<1>. QED
  BY <1>1, <1>4, <1>5, <1>6 DEF Next

\* What a run holds about its end: why it stopped, what is still running, what is queued.
THEOREM UploadEndInvariant == Spec => [](IInv /\ EndInv)
<1>1. Init => IInv /\ EndInv
  BY InitIInv, InitEndInv
<1>2. (IInv /\ EndInv) /\ [Next]_vars => (IInv /\ EndInv)'
  BY StepIInv, StepEndInv
<1>. QED
  BY <1>1, <1>2, PTL DEF Spec

-----------------------------------------------------------------------------
(* The properties *)

\* Only submitting a unit gives it an outcome, and a tripped run submits none.
LEMMA TrippedSubmitsNothing ==
  ASSUME IInv, EndInv, [Next]_vars, tripped, NEW u \in Units, outcome[u] = "none"
  PROVE  outcome'[u] = "none"
<1> USE DEF vars, database, unitTable, dirTable, files, pool, memory, drive, history
<1>1. stop
  BY DEF EndInv, StopInv
<1>2. u \notin done
  BY DEF IInv, PoolInv
<1>3. CASE DirStep
  BY <1>3 DEF DirStep, BeginDir, InfoFindsFolder, InfoFindsNothing, DriveCreatesFolder, CreateSucceeds,
              InfoFails, CreateFails, EndDirs
<1>4. CASE PoolStep
  <2>1. \A v \in Units, s \in Slots : ~SubmitUnit(v, s)
    BY <1>1 DEF SubmitUnit, MaySchedule
  <2>2. ASSUME NEW v \in Units, LaunchCLI(v) \/ StageUnsafe(v)
        PROVE  outcome'[u] = "none"
    BY <2>2 DEF LaunchCLI, StageUnsafe, IInv, TypeOK
  <2>3. ASSUME NEW v \in Units, NEW r \in FailureClasses \cup {"ok", "timeout"}, CLIExits(v, r)
        PROVE  outcome'[u] = "none"
    BY <2>3 DEF CLIExits, IInv, TypeOK
  <2>4. ASSUME NEW v \in Units, CollectResult(v)
        PROVE  outcome'[u] = "none"
    BY <2>4 DEF CollectResult, IInv, TypeOK
  <2>. QED
    BY <1>4, <2>1, <2>2, <2>3, <2>4 DEF PoolStep, BeginUploading, SkipUploading, AwaitWorkers,
       DriveStoresUnit, WaitReturns, EndBatch
<1>5. CASE RunStep
  BY <1>3, <1>4, <1>5 DEF RunStep, Remediate, RemediateCutShort, RecoverInterrupted, RequeueFailed,
     PrepareDirectories, FinishRun, ProcessEnds
<1>6. CASE StartUpload \/ ResumeUpload \/ AcceptUpload \/ Crash \/ OrphanStep
           \/ (\E c \in Standing : ConditionArises(c) \/ OperatorCorrects(c)) \/ UNCHANGED vars
  BY <1>6 DEF StartUpload, ResumeUpload, AcceptUpload, Crash, ProcessEnds, OrphanStep, OrphanStores,
     OrphanPrints, OrphanCreates, OrphanEnds, ConditionArises, OperatorCorrects
<1>. QED
  BY <1>5, <1>6 DEF Next

\* Only taking up a folder sets its row to running, and a tripped run takes up none.
LEMMA TrippedBeginsNoFolder ==
  ASSUME IInv, EndInv, [Next]_vars, tripped, NEW d \in Dirs, dirStatus[d] # "running"
  PROVE  dirStatus'[d] # "running"
<1> USE DEF vars, database, unitTable, dirTable, files, pool, memory, drive, history
<1>1. stop
  BY DEF EndInv, StopInv
<1>2. CASE DirStep
  <2>1. \A e \in Dirs : ~BeginDir(e)
    BY <1>1 DEF BeginDir
  <2>. QED
    BY <1>2, <2>1 DEF DirStep, InfoFindsFolder, InfoFindsNothing, DriveCreatesFolder, CreateSucceeds,
       InfoFails, CreateFails, EndDirs, DirCompletes, DirFails, IInv, TypeOK
<1>3. CASE PoolStep
  BY <1>3 DEF PoolStep, BeginUploading, SkipUploading, SubmitUnit, AwaitWorkers, LaunchCLI, StageUnsafe,
     DriveStoresUnit, CLIExits, WaitReturns, CollectResult, EndBatch
<1>4. CASE RunStep
  BY <1>2, <1>3, <1>4 DEF RunStep, Remediate, RemediateCutShort, RecoverInterrupted, RequeueFailed,
     PrepareDirectories, FinishRun, IInv, TypeOK
<1>5. CASE StartUpload \/ ResumeUpload \/ AcceptUpload \/ Crash \/ OrphanStep
           \/ (\E c \in Standing : ConditionArises(c) \/ OperatorCorrects(c)) \/ UNCHANGED vars
  BY <1>5 DEF StartUpload, ResumeUpload, AcceptUpload, Crash, OrphanStep, OrphanStores,
     OrphanPrints, OrphanCreates, OrphanEnds, ConditionArises, OperatorCorrects
<1>. QED
  BY <1>4, <1>5 DEF Next

\* Once a failure that must end the scheduling is recorded, no further unit and no further
\* folder is started, for any number of units, folders, slots and results of one batch.
THEOREM UploadStopHolds == Spec => StopHolds
<1>1. (IInv /\ EndInv) /\ [Next]_vars
        => [tripped =>
              /\ \A u \in Units : outcome[u] = "none" => outcome'[u] = "none"
              /\ \A d \in Dirs : dirStatus[d] # "running" => dirStatus'[d] # "running"]_vars
  BY TrippedSubmitsNothing, TrippedBeginsNoFolder
<1>. QED
  BY <1>1, UploadEndInvariant, PTL DEF Spec, StopHolds

\* At the end of a run nothing is running, and when nothing stopped it and not all is
\* complete, some row has failed.
LEMMA FinishedRows ==
  ASSUME IInv, EndInv, pc = "finish"
  PROVE  /\ \A u \in Units : unitStatus[u] # "running"
         /\ \A d \in Dirs : dirStatus[d] # "running"
         /\ ~stop /\ ~AllComplete => \/ \E u \in Units : unitStatus[u] = "failed"
                                     \/ \E d \in Dirs : dirStatus[d] = "failed"
<1>1. \A u \in Units : slot[u] = None
  BY DEF IInv, PoolInv, PoolSteps
<1>2. /\ \A u \in Units : unitStatus[u] # "running"
      /\ \A d \in Dirs : dirStatus[d] # "running"
  BY <1>1 DEF EndInv, RunningInv, Recovered
<1>3. /\ \A u \in Units : unitStatus[u] \in RowStatus
      /\ \A d \in Dirs : dirStatus[d] \in RowStatus
  BY DEF IInv, TypeOK
<1>. QED
  BY <1>2, <1>3 DEF EndInv, PendingInv, AllComplete, RowStatus

\* The only step that changes the status at the end of a run is the one that writes it.
LEMMA FinishWritesFinalState ==
  ASSUME IInv, [Next]_vars, pc = "finish", status' # status
  PROVE  status' = FinalState
<1> USE DEF vars, database, unitTable, dirTable, files, pool, memory, drive, history
<1>1. ~DirStep
  BY DEF DirStep, BeginDir, InfoFindsFolder, InfoFindsNothing, DriveCreatesFolder, CreateSucceeds, InfoFails,
         CreateFails, EndDirs
<1>2. ~PoolStep
  BY DEF PoolStep, BeginUploading, SkipUploading, SubmitUnit, AwaitWorkers, LaunchCLI, StageUnsafe,
         DriveStoresUnit, CLIExits, WaitReturns, CollectResult, EndBatch
<1>. QED
  BY <1>1, <1>2 DEF Next, RunStep, Remediate, RemediateCutShort, RecoverInterrupted, RequeueFailed,
     PrepareDirectories, FinishRun, StartUpload, ResumeUpload, AcceptUpload, Crash, OrphanStep, OrphanStores,
     OrphanPrints, OrphanCreates, OrphanEnds, ConditionArises, OperatorCorrects

\* What FinalState returns is the truth about the rows a run leaves.
LEMMA FinalStateIsTrue ==
  ASSUME IInv, EndInv, pc = "finish", status' = FinalState
  PROVE  Verdict
<1>1. status' = "complete" <=> AllComplete
  BY DEF FinalState
<1>2. ASSUME status' = "recoverable"
      PROVE  /\ (\E u \in Units : RetryableUnit(u)) \/ (\E d \in Dirs : RetryableDir(d))
             /\ \A c \in {"authentication", "quota", "stage-safety"} : ~FailedWith(c)
  BY <1>2 DEF FinalState
<1>3. ASSUME status' = "blocked-remediation"
      PROVE  /\ ~AllComplete
             /\ \A c \in {"authentication", "quota", "stage-safety"} : ~FailedWith(c)
             /\ \A u \in Units : ~RetryableUnit(u)
             /\ \A d \in Dirs : ~RetryableDir(d)
  BY <1>3 DEF FinalState
<1>4. ASSUME status' = "blocked-remediation" PROVE ~stop
  BY <1>3, <1>4 DEF EndInv, StopInv
<1>. QED
  BY <1>1, <1>2, <1>3, <1>4, FinishedRows DEF Verdict

\* The status a run ends with tells the operator the truth, after any history of crashes,
\* resumes and failures.
THEOREM UploadFinishTellsTruth == Spec => FinishTellsTruth
<1>1. (IInv /\ EndInv) /\ [Next]_vars => [(pc = "finish" /\ status' # status) => Verdict]_vars
  BY FinishWritesFinalState, FinalStateIsTrue
<1>. QED
  BY <1>1, UploadEndInvariant, PTL DEF Spec, FinishTellsTruth

-----------------------------------------------------------------------------
(* What a run still has to take up *)

\* A row a run owes a try is, from the requeue on, pending.
DueInv ==
  /\ pc \in {"idle", "remediate", "recover"} => due = {}
  /\ pc = "requeue" =>
       /\ \A u \in due \cap Units : unitStatus[u] = "pending" \/ (retry /\ RetryableUnit(u))
       /\ \A d \in due \cap Dirs : dirStatus[d] = "pending" \/ (retry /\ RetryableDir(d))
  /\ pc \notin {"idle", "remediate", "recover", "requeue"} =>
       /\ \A u \in due \cap Units : unitStatus[u] = "pending"
       /\ \A d \in due \cap Dirs : dirStatus[d] = "pending"

LEMMA RecoverOwes ==
  ASSUME IInv, RecoverInterrupted
  PROVE  DueInv'
<1> USE DEF RecoverInterrupted, IInv, TypeOK, memory, drive, history
<1>1. pc' = "requeue" /\ retry' = retry /\ unitAttempts' = unitAttempts /\ dirAttempts' = dirAttempts
  OBVIOUS
<1>2. ASSUME NEW u \in Units, u \in due'
      PROVE  unitStatus'[u] = "pending" \/ (retry' /\ RetryableUnit(u)')
  <2>1. \/ unitStatus[u] \in {"pending", "running"} /\ unitAttempts[u] < MaxAttempts
        \/ retry /\ RetryableUnit(u)
    BY <1>2, RowsAssumption
  <2>2. CASE unitStatus[u] \in {"pending", "running"} /\ unitAttempts[u] < MaxAttempts
    BY <2>2
  <2>3. CASE retry /\ RetryableUnit(u)
    BY <1>1, <2>3 DEF RetryableUnit
  <2>. QED
    BY <2>1, <2>2, <2>3
<1>3. ASSUME NEW d \in Dirs, d \in due'
      PROVE  dirStatus'[d] = "pending" \/ (retry' /\ RetryableDir(d)')
  <2>1. \/ dirStatus[d] \in {"pending", "running"} /\ dirAttempts[d] < MaxAttempts
        \/ retry /\ RetryableDir(d)
    BY <1>3, RowsAssumption
  <2>2. CASE dirStatus[d] \in {"pending", "running"} /\ dirAttempts[d] < MaxAttempts
    BY <2>2
  <2>3. CASE retry /\ RetryableDir(d)
    BY <1>1, <2>3 DEF RetryableDir
  <2>. QED
    BY <2>1, <2>2, <2>3
<1> HIDE DEF RecoverInterrupted, IInv, TypeOK
<1>4. pc' = "requeue"
  BY <1>1
<1>5. /\ \A u \in due' \cap Units : unitStatus'[u] = "pending" \/ (retry' /\ RetryableUnit(u)')
      /\ \A d \in due' \cap Dirs : dirStatus'[d] = "pending" \/ (retry' /\ RetryableDir(d)')
  BY <1>2, <1>3
<1>. QED
  BY <1>4, <1>5 DEF DueInv

LEMMA StepDueInv == IInv /\ EndInv /\ DueInv /\ [Next]_vars => DueInv'
<1> SUFFICES ASSUME IInv, EndInv, DueInv, [Next]_vars PROVE DueInv'
  OBVIOUS
<1> USE DEF IInv, TypeOK, vars, database, unitTable, dirTable, files, pool, memory, drive, history
<1>1. CASE StartUpload \/ ResumeUpload \/ Crash \/ FinishRun
  BY <1>1 DEF StartUpload, ResumeUpload, Crash, FinishRun, ProcessEnds, DueInv
<1>2. CASE Remediate \/ RemediateCutShort
  BY <1>2 DEF Remediate, RemediateCutShort, ProcessEnds, DueInv
<1>3. CASE RecoverInterrupted
  BY <1>3, RecoverOwes
<1>4. CASE RequeueFailed
  BY <1>4 DEF RequeueFailed, Requeue, DueInv
<1>5. CASE PrepareDirectories
  BY <1>5 DEF PrepareDirectories, DueInv
<1>6. CASE DirStep
  <2>1. ASSUME NEW d \in Dirs, BeginDir(d)
        PROVE  DueInv'
    BY <2>1 DEF BeginDir, DueInv
  <2>2. CASE InfoFindsNothing \/ DriveCreatesFolder \/ EndDirs
    BY <2>2 DEF InfoFindsNothing, DriveCreatesFolder, EndDirs, DueInv
  <2>3. CASE InfoFindsFolder \/ CreateSucceeds
    BY <2>3 DEF InfoFindsFolder, CreateSucceeds, DirCompletes, DueInv, DirInv
  <2>4. ASSUME NEW c, InfoFails(c) \/ CreateFails(c)
        PROVE  DueInv'
    BY <2>4 DEF InfoFails, CreateFails, DirFails, DueInv, DirInv
  <2>. QED
    BY <1>6, <2>1, <2>2, <2>3, <2>4 DEF DirStep
<1>7. CASE PoolStep
  <2>1. CASE BeginUploading \/ SkipUploading \/ AwaitWorkers \/ WaitReturns \/ EndBatch
    BY <2>1 DEF BeginUploading, SkipUploading, AwaitWorkers, WaitReturns, EndBatch, DueInv
  <2>2. ASSUME NEW u \in Units, NEW s \in Slots, SubmitUnit(u, s)
        PROVE  DueInv'
    BY <2>2 DEF SubmitUnit, ClaimUnit, DueInv
  <2>3. ASSUME NEW u \in Units, LaunchCLI(u) \/ StageUnsafe(u) \/ DriveStoresUnit(u)
        PROVE  DueInv'
    BY <2>3 DEF LaunchCLI, StageUnsafe, DriveStoresUnit, DueInv, RetryableUnit, RetryableDir
  <2>4. ASSUME NEW u \in Units, NEW r, CLIExits(u, r)
        PROVE  DueInv'
    BY <2>4 DEF CLIExits, DueInv, RetryableUnit, RetryableDir
  <2>5. ASSUME NEW u \in Units, CollectResult(u)
        PROVE  DueInv'
    BY <2>5 DEF CollectResult, DueInv, PoolInv
  <2>. QED
    BY <1>7, <2>1, <2>2, <2>3, <2>4, <2>5 DEF PoolStep
<1>8. CASE AcceptUpload \/ OrphanStep \/ (\E c \in Standing : ConditionArises(c) \/ OperatorCorrects(c))
           \/ UNCHANGED vars
  <2>1. UNCHANGED <<unitTable, dirTable, pc, retry, due>>
    BY <1>8 DEF AcceptUpload, OrphanStep, OrphanStores, OrphanPrints, OrphanCreates, OrphanEnds,
       ConditionArises, OperatorCorrects
  <2>. QED
    BY <2>1 DEF DueInv, RetryableUnit, RetryableDir
<1>. QED
  BY <1>1, <1>2, <1>3, <1>4, <1>5, <1>6, <1>7, <1>8 DEF Next, RunStep

\* A run that no failure stopped has taken up every folder it owed a try, and every unit
\* too once all folders are there, however many rows there are and whatever came before.
THEOREM UploadRunTriesAll == Spec => []RunTriesAll
<1>1. Init => DueInv
  BY DEF Init, DueInv
<1>2. IInv /\ EndInv /\ DueInv => RunTriesAll
  <2> SUFFICES ASSUME IInv, EndInv, DueInv, pc = "finish", ~stop
               PROVE  /\ due \cap Dirs = {}
                      /\ (\A d \in Dirs : dirStatus[d] = "complete") => due = {}
    BY DEF RunTriesAll
  <2>1. due \subseteq Units \cup Dirs
    BY DEF IInv, TypeOK
  <2>2. due \cap Dirs = {}
    BY DEF DueInv, EndInv, PendingInv
  <2>3. ASSUME \A d \in Dirs : dirStatus[d] = "complete"
        PROVE  due \cap Units = {}
    BY <2>3 DEF DueInv, EndInv, PendingInv
  <2>. QED
    BY <2>1, <2>2, <2>3
<1>. QED
  BY <1>1, <1>2, StepDueInv, UploadEndInvariant, PTL DEF Spec
=============================================================================

------------------------ MODULE ProtonVerify_proofs ------------------------
(***************************************************************************)
(* Machine-checked proofs about destination verification, for any set of   *)
(* directories and slots, any bound on attempts, and any finite set of     *)
(* discrepancies.                                                          *)
(***************************************************************************)
EXTENDS ProtonVerify, FiniteSetTheorems, TLAPS

PoolSteps == {"fill", "wait", "collect", "record"}
EndSteps == {"close", "finish"}

\* What the process holds about its workers agrees with itself and with the database.
PoolInv ==
  /\ \A d \in Dirs : slot[d] # None => dirStatus[d] = "running" /\ pc \in PoolSteps
  /\ \A d \in Dirs : outcome[d].kind = "none" <=> slot[d] = None /\ d \notin current
  /\ \A d \in done : slot[d] # None /\ outcome[d].kind \in {"listed", "failed"}
  /\ done # {} => pc \in {"collect", "record"}
  /\ \A d \in current : /\ pc = "record" /\ current = {d}
                        /\ dirStatus[d] = "running" /\ slot[d] = None
                        /\ outcome[d].kind = "listed" /\ rows[d] \subseteq outcome[d].found
  /\ \A d \in queue : dirStatus[d] = "pending" /\ attempts[d] < MaxAttempts
                      /\ pc \in PoolSteps \cup EndSteps

\* Every listing was counted first, and nothing is counted past the bound.
CountInv ==
  \A d \in Dirs :
    /\ listings[d] <= attempts[d]
    /\ attempts[d] <= MaxAttempts
    /\ outcome[d].kind = "submitted" => listings[d] < attempts[d]
    /\ outcome[d].kind = "listing" => listings[d] > 0

\* Only a directory that waits for a retry of its mismatches may be without their rows.
EvidenceInv ==
  \A d \in Dirs :
    /\ dirStatus[d] = "complete" => rows[d] = {} /\ count[d] = 0
    /\ dirStatus[d] \in {"pending", "running"} => count[d] = 0
    /\ dirStatus[d] = "failed" => rows[d] # {} \/ count[d] = 0
    /\ dirStatus[d] = "failed" /\ attempts[d] < MaxAttempts => count[d] = 0
    /\ dirStatus[d] = "mismatched" /\ attempts[d] >= MaxAttempts => rows[d] # {}

\* What is recorded as matching was seen to match.
SeenInv ==
  /\ \A d \in Dirs : outcome[d].kind = "listed" /\ outcome[d].found = {} => d \in seen
  /\ \A d \in Dirs : dirStatus[d] = "complete" => d \in seen
  /\ status = "verified" \/ completed => AllComplete

\* Why a run ends: what is left pending is queued, and left in the queue only for a reason
\* an operator has to lift.
EndInv ==
  /\ pc \notin {"idle", "initialize", "recover"} =>
       \A d \in Dirs : dirStatus[d] = "running" => slot[d] # None \/ d \in current
  /\ stop => FailedWith("authentication") \/ FailedWith("quota")
  /\ pc = "begin" => \A d \in Dirs : dirStatus[d] = "pending" => attempts[d] < MaxAttempts
  /\ pc \in PoolSteps \cup EndSteps => \A d \in Dirs : dirStatus[d] = "pending" => d \in queue
  /\ pc \in EndSteps => queue = {} \/ stop
  /\ \A s \in Slots : s \in available \/ \E d \in Dirs : slot[d] = s
  /\ pc = "finish" => \A d \in Dirs : dirStatus[d] = "mismatched" => attempts[d] < MaxAttempts

IInv == TypeOK /\ PoolInv /\ CountInv /\ EvidenceInv /\ SeenInv /\ EndInv


-----------------------------------------------------------------------------
(* What a worker hands back *)

LEMMA OutcomeFacts ==
  /\ NoResult \in Outcomes /\ NoResult.kind = "none"
  /\ Submitted \in Outcomes /\ Submitted.kind = "submitted"
  /\ Listing \in Outcomes /\ Listing.kind = "listing"
  /\ \A found \in SUBSET Discrepancies :
       Listed(found) \in Outcomes /\ Listed(found).kind = "listed" /\ Listed(found).found = found
  /\ \A c \in FailureClasses :
       Failed(c) \in Outcomes /\ Failed(c).kind = "failed" /\ Failed(c).class = c
  /\ \A o \in Outcomes :
       /\ o.kind = "listed" => o.found \in SUBSET Discrepancies
       /\ o.kind = "failed" => o.class \in FailureClasses
<1> USE DEF NoResult, Submitted, Listing, Listed, Failed, Outcomes
<1>1. /\ NoResult \in Outcomes /\ NoResult.kind = "none"
      /\ Submitted \in Outcomes /\ Submitted.kind = "submitted"
      /\ Listing \in Outcomes /\ Listing.kind = "listing"
  OBVIOUS
<1>2. \A found \in SUBSET Discrepancies :
        Listed(found) \in Outcomes /\ Listed(found).kind = "listed" /\ Listed(found).found = found
  OBVIOUS
<1>3. \A c \in FailureClasses :
        Failed(c) \in Outcomes /\ Failed(c).kind = "failed" /\ Failed(c).class = c
  OBVIOUS
<1>4. ASSUME NEW o \in Outcomes
      PROVE  /\ o.kind = "listed" => o.found \in SUBSET Discrepancies
             /\ o.kind = "failed" => o.class \in FailureClasses
  <2>1. CASE o \in {NoResult, Submitted, Listing}
    BY <2>1
  <2>2. CASE \E found \in SUBSET Discrepancies : o = Listed(found)
    BY <2>2
  <2>3. CASE \E c \in FailureClasses : o = Failed(c)
    BY <2>3
  <2>. QED
    BY <2>1, <2>2, <2>3
<1>. QED
  BY <1>1, <1>2, <1>3, <1>4

\* The number of rows a listing gives.
LEMMA CountFacts ==
  ASSUME NEW found \in SUBSET Discrepancies
  PROVE  Cardinality(found) \in Nat /\ (Cardinality(found) = 0 <=> found = {})
<1>1. IsFiniteSet(found)
  BY DiscrepancyAssumption, FS_Subset
<1>. QED
  BY <1>1, FS_CardinalityType, FS_EmptySet

-----------------------------------------------------------------------------
(* Preservation *)

LEMMA StartVerifyKeeps ==
  ASSUME IInv, StartVerify
  PROVE  IInv'
<1> USE DEF IInv, StartVerify, table, database, pool, memory, drive, history
<1>1. TypeOK'
  BY AttemptsAssumption, OutcomeFacts DEF TypeOK, DirStatus, FinalStates, Statuses, Steps, Standing
<1>2. PoolInv'
  BY OutcomeFacts DEF PoolInv, TypeOK, PoolSteps, EndSteps
<1>3. CountInv'
  BY AttemptsAssumption, OutcomeFacts DEF CountInv, PoolInv, TypeOK
<1>4. EvidenceInv'
  BY AttemptsAssumption, OutcomeFacts DEF EvidenceInv, PoolInv, TypeOK
<1>5. SeenInv'
  BY OutcomeFacts DEF SeenInv, AllComplete, PoolInv, TypeOK
<1>6. EndInv'
  BY OutcomeFacts DEF EndInv, FailedWith, PoolInv, TypeOK, PoolSteps, EndSteps
<1>. QED
  BY <1>1, <1>2, <1>3, <1>4, <1>5, <1>6

LEMMA OpenDatabaseKeeps ==
  ASSUME IInv, OpenDatabase
  PROVE  IInv'
<1> USE DEF IInv, OpenDatabase, table, database, pool, memory, drive, history
<1>1. TypeOK'
  BY AttemptsAssumption, OutcomeFacts DEF TypeOK, DirStatus, FinalStates, Statuses, Steps, Standing
<1>2. PoolInv'
  BY OutcomeFacts DEF PoolInv, TypeOK, PoolSteps, EndSteps
<1>3. CountInv'
  BY AttemptsAssumption, OutcomeFacts DEF CountInv, PoolInv, TypeOK
<1>4. EvidenceInv'
  BY AttemptsAssumption, OutcomeFacts DEF EvidenceInv, PoolInv, TypeOK
<1>5. SeenInv'
  BY OutcomeFacts DEF SeenInv, AllComplete, PoolInv, TypeOK
<1>6. EndInv'
  BY OutcomeFacts DEF EndInv, FailedWith, PoolInv, TypeOK, PoolSteps, EndSteps
<1>. QED
  BY <1>1, <1>2, <1>3, <1>4, <1>5, <1>6

LEMMA InitializeKeeps ==
  ASSUME IInv, Initialize
  PROVE  IInv'
<1> USE DEF IInv, Initialize, table, database, pool, memory, drive, history
<1>1. TypeOK'
  BY AttemptsAssumption, OutcomeFacts DEF TypeOK, DirStatus, FinalStates, Statuses, Steps, Standing
<1>2. PoolInv'
  BY OutcomeFacts DEF PoolInv, TypeOK, PoolSteps, EndSteps
<1>3. CountInv'
  BY AttemptsAssumption, OutcomeFacts DEF CountInv, PoolInv, TypeOK
<1>4. EvidenceInv'
  BY AttemptsAssumption, OutcomeFacts DEF EvidenceInv, PoolInv, TypeOK
<1>5. SeenInv'
  BY OutcomeFacts DEF SeenInv, AllComplete, PoolInv, TypeOK
<1>6. EndInv'
  BY OutcomeFacts DEF EndInv, FailedWith, PoolInv, TypeOK, PoolSteps, EndSteps
<1>. QED
  BY <1>1, <1>2, <1>3, <1>4, <1>5, <1>6

LEMMA RecoverInterruptedKeeps ==
  ASSUME IInv, RecoverInterrupted
  PROVE  IInv'
<1> USE DEF IInv, RecoverInterrupted, table, database, pool, memory, drive, history
<1>1. TypeOK'
  BY AttemptsAssumption, OutcomeFacts DEF TypeOK, DirStatus, FinalStates, Statuses, Steps, Standing
<1>2. PoolInv'
  BY OutcomeFacts DEF PoolInv, TypeOK, PoolSteps, EndSteps
<1>3. CountInv'
  BY AttemptsAssumption, OutcomeFacts DEF CountInv, PoolInv, TypeOK
<1>4. EvidenceInv'
  BY AttemptsAssumption, OutcomeFacts DEF EvidenceInv, PoolInv, TypeOK
<1>5. SeenInv'
  BY OutcomeFacts DEF SeenInv, AllComplete, PoolInv, TypeOK
<1>6. EndInv'
  BY OutcomeFacts DEF EndInv, FailedWith, PoolInv, TypeOK, PoolSteps, EndSteps
<1>. QED
  BY <1>1, <1>2, <1>3, <1>4, <1>5, <1>6

LEMMA RequeueFailedKeeps ==
  ASSUME IInv, RequeueFailed
  PROVE  IInv'
<1> USE DEF IInv, RequeueFailed, Retryable, RetryBlocked, table, database, pool, memory, drive, history
<1>1. TypeOK'
  BY AttemptsAssumption, OutcomeFacts DEF TypeOK, DirStatus, FinalStates, Statuses, Steps, Standing
<1>2. PoolInv'
  BY OutcomeFacts DEF PoolInv, TypeOK, PoolSteps, EndSteps
<1>3. CountInv'
  BY AttemptsAssumption, OutcomeFacts DEF CountInv, PoolInv, TypeOK
<1>4. EvidenceInv'
  BY AttemptsAssumption, OutcomeFacts DEF EvidenceInv, PoolInv, TypeOK
<1>5. SeenInv'
  BY OutcomeFacts DEF SeenInv, AllComplete, PoolInv, TypeOK
<1>6. EndInv'
  BY OutcomeFacts DEF EndInv, FailedWith, PoolInv, TypeOK, PoolSteps, EndSteps
<1>. QED
  BY <1>1, <1>2, <1>3, <1>4, <1>5, <1>6

LEMMA ClearMismatchesKeeps ==
  ASSUME IInv, ClearMismatches
  PROVE  IInv'
<1> USE DEF IInv, ClearMismatches, Reopened, Retryable, table, database, pool, memory, drive, history
<1>1. TypeOK'
  BY AttemptsAssumption, OutcomeFacts DEF TypeOK, DirStatus, FinalStates, Statuses, Steps, Standing
<1>2. PoolInv'
  BY OutcomeFacts DEF PoolInv, TypeOK, PoolSteps, EndSteps
<1>3. CountInv'
  BY AttemptsAssumption, OutcomeFacts DEF CountInv, PoolInv, TypeOK
<1>4. EvidenceInv'
  BY AttemptsAssumption, OutcomeFacts DEF EvidenceInv, PoolInv, TypeOK
<1>5. SeenInv'
  BY OutcomeFacts DEF SeenInv, AllComplete, PoolInv, TypeOK
<1>6. EndInv'
  BY OutcomeFacts DEF EndInv, FailedWith, PoolInv, TypeOK, PoolSteps, EndSteps
<1>. QED
  BY <1>1, <1>2, <1>3, <1>4, <1>5, <1>6

LEMMA ReopenMismatchedKeeps ==
  ASSUME IInv, ReopenMismatched
  PROVE  IInv'
<1> USE DEF IInv, ReopenMismatched, Reopened, Retryable, table, database, pool, memory, drive, history
<1>1. TypeOK'
  BY AttemptsAssumption, OutcomeFacts DEF TypeOK, DirStatus, FinalStates, Statuses, Steps, Standing
<1>2. PoolInv'
  BY OutcomeFacts DEF PoolInv, TypeOK, PoolSteps, EndSteps
<1>3. CountInv'
  BY AttemptsAssumption, OutcomeFacts DEF CountInv, PoolInv, TypeOK
<1>4. EvidenceInv'
  BY AttemptsAssumption, OutcomeFacts DEF EvidenceInv, PoolInv, TypeOK
<1>5. SeenInv'
  BY OutcomeFacts DEF SeenInv, AllComplete, PoolInv, TypeOK
<1>6. EndInv'
  BY OutcomeFacts DEF EndInv, FailedWith, PoolInv, TypeOK, PoolSteps, EndSteps
<1>. QED
  BY <1>1, <1>2, <1>3, <1>4, <1>5, <1>6

LEMMA GiveUpMismatchedKeeps ==
  ASSUME IInv, GiveUpMismatched
  PROVE  IInv'
<1> USE DEF IInv, GiveUpMismatched, FailExhausted, table, database, pool, memory, drive, history
<1>1. TypeOK'
  BY AttemptsAssumption, OutcomeFacts DEF TypeOK, DirStatus, FinalStates, Statuses, Steps, Standing
<1>2. PoolInv'
  BY OutcomeFacts DEF PoolInv, TypeOK, PoolSteps, EndSteps
<1>3. CountInv'
  BY AttemptsAssumption, OutcomeFacts DEF CountInv, PoolInv, TypeOK
<1>4. EvidenceInv'
  BY AttemptsAssumption, OutcomeFacts DEF EvidenceInv, PoolInv, TypeOK
<1>5. SeenInv'
  BY OutcomeFacts DEF SeenInv, AllComplete, PoolInv, TypeOK
<1>6. EndInv'
  BY OutcomeFacts DEF EndInv, FailedWith, PoolInv, TypeOK, PoolSteps, EndSteps
<1>. QED
  BY <1>1, <1>2, <1>3, <1>4, <1>5, <1>6

LEMMA FailExhaustedPendingKeeps ==
  ASSUME IInv, FailExhaustedPending
  PROVE  IInv'
<1> USE DEF IInv, FailExhaustedPending, FailExhausted, table, database, pool, memory, drive, history
<1>1. TypeOK'
  BY AttemptsAssumption, OutcomeFacts DEF TypeOK, DirStatus, FinalStates, Statuses, Steps, Standing
<1>2. PoolInv'
  BY OutcomeFacts DEF PoolInv, TypeOK, PoolSteps, EndSteps
<1>3. CountInv'
  BY AttemptsAssumption, OutcomeFacts DEF CountInv, PoolInv, TypeOK
<1>4. EvidenceInv'
  BY AttemptsAssumption, OutcomeFacts DEF EvidenceInv, PoolInv, TypeOK
<1>5. SeenInv'
  BY OutcomeFacts DEF SeenInv, AllComplete, PoolInv, TypeOK
<1>6. EndInv'
  <2>1. \A d \in Dirs : /\ dirStatus[d] = "failed" => dirStatus'[d] = "failed" /\ class'[d] = class[d]
                        /\ dirStatus'[d] \in {dirStatus[d], "failed"}
                        /\ dirStatus'[d] = "pending" => attempts[d] < MaxAttempts
    BY AttemptsAssumption DEF TypeOK
  <2>2. stop => FailedWith("authentication")' \/ FailedWith("quota")'
    BY <2>1 DEF EndInv, FailedWith
  <2>. QED
    BY <2>1, <2>2 DEF EndInv, PoolSteps, EndSteps, PoolInv
<1>. QED
  BY <1>1, <1>2, <1>3, <1>4, <1>5, <1>6

LEMMA BeginVerifyingKeeps ==
  ASSUME IInv, BeginVerifying
  PROVE  IInv'
<1> USE DEF IInv, BeginVerifying, table, database, pool, memory, drive, history
<1>1. TypeOK'
  BY AttemptsAssumption, OutcomeFacts DEF TypeOK, DirStatus, FinalStates, Statuses, Steps, Standing
<1>2. PoolInv'
  BY OutcomeFacts DEF PoolInv, TypeOK, PoolSteps, EndSteps
<1>3. CountInv'
  BY AttemptsAssumption, OutcomeFacts DEF CountInv, PoolInv, TypeOK
<1>4. EvidenceInv'
  BY AttemptsAssumption, OutcomeFacts DEF EvidenceInv, PoolInv, TypeOK
<1>5. SeenInv'
  BY OutcomeFacts DEF SeenInv, AllComplete, PoolInv, TypeOK
<1>6. EndInv'
  BY OutcomeFacts DEF EndInv, FailedWith, PoolInv, TypeOK, PoolSteps, EndSteps
<1>. QED
  BY <1>1, <1>2, <1>3, <1>4, <1>5, <1>6

LEMMA SubmitListingKeeps ==
  ASSUME IInv, NEW d \in Dirs, NEW s \in Slots, SubmitListing(d, s)
  PROVE  IInv'
<1> USE DEF IInv, SubmitListing, MaySchedule, CountAttempt, table, database, pool, memory, drive, history
<1>1. TypeOK'
  BY AttemptsAssumption, OutcomeFacts DEF TypeOK, DirStatus, FinalStates, Statuses, Steps, Standing
<1>2. PoolInv'
  <2>1. /\ dirStatus[d] = "pending" /\ slot[d] = None /\ d \notin done
        /\ current = {} /\ done = {} /\ s # None
    BY NoneAssumption DEF PoolInv
  <2>2. \A e \in Dirs : e # d => /\ slot'[e] = slot[e] /\ outcome'[e] = outcome[e]
                                 /\ dirStatus'[e] = dirStatus[e] /\ attempts'[e] = attempts[e]
    BY DEF TypeOK
  <2>3. slot'[d] = s /\ outcome'[d] = Submitted /\ dirStatus'[d] = "running"
    BY DEF TypeOK
  <2>. QED
    BY <2>1, <2>2, <2>3, OutcomeFacts DEF PoolInv, PoolSteps, EndSteps, TypeOK
<1>3. CountInv'
  BY AttemptsAssumption, OutcomeFacts DEF CountInv, PoolInv, TypeOK
<1>4. EvidenceInv'
  BY AttemptsAssumption, OutcomeFacts DEF EvidenceInv, PoolInv, TypeOK
<1>5. SeenInv'
  BY OutcomeFacts DEF SeenInv, AllComplete, PoolInv, TypeOK
<1>6. EndInv'
  <2>1. dirStatus[d] = "pending" /\ slot[d] = None /\ ~stop /\ s # None
    BY NoneAssumption DEF PoolInv
  <2>2. \A e \in Dirs : e # d => slot'[e] = slot[e] /\ dirStatus'[e] = dirStatus[e]
    BY DEF TypeOK
  <2>3. slot'[d] = s /\ dirStatus'[d] = "running"
    BY DEF TypeOK
  <2>4. \A t \in Slots : t \in available' \/ \E e \in Dirs : slot'[e] = t
    <3> SUFFICES ASSUME NEW t \in Slots, t \notin available'
                 PROVE  \E e \in Dirs : slot'[e] = t
      OBVIOUS
    <3>1. CASE t = s
      BY <2>3, <3>1
    <3>2. CASE t # s
      <4>1. PICK e \in Dirs : slot[e] = t
        BY <3>2 DEF EndInv
      <4>2. e # d
        BY <2>1, <4>1, NoneAssumption
      <4>. QED
        BY <2>2, <4>1, <4>2
    <3>. QED
      BY <3>1, <3>2
  <2>. QED
    BY <2>1, <2>2, <2>3, <2>4 DEF EndInv, PoolSteps, EndSteps, TypeOK
<1>. QED
  BY <1>1, <1>2, <1>3, <1>4, <1>5, <1>6

LEMMA AwaitWorkersKeeps ==
  ASSUME IInv, AwaitWorkers
  PROVE  IInv'
<1> USE DEF IInv, AwaitWorkers, MaySchedule, Active, table, database, pool, memory, drive, history
<1>1. TypeOK'
  BY AttemptsAssumption, OutcomeFacts DEF TypeOK, DirStatus, FinalStates, Statuses, Steps, Standing
<1>2. PoolInv'
  BY OutcomeFacts DEF PoolInv, TypeOK, PoolSteps, EndSteps
<1>3. CountInv'
  BY AttemptsAssumption, OutcomeFacts DEF CountInv, PoolInv, TypeOK
<1>4. EvidenceInv'
  BY AttemptsAssumption, OutcomeFacts DEF EvidenceInv, PoolInv, TypeOK
<1>5. SeenInv'
  BY OutcomeFacts DEF SeenInv, AllComplete, PoolInv, TypeOK
<1>6. EndInv'
  <2>1. Active = {} => available # {}
    BY SlotsAssumption, NoneAssumption DEF EndInv
  <2>2. pc' \in EndSteps => queue = {} \/ stop
    BY <2>1 DEF EndSteps
  <2>. QED
    BY <2>2 DEF EndInv, FailedWith, PoolSteps, EndSteps
<1>. QED
  BY <1>1, <1>2, <1>3, <1>4, <1>5, <1>6

LEMMA LaunchCLIKeeps ==
  ASSUME IInv, NEW d \in Dirs, LaunchCLI(d)
  PROVE  IInv'
<1> USE DEF IInv, LaunchCLI, table, database, pool, memory, drive, history
<1>1. TypeOK'
  BY AttemptsAssumption, OutcomeFacts DEF TypeOK, DirStatus, FinalStates, Statuses, Steps, Standing
<1>2. PoolInv'
  BY OutcomeFacts DEF PoolInv, TypeOK, PoolSteps, EndSteps
<1>3. CountInv'
  BY AttemptsAssumption, OutcomeFacts DEF CountInv, PoolInv, TypeOK
<1>4. EvidenceInv'
  BY AttemptsAssumption, OutcomeFacts DEF EvidenceInv, PoolInv, TypeOK
<1>5. SeenInv'
  BY OutcomeFacts DEF SeenInv, AllComplete, PoolInv, TypeOK
<1>6. EndInv'
  BY OutcomeFacts DEF EndInv, FailedWith, PoolInv, TypeOK, PoolSteps, EndSteps
<1>. QED
  BY <1>1, <1>2, <1>3, <1>4, <1>5, <1>6

LEMMA ListDirectoryKeeps ==
  ASSUME IInv, NEW d \in Dirs, ListDirectory(d)
  PROVE  IInv'
<1> USE DEF IInv, ListDirectory, table, database, pool, memory, drive, history
<1>1. TypeOK'
  BY AttemptsAssumption, OutcomeFacts DEF TypeOK, DirStatus, FinalStates, Statuses, Steps, Standing
<1>2. PoolInv'
  BY OutcomeFacts DEF PoolInv, TypeOK, PoolSteps, EndSteps
<1>3. CountInv'
  BY AttemptsAssumption, OutcomeFacts DEF CountInv, PoolInv, TypeOK
<1>4. EvidenceInv'
  BY AttemptsAssumption, OutcomeFacts DEF EvidenceInv, PoolInv, TypeOK
<1>5. SeenInv'
  BY OutcomeFacts DEF SeenInv, AllComplete, PoolInv, TypeOK
<1>6. EndInv'
  BY OutcomeFacts DEF EndInv, FailedWith, PoolInv, TypeOK, PoolSteps, EndSteps
<1>. QED
  BY <1>1, <1>2, <1>3, <1>4, <1>5, <1>6

LEMMA ListFailsKeeps ==
  ASSUME IInv, NEW d \in Dirs, NEW c \in FailureClasses, ListFails(d, c)
  PROVE  IInv'
<1> USE DEF IInv, ListFails, table, database, pool, memory, drive, history
<1>1. TypeOK'
  BY AttemptsAssumption, OutcomeFacts DEF TypeOK, DirStatus, FinalStates, Statuses, Steps, Standing
<1>2. PoolInv'
  BY OutcomeFacts DEF PoolInv, TypeOK, PoolSteps, EndSteps
<1>3. CountInv'
  BY AttemptsAssumption, OutcomeFacts DEF CountInv, PoolInv, TypeOK
<1>4. EvidenceInv'
  BY AttemptsAssumption, OutcomeFacts DEF EvidenceInv, PoolInv, TypeOK
<1>5. SeenInv'
  BY OutcomeFacts DEF SeenInv, AllComplete, PoolInv, TypeOK
<1>6. EndInv'
  BY OutcomeFacts DEF EndInv, FailedWith, PoolInv, TypeOK, PoolSteps, EndSteps
<1>. QED
  BY <1>1, <1>2, <1>3, <1>4, <1>5, <1>6

LEMMA WaitReturnsKeeps ==
  ASSUME IInv, WaitReturns
  PROVE  IInv'
<1> USE DEF IInv, WaitReturns, Finished, Active, table, database, pool, memory, drive, history
<1>1. TypeOK'
  BY AttemptsAssumption, OutcomeFacts DEF TypeOK, DirStatus, FinalStates, Statuses, Steps, Standing
<1>2. PoolInv'
  BY OutcomeFacts DEF PoolInv, TypeOK, PoolSteps, EndSteps
<1>3. CountInv'
  BY AttemptsAssumption, OutcomeFacts DEF CountInv, PoolInv, TypeOK
<1>4. EvidenceInv'
  BY AttemptsAssumption, OutcomeFacts DEF EvidenceInv, PoolInv, TypeOK
<1>5. SeenInv'
  BY OutcomeFacts DEF SeenInv, AllComplete, PoolInv, TypeOK
<1>6. EndInv'
  BY OutcomeFacts DEF EndInv, FailedWith, PoolInv, TypeOK, PoolSteps, EndSteps
<1>. QED
  BY <1>1, <1>2, <1>3, <1>4, <1>5, <1>6

LEMMA TakeListingKeeps ==
  ASSUME IInv, NEW d \in Dirs, TakeListing(d)
  PROVE  IInv'
<1> USE DEF IInv, TakeListing, DeleteRows, table, database, pool, memory, drive, history
<1>1. TypeOK'
  BY AttemptsAssumption, OutcomeFacts DEF TypeOK, DirStatus, FinalStates, Statuses, Steps, Standing, PoolInv
<1>2. PoolInv'
  BY OutcomeFacts DEF PoolInv, TypeOK, PoolSteps, EndSteps
<1>3. CountInv'
  BY AttemptsAssumption, OutcomeFacts DEF CountInv, PoolInv, TypeOK
<1>4. EvidenceInv'
  BY AttemptsAssumption, OutcomeFacts DEF EvidenceInv, PoolInv, TypeOK
<1>5. SeenInv'
  BY OutcomeFacts DEF SeenInv, AllComplete, PoolInv, TypeOK
<1>6. EndInv'
  BY OutcomeFacts DEF EndInv, FailedWith, PoolInv, TypeOK, PoolSteps, EndSteps
<1>. QED
  BY <1>1, <1>2, <1>3, <1>4, <1>5, <1>6

LEMMA InsertMismatchKeeps ==
  ASSUME IInv, NEW d \in Dirs, NEW x \in Discrepancies, InsertMismatch(d, x)
  PROVE  IInv'
<1> USE DEF IInv, InsertMismatch, table, database, pool, memory, drive, history
<1>1. TypeOK'
  BY AttemptsAssumption, OutcomeFacts DEF TypeOK, DirStatus, FinalStates, Statuses, Steps, Standing
<1>2. PoolInv'
  BY OutcomeFacts DEF PoolInv, TypeOK, PoolSteps, EndSteps
<1>3. CountInv'
  BY AttemptsAssumption, OutcomeFacts DEF CountInv, PoolInv, TypeOK
<1>4. EvidenceInv'
  BY AttemptsAssumption, OutcomeFacts DEF EvidenceInv, PoolInv, TypeOK
<1>5. SeenInv'
  BY OutcomeFacts DEF SeenInv, AllComplete, PoolInv, TypeOK
<1>6. EndInv'
  BY OutcomeFacts DEF EndInv, FailedWith, PoolInv, TypeOK, PoolSteps, EndSteps
<1>. QED
  BY <1>1, <1>2, <1>3, <1>4, <1>5, <1>6

LEMMA RecordListingKeeps ==
  ASSUME IInv, NEW d \in Dirs, RecordListing(d)
  PROVE  IInv'
<1> USE DEF IInv, RecordListing, table, database, pool, memory, drive, history
<1>1. TypeOK'
  <2>1. outcome[d].found \in SUBSET Discrepancies
    BY OutcomeFacts DEF PoolInv, TypeOK
  <2>. QED
    BY <2>1, CountFacts, OutcomeFacts DEF TypeOK, DirStatus, FinalStates, Statuses, Steps, Standing
<1>2. PoolInv'
  BY OutcomeFacts DEF PoolInv, TypeOK, PoolSteps, EndSteps
<1>3. CountInv'
  BY AttemptsAssumption, OutcomeFacts DEF CountInv, PoolInv, TypeOK
<1>4. EvidenceInv'
  <2>1. /\ outcome[d].found \in SUBSET Discrepancies
        /\ rows[d] = outcome[d].found
    BY OutcomeFacts DEF PoolInv, TypeOK
  <2>2. Cardinality(outcome[d].found) = 0 <=> outcome[d].found = {}
    BY <2>1, CountFacts
  <2>3. \A e \in Dirs : e # d => dirStatus'[e] = dirStatus[e] /\ count'[e] = count[e]
    BY DEF TypeOK
  <2>4. /\ dirStatus'[d] = IF outcome[d].found = {} THEN "complete" ELSE "mismatched"
        /\ count'[d] = Cardinality(outcome[d].found)
    BY DEF TypeOK
  <2>. QED
    BY <2>1, <2>2, <2>3, <2>4 DEF EvidenceInv, TypeOK
<1>5. SeenInv'
  BY OutcomeFacts DEF SeenInv, AllComplete, PoolInv, TypeOK
<1>6. EndInv'
  BY OutcomeFacts DEF EndInv, FailedWith, PoolInv, TypeOK, PoolSteps, EndSteps
<1>. QED
  BY <1>1, <1>2, <1>3, <1>4, <1>5, <1>6

LEMMA RecordFailureKeeps ==
  ASSUME IInv, NEW d \in Dirs, RecordFailure(d)
  PROVE  IInv'
<1> USE DEF IInv, RecordFailure, StopAfter, table, database, pool, memory, drive, history
<1>1. TypeOK'
  BY AttemptsAssumption, OutcomeFacts DEF TypeOK, DirStatus, FinalStates, Statuses, Steps, Standing, PoolInv
<1>2. PoolInv'
  BY OutcomeFacts DEF PoolInv, TypeOK, PoolSteps, EndSteps
<1>3. CountInv'
  BY AttemptsAssumption, OutcomeFacts DEF CountInv, PoolInv, TypeOK
<1>4. EvidenceInv'
  BY AttemptsAssumption, OutcomeFacts DEF EvidenceInv, PoolInv, TypeOK
<1>5. SeenInv'
  BY OutcomeFacts DEF SeenInv, AllComplete, PoolInv, TypeOK
<1>6. EndInv'
  BY OutcomeFacts DEF EndInv, FailedWith, PoolInv, TypeOK, PoolSteps, EndSteps
<1>. QED
  BY <1>1, <1>2, <1>3, <1>4, <1>5, <1>6

LEMMA EndBatchKeeps ==
  ASSUME IInv, EndBatch
  PROVE  IInv'
<1> USE DEF IInv, EndBatch, Active, table, database, pool, memory, drive, history
<1>1. TypeOK'
  BY AttemptsAssumption, OutcomeFacts DEF TypeOK, DirStatus, FinalStates, Statuses, Steps, Standing
<1>2. PoolInv'
  BY OutcomeFacts DEF PoolInv, TypeOK, PoolSteps, EndSteps
<1>3. CountInv'
  BY AttemptsAssumption, OutcomeFacts DEF CountInv, PoolInv, TypeOK
<1>4. EvidenceInv'
  BY AttemptsAssumption, OutcomeFacts DEF EvidenceInv, PoolInv, TypeOK
<1>5. SeenInv'
  BY OutcomeFacts DEF SeenInv, AllComplete, PoolInv, TypeOK
<1>6. EndInv'
  BY OutcomeFacts DEF EndInv, FailedWith, PoolInv, TypeOK, PoolSteps, EndSteps
<1>. QED
  BY <1>1, <1>2, <1>3, <1>4, <1>5, <1>6

LEMMA CloseMismatchedKeeps ==
  ASSUME IInv, CloseMismatched
  PROVE  IInv'
<1> USE DEF IInv, CloseMismatched, FailExhausted, table, database, pool, memory, drive, history
<1>1. TypeOK'
  BY AttemptsAssumption, OutcomeFacts DEF TypeOK, DirStatus, FinalStates, Statuses, Steps, Standing
<1>2. PoolInv'
  BY OutcomeFacts DEF PoolInv, TypeOK, PoolSteps, EndSteps
<1>3. CountInv'
  BY AttemptsAssumption, OutcomeFacts DEF CountInv, PoolInv, TypeOK
<1>4. EvidenceInv'
  BY AttemptsAssumption, OutcomeFacts DEF EvidenceInv, PoolInv, TypeOK
<1>5. SeenInv'
  BY OutcomeFacts DEF SeenInv, AllComplete, PoolInv, TypeOK
<1>6. EndInv'
  <2>1. \A d \in Dirs : /\ dirStatus[d] = "failed" => dirStatus'[d] = "failed" /\ class'[d] = class[d]
                        /\ dirStatus'[d] \in {dirStatus[d], "failed"}
                        /\ dirStatus'[d] = "mismatched" => attempts[d] < MaxAttempts
    BY AttemptsAssumption DEF TypeOK
  <2>2. stop => FailedWith("authentication")' \/ FailedWith("quota")'
    BY <2>1 DEF EndInv, FailedWith
  <2>. QED
    BY <2>1, <2>2 DEF EndInv, PoolSteps, EndSteps, PoolInv
<1>. QED
  BY <1>1, <1>2, <1>3, <1>4, <1>5, <1>6

LEMMA MarkCompletedKeeps ==
  ASSUME IInv, MarkCompleted
  PROVE  IInv'
<1> USE DEF IInv, MarkCompleted, FinalState, table, database, pool, memory, drive, history
<1>1. TypeOK'
  BY AttemptsAssumption, OutcomeFacts DEF TypeOK, DirStatus, FinalStates, Statuses, Steps, Standing
<1>2. PoolInv'
  BY OutcomeFacts DEF PoolInv, TypeOK, PoolSteps, EndSteps
<1>3. CountInv'
  BY AttemptsAssumption, OutcomeFacts DEF CountInv, PoolInv, TypeOK
<1>4. EvidenceInv'
  BY AttemptsAssumption, OutcomeFacts DEF EvidenceInv, PoolInv, TypeOK
<1>5. SeenInv'
  BY OutcomeFacts DEF SeenInv, AllComplete, PoolInv, TypeOK
<1>6. EndInv'
  BY OutcomeFacts DEF EndInv, FailedWith, PoolInv, TypeOK, PoolSteps, EndSteps
<1>. QED
  BY <1>1, <1>2, <1>3, <1>4, <1>5, <1>6

LEMMA FinishRunKeeps ==
  ASSUME IInv, FinishRun
  PROVE  IInv'
<1> USE DEF IInv, FinishRun, FinalState, ProcessEnds, table, database, pool, memory, drive, history
<1>1. TypeOK'
  BY AttemptsAssumption, OutcomeFacts DEF TypeOK, DirStatus, FinalStates, Statuses, Steps, Standing
<1>2. PoolInv'
  BY OutcomeFacts DEF PoolInv, TypeOK, PoolSteps, EndSteps
<1>3. CountInv'
  BY AttemptsAssumption, OutcomeFacts DEF CountInv, PoolInv, TypeOK
<1>4. EvidenceInv'
  BY AttemptsAssumption, OutcomeFacts DEF EvidenceInv, PoolInv, TypeOK
<1>5. SeenInv'
  BY OutcomeFacts DEF SeenInv, AllComplete, PoolInv, TypeOK
<1>6. EndInv'
  BY OutcomeFacts DEF EndInv, FailedWith, PoolInv, TypeOK, PoolSteps, EndSteps
<1>. QED
  BY <1>1, <1>2, <1>3, <1>4, <1>5, <1>6

LEMMA CrashKeeps ==
  ASSUME IInv, Crash
  PROVE  IInv'
<1> USE DEF IInv, Crash, ProcessEnds, table, database, pool, memory, drive, history
<1>1. TypeOK'
  BY AttemptsAssumption, OutcomeFacts DEF TypeOK, DirStatus, FinalStates, Statuses, Steps, Standing
<1>2. PoolInv'
  BY OutcomeFacts DEF PoolInv, TypeOK, PoolSteps, EndSteps
<1>3. CountInv'
  BY AttemptsAssumption, OutcomeFacts DEF CountInv, PoolInv, TypeOK
<1>4. EvidenceInv'
  BY AttemptsAssumption, OutcomeFacts DEF EvidenceInv, PoolInv, TypeOK
<1>5. SeenInv'
  BY OutcomeFacts DEF SeenInv, AllComplete, PoolInv, TypeOK
<1>6. EndInv'
  BY OutcomeFacts DEF EndInv, FailedWith, PoolInv, TypeOK, PoolSteps, EndSteps
<1>. QED
  BY <1>1, <1>2, <1>3, <1>4, <1>5, <1>6

LEMMA DriveChangesKeeps ==
  ASSUME IInv, NEW d \in Dirs, DriveChanges(d)
  PROVE  IInv'
<1> USE DEF IInv, DriveChanges, table, database, pool, memory, drive, history
<1>1. TypeOK'
  BY AttemptsAssumption, OutcomeFacts DEF TypeOK, DirStatus, FinalStates, Statuses, Steps, Standing
<1>2. PoolInv'
  BY OutcomeFacts DEF PoolInv, TypeOK, PoolSteps, EndSteps
<1>3. CountInv'
  BY AttemptsAssumption, OutcomeFacts DEF CountInv, PoolInv, TypeOK
<1>4. EvidenceInv'
  BY AttemptsAssumption, OutcomeFacts DEF EvidenceInv, PoolInv, TypeOK
<1>5. SeenInv'
  BY OutcomeFacts DEF SeenInv, AllComplete, PoolInv, TypeOK
<1>6. EndInv'
  BY OutcomeFacts DEF EndInv, FailedWith, PoolInv, TypeOK, PoolSteps, EndSteps
<1>. QED
  BY <1>1, <1>2, <1>3, <1>4, <1>5, <1>6

LEMMA ConditionArisesKeeps ==
  ASSUME IInv, NEW c \in Standing, ConditionArises(c)
  PROVE  IInv'
<1> USE DEF IInv, ConditionArises, table, database, pool, memory, drive, history
<1>1. TypeOK'
  BY AttemptsAssumption, OutcomeFacts DEF TypeOK, DirStatus, FinalStates, Statuses, Steps, Standing
<1>2. PoolInv'
  BY OutcomeFacts DEF PoolInv, TypeOK, PoolSteps, EndSteps
<1>3. CountInv'
  BY AttemptsAssumption, OutcomeFacts DEF CountInv, PoolInv, TypeOK
<1>4. EvidenceInv'
  BY AttemptsAssumption, OutcomeFacts DEF EvidenceInv, PoolInv, TypeOK
<1>5. SeenInv'
  BY OutcomeFacts DEF SeenInv, AllComplete, PoolInv, TypeOK
<1>6. EndInv'
  BY OutcomeFacts DEF EndInv, FailedWith, PoolInv, TypeOK, PoolSteps, EndSteps
<1>. QED
  BY <1>1, <1>2, <1>3, <1>4, <1>5, <1>6

LEMMA OperatorCorrectsKeeps ==
  ASSUME IInv, NEW c \in Standing, OperatorCorrects(c)
  PROVE  IInv'
<1> USE DEF IInv, OperatorCorrects, table, database, pool, memory, drive, history
<1>1. TypeOK'
  BY AttemptsAssumption, OutcomeFacts DEF TypeOK, DirStatus, FinalStates, Statuses, Steps, Standing
<1>2. PoolInv'
  BY OutcomeFacts DEF PoolInv, TypeOK, PoolSteps, EndSteps
<1>3. CountInv'
  BY AttemptsAssumption, OutcomeFacts DEF CountInv, PoolInv, TypeOK
<1>4. EvidenceInv'
  BY AttemptsAssumption, OutcomeFacts DEF EvidenceInv, PoolInv, TypeOK
<1>5. SeenInv'
  BY OutcomeFacts DEF SeenInv, AllComplete, PoolInv, TypeOK
<1>6. EndInv'
  BY OutcomeFacts DEF EndInv, FailedWith, PoolInv, TypeOK, PoolSteps, EndSteps
<1>. QED
  BY <1>1, <1>2, <1>3, <1>4, <1>5, <1>6

LEMMA InitIInv == Init => IInv
<1> SUFFICES ASSUME Init PROVE IInv
  OBVIOUS
<1> USE DEF Init
<1>1. TypeOK
  BY OutcomeFacts DEF TypeOK, DirStatus, FinalStates, Statuses, Steps, Standing
<1>2. PoolInv /\ EndInv
  BY OutcomeFacts DEF PoolInv, EndInv, PoolSteps, EndSteps
<1>3. CountInv /\ EvidenceInv /\ SeenInv
  BY AttemptsAssumption, OutcomeFacts DEF CountInv, EvidenceInv, SeenInv
<1>. QED
  BY <1>1, <1>2, <1>3 DEF IInv

LEMMA StutterKeeps ==
  ASSUME IInv, UNCHANGED vars
  PROVE  IInv'
<1> USE DEF IInv, vars, table, database, pool, memory, drive, history
<1>1. TypeOK' /\ PoolInv' /\ CountInv'
  BY DEF TypeOK, PoolInv, CountInv
<1>2. EvidenceInv' /\ SeenInv' /\ EndInv'
  BY DEF EvidenceInv, SeenInv, AllComplete, EndInv, FailedWith
<1>. QED
  BY <1>1, <1>2

LEMMA StepIInv == IInv /\ [Next]_vars => IInv'
<1> SUFFICES ASSUME IInv, [Next]_vars PROVE IInv'
  OBVIOUS
<1>1. CASE UNCHANGED vars
  BY <1>1, StutterKeeps
<1>2. CASE PoolStep
  BY <1>2, SubmitListingKeeps, AwaitWorkersKeeps, LaunchCLIKeeps, ListDirectoryKeeps, ListFailsKeeps,
     WaitReturnsKeeps, TakeListingKeeps, InsertMismatchKeeps, RecordListingKeeps, RecordFailureKeeps,
     EndBatchKeeps DEF PoolStep
<1>3. CASE RunStep
  BY <1>2, <1>3, OpenDatabaseKeeps, InitializeKeeps, RecoverInterruptedKeeps, RequeueFailedKeeps,
     ClearMismatchesKeeps, ReopenMismatchedKeeps, GiveUpMismatchedKeeps, FailExhaustedPendingKeeps,
     BeginVerifyingKeeps, CloseMismatchedKeeps, MarkCompletedKeeps, FinishRunKeeps DEF RunStep
<1>. QED
  BY <1>1, <1>3, StartVerifyKeeps, CrashKeeps, DriveChangesKeeps, ConditionArisesKeeps,
     OperatorCorrectsKeeps DEF Next

\* Memory, evidence and table agree in every state, through crashes at any statement, any
\* change on the drive and any number of runs.
THEOREM VerifyInvariant == Spec => []IInv
<1>. QED
  BY InitIInv, StepIInv, PTL DEF Spec

-----------------------------------------------------------------------------
(* The properties *)

\* Rows, classes and queues keep their types through crashes and resumes.
THEOREM VerifyTypeOK == Spec => []TypeOK
<1>. QED
  BY VerifyInvariant, PTL DEF IInv

\* "complete", "verified" and completed_at stand for listings that matched, all of them.
THEOREM VerifyVerifiedWasSeen == Spec => []VerifiedWasSeen
<1>1. IInv => VerifiedWasSeen
  BY DEF IInv, TypeOK, SeenInv, AllComplete, VerifiedWasSeen
<1>. QED
  BY <1>1, VerifyInvariant, PTL

\* The mismatch rows agree with the table at every point where a crash may fall.
THEOREM VerifyEvidenceAgrees == Spec => []EvidenceAgrees
<1>1. IInv => EvidenceAgrees
  BY DEF IInv, TypeOK, EvidenceInv, EvidenceAgrees
<1>. QED
  BY <1>1, VerifyInvariant, PTL

\* At the end of a run nothing is running or waiting, unless something stopped the run.
LEMMA FinishedRows ==
  ASSUME IInv, pc = "finish"
  PROVE  /\ \A d \in Dirs : dirStatus[d] # "running"
         /\ stop \/ \A d \in Dirs : dirStatus[d] # "pending"
         /\ ~AllComplete => \E d \in Dirs : dirStatus[d] \in {"pending", "mismatched", "failed"}
         /\ \A d \in Dirs : dirStatus[d] = "mismatched" => Retryable(d)
<1>1. \A d \in Dirs : slot[d] = None /\ d \notin current
  BY DEF IInv, PoolInv, PoolSteps
<1>2. \A d \in Dirs : dirStatus[d] # "running"
  BY <1>1 DEF IInv, EndInv
<1>3. stop \/ \A d \in Dirs : dirStatus[d] # "pending"
  BY DEF IInv, EndInv, EndSteps
<1>4. ~AllComplete => \E d \in Dirs : dirStatus[d] \in {"pending", "mismatched", "failed"}
  BY <1>2 DEF IInv, TypeOK, DirStatus, AllComplete, EvidenceInv
<1>5. \A d \in Dirs : dirStatus[d] = "mismatched" => Retryable(d)
  BY DEF IInv, EndInv, Retryable
<1>. QED
  BY <1>2, <1>3, <1>4, <1>5

\* What FinalState returns is the truth about the rows a run leaves.
LEMMA FinalStateIsTrue ==
  ASSUME IInv, pc = "finish", status' = FinalState
  PROVE  Verdict
<1>1. status' = "verified" <=> AllComplete
  BY DEF FinalState
<1>2. ASSUME status' = "recoverable"
      PROVE  /\ \E d \in Dirs : Retryable(d)
             /\ \A c \in {"authentication", "quota"} : ~FailedWith(c)
  BY <1>2 DEF FinalState
<1>3. ASSUME status' = "failed-verification"
      PROVE  /\ ~AllComplete
             /\ \A d \in Dirs : ~Retryable(d)
             /\ ~FailedWith("authentication") /\ ~FailedWith("quota")
  BY <1>3 DEF FinalState
<1>4. ASSUME status' = "failed-verification"
      PROVE  /\ \E d \in Dirs : dirStatus[d] = "failed"
             /\ \A d \in Dirs : dirStatus[d] # "pending" /\ ~Retryable(d)
  <2>1. ~stop
    BY <1>3, <1>4 DEF IInv, EndInv
  <2>. QED
    BY <1>3, <1>4, <2>1, FinishedRows
<1>. QED
  BY <1>1, <1>2, <1>4, FinishedRows DEF Verdict

\* The only step that changes the status at the end of a run is the one that writes it.
LEMMA FinishWritesFinalState ==
  ASSUME IInv, [Next]_vars, pc = "finish", status' # status
  PROVE  status' = FinalState
<1> USE DEF vars, table, database, pool, memory, drive, history
<1>1. ~PoolStep
  BY DEF PoolStep, SubmitListing, AwaitWorkers, LaunchCLI, ListDirectory, ListFails, WaitReturns, TakeListing,
         InsertMismatch, RecordListing, RecordFailure, EndBatch
<1>. QED
  BY <1>1 DEF Next, RunStep, OpenDatabase, Initialize, RecoverInterrupted, RequeueFailed, ClearMismatches,
     ReopenMismatched, GiveUpMismatched, FailExhaustedPending, BeginVerifying, CloseMismatched, MarkCompleted,
     FinishRun, StartVerify, Crash, DriveChanges, ConditionArises, OperatorCorrects

\* The status a run ends with tells the truth about its rows, after any history.
THEOREM VerifyFinishTellsTruth == Spec => FinishTellsTruth
<1>1. IInv /\ [Next]_vars
        => [(pc = "finish" /\ pc' = "idle" /\ status' # status) => Verdict]_vars
  BY FinishWritesFinalState, FinalStateIsTrue
<1>. QED
  BY <1>1, VerifyInvariant, PTL DEF Spec, FinishTellsTruth

-----------------------------------------------------------------------------
(* Verification implements its contract *)

Matched == {d \in Dirs : dirStatus[d] = "complete"}

\* The contract's variables, as the verification worker represents them.
ContractUnchanged == listings' = listings /\ seen' = seen /\ Matched' = Matched /\ completed' = completed

\* Starting, recovering, requeuing and ending reopen no directory that matched.
LEMMA QuietSteps ==
  ASSUME IInv,
         \/ StartVerify \/ OpenDatabase \/ Initialize \/ RecoverInterrupted \/ RequeueFailed
         \/ ClearMismatches \/ ReopenMismatched \/ GiveUpMismatched \/ FailExhaustedPending
         \/ BeginVerifying \/ CloseMismatched \/ FinishRun \/ Crash
         \/ \E d \in Dirs : DriveChanges(d)
         \/ \E c \in Standing : ConditionArises(c) \/ OperatorCorrects(c)
  PROVE  ContractUnchanged
<1> USE DEF ContractUnchanged, Matched, table, database, pool, memory, drive, history
<1>1. CASE StartVerify \/ OpenDatabase \/ Initialize \/ ClearMismatches \/ BeginVerifying \/ FinishRun \/ Crash
  BY <1>1 DEF StartVerify, OpenDatabase, Initialize, ClearMismatches, BeginVerifying, FinishRun, Crash
<1>2. CASE RecoverInterrupted
  BY <1>2 DEF RecoverInterrupted, IInv, TypeOK
<1>3. CASE RequeueFailed \/ ReopenMismatched
  BY <1>3 DEF RequeueFailed, ReopenMismatched, Reopened, IInv, TypeOK
<1>4. CASE GiveUpMismatched \/ FailExhaustedPending \/ CloseMismatched
  BY <1>4 DEF GiveUpMismatched, FailExhaustedPending, CloseMismatched, FailExhausted, IInv, TypeOK
<1>5. CASE \/ \E d \in Dirs : DriveChanges(d)
           \/ \E c \in Standing : ConditionArises(c) \/ OperatorCorrects(c)
  BY <1>5 DEF DriveChanges, ConditionArises, OperatorCorrects
<1>. QED
  BY <1>1, <1>2, <1>3, <1>4, <1>5

\* A step of the worker pool is a try, a delivery, a confirmation or nothing.
LEMMA PoolStepsRefine ==
  ASSUME IInv, PoolStep
  PROVE  \/ ContractUnchanged
         \/ \E d \in Dirs : Contract!Try(d) \/ Contract!Deliver(d) \/ Contract!Confirm(d)
<1> USE DEF ContractUnchanged, Matched, table, database, pool, memory, drive, history
<1>1. CASE AwaitWorkers \/ WaitReturns \/ EndBatch
  BY <1>1 DEF AwaitWorkers, WaitReturns, EndBatch
<1>2. ASSUME NEW d \in Dirs, NEW s \in Slots, SubmitListing(d, s)
      PROVE  ContractUnchanged
  BY <1>2 DEF SubmitListing, IInv, TypeOK, PoolInv
<1>3. ASSUME NEW d \in Dirs, LaunchCLI(d)
      PROVE  Contract!Try(d)
  <2>1. outcome[d].kind = "submitted"
    BY <1>3, OutcomeFacts DEF LaunchCLI
  <2>2. d \notin Matched
    BY <2>1 DEF IInv, PoolInv
  <2>3. listings[d] < MaxAttempts
    BY <2>1, AttemptsAssumption DEF IInv, TypeOK, CountInv
  <2>. QED
    BY <1>3, <2>2, <2>3 DEF LaunchCLI, Contract!Try
<1>4. ASSUME NEW d \in Dirs, ListDirectory(d)
      PROVE  ContractUnchanged \/ Contract!Deliver(d)
  <2>1. outcome[d].kind = "listing"
    BY <1>4, OutcomeFacts DEF ListDirectory
  <2>2. d \notin Matched
    BY <2>1 DEF IInv, PoolInv
  <2>3. listings[d] > 0
    BY <2>1 DEF IInv, CountInv
  <2>. QED
    BY <1>4, <2>2, <2>3 DEF ListDirectory, Contract!Deliver
<1>5. ASSUME NEW d \in Dirs,
             \/ \E c \in FailureClasses : ListFails(d, c)
             \/ TakeListing(d)
             \/ \E x \in Discrepancies : InsertMismatch(d, x)
      PROVE  ContractUnchanged
  BY <1>5 DEF ListFails, TakeListing, InsertMismatch
<1>6. ASSUME NEW d \in Dirs, RecordListing(d)
      PROVE  ContractUnchanged \/ Contract!Confirm(d)
  <2>1. dirStatus[d] = "running" /\ outcome[d].kind = "listed"
    BY <1>6 DEF RecordListing, IInv, PoolInv
  <2>2. CASE outcome[d].found = {}
    <3>1. Matched' = Matched \cup {d}
      BY <1>6, <2>2 DEF RecordListing, IInv, TypeOK
    <3>2. d \in seen
      BY <2>1, <2>2 DEF IInv, SeenInv
    <3>. QED
      BY <1>6, <3>1, <3>2 DEF RecordListing, Contract!Confirm
  <2>3. CASE outcome[d].found # {}
    BY <1>6, <2>1, <2>3 DEF RecordListing, IInv, TypeOK
  <2>. QED
    BY <2>2, <2>3
<1>7. ASSUME NEW d \in Dirs, RecordFailure(d)
      PROVE  ContractUnchanged
  BY <1>7 DEF RecordFailure, IInv, TypeOK, PoolInv
<1>. QED
  BY <1>1, <1>2, <1>3, <1>4, <1>5, <1>6, <1>7 DEF PoolStep

\* The verification worker implements BoundedTries: no directory is listed more often than
\* allowed or again after it matched, and completed_at stands for all of them.
THEOREM VerifyKeepsContract == Spec => KeepsContract
<1>1. Init => Contract!Init
  BY DEF Init, Contract!Init
<1>2. IInv /\ [Next]_vars => [Contract!Next]_(Contract!vars)
  <2> SUFFICES ASSUME IInv, [Next]_vars
               PROVE  [Contract!Next]_(Contract!vars)
    OBVIOUS
  <2>1. ContractUnchanged => UNCHANGED Contract!vars
    BY DEF ContractUnchanged, Matched, Contract!vars
  <2>2. CASE UNCHANGED vars
    BY <2>1, <2>2 DEF vars, table, database, history, ContractUnchanged, Matched
  <2>3. CASE PoolStep
    BY <2>1, <2>3, PoolStepsRefine DEF Contract!Next
  <2>4. CASE MarkCompleted
    <3>1. AllComplete
      BY <2>4 DEF MarkCompleted, FinalState
    <3>. QED
      BY <2>4, <3>1 DEF MarkCompleted, AllComplete, Contract!Next, Contract!Accept,
                        table, history
  <2>5. CASE \/ StartVerify \/ OpenDatabase \/ Initialize \/ RecoverInterrupted \/ RequeueFailed
             \/ ClearMismatches \/ ReopenMismatched \/ GiveUpMismatched \/ FailExhaustedPending
             \/ BeginVerifying \/ CloseMismatched \/ FinishRun \/ Crash
             \/ \E d \in Dirs : DriveChanges(d)
             \/ \E c \in Standing : ConditionArises(c) \/ OperatorCorrects(c)
    BY <2>1, <2>5, QuietSteps
  <2>. QED
    BY <2>2, <2>3, <2>4, <2>5 DEF Next, RunStep
<1>. QED
  BY <1>1, <1>2, VerifyInvariant, PTL DEF Spec, KeepsContract, Contract!Spec

=============================================================================

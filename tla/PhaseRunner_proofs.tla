------------------------ MODULE PhaseRunner_proofs -------------------------
(***************************************************************************)
(* Machine-checked proofs about the phase runner, for any finite set of    *)
(* invocations, any bound on attempts, and each variant of the locks: what *)
(* holds here holds whether or not the source's descriptors are closed.    *)
(***************************************************************************)
EXTENDS PhaseRunner, FiniteSetTheorems, TLAPS

\* Steps of an invocation that has the launch lock, and those before it has a child.
Locked  == {"check", "announce", "log-start", "raise", "log-blocked"}
PreFork == Locked \cup {"ensure", "launch", "register", "fork"}

\* Steps of a runner that has the phase lock.
Inside == {"mark", "log-running", "spawn", "await", "log-complete", "archive", "log-cleared",
           "log-failed", "raise", "log-raised"}

InPhase(l) == {<<"runner", l>>, <<"command", l>>} \cap holders["phase"] # {}

\* The phase lock is held below one invocation at a time.
PhaseInv ==
  /\ \A l \in Launchers : <<"launcher", l>> \notin holders["phase"]
  /\ \A l, m \in Launchers : InPhase(l) /\ InPhase(m) => l = m
  /\ \A l \in Launchers : runner[l] \in Inside => <<"runner", l>> \in holders["phase"]
  /\ \A l \in Launchers : command[l] = "running" => <<"command", l>> \in holders["phase"]
  /\ \A l \in Launchers : command[l] \in {"ok", "failed"} => runner[l] = "await"

\* A runner on its way to its command has overwritten an earlier "complete".
QuietInv ==
  /\ CompleteIsQuiet
  /\ \A l \in Launchers : runner[l] \in {"log-running", "spawn"} => status # "complete"

\* One invocation at a time counts its attempt, and none is counted with a child below it.
LaunchInv ==
  /\ \A l \in Launchers : launcher[l] \in Locked <=> <<"launcher", l>> \in holders["launch"]
  /\ \A l, m \in Launchers : launcher[l] \in Locked /\ launcher[m] \in Locked => l = m
  /\ \A l \in Launchers : launcher[l] \in PreFork => runner[l] = "none"

\* Invocations whose attempt is counted and allowed, and whose command has not started.
Reserved ==
  {l \in Launchers :
     \/ launcher[l] \in {"log-start", "register", "fork"}
     \/ launcher[l] = "announce" /\ attempts <= MaxAttempts
     \/ runner[l] \in {"ensure", "lock", "mark", "log-running", "spawn"}}

Allowed == IF attempts > MaxAttempts THEN MaxAttempts ELSE attempts

\* Every start, past or still to come, was counted in the file first.
StartInv == started + Cardinality(Reserved) <= Allowed

IInv == TypeOK /\ PhaseInv /\ QuietInv /\ LaunchInv /\ StartInv

-----------------------------------------------------------------------------
(* Counting *)

LEMMA ReservedFinite ==
  IsFiniteSet(Reserved) /\ Cardinality(Reserved) \in Nat
<1>1. Reserved \subseteq Launchers
  BY DEF Reserved
<1>. QED
  BY <1>1, LaunchersAssumption, FS_Subset, FS_CardinalityType

\* Nothing starts, and nobody new is on the way to a start.
LEMMA NobodyJoins ==
  ASSUME TypeOK, StartInv, Reserved' \subseteq Reserved, started' = started,
         Allowed <= Allowed', attempts' \in Nat
  PROVE  StartInv'
<1>1. /\ Cardinality(Reserved') <= Cardinality(Reserved)
      /\ Cardinality(Reserved') \in Nat
  BY ReservedFinite, FS_Subset, FS_CardinalityType
<1>2. Allowed \in Nat /\ Allowed' \in Nat
  BY AttemptsAssumption DEF Allowed, TypeOK
<1>. QED
  BY <1>1, <1>2, ReservedFinite DEF StartInv, TypeOK

-----------------------------------------------------------------------------
(* Preservation *)

LEMMA LaunchKeeps ==
  ASSUME IInv, NEW l \in Launchers, Launch(l)
  PROVE  IInv'
<1> USE DEF IInv, Launch, files, GoesTo
<1>1. TypeOK'
  BY DEF TypeOK, Locks, Procs, LauncherSteps, RunnerSteps
<1>2. PhaseInv'
  BY DEF PhaseInv, InPhase, Inside, TypeOK, Locks, Procs
<1>3. QuietInv'
  BY DEF QuietInv, CompleteIsQuiet, PhaseInv, InPhase, Inside, TypeOK
<1>4. LaunchInv'
  BY DEF LaunchInv, Locked, PreFork, TypeOK, Locks
<1>5. StartInv'
  <2>1. Reserved' \subseteq Reserved
    BY DEF Reserved, TypeOK
  <2>2. Allowed' = Allowed /\ Allowed \in Nat /\ attempts' \in Nat /\ started' = started
    BY AttemptsAssumption DEF Allowed, TypeOK
  <2>. QED
    BY <2>1, <2>2, NobodyJoins
<1>. QED
  BY <1>1, <1>2, <1>3, <1>4, <1>5

LEMMA EnsureRunIdKeeps ==
  ASSUME IInv, NEW l \in Launchers, EnsureRunId(l)
  PROVE  IInv'
<1> USE DEF IInv, EnsureRunId, files, GoesTo, Acquires
<1>1. TypeOK'
  BY DEF TypeOK, Locks, Procs, LauncherSteps, RunnerSteps
<1>2. PhaseInv'
  BY DEF PhaseInv, InPhase, Inside, TypeOK, Locks, Procs
<1>3. QuietInv'
  BY DEF QuietInv, CompleteIsQuiet, PhaseInv, InPhase, Inside, TypeOK
<1>4. LaunchInv'
  BY DEF LaunchInv, Locked, PreFork, TypeOK, Locks
<1>5. StartInv'
  <2>1. Reserved' \subseteq Reserved
    BY DEF Reserved, TypeOK
  <2>2. Allowed' = Allowed /\ Allowed \in Nat /\ attempts' \in Nat /\ started' = started
    BY AttemptsAssumption DEF Allowed, TypeOK
  <2>. QED
    BY <2>1, <2>2, NobodyJoins
<1>. QED
  BY <1>1, <1>2, <1>3, <1>4, <1>5

LEMMA LockLaunchKeeps ==
  ASSUME IInv, NEW l \in Launchers, LockLaunch(l)
  PROVE  IInv'
<1> USE DEF IInv, LockLaunch, files, GoesTo, Acquires
<1>1. TypeOK'
  BY DEF TypeOK, Locks, Procs, LauncherSteps, RunnerSteps
<1>2. PhaseInv'
  BY DEF PhaseInv, InPhase, Inside, TypeOK, Locks, Procs
<1>3. QuietInv'
  BY DEF QuietInv, CompleteIsQuiet, PhaseInv, InPhase, Inside, TypeOK
<1>4. LaunchInv'
  BY DEF LaunchInv, Locked, PreFork, TypeOK, Locks
<1>5. StartInv'
  <2>1. Reserved' \subseteq Reserved
    BY DEF Reserved, TypeOK
  <2>2. Allowed' = Allowed /\ Allowed \in Nat /\ attempts' \in Nat /\ started' = started
    BY AttemptsAssumption DEF Allowed, TypeOK
  <2>. QED
    BY <2>1, <2>2, NobodyJoins
<1>. QED
  BY <1>1, <1>2, <1>3, <1>4, <1>5

LEMMA FindAliveKeeps ==
  ASSUME IInv, NEW l \in Launchers, FindAlive(l)
  PROVE  IInv'
<1> USE DEF IInv, FindAlive, LauncherEnds, LeavesAll, GoesTo
<1>1. TypeOK'
  BY DEF TypeOK, Locks, Procs, LauncherSteps, RunnerSteps
<1>2. PhaseInv'
  BY DEF PhaseInv, InPhase, Inside, TypeOK, Locks, Procs
<1>3. QuietInv'
  BY DEF QuietInv, CompleteIsQuiet, PhaseInv, InPhase, Inside, TypeOK
<1>4. LaunchInv'
  BY DEF LaunchInv, Locked, PreFork, TypeOK, Locks
<1>5. StartInv'
  <2>1. Reserved' \subseteq Reserved
    BY DEF Reserved, TypeOK
  <2>2. Allowed' = Allowed /\ Allowed \in Nat /\ attempts' \in Nat /\ started' = started
    BY AttemptsAssumption DEF Allowed, TypeOK
  <2>. QED
    BY <2>1, <2>2, NobodyJoins
<1>. QED
  BY <1>1, <1>2, <1>3, <1>4, <1>5

LEMMA CountAttemptKeeps ==
  ASSUME IInv, NEW l \in Launchers, CountAttempt(l)
  PROVE  IInv'
<1> USE DEF IInv, CountAttempt, GoesTo, NextAttempt
<1>1. TypeOK'
  BY AttemptsAssumption DEF TypeOK, Locks, Procs, LauncherSteps, RunnerSteps
<1>2. PhaseInv'
  BY DEF PhaseInv, InPhase, Inside, TypeOK, Locks, Procs
<1>3. QuietInv'
  BY DEF QuietInv, CompleteIsQuiet, PhaseInv, InPhase, Inside, TypeOK
<1>4. LaunchInv'
  BY DEF LaunchInv, Locked, PreFork, TypeOK, Locks
<1>5. StartInv'
  <2>1. CASE attempts < MaxAttempts
    <3>1. Reserved' = Reserved \cup {l} /\ l \notin Reserved
      BY <2>1, AttemptsAssumption DEF Reserved, LaunchInv, Locked, PreFork, TypeOK
    <3>2. Cardinality(Reserved') = Cardinality(Reserved) + 1
      BY <3>1, ReservedFinite, FS_AddElement
    <3>3. Allowed = attempts /\ Allowed' = attempts + 1 /\ started' = started
      BY <2>1, AttemptsAssumption DEF Allowed, TypeOK
    <3>. QED
      BY <3>2, <3>3, ReservedFinite DEF StartInv, TypeOK
  <2>2. CASE attempts >= MaxAttempts
    <3>1. Reserved' \subseteq Reserved
      BY <2>2, AttemptsAssumption DEF Reserved, LaunchInv, Locked, PreFork, TypeOK
    <3>2. Allowed <= Allowed' /\ attempts' \in Nat /\ started' = started
      BY <2>2, AttemptsAssumption DEF Allowed, TypeOK
    <3>. QED
      BY <3>1, <3>2, NobodyJoins
  <2>. QED
    BY <2>1, <2>2, AttemptsAssumption DEF TypeOK
<1>. QED
  BY <1>1, <1>2, <1>3, <1>4, <1>5

LEMMA AnnounceBlockedKeeps ==
  ASSUME IInv, NEW l \in Launchers, AnnounceBlocked(l)
  PROVE  IInv'
<1> USE DEF IInv, AnnounceBlocked, GoesTo
<1>1. TypeOK'
  BY DEF TypeOK, Locks, Procs, LauncherSteps, RunnerSteps
<1>2. PhaseInv'
  BY DEF PhaseInv, InPhase, Inside, TypeOK, Locks, Procs
<1>3. QuietInv'
  BY DEF QuietInv, CompleteIsQuiet, PhaseInv, InPhase, Inside, TypeOK
<1>4. LaunchInv'
  BY DEF LaunchInv, Locked, PreFork, TypeOK, Locks
<1>5. StartInv'
  <2>1. Reserved' \subseteq Reserved
    BY DEF Reserved, TypeOK
  <2>2. Allowed' = Allowed /\ Allowed \in Nat /\ attempts' \in Nat /\ started' = started
    BY AttemptsAssumption DEF Allowed, TypeOK
  <2>. QED
    BY <2>1, <2>2, NobodyJoins
<1>. QED
  BY <1>1, <1>2, <1>3, <1>4, <1>5

LEMMA RaiseBlockedKeeps ==
  ASSUME IInv, NEW l \in Launchers, RaiseBlocked(l)
  PROVE  IInv'
<1> USE DEF IInv, RaiseBlocked, GoesTo
<1>1. TypeOK'
  BY DEF TypeOK, Locks, Procs, LauncherSteps, RunnerSteps
<1>2. PhaseInv'
  BY DEF PhaseInv, InPhase, Inside, TypeOK, Locks, Procs
<1>3. QuietInv'
  BY DEF QuietInv, CompleteIsQuiet, PhaseInv, InPhase, Inside, TypeOK
<1>4. LaunchInv'
  BY DEF LaunchInv, Locked, PreFork, TypeOK, Locks
<1>5. StartInv'
  <2>1. Reserved' \subseteq Reserved
    BY DEF Reserved, TypeOK
  <2>2. Allowed' = Allowed /\ Allowed \in Nat /\ attempts' \in Nat /\ started' = started
    BY AttemptsAssumption DEF Allowed, TypeOK
  <2>. QED
    BY <2>1, <2>2, NobodyJoins
<1>. QED
  BY <1>1, <1>2, <1>3, <1>4, <1>5

LEMMA LogBlockedKeeps ==
  ASSUME IInv, NEW l \in Launchers, LogBlocked(l)
  PROVE  IInv'
<1> USE DEF IInv, LogBlocked, LauncherEnds, LeavesAll, GoesTo
<1>1. TypeOK'
  BY DEF TypeOK, Locks, Procs, LauncherSteps, RunnerSteps
<1>2. PhaseInv'
  BY DEF PhaseInv, InPhase, Inside, TypeOK, Locks, Procs
<1>3. QuietInv'
  BY DEF QuietInv, CompleteIsQuiet, PhaseInv, InPhase, Inside, TypeOK
<1>4. LaunchInv'
  BY DEF LaunchInv, Locked, PreFork, TypeOK, Locks
<1>5. StartInv'
  <2>1. Reserved' \subseteq Reserved
    BY DEF Reserved, TypeOK
  <2>2. Allowed' = Allowed /\ Allowed \in Nat /\ attempts' \in Nat /\ started' = started
    BY AttemptsAssumption DEF Allowed, TypeOK
  <2>. QED
    BY <2>1, <2>2, NobodyJoins
<1>. QED
  BY <1>1, <1>2, <1>3, <1>4, <1>5

LEMMA AnnounceStartKeeps ==
  ASSUME IInv, NEW l \in Launchers, AnnounceStart(l)
  PROVE  IInv'
<1> USE DEF IInv, AnnounceStart, GoesTo
<1>1. TypeOK'
  BY DEF TypeOK, Locks, Procs, LauncherSteps, RunnerSteps
<1>2. PhaseInv'
  BY DEF PhaseInv, InPhase, Inside, TypeOK, Locks, Procs
<1>3. QuietInv'
  BY DEF QuietInv, CompleteIsQuiet, PhaseInv, InPhase, Inside, TypeOK
<1>4. LaunchInv'
  BY DEF LaunchInv, Locked, PreFork, TypeOK, Locks
<1>5. StartInv'
  <2>1. Reserved' \subseteq Reserved
    BY DEF Reserved, TypeOK
  <2>2. Allowed' = Allowed /\ Allowed \in Nat /\ attempts' \in Nat /\ started' = started
    BY AttemptsAssumption DEF Allowed, TypeOK
  <2>. QED
    BY <2>1, <2>2, NobodyJoins
<1>. QED
  BY <1>1, <1>2, <1>3, <1>4, <1>5

LEMMA LogStartKeeps ==
  ASSUME IInv, NEW l \in Launchers, LogStart(l)
  PROVE  IInv'
<1> USE DEF IInv, LogStart, files, GoesTo
<1>1. TypeOK'
  BY DEF TypeOK, Locks, Procs, LauncherSteps, RunnerSteps
<1>2. PhaseInv'
  BY DEF PhaseInv, InPhase, Inside, TypeOK, Locks, Procs
<1>3. QuietInv'
  BY DEF QuietInv, CompleteIsQuiet, PhaseInv, InPhase, Inside, TypeOK
<1>4. LaunchInv'
  BY DEF LaunchInv, Locked, PreFork, TypeOK, Locks
<1>5. StartInv'
  <2>1. Reserved' \subseteq Reserved
    BY DEF Reserved, TypeOK
  <2>2. Allowed' = Allowed /\ Allowed \in Nat /\ attempts' \in Nat /\ started' = started
    BY AttemptsAssumption DEF Allowed, TypeOK
  <2>. QED
    BY <2>1, <2>2, NobodyJoins
<1>. QED
  BY <1>1, <1>2, <1>3, <1>4, <1>5

LEMMA RegisterKeeps ==
  ASSUME IInv, NEW l \in Launchers, Register(l)
  PROVE  IInv'
<1> USE DEF IInv, Register, GoesTo
<1>1. TypeOK'
  BY DEF TypeOK, Locks, Procs, LauncherSteps, RunnerSteps
<1>2. PhaseInv'
  BY DEF PhaseInv, InPhase, Inside, TypeOK, Locks, Procs
<1>3. QuietInv'
  BY DEF QuietInv, CompleteIsQuiet, PhaseInv, InPhase, Inside, TypeOK
<1>4. LaunchInv'
  BY DEF LaunchInv, Locked, PreFork, TypeOK, Locks
<1>5. StartInv'
  <2>1. Reserved' \subseteq Reserved
    BY DEF Reserved, TypeOK
  <2>2. Allowed' = Allowed /\ Allowed \in Nat /\ attempts' \in Nat /\ started' = started
    BY AttemptsAssumption DEF Allowed, TypeOK
  <2>. QED
    BY <2>1, <2>2, NobodyJoins
<1>. QED
  BY <1>1, <1>2, <1>3, <1>4, <1>5

LEMMA ForkRunnerKeeps ==
  ASSUME IInv, NEW l \in Launchers, ForkRunner(l)
  PROVE  IInv'
<1> USE DEF IInv, ForkRunner, files, GoesTo, RunnerGoesTo, Inherits
<1>1. TypeOK'
  BY DEF TypeOK, Locks, Procs, LauncherSteps, RunnerSteps
<1>2. PhaseInv'
  <2>1. holders'["phase"] = holders["phase"]
    BY DEF PhaseInv, TypeOK, Locks
  <2>. QED
    BY <2>1 DEF PhaseInv, InPhase, Inside, LaunchInv, PreFork, TypeOK
<1>3. QuietInv'
  BY DEF QuietInv, CompleteIsQuiet, PhaseInv, InPhase, Inside, TypeOK
<1>4. LaunchInv'
  BY DEF LaunchInv, Locked, PreFork, TypeOK, Locks
<1>5. StartInv'
  <2>1. Reserved' \subseteq Reserved
    BY DEF Reserved, TypeOK
  <2>2. Allowed' = Allowed /\ Allowed \in Nat /\ attempts' \in Nat /\ started' = started
    BY AttemptsAssumption DEF Allowed, TypeOK
  <2>. QED
    BY <2>1, <2>2, NobodyJoins
<1>. QED
  BY <1>1, <1>2, <1>3, <1>4, <1>5

LEMMA RunnerReturnsKeeps ==
  ASSUME IInv, NEW l \in Launchers, RunnerReturns(l)
  PROVE  IInv'
<1> USE DEF IInv, RunnerReturns, LauncherEnds, LeavesAll, GoesTo
<1>1. TypeOK'
  BY DEF TypeOK, Locks, Procs, LauncherSteps, RunnerSteps
<1>2. PhaseInv'
  BY DEF PhaseInv, InPhase, Inside, TypeOK, Locks, Procs
<1>3. QuietInv'
  BY DEF QuietInv, CompleteIsQuiet, PhaseInv, InPhase, Inside, TypeOK
<1>4. LaunchInv'
  BY DEF LaunchInv, Locked, PreFork, TypeOK, Locks
<1>5. StartInv'
  <2>1. Reserved' \subseteq Reserved
    BY DEF Reserved, TypeOK
  <2>2. Allowed' = Allowed /\ Allowed \in Nat /\ attempts' \in Nat /\ started' = started
    BY AttemptsAssumption DEF Allowed, TypeOK
  <2>. QED
    BY <2>1, <2>2, NobodyJoins
<1>. QED
  BY <1>1, <1>2, <1>3, <1>4, <1>5

LEMMA RunnerEnsuresRunIdKeeps ==
  ASSUME IInv, NEW l \in Launchers, RunnerEnsuresRunId(l)
  PROVE  IInv'
<1> USE DEF IInv, RunnerEnsuresRunId, files, RunnerGoesTo, Acquires
<1>1. TypeOK'
  BY DEF TypeOK, Locks, Procs, LauncherSteps, RunnerSteps
<1>2. PhaseInv'
  BY DEF PhaseInv, InPhase, Inside, TypeOK, Locks, Procs
<1>3. QuietInv'
  BY DEF QuietInv, CompleteIsQuiet, PhaseInv, InPhase, Inside, TypeOK
<1>4. LaunchInv'
  BY DEF LaunchInv, Locked, PreFork, TypeOK, Locks
<1>5. StartInv'
  <2>1. Reserved' \subseteq Reserved
    BY DEF Reserved, TypeOK
  <2>2. Allowed' = Allowed /\ Allowed \in Nat /\ attempts' \in Nat /\ started' = started
    BY AttemptsAssumption DEF Allowed, TypeOK
  <2>. QED
    BY <2>1, <2>2, NobodyJoins
<1>. QED
  BY <1>1, <1>2, <1>3, <1>4, <1>5

LEMMA LockPhaseKeeps ==
  ASSUME IInv, NEW l \in Launchers, LockPhase(l)
  PROVE  IInv'
<1> USE DEF IInv, LockPhase, files, RunnerGoesTo, Acquires
<1>1. TypeOK'
  BY DEF TypeOK, Locks, Procs, LauncherSteps, RunnerSteps
<1>2. PhaseInv'
  <2>1. holders' = [holders EXCEPT !["phase"] = {<<"runner", l>>}]
    BY DEF TypeOK
  <2>2. holders'["phase"] = {<<"runner", l>>}
    BY <2>1 DEF TypeOK, Locks
  <2>3. \A m \in Launchers : runner[m] \in Inside \/ command[m] = "running" => m = l
    BY DEF PhaseInv
  <2>. QED
    BY <2>2, <2>3 DEF PhaseInv, InPhase, Inside, TypeOK
<1>3. QuietInv'
  BY DEF QuietInv, CompleteIsQuiet, PhaseInv, InPhase, Inside, TypeOK
<1>4. LaunchInv'
  BY DEF LaunchInv, Locked, PreFork, TypeOK, Locks
<1>5. StartInv'
  <2>1. Reserved' \subseteq Reserved
    BY DEF Reserved, TypeOK
  <2>2. Allowed' = Allowed /\ Allowed \in Nat /\ attempts' \in Nat /\ started' = started
    BY AttemptsAssumption DEF Allowed, TypeOK
  <2>. QED
    BY <2>1, <2>2, NobodyJoins
<1>. QED
  BY <1>1, <1>2, <1>3, <1>4, <1>5

LEMMA PhaseContendedKeeps ==
  ASSUME IInv, NEW l \in Launchers, PhaseContended(l)
  PROVE  IInv'
<1> USE DEF IInv, PhaseContended, files, RunnerGoesTo, Drops
<1>1. TypeOK'
  BY DEF TypeOK, Locks, Procs, LauncherSteps, RunnerSteps
<1>2. PhaseInv'
  BY DEF PhaseInv, InPhase, Inside, TypeOK, Locks, Procs
<1>3. QuietInv'
  BY DEF QuietInv, CompleteIsQuiet, PhaseInv, InPhase, Inside, TypeOK
<1>4. LaunchInv'
  BY DEF LaunchInv, Locked, PreFork, TypeOK, Locks
<1>5. StartInv'
  <2>1. Reserved' \subseteq Reserved
    BY DEF Reserved, TypeOK
  <2>2. Allowed' = Allowed /\ Allowed \in Nat /\ attempts' \in Nat /\ started' = started
    BY AttemptsAssumption DEF Allowed, TypeOK
  <2>. QED
    BY <2>1, <2>2, NobodyJoins
<1>. QED
  BY <1>1, <1>2, <1>3, <1>4, <1>5

LEMMA LogContendedKeeps ==
  ASSUME IInv, NEW l \in Launchers, LogContended(l)
  PROVE  IInv'
<1> USE DEF IInv, LogContended, files, LeavesAll, RunnerGoesTo, RunnerEnds
<1>1. TypeOK'
  BY DEF TypeOK, Locks, Procs, LauncherSteps, RunnerSteps
<1>2. PhaseInv'
  BY DEF PhaseInv, InPhase, Inside, TypeOK, Locks, Procs
<1>3. QuietInv'
  BY DEF QuietInv, CompleteIsQuiet, PhaseInv, InPhase, Inside, TypeOK
<1>4. LaunchInv'
  BY DEF LaunchInv, Locked, PreFork, TypeOK, Locks
<1>5. StartInv'
  <2>1. Reserved' \subseteq Reserved
    BY DEF Reserved, TypeOK
  <2>2. Allowed' = Allowed /\ Allowed \in Nat /\ attempts' \in Nat /\ started' = started
    BY AttemptsAssumption DEF Allowed, TypeOK
  <2>. QED
    BY <2>1, <2>2, NobodyJoins
<1>. QED
  BY <1>1, <1>2, <1>3, <1>4, <1>5

LEMMA MarkRunningKeeps ==
  ASSUME IInv, NEW l \in Launchers, MarkRunning(l)
  PROVE  IInv'
<1> USE DEF IInv, MarkRunning, RunnerGoesTo, Drops, Reports
<1>1. TypeOK'
  BY DEF TypeOK, Locks, Procs, LauncherSteps, RunnerSteps
<1>2. PhaseInv'
  BY DEF PhaseInv, InPhase, Inside, TypeOK, Locks, Procs
<1>3. QuietInv'
  BY DEF QuietInv, CompleteIsQuiet, PhaseInv, InPhase, Inside, TypeOK
<1>4. LaunchInv'
  BY DEF LaunchInv, Locked, PreFork, TypeOK, Locks
<1>5. StartInv'
  <2>1. Reserved' \subseteq Reserved
    BY DEF Reserved, TypeOK
  <2>2. Allowed' = Allowed /\ Allowed \in Nat /\ attempts' \in Nat /\ started' = started
    BY AttemptsAssumption DEF Allowed, TypeOK
  <2>. QED
    BY <2>1, <2>2, NobodyJoins
<1>. QED
  BY <1>1, <1>2, <1>3, <1>4, <1>5

LEMMA LogRunningKeeps ==
  ASSUME IInv, NEW l \in Launchers, LogRunning(l)
  PROVE  IInv'
<1> USE DEF IInv, LogRunning, files, RunnerGoesTo, Acquires, LogsAndGoesTo
<1>1. TypeOK'
  BY DEF TypeOK, Locks, Procs, LauncherSteps, RunnerSteps
<1>2. PhaseInv'
  BY DEF PhaseInv, InPhase, Inside, TypeOK, Locks, Procs
<1>3. QuietInv'
  BY DEF QuietInv, CompleteIsQuiet, PhaseInv, InPhase, Inside, TypeOK
<1>4. LaunchInv'
  BY DEF LaunchInv, Locked, PreFork, TypeOK, Locks
<1>5. StartInv'
  <2>1. Reserved' \subseteq Reserved
    BY DEF Reserved, TypeOK
  <2>2. Allowed' = Allowed /\ Allowed \in Nat /\ attempts' \in Nat /\ started' = started
    BY AttemptsAssumption DEF Allowed, TypeOK
  <2>. QED
    BY <2>1, <2>2, NobodyJoins
<1>. QED
  BY <1>1, <1>2, <1>3, <1>4, <1>5

LEMMA SpawnCommandKeeps ==
  ASSUME IInv, NEW l \in Launchers, SpawnCommand(l)
  PROVE  IInv'
<1> USE DEF IInv, SpawnCommand, files, RunnerGoesTo, Inherits
<1>1. TypeOK'
  BY DEF TypeOK, Locks, Procs, LauncherSteps, RunnerSteps
<1>2. PhaseInv'
  BY DEF PhaseInv, InPhase, Inside, TypeOK, Locks, Procs
<1>3. QuietInv'
  BY DEF QuietInv, CompleteIsQuiet, PhaseInv, InPhase, Inside, TypeOK
<1>4. LaunchInv'
  BY DEF LaunchInv, Locked, PreFork, TypeOK, Locks
<1>5. StartInv'
  <2>1. Reserved' = Reserved \ {l} /\ l \in Reserved
    BY DEF Reserved, LaunchInv, PreFork, Locked, TypeOK
  <2>2. Cardinality(Reserved') = Cardinality(Reserved) - 1
    BY <2>1, ReservedFinite, FS_RemoveElement
  <2>3. Allowed' = Allowed /\ Allowed \in Nat /\ started' = started + 1
    BY AttemptsAssumption DEF Allowed, TypeOK
  <2>. QED
    BY <2>2, <2>3, ReservedFinite DEF StartInv, TypeOK
<1>. QED
  BY <1>1, <1>2, <1>3, <1>4, <1>5

LEMMA MarkCompleteKeeps ==
  ASSUME IInv, NEW l \in Launchers, MarkComplete(l)
  PROVE  IInv'
<1> USE DEF IInv, MarkComplete, RunnerGoesTo, Drops, Reports
<1>1. TypeOK'
  BY DEF TypeOK, Locks, Procs, LauncherSteps, RunnerSteps
<1>2. PhaseInv'
  BY DEF PhaseInv, InPhase, Inside, TypeOK, Locks, Procs
<1>3. QuietInv'
  <2>1. InPhase(l)
    BY DEF PhaseInv, InPhase, Inside
  <2>2. \A m \in Launchers : runner[m] \in Inside \/ command[m] = "running" => m = l
    BY <2>1 DEF PhaseInv, InPhase
  <2>. QED
    BY <2>2 DEF QuietInv, CompleteIsQuiet, Inside, TypeOK
<1>4. LaunchInv'
  BY DEF LaunchInv, Locked, PreFork, TypeOK, Locks
<1>5. StartInv'
  <2>1. Reserved' \subseteq Reserved
    BY DEF Reserved, TypeOK
  <2>2. Allowed' = Allowed /\ Allowed \in Nat /\ attempts' \in Nat /\ started' = started
    BY AttemptsAssumption DEF Allowed, TypeOK
  <2>. QED
    BY <2>1, <2>2, NobodyJoins
<1>. QED
  BY <1>1, <1>2, <1>3, <1>4, <1>5

LEMMA LogCompleteKeeps ==
  ASSUME IInv, NEW l \in Launchers, LogComplete(l)
  PROVE  IInv'
<1> USE DEF IInv, LogComplete, files, RunnerGoesTo, Acquires, LogsAndGoesTo
<1>1. TypeOK'
  BY DEF TypeOK, Locks, Procs, LauncherSteps, RunnerSteps
<1>2. PhaseInv'
  BY DEF PhaseInv, InPhase, Inside, TypeOK, Locks, Procs
<1>3. QuietInv'
  BY DEF QuietInv, CompleteIsQuiet, PhaseInv, InPhase, Inside, TypeOK
<1>4. LaunchInv'
  BY DEF LaunchInv, Locked, PreFork, TypeOK, Locks
<1>5. StartInv'
  <2>1. Reserved' \subseteq Reserved
    BY DEF Reserved, TypeOK
  <2>2. Allowed' = Allowed /\ Allowed \in Nat /\ attempts' \in Nat /\ started' = started
    BY AttemptsAssumption DEF Allowed, TypeOK
  <2>. QED
    BY <2>1, <2>2, NobodyJoins
<1>. QED
  BY <1>1, <1>2, <1>3, <1>4, <1>5

LEMMA ArchiveAttentionKeeps ==
  ASSUME IInv, NEW l \in Launchers, ArchiveAttention(l)
  PROVE  IInv'
<1> USE DEF IInv, ArchiveAttention, RunnerGoesTo, Drops
<1>1. TypeOK'
  BY DEF TypeOK, Locks, Procs, LauncherSteps, RunnerSteps
<1>2. PhaseInv'
  BY DEF PhaseInv, InPhase, Inside, TypeOK, Locks, Procs
<1>3. QuietInv'
  BY DEF QuietInv, CompleteIsQuiet, PhaseInv, InPhase, Inside, TypeOK
<1>4. LaunchInv'
  BY DEF LaunchInv, Locked, PreFork, TypeOK, Locks
<1>5. StartInv'
  <2>1. Reserved' \subseteq Reserved
    BY DEF Reserved, TypeOK
  <2>2. Allowed' = Allowed /\ Allowed \in Nat /\ attempts' \in Nat /\ started' = started
    BY AttemptsAssumption DEF Allowed, TypeOK
  <2>. QED
    BY <2>1, <2>2, NobodyJoins
<1>. QED
  BY <1>1, <1>2, <1>3, <1>4, <1>5

LEMMA MarkFailedKeeps ==
  ASSUME IInv, NEW l \in Launchers, MarkFailed(l)
  PROVE  IInv'
<1> USE DEF IInv, MarkFailed, RunnerGoesTo, Drops, Reports
<1>1. TypeOK'
  BY DEF TypeOK, Locks, Procs, LauncherSteps, RunnerSteps
<1>2. PhaseInv'
  BY DEF PhaseInv, InPhase, Inside, TypeOK, Locks, Procs
<1>3. QuietInv'
  BY DEF QuietInv, CompleteIsQuiet, PhaseInv, InPhase, Inside, TypeOK
<1>4. LaunchInv'
  BY DEF LaunchInv, Locked, PreFork, TypeOK, Locks
<1>5. StartInv'
  <2>1. Reserved' \subseteq Reserved
    BY DEF Reserved, TypeOK
  <2>2. Allowed' = Allowed /\ Allowed \in Nat /\ attempts' \in Nat /\ started' = started
    BY AttemptsAssumption DEF Allowed, TypeOK
  <2>. QED
    BY <2>1, <2>2, NobodyJoins
<1>. QED
  BY <1>1, <1>2, <1>3, <1>4, <1>5

LEMMA LogFailedKeeps ==
  ASSUME IInv, NEW l \in Launchers, LogFailed(l)
  PROVE  IInv'
<1> USE DEF IInv, LogFailed, files, RunnerGoesTo, Acquires, LogsAndGoesTo
<1>1. TypeOK'
  BY DEF TypeOK, Locks, Procs, LauncherSteps, RunnerSteps
<1>2. PhaseInv'
  BY DEF PhaseInv, InPhase, Inside, TypeOK, Locks, Procs
<1>3. QuietInv'
  BY DEF QuietInv, CompleteIsQuiet, PhaseInv, InPhase, Inside, TypeOK
<1>4. LaunchInv'
  BY DEF LaunchInv, Locked, PreFork, TypeOK, Locks
<1>5. StartInv'
  <2>1. Reserved' \subseteq Reserved
    BY DEF Reserved, TypeOK
  <2>2. Allowed' = Allowed /\ Allowed \in Nat /\ attempts' \in Nat /\ started' = started
    BY AttemptsAssumption DEF Allowed, TypeOK
  <2>. QED
    BY <2>1, <2>2, NobodyJoins
<1>. QED
  BY <1>1, <1>2, <1>3, <1>4, <1>5

LEMMA RaiseFailedKeeps ==
  ASSUME IInv, NEW l \in Launchers, RaiseFailed(l)
  PROVE  IInv'
<1> USE DEF IInv, RaiseFailed, RunnerGoesTo, Drops
<1>1. TypeOK'
  BY DEF TypeOK, Locks, Procs, LauncherSteps, RunnerSteps
<1>2. PhaseInv'
  BY DEF PhaseInv, InPhase, Inside, TypeOK, Locks, Procs
<1>3. QuietInv'
  BY DEF QuietInv, CompleteIsQuiet, PhaseInv, InPhase, Inside, TypeOK
<1>4. LaunchInv'
  BY DEF LaunchInv, Locked, PreFork, TypeOK, Locks
<1>5. StartInv'
  <2>1. Reserved' \subseteq Reserved
    BY DEF Reserved, TypeOK
  <2>2. Allowed' = Allowed /\ Allowed \in Nat /\ attempts' \in Nat /\ started' = started
    BY AttemptsAssumption DEF Allowed, TypeOK
  <2>. QED
    BY <2>1, <2>2, NobodyJoins
<1>. QED
  BY <1>1, <1>2, <1>3, <1>4, <1>5

LEMMA LogLastKeeps ==
  ASSUME IInv, NEW l \in Launchers, LogLast(l)
  PROVE  IInv'
<1> USE DEF IInv, LogLast, files, LeavesAll, RunnerGoesTo, RunnerEnds
<1>1. TypeOK'
  BY DEF TypeOK, Locks, Procs, LauncherSteps, RunnerSteps
<1>2. PhaseInv'
  BY DEF PhaseInv, InPhase, Inside, TypeOK, Locks, Procs
<1>3. QuietInv'
  BY DEF QuietInv, CompleteIsQuiet, PhaseInv, InPhase, Inside, TypeOK
<1>4. LaunchInv'
  BY DEF LaunchInv, Locked, PreFork, TypeOK, Locks
<1>5. StartInv'
  <2>1. Reserved' \subseteq Reserved
    BY DEF Reserved, TypeOK
  <2>2. Allowed' = Allowed /\ Allowed \in Nat /\ attempts' \in Nat /\ started' = started
    BY AttemptsAssumption DEF Allowed, TypeOK
  <2>. QED
    BY <2>1, <2>2, NobodyJoins
<1>. QED
  BY <1>1, <1>2, <1>3, <1>4, <1>5

LEMMA KillLauncherKeeps ==
  ASSUME IInv, NEW l \in Launchers, KillLauncher(l)
  PROVE  IInv'
<1> USE DEF IInv, KillLauncher, LauncherEnds, LeavesAll, GoesTo
<1>1. TypeOK'
  BY DEF TypeOK, Locks, Procs, LauncherSteps, RunnerSteps
<1>2. PhaseInv'
  BY DEF PhaseInv, InPhase, Inside, TypeOK, Locks, Procs
<1>3. QuietInv'
  BY DEF QuietInv, CompleteIsQuiet, PhaseInv, InPhase, Inside, TypeOK
<1>4. LaunchInv'
  BY DEF LaunchInv, Locked, PreFork, TypeOK, Locks
<1>5. StartInv'
  <2>1. Reserved' \subseteq Reserved
    BY DEF Reserved, TypeOK
  <2>2. Allowed' = Allowed /\ Allowed \in Nat /\ attempts' \in Nat /\ started' = started
    BY AttemptsAssumption DEF Allowed, TypeOK
  <2>. QED
    BY <2>1, <2>2, NobodyJoins
<1>. QED
  BY <1>1, <1>2, <1>3, <1>4, <1>5

LEMMA KillRunnerKeeps ==
  ASSUME IInv, NEW l \in Launchers, KillRunner(l)
  PROVE  IInv'
<1> USE DEF IInv, KillRunner, files, LeavesAll, RunnerGoesTo, RunnerEnds
<1>1. TypeOK'
  BY DEF TypeOK, Locks, Procs, LauncherSteps, RunnerSteps
<1>2. PhaseInv'
  BY DEF PhaseInv, InPhase, Inside, TypeOK, Locks, Procs
<1>3. QuietInv'
  BY DEF QuietInv, CompleteIsQuiet, PhaseInv, InPhase, Inside, TypeOK
<1>4. LaunchInv'
  BY DEF LaunchInv, Locked, PreFork, TypeOK, Locks
<1>5. StartInv'
  <2>1. Reserved' \subseteq Reserved
    BY DEF Reserved, TypeOK
  <2>2. Allowed' = Allowed /\ Allowed \in Nat /\ attempts' \in Nat /\ started' = started
    BY AttemptsAssumption DEF Allowed, TypeOK
  <2>. QED
    BY <2>1, <2>2, NobodyJoins
<1>. QED
  BY <1>1, <1>2, <1>3, <1>4, <1>5

LEMMA CommandEndsKeeps ==
  ASSUME IInv, NEW l \in Launchers, NEW result \in {"ok", "failed"}, CommandEnds(l, result)
  PROVE  IInv'
<1> USE DEF IInv, CommandEnds, files, LeavesAll
<1>1. TypeOK'
  BY DEF TypeOK, Locks, Procs, LauncherSteps, RunnerSteps
<1>2. PhaseInv'
  BY DEF PhaseInv, InPhase, Inside, TypeOK, Locks, Procs
<1>3. QuietInv'
  BY DEF QuietInv, CompleteIsQuiet, PhaseInv, InPhase, Inside, TypeOK
<1>4. LaunchInv'
  BY DEF LaunchInv, Locked, PreFork, TypeOK, Locks
<1>5. StartInv'
  <2>1. Reserved' \subseteq Reserved
    BY DEF Reserved, TypeOK
  <2>2. Allowed' = Allowed /\ Allowed \in Nat /\ attempts' \in Nat /\ started' = started
    BY AttemptsAssumption DEF Allowed, TypeOK
  <2>. QED
    BY <2>1, <2>2, NobodyJoins
<1>. QED
  BY <1>1, <1>2, <1>3, <1>4, <1>5

LEMMA RebootKeeps ==
  ASSUME IInv, Reboot
  PROVE  IInv'
<1> USE DEF IInv, Reboot
<1>1. TypeOK'
  BY DEF TypeOK, Locks, Procs, LauncherSteps, RunnerSteps
<1>2. PhaseInv'
  BY DEF PhaseInv, InPhase, Inside, TypeOK, Locks, Procs
<1>3. QuietInv'
  BY DEF QuietInv, CompleteIsQuiet, PhaseInv, InPhase, Inside, TypeOK
<1>4. LaunchInv'
  BY DEF LaunchInv, Locked, PreFork, TypeOK, Locks
<1>5. StartInv'
  <2>1. Reserved' \subseteq Reserved
    BY DEF Reserved, TypeOK
  <2>2. Allowed' = Allowed /\ Allowed \in Nat /\ attempts' \in Nat /\ started' = started
    BY AttemptsAssumption DEF Allowed, TypeOK
  <2>. QED
    BY <2>1, <2>2, NobodyJoins
<1>. QED
  BY <1>1, <1>2, <1>3, <1>4, <1>5

LEMMA NextKeeps ==
  IInv /\ [Next]_vars => IInv'
<1> SUFFICES ASSUME IInv, [Next]_vars
             PROVE  IInv'
  OBVIOUS
<1>1. CASE UNCHANGED vars
  <2>1. UNCHANGED <<kept, attempts, status, attention, identity, holders, launcher, runner,
       command, started>>
    BY <1>1 DEF vars, files, procs
  <2>2. TypeOK' /\ PhaseInv' /\ QuietInv' /\ LaunchInv'
    BY <2>1 DEF IInv, TypeOK, PhaseInv, InPhase, QuietInv, CompleteIsQuiet, LaunchInv
  <2>3. Reserved' = Reserved /\ Allowed' = Allowed
    BY <2>1 DEF Reserved, Allowed
  <2>. QED
    BY <2>1, <2>2, <2>3 DEF IInv, StartInv
<1>2. CASE \E l \in Launchers : Launch(l)
  BY <1>2, LaunchKeeps
<1>3. CASE \E l \in Launchers : LauncherStep(l)
  BY <1>3, EnsureRunIdKeeps, LockLaunchKeeps, FindAliveKeeps, CountAttemptKeeps,
       AnnounceBlockedKeeps, RaiseBlockedKeeps, LogBlockedKeeps, AnnounceStartKeeps,
       LogStartKeeps, RegisterKeeps, ForkRunnerKeeps, RunnerReturnsKeeps
  DEF LauncherStep
<1>4. CASE \E l \in Launchers : RunnerStep(l)
  BY <1>4, RunnerEnsuresRunIdKeeps, LockPhaseKeeps, PhaseContendedKeeps, LogContendedKeeps,
       MarkRunningKeeps, LogRunningKeeps, SpawnCommandKeeps, MarkCompleteKeeps, LogCompleteKeeps,
       ArchiveAttentionKeeps, MarkFailedKeeps, LogFailedKeeps, RaiseFailedKeeps, LogLastKeeps
  DEF RunnerStep
<1>5. CASE \E l \in Launchers : CommandStep(l)
  BY <1>5, CommandEndsKeeps DEF CommandStep
<1>6. CASE Kill
  BY <1>6, RebootKeeps, KillLauncherKeeps, KillRunnerKeeps DEF Kill
<1>. QED
  BY <1>1, <1>2, <1>3, <1>4, <1>5, <1>6 DEF Next

-----------------------------------------------------------------------------
(* Theorems *)

LEMMA InitHolds ==
  Init => IInv
<1> SUFFICES ASSUME Init
             PROVE  IInv
  OBVIOUS
<1> USE DEF Init
<1>1. TypeOK
  <2>1. holders \in [Locks -> SUBSET Procs]
    OBVIOUS
  <2>2. attempts \in 0..(MaxAttempts + 1) /\ started \in Nat
    BY AttemptsAssumption
  <2>. QED
    BY <2>1, <2>2 DEF TypeOK, LauncherSteps, RunnerSteps
<1>2. PhaseInv
  BY DEF PhaseInv, InPhase, Inside, Locks
<1>3. QuietInv
  BY DEF QuietInv, CompleteIsQuiet
<1>4. LaunchInv
  BY DEF LaunchInv, Locked, PreFork, Locks
<1>5. StartInv
  <2>1. Reserved = {}
    BY DEF Reserved
  <2>2. Cardinality(Reserved) = 0 /\ Allowed = 0
    BY <2>1, FS_EmptySet, AttemptsAssumption DEF Allowed
  <2>. QED
    BY <2>2 DEF StartInv
<1>. QED
  BY <1>1, <1>2, <1>3, <1>4, <1>5 DEF IInv

\* The inductive invariant: whatever is killed, and whenever.
THEOREM RunnerInvariant == Spec => []IInv
<1>. QED
  BY InitHolds, NextKeeps, PTL DEF Spec

\* Files, locks and processes keep their types.
THEOREM RunnerTypeOK == Spec => []TypeOK
<1>1. IInv => TypeOK
  BY DEF IInv
<1>. QED
  BY <1>1, RunnerInvariant, PTL

\* A running command has the phase lock, and the lock is below one invocation only.
THEOREM RunnerOneCommand == Spec => []OneCommand
<1>1. IInv => OneCommand
  <2> SUFFICES ASSUME IInv
               PROVE  OneCommand
    OBVIOUS
  <2> DEFINE R == {l \in Launchers : command[l] = "running"}
  <2>1. \A l, m \in R : l = m
    BY DEF IInv, PhaseInv, InPhase
  <2>2. CASE R = {}
    BY <2>2, FS_EmptySet DEF OneCommand
  <2>3. CASE R # {}
    <3>1. PICK l \in R : R = {l}
      BY <2>1, <2>3
    <3>2. Cardinality(R) = 1
      BY <3>1, FS_Singleton
    <3>. QED
      BY <3>2 DEF OneCommand
  <2>. QED
    BY <2>2, <2>3
<1>. QED
  BY <1>1, RunnerInvariant, PTL

\* While the status says complete, no command of the phase runs.
THEOREM RunnerCompleteIsQuiet == Spec => []CompleteIsQuiet
<1>1. IInv => CompleteIsQuiet
  BY DEF IInv, QuietInv
<1>. QED
  BY <1>1, RunnerInvariant, PTL

\* The bound on attempts bounds the starts of the command, over every kill and reboot.
THEOREM RunnerStartsBounded == Spec => []StartsBounded
<1>1. IInv => StartsBounded
  <2> SUFFICES ASSUME IInv
               PROVE  StartsBounded
    OBVIOUS
  <2>1. Allowed <= MaxAttempts /\ Allowed \in Nat
    BY AttemptsAssumption DEF IInv, TypeOK, Allowed
  <2>. QED
    BY <2>1, ReservedFinite, AttemptsAssumption DEF IInv, TypeOK, StartInv, StartsBounded
<1>. QED
  BY <1>1, RunnerInvariant, PTL
=============================================================================

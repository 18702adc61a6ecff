---------------------------- MODULE PhaseRunner ----------------------------
(***************************************************************************)
(* How scripts/lib/runtime.sh runs one phase: pcm_start_phase, the child   *)
(* "__run-phase" it waits for (pcm_run_phase), and the phase's own command *)
(* below that, each a process that may be killed while the others live.    *)
(*                                                                         *)
(* A flock lock belongs to an open file description.  A child inherits the *)
(* descriptions of its parent and keeps the lock taken as long as it has   *)
(* one open; "exec N>file" closes the old description and opens a new one. *)
(* So holders[lock] is the set of processes that keep the lock taken, and  *)
(* the lock can be had once that set is empty.                             *)
(***************************************************************************)
EXTENDS Naturals, FiniteSets

CONSTANTS
  Launchers,    \* invocations of the CLI or of the supervisor for this phase
  MaxAttempts,  \* PCM_MAX_PHASE_ATTEMPTS
  Variants,     \* sets of locks whose descriptors the functions leave open when they return.
                \* The source is {"run-id", "events"} (pcm_ensure_run_id, pcm_event); {} is
                \* the source with both descriptors closed
  None

ASSUME AttemptsAssumption == MaxAttempts \in Nat \ {0}
ASSUME VariantsAssumption == Variants \subseteq SUBSET {"run-id", "events"}
ASSUME LaunchersAssumption == IsFiniteSet(Launchers)
ASSUME NoneAssumption == None \notin Launchers

Locks == {"run-id", "launch", "events", "phase"}
Procs == {"launcher", "runner", "command"} \X Launchers

VARIABLES
  kept,      \* the variant in force; never changes
  attempts,  \* file "attempts"; one more than MaxAttempts stands for any larger number
  status,    \* file "status.json"
  attention, \* ATTENTION_REQUIRED.json exists for this phase
  identity,  \* the live launcher that process.json names, or None
  holders,   \* for each lock, the processes that keep it taken
  launcher,  \* step of each pcm_start_phase
  runner,    \* step of each pcm_run_phase
  command,   \* state of each command
  started    \* history: commands started

files == <<kept, attempts, status, attention, identity>>
procs == <<launcher, runner, command>>
vars  == <<files, holders, procs, started>>

LauncherSteps == {"idle", "ensure", "launch", "check", "announce", "log-start", "register",
                  "fork", "wait", "raise", "log-blocked"}
RunnerSteps == {"none", "ensure", "lock", "contended", "mark", "log-running", "spawn", "await",
                "log-complete", "archive", "log-cleared", "log-failed", "raise", "log-raised"}

\* Each variable holds a value the code can put there.
TypeOK ==
  /\ kept \in Variants
  /\ attempts \in 0..(MaxAttempts + 1)
  /\ status \in {"none", "starting", "running", "complete", "failed", "blocked"}
  /\ attention \in BOOLEAN
  /\ identity \in Launchers \cup {None}
  /\ holders \in [Locks -> SUBSET Procs]
  /\ launcher \in [Launchers -> LauncherSteps]
  /\ runner \in [Launchers -> RunnerSteps]
  /\ command \in [Launchers -> {"none", "running", "ok", "failed"}]
  /\ started \in Nat

Init ==
  /\ kept \in Variants
  /\ attempts = 0 /\ status = "none" /\ attention = FALSE /\ identity = None
  /\ holders = [k \in Locks |-> {}]
  /\ launcher = [l \in Launchers |-> "idle"]
  /\ runner = [l \in Launchers |-> "none"]
  /\ command = [l \in Launchers |-> "none"]
  /\ started = 0

-----------------------------------------------------------------------------
(* Locks *)

\* Mutant: no lock is ever let go before its process ends.
AcquiresForGood(lock, p) ==
  /\ holders[lock] \subseteq {p}
  /\ holders' = [holders EXCEPT ![lock] = {p}]

\* "exec N>lock; flock N" returns. Whether the descriptor outlives the function is the variant.
Acquires(lock, p) ==
  /\ holders[lock] \subseteq {p}
  /\ holders' = [holders EXCEPT ![lock] = IF lock \in kept \cup {"launch", "phase"} THEN {p} ELSE {}]

Drops(lock, p) == [holders EXCEPT ![lock] = @ \ {p}]

\* Mutant: lock descriptors are closed in children.
PassesNoLock(p, child) == holders

\* A child has every descriptor of its parent.
Inherits(p, child) ==
  [k \in Locks |-> IF p \in holders[k] THEN holders[k] \cup {child} ELSE holders[k]]

LeavesAll(ps) == holders' = [k \in Locks |-> holders[k] \ ps]

GoesTo(l, step) == launcher' = [launcher EXCEPT ![l] = step]
RunnerGoesTo(l, step) == runner' = [runner EXCEPT ![l] = step]

-----------------------------------------------------------------------------
(* pcm_start_phase *)

\* A launcher is a name for one invocation at a time, what it left running included.
Launch(l) ==
  /\ launcher[l] = "idle" /\ runner[l] = "none" /\ command[l] = "none"
  /\ GoesTo(l, "ensure")
  /\ UNCHANGED <<files, holders, runner, command, started>>

EnsureRunId(l) ==
  /\ launcher[l] = "ensure"
  /\ Acquires("run-id", <<"launcher", l>>)
  /\ GoesTo(l, "launch")
  /\ UNCHANGED <<files, runner, command, started>>

LockLaunch(l) ==
  /\ launcher[l] = "launch"
  /\ Acquires("launch", <<"launcher", l>>)
  /\ GoesTo(l, "check")
  /\ UNCHANGED <<files, runner, command, started>>

\* The shell exits: its descriptors close, and process.json names a dead process.
LauncherEnds(l) ==
  /\ GoesTo(l, "idle")
  /\ LeavesAll({<<"launcher", l>>})
  /\ identity' = IF identity = l THEN None ELSE identity

\* The process of process.json is alive: show the status and return 0.
FindAlive(l) ==
  /\ launcher[l] = "check" /\ identity # None
  /\ LauncherEnds(l)
  /\ UNCHANGED <<kept, attempts, status, attention, runner, command, started>>

\* Mutant: a new launcher starts counting again.
CountFromZero == 1

NextAttempt == IF attempts > MaxAttempts THEN attempts ELSE attempts + 1

CountAttempt(l) ==
  /\ launcher[l] = "check" /\ identity = None
  /\ attempts' = NextAttempt
  /\ GoesTo(l, "announce")
  /\ UNCHANGED <<kept, status, attention, identity, holders, runner, command, started>>

\* Mutant: writes the error class where the state belongs.
AnnounceExhaustion(l) ==
  /\ launcher[l] = "announce" /\ attempts > MaxAttempts
  /\ status' = "exhaustion"
  /\ GoesTo(l, "raise")
  /\ UNCHANGED <<kept, attempts, attention, identity, holders, runner, command, started>>

AnnounceBlocked(l) ==
  /\ launcher[l] = "announce" /\ attempts > MaxAttempts
  /\ status' = "blocked"
  /\ GoesTo(l, "raise")
  /\ UNCHANGED <<kept, attempts, attention, identity, holders, runner, command, started>>

RaiseBlocked(l) ==
  /\ launcher[l] = "raise"
  /\ attention' = TRUE
  /\ GoesTo(l, "log-blocked")
  /\ UNCHANGED <<kept, attempts, status, identity, holders, runner, command, started>>

\* The event is written and the shell exits with 75, which frees the launch lock.
LogBlocked(l) ==
  /\ launcher[l] = "log-blocked"
  /\ holders["events"] = {}
  /\ LauncherEnds(l)
  /\ UNCHANGED <<kept, attempts, status, attention, runner, command, started>>

AnnounceStart(l) ==
  /\ launcher[l] = "announce" /\ attempts <= MaxAttempts
  /\ status' = "starting"
  /\ GoesTo(l, "log-start")
  /\ UNCHANGED <<kept, attempts, attention, identity, holders, runner, command, started>>

\* The event is written, then the launch lock is let go.
LogStart(l) ==
  /\ launcher[l] = "log-start"
  /\ holders["events"] \subseteq {<<"launcher", l>>}
  /\ holders' = [holders EXCEPT !["launch"] = @ \ {<<"launcher", l>>},
                   !["events"] = IF "events" \in kept THEN {<<"launcher", l>>} ELSE {}]
  /\ GoesTo(l, "register")
  /\ UNCHANGED <<files, runner, command, started>>

\* process.json names this process, after the launch lock is gone.
Register(l) ==
  /\ launcher[l] = "register"
  /\ identity' = l
  /\ GoesTo(l, "fork")
  /\ UNCHANGED <<kept, attempts, status, attention, holders, runner, command, started>>

\* "__run-phase" in the foreground. The first thing it does is reopen the run-id lock,
\* which closes the description it inherited.
ForkRunner(l) ==
  /\ launcher[l] = "fork"
  /\ holders' = [Inherits(<<"launcher", l>>, <<"runner", l>>) EXCEPT !["run-id"] = holders["run-id"]]
  /\ GoesTo(l, "wait")
  /\ RunnerGoesTo(l, "ensure")
  /\ UNCHANGED <<files, command, started>>

\* The child has ended, whatever its exit code: the shell ends too.
RunnerReturns(l) ==
  /\ launcher[l] = "wait" /\ runner[l] = "none"
  /\ LauncherEnds(l)
  /\ UNCHANGED <<kept, attempts, status, attention, runner, command, started>>

-----------------------------------------------------------------------------
(* pcm_run_phase *)

RunnerEnds(l) ==
  /\ RunnerGoesTo(l, "none")
  /\ LeavesAll({<<"runner", l>>})

RunnerEnsuresRunId(l) ==
  /\ runner[l] = "ensure"
  /\ Acquires("run-id", <<"runner", l>>)
  /\ RunnerGoesTo(l, "lock")
  /\ UNCHANGED <<files, launcher, command, started>>

\* Mutant: the lock is tested and not kept.
TestPhaseLock(l) ==
  /\ runner[l] = "lock" /\ holders["phase"] = {}
  /\ RunnerGoesTo(l, "mark")
  /\ UNCHANGED <<files, holders, launcher, command, started>>

LockPhase(l) ==
  /\ runner[l] = "lock"
  /\ Acquires("phase", <<"runner", l>>)
  /\ RunnerGoesTo(l, "mark")
  /\ UNCHANGED <<files, launcher, command, started>>

\* flock -n fails: the event is opened (closing the inherited description) and awaited.
PhaseContended(l) ==
  /\ runner[l] = "lock" /\ holders["phase"] # {}
  /\ holders' = Drops("events", <<"runner", l>>)
  /\ RunnerGoesTo(l, "contended")
  /\ UNCHANGED <<files, launcher, command, started>>

LogContended(l) ==
  /\ runner[l] = "contended" /\ holders["events"] = {}
  /\ RunnerEnds(l)
  /\ UNCHANGED <<files, launcher, command, started>>

\* A status is written, and the event file is reopened to report it.
Reports(l, newStatus, step) ==
  /\ status' = newStatus
  /\ holders' = Drops("events", <<"runner", l>>)
  /\ RunnerGoesTo(l, step)
  /\ UNCHANGED <<kept, attempts, attention, identity, launcher, started>>

\* The event is written; the runner goes on.
LogsAndGoesTo(l, from, to) ==
  /\ runner[l] = from
  /\ Acquires("events", <<"runner", l>>)
  /\ RunnerGoesTo(l, to)
  /\ UNCHANGED <<files, launcher, command, started>>

MarkRunning(l) ==
  /\ runner[l] = "mark"
  /\ Reports(l, "running", "log-running")
  /\ UNCHANGED command

LogRunning(l) == LogsAndGoesTo(l, "log-running", "spawn")

SpawnCommand(l) ==
  /\ runner[l] = "spawn"
  /\ holders' = Inherits(<<"runner", l>>, <<"command", l>>)
  /\ command' = [command EXCEPT ![l] = "running"]
  /\ RunnerGoesTo(l, "await")
  /\ started' = started + 1
  /\ UNCHANGED <<files, launcher>>

\* The command exits, and if its runner was killed before it nobody hears of that.
CommandEnds(l, result) ==
  /\ command[l] = "running"
  /\ command' = [command EXCEPT ![l] = IF runner[l] = "await" THEN result ELSE "none"]
  /\ LeavesAll({<<"command", l>>})
  /\ UNCHANGED <<files, launcher, runner, started>>

MarkComplete(l) ==
  /\ runner[l] = "await" /\ command[l] = "ok"
  /\ command' = [command EXCEPT ![l] = "none"]
  /\ Reports(l, "complete", "log-complete")

LogComplete(l) == LogsAndGoesTo(l, "log-complete", "archive")

\* archive_attention: only the attention of this phase, and then an event of its own.
ArchiveAttention(l) ==
  /\ runner[l] = "archive"
  /\ attention' = FALSE
  /\ holders' = Drops("events", <<"runner", l>>)
  /\ RunnerGoesTo(l, "log-cleared")
  /\ UNCHANGED <<kept, attempts, status, identity, launcher, command, started>>

MarkFailed(l) ==
  /\ runner[l] = "await" /\ command[l] = "failed"
  /\ command' = [command EXCEPT ![l] = "none"]
  /\ Reports(l, "failed", "log-failed")

LogFailed(l) == LogsAndGoesTo(l, "log-failed", "raise")

RaiseFailed(l) ==
  /\ runner[l] = "raise"
  /\ attention' = TRUE
  /\ holders' = Drops("events", <<"runner", l>>)
  /\ RunnerGoesTo(l, "log-raised")
  /\ UNCHANGED <<kept, attempts, status, identity, launcher, command, started>>

\* The last event of the runner, and its end.
LogLast(l) ==
  /\ runner[l] \in {"log-cleared", "log-raised"}
  /\ holders["events"] = {}
  /\ RunnerEnds(l)
  /\ UNCHANGED <<files, launcher, command, started>>

-----------------------------------------------------------------------------
(* What may be killed *)

KillLauncher(l) ==
  /\ launcher[l] # "idle"
  /\ LauncherEnds(l)
  /\ UNCHANGED <<kept, attempts, status, attention, runner, command, started>>

\* Its command lives on, with the descriptors it inherited.
KillRunner(l) ==
  /\ runner[l] # "none"
  /\ RunnerEnds(l)
  /\ command' = [command EXCEPT ![l] = IF @ = "running" THEN @ ELSE "none"]
  /\ UNCHANGED <<files, launcher, started>>

Reboot ==
  /\ holders' = [k \in Locks |-> {}]
  /\ launcher' = [l \in Launchers |-> "idle"]
  /\ runner' = [l \in Launchers |-> "none"]
  /\ command' = [l \in Launchers |-> "none"]
  /\ identity' = None
  /\ UNCHANGED <<kept, attempts, status, attention, started>>

Kill == Reboot \/ \E l \in Launchers : KillLauncher(l) \/ KillRunner(l)

LauncherStep(l) ==
  \/ EnsureRunId(l) \/ LockLaunch(l) \/ FindAlive(l) \/ CountAttempt(l)
  \/ AnnounceBlocked(l) \/ RaiseBlocked(l) \/ LogBlocked(l)
  \/ AnnounceStart(l) \/ LogStart(l) \/ Register(l) \/ ForkRunner(l) \/ RunnerReturns(l)

RunnerStep(l) ==
  \/ RunnerEnsuresRunId(l) \/ LockPhase(l) \/ PhaseContended(l) \/ LogContended(l)
  \/ MarkRunning(l) \/ LogRunning(l) \/ SpawnCommand(l)
  \/ MarkComplete(l) \/ LogComplete(l) \/ ArchiveAttention(l)
  \/ MarkFailed(l) \/ LogFailed(l) \/ RaiseFailed(l) \/ LogLast(l)

CommandStep(l) == \E result \in {"ok", "failed"} : CommandEnds(l, result)

Next ==
  \/ \E l \in Launchers : Launch(l) \/ LauncherStep(l) \/ RunnerStep(l) \/ CommandStep(l)
  \/ Kill

Spec == Init /\ [][Next]_vars

\* Shells and commands keep running; flock serves everyone that keeps waiting.
Fairness ==
  \A l \in Launchers : SF_vars(LauncherStep(l)) /\ SF_vars(RunnerStep(l)) /\ WF_vars(CommandStep(l))

FairSpec == Spec /\ Fairness

-----------------------------------------------------------------------------
(* Properties *)

\* Two commands of a phase never run at once, whichever of the shells above them were
\* killed: a command keeps the phase lock of its runner.
OneCommand == Cardinality({l \in Launchers : command[l] = "running"}) <= 1

\* No command of the phase is still running when its status says complete.
CompleteIsQuiet ==
  status = "complete" => \A l \in Launchers : command[l] # "running"

\* Kills and reboots included, the command is started at most PCM_MAX_PHASE_ATTEMPTS times.
StartsBounded == started <= MaxAttempts

\* docs/recovery.md: every phase is recovered by its public resume command, run in the
\* foreground. Expected of an invocation that nobody kills: it comes back.
LaunchReturns ==
  <>[][~Kill]_vars => \A l \in Launchers : launcher[l] # "idle" ~> launcher[l] = "idle"

\* With both descriptors closed when their functions return, every invocation comes back:
\* the kept locks are the only cause of the deadlock.
ClosedLaunchReturns == kept = {} => LaunchReturns
=============================================================================

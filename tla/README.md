# A verification of the pCloud to Proton Drive migrator

The repository migrates one frozen pCloud account to Proton Drive: Bash scripts
(`src/scripts/migration/full-sync.sh`, `src/scripts/lib/`) run Python workers
(`src/scripts/migration/*.py`) as *phases*, a systemd timer starts a supervisor
that decides which phase comes next, and everything worth keeping is in three
SQLite databases and a few JSON files. The hard part of such a program is not
any one function. It is what is true after a worker was killed between two SQL
statements, two shells ran the same command, the source changed during a scan,
or an operator typed a resume command while the timer fired. These TLA+ modules
state what must be true then, TLC checks it on small instances, and TLAPS proves
the most important parts for instances of every size.

Contents: [the system](#1-the-system), [the modules](#2-the-modules),
[the runs](#3-the-runs), [fairness](#4-fairness), [the proofs](#5-the-proofs),
[what the code does otherwise than its documents say](#6-disagreements),
[what is not modelled](#7-not-modelled), [the plan](#8-plan).

## 1. The system

| Component | State it keeps | Operations | Talks to |
|---|---|---|---|
| Source manifest (`pcloud-manifest.py`, `migration_common.py`) | `inventory.sqlite`: directories, entries, checksums, `status`, `frozen_at`, digest | inventory, checksums, freeze, verify-source, fetch, apply-metadata, verify-local, reconcile, remediate | pCloud (HTTP), staging tree |
| Local staging (`full-pcloud-download.sh`, `pcloud-manifest.py`) | the staging tree; verification rows and reports | download, metadata, verify-local, reconcile, remediate | rclone |
| Upload planning (`proton-upload.py plan`) | `upload.sqlite`: remote_dirs, units, binding | create_plan | the frozen manifest |
| Upload worker (`proton-upload.py run`, `proton-remediate.py`) | `upload.sqlite` row status, attempts, class; unit logs; cache slots | run, resume, remediate | Proton CLI, one process per worker slot |
| Destination verification (`proton-verify.py`) | `verify.sqlite`: directories, mismatches, `completed_at` | initialize, run, resume | Proton CLI listings |
| Phase runner (`lib/runtime.sh`) | per phase: `attempts`, `status.json`, `process.json`; four flock locks; the event log; `ATTENTION_REQUIRED.json` | pcm_start_phase, `__run-phase`, pcm_run_phase | every phase command |
| Supervisor and gates (`full-sync.sh`) | frozen, acceptance, completion, handoff files | supervise, every public command, gates, handoff | all of the above |
| Account identity, configuration and safety checks, installer, wrappers, reports | see [section 7](#7-not-modelled) | | |

Components interact through files only. The supervisor reads `status.json`, the
databases and the evidence files, starts one phase through the phase runner and
leaves; the phase runner runs the phase command in a child; the command works on
its database; the next tick reads what it left. An operator's public commands go
through the same functions at the same time, so whatever two processes may do at
once is decided by flock and by SQLite.

Which behaviour is hard, and what makes each component correct:

* **Upload worker.** `migration_common.connect` opens SQLite in autocommit mode, so
  each UPDATE is durable alone. A crash may fall after an attempt is counted and
  before the CLI starts, or after the CLI stored a unit and before `complete` is
  written. A batch of results is collected in any order. Correct: nothing is recorded
  complete that is not on Proton Drive, nothing complete is sent again, the CLI is
  started a bounded number of times, two workers of one run never share a cache, a failure
  that only a person can lift stops the scheduling, a run takes up all it may, the final
  status is true, and the acceptance stands for the whole plan. Between runs a cache may be
  shared: a CLI process that outlived its killed worker keeps the cache the next run lends
  again (`proton-upload.py:220`, `326`).
* **Destination verification.** The evidence of one listing is a DELETE, several
  INSERTs and an UPDATE; the requeue of mismatches is three statements. Correct: the
  evidence agrees with the table at every point a crash may leave, `verified` stands
  for a matching listing of every directory, and every run lists all it may.
* **Phase runner.** Locks belong to open file descriptions, children inherit them,
  and each of the three processes of a phase may be killed alone. Correct: never two
  commands of one phase, a bounded number of starts, no command running under the
  status `complete`, and every invocation comes back.
* **Upload planning.** A recursive partition with three limits, and two planners
  with nothing between them but the database. Correct: each entry is carried once,
  to its place, within the limits; the database has one whole plan or none.
* **Source manifest.** Rows are inserted one by one while the source changes; the
  digest is computed before the freezing transaction; a freeze has no lock. Correct:
  the frozen digest is that of the rows for good, the frozen manifest is whole, and
  `fresh` means that the source still is what was frozen.
* **Local staging.** A verification of terabytes is resumed from checkpoints; between
  its runs a command may have died, the tree or the source may have been changed by
  something else, and remediation works from a mismatch file that a crash may have cut
  short. Correct: what the audit accepts is the manifest's tree except for bytes altered
  under an unchanged size and time, a clean report and the table agree, and two rounds
  of remediation and verification repair all that remediation can.
* **Supervisor.** Each tick does at most one thing, from state it read a moment ago; the
  last gate copies some fifteen reports one after the other. Correct: a handoff stands for an
  accepted upload whose every folder was found on Proton Drive as it was frozen; a migration
  ends finished or with a question to the operator.

`PROJECT.json` lists the hazards one by one, at the line where each bites.

## 2. The modules

| Module | Models | Its state and actions |
|---|---|---|
| `BoundedTries` | abstract specification | What upload and verification both promise: a unit is tried a bounded number of times, confirmed only once a try achieved it, never tried after that, and the whole accepted only when every unit is confirmed. |
| `ProtonUpload` | `run_upload`, `ensure_remote_dir`, `upload_unit`, `classify_failure`, `proton-remediate.py`, `write_upload_acceptance` | `unitStatus`, `unitAttempts`, `unitClass`, `dir*`, `status` are the columns; `logged` the log file of each unit; `pc`, `queue`, `slot`, `available`, `outcome`, `done`, `stop` the memory of one process; `folders`, `stored` Proton Drive, `orphans` the CLI commands that outlived their worker, `due` the rows a run has still to take up. One action per SQL statement or external call, except that adjacent UPDATEs of one start are merged: `ClaimUnit`+`TakeSlot` is the UPDATE and submit of one unit, `LaunchCLI`/`DriveStoresUnit`/`CLIExits` the child process, `CollectResult` one future, `Crash` at any point; `Orphan*` is what a command without a worker still does to Proton Drive and to its log. |
| `ProtonVerify` | `proton-verify.py run` with its database set-up | The same shape, with the `mismatches` table (`rows`) written statement by statement (`TakeListing`, `InsertMismatch`, `RecordListing`) and the requeue in its own three steps (`ClearMismatches`, `ReopenMismatched`, `GiveUpMismatched`). `wrong` is what Proton Drive holds otherwise than the manifest, and may change. |
| `PhaseRunner` | `pcm_ensure_run_id`, `pcm_start_phase`, `pcm_run_phase`, `pcm_event`, `archive_attention`, `pcm_process_identity_alive` | `holders[lock]` is the set of processes with a descriptor of that lock open: `Acquires` closes and reopens, `Inherits` is a fork, `LeavesAll` a death. `launcher`, `runner`, `command` are the three processes of an invocation. |
| `UploadPlan` | `create_plan`, with its `add_file_batches` and `partition` | `entries` is a manifest, `totals` and `Partition` are the recursion over folders as recursive functions, the actions the steps of two planners from `connect` to COMMIT. |
| `RemoteListing` | `compare_listing`, `initialize`, over `UploadPlan` | No state of its own: the listings that a finished upload of the plan leaves on Proton Drive (`Uploaded`), every single change of one (`Changes`), and the classes of mismatch each is found in. `Timed` is the set of entries of which the manifest has a modification time. |
| `LocalStaging` | `full-pcloud-download.sh`, `apply_metadata`, `reconcile_summary`, `verify_local` with its checkpoints, `remediate` | `disk` is the staging tree, `row` the verification table, `listing`/`listed` the mismatch file and whether its report was written, `complete` the phase status files. One action per entry each command visits; `Crash`, `Drift`, `Alter`, `Swap` are what others do. |
| `SourceManifest` | `inventory_api`, `checksum_inventory`, `freeze_manifest`, `source_freeze`, `verify_source` | `entry`, `sha1`, `dirStatus` are the tables; a version number stands for size, time, hash and object id of a file. Four kinds of processes with their own memory; the freeze triggers are guards on every table write. |
| `Supervisor` | `supervise`, the gates of all `*_start` functions, `overall_json`, `completion_audit`, handoff | `state`, `attempts` per phase, the evidence files, and three pieces of data (live source, staging tree, each folder of Proton Drive), each compared with the snapshot. Verification judges folder by folder (`VerifyLists`, `listing`), and Proton Drive may change at any time (`DriveChanges`, `touched`). `tick` is the supervisor's step, `requested` what an operator's shell has been let through, `gate` the report that each shell's completion gate reads next (`ReadReport`). |
| `MC*` | instances for TLC | |
| `ProtonUpload_proofs`, `ProtonVerify_proofs`, `PhaseRunner_proofs`, `SourceManifest_proofs`, `UploadPlan_proofs`, `RemoteListing_proofs`, `LocalStaging_proofs`, `Supervisor_proofs` | theorems about the module named | [section 5](#5-the-proofs) |

`PROJECT.json` "map" gives the source lines of every definition.

How the modules fit together: `ProtonUpload` and `ProtonVerify` implement
`BoundedTries` (`Contract == INSTANCE BoundedTries WITH ...`). `Supervisor` composes
the phases at the level of their results; each result it allows is one that the
module of the phase can produce: `uploading`, `recoverable` and blocked states from
`ProtonUpload`, `empty`/`planned` from `UploadPlan`, `verifying`/`verified` from
`ProtonVerify`, attempts and attention from `PhaseRunner`, `source-freshness` from
`SourceManifest`, `checked` and a staging tree that is no longer exact from `LocalStaging`.
`RemoteListing` composes the two ends of the transfer: the destination it
judges is the one that the plan of `UploadPlan` leaves.

Some abstractions a reader should know:

* A failure class is what `classify_error` returns, chosen freely for each command,
  except that authentication and quota failures last until an operator corrects
  them. `ClassOfLog` keeps the order of its tests, because the log of a unit is
  read whole and that order decides.
* A Proton Drive object, once stored, stays during the upload. During verification
  it may change at any time, and so it may in `Supervisor` from the upload on.
* Exit code 0 of the CLI's upload is taken to mean that the whole unit is stored, also
  when a command without a worker sends the same unit at the same time. What two commands
  do to the cache they share is not modelled.
* The entries of a folder in `Supervisor` are one datum, `exact` or `drifted`; a folder
  removed after it was sent is `drifted`. The tick's own reads of the phase statuses
  (`supervise`'s two loops) are one step; the completion gate's are one step each.
* Statements inside BEGIN IMMEDIATE ... COMMIT are one action; everything else is
  one action per statement.
* `attempts` of `PhaseRunner` and `Supervisor` stops at `MaxAttempts + 1`, since the
  code compares it with `MaxAttempts` only. `dirAttempts` of `SourceManifest`
  likewise.
* In `LocalStaging` a content is the manifest's, another of the same size, or another
  size, and a time is the manifest's, a changed source file's, or any other;
  `--mtime-tolerance` disappears in that. What rclone does to one entry is external. An
  object of another type, or a symlink, is `other`. One command runs at a time. The code
  has a lock per phase and none across phases, so an operator may start a download
  while `verify-local` runs; the module has that second writer only as changes of the
  stage from outside (`Alter`, `Swap`).
* A name in `RemoteListing` is an entry of the manifest or one of two others, one of
  them unreadable; a claim (size, SHA1, modification time) is the frozen one, another, or none.
  The manifest has the size and SHA1 of every file, which the freeze requires, but need not
  have a time (`Timed`): then none is compared (`proton-verify.py:114`), and `ListingDecides`
  excepts exactly that.
* The lock variants of `PhaseRunner` (`Variants`) exist to separate a defect from its
  surroundings: `{"run-id", "events"}` is the source, `{}` the source with both lock
  descriptors closed after use. The safety properties hold for both.

## 3. The runs

Deadlock is checked in every run: no configuration switches it off.

| Run | Instance | Shows |
|---|---|---|
| `upload_safety` | 3 units, 2 folders (one in the other), 2 slots, 1 attempt, authentication and transport failures, crash at every step, up to 2 commands that outlive their workers, symmetry | `CompleteIsStored`, `AcceptedIsStored`, `FoldersFirst`, `SlotsExclusive`, `StopHolds`: a third unit is still queued while a batch of two is collected in either order |
| `upload_liveness` | 2 units, 1 folder, 1 slot, 2 attempts, transport failures, 1 command without a worker, no symmetry | `LaunchesBounded`, `RunTriesAll`, `FinishTellsTruth`, refinement of `BoundedTries`, `RunEnds` |
| `verify` | 2 directories, 2 slots, 2 attempts, one kind of discrepancy | `VerifiedWasSeen`, `EvidenceAgrees`, `FinishTellsTruth`, refinement of `BoundedTries`, `RunListsAll` |
| `runner` | 2 invocations, 2 attempts, both lock variants, every process killable | `OneCommand`, `CompleteIsQuiet`, `StartsBounded`; `ClosedLaunchReturns` |
| `plan` | every tree of up to 4 entries, file sizes 1 and 3, two of the four with a time, two settings of the limits, two planners | `EveryEntryOnce`, `LandsInPlace`, `UnitsFit`, `OnlyWholePlans`; `ListingDecides` over every listing of the uploaded tree and every single change of it |
| `staging` | a folder in a folder, 2 files and a stray path in the inner one, 2 crashes or outside changes, symmetry | `AcceptedIsExact`, `CleanIsCounted`, `TwoRoundsRepair` |
| `manifest` | 2 folders, 2 files, 2 inventory workers, 2 retries, 2 freezers, 1 source change | `DigestHolds`, `FrozenIsWhole`, `FreshMeansSame` |
| `supervisor` | all phases, 2 folders of Proton Drive, 2 attempts, 2 mishaps, 1 operator command of 6 kinds, every gate report by report | `HandoffIsTrue`, `QuietRunFinishes`, `EndsAsExpected` |
| `upload_login`, `upload_review`, `runner_foreground`, `supervisor_capacity` | as small as the disagreement allows | [section 6](#6-disagreements) |

Why the bounds are enough to be interesting. Two units on two slots run two CLI
processes at once and collect two results in one batch, and the third is what must not be
started after a stop; a child folder in a root folder orders the folder loop. One
attempt is enough there, since interruption, exhaustion and recovery all occur; the
second attempt, which gives a retry as well, is in `upload_liveness`, with one slot. What the
split leaves out, two slots with two attempts, is covered by the theorems, which
hold for all bounds. One standing and one passing failure class cover the two ways the code
treats failures, retried or not (`upload_review` adds one that needs a review). In
`verify`, one discrepancy is enough for a mismatch row to exist or not. In
`runner`, the second invocation is what races, and a killed and relaunched
invocation is the third process of interest. Four entries make a folder in a folder
beside two files, and the limits are chosen so that files fit alone, fit in
batches, exceed a unit, and fill it exactly. In `staging`, two faults combine a crash
with a change, or a change of a file with one of a folder above it; the nested
folders matter because repairing one changes the time of the one above it, and the
second file because two of them share a repaired folder. One source change falls at any of the
points that matter: before, during and after a listing, a checksum, a freeze or a
scan; two crashes and restarts need no bound. In `supervisor`, two mishaps combine,
for instance, damage in the staging tree with a reboot, a reboot with a failed
plan, or a folder changed on Proton Drive before it is listed and again after. Two folders
are what lets one be changed while the other is still to be listed.

Each property of a passing run has a mutant in `PROJECT.json`: a change of one
mapped definition such as a plausible slip in the code (attempts not counted, a stop
flag overwritten, a lock tested and not kept, rows completed before they are
written) that violates the property under the same configuration. The operators
marked "Mutant" in the modules serve that purpose only.

`EndsAsExpected` deserves a word: it says that a migration left alone ends with a
handoff, with an attention state, or in one of five *named* silent stops, where each
tick of the timer ends its shell and tells nobody (`StopsSilently`):

1. `upload.sqlite` exists without a plan in it (its planning was cut short): its
   status is an error at every tick (`full-sync.sh:742`).
2. The audit does not pass after `reconcile`: the report of deltas ends with exit code
   0, and the gate of the upload refuses without an attention state.
3. The destination capacity is not acknowledged (the run `supervisor_capacity`).
4. An early phase is interrupted after the freeze: it can never be started again, and
   the supervisor returns to it at every tick.
5. `verify.sqlite` was created (`proton-verify.py:257`) and the machine went down before
   it was initialised (`210`-`220`): its status command raises (`358`-`359`), and
   `full-sync.sh:766` ends the shell at every tick.

TLC finds a violation as soon as one of them is taken out of the list (the third in
`supervisor_capacity`), so each can happen; and within the bounds there is no sixth.

## 4. Fairness

* **Upload** (`upload_liveness`): weak fairness of the running process's own steps, the
  CLI's included (`RunStep`; the CLI is run with `timeout=args.timeout`,
  `proton-upload.py:220`). Nobody is obliged to resume a run: launches go through
  `pcm_start_phase`, which counts them against `PCM_MAX_PHASE_ATTEMPTS` and never resets the
  count. The module allows any number of launches, so what it shows holds for the few the
  phase may have; and since they are few, what matters is that none is wasted, which
  is `RunTriesAll`. Only `upload_login`, which shows that even an operator who always resumes
  and always corrects what stands in the way gets nowhere, assumes these two as well
  (`PatientSpec`): there, more fairness makes the refutation stronger.
* **Verification**: weak fairness of `RunStep`, for the same reason.
* **Phase runner**: strong fairness of the steps of each shell, because `flock`
  without a timeout queues and serves every waiter; weak fairness of a command's end.
  Nothing obliges anyone to kill or launch.
* **Supervisor**: weak fairness of the supervisor's steps (the timer unit starts the
  service again and again, `OnUnitActiveSec=5min`) and, phase by phase, of the command and of
  the end of the process it runs in. The shells of an operator may stop where they are:
  nothing obliges them to launch what they asked for or to end a gate they opened.

Crashes are never left out to make something live: a run that is killed has ended too
(`RunEnds`, `RunListsAll`), and `LoginRecovers` says "once crashes stop" in its own words.

## 5. The proofs

Everything below holds for every value of the constants that satisfies the ASSUMEs of
the module concerned; no bound is assumed but the ones the code has. Each proof has the same
plan: an inductive invariant `IInv` whose conjuncts are named for what they say, one lemma
`...Keeps` per action, a lemma that puts them together, and the theorems by propositional
temporal logic.

**`ProtonUpload_proofs`**, for any sets of units, folders, slots, any `MaxAttempts > 0`,
any parent function and any subset of the failure classes: `TypeOK`, `CompleteIsStored`,
`AcceptedIsStored`, `FoldersFirst`, `SlotsExclusive`, `LaunchesBounded`, `CompleteIsFinal`
(what is complete is never sent again), and `KeepsContract`, that is, the worker
implements `BoundedTries`.

None of these is inductive alone. `CompleteIsStored` needs to know that an outcome
`ok` still in memory belongs to a stored unit; `LaunchesBounded` that a launch was
counted in the database first (`launches <= unitAttempts`, strictly less while a unit
is submitted); `SlotsExclusive` that a lent slot is not in `available` and that slots
are lent to `running` rows only; `CompleteIsFinal` that the queue and the folder queue
hold pending rows only; `AcceptedIsStored` that acceptance, once given, keeps
`AllComplete`. The inductive invariant `IInv` is the conjunction of these
(`TypeOK`, `PoolInv`, `CountInv`, `DirInv`, `CompleteIsStored`, `AcceptedInv`). For the
refinement, `QuietRunSteps`, `QuietDirSteps` and `PoolStepsRefine` map each action to `Try`, `Deliver`, `Confirm`, `Accept` or
a stutter of `BoundedTries`.

None of this rests on the worker's children ending with it: `orphans` store, create and
print on beside the next run, in a cache lent again, and the invariant survives because only the
process writes the database, and what is stored is never taken back.

Its last part proves `StopHolds` (no further unit is submitted, no further folder begun),
`FinishTellsTruth` and `RunTriesAll`, which need to
know why a loop ended: `EndInv` says that a stop always has a recorded failure that
asks for it (`StopInv`), that a row is `running` only while the process works on it
(`RunningInv`), that a pending row is in a queue with an attempt left (`PendingInv`), that a row a run owes a try is
pending from the requeue on (`DueInv`), and that no slot is lost (`SlotInv`), so an idle pool with work left can only mean a stop. It needs at
least one slot; `ThreadPoolExecutor` refuses to be made with none.

**`ProtonVerify_proofs`**, for any directories, slots, attempts and finite set of
discrepancies: `TypeOK`, `VerifiedWasSeen`, `EvidenceAgrees`, `FinishTellsTruth`,
`KeepsContract`. The evidence of a directory is spread over a status, a count and a set of
rows, written by separate statements; `EvidenceInv` says which of the three may disagree
in which status. `SeenInv` carries "was seen to match" from a worker's memory to
`completed_at`; `EndInv` mirrors the upload's.

**`SourceManifest_proofs`**, for any tree, any number of workers, retries, freezers and
changes of the source: `TypeOK`, `DigestHolds`, `FrozenIsWhole`, `FreshMeansSame`. A freezer
checks directories, then checksums, then computes the digest, then takes the
transaction, with other processes at work between. `FreezeInv` says that what each of
these steps found can no longer change: with no folder left to list and no file left to hash
nothing writes any more (`Done`, `Summed`). That every folder was reached needs the tree to
hang together; `TreeAssumption` says so in a form that replaces the induction
over its depth: a set of folders that has the root and all children of its
members is the whole. `FreshMeansSame` rests on version numbers that never come back (`VersionInv`).

**`UploadPlan_proofs`**, for every source tree, any sizes and any settings of the limits:
`TypeOK`, `LandsInPlace`, `EveryEntryOnce`, `UnitsFit`, `OnlyWholePlans`, and
`PlanIsFinal` (what is committed stays). The partition is a function defined by
recursion over the tree, so that it is defined at all has to be shown first
(`PartitionsDefined`, and `BatchingDefined`, `FlattenDefined`, `TotalsDefined` and
`SumDefined` for those it uses): a
function that satisfies the equation on the deepest folders is extended one number
upward. The library's induction theorems take an operator and cannot be used, so
induction goes through sets (`SetInduction`, `TreeInduction`, `EntryInduction`,
`SubsetInduction`): a set of folders that has
every folder whose children it has is all of them. What is proved of the partition of
one folder from those of the folders in it comes in three layers, each resting on the
one before:

* *Where.* `Placed`: every unit goes to a folder that is made, and holds what is in it.
* *Once.* `Once(us, n)` says that exactly one place of a list of units brings entry `n` to Proton
  Drive, `Never(us, n)` that none does. The greedy pass keeps each file it has seen `Once` in the
  units made and the open batch (`PutOnce`); concatenation and flattening
  keep it as long as the parts share no entry (`OnceConcat`, `OnceFlatten`); and the parts share
  none because of the entries above one another at most one is in a given folder (`AboveFacts`).
  `EachOnce` puts this together for a folder, and `EveryEntryOnce` counts it.
* *How much.* Sums go through the fold of the library, which takes the elements of a set in an
  order nobody knows; `SumRemove` shows that the order does not matter, `SumOfSums` that sums
  over disjoint parts add up. `TotalsRight` follows: what the recursive `totals` accounts a folder for
  is the count and size of all files below it. `Keeps` is what a batch keeps to, and a unit
  made from it (`KeepingUnits`).

For the database, `PlanInv` says that a planner
past its checks holds the partition of the manifest, and `CollidesWhenBound` that the root's row of
`remote_dirs`, which every partition has, is in the way of any second plan.

**`RemoteListing_proofs`**, for every source tree, any limits and listings of any length:
`ListingDecides`. `EntryLands` takes from the layers *where* and *once* above that each
entry lands in the folder it was in, so that the listing of a folder is `Complete`: one item
for each entry in it, as the manifest says it is. `KindsOf` says of any listing in which items of one
expected name agree which classes `compare_listing` reports, one by one; then each kind of change
of a complete listing is a case (`ForeignAdded`, `OneRemoved`, `OneRenamed`, `OneTurned`, ...),
and `EveryChange` says that there is no other. Where an expected name is there twice with
different items the code compares the last one; no single change leads there. The set
`Timed` is any set of entries: the time of an item is compared for these alone, and the
theorem says that a changed time of any other is the one change nothing is reported for.

**`LocalStaging_proofs`**, for any tree of files, folders and strays of any depth and any number of
faults: `TypeOK`, `AcceptedIsExact`, `CleanIsCounted`, `TwoRoundsRepair`. `RowInv` says that a
checkpoint of a file vouches for its content unless the file is `masked`; `PassInv` that each entry
a pass is done with is either listed or has a row of this run's algorithm; `CalmInv` that it also has
the right stat, as long as nothing has disturbed the stage. These three (`StInv`) are enough for the audit.
Repairing needs more: nothing is staged below what is not a folder (`Nested`, which a download
keeps because it makes the folders above a file first), the list has nothing that is not wrong
(`FoundInv`), and what a round has left right stays right, files and folders after the first, folder times
after the second (`RoundInv`): the second round finds no file to write, so it changes no
folder's time again. `above` is a recursion up the tree, shown to exist from its closed form, the
intersection of all sets that have a path's parent and the parent of each folder in them.
`TreeAssumption` says that going up ends at the root, in the form the induction
needs; the paths of a manifest are finite strings, so they satisfy it.

**`Supervisor_proofs`**, for any folders, any number of attempts, mishaps and operator
commands, and any set of commands the operator may run: `TypeOK`, `HandoffIsTrue`. Proton Drive
may change at every moment, and between any two reports that a gate reads anything else may run, the other
shell's gate included. So what a gate read need not be true when it acts: the audit, the
attention state, a phase status and freshness may all be out of date in a handoff, and TLC finds
such handoffs. What the handoff stands for is therefore what nothing takes back: a folder
recorded `complete` is never listed again, and matched when it was listed (`CompleteIsTrue`:
it still does unless it is `touched`), and an acceptance is never removed. `HandoffInv` says that a
gate past the verification has seen every folder complete, and one past the acceptance has
seen it.

**`PhaseRunner_proofs`**, for any finite set of invocations, any bound on attempts and
any subset of the lock variants: `TypeOK`, `OneCommand`, `CompleteIsQuiet`,
`StartsBounded`. The invariant says who holds which lock: a runner past `LockPhase` and
a running command hold the phase lock, and that lock is held below one invocation only
(`PhaseInv`); a runner between `MarkRunning` and `SpawnCommand` has overwritten
`complete` (`QuietInv`); the launch lock is held exactly between `LockLaunch` and
`LogStart` (`LaunchInv`). `StartsBounded` is a counting argument: `Reserved` is the set of
invocations whose attempt was counted and whose command has not started, and
`started + Cardinality(Reserved)` never exceeds the counted attempts (`StartInv`).
The launch lock is what makes the count exact: with two launchers between the
increment and its test, one attempt could be granted twice.

Model-checked only: liveness (`RunEnds`, `RunListsAll`, `ClosedLaunchReturns`,
 `QuietRunFinishes`, `EndsAsExpected`), since fairness involves
ENABLED, which the prover does not support. Every other property of a passing run, the
refinements included, is stated by a theorem.

## 6. Disagreements

Four places where the code does something else than its documents say. Each is a run
with the one property that TLC refutes.

* **`runner_foreground`, `LaunchReturns`.** `pcm_ensure_run_id` (`lib/runtime.sh:18`) and
  `pcm_event` (`lib/runtime.sh:53`) leave their descriptors open, with the lock taken.
  `pcm_start_phase` then waits in the foreground for `__run-phase`, whose own
  `pcm_ensure_run_id` opens the file anew and waits in `flock 8` for the lock its parent
  holds until it exits. No phase that is run through `pcm_start_phase` reaches its
  command. `runner` shows that the two kept locks are the whole cause
  (`ClosedLaunchReturns`), and that mutual exclusion does not depend on them.
  `Supervisor` assumes them closed.
* **`upload_login`, `LoginRecovers`.** `docs/recovery.md` sends the operator of a
  `blocked-authentication` upload to `auth login` and resume; rows of that class are
  never requeued (`proton-upload.py:272`). Verification has the same exclusion
  (`proton-verify.py:263`).
* **`upload_review`, `ReviewIsRecorded`.** The log of a unit is appended to and
  classified whole, so a permission or ambiguity failure after a transport failure is
  recorded as transient and retried without review.
* **`supervisor_capacity`, `FinishesOrAsks`.** `supervise` calls `upload_plan` as a
  condition, where `set -e` is off: its capacity gate stops nothing, and the upload's own
  gate ends the shell at every tick without an attention state.

Three observations about the composition, none of which contradicts a document:

* `PCM_MAX_PHASE_ATTEMPTS` bounds the launches of a phase and is also handed to the workers as
  `--max-attempts`; the count of launches is never reset. An upload whose folder failed at the
  first launch may be left `recoverable`, with attempts on every unit, when no launch is left to
  resume it: the phase is then blocked with an attention state.
* Past the verification nothing looks at Proton Drive again, and a directory verified complete is not
  listed again by a resumed verification (`proton-verify.py:287`). A final handoff stands for what
  was found folder by folder, each at its time.
* The completion gate copies its reports one by one (`full-sync.sh:548`-`572`). An operator's
  `upload start` may rewrite the audit, or a phase fail, between the copy and the handoff.

Four more observations about local staging, none of them a contradiction of a document:

* A path that is absent is recorded among the `errors`, not as missing: `safe_stage_path`
  raises its own error (`migration_common.py:534`) before the code that would
  classify it (`pcloud-manifest.py:567`).
* `rclone copyto` leaves a file alone whose size and time are the source's. A file with a
  wrong SHA1 under the right size and time is reported at every round and never repaired,
  which is why `TwoRoundsRepair` excepts it.
* Neither `download` nor remediation looks at the manifest: after the source changed they
  bring the live content, which `verify-local` then reports.
* The audit reads the status of the last `verify-local` and its report. A download run
  again after it does not take that back; `AcceptedIsExact` is about a stage that has
  stayed as it was.

## 7. Not modelled

* Account identity, configuration, safety checks, preflight: stateless checks that can
  only end a command before it changes anything. Preflight failures are a mishap of
  `Supervisor`.
* Version and account bindings of the databases: they refuse, and change nothing.
* Schema migration: `migrate_database` takes a database through all versions in one
  BEGIN IMMEDIATE transaction, so a crash leaves the old version or the new, and what is left
  is the SQL of each version.
* The rclone transport of the inventory and the inventory's own `--refresh`: no public
  command reaches them (`full-sync.sh:221` always passes `--transport api` and never
  `--refresh`). The refresh of the live database in the freshness check is modelled.
* The installer's rollback: see the plan.
* Public command dispatch and compatibility wrappers (`autonomous-source-pipeline.sh`,
  `supervise-proton-upload.sh` and others), the progress snapshot and the status
  reports: they call what is modelled or print what nothing reads.
* The Proton CLI, rclone, pCloud and Proton Drive beyond what the code relies on.
* The spelling of remote paths and the decoding of the CLI's listings: formats, not
  processes.

## 8. Plan

In the order of importance; the first eight are done.

1. `BoundedTries`, `ProtonUpload`: the irreversible part, and the one with the most
   interleavings. Proofs of its safety and of the refinement.
2. `ProtonVerify`: the evidence the handoff rests on.
3. `PhaseRunner`: what every phase runs in. Proofs of its safety.
4. `UploadPlan`: nothing left out, nothing twice.
5. `SourceManifest`: what everything else is compared with.
6. `Supervisor`: the composition, and the handoff.
7. `LocalStaging`: the tree that is uploaded, between the frozen manifest and the plan.
8. `RemoteListing`: whether the last comparison says what it should.
9. `Installer`: the transaction over files, links and units and its rollback on error.

Proved so far: every safety property a run checks, of all modules, and both refinements of
`BoundedTries`. Still worth proving: that `Supervisor`'s view of the phases is implied by their
own modules, which needs an abstract specification of a phase between the two; that a directory
verified complete is never listed again and a manifest once frozen stays frozen, as action
properties; and for `RemoteListing` what is reported of a listing changed in several places, for
which `KindsOf` is the start.

## Running

    tlc -workers 2 -config upload_safety.cfg MCProtonUpload
    tlapm ProtonUpload_proofs.tla
    tlapm ProtonVerify_proofs.tla
    tlapm PhaseRunner_proofs.tla
    tlapm SourceManifest_proofs.tla
    tlapm UploadPlan_proofs.tla
    tlapm RemoteListing_proofs.tla
    tlapm LocalStaging_proofs.tla
    tlapm Supervisor_proofs.tla

Every run ends within three minutes on a laptop; `upload_safety`, `verify` and `supervisor` are the
longest. In the runs with "violation" TLC prints the behaviour that refutes the property.

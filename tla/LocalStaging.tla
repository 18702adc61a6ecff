--------------------------- MODULE LocalStaging ----------------------------
(***************************************************************************)
(* The staging tree between the frozen manifest and the upload: download,  *)
(* apply-metadata, reconcile-summary, verify-local with its checkpoints,   *)
(* and remediate, each run as a phase that may die at any step, over a     *)
(* tree and a source that something else may change. One command runs at a *)
(* time; how often each may be started is PhaseRunner's.                   *)
(*                                                                         *)
(* The content of a file is its frozen content, another of the same size,  *)
(* or another size; a source file may also be gone. A time is the          *)
(* manifest's (--mtime-tolerance included), that of a source file changed  *)
(* after the freeze, or any other. The manifest is frozen, complete, and   *)
(* has a time for every entry.                                             *)
(***************************************************************************)
EXTENDS Naturals

CONSTANTS Files, Dirs,   \* the entries of the manifest
          Strays,        \* paths it does not have
          Root,          \* the staging root
          Parent,        \* the folder of each path
          MaxFaults      \* bound on crashes and outside changes

Entries == Files \cup Dirs
Paths   == Entries \cup Strays

ASSUME PathsAssumption ==
  /\ Files \cap Dirs = {} /\ Entries \cap Strays = {} /\ Root \notin Paths
  /\ Parent \in [Paths -> Dirs \cup {Root}]
\* The folders above a path lead to the root: a set that has the paths in the root, and
\* with each folder what is in it, has them all.
ASSUME TreeAssumption ==
  \A S \in SUBSET Paths : (\A p \in Paths : Parent[p] \in S \cup {Root} => p \in S) => S = Paths
ASSUME FaultsAssumption == MaxFaults \in Nat

above[p \in Paths] == IF Parent[p] = Root THEN {} ELSE {Parent[p]} \cup above[Parent[p]]

VARIABLES
  disk,      \* what is staged at each path
  live,      \* the content of each source file now, or "gone"
  row,       \* the verification table: how a path last passed, or "bad"
  pc,        \* the step of the running command
  todo,      \* the paths it still has to visit
  jobs,      \* files verify-local queued for hashing
  failed,    \* the command will exit 1
  mode,      \* --hash of the latest verify-local
  listing,   \* its mismatch file: none, unfinished, whole (its report is written)
  listed,    \* the paths in that file
  complete,  \* phases whose status is complete
  balanced,  \* the reconcile report shows no difference
  faults,    \* crashes and outside changes so far
  calm,      \* the stage is as it was when verify-local last started
  masked,    \* files altered under an unchanged stat after they were hashed
  full,      \* remediate works on the whole list of the stage as it is
  rounds     \* rounds of verify-local and remediate in a row, 2 for more

command == <<pc, todo, jobs, failed>>
results == <<mode, listing, listed, complete, balanced>>
history == <<calm, masked, full, rounds>>
vars == <<disk, live, row, command, results, faults, history>>

Content == {"source", "altered", "resized"}
Objects == [kind : {"absent", "right", "other"}, data : Content, mtime : {"source", "drift", "off"}]

Absent       == [kind |-> "absent", data |-> "source", mtime |-> "off"]
Other        == [Absent EXCEPT !.kind = "other"]  \* another type, or a symlink
Made(m)      == [kind |-> "right", data |-> "source", mtime |-> m]
LiveFile(f)  == [Made(IF live[f] = "source" THEN "source" ELSE "drift") EXCEPT !.data = live[f]]

Right(p) == disk[p].kind = "right"

TypeOK ==
  /\ disk \in [Paths -> Objects]
  /\ live \in [Files -> Content \cup {"gone"}]
  /\ row \in [Paths -> {"none", "metadata", "sha1", "bad"}]
  /\ pc \in {"idle", "download", "metadata", "scan", "hash", "extras", "folders", "files"}
  /\ todo \subseteq Paths
  /\ jobs \subseteq Files
  /\ mode \in {"none", "sha1"}
  /\ listing \in {"none", "unfinished", "whole"}
  /\ listed \subseteq Paths
  /\ complete \subseteq {"download", "metadata-apply", "reconcile", "verify-local"}
  /\ {failed, balanced, calm, full} \subseteq BOOLEAN
  /\ faults \in 0..MaxFaults
  /\ masked \subseteq Files
  /\ rounds \in 0..2
  /\ \A p \in Paths, d \in Dirs : d \in above[p] /\ ~Right(d) => disk[p] = Absent

Init ==
  /\ disk = [p \in Paths |-> Absent]
  /\ live = [f \in Files |-> "source"]
  /\ row = [p \in Paths |-> "none"]
  /\ pc = "idle" /\ todo = {} /\ jobs = {} /\ failed = FALSE
  /\ mode = "sha1" /\ listing = "none" /\ listed = {}
  /\ complete = {} /\ balanced = FALSE
  /\ faults = 0
  /\ calm = TRUE /\ masked = {} /\ full = FALSE /\ rounds = 0

-----------------------------------------------------------------------------
(* The stage *)

\* Mutant: the folders above p are not made.
PlacedBare(p, v) ==
  [q \in Paths |-> IF q = p THEN v
                   ELSE IF q = Parent[p] THEN [disk[q] EXCEPT !.mtime = "off"]
                   ELSE disk[q]]

\* p becomes v; folders missing above it are made, and a folder that gains or swaps a
\* child gets a new time.
Placed(p, v) ==
  LET made    == {d \in Dirs : d \in above[p] /\ disk[d].kind = "absent"}
      touched == {Parent[q] : q \in made \cup {p}}
  IN  [q \in Paths |-> IF q = p THEN v
                       ELSE IF q \in made THEN Made("off")
                       ELSE IF q \in touched THEN [disk[q] EXCEPT !.mtime = "off"]
                       ELSE disk[q]]

\* p and what is below it goes; v takes its place.
Replaced(p, v) ==
  [q \in Paths |-> IF q = p THEN v
                   ELSE IF p \in above[q] THEN Absent
                   ELSE IF q = Parent[p] THEN [disk[q] EXCEPT !.mtime = "off"]
                   ELSE disk[q]]

\* An object of another type, or a symlink, on the way to p.
Blocked(p) == \E q \in above[p] \cup {p} : disk[q].kind = "other"

Folder(d) == IF Right(d) THEN disk ELSE Placed(d, Made("off"))

\* rclone does not see a file that is gone, leaves one whose size and time are the source's, sets the time of one with
\* the source's content, and otherwise transfers it beside the old one and renames.
SameStat(f) ==
  /\ disk[f].mtime = LiveFile(f).mtime
  /\ disk[f].data = "resized" <=> live[f] = "resized"
Fetched(f) ==
  IF live[f] = "gone" \/ (Right(f) /\ SameStat(f)) THEN disk
  ELSE IF Right(f) /\ disk[f].data = live[f] THEN [disk EXCEPT ![f] = LiveFile(f)]
  ELSE Placed(f, LiveFile(f))

\* What a change of the stage by anyone means for the history.
Disturb(stage) ==
  /\ disk' = stage
  /\ calm' = (calm /\ stage = disk)
  /\ masked' = {f \in masked : stage[f] = disk[f]}

Begin(step, work) ==
  /\ pc = "idle"
  /\ pc' = step /\ todo' = work /\ jobs' = {} /\ failed' = FALSE

\* The command ends; its phase is complete unless it failed.
End(phase, bad) ==
  /\ pc' = "idle" /\ todo' = {} /\ jobs' = {} /\ failed' = FALSE
  /\ complete' = IF bad THEN complete ELSE complete \cup {phase}

\* A folder before what is in it: ORDER BY path, os.walk and rclone's traversal.
TopDown(p) == p \in todo /\ above[p] \cap todo = {}

Visit(p, bad) ==
  /\ p \in todo
  /\ todo' = todo \ {p}
  /\ failed' = (failed \/ bad)
  /\ UNCHANGED <<pc, jobs>>

-----------------------------------------------------------------------------
(* download, apply-metadata, reconcile-summary *)

StartDownload ==
  /\ Begin("download", Entries)
  /\ complete' = complete \ {"download"}
  /\ UNCHANGED <<disk, live, row, mode, listing, listed, balanced, faults, history>>

\* rclone copy of one entry; a transfer may fail, and a path in the way makes it fail.
Download(p) ==
  /\ pc = "download"
  /\ TopDown(p)
  /\ \E bad \in {Blocked(p), TRUE} :
       /\ Visit(p, bad)
       /\ LET stage == IF bad THEN disk ELSE IF p \in Files THEN Fetched(p) ELSE Folder(p)
          IN  /\ Disturb(stage)
              /\ rounds' = IF stage = disk THEN rounds ELSE 0
  /\ UNCHANGED <<live, row, results, faults, full>>

EndDownload ==
  /\ pc = "download" /\ todo = {}
  /\ End("download", failed)
  /\ UNCHANGED <<disk, live, row, mode, listing, listed, balanced, faults, history>>

StartMetadata ==
  /\ "download" \in complete
  /\ Begin("metadata", Entries)
  /\ complete' = complete \ {"metadata-apply"}
  /\ UNCHANGED <<disk, live, row, mode, listing, listed, balanced, faults, history>>

\* Files first, then folders from the deepest up.
ApplyMetadata(p) ==
  /\ pc = "metadata"
  /\ p \in Files \/ (todo \cap Files = {} /\ \A d \in todo : p \notin above[d])
  /\ Visit(p, ~Right(p))
  /\ disk' = IF Right(p) THEN [disk EXCEPT ![p].mtime = "source"] ELSE disk
  /\ calm' = (calm /\ disk' = disk)
  /\ masked' = IF Right(p) /\ disk[p].data = "altered" /\ row[p] = "sha1"
               THEN masked \cup {p} ELSE masked
  /\ rounds' = IF disk' = disk THEN rounds ELSE 0
  /\ UNCHANGED <<live, row, results, faults, full>>

EndMetadata ==
  /\ pc = "metadata" /\ todo = {}
  /\ End("metadata-apply", failed)
  /\ UNCHANGED <<disk, live, row, mode, listing, listed, balanced, faults, history>>

\* Files and bytes by top level: an object that is not the manifest's may make up for a
\* file that is missing, and folders are not compared.
Counted ==
  IF \E p \in Paths : disk[p].kind = "other" THEN BOOLEAN
  ELSE {\A f \in Files : Right(f) /\ disk[f].data # "resized"}

\* The command succeeds whatever it finds.
Reconcile ==
  /\ pc = "idle"
  /\ "metadata-apply" \in complete
  /\ complete' = complete \cup {"reconcile"}
  /\ balanced' \in Counted
  /\ UNCHANGED <<disk, live, row, command, mode, listing, listed, faults, history>>

-----------------------------------------------------------------------------
(* verify-local --detect-extras --resume *)

StartVerify ==
  /\ "reconcile" \in complete
  /\ Begin("scan", Entries)
  /\ mode' \in {"none", "sha1"}
  /\ listing' = "unfinished" /\ listed' = {}
  /\ complete' = complete \ {"verify-local"}
  /\ calm' = TRUE
  /\ UNCHANGED <<disk, live, row, balanced, faults, masked, full, rounds>>

Hashed(p) == p \in Files /\ mode = "sha1"
StatIsRight(p) == Right(p) /\ disk[p].data # "resized" /\ disk[p].mtime = "source"

\* Mutant: does not look at the algorithm.
CheckpointedByStat(p) == StatIsRight(p) /\ row[p] \in {"sha1", "metadata"}

\* The row is of the algorithm asked for, and its recorded stat is the present one. Only
\* a stat that agrees with the manifest is ever recorded with "ok".
Checkpointed(p) == StatIsRight(p) /\ row[p] = IF Hashed(p) THEN "sha1" ELSE "metadata"

\* Mutant: INSERT OR IGNORE.
SaveOnce(p, state) ==
  /\ row' = [row EXCEPT ![p] = IF @ = "none" THEN state ELSE @]
  /\ masked' = masked \ {p}

Save(p, state) ==
  /\ row' = [row EXCEPT ![p] = state]
  /\ masked' = masked \ {p}
Record(p) ==
  /\ Save(p, "bad")
  /\ listed' = listed \cup {p}
SaveNothing == UNCHANGED <<row, masked, listed>>

Scan(p) ==
  /\ pc = "scan"
  /\ TopDown(p)
  /\ todo' = todo \ {p}
  /\ jobs' = IF StatIsRight(p) /\ Hashed(p) /\ ~Checkpointed(p) THEN jobs \cup {p} ELSE jobs
  /\ IF Checkpointed(p) THEN SaveNothing
     ELSE IF ~StatIsRight(p) THEN Record(p)
     ELSE IF Hashed(p) THEN SaveNothing
     ELSE Save(p, "metadata") /\ UNCHANGED listed
  /\ UNCHANGED <<disk, live, pc, failed, mode, listing, complete, balanced, faults, calm, full, rounds>>

\* The pool hashes the queued files in any order; an object in the way is an error.
Hash(f) ==
  /\ pc = "hash"
  /\ f \in jobs
  /\ jobs' = jobs \ {f}
  /\ IF Right(f) /\ disk[f].data = "source"
     THEN Save(f, "sha1") /\ UNCHANGED listed
     ELSE Record(f)
  /\ UNCHANGED <<disk, live, pc, todo, failed, mode, listing, complete, balanced, faults, calm, full, rounds>>

\* The walk of the whole stage: paths that are not in the manifest, and symlinks.
FindExtra(p) ==
  /\ pc = "extras"
  /\ TopDown(p)
  /\ todo' = todo \ {p}
  /\ \/ disk[p].kind = "other" /\ Record(p)
     \/ (disk[p].kind # "other" \/ p \in Entries) /\ SaveNothing
  /\ UNCHANGED <<disk, live, pc, jobs, failed, mode, listing, complete, balanced, faults, calm, full, rounds>>

NextPass ==
  \/ pc = "scan" /\ todo = {} /\ pc' = "hash" /\ UNCHANGED <<todo, jobs, failed>>
  \/ pc = "hash" /\ jobs = {} /\ pc' = "extras" /\ todo' = Paths /\ UNCHANGED <<jobs, failed>>

EnterNextPass == NextPass /\ UNCHANGED <<disk, live, row, results, faults, history>>

\* The report is written; the exit code says whether anything was recorded.
EndVerify ==
  /\ pc = "extras" /\ todo = {}
  /\ listing' = "whole"
  /\ End("verify-local", listed # {})
  /\ UNCHANGED <<disk, live, row, mode, listed, balanced, faults, history>>

-----------------------------------------------------------------------------
(* remediate, from the mismatch file of the latest verify-local. A line torn by a crash *)
(* ends the command before it changes anything. No phase waits for this one.           *)

StartRemediate ==
  /\ listing # "none"
  /\ Begin("folders", listed \ Strays)
  /\ full' = (calm /\ listing = "whole" /\ mode = "sha1")
  /\ UNCHANGED <<disk, live, row, results, faults, calm, masked, rounds>>

\* Mutant: the folder keeps the time it was made.
Untimed(stage, d) == stage

Timed(stage, d) == [stage EXCEPT ![d].mtime = "source"]

\* Folders in the order of their paths. One that cannot be made ends the command.
RepairFolder(d) ==
  /\ pc = "folders"
  /\ d \in Dirs /\ TopDown(d)
  /\ IF Blocked(d)
     THEN End("remediate", TRUE) /\ UNCHANGED <<disk, calm, masked>>
     ELSE Visit(d, FALSE) /\ Disturb(Timed(Folder(d), d)) /\ UNCHANGED complete
  /\ UNCHANGED <<live, row, mode, listing, listed, balanced, faults, full, rounds>>

RepairFiles ==
  /\ pc = "folders" /\ todo \cap Dirs = {}
  /\ pc' = "files"
  /\ UNCHANGED <<disk, live, row, todo, jobs, failed, results, faults, history>>

\* rclone copyto of one file, in the pool, once its folder is there.
Sheltered(f) == IF Blocked(f) \/ Parent[f] = Root THEN disk ELSE Folder(Parent[f])
RepairFile(f) ==
  /\ pc = "files"
  /\ \E bad \in {Blocked(f) \/ live[f] = "gone", TRUE} :
       Visit(f, bad) /\ Disturb(IF bad THEN Sheltered(f) ELSE Fetched(f))
  /\ UNCHANGED <<live, row, results, faults, full, rounds>>

EndRemediate ==
  /\ pc = "files" /\ todo = {}
  /\ End("remediate", TRUE)
  /\ rounds' = IF full /\ ~failed /\ rounds < 2 THEN rounds + 1 ELSE rounds
  /\ UNCHANGED <<disk, live, row, mode, listing, listed, balanced, faults, calm, masked, full>>

-----------------------------------------------------------------------------
(* What else happens *)

Fault ==
  /\ faults < MaxFaults
  /\ faults' = faults + 1

\* Rounds are counted from the last outside change.
Unsettle == rounds' = 0 /\ full' = FALSE

\* The command dies: what it saved stays, a tail of the buffered mismatch file is lost.
Crash ==
  /\ Fault
  /\ pc # "idle"
  /\ pc' = "idle" /\ todo' = {} /\ jobs' = {} /\ failed' = FALSE
  /\ IF pc \in {"scan", "hash", "extras"} THEN listed' \in SUBSET listed ELSE UNCHANGED listed
  /\ UNCHANGED <<disk, live, row, mode, listing, complete, balanced, history>>

\* A command dies between its report and the status of its phase.
CrashUnrecorded ==
  /\ Fault
  /\ \/ /\ pc = "extras" /\ todo = {}
        /\ listing' = "whole"
        /\ UNCHANGED <<complete, balanced>>
     \/ /\ pc = "idle" /\ "metadata-apply" \in complete  \* reconcile-summary
        /\ complete' = complete \ {"reconcile"}
        /\ balanced' \in {balanced} \cup Counted
        /\ UNCHANGED listing
  /\ pc' = "idle" /\ todo' = {} /\ jobs' = {} /\ failed' = FALSE
  /\ UNCHANGED <<disk, live, row, mode, listed, history>>

\* The source file is changed or removed after the freeze.
Drift(f, data) ==
  /\ Fault
  /\ live[f] = "source" /\ data # "source"
  /\ live' = [live EXCEPT ![f] = data]
  /\ Unsettle
  /\ UNCHANGED <<disk, row, command, results, calm, masked>>

\* A staged file is edited, or its bytes decay under the same size and time.
Alter(f, data, decay) ==
  /\ Fault
  /\ Right(f) /\ disk[f].data = "source" /\ data # "source"
  /\ decay => data = "altered"
  /\ disk' = [disk EXCEPT ![f].data = data, ![f].mtime = IF decay THEN @ ELSE "off"]
  /\ calm' = FALSE
  /\ masked' = IF decay /\ row[f] = "sha1" THEN masked \cup {f} ELSE masked
  /\ Unsettle
  /\ UNCHANGED <<live, row, command, results>>

\* Something is removed, or put where the manifest has something else or nothing.
Swap(p, v) ==
  /\ Fault
  /\ disk[p].kind # v.kind
  /\ \A d \in above[p] : Right(d)
  /\ Disturb(Replaced(p, v))
  /\ Unsettle
  /\ UNCHANGED <<live, row, command, results>>

Next ==
  \/ StartDownload \/ EndDownload \/ StartMetadata \/ EndMetadata \/ Reconcile
  \/ StartVerify \/ EnterNextPass \/ EndVerify
  \/ StartRemediate \/ RepairFiles \/ EndRemediate
  \/ \E p \in Entries : Download(p) \/ ApplyMetadata(p) \/ Scan(p)
  \/ \E f \in Files : Hash(f) \/ RepairFile(f)
  \/ \E d \in Dirs : RepairFolder(d)
  \/ \E p \in Paths : FindExtra(p)
  \/ Crash \/ CrashUnrecorded
  \/ \E f \in Files, data \in Content \cup {"gone"} : Drift(f, data)
  \/ \E f \in Files, data \in Content, decay \in BOOLEAN : Alter(f, data, decay)
  \/ \E p \in Paths, v \in {Absent, Other} : Swap(p, v)

Spec == Init /\ [][Next]_vars

-----------------------------------------------------------------------------
(* Properties *)

Clean == listing = "whole" /\ listed = {}

\* completion-audit's conditions on the local phases.
Audited ==
  /\ {"metadata-apply", "verify-local"} \subseteq complete
  /\ balanced
  /\ Clean /\ mode = "sha1"

\* When the audit accepts a stage that nothing has changed since verify-local began, it is
\* the manifest's tree: no entry is missing, of another type, size or time, none has other
\* content and nothing else is there. The one exception is a file altered under an
\* unchanged size and time after it was hashed: its checkpoint vouches for it.
AcceptedIsExact ==
  Audited /\ calm =>
    /\ \A p \in Entries \ masked : disk[p] = Made("source")
    /\ \A p \in Strays : disk[p] = Absent

\* A clean report and the table agree: the totals the report counts in the table cover
\* every entry, and a sha1 report every file by its sha1.
CleanIsCounted ==
  Clean => \A p \in Entries : row[p] = IF Hashed(p) THEN "sha1" ELSE "metadata"

\* What remediation cannot repair: paths it never removes, and files whose content is not
\* the source's under the source's size and time, which rclone takes to be the same.
Beyond ==
  {p \in Strays : disk[p] # Absent}
    \cup {f \in Files : disk[f].data = "altered" /\ disk[f].mtime = "source"}

\* Writing a file gives its folder a new time after the folder was repaired, so one round
\* of verify-local and remediate is not enough. Two undisturbed rounds are, whatever the
\* stage was like, as long as the source is as frozen and nothing blocks a repair.
TwoRoundsRepair ==
  rounds = 2 /\ calm /\ listing = "whole" /\ (\A f \in Files : live[f] = "source")
    => listed \subseteq Beyond
=============================================================================

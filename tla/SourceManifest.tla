--------------------------- MODULE SourceManifest ---------------------------
(***************************************************************************)
(* The source manifest: pcloud-manifest.py inventory, checksums, freeze    *)
(* and verify-source, working on one inventory.sqlite while the source     *)
(* changes under them.                                                     *)
(*                                                                         *)
(* A file of the source is a version number, 0 when there is no such file; *)
(* every change makes a version never seen before, as size, modification   *)
(* time, hash and object id together tell the program.  The folders stay.  *)
(* One process of each phase runs at a time (PhaseRunner shows that), but  *)
(* the phases have locks of their own and a freeze has none.  Every        *)
(* statement outside BEGIN IMMEDIATE is durable on its own.                *)
(***************************************************************************)
EXTENDS Naturals, FiniteSets

CONSTANTS
  Files, Folders, Root,
  In,          \* [Files \cup (Folders \ {Root}) -> Folders]: the folder it is in
  Workers,     \* --workers of the inventory
  MaxRetries,  \* --retries: listings of a folder before it counts as failed
  Freezers,    \* callers of source_freeze, which nothing keeps apart
  MaxChanges,  \* bound on the changes of the source
  None

ASSUME TreeAssumption ==
  /\ Root \in Folders /\ Files \cap Folders = {}
  /\ In \in [Files \cup (Folders \ {Root}) -> Folders]
  /\ \A S \in SUBSET Folders :  \* every folder is below the root
       Root \in S /\ (\A d \in Folders \ {Root} : In[d] \in S => d \in S) => S = Folders
ASSUME CountAssumption == Workers \in Nat \ {0} /\ MaxRetries \in Nat \ {0} /\ MaxChanges \in Nat
ASSUME NoneAssumption ==
  None \notin Folders \cup 0..(MaxChanges + 1) \cup [Files -> 0..(MaxChanges + 1)]
                \cup [entry : [Files -> 0..(MaxChanges + 1)], sha1 : [Files -> 0..(MaxChanges + 1)]]

VARIABLES
  source,     \* the version of each file on pCloud
  changes,    \* how often the source has changed
  dirStatus,    \* table directories; "none" without a row
  dirAttempts,  \* MaxRetries stands for that and any larger number
  entry,      \* table entries: the version that was listed, 0 without a row
  sha1,       \* column sha1: the version that was hashed, 0 for NULL
  sumFailed,  \* rows whose checksum_status is "failed"
  status,     \* metadata key "status"
  frozen,     \* metadata: the digest that was frozen, or None
  report,     \* the report of the freeze exists (frozen.json)
  phase,      \* status files of the phases inventory and checksums
  inv, inflight, listed, current, rows,  \* the inventory process
  sums, batch, fetched,                  \* the checksums process
  freezer, digest,                       \* each caller of source_freeze
  scan, live, verdict,                   \* the verify-source process
  quiet       \* history: the source has not changed since that scan began

world   == <<source, changes, quiet>>
tables  == <<dirStatus, dirAttempts, entry, sha1, sumFailed, status>>
invMem  == <<inflight, listed, current, rows>>
invProc == <<inv, invMem>>
sumProc == <<sums, batch, fetched>>
frzProc == <<freezer, digest>>
scanProc == <<scan, live, verdict>>
vars == <<world, tables, frozen, report, phase, invProc, sumProc, frzProc, scanProc>>

Versions == 0..(MaxChanges + 1)
Snapshot == [entry : [Files -> Versions], sha1 : [Files -> Versions]]
PhaseStates == {"none", "running", "complete", "failed"}

\* Each variable holds a value the code can put there.
TypeOK ==
  /\ source \in [Files -> Versions] /\ changes \in 0..MaxChanges /\ quiet \in BOOLEAN
  /\ dirStatus \in [Folders -> {"none", "pending", "running", "complete", "failed"}]
  /\ dirAttempts \in [Folders -> 0..MaxRetries]
  /\ entry \in [Files -> Versions] /\ sha1 \in [Files -> Versions] /\ sumFailed \subseteq Files
  /\ status \in PhaseStates
  /\ frozen \in Snapshot \cup {None} /\ report \in BOOLEAN
  /\ phase \in [{"inventory", "checksums"} -> PhaseStates]
  /\ inv \in {"idle", "open", "running", "reset", "bind", "fill", "wait", "record", "exit"}
  /\ inflight \subseteq Folders
  /\ listed \in [Folders -> [Files -> Versions] \cup {None}]
  /\ current \in Folders \cup {None} /\ rows \subseteq Files \cup Folders
  /\ sums \in {"idle", "open", "select", "batch"}
  /\ batch \subseteq Files /\ fetched \in [Files -> Versions \cup {None}]
  /\ freezer \in [Freezers -> {"idle", "values", "dirs", "sums", "digest", "begin", "report"}]
  /\ digest \in [Freezers -> Snapshot \cup {None}]
  /\ scan \subseteq Folders /\ live \in [Files -> Versions]
  /\ verdict \in {"none", "scanning", "fresh", "stale"}

Init ==
  /\ source \in [Files -> {0, 1}] /\ changes = 0 /\ quiet = FALSE
  /\ dirStatus = [d \in Folders |-> "none"] /\ dirAttempts = [d \in Folders |-> 0]
  /\ entry = [f \in Files |-> 0] /\ sha1 = [f \in Files |-> 0] /\ sumFailed = {}
  /\ status = "none" /\ frozen = None /\ report = FALSE
  /\ phase = [p \in {"inventory", "checksums"} |-> "none"]
  /\ inv = "idle" /\ inflight = {} /\ current = None /\ rows = {}
  /\ listed = [d \in Folders |-> None]
  /\ sums = "idle" /\ batch = {} /\ fetched = [f \in Files |-> None]
  /\ freezer = [p \in Freezers |-> "idle"] /\ digest = [p \in Freezers |-> None]
  /\ scan = {} /\ live = [f \in Files |-> 0] /\ verdict = "none"

\* A file is added, replaced, or (0) removed.
SourceChanges(f) ==
  /\ changes < MaxChanges
  /\ changes' = changes + 1
  /\ \E v \in {0, changes + 2} : v # source[f] /\ source' = [source EXCEPT ![f] = v]
  /\ quiet' = FALSE
  /\ UNCHANGED <<tables, frozen, report, phase, invProc, sumProc, frzProc, scanProc>>

Rows == {d \in Folders : dirStatus[d] # "none"}
AllListed == Rows # {} /\ \A d \in Rows : dirStatus[d] = "complete"
NoSum == {f \in Files : entry[f] # 0 /\ sha1[f] = 0}

-----------------------------------------------------------------------------
(* inventory *)

StartInventory ==
  /\ inv = "idle" /\ ~report
  /\ inv' = "open"
  /\ phase' = [phase EXCEPT !["inventory"] = "running"]
  /\ UNCHANGED <<world, tables, frozen, report, invMem, sumProc, frzProc, scanProc>>

\* The process is gone with what it held in memory; its phase gets the state its exit
\* code says, and a kill counts as a failure.
InventoryEnds(state) ==
  /\ inv' = "idle" /\ inflight' = {} /\ current' = None /\ rows' = {}
  /\ listed' = [d \in Folders |-> None]
  /\ phase' = [phase EXCEPT !["inventory"] = state]

\* An exception or a kill: the API refuses, an account does not match, or a statement runs
\* into assert_manifest_mutable or a trigger of a frozen manifest.
InventoryDies ==
  /\ inv # "idle"
  /\ InventoryEnds("failed")
  /\ UNCHANGED <<world, tables, frozen, report, sumProc, frzProc, scanProc>>

\* assert_manifest_mutable
OpenInventory ==
  /\ inv = "open" /\ frozen = None
  /\ inv' = "running"
  /\ UNCHANGED <<world, tables, frozen, report, phase, invMem, sumProc, frzProc, scanProc>>

\* Key source_remote is protected by a trigger, key status is not.
MarkRunning ==
  /\ inv = "running" /\ frozen = None
  /\ status' = "running"
  /\ inv' = "reset"
  /\ UNCHANGED <<world, dirStatus, dirAttempts, entry, sha1, sumFailed, frozen, report, phase,
                 invMem, sumProc, frzProc, scanProc>>

\* Mutant: every folder is listed again.
Relist(d) == dirStatus[d] # "none" \/ d = Root

\* Rows an earlier process left running, rows that failed (--retry-failed), and the root.
Reset(d) == dirStatus[d] \in {"running", "failed"} \/ (d = Root /\ dirStatus[d] = "none")

ResetDirectories ==
  /\ inv = "reset"
  /\ dirStatus' = [d \in Folders |-> IF Reset(d) THEN "pending" ELSE dirStatus[d]]
  /\ inv' = "bind"
  /\ UNCHANGED <<world, dirAttempts, entry, sha1, sumFailed, status, frozen, report, phase,
                 invMem, sumProc, frzProc, scanProc>>

\* bind_pcloud_account writes source_account_fingerprint, which a trigger protects too.
BindAccount ==
  /\ inv = "bind" /\ frozen = None
  /\ inv' = "fill"
  /\ UNCHANGED <<world, tables, frozen, report, phase, invMem, sumProc, frzProc, scanProc>>

MayFill == Cardinality(inflight) < Workers /\ \E d \in Folders : dirStatus[d] = "pending"

BeginListing(d) ==
  /\ inv = "fill" /\ Cardinality(inflight) < Workers
  /\ dirStatus[d] = "pending"
  /\ dirStatus' = [dirStatus EXCEPT ![d] = "running"]
  /\ dirAttempts' = [dirAttempts EXCEPT ![d] = IF @ < MaxRetries THEN @ + 1 ELSE @]
  /\ inflight' = inflight \cup {d}
  /\ UNCHANGED <<world, entry, sha1, sumFailed, status, frozen, report, phase,
                 inv, listed, current, rows, sumProc, frzProc, scanProc>>

AwaitListings ==
  /\ inv = "fill" /\ ~MayFill /\ inflight # {}
  /\ inv' = "wait"
  /\ UNCHANGED <<world, tables, frozen, report, phase, invMem, sumProc, frzProc, scanProc>>

\* A worker thread: one listfolder call sees one moment of the folder.
ListFolder(d) ==
  /\ d \in inflight /\ listed[d] = None
  /\ listed' = [listed EXCEPT ![d] = [f \in Files |-> IF In[f] = d THEN source[f] ELSE 0]]
  /\ UNCHANGED <<world, tables, frozen, report, phase, inv, inflight, current, rows,
                 sumProc, frzProc, scanProc>>

RowsOf(d) ==
  {f \in Files : In[f] = d /\ listed[d][f] # 0} \cup {c \in Folders \ {Root} : In[c] = d}

\* Mutant: the folder is marked first, its rows come after.
CompletesFirst(d) == dirStatus' = [dirStatus EXCEPT ![d] = "complete"]

StaysRunning(d) == UNCHANGED dirStatus

TakeListing(d) ==
  /\ inv = "wait" /\ d \in inflight /\ listed[d] # None
  /\ inflight' = inflight \ {d}
  /\ current' = d /\ rows' = RowsOf(d)
  /\ StaysRunning(d)
  /\ inv' = "record"
  /\ UNCHANGED <<world, dirAttempts, entry, sha1, sumFailed, status, frozen, report, phase,
                 listed, sumProc, frzProc, scanProc>>

\* INSERT OR REPLACE: the row is new, and so is its checksum state.
InsertFile(f) ==
  /\ inv = "record" /\ f \in rows \cap Files /\ frozen = None
  /\ entry' = [entry EXCEPT ![f] = listed[current][f]]
  /\ sha1' = [sha1 EXCEPT ![f] = 0]
  /\ sumFailed' = sumFailed \ {f}
  /\ rows' = rows \ {f}
  /\ UNCHANGED <<world, dirStatus, dirAttempts, status, frozen, report, phase,
                 inv, inflight, listed, current, sumProc, frzProc, scanProc>>

\* The row of a folder in entries, and INSERT OR IGNORE into directories.
InsertFolder(c) ==
  /\ inv = "record" /\ c \in rows \cap Folders /\ frozen = None
  /\ dirStatus' = [dirStatus EXCEPT ![c] = IF @ = "none" THEN "pending" ELSE @]
  /\ rows' = rows \ {c}
  /\ UNCHANGED <<world, dirAttempts, entry, sha1, sumFailed, status, frozen, report, phase,
                 inv, inflight, listed, current, sumProc, frzProc, scanProc>>

FolderCompletes ==
  /\ inv = "record" /\ rows = {}
  /\ dirStatus' = [dirStatus EXCEPT ![current] = "complete"]
  /\ listed' = [listed EXCEPT ![current] = None]
  /\ current' = None
  /\ inv' = "fill"
  /\ UNCHANGED <<world, dirAttempts, entry, sha1, sumFailed, status, frozen, report, phase,
                 inflight, rows, sumProc, frzProc, scanProc>>

\* The listing failed, or an exception cut its rows short: the folder waits for another
\* try, or has had them all.
FolderFails(d) ==
  /\ \/ inv = "wait" /\ d \in inflight
     \/ inv = "record" /\ d = current
  /\ dirStatus' = [dirStatus EXCEPT ![d] = IF dirAttempts[d] < MaxRetries THEN "pending" ELSE "failed"]
  /\ inflight' = inflight \ {d}
  /\ listed' = [listed EXCEPT ![d] = None]
  /\ current' = None /\ rows' = {}
  /\ inv' = "fill"
  /\ UNCHANGED <<world, dirAttempts, entry, sha1, sumFailed, status, frozen, report, phase,
                 sumProc, frzProc, scanProc>>

\* Mutant: a state of the database no reader knows.
InventoryStateNamed == IF \E d \in Folders : dirStatus[d] = "failed" THEN "incomplete" ELSE "complete"

InventoryState == IF \E d \in Folders : dirStatus[d] = "failed" THEN "failed" ELSE "complete"

FinishInventory ==
  /\ inv = "fill" /\ ~MayFill /\ inflight = {}
  /\ status' = InventoryState
  /\ inv' = "exit"
  /\ UNCHANGED <<world, dirStatus, dirAttempts, entry, sha1, sumFailed, frozen, report, phase,
                 invMem, sumProc, frzProc, scanProc>>

InventoryExits ==
  /\ inv = "exit"
  /\ InventoryEnds(InventoryState)
  /\ UNCHANGED <<world, tables, frozen, report, sumProc, frzProc, scanProc>>

-----------------------------------------------------------------------------
(* checksums *)

StartChecksums ==
  /\ sums = "idle" /\ ~report /\ phase["inventory"] = "complete"
  /\ sums' = "open"
  /\ phase' = [phase EXCEPT !["checksums"] = "running"]
  /\ UNCHANGED <<world, tables, frozen, report, invProc, batch, fetched, frzProc, scanProc>>

ChecksumsEnd(state) ==
  /\ sums' = "idle" /\ batch' = {} /\ fetched' = [f \in Files |-> None]
  /\ phase' = [phase EXCEPT !["checksums"] = state]

ChecksumsDie ==
  /\ sums # "idle"
  /\ ChecksumsEnd("failed")
  /\ UNCHANGED <<world, tables, frozen, report, invProc, frzProc, scanProc>>

\* The manifest is mutable and the tree complete; --retry-failed clears old failures.
OpenChecksums ==
  /\ sums = "open" /\ frozen = None /\ AllListed
  /\ sumFailed' = sumFailed \ NoSum
  /\ sums' = "select"
  /\ UNCHANGED <<world, dirStatus, dirAttempts, entry, sha1, status, frozen, report, phase,
                 invProc, batch, fetched, frzProc, scanProc>>

\* Up to --batch-size rows that have no checksum and did not fail.
SelectBatch ==
  /\ sums = "select"
  /\ batch' \in SUBSET (NoSum \ sumFailed) \ {{}}
  /\ sums' = "batch"
  /\ UNCHANGED <<world, tables, frozen, report, phase, invProc, fetched, frzProc, scanProc>>

\* A worker thread asks pCloud for the checksum of the file, as it is now; 0 for none.
FetchChecksum(f) ==
  /\ sums = "batch" /\ f \in batch /\ fetched[f] = None
  /\ \E v \in {0, source[f]} : fetched' = [fetched EXCEPT ![f] = v]
  /\ UNCHANGED <<world, tables, frozen, report, phase, invProc, sums, batch, frzProc, scanProc>>

RecordChecksum(f) ==
  /\ sums = "batch" /\ f \in batch /\ fetched[f] # None /\ frozen = None
  /\ sha1' = [sha1 EXCEPT ![f] = fetched[f]]
  /\ sumFailed' = IF fetched[f] = 0 THEN sumFailed \cup {f} ELSE sumFailed \ {f}
  /\ fetched' = [fetched EXCEPT ![f] = None]
  /\ batch' = batch \ {f}
  /\ sums' = IF batch = {f} THEN "select" ELSE "batch"
  /\ UNCHANGED <<world, dirStatus, dirAttempts, entry, status, frozen, report, phase,
                 invProc, frzProc, scanProc>>

ChecksumsExit ==
  /\ sums = "select" /\ NoSum \subseteq sumFailed
  /\ ChecksumsEnd(IF NoSum = {} THEN "complete" ELSE "failed")
  /\ UNCHANGED <<world, tables, frozen, report, invProc, frzProc, scanProc>>

-----------------------------------------------------------------------------
(* freeze *)

Goto(p, step) == freezer' = [freezer EXCEPT ![p] = step]

\* source_freeze: the gates of the shell, before the tool opens the database.
StartFreeze(p) ==
  /\ freezer[p] = "idle"
  /\ phase["inventory"] = "complete" /\ phase["checksums"] = "complete"
  /\ Goto(p, "values")
  /\ UNCHANGED <<world, tables, frozen, report, phase, invProc, sumProc, digest, scanProc>>

\* A gate of freeze_manifest refuses, or the process dies.
FreezeEnds(p) ==
  /\ freezer[p] # "idle"
  /\ Goto(p, "idle")
  /\ digest' = [digest EXCEPT ![p] = None]
  /\ UNCHANGED <<world, tables, frozen, report, phase, invProc, sumProc, scanProc>>

\* The manifest as it is: what the digest is computed over.
Content == [entry |-> entry, sha1 |-> sha1]

\* An earlier freeze counts, if its digest still is the digest of the rows.
ReadValues(p) ==
  /\ freezer[p] = "values"
  /\ \/ frozen = Content /\ Goto(p, "report")
     \/ frozen = None /\ status = "complete" /\ Goto(p, "dirs")
  /\ UNCHANGED <<world, tables, frozen, report, phase, invProc, sumProc, digest, scanProc>>

CheckDirectories(p) ==
  /\ freezer[p] = "dirs" /\ \A d \in Rows : dirStatus[d] = "complete"
  /\ Goto(p, "sums")
  /\ UNCHANGED <<world, tables, frozen, report, phase, invProc, sumProc, digest, scanProc>>

CheckSums(p) ==
  /\ freezer[p] = "sums" /\ NoSum = {}
  /\ Goto(p, "digest")
  /\ UNCHANGED <<world, tables, frozen, report, phase, invProc, sumProc, digest, scanProc>>

ComputeDigest(p) ==
  /\ freezer[p] = "digest"
  /\ digest' = [digest EXCEPT ![p] = Content]
  /\ Goto(p, "begin")
  /\ UNCHANGED <<world, tables, frozen, report, phase, invProc, sumProc, scanProc>>

\* One transaction; in a manifest frozen meanwhile a trigger aborts it (FreezeEnds).
CommitFreeze(p) ==
  /\ freezer[p] = "begin" /\ frozen = None
  /\ frozen' = digest[p]
  /\ digest' = [digest EXCEPT ![p] = None]
  /\ Goto(p, "report")
  /\ UNCHANGED <<world, tables, report, phase, invProc, sumProc, scanProc>>

ReportFreeze(p) ==
  /\ freezer[p] = "report"
  /\ report' = TRUE
  /\ Goto(p, "idle")
  /\ UNCHANGED <<world, tables, frozen, phase, invProc, sumProc, digest, scanProc>>

-----------------------------------------------------------------------------
(* verify-source *)

\* A new inventory of the live source, in a database of its own.
StartScan ==
  /\ report /\ verdict # "scanning"
  /\ verdict' = "scanning" /\ scan' = Folders /\ live' = [f \in Files |-> 0]
  /\ quiet' = TRUE
  /\ UNCHANGED <<source, changes, tables, frozen, report, phase, invProc, sumProc, frzProc>>

\* Folders are seen one after the other (the code gets some of them together).
ScanFolder(d) ==
  /\ verdict = "scanning" /\ d \in scan
  /\ scan' = scan \ {d}
  /\ live' = [f \in Files |-> IF In[f] = d THEN source[f] ELSE live[f]]
  /\ UNCHANGED <<world, tables, frozen, report, phase, invProc, sumProc, frzProc, verdict>>

ScanDies ==
  /\ verdict = "scanning"
  /\ verdict' = "none" /\ scan' = {}
  /\ UNCHANGED <<world, tables, frozen, report, phase, invProc, sumProc, frzProc, live>>

\* Mutant: a file that is new on the source is not looked for.
DiffersOnRows == \E f \in Files : entry[f] # 0 /\ live[f] # entry[f]

\* missing_from_live, new_in_live and metadata_or_content_changed
Differs == \E f \in Files : live[f] # entry[f]

CompareLive ==
  /\ verdict = "scanning" /\ scan = {} /\ frozen = Content
  /\ verdict' = IF Differs THEN "stale" ELSE "fresh"
  /\ UNCHANGED <<world, tables, frozen, report, phase, invProc, sumProc, frzProc, scan, live>>

-----------------------------------------------------------------------------
InventoryStep ==
  \/ StartInventory \/ OpenInventory \/ MarkRunning \/ ResetDirectories \/ BindAccount
  \/ \E d \in Folders :
       BeginListing(d) \/ ListFolder(d) \/ TakeListing(d) \/ InsertFolder(d) \/ FolderFails(d)
  \/ \E f \in Files : InsertFile(f)
  \/ AwaitListings \/ FolderCompletes \/ FinishInventory \/ InventoryExits \/ InventoryDies

ChecksumsStep ==
  \/ StartChecksums \/ OpenChecksums \/ SelectBatch \/ ChecksumsExit \/ ChecksumsDie
  \/ \E f \in Files : FetchChecksum(f) \/ RecordChecksum(f)

FreezeStep(p) ==
  \/ StartFreeze(p) \/ ReadValues(p) \/ CheckDirectories(p) \/ CheckSums(p)
  \/ ComputeDigest(p) \/ CommitFreeze(p) \/ ReportFreeze(p) \/ FreezeEnds(p)

ScanStep == StartScan \/ (\E d \in Folders : ScanFolder(d)) \/ CompareLive \/ ScanDies

Next ==
  \/ \E f \in Files : SourceChanges(f)
  \/ InventoryStep
  \/ ChecksumsStep
  \/ \E p \in Freezers : FreezeStep(p)
  \/ ScanStep

Spec == Init /\ [][Next]_vars

-----------------------------------------------------------------------------
(* Properties *)

\* The digest of a frozen manifest is the digest of its rows, for good, though it is
\* computed before the transaction begins and an inventory or a checksum run may be
\* resumed at any moment: every later gate recomputes it and would refuse the snapshot.
DigestHolds == frozen # None => frozen = Content

\* A frozen manifest is whole, whatever crashed before: every folder was found and listed
\* to its end, every file has a checksum, and if the source has stood still the manifest
\* is the source.
FrozenIsWhole ==
  frozen # None =>
    /\ \A d \in Folders : dirStatus[d] = "complete"
    /\ NoSum = {}
    /\ changes = 0 => entry = source /\ \A f \in Files : sha1[f] = source[f]

\* "fresh" is the promise that what was frozen is what the source still holds: rows that
\* are left over from an interrupted listing, files the inventory missed, and checksums
\* taken of a later version than the one listed all show, if the source was left alone
\* from the moment the scan began.
FreshMeansSame ==
  verdict = "fresh" /\ quiet => entry = source /\ \A f \in Files : sha1[f] = source[f]
=============================================================================

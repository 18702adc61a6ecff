----------------------------- MODULE UploadPlan -----------------------------
(***************************************************************************)
(* proton-upload.py plan: the frozen manifest is cut into transfer units,  *)
(* which the upload worker of ProtonUpload then hands to the Proton CLI    *)
(* one at a time, and the plan is written to upload.sqlite.                *)
(*                                                                         *)
(* The supervisor plans when it finds no upload.sqlite; "upload plan" run  *)
(* by hand always tries, and nothing keeps the two apart but the database. *)
(*                                                                         *)
(* An entry of the manifest is a number: 0 is the root of the source, a    *)
(* parent is smaller than its children, and the children of one folder are *)
(* numbered in the order of their paths.  remote_join is injective, so a   *)
(* remote folder is named by the source folder it stands for.              *)
(***************************************************************************)
EXTENDS Naturals, Sequences, SequencesExt

CONSTANTS
  MaxEntries,  \* bound on the number of entries of the manifest
  Sizes,       \* sizes a file may have
  Limits,      \* settings of --max-files, --max-bytes and --max-paths
  None

Planners == {"supervisor", "operator"}
Root == 0

ASSUME LimitsAssumption ==
  Limits \subseteq [files : Nat \ {0}, bytes : Nat, paths : Nat \ {0}]
ASSUME EntriesAssumption == MaxEntries \in Nat
ASSUME NoneAssumption == None \notin Limits /\ None \notin Planners
ASSUME SizesAssumption == Sizes \subseteq Nat

VARIABLES
  entries,     \* the frozen manifest, read only
  dbFile,      \* upload.sqlite exists
  remoteDirs,  \* table remote_dirs
  units,       \* table units, in the order of its ids
  bound,       \* metadata: the limits recorded with the binding, or None
  writer,      \* the planner inside BEGIN IMMEDIATE, or None
  pc, plan     \* of each planner: where it is, and what it worked out

vars == <<entries, dbFile, remoteDirs, units, bound, writer, pc, plan>>

-----------------------------------------------------------------------------
(* The partition *)

Nodes == DOMAIN entries
Folders == {Root} \cup {n \in Nodes : entries[n].dir}
FoldersIn(d) == {n \in Nodes : entries[n].parent = d /\ entries[n].dir}
FilesIn(d)   == {n \in Nodes : entries[n].parent = d /\ ~entries[n].dir}
InOrder(S)   == CHOOSE s \in [1..Cardinality(S) -> S] : \A i, j \in DOMAIN s : i < j => s[i] < s[j]
Bytes(S)     == SumFunctionOnSet([n \in Nodes |-> entries[n].size], S)

FilesOf(below, S) == SumFunction([c \in S |-> below[c].files])
BytesOf(below, S) == SumFunction([c \in S |-> below[c].bytes])

\* Files and bytes below a folder, deepest folders first.
totals[d \in Folders] ==
  [files |-> Cardinality(FilesIn(d)) + FilesOf(totals, FoldersIn(d)),
   bytes |-> Bytes(FilesIn(d)) + BytesOf(totals, FoldersIn(d))]

FileUnit(d, batch) ==
  [parent |-> d, paths |-> batch, files |-> Len(batch), bytes |-> Bytes(Range(batch))]

\* Mutant: tests the count the batch has, not the one it would have.
BatchFullLate(batch, f, lim) ==
  /\ batch # <<>>
  /\ \/ Len(batch) >= lim.paths
     \/ Len(batch) > lim.files
     \/ Bytes(Range(batch)) + entries[f].size > lim.bytes

BatchFull(batch, f, lim) ==
  /\ batch # <<>>
  /\ \/ Len(batch) >= lim.paths
     \/ Len(batch) + 1 > lim.files
     \/ Bytes(Range(batch)) + entries[f].size > lim.bytes

\* Mutant: the batch left open by the last file is lost.
LastBatchLost(d, made) == made.units

LastBatch(d, made) ==
  IF made.batch = <<>> THEN made.units ELSE Append(made.units, FileUnit(d, made.batch))

Put(d, made, f, lim) ==
  IF BatchFull(made.batch, f, lim)
  THEN [units |-> Append(made.units, FileUnit(d, made.batch)), batch |-> <<f>>]
  ELSE [units |-> made.units, batch |-> Append(made.batch, f)]

\* add_file_batches: a greedy pass over the files of one folder.
Batching(d, lim) ==
  LET files == InOrder(FilesIn(d))
      made[k \in 0..Len(files)] ==
        IF k = 0 THEN [units |-> <<>>, batch |-> <<>>] ELSE Put(d, made[k - 1], files[k], lim)
  IN  made

FileBatches(d, lim) == LastBatch(d, Batching(d, lim)[Len(InOrder(FilesIn(d)))])

Fits(d, lim) == totals[d].files <= lim.files /\ totals[d].bytes <= lim.bytes

\* Mutant: uploads a folder into itself.
FolderUnitNested(d) ==
  [parent |-> d, paths |-> <<d>>, files |-> totals[d].files, bytes |-> totals[d].bytes]

FolderUnit(d) ==
  [parent |-> entries[d].parent, paths |-> <<d>>, files |-> totals[d].files, bytes |-> totals[d].bytes]

\* Any other is made on Proton Drive, its files are batched, and its folders are
\* partitioned in turn.
Split(d, lim, part) ==
  LET below == InOrder(FoldersIn(d))
  IN  [folders |-> {d} \cup UNION {part[c].folders : c \in FoldersIn(d)},
       units   |-> FileBatches(d, lim) \o FlattenSeq([k \in DOMAIN below |-> part[below[k]].units])]

\* A folder within the limits is one unit.
Partitions(lim) ==
  LET part[d \in Folders] ==
        IF d # Root /\ Fits(d, lim) THEN [folders |-> {}, units |-> <<FolderUnit(d)>>]
        ELSE Split(d, lim, part)
  IN  part

Partition(lim) == Partitions(lim)[Root]

-----------------------------------------------------------------------------
Manifests ==
  UNION {[1..n -> [parent : 0..(MaxEntries - 1), dir : BOOLEAN, size : Sizes]] : n \in 0..MaxEntries}

\* Every entry's parent is the root or a folder listed before it; the size of a folder is not read.
ATree(m) ==
  \A n \in DOMAIN m :
    /\ m[n].parent < n
    /\ m[n].parent # Root => m[m[n].parent].dir
    /\ m[n].dir => \A s \in Sizes : m[n].size <= s

\* Each variable holds a value the code can put there; only the writer has rows to commit.
TypeOK ==
  /\ entries \in Manifests
  /\ dbFile \in BOOLEAN
  /\ remoteDirs \subseteq Folders
  /\ \A i \in DOMAIN units : units[i].parent \in Folders /\ Range(units[i].paths) \subseteq Nodes
  /\ bound \in Limits \cup {None}
  /\ writer \in Planners \cup {None}
  /\ pc \in [Planners -> {"idle", "connect", "existing", "stage", "begin", "insert", "commit"}]
  /\ \A p \in Planners : (writer = p) <=> pc[p] \in {"insert", "commit"}

Init ==
  /\ entries \in {m \in Manifests : ATree(m)}
  /\ dbFile = FALSE
  /\ remoteDirs = {} /\ units = <<>> /\ bound = None
  /\ writer = None
  /\ pc = [p \in Planners |-> "idle"]
  /\ plan = [p \in Planners |-> None]

Goto(p, step) == pc' = [pc EXCEPT ![p] = step]

\* supervise calls upload_plan only when there is no upload.sqlite; the operator's
\* command calls it whatever there is.
CallPlan(p) ==
  /\ pc[p] = "idle"
  /\ p = "supervisor" => ~dbFile
  /\ Goto(p, "connect")
  /\ UNCHANGED <<entries, dbFile, remoteDirs, units, bound, writer, plan>>

\* connect makes the file and its empty tables before anything else is checked.
Connect(p) ==
  /\ pc[p] = "connect"
  /\ dbFile' = TRUE
  /\ Goto(p, "existing")
  /\ UNCHANGED <<entries, remoteDirs, units, bound, writer, plan>>

\* A plan with units is kept: binding it to the same snapshot again changes nothing.
FindExisting(p) ==
  /\ pc[p] = "existing"
  /\ Goto(p, IF units # <<>> THEN "idle" ELSE "stage")
  /\ UNCHANGED <<entries, dbFile, remoteDirs, units, bound, writer, plan>>

\* The staged tree passed its checks: work the partition out in memory.
WorkOut(p, lim) ==
  /\ pc[p] = "stage"
  /\ plan' = [plan EXCEPT ![p] = [limits |-> lim, rows |-> Partition(lim)]]
  /\ Goto(p, "begin")
  /\ UNCHANGED <<entries, dbFile, remoteDirs, units, bound, writer>>

BeginImmediate(p) ==
  /\ pc[p] = "begin" /\ writer = None
  /\ writer' = p
  /\ Goto(p, "insert")
  /\ UNCHANGED <<entries, dbFile, remoteDirs, units, bound, plan>>

\* Mutant: INSERT OR IGNORE.
CollidesNever(p) == FALSE

\* remote_dirs.path is the primary key.
Collides(p) == plan[p].rows.folders \cap remoteDirs # {}

\* Mutant: an exception leaves the transaction open.
EndPlanInside(p) ==
  /\ Goto(p, "idle")
  /\ plan' = [plan EXCEPT ![p] = None]
  /\ UNCHANGED writer

EndPlan(p) ==
  /\ Goto(p, "idle")
  /\ plan' = [plan EXCEPT ![p] = None]
  /\ writer' = IF writer = p THEN None ELSE writer

\* The rows of remote_dirs, then those of units: visible to nobody before COMMIT.
Insert(p) ==
  /\ pc[p] = "insert"
  /\ \/ Collides(p) /\ EndPlan(p)  \* ROLLBACK
     \/ ~Collides(p) /\ Goto(p, "commit") /\ UNCHANGED <<writer, plan>>
  /\ UNCHANGED <<entries, dbFile, remoteDirs, units, bound>>

Commit(p) ==
  /\ pc[p] = "commit"
  /\ remoteDirs' = remoteDirs \cup plan[p].rows.folders
  /\ units' = units \o plan[p].rows.units
  /\ bound' = plan[p].limits
  /\ EndPlan(p)
  /\ UNCHANGED <<entries, dbFile>>

\* A staged path is missing, of the wrong type or a symlink; the database stays locked
\* for too long; or the process dies. The open transaction is rolled back.
PlanDies(p) ==
  /\ pc[p] # "idle"
  /\ EndPlan(p)
  /\ UNCHANGED <<entries, dbFile, remoteDirs, units, bound>>

Next ==
  \E p \in Planners :
    \/ CallPlan(p) \/ Connect(p) \/ FindExisting(p)
    \/ \E lim \in Limits : WorkOut(p, lim)
    \/ BeginImmediate(p) \/ Insert(p) \/ Commit(p)
    \/ PlanDies(p)

Spec == Init /\ [][Next]_vars

-----------------------------------------------------------------------------
(* Properties *)

\* An entry and every folder above it, the root left out.
above[n \in Nodes \cup {Root}] == IF n = Root THEN {} ELSE {n} \cup above[entries[n].parent]

\* The places of the plan that bring an entry to Proton Drive.
Carriers(n) == {at \in (DOMAIN units) \X (1..MaxEntries) :
                  LET paths == units[at[1]].paths
                  IN  at[2] \in DOMAIN paths /\ paths[at[2]] \in above[n]}

\* Every file of the frozen manifest is in exactly one unit, and every folder is either
\* made on its own or in exactly one unit, by itself or below a folder that is: nothing is
\* left out of the upload, and nothing is sent twice (create_plan, partition).
EveryEntryOnce ==
  bound # None =>
    \A n \in Nodes : Cardinality(Carriers(n)) = IF n \in remoteDirs THEN 0 ELSE 1

\* What a unit uploads lands where it was: the unit's target stands for the folder its
\* paths are in, the worker makes that target first, and every folder above it too.
LandsInPlace ==
  bound # None =>
    /\ \A i \in DOMAIN units :
         /\ units[i].parent \in remoteDirs
         /\ \A n \in Range(units[i].paths) : entries[n].parent = units[i].parent
    /\ Root \in remoteDirs
    /\ \A d \in remoteDirs \ {Root} : entries[d].parent \in remoteDirs

\* The files and bytes a unit is accounted for are those it carries, and it keeps to the
\* limits it was planned with, except for a single file that is larger than a unit may be.
UnitsFit ==
  bound # None =>
    \A i \in DOMAIN units :
      LET carried == {n \in Nodes : ~entries[n].dir /\ Range(units[i].paths) \cap above[n] # {}}
      IN  /\ units[i].files = Cardinality(carried)
          /\ units[i].bytes = Bytes(carried)
          /\ units[i].files <= bound.files /\ Len(units[i].paths) <= bound.paths
          /\ units[i].bytes > bound.bytes => Len(units[i].paths) = 1 /\ units[i].files = 1

\* The supervisor and an operator planning at once, each dying anywhere, leave the whole of
\* one plan or none: the upload never finds rows without a binding, a part of a partition,
\* or two of them (the transaction of create_plan, and the key of remote_dirs).
OnlyWholePlans ==
  IF bound = None THEN units = <<>> /\ remoteDirs = {}
  ELSE [folders |-> remoteDirs, units |-> units] = Partition(bound)

\* A plan is for good: no later planning adds to it, replaces it or takes it away, so that
\* the upload may run while somebody plans again (create_plan).
PlanIsFinal == [][bound # None => UNCHANGED <<remoteDirs, units, bound>>]_vars
=============================================================================

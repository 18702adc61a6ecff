----------------------- MODULE SourceManifest_proofs -----------------------
(***************************************************************************)
(* Machine-checked proofs about the source manifest, for any tree, any     *)
(* number of workers, retries, freezes and changes of the source.          *)
(***************************************************************************)
EXTENDS SourceManifest, TLAPS

\* What makes the tables stand still: no folder is left to list, and no file to hash.
Done == \A d \in Folders : dirStatus[d] = "complete"
Summed == \A f \in Files : entry[f] # 0 => sha1[f] # 0

\* What the inventory process holds: a folder it works on has the status "running".
ProcInv ==
  /\ inv \notin {"fill", "wait", "record"} => inflight = {}
  /\ inv = "record" <=> current # None
  /\ current = None => rows = {}
  /\ \A d \in inflight : dirStatus[d] = "running" /\ d # current
  /\ current # None =>
       /\ dirStatus[current] = "running" /\ listed[current] # None
       /\ \A f \in rows \cap Files : In[f] = current /\ listed[current][f] # 0
  /\ \A d \in Folders : listed[d] # None => d \in inflight \/ d = current

\* A folder listed to its end has brought in the folders below it, and the root is first.
TreeInv ==
  /\ \A c \in Folders \ {Root} : dirStatus[In[c]] = "complete" => dirStatus[c] # "none"
  /\ \A c \in Folders \ {Root} : In[c] = current => c \in rows \/ dirStatus[c] # "none"
  /\ (\E d \in Folders : dirStatus[d] # "none") \/ inv \in {"bind", "fill", "wait", "record", "exit"}
       \/ status = "complete"
     => dirStatus[Root] # "none"

\* Checksums are taken of a tree that no longer changes, of files that have none.
SumInv ==
  /\ sums \in {"select", "batch"} => Done
  /\ sums # "batch" => batch = {}
  /\ \A f \in batch : entry[f] # 0 /\ sha1[f] = 0
  /\ \A f \in Files : fetched[f] # None => f \in batch
  /\ \A f \in Files : entry[f] = 0 => sha1[f] = 0

\* What each step of a freeze found is still so at the next one, and for good after it.
FreezeInv ==
  /\ \A p \in Freezers :
       /\ freezer[p] = "dirs" => dirStatus[Root] # "none"
       /\ freezer[p] \in {"sums", "digest", "begin"} => Done
       /\ freezer[p] \in {"digest", "begin"} => Summed
       /\ freezer[p] = "begin" => digest[p] = Content
  /\ frozen # None => frozen = Content /\ Done /\ Summed

\* A version does not come back, so a row that is right now was right when it was hashed.
VersionInv ==
  /\ \A f \in Files : source[f] <= changes + 1 /\ entry[f] <= changes + 1
  /\ \A d \in Folders, f \in Files : listed[d] # None => listed[d][f] <= changes + 1
  /\ \A f \in Files : entry[f] = source[f] =>
       sha1[f] \in {0, source[f]} /\ fetched[f] \in {None, 0, source[f]}

\* Of a source that has not changed, every row is right and every listed folder has its rows.
StillInv ==
  changes = 0 =>
    /\ \A f \in Files : entry[f] \in {0, source[f]}
    /\ \A f \in Files : dirStatus[In[f]] = "complete" => entry[f] = source[f]
    /\ \A f \in Files : In[f] = current => f \in rows \/ entry[f] = source[f]
    /\ \A f \in Files : listed[In[f]] # None => listed[In[f]][f] = source[f]

\* What the live scan has seen of a source that stands still.
ScanInv ==
  /\ verdict = "scanning" /\ quiet => \A f \in Files : In[f] \in scan \/ live[f] = source[f]
  /\ verdict = "fresh" => frozen # None /\ (quiet => entry = source)

IInv == TypeOK /\ ProcInv /\ TreeInv /\ SumInv /\ FreezeInv /\ VersionInv /\ StillInv /\ ScanInv


-----------------------------------------------------------------------------
(* The constants *)

LEMMA ConstantFacts ==
  /\ Root \in Folders /\ Files \cap Folders = {}
  /\ \A f \in Files : In[f] \in Folders
  /\ \A d \in Folders \ {Root} : In[d] \in Folders
  /\ MaxChanges \in Nat /\ MaxRetries \in Nat /\ MaxRetries > 0 /\ 0 \in Versions
  /\ None \notin Folders /\ None \notin Versions /\ None \notin [Files -> Versions] /\ None \notin Snapshot
BY TreeAssumption, CountAssumption, NoneAssumption DEF Versions, Snapshot

LEMMA ContentIsSnapshot == TypeOK => Content \in Snapshot /\ Content # None
BY ConstantFacts DEF TypeOK, Content, Snapshot

\* When every row is complete, every folder is: the tree has been followed to its leaves.
LEMMA RowsAreFolders ==
  ASSUME TreeInv, dirStatus[Root] # "none",
         \A d \in Folders : dirStatus[d] # "none" => dirStatus[d] = "complete"
  PROVE  Done
<1> DEFINE S == {d \in Folders : dirStatus[d] = "complete"}
<1>1. Root \in S
  BY ConstantFacts
<1>2. \A c \in Folders \ {Root} : In[c] \in S => c \in S
  BY DEF TreeInv
<1>3. S = Folders
  BY <1>1, <1>2, TreeAssumption
<1>. QED
  BY <1>3 DEF Done

-----------------------------------------------------------------------------
(* Preservation *)

LEMMA SourceChangesKeeps ==
  ASSUME IInv, NEW f \in Files, SourceChanges(f)
  PROVE  IInv'
<1> USE DEF IInv, SourceChanges, world, tables, invMem, invProc, sumProc, frzProc, scanProc
<1>1. TypeOK'
  <2>1. PICK v \in {0, changes + 2} : source' = [source EXCEPT ![f] = v]
    OBVIOUS
  <2>2. v \in Versions /\ changes' \in 0..MaxChanges
    BY ConstantFacts DEF TypeOK, Versions
  <2>. QED
    BY <2>1, <2>2 DEF TypeOK
<1>2. ProcInv'
  BY ConstantFacts DEF ProcInv, TypeOK
<1>3. TreeInv'
  BY ConstantFacts DEF TreeInv, ProcInv, TypeOK
<1>4. SumInv'
  BY ConstantFacts DEF SumInv, Done, ProcInv, TypeOK
<1>5. FreezeInv'
  BY ConstantFacts DEF FreezeInv, Content, Done, Summed, ProcInv, TypeOK
<1>6. VersionInv'
  <2>1. PICK v \in {0, changes + 2} : source' = [source EXCEPT ![f] = v]
    OBVIOUS
  <2>2. /\ changes \in Nat /\ changes' = changes + 1
        /\ \A g \in Files : source[g] \in Nat /\ entry[g] \in Nat /\ sha1[g] \in Nat
        /\ \A d \in Folders, g \in Files : listed[d] # None => listed[d][g] \in Nat
    BY ConstantFacts DEF TypeOK, Versions
  <2>3. \A g \in Files : source'[g] = IF g = f THEN v ELSE source[g]
    BY <2>1 DEF TypeOK
  <2>4. \A g \in Files : source'[g] <= changes' + 1 /\ entry[g] <= changes' + 1
    BY <2>2, <2>3 DEF VersionInv
  <2>5. \A d \in Folders, g \in Files : listed[d] # None => listed[d][g] <= changes' + 1
    BY <2>2 DEF VersionInv
  <2>6. ASSUME NEW g \in Files, entry[g] = source'[g]
        PROVE  sha1[g] \in {0, source'[g]} /\ fetched[g] \in {None, 0, source'[g]}
    <3>1. CASE g # f
      BY <2>3, <2>6, <3>1 DEF VersionInv
    <3>2. CASE g = f
      <4>1. entry[f] = 0
        BY <2>2, <2>3, <2>6, <3>2 DEF VersionInv
      <4>. QED
        BY <3>2, <4>1 DEF SumInv
    <3>. QED
      BY <3>1, <3>2
  <2>. QED
    BY <2>4, <2>5, <2>6 DEF VersionInv
<1>7. StillInv'
  BY ConstantFacts DEF StillInv, ProcInv, Versions, TypeOK
<1>8. ScanInv'
  BY ConstantFacts DEF ScanInv, TypeOK
<1>. QED
  BY <1>1, <1>2, <1>3, <1>4, <1>5, <1>6, <1>7, <1>8

LEMMA StartInventoryKeeps ==
  ASSUME IInv, StartInventory
  PROVE  IInv'
<1> USE DEF IInv, StartInventory, world, tables, invMem, invProc, sumProc, frzProc, scanProc
<1>1. TypeOK'
  BY ConstantFacts DEF TypeOK, Versions, PhaseStates
<1>2. ProcInv'
  BY ConstantFacts DEF ProcInv, TypeOK
<1>3. TreeInv'
  BY ConstantFacts DEF TreeInv, ProcInv, TypeOK
<1>4. SumInv'
  BY ConstantFacts DEF SumInv, Done, ProcInv, TypeOK
<1>5. FreezeInv'
  BY ConstantFacts DEF FreezeInv, Content, Done, Summed, ProcInv, TypeOK
<1>6. VersionInv'
  BY ConstantFacts DEF VersionInv, Versions, TypeOK
<1>7. StillInv'
  BY ConstantFacts DEF StillInv, ProcInv, Versions, TypeOK
<1>8. ScanInv'
  BY ConstantFacts DEF ScanInv, TypeOK
<1>. QED
  BY <1>1, <1>2, <1>3, <1>4, <1>5, <1>6, <1>7, <1>8

LEMMA OpenInventoryKeeps ==
  ASSUME IInv, OpenInventory
  PROVE  IInv'
<1> USE DEF IInv, OpenInventory, world, tables, invMem, invProc, sumProc, frzProc, scanProc
<1>1. TypeOK'
  BY ConstantFacts DEF TypeOK, Versions, PhaseStates
<1>2. ProcInv'
  BY ConstantFacts DEF ProcInv, TypeOK
<1>3. TreeInv'
  BY ConstantFacts DEF TreeInv, ProcInv, TypeOK
<1>4. SumInv'
  BY ConstantFacts DEF SumInv, Done, ProcInv, TypeOK
<1>5. FreezeInv'
  BY ConstantFacts DEF FreezeInv, Content, Done, Summed, ProcInv, TypeOK
<1>6. VersionInv'
  BY ConstantFacts DEF VersionInv, Versions, TypeOK
<1>7. StillInv'
  BY ConstantFacts DEF StillInv, ProcInv, Versions, TypeOK
<1>8. ScanInv'
  BY ConstantFacts DEF ScanInv, TypeOK
<1>. QED
  BY <1>1, <1>2, <1>3, <1>4, <1>5, <1>6, <1>7, <1>8

LEMMA MarkRunningKeeps ==
  ASSUME IInv, MarkRunning
  PROVE  IInv'
<1> USE DEF IInv, MarkRunning, world, tables, invMem, invProc, sumProc, frzProc, scanProc
<1>1. TypeOK'
  BY ConstantFacts DEF TypeOK, Versions, PhaseStates
<1>2. ProcInv'
  BY ConstantFacts DEF ProcInv, TypeOK
<1>3. TreeInv'
  BY ConstantFacts DEF TreeInv, ProcInv, TypeOK
<1>4. SumInv'
  BY ConstantFacts DEF SumInv, Done, ProcInv, TypeOK
<1>5. FreezeInv'
  BY ConstantFacts DEF FreezeInv, Content, Done, Summed, ProcInv, TypeOK
<1>6. VersionInv'
  BY ConstantFacts DEF VersionInv, Versions, TypeOK
<1>7. StillInv'
  BY ConstantFacts DEF StillInv, ProcInv, Versions, TypeOK
<1>8. ScanInv'
  BY ConstantFacts DEF ScanInv, TypeOK
<1>. QED
  BY <1>1, <1>2, <1>3, <1>4, <1>5, <1>6, <1>7, <1>8

LEMMA ResetDirectoriesKeeps ==
  ASSUME IInv, ResetDirectories
  PROVE  IInv'
<1> USE DEF IInv, ResetDirectories, Reset, world, tables, invMem, invProc, sumProc, frzProc, scanProc
<1>1. TypeOK'
  BY ConstantFacts DEF TypeOK, Versions, PhaseStates
<1>2. ProcInv'
  BY ConstantFacts DEF ProcInv, TypeOK
<1>3. TreeInv'
  BY ConstantFacts DEF TreeInv, ProcInv, TypeOK
<1>4. SumInv'
  BY ConstantFacts DEF SumInv, Done, ProcInv, TypeOK
<1>5. FreezeInv'
  BY ConstantFacts DEF FreezeInv, Content, Done, Summed, ProcInv, TypeOK
<1>6. VersionInv'
  BY ConstantFacts DEF VersionInv, Versions, TypeOK
<1>7. StillInv'
  BY ConstantFacts DEF StillInv, ProcInv, Versions, TypeOK
<1>8. ScanInv'
  BY ConstantFacts DEF ScanInv, TypeOK
<1>. QED
  BY <1>1, <1>2, <1>3, <1>4, <1>5, <1>6, <1>7, <1>8

LEMMA BindAccountKeeps ==
  ASSUME IInv, BindAccount
  PROVE  IInv'
<1> USE DEF IInv, BindAccount, world, tables, invMem, invProc, sumProc, frzProc, scanProc
<1>1. TypeOK'
  BY ConstantFacts DEF TypeOK, Versions, PhaseStates
<1>2. ProcInv'
  BY ConstantFacts DEF ProcInv, TypeOK
<1>3. TreeInv'
  BY ConstantFacts DEF TreeInv, ProcInv, TypeOK
<1>4. SumInv'
  BY ConstantFacts DEF SumInv, Done, ProcInv, TypeOK
<1>5. FreezeInv'
  BY ConstantFacts DEF FreezeInv, Content, Done, Summed, ProcInv, TypeOK
<1>6. VersionInv'
  BY ConstantFacts DEF VersionInv, Versions, TypeOK
<1>7. StillInv'
  BY ConstantFacts DEF StillInv, ProcInv, Versions, TypeOK
<1>8. ScanInv'
  BY ConstantFacts DEF ScanInv, TypeOK
<1>. QED
  BY <1>1, <1>2, <1>3, <1>4, <1>5, <1>6, <1>7, <1>8

LEMMA BeginListingKeeps ==
  ASSUME IInv, NEW d \in Folders, BeginListing(d)
  PROVE  IInv'
<1> USE DEF IInv, BeginListing, world, tables, invMem, invProc, sumProc, frzProc, scanProc
<1>1. TypeOK'
  BY ConstantFacts DEF TypeOK, Versions, PhaseStates
<1>2. ProcInv'
  BY ConstantFacts DEF ProcInv, TypeOK
<1>3. TreeInv'
  BY ConstantFacts DEF TreeInv, ProcInv, TypeOK
<1>4. SumInv'
  BY ConstantFacts DEF SumInv, Done, ProcInv, TypeOK
<1>5. FreezeInv'
  BY ConstantFacts DEF FreezeInv, Content, Done, Summed, ProcInv, TypeOK
<1>6. VersionInv'
  BY ConstantFacts DEF VersionInv, Versions, TypeOK
<1>7. StillInv'
  BY ConstantFacts DEF StillInv, ProcInv, Versions, TypeOK
<1>8. ScanInv'
  BY ConstantFacts DEF ScanInv, TypeOK
<1>. QED
  BY <1>1, <1>2, <1>3, <1>4, <1>5, <1>6, <1>7, <1>8

LEMMA ListFolderKeeps ==
  ASSUME IInv, NEW d \in Folders, ListFolder(d)
  PROVE  IInv'
<1> USE DEF IInv, ListFolder, world, tables, invMem, invProc, sumProc, frzProc, scanProc
<1>1. TypeOK'
  BY ConstantFacts DEF TypeOK, Versions, PhaseStates
<1>2. ProcInv'
  BY ConstantFacts DEF ProcInv, TypeOK
<1>3. TreeInv'
  BY ConstantFacts DEF TreeInv, ProcInv, TypeOK
<1>4. SumInv'
  BY ConstantFacts DEF SumInv, Done, ProcInv, TypeOK
<1>5. FreezeInv'
  BY ConstantFacts DEF FreezeInv, Content, Done, Summed, ProcInv, TypeOK
<1>6. VersionInv'
  BY ConstantFacts DEF VersionInv, Versions, TypeOK
<1>7. StillInv'
  BY ConstantFacts DEF StillInv, ProcInv, Versions, TypeOK
<1>8. ScanInv'
  BY ConstantFacts DEF ScanInv, TypeOK
<1>. QED
  BY <1>1, <1>2, <1>3, <1>4, <1>5, <1>6, <1>7, <1>8

LEMMA TakeListingKeeps ==
  ASSUME IInv, NEW d \in Folders, TakeListing(d)
  PROVE  IInv'
<1> USE DEF IInv, TakeListing, StaysRunning, RowsOf, world, tables, invMem, invProc, sumProc, frzProc, scanProc
<1>1. TypeOK'
  BY ConstantFacts DEF TypeOK, Versions, PhaseStates
<1>2. ProcInv'
  BY ConstantFacts DEF ProcInv, TypeOK
<1>3. TreeInv'
  BY ConstantFacts DEF TreeInv, ProcInv, TypeOK
<1>4. SumInv'
  BY ConstantFacts DEF SumInv, Done, ProcInv, TypeOK
<1>5. FreezeInv'
  BY ConstantFacts DEF FreezeInv, Content, Done, Summed, ProcInv, TypeOK
<1>6. VersionInv'
  BY ConstantFacts DEF VersionInv, Versions, TypeOK
<1>7. StillInv'
  BY ConstantFacts DEF StillInv, ProcInv, Versions, TypeOK
<1>8. ScanInv'
  BY ConstantFacts DEF ScanInv, TypeOK
<1>. QED
  BY <1>1, <1>2, <1>3, <1>4, <1>5, <1>6, <1>7, <1>8

LEMMA InsertFolderKeeps ==
  ASSUME IInv, NEW c \in Folders, InsertFolder(c)
  PROVE  IInv'
<1> USE DEF IInv, InsertFolder, world, tables, invMem, invProc, sumProc, frzProc, scanProc
<1>1. TypeOK'
  BY ConstantFacts DEF TypeOK, Versions, PhaseStates
<1>2. ProcInv'
  BY ConstantFacts DEF ProcInv, TypeOK
<1>3. TreeInv'
  BY ConstantFacts DEF TreeInv, ProcInv, TypeOK
<1>4. SumInv'
  BY ConstantFacts DEF SumInv, Done, ProcInv, TypeOK
<1>5. FreezeInv'
  BY ConstantFacts DEF FreezeInv, Content, Done, Summed, ProcInv, TypeOK
<1>6. VersionInv'
  BY ConstantFacts DEF VersionInv, Versions, TypeOK
<1>7. StillInv'
  BY ConstantFacts DEF StillInv, ProcInv, Versions, TypeOK
<1>8. ScanInv'
  BY ConstantFacts DEF ScanInv, TypeOK
<1>. QED
  BY <1>1, <1>2, <1>3, <1>4, <1>5, <1>6, <1>7, <1>8

LEMMA FolderFailsKeeps ==
  ASSUME IInv, NEW d \in Folders, FolderFails(d)
  PROVE  IInv'
<1> USE DEF IInv, FolderFails, world, tables, invMem, invProc, sumProc, frzProc, scanProc
<1>1. TypeOK'
  BY ConstantFacts DEF TypeOK, Versions, PhaseStates
<1>2. ProcInv'
  BY ConstantFacts DEF ProcInv, TypeOK
<1>3. TreeInv'
  BY ConstantFacts DEF TreeInv, ProcInv, TypeOK
<1>4. SumInv'
  BY ConstantFacts DEF SumInv, Done, ProcInv, TypeOK
<1>5. FreezeInv'
  BY ConstantFacts DEF FreezeInv, Content, Done, Summed, ProcInv, TypeOK
<1>6. VersionInv'
  BY ConstantFacts DEF VersionInv, Versions, TypeOK
<1>7. StillInv'
  BY ConstantFacts DEF StillInv, ProcInv, Versions, TypeOK
<1>8. ScanInv'
  BY ConstantFacts DEF ScanInv, TypeOK
<1>. QED
  BY <1>1, <1>2, <1>3, <1>4, <1>5, <1>6, <1>7, <1>8

LEMMA InsertFileKeeps ==
  ASSUME IInv, NEW f \in Files, InsertFile(f)
  PROVE  IInv'
<1> USE DEF IInv, InsertFile, world, tables, invMem, invProc, sumProc, frzProc, scanProc
<1>1. TypeOK'
  <2>1. current \in Folders /\ listed[current] \in [Files -> Versions]
    BY ConstantFacts DEF ProcInv, TypeOK
  <2>2. entry' \in [Files -> Versions] /\ sha1' \in [Files -> Versions]
    BY <2>1, ConstantFacts DEF TypeOK
  <2>. QED
    BY <2>2 DEF TypeOK
<1>2. ProcInv'
  BY ConstantFacts DEF ProcInv, TypeOK
<1>3. TreeInv'
  BY ConstantFacts DEF TreeInv, ProcInv, TypeOK
<1>4. SumInv'
  BY ConstantFacts DEF SumInv, Done, ProcInv, TypeOK
<1>5. FreezeInv'
  BY ConstantFacts DEF FreezeInv, Content, Done, Summed, ProcInv, TypeOK
<1>6. VersionInv'
  <2>1. current \in Folders /\ listed[current] # None
    BY ConstantFacts DEF ProcInv, TypeOK
  <2>2. fetched[f] = None
    BY <2>1, ConstantFacts DEF ProcInv, SumInv, Done
  <2>3. \A g \in Files : g # f => entry'[g] = entry[g] /\ sha1'[g] = sha1[g]
    BY DEF TypeOK
  <2>4. entry'[f] = listed[current][f] /\ sha1'[f] = 0
    BY DEF TypeOK
  <2>. QED
    BY <2>1, <2>2, <2>3, <2>4 DEF VersionInv
<1>7. StillInv'
  BY ConstantFacts DEF StillInv, ProcInv, Versions, TypeOK
<1>8. ScanInv'
  BY ConstantFacts DEF ScanInv, TypeOK
<1>. QED
  BY <1>1, <1>2, <1>3, <1>4, <1>5, <1>6, <1>7, <1>8

LEMMA AwaitListingsKeeps ==
  ASSUME IInv, AwaitListings
  PROVE  IInv'
<1> USE DEF IInv, AwaitListings, world, tables, invMem, invProc, sumProc, frzProc, scanProc
<1>1. TypeOK'
  BY ConstantFacts DEF TypeOK, Versions, PhaseStates
<1>2. ProcInv'
  BY ConstantFacts DEF ProcInv, TypeOK
<1>3. TreeInv'
  BY ConstantFacts DEF TreeInv, ProcInv, TypeOK
<1>4. SumInv'
  BY ConstantFacts DEF SumInv, Done, ProcInv, TypeOK
<1>5. FreezeInv'
  BY ConstantFacts DEF FreezeInv, Content, Done, Summed, ProcInv, TypeOK
<1>6. VersionInv'
  BY ConstantFacts DEF VersionInv, Versions, TypeOK
<1>7. StillInv'
  BY ConstantFacts DEF StillInv, ProcInv, Versions, TypeOK
<1>8. ScanInv'
  BY ConstantFacts DEF ScanInv, TypeOK
<1>. QED
  BY <1>1, <1>2, <1>3, <1>4, <1>5, <1>6, <1>7, <1>8

LEMMA FolderCompletesKeeps ==
  ASSUME IInv, FolderCompletes
  PROVE  IInv'
<1> USE DEF IInv, FolderCompletes, world, tables, invMem, invProc, sumProc, frzProc, scanProc
<1>1. TypeOK'
  BY ConstantFacts DEF TypeOK, Versions, PhaseStates
<1>2. ProcInv'
  BY ConstantFacts DEF ProcInv, TypeOK
<1>3. TreeInv'
  BY ConstantFacts DEF TreeInv, ProcInv, TypeOK
<1>4. SumInv'
  BY ConstantFacts DEF SumInv, Done, ProcInv, TypeOK
<1>5. FreezeInv'
  BY ConstantFacts DEF FreezeInv, Content, Done, Summed, ProcInv, TypeOK
<1>6. VersionInv'
  BY ConstantFacts DEF VersionInv, Versions, TypeOK
<1>7. StillInv'
  BY ConstantFacts DEF StillInv, ProcInv, Versions, TypeOK
<1>8. ScanInv'
  BY ConstantFacts DEF ScanInv, TypeOK
<1>. QED
  BY <1>1, <1>2, <1>3, <1>4, <1>5, <1>6, <1>7, <1>8

LEMMA FinishInventoryKeeps ==
  ASSUME IInv, FinishInventory
  PROVE  IInv'
<1> USE DEF IInv, FinishInventory, InventoryState, world, tables, invMem, invProc, sumProc, frzProc, scanProc
<1>1. TypeOK'
  BY ConstantFacts DEF TypeOK, Versions, PhaseStates
<1>2. ProcInv'
  BY ConstantFacts DEF ProcInv, TypeOK
<1>3. TreeInv'
  BY ConstantFacts DEF TreeInv, ProcInv, TypeOK
<1>4. SumInv'
  BY ConstantFacts DEF SumInv, Done, ProcInv, TypeOK
<1>5. FreezeInv'
  BY ConstantFacts DEF FreezeInv, Content, Done, Summed, ProcInv, TypeOK
<1>6. VersionInv'
  BY ConstantFacts DEF VersionInv, Versions, TypeOK
<1>7. StillInv'
  BY ConstantFacts DEF StillInv, ProcInv, Versions, TypeOK
<1>8. ScanInv'
  BY ConstantFacts DEF ScanInv, TypeOK
<1>. QED
  BY <1>1, <1>2, <1>3, <1>4, <1>5, <1>6, <1>7, <1>8

LEMMA InventoryExitsKeeps ==
  ASSUME IInv, InventoryExits
  PROVE  IInv'
<1> USE DEF IInv, InventoryExits, InventoryState, InventoryEnds, world, tables, invMem, invProc, sumProc, frzProc, scanProc
<1>1. TypeOK'
  BY ConstantFacts DEF TypeOK, Versions, PhaseStates
<1>2. ProcInv'
  BY ConstantFacts DEF ProcInv, TypeOK
<1>3. TreeInv'
  BY ConstantFacts DEF TreeInv, ProcInv, TypeOK
<1>4. SumInv'
  BY ConstantFacts DEF SumInv, Done, ProcInv, TypeOK
<1>5. FreezeInv'
  BY ConstantFacts DEF FreezeInv, Content, Done, Summed, ProcInv, TypeOK
<1>6. VersionInv'
  BY ConstantFacts DEF VersionInv, Versions, TypeOK
<1>7. StillInv'
  BY ConstantFacts DEF StillInv, ProcInv, Versions, TypeOK
<1>8. ScanInv'
  BY ConstantFacts DEF ScanInv, TypeOK
<1>. QED
  BY <1>1, <1>2, <1>3, <1>4, <1>5, <1>6, <1>7, <1>8

LEMMA InventoryDiesKeeps ==
  ASSUME IInv, InventoryDies
  PROVE  IInv'
<1> USE DEF IInv, InventoryDies, InventoryEnds, world, tables, invMem, invProc, sumProc, frzProc, scanProc
<1>1. TypeOK'
  BY ConstantFacts DEF TypeOK, Versions, PhaseStates
<1>2. ProcInv'
  BY ConstantFacts DEF ProcInv, TypeOK
<1>3. TreeInv'
  BY ConstantFacts DEF TreeInv, ProcInv, TypeOK
<1>4. SumInv'
  BY ConstantFacts DEF SumInv, Done, ProcInv, TypeOK
<1>5. FreezeInv'
  BY ConstantFacts DEF FreezeInv, Content, Done, Summed, ProcInv, TypeOK
<1>6. VersionInv'
  BY ConstantFacts DEF VersionInv, Versions, TypeOK
<1>7. StillInv'
  BY ConstantFacts DEF StillInv, ProcInv, Versions, TypeOK
<1>8. ScanInv'
  BY ConstantFacts DEF ScanInv, TypeOK
<1>. QED
  BY <1>1, <1>2, <1>3, <1>4, <1>5, <1>6, <1>7, <1>8

LEMMA StartChecksumsKeeps ==
  ASSUME IInv, StartChecksums
  PROVE  IInv'
<1> USE DEF IInv, StartChecksums, world, tables, invMem, invProc, sumProc, frzProc, scanProc
<1>1. TypeOK'
  BY ConstantFacts DEF TypeOK, Versions, PhaseStates
<1>2. ProcInv'
  BY ConstantFacts DEF ProcInv, TypeOK
<1>3. TreeInv'
  BY ConstantFacts DEF TreeInv, ProcInv, TypeOK
<1>4. SumInv'
  BY ConstantFacts DEF SumInv, Done, ProcInv, TypeOK
<1>5. FreezeInv'
  BY ConstantFacts DEF FreezeInv, Content, Done, Summed, ProcInv, TypeOK
<1>6. VersionInv'
  BY ConstantFacts DEF VersionInv, Versions, TypeOK
<1>7. StillInv'
  BY ConstantFacts DEF StillInv, ProcInv, Versions, TypeOK
<1>8. ScanInv'
  BY ConstantFacts DEF ScanInv, TypeOK
<1>. QED
  BY <1>1, <1>2, <1>3, <1>4, <1>5, <1>6, <1>7, <1>8

LEMMA OpenChecksumsKeeps ==
  ASSUME IInv, OpenChecksums
  PROVE  IInv'
<1> USE DEF IInv, OpenChecksums, AllListed, Rows, world, tables, invMem, invProc, sumProc, frzProc, scanProc
<1>1. TypeOK'
  BY ConstantFacts DEF TypeOK, Versions, PhaseStates
<1>2. ProcInv'
  BY ConstantFacts DEF ProcInv, TypeOK
<1>3. TreeInv'
  BY ConstantFacts DEF TreeInv, ProcInv, TypeOK
<1>4. SumInv'
  <2>1. dirStatus[Root] # "none"
    BY DEF TreeInv
  <2>2. Done
    BY <2>1, RowsAreFolders
  <2>. QED
    BY <2>2 DEF SumInv, Done
<1>5. FreezeInv'
  BY ConstantFacts DEF FreezeInv, Content, Done, Summed, ProcInv, TypeOK
<1>6. VersionInv'
  BY ConstantFacts DEF VersionInv, Versions, TypeOK
<1>7. StillInv'
  BY ConstantFacts DEF StillInv, ProcInv, Versions, TypeOK
<1>8. ScanInv'
  BY ConstantFacts DEF ScanInv, TypeOK
<1>. QED
  BY <1>1, <1>2, <1>3, <1>4, <1>5, <1>6, <1>7, <1>8

LEMMA SelectBatchKeeps ==
  ASSUME IInv, SelectBatch
  PROVE  IInv'
<1> USE DEF IInv, SelectBatch, NoSum, world, tables, invMem, invProc, sumProc, frzProc, scanProc
<1>1. TypeOK'
  BY ConstantFacts DEF TypeOK, Versions, PhaseStates
<1>2. ProcInv'
  BY ConstantFacts DEF ProcInv, TypeOK
<1>3. TreeInv'
  BY ConstantFacts DEF TreeInv, ProcInv, TypeOK
<1>4. SumInv'
  BY ConstantFacts DEF SumInv, Done, ProcInv, TypeOK
<1>5. FreezeInv'
  BY ConstantFacts DEF FreezeInv, Content, Done, Summed, ProcInv, TypeOK
<1>6. VersionInv'
  BY ConstantFacts DEF VersionInv, Versions, TypeOK
<1>7. StillInv'
  BY ConstantFacts DEF StillInv, ProcInv, Versions, TypeOK
<1>8. ScanInv'
  BY ConstantFacts DEF ScanInv, TypeOK
<1>. QED
  BY <1>1, <1>2, <1>3, <1>4, <1>5, <1>6, <1>7, <1>8

LEMMA ChecksumsExitKeeps ==
  ASSUME IInv, ChecksumsExit
  PROVE  IInv'
<1> USE DEF IInv, ChecksumsExit, ChecksumsEnd, NoSum, world, tables, invMem, invProc, sumProc, frzProc, scanProc
<1>1. TypeOK'
  BY ConstantFacts DEF TypeOK, Versions, PhaseStates
<1>2. ProcInv'
  BY ConstantFacts DEF ProcInv, TypeOK
<1>3. TreeInv'
  BY ConstantFacts DEF TreeInv, ProcInv, TypeOK
<1>4. SumInv'
  BY ConstantFacts DEF SumInv, Done, ProcInv, TypeOK
<1>5. FreezeInv'
  BY ConstantFacts DEF FreezeInv, Content, Done, Summed, ProcInv, TypeOK
<1>6. VersionInv'
  BY ConstantFacts DEF VersionInv, Versions, TypeOK
<1>7. StillInv'
  BY ConstantFacts DEF StillInv, ProcInv, Versions, TypeOK
<1>8. ScanInv'
  BY ConstantFacts DEF ScanInv, TypeOK
<1>. QED
  BY <1>1, <1>2, <1>3, <1>4, <1>5, <1>6, <1>7, <1>8

LEMMA ChecksumsDieKeeps ==
  ASSUME IInv, ChecksumsDie
  PROVE  IInv'
<1> USE DEF IInv, ChecksumsDie, ChecksumsEnd, world, tables, invMem, invProc, sumProc, frzProc, scanProc
<1>1. TypeOK'
  BY ConstantFacts DEF TypeOK, Versions, PhaseStates
<1>2. ProcInv'
  BY ConstantFacts DEF ProcInv, TypeOK
<1>3. TreeInv'
  BY ConstantFacts DEF TreeInv, ProcInv, TypeOK
<1>4. SumInv'
  BY ConstantFacts DEF SumInv, Done, ProcInv, TypeOK
<1>5. FreezeInv'
  BY ConstantFacts DEF FreezeInv, Content, Done, Summed, ProcInv, TypeOK
<1>6. VersionInv'
  BY ConstantFacts DEF VersionInv, Versions, TypeOK
<1>7. StillInv'
  BY ConstantFacts DEF StillInv, ProcInv, Versions, TypeOK
<1>8. ScanInv'
  BY ConstantFacts DEF ScanInv, TypeOK
<1>. QED
  BY <1>1, <1>2, <1>3, <1>4, <1>5, <1>6, <1>7, <1>8

LEMMA FetchChecksumKeeps ==
  ASSUME IInv, NEW f \in Files, FetchChecksum(f)
  PROVE  IInv'
<1> USE DEF IInv, FetchChecksum, world, tables, invMem, invProc, sumProc, frzProc, scanProc
<1>1. TypeOK'
  BY ConstantFacts DEF TypeOK, Versions, PhaseStates
<1>2. ProcInv'
  BY ConstantFacts DEF ProcInv, TypeOK
<1>3. TreeInv'
  BY ConstantFacts DEF TreeInv, ProcInv, TypeOK
<1>4. SumInv'
  BY ConstantFacts DEF SumInv, Done, ProcInv, TypeOK
<1>5. FreezeInv'
  BY ConstantFacts DEF FreezeInv, Content, Done, Summed, ProcInv, TypeOK
<1>6. VersionInv'
  BY ConstantFacts DEF VersionInv, Versions, TypeOK
<1>7. StillInv'
  BY ConstantFacts DEF StillInv, ProcInv, Versions, TypeOK
<1>8. ScanInv'
  BY ConstantFacts DEF ScanInv, TypeOK
<1>. QED
  BY <1>1, <1>2, <1>3, <1>4, <1>5, <1>6, <1>7, <1>8

LEMMA RecordChecksumKeeps ==
  ASSUME IInv, NEW f \in Files, RecordChecksum(f)
  PROVE  IInv'
<1> USE DEF IInv, RecordChecksum, world, tables, invMem, invProc, sumProc, frzProc, scanProc
<1>1. TypeOK'
  BY ConstantFacts DEF TypeOK, Versions, PhaseStates
<1>2. ProcInv'
  BY ConstantFacts DEF ProcInv, TypeOK
<1>3. TreeInv'
  BY ConstantFacts DEF TreeInv, ProcInv, TypeOK
<1>4. SumInv'
  BY ConstantFacts DEF SumInv, Done, ProcInv, TypeOK
<1>5. FreezeInv'
  <2>1. ~Summed
    BY DEF SumInv, Summed
  <2>2. frozen = None /\ \A p \in Freezers : freezer[p] \notin {"digest", "begin"}
    BY <2>1 DEF FreezeInv
  <2>. QED
    BY <2>2 DEF FreezeInv, Done
<1>6. VersionInv'
  BY ConstantFacts DEF VersionInv, Versions, TypeOK
<1>7. StillInv'
  BY ConstantFacts DEF StillInv, ProcInv, Versions, TypeOK
<1>8. ScanInv'
  BY ConstantFacts DEF ScanInv, TypeOK
<1>. QED
  BY <1>1, <1>2, <1>3, <1>4, <1>5, <1>6, <1>7, <1>8

LEMMA StartFreezeKeeps ==
  ASSUME IInv, NEW p \in Freezers, StartFreeze(p)
  PROVE  IInv'
<1> USE DEF IInv, StartFreeze, Goto, world, tables, invMem, invProc, sumProc, frzProc, scanProc
<1>1. TypeOK'
  BY ConstantFacts DEF TypeOK, Versions, PhaseStates
<1>2. ProcInv'
  BY ConstantFacts DEF ProcInv, TypeOK
<1>3. TreeInv'
  BY ConstantFacts DEF TreeInv, ProcInv, TypeOK
<1>4. SumInv'
  BY ConstantFacts DEF SumInv, Done, ProcInv, TypeOK
<1>5. FreezeInv'
  BY ConstantFacts DEF FreezeInv, Content, Done, Summed, ProcInv, TypeOK
<1>6. VersionInv'
  BY ConstantFacts DEF VersionInv, Versions, TypeOK
<1>7. StillInv'
  BY ConstantFacts DEF StillInv, ProcInv, Versions, TypeOK
<1>8. ScanInv'
  BY ConstantFacts DEF ScanInv, TypeOK
<1>. QED
  BY <1>1, <1>2, <1>3, <1>4, <1>5, <1>6, <1>7, <1>8

LEMMA ReadValuesKeeps ==
  ASSUME IInv, NEW p \in Freezers, ReadValues(p)
  PROVE  IInv'
<1> USE DEF IInv, ReadValues, Goto, world, tables, invMem, invProc, sumProc, frzProc, scanProc
<1>1. TypeOK'
  BY ConstantFacts DEF TypeOK, Versions, PhaseStates
<1>2. ProcInv'
  BY ConstantFacts DEF ProcInv, TypeOK
<1>3. TreeInv'
  BY ConstantFacts DEF TreeInv, ProcInv, TypeOK
<1>4. SumInv'
  BY ConstantFacts DEF SumInv, Done, ProcInv, TypeOK
<1>5. FreezeInv'
  <2>1. status = "complete" => dirStatus[Root] # "none"
    BY DEF TreeInv
  <2>2. \A q \in Freezers : q # p => freezer'[q] = freezer[q]
    BY DEF TypeOK
  <2>3. \/ freezer'[p] = "report"
        \/ freezer'[p] = "dirs" /\ status = "complete"
    BY DEF TypeOK
  <2>. QED
    BY <2>1, <2>2, <2>3 DEF FreezeInv, Content, Done, Summed
<1>6. VersionInv'
  BY ConstantFacts DEF VersionInv, Versions, TypeOK
<1>7. StillInv'
  BY ConstantFacts DEF StillInv, ProcInv, Versions, TypeOK
<1>8. ScanInv'
  BY ConstantFacts DEF ScanInv, TypeOK
<1>. QED
  BY <1>1, <1>2, <1>3, <1>4, <1>5, <1>6, <1>7, <1>8

LEMMA CheckDirectoriesKeeps ==
  ASSUME IInv, NEW p \in Freezers, CheckDirectories(p)
  PROVE  IInv'
<1> USE DEF IInv, CheckDirectories, Goto, Rows, world, tables, invMem, invProc, sumProc, frzProc, scanProc
<1>1. TypeOK'
  BY ConstantFacts DEF TypeOK, Versions, PhaseStates
<1>2. ProcInv'
  BY ConstantFacts DEF ProcInv, TypeOK
<1>3. TreeInv'
  BY ConstantFacts DEF TreeInv, ProcInv, TypeOK
<1>4. SumInv'
  BY ConstantFacts DEF SumInv, Done, ProcInv, TypeOK
<1>5. FreezeInv'
  <2>1. dirStatus[Root] # "none"
    BY DEF FreezeInv
  <2>2. Done
    BY <2>1, RowsAreFolders
  <2>3. \A q \in Freezers : freezer'[q] = IF q = p THEN "sums" ELSE freezer[q]
    BY DEF TypeOK
  <2>. QED
    BY <2>2, <2>3 DEF FreezeInv, Content, Done, Summed
<1>6. VersionInv'
  BY ConstantFacts DEF VersionInv, Versions, TypeOK
<1>7. StillInv'
  BY ConstantFacts DEF StillInv, ProcInv, Versions, TypeOK
<1>8. ScanInv'
  BY ConstantFacts DEF ScanInv, TypeOK
<1>. QED
  BY <1>1, <1>2, <1>3, <1>4, <1>5, <1>6, <1>7, <1>8

LEMMA CheckSumsKeeps ==
  ASSUME IInv, NEW p \in Freezers, CheckSums(p)
  PROVE  IInv'
<1> USE DEF IInv, CheckSums, Goto, NoSum, world, tables, invMem, invProc, sumProc, frzProc, scanProc
<1>1. TypeOK'
  BY ConstantFacts DEF TypeOK, Versions, PhaseStates
<1>2. ProcInv'
  BY ConstantFacts DEF ProcInv, TypeOK
<1>3. TreeInv'
  BY ConstantFacts DEF TreeInv, ProcInv, TypeOK
<1>4. SumInv'
  BY ConstantFacts DEF SumInv, Done, ProcInv, TypeOK
<1>5. FreezeInv'
  BY ConstantFacts DEF FreezeInv, Content, Done, Summed, ProcInv, TypeOK
<1>6. VersionInv'
  BY ConstantFacts DEF VersionInv, Versions, TypeOK
<1>7. StillInv'
  BY ConstantFacts DEF StillInv, ProcInv, Versions, TypeOK
<1>8. ScanInv'
  BY ConstantFacts DEF ScanInv, TypeOK
<1>. QED
  BY <1>1, <1>2, <1>3, <1>4, <1>5, <1>6, <1>7, <1>8

LEMMA ComputeDigestKeeps ==
  ASSUME IInv, NEW p \in Freezers, ComputeDigest(p)
  PROVE  IInv'
<1> USE DEF IInv, ComputeDigest, Goto, world, tables, invMem, invProc, sumProc, frzProc, scanProc
<1>1. TypeOK'
  BY ContentIsSnapshot DEF TypeOK
<1>2. ProcInv'
  BY ConstantFacts DEF ProcInv, TypeOK
<1>3. TreeInv'
  BY ConstantFacts DEF TreeInv, ProcInv, TypeOK
<1>4. SumInv'
  BY ConstantFacts DEF SumInv, Done, ProcInv, TypeOK
<1>5. FreezeInv'
  BY ConstantFacts DEF FreezeInv, Content, Done, Summed, ProcInv, TypeOK
<1>6. VersionInv'
  BY ConstantFacts DEF VersionInv, Versions, TypeOK
<1>7. StillInv'
  BY ConstantFacts DEF StillInv, ProcInv, Versions, TypeOK
<1>8. ScanInv'
  BY ConstantFacts DEF ScanInv, TypeOK
<1>. QED
  BY <1>1, <1>2, <1>3, <1>4, <1>5, <1>6, <1>7, <1>8

LEMMA CommitFreezeKeeps ==
  ASSUME IInv, NEW p \in Freezers, CommitFreeze(p)
  PROVE  IInv'
<1> USE DEF IInv, CommitFreeze, Goto, world, tables, invMem, invProc, sumProc, frzProc, scanProc
<1>1. TypeOK'
  BY ConstantFacts DEF TypeOK, Versions, PhaseStates
<1>2. ProcInv'
  BY ConstantFacts DEF ProcInv, TypeOK
<1>3. TreeInv'
  BY ConstantFacts DEF TreeInv, ProcInv, TypeOK
<1>4. SumInv'
  BY ConstantFacts DEF SumInv, Done, ProcInv, TypeOK
<1>5. FreezeInv'
  BY ConstantFacts DEF FreezeInv, Content, Done, Summed, ProcInv, TypeOK
<1>6. VersionInv'
  BY ConstantFacts DEF VersionInv, Versions, TypeOK
<1>7. StillInv'
  BY ConstantFacts DEF StillInv, ProcInv, Versions, TypeOK
<1>8. ScanInv'
  BY ConstantFacts DEF ScanInv, TypeOK
<1>. QED
  BY <1>1, <1>2, <1>3, <1>4, <1>5, <1>6, <1>7, <1>8

LEMMA ReportFreezeKeeps ==
  ASSUME IInv, NEW p \in Freezers, ReportFreeze(p)
  PROVE  IInv'
<1> USE DEF IInv, ReportFreeze, Goto, world, tables, invMem, invProc, sumProc, frzProc, scanProc
<1>1. TypeOK'
  BY ConstantFacts DEF TypeOK, Versions, PhaseStates
<1>2. ProcInv'
  BY ConstantFacts DEF ProcInv, TypeOK
<1>3. TreeInv'
  BY ConstantFacts DEF TreeInv, ProcInv, TypeOK
<1>4. SumInv'
  BY ConstantFacts DEF SumInv, Done, ProcInv, TypeOK
<1>5. FreezeInv'
  BY ConstantFacts DEF FreezeInv, Content, Done, Summed, ProcInv, TypeOK
<1>6. VersionInv'
  BY ConstantFacts DEF VersionInv, Versions, TypeOK
<1>7. StillInv'
  BY ConstantFacts DEF StillInv, ProcInv, Versions, TypeOK
<1>8. ScanInv'
  BY ConstantFacts DEF ScanInv, TypeOK
<1>. QED
  BY <1>1, <1>2, <1>3, <1>4, <1>5, <1>6, <1>7, <1>8

LEMMA FreezeEndsKeeps ==
  ASSUME IInv, NEW p \in Freezers, FreezeEnds(p)
  PROVE  IInv'
<1> USE DEF IInv, FreezeEnds, Goto, world, tables, invMem, invProc, sumProc, frzProc, scanProc
<1>1. TypeOK'
  BY ConstantFacts DEF TypeOK, Versions, PhaseStates
<1>2. ProcInv'
  BY ConstantFacts DEF ProcInv, TypeOK
<1>3. TreeInv'
  BY ConstantFacts DEF TreeInv, ProcInv, TypeOK
<1>4. SumInv'
  BY ConstantFacts DEF SumInv, Done, ProcInv, TypeOK
<1>5. FreezeInv'
  BY ConstantFacts DEF FreezeInv, Content, Done, Summed, ProcInv, TypeOK
<1>6. VersionInv'
  BY ConstantFacts DEF VersionInv, Versions, TypeOK
<1>7. StillInv'
  BY ConstantFacts DEF StillInv, ProcInv, Versions, TypeOK
<1>8. ScanInv'
  BY ConstantFacts DEF ScanInv, TypeOK
<1>. QED
  BY <1>1, <1>2, <1>3, <1>4, <1>5, <1>6, <1>7, <1>8

LEMMA StartScanKeeps ==
  ASSUME IInv, StartScan
  PROVE  IInv'
<1> USE DEF IInv, StartScan, world, tables, invMem, invProc, sumProc, frzProc, scanProc
<1>1. TypeOK'
  BY ConstantFacts DEF TypeOK, Versions, PhaseStates
<1>2. ProcInv'
  BY ConstantFacts DEF ProcInv, TypeOK
<1>3. TreeInv'
  BY ConstantFacts DEF TreeInv, ProcInv, TypeOK
<1>4. SumInv'
  BY ConstantFacts DEF SumInv, Done, ProcInv, TypeOK
<1>5. FreezeInv'
  BY ConstantFacts DEF FreezeInv, Content, Done, Summed, ProcInv, TypeOK
<1>6. VersionInv'
  BY ConstantFacts DEF VersionInv, Versions, TypeOK
<1>7. StillInv'
  BY ConstantFacts DEF StillInv, ProcInv, Versions, TypeOK
<1>8. ScanInv'
  BY ConstantFacts DEF ScanInv, TypeOK
<1>. QED
  BY <1>1, <1>2, <1>3, <1>4, <1>5, <1>6, <1>7, <1>8

LEMMA ScanFolderKeeps ==
  ASSUME IInv, NEW d \in Folders, ScanFolder(d)
  PROVE  IInv'
<1> USE DEF IInv, ScanFolder, world, tables, invMem, invProc, sumProc, frzProc, scanProc
<1>1. TypeOK'
  BY ConstantFacts DEF TypeOK, Versions, PhaseStates
<1>2. ProcInv'
  BY ConstantFacts DEF ProcInv, TypeOK
<1>3. TreeInv'
  BY ConstantFacts DEF TreeInv, ProcInv, TypeOK
<1>4. SumInv'
  BY ConstantFacts DEF SumInv, Done, ProcInv, TypeOK
<1>5. FreezeInv'
  BY ConstantFacts DEF FreezeInv, Content, Done, Summed, ProcInv, TypeOK
<1>6. VersionInv'
  BY ConstantFacts DEF VersionInv, Versions, TypeOK
<1>7. StillInv'
  BY ConstantFacts DEF StillInv, ProcInv, Versions, TypeOK
<1>8. ScanInv'
  BY ConstantFacts DEF ScanInv, TypeOK
<1>. QED
  BY <1>1, <1>2, <1>3, <1>4, <1>5, <1>6, <1>7, <1>8

LEMMA CompareLiveKeeps ==
  ASSUME IInv, CompareLive
  PROVE  IInv'
<1> USE DEF IInv, CompareLive, Differs, world, tables, invMem, invProc, sumProc, frzProc, scanProc
<1>1. TypeOK'
  BY ConstantFacts DEF TypeOK, Versions, PhaseStates
<1>2. ProcInv'
  BY ConstantFacts DEF ProcInv, TypeOK
<1>3. TreeInv'
  BY ConstantFacts DEF TreeInv, ProcInv, TypeOK
<1>4. SumInv'
  BY ConstantFacts DEF SumInv, Done, ProcInv, TypeOK
<1>5. FreezeInv'
  BY ConstantFacts DEF FreezeInv, Content, Done, Summed, ProcInv, TypeOK
<1>6. VersionInv'
  BY ConstantFacts DEF VersionInv, Versions, TypeOK
<1>7. StillInv'
  BY ConstantFacts DEF StillInv, ProcInv, Versions, TypeOK
<1>8. ScanInv'
  <2>1. frozen # None
    BY ContentIsSnapshot
  <2>2. ASSUME ~Differs, quiet PROVE entry = source
    <3>1. \A f \in Files : entry[f] = source[f]
      BY <2>2 DEF ScanInv
    <3>. QED
      BY <3>1 DEF TypeOK
  <2>. QED
    BY <2>1, <2>2 DEF ScanInv
<1>. QED
  BY <1>1, <1>2, <1>3, <1>4, <1>5, <1>6, <1>7, <1>8

LEMMA ScanDiesKeeps ==
  ASSUME IInv, ScanDies
  PROVE  IInv'
<1> USE DEF IInv, ScanDies, world, tables, invMem, invProc, sumProc, frzProc, scanProc
<1>1. TypeOK'
  BY ConstantFacts DEF TypeOK, Versions, PhaseStates
<1>2. ProcInv'
  BY ConstantFacts DEF ProcInv, TypeOK
<1>3. TreeInv'
  BY ConstantFacts DEF TreeInv, ProcInv, TypeOK
<1>4. SumInv'
  BY ConstantFacts DEF SumInv, Done, ProcInv, TypeOK
<1>5. FreezeInv'
  BY ConstantFacts DEF FreezeInv, Content, Done, Summed, ProcInv, TypeOK
<1>6. VersionInv'
  BY ConstantFacts DEF VersionInv, Versions, TypeOK
<1>7. StillInv'
  BY ConstantFacts DEF StillInv, ProcInv, Versions, TypeOK
<1>8. ScanInv'
  BY ConstantFacts DEF ScanInv, TypeOK
<1>. QED
  BY <1>1, <1>2, <1>3, <1>4, <1>5, <1>6, <1>7, <1>8

LEMMA InitIInv == Init => IInv
<1> SUFFICES ASSUME Init PROVE IInv
  OBVIOUS
<1> USE DEF Init
<1>1. TypeOK
  <2>1. {0, 1} \subseteq Versions /\ source \in [Files -> Versions]
    BY ConstantFacts DEF Versions
  <2>2. 0 \in 0..MaxChanges /\ 0 \in 0..MaxRetries /\ 0 \in Versions
    BY ConstantFacts
  <2>3. entry \in [Files -> Versions] /\ live \in [Files -> Versions] /\ dirAttempts \in [Folders -> 0..MaxRetries]
    BY <2>2
  <2>. QED
    BY <2>1, <2>2, <2>3 DEF TypeOK, PhaseStates
<1>2. ProcInv /\ SumInv /\ FreezeInv
  BY ConstantFacts DEF ProcInv, SumInv, FreezeInv, Done, Summed
<1>3. TreeInv
  BY ConstantFacts DEF TreeInv
<1>4. VersionInv /\ StillInv /\ ScanInv
  BY ConstantFacts DEF VersionInv, StillInv, ScanInv
<1>. QED
  BY <1>1, <1>2, <1>3, <1>4 DEF IInv

LEMMA StutterKeeps ==
  ASSUME IInv, UNCHANGED vars
  PROVE  IInv'
<1> USE DEF IInv, vars, world, tables, invMem, invProc, sumProc, frzProc, scanProc
<1>1. TypeOK' /\ ProcInv' /\ TreeInv' /\ SumInv'
  BY DEF TypeOK, ProcInv, TreeInv, SumInv, Done
<1>2. FreezeInv' /\ VersionInv' /\ StillInv' /\ ScanInv'
  BY DEF FreezeInv, Content, Done, Summed, VersionInv, StillInv, ScanInv
<1>. QED
  BY <1>1, <1>2

LEMMA StepIInv == IInv /\ [Next]_vars => IInv'
<1> SUFFICES ASSUME IInv, [Next]_vars PROVE IInv'
  OBVIOUS
<1>1. CASE UNCHANGED vars
  BY <1>1, StutterKeeps
<1>2. CASE \E f \in Files : SourceChanges(f)
  BY <1>2, SourceChangesKeeps
<1>3. CASE InventoryStep
  BY <1>3, StartInventoryKeeps, OpenInventoryKeeps, MarkRunningKeeps, ResetDirectoriesKeeps,
     BindAccountKeeps, BeginListingKeeps, ListFolderKeeps, TakeListingKeeps, InsertFolderKeeps,
     FolderFailsKeeps, InsertFileKeeps, AwaitListingsKeeps, FolderCompletesKeeps, FinishInventoryKeeps,
     InventoryExitsKeeps, InventoryDiesKeeps DEF InventoryStep
<1>4. CASE ChecksumsStep
  BY <1>4, StartChecksumsKeeps, OpenChecksumsKeeps, SelectBatchKeeps, ChecksumsExitKeeps,
     ChecksumsDieKeeps, FetchChecksumKeeps, RecordChecksumKeeps DEF ChecksumsStep
<1>5. CASE \E p \in Freezers : FreezeStep(p)
  BY <1>5, StartFreezeKeeps, ReadValuesKeeps, CheckDirectoriesKeeps, CheckSumsKeeps, ComputeDigestKeeps,
     CommitFreezeKeeps, ReportFreezeKeeps, FreezeEndsKeeps DEF FreezeStep
<1>6. CASE ScanStep
  BY <1>6, StartScanKeeps, ScanFolderKeeps, CompareLiveKeeps, ScanDiesKeeps DEF ScanStep
<1>. QED
  BY <1>1, <1>2, <1>3, <1>4, <1>5, <1>6 DEF Next

\* How far each process has come, and what that says of the tables, holds in every state,
\* whatever the source does and whoever is killed.
THEOREM ManifestInvariant == Spec => []IInv
<1>. QED
  BY InitIInv, StepIInv, PTL DEF Spec

-----------------------------------------------------------------------------
(* The properties *)

\* Tables, files and processes keep their types.
THEOREM ManifestTypeOK == Spec => []TypeOK
<1>. QED
  BY ManifestInvariant, PTL DEF IInv

\* The digest that was frozen is that of the rows, though it is computed before the
\* transaction and an inventory or a checksum run may be resumed at any moment.
THEOREM ManifestDigestHolds == Spec => []DigestHolds
<1>1. IInv => DigestHolds
  BY DEF IInv, FreezeInv, DigestHolds
<1>. QED
  BY <1>1, ManifestInvariant, PTL

\* When source and table agree and every listed file is hashed, the hashes agree too.
LEMMA SumsAreRight ==
  ASSUME IInv, Summed, entry = source
  PROVE  \A f \in Files : sha1[f] = source[f]
BY DEF IInv, Summed, SumInv, VersionInv

\* A frozen manifest has every folder and every checksum, and is the source if that has
\* stood still.
THEOREM ManifestFrozenIsWhole == Spec => []FrozenIsWhole
<1>1. IInv => FrozenIsWhole
  <2> SUFFICES ASSUME IInv, frozen # None
               PROVE  /\ \A d \in Folders : dirStatus[d] = "complete"
                      /\ NoSum = {}
                      /\ changes = 0 => entry = source /\ \A f \in Files : sha1[f] = source[f]
    BY DEF FrozenIsWhole
  <2>1. Done /\ Summed
    BY DEF IInv, FreezeInv
  <2>2. ASSUME changes = 0 PROVE entry = source
    <3>1. \A f \in Files : entry[f] = source[f]
      BY <2>1, <2>2, ConstantFacts DEF IInv, StillInv, Done
    <3>. QED
      BY <3>1 DEF IInv, TypeOK
  <2>. QED
    BY <2>1, <2>2, SumsAreRight DEF Done, Summed, NoSum
<1>. QED
  BY <1>1, ManifestInvariant, PTL

\* "fresh" means that the source still holds what was frozen, content included.
THEOREM ManifestFreshMeansSame == Spec => []FreshMeansSame
<1>1. IInv => FreshMeansSame
  BY SumsAreRight DEF IInv, ScanInv, FreezeInv, FreshMeansSame
<1>. QED
  BY <1>1, ManifestInvariant, PTL

=============================================================================

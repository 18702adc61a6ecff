------------------------ MODULE LocalStaging_proofs -------------------------
(***************************************************************************)
(* Machine-checked proofs about local verification and remediation, for    *)
(* any manifest, any tree, and any number of crashes and outside changes.  *)
(***************************************************************************)
EXTENDS LocalStaging, TLAPS

Scanning == {"scan", "hash", "extras"}

\* What the staging tree can be: folders have no content, and what is not in the manifest
\* is never the manifest's.
Sound(stage) ==
  /\ stage \in [Paths -> Objects]
  /\ \A d \in Dirs : stage[d].data = "source"
  /\ \A p \in Strays : stage[p] \in {Absent, Other}

TypeInv ==
  /\ Sound(disk)
  /\ live \in [Files -> Content \cup {"gone"}]
  /\ row \in [Paths -> {"none", "metadata", "sha1", "bad"}]
  /\ jobs \subseteq Files
  /\ mode \in {"none", "sha1"}

\* A checkpoint vouches for a content no other step has put there since, but for masked files.
RowInv ==
  \A f \in Files \ masked : row[f] = "sha1" /\ StatIsRight(f) => disk[f].data = "source"

Passed(p) == IF Hashed(p) THEN "sha1" ELSE "metadata"
Settled(p) == p \in listed \/ row[p] = Passed(p)

\* How far a verification has come, by its table and its list.
PassInv ==
  /\ pc \in Scanning => listing = "unfinished" /\ (jobs # {} => mode = "sha1")
  /\ pc = "scan" => \A p \in Entries \ todo : p \in jobs \/ Settled(p)
  /\ pc = "hash" => \A p \in Entries : p \in jobs \/ Settled(p)
  /\ pc = "extras" => \A p \in Entries : Settled(p)
  /\ listing = "whole" => \A p \in Entries : Settled(p)

\* How far it has come, by the stage: only if that has stayed what it was.
CalmInv ==
  calm =>
    /\ pc = "scan" => \A p \in Entries \ todo : p \in listed \/ StatIsRight(p)
    /\ pc \in {"hash", "extras"} => \A p \in Entries : p \in listed \/ StatIsRight(p)
    /\ pc = "extras" => \A p \in Strays \ todo : p \in listed \/ disk[p] = Absent
    /\ listing = "whole" => /\ \A p \in Entries : p \in listed \/ StatIsRight(p)
                            /\ \A p \in Strays : p \in listed \/ disk[p] = Absent

StInv == TypeInv /\ RowInv /\ PassInv /\ CalmInv
-----------------------------------------------------------------------------
(* The stage *)

\* A change of the stage that gives no file other content under the manifest's time.
Harmless(stage) ==
  \A f \in Files :
    stage[f] = disk[f] \/ stage[f].data = "source" \/ stage[f].mtime # "source"

LEMMA PathFacts ==
  /\ Entries \subseteq Paths /\ Files \subseteq Entries /\ Dirs \subseteq Entries /\ Strays \subseteq Paths
  /\ Files \cap Dirs = {} /\ Entries \cap Strays = {} /\ Root \notin Paths
  /\ Paths = Files \cup Dirs \cup Strays
  /\ \A p \in Paths : Parent[p] \in Dirs \cup {Root}
BY PathsAssumption DEF Entries, Paths

LEMMA ObjectFacts ==
  /\ Absent \in Objects /\ Absent.data = "source" /\ Absent.mtime = "off" /\ Absent.kind = "absent"
  /\ Other \in Objects /\ Other.data = "source" /\ Other.mtime = "off" /\ Other.kind = "other"
  /\ \A m \in {"source", "drift", "off"} :
       Made(m) \in Objects /\ Made(m).data = "source" /\ Made(m).mtime = m /\ Made(m).kind = "right"
  /\ \A v \in Objects : /\ [v EXCEPT !.mtime = "off"] \in Objects
                        /\ [v EXCEPT !.mtime = "off"].data = v.data
                        /\ [v EXCEPT !.mtime = "off"].mtime = "off"
  /\ \A v \in Objects : /\ [v EXCEPT !.mtime = "source"] \in Objects
                        /\ [v EXCEPT !.mtime = "source"].data = v.data
                        /\ [v EXCEPT !.mtime = "source"].kind = v.kind
BY DEF Absent, Other, Made, Objects, Content

\* An object of the manifest's kind, content and time is the manifest's object.
LEMMA MadeIsExact ==
  ASSUME NEW v \in Objects, v.kind = "right", v.data = "source", v.mtime = "source"
  PROVE  v = Made("source")
BY DEF Objects, Made

\* What rclone would write of a file that is not gone.
LEMMA LiveFileIsSound ==
  ASSUME TypeInv, NEW f \in Files, live[f] # "gone"
  PROVE  /\ LiveFile(f) \in Objects
         /\ LiveFile(f).data = "source" \/ LiveFile(f).mtime # "source"
<1>1. live[f] \in Content
  BY DEF TypeInv
<1>2. CASE live[f] = "source"
  BY <1>1, <1>2 DEF LiveFile, Made, Objects, Content
<1>3. CASE live[f] # "source"
  BY <1>1, <1>3 DEF LiveFile, Made, Objects, Content
<1>. QED
  BY <1>2, <1>3

\* Placing an object in the stage, with the folders above it and their times.
LEMMA PlacedIsSound ==
  ASSUME TypeInv, NEW p \in Entries, NEW v \in Objects,
         p \in Dirs => v.data = "source",
         v.data = "source" \/ v.mtime # "source"
  PROVE  Sound(Placed(p, v)) /\ Harmless(Placed(p, v))
<1> DEFINE made    == {d \in Dirs : d \in above[p] /\ disk[d].kind = "absent"}
           touched == {Parent[q] : q \in made \cup {p}}
<1>1. made \subseteq Dirs /\ touched \subseteq Dirs \cup {Root}
  BY PathFacts
<1>2. Placed(p, v) = [q \in Paths |-> IF q = p THEN v
                                     ELSE IF q \in made THEN Made("off")
                                     ELSE IF q \in touched THEN [disk[q] EXCEPT !.mtime = "off"]
                                     ELSE disk[q]]
  BY DEF Placed
<1> HIDE DEF made, touched
<1>3. \A q \in Paths : /\ disk[q] \in Objects
                       /\ q = p => Placed(p, v)[q] = v
                       /\ q # p /\ q \in made => Placed(p, v)[q] = Made("off")
                       /\ q # p /\ q \notin made /\ q \in touched => Placed(p, v)[q] = [disk[q] EXCEPT !.mtime = "off"]
                       /\ q # p /\ q \notin made /\ q \notin touched => Placed(p, v)[q] = disk[q]
  BY <1>2 DEF TypeInv, Sound
<1>4. Placed(p, v) \in [Paths -> Objects]
  BY <1>2, <1>3, ObjectFacts
<1>5. \A d \in Dirs : Placed(p, v)[d].data = "source"
  <2> SUFFICES ASSUME NEW d \in Dirs PROVE Placed(p, v)[d].data = "source"
    OBVIOUS
  <2>1. d \in Paths /\ disk[d] \in Objects /\ disk[d].data = "source"
    BY <1>3, PathFacts DEF TypeInv, Sound
  <2>2. \/ d = p /\ Placed(p, v)[d] = v
        \/ Placed(p, v)[d] = Made("off")
        \/ Placed(p, v)[d] = [disk[d] EXCEPT !.mtime = "off"]
        \/ Placed(p, v)[d] = disk[d]
    BY <1>3, <2>1
  <2>3. Made("off").data = "source"
    BY ObjectFacts
  <2>4. [disk[d] EXCEPT !.mtime = "off"].data = "source"
    BY <2>1, ObjectFacts
  <2>. QED
    BY <2>1, <2>2, <2>3, <2>4
<1>6. \A q \in Strays : Placed(p, v)[q] = disk[q]
  BY <1>1, <1>3, PathFacts
<1>7. \A f \in Files : f # p => Placed(p, v)[f] = disk[f]
  BY <1>1, <1>3, PathFacts
<1>. QED
  BY <1>3, <1>4, <1>5, <1>6, <1>7, PathFacts DEF Sound, Harmless, TypeInv

LEMMA FolderIsSound ==
  ASSUME TypeInv, NEW d \in Dirs
  PROVE  Sound(Folder(d)) /\ Harmless(Folder(d))
BY PlacedIsSound, ObjectFacts, PathFacts DEF Folder, TypeInv, Harmless

\* Setting the time of a folder changes no file.
LEMMA TimedIsSound ==
  ASSUME TypeInv, NEW d \in Dirs
  PROVE  Sound(Timed(Folder(d), d)) /\ Harmless(Timed(Folder(d), d))
<1>1. Sound(Folder(d)) /\ Harmless(Folder(d))
  BY FolderIsSound
<1>2. Folder(d)[d] \in Objects /\ d \in Paths
  BY <1>1, PathFacts DEF Sound
<1>3. [Folder(d)[d] EXCEPT !.mtime = "source"] \in Objects /\ [Folder(d)[d] EXCEPT !.mtime = "source"].data = "source"
  BY <1>1, <1>2, ObjectFacts DEF Sound
<1>4. Timed(Folder(d), d) = [Folder(d) EXCEPT ![d] = [Folder(d)[d] EXCEPT !.mtime = "source"]]
  BY DEF Timed
<1>. QED
  BY <1>1, <1>2, <1>3, <1>4, PathFacts DEF Sound, Harmless

LEMMA FetchedIsSound ==
  ASSUME TypeInv, NEW f \in Files
  PROVE  Sound(Fetched(f)) /\ Harmless(Fetched(f))
<1>1. CASE Fetched(f) = disk
  BY <1>1 DEF TypeInv, Harmless
<1>2. CASE live[f] # "gone" /\ Fetched(f) = [disk EXCEPT ![f] = LiveFile(f)]
  BY <1>2, LiveFileIsSound, PathFacts DEF TypeInv, Sound, Harmless
<1>3. CASE live[f] # "gone" /\ Fetched(f) = Placed(f, LiveFile(f))
  BY <1>3, LiveFileIsSound, PlacedIsSound, PathFacts
<1>. QED
  BY <1>1, <1>2, <1>3 DEF Fetched

\* Removing or replacing something takes what is below it away.
LEMMA ReplacedIsSound ==
  ASSUME TypeInv, NEW p \in Paths, NEW v \in {Absent, Other}
  PROVE  Sound(Replaced(p, v)) /\ Harmless(Replaced(p, v))
<1>1. \A q \in Paths : /\ disk[q] \in Objects
                       /\ \/ Replaced(p, v)[q] \in {Absent, Other}
                          \/ q \in Dirs /\ Replaced(p, v)[q] = [disk[q] EXCEPT !.mtime = "off"]
                          \/ Replaced(p, v)[q] = disk[q]
  BY PathFacts DEF Replaced, TypeInv, Sound
<1>2. Replaced(p, v) \in [Paths -> Objects]
  BY <1>1, ObjectFacts DEF Replaced
<1>3. \A d \in Dirs : Replaced(p, v)[d].data = "source"
  <2> SUFFICES ASSUME NEW d \in Dirs PROVE Replaced(p, v)[d].data = "source"
    OBVIOUS
  <2>1. d \in Paths /\ disk[d] \in Objects /\ disk[d].data = "source"
    BY <1>1, PathFacts DEF TypeInv, Sound
  <2>2. /\ Absent.data = "source" /\ Other.data = "source"
        /\ [disk[d] EXCEPT !.mtime = "off"].data = disk[d].data
    BY <2>1, ObjectFacts
  <2>. QED
    BY <1>1, <2>1, <2>2
<1>4. \A q \in Strays : Replaced(p, v)[q] \in {Absent, Other}
  <2> SUFFICES ASSUME NEW q \in Strays PROVE Replaced(p, v)[q] \in {Absent, Other}
    OBVIOUS
  <2>1. q \in Paths /\ q \notin Dirs /\ disk[q] \in {Absent, Other}
    BY PathFacts DEF TypeInv, Sound
  <2>. QED
    BY <1>1, <2>1
<1>5. Harmless(Replaced(p, v))
  <2> SUFFICES ASSUME NEW f \in Files
               PROVE  Replaced(p, v)[f] = disk[f] \/ Replaced(p, v)[f].data = "source"
    BY DEF Harmless
  <2>1. f \in Paths /\ f \notin Dirs
    BY PathFacts
  <2>2. Absent.data = "source" /\ Other.data = "source"
    BY ObjectFacts
  <2>. QED
    BY <1>1, <2>1, <2>2
<1>. QED
  BY <1>2, <1>3, <1>4, <1>5 DEF Sound

-----------------------------------------------------------------------------
(* Preservation *)

\* A checkpoint survives a harmless change, unless the file it is about was masked and is
\* no longer what it was.
LEMMA RowInvSurvives ==
  ASSUME RowInv, Harmless(disk'), row' = row, masked' = {f \in masked : disk'[f] = disk[f]}
  PROVE  RowInv'
<1> SUFFICES ASSUME NEW f \in Files, f \notin masked', row[f] = "sha1", StatIsRight(f)'
             PROVE  disk'[f].data = "source"
  BY DEF RowInv
<1>1. CASE disk'[f] = disk[f]
  BY <1>1 DEF RowInv, StatIsRight, Right
<1>2. CASE disk'[f] # disk[f]
  BY <1>2 DEF Harmless, StatIsRight
<1>. QED
  BY <1>1, <1>2

\* What verification has found out stays found out while it does not run, and while its
\* table, its list and, for CalmInv, the stage stay as they are.
LEMMA FindingsSurvive ==
  ASSUME StInv,
         UNCHANGED <<row, mode, listing, listed>>,
         calm' => calm /\ disk' = disk,
         UNCHANGED <<pc, todo, jobs>> \/ pc' \notin Scanning
  PROVE  PassInv' /\ CalmInv'
<1> USE DEF StInv, Scanning
<1>1. PassInv'
  BY DEF PassInv, Settled, Passed, Hashed
<1>2. CalmInv'
  BY DEF CalmInv, StatIsRight, Right
<1>. QED
  BY <1>1, <1>2

\* Steps that start, end or report, and changes of the source, leave the stage alone.
LEMMA BesideKeeps ==
  ASSUME StInv,
         \/ StartDownload \/ EndDownload \/ StartMetadata \/ EndMetadata \/ Reconcile
         \/ StartRemediate \/ RepairFiles \/ EndRemediate
         \/ \E f \in Files, data \in Content \cup {"gone"} : Drift(f, data)
  PROVE  StInv'
<1> USE DEF command, results, history
<1>1. /\ UNCHANGED <<disk, row, mode, listing, listed, calm, masked>>
      /\ UNCHANGED <<pc, todo, jobs>> \/ (pc' \notin Scanning /\ jobs' \subseteq jobs)
  BY DEF StartDownload, EndDownload, StartMetadata, EndMetadata, Reconcile, StartRemediate, RepairFiles,
         EndRemediate, Drift, Begin, End, Scanning
<1>2. live' \in [Files -> Content \cup {"gone"}]
  BY DEF StInv, TypeInv, StartDownload, EndDownload, StartMetadata, EndMetadata, Reconcile, StartRemediate,
         RepairFiles, EndRemediate, Drift
<1>3. TypeInv' /\ RowInv'
  BY <1>1, <1>2 DEF StInv, TypeInv, Sound, RowInv, StatIsRight, Right
<1>. QED
  BY <1>1, <1>3, FindingsSurvive DEF StInv

\* A command that changes the stage by a harmless change, and is not verification.
LEMMA DisturbKeeps ==
  ASSUME StInv, NEW stage, Disturb(stage), Sound(stage), Harmless(stage),
         UNCHANGED <<live, row, mode, listing, listed>>, jobs' \subseteq jobs,
         UNCHANGED <<pc, todo, jobs>> \/ pc' \notin Scanning
  PROVE  StInv'
<1>1. disk' = stage /\ (calm' => calm /\ disk' = disk) /\ masked' = {f \in masked : disk'[f] = disk[f]}
  BY DEF Disturb
<1>2. TypeInv'
  BY <1>1 DEF StInv, TypeInv, Sound
<1>3. RowInv'
  BY <1>1, RowInvSurvives DEF StInv, Harmless
<1>. QED
  BY <1>1, <1>2, <1>3, FindingsSurvive DEF StInv

LEMMA DownloadKeeps ==
  ASSUME StInv, NEW p \in Entries, Download(p)
  PROVE  StInv'
<1>1. PICK bad \in {Blocked(p), TRUE} :
        Disturb(IF bad THEN disk ELSE IF p \in Files THEN Fetched(p) ELSE Folder(p))
  BY DEF Download
<1> DEFINE stage == IF bad THEN disk ELSE IF p \in Files THEN Fetched(p) ELSE Folder(p)
<1>2. Sound(stage) /\ Harmless(stage)
  BY FetchedIsSound, FolderIsSound DEF StInv, TypeInv, Harmless, Entries
<1>3. UNCHANGED <<live, row, mode, listing, listed, jobs>> /\ pc' \notin Scanning
  BY DEF Download, Visit, results, Scanning
<1> HIDE DEF stage
<1>4. Disturb(stage)
  BY <1>1 DEF stage
<1>. QED
  BY <1>2, <1>3, <1>4, DisturbKeeps

LEMMA RepairFolderKeeps ==
  ASSUME StInv, NEW d \in Dirs, RepairFolder(d)
  PROVE  StInv'
<1>1. UNCHANGED <<live, row, mode, listing, listed>> /\ pc' \notin Scanning /\ jobs' \subseteq jobs
  BY DEF RepairFolder, Visit, End, Scanning
<1>2. CASE Blocked(d)
  <2>1. UNCHANGED <<disk, calm, masked>>
    BY <1>2 DEF RepairFolder
  <2>2. TypeInv' /\ RowInv'
    BY <1>1, <2>1 DEF StInv, TypeInv, Sound, RowInv, StatIsRight, Right
  <2>. QED
    BY <1>1, <2>1, <2>2, FindingsSurvive DEF StInv
<1>3. CASE ~Blocked(d)
  <2>1. Disturb(Timed(Folder(d), d))
    BY <1>3 DEF RepairFolder
  <2>2. Sound(Timed(Folder(d), d)) /\ Harmless(Timed(Folder(d), d))
    BY TimedIsSound DEF StInv
  <2>. QED
    BY <1>1, <2>1, <2>2, DisturbKeeps
<1>. QED
  BY <1>2, <1>3

LEMMA RepairFileKeeps ==
  ASSUME StInv, NEW f \in Files, RepairFile(f)
  PROVE  StInv'
<1>1. UNCHANGED <<live, row, mode, listing, listed, jobs>> /\ pc' \notin Scanning
  BY DEF RepairFile, Visit, results, Scanning
<1>2. Disturb(Sheltered(f)) \/ Disturb(Fetched(f))
  BY DEF RepairFile
<1>3. Sound(Fetched(f)) /\ Harmless(Fetched(f))
  BY FetchedIsSound DEF StInv
<1>4. Sound(Sheltered(f)) /\ Harmless(Sheltered(f))
  <2>1. Parent[f] \in Dirs \cup {Root}
    BY PathFacts
  <2>2. CASE Parent[f] \in Dirs /\ Sheltered(f) = Folder(Parent[f])
    BY <2>2, FolderIsSound DEF StInv
  <2>3. CASE Sheltered(f) = disk
    BY <2>3 DEF StInv, TypeInv, Harmless
  <2>. QED
    BY <2>1, <2>2, <2>3 DEF Sheltered
<1>. QED
  BY <1>1, <1>2, <1>3, <1>4, DisturbKeeps

\* Setting the time of a file back masks it if its content is not what its row stands for.
LEMMA ApplyMetadataKeeps ==
  ASSUME StInv, NEW p \in Entries, ApplyMetadata(p)
  PROVE  StInv'
<1>1. /\ UNCHANGED <<live, row, mode, listing, listed, jobs>> /\ pc' \notin Scanning
      /\ calm' => calm /\ disk' = disk
  BY DEF ApplyMetadata, Visit, results, Scanning
<1>2. PassInv' /\ CalmInv'
  BY <1>1, FindingsSurvive
<1>3. p \in Paths /\ disk[p] \in Objects
  BY PathFacts DEF StInv, TypeInv, Sound
<1>4. CASE ~Right(p)
  BY <1>1, <1>2, <1>4 DEF ApplyMetadata, StInv, TypeInv, Sound, RowInv, StatIsRight, Right
<1>5. CASE Right(p)
  <2>1. disk' = [disk EXCEPT ![p] = [disk[p] EXCEPT !.mtime = "source"]]
    BY <1>5 DEF ApplyMetadata
  <2>2. disk'[p] = [disk[p] EXCEPT !.mtime = "source"] /\ \A q \in Paths \ {p} : disk'[q] = disk[q]
    BY <1>3, <2>1 DEF StInv, TypeInv, Sound
  <2>3. disk'[p] \in Objects /\ disk'[p].data = disk[p].data
    BY <1>3, <2>2, ObjectFacts
  <2>4. TypeInv'
    BY <1>1, <1>3, <2>1, <2>2, <2>3, PathFacts DEF StInv, TypeInv, Sound
  <2>5. masked' = IF disk[p].data = "altered" /\ row[p] = "sha1" THEN masked \cup {p} ELSE masked
    BY <1>5 DEF ApplyMetadata
  <2>6. RowInv'
    <3> SUFFICES ASSUME NEW f \in Files, f \notin masked', row'[f] = "sha1", StatIsRight(f)'
                 PROVE  disk'[f].data = "source"
      BY DEF RowInv
    <3>1. CASE f # p
      BY <1>1, <2>2, <2>5, <3>1, PathFacts DEF StInv, RowInv, StatIsRight, Right
    <3>2. CASE f = p
      BY <1>1, <1>3, <2>3, <2>5, <3>2 DEF StatIsRight, Objects, Content
    <3>. QED
      BY <3>1, <3>2
  <2>. QED
    BY <1>2, <2>4, <2>6 DEF StInv
<1>. QED
  BY <1>4, <1>5

LEMMA SwapKeeps ==
  ASSUME StInv, NEW p \in Paths, NEW v \in {Absent, Other}, Swap(p, v)
  PROVE  StInv'
<1>1. UNCHANGED <<live, row, mode, listing, listed, pc, todo, jobs>> /\ Disturb(Replaced(p, v))
  BY DEF Swap, command, results
<1>. QED
  BY <1>1, ReplacedIsSound, DisturbKeeps DEF StInv

\* An edit shows in the time of the file; decay under a good row masks it.
LEMMA AlterKeeps ==
  ASSUME StInv, NEW f \in Files, NEW data \in Content, NEW decay \in BOOLEAN, Alter(f, data, decay)
  PROVE  StInv'
<1>1. UNCHANGED <<live, row, mode, listing, listed, pc, todo, jobs>> /\ calm' = FALSE
  BY DEF Alter, command, results
<1>2. PassInv' /\ CalmInv'
  BY <1>1, FindingsSurvive
<1> DEFINE v == [disk[f] EXCEPT !.data = data, !.mtime = IF decay THEN disk[f].mtime ELSE "off"]
<1>3. f \in Paths /\ disk[f] \in Objects
  BY PathFacts DEF StInv, TypeInv, Sound
<1>4. disk' = [disk EXCEPT ![f] = v]
  BY <1>3 DEF Alter, StInv, TypeInv, Sound
<1>5. v \in Objects /\ (~decay => v.mtime = "off")
  BY <1>3 DEF Objects, Content
<1>6. masked' = IF decay /\ row[f] = "sha1" THEN masked \cup {f} ELSE masked
  BY DEF Alter
<1> HIDE DEF v
<1>7. disk'[f] = v /\ \A q \in Paths \ {f} : disk'[q] = disk[q]
  BY <1>3, <1>4 DEF StInv, TypeInv, Sound
<1>8. TypeInv'
  BY <1>1, <1>4, <1>5, <1>7, PathFacts DEF StInv, TypeInv, Sound
<1>9. RowInv'
  <2> SUFFICES ASSUME NEW g \in Files, g \notin masked', row'[g] = "sha1", StatIsRight(g)'
               PROVE  disk'[g].data = "source"
    BY DEF RowInv
  <2>1. CASE g # f
    BY <1>1, <1>6, <1>7, <2>1, PathFacts DEF StInv, RowInv, StatIsRight, Right
  <2>2. CASE g = f
    BY <1>1, <1>5, <1>6, <1>7, <2>2 DEF StatIsRight
  <2>. QED
    BY <2>1, <2>2
<1>. QED
  BY <1>2, <1>8, <1>9 DEF StInv

LEMMA StartVerifyKeeps ==
  ASSUME StInv, StartVerify
  PROVE  StInv'
<1> USE DEF StInv, StartVerify, Begin
<1>1. TypeInv' /\ RowInv'
  BY DEF TypeInv, Sound, RowInv, StatIsRight, Right
<1>2. PassInv' /\ CalmInv'
  BY DEF PassInv, CalmInv, Scanning
<1>. QED
  BY <1>1, <1>2

LEMMA ScanKeeps ==
  ASSUME StInv, NEW p \in Entries, Scan(p)
  PROVE  StInv'
<1>1. /\ UNCHANGED <<disk, live, pc, mode, listing, calm>> /\ pc = "scan" /\ todo' = todo \ {p}
      /\ jobs' = IF StatIsRight(p) /\ Hashed(p) /\ ~Checkpointed(p) THEN jobs \cup {p} ELSE jobs
  BY DEF Scan
<1>2. p \in Paths
  BY PathFacts
<1>3. \/ Checkpointed(p) /\ UNCHANGED <<row, masked, listed>> /\ StatIsRight(p) /\ row[p] = Passed(p)
      \/ StatIsRight(p) /\ UNCHANGED <<row, masked, listed>> /\ p \in jobs'
      \/ Record(p)
      \/ StatIsRight(p) /\ ~Hashed(p) /\ Save(p, "metadata") /\ UNCHANGED listed
  BY <1>1 DEF Scan, SaveNothing, Checkpointed, Passed
<1>4. TypeInv'
  <2>1. jobs' \subseteq Files
    BY <1>1 DEF StInv, TypeInv, Hashed
  <2>2. row' \in [Paths -> {"none", "metadata", "sha1", "bad"}]
    BY <1>3 DEF StInv, TypeInv, Record, Save
  <2>. QED
    BY <1>1, <2>1, <2>2 DEF StInv, TypeInv, Sound
<1>5. RowInv'
  <2>1. /\ \/ masked' = masked /\ row' = row
           \/ masked' = masked \ {p} /\ row'[p] \in {"bad", "metadata"}
        /\ \A q \in Paths : q # p => row'[q] = row[q]
    BY <1>2, <1>3 DEF StInv, TypeInv, Record, Save
  <2> SUFFICES ASSUME NEW f \in Files, f \notin masked', row'[f] = "sha1", StatIsRight(f)
               PROVE  disk[f].data = "source"
    BY <1>1 DEF RowInv, StatIsRight, Right
  <2>2. f \notin masked /\ row[f] = "sha1"
    BY <2>1, PathFacts
  <2>. QED
    BY <2>2 DEF StInv, RowInv
<1>6. PassInv'
  <2>0. /\ pc' = "scan" /\ listing' = "unfinished"
        /\ jobs' # {} => mode' = "sha1"
    BY <1>1 DEF StInv, PassInv, Scanning, Hashed
  <2> SUFFICES ASSUME NEW q \in Entries \ todo' PROVE q \in jobs' \/ Settled(q)'
    BY <2>0 DEF PassInv
  <2>1. CASE q = p
    BY <1>1, <1>2, <1>3, <2>1 DEF StInv, TypeInv, Settled, Passed, Hashed, Record, Save
  <2>2. CASE q # p
    <3>1. q \in jobs \/ Settled(q)
      BY <1>1, <2>2 DEF StInv, PassInv
    <3>2. row'[q] = row[q] /\ (q \in listed => q \in listed')
      <4>1. q \in Paths
        BY PathFacts
      <4>. QED
        BY <1>2, <1>3, <2>2, <4>1 DEF StInv, TypeInv, Record, Save
    <3>. QED
      BY <1>1, <3>1, <3>2 DEF Settled, Passed, Hashed
  <2>. QED
    BY <2>1, <2>2
<1>7. CalmInv'
  <2>1. listing = "unfinished" /\ listed \subseteq listed' /\ (p \in listed' \/ StatIsRight(p))
    BY <1>1, <1>3 DEF StInv, PassInv, Scanning, Record
  <2>. QED
    BY <1>1, <2>1 DEF StInv, CalmInv, StatIsRight, Right
<1>. QED
  BY <1>4, <1>5, <1>6, <1>7 DEF StInv

\* A file whose sha1 is the manifest's has the manifest's content.
LEMMA HashKeeps ==
  ASSUME StInv, NEW f \in Files, Hash(f)
  PROVE  StInv'
<1>1. UNCHANGED <<disk, live, pc, todo, mode, listing, calm>> /\ pc = "hash" /\ jobs' = jobs \ {f}
  BY DEF Hash
<1>2. f \in Paths
  BY PathFacts
<1>3. \/ disk[f].data = "source" /\ Save(f, "sha1") /\ UNCHANGED listed
      \/ Record(f)
  BY DEF Hash
<1>4. row' \in [Paths -> {"none", "metadata", "sha1", "bad"}] /\ \A q \in Paths \ {f} : row'[q] = row[q]
  BY <1>3 DEF StInv, TypeInv, Record, Save
<1>5. /\ \/ disk[f].data = "source" /\ row'[f] = "sha1"
         \/ row'[f] = "bad" /\ f \in listed'
      /\ masked' = masked \ {f} /\ listed \subseteq listed'
  BY <1>2, <1>3 DEF StInv, TypeInv, Record, Save
<1>6. TypeInv'
  BY <1>1, <1>4 DEF StInv, TypeInv, Sound
<1>7. RowInv'
  BY <1>1, <1>4, <1>5, PathFacts DEF StInv, RowInv, StatIsRight, Right
<1>8. PassInv'
  <2> SUFFICES ASSUME NEW q \in Entries PROVE q \in jobs' \/ Settled(q)'
    BY <1>1 DEF StInv, PassInv, Scanning
  <2>1. CASE q = f
    <3>1. f \in jobs
      BY DEF Hash
    <3>2. CASE mode = "sha1"
      BY <1>1, <1>5, <2>1, <3>2 DEF Settled, Passed, Hashed
    <3>3. CASE mode # "sha1"
      BY <1>1, <1>5, <2>1, <3>1, <3>3 DEF StInv, PassInv, Scanning
    <3>. QED
      BY <3>2, <3>3
  <2>2. CASE q # f
    <3>1. q \in jobs \/ Settled(q)
      BY <1>1, <2>2 DEF StInv, PassInv
    <3>. QED
      BY <1>1, <1>4, <1>5, <2>2, <3>1, PathFacts DEF Settled, Passed, Hashed
  <2>. QED
    BY <2>1, <2>2
<1>9. CalmInv'
  <2>1. listing = "unfinished"
    BY <1>1 DEF StInv, PassInv, Scanning
  <2>. QED
    BY <1>1, <1>5, <2>1 DEF StInv, CalmInv, StatIsRight, Right
<1>. QED
  BY <1>6, <1>7, <1>8, <1>9 DEF StInv

\* A stray object is not absent, so the walk records it; what is there is never forgotten.
LEMMA FindExtraKeeps ==
  ASSUME StInv, NEW p \in Paths, FindExtra(p)
  PROVE  StInv'
<1>1. UNCHANGED <<disk, live, pc, jobs, mode, listing, calm>> /\ pc = "extras" /\ todo' = todo \ {p}
  BY DEF FindExtra
<1>2. \/ Record(p)
      \/ SaveNothing /\ (disk[p].kind # "other" \/ p \in Entries)
  BY DEF FindExtra
<1>3. /\ row' \in [Paths -> {"none", "metadata", "sha1", "bad"}] /\ \A q \in Paths \ {p} : row'[q] = row[q]
      /\ row'[p] \in {row[p], "bad"} /\ (row'[p] # row[p] => p \in listed')
      /\ listed \subseteq listed' /\ masked \ {p} \subseteq masked'
      /\ (p \in masked /\ p \notin masked' => row'[p] = "bad")
  BY <1>2 DEF StInv, TypeInv, Record, Save, SaveNothing
<1>4. TypeInv'
  BY <1>1, <1>3 DEF StInv, TypeInv, Sound
<1>5. RowInv'
  BY <1>1, <1>3, PathFacts DEF StInv, RowInv, StatIsRight, Right
<1>6. PassInv'
  BY <1>1, <1>3, PathFacts DEF StInv, PassInv, Scanning, Settled, Passed, Hashed
<1>7. p \in Strays => p \in listed' \/ disk[p] = Absent
  BY <1>2, ObjectFacts, PathFacts DEF StInv, TypeInv, Sound, Record, Save
<1>8. CalmInv'
  <2>1. listing = "unfinished"
    BY <1>1 DEF StInv, PassInv, Scanning
  <2>. QED
    BY <1>1, <1>3, <1>7, <2>1 DEF StInv, CalmInv, StatIsRight, Right
<1>. QED
  BY <1>4, <1>5, <1>6, <1>8 DEF StInv

LEMMA EnterNextPassKeeps ==
  ASSUME StInv, EnterNextPass
  PROVE  StInv'
<1> USE DEF StInv, EnterNextPass, NextPass, results, history
<1>1. TypeInv' /\ RowInv'
  BY DEF TypeInv, Sound, RowInv, StatIsRight, Right
<1>2. PassInv'
  BY DEF PassInv, Scanning, Settled, Passed, Hashed
<1>3. CalmInv'
  BY PathFacts DEF CalmInv, PassInv, Scanning, StatIsRight, Right
<1>. QED
  BY <1>1, <1>2, <1>3

\* The report is whole when the last pass is through, whether its phase learns of it or not.
LEMMA WholeKeeps ==
  ASSUME StInv, pc = "extras", todo = {}, pc' = "idle", jobs' = {}, listing' = "whole",
         UNCHANGED <<disk, live, row, mode, listed, calm, masked>>
  PROVE  StInv'
<1> USE DEF StInv
<1>1. TypeInv' /\ RowInv'
  BY DEF TypeInv, Sound, RowInv, StatIsRight, Right
<1>2. PassInv'
  BY DEF PassInv, Scanning, Settled, Passed, Hashed
<1>3. CalmInv'
  BY DEF CalmInv, Scanning, StatIsRight, Right
<1>. QED
  BY <1>1, <1>2, <1>3

LEMMA EndVerifyKeeps ==
  ASSUME StInv, EndVerify
  PROVE  StInv'
BY WholeKeeps DEF EndVerify, End, history

LEMMA CrashUnrecordedKeeps ==
  ASSUME StInv, CrashUnrecorded
  PROVE  StInv'
<1> USE DEF CrashUnrecorded, history
<1>1. CASE pc = "extras"
  BY <1>1, WholeKeeps
<1>2. CASE pc # "extras"
  <2>1. UNCHANGED <<disk, live, row, mode, listing, listed, calm, masked>> /\ pc' \notin Scanning /\ jobs' = {}
    BY <1>2 DEF Scanning
  <2>2. TypeInv' /\ RowInv'
    BY <2>1 DEF StInv, TypeInv, Sound, RowInv, StatIsRight, Right
  <2>. QED
    BY <2>1, <2>2, FindingsSurvive DEF StInv
<1>. QED
  BY <1>1, <1>2

\* A crash of verification may lose a part of the list; the list is then not whole.
LEMMA CrashKeeps ==
  ASSUME StInv, Crash
  PROVE  StInv'
<1>1. UNCHANGED <<disk, live, row, mode, listing, calm, masked>> /\ pc' = "idle" /\ jobs' = {}
  BY DEF Crash, history
<1>2. TypeInv' /\ RowInv'
  BY <1>1 DEF StInv, TypeInv, Sound, RowInv, StatIsRight, Right
<1>3. CASE pc \in Scanning
  <2>1. listing' = "unfinished"
    BY <1>1, <1>3 DEF StInv, PassInv
  <2>. QED
    BY <1>1, <1>2, <2>1 DEF StInv, PassInv, CalmInv, Scanning
<1>4. CASE pc \notin Scanning
  <2>1. UNCHANGED listed
    BY <1>4 DEF Crash, Scanning
  <2>. QED
    BY <1>1, <1>2, <2>1, FindingsSurvive DEF StInv, Scanning
<1>. QED
  BY <1>3, <1>4

-----------------------------------------------------------------------------
(* The invariant and the properties *)

LEMMA InitStInv == Init => StInv
<1> SUFFICES ASSUME Init PROVE StInv
  OBVIOUS
<1> USE DEF Init
<1>1. Sound(disk)
  BY ObjectFacts, PathFacts DEF Sound
<1>2. TypeInv
  BY <1>1 DEF TypeInv, Content
<1>3. RowInv /\ PassInv /\ CalmInv
  BY PathFacts DEF RowInv, PassInv, CalmInv, Scanning
<1>. QED
  BY <1>2, <1>3 DEF StInv

LEMMA StepStInv == StInv /\ [Next]_vars => StInv'
<1> SUFFICES ASSUME StInv, [Next]_vars PROVE StInv'
  OBVIOUS
<1>1. CASE UNCHANGED vars
  BY <1>1 DEF vars, command, results, history, StInv, TypeInv, Sound, RowInv, StatIsRight, Right, PassInv,
              Settled, Passed, Hashed, CalmInv
<1>2. CASE Next
  BY <1>2, BesideKeeps, DownloadKeeps, ApplyMetadataKeeps, ScanKeeps, HashKeeps, RepairFileKeeps,
     RepairFolderKeeps, FindExtraKeeps, StartVerifyKeeps, EnterNextPassKeeps, EndVerifyKeeps, CrashKeeps,
     CrashUnrecordedKeeps, AlterKeeps, SwapKeeps DEF Next
<1>. QED
  BY <1>1, <1>2

\* What verification has found out agrees with the table, the list and the stage, through
\* crashes, resumes and outside changes.
THEOREM StagingInvariant == Spec => []StInv
<1>. QED
  BY InitStInv, StepStInv, PTL DEF Spec

\* A clean report counts every entry by its row, and a sha1 report every file by its sha1.
THEOREM StagingCleanIsCounted == Spec => []CleanIsCounted
<1>1. StInv => CleanIsCounted
  BY DEF StInv, PassInv, Settled, Passed, CleanIsCounted, Clean
<1>. QED
  BY <1>1, StagingInvariant, PTL

\* What the audit accepts is exactly the manifest's tree, but for files altered under an
\* unchanged size and time after they were hashed.
THEOREM StagingAcceptedIsExact == Spec => []AcceptedIsExact
<1>1. StInv => AcceptedIsExact
  <2> SUFFICES ASSUME StInv, Audited, calm
               PROVE  /\ \A p \in Entries \ masked : disk[p] = Made("source")
                      /\ \A p \in Strays : disk[p] = Absent
    BY DEF AcceptedIsExact
  <2>1. mode = "sha1" /\ listing = "whole" /\ listed = {}
    BY DEF Audited, Clean
  <2>2. /\ \A p \in Entries : StatIsRight(p) /\ row[p] = Passed(p)
        /\ \A p \in Strays : disk[p] = Absent
    BY <2>1 DEF StInv, PassInv, CalmInv, Settled
  <2>3. ASSUME NEW p \in Entries \ masked PROVE disk[p] = Made("source")
    <3>1. disk[p] \in Objects /\ disk[p].kind = "right" /\ disk[p].mtime = "source"
      BY <2>2, PathFacts DEF StInv, TypeInv, Sound, StatIsRight, Right
    <3>2. disk[p].data = "source"
      BY <2>1, <2>2, PathFacts DEF Entries, Passed, Hashed, StInv, RowInv, TypeInv, Sound
    <3>. QED
      BY <3>1, <3>2, MadeIsExact
  <2>. QED
    BY <2>2, <2>3
<1>. QED
  BY <1>1, StagingInvariant, PTL

-----------------------------------------------------------------------------
(* The folders above a path *)

\* The recursion that defines above has a solution: the folders that every set has that
\* has the parent and goes up with each folder it has.
LEMMA AboveDefined ==
  \A p \in Paths : above[p] = IF Parent[p] = Root THEN {} ELSE {Parent[p]} \cup above[Parent[p]]
<1> DEFINE Upward(S) == \A e \in S \cap Dirs : Parent[e] \in S
           Reach(x)  == {d \in Dirs : \A S \in SUBSET (Dirs \cup {Root}) : x \in S /\ Upward(S) => d \in S}
           g == [p \in Paths |-> Reach(Parent[p])]
           Step(h) == [p \in Paths |-> IF Parent[p] = Root THEN {} ELSE {Parent[p]} \cup h[Parent[p]]]
<1>1. Reach(Root) = {}
  <2>1. {Root} \in SUBSET (Dirs \cup {Root}) /\ Root \notin Dirs /\ {Root} \cap Dirs = {}
    BY PathFacts
  <2>. QED
    BY <2>1
<1>2. ASSUME NEW x \in Dirs
      PROVE  Reach(x) = {x} \cup Reach(Parent[x])
  <2>1. Parent[x] \in Dirs \cup {Root}
    BY PathFacts
  <2>2. ASSUME NEW d \in Reach(x), d # x
        PROVE  d \in Reach(Parent[x])
    <3> SUFFICES ASSUME NEW S \in SUBSET (Dirs \cup {Root}), Parent[x] \in S, Upward(S)
                 PROVE  d \in S
      OBVIOUS
    <3>1. S \cup {x} \in SUBSET (Dirs \cup {Root}) /\ Upward(S \cup {x})
      OBVIOUS
    <3>2. d \in S \cup {x}
      BY <3>1
    <3>. QED
      BY <2>2, <3>2
  <2>3. ASSUME NEW d \in Reach(Parent[x])
        PROVE  d \in Reach(x)
    <3> SUFFICES ASSUME NEW S \in SUBSET (Dirs \cup {Root}), x \in S, Upward(S)
                 PROVE  d \in S
      OBVIOUS
    <3>1. Parent[x] \in S
      OBVIOUS
    <3>. QED
      BY <3>1
  <2>4. x \in Reach(x)
    OBVIOUS
  <2>. HIDE DEF Reach
  <2>. QED
    BY <2>2, <2>3, <2>4
<1> HIDE DEF Reach
<1>3. g = Step(g)
  <2>1. ASSUME NEW p \in Paths
        PROVE  g[p] = IF Parent[p] = Root THEN {} ELSE {Parent[p]} \cup g[Parent[p]]
    <3>1. Parent[p] \in Dirs \cup {Root} /\ Dirs \subseteq Paths
      BY PathFacts
    <3>. QED
      BY <1>1, <1>2, <3>1
  <2>. QED
    BY <2>1
<1>4. above = CHOOSE h : h = Step(h)
  BY DEF above
<1>5. above = Step(above)
  <2>. HIDE DEF g, Step
  <2>. QED
    BY <1>3, <1>4
<1>. QED
  BY <1>5

LEMMA PathInduction ==
  ASSUME NEW S \in SUBSET Paths, \A p \in Paths : Parent[p] \in S \cup {Root} => p \in S
  PROVE  S = Paths
BY TreeAssumption

\* What is above a path is folders, those above them included, and never the path.
LEMMA AboveFacts ==
  /\ \A p \in Paths : above[p] \subseteq Dirs
  /\ \A p \in Paths : Parent[p] # Root => Parent[p] \in above[p]
  /\ \A p \in Paths, d \in Dirs : d \in above[p] => above[d] \subseteq above[p]
  /\ \A p \in Paths : p \notin above[p]
<1>1. ASSUME NEW p \in Paths, Parent[p] = Root
      PROVE  above[p] = {}
  BY <1>1, AboveDefined
<1>2. ASSUME NEW p \in Paths, Parent[p] # Root
      PROVE  Parent[p] \in Dirs \cap Paths /\ above[p] = {Parent[p]} \cup above[Parent[p]]
  BY <1>2, AboveDefined, PathFacts
<1> DEFINE Closed(p) == /\ above[p] \subseteq Dirs
                       /\ \A d \in Dirs : d \in above[p] => above[d] \subseteq above[p]
           S == {p \in Paths : Closed(p)}
           T == {p \in Paths : p \notin above[p]}
<1>3. \A p \in Paths : Parent[p] \in S \cup {Root} => p \in S
  <2> SUFFICES ASSUME NEW p \in Paths, Parent[p] \in S \cup {Root}
               PROVE  Closed(p)
    OBVIOUS
  <2>1. CASE Parent[p] = Root
    BY <1>1, <2>1
  <2>2. CASE Parent[p] # Root
    <3>1. Closed(Parent[p])
      BY <2>2
    <3>. QED
      BY <1>2, <2>2, <3>1
  <2>. QED
    BY <2>1, <2>2
<1>4. S = Paths
  <2>. HIDE DEF S
  <2>1. S \subseteq Paths
    BY DEF S
  <2>. QED
    BY <1>3, <2>1, PathInduction
<1>5. \A p \in Paths : Closed(p)
  BY <1>4
<1>6. \A p \in Paths : Parent[p] \in T \cup {Root} => p \in T
  <2> SUFFICES ASSUME NEW p \in Paths, Parent[p] \in T \cup {Root}, p \in above[p]
               PROVE  FALSE
    OBVIOUS
  <2>1. Parent[p] # Root
    BY <1>1
  <2>2. Parent[p] \in Dirs \cap Paths /\ Parent[p] \notin above[Parent[p]] /\ above[p] = {Parent[p]} \cup above[Parent[p]]
    BY <1>2, <2>1
  <2>3. p \in Dirs /\ p \in above[Parent[p]]
    BY <1>5, <2>2
  <2>4. above[p] \subseteq above[Parent[p]]
    BY <1>5, <2>2, <2>3
  <2>. QED
    BY <2>2, <2>4
<1>7. T = Paths
  <2>. HIDE DEF T
  <2>1. T \subseteq Paths
    BY DEF T
  <2>. QED
    BY <1>6, <2>1, PathInduction
<1>. QED
  BY <1>2, <1>5, <1>7

-----------------------------------------------------------------------------
(* Nothing is below what is not a folder *)

Nested(stage) ==
  \A p \in Paths, d \in Dirs : d \in above[p] /\ stage[d].kind # "right" => stage[p] = Absent

\* Everything of TypeOK that says nothing of the tree.
RestInv ==
  /\ pc \in {"idle", "download", "metadata", "scan", "hash", "extras", "folders", "files"}
  /\ todo \subseteq Paths
  /\ listing \in {"none", "unfinished", "whole"}
  /\ listed \subseteq Paths
  /\ complete \subseteq {"download", "metadata-apply", "reconcile", "verify-local"}
  /\ failed \in BOOLEAN /\ balanced \in BOOLEAN /\ calm \in BOOLEAN /\ full \in BOOLEAN
  /\ faults \in 0..MaxFaults
  /\ masked \subseteq Files
  /\ rounds \in 0..2

TreeInv == StInv /\ RestInv /\ Nested(disk)

\* What placing an object does, path by path.
LEMMA PlacedFacts ==
  ASSUME Sound(disk), NEW p \in Entries, NEW v \in Objects, NEW q \in Paths, q # p
  PROVE  \/ /\ q \in Dirs /\ q \in above[p] /\ disk[q].kind = "absent"
            /\ Placed(p, v)[q] = Made("off")
         \/ /\ q \in Dirs /\ q \in above[p] /\ disk[q].kind # "absent"
            /\ Placed(p, v)[q] = [disk[q] EXCEPT !.mtime = "off"]
         \/ /\ ~(q \in Dirs /\ q \in above[p] /\ disk[q].kind = "absent")
            /\ Placed(p, v)[q] = disk[q]
<1> DEFINE made    == {d \in Dirs : d \in above[p] /\ disk[d].kind = "absent"}
           touched == {Parent[x] : x \in made \cup {p}}
<1>1. Placed(p, v)[q] = IF q \in made THEN Made("off")
                        ELSE IF q \in touched THEN [disk[q] EXCEPT !.mtime = "off"]
                        ELSE disk[q]
  BY DEF Placed
<1>2. ASSUME q \in touched
      PROVE  q \in Dirs /\ q \in above[p]
  <2>1. PICK x \in made \cup {p} : q = Parent[x]
    BY <1>2
  <2>2. x \in Paths /\ (x = p \/ (x \in Dirs /\ x \in above[p]))
    BY <2>1, PathFacts
  <2>3. q # Root
    BY PathFacts
  <2>4. q \in Dirs /\ q \in above[x]
    BY <2>1, <2>2, <2>3, AboveFacts, PathFacts
  <2>. QED
    BY <2>2, <2>4, AboveFacts, PathFacts
<1>. QED
  BY <1>1, <1>2

\* A place that is not blocked has a way to it, once what is missing there is made.
LEMMA PlacedIsNested ==
  ASSUME Sound(disk), Nested(disk), NEW p \in Entries, ~Blocked(p), NEW v \in Objects, v.kind = "right"
  PROVE  Nested(Placed(p, v))
<1> SUFFICES ASSUME NEW q \in Paths, NEW d \in Dirs, d \in above[q], Placed(p, v)[d].kind # "right"
             PROVE  Placed(p, v)[q] = Absent
  BY DEF Nested
<1>0. /\ p \in Paths /\ d \in Paths /\ disk[d] \in Objects
      /\ d \in above[p] => disk[d].kind # "other"
      /\ Placed(p, v)[p] = v
  BY PathFacts DEF Blocked, Placed, Sound
<1>1. disk[d].kind \in {"absent", "right", "other"}
  BY <1>0 DEF Objects
<1>2. d # p
  BY <1>0
<1>3. Made("off").kind = "right" /\ [disk[d] EXCEPT !.mtime = "off"].kind = disk[d].kind
  BY <1>0 DEF Made, Objects
<1>4. d \notin above[p] /\ Placed(p, v)[d] = disk[d]
  BY <1>0, <1>1, <1>2, <1>3, PlacedFacts
<1>5. disk[q] = Absent
  BY <1>4 DEF Nested
<1>6. q # p /\ ~(q \in Dirs /\ q \in above[p])
  BY <1>4, AboveFacts, PathFacts
<1>. QED
  BY <1>5, <1>6, PlacedFacts

LEMMA FolderIsNested ==
  ASSUME Sound(disk), Nested(disk), NEW d \in Dirs, ~Blocked(d)
  PROVE  Nested(Folder(d))
BY PlacedIsNested, ObjectFacts, PathFacts DEF Folder

LEMMA LiveFileIsRight ==
  ASSUME NEW f \in Files
  PROVE  LiveFile(f).kind = "right"
<1>1. LiveFile(f) = [[kind |-> "right", data |-> "source", mtime |-> IF live[f] = "source" THEN "source" ELSE "drift"] EXCEPT !.data = live[f]]
  BY DEF LiveFile, Made
<1>. QED
  BY <1>1

LEMMA FetchedIsNested ==
  ASSUME TypeInv, Nested(disk), NEW f \in Files, ~Blocked(f)
  PROVE  Nested(Fetched(f))
<1>1. CASE Fetched(f) = disk
  BY <1>1
<1>2. CASE Right(f) /\ Fetched(f) = [disk EXCEPT ![f] = LiveFile(f)]
  <2>1. \A d \in Dirs : d \in Paths /\ d # f /\ Fetched(f)[d] = disk[d]
    BY <1>2, PathFacts DEF TypeInv, Sound
  <2>2. \A q \in Paths : q # f => Fetched(f)[q] = disk[q]
    BY <1>2 DEF TypeInv, Sound
  <2>3. \A d \in Dirs : d \in above[f] => disk[d].kind = "right"
    BY <1>2, PathFacts, ObjectFacts DEF Nested, Right
  <2>. QED
    BY <2>1, <2>2, <2>3 DEF Nested
<1>3. CASE live[f] # "gone" /\ Fetched(f) = Placed(f, LiveFile(f))
  BY <1>3, LiveFileIsSound, LiveFileIsRight, PlacedIsNested, PathFacts DEF TypeInv
<1>. QED
  BY <1>1, <1>2, <1>3 DEF Fetched

\* A change of nothing but times.
LEMMA TimesAreNested ==
  ASSUME Sound(disk), Nested(disk), NEW stage, NEW p \in Paths, disk[p] # Absent,
         stage[p].kind = disk[p].kind, \A q \in Paths \ {p} : stage[q] = disk[q]
  PROVE  Nested(stage)
<1> SUFFICES ASSUME NEW q \in Paths, NEW d \in Dirs, d \in above[q], stage[d].kind # "right"
             PROVE  stage[q] = Absent
  BY DEF Nested
<1>1. disk[d].kind # "right"
  BY PathFacts
<1>. QED
  BY <1>1 DEF Nested

LEMMA ReplacedIsNested ==
  ASSUME Sound(disk), Nested(disk), NEW p \in Paths, NEW v \in {Absent, Other},
         \A d \in above[p] : Right(d)
  PROVE  Nested(Replaced(p, v))
<1> SUFFICES ASSUME NEW q \in Paths, NEW d \in Dirs, d \in above[q], Replaced(p, v)[d].kind # "right"
             PROVE  Replaced(p, v)[q] = Absent
  BY DEF Nested
<1>1. d \in Paths /\ disk[d] \in Objects /\ [disk[d] EXCEPT !.mtime = "off"].kind = disk[d].kind
  BY PathFacts DEF Sound, Objects
<1>2. CASE d = p
  <2>1. q # p /\ p \in above[q]
    BY <1>2, AboveFacts
  <2>. QED
    BY <2>1 DEF Replaced
<1>3. CASE d # p /\ p \in above[d]
  <2>1. p \in above[q] /\ q # p
    BY <1>3, AboveFacts
  <2>. QED
    BY <2>1 DEF Replaced
<1>4. CASE d # p /\ p \notin above[d]
  <2>1. Replaced(p, v)[d] = disk[d] \/ Replaced(p, v)[d] = [disk[d] EXCEPT !.mtime = "off"]
    BY <1>1, <1>4 DEF Replaced
  <2>2. disk[d].kind # "right"
    BY <1>1, <2>1
  <2>3. disk[q] = Absent
    BY <2>2 DEF Nested
  <2>4. d \notin above[p]
    BY <2>2 DEF Right
  <2>5. q # p
    BY <2>4
  <2>6. q # Parent[p]
    <3> SUFFICES ASSUME q = Parent[p] PROVE FALSE
      OBVIOUS
    <3>1. q # Root
      BY PathFacts
    <3>. QED
      BY <2>4, <3>1, AboveFacts, PathFacts
  <2>. QED
    BY <2>3, <2>5, <2>6 DEF Replaced
<1>. QED
  BY <1>2, <1>3, <1>4

LEMMA NestedStep ==
  ASSUME StInv, Nested(disk), [Next]_vars
  PROVE  Nested(disk)'
<1>0. Sound(disk) /\ TypeInv
  BY DEF StInv, TypeInv
<1>1. CASE UNCHANGED disk
  BY <1>1 DEF Nested
<1>2. ASSUME NEW p \in Entries, Download(p)
      PROVE  Nested(disk)'
  <2>1. PICK bad \in {Blocked(p), TRUE} :
          disk' = IF bad THEN disk ELSE IF p \in Files THEN Fetched(p) ELSE Folder(p)
    BY <1>2 DEF Download, Disturb
  <2>2. CASE bad
    BY <2>1, <2>2 DEF Nested
  <2>3. CASE ~bad
    <3>1. ~Blocked(p)
      BY <2>3
    <3>. QED
      BY <1>0, <2>1, <2>3, <3>1, FetchedIsNested, FolderIsNested, PathFacts DEF Nested
  <2>. QED
    BY <2>2, <2>3
<1>3. ASSUME NEW p \in Entries, ApplyMetadata(p)
      PROVE  Nested(disk)'
  <2>1. p \in Paths /\ disk[p] \in Objects
    BY <1>0, PathFacts DEF Sound
  <2>2. CASE Right(p)
    <3>1. disk' = [disk EXCEPT ![p] = [disk[p] EXCEPT !.mtime = "source"]]
      BY <1>3, <2>2 DEF ApplyMetadata
    <3>2. disk'[p].kind = disk[p].kind /\ \A q \in Paths \ {p} : disk'[q] = disk[q]
      BY <1>0, <2>1, <3>1, ObjectFacts DEF Sound
    <3>3. disk[p] # Absent
      BY <2>2, ObjectFacts DEF Right
    <3>. QED
      BY <1>0, <2>1, <3>2, <3>3, TimesAreNested DEF Nested
  <2>3. CASE ~Right(p)
    BY <1>3, <2>3 DEF ApplyMetadata, Nested
  <2>. QED
    BY <2>2, <2>3
<1>4. ASSUME NEW d \in Dirs, RepairFolder(d)
      PROVE  Nested(disk)'
  <2>1. CASE Blocked(d)
    BY <1>4, <2>1 DEF RepairFolder, Nested
  <2>2. CASE ~Blocked(d)
    <3>1. disk' = [Folder(d) EXCEPT ![d] = [Folder(d)[d] EXCEPT !.mtime = "source"]]
      BY <1>4, <2>2 DEF RepairFolder, Disturb, Timed
    <3>2. Sound(Folder(d)) /\ Nested(Folder(d))
      BY <1>0, <2>2, FolderIsSound, FolderIsNested
    <3>3. d \in Paths /\ Folder(d)[d] \in Objects
      BY <3>2, PathFacts DEF Sound
    <3>4. disk'[d].kind = Folder(d)[d].kind /\ \A q \in Paths \ {d} : disk'[q] = Folder(d)[q]
      BY <3>1, <3>2, <3>3, ObjectFacts DEF Sound
    <3>5. Folder(d)[d].kind = "right"
      BY <3>3, ObjectFacts DEF Folder, Right, Placed
    <3> SUFFICES ASSUME NEW q \in Paths, NEW e \in Dirs, e \in above[q], disk'[e].kind # "right"
                 PROVE  disk'[q] = Absent
      BY DEF Nested
    <3>6. Folder(d)[e].kind # "right" /\ e \in Paths
      BY <3>4, PathFacts
    <3>7. Folder(d)[q] = Absent
      BY <3>2, <3>6 DEF Nested
    <3>8. q # d
      BY <3>5, <3>7, ObjectFacts
    <3>. QED
      BY <3>4, <3>7, <3>8
  <2>. QED
    BY <2>1, <2>2
<1>5. ASSUME NEW f \in Files, RepairFile(f)
      PROVE  Nested(disk)'
  <2>1. PICK bad \in {Blocked(f) \/ live[f] = "gone", TRUE} :
          disk' = IF bad THEN Sheltered(f) ELSE Fetched(f)
    BY <1>5 DEF RepairFile, Disturb
  <2>2. CASE disk' = disk
    BY <2>2 DEF Nested
  <2>3. CASE disk' = Fetched(f) /\ ~bad
    BY <1>0, <2>1, <2>3, FetchedIsNested DEF Nested
  <2>4. CASE ~Blocked(f) /\ Parent[f] # Root /\ disk' = Folder(Parent[f])
    <3>1. Parent[f] \in Dirs /\ Parent[f] \in above[f]
      BY <2>4, PathFacts, AboveFacts
    <3>2. ~Blocked(Parent[f])
      BY <2>4, <3>1, AboveFacts, PathFacts DEF Blocked
    <3>. QED
      BY <1>0, <2>4, <3>1, <3>2, FolderIsNested DEF Nested
  <2>. QED
    BY <2>1, <2>2, <2>3, <2>4 DEF Sheltered
<1>6. ASSUME NEW f \in Files, NEW data \in Content, NEW decay \in BOOLEAN, Alter(f, data, decay)
      PROVE  Nested(disk)'
  <2>1. f \in Paths /\ disk[f] \in Objects
    BY <1>0, PathFacts DEF Sound
  <2>2. disk' = [disk EXCEPT ![f] = [disk[f] EXCEPT !.data = data, !.mtime = IF decay THEN disk[f].mtime ELSE "off"]]
    BY <1>0, <1>6, <2>1 DEF Alter, Sound
  <2>3. disk'[f].kind = disk[f].kind /\ \A q \in Paths \ {f} : disk'[q] = disk[q]
    BY <1>0, <2>1, <2>2 DEF Sound, Objects
  <2>4. disk[f] # Absent
    BY <1>6, ObjectFacts DEF Alter, Right
  <2>. QED
    BY <1>0, <2>1, <2>3, <2>4, TimesAreNested DEF Nested
<1>7. ASSUME NEW p \in Paths, NEW v \in {Absent, Other}, Swap(p, v)
      PROVE  Nested(disk)'
  <2>1. disk' = Replaced(p, v) /\ \A d \in above[p] : Right(d)
    BY <1>7 DEF Swap, Disturb
  <2>. QED
    BY <1>0, <2>1, ReplacedIsNested DEF Nested
<1>8. CASE Next
  <2>1. CASE \/ \E p \in Entries : Download(p) \/ ApplyMetadata(p)
             \/ \E f \in Files : RepairFile(f)
             \/ \E d \in Dirs : RepairFolder(d)
             \/ \E f \in Files, data \in Content, decay \in BOOLEAN : Alter(f, data, decay)
             \/ \E p \in Paths, v \in {Absent, Other} : Swap(p, v)
    BY <1>2, <1>3, <1>4, <1>5, <1>6, <1>7, <2>1
  <2>2. CASE \/ StartDownload \/ EndDownload \/ StartMetadata \/ EndMetadata \/ Reconcile
             \/ StartVerify \/ EnterNextPass \/ EndVerify
             \/ StartRemediate \/ RepairFiles \/ EndRemediate
             \/ \E p \in Entries : Scan(p)
             \/ \E f \in Files : Hash(f)
             \/ \E p \in Paths : FindExtra(p)
             \/ Crash \/ CrashUnrecorded
             \/ \E f \in Files, data \in Content \cup {"gone"} : Drift(f, data)
    <3>1. UNCHANGED disk
      BY <2>2 DEF StartDownload, EndDownload, StartMetadata, EndMetadata, Reconcile, StartVerify, EnterNextPass,
                  EndVerify, StartRemediate, RepairFiles, EndRemediate, Scan, Hash, FindExtra, Crash,
                  CrashUnrecorded, Drift
    <3>. QED
      BY <1>1, <3>1
  <2>. QED
    BY <1>8, <2>1, <2>2 DEF Next
<1>9. CASE UNCHANGED vars
  BY <1>1, <1>9 DEF vars
<1>. QED
  BY <1>8, <1>9

\* Every action keeps its variables in their ranges.
LEMMA RestStep ==
  ASSUME StInv, RestInv, [Next]_vars
  PROVE  RestInv'
<1> USE DEF RestInv, command, results, history
<1>0. Entries \subseteq Paths /\ Files \subseteq Entries /\ Files \subseteq Paths /\ Dirs \subseteq Paths
  BY PathFacts
<1>1. ASSUME NEW stage, Disturb(stage)
      PROVE  calm' \in BOOLEAN /\ masked' \subseteq Files
  BY <1>1 DEF Disturb
<1>2. ASSUME NEW p, NEW bad \in BOOLEAN, Visit(p, bad)
      PROVE  pc' = pc /\ todo' \subseteq Paths /\ failed' \in BOOLEAN
  BY <1>2 DEF Visit
<1>3. CASE StartDownload \/ EndDownload \/ StartMetadata \/ EndMetadata
  BY <1>0, <1>3 DEF StartDownload, EndDownload, StartMetadata, EndMetadata, Begin, End
<1>4. CASE Reconcile
  BY <1>4 DEF Reconcile, Counted
<1>5. CASE StartVerify \/ EnterNextPass \/ EndVerify
  BY <1>0, <1>5 DEF StartVerify, EnterNextPass, NextPass, EndVerify, Begin, End
<1>6. CASE StartRemediate \/ RepairFiles
  BY <1>6 DEF StartRemediate, RepairFiles, Begin
<1>7. CASE EndRemediate
  <2>1. rounds' \in 0..2
    BY <1>7 DEF EndRemediate
  <2>2. pc' = "idle" /\ todo' = {} /\ failed' = FALSE /\ complete' = complete
    BY <1>7 DEF EndRemediate, End
  <2>3. UNCHANGED <<listing, listed, balanced, faults, calm, masked, full>>
    BY <1>7 DEF EndRemediate
  <2>. QED
    BY <2>1, <2>2, <2>3
<1>8. ASSUME NEW p \in Entries, Download(p)
      PROVE  RestInv'
  <2>1. PICK bad \in {Blocked(p), TRUE} :
          /\ Visit(p, bad)
          /\ Disturb(IF bad THEN disk ELSE IF p \in Files THEN Fetched(p) ELSE Folder(p))
          /\ rounds' = IF (IF bad THEN disk ELSE IF p \in Files THEN Fetched(p) ELSE Folder(p)) = disk THEN rounds ELSE 0
    BY <1>8 DEF Download
  <2>2. bad \in BOOLEAN
    BY DEF Blocked
  <2>3. rounds' \in {rounds, 0}
    BY <2>1
  <2>4. calm' \in BOOLEAN /\ masked' \subseteq Files
    BY <1>1, <2>1
  <2>5. pc' = pc /\ todo' \subseteq Paths /\ failed' \in BOOLEAN
    BY <1>2, <2>1, <2>2
  <2>6. UNCHANGED <<results, faults, full>>
    BY <1>8 DEF Download
  <2>. QED
    BY <2>3, <2>4, <2>5, <2>6
<1>9. ASSUME NEW p \in Entries, ApplyMetadata(p)
      PROVE  RestInv'
  <2>1. pc' = pc /\ todo' \subseteq Paths /\ failed' \in BOOLEAN
    BY <1>2, <1>9 DEF ApplyMetadata, Right
  <2>2. calm' \in BOOLEAN /\ rounds' \in {rounds, 0} /\ UNCHANGED <<results, faults, full>>
    BY <1>9 DEF ApplyMetadata
  <2>3. masked' \subseteq Files
    <3>1. masked' = masked \/ (masked' = masked \cup {p} /\ disk[p].data = "altered")
      BY <1>9 DEF ApplyMetadata
    <3>2. p \in Dirs => disk[p].data # "altered"
      BY DEF StInv, TypeInv, Sound
    <3>. QED
      BY <3>1, <3>2, PathFacts DEF Entries
  <2>. QED
    BY <2>1, <2>2, <2>3
<1>10. ASSUME NEW p \in Paths, Record(p) \/ SaveNothing \/ (UNCHANGED listed /\ \E w : Save(p, w))
       PROVE  listed' \subseteq Paths /\ masked' \subseteq Files
  BY <1>10 DEF Record, Save, SaveNothing
<1>11. ASSUME NEW p \in Entries, Scan(p)
       PROVE  RestInv'
  <2>1. Record(p) \/ SaveNothing \/ (Save(p, "metadata") /\ UNCHANGED listed)
    BY <1>11 DEF Scan
  <2>2. listed' \subseteq Paths /\ masked' \subseteq Files
    BY <1>0, <1>10, <2>1
  <2>. QED
    BY <1>11, <2>2 DEF Scan
<1>12. ASSUME NEW f \in Files, Hash(f)
       PROVE  RestInv'
  <2>1. Record(f) \/ (Save(f, "sha1") /\ UNCHANGED listed)
    BY <1>12 DEF Hash
  <2>2. listed' \subseteq Paths /\ masked' \subseteq Files
    BY <1>0, <1>10, <2>1
  <2>. QED
    BY <1>12, <2>2 DEF Hash
<1>13. ASSUME NEW p \in Paths, FindExtra(p)
       PROVE  RestInv'
  <2>1. Record(p) \/ SaveNothing
    BY <1>13 DEF FindExtra
  <2>2. listed' \subseteq Paths /\ masked' \subseteq Files
    BY <1>10, <2>1
  <2>. QED
    BY <1>13, <2>2 DEF FindExtra
<1>14. ASSUME NEW d \in Dirs, RepairFolder(d)
       PROVE  RestInv'
  <2>1. CASE Blocked(d)
    BY <1>14, <2>1 DEF RepairFolder, End
  <2>2. CASE ~Blocked(d)
    <3>1. Visit(d, FALSE) /\ Disturb(Timed(Folder(d), d)) /\ UNCHANGED complete
      BY <1>14, <2>2 DEF RepairFolder
    <3>2. pc' = pc /\ todo' \subseteq Paths /\ failed' \in BOOLEAN /\ calm' \in BOOLEAN /\ masked' \subseteq Files
      BY <1>1, <1>2, <3>1
    <3>. QED
      BY <1>14, <3>1, <3>2 DEF RepairFolder
  <2>. QED
    BY <2>1, <2>2
<1>15. ASSUME NEW f \in Files, RepairFile(f)
       PROVE  RestInv'
  <2>1. PICK bad \in {Blocked(f) \/ live[f] = "gone", TRUE} :
          Visit(f, bad) /\ Disturb(IF bad THEN Sheltered(f) ELSE Fetched(f))
    BY <1>15 DEF RepairFile
  <2>2. pc' = pc /\ todo' \subseteq Paths /\ failed' \in BOOLEAN /\ calm' \in BOOLEAN /\ masked' \subseteq Files
    BY <1>1, <1>2, <2>1
  <2>. QED
    BY <1>15, <2>2 DEF RepairFile
<1>16. Fault => faults' \in 0..MaxFaults
  BY FaultsAssumption DEF Fault
<1>17. Unsettle => rounds' \in 0..2 /\ full' \in BOOLEAN
  <2>1. Unsettle => rounds' = 0
    BY DEF Unsettle
  <2>2. Unsettle => full' \in BOOLEAN
    BY Zenon DEF Unsettle
  <2>3. 0 \in 0..2
    OBVIOUS
  <2>. QED
    BY <2>1, <2>2, <2>3
<1>18. CASE Crash
  BY <1>16, <1>18 DEF Crash
<1>19. CASE CrashUnrecorded
  BY <1>16, <1>19 DEF CrashUnrecorded, Counted
<1>20. ASSUME NEW f \in Files, NEW data, Drift(f, data)
       PROVE  RestInv'
  <2>1. Fault /\ Unsettle /\ UNCHANGED <<command, results, calm, masked>>
    BY <1>20 DEF Drift
  <2>. QED
    BY <1>16, <1>17, <2>1
<1>21. ASSUME NEW f \in Files, NEW data, NEW decay, Alter(f, data, decay)
       PROVE  RestInv'
  <2>1. Fault /\ Unsettle /\ UNCHANGED <<command, results>> /\ calm' = FALSE /\ masked' \subseteq Files
    BY <1>21 DEF Alter
  <2>. QED
    BY <1>16, <1>17, <2>1
<1>22. ASSUME NEW p \in Paths, NEW v, Swap(p, v)
       PROVE  RestInv'
  <2>1. Fault /\ Unsettle /\ UNCHANGED <<command, results>> /\ Disturb(Replaced(p, v))
    BY <1>22 DEF Swap
  <2>2. calm' \in BOOLEAN /\ masked' \subseteq Files
    BY <1>1, <2>1
  <2>. QED
    BY <1>16, <1>17, <2>1, <2>2
<1>23. CASE UNCHANGED vars
  BY <1>23 DEF vars
<1>24. CASE Next
  BY <1>3, <1>4, <1>5, <1>6, <1>7, <1>8, <1>9, <1>11, <1>12, <1>13, <1>14, <1>15, <1>18, <1>19, <1>20,
     <1>21, <1>22, <1>24 DEF Next
<1>. QED
  BY <1>23, <1>24

-----------------------------------------------------------------------------
(* Rounds of verification and remediation *)

SourceLive == \A f \in Files : live[f] = "source"

\* Something is wrong at a path.
Wrong(p) == IF p \in Strays THEN disk[p] # Absent ELSE ~StatIsRight(p) \/ disk[p].data # "source"

\* The list has nothing that is not wrong, as long as the stage has stayed what it was.
FoundInv == calm => \A p \in listed : Wrong(p)

FilesRight(S) == \A f \in S \cap Files : StatIsRight(f)
DirsRight(S)  == \A d \in S \cap Dirs : Right(d)
DirsTimed(S)  == \A d \in S \cap Dirs : disk[d].mtime = "source"

\* What one round leaves right stays right: a second one has only folder times to set, and
\* writes no file that would change them again.
RoundInv ==
  /\ pc = "files" => todo \cap Dirs = {}
  /\ SourceLive =>
       /\ rounds >= 1 => FilesRight(Paths) /\ DirsRight(Paths)
       /\ rounds = 2 => DirsTimed(Paths)
       /\ pc \in {"folders", "files"} /\ full /\ ~failed =>
            /\ FilesRight(Paths \ todo) /\ DirsRight(Paths \ todo)
            /\ rounds >= 1 => DirsTimed(Paths \ todo)

IInv == TreeInv /\ FoundInv /\ RoundInv

LEMMA FoundSurvives ==
  ASSUME FoundInv, listed' \subseteq listed, calm' => calm /\ disk' = disk
  PROVE  FoundInv'
BY DEF FoundInv, Wrong, StatIsRight, Right

LEMMA FoundStep ==
  ASSUME StInv, FoundInv, [Next]_vars
  PROVE  FoundInv'
<1> USE DEF command, results, history
<1>1. CASE StartVerify
  BY <1>1 DEF StartVerify, FoundInv
<1>2. ASSUME NEW p \in Paths, disk' = disk, calm' = calm, listed' = listed \cup {p}, Wrong(p)
      PROVE  FoundInv'
  BY <1>2 DEF FoundInv, Wrong, StatIsRight, Right
<1>3. ASSUME NEW p \in Entries, Scan(p)
      PROVE  FoundInv'
  <2>1. disk' = disk /\ calm' = calm /\ (listed' = listed \/ (listed' = listed \cup {p} /\ ~StatIsRight(p)))
    BY <1>3 DEF Scan, Record, SaveNothing
  <2>2. p \in Paths /\ p \notin Strays
    BY PathFacts
  <2>. QED
    BY <1>2, <2>1, <2>2, FoundSurvives DEF Wrong
<1>4. ASSUME NEW f \in Files, Hash(f)
      PROVE  FoundInv'
  <2>1. disk' = disk /\ calm' = calm
    BY <1>4 DEF Hash
  <2>2. listed' = listed \/ (listed' = listed \cup {f} /\ (~Right(f) \/ disk[f].data # "source"))
    BY <1>4 DEF Hash, Record
  <2>3. f \in Paths /\ f \notin Strays
    BY PathFacts
  <2>. QED
    BY <1>2, <2>1, <2>2, <2>3, FoundSurvives DEF Wrong, StatIsRight
<1>5. ASSUME NEW p \in Paths, FindExtra(p)
      PROVE  FoundInv'
  <2>1. disk' = disk /\ calm' = calm
    BY <1>5 DEF FindExtra
  <2>2. listed' = listed \/ (listed' = listed \cup {p} /\ disk[p].kind = "other")
    BY <1>5 DEF FindExtra, Record, SaveNothing
  <2>3. disk[p].kind = "other" => Wrong(p)
    BY ObjectFacts DEF Wrong, StatIsRight, Right
  <2>. QED
    BY <1>2, <2>1, <2>2, <2>3, FoundSurvives
<1>6. CASE Crash
  BY <1>6, FoundSurvives DEF Crash
<1>7. CASE UNCHANGED vars
  BY <1>7, FoundSurvives DEF vars
<1>8. ASSUME NEW stage, Disturb(stage)
      PROVE  calm' => calm /\ disk' = disk
  BY <1>8 DEF Disturb
<1>9. CASE \/ StartDownload \/ EndDownload \/ StartMetadata \/ EndMetadata \/ Reconcile
           \/ EnterNextPass \/ EndVerify \/ StartRemediate \/ RepairFiles \/ EndRemediate
           \/ CrashUnrecorded
           \/ \E f \in Files, data \in Content \cup {"gone"} : Drift(f, data)
  <2>1. UNCHANGED <<disk, listed, calm>>
    BY <1>9 DEF StartDownload, EndDownload, StartMetadata, EndMetadata, Reconcile, EnterNextPass, EndVerify,
                StartRemediate, RepairFiles, EndRemediate, CrashUnrecorded, Drift
  <2>. QED
    BY <2>1, FoundSurvives
<1>10. CASE \/ \E p \in Entries : Download(p) \/ ApplyMetadata(p)
            \/ \E f \in Files : RepairFile(f)
            \/ \E d \in Dirs : RepairFolder(d)
            \/ \E f \in Files, data \in Content, decay \in BOOLEAN : Alter(f, data, decay)
            \/ \E p \in Paths, v \in {Absent, Other} : Swap(p, v)
  <2>1. listed' = listed
    BY <1>10 DEF Download, ApplyMetadata, RepairFile, RepairFolder, Alter, Swap
  <2>2. calm' => calm /\ disk' = disk
    BY <1>8, <1>10 DEF Download, ApplyMetadata, RepairFile, RepairFolder, Alter, Swap
  <2>. QED
    BY <2>1, <2>2, FoundSurvives
<1>. QED
  BY <1>1, <1>3, <1>4, <1>5, <1>6, <1>7, <1>9, <1>10 DEF Next

\* Folders that are there need not be made.
LEMMA FolderThere ==
  ASSUME NEW d \in Dirs, Right(d)
  PROVE  Folder(d) = disk
BY DEF Folder

\* rclone leaves a file alone that is as verification wants it.
LEMMA FetchedThere ==
  ASSUME TypeInv, NEW f \in Files, live[f] = "source", StatIsRight(f)
  PROVE  Fetched(f) = disk
BY DEF Fetched, SameStat, LiveFile, Made, StatIsRight

\* And one that it fetches from the frozen source is as verification wants it.
LEMMA FetchedIsRight ==
  ASSUME TypeInv, NEW f \in Files, live[f] = "source"
  PROVE  Fetched(f)[f].kind = "right" /\ Fetched(f)[f].data # "resized" /\ Fetched(f)[f].mtime = "source"
<1>1. f \in Paths
  BY PathFacts
<1>2. LiveFile(f) = Made("source")
  BY DEF LiveFile, Made
<1>3. Made("source").kind = "right" /\ Made("source").data = "source" /\ Made("source").mtime = "source"
  BY DEF Made
<1>4. CASE Right(f) /\ SameStat(f)
  BY <1>2, <1>3, <1>4 DEF Fetched, SameStat, Right
<1>5. CASE ~(Right(f) /\ SameStat(f)) /\ Right(f) /\ disk[f].data = live[f]
  <2>1. Fetched(f) = [disk EXCEPT ![f] = LiveFile(f)]
    BY <1>5 DEF Fetched
  <2>. QED
    BY <1>1, <1>2, <1>3, <2>1 DEF TypeInv, Sound
<1>6. CASE ~(Right(f) /\ SameStat(f)) /\ ~(Right(f) /\ disk[f].data = live[f])
  <2>1. Fetched(f) = Placed(f, LiveFile(f))
    BY <1>6 DEF Fetched
  <2>. QED
    BY <1>1, <1>2, <1>3, <2>1 DEF Placed
<1>. QED
  BY <1>4, <1>5, <1>6

\* Placing something takes nothing away, and changes no other file.
LEMMA PlacedTakesNothing ==
  ASSUME Sound(disk), NEW p \in Entries, NEW v \in Objects
  PROVE  /\ \A f \in Files : f # p => Placed(p, v)[f] = disk[f]
         /\ \A d \in Dirs : d # p /\ Right(d) => Placed(p, v)[d].kind = "right"
<1>1. \A d \in Dirs : [disk[d] EXCEPT !.mtime = "off"].kind = disk[d].kind
  BY PathFacts DEF Sound, Objects
<1>2. \A f \in Files : f \in Paths /\ f \notin Dirs
  BY PathFacts
<1>3. \A f \in Files : f # p => Placed(p, v)[f] = disk[f]
  BY <1>2, PlacedFacts
<1>4. ASSUME NEW d \in Dirs, d # p, Right(d)
      PROVE  Placed(p, v)[d].kind = "right"
  <2>1. d \in Paths
    BY PathFacts
  <2>2. Placed(p, v)[d] \in {[disk[d] EXCEPT !.mtime = "off"], disk[d]}
    BY <1>4, <2>1, PlacedFacts DEF Right
  <2>. QED
    BY <1>1, <1>4, <2>2 DEF Right
<1>. QED
  BY <1>3, <1>4

LEMMA FetchedTakesNothing ==
  ASSUME TypeInv, NEW f \in Files, live[f] = "source"
  PROVE  /\ \A g \in Files : g # f => Fetched(f)[g] = disk[g]
         /\ \A d \in Dirs : Right(d) => Fetched(f)[d].kind = "right"
<1>1. CASE Fetched(f) = disk
  BY <1>1 DEF Right
<1>2. CASE Fetched(f) = [disk EXCEPT ![f] = LiveFile(f)]
  <2>1. f \notin Dirs /\ Files \subseteq Paths /\ Dirs \subseteq Paths
    BY PathFacts
  <2>. QED
    BY <1>2, <2>1 DEF TypeInv, Sound, Right
<1>3. CASE Fetched(f) = Placed(f, LiveFile(f))
  <2>1. LiveFile(f) \in Objects /\ f \in Entries /\ f \notin Dirs
    BY LiveFileIsSound, PathFacts
  <2>. QED
    BY <1>3, <2>1, PlacedTakesNothing DEF TypeInv
<1>. QED
  BY <1>1, <1>2, <1>3 DEF Fetched

\* A step that leaves the stage and the source as they are, and does not work on a list.
LEMMA RoundSurvives ==
  ASSUME RoundInv, UNCHANGED <<disk, live, rounds>>,
         \/ pc' \notin {"folders", "files"}
         \/ UNCHANGED <<pc, todo, failed, full>>
         \/ pc = "folders" /\ pc' = "files" /\ UNCHANGED <<todo, failed, full>> /\ todo \cap Dirs = {}
  PROVE  RoundInv'
<1>1. SourceLive' = SourceLive
  BY DEF SourceLive
<1>2. \A S : FilesRight(S)' = FilesRight(S) /\ DirsRight(S)' = DirsRight(S) /\ DirsTimed(S)' = DirsTimed(S)
  BY DEF FilesRight, DirsRight, DirsTimed, StatIsRight, Right
<1>. QED
  BY <1>1, <1>2 DEF RoundInv

\* A command other than remediation, or something outside, that starts the count afresh.
LEMMA AfreshRounds ==
  ASSUME RoundInv, rounds' = 0, pc' = "files" => pc = "files" /\ todo' = todo,
         pc' \notin {"folders", "files"} \/ full' = FALSE
  PROVE  RoundInv'
BY DEF RoundInv

LEMMA RepairFolderRounds ==
  ASSUME TreeInv, RoundInv, NEW d \in Dirs, RepairFolder(d)
  PROVE  RoundInv'
<1>0. TypeInv /\ Sound(disk) /\ d \in Paths
  BY PathFacts DEF TreeInv, StInv, TypeInv
<1>1. CASE Blocked(d)
  <2>1. UNCHANGED <<disk, live, rounds>> /\ pc' = "idle"
    BY <1>1 DEF RepairFolder, End
  <2>. QED
    BY <2>1, RoundSurvives
<1>2. CASE ~Blocked(d)
  <2> DEFINE timed == [Folder(d)[d] EXCEPT !.mtime = "source"]
  <2>1. /\ pc = "folders" /\ pc' = pc /\ todo' = todo \ {d} /\ failed' = failed
        /\ UNCHANGED <<live, full, rounds>>
        /\ disk' = [Folder(d) EXCEPT ![d] = timed]
    <3>1. Visit(d, FALSE) /\ Disturb(Timed(Folder(d), d)) /\ UNCHANGED <<live, full, rounds>> /\ pc = "folders"
      BY <1>2 DEF RepairFolder
    <3>2. failed \in BOOLEAN
      BY DEF TreeInv, RestInv
    <3>3. failed' = failed
      BY <3>1, <3>2 DEF Visit
    <3>. QED
      BY <3>1, <3>3 DEF Visit, Disturb, Timed
  <2>2. Sound(Folder(d)) /\ Folder(d)[d] \in Objects
    BY <1>0, FolderIsSound DEF Sound
  <2>3. /\ \A f \in Files : Folder(d)[f] = disk[f]
        /\ \A e \in Dirs : e # d /\ Right(e) => Folder(d)[e].kind = "right"
        /\ Folder(d)[d].kind = "right"
    <3>1. CASE Right(d)
      BY <3>1, FolderThere DEF Right
    <3>2. CASE ~Right(d)
      <4>1. Folder(d) = Placed(d, Made("off"))
        BY <3>2 DEF Folder
      <4>2. Folder(d)[d] = Made("off") /\ Made("off").kind = "right" /\ Made("off") \in Objects
        BY <1>0, <4>1, ObjectFacts DEF Placed
      <4>. QED
        BY <1>0, <4>1, <4>2, PlacedTakesNothing, PathFacts
    <3>. QED
      BY <3>1, <3>2
  <2>4. timed.kind = "right" /\ timed.mtime = "source"
    BY <2>2, <2>3, ObjectFacts DEF Objects
  <2>. HIDE DEF timed
  <2>5. disk'[d] = timed /\ \A q \in Paths : q # d => disk'[q] = Folder(d)[q]
    BY <1>0, <2>1, <2>2 DEF Sound
  <2>6. /\ \A f \in Files : disk'[f] = disk[f]
        /\ \A e \in Dirs : Right(e) \/ e = d => Right(e)'
        /\ disk'[d].mtime = "source"
    BY <2>3, <2>4, <2>5, PathFacts DEF Right
  <2>7. SourceLive' = SourceLive
    BY <2>1 DEF SourceLive
  <2>8. \A S : FilesRight(S)' = FilesRight(S)
    BY <2>6 DEF FilesRight, StatIsRight, Right
  <2>9. \A S : DirsRight(S) => DirsRight(S \cup {d})'
    BY <2>6 DEF DirsRight
  <2>10. Paths \ todo' \subseteq (Paths \ todo) \cup {d} /\ Paths \cup {d} = Paths
    BY <1>0, <2>1
  <2>11. FilesRight(Paths \ todo) => FilesRight(Paths \ todo)'
    BY <2>1, <2>6, PathFacts DEF FilesRight, StatIsRight, Right
  <2>12. DirsRight(Paths \ todo) => DirsRight(Paths \ todo)'
    BY <2>9, <2>10 DEF DirsRight
  <2>13. ASSUME SourceLive, rounds >= 1
         PROVE  \A S : DirsTimed(S) => DirsTimed(S \cup {d})'
    <3>1. Folder(d) = disk
      BY <1>0, <2>13, FolderThere DEF RoundInv, DirsRight
    <3>. QED
      BY <2>5, <2>6, <3>1, PathFacts DEF DirsTimed
  <2>14. ASSUME SourceLive, rounds >= 1
         PROVE  /\ DirsTimed(Paths \ todo) => DirsTimed(Paths \ todo)'
                /\ DirsTimed(Paths) => DirsTimed(Paths)'
    BY <2>10, <2>13, <2>14 DEF DirsTimed
  <2>15. DirsRight(Paths) => DirsRight(Paths)'
    BY <2>9, <2>10
  <2>16. rounds = 2 => rounds >= 1
    OBVIOUS
  <2>. QED
    BY <2>1, <2>7, <2>8, <2>11, <2>12, <2>14, <2>15, <2>16 DEF RoundInv
<1>. QED
  BY <1>1, <1>2

LEMMA RepairFileRounds ==
  ASSUME TreeInv, RoundInv, NEW f \in Files, RepairFile(f)
  PROVE  RoundInv'
<1>0. TypeInv /\ Sound(disk) /\ f \in Paths /\ f \notin Dirs
  BY PathFacts DEF TreeInv, StInv, TypeInv
<1>1. PICK bad \in {Blocked(f) \/ live[f] = "gone", TRUE} :
        Visit(f, bad) /\ Disturb(IF bad THEN Sheltered(f) ELSE Fetched(f))
  BY DEF RepairFile
<1>2. /\ pc = "files" /\ pc' = pc /\ todo' = todo \ {f} /\ UNCHANGED <<live, full, rounds>>
      /\ todo \cap Dirs = {}
      /\ ~failed' => ~failed /\ ~bad
      /\ disk' = IF bad THEN Sheltered(f) ELSE Fetched(f)
  BY <1>1 DEF RepairFile, Visit, Disturb, RoundInv
<1>3. SourceLive' = SourceLive /\ (SourceLive => live[f] = "source")
  BY <1>2 DEF SourceLive
<1>4. ASSUME SourceLive, rounds >= 1
      PROVE  disk' = disk
  <2>1. StatIsRight(f) /\ \A d \in Dirs : Right(d)
    BY <1>0, <1>4, PathFacts DEF RoundInv, FilesRight, DirsRight
  <2>2. Fetched(f) = disk
    BY <1>0, <1>3, <1>4, <2>1, FetchedThere
  <2>3. Sheltered(f) = disk
    BY <1>0, <2>1, FolderThere, PathFacts DEF Sheltered
  <2>. QED
    BY <1>2, <2>2, <2>3
<1>5. ASSUME SourceLive, full, ~failed', FilesRight(Paths \ todo), DirsRight(Paths \ todo)
      PROVE  FilesRight(Paths \ todo)' /\ DirsRight(Paths \ todo)'
  <2>1. disk' = Fetched(f) /\ live[f] = "source"
    BY <1>2, <1>3, <1>5
  <2>2. StatIsRight(f)' /\ (\A g \in Files : g # f => disk'[g] = disk[g]) /\ \A d \in Dirs : Right(d) => Right(d)'
    BY <1>0, <2>1, FetchedIsRight, FetchedTakesNothing DEF StatIsRight, Right
  <2>3. FilesRight(Paths \ todo)'
    BY <1>2, <1>5, <2>2 DEF FilesRight, StatIsRight, Right
  <2>4. DirsRight(Paths \ todo)'
    BY <1>0, <1>2, <1>5, <2>2 DEF DirsRight
  <2>. QED
    BY <2>3, <2>4
<1>6. ASSUME disk' = disk
      PROVE  \A S : FilesRight(S)' = FilesRight(S) /\ DirsRight(S)' = DirsRight(S) /\ DirsTimed(S)' = DirsTimed(S)
  BY <1>6 DEF FilesRight, DirsRight, DirsTimed, StatIsRight, Right
<1>7. DirsTimed(Paths \ todo) => DirsTimed(Paths \ todo')
  BY <1>0, <1>2 DEF DirsTimed
<1>8. rounds = 2 => rounds >= 1
  OBVIOUS
<1>9. todo' \cap Dirs = {}
  BY <1>2
<1>. QED
  BY <1>2, <1>3, <1>4, <1>5, <1>6, <1>7, <1>8, <1>9 DEF RoundInv

\* The list of a verification of the stage as it is leaves out nothing that is wrong.
LEMMA StartRemediateRounds ==
  ASSUME TreeInv, RoundInv, StartRemediate
  PROVE  RoundInv'
<1>1. /\ UNCHANGED <<disk, live, rounds>> /\ pc' = "folders" /\ todo' = listed \ Strays
      /\ full' = (calm /\ listing = "whole" /\ mode = "sha1")
  BY DEF StartRemediate, Begin
<1>2. SourceLive' = SourceLive
  BY <1>1 DEF SourceLive
<1>3. \A S : FilesRight(S)' = FilesRight(S) /\ DirsRight(S)' = DirsRight(S) /\ DirsTimed(S)' = DirsTimed(S)
  BY <1>1 DEF FilesRight, DirsRight, DirsTimed, StatIsRight, Right
<1>4. ASSUME calm, listing = "whole", NEW p \in Entries, p \notin listed \ Strays
      PROVE  StatIsRight(p)
  BY <1>4, PathFacts DEF TreeInv, StInv, CalmInv
<1>5. ASSUME full'
      PROVE  (FilesRight(Paths \ todo) /\ DirsRight(Paths \ todo) /\ DirsTimed(Paths \ todo))'
  <2>1. \A p \in Entries : p \notin todo' => StatIsRight(p)
    BY <1>1, <1>4, <1>5
  <2>. QED
    BY <1>1, <2>1, PathFacts DEF FilesRight, DirsRight, DirsTimed, StatIsRight, Right
<1>. QED
  BY <1>1, <1>2, <1>3, <1>5 DEF RoundInv

LEMMA EndRemediateRounds ==
  ASSUME TreeInv, RoundInv, EndRemediate
  PROVE  RoundInv'
<1>1. /\ UNCHANGED <<disk, live, full>> /\ pc = "files" /\ todo = {} /\ pc' = "idle"
      /\ rounds' = IF full /\ ~failed /\ rounds < 2 THEN rounds + 1 ELSE rounds
  BY DEF EndRemediate, End
<1>2. SourceLive' = SourceLive
  BY <1>1 DEF SourceLive
<1>3. \A S : FilesRight(S)' = FilesRight(S) /\ DirsRight(S)' = DirsRight(S) /\ DirsTimed(S)' = DirsTimed(S)
  BY <1>1 DEF FilesRight, DirsRight, DirsTimed, StatIsRight, Right
<1>4. Paths \ todo = Paths
  BY <1>1
<1>5. CASE full /\ ~failed /\ rounds < 2
  <2>1. rounds \in 0..2 /\ rounds' = rounds + 1
    BY <1>1, <1>5 DEF TreeInv, RestInv
  <2>2. rounds' = 2 => rounds >= 1
    BY <2>1
  <2>3. SourceLive => FilesRight(Paths) /\ DirsRight(Paths) /\ (rounds >= 1 => DirsTimed(Paths))
    BY <1>1, <1>4, <1>5 DEF RoundInv
  <2>. QED
    BY <1>1, <1>2, <1>3, <2>2, <2>3 DEF RoundInv
<1>6. CASE ~(full /\ ~failed /\ rounds < 2)
  <2>1. rounds' = rounds
    BY <1>1, <1>6
  <2>. QED
    BY <1>1, <2>1, RoundSurvives
<1>. QED
  BY <1>5, <1>6

LEMMA RoundStep ==
  ASSUME TreeInv, RoundInv, [Next]_vars
  PROVE  RoundInv'
<1> USE DEF command, results, history
<1>1. ASSUME NEW p \in Entries, Download(p)
      PROVE  RoundInv'
  <2>1. pc' = "download" /\ UNCHANGED live /\ (UNCHANGED <<disk, rounds>> \/ rounds' = 0)
    BY <1>1 DEF Download, Visit, Disturb
  <2>. QED
    BY <2>1, RoundSurvives, AfreshRounds
<1>2. ASSUME NEW p \in Entries, ApplyMetadata(p)
      PROVE  RoundInv'
  <2>1. pc' = "metadata" /\ UNCHANGED live /\ (UNCHANGED <<disk, rounds>> \/ rounds' = 0)
    BY <1>2 DEF ApplyMetadata, Visit
  <2>. QED
    BY <2>1, RoundSurvives, AfreshRounds
<1>3. CASE \/ StartDownload \/ EndDownload \/ StartMetadata \/ EndMetadata
           \/ StartVerify \/ EnterNextPass \/ EndVerify
           \/ \E p \in Entries : Scan(p)
           \/ \E f \in Files : Hash(f)
           \/ \E p \in Paths : FindExtra(p)
           \/ Crash \/ CrashUnrecorded
  <2>1. UNCHANGED <<disk, live, rounds>> /\ pc' \notin {"folders", "files"}
    BY <1>3 DEF StartDownload, EndDownload, StartMetadata, EndMetadata, StartVerify, EnterNextPass, NextPass,
                EndVerify, Scan, Hash, FindExtra, Crash, CrashUnrecorded, Begin, End
  <2>. QED
    BY <2>1, RoundSurvives
<1>4. CASE Reconcile \/ RepairFiles \/ UNCHANGED vars
  <2>1. /\ UNCHANGED <<disk, live, rounds>>
        /\ \/ UNCHANGED <<pc, todo, failed, full>>
           \/ pc = "folders" /\ pc' = "files" /\ UNCHANGED <<todo, failed, full>> /\ todo \cap Dirs = {}
    BY <1>4 DEF Reconcile, RepairFiles, vars
  <2>. QED
    BY <2>1, RoundSurvives
<1>5. ASSUME Unsettle, UNCHANGED command
      PROVE  RoundInv'
  BY <1>5, AfreshRounds DEF Unsettle
<1>6. CASE \/ \E f \in Files, data \in Content, decay \in BOOLEAN : Alter(f, data, decay)
           \/ \E p \in Paths, v \in {Absent, Other} : Swap(p, v)
           \/ \E f \in Files, data \in Content \cup {"gone"} : Drift(f, data)
  <2>1. Unsettle /\ UNCHANGED command
    BY <1>6 DEF Alter, Swap, Drift
  <2>. QED
    BY <1>5, <2>1
<1>. QED
  BY <1>1, <1>2, <1>3, <1>4, <1>6, RepairFolderRounds, RepairFileRounds, StartRemediateRounds,
     EndRemediateRounds DEF Next

LEMMA InitIInv == Init => IInv
<1> SUFFICES ASSUME Init PROVE IInv
  OBVIOUS
<1> USE DEF Init
<1>1. StInv
  BY InitStInv
<1>2. RestInv
  <2>1. 0 \in 0..MaxFaults /\ 0 \in 0..2
    BY FaultsAssumption
  <2>. QED
    BY <2>1 DEF RestInv
<1>3. Nested(disk)
  BY DEF Nested
<1>4. FoundInv /\ RoundInv
  BY DEF FoundInv, RoundInv
<1>. QED
  BY <1>1, <1>2, <1>3, <1>4 DEF IInv, TreeInv

LEMMA StepIInv == IInv /\ [Next]_vars => IInv'
BY StepStInv, RestStep, NestedStep, FoundStep, RoundStep DEF IInv, TreeInv

\* Beside what verification has found out: nothing is below what is not a folder, the list
\* has nothing that is not wrong, and what a round repaired stays so.
THEOREM StagingRoundInvariant == Spec => []IInv
<1>. QED
  BY InitIInv, StepIInv, PTL DEF Spec

\* Each variable holds a value the code can put there; in particular, nothing is staged
\* below a path that is not a folder.
THEOREM StagingTypeOK == Spec => []TypeOK
<1>1. IInv => TypeOK
  BY PathFacts DEF IInv, TreeInv, StInv, TypeInv, Sound, RestInv, Nested, TypeOK, Right
<1>. QED
  BY <1>1, StagingRoundInvariant, PTL

\* Two undisturbed rounds of verify-local and remediate repair all that remediation can, in
\* every tree, and through crashes of either between them.
THEOREM StagingTwoRoundsRepair == Spec => []TwoRoundsRepair
<1>1. ASSUME IInv, rounds = 2, calm, SourceLive, NEW p \in listed
      PROVE  p \in Beyond
  <2>1. Wrong(p) /\ p \in Paths /\ Sound(disk)
    BY <1>1 DEF IInv, FoundInv, TreeInv, RestInv, StInv, TypeInv
  <2>2. FilesRight(Paths) /\ DirsRight(Paths) /\ DirsTimed(Paths)
    BY <1>1 DEF IInv, RoundInv
  <2>3. CASE p \in Strays
    BY <2>1, <2>3 DEF Wrong, Beyond
  <2>4. CASE p \in Dirs
    BY <2>1, <2>2, <2>4, PathFacts DEF Wrong, DirsRight, DirsTimed, StatIsRight, Sound
  <2>5. CASE p \in Files
    <3>1. StatIsRight(p) /\ disk[p].data # "source" /\ disk[p] \in Objects
      BY <2>1, <2>2, <2>5, PathFacts DEF Wrong, FilesRight, Sound
    <3>2. disk[p].data = "altered" /\ disk[p].mtime = "source"
      BY <3>1 DEF StatIsRight, Objects, Content
    <3>. QED
      BY <2>5, <3>2 DEF Beyond
  <2>. QED
    BY <2>1, <2>3, <2>4, <2>5, PathFacts
<1>2. IInv => TwoRoundsRepair
  BY <1>1 DEF TwoRoundsRepair, SourceLive
<1>. QED
  BY <1>2, StagingRoundInvariant, PTL
=============================================================================

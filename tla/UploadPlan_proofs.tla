------------------------- MODULE UploadPlan_proofs --------------------------
(***************************************************************************)
(* Machine-checked proofs about upload planning, for every source tree and *)
(* any settings of the limits: that the partition has every entry once,    *)
(* where it was and within the limits, and that the database never holds   *)
(* anything but one whole partition.                                       *)
(*                                                                         *)
(* Induction is over sets, of naturals, of folders and of subsets: each    *)
(* recursive function is shown to exist by extending one that is defined   *)
(* so far.                                                                 *)
(***************************************************************************)
EXTENDS UploadPlan, FiniteSetTheorems, SequenceTheorems, WellFoundedInduction, TLAPS

LEMMA SetInduction ==
  ASSUME NEW S, 0 \in S, \A n \in Nat : n \in S => n + 1 \in S
  PROVE  \A n \in Nat : n \in S
<1> SUFFICES ASSUME NEW n \in Nat, n \notin S
             PROVE  FALSE
  OBVIOUS
<1> DEFINE T == {m \in Nat : m \notin S}
<1>1. PICK m \in T : \A y \in T : ~ (<<y, m>> \in OpToRel(<, Nat))
  <2>1. T \subseteq Nat /\ T # {}
    OBVIOUS
  <2>. HIDE DEF T
  <2>. QED
    BY <2>1, NatLessThanWellFounded, WFMin
<1>2. m \in Nat /\ m # 0 /\ m - 1 \in Nat
  OBVIOUS
<1>3. m - 1 \in S
  <2>. SUFFICES ASSUME m - 1 \in T PROVE FALSE
    BY <1>2
  <2>1. <<m - 1, m>> \notin OpToRel(<, Nat)
    BY <1>1
  <2>. QED
    BY <1>2, <2>1 DEF OpToRel
<1>4. (m - 1) + 1 \in S
  BY <1>2, <1>3
<1>. QED
  BY <1>2, <1>4

-----------------------------------------------------------------------------
(* The manifest *)

Sound == entries \in Manifests /\ ATree(entries)

LEMMA SoundFacts ==
  ASSUME Sound
  PROVE  /\ Nodes = 1..Len(entries) /\ Len(entries) \in Nat
         /\ \A m \in Nodes : /\ entries[m].dir \in BOOLEAN /\ entries[m].parent \in Folders
                             /\ entries[m].parent < m
         /\ Folders \subseteq 0..Len(entries)
<1>1. PICK n \in 0..MaxEntries : entries \in [1..n -> [parent : 0..(MaxEntries - 1), dir : BOOLEAN, size : Sizes]]
  BY DEF Sound, Manifests
<1>2. n \in Nat /\ Nodes = 1..n /\ Len(entries) = n
  BY <1>1, EntriesAssumption DEF Nodes
<1>3. \A m \in Nodes : /\ entries[m].dir \in BOOLEAN /\ entries[m].parent \in 0..(MaxEntries - 1)
                       /\ entries[m].parent < m
                       /\ entries[m].parent # Root => entries[entries[m].parent].dir
  BY <1>1, <1>2 DEF Sound, ATree
<1>4. \A m \in Nodes : entries[m].parent \in Folders
  BY <1>2, <1>3, EntriesAssumption DEF Folders, Root
<1>. QED
  BY <1>2, <1>3, <1>4 DEF Folders, Root

LEMMA FolderFacts ==
  ASSUME Sound, NEW d \in Folders
  PROVE  /\ FoldersIn(d) \subseteq Folders \cap Nodes /\ FilesIn(d) \subseteq Nodes
         /\ \A c \in FoldersIn(d) : c > d /\ entries[c].parent = d
         /\ \A f \in FilesIn(d) : entries[f].parent = d
BY SoundFacts DEF FoldersIn, FilesIn, Folders, Root

\* What holds of every folder as soon as it holds of the folders in it holds of all.
LEMMA TreeInduction ==
  ASSUME Sound, NEW S, \A d \in Folders : FoldersIn(d) \subseteq S => d \in S
  PROVE  Folders \subseteq S
<1> DEFINE N == Len(entries)
           T == {k \in Nat : \A d \in Folders : d + k > N => d \in S}
<1>1. N \in Nat /\ \A d \in Folders : d \in 0..N
  BY SoundFacts
<1>2. 0 \in T
  BY <1>1
<1>3. ASSUME NEW k \in Nat, k \in T
      PROVE  k + 1 \in T
  <2> SUFFICES ASSUME NEW d \in Folders, d + (k + 1) > N
               PROVE  d \in S
    OBVIOUS
  <2>1. \A c \in FoldersIn(d) : c \in Folders /\ c \in Nat /\ c > d
    BY <1>1, FolderFacts
  <2>2. FoldersIn(d) \subseteq S
    BY <1>1, <1>3, <2>1
  <2>. QED
    BY <2>2
<1>4. \A k \in Nat : k \in T
  <2>. HIDE DEF T
  <2>. QED
    BY <1>2, <1>3, SetInduction
<1>5. N + 1 \in T
  BY <1>1, <1>4
<1>. QED
  BY <1>1, <1>5

-----------------------------------------------------------------------------
(* Sequences *)

\* A set of numbers can be put in order.
LEMMA InOrderExists ==
  ASSUME NEW n \in Nat
  PROVE  \A S \in SUBSET (1..n) :
           \E s \in [1..Cardinality(S) -> S] : \A i, j \in DOMAIN s : i < j => s[i] < s[j]
<1> DEFINE Ordered(S) == \E s \in [1..Cardinality(S) -> S] : \A i, j \in DOMAIN s : i < j => s[i] < s[j]
           T == {m \in Nat : \A S \in SUBSET (1..m) : Ordered(S)}
<1>1. 0 \in T
  <2>1. Ordered({})
    <3>1. Cardinality({}) = 0
      BY FS_EmptySet
    <3>2. [i \in 1..0 |-> i] \in [1..0 -> {}]
      OBVIOUS
    <3>3. \A i, j \in DOMAIN [i \in 1..0 |-> i] : i < j => FALSE
      OBVIOUS
    <3>. QED
      BY <3>1, <3>2, <3>3
  <2>2. SUBSET (1..0) = {{}}
    OBVIOUS
  <2>. QED
    BY <2>1, <2>2
<1>2. ASSUME NEW m \in Nat, m \in T
      PROVE  m + 1 \in T
  <2> SUFFICES ASSUME NEW S \in SUBSET (1..(m + 1))
               PROVE  Ordered(S)
    OBVIOUS
  <2>1. CASE m + 1 \notin S
    <3>1. S \in SUBSET (1..m)
      BY <2>1
    <3>. QED
      BY <1>2, <3>1
  <2>2. CASE m + 1 \in S
    <3> DEFINE R == S \ {m + 1}
               k == Cardinality(R)
    <3>1. R \in SUBSET (1..m) /\ S = R \cup {m + 1} /\ m + 1 \notin R
      BY <2>2
    <3>2. IsFiniteSet(R) /\ k \in Nat /\ Cardinality(S) = k + 1
      <4>1. IsFiniteSet(1..m)
        BY FS_Interval
      <4>2. IsFiniteSet(R)
        BY <3>1, <4>1, FS_Subset
      <4>. QED
        BY <3>1, <4>2, FS_CardinalityType, FS_AddElement
    <3>3. PICK r \in [1..k -> R] : \A i, j \in DOMAIN r : i < j => r[i] < r[j]
      BY <1>2, <3>1
    <3> HIDE DEF R, k
    <3> DEFINE s == [i \in 1..(k + 1) |-> IF i = k + 1 THEN m + 1 ELSE r[i]]
    <3>4. s \in [1..Cardinality(S) -> S]
      <4>1. \A i \in 1..(k + 1) : i # k + 1 => i \in 1..k /\ r[i] \in S
        BY <3>1, <3>2, <3>3
      <4>2. \A i \in 1..(k + 1) : s[i] \in S
        BY <2>2, <4>1
      <4>. QED
        BY <3>2, <4>2
    <3>5. \A i, j \in DOMAIN s : i < j => s[i] < s[j]
      <4> SUFFICES ASSUME NEW i \in 1..(k + 1), NEW j \in 1..(k + 1), i < j
                   PROVE  s[i] < s[j]
        OBVIOUS
      <4>1. i \in 1..k /\ i # k + 1
        BY <3>2
      <4>4. r[i] \in 1..m
        BY <3>1, <3>3, <4>1
      <4>2. CASE j = k + 1
        BY <4>1, <4>2, <4>4
      <4>3. CASE j # k + 1
        <5>1. j \in 1..k
          BY <3>2, <4>3
        <5>2. r[i] < r[j]
          BY <3>3, <4>1, <5>1
        <5>. QED
          BY <4>1, <4>3, <5>2
      <4>. QED
        BY <4>2, <4>3
    <3>. QED
      BY <3>4, <3>5
  <2>. QED
    BY <2>1, <2>2
<1>3. \A m \in Nat : m \in T
  <2>. HIDE DEF T
  <2>. QED
    BY <1>1, <1>2, SetInduction
<1>. QED
  BY <1>3

LEMMA InOrderType ==
  ASSUME Sound, NEW S \in SUBSET Nodes
  PROVE  InOrder(S) \in Seq(S)
<1>1. IsFiniteSet(S) /\ Cardinality(S) \in Nat
  <2>1. IsFiniteSet(Nodes)
    BY SoundFacts, FS_Interval
  <2>. QED
    BY <2>1, FS_Subset, FS_CardinalityType
<1>2. \E s \in [1..Cardinality(S) -> S] : \A i, j \in DOMAIN s : i < j => s[i] < s[j]
  BY SoundFacts, InOrderExists
<1>3. InOrder(S) \in [1..Cardinality(S) -> S]
  BY <1>2 DEF InOrder
<1>. QED
  BY <1>1, <1>3, SeqDef

\* The recursion of FlattenSeq, for its first m sequences.
FlatStep(seqs, f, i) == IF i = 1 THEN seqs[i] ELSE f[i - 1] \o seqs[i]
Flattens(seqs, m, f) == f = [i \in 1..m |-> FlatStep(seqs, f, i)]

LEMMA FlattenDefined ==
  ASSUME NEW seqs, NEW n \in Nat
  PROVE  \E f : Flattens(seqs, n, f)
<1> DEFINE T == {m \in Nat : \E f : Flattens(seqs, m, f)}
<1>1. 0 \in T
  <2>1. Flattens(seqs, 0, [i \in 1..0 |-> i])
    BY DEF Flattens
  <2>. QED
    BY <2>1
<1>2. ASSUME NEW m \in Nat, m \in T
      PROVE  m + 1 \in T
  <2>1. PICK g : Flattens(seqs, m, g)
    BY <1>2
  <2> DEFINE h == [i \in 1..(m + 1) |-> FlatStep(seqs, g, i)]
  <2>2. ASSUME NEW i \in 1..(m + 1)
        PROVE  FlatStep(seqs, g, i) = FlatStep(seqs, h, i)
    <3>1. CASE i = 1
      BY <3>1 DEF FlatStep
    <3>2. CASE i # 1
      <4>1. i - 1 \in 1..m /\ i - 1 \in 1..(m + 1)
        BY <3>2
      <4>2. g[i - 1] = FlatStep(seqs, g, i - 1) /\ h[i - 1] = FlatStep(seqs, g, i - 1)
        BY <2>1, <4>1 DEF Flattens
      <4>. QED
        BY <3>2, <4>2 DEF FlatStep
    <3>. QED
      BY <3>1, <3>2
  <2>3. h = [i \in 1..(m + 1) |-> FlatStep(seqs, h, i)]
    BY <2>2
  <2>4. Flattens(seqs, m + 1, h)
    BY <2>3 DEF Flattens
  <2>. QED
    BY <2>4
<1>3. \A m \in Nat : m \in T
  <2>. HIDE DEF T
  <2>. QED
    BY <1>1, <1>2, SetInduction
<1>. QED
  BY <1>3

LEMMA FlattenType ==
  ASSUME NEW S, NEW seqs \in Seq(Seq(S))
  PROVE  FlattenSeq(seqs) \in Seq(S)
<1> DEFINE n == Len(seqs)
<1>1. n \in Nat /\ \A i \in 1..n : seqs[i] \in Seq(S)
  BY LenProperties, ElementOfSeq
<1>2. CASE n = 0
  <2>1. FlattenSeq(seqs) = seqs
    BY <1>2 DEF FlattenSeq
  <2>2. seqs = <<>>
    BY <1>2, EmptySeq
  <2>. QED
    BY <2>1, <2>2
<1>3. CASE n # 0
  <2> DEFINE g == CHOOSE f : Flattens(seqs, n, f)
  <2>1. Flattens(seqs, n, g)
    BY <1>1, FlattenDefined
  <2>2. FlattenSeq(seqs) = g[n]
    BY <1>3 DEF FlattenSeq, Flattens, FlatStep
  <2>. HIDE DEF g
  <2> DEFINE U == {m \in Nat : m \in 1..n => g[m] \in Seq(S)}
  <2>3. 0 \in U
    OBVIOUS
  <2>4. ASSUME NEW m \in Nat, m \in U
        PROVE  m + 1 \in U
    <3> SUFFICES ASSUME m + 1 \in 1..n
                 PROVE  g[m + 1] \in Seq(S)
      OBVIOUS
    <3>1. g[m + 1] = FlatStep(seqs, g, m + 1) /\ seqs[m + 1] \in Seq(S)
      BY <1>1, <2>1 DEF Flattens
    <3>2. CASE m = 0
      BY <3>1, <3>2 DEF FlatStep
    <3>3. CASE m # 0
      <4>1. g[m] \in Seq(S)
        BY <1>1, <2>4, <3>3
      <4>2. g[m + 1] = g[m] \o seqs[m + 1]
        <5>1. m + 1 # 1 /\ (m + 1) - 1 = m
          BY <3>3
        <5>. QED
          BY <3>1, <5>1 DEF FlatStep
      <4>. QED
        BY <3>1, <4>1, <4>2, ConcatProperties
    <3>. QED
      BY <3>2, <3>3
  <2>5. \A m \in Nat : m \in U
    <3>. HIDE DEF U
    <3>. QED
      BY <2>3, <2>4, SetInduction
  <2>6. n \in 1..n
    BY <1>1, <1>3
  <2>. QED
    BY <1>1, <2>2, <2>5, <2>6
<1>. QED
  BY <1>2, <1>3

-----------------------------------------------------------------------------
(* The partition *)

\* What add_file_batches can make of a folder.
FileUnits(d) == {FileUnit(d, batch) : batch \in Seq(FilesIn(d))}

BatchStep(d, lim, made, k) ==
  IF k = 0 THEN [units |-> <<>>, batch |-> <<>>]
  ELSE Put(d, made[k - 1], InOrder(FilesIn(d))[k], lim)
Batches(d, lim, m, made) == made = [k \in 0..m |-> BatchStep(d, lim, made, k)]

LEMMA BatchingDefined ==
  ASSUME NEW d, NEW lim, NEW n \in Nat
  PROVE  \E made : Batches(d, lim, n, made)
<1> DEFINE T == {m \in Nat : \E made : Batches(d, lim, m, made)}
<1>1. 0 \in T
  <2> DEFINE g == [k \in 0..0 |-> [units |-> <<>>, batch |-> <<>>]]
  <2>1. \A k \in 0..0 : BatchStep(d, lim, g, k) = [units |-> <<>>, batch |-> <<>>]
    BY DEF BatchStep
  <2>2. Batches(d, lim, 0, g)
    BY <2>1 DEF Batches
  <2>. QED
    BY <2>2
<1>2. ASSUME NEW m \in Nat, m \in T
      PROVE  m + 1 \in T
  <2>1. PICK g : Batches(d, lim, m, g)
    BY <1>2
  <2> DEFINE h == [k \in 0..(m + 1) |-> BatchStep(d, lim, g, k)]
  <2>2. ASSUME NEW k \in 0..(m + 1)
        PROVE  BatchStep(d, lim, g, k) = BatchStep(d, lim, h, k)
    <3>1. CASE k = 0
      BY <3>1 DEF BatchStep
    <3>2. CASE k # 0
      <4>1. k - 1 \in 0..m /\ k - 1 \in 0..(m + 1)
        BY <3>2
      <4>2. g[k - 1] = BatchStep(d, lim, g, k - 1) /\ h[k - 1] = BatchStep(d, lim, g, k - 1)
        BY <2>1, <4>1 DEF Batches
      <4>. QED
        BY <3>2, <4>2 DEF BatchStep
    <3>. QED
      BY <3>1, <3>2
  <2>3. h = [k \in 0..(m + 1) |-> BatchStep(d, lim, h, k)]
    BY <2>2
  <2>4. Batches(d, lim, m + 1, h)
    BY <2>3 DEF Batches
  <2>. QED
    BY <2>4
<1>3. \A m \in Nat : m \in T
  <2>. HIDE DEF T
  <2>. QED
    BY <1>1, <1>2, SetInduction
<1>. QED
  BY <1>3

LEMMA PutType ==
  ASSUME NEW d, NEW lim, NEW f \in FilesIn(d),
         NEW made \in [units : Seq(FileUnits(d)), batch : Seq(FilesIn(d))]
  PROVE  Put(d, made, f, lim) \in [units : Seq(FileUnits(d)), batch : Seq(FilesIn(d))]
<1>1. FileUnit(d, made.batch) \in FileUnits(d)
  BY DEF FileUnits
<1>2. Append(made.units, FileUnit(d, made.batch)) \in Seq(FileUnits(d))
  BY <1>1, AppendProperties
<1>3. <<f>> \in Seq(FilesIn(d)) /\ Append(made.batch, f) \in Seq(FilesIn(d))
  BY AppendProperties
<1>. QED
  BY <1>2, <1>3 DEF Put

LEMMA FileBatchesType ==
  ASSUME Sound, NEW d \in Folders, NEW lim
  PROVE  FileBatches(d, lim) \in Seq(FileUnits(d))
<1> DEFINE files == InOrder(FilesIn(d))
           n == Len(files)
           Made == [units : Seq(FileUnits(d)), batch : Seq(FilesIn(d))]
           g == CHOOSE made : Batches(d, lim, n, made)
<1>1. n \in Nat /\ \A k \in 1..n : files[k] \in FilesIn(d)
  BY FolderFacts, InOrderType, LenProperties, ElementOfSeq
<1>2. Batches(d, lim, n, g)
  BY <1>1, BatchingDefined
<1>3. Batching(d, lim) = g
  BY DEF Batching, Batches, BatchStep
<1> HIDE DEF g
<1> DEFINE T == {m \in Nat : m \in 0..n => g[m] \in Made}
<1>4. 0 \in T
  <2> SUFFICES ASSUME 0 \in 0..n PROVE g[0] \in Made
    OBVIOUS
  <2>1. g[0] = [units |-> <<>>, batch |-> <<>>]
    BY <1>2 DEF Batches, BatchStep
  <2>2. <<>> \in Seq(FileUnits(d)) /\ <<>> \in Seq(FilesIn(d))
    BY EmptySeq
  <2>. QED
    BY <2>1, <2>2
<1>5. ASSUME NEW m \in Nat, m \in T
      PROVE  m + 1 \in T
  <2> SUFFICES ASSUME m + 1 \in 0..n
               PROVE  g[m + 1] \in Made
    OBVIOUS
  <2>1. m + 1 # 0 /\ (m + 1) - 1 = m /\ m + 1 \in 1..n /\ g[m] \in Made
    BY <1>1, <1>5
  <2>2. g[m + 1] = BatchStep(d, lim, g, m + 1)
    BY <1>2 DEF Batches
  <2>3. g[m + 1] = Put(d, g[m], files[m + 1], lim)
    BY <2>1, <2>2 DEF BatchStep
  <2>. QED
    BY <1>1, <2>1, <2>3, PutType
<1>6. \A m \in Nat : m \in T
  <2>. HIDE DEF T
  <2>. QED
    BY <1>4, <1>5, SetInduction
<1>7. g[n] \in Made
  BY <1>1, <1>6
<1>8. FileUnit(d, g[n].batch) \in FileUnits(d)
  BY <1>7 DEF FileUnits
<1>. QED
  BY <1>3, <1>7, <1>8, AppendProperties DEF FileBatches, LastBatch

\* What one folder comes to, given what the folders in it came to.
PartStep(d, lim, part) ==
  IF d # Root /\ Fits(d, lim) THEN [folders |-> {}, units |-> <<FolderUnit(d)>>] ELSE Split(d, lim, part)
Parts(lim, S, part) == part = [d \in S |-> PartStep(d, lim, part)]

\* The units a plan is made of.
PlanUnits == {FolderUnit(d) : d \in Folders \ {Root}} \cup UNION {FileUnits(d) : d \in Folders}

LEMMA PartStepLocal ==
  ASSUME Sound, NEW d \in Folders, NEW lim, NEW g, NEW h, \A c \in FoldersIn(d) : g[c] = h[c]
  PROVE  PartStep(d, lim, g) = PartStep(d, lim, h)
<1> DEFINE below == InOrder(FoldersIn(d))
<1>1. below \in Seq(FoldersIn(d))
  BY FolderFacts, InOrderType
<1>2. \A k \in DOMAIN below : below[k] \in FoldersIn(d)
  BY <1>1, LenProperties, ElementOfSeq
<1>3. [k \in DOMAIN below |-> g[below[k]].units] = [k \in DOMAIN below |-> h[below[k]].units]
  BY <1>2
<1>4. UNION {g[c].folders : c \in FoldersIn(d)} = UNION {h[c].folders : c \in FoldersIn(d)}
  OBVIOUS
<1>5. Split(d, lim, g) = Split(d, lim, h)
  BY <1>3, <1>4 DEF Split
<1>. QED
  BY <1>5 DEF PartStep

LEMMA PartitionsDefined ==
  ASSUME Sound, NEW lim
  PROVE  Parts(lim, Folders, Partitions(lim))
<1> DEFINE N == Len(entries)
           Upper(k) == {d \in Folders : d + k > N}
           T == {k \in Nat : \E g : Parts(lim, Upper(k), g)}
<1>1. N \in Nat /\ \A d \in Folders : d \in 0..N
  BY SoundFacts
<1>2. 0 \in T
  <2>1. Upper(0) = {}
    BY <1>1
  <2>2. Parts(lim, {}, [d \in {} |-> d])
    BY DEF Parts
  <2>. QED
    BY <2>1, <2>2
<1>3. ASSUME NEW k \in Nat, k \in T
      PROVE  k + 1 \in T
  <2>1. PICK g : Parts(lim, Upper(k), g)
    BY <1>3
  <2> DEFINE h == [d \in Upper(k + 1) |-> PartStep(d, lim, g)]
  <2>2. ASSUME NEW d \in Upper(k + 1)
        PROVE  PartStep(d, lim, g) = PartStep(d, lim, h)
    <3>1. \A c \in FoldersIn(d) : c \in Upper(k) /\ c \in Upper(k + 1)
      BY <1>1, FolderFacts
    <3>2. \A c \in FoldersIn(d) : g[c] = h[c]
      BY <2>1, <3>1 DEF Parts
    <3>3. d \in Folders
      OBVIOUS
    <3>. HIDE DEF h, Upper
    <3>. QED
      BY <3>2, <3>3, PartStepLocal
  <2>3. h = [d \in Upper(k + 1) |-> PartStep(d, lim, h)]
    BY <2>2
  <2>4. Parts(lim, Upper(k + 1), h)
    BY <2>3 DEF Parts
  <2>. HIDE DEF h, Upper
  <2>. QED
    BY <2>4
<1>4. \A k \in Nat : k \in T
  <2>. HIDE DEF T
  <2>. QED
    BY <1>2, <1>3, SetInduction
<1>5. Upper(N + 1) = Folders
  BY <1>1
<1>6. \E g : Parts(lim, Folders, g)
  <2>1. N + 1 \in T
    <3>1. N + 1 \in Nat
      BY <1>1
    <3>. HIDE DEF T
    <3>. QED
      BY <1>4, <3>1
  <2>. HIDE DEF Upper
  <2>. QED
    BY <1>5, <2>1
<1>7. Partitions(lim) = CHOOSE g : Parts(lim, Folders, g)
  BY DEF Partitions, Parts, PartStep
<1>. QED
  BY <1>6, <1>7

\* What a folder comes to: one unit, or itself made on Proton Drive with all that is in it.
\* A unit goes to a folder that is made, or, if it is the whole folder, to the one above.
Placed(d, r) ==
  /\ r.folders \subseteq Folders
  /\ r.units \in Seq(PlanUnits)
  /\ \A x \in r.folders : x = d \/ entries[x].parent \in r.folders
  /\ \/ /\ d # Root /\ r.folders = {}
        /\ r.units \in Seq({u \in PlanUnits : u.parent = entries[d].parent})
     \/ /\ d \in r.folders
        /\ r.units \in Seq({u \in PlanUnits : u.parent \in r.folders})

LEMMA SplitPlaced ==
  ASSUME Sound, NEW d \in Folders, NEW lim, NEW part, \A c \in FoldersIn(d) : Placed(c, part[c])
  PROVE  Placed(d, Split(d, lim, part))
<1> DEFINE below == InOrder(FoldersIn(d))
           made == {d} \cup UNION {part[c].folders : c \in FoldersIn(d)}
           Here == {u \in PlanUnits : u.parent \in made}
           rest == [k \in DOMAIN below |-> part[below[k]].units]
           r == Split(d, lim, part)
<1>1. r.folders = made /\ r.units = FileBatches(d, lim) \o FlattenSeq(rest)
  BY DEF Split
<1>2. /\ FoldersIn(d) \subseteq Folders
      /\ \A c \in FoldersIn(d) : c # Root /\ entries[c].parent = d
  BY SoundFacts, FolderFacts DEF Root
<1>3. made \subseteq Folders
  BY <1>2 DEF Placed
<1>4. \A x \in made : x = d \/ entries[x].parent \in made
  <2> SUFFICES ASSUME NEW c \in FoldersIn(d), NEW x \in part[c].folders
               PROVE  entries[x].parent \in made
    OBVIOUS
  <2>1. x = c \/ entries[x].parent \in part[c].folders
    BY DEF Placed
  <2>. QED
    BY <1>2, <2>1
<1>5. FileBatches(d, lim) \in Seq(Here)
  <2>1. FileUnits(d) \subseteq Here
    BY DEF FileUnits, FileUnit, PlanUnits
  <2>2. FileBatches(d, lim) \in Seq(FileUnits(d))
    BY FileBatchesType
  <2>. HIDE DEF Here
  <2>. QED
    BY <2>1, <2>2, SeqMonotonic
<1>6. ASSUME NEW c \in FoldersIn(d)
      PROVE  part[c].units \in Seq(Here)
  <2>1. CASE part[c].units \in Seq({u \in PlanUnits : u.parent = entries[c].parent})
    <3>1. {u \in PlanUnits : u.parent = entries[c].parent} \subseteq Here
      BY <1>2
    <3>. HIDE DEF Here
    <3>. QED
      BY <2>1, <3>1, SeqMonotonic
  <2>2. CASE part[c].units \in Seq({u \in PlanUnits : u.parent \in part[c].folders})
    <3>1. {u \in PlanUnits : u.parent \in part[c].folders} \subseteq Here
      OBVIOUS
    <3>. HIDE DEF Here
    <3>. QED
      BY <2>2, <3>1, SeqMonotonic
  <2>. QED
    BY <2>1, <2>2 DEF Placed
<1>7. rest \in Seq(Seq(Here))
  <2>1. below \in Seq(FoldersIn(d))
    BY FolderFacts, InOrderType
  <2>2. Len(below) \in Nat /\ DOMAIN below = 1..Len(below) /\ \A k \in 1..Len(below) : below[k] \in FoldersIn(d)
    BY <2>1, LenProperties, ElementOfSeq
  <2>. HIDE DEF Here, below
  <2>3. rest \in [1..Len(below) -> Seq(Here)]
    BY <1>6, <2>2
  <2>. QED
    BY <2>2, <2>3, SeqDef
<1>8. r.units \in Seq(Here)
  <2>. HIDE DEF Here, rest, r
  <2>. QED
    BY <1>1, <1>5, <1>7, FlattenType, ConcatProperties
<1>9. r.units \in Seq(PlanUnits)
  <2>1. Here \subseteq PlanUnits
    OBVIOUS
  <2>. HIDE DEF Here, r
  <2>. QED
    BY <1>8, <2>1, SeqMonotonic
<1>10. Here = {u \in PlanUnits : u.parent \in r.folders} /\ d \in r.folders
  BY <1>1
<1>11. \A x \in r.folders : x = d \/ entries[x].parent \in r.folders
  <2>. HIDE DEF made, r
  <2>. QED
    BY <1>1, <1>4
<1>. QED
  <2>1. r.folders \subseteq Folders
    BY <1>1, <1>3
  <2>2. r.units \in Seq({u \in PlanUnits : u.parent \in r.folders})
    BY <1>8, <1>10
  <2>3. d \in r.folders
    BY <1>10
  <2>4. Placed(d, r)
    <3>. HIDE DEF r, Here
    <3>. QED
      BY <2>1, <2>2, <2>3, <1>9, <1>11 DEF Placed
  <2>. QED
    BY <2>4

LEMMA PartitionsPlaced ==
  ASSUME Sound, NEW lim
  PROVE  \A d \in Folders : Placed(d, Partitions(lim)[d])
<1> DEFINE part == Partitions(lim)
           S == {d \in Folders : Placed(d, part[d])}
<1>1. \A d \in Folders : part[d] = PartStep(d, lim, part)
  BY PartitionsDefined DEF Parts
<1>2. ASSUME NEW d \in Folders, FoldersIn(d) \subseteq S
      PROVE  d \in S
  <2>1. CASE d # Root /\ Fits(d, lim)
    <3> DEFINE Above == {u \in PlanUnits : u.parent = entries[d].parent}
    <3>1. FolderUnit(d) \in PlanUnits /\ FolderUnit(d).parent = entries[d].parent
      BY <2>1 DEF PlanUnits, FolderUnit
    <3>2. <<FolderUnit(d)>> \in Seq(PlanUnits) /\ <<FolderUnit(d)>> \in Seq(Above)
      BY <3>1
    <3>3. part[d].folders = {} /\ part[d].units = <<FolderUnit(d)>>
      <4>1. part[d] = [folders |-> {}, units |-> <<FolderUnit(d)>>]
        BY <1>1, <2>1 DEF PartStep
      <4>. HIDE DEF part
      <4>. QED
        BY <4>1
    <3>. HIDE DEF part
    <3>. QED
      BY <2>1, <3>2, <3>3 DEF Placed
  <2>2. CASE ~(d # Root /\ Fits(d, lim))
    <3>1. part[d] = Split(d, lim, part)
      BY <1>1, <2>2 DEF PartStep
    <3>2. \A c \in FoldersIn(d) : Placed(c, part[c])
      BY <1>2
    <3>. HIDE DEF part
    <3>. QED
      BY <3>1, <3>2, SplitPlaced
  <2>. QED
    BY <2>1, <2>2
<1>3. Folders \subseteq S
  <2>. HIDE DEF S
  <2>. QED
    BY <1>2, TreeInduction
<1>. QED
  BY <1>3

LEMMA PartitionPlaced ==
  ASSUME Sound, NEW lim
  PROVE  Placed(Root, Partition(lim)) /\ Root \in Partition(lim).folders
<1>1. Root \in Folders
  BY DEF Folders
<1>. QED
  BY <1>1, PartitionsPlaced DEF Placed, Partition

LEMMA PartitionFields ==
  ASSUME Sound, NEW lim
  PROVE  Partition(lim) = [folders |-> Partition(lim).folders, units |-> Partition(lim).units]
<1>1. Root \in Folders
  BY DEF Folders
<1>2. Partition(lim) = PartStep(Root, lim, Partitions(lim))
  BY <1>1, PartitionsDefined DEF Parts, Partition
<1>3. Partition(lim) = Split(Root, lim, Partitions(lim))
  BY <1>2 DEF PartStep
<1>. QED
  BY <1>3 DEF Split

-----------------------------------------------------------------------------
(* What is above an entry *)

\* The recursion that defines above, for the first entries.
AboveStep(n, f) == IF n = Root THEN {} ELSE {n} \cup f[entries[n].parent]
Aboves(k, f) == f = [n \in 0..k |-> AboveStep(n, f)]

LEMMA AboveDefined ==
  ASSUME Sound
  PROVE  /\ above[Root] = {}
         /\ \A n \in Nodes : above[n] = {n} \cup above[entries[n].parent]
<1> DEFINE N == Len(entries)
           T == {k \in Nat : k <= N => \E f : Aboves(k, f)}
<1>1. /\ N \in Nat /\ Nodes = 1..N /\ Nodes \cup {Root} = 0..N
      /\ \A n \in 1..N : entries[n].parent \in 0..(n - 1)
  BY SoundFacts DEF Root
<1>2. 0 \in T
  <2> DEFINE f == [n \in 0..0 |-> {}]
  <2>1. \A n \in 0..0 : AboveStep(n, f) = {}
    BY DEF AboveStep, Root
  <2>2. Aboves(0, f)
    BY <2>1 DEF Aboves
  <2>. QED
    BY <2>2
<1>3. ASSUME NEW k \in Nat, k \in T
      PROVE  k + 1 \in T
  <2> SUFFICES ASSUME k + 1 <= N
               PROVE  \E f : Aboves(k + 1, f)
    OBVIOUS
  <2>1. PICK g : Aboves(k, g)
    BY <1>1, <1>3
  <2> DEFINE h == [n \in 0..(k + 1) |-> AboveStep(n, g)]
  <2>2. ASSUME NEW n \in 0..(k + 1)
        PROVE  AboveStep(n, g) = AboveStep(n, h)
    <3>1. CASE n = Root
      BY <3>1 DEF AboveStep
    <3>2. CASE n # Root
      <4>1. entries[n].parent \in 0..k /\ entries[n].parent \in 0..(k + 1)
        <5>1. n \in 1..N
          BY <1>1, <3>2 DEF Root
        <5>. QED
          BY <1>1, <5>1
      <4>2. g[entries[n].parent] = h[entries[n].parent]
        BY <2>1, <4>1 DEF Aboves
      <4>. QED
        BY <4>2 DEF AboveStep
    <3>. QED
      BY <3>1, <3>2
  <2>3. h = [n \in 0..(k + 1) |-> AboveStep(n, h)]
    BY <2>2
  <2>4. Aboves(k + 1, h)
    BY <2>3 DEF Aboves
  <2>. QED
    BY <2>4
<1>4. \E f : Aboves(N, f)
  <2>1. \A k \in Nat : k \in T
    <3>. HIDE DEF T
    <3>. QED
      BY <1>2, <1>3, SetInduction
  <2>. QED
    BY <1>1, <2>1
<1>5. Aboves(N, above)
  <2>1. above = CHOOSE f : Aboves(N, f)
    BY <1>1 DEF above, Aboves, AboveStep
  <2>. QED
    BY <1>4, <2>1
<1>6. \A n \in 0..N : above[n] = AboveStep(n, above)
  BY <1>5 DEF Aboves
<1>7. Root \in 0..N /\ \A n \in 1..N : n \in 0..N /\ n # Root
  BY <1>1 DEF Root
<1>. QED
  BY <1>1, <1>6, <1>7 DEF AboveStep

\* What holds of an entry as soon as it holds of its parent holds of all.
LEMMA EntryInduction ==
  ASSUME Sound, NEW S, \A n \in Nodes : entries[n].parent \in S \cup {Root} => n \in S
  PROVE  Nodes \subseteq S
<1> DEFINE N == Len(entries)
           T == {k \in Nat : \A n \in Nodes : n <= k => n \in S}
<1>1. N \in Nat /\ Nodes = 1..N /\ \A n \in Nodes : entries[n].parent \in Folders /\ entries[n].parent < n
  BY SoundFacts
<1>2. 0 \in T
  BY <1>1
<1>3. ASSUME NEW k \in Nat, k \in T
      PROVE  k + 1 \in T
  <2> SUFFICES ASSUME NEW n \in Nodes, n <= k + 1
               PROVE  n \in S
    OBVIOUS
  <2>1. entries[n].parent \in Nodes \cup {Root} /\ entries[n].parent < n
    BY <1>1 DEF Folders
  <2>2. entries[n].parent \in S \cup {Root}
    BY <1>1, <1>3, <2>1
  <2>. QED
    BY <2>2
<1>4. \A k \in Nat : k \in T
  <2>. HIDE DEF T
  <2>. QED
    BY <1>2, <1>3, SetInduction
<1>. QED
  BY <1>1, <1>4

\* What is above an entry, itself included, is folders but for itself, goes up to the root,
\* and has no two entries of one folder.
LEMMA AboveFacts ==
  ASSUME Sound, NEW n \in Nodes
  PROVE  /\ n \in above[n] /\ above[n] \subseteq Nodes
         /\ \A x \in above[n] : x <= n /\ (x # n => entries[x].dir)
         /\ \A x \in above[n] : entries[x].parent = Root \/ entries[x].parent \in above[n]
         /\ \A x, y \in above[n] : entries[x].parent = entries[y].parent => x = y
<1> DEFINE Chain(m) ==
             /\ m \in above[m] /\ above[m] \subseteq Nodes
             /\ \A x \in above[m] : x <= m /\ (x # m => entries[x].dir)
             /\ \A x \in above[m] : entries[x].parent = Root \/ entries[x].parent \in above[m]
             /\ \A x, y \in above[m] : entries[x].parent = entries[y].parent => x = y
           S == {m \in Nodes : Chain(m)}
<1>1. ASSUME NEW m \in Nodes, entries[m].parent \in S \cup {Root}
      PROVE  m \in S
  <2> DEFINE p == entries[m].parent
  <2>1. above[m] = {m} \cup above[p] /\ above[Root] = {}
    BY AboveDefined
  <2>2. p \in Folders /\ p < m /\ Nodes = 1..Len(entries) /\ Len(entries) \in Nat
    BY SoundFacts
  <2>3. CASE p = Root
    BY <2>1, <2>2, <2>3
  <2>4. CASE p # Root
    <3>1. p \in S /\ Chain(p) /\ p \in Nodes /\ entries[p].dir
      BY <1>1, <2>2, <2>4 DEF Folders
    <3>2. \A x \in above[p] : x \in Nodes /\ x <= p /\ x # m
      BY <2>2, <3>1
    <3>3. \A x \in above[p] : entries[x].parent < x
      BY <3>2, SoundFacts
    <3>4. \A x \in above[p] : entries[x].parent # p
      BY <2>2, <3>2, <3>3, SoundFacts
    <3>5. \A x \in above[m] : x <= m /\ (x # m => entries[x].dir)
      <4>1. \A x \in above[p] : x <= m /\ entries[x].dir
        BY <2>2, <3>1, <3>2
      <4>. QED
        BY <2>1, <2>2, <4>1
    <3>6. \A x \in above[m] : entries[x].parent = Root \/ entries[x].parent \in above[m]
      BY <2>1, <3>1
    <3>7. \A x, y \in above[m] : entries[x].parent = entries[y].parent => x = y
      BY <2>1, <3>1, <3>4
    <3>8. m \in above[m] /\ above[m] \subseteq Nodes
      BY <2>1, <3>2
    <3>. QED
      BY <3>5, <3>6, <3>7, <3>8
  <2>. QED
    BY <2>3, <2>4
<1>2. Nodes \subseteq S
  <2>. HIDE DEF S
  <2>. QED
    BY <1>1, EntryInduction
<1>. QED
  BY <1>2

\* An entry is below a folder through one of the entries in it.
LEMMA ThroughAChild ==
  ASSUME Sound, NEW d \in Folders, NEW n \in Nodes, d = Root \/ d \in above[n], n # d
  PROVE  \E x \in above[n] : entries[x].parent = d
<1> DEFINE S == {m \in Nodes : m # d /\ (d = Root \/ d \in above[m]) => \E x \in above[m] : entries[x].parent = d}
<1>1. ASSUME NEW m \in Nodes, entries[m].parent \in S \cup {Root}
      PROVE  m \in S
  <2> DEFINE p == entries[m].parent
  <2> SUFFICES ASSUME m # d, d = Root \/ d \in above[m]
               PROVE  \E x \in above[m] : entries[x].parent = d
    OBVIOUS
  <2>1. above[m] = {m} \cup above[p] /\ above[Root] = {}
    BY AboveDefined
  <2>2. CASE p = d
    BY <2>1, <2>2
  <2>3. CASE p # d
    <3>1. p # Root /\ p \in S
      BY <1>1, <2>1, <2>3
    <3>2. d = Root \/ d \in above[p]
      BY <2>1
    <3>. QED
      BY <2>1, <2>3, <3>1, <3>2
  <2>. QED
    BY <2>2, <2>3
<1>2. Nodes \subseteq S
  <2>. HIDE DEF S
  <2>. QED
    BY <1>1, EntryInduction
<1>. QED
  BY <1>2

\* And what is in a folder is below it.
LEMMA ChildIsBelow ==
  ASSUME Sound, NEW d \in Folders, NEW n \in Nodes, NEW x \in above[n], entries[x].parent = d
  PROVE  d = Root \/ d \in above[n]
BY AboveFacts

LEMMA InOrderBijection ==
  ASSUME Sound, NEW S \in SUBSET Nodes
  PROVE  /\ InOrder(S) \in [1..Cardinality(S) -> S] /\ Cardinality(S) \in Nat
         /\ \A i, j \in 1..Cardinality(S) : InOrder(S)[i] = InOrder(S)[j] => i = j
         /\ \A n \in S : \E i \in 1..Cardinality(S) : InOrder(S)[i] = n
<1> DEFINE k == Cardinality(S)
<1>1. IsFiniteSet(S) /\ k \in Nat
  <2>1. IsFiniteSet(Nodes)
    BY SoundFacts, FS_Interval
  <2>. QED
    BY <2>1, FS_Subset, FS_CardinalityType
<1>2. \E s \in [1..k -> S] : \A i, j \in DOMAIN s : i < j => s[i] < s[j]
  BY SoundFacts, InOrderExists
<1>3. InOrder(S) \in [1..k -> S] /\ \A i, j \in DOMAIN InOrder(S) : i < j => InOrder(S)[i] < InOrder(S)[j]
  BY <1>2 DEF InOrder
<1>. HIDE DEF k
<1>4. ASSUME NEW i \in 1..k, NEW j \in 1..k, InOrder(S)[i] = InOrder(S)[j]
      PROVE  i = j
  <2>1. InOrder(S)[i] \in Nat
    BY <1>3, SoundFacts
  <2>2. ~(i < j) /\ ~(j < i)
    BY <1>1, <1>3, <1>4, <2>1
  <2>. QED
    BY <1>1, <2>2
<1>5. InOrder(S) \in Injection(1..k, S)
  BY <1>3, <1>4 DEF Injection, IsInjective
<1>6. Cardinality(1..k) = k
  BY <1>1, FS_Interval
<1>7. InOrder(S) \in Surjection(1..k, S)
  BY <1>1, <1>5, <1>6, FS_Injection DEF k
<1>. QED
  BY <1>1, <1>3, <1>4, <1>7 DEF Surjection, k

-----------------------------------------------------------------------------
(* Every entry once *)

\* A place of a list of units that brings an entry to Proton Drive.
At(us, i, k, n) == i \in DOMAIN us /\ k \in DOMAIN us[i].paths /\ us[i].paths[k] \in above[n]
Never(us, n) == \A i, k : ~At(us, i, k, n)
Once(us, n)  == \E i, k : At(us, i, k, n) /\ \A j, l : At(us, j, l, n) => j = i /\ l = k

LEMMA AtConcat ==
  ASSUME NEW S, NEW s \in Seq(S), NEW t \in Seq(S), NEW n
  PROVE  \A i, k : At(s \o t, i, k, n) <=> At(s, i, k, n) \/ (i \in Nat /\ At(t, i - Len(s), k, n))
<1>1. /\ Len(s) \in Nat /\ Len(t) \in Nat /\ DOMAIN s = 1..Len(s) /\ DOMAIN t = 1..Len(t)
      /\ DOMAIN (s \o t) = 1..(Len(s) + Len(t))
      /\ \A i \in 1..(Len(s) + Len(t)) : (s \o t)[i] = IF i <= Len(s) THEN s[i] ELSE t[i - Len(s)]
  BY LenProperties, ConcatProperties
<1> SUFFICES ASSUME NEW i, NEW k
             PROVE  At(s \o t, i, k, n) <=> At(s, i, k, n) \/ (i \in Nat /\ At(t, i - Len(s), k, n))
  OBVIOUS
<1>2. CASE i \in 1..Len(s)
  <2>1. i \in Nat /\ i \in DOMAIN (s \o t) /\ (s \o t)[i] = s[i] /\ i - Len(s) \notin DOMAIN t
    BY <1>1, <1>2
  <2>. QED
    BY <1>1, <1>2, <2>1 DEF At
<1>3. CASE i \in Nat /\ i - Len(s) \in 1..Len(t)
  <2>1. i \in DOMAIN (s \o t) /\ i \notin DOMAIN s /\ (s \o t)[i] = t[i - Len(s)]
    BY <1>1, <1>3
  <2>. QED
    BY <1>1, <1>3, <2>1 DEF At
<1>4. CASE i \notin 1..Len(s) /\ ~(i \in Nat /\ i - Len(s) \in 1..Len(t))
  <2>1. i \notin DOMAIN (s \o t)
    BY <1>1, <1>4
  <2>. QED
    BY <1>1, <1>4, <2>1 DEF At
<1>. QED
  BY <1>2, <1>3, <1>4

LEMMA OnceConcat ==
  ASSUME NEW S, NEW s \in Seq(S), NEW t \in Seq(S), NEW n
  PROVE  /\ Never(s, n) /\ Never(t, n) => Never(s \o t, n)
         /\ Once(s, n) /\ Never(t, n) => Once(s \o t, n)
         /\ Never(s, n) /\ Once(t, n) => Once(s \o t, n)
<1>1. Len(s) \in Nat /\ DOMAIN t \subseteq Nat /\ DOMAIN s \subseteq Nat
  BY LenProperties
<1>2. \A i, k : At(s \o t, i, k, n) <=> At(s, i, k, n) \/ (i \in Nat /\ At(t, i - Len(s), k, n))
  BY AtConcat
<1>3. Never(s, n) /\ Never(t, n) => Never(s \o t, n)
  BY <1>2 DEF Never
<1>4. Once(s, n) /\ Never(t, n) => Once(s \o t, n)
  BY <1>2 DEF Never, Once
<1>5. ASSUME Never(s, n), Once(t, n)
      PROVE  Once(s \o t, n)
  <2>1. PICK i, k : At(t, i, k, n) /\ \A j, l : At(t, j, l, n) => j = i /\ l = k
    BY <1>5 DEF Once
  <2>2. i \in Nat /\ i + Len(s) \in Nat /\ (i + Len(s)) - Len(s) = i
    BY <1>1, <2>1 DEF At
  <2>3. At(s \o t, i + Len(s), k, n)
    BY <1>2, <2>1, <2>2
  <2>4. ASSUME NEW j, NEW l, At(s \o t, j, l, n)
        PROVE  j = i + Len(s) /\ l = k
    <3>1. j \in Nat /\ At(t, j - Len(s), l, n)
      BY <1>2, <1>5, <2>4 DEF Never
    <3>2. j - Len(s) = i /\ l = k
      BY <2>1, <3>1
    <3>. QED
      BY <1>1, <2>2, <3>1, <3>2
  <2>. QED
    BY <2>3, <2>4 DEF Once
<1>. QED
  BY <1>3, <1>4, <1>5

\* A list of lists carries an entry once if one of them does, and never if none does.
LEMMA OnceFlatten ==
  ASSUME NEW S, NEW seqs \in Seq(Seq(S)), NEW n, NEW c,
         \A k \in 1..Len(seqs) : IF k = c THEN Once(seqs[k], n) ELSE Never(seqs[k], n)
  PROVE  IF c \in 1..Len(seqs) THEN Once(FlattenSeq(seqs), n) ELSE Never(FlattenSeq(seqs), n)
<1> DEFINE z == Len(seqs)
<1>1. z \in Nat /\ \A i \in 1..z : seqs[i] \in Seq(S)
  BY LenProperties, ElementOfSeq
<1>2. CASE z = 0
  <2>1. FlattenSeq(seqs) = seqs
    BY <1>2 DEF FlattenSeq
  <2>2. seqs = <<>>
    BY <1>2, EmptySeq
  <2>3. Never(<<>>, n)
    BY DEF Never, At
  <2>. QED
    BY <1>2, <2>1, <2>2, <2>3
<1>3. CASE z # 0
  <2> DEFINE g == CHOOSE f : Flattens(seqs, z, f)
  <2>1. Flattens(seqs, z, g)
    BY <1>1, FlattenDefined
  <2>2. FlattenSeq(seqs) = g[z]
    BY <1>3 DEF FlattenSeq, Flattens, FlatStep
  <2>. HIDE DEF g
  <2> DEFINE Right(m) == g[m] \in Seq(S) /\ IF c \in 1..m THEN Once(g[m], n) ELSE Never(g[m], n)
             U == {m \in Nat : m \in 1..z => Right(m)}
  <2>3. 0 \in U
    <3>1. 0 \notin 1..z
      BY <1>1
    <3>. QED
      BY <3>1
  <2>4. ASSUME NEW m \in Nat, m \in U
        PROVE  m + 1 \in U
    <3> SUFFICES ASSUME m + 1 \in 1..z
                 PROVE  Right(m + 1)
      OBVIOUS
    <3>1. /\ g[m + 1] = FlatStep(seqs, g, m + 1) /\ seqs[m + 1] \in Seq(S)
          /\ IF m + 1 = c THEN Once(seqs[m + 1], n) ELSE Never(seqs[m + 1], n)
      BY <1>1, <2>1 DEF Flattens
    <3>2. CASE m = 0
      <4>1. g[m + 1] = seqs[m + 1] /\ (c \in 1..(m + 1) <=> m + 1 = c)
        BY <1>1, <3>1, <3>2 DEF FlatStep
      <4>. QED
        BY <3>1, <4>1
    <3>3. CASE m # 0
      <4>1. Right(m)
        <5>1. m \in 1..z
          BY <1>1, <3>3
        <5>. HIDE DEF Right
        <5>. QED
          BY <2>4, <5>1
      <4>2. g[m + 1] = g[m] \o seqs[m + 1]
        <5>1. m + 1 # 1 /\ (m + 1) - 1 = m
          BY <3>3
        <5>. QED
          BY <3>1, <5>1 DEF FlatStep
      <4>3. (c \in 1..(m + 1) <=> c \in 1..m \/ m + 1 = c) /\ m + 1 \notin 1..m
        OBVIOUS
      <4>4. g[m + 1] \in Seq(S)
        BY <3>1, <4>1, <4>2, ConcatProperties
      <4>5. /\ Never(g[m], n) /\ Never(seqs[m + 1], n) => Never(g[m + 1], n)
            /\ Once(g[m], n) /\ Never(seqs[m + 1], n) => Once(g[m + 1], n)
            /\ Never(g[m], n) /\ Once(seqs[m + 1], n) => Once(g[m + 1], n)
        BY <3>1, <4>1, <4>2, OnceConcat
      <4>. QED
        BY <3>1, <4>1, <4>3, <4>4, <4>5
    <3>. QED
      BY <3>2, <3>3
  <2>5. \A m \in Nat : m \in U
    <3>. HIDE DEF U
    <3>. QED
      BY <2>3, <2>4, SetInduction
  <2>6. z \in 1..z
    BY <1>1, <1>3
  <2>. QED
    BY <1>1, <2>2, <2>5, <2>6
<1>. QED
  BY <1>2, <1>3

\* A unit of files carries those files and no other.
LEMMA FileUnitCarries ==
  ASSUME Sound, NEW d \in Folders, NEW batch \in Seq(FilesIn(d)), NEW n \in Nodes
  PROVE  \A i, k : At(<<FileUnit(d, batch)>>, i, k, n) <=> i = 1 /\ k \in 1..Len(batch) /\ batch[k] = n
<1>1. Len(batch) \in Nat /\ DOMAIN batch = 1..Len(batch) /\ \A k \in 1..Len(batch) : batch[k] \in FilesIn(d)
  BY LenProperties, ElementOfSeq
<1>2. \A f \in FilesIn(d) : f \in above[n] <=> f = n
  BY AboveFacts DEF FilesIn
<1>3. DOMAIN <<FileUnit(d, batch)>> = {1} /\ <<FileUnit(d, batch)>>[1].paths = batch
  BY DEF FileUnit
<1>. QED
  BY <1>1, <1>2, <1>3 DEF At

\* The list of units with the open batch taken for a last one.
Closed(d, made) == Append(made.units, FileUnit(d, made.batch))

LEMMA PutOnce ==
  ASSUME Sound, NEW d \in Folders, NEW lim, NEW f \in FilesIn(d),
         NEW made \in [units : Seq(FileUnits(d)), batch : Seq(FilesIn(d))], NEW n \in Nodes,
         NEW next, next = Put(d, made, f, lim)
  PROVE  /\ n # f /\ Never(Closed(d, made), n) => Never(Closed(d, next), n)
         /\ n # f /\ Once(Closed(d, made), n) => Once(Closed(d, next), n)
         /\ n = f /\ Never(Closed(d, made), n) => Once(Closed(d, next), n)
<1> DEFINE u == FileUnit(d, made.batch)
           b == made.batch
           longer == Append(b, f)
<1>1. u \in FileUnits(d) /\ made.units \in Seq(FileUnits(d)) /\ b \in Seq(FilesIn(d))
  BY DEF FileUnits
<1>2. <<f>> \in Seq(FilesIn(d)) /\ longer \in Seq(FilesIn(d)) /\ Len(<<f>>) = 1 /\ <<f>>[1] = f
  BY <1>1, AppendProperties
<1>3. CASE BatchFull(made.batch, f, lim)
  <2>1. next = [units |-> Closed(d, made), batch |-> <<f>>]
    BY <1>3 DEF Put, Closed
  <2>2. Closed(d, next) = Append(Closed(d, made), FileUnit(d, <<f>>))
    BY <2>1 DEF Closed
  <2>3. FileUnit(d, <<f>>) \in FileUnits(d) /\ Closed(d, made) \in Seq(FileUnits(d))
    BY <1>1, <1>2, AppendProperties DEF Closed, FileUnits
  <2>4. Closed(d, next) = Closed(d, made) \o <<FileUnit(d, <<f>>)>>
    BY <2>2, <2>3, AppendIsConcat
  <2>5. \A i, k : At(<<FileUnit(d, <<f>>)>>, i, k, n) <=> i = 1 /\ k = 1 /\ f = n
    <3>1. \A i, k : At(<<FileUnit(d, <<f>>)>>, i, k, n) <=> i = 1 /\ k \in 1..Len(<<f>>) /\ <<f>>[k] = n
      BY <1>2, FileUnitCarries, Zenon
    <3>2. \A k : k \in 1..Len(<<f>>) <=> k = 1
      BY <1>2
    <3>. QED
      BY <1>2, <3>1, <3>2
  <2>6. /\ n # f => Never(<<FileUnit(d, <<f>>)>>, n)
        /\ n = f => Once(<<FileUnit(d, <<f>>)>>, n)
    <3>1. n # f => Never(<<FileUnit(d, <<f>>)>>, n)
      BY <2>5 DEF Never
    <3>2. ASSUME n = f
          PROVE  Once(<<FileUnit(d, <<f>>)>>, n)
      <4>1. At(<<FileUnit(d, <<f>>)>>, 1, 1, n)
        BY <2>5, <3>2
      <4>2. \A j, l : At(<<FileUnit(d, <<f>>)>>, j, l, n) => j = 1 /\ l = 1
        BY <2>5
      <4>. QED
        BY <4>1, <4>2 DEF Once
    <3>. QED
      BY <3>1, <3>2
  <2>7. <<FileUnit(d, <<f>>)>> \in Seq(FileUnits(d))
    BY <2>3
  <2>. QED
    BY <2>3, <2>4, <2>6, <2>7, OnceConcat
<1>4. CASE ~BatchFull(made.batch, f, lim)
  <2>1. Closed(d, next) = Append(made.units, FileUnit(d, longer))
    BY <1>4 DEF Put, Closed
  <2>2. FileUnit(d, longer) \in FileUnits(d)
    BY <1>2 DEF FileUnits
  <2>3. /\ Closed(d, next) = made.units \o <<FileUnit(d, longer)>>
        /\ Closed(d, made) = made.units \o <<u>>
    BY <1>1, <2>1, <2>2, AppendIsConcat DEF Closed
  <2> DEFINE s == Len(made.units)
             z == Len(b)
  <2>4. s \in Nat /\ z \in Nat /\ DOMAIN made.units = 1..s
    BY <1>1, LenProperties
  <2>5. Len(longer) = z + 1 /\ (\A k \in 1..z : longer[k] = b[k]) /\ longer[z + 1] = f
    BY <1>1, AppendProperties
  <2>6. \A i, k : At(<<FileUnit(d, longer)>>, i, k, n) <=> At(<<u>>, i, k, n) \/ (i = 1 /\ k = z + 1 /\ n = f)
    <3>1. \A i, k : At(<<u>>, i, k, n) <=> i = 1 /\ k \in 1..z /\ b[k] = n
      BY <1>1, FileUnitCarries
    <3>2. \A i, k : At(<<FileUnit(d, longer)>>, i, k, n) <=> i = 1 /\ k \in 1..Len(longer) /\ longer[k] = n
      <4>. HIDE DEF longer
      <4>. QED
        BY <1>2, FileUnitCarries
    <3>3. \A k : k \in 1..(z + 1) <=> k \in 1..z \/ k = z + 1
      BY <2>4
    <3>4. z + 1 \notin 1..z
      BY <2>4
    <3>. HIDE DEF u, b, longer, z
    <3>. QED
      BY <2>5, <3>1, <3>2, <3>3, <3>4
  <2>7. \A i, k : At(Closed(d, made), i, k, n) <=>
                    At(made.units, i, k, n) \/ (i \in Nat /\ At(<<u>>, i - s, k, n))
    <3>1. <<u>> \in Seq(FileUnits(d))
      BY <1>1
    <3>. QED
      BY <1>1, <2>3, <3>1, AtConcat
  <2>8. \A i, k : At(Closed(d, next), i, k, n) <=>
                    At(made.units, i, k, n) \/ (i \in Nat /\ At(<<FileUnit(d, longer)>>, i - s, k, n))
    <3>1. <<FileUnit(d, longer)>> \in Seq(FileUnits(d))
      BY <2>2
    <3>. QED
      BY <1>1, <2>3, <3>1, AtConcat
  <2>9. \A i, k : At(Closed(d, next), i, k, n) <=>
                    At(Closed(d, made), i, k, n) \/ (i = s + 1 /\ k = z + 1 /\ n = f)
    <3>1. \A i : i \in Nat /\ i - s = 1 <=> i = s + 1
      BY <2>4
    <3>. HIDE DEF u, b, longer, z, s
    <3>. QED
      BY <2>6, <2>7, <2>8, <3>1
  <2>. HIDE DEF u, b, longer, z, s
  <2>10. n = f /\ Never(Closed(d, made), n) => Once(Closed(d, next), n)
    <3>1. Never(Closed(d, made), n) => \A i, k : ~At(Closed(d, made), i, k, n)
      BY DEF Never
    <3>. QED
      BY <2>9, <3>1 DEF Once
  <2>11. CASE n # f
    <3>1. \A i, k : At(Closed(d, next), i, k, n) <=> At(Closed(d, made), i, k, n)
      BY <2>9, <2>11
    <3>2. Never(Closed(d, made), n) => Never(Closed(d, next), n)
      BY <3>1 DEF Never
    <3>3. ASSUME Once(Closed(d, made), n)
          PROVE  Once(Closed(d, next), n)
      <4>1. PICK i, k : At(Closed(d, made), i, k, n) /\ \A j, l : At(Closed(d, made), j, l, n) => j = i /\ l = k
        BY <3>3 DEF Once
      <4>2. At(Closed(d, next), i, k, n) /\ \A j, l : At(Closed(d, next), j, l, n) => j = i /\ l = k
        BY <3>1, <4>1
      <4>. QED
        BY <4>2 DEF Once
    <3>. QED
      BY <2>11, <3>2, <3>3
  <2>. QED
    BY <2>10, <2>11
<1>. QED
  BY <1>3, <1>4

LEMMA EmptyUnitCarries ==
  ASSUME Sound, NEW d \in Folders, NEW n \in Nodes
  PROVE  \A i, k : ~At(<<FileUnit(d, <<>>)>>, i, k, n)
<1>1. DOMAIN <<>> = {}
  OBVIOUS
<1>2. \A i \in DOMAIN <<FileUnit(d, <<>>)>> : <<FileUnit(d, <<>>)>>[i].paths = <<>>
  BY DEF FileUnit
<1>. QED
  BY <1>1, <1>2 DEF At

\* The batches of a folder carry each of its files once, and nothing else.
LEMMA FileBatchesOnce ==
  ASSUME Sound, NEW d \in Folders, NEW lim, NEW n \in Nodes
  PROVE  IF n \in FilesIn(d) THEN Once(FileBatches(d, lim), n) ELSE Never(FileBatches(d, lim), n)
<1> DEFINE files == InOrder(FilesIn(d))
           z == Len(files)
           Made == [units : Seq(FileUnits(d)), batch : Seq(FilesIn(d))]
           g == CHOOSE made : Batches(d, lim, z, made)
<1>1. /\ z \in Nat /\ \A k \in 1..z : files[k] \in FilesIn(d)
      /\ \A j, k \in 1..z : files[j] = files[k] => j = k
      /\ \A f \in FilesIn(d) : \E k \in 1..z : files[k] = f
  <2>1. FilesIn(d) \in SUBSET Nodes
    BY FolderFacts
  <2>2. files \in Seq(FilesIn(d)) /\ files \in [1..Cardinality(FilesIn(d)) -> FilesIn(d)] /\ Cardinality(FilesIn(d)) \in Nat
    BY <2>1, InOrderType, InOrderBijection
  <2>3. z = Cardinality(FilesIn(d))
    BY <2>2, LenProperties
  <2>. QED
    BY <2>1, <2>2, <2>3, InOrderBijection
<1>2. Batches(d, lim, z, g)
  BY <1>1, BatchingDefined
<1>3. Batching(d, lim) = g
  BY DEF Batching, Batches, BatchStep
<1> HIDE DEF g, files
<1> DEFINE Seen(m) == \E k \in 1..m : files[k] = n
           Right(m) == /\ g[m] \in Made
                       /\ IF Seen(m) THEN Once(Closed(d, g[m]), n) ELSE Never(Closed(d, g[m]), n)
           T == {m \in Nat : m \in 0..z => Right(m)}
<1>4. 0 \in T
  <2>1. g[0] = [units |-> <<>>, batch |-> <<>>] /\ ~Seen(0)
    BY <1>1, <1>2 DEF Batches, BatchStep
  <2>2. <<>> \in Seq(FileUnits(d)) /\ <<>> \in Seq(FilesIn(d))
    BY EmptySeq
  <2>3. FileUnit(d, <<>>) \in FileUnits(d)
    BY <2>2 DEF FileUnits
  <2>4. Closed(d, g[0]) = <<FileUnit(d, <<>>)>>
    BY <2>1, <2>2, <2>3 DEF Closed
  <2>5. Never(<<FileUnit(d, <<>>)>>, n)
    <3>1. \A i, k : ~At(<<FileUnit(d, <<>>)>>, i, k, n)
      BY <2>2, EmptyUnitCarries
    <3>. QED
      BY <3>1 DEF Never
  <2>6. g[0] \in Made
    BY <2>1, <2>2
  <2>7. Right(0)
    <3>. HIDE DEF Seen, Made
    <3>. QED
      BY <2>1, <2>4, <2>5, <2>6
  <2>. HIDE DEF Right
  <2>. QED
    BY <2>7
<1>5. ASSUME NEW m \in Nat, m \in T
      PROVE  m + 1 \in T
  <2> SUFFICES ASSUME m + 1 \in 0..z
               PROVE  Right(m + 1)
    OBVIOUS
  <2>1. m + 1 # 0 /\ (m + 1) - 1 = m /\ m + 1 \in 1..z /\ Right(m)
    BY <1>1, <1>5
  <2>2. g[m + 1] = BatchStep(d, lim, g, m + 1)
    BY <1>2 DEF Batches
  <2>3. g[m + 1] = Put(d, g[m], files[m + 1], lim)
    BY <2>1, <2>2 DEF BatchStep, files
  <2>4. files[m + 1] \in FilesIn(d) /\ g[m] \in Made
    BY <1>1, <2>1
  <2>5. g[m + 1] \in Made
    BY <2>3, <2>4, PutType
  <2>6. Seen(m + 1) <=> Seen(m) \/ n = files[m + 1]
    <3>1. 1..(m + 1) = 1..m \cup {m + 1}
      OBVIOUS
    <3>. QED
      BY <3>1
  <2>7. ~(Seen(m) /\ n = files[m + 1])
    BY <1>1, <2>1
  <2>8. /\ n # files[m + 1] /\ Never(Closed(d, g[m]), n) => Never(Closed(d, g[m + 1]), n)
        /\ n # files[m + 1] /\ Once(Closed(d, g[m]), n) => Once(Closed(d, g[m + 1]), n)
        /\ n = files[m + 1] /\ Never(Closed(d, g[m]), n) => Once(Closed(d, g[m + 1]), n)
    BY <2>3, <2>4, PutOnce
  <2>. HIDE DEF Seen, Made
  <2>. QED
    BY <2>1, <2>5, <2>6, <2>7, <2>8
<1>6. Right(z)
  <2>1. \A m \in Nat : m \in T
    <3>. HIDE DEF T
    <3>. QED
      BY <1>4, <1>5, SetInduction
  <2>. HIDE DEF Right
  <2>. QED
    BY <1>1, <2>1
<1>7. Seen(z) <=> n \in FilesIn(d)
  BY <1>1
<1>8. FileBatches(d, lim) = LastBatch(d, g[z])
  BY <1>3 DEF FileBatches, files
<1>9. g[z].units \in Seq(FileUnits(d)) /\ g[z].batch \in Seq(FilesIn(d))
  BY <1>6
<1>10. CASE g[z].batch # <<>>
  <2>1. FileBatches(d, lim) = Closed(d, g[z])
    BY <1>8, <1>10 DEF LastBatch, Closed
  <2>. HIDE DEF Seen
  <2>. QED
    BY <1>6, <1>7, <2>1
<1>11. CASE g[z].batch = <<>>
  <2> DEFINE e == FileUnit(d, <<>>)
  <2>1. FileBatches(d, lim) = g[z].units
    BY <1>8, <1>11 DEF LastBatch
  <2>2. <<>> \in Seq(FilesIn(d)) /\ e \in FileUnits(d) /\ <<e>> \in Seq(FileUnits(d))
    <3>1. <<>> \in Seq(FilesIn(d))
      BY EmptySeq
    <3>2. e \in FileUnits(d)
      BY <3>1 DEF FileUnits
    <3>. HIDE DEF e
    <3>. QED
      BY <3>1, <3>2
  <2>3. Closed(d, g[z]) = g[z].units \o <<e>>
    BY <1>9, <1>11, <2>2, AppendIsConcat DEF Closed
  <2>4. \A i, k : ~At(<<e>>, i, k, n)
    BY EmptyUnitCarries
  <2>5. \A i, k : At(Closed(d, g[z]), i, k, n) <=> At(g[z].units, i, k, n)
    <3>. HIDE DEF e
    <3>1. \A i, k : At(g[z].units \o <<e>>, i, k, n) <=>
                      At(g[z].units, i, k, n) \/ (i \in Nat /\ At(<<e>>, i - Len(g[z].units), k, n))
      BY <1>9, <2>2, AtConcat
    <3>. QED
      BY <2>3, <2>4, <3>1
  <2>6. Never(Closed(d, g[z]), n) => Never(g[z].units, n)
    BY <2>5 DEF Never
  <2>7. ASSUME Once(Closed(d, g[z]), n)
        PROVE  Once(g[z].units, n)
    <3>1. PICK i, k : At(Closed(d, g[z]), i, k, n) /\ \A j, l : At(Closed(d, g[z]), j, l, n) => j = i /\ l = k
      BY <2>7 DEF Once
    <3>2. At(g[z].units, i, k, n) /\ \A j, l : At(g[z].units, j, l, n) => j = i /\ l = k
      BY <2>5, <3>1
    <3>. QED
      BY <3>2 DEF Once
  <2>. HIDE DEF Seen
  <2>. QED
    BY <1>6, <1>7, <2>1, <2>6, <2>7
<1>. QED
  BY <1>10, <1>11

\* What a folder comes to has each entry that is in it or below, the folder included, either
\* as a folder that is made or at one place of one unit, and no other entry.
EachOnce(d, r) ==
  \A n \in Nodes :
    IF d = Root \/ d \in above[n]
    THEN IF n \in r.folders THEN Never(r.units, n) ELSE Once(r.units, n)
    ELSE n \notin r.folders /\ Never(r.units, n)

LEMMA SplitOnce ==
  ASSUME Sound, NEW d \in Folders, NEW lim, NEW part,
         \A c \in FoldersIn(d) : Placed(c, part[c]) /\ EachOnce(c, part[c])
  PROVE  EachOnce(d, Split(d, lim, part))
<1> DEFINE below == InOrder(FoldersIn(d))
           made == {d} \cup UNION {part[c].folders : c \in FoldersIn(d)}
           rest == [k \in DOMAIN below |-> part[below[k]].units]
           r == Split(d, lim, part)
<1>1. r.folders = made /\ r.units = FileBatches(d, lim) \o FlattenSeq(rest)
  BY DEF Split
<1>2. /\ FoldersIn(d) \subseteq Folders \cap Nodes
      /\ \A c \in FoldersIn(d) : c # Root /\ c # d /\ entries[c].parent = d /\ entries[c].dir
      /\ \A f \in FilesIn(d) : ~entries[f].dir /\ entries[f].parent = d /\ f \in Nodes
      /\ \A c \in FoldersIn(d) : c > d /\ ~(c <= d)
      /\ d \in Nat /\ Nodes \subseteq Nat /\ Folders \subseteq Nat
      /\ \A x \in Nodes : entries[x].parent # x
      /\ \A x \in Nodes : entries[x].parent = d => x \in FilesIn(d) \/ x \in FoldersIn(d)
      /\ \A x \in Nodes : x # Root /\ x > entries[x].parent
  BY SoundFacts, FolderFacts DEF Root, FilesIn, FoldersIn, Folders
<1>3. /\ DOMAIN below = 1..Len(below) /\ Len(below) \in Nat
      /\ \A k \in 1..Len(below) : below[k] \in FoldersIn(d)
      /\ \A j, k \in 1..Len(below) : below[j] = below[k] => j = k
      /\ \A c \in FoldersIn(d) : \E k \in 1..Len(below) : below[k] = c
  <2>1. FoldersIn(d) \in SUBSET Nodes
    BY <1>2
  <2>2. /\ below \in Seq(FoldersIn(d)) /\ below \in [1..Cardinality(FoldersIn(d)) -> FoldersIn(d)]
        /\ Cardinality(FoldersIn(d)) \in Nat
    BY <2>1, InOrderType, InOrderBijection
  <2>3. Len(below) = Cardinality(FoldersIn(d))
    BY <2>2, LenProperties
  <2>. QED
    BY <2>1, <2>2, <2>3, InOrderBijection
<1>4. \A c \in FoldersIn(d) : part[c].units \in Seq(PlanUnits)
  BY DEF Placed
<1> HIDE DEF below
<1>5. /\ rest \in Seq(Seq(PlanUnits)) /\ Len(rest) = Len(below)
      /\ \A k \in 1..Len(below) : rest[k] = part[below[k]].units
  <2>1. rest \in [1..Len(below) -> Seq(PlanUnits)]
    BY <1>3, <1>4
  <2>2. rest \in Seq(Seq(PlanUnits))
    BY <1>3, <2>1, SeqDef
  <2>. QED
    BY <1>3, <2>1, <2>2, LenProperties
<1>6. FileBatches(d, lim) \in Seq(PlanUnits) /\ FlattenSeq(rest) \in Seq(PlanUnits)
  <2>1. FileUnits(d) \subseteq PlanUnits
    BY DEF PlanUnits
  <2>2. FileBatches(d, lim) \in Seq(FileUnits(d))
    BY FileBatchesType
  <2>. HIDE DEF rest
  <2>. QED
    BY <1>5, <2>1, <2>2, SeqMonotonic, FlattenType
<1> HIDE DEF rest
<1> SUFFICES ASSUME NEW n \in Nodes
             PROVE  IF d = Root \/ d \in above[n]
                    THEN IF n \in r.folders THEN Never(r.units, n) ELSE Once(r.units, n)
                    ELSE n \notin r.folders /\ Never(r.units, n)
  BY DEF EachOnce
<1> DEFINE Under(c) == c \in above[n]
<1>7. /\ IF n \in FilesIn(d) THEN Once(FileBatches(d, lim), n) ELSE Never(FileBatches(d, lim), n)
      /\ \A c \in FoldersIn(d) : IF Under(c)
           THEN IF n \in part[c].folders THEN Never(part[c].units, n) ELSE Once(part[c].units, n)
           ELSE n \notin part[c].folders /\ Never(part[c].units, n)
  BY <1>2, FileBatchesOnce DEF EachOnce
<1>8. /\ n \in above[n] /\ above[n] \subseteq Nodes
      /\ \A x \in above[n] : x <= n /\ (x # n => entries[x].dir)
      /\ \A x, y \in above[n] : entries[x].parent = entries[y].parent => x = y
      /\ \A x \in above[n] : entries[x].parent = d => d = Root \/ d \in above[n]
  BY AboveFacts, ChildIsBelow
<1>9. /\ Never(FileBatches(d, lim), n) /\ Never(FlattenSeq(rest), n) => Never(r.units, n)
      /\ Once(FileBatches(d, lim), n) /\ Never(FlattenSeq(rest), n) => Once(r.units, n)
      /\ Never(FileBatches(d, lim), n) /\ Once(FlattenSeq(rest), n) => Once(r.units, n)
  <2>. HIDE DEF r
  <2>. QED
    BY <1>1, <1>6, OnceConcat
<1>10. ASSUME \A c \in FoldersIn(d) : Never(part[c].units, n)
       PROVE  Never(FlattenSeq(rest), n)
  <2>1. \A k \in 1..Len(rest) : IF k = 0 THEN Once(rest[k], n) ELSE Never(rest[k], n)
    BY <1>3, <1>5, <1>10
  <2>2. 0 \notin 1..Len(rest)
    BY <1>3, <1>5
  <2>. QED
    BY <1>5, <2>1, <2>2, OnceFlatten
<1>11. ASSUME NEW c \in FoldersIn(d), Once(part[c].units, n), \A x \in FoldersIn(d) : x # c => Never(part[x].units, n)
       PROVE  Once(FlattenSeq(rest), n)
  <2>1. PICK i \in 1..Len(below) : below[i] = c
    BY <1>3
  <2>2. \A k \in 1..Len(rest) : IF k = i THEN Once(rest[k], n) ELSE Never(rest[k], n)
    BY <1>3, <1>5, <1>11, <2>1
  <2>3. i \in 1..Len(rest)
    BY <1>5
  <2>. QED
    BY <1>5, <2>2, <2>3, OnceFlatten
<1> HIDE DEF r
<1>12. CASE n = d
  <2>1. n \notin FilesIn(d) /\ \A c \in FoldersIn(d) : ~Under(c)
    <3>1. n \notin FilesIn(d)
      BY <1>2, <1>12
    <3>. QED
      BY <1>2, <1>8, <1>12, <3>1
  <2>2. Never(r.units, n) /\ n \in r.folders
    BY <1>1, <1>7, <1>9, <1>10, <1>12, <2>1
  <2>. QED
    BY <1>8, <1>12, <2>2
<1>13. CASE n # d /\ n \in FilesIn(d)
  <2>1. \A c \in FoldersIn(d) : ~Under(c)
    <3> SUFFICES ASSUME NEW c \in FoldersIn(d), c \in above[n] PROVE FALSE
      OBVIOUS
    <3>1. c = n
      BY <1>2, <1>8, <1>13
    <3>. QED
      BY <1>2, <1>13, <3>1
  <2>2. n \notin r.folders
    BY <1>1, <1>7, <1>13, <2>1
  <2>3. Once(r.units, n)
    BY <1>7, <1>9, <1>10, <1>13, <2>1
  <2>4. d = Root \/ d \in above[n]
    BY <1>2, <1>8, <1>13 DEF FilesIn
  <2>. QED
    BY <2>2, <2>3, <2>4
<1>14. CASE n # d /\ \E c \in FoldersIn(d) : Under(c)
  <2>1. PICK c \in FoldersIn(d) : Under(c)
    BY <1>14
  <2>2. \A x \in FoldersIn(d) : x # c => ~Under(x)
    BY <1>2, <1>8, <2>1
  <2>3. n \notin FilesIn(d)
    BY <1>2, <1>8, <2>1 DEF FilesIn
  <2>4. d = Root \/ d \in above[n]
    BY <1>2, <1>8, <2>1
  <2>5. n \in r.folders <=> n \in part[c].folders
    BY <1>1, <1>7, <1>14, <2>2
  <2>6. CASE n \in part[c].folders
    <3>1. \A x \in FoldersIn(d) : Never(part[x].units, n)
      BY <1>7, <2>1, <2>2, <2>6
    <3>. QED
      BY <1>7, <1>9, <1>10, <2>3, <2>4, <2>5, <2>6, <3>1
  <2>7. CASE n \notin part[c].folders
    <3>1. Once(part[c].units, n) /\ \A x \in FoldersIn(d) : x # c => Never(part[x].units, n)
      BY <1>7, <2>1, <2>2, <2>7
    <3>. QED
      BY <1>7, <1>9, <1>11, <2>3, <2>4, <2>5, <2>7, <3>1
  <2>. QED
    BY <2>6, <2>7
<1>15. CASE n # d /\ n \notin FilesIn(d) /\ \A c \in FoldersIn(d) : ~Under(c)
  <2>1. ~(d = Root \/ d \in above[n])
    <3> SUFFICES ASSUME d = Root \/ d \in above[n] PROVE FALSE
      OBVIOUS
    <3>1. PICK x \in above[n] : entries[x].parent = d
      BY <1>15, ThroughAChild
    <3>. QED
      BY <1>2, <1>8, <1>15, <3>1
  <2>2. Never(r.units, n) /\ n \notin r.folders
    BY <1>1, <1>7, <1>9, <1>10, <1>15
  <2>. QED
    BY <2>1, <2>2
<1>. QED
  BY <1>12, <1>13, <1>14, <1>15

LEMMA PartitionOnce ==
  ASSUME Sound, NEW lim
  PROVE  EachOnce(Root, Partition(lim))
<1> DEFINE part == Partitions(lim)
           S == {d \in Folders : Placed(d, part[d]) /\ EachOnce(d, part[d])}
<1>1. \A d \in Folders : part[d] = PartStep(d, lim, part)
  BY PartitionsDefined DEF Parts
<1>2. ASSUME NEW d \in Folders, FoldersIn(d) \subseteq S
      PROVE  d \in S
  <2>1. Placed(d, part[d])
    BY PartitionsPlaced
  <2>2. CASE d # Root /\ Fits(d, lim)
    <3>1. part[d].folders = {} /\ part[d].units = <<FolderUnit(d)>>
      <4>1. part[d] = [folders |-> {}, units |-> <<FolderUnit(d)>>]
        BY <1>1, <2>2 DEF PartStep
      <4>. HIDE DEF part
      <4>. QED
        BY <4>1
    <3>2. \A n \in Nodes : \A i, k : At(<<FolderUnit(d)>>, i, k, n) <=> i = 1 /\ k = 1 /\ d \in above[n]
      BY DEF At, FolderUnit
    <3>3. ASSUME NEW n \in Nodes, d \in above[n]
          PROVE  Once(<<FolderUnit(d)>>, n)
      <4>1. At(<<FolderUnit(d)>>, 1, 1, n) /\ \A j, l : At(<<FolderUnit(d)>>, j, l, n) => j = 1 /\ l = 1
        BY <3>2, <3>3
      <4>. QED
        BY <4>1 DEF Once
    <3>4. ASSUME NEW n \in Nodes, d \notin above[n]
          PROVE  Never(<<FolderUnit(d)>>, n)
      BY <3>2, <3>4 DEF Never
    <3>5. EachOnce(d, part[d])
      <4>. HIDE DEF part
      <4>. QED
        BY <2>2, <3>1, <3>3, <3>4 DEF EachOnce
    <3>. QED
      BY <2>1, <3>5
  <2>3. CASE ~(d # Root /\ Fits(d, lim))
    <3>1. part[d] = Split(d, lim, part)
      BY <1>1, <2>3 DEF PartStep
    <3>2. \A c \in FoldersIn(d) : Placed(c, part[c]) /\ EachOnce(c, part[c])
      BY <1>2
    <3>3. EachOnce(d, part[d])
      <4>. HIDE DEF part
      <4>. QED
        BY <3>1, <3>2, SplitOnce
    <3>. QED
      BY <2>1, <3>3
  <2>. QED
    BY <2>2, <2>3
<1>3. Folders \subseteq S
  <2>. HIDE DEF S
  <2>. QED
    BY <1>2, TreeInduction
<1>4. Root \in Folders
  BY DEF Folders
<1>. QED
  BY <1>3, <1>4 DEF Partition

\* No unit of a plan has more paths than there are entries: none is in it twice.
LEMMA PathsAreDistinct ==
  ASSUME Sound, NEW u \in PlanUnits, NEW us, NEW i \in DOMAIN us, us[i] = u,
         \A n \in Nodes : Never(us, n) \/ Once(us, n)
  PROVE  /\ u.paths \in Seq(Nodes) /\ Len(u.paths) <= MaxEntries
         /\ \A j, k \in DOMAIN u.paths : u.paths[j] = u.paths[k] => j = k
<1> DEFINE z == Len(u.paths)
<1>1. u.paths \in Seq(Nodes)
  <2>1. CASE \E d \in Folders \ {Root} : u = FolderUnit(d)
    <3>1. PICK d \in Folders \ {Root} : u.paths = <<d>>
      BY <2>1 DEF FolderUnit
    <3>2. d \in Nodes
      BY DEF Folders
    <3>. QED
      BY <3>1, <3>2
  <2>2. CASE \E d \in Folders : u \in FileUnits(d)
    <3>1. PICK d \in Folders : u.paths \in Seq(FilesIn(d))
      BY <2>2 DEF FileUnits, FileUnit
    <3>2. FilesIn(d) \subseteq Nodes
      BY FolderFacts
    <3>. QED
      BY <3>1, <3>2, SeqMonotonic
  <2>. QED
    BY <2>1, <2>2 DEF PlanUnits
<1>2. z \in Nat /\ DOMAIN u.paths = 1..z /\ u.paths \in [1..z -> Nodes]
  BY <1>1, LenProperties
<1>3. ASSUME NEW j \in DOMAIN u.paths, NEW k \in DOMAIN u.paths, u.paths[j] = u.paths[k]
      PROVE  j = k
  <2> DEFINE n == u.paths[j]
  <2>1. n \in Nodes
    BY <1>2
  <2>2. n \in above[n]
    BY <2>1, AboveFacts
  <2>3. At(us, i, j, n) /\ At(us, i, k, n)
    BY <1>3, <2>2 DEF At
  <2>4. Once(us, n)
    BY <2>1, <2>3 DEF Never
  <2>. QED
    BY <2>3, <2>4 DEF Once
<1>4. z <= MaxEntries
  <2>1. PICK m \in 0..MaxEntries : entries \in [1..m -> [parent : 0..(MaxEntries - 1), dir : BOOLEAN, size : Sizes]]
    BY DEF Sound, Manifests
  <2>2. Nodes = 1..m /\ m \in Nat
    BY <2>1, EntriesAssumption DEF Nodes
  <2>3. IsFiniteSet(Nodes) /\ Cardinality(Nodes) = m /\ Cardinality(1..z) = z
    <3>1. Cardinality(1..z) = z
      BY <1>2, FS_Interval
    <3>2. IsFiniteSet(Nodes) /\ Cardinality(Nodes) = m
      BY <2>2, FS_Interval
    <3>. QED
      BY <3>1, <3>2
  <2>4. u.paths \in Injection(1..z, Nodes)
    BY <1>2, <1>3 DEF Injection, IsInjective
  <2>5. z <= m
    BY <2>3, <2>4, FS_Injection
  <2>. QED
    BY <1>2, <2>1, <2>2, <2>5, EntriesAssumption
<1>. QED
  BY <1>1, <1>3, <1>4

-----------------------------------------------------------------------------
(* Sums *)

\* A sum takes the elements of a set one by one, in an order nobody knows.
Pick(s) == CHOOSE x \in s : TRUE
SumStep(g, it, s) == IF s = {} THEN 0 ELSE g[Pick(s)] + it[s \ {Pick(s)}]
Sums(g, S, it) == it = [s \in S |-> SumStep(g, it, s)]

LEMMA SubsetFacts ==
  ASSUME NEW S, IsFiniteSet(S), NEW s \in SUBSET S
  PROVE  /\ IsFiniteSet(s) /\ Cardinality(s) \in Nat /\ Cardinality(s) <= Cardinality(S)
         /\ Cardinality(s) = 0 <=> s = {}
         /\ \A x \in s : s \ {x} \in SUBSET S /\ Cardinality(s \ {x}) = Cardinality(s) - 1
         /\ s # {} => Pick(s) \in s
<1>1. IsFiniteSet(s) /\ Cardinality(s) <= Cardinality(S)
  BY FS_Subset
<1>2. Cardinality(s) \in Nat /\ (Cardinality(s) = 0 <=> s = {})
  BY <1>1, FS_CardinalityType, FS_EmptySet
<1>3. \A x \in s : s \ {x} \in SUBSET S /\ Cardinality(s \ {x}) = Cardinality(s) - 1
  BY <1>1, FS_RemoveElement
<1>4. s # {} => Pick(s) \in s
  BY DEF Pick
<1>. QED
  BY <1>1, <1>2, <1>3, <1>4

LEMMA SumDefined ==
  ASSUME NEW g, NEW S, IsFiniteSet(S)
  PROVE  \E it : Sums(g, SUBSET S, it)
<1> DEFINE Small(k) == {s \in SUBSET S : Cardinality(s) <= k}
           T == {k \in Nat : \E it : Sums(g, Small(k), it)}
<1>1. 0 \in T
  <2> DEFINE f == [s \in Small(0) |-> 0]
  <2>1. \A s \in Small(0) : s = {}
    BY SubsetFacts
  <2>2. \A s \in Small(0) : SumStep(g, f, s) = 0
    BY <2>1 DEF SumStep
  <2>3. Sums(g, Small(0), f)
    BY <2>2 DEF Sums
  <2>. QED
    BY <2>3
<1>2. ASSUME NEW k \in Nat, k \in T
      PROVE  k + 1 \in T
  <2>1. PICK a : Sums(g, Small(k), a)
    BY <1>2
  <2> DEFINE h == [s \in Small(k + 1) |-> SumStep(g, a, s)]
  <2>2. ASSUME NEW s \in Small(k + 1)
        PROVE  SumStep(g, a, s) = SumStep(g, h, s)
    <3>1. CASE s = {}
      BY <3>1 DEF SumStep
    <3>2. CASE s # {}
      <4> DEFINE r == s \ {Pick(s)}
      <4>1. r \in SUBSET S /\ Cardinality(r) = Cardinality(s) - 1 /\ Cardinality(s) \in Nat
        BY <3>2, SubsetFacts
      <4>2. r \in Small(k) /\ r \in Small(k + 1)
        <5>1. Cardinality(r) <= k /\ Cardinality(r) <= k + 1
          BY <4>1
        <5>. QED
          BY <4>1, <5>1
      <4>. HIDE DEF r, Small
      <4>3. a[r] = h[r]
        BY <2>1, <4>2 DEF Sums
      <4>. QED
        BY <3>2, <4>3 DEF SumStep, r
    <3>. QED
      BY <3>1, <3>2
  <2>3. h = [s \in Small(k + 1) |-> SumStep(g, h, s)]
    BY <2>2
  <2>4. Sums(g, Small(k + 1), h)
    BY <2>3 DEF Sums
  <2>. QED
    BY <2>4
<1>3. \A k \in Nat : k \in T
  <2>. HIDE DEF T
  <2>. QED
    BY <1>1, <1>2, SetInduction
<1>4. Cardinality(S) \in Nat /\ Small(Cardinality(S)) = SUBSET S
  <2>1. Cardinality(S) \in Nat
    BY FS_CardinalityType
  <2>. QED
    BY <2>1, SubsetFacts
<1>5. Cardinality(S) \in T
  BY <1>3, <1>4
<1>. QED
  <2>1. \E it : Sums(g, Small(Cardinality(S)), it)
    BY <1>5
  <2>. HIDE DEF Small
  <2>. QED
    BY <1>4, <2>1

LEMMA SumIsStep ==
  ASSUME NEW g, NEW S, IsFiniteSet(S), NEW t \in SUBSET S, NEW it, Sums(g, SUBSET S, it)
  PROVE  SumFunctionOnSet(g, t) = it[t]
<1> DEFINE b == CHOOSE f : Sums(g, SUBSET t, f)
<1>1. IsFiniteSet(t)
  BY SubsetFacts
<1>2. Sums(g, SUBSET t, b)
  BY <1>1, SumDefined
<1>3. SumFunctionOnSet(g, t) = b[t]
  BY DEF SumFunctionOnSet, FoldFunctionOnSet, MapThenFoldSet, Sums, SumStep, Pick
<1>. HIDE DEF b
<1> DEFINE T == {k \in Nat : \A s \in SUBSET t : Cardinality(s) = k => it[s] = b[s]}
<1>4. ASSUME NEW s \in SUBSET t
      PROVE  it[s] = SumStep(g, it, s) /\ b[s] = SumStep(g, b, s)
  <2>1. s \in SUBSET S
    OBVIOUS
  <2>. QED
    BY <1>2, <2>1 DEF Sums
<1>5. 0 \in T
  <2>1. \A s \in SUBSET t : Cardinality(s) = 0 => s = {}
    BY <1>1, SubsetFacts
  <2>. QED
    BY <1>4, <2>1 DEF SumStep
<1>6. ASSUME NEW k \in Nat, k \in T
      PROVE  k + 1 \in T
  <2> SUFFICES ASSUME NEW s \in SUBSET t, Cardinality(s) = k + 1
               PROVE  it[s] = b[s]
    OBVIOUS
  <2>1. s # {} /\ s \ {Pick(s)} \in SUBSET t /\ Cardinality(s \ {Pick(s)}) = k
    BY <1>1, SubsetFacts
  <2>2. it[s \ {Pick(s)}] = b[s \ {Pick(s)}]
    BY <1>6, <2>1
  <2>. QED
    BY <1>4, <2>1, <2>2 DEF SumStep
<1>7. \A k \in Nat : k \in T
  <2>. HIDE DEF T
  <2>. QED
    BY <1>5, <1>6, SetInduction
<1>8. Cardinality(t) \in Nat
  BY <1>1, FS_CardinalityType
<1>. QED
  BY <1>3, <1>7, <1>8

LEMMA SumUnfold ==
  ASSUME NEW g, NEW S, IsFiniteSet(S)
  PROVE  /\ SumFunctionOnSet(g, {}) = 0
         /\ S # {} => SumFunctionOnSet(g, S) = g[Pick(S)] + SumFunctionOnSet(g, S \ {Pick(S)})
<1>1. PICK it : Sums(g, SUBSET S, it)
  BY SumDefined
<1>2. \A t \in SUBSET S : SumFunctionOnSet(g, t) = it[t]
  BY <1>1, SumIsStep
<1>3. \A t \in SUBSET S : it[t] = SumStep(g, it, t)
  BY <1>1 DEF Sums
<1>4. SumFunctionOnSet(g, {}) = 0
  <2>1. {} \in SUBSET S
    OBVIOUS
  <2>. QED
    BY <1>2, <1>3, <2>1 DEF SumStep
<1>5. ASSUME S # {}
      PROVE  SumFunctionOnSet(g, S) = g[Pick(S)] + SumFunctionOnSet(g, S \ {Pick(S)})
  <2>1. S \in SUBSET S /\ S \ {Pick(S)} \in SUBSET S
    OBVIOUS
  <2>. QED
    BY <1>2, <1>3, <1>5, <2>1 DEF SumStep
<1>. QED
  BY <1>4, <1>5

\* Sums of naturals are naturals, and it does not matter which element is taken first.
LEMMA SumRemove ==
  ASSUME NEW g, NEW S, IsFiniteSet(S), \A x \in S : g[x] \in Nat
  PROVE  /\ SumFunctionOnSet(g, S) \in Nat
         /\ \A x \in S : SumFunctionOnSet(g, S) = g[x] + SumFunctionOnSet(g, S \ {x})
<1> DEFINE Sm(s) == SumFunctionOnSet(g, s)
           Right(s) == Sm(s) \in Nat /\ \A x \in s : Sm(s) = g[x] + Sm(s \ {x})
           T == {k \in Nat : \A s \in SUBSET S : Cardinality(s) <= k => Right(s)}
<1>1. \A s \in SUBSET S : IsFiniteSet(s) /\ Sm({}) = 0 /\ (s # {} => Sm(s) = g[Pick(s)] + Sm(s \ {Pick(s)}))
  BY SubsetFacts, SumUnfold
<1>. HIDE DEF Sm
<1>2. Right({})
  <2>1. {} \in SUBSET S
    OBVIOUS
  <2>2. Sm({}) = 0
    BY <1>1, <2>1
  <2>. QED
    BY <2>2
<1>3. 0 \in T
  <2>1. \A s \in SUBSET S : Cardinality(s) <= 0 => s = {}
    BY SubsetFacts
  <2>. HIDE DEF Right
  <2>. QED
    BY <1>2, <2>1
<1>4. ASSUME NEW k \in Nat, k \in T
      PROVE  k + 1 \in T
  <2> SUFFICES ASSUME NEW s \in SUBSET S, Cardinality(s) <= k + 1, s # {}
               PROVE  Right(s)
    <3>. HIDE DEF Right
    <3>. QED
      BY <1>2
  <2> DEFINE y == Pick(s)
  <2>1. /\ s # {} /\ y \in s /\ s \ {y} \in SUBSET S
        /\ \A x \in s : s \ {x} \in SUBSET S /\ Cardinality(s \ {x}) <= k
    BY SubsetFacts
  <2>2. \A x \in s : Right(s \ {x})
    <3>. HIDE DEF Right
    <3>. QED
      BY <1>4, <2>1
  <2>3. Sm(s) = g[y] + Sm(s \ {y})
    BY <1>1, <2>1
  <2>. HIDE DEF y
  <2>4. \A x \in s : g[x] \in Nat /\ Sm(s \ {x}) \in Nat
    BY <2>2
  <2>5. Sm(s) \in Nat
    BY <2>1, <2>3, <2>4
  <2>6. ASSUME NEW x \in s, x # y
        PROVE  Sm(s) = g[x] + Sm(s \ {x})
    <3> DEFINE r == (s \ {x}) \ {y}
    <3>1. r = (s \ {y}) \ {x} /\ x \in s \ {y} /\ y \in s \ {x}
      BY <2>1, <2>6
    <3>2. Sm(s \ {y}) = g[x] + Sm((s \ {y}) \ {x})
      BY <2>1, <2>2, <3>1
    <3>3. Sm(s \ {x}) = g[y] + Sm((s \ {x}) \ {y})
      BY <2>1, <2>2, <3>1
    <3>4. Sm(r) \in Nat
      <4>1. r \in SUBSET S /\ Cardinality(r) <= k
        <5>1. Cardinality(r) = Cardinality(s \ {x}) - 1 /\ Cardinality(s \ {x}) \in Nat
          <6> DEFINE w == s \ {x}
          <6>1. w \in SUBSET S /\ y \in w
            BY <2>1, <3>1
          <6>. HIDE DEF w
          <6>2. Cardinality(w \ {y}) = Cardinality(w) - 1 /\ Cardinality(w) \in Nat
            BY <6>1, SubsetFacts
          <6>. QED
            BY <6>2 DEF w
        <5>2. Cardinality(s \ {x}) <= k
          BY <2>1
        <5>. QED
          BY <5>1, <5>2
      <4>. HIDE DEF Right, r
      <4>2. Right(r)
        BY <1>4, <4>1
      <4>. QED
        BY <4>2 DEF Right
    <3>5. Sm(s \ {y}) = g[x] + Sm(r) /\ Sm(s \ {x}) = g[y] + Sm(r)
      BY <3>1, <3>2, <3>3
    <3>6. g[x] \in Nat /\ g[y] \in Nat
      BY <2>1, <2>4
    <3>. HIDE DEF r
    <3>. QED
      BY <2>3, <3>4, <3>5, <3>6
  <2>. QED
    BY <2>3, <2>5, <2>6
<1>5. \A k \in Nat : k \in T
  <2>. HIDE DEF T
  <2>. QED
    BY <1>3, <1>4, SetInduction
<1>6. Cardinality(S) \in Nat
  BY FS_CardinalityType
<1>. QED
  BY <1>5, <1>6 DEF Sm

\* What holds of the empty set, and of a set with one more element, holds of every subset.
LEMMA SubsetInduction ==
  ASSUME NEW S, IsFiniteSet(S), NEW F, {} \in F,
         \A t \in SUBSET S : \A x \in S \ t : t \in F => t \cup {x} \in F
  PROVE  \A t \in SUBSET S : t \in F
<1> DEFINE T == {k \in Nat : \A t \in SUBSET S : Cardinality(t) = k => t \in F}
<1>1. 0 \in T
  BY SubsetFacts
<1>2. ASSUME NEW k \in Nat, k \in T
      PROVE  k + 1 \in T
  <2> SUFFICES ASSUME NEW t \in SUBSET S, Cardinality(t) = k + 1
               PROVE  t \in F
    OBVIOUS
  <2> DEFINE r == t \ {Pick(t)}
  <2>1. t # {} /\ Pick(t) \in t
    BY SubsetFacts
  <2>2. r \in SUBSET S /\ Cardinality(r) = k
    BY <2>1, SubsetFacts
  <2>3. r \in F /\ Pick(t) \in S \ r /\ t = r \cup {Pick(t)}
    <3>1. Pick(t) \in S \ r /\ t = r \cup {Pick(t)}
      BY <2>1
    <3>. HIDE DEF r
    <3>. QED
      BY <1>2, <2>2, <3>1
  <2>. HIDE DEF r
  <2>. QED
    BY <2>2, <2>3
<1>3. \A k \in Nat : k \in T
  <2>. HIDE DEF T
  <2>. QED
    BY <1>1, <1>2, SetInduction
<1>. QED
  BY <1>3, SubsetFacts

LEMMA SumAdd ==
  ASSUME NEW g, NEW S, IsFiniteSet(S), NEW x, x \notin S, g[x] \in Nat, \A y \in S : g[y] \in Nat
  PROVE  /\ SumFunctionOnSet(g, S) \in Nat
         /\ SumFunctionOnSet(g, S \cup {x}) = g[x] + SumFunctionOnSet(g, S)
<1> DEFINE U == S \cup {x}
<1>1. IsFiniteSet(U) /\ U \ {x} = S /\ x \in U
  BY FS_AddElement
<1>2. \A y \in U : g[y] \in Nat
  OBVIOUS
<1>. HIDE DEF U
<1>3. SumFunctionOnSet(g, U) = g[x] + SumFunctionOnSet(g, U \ {x})
  BY <1>1, <1>2, SumRemove
<1>4. SumFunctionOnSet(g, S) \in Nat
  BY SumRemove
<1>. QED
  BY <1>1, <1>3, <1>4 DEF U

LEMMA SumUnion ==
  ASSUME NEW g, NEW A, NEW B, IsFiniteSet(A), IsFiniteSet(B), A \cap B = {}, \A x \in A \cup B : g[x] \in Nat
  PROVE  SumFunctionOnSet(g, A \cup B) = SumFunctionOnSet(g, A) + SumFunctionOnSet(g, B)
<1> DEFINE Sm(s) == SumFunctionOnSet(g, s)
           F == {t \in SUBSET B : Sm(A \cup t) = Sm(A) + Sm(t)}
<1>1. Sm(A) \in Nat /\ \A t \in SUBSET B : IsFiniteSet(t) /\ IsFiniteSet(A \cup t) /\ Sm(t) \in Nat
  BY SubsetFacts, SumRemove, FS_Union
<1>2. {} \in F
  <2>1. Sm({}) = 0
    BY SumUnfold
  <2>2. A \cup {} = A
    OBVIOUS
  <2>. HIDE DEF Sm
  <2>. QED
    BY <1>1, <2>1, <2>2
<1>3. ASSUME NEW t \in SUBSET B, NEW x \in B \ t, t \in F
      PROVE  t \cup {x} \in F
  <2>1. A \cup (t \cup {x}) = (A \cup t) \cup {x} /\ x \notin A \cup t
    OBVIOUS
  <2>2. Sm((A \cup t) \cup {x}) = g[x] + Sm(A \cup t)
    BY <1>1, <2>1, SumAdd
  <2>3. Sm(t \cup {x}) = g[x] + Sm(t)
    BY <1>1, SumAdd
  <2>4. g[x] \in Nat
    OBVIOUS
  <2>. HIDE DEF Sm
  <2>5. Sm(A \cup (t \cup {x})) = Sm(A) + Sm(t \cup {x})
    BY <1>1, <1>3, <2>1, <2>2, <2>3, <2>4
  <2>. QED
    BY <2>5
<1>4. \A t \in SUBSET B : t \in F
  <2>. HIDE DEF F
  <2>. QED
    BY <1>2, <1>3, SubsetInduction
<1>. QED
  BY <1>4

LEMMA SumOnes ==
  ASSUME NEW g, NEW S, IsFiniteSet(S), \A x \in S : g[x] = 1
  PROVE  SumFunctionOnSet(g, S) = Cardinality(S)
<1> DEFINE F == {t \in SUBSET S : SumFunctionOnSet(g, t) = Cardinality(t)}
<1>1. {} \in F
  BY SumUnfold, FS_EmptySet
<1>2. ASSUME NEW t \in SUBSET S, NEW x \in S \ t, t \in F
      PROVE  t \cup {x} \in F
  <2>1. IsFiniteSet(t) /\ Cardinality(t) \in Nat
    BY SubsetFacts
  <2>2. Cardinality(t \cup {x}) = Cardinality(t) + 1
    BY <2>1, FS_AddElement
  <2>3. SumFunctionOnSet(g, t \cup {x}) = 1 + SumFunctionOnSet(g, t)
    BY <2>1, SumAdd
  <2>. QED
    BY <1>2, <2>1, <2>2, <2>3
<1>3. \A t \in SUBSET S : t \in F
  <2>. HIDE DEF F
  <2>. QED
    BY <1>1, <1>2, SubsetInduction
<1>. QED
  BY <1>3

LEMMA SumSame ==
  ASSUME NEW g, NEW h, NEW S, IsFiniteSet(S), \A x \in S : g[x] \in Nat /\ g[x] = h[x]
  PROVE  SumFunctionOnSet(g, S) = SumFunctionOnSet(h, S)
<1> DEFINE F == {t \in SUBSET S : SumFunctionOnSet(g, t) = SumFunctionOnSet(h, t)}
<1>1. {} \in F
  BY SumUnfold
<1>2. ASSUME NEW t \in SUBSET S, NEW x \in S \ t, t \in F
      PROVE  t \cup {x} \in F
  <2>1. IsFiniteSet(t)
    BY SubsetFacts
  <2>2. SumFunctionOnSet(g, t \cup {x}) = g[x] + SumFunctionOnSet(g, t)
    BY <2>1, SumAdd
  <2>3. SumFunctionOnSet(h, t \cup {x}) = h[x] + SumFunctionOnSet(h, t)
    BY <2>1, SumAdd
  <2>. QED
    BY <1>2, <2>2, <2>3
<1>3. \A t \in SUBSET S : t \in F
  <2>. HIDE DEF F
  <2>. QED
    BY <1>1, <1>2, SubsetInduction
<1>. QED
  BY <1>3

\* A set is put together from disjoint finite parts, and b is the sum over each part.
Splits(U, C, R) ==
  /\ IsFiniteSet(C)
  /\ \A c \in C : IsFiniteSet(R[c])
  /\ \A c, e \in C : c # e => R[c] \cap R[e] = {}
  /\ \A x : x \in U <=> \E c \in C : x \in R[c]
AddsUp(b, g, C, R) ==
  \A c \in C : b[c] = SumFunctionOnSet(g, R[c]) /\ \A x \in R[c] : g[x] \in Nat

\* The sum over a set is the sum of the sums over its parts.
LEMMA SumOfSums ==
  ASSUME NEW U, NEW C, NEW R, Splits(U, C, R), NEW b, NEW g, AddsUp(b, g, C, R)
  PROVE  IsFiniteSet(U) /\ SumFunctionOnSet(b, C) = SumFunctionOnSet(g, U)
<1>. USE DEF Splits, AddsUp
<1> DEFINE All(t) == UNION {R[c] : c \in t}
           F == {t \in SUBSET C : IsFiniteSet(All(t)) /\ SumFunctionOnSet(b, t) = SumFunctionOnSet(g, All(t))}
<1>1. \A c \in C : b[c] \in Nat
  BY SumRemove
<1>2. {} \in F
  <2>1. All({}) = {}
    OBVIOUS
  <2>. HIDE DEF All
  <2>. QED
    BY <2>1, SumUnfold, FS_EmptySet
<1>3. ASSUME NEW t \in SUBSET C, NEW x \in C \ t, t \in F
      PROVE  t \cup {x} \in F
  <2>1. All(t \cup {x}) = All(t) \cup R[x] /\ All(t) \cap R[x] = {}
    OBVIOUS
  <2>2. IsFiniteSet(t) /\ \A y \in All(t) \cup R[x] : g[y] \in Nat
    BY SubsetFacts
  <2>. HIDE DEF All
  <2>3. IsFiniteSet(All(t)) /\ IsFiniteSet(R[x]) /\ IsFiniteSet(All(t) \cup R[x])
    BY <1>3, FS_Union
  <2>4. SumFunctionOnSet(g, All(t) \cup R[x]) = SumFunctionOnSet(g, All(t)) + SumFunctionOnSet(g, R[x])
    BY <2>1, <2>2, <2>3, SumUnion
  <2>5. SumFunctionOnSet(b, t \cup {x}) = b[x] + SumFunctionOnSet(b, t) /\ SumFunctionOnSet(b, t) \in Nat
    BY <1>1, <2>2, SumAdd
  <2>6. SumFunctionOnSet(b, t \cup {x}) = SumFunctionOnSet(g, All(t \cup {x}))
    <3>1. b[x] = SumFunctionOnSet(g, R[x]) /\ b[x] \in Nat
      BY <1>1
    <3>2. SumFunctionOnSet(b, t) = SumFunctionOnSet(g, All(t))
      BY <1>3
    <3>3. SumFunctionOnSet(g, All(t \cup {x})) = SumFunctionOnSet(g, All(t)) + SumFunctionOnSet(g, R[x])
      BY <2>1, <2>4
    <3>. HIDE DEF F
    <3>. QED
      BY <2>5, <3>1, <3>2, <3>3
  <2>. QED
    BY <2>1, <2>3, <2>6
<1>4. \A t \in SUBSET C : t \in F
  <2>1. IsFiniteSet(C)
    OBVIOUS
  <2>. HIDE DEF F, Splits, AddsUp
  <2>. QED
    BY <1>2, <1>3, <2>1, SubsetInduction
<1>5. U = All(C)
  OBVIOUS
<1>. QED
  BY <1>1, <1>4, <1>5

-----------------------------------------------------------------------------
(* Totals *)

\* The recursion that defines totals, for the folders with the largest numbers.
TotalsStep(d, f) ==
  [files |-> Cardinality(FilesIn(d)) + FilesOf(f, FoldersIn(d)),
   bytes |-> Bytes(FilesIn(d)) + BytesOf(f, FoldersIn(d))]
Totals(S, f) == f = [d \in S |-> TotalsStep(d, f)]

LEMMA TotalsStepLocal ==
  ASSUME NEW d, NEW g, NEW h, \A c \in FoldersIn(d) : g[c] = h[c]
  PROVE  TotalsStep(d, g) = TotalsStep(d, h)
<1>1. [c \in FoldersIn(d) |-> g[c].files] = [c \in FoldersIn(d) |-> h[c].files]
  OBVIOUS
<1>2. [c \in FoldersIn(d) |-> g[c].bytes] = [c \in FoldersIn(d) |-> h[c].bytes]
  OBVIOUS
<1>3. FilesOf(g, FoldersIn(d)) = FilesOf(h, FoldersIn(d)) /\ BytesOf(g, FoldersIn(d)) = BytesOf(h, FoldersIn(d))
  BY <1>1, <1>2 DEF FilesOf, BytesOf
<1>. QED
  BY <1>3 DEF TotalsStep

LEMMA TotalsDefined ==
  ASSUME Sound
  PROVE  Totals(Folders, totals)
<1> DEFINE N == Len(entries)
           Upper(k) == {d \in Folders : d + k > N}
           T == {k \in Nat : \E g : Totals(Upper(k), g)}
<1>1. N \in Nat /\ \A d \in Folders : d \in 0..N
  BY SoundFacts
<1>2. 0 \in T
  <2>1. Upper(0) = {}
    BY <1>1
  <2>2. Totals({}, [d \in {} |-> d])
    BY DEF Totals
  <2>. QED
    BY <2>1, <2>2
<1>3. ASSUME NEW k \in Nat, k \in T
      PROVE  k + 1 \in T
  <2>1. PICK g : Totals(Upper(k), g)
    BY <1>3
  <2> DEFINE h == [d \in Upper(k + 1) |-> TotalsStep(d, g)]
  <2>2. ASSUME NEW d \in Upper(k + 1)
        PROVE  TotalsStep(d, g) = TotalsStep(d, h)
    <3>1. \A c \in FoldersIn(d) : c \in Upper(k) /\ c \in Upper(k + 1)
      BY <1>1, FolderFacts
    <3>2. \A c \in FoldersIn(d) : g[c] = h[c]
      BY <2>1, <3>1 DEF Totals
    <3>. HIDE DEF h, Upper
    <3>. QED
      BY <3>2, TotalsStepLocal
  <2>3. h = [d \in Upper(k + 1) |-> TotalsStep(d, h)]
    BY <2>2
  <2>4. Totals(Upper(k + 1), h)
    BY <2>3 DEF Totals
  <2>. HIDE DEF h, Upper
  <2>. QED
    BY <2>4
<1>4. \A k \in Nat : k \in T
  <2>. HIDE DEF T
  <2>. QED
    BY <1>2, <1>3, SetInduction
<1>5. Upper(N + 1) = Folders
  BY <1>1
<1>6. \E g : Totals(Folders, g)
  <2>1. N + 1 \in T
    <3>1. N + 1 \in Nat
      BY <1>1
    <3>. HIDE DEF T
    <3>. QED
      BY <1>4, <3>1
  <2>. HIDE DEF Upper
  <2>. QED
    BY <1>5, <2>1
<1>7. totals = CHOOSE g : Totals(Folders, g)
  BY DEF totals, Totals, TotalsStep
<1>. QED
  BY <1>6, <1>7

\* The files below a folder are those in it and those below the folders in it.
FilesUnder(d) == {n \in Nodes : ~entries[n].dir /\ (d = Root \/ d \in above[n])}

LEMMA FilesUnderFacts ==
  ASSUME Sound, NEW d \in Folders
  PROVE  /\ FilesUnder(d) = FilesIn(d) \cup UNION {FilesUnder(c) : c \in FoldersIn(d)}
         /\ \A c \in FoldersIn(d) : FilesIn(d) \cap FilesUnder(c) = {}
         /\ \A c, e \in FoldersIn(d) : c # e => FilesUnder(c) \cap FilesUnder(e) = {}
<1>1. /\ FoldersIn(d) \subseteq Folders \cap Nodes
      /\ \A c \in FoldersIn(d) : c # Root /\ entries[c].parent = d /\ entries[c].dir
      /\ \A f \in FilesIn(d) : f \in Nodes /\ entries[f].parent = d /\ ~entries[f].dir
      /\ \A x \in Nodes : entries[x].parent = d => x \in FilesIn(d) \/ x \in FoldersIn(d)
  BY SoundFacts, FolderFacts DEF Root, FilesIn, FoldersIn
<1>2. ASSUME NEW n \in Nodes
      PROVE  /\ n \in above[n] /\ above[n] \subseteq Nodes
             /\ \A x \in above[n] : x # n => entries[x].dir
             /\ \A x, y \in above[n] : entries[x].parent = entries[y].parent => x = y
             /\ \A x \in above[n] : entries[x].parent = d => d = Root \/ d \in above[n]
  BY AboveFacts, ChildIsBelow
<1>3. ASSUME NEW n \in FilesUnder(d)
      PROVE  n \in FilesIn(d) \/ \E c \in FoldersIn(d) : n \in FilesUnder(c)
  <2>1. n \in Nodes /\ ~entries[n].dir /\ (d = Root \/ d \in above[n])
    BY <1>3 DEF FilesUnder
  <2>2. n # d
    BY <2>1, SoundFacts DEF Folders, Root
  <2>3. PICK x \in above[n] : entries[x].parent = d
    BY <2>1, <2>2, ThroughAChild
  <2>4. CASE x \in FilesIn(d)
    BY <1>1, <1>2, <2>1, <2>4
  <2>5. CASE x \in FoldersIn(d)
    BY <2>1, <2>3, <2>5 DEF FilesUnder
  <2>. QED
    BY <1>1, <1>2, <2>1, <2>3, <2>4, <2>5
<1>4. ASSUME NEW n \in FilesIn(d)
      PROVE  n \in FilesUnder(d) /\ \A c \in FoldersIn(d) : n \notin FilesUnder(c)
  BY <1>1, <1>2 DEF FilesUnder
<1>5. ASSUME NEW c \in FoldersIn(d), NEW n \in FilesUnder(c)
      PROVE  n \in FilesUnder(d) /\ \A e \in FoldersIn(d) : n \in FilesUnder(e) => e = c
  BY <1>1, <1>2 DEF FilesUnder
<1>. QED
  BY <1>3, <1>4, <1>5

LEMMA SizesAreNats ==
  ASSUME Sound
  PROVE  IsFiniteSet(Nodes) /\ \A n \in Nodes : entries[n].size \in Nat
<1>1. PICK n \in 0..MaxEntries : entries \in [1..n -> [parent : 0..(MaxEntries - 1), dir : BOOLEAN, size : Sizes]]
  BY DEF Sound, Manifests
<1>2. Nodes = 1..n /\ n \in Nat
  BY <1>1, EntriesAssumption DEF Nodes
<1>3. IsFiniteSet(Nodes)
  BY <1>2, FS_Interval
<1>. QED
  BY <1>1, <1>2, <1>3, SizesAssumption

\* What is summed up for a folder is the number and the size of the files below it.
LEMMA TotalsRight ==
  ASSUME Sound
  PROVE  \A d \in Folders : totals[d] = [files |-> Cardinality(FilesUnder(d)), bytes |-> Bytes(FilesUnder(d))]
<1> DEFINE S == {d \in Folders : totals[d] = [files |-> Cardinality(FilesUnder(d)), bytes |-> Bytes(FilesUnder(d))]}
           size == [n \in Nodes |-> entries[n].size]
           ones == [n \in Nodes |-> 1]
<1>1. IsFiniteSet(Nodes) /\ \A n \in Nodes : size[n] \in Nat /\ ones[n] \in Nat /\ ones[n] = 1
  BY SizesAreNats
<1>2. /\ \A A : Bytes(A) = SumFunctionOnSet(size, A)
      /\ \A A \in SUBSET Nodes : IsFiniteSet(A) /\ Cardinality(A) = SumFunctionOnSet(ones, A)
  <2>1. \A A : Bytes(A) = SumFunctionOnSet(size, A)
    BY DEF Bytes
  <2>. HIDE DEF ones
  <2>2. \A A \in SUBSET Nodes : IsFiniteSet(A) /\ Cardinality(A) = SumFunctionOnSet(ones, A)
    BY <1>1, FS_Subset, SumOnes
  <2>. QED
    BY <2>1, <2>2
<1>. HIDE DEF size, ones
<1>3. ASSUME NEW d \in Folders, FoldersIn(d) \subseteq S
      PROVE  d \in S
  <2> DEFINE C == FoldersIn(d)
             R == [c \in C |-> FilesUnder(c)]
             rest == UNION {R[c] : c \in C}
             files == [c \in C |-> totals[c].files]
             bytes == [c \in C |-> totals[c].bytes]
  <2>1. C \in SUBSET Nodes /\ FilesIn(d) \in SUBSET Nodes /\ (\A c \in C : R[c] \in SUBSET Nodes) /\ rest \in SUBSET Nodes
    BY FolderFacts DEF FilesUnder
  <2>2. IsFiniteSet(C) /\ IsFiniteSet(FilesIn(d)) /\ \A c \in C : IsFiniteSet(R[c])
    BY <1>2, <2>1
  <2>3. \A c, e \in C : c # e => R[c] \cap R[e] = {}
    BY FilesUnderFacts
  <2>4. FilesUnder(d) = FilesIn(d) \cup rest /\ FilesIn(d) \cap rest = {}
    BY FilesUnderFacts
  <2>5. \A c \in C : totals[c] = [files |-> Cardinality(R[c]), bytes |-> Bytes(R[c])]
    BY <1>3
  <2>6. \A c \in C : files[c] = SumFunctionOnSet(ones, R[c]) /\ bytes[c] = SumFunctionOnSet(size, R[c])
    <3>1. ASSUME NEW c \in C
          PROVE  files[c] = Cardinality(R[c]) /\ bytes[c] = Bytes(R[c])
      <4>1. files[c] = totals[c].files /\ bytes[c] = totals[c].bytes
        OBVIOUS
      <4>2. totals[c] = [files |-> Cardinality(R[c]), bytes |-> Bytes(R[c])]
        BY <2>5, Zenon
      <4>3. totals[c].files = Cardinality(R[c]) /\ totals[c].bytes = Bytes(R[c])
        <5>. HIDE DEF R
        <5>. QED
          BY <4>2
      <4>. HIDE DEF files, bytes, R
      <4>. QED
        BY <4>1, <4>3
    <3>. HIDE DEF files, bytes, R, C
    <3>. QED
      BY <1>2, <2>1, <3>1
  <2>7. FilesOf(totals, C) = SumFunctionOnSet(files, C) /\ BytesOf(totals, C) = SumFunctionOnSet(bytes, C)
    BY DEF FilesOf, BytesOf, SumFunction
  <2>8. totals[d] = [files |-> Cardinality(FilesIn(d)) + FilesOf(totals, C), bytes |-> Bytes(FilesIn(d)) + BytesOf(totals, C)]
    BY TotalsDefined DEF Totals, TotalsStep
  <2>. HIDE DEF files, bytes, R, C
  <2>9. Splits(rest, C, R)
    BY <2>2, <2>3 DEF Splits
  <2>10. SumFunctionOnSet(files, C) = SumFunctionOnSet(ones, rest)
    <3>1. AddsUp(files, ones, C, R)
      BY <1>1, <2>1, <2>6 DEF AddsUp
    <3>. HIDE DEF rest
    <3>. QED
      BY <2>9, <3>1, SumOfSums
  <2>11. SumFunctionOnSet(bytes, C) = SumFunctionOnSet(size, rest)
    <3>1. AddsUp(bytes, size, C, R)
      BY <1>1, <2>1, <2>6 DEF AddsUp
    <3>. HIDE DEF rest
    <3>. QED
      BY <2>9, <3>1, SumOfSums
  <2>. HIDE DEF rest
  <2>12. Cardinality(FilesUnder(d)) = Cardinality(FilesIn(d)) + SumFunctionOnSet(ones, rest)
    <3>1. SumFunctionOnSet(ones, FilesIn(d) \cup rest) = SumFunctionOnSet(ones, FilesIn(d)) + SumFunctionOnSet(ones, rest)
      BY <1>1, <1>2, <2>1, <2>2, <2>4, SumUnion
    <3>2. FilesIn(d) \cup rest \in SUBSET Nodes
      BY <2>1
    <3>. QED
      BY <1>2, <2>1, <2>4, <3>1, <3>2
  <2>13. Bytes(FilesUnder(d)) = Bytes(FilesIn(d)) + SumFunctionOnSet(size, rest)
    <3>1. SumFunctionOnSet(size, FilesIn(d) \cup rest) = SumFunctionOnSet(size, FilesIn(d)) + SumFunctionOnSet(size, rest)
      BY <1>1, <1>2, <2>1, <2>2, <2>4, SumUnion
    <3>. QED
      BY <1>2, <2>4, <3>1
  <2>. QED
    BY <2>7, <2>8, <2>10, <2>11, <2>12, <2>13
<1>4. Folders \subseteq S
  <2>. HIDE DEF S
  <2>. QED
    BY <1>3, TreeInduction
<1>. QED
  BY <1>4

-----------------------------------------------------------------------------
(* Limits *)

\* What a batch keeps to: a single file may be larger than a unit may be.
Keeps(batch, lim) ==
  /\ Len(batch) <= lim.paths /\ Len(batch) <= lim.files
  /\ Bytes(Range(batch)) > lim.bytes => Len(batch) = 1

KeepingBatches(d, lim) == {batch \in Seq(FilesIn(d)) : Keeps(batch, lim)}
KeepingFiles(d, lim) == {FileUnit(d, batch) : batch \in KeepingBatches(d, lim)}
KeepingUnits(lim) ==
  {FolderUnit(d) : d \in {x \in Folders \ {Root} : Fits(x, lim)}} \cup UNION {KeepingFiles(d, lim) : d \in Folders}

LEMMA BytesFacts ==
  ASSUME Sound
  PROVE  /\ Bytes({}) = 0
         /\ \A A \in SUBSET Nodes : Bytes(A) \in Nat
         /\ \A A \in SUBSET Nodes : \A f \in Nodes : Bytes(A \cup {f}) <= Bytes(A) + entries[f].size
<1> DEFINE size == [n \in Nodes |-> entries[n].size]
<1>1. /\ \A A : Bytes(A) = SumFunctionOnSet(size, A)
      /\ \A A \in SUBSET Nodes : IsFiniteSet(A)
      /\ \A n \in Nodes : size[n] \in Nat /\ size[n] = entries[n].size
  BY SizesAreNats, FS_Subset DEF Bytes
<1>. HIDE DEF size
<1>2. Bytes({}) = 0
  BY <1>1, SumUnfold
<1>3. \A A \in SUBSET Nodes : Bytes(A) \in Nat
  BY <1>1, SumRemove
<1>4. ASSUME NEW A \in SUBSET Nodes, NEW f \in Nodes
      PROVE  Bytes(A \cup {f}) <= Bytes(A) + entries[f].size
  <2>1. Bytes(A) \in Nat /\ entries[f].size \in Nat
    BY <1>1, <1>3
  <2>2. CASE f \in A
    <3>1. A \cup {f} = A
      BY <2>2
    <3>2. Bytes(A \cup {f}) = Bytes(A)
      BY <3>1, Zenon
    <3>. QED
      BY <2>1, <3>2
  <2>3. CASE f \notin A
    <3>1. IsFiniteSet(A) /\ (\A n \in A : size[n] \in Nat) /\ size[f] \in Nat
      BY <1>1
    <3>2. SumFunctionOnSet(size, A \cup {f}) = size[f] + SumFunctionOnSet(size, A)
      BY <2>3, <3>1, SumAdd
    <3>3. Bytes(A \cup {f}) = entries[f].size + Bytes(A)
      BY <1>1, <3>2
    <3>. QED
      BY <2>1, <3>3
  <2>. QED
    BY <2>2, <2>3
<1>. QED
  BY <1>2, <1>3, <1>4

LEMMA BatchFacts ==
  ASSUME Sound, NEW d \in Folders, NEW batch \in Seq(FilesIn(d))
  PROVE  /\ Range(batch) \in SUBSET Nodes /\ Range(batch) \subseteq FilesIn(d)
         /\ Len(batch) \in Nat /\ DOMAIN batch = 1..Len(batch) /\ (Len(batch) = 0 <=> batch = <<>>)
         /\ \A f \in FilesIn(d) : Range(Append(batch, f)) = Range(batch) \cup {f}
<1>1. Len(batch) \in Nat /\ DOMAIN batch = 1..Len(batch) /\ \A k \in 1..Len(batch) : batch[k] \in FilesIn(d)
  BY LenProperties, ElementOfSeq
<1>2. Range(batch) \subseteq FilesIn(d)
  BY <1>1 DEF Range
<1>3. FilesIn(d) \subseteq Nodes
  BY FolderFacts
<1>4. Len(batch) = 0 <=> batch = <<>>
  BY EmptySeq
<1>5. ASSUME NEW f \in FilesIn(d)
      PROVE  Range(Append(batch, f)) = Range(batch) \cup {f}
  <2> DEFINE z == Len(batch)
             s == Append(batch, f)
  <2>1. /\ DOMAIN s = 1..(z + 1) /\ (\A k \in 1..z : s[k] = batch[k]) /\ s[z + 1] = f
        /\ 1..(z + 1) = 1..z \cup {z + 1}
    BY <1>1, AppendProperties, LenProperties
  <2>2. Range(s) = {s[k] : k \in 1..(z + 1)} /\ Range(batch) = {batch[k] : k \in 1..z}
    BY <1>1, <2>1 DEF Range
  <2>. HIDE DEF s, z
  <2>. QED
    BY <2>1, <2>2 DEF s
<1>. QED
  BY <1>1, <1>2, <1>3, <1>4, <1>5

LEMMA PutKeeps ==
  ASSUME Sound, NEW d \in Folders, NEW lim \in Limits, NEW f \in FilesIn(d),
         NEW made \in [units : Seq(KeepingFiles(d, lim)), batch : KeepingBatches(d, lim)]
  PROVE  Put(d, made, f, lim) \in [units : Seq(KeepingFiles(d, lim)), batch : KeepingBatches(d, lim)]
<1> DEFINE b == made.batch
           longer == Append(b, f)
<1>1. /\ b \in Seq(FilesIn(d)) /\ Keeps(b, lim) /\ made.units \in Seq(KeepingFiles(d, lim))
      /\ FileUnit(d, b) \in KeepingFiles(d, lim)
  BY DEF KeepingBatches, KeepingFiles
<1>2. lim.files \in Nat \ {0} /\ lim.bytes \in Nat /\ lim.paths \in Nat \ {0}
  BY LimitsAssumption
<1>3. CASE BatchFull(b, f, lim)
  <2>1. Append(made.units, FileUnit(d, b)) \in Seq(KeepingFiles(d, lim))
    BY <1>1, AppendProperties
  <2>2. <<f>> \in Seq(FilesIn(d)) /\ Len(<<f>>) = 1
    OBVIOUS
  <2>3. <<f>> \in KeepingBatches(d, lim)
    BY <1>2, <2>2 DEF KeepingBatches, Keeps
  <2>. QED
    BY <1>3, <2>1, <2>3 DEF Put
<1>4. CASE ~BatchFull(b, f, lim)
  <2>1. longer \in Seq(FilesIn(d)) /\ Len(longer) = Len(b) + 1 /\ Len(b) \in Nat
    BY <1>1, AppendProperties, LenProperties
  <2>2. Keeps(longer, lim)
    <3>1. CASE b = <<>>
      <4>1. Len(longer) = 1
        BY <1>1, <2>1, <3>1, BatchFacts
      <4>. HIDE DEF longer, b
      <4>. QED
        BY <1>2, <4>1 DEF Keeps
    <3>2. CASE b # <<>>
      <4>1. /\ ~(Len(b) >= lim.paths) /\ ~(Len(b) + 1 > lim.files)
            /\ ~(Bytes(Range(b)) + entries[f].size > lim.bytes)
        BY <1>4, <3>2 DEF BatchFull
      <4>2. Range(longer) = Range(b) \cup {f} /\ Range(b) \in SUBSET Nodes /\ f \in Nodes
        BY <1>1, BatchFacts, FolderFacts
      <4>. HIDE DEF longer, b
      <4>3. /\ Bytes(Range(longer)) <= Bytes(Range(b)) + entries[f].size
            /\ Bytes(Range(longer)) \in Nat /\ Bytes(Range(b)) \in Nat /\ entries[f].size \in Nat
        <5>1. Range(longer) \in SUBSET Nodes
          BY <4>2
        <5>. QED
          BY <4>2, <5>1, BytesFacts, SizesAreNats
      <4>. QED
        BY <1>2, <2>1, <4>1, <4>3 DEF Keeps
    <3>. QED
      BY <3>1, <3>2
  <2>3. longer \in KeepingBatches(d, lim)
    BY <2>1, <2>2 DEF KeepingBatches
  <2>. QED
    BY <1>1, <1>4, <2>3 DEF Put
<1>. QED
  BY <1>3, <1>4

LEMMA FileBatchesKeep ==
  ASSUME Sound, NEW d \in Folders, NEW lim \in Limits
  PROVE  FileBatches(d, lim) \in Seq(KeepingFiles(d, lim))
<1> DEFINE files == InOrder(FilesIn(d))
           n == Len(files)
           Made == [units : Seq(KeepingFiles(d, lim)), batch : KeepingBatches(d, lim)]
           g == CHOOSE made : Batches(d, lim, n, made)
<1>1. n \in Nat /\ \A k \in 1..n : files[k] \in FilesIn(d)
  BY FolderFacts, InOrderType, LenProperties, ElementOfSeq
<1>2. Batches(d, lim, n, g)
  BY <1>1, BatchingDefined
<1>3. Batching(d, lim) = g
  BY DEF Batching, Batches, BatchStep
<1> HIDE DEF g
<1> DEFINE T == {m \in Nat : m \in 0..n => g[m] \in Made}
<1>4. 0 \in T
  <2> SUFFICES ASSUME 0 \in 0..n PROVE g[0] \in Made
    OBVIOUS
  <2>1. g[0] = [units |-> <<>>, batch |-> <<>>]
    BY <1>2 DEF Batches, BatchStep
  <2>2. <<>> \in Seq(KeepingFiles(d, lim)) /\ <<>> \in Seq(FilesIn(d))
    BY EmptySeq
  <2>3. Keeps(<<>>, lim)
    <3>1. Len(<<>>) = 0 /\ Range(<<>>) = {}
      BY EmptySeq DEF Range
    <3>2. lim.files \in Nat /\ lim.bytes \in Nat /\ lim.paths \in Nat
      BY LimitsAssumption
    <3>3. Bytes(Range(<<>>)) = 0
      BY <3>1, BytesFacts, Zenon
    <3>. QED
      BY <3>1, <3>2, <3>3 DEF Keeps
  <2>. QED
    BY <2>1, <2>2, <2>3 DEF KeepingBatches
<1>5. ASSUME NEW m \in Nat, m \in T
      PROVE  m + 1 \in T
  <2> SUFFICES ASSUME m + 1 \in 0..n
               PROVE  g[m + 1] \in Made
    OBVIOUS
  <2>1. m + 1 # 0 /\ (m + 1) - 1 = m /\ m + 1 \in 1..n /\ g[m] \in Made
    BY <1>1, <1>5
  <2>2. g[m + 1] = BatchStep(d, lim, g, m + 1)
    BY <1>2 DEF Batches
  <2>3. g[m + 1] = Put(d, g[m], files[m + 1], lim)
    BY <2>1, <2>2 DEF BatchStep
  <2>. QED
    BY <1>1, <2>1, <2>3, PutKeeps
<1>6. \A m \in Nat : m \in T
  <2>. HIDE DEF T
  <2>. QED
    BY <1>4, <1>5, SetInduction
<1>7. g[n] \in Made
  BY <1>1, <1>6
<1>8. FileUnit(d, g[n].batch) \in KeepingFiles(d, lim)
  BY <1>7 DEF KeepingFiles
<1>. QED
  BY <1>3, <1>7, <1>8, AppendProperties DEF FileBatches, LastBatch

LEMMA PartitionKeeps ==
  ASSUME Sound, NEW lim \in Limits
  PROVE  Partition(lim).units \in Seq(KeepingUnits(lim))
<1> DEFINE part == Partitions(lim)
           K == KeepingUnits(lim)
           S == {d \in Folders : part[d].units \in Seq(K)}
<1>1. \A d \in Folders : part[d] = PartStep(d, lim, part)
  BY PartitionsDefined DEF Parts
<1>2. ASSUME NEW d \in Folders, FoldersIn(d) \subseteq S
      PROVE  d \in S
  <2>1. CASE d # Root /\ Fits(d, lim)
    <3>1. part[d] = [folders |-> {}, units |-> <<FolderUnit(d)>>]
      BY <1>1, <2>1 DEF PartStep
    <3>2. <<FolderUnit(d)>> \in Seq(K)
      BY <2>1 DEF KeepingUnits
    <3>. HIDE DEF part, K
    <3>3. part[d].units = <<FolderUnit(d)>>
      BY <3>1
    <3>4. part[d].units \in Seq(K)
      BY <3>2, <3>3, Zenon
    <3>. QED
      BY <3>4
  <2>2. CASE ~(d # Root /\ Fits(d, lim))
    <3> DEFINE below == InOrder(FoldersIn(d))
               rest == [k \in DOMAIN below |-> part[below[k]].units]
    <3>1. part[d] = Split(d, lim, part)
      BY <1>1, <2>2 DEF PartStep
    <3>2. part[d].units = FileBatches(d, lim) \o FlattenSeq(rest)
      <4>. HIDE DEF part
      <4>. QED
        BY <3>1 DEF Split
    <3>3. \A c \in FoldersIn(d) : part[c].units \in Seq(K)
      BY <1>2
    <3>. HIDE DEF part
    <3>4. rest \in Seq(Seq(K))
      <4>1. below \in Seq(FoldersIn(d))
        BY FolderFacts, InOrderType
      <4>2. Len(below) \in Nat /\ DOMAIN below = 1..Len(below) /\ \A k \in 1..Len(below) : below[k] \in FoldersIn(d)
        BY <4>1, LenProperties, ElementOfSeq
      <4>. HIDE DEF below, K
      <4>3. rest \in [1..Len(below) -> Seq(K)]
        BY <3>3, <4>2
      <4>. QED
        BY <4>2, <4>3, SeqDef
    <3>5. FileBatches(d, lim) \in Seq(K)
      <4>1. KeepingFiles(d, lim) \subseteq K
        BY DEF KeepingUnits
      <4>2. FileBatches(d, lim) \in Seq(KeepingFiles(d, lim))
        BY FileBatchesKeep
      <4>. HIDE DEF K
      <4>. QED
        BY <4>1, <4>2, SeqMonotonic
    <3>. HIDE DEF K, rest
    <3>. QED
      BY <3>2, <3>4, <3>5, FlattenType, ConcatProperties
  <2>. QED
    BY <2>1, <2>2
<1>3. Folders \subseteq S
  <2>. HIDE DEF S
  <2>. QED
    BY <1>2, TreeInduction
<1>4. Root \in Folders
  BY DEF Folders
<1>. QED
  BY <1>3, <1>4 DEF Partition

Carried(u) == {n \in Nodes : ~entries[n].dir /\ Range(u.paths) \cap above[n] # {}}

\* A unit that is a folder carries the files below it.
LEMMA FolderUnitFits ==
  ASSUME Sound, NEW lim \in Limits, NEW d \in Folders \ {Root}, Fits(d, lim), NEW u, u = FolderUnit(d)
  PROVE  /\ u.files = Cardinality(Carried(u)) /\ u.bytes = Bytes(Carried(u))
         /\ u.files <= lim.files /\ Len(u.paths) <= lim.paths /\ ~(u.bytes > lim.bytes)
<1>1. u.paths = <<d>> /\ u.files = totals[d].files /\ u.bytes = totals[d].bytes
  BY DEF FolderUnit
<1>2. Range(u.paths) = {d} /\ Len(u.paths) = 1
  BY <1>1 DEF Range
<1>3. Carried(u) = FilesUnder(d)
  BY <1>2 DEF Carried, FilesUnder
<1>4. totals[d].files = Cardinality(FilesUnder(d)) /\ totals[d].bytes = Bytes(FilesUnder(d))
  <2>1. totals[d] = [files |-> Cardinality(FilesUnder(d)), bytes |-> Bytes(FilesUnder(d))]
    BY TotalsRight
  <2>. QED
    BY <2>1
<1>5. Bytes(FilesUnder(d)) \in Nat /\ lim.paths \in Nat \ {0} /\ lim.bytes \in Nat
  BY BytesFacts, LimitsAssumption DEF FilesUnder
<1>6. totals[d].files <= lim.files /\ totals[d].bytes <= lim.bytes
  BY DEF Fits
<1>. QED
  <2>1. u.files = Cardinality(Carried(u)) /\ u.bytes = Bytes(Carried(u))
    BY <1>1, <1>3, <1>4
  <2>2. Len(u.paths) <= lim.paths
    BY <1>2, <1>5
  <2>3. u.files <= lim.files
    BY <1>1, <1>6
  <2>4. ~(u.bytes > lim.bytes)
    BY <1>1, <1>4, <1>5, <1>6
  <2>. QED
    BY <2>1, <2>2, <2>3, <2>4

\* A unit of files carries just those, each of them once.
LEMMA FileUnitFits ==
  ASSUME Sound, NEW lim \in Limits, NEW d \in Folders, NEW batch \in KeepingBatches(d, lim),
         \A j, k \in DOMAIN batch : batch[j] = batch[k] => j = k, NEW u, u = FileUnit(d, batch)
  PROVE  /\ u.files = Cardinality(Carried(u)) /\ u.bytes = Bytes(Carried(u))
         /\ u.files <= lim.files /\ Len(u.paths) <= lim.paths
         /\ u.bytes > lim.bytes => Len(u.paths) = 1 /\ u.files = 1
<1>1. u.paths = batch /\ u.files = Len(batch) /\ u.bytes = Bytes(Range(batch))
  BY DEF FileUnit
<1>2. batch \in Seq(FilesIn(d)) /\ Keeps(batch, lim)
  BY DEF KeepingBatches
<1>3. Range(batch) \subseteq FilesIn(d) /\ Len(batch) \in Nat /\ DOMAIN batch = 1..Len(batch)
  BY <1>2, BatchFacts
<1>4. Carried(u) = Range(batch)
  <2>1. \A f \in FilesIn(d) : f \in Nodes /\ ~entries[f].dir
    BY DEF FilesIn
  <2>2. \A n \in Nodes : n \in above[n] /\ \A x \in above[n] : x # n => entries[x].dir
    BY AboveFacts
  <2>3. \A n \in Nodes : ~entries[n].dir /\ Range(batch) \cap above[n] # {} <=> n \in Range(batch)
    BY <1>3, <2>1, <2>2
  <2>. QED
    BY <1>1, <1>3, <2>1, <2>3 DEF Carried
<1>5. Cardinality(Range(batch)) = Len(batch)
  <2>1. batch \in [1..Len(batch) -> Range(batch)] /\ \A x \in Range(batch) : \E k \in 1..Len(batch) : batch[k] = x
    BY <1>2, <1>3, LenProperties DEF Range
  <2>2. batch \in Surjection(1..Len(batch), Range(batch)) /\ batch \in Injection(1..Len(batch), Range(batch))
    BY <1>3, <2>1 DEF Surjection, Injection, IsInjective
  <2>3. IsFiniteSet(1..Len(batch)) /\ Cardinality(1..Len(batch)) = Len(batch)
    BY <1>3, FS_Interval
  <2>. QED
    BY <2>2, <2>3, FS_Surjection
<1>. QED
  BY <1>1, <1>2, <1>4, <1>5 DEF Keeps

-----------------------------------------------------------------------------
(* The database *)

\* A planner past its checks has worked out the partition of the manifest for some limits.
PlanInv ==
  /\ plan = [p \in Planners |-> plan[p]]
  /\ \A p \in Planners :
       pc[p] \in {"begin", "insert", "commit"} =>
         \E lim \in Limits : plan[p] = [limits |-> lim, rows |-> Partition(lim)]

\* Only the writer can be about to commit, and only where nobody has committed.
WriterInv ==
  /\ pc \in [Planners -> {"idle", "connect", "existing", "stage", "begin", "insert", "commit"}]
  /\ writer \in Planners \cup {None}
  /\ \A p \in Planners : (writer = p) <=> pc[p] \in {"insert", "commit"}
  /\ \A p \in Planners : pc[p] = "commit" => bound = None

IInv ==
  /\ Sound /\ dbFile \in BOOLEAN /\ bound \in Limits \cup {None}
  /\ PlanInv /\ WriterInv /\ OnlyWholePlans

LEMMA InitIInv == Init => IInv
<1> SUFFICES ASSUME Init PROVE IInv
  OBVIOUS
<1>1. Sound
  BY DEF Init, Sound
<1>2. PlanInv /\ WriterInv /\ OnlyWholePlans
  BY NoneAssumption DEF Init, PlanInv, WriterInv, OnlyWholePlans, Planners
<1>. QED
  BY <1>1, <1>2 DEF Init, IInv

\* Rows of remote_dirs are in the way of every other plan.
LEMMA CollidesWhenBound ==
  ASSUME IInv, NEW p \in Planners, pc[p] = "insert", bound # None
  PROVE  Collides(p)
<1>1. PICK lim \in Limits : plan[p] = [limits |-> lim, rows |-> Partition(lim)]
  BY DEF IInv, PlanInv
<1>2. Root \in Partition(lim).folders
  BY PartitionPlaced DEF IInv
<1>3. remoteDirs = Partition(bound).folders
  BY DEF IInv, OnlyWholePlans
<1>4. Root \in remoteDirs
  BY <1>3, PartitionPlaced DEF IInv
<1>. QED
  BY <1>1, <1>2, <1>4 DEF Collides

\* The partition depends on the manifest alone.
LEMMA SamePartition ==
  ASSUME UNCHANGED entries
  PROVE  /\ Sound' = Sound /\ Folders' = Folders
         /\ \A lim : Partition(lim)' = Partition(lim)
<1>1. Nodes' = Nodes /\ Folders' = Folders /\ (\A d : FoldersIn(d)' = FoldersIn(d)) /\ (\A d : FilesIn(d)' = FilesIn(d))
  BY DEF Nodes, Folders, FoldersIn, FilesIn
<1>2. \A S : InOrder(S)' = InOrder(S)
  BY DEF InOrder
<1>3. \A S : Bytes(S)' = Bytes(S)
  BY <1>1 DEF Bytes, SumFunctionOnSet, FoldFunctionOnSet, MapThenFoldSet
<1>4. totals' = totals
  BY <1>1, <1>2, <1>3 DEF totals
<1>5. \A d : FolderUnit(d)' = FolderUnit(d)
  BY <1>4 DEF FolderUnit
<1>6. \A d, b : FileUnit(d, b)' = FileUnit(d, b)
  BY <1>3 DEF FileUnit
<1>7. \A d, made, f, lim : Put(d, made, f, lim)' = Put(d, made, f, lim)
  <2>1. \A batch, f, lim : BatchFull(batch, f, lim)' = BatchFull(batch, f, lim)
    BY <1>3 DEF BatchFull
  <2>. QED
    BY <1>6, <2>1 DEF Put
<1>8. \A d, lim : Batching(d, lim)' = Batching(d, lim)
  BY <1>1, <1>2, <1>7 DEF Batching
<1>9. \A d, lim : FileBatches(d, lim)' = FileBatches(d, lim)
  BY <1>1, <1>2, <1>6, <1>8 DEF FileBatches, LastBatch
<1>10. \A d, lim, part : Split(d, lim, part)' = Split(d, lim, part)
  BY <1>1, <1>2, <1>9 DEF Split
<1>11. \A d, lim : Fits(d, lim)' = Fits(d, lim)
  BY <1>4 DEF Fits
<1>12. \A lim : Partitions(lim)' = Partitions(lim)
  BY <1>1, <1>5, <1>10, <1>11 DEF Partitions
<1>13. Sound' = Sound
  BY DEF Sound, Manifests, ATree
<1>. QED
  BY <1>1, <1>12, <1>13 DEF Partition

\* Steps that leave the database and the plans alone.
LEMMA WalkKeeps ==
  ASSUME IInv, NEW p \in Planners, CallPlan(p) \/ Connect(p) \/ FindExisting(p)
  PROVE  IInv'
<1>1. UNCHANGED <<entries, remoteDirs, units, bound, writer, plan>> /\ dbFile' \in BOOLEAN
  BY DEF IInv, CallPlan, Connect, FindExisting
<1>2. PICK step \in {"idle", "connect", "existing", "stage"} : pc' = [pc EXCEPT ![p] = step]
  BY DEF CallPlan, Connect, FindExisting, Goto
<1>3. pc[p] \in {"idle", "connect", "existing"}
  BY DEF CallPlan, Connect, FindExisting
<1>4. PlanInv'
  BY <1>1, <1>2, SamePartition DEF IInv, PlanInv, WriterInv
<1>5. WriterInv'
  BY <1>1, <1>2, <1>3 DEF IInv, WriterInv
<1>6. OnlyWholePlans'
  BY <1>1, SamePartition DEF IInv, OnlyWholePlans
<1>. QED
  BY <1>1, <1>4, <1>5, <1>6, SamePartition DEF IInv

LEMMA WorkOutKeeps ==
  ASSUME IInv, NEW p \in Planners, NEW lim \in Limits, WorkOut(p, lim)
  PROVE  IInv'
<1>1. UNCHANGED <<entries, dbFile, remoteDirs, units, bound, writer>> /\ pc' = [pc EXCEPT ![p] = "begin"]
  BY DEF WorkOut, Goto
<1>2. plan' = [plan EXCEPT ![p] = [limits |-> lim, rows |-> Partition(lim)]] /\ pc[p] = "stage"
  BY DEF WorkOut
<1>3. Partition(lim)' = Partition(lim) /\ \A l : Partition(l)' = Partition(l)
  BY <1>1, SamePartition
<1>4. PlanInv'
  <2>1. plan' = [q \in Planners |-> plan'[q]]
    BY <1>2 DEF IInv, PlanInv
  <2> SUFFICES ASSUME NEW q \in Planners, pc'[q] \in {"begin", "insert", "commit"}
               PROVE  \E l \in Limits : plan'[q] = [limits |-> l, rows |-> Partition(l)']
    BY <2>1 DEF PlanInv
  <2>2. CASE q = p
    BY <1>2, <1>3, <2>2 DEF IInv, PlanInv
  <2>3. CASE q # p
    BY <1>1, <1>2, <1>3, <2>3 DEF IInv, PlanInv, WriterInv
  <2>. QED
    BY <2>2, <2>3
<1>5. WriterInv'
  BY <1>1, <1>2 DEF IInv, WriterInv
<1>6. OnlyWholePlans'
  BY <1>1, <1>3 DEF IInv, OnlyWholePlans
<1>. QED
  BY <1>1, <1>4, <1>5, <1>6, SamePartition DEF IInv

LEMMA BeginImmediateKeeps ==
  ASSUME IInv, NEW p \in Planners, BeginImmediate(p)
  PROVE  IInv'
<1>1. UNCHANGED <<entries, dbFile, remoteDirs, units, bound, plan>> /\ pc' = [pc EXCEPT ![p] = "insert"]
  BY DEF BeginImmediate, Goto
<1>2. writer = None /\ writer' = p /\ pc[p] = "begin"
  BY DEF BeginImmediate
<1>3. PlanInv'
  BY <1>1, <1>2, SamePartition DEF IInv, PlanInv, WriterInv
<1>4. WriterInv'
  BY <1>1, <1>2, NoneAssumption DEF IInv, WriterInv
<1>5. OnlyWholePlans'
  BY <1>1, SamePartition DEF IInv, OnlyWholePlans
<1>. QED
  BY <1>1, <1>3, <1>4, <1>5, SamePartition DEF IInv

\* An end of the command without a commit.
LEMMA EndKeeps ==
  ASSUME IInv, NEW p \in Planners, EndPlan(p), UNCHANGED <<entries, dbFile, remoteDirs, units, bound>>
  PROVE  IInv'
<1>1. /\ pc' = [pc EXCEPT ![p] = "idle"] /\ plan' = [plan EXCEPT ![p] = None]
      /\ writer' = IF writer = p THEN None ELSE writer
  BY DEF EndPlan, Goto
<1>2. PlanInv'
  BY <1>1, SamePartition DEF IInv, PlanInv, WriterInv
<1>3. WriterInv'
  BY <1>1, NoneAssumption DEF IInv, WriterInv
<1>4. OnlyWholePlans'
  BY SamePartition DEF IInv, OnlyWholePlans
<1>. QED
  BY <1>2, <1>3, <1>4, SamePartition DEF IInv

LEMMA InsertKeeps ==
  ASSUME IInv, NEW p \in Planners, Insert(p)
  PROVE  IInv'
<1>1. UNCHANGED <<entries, dbFile, remoteDirs, units, bound>> /\ pc[p] = "insert"
  BY DEF Insert
<1>2. CASE EndPlan(p)
  BY <1>1, <1>2, EndKeeps
<1>3. CASE ~Collides(p) /\ Goto(p, "commit") /\ UNCHANGED <<writer, plan>>
  <2>1. bound = None
    BY <1>1, <1>3, CollidesWhenBound
  <2>2. PlanInv'
    BY <1>1, <1>3, SamePartition DEF IInv, PlanInv, WriterInv, Goto
  <2>3. WriterInv'
    BY <1>1, <1>3, <2>1 DEF IInv, WriterInv, Goto
  <2>4. OnlyWholePlans'
    BY <1>1, SamePartition DEF IInv, OnlyWholePlans
  <2>. QED
    BY <1>1, <2>2, <2>3, <2>4, SamePartition DEF IInv
<1>. QED
  BY <1>2, <1>3 DEF Insert

LEMMA CommitKeeps ==
  ASSUME IInv, NEW p \in Planners, Commit(p)
  PROVE  IInv'
<1>1. PICK lim \in Limits : plan[p] = [limits |-> lim, rows |-> Partition(lim)]
  BY DEF IInv, PlanInv, Commit
<1>2. bound = None /\ units = <<>> /\ remoteDirs = {} /\ writer = p
  BY DEF IInv, WriterInv, OnlyWholePlans, Commit
<1>3. /\ UNCHANGED <<entries, dbFile>>
      /\ pc' = [pc EXCEPT ![p] = "idle"] /\ plan' = [plan EXCEPT ![p] = None] /\ writer' = None
  BY <1>2 DEF Commit, EndPlan, Goto
<1>4. bound' = lim /\ remoteDirs' = Partition(lim).folders /\ units' = Partition(lim).units
  <2>1. Partition(lim).units \in Seq(PlanUnits)
    BY PartitionPlaced DEF IInv, Placed
  <2>2. <<>> \o Partition(lim).units = Partition(lim).units
    BY <2>1, ConcatEmptySeq
  <2>. QED
    BY <1>1, <1>2, <2>2 DEF Commit
<1>5. PlanInv'
  BY <1>3, SamePartition DEF IInv, PlanInv, WriterInv
<1>6. WriterInv'
  BY <1>2, <1>3, NoneAssumption DEF IInv, WriterInv
<1>7. OnlyWholePlans'
  <2>1. Partition(lim) = [folders |-> Partition(lim).folders, units |-> Partition(lim).units]
    BY PartitionFields DEF IInv
  <2>2. Partition(lim)' = Partition(lim)
    BY <1>3, SamePartition
  <2>3. bound' # None /\ Partition(bound)' = Partition(lim)
    BY <1>4, <2>2, NoneAssumption
  <2>. QED
    BY <1>4, <2>1, <2>3 DEF OnlyWholePlans
<1>. QED
  BY <1>3, <1>4, <1>5, <1>6, <1>7, SamePartition DEF IInv

LEMMA PlanDiesKeeps ==
  ASSUME IInv, NEW p \in Planners, PlanDies(p)
  PROVE  IInv'
BY EndKeeps DEF PlanDies

LEMMA NextIInv ==
  ASSUME IInv, [Next]_vars
  PROVE  IInv'
<1>1. CASE UNCHANGED vars
  BY <1>1, SamePartition DEF vars, IInv, PlanInv, WriterInv, OnlyWholePlans
<1>2. CASE Next
  <2>1. PICK p \in Planners :
          \/ CallPlan(p) \/ Connect(p) \/ FindExisting(p)
          \/ \E lim \in Limits : WorkOut(p, lim)
          \/ BeginImmediate(p) \/ Insert(p) \/ Commit(p) \/ PlanDies(p)
    BY <1>2 DEF Next
  <2>. QED
    BY <2>1, WalkKeeps, WorkOutKeeps, BeginImmediateKeeps, InsertKeeps, CommitKeeps, PlanDiesKeeps
<1>. QED
  BY <1>1, <1>2

\* The inductive invariant holds in every state.
THEOREM PlanInvariant == Spec => []IInv
<1>. QED
  BY InitIInv, NextIInv, PTL DEF Spec

LEMMA UnitsPlaced ==
  ASSUME IInv, bound # None
  PROVE  /\ Placed(Root, [folders |-> remoteDirs, units |-> units]) /\ Root \in remoteDirs
         /\ units \in Seq({u \in PlanUnits : u.parent \in remoteDirs})
<1>1. Sound /\ [folders |-> remoteDirs, units |-> units] = Partition(bound)
  BY DEF IInv, OnlyWholePlans
<1>2. Placed(Root, [folders |-> remoteDirs, units |-> units]) /\ Root \in remoteDirs
  BY <1>1, PartitionPlaced
<1>. QED
  BY <1>2 DEF Placed

\* What a unit of the partition uploads is in the folder the unit's target stands for.
LEMMA PathsOfAUnit ==
  ASSUME Sound, NEW u \in PlanUnits
  PROVE  /\ u.parent \in Folders
         /\ Range(u.paths) \subseteq Nodes
         /\ \A n \in Range(u.paths) : entries[n].parent = u.parent
<1>1. CASE \E d \in Folders \ {Root} : u = FolderUnit(d)
  <2>1. PICK d \in Folders \ {Root} : u = FolderUnit(d)
    BY <1>1
  <2>2. u.parent = entries[d].parent /\ u.paths = <<d>>
    BY <2>1 DEF FolderUnit
  <2>3. Range(u.paths) = {d}
    BY <2>2 DEF Range
  <2>4. d \in Nodes
    BY DEF Folders
  <2>. QED
    BY <2>2, <2>3, <2>4, SoundFacts
<1>2. CASE \E d \in Folders : u \in FileUnits(d)
  <2>1. PICK d \in Folders : \E batch \in Seq(FilesIn(d)) : u = FileUnit(d, batch)
    BY <1>2 DEF FileUnits
  <2>2. u.parent = d /\ u.paths \in Seq(FilesIn(d))
    BY <2>1 DEF FileUnit
  <2>3. Range(u.paths) \subseteq FilesIn(d)
    BY <2>2, ElementOfSeq, LenProperties DEF Range
  <2>. QED
    BY <2>2, <2>3, FolderFacts
<1>. QED
  BY <1>1, <1>2 DEF PlanUnits

\* The database holds one whole partition of the manifest or nothing, whoever plans and
\* whoever dies: BEGIN IMMEDIATE and the key of remote_dirs are enough (create_plan).
THEOREM PlanOnlyWholePlans == Spec => []OnlyWholePlans
<1>1. IInv => OnlyWholePlans
  BY DEF IInv
<1>. QED
  BY <1>1, PlanInvariant, PTL

\* Only a commit writes rows, and none is reached once there is a plan, however many
\* planners there are past their checks (create_plan).
THEOREM PlanStaysFinal == Spec => PlanIsFinal
<1>1. ASSUME IInv, [Next]_vars, bound # None
      PROVE  UNCHANGED <<remoteDirs, units, bound>>
  <2>1. CASE UNCHANGED vars
    BY <2>1 DEF vars
  <2>2. ASSUME NEW p \in Planners, CallPlan(p) \/ Connect(p) \/ FindExisting(p) \/ BeginImmediate(p) \/ Insert(p) \/ PlanDies(p)
        PROVE  UNCHANGED <<remoteDirs, units, bound>>
    BY <2>2 DEF CallPlan, Connect, FindExisting, BeginImmediate, Insert, PlanDies
  <2>3. ASSUME NEW p \in Planners, NEW lim \in Limits, WorkOut(p, lim)
        PROVE  UNCHANGED <<remoteDirs, units, bound>>
    BY <2>3 DEF WorkOut
  <2>4. ASSUME NEW p \in Planners
        PROVE  ~Commit(p)
    BY <1>1 DEF Commit, IInv, WriterInv
  <2>. QED
    BY <1>1, <2>1, <2>2, <2>3, <2>4 DEF Next
<1>. QED
  BY <1>1, PlanInvariant, PTL DEF Spec, PlanIsFinal

\* Whatever the tree and the limits, a unit's paths are children of the folder its target
\* stands for, and that folder and all above it are rows of remote_dirs (partition).
THEOREM PlanLandsInPlace == Spec => []LandsInPlace
<1>1. ASSUME IInv
      PROVE  LandsInPlace
  <2> SUFFICES ASSUME bound # None
               PROVE  /\ \A i \in DOMAIN units :
                           /\ units[i].parent \in remoteDirs
                           /\ \A n \in Range(units[i].paths) : entries[n].parent = units[i].parent
                      /\ Root \in remoteDirs
                      /\ \A d \in remoteDirs \ {Root} : entries[d].parent \in remoteDirs
    BY DEF LandsInPlace
  <2>1. \A d \in remoteDirs \ {Root} : entries[d].parent \in remoteDirs
    BY <1>1, UnitsPlaced DEF Placed
  <2>2. \A i \in DOMAIN units : units[i] \in PlanUnits /\ units[i].parent \in remoteDirs
    BY <1>1, UnitsPlaced, ElementOfSeq, LenProperties
  <2>. QED
    BY <1>1, <2>1, <2>2, UnitsPlaced, PathsOfAUnit DEF IInv
<1>. QED
  BY <1>1, PlanInvariant, PTL

\* Every file is in exactly one unit of a plan and every folder is made or in exactly one,
\* for every tree and every setting of the limits (create_plan, partition).
THEOREM PlanEveryEntryOnce == Spec => []EveryEntryOnce
<1>1. ASSUME IInv
      PROVE  EveryEntryOnce
  <2> SUFFICES ASSUME bound # None, NEW n \in Nodes
               PROVE  Cardinality(Carriers(n)) = IF n \in remoteDirs THEN 0 ELSE 1
    BY DEF EveryEntryOnce
  <2>1. Sound /\ [folders |-> remoteDirs, units |-> units] = Partition(bound)
    BY <1>1 DEF IInv, OnlyWholePlans
  <2>2. \A m \in Nodes : IF m \in remoteDirs THEN Never(units, m) ELSE Once(units, m)
    BY <2>1, PartitionOnce DEF EachOnce
  <2>3. \A i \in DOMAIN units : units[i] \in PlanUnits
    BY <1>1, UnitsPlaced, ElementOfSeq, LenProperties
  <2>4. \A i \in DOMAIN units : units[i].paths \in Seq(Nodes) /\ Len(units[i].paths) <= MaxEntries
    BY <2>1, <2>2, <2>3, PathsAreDistinct
  <2>5. \A i \in DOMAIN units : DOMAIN units[i].paths \subseteq 1..MaxEntries
    BY <2>4, LenProperties, EntriesAssumption
  <2>6. \A at : at \in Carriers(n) <=> at \in (DOMAIN units) \X (1..MaxEntries) /\ At(units, at[1], at[2], n)
    BY DEF Carriers, At
  <2>7. CASE n \in remoteDirs
    <3>1. Carriers(n) = {}
      BY <2>2, <2>6, <2>7 DEF Never
    <3>. QED
      BY <2>7, <3>1, FS_EmptySet
  <2>8. CASE n \notin remoteDirs
    <3>1. PICK i, k : At(units, i, k, n) /\ \A j, l : At(units, j, l, n) => j = i /\ l = k
      BY <2>2, <2>8 DEF Once
    <3>2. <<i, k>> \in Carriers(n)
      BY <2>5, <2>6, <3>1 DEF At
    <3>3. \A at \in Carriers(n) : at = <<i, k>>
      BY <2>6, <3>1
    <3>4. Carriers(n) = {<<i, k>>}
      BY <3>2, <3>3
    <3>. QED
      BY <2>8, <3>4, FS_Singleton
  <2>. QED
    BY <2>7, <2>8
<1>. QED
  BY <1>1, PlanInvariant, PTL

\* A unit is accounted for the files and bytes it carries, and keeps to the limits it was
\* planned with but for a single larger file, whatever the tree (add_file_batches, partition).
THEOREM PlanUnitsFit == Spec => []UnitsFit
<1>1. ASSUME IInv
      PROVE  UnitsFit
  <2> SUFFICES ASSUME bound # None, NEW i \in DOMAIN units
               PROVE  /\ units[i].files = Cardinality(Carried(units[i]))
                      /\ units[i].bytes = Bytes(Carried(units[i]))
                      /\ units[i].files <= bound.files /\ Len(units[i].paths) <= bound.paths
                      /\ units[i].bytes > bound.bytes => Len(units[i].paths) = 1 /\ units[i].files = 1
    BY DEF UnitsFit, Carried
  <2>1. Sound /\ [folders |-> remoteDirs, units |-> units] = Partition(bound) /\ bound \in Limits
    BY <1>1 DEF IInv, OnlyWholePlans
  <2>2. \A n \in Nodes : Never(units, n) \/ Once(units, n)
    BY <2>1, PartitionOnce DEF EachOnce
  <2>3. units[i] \in PlanUnits
    BY <1>1, UnitsPlaced, ElementOfSeq, LenProperties
  <2>4. \A j, k \in DOMAIN units[i].paths : units[i].paths[j] = units[i].paths[k] => j = k
    BY <2>1, <2>2, <2>3, PathsAreDistinct
  <2>5. units[i] \in KeepingUnits(bound)
    <3>1. units = Partition(bound).units
      BY <2>1
    <3>2. units \in Seq(KeepingUnits(bound))
      BY <2>1, <3>1, PartitionKeeps
    <3>. QED
      BY <3>2, ElementOfSeq, LenProperties
  <2>6. CASE \E d \in {x \in Folders \ {Root} : Fits(x, bound)} : units[i] = FolderUnit(d)
    BY <2>1, <2>6, FolderUnitFits
  <2>7. CASE \E d \in Folders : units[i] \in KeepingFiles(d, bound)
    <3>1. PICK d \in Folders : units[i] \in KeepingFiles(d, bound)
      BY <2>7
    <3>2. PICK batch \in KeepingBatches(d, bound) : units[i] = FileUnit(d, batch)
      BY <3>1 DEF KeepingFiles
    <3>3. units[i].paths = batch
      BY <3>2 DEF FileUnit
    <3>4. \A j, k \in DOMAIN batch : batch[j] = batch[k] => j = k
      BY <2>4, <3>3
    <3>. QED
      BY <2>1, <3>2, <3>4, FileUnitFits
  <2>. QED
    BY <2>5, <2>6, <2>7 DEF KeepingUnits
<1>. QED
  BY <1>1, PlanInvariant, PTL

\* Every row names folders and entries of the manifest, and only the planner inside the
\* transaction has rows to commit.
THEOREM PlanTypeOK == Spec => []TypeOK
<1>1. ASSUME IInv
      PROVE  TypeOK
  <2>1. CASE bound = None
    <3>1. remoteDirs = {} /\ units = <<>>
      BY <1>1, <2>1 DEF IInv, OnlyWholePlans
    <3>. QED
      BY <1>1, <3>1 DEF IInv, WriterInv, Sound, TypeOK
  <2>2. CASE bound # None
    <3>1. remoteDirs \subseteq Folders
      BY <1>1, <2>2, UnitsPlaced DEF Placed
    <3>2. \A i \in DOMAIN units : units[i] \in PlanUnits
      BY <1>1, <2>2, UnitsPlaced, ElementOfSeq, LenProperties
    <3>3. \A i \in DOMAIN units : units[i].parent \in Folders /\ Range(units[i].paths) \subseteq Nodes
      BY <1>1, <3>2, PathsOfAUnit DEF IInv
    <3>. QED
      BY <1>1, <3>1, <3>3 DEF IInv, WriterInv, Sound, TypeOK
  <2>. QED
    BY <2>1, <2>2
<1>. QED
  BY <1>1, PlanInvariant, PTL
=============================================================================

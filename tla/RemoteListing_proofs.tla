------------------------ MODULE RemoteListing_proofs ------------------------
(***************************************************************************)
(* Machine-checked proof that verification decides: for every source tree  *)
(* and every setting of the limits, the listings of a finished upload have *)
(* no mismatch, and a listing changed in one place is reported in exactly  *)
(* the classes of that change.                                             *)
(*                                                                         *)
(* That everything lands in the folder it was in follows from the theorems *)
(* about the plan; the rest is about one listing.                          *)
(***************************************************************************)
EXTENDS RemoteListing, UploadPlan_proofs

Expected(d) == {n \in Nodes : entries[n].parent = d}
Types  == {"folder", "file"}
Fields == {"size", "sha1", "mtime"}
Values == {"frozen", "other", "none"}
Items  == [name : Nat, type : Types, claims : [size : Values, sha1 : Values, mtime : Values]]
ItemFor(n) == IF entries[n].dir THEN FolderItem(n) ELSE FileItem(n)

LEMMA NamesDiffer ==
  ASSUME Sound
  PROVE  /\ Nodes \subseteq Nat /\ Foreign \in Nat /\ Unreadable \in Nat
         /\ Foreign \notin Nodes /\ Unreadable \notin Nodes /\ Foreign # Unreadable
<1>1. PICK n \in 0..MaxEntries : entries \in [1..n -> [parent : 0..(MaxEntries - 1), dir : BOOLEAN, size : Sizes]]
  BY DEF Sound, Manifests
<1>2. Nodes = 1..n
  BY <1>1 DEF Nodes
<1>. QED
  BY <1>2, EntriesAssumption DEF Foreign, Unreadable

-----------------------------------------------------------------------------
(* What compare_listing reports *)

LEMMA LastExists ==
  ASSUME NEW n \in Nat, NEW S \in SUBSET (1..n), S # {}
  PROVE  \E k \in S : \A j \in S : j <= k
<1> DEFINE T == {m \in Nat : \A s \in SUBSET (1..m) : s # {} => \E k \in s : \A j \in s : j <= k}
<1>1. 0 \in T
  <2>1. \A s \in SUBSET (1..0) : s = {}
    OBVIOUS
  <2>. QED
    BY <2>1
<1>2. ASSUME NEW m \in Nat, m \in T
      PROVE  m + 1 \in T
  <2> SUFFICES ASSUME NEW s \in SUBSET (1..(m + 1)), s # {}
               PROVE  \E k \in s : \A j \in s : j <= k
    OBVIOUS
  <2>1. CASE m + 1 \in s
    BY <2>1
  <2>2. CASE m + 1 \notin s
    <3>1. s \in SUBSET (1..m)
      BY <2>2
    <3>. QED
      BY <1>2, <3>1
  <2>. QED
    BY <2>1, <2>2
<1>3. \A m \in Nat : m \in T
  <2>. HIDE DEF T
  <2>. QED
    BY <1>1, <1>2, SetInduction
<1>. QED
  BY <1>3

LEMMA Seconds ==
  ASSUME NEW S, NEW class
  PROVE  \A kind : (\E f \in {<<x, class>> : x \in S} : f[2] = kind) <=> kind = class /\ \E x : x \in S
<1> SUFFICES ASSUME NEW kind
             PROVE  (\E f \in {<<x, class>> : x \in S} : f[2] = kind) <=> kind = class /\ \E x : x \in S
  OBVIOUS
<1>1. ASSUME NEW f \in {<<x, class>> : x \in S}, f[2] = kind
      PROVE  kind = class /\ \E x : x \in S
  <2>1. PICK x \in S : f = <<x, class>>
    OBVIOUS
  <2>. QED
    BY <1>1, <2>1
<1>2. ASSUME kind = class, NEW x \in S
      PROVE  \E f \in {<<y, class>> : y \in S} : f[2] = kind
  <2>1. <<x, class>> \in {<<y, class>> : y \in S} /\ <<x, class>>[2] = kind
    BY <1>2
  <2>. QED
    BY <2>1
<1>. QED
  BY <1>1, <1>2

Kinds(d, remote) == {found[2] : found \in CompareListing(d, remote)}

\* The items of an expected name agree, so that it does not matter which one is compared.
Agree(d, remote) ==
  \A j, k \in DOMAIN remote :
    remote[j].name = remote[k].name /\ remote[j].name \in Expected(d) => remote[j] = remote[k]

HasUnreadable(remote) == \E k \in DOMAIN remote : remote[k].name = Unreadable
HasDuplicate(remote) ==
  \E j, k \in DOMAIN remote : j # k /\ remote[j].name = remote[k].name /\ remote[j].name # Unreadable
HasUnexpected(d, remote) ==
  \E k \in DOMAIN remote : remote[k].name # Unreadable /\ remote[k].name \notin Expected(d)
HasMissing(d, remote) == \E n \in Expected(d) : \A k \in DOMAIN remote : remote[k].name # n
HasWrong(d, remote, kind) ==
  \E k \in DOMAIN remote : remote[k].name \in Expected(d) /\ kind \in Wrong(remote[k].name, remote[k])

\* The classes reported of a listing, one by one.
LEMMA KindsOf ==
  ASSUME Sound, NEW d, NEW remote \in Seq(Items), Agree(d, remote)
  PROVE  \A kind : kind \in Kinds(d, remote) <=>
           \/ kind = "unreadable-name" /\ HasUnreadable(remote)
           \/ kind = "duplicate" /\ HasDuplicate(remote)
           \/ kind = "unexpected" /\ HasUnexpected(d, remote)
           \/ kind = "missing" /\ HasMissing(d, remote)
           \/ HasWrong(d, remote, kind)
<1> DEFINE E == Expected(d)
           N == NamesIn(remote)
           A1 == {<<item.name, "unreadable-name">> : item \in Range(remote) \ Readable(remote)}
           A2 == {<<name, "duplicate">> : name \in Duplicates(remote)}
           A3 == {<<name, "unexpected">> : name \in N \ E}
           A4 == {<<n, "missing">> : n \in E \ N}
           A5 == UNION {{<<n, kind>> : kind \in Wrong(n, ByName(remote, n))} : n \in E \cap N}
<1>1. CompareListing(d, remote) = A1 \cup A2 \cup A3 \cup A4 \cup A5
  BY DEF CompareListing, Expected
<1>2. DOMAIN remote = 1..Len(remote) /\ Len(remote) \in Nat
  BY LenProperties
<1>3. Unreadable \notin E
  BY NamesDiffer DEF Expected
<1>4. \A name : name \in N <=> name # Unreadable /\ \E k \in DOMAIN remote : remote[k].name = name
  BY DEF NamesIn, Readable, Range
<1>5. ASSUME NEW n \in E \cap N
      PROVE  \E k \in DOMAIN remote : remote[k].name = n /\ ByName(remote, n) = remote[k]
  <2> DEFINE S == ItemsOf(remote, n)
  <2>1. S \in SUBSET (1..Len(remote)) /\ S # {}
    BY <1>2, <1>4, <1>5 DEF ItemsOf
  <2>2. \E k \in S : \A j \in S : j <= k
    BY <1>2, <2>1, LastExists
  <2>3. (CHOOSE k \in S : \A j \in S : j <= k) \in S
    BY <2>2
  <2>. QED
    BY <2>3 DEF ByName, ItemsOf
<1>6. \A n \in E \cap N : \A k \in DOMAIN remote : remote[k].name = n => ByName(remote, n) = remote[k]
  BY <1>5 DEF Agree
<1>7. \A kind : (\E f \in A1 : f[2] = kind) <=> kind = "unreadable-name" /\ HasUnreadable(remote)
  <2>1. (\E item : item \in Range(remote) \ Readable(remote)) <=> HasUnreadable(remote)
    BY DEF HasUnreadable, Readable, Range
  <2>2. \A f : f \in A1 => f[2] = "unreadable-name" /\ \E item : item \in Range(remote) \ Readable(remote)
    OBVIOUS
  <2>3. ASSUME NEW item \in Range(remote) \ Readable(remote)
        PROVE  \E f \in A1 : f[2] = "unreadable-name"
    <3>1. <<item.name, "unreadable-name">> \in A1 /\ <<item.name, "unreadable-name">>[2] = "unreadable-name"
      OBVIOUS
    <3>. HIDE DEF A1
    <3>. QED
      BY <3>1
  <2>. HIDE DEF A1
  <2>. QED
    BY <2>1, <2>2, <2>3
<1>8. \A kind : (\E f \in A2 : f[2] = kind) <=> kind = "duplicate" /\ HasDuplicate(remote)
  <2>1. (\E name : name \in Duplicates(remote)) <=> HasDuplicate(remote)
    BY <1>4 DEF Duplicates, HasDuplicate, ItemsOf
  <2>. QED
    BY <2>1, Seconds
<1>9. \A kind : (\E f \in A3 : f[2] = kind) <=> kind = "unexpected" /\ HasUnexpected(d, remote)
  <2>1. (\E name : name \in N \ E) <=> HasUnexpected(d, remote)
    BY <1>4 DEF HasUnexpected
  <2>. HIDE DEF N, E
  <2>. QED
    BY <2>1, Seconds
<1>10. \A kind : (\E f \in A4 : f[2] = kind) <=> kind = "missing" /\ HasMissing(d, remote)
  <2>1. (\E name : name \in E \ N) <=> HasMissing(d, remote)
    BY <1>3, <1>4 DEF HasMissing
  <2>. HIDE DEF N, E
  <2>. QED
    BY <2>1, Seconds
<1>11. \A kind : (\E f \in A5 : f[2] = kind) <=> HasWrong(d, remote, kind)
  <2> SUFFICES ASSUME NEW kind
               PROVE  (\E f \in A5 : f[2] = kind) <=> HasWrong(d, remote, kind)
    OBVIOUS
  <2>1. (\E f \in A5 : f[2] = kind) <=> \E n \in E \cap N : kind \in Wrong(n, ByName(remote, n))
    <3>1. ASSUME NEW f \in A5, f[2] = kind
          PROVE  \E n \in E \cap N : kind \in Wrong(n, ByName(remote, n))
      <4>1. PICK n \in E \cap N : f \in {<<n, k>> : k \in Wrong(n, ByName(remote, n))}
        OBVIOUS
      <4>2. PICK k \in Wrong(n, ByName(remote, n)) : f = <<n, k>>
        BY <4>1
      <4>. HIDE DEF A5, N, E
      <4>. QED
        BY <3>1, <4>2
    <3>2. ASSUME NEW n \in E \cap N, kind \in Wrong(n, ByName(remote, n))
          PROVE  \E f \in A5 : f[2] = kind
      <4>1. <<n, kind>> \in A5 /\ <<n, kind>>[2] = kind
        <5>. HIDE DEF N, E
        <5>. QED
          BY <3>2
      <4>. HIDE DEF A5
      <4>. QED
        BY <4>1
    <3>. HIDE DEF A5, N, E
    <3>. QED
      BY <3>1, <3>2
  <2>2. (\E n \in E \cap N : kind \in Wrong(n, ByName(remote, n))) => HasWrong(d, remote, kind)
    BY <1>5 DEF HasWrong
  <2>3. ASSUME HasWrong(d, remote, kind)
        PROVE  \E n \in E \cap N : kind \in Wrong(n, ByName(remote, n))
    <3>1. PICK k \in DOMAIN remote : remote[k].name \in E /\ kind \in Wrong(remote[k].name, remote[k])
      BY <2>3 DEF HasWrong
    <3>2. remote[k].name \in E \cap N /\ ByName(remote, remote[k].name) = remote[k]
      BY <1>3, <1>4, <1>6, <3>1
    <3>. QED
      BY <3>1, <3>2
  <2>. QED
    BY <2>1, <2>2, <2>3
<1>12. \A kind : kind \in Kinds(d, remote) <=>
         \/ \E f \in A1 : f[2] = kind
         \/ \E f \in A2 : f[2] = kind
         \/ \E f \in A3 : f[2] = kind
         \/ \E f \in A4 : f[2] = kind
         \/ \E f \in A5 : f[2] = kind
  <2>. HIDE DEF A1, A2, A3, A4, A5
  <2>. QED
    BY <1>1 DEF Kinds
<1>. HIDE DEF A1, A2, A3, A4, A5
<1>. QED
  BY <1>7, <1>8, <1>9, <1>10, <1>11, <1>12

-----------------------------------------------------------------------------
(* One listing and one change of it *)

\* The listing has one item for each entry of the folder, as the manifest says it is.
Complete(d, remote) ==
  /\ remote \in Seq(Items)
  /\ \A k \in DOMAIN remote : remote[k].name \in Expected(d) /\ remote[k] = ItemFor(remote[k].name)
  /\ \A j, k \in DOMAIN remote : remote[j].name = remote[k].name => j = k
  /\ \A n \in Expected(d) : \E k \in DOMAIN remote : remote[k].name = n

LEMMA ItemFacts ==
  ASSUME NEW n \in Nat
  PROVE  /\ FolderItem(n) \in Items /\ FileItem(n) \in Items
         /\ ItemFor(n) \in Items /\ ItemFor(n).name = n /\ ItemFor(n).type = TypeOf(n)
         /\ Wrong(n, ItemFor(n)) = {}
         /\ FolderItem(n).name = n
BY DEF FolderItem, FileItem, Item, Claims, NoClaims, Items, Types, Values, ItemFor, TypeOf, Wrong, Compared

LEMMA CompleteFacts ==
  ASSUME Sound, NEW d, NEW remote, Complete(d, remote)
  PROVE  /\ Agree(d, remote)
         /\ ~HasUnreadable(remote) /\ ~HasDuplicate(remote)
         /\ ~HasUnexpected(d, remote) /\ ~HasMissing(d, remote)
         /\ \A kind : ~HasWrong(d, remote, kind)
         /\ Expected(d) \subseteq Nat /\ Foreign \notin Expected(d) /\ Unreadable \notin Expected(d)
         /\ Len(remote) \in Nat /\ DOMAIN remote = 1..Len(remote)
         /\ \A k \in DOMAIN remote : remote[k] \in Items /\ Wrong(remote[k].name, remote[k]) = {}
<1>1. Expected(d) \subseteq Nat /\ Foreign \notin Expected(d) /\ Unreadable \notin Expected(d)
  BY NamesDiffer DEF Expected
<1>2. Len(remote) \in Nat /\ DOMAIN remote = 1..Len(remote)
  BY LenProperties DEF Complete
<1>3. \A k \in DOMAIN remote : remote[k] \in Items
  BY <1>2, ElementOfSeq DEF Complete
<1>4. \A k \in DOMAIN remote : Wrong(remote[k].name, remote[k]) = {}
  BY <1>1, ItemFacts DEF Complete
<1>5. \A kind : ~HasWrong(d, remote, kind)
  BY <1>4 DEF HasWrong
<1>6. Agree(d, remote)
  BY DEF Agree, Complete
<1>7. ~HasUnreadable(remote) /\ ~HasUnexpected(d, remote)
  BY <1>1 DEF Complete, HasUnreadable, HasUnexpected
<1>8. ~HasDuplicate(remote) /\ ~HasMissing(d, remote)
  BY DEF Complete, HasDuplicate, HasMissing
<1>. QED
  BY <1>1, <1>2, <1>3, <1>4, <1>5, <1>6, <1>7, <1>8

LEMMA CompleteMatches ==
  ASSUME Sound, NEW d, NEW remote, Complete(d, remote)
  PROVE  CompareListing(d, remote) = {}
<1>1. \A kind : kind \notin Kinds(d, remote)
  BY CompleteFacts, KindsOf DEF Complete
<1>2. \A found : found \in CompareListing(d, remote) => found[2] \in Kinds(d, remote)
  BY DEF Kinds
<1>. QED
  BY <1>1, <1>2

LEMMA ForeignAdded ==
  ASSUME Sound, NEW d, NEW remote, Complete(d, remote)
  PROVE  Kinds(d, Append(remote, FolderItem(Foreign))) = {"unexpected"}
<1> DEFINE item == FolderItem(Foreign)
           more == Append(remote, item)
           m == Len(remote)
<1>1. item \in Items /\ item.name = Foreign /\ Foreign # Unreadable
  BY NamesDiffer, ItemFacts
<1> HIDE DEF item
<1>2. /\ more \in Seq(Items) /\ DOMAIN more = 1..(m + 1) /\ DOMAIN remote = 1..m /\ m \in Nat
      /\ \A k \in 1..m : more[k] = remote[k]
      /\ more[m + 1] = item
  BY <1>1, CompleteFacts, AppendProperties DEF Complete
<1> HIDE DEF more
<1>3. Agree(d, more)
  BY <1>1, <1>2, CompleteFacts DEF Agree
<1>4. ~HasUnreadable(more)
  BY <1>1, <1>2, CompleteFacts DEF HasUnreadable
<1>5. ~HasDuplicate(more)
  <2>1. \A j \in DOMAIN more : j = m + 1 \/ (j \in 1..m /\ more[j] = remote[j])
    BY <1>2
  <2>2. \A j \in 1..m : more[j].name # Foreign
    <3>1. Foreign \notin Expected(d)
      BY CompleteFacts
    <3>. QED
      BY <1>2, <3>1 DEF Complete
  <2>3. \A j, l \in DOMAIN more : more[j].name = more[l].name => j = l
    BY <1>1, <1>2, <2>1, <2>2 DEF Complete
  <2>. QED
    BY <2>3 DEF HasDuplicate
<1>6. HasUnexpected(d, more)
  BY <1>1, <1>2, CompleteFacts DEF HasUnexpected
<1>7. ~HasMissing(d, more)
  BY <1>1, <1>2, CompleteFacts DEF HasMissing
<1>8. \A kind : ~HasWrong(d, more, kind)
  <2>1. \A k \in 1..m : Wrong(more[k].name, more[k]) = {}
    BY <1>2, CompleteFacts
  <2>2. more[m + 1].name \notin Expected(d)
    BY <1>1, <1>2, CompleteFacts
  <2>3. \A k \in DOMAIN more : k \in 1..m \/ k = m + 1
    BY <1>2
  <2>. QED
    BY <2>1, <2>2, <2>3 DEF HasWrong
<1>9. \A kind : kind \in Kinds(d, more) <=> kind = "unexpected"
  BY <1>2, <1>3, <1>4, <1>5, <1>6, <1>7, <1>8, KindsOf
<1>. QED
  BY <1>9 DEF more, item

LEMMA UnreadableAdded ==
  ASSUME Sound, NEW d, NEW remote, Complete(d, remote)
  PROVE  Kinds(d, Append(remote, FolderItem(Unreadable))) = {"unreadable-name"}
<1> DEFINE item == FolderItem(Unreadable)
           more == Append(remote, item)
           m == Len(remote)
<1>1. item \in Items /\ item.name = Unreadable
  BY NamesDiffer, ItemFacts
<1> HIDE DEF item
<1>2. /\ more \in Seq(Items) /\ DOMAIN more = 1..(m + 1) /\ DOMAIN remote = 1..m /\ m \in Nat
      /\ \A k \in 1..m : more[k] = remote[k]
      /\ more[m + 1] = item
  BY <1>1, CompleteFacts, AppendProperties DEF Complete
<1> HIDE DEF more
<1>3. Agree(d, more)
  BY <1>1, <1>2, CompleteFacts DEF Agree
<1>4. HasUnreadable(more)
  BY <1>1, <1>2 DEF HasUnreadable
<1>5. ~HasDuplicate(more)
  BY <1>1, <1>2, CompleteFacts DEF HasDuplicate, Complete
<1>6. ~HasUnexpected(d, more)
  BY <1>1, <1>2, CompleteFacts DEF HasUnexpected
<1>7. ~HasMissing(d, more)
  BY <1>1, <1>2, CompleteFacts DEF HasMissing
<1>8. \A kind : ~HasWrong(d, more, kind)
  <2>1. \A k \in 1..m : Wrong(more[k].name, more[k]) = {}
    BY <1>2, CompleteFacts
  <2>2. more[m + 1].name \notin Expected(d)
    BY <1>1, <1>2, CompleteFacts
  <2>3. \A k \in DOMAIN more : k \in 1..m \/ k = m + 1
    BY <1>2
  <2>. QED
    BY <2>1, <2>2, <2>3 DEF HasWrong
<1>9. \A kind : kind \in Kinds(d, more) <=> kind = "unreadable-name"
  BY <1>2, <1>3, <1>4, <1>5, <1>6, <1>7, <1>8, KindsOf
<1>. QED
  BY <1>9 DEF more, item

LEMMA CopyAdded ==
  ASSUME Sound, NEW d, NEW remote, Complete(d, remote), NEW k \in DOMAIN remote
  PROVE  Kinds(d, Append(remote, remote[k])) = {"duplicate"}
<1> DEFINE more == Append(remote, remote[k])
           m == Len(remote)
<1>1. remote[k] \in Items /\ remote[k].name # Unreadable /\ remote[k].name \in Expected(d)
  <2>1. remote[k].name \in Expected(d)
    BY DEF Complete
  <2>. QED
    BY <2>1, CompleteFacts
<1>2. /\ more \in Seq(Items) /\ DOMAIN more = 1..(m + 1) /\ DOMAIN remote = 1..m /\ m \in Nat
      /\ \A j \in 1..m : more[j] = remote[j]
      /\ more[m + 1] = remote[k] /\ k \in 1..m /\ m + 1 # k
  BY <1>1, CompleteFacts, AppendProperties DEF Complete
<1>3. \A j \in DOMAIN more : \E i \in DOMAIN remote : more[j] = remote[i]
  BY <1>2
<1> HIDE DEF more
<1>4. Agree(d, more)
  BY <1>3, CompleteFacts DEF Agree
<1>5. ~HasUnreadable(more)
  BY <1>3, CompleteFacts DEF HasUnreadable
<1>6. HasDuplicate(more)
  BY <1>1, <1>2 DEF HasDuplicate
<1>7. ~HasUnexpected(d, more)
  BY <1>3, CompleteFacts DEF HasUnexpected
<1>8. ~HasMissing(d, more)
  BY <1>2, CompleteFacts DEF HasMissing
<1>9. \A kind : ~HasWrong(d, more, kind)
  BY <1>3, CompleteFacts DEF HasWrong
<1>10. \A kind : kind \in Kinds(d, more) <=> kind = "duplicate"
  BY <1>2, <1>4, <1>5, <1>6, <1>7, <1>8, <1>9, KindsOf
<1>. QED
  BY <1>10 DEF more

LEMMA OneRemoved ==
  ASSUME Sound, NEW d, NEW remote, Complete(d, remote), NEW k \in DOMAIN remote
  PROVE  Kinds(d, RemoveAt(remote, k)) = {"missing"}
<1> DEFINE m == Len(remote)
           left  == SubSeq(remote, 1, k - 1)
           right == SubSeq(remote, k + 1, m)
           less  == RemoveAt(remote, k)
<1>1. remote \in Seq(Items) /\ m \in Nat /\ k \in 1..m /\ DOMAIN remote = 1..m
  BY CompleteFacts DEF Complete
<1>2. /\ left \in Seq(Items) /\ Len(left) = k - 1 /\ DOMAIN left = 1..(k - 1)
      /\ \A j \in 1..(k - 1) : left[j] = remote[j]
  <2>1. \A j \in 1..(k - 1) : j \in 1..Len(remote)
    BY <1>1
  <2>. QED
    BY <1>1, <2>1, SubSeqProperties, LenProperties
<1>3. /\ right \in Seq(Items) /\ Len(right) = m - k /\ DOMAIN right = 1..(m - k)
      /\ \A j \in 1..(m - k) : right[j] = remote[j + k]
  <2>1. \A j \in (k + 1)..m : j \in 1..Len(remote)
    BY <1>1
  <2>. QED
    BY <1>1, <2>1, SubSeqProperties, LenProperties
<1>4. /\ less = left \o right /\ less \in Seq(Items) /\ DOMAIN less = 1..(m - 1)
      /\ \A j \in 1..(m - 1) : less[j] = IF j < k THEN remote[j] ELSE remote[j + 1]
  <2>1. less = left \o right
    BY DEF RemoveAt
  <2>2. /\ left \o right \in Seq(Items) /\ Len(left \o right) = m - 1
        /\ \A j \in 1..(m - 1) : (left \o right)[j] = IF j <= k - 1 THEN left[j] ELSE right[j - (k - 1)]
    <3>1. Len(left) + Len(right) = m - 1
      BY <1>1, <1>2, <1>3
    <3>2. left \in Seq(Items) /\ right \in Seq(Items) /\ Len(left) = k - 1
      BY <1>2, <1>3
    <3>. HIDE DEF left, right
    <3>3. /\ left \o right \in Seq(Items) /\ Len(left \o right) = Len(left) + Len(right)
          /\ \A j \in 1..(Len(left) + Len(right)) :
               (left \o right)[j] = IF j <= Len(left) THEN left[j] ELSE right[j - Len(left)]
      BY <3>2, ConcatProperties
    <3>. QED
      BY <3>1, <3>2, <3>3
  <2>. HIDE DEF left, right, less
  <2>3. DOMAIN less = 1..(m - 1)
    BY <2>1, <2>2, LenProperties
  <2>4. ASSUME NEW j \in 1..(m - 1)
        PROVE  less[j] = IF j < k THEN remote[j] ELSE remote[j + 1]
    <3>1. CASE j < k
      BY <1>1, <1>2, <2>1, <2>2, <3>1
    <3>2. CASE ~(j < k)
      <4>1. j - (k - 1) \in 1..(m - k) /\ (j - (k - 1)) + k = j + 1 /\ ~(j <= k - 1)
        BY <1>1, <3>2
      <4>2. less[j] = right[j - (k - 1)]
        BY <2>1, <2>2, <4>1
      <4>. QED
        BY <1>3, <3>2, <4>1, <4>2
    <3>. QED
      BY <3>1, <3>2
  <2>. QED
    BY <2>1, <2>2, <2>3, <2>4
<1> HIDE DEF left, right, less
<1> DEFINE at(j) == IF j < k THEN j ELSE j + 1
<1>5. \A j \in DOMAIN less : at(j) \in DOMAIN remote /\ at(j) # k /\ less[j] = remote[at(j)]
  <2>1. \A j \in 1..(m - 1) : at(j) \in 1..m /\ at(j) # k
    BY <1>1
  <2>. QED
    BY <1>1, <1>4, <2>1
<1>6. \A j, l \in DOMAIN less : at(j) = at(l) => j = l
  <2>1. \A j, l \in Nat : at(j) = at(l) => j = l
    BY <1>1
  <2>2. DOMAIN less \subseteq Nat
    BY <1>4
  <2>. QED
    BY <2>1, <2>2
<1>7. less \in Seq(Items)
  BY <1>4
<1> HIDE DEF at, m
<1>8. \A j \in DOMAIN less : \E i \in DOMAIN remote : i # k /\ less[j] = remote[i]
  BY <1>5
<1>9. ASSUME NEW j \in DOMAIN less, NEW l \in DOMAIN less, less[j].name = less[l].name
      PROVE  j = l
  <2>1. at(j) = at(l)
    BY <1>9, <1>5 DEF Complete
  <2>. QED
    BY <1>6, <2>1
<1>10. Agree(d, less)
  BY <1>8, CompleteFacts DEF Agree
<1>11. ~HasUnreadable(less)
  BY <1>8, CompleteFacts DEF HasUnreadable
<1>12. ~HasDuplicate(less)
  BY <1>9 DEF HasDuplicate
<1>13. ~HasUnexpected(d, less)
  BY <1>8, CompleteFacts DEF HasUnexpected
<1>14. HasMissing(d, less)
  <2>1. remote[k].name \in Expected(d) /\ \A j \in DOMAIN less : less[j].name # remote[k].name
    BY <1>8 DEF Complete
  <2>. QED
    BY <2>1 DEF HasMissing
<1>15. \A kind : ~HasWrong(d, less, kind)
  BY <1>8, CompleteFacts DEF HasWrong
<1>16. \A kind : kind \in Kinds(d, less) <=> kind = "missing"
  BY <1>7, <1>10, <1>11, <1>12, <1>13, <1>14, <1>15, KindsOf
<1>. QED
  BY <1>16 DEF less

\* An item that takes another name is missing where it was, and found under that name.
LEMMA OneRenamed ==
  ASSUME Sound, NEW d, NEW remote, Complete(d, remote), NEW k \in DOMAIN remote,
         NEW name \in {Foreign, Unreadable}
  PROVE  Kinds(d, [remote EXCEPT ![k] = [remote[k] EXCEPT !.name = name]])
           = {"missing", IF name = Foreign THEN "unexpected" ELSE "unreadable-name"}
<1> DEFINE item == [remote[k] EXCEPT !.name = name]
           turned == [remote EXCEPT ![k] = item]
<1>1. item \in Items /\ item.name = name /\ name \notin Expected(d) /\ Foreign # Unreadable
  BY CompleteFacts, NamesDiffer DEF Items
<1> HIDE DEF item
<1>2. /\ turned \in Seq(Items) /\ DOMAIN turned = DOMAIN remote /\ turned[k] = item
      /\ \A j \in DOMAIN remote : j # k => turned[j] = remote[j]
  BY <1>1, ExceptSeq DEF Complete
<1> HIDE DEF turned
<1>3. Agree(d, turned)
  BY <1>1, <1>2, CompleteFacts DEF Agree
<1>4. HasUnreadable(turned) <=> name = Unreadable
  <2>1. \A j \in DOMAIN remote : remote[j].name # Unreadable
    <3>1. Unreadable \notin Expected(d)
      BY CompleteFacts
    <3>. QED
      BY <3>1 DEF Complete
  <2>. QED
    BY <1>1, <1>2, <2>1 DEF HasUnreadable
<1>5. ~HasDuplicate(turned)
  BY <1>1, <1>2, CompleteFacts DEF HasDuplicate, Complete
<1>6. HasUnexpected(d, turned) <=> name = Foreign
  BY <1>1, <1>2, CompleteFacts DEF HasUnexpected, Complete
<1>7. HasMissing(d, turned)
  <2>1. remote[k].name \in Expected(d) /\ \A j \in DOMAIN turned : turned[j].name # remote[k].name
    BY <1>1, <1>2 DEF Complete
  <2>. QED
    BY <2>1 DEF HasMissing
<1>8. \A kind : ~HasWrong(d, turned, kind)
  BY <1>1, <1>2, CompleteFacts DEF HasWrong
<1>9. \A kind : kind \in Kinds(d, turned) <=>
         kind = "missing" \/ kind = IF name = Foreign THEN "unexpected" ELSE "unreadable-name"
  BY <1>1, <1>2, <1>3, <1>4, <1>5, <1>6, <1>7, <1>8, KindsOf
<1>. QED
  BY <1>9 DEF turned, item

\* An item that keeps its name is reported for what is wrong with it, and no other.
LEMMA OneTurned ==
  ASSUME Sound, NEW d, NEW remote, Complete(d, remote), NEW k \in DOMAIN remote,
         NEW item \in Items, item.name = remote[k].name
  PROVE  Kinds(d, [remote EXCEPT ![k] = item]) = Wrong(item.name, item)
<1> DEFINE turned == [remote EXCEPT ![k] = item]
<1>1. /\ turned \in Seq(Items) /\ DOMAIN turned = DOMAIN remote /\ turned[k] = item
      /\ \A j \in DOMAIN remote : j # k => turned[j] = remote[j]
  BY ExceptSeq DEF Complete
<1> HIDE DEF turned
<1>2. \A j \in DOMAIN turned : turned[j].name = remote[j].name
  BY <1>1
<1>3. Agree(d, turned)
  BY <1>1, <1>2 DEF Agree, Complete
<1>4. ~HasUnreadable(turned)
  BY <1>1, <1>2, CompleteFacts DEF HasUnreadable
<1>5. ~HasDuplicate(turned)
  BY <1>1, <1>2 DEF HasDuplicate, Complete
<1>6. ~HasUnexpected(d, turned)
  BY <1>1, <1>2, CompleteFacts DEF HasUnexpected
<1>7. ~HasMissing(d, turned)
  BY <1>1, <1>2, CompleteFacts DEF HasMissing
<1>8. ASSUME NEW kind
      PROVE  HasWrong(d, turned, kind) <=> kind \in Wrong(item.name, item)
  <2>1. \A j \in DOMAIN turned : j # k => Wrong(turned[j].name, turned[j]) = {}
    BY <1>1, CompleteFacts
  <2>2. turned[k].name \in Expected(d) /\ k \in DOMAIN turned
    BY <1>1, <1>2 DEF Complete
  <2>. QED
    BY <1>1, <2>1, <2>2 DEF HasWrong
<1>9. \A kind : kind \in Kinds(d, turned) <=> kind \in Wrong(item.name, item)
  BY <1>1, <1>3, <1>4, <1>5, <1>6, <1>7, <1>8, KindsOf
<1>. QED
  BY <1>9 DEF turned

Exact(d, change) == Kinds(d, change.listing) = change.classes

\* The changes of one item.
ItemChanges(remote, k) ==
  LET item == remote[k]
  IN  {Change(RemoveAt(remote, k), {"missing"}),
       Added(remote, item, "duplicate"),
       Turned(remote, k, [item EXCEPT !.name = Foreign], {"missing", "unexpected"}),
       Turned(remote, k, [item EXCEPT !.name = Unreadable], {"missing", "unreadable-name"}),
       Turned(remote, k, [item EXCEPT !.type = IF @ = "file" THEN "folder" ELSE "file"], {"type"})}
ClaimChanges(remote, k) ==
  LET item == remote[k]
  IN  {Turned(remote, k, [item EXCEPT !.claims = NoClaims], {"size", "sha1"} \cup TimeClass(item.name)),
       Turned(remote, k, [item EXCEPT !.claims.size = "other"], {"size"}),
       Turned(remote, k, [item EXCEPT !.claims.sha1 = "other"], {"sha1"}),
       Turned(remote, k, [item EXCEPT !.claims.mtime = "other"], TimeClass(item.name))}

LEMMA EveryChange ==
  ASSUME NEW remote, NEW change \in Changes(remote)
  PROVE  \/ change = Added(remote, FolderItem(Foreign), "unexpected")
         \/ change = Added(remote, FolderItem(Unreadable), "unreadable-name")
         \/ \E k \in DOMAIN remote : change \in ItemChanges(remote, k)
         \/ \E k \in DOMAIN remote : remote[k].type # "folder" /\ change \in ClaimChanges(remote, k)
<1> DEFINE Of(k) == ItemChanges(remote, k) \cup IF remote[k].type = "folder" THEN {} ELSE ClaimChanges(remote, k)
<1>1. Changes(remote) = {Added(remote, FolderItem(Foreign), "unexpected"),
                         Added(remote, FolderItem(Unreadable), "unreadable-name")}
                          \cup UNION {Of(k) : k \in DOMAIN remote}
  BY DEF Changes, ItemChanges, ClaimChanges
<1> HIDE DEF Of
<1>2. CASE change \in UNION {Of(k) : k \in DOMAIN remote}
  <2>1. PICK k \in DOMAIN remote : change \in Of(k)
    BY <1>2
  <2>. QED
    BY <2>1 DEF Of
<1>. QED
  BY <1>1, <1>2

LEMMA ItemChangesExact ==
  ASSUME Sound, NEW d, NEW remote, Complete(d, remote), NEW k \in DOMAIN remote,
         NEW change \in ItemChanges(remote, k)
  PROVE  Exact(d, change)
<1> DEFINE item == remote[k]
<1>1. CASE change = Change(RemoveAt(remote, k), {"missing"})
  BY <1>1, OneRemoved DEF Exact, Change
<1>2. CASE change = Added(remote, item, "duplicate")
  BY <1>2, CopyAdded DEF Exact, Added, Change
<1>3. CASE change = Turned(remote, k, [item EXCEPT !.name = Foreign], {"missing", "unexpected"})
  BY <1>3, OneRenamed DEF Exact, Turned, Change
<1>4. CASE change = Turned(remote, k, [item EXCEPT !.name = Unreadable], {"missing", "unreadable-name"})
  <2>1. Unreadable # Foreign
    BY NamesDiffer
  <2>. QED
    BY <1>4, <2>1, OneRenamed DEF Exact, Turned, Change
<1>5. CASE change = Turned(remote, k, [item EXCEPT !.type = IF @ = "file" THEN "folder" ELSE "file"], {"type"})
  <2> DEFINE other == [item EXCEPT !.type = IF @ = "file" THEN "folder" ELSE "file"]
  <2>1. item \in Items /\ item.name \in Nat /\ item = ItemFor(item.name)
    BY CompleteFacts DEF Complete, Items
  <2>2. item.type = TypeOf(item.name)
    BY <2>1, ItemFacts
  <2>3. other \in Items /\ other.name = item.name /\ other.type # item.type
    BY <2>1 DEF Items, Types
  <2>4. Wrong(other.name, other) = {"type"}
    BY <2>2, <2>3 DEF Wrong
  <2>5. change.listing = [remote EXCEPT ![k] = other] /\ change.classes = {"type"}
    BY <1>5 DEF Turned, Change
  <2>. HIDE DEF other, item
  <2>6. Kinds(d, [remote EXCEPT ![k] = other]) = Wrong(other.name, other)
    BY <2>3, OneTurned DEF item
  <2>. QED
    BY <2>4, <2>5, <2>6 DEF Exact
<1>. QED
  BY <1>1, <1>2, <1>3, <1>4, <1>5 DEF ItemChanges

LEMMA ClaimChangesExact ==
  ASSUME Sound, NEW d, NEW remote, Complete(d, remote), NEW k \in DOMAIN remote, remote[k].type # "folder",
         NEW change \in ClaimChanges(remote, k)
  PROVE  Exact(d, change)
<1> DEFINE item == remote[k]
           n == item.name
<1>1. item \in Items /\ n \in Nat /\ item = ItemFor(n)
  BY CompleteFacts DEF Complete, Items
<1>2. ~entries[n].dir /\ item = FileItem(n) /\ TypeOf(n) = "file"
  BY <1>1 DEF ItemFor, TypeOf, FolderItem, Item
<1>3. ASSUME NEW other \in Items, NEW classes, change = Turned(remote, k, other, classes),
             other.name = n, Wrong(n, other) = classes
      PROVE  Exact(d, change)
  <2>1. Kinds(d, [remote EXCEPT ![k] = other]) = classes
    BY <1>3, OneTurned
  <2>. QED
    BY <1>3, <2>1 DEF Exact, Turned, Change
<1>4. CASE change = Turned(remote, k, [item EXCEPT !.claims = NoClaims], {"size", "sha1"} \cup TimeClass(n))
  <2> DEFINE other == [item EXCEPT !.claims = NoClaims]
  <2>1. other = Item(n, "file", NoClaims)
    BY <1>2 DEF FileItem, Item
  <2>2. other \in Items /\ other.name = n
    BY <1>1, <2>1 DEF Items, Item, NoClaims, Claims, Types, Values
  <2>3. Wrong(n, other) = {"size", "sha1"} \cup TimeClass(n)
    BY <1>2, <2>1 DEF Wrong, Compared, TimeClass, Item, NoClaims, Claims
  <2>. QED
    BY <1>3, <1>4, <2>2, <2>3
<1>5. CASE change = Turned(remote, k, [item EXCEPT !.claims.size = "other"], {"size"})
  <2> DEFINE other == [item EXCEPT !.claims.size = "other"]
  <2>1. other = Item(n, "file", [Claims("frozen") EXCEPT !.size = "other"])
    BY <1>2 DEF FileItem, Item
  <2>2. other \in Items /\ other.name = n
    BY <1>1, <2>1 DEF Items, Item, Claims, Types, Values
  <2>3. Wrong(n, other) = {"size"}
    BY <1>2, <2>1 DEF Wrong, Compared, TimeClass, Item, Claims
  <2>. QED
    BY <1>3, <1>5, <2>2, <2>3
<1>6. CASE change = Turned(remote, k, [item EXCEPT !.claims.sha1 = "other"], {"sha1"})
  <2> DEFINE other == [item EXCEPT !.claims.sha1 = "other"]
  <2>1. other = Item(n, "file", [Claims("frozen") EXCEPT !.sha1 = "other"])
    BY <1>2 DEF FileItem, Item
  <2>2. other \in Items /\ other.name = n
    BY <1>1, <2>1 DEF Items, Item, Claims, Types, Values
  <2>3. Wrong(n, other) = {"sha1"}
    BY <1>2, <2>1 DEF Wrong, Compared, TimeClass, Item, Claims
  <2>. QED
    BY <1>3, <1>6, <2>2, <2>3
<1>7. CASE change = Turned(remote, k, [item EXCEPT !.claims.mtime = "other"], TimeClass(n))
  <2> DEFINE other == [item EXCEPT !.claims.mtime = "other"]
  <2>1. other = Item(n, "file", [Claims("frozen") EXCEPT !.mtime = "other"])
    BY <1>2 DEF FileItem, Item
  <2>2. other \in Items /\ other.name = n
    BY <1>1, <2>1 DEF Items, Item, Claims, Types, Values
  <2>3. Wrong(n, other) = TimeClass(n)
    BY <1>2, <2>1 DEF Wrong, Compared, TimeClass, Item, Claims
  <2>. QED
    BY <1>3, <1>7, <2>2, <2>3
<1>. QED
  BY <1>4, <1>5, <1>6, <1>7 DEF ClaimChanges

LEMMA CompleteDecides ==
  ASSUME Sound, NEW d, NEW remote, Complete(d, remote), NEW change \in Changes(remote)
  PROVE  Exact(d, change)
<1>1. CASE change = Added(remote, FolderItem(Foreign), "unexpected")
  BY <1>1, ForeignAdded DEF Exact, Added, Change
<1>2. CASE change = Added(remote, FolderItem(Unreadable), "unreadable-name")
  BY <1>2, UnreadableAdded DEF Exact, Added, Change
<1>. QED
  BY <1>1, <1>2, EveryChange, ItemChangesExact, ClaimChangesExact

-----------------------------------------------------------------------------
(* The destination of a finished upload *)

\* Every entry lands, in the folder it was in.
LEMMA EntryLands ==
  ASSUME IInv, bound # None, NEW n \in Nodes
  PROVE  Landed(n) /\ Target(n) = entries[n].parent
<1>1. Sound /\ [folders |-> remoteDirs, units |-> units] = Partition(bound)
  BY DEF IInv, OnlyWholePlans
<1>2. IF n \in remoteDirs THEN Never(units, n) ELSE Once(units, n)
  BY <1>1, PartitionOnce DEF EachOnce
<1>3. Landed(n)
  <2>1. CASE n \in remoteDirs
    BY <2>1 DEF Landed
  <2>2. CASE n \notin remoteDirs
    <3>1. PICK i, k : At(units, i, k, n)
      BY <1>2, <2>2 DEF Once
    <3>2. units[i].paths[k] \in Range(units[i].paths) /\ units[i].paths[k] \in above[n] /\ i \in DOMAIN units
      BY <3>1 DEF At, Range
    <3>3. units[i].paths[k] \in {n} \cup Folders
      BY <1>1, <3>2, AboveFacts DEF Folders
    <3>. QED
      BY <3>2, <3>3 DEF Landed
  <2>. QED
    BY <2>1, <2>2
<1>4. Target(n) = entries[n].parent
  <2> DEFINE carrier == {i \in DOMAIN units : n \in Range(units[i].paths)}
  <2>1. CASE carrier = {}
    BY <2>1 DEF Target
  <2>2. CASE carrier # {}
    <3>1. (CHOOSE i \in carrier : TRUE) \in carrier
      BY <2>2
    <3>2. PICK i \in carrier : Target(n) = units[i].parent
      BY <2>2, <3>1 DEF Target
    <3>3. units[i] \in PlanUnits
      BY UnitsPlaced, ElementOfSeq, LenProperties
    <3>. QED
      BY <1>1, <3>2, <3>3, PathsOfAUnit
  <2>. QED
    BY <2>1, <2>2
<1>. QED
  BY <1>3, <1>4

LEMMA UploadedComplete ==
  ASSUME IInv, bound # None, NEW d \in Folders
  PROVE  Complete(d, Uploaded[d])
<1> DEFINE E == Expected(d)
           c == Cardinality(E)
           here == InOrder(E)
           remote == Uploaded[d]
<1>1. Sound /\ E \subseteq Nodes /\ E \subseteq Nat
  BY NamesDiffer DEF IInv, Expected
<1>2. {n \in Nodes : Landed(n) /\ Target(n) = d} = E
  BY EntryLands DEF Expected
<1>3. remote = [k \in DOMAIN here |-> ItemFor(here[k])]
  BY <1>2 DEF Uploaded, ItemFor
<1>4. /\ here \in [1..c -> E] /\ c \in Nat
      /\ \A i, j \in 1..c : here[i] = here[j] => i = j
      /\ \A n \in E : \E i \in 1..c : here[i] = n
  BY <1>1, InOrderBijection
<1> HIDE DEF c, here, E, remote
<1>5. DOMAIN remote = 1..c /\ \A k \in 1..c : remote[k] = ItemFor(here[k]) /\ here[k] \in E
  BY <1>3, <1>4
<1>6. \A k \in 1..c : remote[k].name = here[k] /\ remote[k] \in Items
  BY <1>1, <1>5, ItemFacts
<1>7. remote \in Seq(Items)
  <2>1. remote \in [1..c -> Items]
    BY <1>3, <1>4, <1>5, <1>6
  <2>. QED
    BY <1>4, <2>1
<1>. QED
  BY <1>4, <1>5, <1>6, <1>7 DEF Complete, E, remote

\* Whatever the tree and the limits, what a finished upload leaves is found without a
\* mismatch, and one change of a listing in its classes and no other (compare_listing),
\* whichever entries the manifest has a time of.
THEOREM UploadListingDecides == Spec => []ListingDecides
<1>1. ASSUME IInv
      PROVE  ListingDecides
  <2> SUFFICES ASSUME bound # None, NEW d \in Folders
               PROVE  /\ CompareListing(d, Uploaded[d]) = {}
                      /\ \A change \in Changes(Uploaded[d]) :
                           {found[2] : found \in CompareListing(d, change.listing)} = change.classes
    BY DEF ListingDecides, Verified
  <2>1. Sound /\ Complete(d, Uploaded[d])
    BY <1>1, UploadedComplete DEF IInv
  <2>. QED
    BY <2>1, CompleteMatches, CompleteDecides DEF Exact, Kinds
<1>. QED
  BY <1>1, PlanInvariant, PTL
=============================================================================

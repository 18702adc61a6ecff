--------------------------- MODULE RemoteListing ---------------------------
(***************************************************************************)
(* How proton-verify.py judges the listing of one folder of Proton Drive   *)
(* against the frozen manifest, composed with UploadPlan: the destination  *)
(* is what a finished upload of the plan leaves there, changed in at most  *)
(* one place.                                                              *)
(*                                                                         *)
(* A name on Proton Drive is the entry of the manifest that has it, or one *)
(* of two others. A claim is judged equal to the manifest's or not: digest *)
(* letters and time formats are normalised before they are compared. The   *)
(* manifest has a digest of every file (freeze refuses without), but may   *)
(* have no time: pCloud gave none, and nothing asks for it.                *)
(***************************************************************************)
EXTENDS UploadPlan

CONSTANT Timed  \* the entries of which the manifest has a time

Foreign    == MaxEntries + 1  \* a name the manifest does not have
Unreadable == MaxEntries + 2  \* a name the CLI could not decrypt

\* What the client claimed of a file when it uploaded it; a revision may be unreadable.
Claims(c) == [size |-> c, sha1 |-> c, mtime |-> c]
NoClaims == Claims("none")

Item(name, type, claims) == [name |-> name, type |-> type, claims |-> claims]
FolderItem(name) == Item(name, "folder", NoClaims)
FileItem(name)   == Item(name, "file", Claims("frozen"))

-----------------------------------------------------------------------------
(* compare_listing *)

Readable(remote) == {item \in Range(remote) : item.name # Unreadable}
NamesIn(remote)  == {item.name : item \in Readable(remote)}
ItemsOf(remote, name) == {k \in DOMAIN remote : remote[k].name = name}

\* Mutant: builds the dictionary without looking whether the name is taken.
DuplicatesUnseen(remote) == {}

Duplicates(remote) ==
  {name \in NamesIn(remote) : \E j, k \in ItemsOf(remote, name) : j # k}

\* The dictionary keeps the last item of a name.
ByName(remote, name) ==
  remote[CHOOSE k \in ItemsOf(remote, name) : \A j \in ItemsOf(remote, name) : j <= k]

TypeOf(n) == IF entries[n].dir THEN "folder" ELSE "file"

\* What is compared of a file: without a time in the manifest, no time.
Compared(n) == {k \in {"size", "sha1", "mtime"} : k = "mtime" => n \in Timed}

\* What is wrong with the item that has an entry's name.
Wrong(n, item) ==
  IF item.type # TypeOf(n) THEN {"type"}
  ELSE IF entries[n].dir THEN {}
  ELSE {k \in Compared(n) : item.claims[k] # "frozen"}

\* The classes of the mismatches of one folder, each with what it is about.
CompareListing(d, remote) ==
  LET expected == {n \in Nodes : entries[n].parent = d}
      names    == NamesIn(remote)
  IN  {<<item.name, "unreadable-name">> : item \in Range(remote) \ Readable(remote)}
        \cup {<<name, "duplicate">> : name \in Duplicates(remote)}
        \cup {<<name, "unexpected">> : name \in names \ expected}
        \cup {<<n, "missing">> : n \in expected \ names}
        \cup UNION {{<<n, kind>> : kind \in Wrong(n, ByName(remote, n))} : n \in expected \cap names}

\* The folders verified: the root and every folder of the manifest.
Verified == Folders

-----------------------------------------------------------------------------
(* The destination *)

\* A folder made on its own appears in its parent; a unit's paths appear in its target,
\* a folder with all that is below it.
Landed(n) ==
  \/ n \in remoteDirs
  \/ \E i \in DOMAIN units, f \in {n} \cup Folders :
       /\ f \in Range(units[i].paths)
       /\ f \in above[n]
Target(n) ==
  LET carrier == {i \in DOMAIN units : n \in Range(units[i].paths)}
  IN  IF carrier = {} THEN entries[n].parent ELSE units[CHOOSE i \in carrier : TRUE].parent

\* The listing of each folder once the upload is complete.
Uploaded ==
  [d \in Folders |->
     LET here == InOrder({n \in Nodes : Landed(n) /\ Target(n) = d})
     IN  [k \in DOMAIN here |->
            IF entries[here[k]].dir THEN FolderItem(here[k]) ELSE FileItem(here[k])]]

\* A wrong time is found only where the manifest has one to hold against it.
TimeClass(n) == IF n \in Timed THEN {"mtime"} ELSE {}

\* One change of the listing of a folder, and the classes it should be found in.
Change(listing, classes) == [listing |-> listing, classes |-> classes]
Added(remote, item, class) == Change(Append(remote, item), {class})
Turned(remote, k, item, classes) == Change([remote EXCEPT ![k] = item], classes)

Changes(remote) ==
  {Added(remote, FolderItem(Foreign), "unexpected"),
   Added(remote, FolderItem(Unreadable), "unreadable-name")}
  \cup UNION {
    LET item == remote[k]
    IN  {Change(RemoveAt(remote, k), {"missing"}),
         Added(remote, item, "duplicate"),
         Turned(remote, k, [item EXCEPT !.name = Foreign], {"missing", "unexpected"}),
         Turned(remote, k, [item EXCEPT !.name = Unreadable], {"missing", "unreadable-name"}),
         Turned(remote, k, [item EXCEPT !.type = IF @ = "file" THEN "folder" ELSE "file"], {"type"})}
        \cup IF item.type = "folder" THEN {}
             ELSE {Turned(remote, k, [item EXCEPT !.claims = NoClaims], {"size", "sha1"} \cup TimeClass(item.name)),
                   Turned(remote, k, [item EXCEPT !.claims.size = "other"], {"size"}),
                   Turned(remote, k, [item EXCEPT !.claims.sha1 = "other"], {"sha1"}),
                   Turned(remote, k, [item EXCEPT !.claims.mtime = "other"], TimeClass(item.name))}
    : k \in DOMAIN remote}

-----------------------------------------------------------------------------
\* What the plan uploads is what verification expects: the destination a finished upload
\* leaves has no mismatch in any folder. And verification is exact: change one listing in
\* one place, and it reports that change in the classes of docs/verification.md, and no
\* other (compare_listing over the folders of initialize, against create_plan). The one
\* change it cannot see is the time of a file of which the manifest has none.
ListingDecides ==
  bound # None =>
    \A d \in Verified :
      /\ CompareListing(d, Uploaded[d]) = {}
      /\ \A change \in Changes(Uploaded[d]) :
           {found[2] : found \in CompareListing(d, change.listing)} = change.classes
=============================================================================

--------------------------- MODULE MCProtonUpload ---------------------------
(***************************************************************************)
(* Small instances of the upload worker for TLC.                           *)
(***************************************************************************)
EXTENDS ProtonUpload, TLC

CONSTANTS root, sub

\* The destination root and one folder in it.
MCDirs == {root, sub}
MCParent == [d \in MCDirs |-> IF d = sub THEN root ELSE None]

\* The destination root alone, for the runs that check liveness.
MCRoot == {root}
MCRootParent == [d \in MCRoot |-> None]

Symmetry == Permutations(Units) \cup Permutations(Slots)
=============================================================================

-------------------------- MODULE MCSourceManifest --------------------------
(***************************************************************************)
(* A source with one folder, and a file in it and beside it.               *)
(***************************************************************************)
EXTENDS SourceManifest, TLC

CONSTANTS root, sub, top, low

MCFiles == {top, low}
MCFolders == {root, sub}
MCIn == [x \in {top, low, sub} |-> IF x = low THEN sub ELSE root]

Symmetry == Permutations(Freezers)
=============================================================================

--------------------------- MODULE MCLocalStaging --------------------------
(***************************************************************************)
(* A small instance of the staging tree for TLC.                           *)
(***************************************************************************)
EXTENDS LocalStaging, TLC

CONSTANTS outer, inner, stray

\* A folder in a folder; the files, and a path that is not in the manifest, in the inner.
MCParent ==
  [p \in Paths |-> CASE p = outer -> Root
                     [] p = inner -> outer
                     [] OTHER -> inner]

Symmetry == Permutations(Files)
=============================================================================

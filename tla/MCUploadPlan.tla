---------------------------- MODULE MCUploadPlan ----------------------------
(***************************************************************************)
(* Every source tree of up to MaxEntries entries, planned with two         *)
(* settings: one that the larger files exceed, one that batches files.     *)
(***************************************************************************)
EXTENDS RemoteListing

MCLimits == {[files |-> 1, bytes |-> 2, paths |-> 3], [files |-> 3, bytes |-> 4, paths |-> 2]}
=============================================================================

--------------------------- MODULE MCProtonVerify ---------------------------
(***************************************************************************)
(* The instance of the verification worker that TLC checks.  It has no     *)
(* symmetry set: the run checks liveness too.                              *)
(***************************************************************************)
EXTENDS ProtonVerify
=============================================================================

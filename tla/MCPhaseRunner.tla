--------------------------- MODULE MCPhaseRunner ---------------------------
(***************************************************************************)
(* Small instances of the phase runner for TLC.  The passing run has the   *)
(* source and its repaired variant; the other only the source.             *)
(***************************************************************************)
EXTENDS PhaseRunner
=============================================================================

---------------------------- MODULE MCSupervisor ----------------------------
(***************************************************************************)
(* The instances of the supervisor that TLC checks.                        *)
(***************************************************************************)
EXTENDS Supervisor
=============================================================================

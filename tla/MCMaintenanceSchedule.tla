----------------------- MODULE MCMaintenanceSchedule -----------------------
(***************************************************************************)
(* TLC's instances of MaintenanceSchedule.                                 *)
(***************************************************************************)
EXTENDS MaintenanceSchedule

=============================================================================

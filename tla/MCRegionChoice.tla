--------------------------- MODULE MCRegionChoice ---------------------------
(***************************************************************************)
(* TLC's instance of RegionChoice.                                         *)
(***************************************************************************)
EXTENDS RegionChoice

=============================================================================

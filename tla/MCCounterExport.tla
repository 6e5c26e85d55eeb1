--------------------------- MODULE MCCounterExport ---------------------------
(***************************************************************************)
(* The counter export for TLC: two credentials on pages of one bucket, two *)
(* export calls that overlap and one page that arrives late.               *)
(***************************************************************************)
EXTENDS CounterExport
=============================================================================

-------------------------- MODULE MCTunTransaction --------------------------
(***************************************************************************)
(* TunTransaction for TLC: one transaction whose commands, orphans, timers *)
(* and start jobs meet under two crashes and two failures.  Transactions   *)
(* that follow one another are in MCTunMaintenance.                        *)
(***************************************************************************)
EXTENDS TunTransaction, TLC
=============================================================================

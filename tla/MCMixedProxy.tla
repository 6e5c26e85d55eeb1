---------------------------- MODULE MCMixedProxy ----------------------------
(***************************************************************************)
(* MixedProxy for TLC: upgrades in sequence, and every command with its    *)
(* waits and its end.                                                      *)
(***************************************************************************)
EXTENDS MixedProxy
=============================================================================

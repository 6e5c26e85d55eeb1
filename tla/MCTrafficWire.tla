---------------------------- MODULE MCTrafficWire ----------------------------
(***************************************************************************)
(* TLC's instance of TrafficWire: two credentials, a leap day and a date   *)
(* that does not exist, two names of which one is reserved among domains.  *)
(***************************************************************************)
EXTENDS TrafficWire

MCAggregate == [domains |-> {2}, destinations |-> {}]
MCDates == {<<2024, 2, 29>>, <<2023, 2, 29>>}
=============================================================================

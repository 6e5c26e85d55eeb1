-------------------------- MODULE MCBrowserLanguage --------------------------
(***************************************************************************)
(* TLC's instance of BrowserLanguage.  Either one profile exists at first   *)
(* and everything may happen, or two profiles share the record and either  *)
(* one fault or one change from outside may happen.  Every profile has a   *)
(* local language; the account of profile Signed has one too.              *)
(***************************************************************************)
EXTENDS BrowserLanguage

CONSTANT Signed

Start(c, account) == [f \in Field |-> IF f \in Local \/ account THEN c ELSE None]

MCInit ==
    /\ \E c \in Choice, case \in {"alone", "fault", "change"} :
         /\ prefs = [p \in Profile |-> IF case = "alone" /\ p # Signed
                                       THEN None ELSE Start(c, p = Signed)]
         /\ faults = CASE case = "alone" -> 0
                       [] case = "fault" -> MaxFaults - 1
                       [] case = "change" -> MaxFaults
         /\ changes = CASE case = "alone" -> 0
                        [] case = "fault" -> MaxChanges
                        [] case = "change" -> MaxChanges - 1
    /\ choice = prefs
    /\ chrome = [p \in Profile |-> FALSE]
    /\ record = None
    /\ manager = Idle
    /\ leaving = FALSE

MCSpec == MCInit /\ [][Next]_vars /\ Fairness
=============================================================================

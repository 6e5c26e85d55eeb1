---------------------------- MODULE AtomicUpdate ----------------------------
(***************************************************************************)
(* What a command that replaces the mixed proxy's files promises: at every *)
(* moment there is one committed set; an upgrade tries a candidate beside  *)
(* it and either commits it or takes it back; an engine is only ever       *)
(* started from one of the two sets as a whole; and a candidate is taken   *)
(* back only when no engine runs from it.                                  *)
(***************************************************************************)
CONSTANTS
  Set,            \* the file sets
  First,          \* the installed set
  EngineFiles(_), \* the part of a set that an engine reads
  None

VARIABLES committed, candidate, engine

TypeOK ==
  /\ committed \in Set
  /\ candidate \in Set \cup {None}
  /\ engine \in {EngineFiles(s) : s \in Set} \cup {None}

Init == committed = First /\ candidate = None /\ engine = None

Try(s) ==
  /\ candidate = None
  /\ candidate' = s
  /\ UNCHANGED <<committed, engine>>

Commit ==
  /\ candidate # None
  /\ committed' = candidate
  /\ candidate' = None
  /\ UNCHANGED engine

TakeBack ==
  /\ candidate # None
  /\ engine = EngineFiles(candidate) => engine = EngineFiles(committed)
  /\ candidate' = None
  /\ UNCHANGED <<committed, engine>>

\* A set published in one rename has no candidate.
Replace(s) ==
  /\ candidate = None
  /\ committed' = s
  /\ UNCHANGED <<candidate, engine>>

StartEngine ==
  /\ engine = None
  /\ \E s \in {committed, candidate} \ {None} : engine' = EngineFiles(s)
  /\ UNCHANGED <<committed, candidate>>

StopEngine ==
  /\ engine' = None
  /\ UNCHANGED <<committed, candidate>>

Next ==
  \/ \E s \in Set : Try(s) \/ Replace(s)
  \/ Commit \/ TakeBack \/ StartEngine \/ StopEngine

Spec == Init /\ [][Next]_<<committed, candidate, engine>>
=============================================================================

----------------------------- MODULE Accounting -----------------------------
(***************************************************************************)
(* The counter ledger of a node agent, internal/accounting/store.go.       *)
(*                                                                         *)
(* The proxy engine counts the bytes of each credential from zero in every *)
(* invocation.  The ledger turns those cumulative readings into per-day    *)
(* usage buckets: one checkpoint per (invocation, credential) remembers    *)
(* what was already counted, and a bucket grows by the difference.  An     *)
(* invocation that was neither finished (last sample taken, service known  *)
(* to be stopped) nor seen to the end leaves a gap.                        *)
(*                                                                         *)
(* The database has one connection and every method is one SQLite          *)
(* transaction, so each method is one atomic action; a method that returns *)
(* an error rolls back and changes nothing, which is a stuttering step.    *)
(***************************************************************************)
EXTENDS Integers, FiniteSets, FiniteSetsExt

CONSTANTS
  Credential,   \* the credentials, numbered in the order SQLite sorts them
  Day,          \* the UTC accounting days, numbered in date order
  Invocation,   \* systemd invocation ids of the engine
  Direction,    \* upload and download
  MaxInt,       \* math.MaxInt64, the width of versions and byte counters
  NoReading     \* no checkpoint row

ASSUME AccountingAssumption ==
  /\ Credential \subseteq Nat /\ IsFiniteSet(Credential)
  /\ Day \subseteq Nat /\ IsFiniteSet(Day)
  /\ IsFiniteSet(Invocation)
  /\ MaxInt \in Nat

(***************************************************************************)
(* A bucket is (credential, day).  A usage row is its version and its      *)
(* bytes; version 0 with no bytes stands for the row that is not there     *)
(* yet, which is how Record reads a missing row.                           *)
(***************************************************************************)
Key == Credential \X Day
Bytes == [Direction -> 0..MaxInt]
Row == [version : 0..MaxInt, bytes : Bytes]

ASSUME NoReadingAssumption == NoReading \notin Bytes

NoBytes == [dir \in Direction |-> 0]
NoRow == [version |-> 0, bytes |-> NoBytes]

Leq(x, y) == \A dir \in Direction : x[dir] <= y[dir]
Plus(x, y) == [dir \in Direction |-> x[dir] + y[dir]]
Minus(x, y) == [dir \in Direction |-> x[dir] - y[dir]]

VARIABLES
  checkpoints,  \* [Invocation -> [Credential -> Bytes or NoReading]]
  usage,        \* [Key -> Row]
  finished,     \* invocations with a confirmed final sample
  gaps          \* invocations with an unobserved tail

ledgerVars == <<checkpoints, usage, finished, gaps>>

(***************************************************************************)
(* What was last read of credential c in invocation i: zero without a row. *)
(***************************************************************************)
LastReading(i, c) ==
  IF checkpoints[i][c] = NoReading THEN NoBytes ELSE checkpoints[i][c]

(***************************************************************************)
(* The invocations that sampled c.                                         *)
(***************************************************************************)
Sampled(c) == {i \in Invocation : checkpoints[i][c] # NoReading}

LedgerInit ==
  /\ checkpoints = [i \in Invocation |-> [c \in Credential |-> NoReading]]
  /\ usage = [k \in Key |-> NoRow]
  /\ finished = {}
  /\ gaps = {}

(***************************************************************************)
(* The bucket after delta more bytes, or the same bucket when there are    *)
(* none.                                                                   *)
(***************************************************************************)
\* Mutant: an existing bucket changes under its old version.
GrownInPlace(row, delta) ==
  [version |-> IF row.version = 0 THEN 1 ELSE row.version,
   bytes |-> Plus(row.bytes, delta)]

Grown(row, delta) ==
  IF delta = NoBytes THEN row
  ELSE [version |-> row.version + 1, bytes |-> Plus(row.bytes, delta)]

(***************************************************************************)
(* The two errors of Record, both found before the commit: a reading below *)
(* the checkpoint of its own invocation in either direction, and a bucket  *)
(* whose version or bytes would pass MaxInt.                               *)
(***************************************************************************)
Regresses(last, reading) ==
  \E dir \in Direction : reading[dir] < last[dir]

Fits(row, delta) ==
  /\ row.version < MaxInt
  /\ \A dir \in Direction : row.bytes[dir] <= MaxInt - delta[dir]

(***************************************************************************)
(* The earlier invocations of c that get a gap when i samples it: those    *)
(* without a confirmed final stop.                                         *)
(***************************************************************************)
\* Mutant: a final stop does not count.
AbandonedAnyway(i, c) == Sampled(c) \ {i}

Abandoned(i, c) == Sampled(c) \ ({i} \cup finished)

(***************************************************************************)
(* Record(invocation i, credential c, cumulative reading, day d).          *)
(***************************************************************************)
\* Mutant: a cumulative reading is counted whole again.
RecordWhole(i, c, reading, d) ==
  /\ ~Regresses(LastReading(i, c), reading)
  /\ reading # NoBytes => Fits(usage[<<c, d>>], reading)
  /\ gaps' = gaps \cup Abandoned(i, c)
  /\ checkpoints' = [checkpoints EXCEPT ![i][c] = reading]
  /\ usage' = [usage EXCEPT ![<<c, d>>] = Grown(@, reading)]
  /\ UNCHANGED finished

Record(i, c, reading, d) ==
  LET delta == Minus(reading, LastReading(i, c))
  IN /\ ~Regresses(LastReading(i, c), reading)
     /\ delta # NoBytes => Fits(usage[<<c, d>>], delta)
     /\ gaps' = gaps \cup Abandoned(i, c)
     /\ checkpoints' = [checkpoints EXCEPT ![i][c] = reading]
     /\ usage' = [usage EXCEPT ![<<c, d>>] = Grown(@, delta)]
     /\ UNCHANGED finished

(***************************************************************************)
(* Finish(invocation i): at least one checkpoint of i must exist.          *)
(***************************************************************************)
Finish(i) ==
  /\ \E c \in Credential : i \in Sampled(c)
  /\ finished' = finished \cup {i}
  /\ UNCHANGED <<checkpoints, usage, gaps>>

(***************************************************************************)
(* Gap(invocation i): ignored for a finished invocation and for one that   *)
(* already has its gap.                                                    *)
(***************************************************************************)
Gap(i) ==
  /\ gaps' = gaps \cup ({i} \ finished)
  /\ UNCHANGED <<checkpoints, usage, finished>>

LedgerNext ==
  \/ \E i \in Invocation, c \in Credential, d \in Day, reading \in Bytes :
       Record(i, c, reading, d)
  \/ \E i \in Invocation : Finish(i)
  \/ \E i \in Invocation : Gap(i)

LedgerSpec == LedgerInit /\ [][LedgerNext]_ledgerVars

-----------------------------------------------------------------------------
(***************************************************************************)
(* The types of the tables.                                                *)
(***************************************************************************)
LedgerTypeOK ==
  /\ checkpoints \in [Invocation -> [Credential -> Bytes \cup {NoReading}]]
  /\ usage \in [Key -> Row]
  /\ finished \subseteq Invocation
  /\ gaps \subseteq Invocation

(***************************************************************************)
(* Store.Record counts every observed byte exactly once: for a credential, *)
(* the bytes of all its buckets are the last readings of all its           *)
(* invocations, however samples of several invocations and days, retries,  *)
(* zero readings and refused overflows were mixed.                         *)
(***************************************************************************)
EveryByteCountedOnce ==
  \A c \in Credential, dir \in Direction :
    MapThenSumSet(LAMBDA d : usage[<<c, d>>].bytes[dir], Day)
      = MapThenSumSet(LAMBDA i : LastReading(i, c)[dir], Invocation)

(***************************************************************************)
(* The coverage that Store.Record keeps: of the invocations that sampled a *)
(* credential at most one is still open.  Each of the others was finished  *)
(* or is reported as a gap.                                                *)
(***************************************************************************)
OneOpenInvocation ==
  \A c \in Credential :
    \A i, j \in Sampled(c) \ (finished \cup gaps) : i = j

(***************************************************************************)
(* A finished invocation that had no gap never gets one: neither a later   *)
(* Record of another invocation nor a repeated Gap turns a confirmed final *)
(* sample into an unobserved tail.  And a gap, once reported, stays.       *)
(***************************************************************************)
CoverageIsFinal ==
  [][/\ gaps \subseteq gaps'
     /\ finished \subseteq finished'
     /\ finished \cap gaps' \subseteq gaps]_ledgerVars

(***************************************************************************)
(* What the exporter relies on: a bucket changes only by getting its next  *)
(* version with at least its previous bytes, so a version names one        *)
(* content for ever.  Store.Record keeps it by refusing regressions and by *)
(* refusing to wrap MaxInt.                                                *)
(***************************************************************************)
VersionsNameContents ==
  [][\A k \in Key :
       usage'[k] # usage[k] =>
         /\ usage'[k].version = usage[k].version + 1
         /\ Leq(usage[k].bytes, usage'[k].bytes)
         /\ usage'[k].bytes # usage[k].bytes]_ledgerVars
=============================================================================

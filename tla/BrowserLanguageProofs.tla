------------------------ MODULE BrowserLanguageProofs ------------------------
(***************************************************************************)
(* What holds of Chrome language matching for every set of profiles, keys  *)
(* and languages, and every number of faults and of changes from outside.  *)
(***************************************************************************)
EXTENDS BrowserLanguage, TLAPS

-----------------------------------------------------------------------------
(***************************************************************************)
(* What a record says of a profile.  The record r (or its absence), the    *)
(* fields as they are and the fields as the user last had them are         *)
(* parameters, so that the same can be said of the file and of the copy in *)
(* memory, before and after a write.                                       *)
(***************************************************************************)
Owned(r, f) == r.original[f] # Unowned

\* A field that is not as the user last had it holds what sbc wrote and has the
\* user's value as its original, and so has every field that sbc would take back.
Accounts(r, now, mine) ==
    /\ r = None => now = mine
    /\ r # None => \A f \in Local : Owned(r, f)
    /\ r # None /\ now # None =>
         \A f \in Field :
           /\ now[f] # mine[f] => Matches(now[f], r) /\ r.original[f] = mine[f]
           /\ Owned(r, f) /\ Matches(now[f], r) => r.original[f] = mine[f]

\* A record that sbc may write by: each field it will write held the original or a
\* value of sbc's when it was read.
Safe(r, now) ==
    /\ now # None
    /\ \A f \in Field : f \in Local \/ now[f] # None =>
         Owned(r, f) /\ (r.original[f] = now[f] \/ Matches(now[f], r))

-----------------------------------------------------------------------------
(***************************************************************************)
(* The inductive invariant.                                                *)
(***************************************************************************)
Durable(p) == IF record = None THEN None ELSE record.records[p]

Known == \A p \in Profile : Accounts(Durable(p), prefs[p], choice[p])
Remembered == Running => \A p \in Profile : Accounts(manager.mem.records[p], prefs[p], choice[p])

\* sbc neither makes nor deletes a profile.
Exists == \A p \in Profile : prefs[p] = None <=> choice[p] = None

\* The saved record is the copy in memory.
Saved == record = manager.mem

\* The profile that the command works on, and its record in memory.
Here == manager.mem.records[manager.at]
Working == {"claim", "write", "settle", "restore", "drop"}

Progress ==
    /\ manager.pc \in Working =>
         manager.at \in Profile /\ manager.at \in manager.left /\ Here # None
    /\ manager.pc \in {"discover", "claim", "write", "settle"} => manager.op = "on"
    /\ manager.pc \in {"restore", "drop"} => manager.op = "off"
    /\ Running /\ manager.op = "on" => manager.mem.target \in Target
    /\ Running /\ manager.op = "off" =>
         /\ manager.pc # "intent" => Saved
         /\ \A p \in manager.left : manager.mem.records[p] # None
    /\ manager.pc \in {"claim", "write"} => Safe(Here, manager.now)
    /\ manager.pc \in {"write", "settle"} => Saved
    /\ manager.pc = "settle" /\ prefs[manager.at] # None =>
         \A f \in Field : prefs[manager.at][f] # choice[manager.at][f] =>
           prefs[manager.at][f] = Here.written
    /\ manager.pc = "restore" => manager.now # None
    /\ manager.pc = "drop" => prefs[manager.at] = choice[manager.at]

LanguageInv == TypeOK /\ Exists /\ Known /\ Remembered /\ Progress

-----------------------------------------------------------------------------
(***************************************************************************)
(* Records and fields.                                                     *)
(***************************************************************************)
Values == Fields(Target \cup Choice)

\* What a field may hold, and what a record may have as its original.
LEMMA ValueIsTyped ==
  ASSUME NEW now \in Values, NEW f \in Field
  PROVE  now[f] \in Target \cup Choice \cup {None} /\ now[f] # Unowned
BY NoneAssumption DEF Values, Fields

\* A language that sbc does not write is none that a record matches.
LEMMA ChoiceIsNotOurs ==
  ASSUME NEW r \in Record, NEW v \in Choice \cup {None} PROVE ~Matches(v, r)
BY LanguageAssumption DEF Record, Matches

\* The user's change of a field, which becomes the user's value.
LEMMA ChangeAccounts ==
  ASSUME NEW r \in Record \cup {None}, NEW now \in Values, NEW mine \in Values,
         NEW f \in Field, NEW v \in Choice \cup {None}, Accounts(r, now, mine)
  PROVE  Accounts(r, [now EXCEPT ![f] = v], [mine EXCEPT ![f] = v])
<1> DEFINE now2 == [now EXCEPT ![f] = v]
           mine2 == [mine EXCEPT ![f] = v]
<1>1. /\ now2 # None
      /\ \A g \in Field : now2[g] = (IF g = f THEN v ELSE now[g])
                          /\ mine2[g] = (IF g = f THEN v ELSE mine[g])
  <2>1. now2 \in Values
    BY DEF Values, Fields
  <2> QED BY <2>1, NoneAssumption DEF Values, Fields
<1>2. CASE r = None
  BY <1>2 DEF Accounts
<1>3. CASE r # None
  <2>1. r \in Record /\ now # None
    BY <1>3, NoneAssumption DEF Values
  <2>2. ~Matches(v, r)
    BY <2>1, ChoiceIsNotOurs
  <2> HIDE DEF now2, mine2
  <2>3. Accounts(r, now2, mine2)
    BY <1>1, <1>3, <2>1, <2>2 DEF Accounts
  <2> QED BY <2>3 DEF now2, mine2
<1> QED BY <1>2, <1>3

\* A profile made anew has no language, in which nothing is sbc's.
LEMMA NewAccounts ==
  ASSUME NEW r \in Record \cup {None}, NEW s \in Record \cup {None}, NEW now,
         NEW old, NEW mine, Accounts(r, old, mine),
         now \in {None, [f \in Field |-> None]}
  PROVE  Accounts(r, now, now)
<1>1. r # None => \A f \in Local : Owned(r, f)
  BY DEF Accounts
<1>2. ASSUME NEW f \in Field, now # None PROVE ~Matches(now[f], r)
  BY <1>2 DEF Matches
<1> QED BY <1>1, <1>2 DEF Accounts

\* Fields of a record keep the rest of it.
LEMMA CapturedIs ==
  ASSUME NEW r, NEW now \in Values,
         r.original \in [Field -> Target \cup Choice \cup {None, Unowned}],
         r = [original |-> r.original, written |-> r.written, previous |-> r.previous]
  PROVE  LET c == Captured(r, now)
         IN /\ c = [original |-> c.original, written |-> r.written, previous |-> r.previous]
            /\ c.written = r.written /\ c.previous = r.previous
            /\ c.original \in [Field -> Target \cup Choice \cup {None, Unowned}]
            /\ \A f \in Field :
                 c.original[f] = IF r.original[f] = Unowned /\ now[f] # None
                                 THEN now[f] ELSE r.original[f]
<1> DEFINE o == [f \in Field |-> IF r.original[f] = Unowned /\ now[f] # None
                                 THEN now[f] ELSE r.original[f]]
<1>1. Captured(r, now) = [original |-> o, written |-> r.written, previous |-> r.previous]
  BY DEF Captured
<1>2. o \in [Field -> Target \cup Choice \cup {None, Unowned}]
  BY ValueIsTyped
<1> QED BY <1>1, <1>2

\* A record is its three fields.
LEMMA RecordIs ==
  ASSUME NEW r \in Record
  PROVE  /\ r.original \in [Field -> Target \cup Choice \cup {None, Unowned}]
         /\ r.written \in Target /\ r.previous \in Target \cup {None}
         /\ r = [original |-> r.original, written |-> r.written, previous |-> r.previous]
BY DEF Record

\* Account fields found before a refusal hold what their user has.
LEMMA CapturedAccounts ==
  ASSUME NEW r \in Record, NEW now \in Values, NEW mine \in Values, Accounts(r, now, mine)
  PROVE  Captured(r, now) \in Record /\ Accounts(Captured(r, now), now, mine)
<1>1. PICK c : c = Captured(r, now)
  OBVIOUS
<1>2. /\ c = [original |-> c.original, written |-> r.written, previous |-> r.previous]
      /\ c.written = r.written /\ c.previous = r.previous
      /\ c.original \in [Field -> Target \cup Choice \cup {None, Unowned}]
      /\ \A f \in Field : c.original[f] = IF r.original[f] = Unowned /\ now[f] # None
                                          THEN now[f] ELSE r.original[f]
  BY <1>1, RecordIs, CapturedIs
<1>3. c \in Record
  BY <1>2, RecordIs DEF Record
<1>4. r # None /\ c # None /\ now # None
  BY <1>3, NoneAssumption DEF Values
<1>5. ASSUME NEW f \in Field
      PROVE  /\ now[f] # mine[f] => Matches(now[f], c) /\ c.original[f] = mine[f]
             /\ Owned(c, f) /\ Matches(now[f], c) => c.original[f] = mine[f]
  <2>1. Matches(now[f], c) <=> Matches(now[f], r)
    BY <1>2 DEF Matches
  <2>2. mine[f] # Unowned
    BY ValueIsTyped
  <2> QED BY <1>2, <1>4, <2>1, <2>2 DEF Accounts, Owned
<1>6. \A f \in Local : Owned(c, f)
  BY <1>2, <1>4, ValueIsTyped DEF Accounts, Owned, Field
<1> QED BY <1>1, <1>3, <1>4, <1>5, <1>6 DEF Accounts

\* What Prepare makes of a record, or of none: it claims what sbc will write, with what
\* the user last had as the originals, as nothing else was found in the fields.
LEMMA PreparedAccounts ==
  ASSUME NEW r \in Record \cup {None}, NEW now \in Values, NEW mine \in Values,
         NEW want \in Target, Accounts(r, now, mine),
         r # None => ~Foreign(r, now) /\ ~Incomplete(r, want)
  PROVE  LET n == Retargeted(Captured(IF r = None THEN Fresh(now) ELSE r, now), want)
         IN n \in Record /\ Accounts(n, now, mine) /\ Safe(n, now)
<1>1. PICK b : b = IF r = None THEN Fresh(now) ELSE r
  OBVIOUS
<1>2. /\ b.original \in [Field -> Target \cup Choice \cup {None, Unowned}]
      /\ b = [original |-> b.original, written |-> b.written, previous |-> b.previous]
      /\ \A f \in Local : b.original[f] # Unowned
      /\ b.written \in Target \cup {None} /\ b.previous \in Target \cup {None}
  <2>1. CASE r = None
    <3>1. [f \in Field |-> IF f \in Local THEN now[f] ELSE Unowned]
            \in [Field -> Target \cup Choice \cup {None, Unowned}]
      BY ValueIsTyped
    <3>2. \A f \in Local : f \in Field /\ now[f] # Unowned
      BY ValueIsTyped DEF Field
    <3> QED BY <1>1, <2>1, <3>1, <3>2 DEF Fresh
  <2>2. CASE r # None
    BY <1>1, <2>2, RecordIs DEF Accounts, Owned
  <2> QED BY <2>1, <2>2
<1>3. PICK c : c = Captured(b, now)
  OBVIOUS
<1>4. /\ c = [original |-> c.original, written |-> b.written, previous |-> b.previous]
      /\ c.written = b.written /\ c.previous = b.previous
      /\ c.original \in [Field -> Target \cup Choice \cup {None, Unowned}]
      /\ \A f \in Field : c.original[f] = IF b.original[f] = Unowned /\ now[f] # None
                                          THEN now[f] ELSE b.original[f]
  BY <1>2, <1>3, CapturedIs
<1>5. PICK n : n = Retargeted(c, want)
  OBVIOUS
<1>6. /\ n = [original |-> c.original, written |-> want, previous |-> n.previous]
      /\ n.original = c.original /\ n.written = want /\ n.previous \in Target \cup {None}
      /\ n.previous = IF b.written = want THEN b.previous ELSE b.written
  BY <1>2, <1>4, <1>5 DEF Retargeted
<1>7. n \in Record
  BY <1>4, <1>6 DEF Record
<1>8. n # None /\ now # None
  BY <1>7, NoneAssumption DEF Values
<1>9. ASSUME NEW f \in Field
      PROVE  /\ now[f] # mine[f] => Matches(now[f], n) /\ n.original[f] = mine[f]
             /\ Owned(n, f) /\ Matches(now[f], n) => n.original[f] = mine[f]
             /\ f \in Local \/ now[f] # None =>
                  Owned(n, f) /\ (n.original[f] = now[f] \/ Matches(now[f], n))
  <2>1. now[f] # Unowned /\ mine[f] # Unowned
    BY ValueIsTyped
  <2>2. CASE r = None
    <3>1. now = mine
      BY <2>2 DEF Accounts
    <3>2. b.original[f] = IF f \in Local THEN now[f] ELSE Unowned
      BY <1>1, <2>2 DEF Fresh
    <3> QED BY <1>4, <1>6, <2>1, <3>1, <3>2 DEF Owned, Matches
  <2>3. CASE r # None
    <3>1. b = r /\ Matches(now[f], r) => Matches(now[f], n)
      BY <1>1, <1>6, <2>3 DEF Matches, Incomplete
    <3>2. \/ r.original[f] \in {Unowned, now[f]}
          \/ Matches(now[f], r)
          \/ f \in Account /\ now[f] = None
      BY <2>3 DEF Foreign
    <3>3. /\ now[f] # mine[f] => Matches(now[f], r) /\ r.original[f] = mine[f]
          /\ Owned(r, f) /\ Matches(now[f], r) => r.original[f] = mine[f]
          /\ f \in Local => Owned(r, f)
      BY <1>8, <2>3 DEF Accounts
    <3>4. n.original[f] = IF r.original[f] = Unowned /\ now[f] # None THEN now[f] ELSE r.original[f]
      BY <1>1, <1>4, <1>6, <2>3
    <3>5. f \in Account => f \notin Local
      BY DEF Account, Local
    <3>6. b = r
      BY <1>1, <2>3
    <3>7. Matches(now[f], n) => now[f] # None
      BY DEF Matches
    <3> HIDE DEF Matches
    <3> QED BY <2>1, <3>1, <3>2, <3>3, <3>4, <3>5, <3>6, <3>7 DEF Owned
  <2> QED BY <2>2, <2>3
<1>10. \A f \in Local : f \in Field
  BY DEF Field
<1>11. Accounts(n, now, mine) /\ Safe(n, now)
  BY <1>8, <1>9, <1>10, <1>2, <1>4, <1>6 DEF Accounts, Safe, Owned
<1> QED BY <1>1, <1>3, <1>5, <1>7, <1>11

\* The write puts nothing into a field that its record does not claim.
LEMMA AppliedAccounts ==
  ASSUME NEW r \in Record, NEW now \in Values, NEW mine \in Values,
         Accounts(r, now, mine), Safe(r, now)
  PROVE  LET new == Applied(r, now)
         IN /\ new \in Values /\ Accounts(r, new, mine)
            /\ \A f \in Field : new[f] # mine[f] => new[f] = r.written
<1>1. PICK new : new = Applied(r, now)
  OBVIOUS
<1>2. \A f \in Field : new[f] = IF f \in Local \/ (r.original[f] # Unowned /\ now[f] # None)
                                THEN r.written ELSE now[f]
  BY <1>1 DEF Applied
<1>3. new \in Values
  BY <1>1, RecordIs, ValueIsTyped DEF Applied, Values, Fields
<1>4. r # None /\ now # None /\ new # None /\ Matches(r.written, r)
  BY <1>3, RecordIs, NoneAssumption, LanguageAssumption DEF Values, Matches
<1>5. ASSUME NEW f \in Field
      PROVE  /\ new[f] # mine[f] => Matches(new[f], r) /\ r.original[f] = mine[f]
             /\ Owned(r, f) /\ Matches(new[f], r) => r.original[f] = mine[f]
             /\ new[f] # mine[f] => new[f] = r.written
  <2>1. /\ now[f] # mine[f] => Matches(now[f], r) /\ r.original[f] = mine[f]
        /\ Owned(r, f) /\ Matches(now[f], r) => r.original[f] = mine[f]
        /\ f \in Local \/ now[f] # None =>
             Owned(r, f) /\ (r.original[f] = now[f] \/ Matches(now[f], r))
    BY <1>4 DEF Accounts, Safe
  <2>2. Matches(now[f], r) => now[f] # None
    BY DEF Matches
  <2> QED BY <1>2, <1>4, <2>1, <2>2 DEF Owned
<1>6. \A f \in Local : Owned(r, f)
  BY <1>4 DEF Accounts
<1> QED BY <1>1, <1>3, <1>4, <1>5, <1>6 DEF Accounts

\* An update is complete when all that is not the user's is the one value written.
LEMMA SettledAccounts ==
  ASSUME NEW r \in Record, NEW now \in Values \cup {None}, NEW mine, Accounts(r, now, mine),
         now # None => \A f \in Field : now[f] # mine[f] => now[f] = r.written
  PROVE  LET s == [r EXCEPT !.previous = None]
         IN s \in Record /\ Accounts(s, now, mine) /\ s.written = r.written
<1>1. PICK s : s = [r EXCEPT !.previous = None]
  OBVIOUS
<1>2. /\ s = [original |-> r.original, written |-> r.written, previous |-> None]
      /\ s.original = r.original /\ s.written = r.written /\ s.previous = None
  BY <1>1, RecordIs
<1>3. s \in Record
  BY <1>2, RecordIs DEF Record
<1>4. r # None /\ s # None
  BY <1>3, NoneAssumption
<1>5. ASSUME NEW f \in Field, now # None
      PROVE  /\ now[f] # mine[f] => Matches(now[f], s) /\ s.original[f] = mine[f]
             /\ Owned(s, f) /\ Matches(now[f], s) => s.original[f] = mine[f]
  <2>1. Matches(now[f], s) => Matches(now[f], r)
    BY <1>2 DEF Matches
  <2>2. /\ now[f] # mine[f] => Matches(now[f], r) /\ r.original[f] = mine[f]
        /\ Owned(r, f) /\ Matches(now[f], r) => r.original[f] = mine[f]
    BY <1>4, <1>5 DEF Accounts
  <2>3. now[f] # mine[f] => Matches(now[f], s)
    BY <1>2, <1>5, RecordIs, LanguageAssumption DEF Matches
  <2> QED BY <1>2, <2>1, <2>2, <2>3 DEF Owned
<1>6. \A f \in Local : Owned(s, f)
  BY <1>2, <1>4 DEF Accounts, Owned
<1> QED BY <1>1, <1>2, <1>3, <1>4, <1>5, <1>6 DEF Accounts

\* Restoring gives the user exactly what the user last had.
LEMMA RestoredIsMine ==
  ASSUME NEW r \in Record, NEW now \in Values, NEW mine \in Values, Accounts(r, now, mine)
  PROVE  Restored(r, now) = mine /\ Accounts(r, mine, mine)
<1>1. r # None /\ now # None /\ mine # None
  BY NoneAssumption DEF Values
<1>2. ASSUME NEW f \in Field
      PROVE  /\ (IF r.original[f] # Unowned /\ Matches(now[f], r)
                 THEN r.original[f] ELSE now[f]) = mine[f]
             /\ Owned(r, f) /\ Matches(mine[f], r) => r.original[f] = mine[f]
  <2>1. /\ now[f] # mine[f] => Matches(now[f], r) /\ r.original[f] = mine[f]
        /\ Owned(r, f) /\ Matches(now[f], r) => r.original[f] = mine[f]
    BY <1>1 DEF Accounts
  <2>2. mine[f] # Unowned
    BY ValueIsTyped
  <2> QED BY <2>1, <2>2 DEF Owned
<1>3. Restored(r, now) = [f \in Field |-> mine[f]]
  BY <1>2 DEF Restored
<1>4. [f \in Field |-> mine[f]] = mine
  BY DEF Values, Fields
<1>5. \A f \in Local : Owned(r, f)
  BY <1>1 DEF Accounts
<1> QED BY <1>1, <1>2, <1>3, <1>4, <1>5 DEF Accounts


-----------------------------------------------------------------------------
(***************************************************************************)
(* The command.                                                            *)
(***************************************************************************)
\* A running command is one of its steps.
LEMMA CommandIsTyped ==
  ASSUME TypeOK
  PROVE  /\ Running <=> manager \in Command
         /\ Running <=> manager.pc # "idle"
         /\ ~Running => manager.pc = "idle"
<1>1. Idle.pc = "idle" /\ \A m \in Command : m.pc # "idle"
  BY DEF Idle, Command
<1> QED BY <1>1 DEF TypeOK, Running

\* A fault that is counted leaves the count in its range.
LEMMA FaultIsTyped == ASSUME TypeOK, Fault PROVE faults' \in 0 .. MaxFaults
BY LanguageAssumption DEF TypeOK, Fault

\* So does a change from outside.
LEMMA ChangeIsTyped == ASSUME TypeOK, Outside PROVE changes' \in 0 .. MaxChanges
BY LanguageAssumption DEF TypeOK, Outside

\* What an invariant says stays true while nothing it speaks of changes.
LEMMA Unseen ==
  ASSUME LanguageInv, UNCHANGED <<prefs, choice, record, manager>>, TypeOK'
  PROVE  LanguageInv'
<1>1. Exists' /\ Known'
  BY DEF LanguageInv, Exists, Known, Durable
<1>2. Running' = Running /\ Saved' = Saved /\ Here' = Here
  BY DEF Running, Saved, Here
<1>3. Remembered' /\ Progress'
  BY <1>2 DEF LanguageInv, Remembered, Progress, Working
<1> QED BY <1>1, <1>3 DEF LanguageInv

\* A step of the command that touches no profile is judged by what it saves and
\* remembers, for the profile it is about.
LEMMA QuietStepKeeps ==
  ASSUME LanguageInv, UNCHANGED world, faults' \in 0 .. MaxFaults,
         manager' \in Command, record' \in State \cup {None},
         record' = record \/ (Running /\ record' = manager.mem) \/ record' = manager'.mem,
         \A p \in Profile : Accounts(manager'.mem.records[p], prefs[p], choice[p]),
         Progress'
  PROVE  LanguageInv'
<1> USE DEF LanguageInv, world
<1>1. TypeOK'
  BY DEF TypeOK
<1>2. Exists' /\ Remembered'
  BY DEF Exists, Remembered
<1>3. Known'
  <2>1. CASE record' = record
    BY <2>1 DEF Known, Durable
  <2>2. CASE Running /\ record' = manager.mem
    <3>1. record' # None
      BY <2>2, CommandIsTyped, NoneAssumption DEF Command
    <3> QED BY <2>2, <3>1 DEF Known, Durable, Remembered
  <2>3. CASE record' = manager'.mem
    <3>1. record' # None
      BY <2>3, NoneAssumption DEF Command
    <3> QED BY <2>3, <3>1 DEF Known, Durable
  <2> QED BY <2>1, <2>2, <2>3
<1> QED BY <1>1, <1>2, <1>3

\* A command that stops leaves what is saved.
LEMMA StopKeeps ==
  ASSUME LanguageInv, UNCHANGED world, faults' \in 0 .. MaxFaults, Stop,
         record' = record \/ (Running /\ record' = manager.mem)
  PROVE  LanguageInv'
<1> USE DEF LanguageInv, world
<1>1. ~Running' /\ manager'.pc = "idle"
  BY DEF Stop, Running, Idle
<1>2. record' \in State \cup {None}
  BY CommandIsTyped DEF TypeOK, Command
<1>3. TypeOK' /\ Exists' /\ Remembered' /\ Progress'
  BY <1>1, <1>2 DEF TypeOK, Exists, Remembered, Progress, Working, Stop
<1>4. Known'
  <2>1. CASE record' = record
    BY <2>1 DEF Known, Durable
  <2>2. CASE Running /\ record' = manager.mem
    <3>1. record' # None
      BY <2>2, CommandIsTyped, NoneAssumption DEF Command
    <3> QED BY <2>2, <3>1 DEF Known, Durable, Remembered
  <2> QED BY <2>1, <2>2
<1> QED BY <1>3, <1>4

\* Going on to a step, or to the next profile, keeps the copy of the record.
LEMMA Going ==
  ASSUME manager \in Command, NEW pc \in {"discover", "next", "write", "settle", "drop"}, Goto(pc)
  PROVE  /\ manager' \in Command /\ manager'.pc = pc /\ manager'.op = manager.op
         /\ manager'.left = manager.left /\ manager'.at = manager.at
         /\ manager'.now = manager.now /\ manager'.mem = manager.mem
BY DEF Command, Goto

\* So does leaving a profile.
LEMMA Leaving ==
  ASSUME manager \in Command, NEW p, manager' = [manager EXCEPT !.pc = "next", !.left = @ \ {p}]
  PROVE  /\ manager' \in Command /\ manager'.pc = "next" /\ manager'.op = manager.op
         /\ manager'.left = manager.left \ {p} /\ manager'.mem = manager.mem
BY DEF Command

\* Between two profiles it is enough to know that `off` has saved what it did.
LEMMA BetweenProfiles ==
  ASSUME manager'.pc = "next",
         manager'.op = "on" => manager'.mem.target \in Target,
         manager'.op = "off" =>
           Saved' /\ \A p \in manager'.left : manager'.mem.records[p] # None
  PROVE  Progress'
BY DEF Progress, Working

-----------------------------------------------------------------------------
(***************************************************************************)
(* Steps that commands share.                                              *)
(***************************************************************************)
\* The choice is saved, or the command ends without one.
LEMMA IntentKeeps == ASSUME LanguageInv, Running, Intent PROVE LanguageInv'
<1>1. manager \in Command /\ manager.mem \in State
  BY CommandIsTyped DEF LanguageInv, Command
<1>2. CASE Save /\ Goto(IF manager.op = "on" THEN "discover" ELSE "next")
  <2>1. /\ manager' \in Command /\ manager'.op = manager.op /\ manager'.left = manager.left
        /\ manager'.mem = manager.mem
        /\ manager'.pc = IF manager.op = "on" THEN "discover" ELSE "next"
    BY <1>1, <1>2, Going
  <2>2. Progress'
    <3>1. CASE manager.op = "on"
      BY <1>1, <2>1, <3>1 DEF LanguageInv, Progress, Working
    <3>2. CASE manager.op = "off"
      BY <1>2, <2>1, <3>2, BetweenProfiles DEF LanguageInv, Progress, Save, Saved
    <3> QED BY <1>1, <3>1, <3>2 DEF Command
  <2> QED BY <1>1, <1>2, <2>1, <2>2, QuietStepKeeps
          DEF Intent, Save, LanguageInv, Remembered, TypeOK
<1>3. CASE SaveFails /\ Stop
  BY <1>3, FaultIsTyped, StopKeeps DEF Intent, SaveFails, LanguageInv
<1> QED BY <1>2, <1>3 DEF Intent

\* A command that is done leaves what it saved.
LEMMA FinishKeeps == ASSUME LanguageInv, Running, Finish PROVE LanguageInv'
BY StopKeeps DEF Finish, LanguageInv, TypeOK

\* A profile that is given up keeps its record.
LEMMA GiveUpKeeps ==
  ASSUME LanguageInv, Running, NEW p \in Profile, GiveUp(p) PROVE LanguageInv'
<1>1. /\ manager \in Command /\ manager.pc = "next" /\ UNCHANGED <<world, record>>
      /\ manager' = [manager EXCEPT !.left = @ \ {p}]
      /\ faults' \in 0 .. MaxFaults
  BY CommandIsTyped, FaultIsTyped DEF LanguageInv, GiveUp, At, TypeOK
<1>2. /\ manager' \in Command /\ manager'.pc = "next" /\ manager'.op = manager.op
      /\ manager'.left = manager.left \ {p} /\ manager'.mem = manager.mem
  BY <1>1 DEF Command
<1>3. Progress'
  BY <1>1, <1>2, BetweenProfiles DEF LanguageInv, Progress, Saved
<1> QED BY <1>1, <1>2, <1>3, QuietStepKeeps DEF LanguageInv, Remembered, TypeOK

-----------------------------------------------------------------------------
(***************************************************************************)
(* Enable.                                                                 *)
(***************************************************************************)
\* The memory of a record that was never made claims nothing, and no record means
\* that every profile is the user's.
LEMMA NoRecordKnown ==
  ASSUME LanguageInv, record = None
  PROVE  \A p \in Profile : NoRecords[p] = None /\ Accounts(NoRecords[p], prefs[p], choice[p])
BY DEF LanguageInv, Known, Durable, NoRecords

\* `on` starts with what is saved.
LEMMA StartOnKeeps == ASSUME LanguageInv, NEW t \in Target, StartOn(t) PROVE LanguageInv'
<1>1. /\ UNCHANGED <<world, record, faults>> /\ TypeOK
      /\ manager' = [pc |-> "intent", op |-> "on", left |-> {}, at |-> None, now |-> None,
                     mem |-> [enabled |-> TRUE, target |-> t,
                              records |-> IF record = None THEN NoRecords ELSE record.records]]
  BY DEF StartOn, LanguageInv
<1>2. manager'.mem \in State
  BY <1>1 DEF State, TypeOK, NoRecords
<1>3. manager' \in Command
  BY <1>1, <1>2 DEF Command
<1>4. \A p \in Profile : Accounts(manager'.mem.records[p], prefs[p], choice[p])
  BY <1>1, NoRecordKnown DEF LanguageInv, Known, Durable
<1>5. Progress'
  BY <1>1 DEF Progress, Working
<1> QED BY <1>1, <1>3, <1>4, <1>5, QuietStepKeeps DEF TypeOK

\* The profiles that are found are the ones to work on.
LEMMA DiscoverKeeps == ASSUME LanguageInv, Running, Discover PROVE LanguageInv'
<1>1. /\ manager \in Command /\ manager.op = "on" /\ UNCHANGED <<world, record>> /\ TypeOK
  BY CommandIsTyped DEF LanguageInv, Discover, At, Progress
<1>2. CASE Stop
  <2>1. faults' \in 0 .. MaxFaults
    BY <1>1, FaultIsTyped DEF Discover, TypeOK
  <2> QED BY <1>1, <1>2, <2>1, StopKeeps
<1>3. CASE /\ manager' = [manager EXCEPT !.pc = "next", !.left = {p \in Profile : prefs[p] # None}]
           /\ UNCHANGED faults
  <2>1. /\ manager' \in Command /\ manager'.pc = "next" /\ manager'.op = "on"
        /\ manager'.mem = manager.mem
    BY <1>1, <1>3 DEF Command
  <2>2. Progress'
    BY <1>1, <2>1, BetweenProfiles DEF LanguageInv, Progress
  <2> QED BY <1>1, <1>3, <2>1, <2>2, QuietStepKeeps DEF LanguageInv, Remembered, TypeOK
<1> QED BY <1>2, <1>3 DEF Discover

\* A profile that is usable has fields, as its user knows them, and a record that
\* accounts for them.
LEMMA UsableIs ==
  ASSUME LanguageInv, Running, NEW p \in Profile, prefs[p] # None
  PROVE  /\ prefs[p] \in Values /\ choice[p] \in Values
         /\ manager.mem.records[p] \in Record \cup {None}
         /\ Accounts(manager.mem.records[p], prefs[p], choice[p])
BY CommandIsTyped DEF LanguageInv, TypeOK, Exists, Values, Remembered, Command, State

\* Prepare makes a record that claims what will be written.
LEMMA PrepareKeeps ==
  ASSUME LanguageInv, Running, NEW p \in Profile, Prepare(p) PROVE LanguageInv'
<1>1. /\ manager \in Command /\ manager.op = "on" /\ p \in manager.left
      /\ UNCHANGED <<world, record, faults>> /\ prefs[p] # None /\ ~Refused(p) /\ TypeOK
      /\ manager' = [manager EXCEPT !.pc = "claim", !.at = p, !.now = prefs[p],
                                    !.mem.records[p] = Prepared(p)]
  BY CommandIsTyped DEF LanguageInv, Prepare, Unusable
<1>2. Prepared(p) \in Record /\ Accounts(Prepared(p), prefs[p], choice[p]) /\ Safe(Prepared(p), prefs[p])
  <2>1. PICK r \in Record \cup {None} : r = manager.mem.records[p]
    BY <1>1, UsableIs
  <2>2. manager.mem.target \in Target
    BY <1>1 DEF LanguageInv, Progress
  <2> QED BY <1>1, <2>1, <2>2, UsableIs, PreparedAccounts DEF Prepared, Refused
<1>3. manager' \in Command
  <2>1. Prepared(p) \in Record \cup {None} /\ prefs[p] \in Fields(Target \cup Choice) \cup {None}
    BY <1>1, <1>2 DEF TypeOK
  <2>2. [manager.mem EXCEPT !.records[p] = Prepared(p)] \in State
    BY <1>1, <2>1 DEF Command, State
  <2> QED BY <1>1, <2>1, <2>2 DEF Command
<1>4. /\ manager'.pc = "claim" /\ manager'.op = "on" /\ manager'.at = p /\ manager'.now = prefs[p]
      /\ manager'.left = manager.left /\ manager'.mem.target = manager.mem.target
      /\ manager'.mem.records[p] = Prepared(p)
      /\ \A q \in Profile \ {p} : manager'.mem.records[q] = manager.mem.records[q]
  BY <1>1 DEF Command, State
<1>5. Progress'
  BY <1>1, <1>2, <1>4, NoneAssumption DEF LanguageInv, Progress, Working, Here
<1>6. \A q \in Profile : Accounts(manager'.mem.records[q], prefs[q], choice[q])
  BY <1>1, <1>2, <1>4 DEF LanguageInv, Remembered
<1> QED BY <1>1, <1>3, <1>5, <1>6, QuietStepKeeps DEF TypeOK

\* A refusal leaves a record that accounts for the profile.
LEMMA RefuseKeeps ==
  ASSUME LanguageInv, Running, NEW p \in Profile, Refuse(p) PROVE LanguageInv'
<1>1. PICK kept \in {manager.mem.records[p], Captured(manager.mem.records[p], prefs[p])} :
        manager' = [manager EXCEPT !.left = @ \ {p}, !.mem.records[p] = kept]
  BY DEF Refuse
<1>2. /\ manager \in Command /\ manager.op = "on" /\ manager.pc = "next" /\ TypeOK
      /\ UNCHANGED <<world, record, faults>> /\ prefs[p] # None /\ manager.mem.records[p] # None
  BY CommandIsTyped DEF LanguageInv, Refuse, Refused, Unusable, At
<1>3. kept \in Record /\ Accounts(kept, prefs[p], choice[p])
  <2>1. PICK r \in Record : r = manager.mem.records[p]
    BY <1>2, UsableIs
  <2> QED BY <1>1, <1>2, <2>1, UsableIs, CapturedAccounts
<1>4. manager' \in Command
  <2>1. [manager.mem EXCEPT !.records[p] = kept] \in State
    BY <1>2, <1>3 DEF Command, State
  <2> QED BY <1>1, <1>2, <2>1 DEF Command
<1>5. /\ manager'.pc = "next" /\ manager'.op = "on" /\ manager'.mem.target = manager.mem.target
      /\ manager'.mem.records[p] = kept
      /\ \A q \in Profile \ {p} : manager'.mem.records[q] = manager.mem.records[q]
  BY <1>1, <1>2 DEF Command, State
<1>6. Progress'
  BY <1>2, <1>5, BetweenProfiles DEF LanguageInv, Progress
<1>7. \A q \in Profile : Accounts(manager'.mem.records[q], prefs[q], choice[q])
  BY <1>2, <1>3, <1>5 DEF LanguageInv, Remembered
<1> QED BY <1>2, <1>4, <1>6, <1>7, QuietStepKeeps DEF TypeOK

\* After Claim what will be written is claimed by the saved record.
LEMMA ClaimKeeps == ASSUME LanguageInv, Running, Claim PROVE LanguageInv'
<1>1. /\ manager \in Command /\ manager.pc = "claim" /\ manager.op = "on" /\ TypeOK
      /\ UNCHANGED world
  BY CommandIsTyped DEF LanguageInv, Claim, At, Progress
<1>2. CASE Save /\ Goto("write")
  <2>1. /\ manager' \in Command /\ manager'.pc = "write" /\ manager'.op = "on"
        /\ manager'.left = manager.left /\ manager'.at = manager.at
        /\ manager'.now = manager.now /\ manager'.mem = manager.mem
    BY <1>1, <1>2, Going
  <2>2. Progress'
    BY <1>1, <1>2, <2>1 DEF LanguageInv, Progress, Working, Here, Safe, Owned, Matches, Saved, Save
  <2> QED BY <1>1, <1>2, <2>1, <2>2, QuietStepKeeps DEF LanguageInv, Remembered, TypeOK, Save, Command
<1>3. CASE SaveFails /\ NextProfile
  <2>1. /\ manager' \in Command /\ manager'.pc = "next" /\ manager'.op = "on"
        /\ manager'.mem = manager.mem
    BY <1>1, <1>3, Leaving DEF NextProfile
  <2>2. Progress' /\ faults' \in 0 .. MaxFaults
    BY <1>1, <1>3, <2>1, BetweenProfiles, FaultIsTyped DEF LanguageInv, Progress, SaveFails
  <2> QED BY <1>1, <1>3, <2>1, <2>2, QuietStepKeeps DEF LanguageInv, Remembered, TypeOK, SaveFails
<1> QED BY <1>2, <1>3 DEF Claim

\* A settled profile keeps a record that accounts for it, whether it is saved or not.
LEMMA SettleKeeps == ASSUME LanguageInv, Running, Settle PROVE LanguageInv'
<1>1. /\ manager \in Command /\ manager.pc = "settle" /\ manager.op = "on" /\ TypeOK
      /\ UNCHANGED world /\ manager.at \in Profile /\ Here # None
  BY CommandIsTyped DEF LanguageInv, Settle, At, Progress, Working
<1>2. PICK p \in Profile : p = manager.at
  BY <1>1
<1>3. PICK r \in Record : r = manager.mem.records[p]
  BY <1>1, <1>2 DEF Command, State, Here
<1>4. PICK s : s = [r EXCEPT !.previous = None]
  OBVIOUS
<1>5. s \in Record /\ Accounts(s, prefs[p], choice[p])
  <2>1. prefs[p] \in Values \cup {None} /\ Accounts(r, prefs[p], choice[p])
    BY <1>1, <1>2, <1>3 DEF LanguageInv, Remembered, TypeOK, Values
  <2>2. prefs[p] # None => \A f \in Field : prefs[p][f] # choice[p][f] => prefs[p][f] = r.written
    BY <1>1, <1>2, <1>3 DEF LanguageInv, Progress, Here
  <2> QED BY <1>4, <2>1, <2>2, SettledAccounts
<1>6. PICK mem : mem = [manager.mem EXCEPT !.records[manager.at].previous = None]
  OBVIOUS
<1>7. /\ mem \in State /\ mem.target = manager.mem.target /\ mem.records[p] = s
      /\ \A q \in Profile \ {p} : mem.records[q] = manager.mem.records[q]
  <2>1. mem = [manager.mem EXCEPT !.records[p] = s]
    BY <1>1, <1>2, <1>3, <1>4, <1>6 DEF Command, State
  <2> QED BY <1>1, <1>5, <2>1 DEF Command, State
<1>8. /\ manager' = [manager EXCEPT !.pc = "next", !.left = @ \ {manager.at}, !.mem = mem]
      /\ (record' = mem /\ UNCHANGED faults) \/ SaveFails
  BY <1>6 DEF Settle
<1>9. /\ manager' \in Command /\ manager'.pc = "next" /\ manager'.op = "on" /\ manager'.mem = mem
  BY <1>1, <1>7, <1>8 DEF Command
<1>10. Progress'
  BY <1>1, <1>7, <1>9, BetweenProfiles DEF LanguageInv, Progress
<1>11. \A q \in Profile : Accounts(mem.records[q], prefs[q], choice[q])
  BY <1>1, <1>5, <1>7 DEF LanguageInv, Remembered
<1>12. faults' \in 0 .. MaxFaults
  BY <1>1, <1>8, FaultIsTyped DEF TypeOK, SaveFails
<1>13. record' \in State \cup {None} /\ (record' = record \/ record' = manager'.mem)
  BY <1>1, <1>7, <1>8, <1>9 DEF TypeOK, SaveFails
<1> QED BY <1>1, <1>9, <1>10, <1>11, <1>12, <1>13, QuietStepKeeps
-----------------------------------------------------------------------------
(***************************************************************************)
(* Writing a profile.                                                      *)
(***************************************************************************)
\* A written profile is judged by the record of it that was saved before.
LEMMA WrittenKeeps ==
  ASSUME LanguageInv, Running, NEW p \in Profile, p = manager.at, NEW wanted \in Values, Saved,
         prefs[p] # None, prefs' = [prefs EXCEPT ![p] = wanted],
         UNCHANGED <<chrome, record, choice, leaving, changes, faults>>,
         manager' \in Command, manager'.mem = manager.mem, Here # None,
         Accounts(Here, wanted, choice[p]), Progress'
  PROVE  LanguageInv'
<1>1. manager \in Command /\ TypeOK /\ record # None
  BY CommandIsTyped, NoneAssumption DEF LanguageInv, Saved, Command
<1>2. prefs'[p] = wanted /\ \A q \in Profile \ {p} : prefs'[q] = prefs[q]
  BY <1>1 DEF TypeOK
<1>3. TypeOK'
  BY <1>1 DEF TypeOK, Values
<1>4. Exists'
  BY <1>2, NoneAssumption DEF LanguageInv, Exists, Values
<1>5. Remembered'
  BY <1>2 DEF LanguageInv, Remembered, Here
<1>6. Known'
  BY <1>1, <1>2 DEF LanguageInv, Known, Remembered, Durable, Here, Saved
<1> QED BY <1>3, <1>4, <1>5, <1>6 DEF LanguageInv

\* A profile that is not written after all is left with its record.
LEMMA GivenUpKeeps ==
  ASSUME LanguageInv, Running, NextProfile, UNCHANGED <<world, record>>,
         manager.pc \in {"write", "restore"}, faults' \in 0 .. MaxFaults
  PROVE  LanguageInv'
<1>1. manager \in Command /\ TypeOK
  BY CommandIsTyped DEF LanguageInv
<1>2. /\ manager' \in Command /\ manager'.pc = "next" /\ manager'.op = manager.op
      /\ manager'.left = manager.left \ {manager.at} /\ manager'.mem = manager.mem
  BY <1>1, Leaving DEF NextProfile
<1>3. Progress'
  BY <1>2, BetweenProfiles DEF LanguageInv, Progress, Saved
<1> QED BY <1>1, <1>2, <1>3, QuietStepKeeps DEF LanguageInv, Remembered, TypeOK

\* Replace writes the fields wanted, over those that were read, or gives up.
LEMMA ReplaceIs ==
  ASSUME LanguageInv, Running, NEW wanted, NEW next, Replace(wanted, next)
  PROVE  /\ UNCHANGED <<chrome, record, choice, leaving, changes>>
         /\ \/ /\ prefs[manager.at] # None /\ prefs[manager.at] = manager.now
               /\ prefs' = [prefs EXCEPT ![manager.at] = wanted]
               /\ Goto(next) /\ UNCHANGED faults
            \/ NextProfile /\ UNCHANGED prefs /\ faults' \in 0 .. MaxFaults
BY FaultIsTyped DEF Replace, Unusable, LanguageInv, TypeOK

\* What Write puts in is claimed by the record that Claim saved.
LEMMA WriteKeeps == ASSUME LanguageInv, Running, Write PROVE LanguageInv'
<1>1. /\ manager \in Command /\ manager.pc = "write" /\ manager.op = "on" /\ TypeOK
      /\ manager.at \in Profile /\ manager.at \in manager.left /\ Here # None /\ Saved
      /\ Safe(Here, manager.now) /\ manager.mem.target \in Target
  BY CommandIsTyped DEF LanguageInv, Write, At, Progress, Working
<1>2. PICK p \in Profile : p = manager.at
  BY <1>1
<1>3. PICK r \in Record : r = Here
  BY <1>1, <1>2 DEF Command, State, Here
<1>4. PICK wanted : wanted = Applied(r, manager.now)
  OBVIOUS
<1>5. Replace(wanted, "settle")
  BY <1>3, <1>4 DEF Write, Here
<1>6. CASE NextProfile /\ UNCHANGED prefs /\ faults' \in 0 .. MaxFaults
  BY <1>1, <1>5, <1>6, ReplaceIs, GivenUpKeeps DEF world
<1>7. CASE /\ prefs[p] # None /\ prefs[p] = manager.now
           /\ prefs' = [prefs EXCEPT ![p] = wanted] /\ Goto("settle") /\ UNCHANGED faults
  <2>1. prefs[p] \in Values /\ choice[p] \in Values /\ Accounts(r, prefs[p], choice[p])
    BY <1>2, <1>3, <1>7, UsableIs DEF Here
  <2>2. /\ wanted \in Values /\ Accounts(r, wanted, choice[p])
        /\ \A f \in Field : wanted[f] # choice[p][f] => wanted[f] = r.written
    BY <1>1, <1>3, <1>4, <1>7, <2>1, AppliedAccounts
  <2>3. /\ manager' \in Command /\ manager'.pc = "settle" /\ manager'.op = "on"
        /\ manager'.left = manager.left /\ manager'.at = manager.at /\ manager'.mem = manager.mem
    BY <1>1, <1>7, Going
  <2>4. UNCHANGED <<chrome, record, choice, leaving, changes, faults>>
    BY <1>5, <1>7, ReplaceIs
  <2>5. prefs'[p] = wanted
    BY <1>1, <1>7 DEF TypeOK
  <2>6. Progress'
    BY <1>1, <1>2, <1>3, <2>2, <2>3, <2>4, <2>5 DEF Progress, Working, Here, Saved
  <2> QED BY <1>1, <1>2, <1>3, <1>7, <2>2, <2>3, <2>4, <2>6, WrittenKeeps
<1> QED BY <1>2, <1>5, <1>6, <1>7, ReplaceIs

-----------------------------------------------------------------------------
(***************************************************************************)
(* Disable and NoteTarget.                                                 *)
(***************************************************************************)
\* `off` starts with what is saved.
LEMMA StartOffKeeps == ASSUME LanguageInv, StartOff PROVE LanguageInv'
<1>1. /\ UNCHANGED <<world, record, faults>> /\ TypeOK /\ record \in State /\ record # None
      /\ manager' = [pc |-> "intent", op |-> "off", at |-> None, now |-> None,
                     left |-> {p \in Profile : record.records[p] # None},
                     mem |-> [record EXCEPT !.enabled = FALSE]]
  BY DEF StartOff, LanguageInv, TypeOK
<1>2. manager'.mem \in State /\ manager'.mem.records = record.records
  BY <1>1 DEF State
<1>3. manager' \in Command
  BY <1>1, <1>2 DEF Command
<1>4. \A p \in Profile : Accounts(manager'.mem.records[p], prefs[p], choice[p])
  BY <1>1, <1>2 DEF LanguageInv, Known, Durable
<1>5. Progress'
  BY <1>1, <1>2 DEF Progress, Working
<1> QED BY <1>1, <1>3, <1>4, <1>5, QuietStepKeeps DEF TypeOK

\* A profile that needs no write is as its user last had it.
LEMMA ReadKeeps ==
  ASSUME LanguageInv, Running, NEW p \in Profile, Read(p) PROVE LanguageInv'
<1>1. /\ manager \in Command /\ manager.op = "off" /\ manager.pc = "next" /\ p \in manager.left
      /\ UNCHANGED <<world, record, faults>> /\ TypeOK /\ Saved
      /\ \A q \in manager.left : manager.mem.records[q] # None
      /\ manager' = [manager EXCEPT !.at = p, !.now = prefs[p],
           !.pc = IF prefs[p] = None \/ Restored(manager.mem.records[p], prefs[p]) = prefs[p]
                  THEN "drop" ELSE "restore"]
  BY CommandIsTyped DEF LanguageInv, Read, At, Progress
<1>2. /\ manager' \in Command /\ manager'.op = "off" /\ manager'.left = manager.left
      /\ manager'.at = p /\ manager'.now = prefs[p] /\ manager'.mem = manager.mem
      /\ manager'.pc = IF prefs[p] = None \/ Restored(manager.mem.records[p], prefs[p]) = prefs[p]
                       THEN "drop" ELSE "restore"
  BY <1>1 DEF Command, TypeOK
<1>3. manager'.pc = "drop" => prefs[p] = choice[p]
  <2>1. CASE prefs[p] = None
    BY <2>1 DEF LanguageInv, Exists
  <2>2. CASE prefs[p] # None
    <3>1. PICK r \in Record : r = manager.mem.records[p]
      BY <1>1 DEF Command, State
    <3>2. Restored(r, prefs[p]) = choice[p]
      BY <2>2, <3>1, UsableIs, RestoredIsMine
    <3> QED BY <1>2, <2>2, <3>1, <3>2
  <2> QED BY <2>1, <2>2
<1>4. Progress'
  BY <1>1, <1>2, <1>3 DEF Progress, Working, Here, Saved, world
<1> QED BY <1>1, <1>2, <1>4, QuietStepKeeps DEF LanguageInv, Remembered, TypeOK

\* After Restore the profile is as its user last had it.
LEMMA RestoreKeeps == ASSUME LanguageInv, Running, Restore PROVE LanguageInv'
<1>1. /\ manager \in Command /\ manager.pc = "restore" /\ manager.op = "off" /\ TypeOK
      /\ manager.at \in Profile /\ manager.at \in manager.left /\ Here # None /\ Saved
      /\ \A q \in manager.left : manager.mem.records[q] # None
  BY CommandIsTyped DEF LanguageInv, Restore, At, Progress, Working
<1>2. PICK p \in Profile : p = manager.at
  BY <1>1
<1>3. PICK r \in Record : r = Here
  BY <1>1, <1>2 DEF Command, State, Here
<1>4. PICK wanted : wanted = Restored(r, manager.now)
  OBVIOUS
<1>5. Replace(wanted, "drop")
  BY <1>3, <1>4 DEF Restore, Here
<1>6. CASE NextProfile /\ UNCHANGED prefs /\ faults' \in 0 .. MaxFaults
  BY <1>1, <1>5, <1>6, ReplaceIs, GivenUpKeeps DEF world
<1>7. CASE /\ prefs[p] # None /\ prefs[p] = manager.now
           /\ prefs' = [prefs EXCEPT ![p] = wanted] /\ Goto("drop") /\ UNCHANGED faults
  <2>1. prefs[p] \in Values /\ choice[p] \in Values /\ Accounts(r, prefs[p], choice[p])
    BY <1>2, <1>3, <1>7, UsableIs DEF Here
  <2>2. wanted = choice[p] /\ Accounts(r, wanted, choice[p])
    BY <1>4, <1>7, <2>1, RestoredIsMine
  <2>3. /\ manager' \in Command /\ manager'.pc = "drop" /\ manager'.op = "off"
        /\ manager'.left = manager.left /\ manager'.at = manager.at /\ manager'.mem = manager.mem
    BY <1>1, <1>7, Going
  <2>4. UNCHANGED <<chrome, record, choice, leaving, changes, faults>>
    BY <1>5, <1>7, ReplaceIs
  <2>5. prefs'[p] = wanted
    BY <1>1, <1>7 DEF TypeOK
  <2>6. Progress'
    BY <1>1, <1>2, <2>2, <2>3, <2>4, <2>5 DEF Progress, Working, Here, Saved
  <2> QED BY <1>1, <1>2, <1>3, <1>7, <2>1, <2>2, <2>3, <2>4, <2>6, WrittenKeeps
<1> QED BY <1>2, <1>5, <1>6, <1>7, ReplaceIs

\* Only a profile that is as its user last had it loses its record.
LEMMA DropKeeps == ASSUME LanguageInv, Running, Drop PROVE LanguageInv'
<1>1. /\ manager \in Command /\ manager.pc = "drop" /\ manager.op = "off" /\ TypeOK
      /\ UNCHANGED world /\ manager.at \in Profile
      /\ prefs[manager.at] = choice[manager.at]
      /\ \A q \in manager.left : manager.mem.records[q] # None
  BY CommandIsTyped DEF LanguageInv, Drop, At, Progress, Working
<1>2. PICK p \in Profile : p = manager.at
  BY <1>1
<1>3. PICK mem : mem = [manager.mem EXCEPT !.records[p] = None]
  OBVIOUS
<1>4. CASE /\ record' = mem /\ UNCHANGED faults
           /\ manager' = [manager EXCEPT !.pc = "next", !.left = @ \ {p}, !.mem = mem]
  <2>1. /\ mem \in State /\ mem.records[p] = None
        /\ \A q \in Profile \ {p} : mem.records[q] = manager.mem.records[q]
    BY <1>1, <1>3 DEF Command, State
  <2>2. /\ manager' \in Command /\ manager'.pc = "next" /\ manager'.op = "off"
        /\ manager'.left = manager.left \ {p} /\ manager'.mem = mem
    BY <1>1, <1>4, <2>1 DEF Command
  <2>3. Progress'
    BY <1>1, <1>4, <2>1, <2>2, BetweenProfiles DEF Saved, Command
  <2>4. \A q \in Profile : Accounts(mem.records[q], prefs[q], choice[q])
    BY <1>1, <1>2, <2>1 DEF LanguageInv, Remembered, Accounts
  <2> QED BY <1>1, <1>4, <2>1, <2>2, <2>3, <2>4, QuietStepKeeps DEF TypeOK
<1>5. CASE SaveFails /\ Stop
  BY <1>1, <1>5, FaultIsTyped, StopKeeps DEF SaveFails
<1> QED BY <1>2, <1>3, <1>4, <1>5 DEF Drop

\* A new target changes no record of a profile.
LEMMA NoteTargetKeeps ==
  ASSUME LanguageInv, NEW t \in Target \cup {None}, NoteTarget(t) PROVE LanguageInv'
<1>1. /\ ~Running /\ record \in State /\ UNCHANGED <<world, manager, faults>> /\ TypeOK
      /\ record' = [record EXCEPT !.target = t] /\ record # None
  BY DEF LanguageInv, TypeOK, NoteTarget
<1>2. record' \in State /\ record'.records = record.records /\ record' # None
  BY <1>1, NoneAssumption DEF State
<1>3. TypeOK' /\ Exists' /\ Remembered' /\ ~Running' /\ manager.pc = "idle"
  BY <1>1, <1>2, CommandIsTyped DEF LanguageInv, TypeOK, Exists, Remembered, Running, world
<1>4. Known'
  BY <1>1, <1>2 DEF LanguageInv, Known, Durable, world
<1>5. Progress'
  BY <1>1, <1>3 DEF Progress, Working
<1> QED BY <1>3, <1>4, <1>5 DEF LanguageInv

-----------------------------------------------------------------------------
(***************************************************************************)
(* Chrome, its user, and crashes.                                          *)
(***************************************************************************)
\* What Chrome or its user does to a profile is the user's will, and every record
\* accounts for it.
LEMMA OutsideKeeps ==
  ASSUME LanguageInv, NEW p \in Profile, NEW now, NEW mine,
         prefs' = [prefs EXCEPT ![p] = now], choice' = [choice EXCEPT ![p] = mine],
         UNCHANGED <<chrome, record, manager, leaving, faults>>, Outside,
         now \in Values \cup {None}, mine \in Values \cup {None}, now = None <=> mine = None,
         \A r \in Record \cup {None} : Accounts(r, prefs[p], choice[p]) => Accounts(r, now, mine),
         now = mine
           \/ (prefs[p] # None /\ now # None /\ \A f \in Field :
                 now[f] # mine[f] => now[f] = prefs[p][f] /\ mine[f] = choice[p][f]),
         prefs[p] = choice[p] => now = mine
  PROVE  LanguageInv'
<1>1. TypeOK /\ changes' \in 0 .. MaxChanges
  BY ChangeIsTyped DEF LanguageInv
<1>2. /\ prefs'[p] = now /\ choice'[p] = mine
      /\ \A q \in Profile \ {p} : prefs'[q] = prefs[q] /\ choice'[q] = choice[q]
  BY <1>1 DEF TypeOK
<1>3. TypeOK' /\ Exists'
  BY <1>1, <1>2 DEF LanguageInv, TypeOK, Exists, Values
<1>4. \A q \in Profile : Durable(q) \in Record \cup {None}
  BY <1>1 DEF TypeOK, State, Durable
<1>5. Known'
  BY <1>2, <1>4 DEF LanguageInv, Known, Durable
<1>6. Running => \A q \in Profile : manager.mem.records[q] \in Record \cup {None}
  BY <1>1, CommandIsTyped DEF Command, State
<1>7. Remembered'
  BY <1>2, <1>6 DEF LanguageInv, Remembered, Running
<1>8. Progress'
  <2>1. manager.pc = "drop" => prefs'[manager.at] = choice'[manager.at]
    BY <1>2 DEF LanguageInv, Progress, Working
  <2>2. manager.pc = "settle" /\ prefs'[manager.at] # None =>
          \A f \in Field : prefs'[manager.at][f] # choice'[manager.at][f] =>
            prefs'[manager.at][f] = Here.written
    BY <1>2 DEF LanguageInv, Progress, Working
  <2>3. Here' = Here /\ Saved' = Saved /\ Running' = Running
    BY DEF Here, Saved, Running
  <2> QED BY <2>1, <2>2, <2>3 DEF LanguageInv, Progress, Working, Safe, Owned, Matches
<1> QED BY <1>3, <1>5, <1>7, <1>8 DEF LanguageInv

\* The user changes a field of a running Chrome.
LEMMA ChangeKeeps ==
  ASSUME LanguageInv, NEW p \in Profile, NEW f \in Field, NEW v \in Choice \cup {None}, Change(p, f, v)
  PROVE  LanguageInv'
<1>1. /\ prefs[p] \in Values /\ choice[p] \in Values /\ TypeOK
  BY DEF LanguageInv, TypeOK, Exists, Change, Values
<1>2. PICK now : now = [prefs[p] EXCEPT ![f] = v]
  OBVIOUS
<1>3. PICK mine : mine = [choice[p] EXCEPT ![f] = v]
  OBVIOUS
<1>4. /\ now \in Values /\ mine \in Values
      /\ \A g \in Field : now[g] = (IF g = f THEN v ELSE prefs[p][g])
                          /\ mine[g] = (IF g = f THEN v ELSE choice[p][g])
  BY <1>1, <1>2, <1>3 DEF Values, Fields
<1>5. prefs' = [prefs EXCEPT ![p] = now] /\ choice' = [choice EXCEPT ![p] = mine]
  BY <1>2, <1>3 DEF Change
<1>6. ASSUME NEW r \in Record \cup {None}, Accounts(r, prefs[p], choice[p])
      PROVE  Accounts(r, now, mine)
  BY <1>1, <1>2, <1>3, <1>6, ChangeAccounts
<1>7. prefs[p] # None /\ now # None /\ mine # None
  BY <1>1, <1>4, NoneAssumption DEF Values
<1>8. prefs[p] = choice[p] => now = mine
  BY <1>2, <1>3
<1>9. \A g \in Field : now[g] # mine[g] => now[g] = prefs[p][g] /\ mine[g] = choice[p][g]
  BY <1>4
<1> QED BY <1>4, <1>5, <1>6, <1>7, <1>8, <1>9, OutsideKeeps DEF Change

\* A profile is deleted or made anew.
LEMMA RemakeKeeps ==
  ASSUME LanguageInv, NEW p \in Profile, Remake(p) PROVE LanguageInv'
<1>1. PICK new : new = IF prefs[p] = None THEN [f \in Field |-> None] ELSE None
  OBVIOUS
<1>2. /\ prefs' = [prefs EXCEPT ![p] = new] /\ choice' = [choice EXCEPT ![p] = new]
      /\ new \in {None, [f \in Field |-> None]} /\ new \in Values \cup {None}
  BY <1>1 DEF Remake, Values, Fields
<1>3. ASSUME NEW r \in Record \cup {None}, Accounts(r, prefs[p], choice[p])
      PROVE  Accounts(r, new, new)
  BY <1>2, <1>3, NewAccounts
<1> QED BY <1>2, <1>3, OutsideKeeps DEF Remake

-----------------------------------------------------------------------------
(***************************************************************************)
(* The theorems.                                                           *)
(***************************************************************************)
\* Nothing is recorded at first, and every profile is its user's.
LEMMA InitKeeps == ASSUME Init PROVE LanguageInv
<1>1. TypeOK
  <2>1. 0 \in 0 .. MaxFaults /\ 0 \in 0 .. MaxChanges
    BY LanguageAssumption
  <2>2. prefs \in [Profile -> Fields(Target \cup Choice) \cup {None}] /\ choice = prefs
    BY DEF Init
  <2> QED BY <2>1, <2>2 DEF Init, TypeOK
<1>2. manager.pc = "idle" /\ ~Running
  BY DEF Init, Idle, Running
<1> QED BY <1>1, <1>2 DEF Init, LanguageInv, Exists, Known, Remembered, Progress, Working,
                          Accounts, Durable

\* Every step keeps the invariant.
LEMMA NextKeeps == ASSUME LanguageInv, [Next]_vars PROVE LanguageInv'
<1>1. CASE UNCHANGED vars
  BY <1>1, Unseen DEF vars, LanguageInv, TypeOK
<1>2. CASE Running /\ Step
  BY <1>2, IntentKeeps, FinishKeeps, DiscoverKeeps, ClaimKeeps, WriteKeeps, SettleKeeps,
     RestoreKeeps, DropKeeps, GiveUpKeeps, PrepareKeeps, RefuseKeeps, ReadKeeps DEF Step
<1>3. CASE Crash
  BY <1>3, FaultIsTyped, StopKeeps DEF Crash, LanguageInv
<1>4. CASE Leave \/ \E p \in Profile : OpenOrClose(p)
  <2>1. /\ UNCHANGED <<prefs, choice, record, manager, faults, changes>>
        /\ chrome' \in [Profile -> BOOLEAN] /\ leaving' \in BOOLEAN
    BY <1>4 DEF Leave, OpenOrClose, LanguageInv, TypeOK
  <2> QED BY <2>1, Unseen DEF LanguageInv, TypeOK
<1> QED BY <1>1, <1>2, <1>3, <1>4, StartOffKeeps, StartOnKeeps, NoteTargetKeeps, ChangeKeeps,
           RemakeKeeps DEF Next

\* The inductive invariant of Chrome language matching: at every step, every record,
\* saved or in memory, accounts for its profile.
THEOREM LanguageInvariant == Spec => []LanguageInv
BY InitKeeps, NextKeeps, PTL DEF Spec

\* The files, the record and the command keep their types.
THEOREM LanguageTypes == Spec => []TypeOK
<1>1. LanguageInv => TypeOK
  BY DEF LanguageInv
<1> QED BY <1>1, LanguageInvariant, PTL

\* Whatever the interruption, the durable record claims what is not the user's, with
\* the user's value as its original (applyProfile, restoreProfile).
THEOREM Recoverable == Spec => []LanguagesAreRecoverable
<1>1. LanguageInv => LanguagesAreRecoverable
  <2> SUFFICES ASSUME LanguageInv, NEW p \in Profile, prefs[p] # choice[p]
               PROVE  /\ record # None /\ record.records[p] # None
                      /\ \A f \in Field : prefs[p][f] # choice[p][f] =>
                           /\ Matches(prefs[p][f], record.records[p])
                           /\ record.records[p].original[f] = choice[p][f]
    BY DEF LanguagesAreRecoverable
  <2>1. Accounts(Durable(p), prefs[p], choice[p]) /\ prefs[p] # None
    BY DEF LanguageInv, Known, Exists
  <2>2. Durable(p) # None /\ record # None /\ Durable(p) = record.records[p]
    BY <2>1 DEF Accounts, Durable
  <2> QED BY <2>1, <2>2 DEF Accounts
<1> QED BY <1>1, LanguageInvariant, PTL
=============================================================================

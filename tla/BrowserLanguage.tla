--------------------------- MODULE BrowserLanguage ---------------------------
(***************************************************************************)
(* Chrome language matching (internal/browserlanguage): `sbc privacy       *)
(* browser language on` writes the node's languages into the language      *)
(* fields of every standard Chrome profile, and `off` gives back the       *)
(* languages that were there.                                              *)
(*                                                                         *)
(* One recovery record, a file, is the only memory: per profile, what each *)
(* field held before sbc's first change, the value sbc writes and, while a *)
(* target update is under way, the value it wrote before.  A file lock     *)
(* makes commands run one after another, so a single manager process is    *)
(* modelled; Chrome, its user and crashes come in between its steps.       *)
(*                                                                         *)
(* A field of a profile belongs to the local store or to the store of a    *)
(* signed-in account.  Chrome is closed when the file it would overwrite   *)
(* is compared and replaced (closed, files.go:126): both are one step here,*)
(* as the documentation asks not to start Chrome during a command.  Each   *)
(* profile is of a Chrome channel of its own.                              *)
(***************************************************************************)
EXTENDS Naturals, FiniteSets

CONSTANTS
    Profile,   \* the Chrome profiles
    Key,       \* the language keys of one store
    Target,    \* the language lists sbc writes
    Choice,    \* other language lists
    None,      \* no value, no record, no file
    MaxFaults, \* bound: crashes, failed writes and unreadable files in one behaviour
    MaxChanges \* bound: changes of fields and profiles outside sbc in one behaviour

ASSUME LanguageAssumption ==
    /\ IsFiniteSet(Profile)
    /\ Target \cap Choice = {} /\ None \notin Target \cup Choice
    /\ MaxFaults \in Nat /\ MaxChanges \in Nat

VARIABLES
    prefs,   \* per profile: its fields, or None when the profile does not exist
    chrome,  \* per profile: does a Chrome run with it?
    record,  \* the recovery record, or None
    manager, \* the running command, or Idle
    choice,  \* history, per profile: its fields as the user last had them
    leaving, \* history: the user decided to turn the matching off for good
    faults,  \* crashes, failed writes and unreadable files so far
    changes  \* changes outside sbc so far

vars == <<prefs, chrome, record, manager, choice, leaving, faults, changes>>
world == <<prefs, chrome, choice, leaving, changes>>

Local == {"intl"} \X Key
Account == {"account"} \X Key
Field == Local \cup Account
Fields(values) == [Field -> values \cup {None}]

\* What sbc knows of one profile; a field that is Unowned was never its own.
Unowned == "unowned"
Record == [original : [Field -> Target \cup Choice \cup {None, Unowned}],
           written : Target, previous : Target \cup {None}]
NoRecords == [p \in Profile |-> None]
State == [enabled : BOOLEAN, target : Target \cup {None}, records : [Profile -> Record \cup {None}]]

\* Absence is none of the values it stands beside.
ASSUME NoneAssumption ==
    /\ Unowned \notin Target \cup Choice \cup {None}
    /\ None \notin Fields(Target \cup Choice) \cup Record \cup State

\* A running command: its step, the profiles it has left, the one it works on, the
\* fields it read there, and its copy of the record.
Command ==
    [pc : {"intent", "discover", "next", "claim", "write", "settle", "restore", "drop"},
     op : {"on", "off"}, left : SUBSET Profile, at : Profile \cup {None},
     now : Fields(Target \cup Choice) \cup {None}, mem : State]

Idle == [pc |-> "idle"]
Running == manager # Idle
Fault == faults < MaxFaults /\ faults' = faults + 1
Outside == changes < MaxChanges /\ changes' = changes + 1

Init == /\ prefs \in [Profile -> Fields(Target \cup Choice)]
        /\ choice = prefs
        /\ chrome = [p \in Profile |-> FALSE]
        /\ record = None
        /\ manager = Idle
        /\ leaving = FALSE
        /\ faults = 0
        /\ changes = 0

-----------------------------------------------------------------------------
(***************************************************************************)
(* What a record says about the fields that were read.                     *)
(***************************************************************************)
Matches(v, r) == v # None /\ v \in {r.written, r.previous}

\* A field that is neither sbc's nor the original was changed outside sbc.  An
\* account field may have gone with its account.
Foreign(r, now) ==
    \E f \in Field : /\ r.original[f] \notin {Unowned, now[f]}
                     /\ ~Matches(now[f], r)
                     /\ f \in Account => now[f] # None

\* The first record of a profile owns its local fields.
Fresh(now) == [original |-> [f \in Field |-> IF f \in Local THEN now[f] ELSE Unowned],
               written |-> None, previous |-> None]

\* Account fields are owned from the first command that finds them.
Captured(r, now) ==
    [r EXCEPT !.original = [f \in Field |-> IF @[f] = Unowned /\ now[f] # None
                                            THEN now[f] ELSE @[f]]]

\* An update that was interrupted can only be repeated.
Incomplete(r, want) == r.previous # None /\ r.written # want

Retargeted(r, want) ==
    IF r.written = want THEN r ELSE [r EXCEPT !.previous = r.written, !.written = want]

Applied(r, now) ==
    [f \in Field |-> IF f \in Local \/ (r.original[f] # Unowned /\ now[f] # None)
                     THEN r.written ELSE now[f]]

Restored(r, now) ==
    [f \in Field |-> IF r.original[f] # Unowned /\ Matches(now[f], r)
                     THEN r.original[f] ELSE now[f]]

-----------------------------------------------------------------------------
(***************************************************************************)
(* Steps that commands share.                                              *)
(***************************************************************************)
At(pc) == manager.pc = pc
Goto(pc) == manager' = [manager EXCEPT !.pc = pc]
Stop == manager' = Idle
\* The command is done with its profile, or gives it up with an error.
NextProfile == manager' = [manager EXCEPT !.pc = "next", !.left = @ \ {manager.at}]

\* A save of the record from memory, or one that fails.
Save == record' = manager.mem /\ UNCHANGED faults
SaveFails == Fault /\ UNCHANGED record

\* The choice to be on or off is durable before a profile is touched.
Intent ==
    /\ At("intent")
    /\ \/ Save /\ Goto(IF manager.op = "on" THEN "discover" ELSE "next")
       \/ SaveFails /\ Stop
    /\ UNCHANGED world

Finish ==
    /\ At("next") /\ manager.left = {}
    /\ Stop
    /\ UNCHANGED <<world, record, faults>>

\* The profile's Chrome runs, or a file cannot be read, is not valid, or is
\* under a policy: an error of that profile.
Unusable(p) == chrome[p] \/ prefs[p] = None

GiveUp(p) ==
    /\ At("next") /\ p \in manager.left
    /\ IF Unusable(p) /\ ~(manager.op = "off" /\ prefs[p] = None)
       THEN UNCHANGED faults ELSE Fault
    /\ manager' = [manager EXCEPT !.left = @ \ {p}]
    /\ UNCHANGED <<world, record>>

-----------------------------------------------------------------------------
(***************************************************************************)
(* Enable.                                                                 *)
(***************************************************************************)
\* A record of an unfinished `off` must not be replaced.
StartOn(t) ==
    /\ ~Running /\ ~leaving
    /\ record # None /\ ~record.enabled => record.records = NoRecords
    /\ manager' = [pc |-> "intent", op |-> "on", left |-> {}, at |-> None, now |-> None,
                   mem |-> [enabled |-> TRUE, target |-> t,
                            records |-> IF record = None THEN NoRecords ELSE record.records]]
    /\ UNCHANGED <<world, record, faults>>

\* A managed policy, or no profile at all, ends the command.
Discover ==
    /\ At("discover")
    /\ LET found == {p \in Profile : prefs[p] # None}
       IN IF found = {} THEN Stop /\ UNCHANGED faults
          ELSE \/ manager' = [manager EXCEPT !.pc = "next", !.left = found] /\ UNCHANGED faults
               \/ Stop /\ Fault
    /\ UNCHANGED <<world, record>>

Prepared(p) ==
    LET r == IF manager.mem.records[p] = None THEN Fresh(prefs[p]) ELSE manager.mem.records[p]
    IN Retargeted(Captured(r, prefs[p]), manager.mem.target)

Refused(p) ==
    LET r == manager.mem.records[p]
    IN r # None /\ (Foreign(r, prefs[p]) \/ Incomplete(r, manager.mem.target))

\* The profile is read and its record prepared in memory.
Prepare(p) ==
    /\ At("next") /\ manager.op = "on" /\ p \in manager.left
    /\ ~Unusable(p) /\ ~Refused(p)
    /\ manager' = [manager EXCEPT !.pc = "claim", !.at = p, !.now = prefs[p],
                                  !.mem.records[p] = Prepared(p)]
    /\ UNCHANGED <<world, record, faults>>

\* A refused profile keeps its record, but the account fields found before the
\* refusal are in the memory that the record shares with it.
Refuse(p) ==
    /\ At("next") /\ manager.op = "on" /\ p \in manager.left
    /\ ~Unusable(p) /\ Refused(p)
    /\ LET r == manager.mem.records[p]
           owned == \E f \in Account : r.original[f] # Unowned
       IN \E kept \in {r} \cup (IF owned THEN {Captured(r, prefs[p])} ELSE {}) :
            manager' = [manager EXCEPT !.left = @ \ {p}, !.mem.records[p] = kept]
    /\ UNCHANGED <<world, record, faults>>

\* Mutant: the record is saved only after the profile.
ClaimLater == At("claim") /\ Goto("write") /\ UNCHANGED <<world, record, faults>>

\* Originals and both values are durable before the profile is written.
Claim ==
    /\ At("claim")
    /\ \/ Save /\ Goto("write")
       \/ SaveFails /\ NextProfile
    /\ UNCHANGED world

\* Chrome is closed and the file is what was read: it is replaced.  Otherwise,
\* or when the write fails, the profile is an error and its record stays.
Replace(wanted, next) ==
    LET p == manager.at
    IN /\ \/ /\ ~Unusable(p) /\ prefs[p] = manager.now
             /\ prefs' = [prefs EXCEPT ![p] = wanted]
             /\ Goto(next) /\ UNCHANGED faults
          \/ /\ IF Unusable(p) \/ prefs[p] # manager.now THEN UNCHANGED faults ELSE Fault
             /\ NextProfile /\ UNCHANGED prefs
       /\ UNCHANGED <<chrome, record, choice, leaving, changes>>

Write == /\ At("write")
         /\ Replace(Applied(manager.mem.records[manager.at], manager.now), "settle")

\* The update is complete, in memory and then in the file.
Settle ==
    /\ At("settle")
    /\ LET mem == [manager.mem EXCEPT !.records[manager.at].previous = None]
       IN /\ manager' = [manager EXCEPT !.pc = "next", !.left = @ \ {manager.at}, !.mem = mem]
          /\ \/ record' = mem /\ UNCHANGED faults
             \/ SaveFails
    /\ UNCHANGED world

-----------------------------------------------------------------------------
(***************************************************************************)
(* Disable and NoteTarget.                                                 *)
(***************************************************************************)
\* Mutant: a matching that is off already needs nothing.
StartOffOnce ==
    /\ ~Running /\ record # None /\ record.enabled
    /\ manager' = [pc |-> "intent", op |-> "off", at |-> None, now |-> None,
                   left |-> {p \in Profile : record.records[p] # None},
                   mem |-> [record EXCEPT !.enabled = FALSE]]
    /\ UNCHANGED <<world, record, faults>>

\* Without a record file there is nothing to do.
StartOff ==
    /\ ~Running /\ record # None
    /\ manager' = [pc |-> "intent", op |-> "off", at |-> None, now |-> None,
                   left |-> {p \in Profile : record.records[p] # None},
                   mem |-> [record EXCEPT !.enabled = FALSE]]
    /\ UNCHANGED <<world, record, faults>>

\* A deleted profile and one without a field of sbc's need no write.
Read(p) ==
    /\ At("next") /\ manager.op = "off" /\ p \in manager.left
    /\ prefs[p] # None => ~chrome[p]
    /\ manager' = [manager EXCEPT !.at = p, !.now = prefs[p],
         !.pc = IF prefs[p] = None \/ Restored(manager.mem.records[p], prefs[p]) = prefs[p]
                THEN "drop" ELSE "restore"]
    /\ UNCHANGED <<world, record, faults>>

Restore == /\ At("restore")
           /\ Replace(Restored(manager.mem.records[manager.at], manager.now), "drop")

\* Only a restored profile loses its record.  A save that fails ends the command.
Drop ==
    /\ At("drop")
    /\ LET mem == [manager.mem EXCEPT !.records[manager.at] = None]
       IN \/ /\ record' = mem /\ UNCHANGED faults
             /\ manager' = [manager EXCEPT !.pc = "next", !.left = @ \ {manager.at}, !.mem = mem]
          \/ SaveFails /\ Stop
    /\ UNCHANGED world

\* A refresh of the subscription remembers a new target, or that there is none.
NoteTarget(t) ==
    /\ ~Running /\ record # None
    /\ record.enabled \/ record.records # NoRecords
    /\ record' = [record EXCEPT !.target = t]
    /\ UNCHANGED <<world, manager, faults>>

-----------------------------------------------------------------------------
(***************************************************************************)
(* Chrome, its user, and crashes.                                          *)
(***************************************************************************)
OpenOrClose(p) ==
    /\ prefs[p] # None \/ chrome[p]
    /\ chrome' = [chrome EXCEPT ![p] = ~@]
    /\ UNCHANGED <<prefs, record, manager, choice, leaving, faults, changes>>

\* The user, a sign-in or a sign-out changes a field of a running Chrome.  A
\* target of sbc would be indistinguishable from sbc's own value.
Change(p, f, v) ==
    /\ chrome[p] /\ prefs[p] # None /\ prefs[p][f] # v
    /\ prefs' = [prefs EXCEPT ![p][f] = v]
    /\ choice' = [choice EXCEPT ![p][f] = v]
    /\ Outside
    /\ UNCHANGED <<chrome, record, manager, leaving, faults>>

\* A profile is deleted, or made anew without a language choice.
Remake(p) ==
    /\ ~chrome[p]
    /\ LET new == IF prefs[p] = None THEN [f \in Field |-> None] ELSE None
       IN prefs' = [prefs EXCEPT ![p] = new] /\ choice' = [choice EXCEPT ![p] = new]
    /\ Outside
    /\ UNCHANGED <<chrome, record, manager, leaving, faults>>

Crash == Running /\ Fault /\ Stop /\ UNCHANGED <<world, record>>

Leave == ~leaving /\ leaving' = TRUE /\ UNCHANGED <<prefs, chrome, record, manager, choice, faults, changes>>

Step ==
    \/ Intent \/ Finish \/ Discover \/ Claim \/ Write \/ Settle \/ Restore \/ Drop
    \/ \E p \in Profile : GiveUp(p) \/ Prepare(p) \/ Refuse(p) \/ Read(p)

Next ==
    \/ StartOff \/ \E t \in Target : StartOn(t)
    \/ \E t \in Target \cup {None} : NoteTarget(t)
    \/ Running /\ Step
    \/ Crash \/ Leave
    \/ \E p \in Profile :
         \/ OpenOrClose(p) \/ Remake(p)
         \/ \E f \in Field, v \in Choice \cup {None} : Change(p, f, v)

Spec == Init /\ [][Next]_vars

\* A started command goes on to its end unless it crashes, and a user who
\* wants the languages back repeats `off`.
Fairness == /\ WF_vars(Running /\ Step)
            /\ SF_vars(leaving /\ record # None /\ record.records # NoRecords /\ StartOff)

LiveSpec == Spec /\ Fairness

-----------------------------------------------------------------------------
(***************************************************************************)
(* Properties.                                                             *)
(***************************************************************************)
\* The files and the recovery record are well formed (load, validWritten).
TypeOK ==
    /\ prefs \in [Profile -> Fields(Target \cup Choice) \cup {None}]
    /\ choice \in [Profile -> Fields(Target \cup Choice) \cup {None}]
    /\ record \in State \cup {None}
    /\ manager \in Command \cup {Idle}
    /\ chrome \in [Profile -> BOOLEAN] /\ leaving \in BOOLEAN
    /\ faults \in 0 .. MaxFaults /\ changes \in 0 .. MaxChanges

\* Whatever the interruption, a field that does not hold what the user last
\* had there is claimed by the durable record, with the user's value as its
\* original: `off` gives it back, and never takes it for a foreign change
\* (applyProfile, restoreProfile).
LanguagesAreRecoverable ==
    \A p \in Profile : prefs[p] # choice[p] =>
      /\ record # None /\ record.records[p] # None
      /\ \A f \in Field : prefs[p][f] # choice[p][f] =>
           /\ Matches(prefs[p][f], record.records[p])
           /\ record.records[p].original[f] = choice[p][f]

\* A user who repeats `off` while Chrome is closed in the end has all of the
\* languages back and no record left.
LanguagesComeBack ==
    <>[](\A p \in Profile : ~chrome[p]) =>
      (leaving ~> (prefs = choice /\ (record # None => record.records = NoRecords)))
=============================================================================

---------------------------- MODULE SystemRegion ----------------------------
(***************************************************************************)
(* The root helper that sets the system time zone and language to the      *)
(* node's region, and gives them back (internal/region/system.go).         *)
(*                                                                         *)
(* Before it replaces a system value the helper keeps the original in a    *)
(* backup and saves a record that says what it is about to write; once the *)
(* value is in place it saves what it really wrote.  `off` trusts nothing  *)
(* but that record: a value that is not the recorded one is someone else's *)
(* and stays.                                                              *)
(*                                                                         *)
(* A system value is a link, a file or nothing, with the name of the zone  *)
(* or language it selects and the form it has: the one a tool of sbc gives *)
(* it ("abs", "rel" for the two links timedatectl and sbc write, "sbc" for *)
(* a locale file) or the one of whoever else wrote it ("own").  Two values *)
(* are the same (sameSystemValue, system.go:906) when they are equal here: *)
(* link targets and file hashes stand for name and form.  Nobody else      *)
(* changes a component while the helper is between reading it and          *)
(* recording it; the file lock keeps a second helper out.                  *)
(***************************************************************************)
EXTENDS Naturals, FiniteSets

CONSTANTS
    Zones,       \* the time zones that profiles of the portal ask for
    Languages,   \* and the languages
    OtherNames,  \* the names anyone else chooses
    Nothing,     \* no record, no backup
    MaxFaults    \* bound: crashes, failed restores and failed saves in one behaviour

ASSUME RegionAssumption ==
    /\ IsFiniteSet(Zones) /\ IsFiniteSet(Languages)
    /\ (Zones \cup Languages) \cap OtherNames = {}
    /\ MaxFaults \in Nat

VARIABLES
    value,   \* per component: what the system has
    disk,    \* per component: its part of the saved state, or Nothing
    backup,  \* per component: the contents of its backup file, or Nothing
    helper,  \* the running helper, or Idle
    user,    \* history, per component: the value someone else last chose
    leaving, \* history: the owner decided to turn the feature off for good
    faults,  \* crashes, failed restores and failed saves so far
    astray   \* history: components whose original an interrupted change has lost

vars == <<value, disk, backup, helper, user, leaving, faults, astray>>

Components == {"timezone", "language"}
Targets(c) == IF c = "timezone" THEN Zones ELSE Languages

Val(kind, name, form) == [kind |-> kind, name |-> name, form |-> form]
Missing == Val("missing", Nothing, "own")

\* What a component's path can hold.
Others(c, names) ==
    {Missing} \cup {Val("file", n, "own") : n \in names}
              \cup (IF c = "timezone" THEN {Val("link", n, "rel") : n \in names} ELSE {})
OurForms(c) == IF c = "timezone" THEN {"abs", "rel"} ELSE {"sbc"}
OurKind(c) == IF c = "timezone" THEN "link" ELSE "file"
OurValues(c) == {Val(OurKind(c), t, f) : t \in Targets(c), f \in OurForms(c)}
Values(c) == Others(c, Targets(c) \cup OtherNames) \cup OurValues(c)

\* One component of the saved state.
Entries(c) == [target : Targets(c), pending : BOOLEAN, original : Values(c), written : Values(c)]

\* `Nothing` stands for a record or a file that is not there, and for no name.
ASSUME NothingAssumption ==
    /\ Nothing \notin Zones \cup Languages
    /\ \A c \in Components : Nothing \notin Values(c) \cup Entries(c)

Idle == [pc |-> "idle"]
Running == helper # Idle

Init == /\ value \in {v \in [Components -> UNION {Values(c) : c \in Components}] :
                        \A c \in Components : v[c] \in Others(c, Targets(c) \cup OtherNames)}
        /\ disk = [c \in Components |-> Nothing]
        /\ backup = [c \in Components |-> Nothing]
        /\ helper = Idle
        /\ user = value
        /\ leaving = FALSE
        /\ astray = {}
        /\ faults = 0

-----------------------------------------------------------------------------
(***************************************************************************)
(* Ownership, backup and state file.                                       *)
(***************************************************************************)
\* Mutant: only the recorded link counts.
TimezoneIsWritten(v, e) == v = e.written

\* A pending time zone is ours when the link, absolute or relative, selects the target.
TimezoneOwned(v, e) == \/ v = e.written
                       \/ e.pending /\ v.kind = "link" /\ v.name = e.target

\* A pending language is ours when the file's LANG is the target's.
LanguageOwned(v, e) == \/ v = e.written
                       \/ e.pending /\ v.name = e.target

Owned(c, v, e) == IF c = "timezone" THEN TimezoneOwned(v, e) ELSE LanguageOwned(v, e)

\* Only a file has contents to keep; any other original removes an old backup.
Snapshot(c, v) == backup' = [backup EXCEPT ![c] = IF v.kind = "file" THEN v ELSE Nothing]

\* A file comes back from its backup, whose hash must be the recorded one.
Restorable(c, v) == v.kind = "file" => backup[c] = v

\* The state holds both components: with neither left the state file and the backups go.
SaveState(mem) ==
    /\ disk' = mem
    /\ backup' = IF \A c \in Components : mem[c] = Nothing
                 THEN [c \in Components |-> Nothing] ELSE backup

\* The component a helper works on: the time zone before the language.
Turn(c) == c \in helper.left /\ (c = "language" => "timezone" \notin helper.left)

Go(pc) == helper' = [helper EXCEPT !.pc = pc]
\* The helper is done with component c and leaves entry e for it in its state.
Done(c, e) == helper' = [helper EXCEPT !.pc = "next", !.left = @ \ {c}, !.mem[c] = e,
                                       !.now = Missing, !.was = Nothing]
Fault == faults < MaxFaults /\ faults' = faults + 1

-----------------------------------------------------------------------------
(***************************************************************************)
(* SystemApply.                                                            *)
(***************************************************************************)
\* The helper takes the lock, loads the state and does the requested components.
On(cs) ==
    /\ ~Running /\ ~leaving
    /\ helper' = [pc |-> "next", op |-> "on", left |-> cs, mem |-> disk,
                   now |-> Missing, was |-> Nothing]
    /\ UNCHANGED <<value, disk, backup, user, leaving, faults>>

\* A zone that is not installed or a locale that is not generated is an error
\* of that component, reported before anything is touched.
Unavailable(c) ==
    /\ helper.pc = "next" /\ helper.op = "on" /\ Turn(c)
    /\ Done(c, helper.mem[c])
    /\ UNCHANGED <<value, disk, backup, user, leaving, faults>>

\* What is there now becomes the original, unless it is the value sbc recorded:
\* then the recorded original stays, and a finished change to the same target
\* needs nothing more.
Read(c) == [now |-> value[c], was |-> helper.mem[c],
            ours |-> IF helper.mem[c] = Nothing THEN FALSE ELSE value[c] = helper.mem[c].written]

\* Mutant: what is there now is always taken for the original.
ClaimAfresh(c, target, written) ==
    /\ helper.pc = "next" /\ helper.op = "on" /\ Turn(c)
    /\ Snapshot(c, value[c])
    /\ helper' = [helper EXCEPT !.pc = "pend", !.now = value[c], !.was = helper.mem[c],
         !.mem[c] = [target |-> target, pending |-> TRUE, written |-> written,
                     original |-> value[c]]]
    /\ UNCHANGED <<value, disk, user, leaving, faults>>

Claim(c, target, written) ==
    LET was == helper.mem[c]
        r == Read(c)
    IN /\ helper.pc = "next" /\ helper.op = "on" /\ Turn(c)
       /\ IF r.ours /\ was.target = target /\ ~was.pending
          THEN Done(c, was) /\ UNCHANGED backup
          ELSE /\ IF r.ours THEN UNCHANGED backup ELSE Snapshot(c, r.now)
               /\ helper' = [helper EXCEPT !.pc = "pend", !.now = r.now, !.was = was,
                    !.mem[c] = [target |-> target, pending |-> TRUE, written |-> written,
                                original |-> IF r.ours THEN was.original ELSE r.now]]
       /\ UNCHANGED <<value, disk, user, leaving, faults>>

\* The target is the profile's; it can be another one in every `on`.  The time
\* zone's record names the link sbc would write itself.
ClaimTimezone == \E zone \in Zones : Claim("timezone", zone, Val("link", zone, "abs"))
\* The language's record names what is there before the change.
ClaimLanguage == \E language \in Languages : Claim("language", language, value["language"])

\* Mutant: the record is saved only once the value is in place.
PendUnsaved(c) ==
    /\ helper.pc = "pend" /\ Turn(c)
    /\ Go("write")
    /\ UNCHANGED <<value, disk, backup, user, leaving, faults>>

\* The pending record reaches the disk before the system value changes.  When
\* it cannot be saved the component is an error and nothing is written.
Pend(c) ==
    /\ helper.pc = "pend" /\ Turn(c)
    /\ \/ SaveState(helper.mem) /\ Go("write") /\ UNCHANGED faults
       \/ Fault /\ Done(c, helper.mem[c]) /\ UNCHANGED <<disk, backup>>
    /\ UNCHANGED <<value, user, leaving>>

\* timedatectl writes the link, relative or absolute; without it, or when it
\* fails, sbc replaces the link itself; when that fails too, sbc rolls back.
WriteTimezone ==
    /\ helper.pc = "write" /\ Turn("timezone")
    /\ \/ \E f \in OurForms("timezone") :
            /\ value' = [value EXCEPT !["timezone"] = Val("link", helper.mem["timezone"].target, f)]
            /\ Go("verify")
       \/ Go("rollback") /\ UNCHANGED value
    /\ UNCHANGED <<disk, backup, user, leaving, faults>>

\* update-locale, or sbc itself, writes the locale file; a tool that fails may
\* have written it or not.
WriteLanguage ==
    /\ helper.pc = "write" /\ Turn("language")
    /\ \/ /\ value' = [value EXCEPT !["language"] = Val("file", helper.mem["language"].target, "sbc")]
          /\ \/ Go("verify")
             \/ Go("rollback")
       \/ Go("rollback") /\ UNCHANGED value
    /\ UNCHANGED <<disk, backup, user, leaving, faults>>

\* The value that is there is the value the record gets, and the change is no
\* longer pending.  A save that fails leaves that to the last save.
Record(c) ==
    LET entry == [helper.mem[c] EXCEPT !.written = value[c], !.pending = FALSE]
    IN /\ helper.pc = "verify" /\ Turn(c)
       /\ Owned(c, value[c], helper.mem[c])
       /\ Done(c, entry)
       /\ \/ SaveState([helper.mem EXCEPT ![c] = entry]) /\ UNCHANGED faults
          \/ Fault /\ UNCHANGED <<disk, backup>>
       /\ UNCHANGED <<value, user, leaving>>

\* Rollback puts back what was there before the change.  When that fails the
\* pending record stays.
Rollback(c) ==
    /\ helper.pc = "rollback" /\ Turn(c)
    /\ \/ /\ value' = [value EXCEPT ![c] = helper.now]
          /\ helper' = [helper EXCEPT !.pc = "undo", !.mem[c] = helper.was]
          /\ UNCHANGED faults
       \/ Fault /\ Go("undo") /\ UNCHANGED value
    /\ UNCHANGED <<disk, backup, user, leaving>>

\* ... and then saves the earlier entry; rollback saves even an empty state.
Undo(c) ==
    /\ helper.pc = "undo" /\ Turn(c)
    /\ Done(c, helper.mem[c])
    /\ \/ disk' = helper.mem /\ UNCHANGED faults
       \/ Fault /\ UNCHANGED disk
    /\ UNCHANGED <<value, backup, user, leaving>>

-----------------------------------------------------------------------------
(***************************************************************************)
(* SystemDisable.                                                          *)
(***************************************************************************)
\* Without a state file there is nothing to do.
Off(cs) ==
    /\ ~Running
    /\ \E c \in Components : disk[c] # Nothing
    /\ helper' = [pc |-> "next", op |-> "off", left |-> cs, mem |-> disk,
                   now |-> Missing, was |-> Nothing]
    /\ UNCHANGED <<value, disk, backup, user, leaving, faults>>

DropBackup(c, e) ==
    backup' = IF e.original.kind = "file" THEN [backup EXCEPT ![c] = Nothing] ELSE backup

\* Mutant: `off` restores without asking whose value it replaces.
ReleaseAlways(c) ==
    LET e == helper.mem[c]
    IN /\ helper.pc = "next" /\ helper.op = "off" /\ Turn(c)
       /\ IF e = Nothing THEN Done(c, e) /\ UNCHANGED value
          ELSE value' = [value EXCEPT ![c] = e.original] /\ Go("drop")
       /\ UNCHANGED <<disk, backup, user, leaving, faults>>

\* A component without an entry is skipped, and one that is not ours is
\* released as it is.  Ours is put back; a restore that fails keeps the entry.
Release(c) ==
    LET e == helper.mem[c]
    IN /\ helper.pc = "next" /\ helper.op = "off" /\ Turn(c)
       /\ \/ /\ e = Nothing
             /\ Done(c, e) /\ UNCHANGED <<value, backup, faults>>
          \/ /\ e # Nothing /\ ~Owned(c, value[c], e)
             /\ Done(c, Nothing) /\ DropBackup(c, e) /\ UNCHANGED <<value, faults>>
          \/ /\ e # Nothing /\ Owned(c, value[c], e) /\ Restorable(c, e.original)
             /\ value' = [value EXCEPT ![c] = e.original]
             /\ Go("drop") /\ UNCHANGED <<backup, faults>>
          \/ /\ e # Nothing /\ Owned(c, value[c], e)
             /\ (Restorable(c, e.original) /\ Fault) \/ (~Restorable(c, e.original) /\ UNCHANGED faults)
             /\ Done(c, e) /\ UNCHANGED <<value, backup>>
       /\ UNCHANGED <<disk, user, leaving>>

\* The original is back: the backup goes before the state says so.
Drop(c) ==
    /\ helper.pc = "drop" /\ Turn(c)
    /\ DropBackup(c, helper.mem[c])
    /\ Done(c, Nothing)
    /\ UNCHANGED <<value, disk, user, leaving, faults>>

\* Both commands end by saving the state, or by removing it with the backups.
Finish ==
    /\ Running /\ helper.pc = "next" /\ helper.left = {}
    /\ \/ SaveState(helper.mem) /\ UNCHANGED faults
       \/ Fault /\ UNCHANGED <<disk, backup>>
    /\ helper' = Idle
    /\ UNCHANGED <<value, user, leaving>>

-----------------------------------------------------------------------------
(***************************************************************************)
(* The environment.                                                        *)
(***************************************************************************)
\* The helper is killed, or the machine stops, between any two durable steps.
Crash ==
    /\ Running /\ Fault
    /\ helper' = Idle
    /\ UNCHANGED <<value, disk, backup, user, leaving>>

\* Someone else sets a component.  A name of the profile would make their
\* value indistinguishable from sbc's, so they choose another.
SetByOther(c, v) ==
    /\ ~Running /\ ~leaving /\ v # value[c]
    /\ value' = [value EXCEPT ![c] = v]
    /\ user' = [user EXCEPT ![c] = v]
    /\ UNCHANGED <<disk, backup, helper, leaving, faults>>

\* The owner turns the feature off and repeats `off` until it is done.
Leave ==
    /\ ~leaving
    /\ leaving' = TRUE
    /\ UNCHANGED <<value, disk, backup, helper, user, faults>>

Step ==
    \/ ClaimTimezone \/ ClaimLanguage \/ WriteTimezone \/ WriteLanguage \/ Finish
    \/ \E c \in Components : \/ Unavailable(c) \/ Pend(c) \/ Record(c) \/ Rollback(c)
                             \/ Undo(c) \/ Release(c) \/ Drop(c)

Move ==
    \/ \E cs \in (SUBSET Components) \ {{}} : On(cs) \/ Off(cs)
    \/ Running /\ Step
    \/ Crash \/ Leave
    \/ \E c \in Components : \E v \in Others(c, OtherNames) : SetByOther(c, v)

-----------------------------------------------------------------------------
(***************************************************************************)
(* Where the code loses the original: a history variable that no action    *)
(* reads and that the properties except.  Someone else's next change makes *)
(* a component one like any other again.                                   *)
(***************************************************************************)
\* A change of the time zone to another target, interrupted: its record is
\* saved, sbc's earlier link is still there, and the record names the new one.
Stranded(c, e) ==
    /\ c = "timezone" /\ e # Nothing
    /\ e.pending /\ value[c] # user[c]
    /\ value[c].kind = "link" /\ value[c].name \in Zones \ {e.target}

Strands(c) == Running /\ helper' = Idle /\ Stranded(c, disk'[c])

\* `on` over an interrupted change: what sbc had written becomes the original,
\* or the original stays although its backup is gone.
Overlays(c) ==
    /\ helper.pc = "next" /\ helper.op = "on" /\ Turn(c) /\ helper'.pc = "pend"
    /\ helper.mem[c] # Nothing /\ helper.mem[c].pending
    /\ IF value[c] = helper.mem[c].written
       THEN ~Restorable(c, helper.mem[c].original) ELSE value[c] # user[c]

Track ==
    astray' = {c \in Components : Running /\ (Strands(c) \/ Overlays(c))}
                \cup {c \in astray : Running \/ value'[c] = value[c]}

Next == Move /\ Track

Spec == Init /\ [][Next]_vars

\* A started helper goes on to its end unless it crashes, and an owner who
\* wants the settings back repeats `off` while a record remains.
Fairness == WF_vars(Running /\ Step /\ Track) /\ SF_vars(leaving /\ Off(Components) /\ Track)

LiveSpec == Spec /\ Fairness

-----------------------------------------------------------------------------
(***************************************************************************)
(* Properties.                                                             *)
(***************************************************************************)
AnyValue == UNION {Values(c) : c \in Components}
AnyEntry == {Nothing} \cup UNION {Entries(c) : c \in Components}
Helper == [pc : {"next", "pend", "write", "verify", "rollback", "undo", "drop"}, op : {"on", "off"},
           left : SUBSET Components, mem : [Components -> AnyEntry], now : AnyValue, was : AnyEntry]

\* The state is well formed: every value fits its path, the saved entries are
\* entries, and a backup is a file's contents.
TypeOK ==
    /\ value \in [Components -> AnyValue] /\ user \in [Components -> AnyValue]
    /\ disk \in [Components -> AnyEntry] /\ backup \in [Components -> AnyValue \cup {Nothing}]
    /\ helper \in Helper \cup {Idle}
    /\ \A c \in Components :
         /\ value[c] \in Values(c) /\ user[c] \in Others(c, Targets(c) \cup OtherNames)
         /\ disk[c] \in Entries(c) \cup {Nothing}
         /\ backup[c] \in {v \in Values(c) : v.kind = "file"} \cup {Nothing}
         /\ Running => helper.mem[c] \in Entries(c) \cup {Nothing}
    /\ leaving \in BOOLEAN /\ astray \subseteq Components /\ faults \in 0 .. MaxFaults

\* Whenever no helper runs, a system value that is not the one someone else
\* chose is claimed by the saved record: the next `off` knows it for sbc's
\* and does not leave it behind as a change made outside sbc
\* (disableSystemTimezone, disableSystemLanguage), unless it went astray.
OurValueIsClaimed ==
    ~Running => \A c \in Components \ astray :
        value[c] # user[c] => disk[c] # Nothing /\ Owned(c, value[c], disk[c])

\* ... and `off` can give back exactly what was there: the record's original
\* is the value someone else chose, and if it is a file its backup holds it.
OriginalIsKept ==
    ~Running => \A c \in Components \ astray :
        value[c] # user[c] /\ disk[c] # Nothing =>
            /\ disk[c].original = user[c]
            /\ Restorable(c, disk[c].original)

\* `off` never installs anything but the value someone else chose.
GivesBackOnly ==
    [][\A c \in Components \ astray :
         Running /\ helper.op = "off" /\ value'[c] # value[c] => value'[c] = user[c]]_vars

\* `off` put a file back and removed its backup, and was interrupted before it
\* saved that (system.go:572-573): every later `off` fails on the old record.
Unbacked(c) == disk[c] # Nothing /\ disk[c].pending /\ ~Restorable(c, disk[c].original)

\* Once the owner wants out, repeated `off` ends with the values someone else
\* chose in place and no record left, but for a record without its backup.
SettingsComeBack ==
    <>[]leaving =>
      <>[](\A c \in Components :
             c \in astray \/ (value[c] = user[c] /\ (disk[c] = Nothing \/ Unbacked(c))))

\* "`off` restores them" (docs/README_SBC.md:452): when no record is left, what someone
\* else chose is back.  Stated of one component at least, so that a counterexample loses
\* both: the time zone to a change of target that ends between its record and its value
\* (system.go:363), the language to an `on` that is repeated over a change interrupted
\* after the file was written (system.go:427).
OffRestores ==
    ~Running /\ (\A c \in Components : disk[c] = Nothing) =>
        \E c \in Components : value[c] = user[c]

=============================================================================

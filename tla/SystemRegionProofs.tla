------------------------- MODULE SystemRegionProofs -------------------------
(***************************************************************************)
(* What holds of the root helper of region matching, for every set of      *)
(* zones and languages and every number of faults: but for a component     *)
(* that went astray, a value that is not the one someone else chose is     *)
(* claimed by the saved record, and the record gives back exactly what     *)
(* that someone chose.                                                     *)
(***************************************************************************)
EXTENDS SystemRegion, TLAPS

-----------------------------------------------------------------------------
(***************************************************************************)
(* What a record says of a value.  Both are parameters, so that the same   *)
(* can be said of the saved record, of the helper's copy and of the values *)
(* and records it goes back to.                                            *)
(***************************************************************************)
\* What a record wrote is a value of sbc or, for a language whose change did not
\* happen yet, what was there.
WellMade(c, e) ==
    /\ e \in Entries(c)
    /\ c = "timezone" => e.written \in OurValues(c) /\ e.written.name = e.target
    /\ e.written \in OurValues(c) \/ (e.pending /\ e.written = e.original)

\* A value v that someone else did not choose is claimed by e.  If e claims the value,
\* it keeps what someone else chose, u, whose contents are the backup b.
Accounts(c, v, e, u, b) ==
    /\ v # u => e # Nothing /\ Owned(c, v, e)
    /\ e # Nothing /\ Owned(c, v, e) => e.original = u
    /\ v # u /\ u.kind = "file" => b = u

\* Of component c as it is, with value v; what went astray is not accounted for.
Fits(c, v, e) ==
    /\ e # Nothing => WellMade(c, e)
    /\ c \in astray \/ Accounts(c, v, e, user[c], backup[c])

\* sbc's earlier value under the pending record of another target.
Parted(c, v, e) ==
    /\ c = "timezone" /\ e # Nothing
    /\ e.pending /\ v # user[c]
    /\ v.kind = "link" /\ v.name \in Zones \ {e.target}

\* While a helper runs, a record that does not fit is that of a change of target.
Sound(c, v, e) == Fits(c, v, e) \/ (WellMade(c, e) /\ Parted(c, v, e))

-----------------------------------------------------------------------------
(***************************************************************************)
(* The inductive invariant.                                                *)
(***************************************************************************)
\* A component that the helper does not work on.  With no helper the saved record
\* fits; the one it has not begun with is the one it has read.
AtRest(c) ==
    /\ Sound(c, value[c], disk[c])
    /\ ~Running => Fits(c, value[c], disk[c])
    /\ Running => Sound(c, value[c], helper.mem[c])
    /\ Running /\ c \in helper.left =>
         helper.mem[c] = disk[c] /\ Fits(c, value[c], disk[c])

\* The record of a change is pending, and it can be taken back: `now` and `was` fit.
Pending(c) ==
    LET e == helper.mem[c]
    IN /\ helper.op = "on" /\ helper.now \in Values(c)
       /\ e # Nothing /\ WellMade(c, e) /\ e.pending
       /\ c \in astray \/ (e.original = user[c] /\ Restorable(c, user[c]))
       /\ Fits(c, helper.now, helper.was)
       /\ Sound(c, helper.now, e)

\* The component the helper works on.  Wherever it may crash, the saved record is sound.
Changing(c) ==
    /\ Sound(c, value[c], disk[c])
    /\ helper.pc \in {"pend", "write", "verify", "rollback"} => Pending(c)
    /\ helper.pc = "pend" => value[c] = helper.now
    /\ helper.pc \in {"write", "verify", "rollback"} => disk[c] = helper.mem[c]
    /\ helper.pc = "verify" => value[c] \in OurValues(c) /\ value[c].name = helper.mem[c].target
    /\ helper.pc = "undo" => helper.op = "on" /\ Sound(c, value[c], helper.mem[c])
    /\ helper.pc = "drop" => /\ helper.mem[c] # Nothing /\ (c \in astray \/ value[c] = user[c])
                             /\ Fits(c, value[c], disk[c])

Active(c) == Running /\ helper.pc # "next" /\ Turn(c)

RegionInv ==
    /\ TypeOK
    /\ \A c \in Components : IF Active(c) THEN Changing(c) ELSE AtRest(c)

-----------------------------------------------------------------------------
(***************************************************************************)
(* Values and records.                                                     *)
(***************************************************************************)
\* A value of sbc has the kind sbc gives it and a name of the profile.
LEMMA OursIsOurs ==
  ASSUME NEW c \in Components, NEW v \in OurValues(c)
  PROVE  v \in Values(c) /\ v.kind = OurKind(c) /\ v.name \in Targets(c)
BY DEF OurValues, Values, Val

\* sbc's value for a target is one of its values.
LEMMA OursForTarget ==
  ASSUME NEW c \in Components, NEW t \in Targets(c), NEW f \in OurForms(c)
  PROVE  LET v == Val(OurKind(c), t, f)
         IN v \in OurValues(c) /\ v.name = t /\ v.kind = OurKind(c)
BY DEF OurValues, Val

\* What someone else chooses later has none of sbc's names.
LEMMA OthersAreForeign ==
  ASSUME NEW c \in Components, NEW v \in Others(c, OtherNames)
  PROVE  /\ v \in Values(c) /\ v \in Others(c, Targets(c) \cup OtherNames)
         /\ v.name \notin Targets(c)
<1>1. v.name \in OtherNames \cup {Nothing}
  BY DEF Others, Val, Missing
<1>2. v \in Others(c, Targets(c) \cup OtherNames)
  BY DEF Others
<1>3. v.name \notin Targets(c)
  BY <1>1, RegionAssumption, NothingAssumption DEF Targets
<1> QED BY <1>2, <1>3 DEF Values

\* What someone chose at first.
LEMMA OthersAreValues ==
  ASSUME NEW c \in Components, NEW v \in Others(c, Targets(c) \cup OtherNames) PROVE v \in Values(c)
BY DEF Values

\* Only as a link can someone else's value be the same as one of sbc's.
LEMMA SharedIsLink ==
  ASSUME NEW c \in Components, NEW v \in Others(c, Targets(c) \cup OtherNames), v \in OurValues(c)
  PROVE  v.kind # "file"
<1>1. CASE c = "timezone"
  BY <1>1 DEF OurValues, OurKind, Val
<1>2. CASE c = "language"
  BY <1>2 DEF OurValues, OurForms, Others, Missing, Val
<1> QED BY <1>1, <1>2 DEF Components

\* The values of a component are values, its entries entries.
LEMMA AnyOfOne ==
  ASSUME NEW c \in Components
  PROVE  /\ Values(c) \subseteq AnyValue /\ Entries(c) \cup {Nothing} \subseteq AnyEntry
         /\ Nothing \notin Entries(c)
<1>1. \A v \in Values(c) : v \in AnyValue
  BY DEF AnyValue
<1>2. \A e \in Entries(c) : e \in UNION {Entries(d) : d \in Components}
  OBVIOUS
<1>3. Nothing \notin Entries(c)
  BY NothingAssumption
<1>4. \A e \in Entries(c) \cup {Nothing} : e \in AnyEntry
  BY <1>2 DEF AnyEntry
<1> HIDE DEF Components
<1> QED BY <1>1, <1>3, <1>4

\* A component at rest, when no helper runs afterwards.
LEMMA IdleRests == ASSUME NEW c \in Components, ~Running, Fits(c, value[c], disk[c]) PROVE AtRest(c)
BY DEF AtRest, Sound

-----------------------------------------------------------------------------
(***************************************************************************)
(* Steps of the helper.                                                    *)
(***************************************************************************)
Saved(c) == Entries(c) \cup {Nothing}

\* A running helper has a helper's fields.
LEMMA HelperIsTyped ==
  ASSUME TypeOK
  PROVE  /\ Running <=> helper \in Helper
         /\ Running => /\ helper.left \subseteq Components
                       /\ helper.mem \in [Components -> AnyEntry]
                       /\ \A c \in Components : helper.mem[c] \in Saved(c)
<1>1. \A h \in Helper : h # Idle
  <2>1. Idle.pc = "idle" /\ \A h \in Helper : h.pc # "idle"
    BY DEF Idle, Helper
  <2> QED BY <2>1
<1>2. \A h \in Helper : h.left \subseteq Components /\ h.mem \in [Components -> AnyEntry]
  BY DEF Helper
<1> QED BY <1>1, <1>2 DEF TypeOK, Running, Saved

\* What a helper does not do before it begins.
LEMMA Blanks == Missing \in AnyValue /\ Nothing \in AnyEntry
<1>1. "timezone" \in Components /\ Missing \in Values("timezone")
  BY DEF Components, Values, Others
<1> QED BY <1>1, AnyOfOne

\* The helper is done with a component.
LEMMA DoneMoves ==
  ASSUME NEW c \in Components, NEW e \in Saved(c), helper \in Helper, Done(c, e)
  PROVE  /\ helper' \in Helper /\ helper'.pc = "next" /\ helper'.op = helper.op
         /\ helper'.left = helper.left \ {c} /\ helper'.mem[c] = e
         /\ \A d \in Components \ {c} : helper'.mem[d] = helper.mem[d]
<1>1. e \in AnyEntry
  BY AnyOfOne DEF Saved
<1> QED BY <1>1, Blanks DEF Done, Helper

\* The helper goes on with a component.
LEMMA GoMoves ==
  ASSUME NEW pc \in {"write", "verify", "rollback", "undo", "drop"}, Go(pc), helper \in Helper
  PROVE  /\ helper' \in Helper /\ helper'.pc = pc /\ helper'.op = helper.op
         /\ helper'.left = helper.left /\ helper'.mem = helper.mem
         /\ helper'.now = helper.now /\ helper'.was = helper.was
BY DEF Go, Helper

\* While a helper runs nothing comes back from where it went astray.
LEMMA TrackGrows ==
  ASSUME TypeOK, Track, Running PROVE astray \subseteq astray' /\ astray' \subseteq Components
BY DEF TypeOK, Track

\* With more astray there is less to account for.
LEMMA FitsStays ==
  ASSUME NEW c \in Components, NEW v, NEW e, astray \subseteq astray',
         UNCHANGED user, backup'[c] = backup[c]
  PROVE  /\ Fits(c, v, e) => Fits(c, v, e)'
         /\ Parted(c, v, e) => Parted(c, v, e)'
         /\ Sound(c, v, e) => Sound(c, v, e)'
BY DEF Fits, Parted, Sound

\* A step for component c: the other one keeps its value and its backup, and its saved
\* record, unless the helper saves its own copy of it.
StepFor(c) ==
    /\ helper.op = helper'.op /\ helper' \in Helper
    /\ \A d \in Components \ {c} :
         /\ value'[d] = value[d] /\ backup'[d] = backup[d]
         /\ disk'[d] \in {disk[d], helper.mem[d]} /\ helper'.mem[d] = helper.mem[d]
    /\ value' \in [Components -> AnyValue] /\ value'[c] \in Values(c)
    /\ disk' \in [Components -> AnyEntry] /\ disk'[c] \in Saved(c)
    /\ backup' \in [Components -> AnyValue \cup {Nothing}]
    /\ backup'[c] \in {v \in Values(c) : v.kind = "file"} \cup {Nothing}
    /\ helper'.mem[c] \in Saved(c)
    /\ UNCHANGED <<user, leaving>> /\ faults' \in 0 .. MaxFaults

\* Such a step keeps the other component at rest; for c it is enough to show that it
\* is sound too, once the helper is done with it, or that it is being changed.
LEMMA StepKeeps ==
  ASSUME RegionInv, Track, NEW c \in Components, Running, Turn(c), StepFor(c),
         \/ /\ helper'.pc = "next" /\ helper'.left = helper.left \ {c}
            /\ Sound(c, value[c], disk[c])' /\ Sound(c, value[c], helper.mem[c])'
         \/ /\ helper'.pc # "next" /\ helper'.left = helper.left /\ Changing(c)'
  PROVE  RegionInv'
<1>1. TypeOK
  BY DEF RegionInv
<1>2. TypeOK'
  <2>1. \A d \in Components :
          value'[d] \in Values(d) /\ user'[d] \in Others(d, Targets(d) \cup OtherNames)
    BY <1>1 DEF StepFor, TypeOK
  <2>2. \A d \in Components : disk'[d] \in Saved(d) /\ helper'.mem[d] \in Saved(d)
    BY <1>1, HelperIsTyped DEF StepFor, TypeOK, Saved
  <2>3. \A d \in Components : backup'[d] \in {v \in Values(d) : v.kind = "file"} \cup {Nothing}
    BY <1>1 DEF StepFor, TypeOK
  <2>4. astray' \subseteq Components
    BY <1>1, TrackGrows
  <2> QED BY <1>1, <2>1, <2>2, <2>3, <2>4 DEF StepFor, TypeOK, Saved
<1>3. Running'
  <2>1. helper' # Idle
    BY DEF StepFor, Helper, Idle
  <2> QED BY <2>1 DEF Running
<1>4. \A d \in Components \ {c} : ~Turn(d) /\ ~Active(d) /\ ~Active(d)'
  BY <1>1, HelperIsTyped DEF Turn, Active, Components
<1>5. ASSUME NEW d \in Components \ {c} PROVE AtRest(d)'
  <2>1. AtRest(d)
    BY <1>4 DEF RegionInv
  <2>2. astray \subseteq astray' /\ UNCHANGED user /\ backup'[d] = backup[d] /\ value'[d] = value[d]
    BY <1>1, TrackGrows DEF StepFor
  <2>3. Sound(d, value[d], disk[d])' /\ Sound(d, value[d], helper.mem[d])'
    <3>1. Sound(d, value[d], disk[d]) /\ Sound(d, value[d], helper.mem[d])
      BY <2>1 DEF AtRest
    <3>2. disk'[d] \in {disk[d], helper.mem[d]} /\ helper'.mem[d] = helper.mem[d]
      BY DEF StepFor
    <3> QED BY <2>2, <3>1, <3>2, FitsStays DEF Sound, Fits, Parted
  <2>4. d \in helper'.left => helper'.mem[d] = disk'[d] /\ Fits(d, value[d], disk[d])'
    <3> SUFFICES ASSUME d \in helper'.left PROVE helper'.mem[d] = disk'[d] /\ Fits(d, value[d], disk[d])'
      OBVIOUS
    <3>1. helper.mem[d] = disk[d] /\ Fits(d, value[d], disk[d])
      BY <2>1 DEF AtRest
    <3>2. disk'[d] = disk[d] /\ helper'.mem[d] = disk[d]
      BY <3>1 DEF StepFor
    <3> QED BY <2>2, <3>1, <3>2 DEF Fits
  <2> QED BY <1>3, <2>3, <2>4 DEF AtRest
<1>6. IF Active(c)' THEN Changing(c)' ELSE AtRest(c)'
  <2>1. CASE helper'.pc = "next"
    <3>1. /\ c \notin helper'.left
          /\ Sound(c, value[c], disk[c])' /\ Sound(c, value[c], helper.mem[c])'
      BY <2>1
    <3> QED BY <1>3, <2>1, <3>1 DEF Active, AtRest
  <2>2. CASE helper'.pc # "next"
    <3>1. helper'.left = helper.left /\ Changing(c)'
      BY <2>2
    <3> QED BY <1>3, <2>2, <3>1 DEF Active, Turn
  <2> QED BY <2>1, <2>2
<1> QED BY <1>2, <1>4, <1>5, <1>6 DEF RegionInv

-----------------------------------------------------------------------------
(***************************************************************************)
(* SystemApply.                                                            *)
(***************************************************************************)
\* A fault is counted.
LEMMA FaultIsCounted == ASSUME TypeOK, Fault PROVE faults' \in 0 .. MaxFaults
BY RegionAssumption DEF TypeOK, Fault

\* What the helper finds for the component whose turn it is.
LEMMA TurnHas ==
  ASSUME RegionInv, NEW c \in Components, Running, Turn(c)
  PROVE  /\ helper \in Helper /\ c \in helper.left /\ helper.mem[c] \in Saved(c)
         /\ value[c] \in Values(c) /\ disk[c] \in Saved(c)
         /\ helper.pc = "next" => helper.mem[c] = disk[c] /\ Fits(c, value[c], disk[c])
         /\ helper.pc # "next" => Changing(c)
<1>1. TypeOK
  BY DEF RegionInv
<1> QED BY <1>1, HelperIsTyped DEF RegionInv, Active, AtRest, Turn, TypeOK, Saved

\* Saving a state with an entry in it removes no backup.
LEMMA SaveKeepsBackups ==
  ASSUME NEW mem, NEW c \in Components, mem[c] # Nothing, SaveState(mem)
  PROVE  disk' = mem /\ backup' = backup
BY DEF SaveState

\* A step that leaves the value and the backup where they are.
LEMMA StillSound ==
  ASSUME RegionInv, Track, Running, NEW c \in Components, NEW e,
         UNCHANGED user, value'[c] = value[c], backup'[c] = backup[c]
  PROVE  /\ Fits(c, value[c], e) => Fits(c, value[c], e)'
         /\ Sound(c, value[c], e) => Sound(c, value[c], e)'
<1>1. astray \subseteq astray'
  BY TrackGrows DEF RegionInv
<1> QED BY <1>1 DEF Fits, Sound, Parted

\* Unavailable: the component is left as it is.
LEMMA UnavailableKeeps ==
  ASSUME RegionInv, Track, NEW c \in Components, Running, Unavailable(c) PROVE RegionInv'
<1>1. TypeOK /\ Turn(c) /\ helper.pc = "next" /\ Done(c, helper.mem[c])
      /\ UNCHANGED <<value, disk, backup, user, leaving, faults>>
  BY DEF RegionInv, Unavailable
<1>2. /\ helper \in Helper /\ helper.mem[c] \in Saved(c)
      /\ helper.mem[c] = disk[c] /\ Fits(c, value[c], disk[c])
  BY <1>1, TurnHas
<1>3. /\ helper' \in Helper /\ helper'.pc = "next" /\ helper'.op = helper.op
      /\ helper'.left = helper.left \ {c} /\ helper'.mem[c] = helper.mem[c]
      /\ \A d \in Components \ {c} : helper'.mem[d] = helper.mem[d]
  BY <1>1, <1>2, DoneMoves
<1>4. StepFor(c)
  BY <1>1, <1>2, <1>3 DEF StepFor, TypeOK, Saved
<1>5. Sound(c, value[c], disk[c])
  BY <1>2 DEF Sound
<1>6. Sound(c, value[c], disk[c])' /\ Sound(c, value[c], helper.mem[c])'
  BY <1>1, <1>2, <1>3, <1>5, StillSound DEF Sound, Fits, Parted
<1> QED BY <1>1, <1>3, <1>4, <1>6, StepKeeps

\* What Claim takes for the original is what someone else chose, and it can be given
\* back, unless it overlays an interrupted change.
LEMMA ClaimedOriginal ==
  ASSUME RegionInv, Track, Running, NEW c \in Components, Turn(c), helper.pc = "next",
         helper.op = "on", helper'.pc = "pend", UNCHANGED user, c \notin astray',
         NEW was \in Saved(c), was = helper.mem[c], NEW now \in Values(c), now = value[c],
         NEW ours \in BOOLEAN, ours <=> was # Nothing /\ now = was.written,
         ours => backup'[c] = backup[c],
         ~ours => backup'[c] = IF now.kind = "file" THEN now ELSE Nothing
  PROVE  /\ (IF ours THEN was.original ELSE now) = user[c]
         /\ ours => was # Nothing /\ was.written = now
         /\ Restorable(c, user[c])'
<1>1. TypeOK /\ ~Overlays(c)
  BY DEF RegionInv, Track
<1>2. c \notin astray
  BY <1>1, TrackGrows
<1>3. Fits(c, now, was)
  BY TurnHas
<1>4. Accounts(c, now, was, user[c], backup[c]) /\ (was # Nothing => WellMade(c, was))
  BY <1>2, <1>3 DEF Fits
<1>5. was # Nothing /\ was.pending =>
        IF now = was.written THEN Restorable(c, was.original) ELSE now = user[c]
  BY <1>1 DEF Overlays
<1>6. CASE ours
  <2>1. was # Nothing /\ was.written = now /\ Owned(c, now, was) /\ was.original = user[c]
    BY <1>4, <1>6 DEF Accounts, Owned, TimezoneOwned, LanguageOwned
  <2>2. CASE was.pending
    BY <1>5, <1>6, <2>1, <2>2 DEF Restorable
  <2>3. CASE ~was.pending
    <3>1. now \in OurValues(c)
      BY <1>4, <2>1, <2>3 DEF WellMade
    <3>2. user[c].kind = "file" => now # user[c]
      BY <1>1, <3>1, SharedIsLink DEF TypeOK
    <3> QED BY <1>4, <1>6, <2>1, <3>2 DEF Accounts, Restorable
  <2> QED BY <1>6, <2>1, <2>2, <2>3
<1>7. CASE ~ours
  <2>1. now = user[c]
    <3>1. CASE was = Nothing
      BY <1>4, <3>1 DEF Accounts
    <3>2. CASE was # Nothing /\ was.pending
      BY <1>5, <1>7, <3>2
    <3>3. CASE was # Nothing /\ ~was.pending
      <4>1. ~Owned(c, now, was)
        BY <1>7, <3>3 DEF Owned, TimezoneOwned, LanguageOwned, WellMade, Entries
      <4> QED BY <1>4, <4>1 DEF Accounts
    <3> QED BY <3>1, <3>2, <3>3
  <2> QED BY <1>7, <2>1 DEF Restorable
<1> QED BY <1>6, <1>7

\* Claim: what is there becomes the original, unless it is sbc's own value.
LEMMA ClaimKeeps ==
  ASSUME RegionInv, Track, Running, NEW c \in Components, NEW target \in Targets(c),
         NEW written \in Values(c),
         c = "timezone" => written \in OurValues(c) /\ written.name = target,
         c = "language" => written = value[c],
         Claim(c, target, written)
  PROVE  RegionInv'
<1>1. /\ TypeOK /\ Turn(c) /\ helper.pc = "next" /\ helper.op = "on"
      /\ UNCHANGED <<value, disk, user, leaving, faults>>
      /\ TypeOK => astray \subseteq astray'
  BY TrackGrows DEF RegionInv, Claim
<1>2. /\ helper \in Helper /\ c \in helper.left /\ helper.mem[c] \in Saved(c)
      /\ value[c] \in Values(c) /\ helper.mem[c] = disk[c] /\ Fits(c, value[c], disk[c])
  BY <1>1, TurnHas
<1>3. PICK was \in Saved(c) : was = helper.mem[c]
  BY <1>2
<1>4. PICK now \in Values(c) : now = value[c]
  BY <1>2
<1>5. /\ disk[c] = was /\ (was # Nothing => was \in Entries(c) /\ WellMade(c, was))
      /\ Fits(c, now, was)
  BY <1>2, <1>3, <1>4 DEF Saved, Fits
<1>6. PICK ours \in BOOLEAN : ours <=> was # Nothing /\ now = was.written
  OBVIOUS
<1>7. Read(c).ours = ours /\ Read(c).now = now
  BY <1>3, <1>4, <1>6 DEF Read
<1>8. CASE ours /\ was.target = target /\ ~was.pending
  <2>1. Done(c, was) /\ UNCHANGED backup
    BY <1>3, <1>7, <1>8 DEF Claim
  <2>2. /\ helper' \in Helper /\ helper'.pc = "next" /\ helper'.op = helper.op
        /\ helper'.left = helper.left \ {c} /\ helper'.mem[c] = was
        /\ \A d \in Components \ {c} : helper'.mem[d] = helper.mem[d]
    BY <1>2, <2>1, DoneMoves
  <2>3. StepFor(c)
    BY <1>1, <1>2, <2>1, <2>2 DEF StepFor, TypeOK, Saved
  <2>4. Sound(c, value[c], disk[c])' /\ Sound(c, value[c], helper.mem[c])'
    BY <1>1, <1>4, <1>5, <2>1, <2>2 DEF Fits, Sound
  <2> QED BY <1>1, <2>2, <2>3, <2>4, StepKeeps
<1>9. CASE ~(ours /\ was.target = target /\ ~was.pending)
  <2>1. PICK original \in Values(c) : original = IF ours THEN was.original ELSE now
    BY <1>5, <1>6 DEF Entries
  <2>2. PICK e \in Entries(c) : e = [target |-> target, pending |-> TRUE, written |-> written,
                                     original |-> original]
    BY <2>1 DEF Entries
  <2>3. /\ IF ours THEN UNCHANGED backup ELSE Snapshot(c, now)
        /\ helper' = [helper EXCEPT !.pc = "pend", !.now = now, !.was = was, !.mem[c] = e]
    BY <1>3, <1>7, <1>9, <2>1, <2>2 DEF Claim
  <2>4. /\ helper' \in Helper /\ helper'.pc = "pend" /\ helper'.op = "on"
        /\ helper'.left = helper.left /\ helper'.mem[c] = e
        /\ helper'.now = now /\ helper'.was = was
        /\ \A d \in Components \ {c} : helper'.mem[d] = helper.mem[d]
    <3>1. now \in AnyValue /\ was \in AnyEntry /\ e \in AnyEntry
      BY AnyOfOne DEF Saved
    <3> QED BY <1>1, <1>2, <2>3, <3>1 DEF Helper
  <2>5. /\ backup' \in [Components -> AnyValue \cup {Nothing}]
        /\ backup'[c] \in {v \in Values(c) : v.kind = "file"} \cup {Nothing}
        /\ \A d \in Components \ {c} : backup'[d] = backup[d]
        /\ ours => backup'[c] = backup[c]
        /\ ~ours => backup'[c] = IF now.kind = "file" THEN now ELSE Nothing
    <3>1. now \in AnyValue
      BY AnyOfOne
    <3> QED BY <1>1, <2>3, <3>1 DEF TypeOK, Snapshot
  <2>6. StepFor(c)
    BY <1>1, <1>2, <2>4, <2>5 DEF StepFor, TypeOK, Saved
  <2>7. c \notin astray' => original = user[c] /\ (~ours => now = user[c]) /\ Restorable(c, user[c])'
    BY <1>1, <1>3, <1>4, <1>6, <2>1, <2>4, <2>5, ClaimedOriginal
  <2>8. WellMade(c, e)
    BY <1>4, <1>5, <1>6, <2>1, <2>2 DEF WellMade, Components
  <2>9. Fits(c, now, was)'
    <3>1. c \notin astray' => Accounts(c, now, was, user[c], backup[c])
      BY <1>1, <1>5 DEF Fits
    <3>2. c \notin astray' => Accounts(c, now, was, user[c], backup'[c])
      BY <2>5, <2>7, <3>1 DEF Accounts
    <3> QED BY <1>1, <1>5, <3>2 DEF Fits
  <2>10. Sound(c, now, e)'
    <3> SUFFICES ASSUME c \notin astray', ~Parted(c, now, e)'
                 PROVE  Accounts(c, now, e, user[c], backup'[c])
      BY <1>1, <2>8, AnyOfOne DEF Sound, Fits
    <3>1. Accounts(c, now, was, user[c], backup'[c]) /\ e.original = user[c] /\ e # Nothing
      BY <1>1, <2>2, <2>7, <2>9, AnyOfOne DEF Fits
    <3>2. CASE now = user[c]
      BY <3>1, <3>2 DEF Accounts
    <3>3. CASE now # user[c]
      <4>1. ours /\ now = was.written /\ was # Nothing
        BY <1>6, <2>7, <3>3
      <4>2. CASE c = "language"
        BY <1>1, <1>4, <2>2, <3>1, <3>3, <4>2 DEF Accounts, Owned, LanguageOwned
      <4>3. CASE c = "timezone"
        <5>1. now.kind = "link" /\ now.name \in Zones
          BY <1>5, <4>1, <4>3, OursIsOurs DEF WellMade, OurKind, Targets
        <5>2. now.name = target
          BY <1>1, <2>2, <3>1, <3>3, <4>3, <5>1 DEF Parted
        <5> QED BY <2>2, <3>1, <3>3, <4>3, <5>1, <5>2 DEF Accounts, Owned, TimezoneOwned
      <4> QED BY <4>2, <4>3 DEF Components
    <3> QED BY <3>2, <3>3
  <2>11. Pending(c)'
    <3>1. e # Nothing /\ e.pending /\ e.original = original
      BY <2>2, AnyOfOne
    <3> QED BY <1>1, <2>4, <2>7, <2>8, <2>9, <2>10, <3>1 DEF Pending
  <2>12. Sound(c, value[c], disk[c])'
    BY <1>1, <1>4, <1>5, <2>9 DEF Sound
  <2>13. Changing(c)'
    BY <1>1, <1>4, <2>4, <2>11, <2>12 DEF Changing
  <2> QED BY <1>1, <2>4, <2>6, <2>13, StepKeeps
<1> QED BY <1>8, <1>9

\* ClaimTimezone, ClaimLanguage: the two records.
LEMMA ClaimsKeep ==
  ASSUME RegionInv, Track, Running, ClaimTimezone \/ ClaimLanguage PROVE RegionInv'
<1>1. ASSUME NEW zone \in Zones, Claim("timezone", zone, Val("link", zone, "abs")) PROVE RegionInv'
  <2>1. PICK w : w = Val("link", zone, "abs")
    OBVIOUS
  <2>2. /\ "timezone" \in Components /\ "abs" \in OurForms("timezone")
        /\ OurKind("timezone") = "link" /\ zone \in Targets("timezone")
    BY DEF Components, OurForms, OurKind, Targets
  <2>3. w \in OurValues("timezone") /\ w.name = zone
    BY <2>1, <2>2, OursForTarget
  <2>4. w \in Values("timezone")
    BY <2>2, <2>3, OursIsOurs
  <2> QED BY <1>1, <2>1, <2>2, <2>3, <2>4, ClaimKeeps
<1>2. ASSUME NEW language \in Languages, Claim("language", language, value["language"])
      PROVE  RegionInv'
  <2>1. "language" \in Components /\ language \in Targets("language")
    BY DEF Components, Targets
  <2>2. PICK w \in Values("language") : w = value["language"]
    BY <2>1 DEF RegionInv, TypeOK
  <2> QED BY <1>2, <2>1, <2>2, ClaimKeeps
<1> QED BY <1>1, <1>2 DEF ClaimTimezone, ClaimLanguage

\* A value that the helper just wrote is claimed by the pending record.
LEMMA WrittenFits ==
  ASSUME TypeOK, NEW c \in Components, Pending(c),
         NEW v \in OurValues(c), v.name = helper.mem[c].target
  PROVE  Owned(c, v, helper.mem[c]) /\ Fits(c, v, helper.mem[c])
<1>1. v.kind = OurKind(c)
  BY OursIsOurs
<1>2. Owned(c, v, helper.mem[c])
  BY <1>1 DEF Pending, Owned, TimezoneOwned, LanguageOwned, OurKind
<1> QED BY <1>2 DEF Pending, Fits, Accounts, Restorable

\* What a step that leaves the helper's copy alone keeps of a change.
LEMMA PendingStays ==
  ASSUME NEW c \in Components, Pending(c), UNCHANGED <<user, backup>>, astray \subseteq astray',
         helper'.op = helper.op, helper'.mem[c] = helper.mem[c],
         helper'.now = helper.now, helper'.was = helper.was
  PROVE  Pending(c)'
<1>1. c \in astray => c \in astray'
  OBVIOUS
<1> QED BY <1>1 DEF Pending, Fits, Sound, Parted, Restorable

\* Pend: the pending record is saved, or the component is given up untouched.
LEMMA PendKeeps ==
  ASSUME RegionInv, Track, NEW c \in Components, Running, Pend(c) PROVE RegionInv'
<1>1. /\ TypeOK /\ Turn(c) /\ helper.pc = "pend" /\ UNCHANGED <<value, user, leaving>>
      /\ TypeOK => astray \subseteq astray'
  BY TrackGrows DEF RegionInv, Pend
<1>2. helper \in Helper /\ helper.mem[c] \in Saved(c) /\ Changing(c)
  BY <1>1, TurnHas
<1>3. /\ Pending(c) /\ helper.mem[c] # Nothing /\ value[c] = helper.now
      /\ Sound(c, value[c], disk[c]) /\ Sound(c, value[c], helper.mem[c])
  BY <1>1, <1>2 DEF Changing, Pending
<1>4. CASE SaveState(helper.mem) /\ Go("write") /\ UNCHANGED faults
  <2>1. disk' = helper.mem /\ backup' = backup
    BY <1>3, <1>4, SaveKeepsBackups
  <2>2. /\ helper' \in Helper /\ helper'.pc = "write" /\ helper'.op = helper.op
        /\ helper'.left = helper.left /\ helper'.mem = helper.mem
        /\ helper'.now = helper.now /\ helper'.was = helper.was
    BY <1>2, <1>4, GoMoves
  <2>3. StepFor(c)
    BY <1>1, <1>2, <1>4, <2>1, <2>2, HelperIsTyped DEF StepFor, TypeOK, Saved
  <2>4. Pending(c)'
    BY <1>1, <1>3, <2>1, <2>2, PendingStays
  <2>5. Sound(c, value[c], disk[c])'
    BY <1>1, <1>3, <2>1 DEF Sound, Fits, Parted
  <2>6. Changing(c)'
    BY <1>1, <1>3, <2>1, <2>2, <2>4, <2>5 DEF Changing
  <2> QED BY <1>1, <2>2, <2>3, <2>6, StepKeeps
<1>5. CASE Fault /\ Done(c, helper.mem[c]) /\ UNCHANGED <<disk, backup>>
  <2>1. faults' \in 0 .. MaxFaults
    BY <1>1, <1>5, FaultIsCounted
  <2>2. /\ helper' \in Helper /\ helper'.pc = "next" /\ helper'.op = helper.op
        /\ helper'.left = helper.left \ {c} /\ helper'.mem[c] = helper.mem[c]
        /\ \A d \in Components \ {c} : helper'.mem[d] = helper.mem[d]
    BY <1>2, <1>5, DoneMoves
  <2>3. StepFor(c)
    BY <1>1, <1>2, <1>5, <2>1, <2>2 DEF StepFor, TypeOK, Saved
  <2>4. Sound(c, value[c], disk[c])' /\ Sound(c, value[c], helper.mem[c])'
    BY <1>1, <1>3, <1>5, <2>2 DEF Sound, Fits, Parted
  <2> QED BY <1>1, <2>2, <2>3, <2>4, StepKeeps
<1> QED BY <1>4, <1>5 DEF Pend

\* A tool, or the helper itself, writes the value or not.
LEMMA WriteMoves ==
  ASSUME RegionInv, Track, NEW c \in Components, Running, Turn(c), helper.pc = "write",
         UNCHANGED <<disk, backup, user, leaving, faults>>,
         NEW v \in OurValues(c), v.name = helper.mem[c].target,
         \/ value' = [value EXCEPT ![c] = v] /\ (Go("verify") \/ Go("rollback"))
         \/ Go("rollback") /\ UNCHANGED value
  PROVE  RegionInv'
<1>1. TypeOK /\ (TypeOK => astray \subseteq astray')
  BY TrackGrows DEF RegionInv
<1>2. helper \in Helper /\ helper.mem[c] \in Saved(c) /\ Changing(c)
  BY <1>1, TurnHas
<1>3. Pending(c) /\ disk[c] = helper.mem[c] /\ Sound(c, value[c], helper.mem[c])
  BY <1>2 DEF Changing
<1>4. /\ helper' \in Helper /\ helper'.pc \in {"verify", "rollback"} /\ helper'.op = helper.op
      /\ helper'.left = helper.left /\ helper'.mem = helper.mem
      /\ helper'.now = helper.now /\ helper'.was = helper.was
  BY <1>2, GoMoves
<1>5. /\ value' \in [Components -> AnyValue]
      /\ \A d \in Components \ {c} : value'[d] = value[d]
      /\ value'[c] = v \/ (value'[c] = value[c] /\ helper'.pc = "rollback")
  <2>1. v \in AnyValue
    BY OursIsOurs, AnyOfOne
  <2>2. CASE value' = [value EXCEPT ![c] = v]
    BY <1>1, <2>1, <2>2 DEF TypeOK
  <2>3. CASE Go("rollback") /\ UNCHANGED value
    BY <1>1, <1>2, <2>3, GoMoves DEF TypeOK
  <2> QED BY <2>2, <2>3
<1>6. value'[c] \in Values(c)
  BY <1>1, <1>5, OursIsOurs DEF TypeOK
<1>7. StepFor(c)
  BY <1>1, <1>2, <1>4, <1>5, <1>6, HelperIsTyped DEF StepFor, TypeOK, Saved
<1>8. Pending(c)'
  BY <1>1, <1>3, <1>4, PendingStays
<1>9. Fits(c, v, helper.mem[c])
  BY <1>1, <1>3, WrittenFits
<1>10. Sound(c, value'[c], helper.mem[c])
  BY <1>3, <1>5, <1>9 DEF Sound
<1>11. Sound(c, value[c], disk[c])'
  BY <1>1, <1>3, <1>10 DEF Sound, Fits, Parted
<1>12. Changing(c)'
  BY <1>3, <1>4, <1>5, <1>8, <1>11 DEF Changing
<1> QED BY <1>4, <1>7, <1>12, StepKeeps

\* WriteTimezone, WriteLanguage.
LEMMA WritesKeep ==
  ASSUME RegionInv, Track, Running, WriteTimezone \/ WriteLanguage PROVE RegionInv'
<1>1. ASSUME NEW c \in Components, Turn(c), helper.pc = "write"
      PROVE  helper.mem[c].target \in Targets(c)
  BY <1>1, TurnHas DEF Changing, Pending, WellMade, Entries
<1>2. CASE WriteTimezone
  <2>1. "timezone" \in Components /\ OurKind("timezone") = "link"
    BY DEF Components, OurKind
  <2>2. ASSUME NEW f \in OurForms("timezone"),
               \/ /\ value' = [value EXCEPT !["timezone"] =
                                 Val("link", helper.mem["timezone"].target, f)]
                  /\ Go("verify")
               \/ Go("rollback") /\ UNCHANGED value
        PROVE  RegionInv'
    <3>1. helper.mem["timezone"].target \in Targets("timezone")
      BY <1>1, <1>2, <2>1 DEF WriteTimezone
    <3>2. PICK v \in OurValues("timezone") :
                 /\ v = Val("link", helper.mem["timezone"].target, f)
                 /\ v.name = helper.mem["timezone"].target
      BY <2>1, <3>1, OursForTarget
    <3> QED BY <1>2, <2>1, <2>2, <3>2, WriteMoves DEF WriteTimezone
  <2>3. "abs" \in OurForms("timezone")
    BY DEF OurForms
  <2> QED BY <1>2, <2>2, <2>3 DEF WriteTimezone
<1>3. CASE WriteLanguage
  <2>1. "language" \in Components /\ OurKind("language") = "file" /\ "sbc" \in OurForms("language")
    BY DEF Components, OurKind, OurForms
  <2>2. helper.mem["language"].target \in Targets("language")
    BY <1>1, <1>3, <2>1 DEF WriteLanguage
  <2>3. PICK v \in OurValues("language") :
               /\ v = Val("file", helper.mem["language"].target, "sbc")
               /\ v.name = helper.mem["language"].target
    BY <2>1, <2>2, OursForTarget
  <2> QED BY <1>3, <2>1, <2>3, WriteMoves DEF WriteLanguage
<1> QED BY <1>2, <1>3

\* Record: the record of the value that is there; the saved one may stay pending.
LEMMA RecordKeeps ==
  ASSUME RegionInv, Track, NEW c \in Components, Running, Record(c) PROVE RegionInv'
<1>1. /\ TypeOK /\ Turn(c) /\ helper.pc = "verify" /\ UNCHANGED <<value, user, leaving>>
      /\ TypeOK => astray \subseteq astray'
  BY TrackGrows DEF RegionInv, Record
<1>2. /\ helper \in Helper /\ helper.mem[c] \in Saved(c) /\ Changing(c) /\ value[c] \in Values(c)
      /\ helper.mem \in [Components -> AnyEntry]
  BY <1>1, TurnHas, HelperIsTyped
<1>3. /\ Pending(c) /\ disk[c] = helper.mem[c] /\ Sound(c, value[c], disk[c])
      /\ value[c] \in OurValues(c) /\ value[c].name = helper.mem[c].target
  BY <1>1, <1>2 DEF Changing
<1>4. helper.mem[c] \in Entries(c) /\ WellMade(c, helper.mem[c])
  BY <1>2, <1>3 DEF Pending, Saved
<1>5. PICK e \in Entries(c) : e = [helper.mem[c] EXCEPT !.written = value[c], !.pending = FALSE]
  BY <1>2, <1>4 DEF Entries
<1>6. /\ e.target = helper.mem[c].target /\ e.original = helper.mem[c].original
      /\ e.written = value[c] /\ e # Nothing
  BY <1>4, <1>5, AnyOfOne DEF Entries
<1>7. Done(c, e)
  BY <1>5 DEF Record
<1>8. /\ helper' \in Helper /\ helper'.pc = "next" /\ helper'.op = helper.op
      /\ helper'.left = helper.left \ {c} /\ helper'.mem[c] = e
      /\ \A d \in Components \ {c} : helper'.mem[d] = helper.mem[d]
  BY <1>2, <1>7, DoneMoves DEF Saved
<1>9. /\ backup' = backup /\ faults' \in 0 .. MaxFaults
      /\ disk' = [helper.mem EXCEPT ![c] = e] \/ disk' = disk
  <2>1. CASE SaveState([helper.mem EXCEPT ![c] = e]) /\ UNCHANGED faults
    <3>1. PICK mem : mem = [helper.mem EXCEPT ![c] = e]
      OBVIOUS
    <3>2. mem[c] # Nothing /\ SaveState(mem)
      BY <1>2, <1>6, <2>1, <3>1
    <3> QED BY <1>1, <2>1, <3>1, <3>2, SaveKeepsBackups DEF TypeOK
  <2>2. CASE Fault /\ UNCHANGED <<disk, backup>>
    BY <1>1, <2>2, FaultIsCounted
  <2> QED BY <1>5, <2>1, <2>2 DEF Record
<1>10. e \in AnyEntry
  BY AnyOfOne
<1>11. StepFor(c)
  BY <1>1, <1>2, <1>8, <1>9, <1>10 DEF StepFor, TypeOK, Saved
<1>12. Fits(c, value[c], e)
  <2>1. WellMade(c, e)
    BY <1>3, <1>4, <1>6 DEF WellMade
  <2>2. Owned(c, value[c], e)
    BY <1>6 DEF Owned, TimezoneOwned, LanguageOwned
  <2>3. c \notin astray => e.original = user[c] /\ (user[c].kind = "file" => backup[c] = user[c])
    BY <1>3, <1>6 DEF Pending, Restorable
  <2> QED BY <1>6, <2>1, <2>2, <2>3 DEF Fits, Accounts
<1>13. Sound(c, value[c], disk[c])' /\ Sound(c, value[c], helper.mem[c])'
  BY <1>1, <1>2, <1>3, <1>8, <1>9, <1>12 DEF Sound, Fits, Parted
<1> QED BY <1>1, <1>8, <1>11, <1>13, StepKeeps

\* Rollback: the value before the change comes back with the record it had; when that
\* fails, the pending record stays.
LEMMA RollbackKeeps ==
  ASSUME RegionInv, Track, NEW c \in Components, Running, Rollback(c) PROVE RegionInv'
<1>1. /\ TypeOK /\ Turn(c) /\ helper.pc = "rollback" /\ UNCHANGED <<disk, backup, user, leaving>>
      /\ TypeOK => astray \subseteq astray'
  BY TrackGrows DEF RegionInv, Rollback
<1>2. helper \in Helper /\ helper.mem[c] \in Saved(c) /\ Changing(c)
  BY <1>1, TurnHas
<1>3. Pending(c) /\ disk[c] = helper.mem[c] /\ Sound(c, value[c], disk[c])
  BY <1>1, <1>2 DEF Changing
<1>4. CASE /\ value' = [value EXCEPT ![c] = helper.now]
           /\ helper' = [helper EXCEPT !.pc = "undo", !.mem[c] = helper.was]
           /\ UNCHANGED faults
  <2>1. helper.now \in AnyValue /\ helper.was \in AnyEntry /\ helper.now \in Values(c)
    BY <1>2, <1>3 DEF Helper, Pending
  <2>2. /\ helper' \in Helper /\ helper'.pc = "undo" /\ helper'.op = helper.op
        /\ helper'.left = helper.left /\ helper'.mem[c] = helper.was
        /\ \A d \in Components \ {c} : helper'.mem[d] = helper.mem[d]
    BY <1>2, <1>4, <2>1 DEF Helper
  <2>3. /\ value' \in [Components -> AnyValue] /\ value'[c] = helper.now
        /\ \A d \in Components \ {c} : value'[d] = value[d]
    BY <1>1, <1>4, <2>1 DEF TypeOK
  <2>4. helper.was \in Saved(c) /\ helper.op = "on"
    BY <1>3 DEF Pending, Fits, WellMade, Saved
  <2>5. StepFor(c)
    BY <1>1, <1>2, <1>4, <2>1, <2>2, <2>3, <2>4 DEF StepFor, TypeOK, Saved
  <2>6. Sound(c, value[c], helper.mem[c])' /\ Sound(c, value[c], disk[c])'
    BY <1>1, <1>3, <2>2, <2>3 DEF Pending, Sound, Fits, Parted
  <2>7. Changing(c)'
    BY <2>2, <2>4, <2>6 DEF Changing
  <2> QED BY <1>1, <2>2, <2>5, <2>7, StepKeeps
<1>5. CASE Fault /\ Go("undo") /\ UNCHANGED value
  <2>1. faults' \in 0 .. MaxFaults
    BY <1>1, <1>5, FaultIsCounted
  <2>2. /\ helper' \in Helper /\ helper'.pc = "undo" /\ helper'.op = helper.op
        /\ helper'.left = helper.left /\ helper'.mem = helper.mem
    BY <1>2, <1>5, GoMoves
  <2>3. StepFor(c)
    BY <1>1, <1>2, <1>5, <2>1, <2>2 DEF StepFor, TypeOK, Saved
  <2>4. Sound(c, value[c], disk[c])' /\ Sound(c, value[c], helper.mem[c])'
    BY <1>1, <1>3, <1>5, <2>2 DEF Sound, Fits, Parted
  <2>5. Changing(c)'
    BY <1>3, <2>2, <2>4 DEF Changing, Pending
  <2> QED BY <1>1, <2>2, <2>3, <2>5, StepKeeps
<1> QED BY <1>4, <1>5 DEF Rollback

\* Undo: the helper's record is saved, or the pending one stays on the disk.
LEMMA UndoKeeps ==
  ASSUME RegionInv, Track, NEW c \in Components, Running, Undo(c) PROVE RegionInv'
<1>1. /\ TypeOK /\ Turn(c) /\ helper.pc = "undo" /\ Done(c, helper.mem[c])
      /\ UNCHANGED <<value, backup, user, leaving>>
      /\ TypeOK => astray \subseteq astray'
  BY TrackGrows DEF RegionInv, Undo
<1>2. /\ helper \in Helper /\ helper.mem[c] \in Saved(c) /\ Changing(c)
      /\ helper.mem \in [Components -> AnyEntry]
  BY <1>1, TurnHas, HelperIsTyped
<1>3. /\ helper' \in Helper /\ helper'.pc = "next" /\ helper'.op = helper.op
      /\ helper'.left = helper.left \ {c} /\ helper'.mem[c] = helper.mem[c]
      /\ \A d \in Components \ {c} : helper'.mem[d] = helper.mem[d]
  BY <1>1, <1>2, DoneMoves
<1>4. (disk' = helper.mem \/ disk' = disk) /\ faults' \in 0 .. MaxFaults
  BY <1>1, FaultIsCounted DEF Undo, TypeOK
<1>5. StepFor(c)
  BY <1>1, <1>2, <1>3, <1>4 DEF StepFor, TypeOK, Saved
<1>6. Sound(c, value[c], disk[c]) /\ Sound(c, value[c], helper.mem[c])
  BY <1>1, <1>2 DEF Changing
<1>7. Sound(c, value[c], disk[c])' /\ Sound(c, value[c], helper.mem[c])'
  BY <1>1, <1>3, <1>4, <1>6 DEF Sound, Fits, Parted
<1> QED BY <1>1, <1>3, <1>5, <1>7, StepKeeps

-----------------------------------------------------------------------------
(***************************************************************************)
(* SystemDisable.                                                          *)
(***************************************************************************)
\* Dropping a backup touches that of the component alone.
LEMMA DropMoves ==
  ASSUME TypeOK, NEW c \in Components, NEW e, DropBackup(c, e)
  PROVE  /\ backup' \in [Components -> AnyValue \cup {Nothing}]
         /\ backup'[c] \in {v \in Values(c) : v.kind = "file"} \cup {Nothing}
         /\ \A d \in Components \ {c} : backup'[d] = backup[d]
BY DEF TypeOK, DropBackup

\* Release: nothing recorded, not ours, put back, or kept for the next time.
LEMMA ReleaseKeeps ==
  ASSUME RegionInv, Track, NEW c \in Components, Running, Release(c) PROVE RegionInv'
<1>1. /\ TypeOK /\ Turn(c) /\ helper.pc = "next" /\ helper.op = "off"
      /\ UNCHANGED <<disk, user, leaving>>
      /\ TypeOK => astray \subseteq astray'
  BY TrackGrows DEF RegionInv, Release
<1>2. helper \in Helper /\ c \in helper.left /\ helper.mem[c] \in Saved(c)
  BY <1>1, TurnHas
<1>3. PICK e \in Saved(c) : e = helper.mem[c]
  BY <1>2
<1>4. e = disk[c] /\ Fits(c, value[c], e)
  BY <1>1, <1>3, TurnHas
<1>5. ASSUME NEW f \in Saved(c), Done(c, f), UNCHANGED value,
             \/ f = e /\ UNCHANGED backup
             \/ /\ f = Nothing /\ DropBackup(c, e)
                /\ c \notin astray => value[c] = user[c],
             faults' \in 0 .. MaxFaults
      PROVE  RegionInv'
  <2>1. /\ helper' \in Helper /\ helper'.pc = "next" /\ helper'.op = helper.op
        /\ helper'.left = helper.left \ {c} /\ helper'.mem[c] = f
        /\ \A d \in Components \ {c} : helper'.mem[d] = helper.mem[d]
    BY <1>2, <1>5, DoneMoves
  <2>2. /\ backup' \in [Components -> AnyValue \cup {Nothing}]
        /\ backup'[c] \in {v \in Values(c) : v.kind = "file"} \cup {Nothing}
        /\ \A d \in Components \ {c} : backup'[d] = backup[d]
    BY <1>1, <1>5, DropMoves DEF TypeOK
  <2>3. StepFor(c)
    BY <1>1, <1>2, <1>5, <2>1, <2>2 DEF StepFor, TypeOK, Saved
  <2>4. Fits(c, value[c], disk[c])' /\ Fits(c, value[c], helper.mem[c])'
    <3>1. CASE f = e /\ UNCHANGED backup
      BY <1>1, <1>4, <1>5, <2>1, <3>1 DEF Fits
    <3>2. CASE f = Nothing /\ (c \notin astray => value[c] = user[c])
      BY <1>1, <1>4, <1>5, <2>1, <3>2 DEF Fits, Accounts
    <3> QED BY <1>5, <3>1, <3>2
  <2> QED BY <1>1, <2>1, <2>3, <2>4, StepKeeps DEF Sound
<1>6. CASE e = Nothing /\ Done(c, e) /\ UNCHANGED <<value, backup, faults>>
  BY <1>1, <1>5, <1>6 DEF TypeOK
<1>7. CASE /\ e # Nothing /\ ~Owned(c, value[c], e)
           /\ Done(c, Nothing) /\ DropBackup(c, e) /\ UNCHANGED <<value, faults>>
  <2>1. c \notin astray => value[c] = user[c]
    BY <1>4, <1>7 DEF Fits, Accounts
  <2> QED BY <1>1, <1>5, <1>7, <2>1 DEF TypeOK, Saved
<1>8. CASE /\ e # Nothing /\ Owned(c, value[c], e) /\ Restorable(c, e.original)
           /\ value' = [value EXCEPT ![c] = e.original]
           /\ Go("drop") /\ UNCHANGED <<backup, faults>>
  <2>1. e.original \in Values(c) /\ (c \notin astray => e.original = user[c])
    BY <1>4, <1>8 DEF Fits, Accounts, WellMade, Entries
  <2>2. /\ helper' \in Helper /\ helper'.pc = "drop" /\ helper'.op = helper.op
        /\ helper'.left = helper.left /\ helper'.mem = helper.mem
    BY <1>2, <1>8, GoMoves
  <2>3. /\ value' \in [Components -> AnyValue] /\ value'[c] = e.original
        /\ \A d \in Components \ {c} : value'[d] = value[d]
    BY <1>1, <1>8, <2>1, AnyOfOne DEF TypeOK
  <2>4. StepFor(c)
    BY <1>1, <1>2, <1>8, <2>1, <2>2, <2>3 DEF StepFor, TypeOK, Saved
  <2>5. Fits(c, value[c], disk[c])'
    BY <1>1, <1>4, <1>8, <2>1, <2>3 DEF Fits, Accounts
  <2>6. Changing(c)'
    BY <1>1, <1>3, <1>8, <2>1, <2>2, <2>3, <2>5 DEF Changing, Sound
  <2> QED BY <1>1, <2>2, <2>4, <2>6, StepKeeps
<1>9. CASE /\ \/ Restorable(c, e.original) /\ Fault
              \/ ~Restorable(c, e.original) /\ UNCHANGED faults
           /\ Done(c, e) /\ UNCHANGED <<value, backup>>
  <2>1. faults' \in 0 .. MaxFaults
    BY <1>1, <1>9, FaultIsCounted DEF TypeOK
  <2> QED BY <1>5, <1>9, <2>1
<1> QED BY <1>3, <1>6, <1>7, <1>8, <1>9 DEF Release

\* Drop: the backup of what is back goes, and then the record.
LEMMA DropKeeps ==
  ASSUME RegionInv, Track, NEW c \in Components, Running, Drop(c) PROVE RegionInv'
<1>1. /\ TypeOK /\ Turn(c) /\ helper.pc = "drop" /\ DropBackup(c, helper.mem[c]) /\ Done(c, Nothing)
      /\ UNCHANGED <<value, disk, user, leaving, faults>>
      /\ TypeOK => astray \subseteq astray'
  BY TrackGrows DEF RegionInv, Drop
<1>2. helper \in Helper /\ Changing(c)
  BY <1>1, TurnHas
<1>3. (c \in astray \/ value[c] = user[c]) /\ Fits(c, value[c], disk[c])
  BY <1>1, <1>2 DEF Changing
<1>4. /\ helper' \in Helper /\ helper'.pc = "next" /\ helper'.op = helper.op
      /\ helper'.left = helper.left \ {c} /\ helper'.mem[c] = Nothing
      /\ \A d \in Components \ {c} : helper'.mem[d] = helper.mem[d]
  BY <1>1, <1>2, DoneMoves DEF Saved
<1>5. /\ backup' \in [Components -> AnyValue \cup {Nothing}]
      /\ backup'[c] \in {v \in Values(c) : v.kind = "file"} \cup {Nothing}
      /\ \A d \in Components \ {c} : backup'[d] = backup[d]
  BY <1>1, DropMoves
<1>6. StepFor(c)
  BY <1>1, <1>2, <1>4, <1>5 DEF StepFor, TypeOK, Saved
<1>7. Fits(c, value[c], disk[c])' /\ Fits(c, value[c], helper.mem[c])'
  BY <1>1, <1>3, <1>4 DEF Fits, Accounts
<1> QED BY <1>1, <1>4, <1>6, <1>7, StepKeeps DEF Sound

-----------------------------------------------------------------------------
(***************************************************************************)
(* Commands, faults and the environment.                                   *)
(***************************************************************************)
\* While no helper runs every saved record fits; and that is enough.
LEMMA IdleFits ==
  ASSUME RegionInv, ~Running
  PROVE  \A c \in Components : Fits(c, value[c], disk[c])
BY DEF RegionInv, Active, AtRest

\* Wherever the helper may die every saved record is sound.
LEMMA AlwaysSound ==
  ASSUME RegionInv PROVE \A c \in Components : Sound(c, value[c], disk[c])
BY DEF RegionInv, Changing, AtRest

\* A step that leaves no helper running.
LEMMA IdleInv ==
  ASSUME TypeOK', ~Running', \A c \in Components : Fits(c, value[c], disk[c])' PROVE RegionInv'
BY DEF RegionInv, Active, AtRest, Sound

\* When the helper ends, what it leaves sound fits, or it went astray.
LEMMA EndFits ==
  ASSUME TypeOK, Track, Running, helper' = Idle, UNCHANGED <<value, user>>, NEW c \in Components,
         NEW e, e = disk'[c], Sound(c, value[c], e),
         backup'[c] = backup[c] \/ e = Nothing
  PROVE  Fits(c, value[c], disk[c])'
<1>1. astray \subseteq astray'
  BY TrackGrows
<1>2. CASE Fits(c, value[c], e)
  BY <1>1, <1>2 DEF Fits, Accounts
<1>3. CASE WellMade(c, e) /\ Parted(c, value[c], e)
  <2>1. Strands(c)
    BY <1>3 DEF Strands, Stranded, Parted
  <2>2. c \in astray'
    BY <2>1 DEF Track
  <2> QED BY <1>3, <2>2 DEF Fits
<1> QED BY <1>2, <1>3 DEF Sound

\* While nothing happens to a helper and to the values nothing goes astray or comes back.
LEMMA TrackRests ==
  ASSUME TypeOK, Track, UNCHANGED value, ~Running \/ helper' = helper PROVE astray' = astray
<1>1. CASE ~Running
  BY <1>1 DEF TypeOK, Track
<1>2. CASE Running /\ helper' = helper
  BY <1>2 DEF TypeOK, Track, Strands, Overlays, Running
<1> QED BY <1>1, <1>2

\* On, Off: a command begins with the saved state.
LEMMA BeginMoves ==
  ASSUME RegionInv, Track, ~Running, UNCHANGED <<value, disk, backup, user, leaving, faults>>,
         NEW op \in {"on", "off"}, NEW cs \in SUBSET Components,
         helper' = [pc |-> "next", op |-> op, left |-> cs, mem |-> disk,
                    now |-> Missing, was |-> Nothing]
  PROVE  RegionInv'
<1>1. TypeOK
  BY DEF RegionInv
<1>2. astray' = astray
  BY <1>1, TrackRests
<1>3. helper' \in Helper /\ helper'.pc = "next" /\ helper'.mem = disk
  BY <1>1, Blanks DEF Helper, TypeOK
<1>4. TypeOK'
  BY <1>1, <1>2, <1>3 DEF TypeOK
<1>5. ASSUME NEW c \in Components PROVE ~Active(c)' /\ AtRest(c)'
  <2>1. Fits(c, value[c], disk[c])
    BY IdleFits
  <2> QED BY <1>2, <1>3, <2>1 DEF Active, AtRest, Sound, Fits, Running
<1> QED BY <1>4, <1>5 DEF RegionInv

\* Finish: the state is saved, or with nothing in it removed; by then every value is
\* what someone else chose, so that no backup is missed.
LEMMA FinishKeeps == ASSUME RegionInv, Track, Finish PROVE RegionInv'
<1>1. /\ TypeOK /\ Running /\ helper.pc = "next" /\ helper' = Idle
      /\ UNCHANGED <<value, user, leaving>>
  BY DEF RegionInv, Finish
<1>2. \A c \in Components : AtRest(c)
  BY <1>1 DEF RegionInv, Active
<1>3. helper.mem \in [Components -> AnyEntry] /\ \A c \in Components : helper.mem[c] \in Saved(c)
  BY <1>1, HelperIsTyped
<1>4. ~Running' /\ astray' \subseteq Components
  BY <1>1, TrackGrows DEF Running
<1>5. CASE SaveState(helper.mem) /\ UNCHANGED faults
  <2>1. /\ backup' \in [Components -> AnyValue \cup {Nothing}]
        /\ \A c \in Components : backup'[c] = backup[c] \/ backup'[c] = Nothing
    BY <1>1, <1>5 DEF SaveState, TypeOK
  <2>2. TypeOK'
    BY <1>1, <1>3, <1>4, <1>5, <2>1 DEF TypeOK, SaveState, Saved
  <2>3. ASSUME NEW c \in Components PROVE Fits(c, value[c], disk[c])'
    <3>1. PICK e : e = helper.mem[c]
      OBVIOUS
    <3>2. e = disk'[c] /\ Sound(c, value[c], e)
      BY <1>1, <1>2, <1>5, <3>1 DEF SaveState, AtRest
    <3>3. backup'[c] = backup[c] \/ e = Nothing
      BY <1>5, <3>1 DEF SaveState
    <3> QED BY <1>1, <3>2, <3>3, EndFits
  <2> QED BY <1>4, <2>2, <2>3, IdleInv
<1>6. CASE Fault /\ UNCHANGED <<disk, backup>>
  <2>1. TypeOK'
    BY <1>1, <1>4, <1>6, FaultIsCounted DEF TypeOK
  <2>2. \A c \in Components : Fits(c, value[c], disk[c])'
    BY <1>1, <1>6, AlwaysSound, EndFits
  <2> QED BY <1>4, <2>1, <2>2, IdleInv
<1> QED BY <1>5, <1>6 DEF Finish

\* Crash: the saved record fits, or it is that of a change of target.
LEMMA CrashKeeps == ASSUME RegionInv, Track, Crash PROVE RegionInv'
<1>1. /\ TypeOK /\ Running /\ Fault /\ helper' = Idle
      /\ UNCHANGED <<value, disk, backup, user, leaving>>
  BY DEF RegionInv, Crash
<1>2. ~Running' /\ astray' \subseteq Components /\ faults' \in 0 .. MaxFaults
  BY <1>1, TrackGrows, FaultIsCounted DEF Running
<1>3. TypeOK'
  BY <1>1, <1>2 DEF TypeOK
<1>4. \A c \in Components : Fits(c, value[c], disk[c])'
  BY <1>1, AlwaysSound, EndFits
<1> QED BY <1>2, <1>3, <1>4, IdleInv

\* SetByOther: a value that sbc does not write is claimed only by the record of a change
\* that had not happened yet, and there it is the original.
LEMMA SetByOtherKeeps ==
  ASSUME RegionInv, Track, NEW c \in Components, NEW v \in Others(c, OtherNames), SetByOther(c, v)
  PROVE  RegionInv'
<1>1. /\ TypeOK /\ ~Running /\ UNCHANGED <<disk, backup, helper, leaving, faults>>
      /\ value' = [value EXCEPT ![c] = v] /\ user' = [user EXCEPT ![c] = v]
  BY DEF RegionInv, SetByOther
<1>2. v \in Values(c) /\ v \in Others(c, Targets(c) \cup OtherNames) /\ v.name \notin Targets(c)
  BY OthersAreForeign
<1>3. v \in AnyValue
  BY <1>2, AnyOfOne
<1>4. /\ value'[c] = v /\ user'[c] = v
      /\ value' \in [Components -> AnyValue] /\ user' \in [Components -> AnyValue]
      /\ \A d \in Components \ {c} : value'[d] = value[d] /\ user'[d] = user[d]
  BY <1>1, <1>3 DEF TypeOK
<1>5. ~Running' /\ astray' \subseteq Components /\ \A d \in Components \ {c} : d \in astray => d \in astray'
  BY <1>1, <1>4 DEF Running, Track, TypeOK
<1>6. TypeOK'
  BY <1>1, <1>2, <1>4, <1>5 DEF TypeOK
<1>7. Fits(c, value[c], disk[c])'
  <2>1. disk[c] # Nothing => WellMade(c, disk[c])
    BY <1>1, IdleFits DEF Fits
  <2>2. ASSUME disk[c] # Nothing, Owned(c, v, disk[c]) PROVE disk[c].original = v
    <3>1. v \notin OurValues(c) /\ v.name # disk[c].target
      BY <1>2, <2>1, <2>2, OursIsOurs DEF WellMade, Entries
    <3> QED BY <2>1, <2>2, <3>1 DEF WellMade, Owned, TimezoneOwned, LanguageOwned
  <2> QED BY <1>1, <1>4, <2>1, <2>2 DEF Fits, Accounts
<1>8. ASSUME NEW d \in Components \ {c} PROVE Fits(d, value[d], disk[d])'
  <2>1. Fits(d, value[d], disk[d])
    BY <1>1, IdleFits
  <2> QED BY <1>1, <1>4, <1>5, <2>1 DEF Fits
<1> QED BY <1>5, <1>6, <1>7, <1>8, IdleInv

\* Leave, and a stutter: nothing but the owner's decision.
LEMMA LeaveKeeps ==
  ASSUME RegionInv, UNCHANGED <<value, disk, backup, helper, user, faults, astray>>,
         leaving' \in BOOLEAN
  PROVE  RegionInv'
<1>1. TypeOK'
  BY DEF RegionInv, TypeOK, Running
<1>2. ASSUME NEW c \in Components
      PROVE  (Active(c)' <=> Active(c)) /\ (AtRest(c)' <=> AtRest(c)) /\ (Changing(c)' <=> Changing(c))
  BY DEF Active, AtRest, Changing, Pending, Sound, Fits, Parted, Running, Turn, Restorable
<1> QED BY <1>1, <1>2 DEF RegionInv

-----------------------------------------------------------------------------
(***************************************************************************)
(* The theorems.                                                           *)
(***************************************************************************)
\* At first nothing is recorded, and every value is someone's choice.
LEMMA RegionInit == Init => RegionInv
<1> SUFFICES ASSUME Init PROVE RegionInv
  OBVIOUS
<1>1. ~Running
  BY DEF Init, Running
<1>2. \A c \in Components :
        value[c] \in Others(c, Targets(c) \cup OtherNames) /\ value[c] \in Values(c)
  BY OthersAreValues DEF Init
<1>3. value \in [Components -> AnyValue] /\ user = value
  BY DEF Init, AnyValue
<1>4. TypeOK
  <2>1. disk \in [Components -> AnyEntry] /\ backup \in [Components -> AnyValue \cup {Nothing}]
    BY DEF Init, AnyEntry
  <2>2. helper = Idle /\ leaving \in BOOLEAN /\ astray \subseteq Components
    BY DEF Init
  <2>3. faults \in 0 .. MaxFaults
    BY RegionAssumption DEF Init
  <2>4. \A c \in Components : disk[c] = Nothing /\ backup[c] = Nothing
    BY DEF Init
  <2> QED BY <1>1, <1>2, <1>3, <2>1, <2>2, <2>3, <2>4 DEF TypeOK
<1>5. \A c \in Components : Fits(c, value[c], disk[c])
  BY DEF Init, Fits, Accounts
<1> QED BY <1>1, <1>4, <1>5 DEF RegionInv, Active, AtRest, Sound

\* One lemma for each action.
LEMMA RegionNext == ASSUME RegionInv, [Next]_vars PROVE RegionInv'
<1>1. CASE UNCHANGED vars
  <2>1. leaving' \in BOOLEAN
    BY <1>1 DEF vars, RegionInv, TypeOK
  <2> QED BY <1>1, <2>1, LeaveKeeps DEF vars
<1>2. CASE Running /\ Step /\ Track
  BY <1>2, ClaimsKeep, WritesKeep, FinishKeeps, UnavailableKeeps, PendKeeps, RecordKeeps,
     RollbackKeeps, UndoKeeps, ReleaseKeeps, DropKeeps DEF Step
<1>3. CASE Crash /\ Track
  BY <1>3, CrashKeeps
<1>4. CASE Leave /\ Track
  <2>1. astray' = astray
    BY <1>4, TrackRests DEF Leave, RegionInv
  <2> QED BY <1>4, <2>1, LeaveKeeps DEF Leave
<1>5. ASSUME NEW cs \in (SUBSET Components) \ {{}}, Track, On(cs) \/ Off(cs) PROVE RegionInv'
  BY <1>5, BeginMoves DEF On, Off
<1>6. ASSUME NEW c \in Components, NEW v \in Others(c, OtherNames), SetByOther(c, v), Track
      PROVE  RegionInv'
  BY <1>6, SetByOtherKeeps
<1> QED BY <1>1, <1>2, <1>3, <1>4, <1>5, <1>6 DEF Next, Move

\* The inductive invariant holds in every behaviour: wherever the helper may die, a saved
\* record fits the system, but for that of an interrupted change of target.
THEOREM RegionInvariant == Spec => []RegionInv
<1>1. RegionInv /\ [Next]_vars => RegionInv'
  BY RegionNext
<1> QED BY <1>1, RegionInit, PTL DEF Spec

\* Whenever no helper runs, a value that nobody else chose is claimed by the saved
\* record, however often helpers died, unless the component went astray
\* (disableSystemTimezone, disableSystemLanguage).
THEOREM ValueIsClaimed == Spec => []OurValueIsClaimed
<1>1. RegionInv => OurValueIsClaimed
  BY IdleFits DEF OurValueIsClaimed, Fits, Accounts
<1> QED BY <1>1, RegionInvariant, PTL

\* ... and its original is what someone else chose, with the backup if it is a file
\* (snapshotSystemValue, restoreSystemValue).
THEOREM OriginalSurvives == Spec => []OriginalIsKept
<1>1. RegionInv => OriginalIsKept
  BY IdleFits DEF OriginalIsKept, Fits, Accounts, Restorable
<1> QED BY <1>1, RegionInvariant, PTL

\* `off` changes a value in one step alone, and puts back what the record keeps.
LEMMA OffPutsBack ==
  ASSUME RegionInv, Next, Running, helper.op = "off", NEW c \in Components \ astray,
         value'[c] # value[c]
  PROVE  value'[c] = user[c]
<1>1. TypeOK
  BY DEF RegionInv
<1>2. \A d \in Components : Turn(d) => helper.pc \in {"next", "drop"}
  <2>1. helper \in Helper
    BY <1>1, HelperIsTyped
  <2>2. ASSUME NEW d \in Components, Turn(d), helper.pc # "next" PROVE helper.pc = "drop"
    BY <2>1, <2>2, TurnHas DEF Changing, Pending, Helper
  <2> QED BY <2>2
<1>3. ~WriteTimezone /\ ~WriteLanguage /\ \A d \in Components : ~Rollback(d)
  BY <1>2 DEF WriteTimezone, WriteLanguage, Rollback, Components
<1>4. PICK d \in Components : Release(d)
  BY <1>3 DEF Next, Move, Step, ClaimTimezone, ClaimLanguage, Claim, Finish,
     Unavailable, Pend, Record, Undo, Drop, Crash, Leave, On, Off, SetByOther
<1>5. /\ helper.mem[d] # Nothing /\ Owned(d, value[d], helper.mem[d]) /\ d = c
      /\ value' = [value EXCEPT ![d] = helper.mem[d].original]
  BY <1>1, <1>4 DEF Release, TypeOK
<1>6. Fits(d, value[d], helper.mem[d])
  BY <1>4, TurnHas DEF Release
<1>7. helper.mem[d].original = user[d]
  BY <1>5, <1>6 DEF Fits, Accounts
<1> QED BY <1>1, <1>5, <1>7 DEF TypeOK

\* `off` installs nothing but what someone else chose (SystemDisable), unless the
\* component went astray.
THEOREM OnlyGivesBack == Spec => GivesBackOnly
<1>1. RegionInv /\ [Next]_vars =>
        [\A c \in Components \ astray :
           Running /\ helper.op = "off" /\ value'[c] # value[c] => value'[c] = user[c]]_vars
  BY OffPutsBack
<1> QED BY <1>1, RegionInvariant, PTL DEF Spec, GivesBackOnly
=============================================================================

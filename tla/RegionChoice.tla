---------------------------- MODULE RegionChoice ----------------------------
(***************************************************************************)
(* The account's side of region matching (internal/region/manager.go and   *)
(* internal/cli/region.go): which parts of the node's region are on, in    *)
(* which scope, and the files, session variables and system records that   *)
(* carry the choice.                                                       *)
(*                                                                         *)
(* Every command runs under the account's operation lock, so only a kill   *)
(* or a failing write comes between its durable steps.  A command is the   *)
(* list of the steps it has left, in groups: a step that fails gives up    *)
(* its group, and the command goes on with the next.  The root helper is   *)
(* one step here, with the outcomes SystemRegion allows.  A target stands  *)
(* for a node and the profile the portal sends for it.  Files are replaced *)
(* whole (paths.WriteFile), so none is ever read corrupt.                  *)
(***************************************************************************)
EXTENDS Naturals, FiniteSets, Sequences

CONSTANTS
    Components, \* "timezone" and "language"
    Targets,    \* what the portal can send
    Nothing,    \* no profile, no file, no variable, no record
    MaxFaults,  \* bound: kills and failed steps in one behaviour
    MaxChanges  \* bound: changes of what the portal sends

ASSUME RegionChoiceAssumption ==
    /\ IsFiniteSet(Components) /\ Components # {}
    /\ Nothing \notin Targets
    /\ MaxFaults \in Nat /\ MaxChanges \in Nat

VARIABLES
    profile, \* the saved profile: target and pending action, or Nothing
    mode,    \* the saved mode: components and scope; without components, no file
    shell,   \* the shell file: the components and target it sets, or Nothing
    envd,    \* the environment.d file, likewise
    session, \* per component: the target its session variables name, or Nothing
    record,  \* per component: the root helper's record, or Nothing
    portal,  \* the target the portal sends, or Nothing
    cmd,     \* the groups of steps of the running command, or Idle
    phase,   \* history: "using", only refreshing ("settled"), or "leaving" for good
    faults,  \* kills and failed steps so far
    changes  \* changes of the portal's target so far

vars == <<profile, mode, shell, envd, session, record, portal, cmd, phase, faults, changes>>
account == <<profile, mode, shell, envd, session>>

Profiles == [target : Targets, pending : {"", "apply", "remove"}]
Mode(on, scope) == [on |-> on, scope |-> IF on = {} THEN "user" ELSE scope]
NoMode == Mode({}, "user")
File(on, target) == [on |-> on, target |-> target]
Files == [on : (SUBSET Components) \ {{}}, target : Targets]
Records == [target : Targets, good : BOOLEAN]

Idle == <<>>
System == mode.scope = "system"
FilesExist == shell # Nothing \/ envd # Nothing
Recorded(r) == {c \in Components : r[c] # Nothing}

Init == /\ profile = Nothing /\ mode = NoMode
        /\ shell = Nothing /\ envd = Nothing
        /\ session = [c \in Components |-> Nothing]
        /\ record = [c \in Components |-> Nothing]
        /\ portal \in Targets \cup {Nothing}
        /\ cmd = Idle /\ phase = "using"
        /\ faults = 0 /\ changes = 0

-----------------------------------------------------------------------------
(***************************************************************************)
(* The steps commands are made of.                                         *)
(***************************************************************************)
Store(p) == [do |-> "store", arg |-> p]
Forget == [do |-> "store", arg |-> Nothing]
SaveMode(m) == [do |-> "mode", arg |-> m]
WriteShell(f) == [do |-> "shell", arg |-> f]
WriteEnvD(f) == [do |-> "envd", arg |-> f]
RemoveFiles == [do |-> "remove"]
UpdateSession(set, target, unset) ==
    [do |-> "session", set |-> set, target |-> target, unset |-> unset]

\* The components whose session variables may be set: those of the mode, or,
\* when files are there without a mode, all of them.
MaySet == IF mode.on = {} /\ FilesExist THEN Components ELSE mode.on

\* Apply: the profile, the mode, both files (or none), and the session.
Apply(p, on) ==
    <<Store(p), SaveMode(Mode(on, "user"))>>
    \o (IF on = {} THEN <<RemoveFiles>>
        ELSE <<WriteShell(File(on, p.target)), WriteEnvD(File(on, p.target))>>)
    \o <<UpdateSession(on, p.target, MaySet \ on)>>

\* ClearUser never touches the session: system scope did not set it.
ClearUser == <<SaveMode(NoMode), RemoveFiles>>

\* Mutant: without a mode there is nothing to disable.
DisableNeedsMode ==
    IF System THEN ClearUser
    ELSE IF mode.on = {} THEN <<>>
         ELSE ClearUser \o <<UpdateSession({}, Nothing, MaySet)>>

Disable == IF System THEN ClearUser
           ELSE ClearUser \o <<UpdateSession({}, Nothing, MaySet)>>

Remove == Disable \o <<Forget>>

\* Mutant: any file is good enough.
FilesThere(on, target) == shell # Nothing /\ envd # Nothing

FilesCurrent(on, target) ==
    IF on = {} THEN ~FilesExist
    ELSE shell = File(on, target) /\ envd = File(on, target)

SystemTargetCurrent(target) ==
    \A c \in mode.on : record[c] = [target |-> target, good |-> TRUE]

-----------------------------------------------------------------------------
(***************************************************************************)
(* One step of the running command.                                        *)
(***************************************************************************)
Fault == faults < MaxFaults /\ faults' = faults + 1

\* A command with nothing left in its first group goes on with the next.
Plan(groups) == SelectSeq(groups, LAMBDA g : g # <<>>)
Goes == cmd' = Plan(<<Tail(Head(cmd))>> \o Tail(cmd))
GivesUp == cmd' = Tail(cmd)

\* A file step that fails leaves its file as it was.
Replace ==
    LET s == Head(Head(cmd)) IN
    /\ s.do \in {"store", "mode", "shell", "envd"}
    /\ \/ /\ profile' = IF s.do = "store" THEN s.arg ELSE profile
          /\ mode' = IF s.do = "mode" THEN s.arg ELSE mode
          /\ shell' = IF s.do = "shell" THEN s.arg ELSE shell
          /\ envd' = IF s.do = "envd" THEN s.arg ELSE envd
          /\ Goes /\ UNCHANGED faults
       \/ Fault /\ GivesUp /\ UNCHANGED <<profile, mode, shell, envd>>
    /\ UNCHANGED session

\* Both files are tried whatever happens to the first; a kill may come between.
RemoveBoth ==
    /\ Head(Head(cmd)).do = "remove"
    /\ \/ shell' = Nothing /\ envd' = Nothing /\ Goes /\ UNCHANGED faults
       \/ /\ Fault /\ FilesExist
          /\ \/ shell' = Nothing /\ UNCHANGED envd
             \/ envd' = Nothing /\ UNCHANGED shell
          /\ GivesUp \/ cmd' = Idle
       \/ Fault /\ GivesUp /\ UNCHANGED <<shell, envd>>
    /\ UNCHANGED <<profile, mode, session>>

\* systemctl --user sets some variables and unsets others, in two calls.  One
\* that fails is a warning, never an error.
SetSession ==
    LET s == Head(Head(cmd))
        After(sets, unsets) == [c \in Components |->
            IF sets /\ c \in s.set THEN s.target
            ELSE IF unsets /\ c \in s.unset THEN Nothing ELSE session[c]]
    IN /\ s.do = "session"
       /\ \/ session' = After(TRUE, TRUE) /\ UNCHANGED faults
          \/ Fault /\ \E sets, unsets \in BOOLEAN : session' = After(sets, unsets)
       /\ Goes
       /\ UNCHANGED <<profile, mode, shell, envd>>

Step == /\ cmd # Idle
        /\ Replace \/ RemoveBoth \/ SetSession
        /\ UNCHANGED <<record, portal, phase, changes>>

\* sbc is killed between two steps.
Kill == /\ cmd # Idle /\ Fault
        /\ cmd' = Idle
        /\ UNCHANGED <<account, record, portal, phase, changes>>

-----------------------------------------------------------------------------
(***************************************************************************)
(* The commands.                                                           *)
(***************************************************************************)
\* What a command starts as: steps of its own, nothing else touched.
Starts(groups) ==
    /\ cmd = Idle
    /\ cmd' = Plan(groups)
    /\ UNCHANGED <<account, record, portal, phase, faults, changes>>

\* `on` uses the saved profile, or fetches one when there is none; a profile
\* its subscription took away is refused.
Known == IF profile # Nothing THEN profile
         ELSE IF portal # Nothing THEN [target |-> portal, pending |-> ""] ELSE Nothing
Enables == phase = "using" /\ Known # Nothing /\ Known.pending # "remove"
Requested(cs) == IF cs = {} THEN Components ELSE mode.on \cup cs

\* Time zone data and locales may be missing for any component.
Available(cs) == SUBSET cs

\* In user scope the components whose data is not installed stay off.
EnableUser(cs) ==
    /\ Enables /\ ~System
    /\ \E applied \in Available(Requested(cs)) : Starts(<<Apply(Known, applied)>>)

\* The helper, for the available components: each change is made, or rolled
\* back; after a fault it may be half done.
Helped(asked, target) ==
    {r \in [Components -> Records \cup {Nothing}] : \A c \in Components :
        r[c] = record[c] \/ (c \in asked /\ r[c] = [target |-> target, good |-> TRUE])}
HalfHelped(asked, target) ==
    {r \in [Components -> Records \cup {Nothing}] : \A c \in Components :
        r[c] = record[c] \/ (c \in asked /\ r[c] # Nothing /\ r[c].target = target)}

\* `on` in system scope, which an account whose matching is on must leave
\* first: the helper runs, and its record says what is on.  A record that is
\* neither asked for nor in the mode is not adopted.
EnableSystem(cs) ==
    /\ Enables /\ cmd = Idle /\ (mode.on # {} => System)
    /\ \E asked \in Available(Requested(cs)) \ {{}} :
         LET wanted == asked \cup mode.on
             Finish(on) == cmd' = Plan(<<<<Store([Known EXCEPT !.pending = ""])>>, ClearUser,
                     IF on = {} THEN <<>> ELSE <<SaveMode(Mode(on, "system"))>>>>)
         IN \/ /\ record' \in Helped(asked, Known.target) /\ UNCHANGED faults
               /\ Finish(Recorded(record') \cap wanted)
            \/ /\ record' \in HalfHelped(asked, Known.target) /\ Fault
               /\ \/ Finish(Recorded(record') \cap wanted)
                  \/ Finish(asked) \/ Finish({}) \* the record cannot be read
                  \/ UNCHANGED cmd               \* sbc is killed
    /\ UNCHANGED <<account, portal, phase, changes>>

\* `off` in user scope: what is left stays applied, from the saved profile.
DisableUser(cs) ==
    LET left == IF cs = {} THEN {} ELSE mode.on \ cs
    IN /\ phase \in {"using", "leaving"} /\ ~System
       /\ IF left = {} THEN Starts(<<Disable>>)
          ELSE /\ profile # Nothing
               /\ \E applied \in Available(left) : Starts(<<Apply(profile, applied)>>)

\* The helper gives back a value, or leaves one that is not sbc's any more; both
\* take the component out of its record.
GivenBack(gone) == [c \in Components |-> IF c \in gone THEN Nothing ELSE record[c]]

\* `off` in system scope, or with --system: the helper gives back what its
\* record allows, and what is left in it becomes the mode.
DisableSystem(cs) ==
    LET asked == IF cs = {} THEN Components ELSE cs
        Finish == cmd' = Plan(<<IF ~System THEN <<>>
                                ELSE IF Recorded(record') # {}
                                     THEN <<SaveMode(Mode(Recorded(record'), "system"))>>
                                     ELSE IF profile = Nothing THEN Remove ELSE ClearUser>>)
    IN /\ phase \in {"using", "leaving"} /\ cmd = Idle
       /\ \/ record' = GivenBack(asked) /\ Finish /\ UNCHANGED faults
          \/ /\ Fault
             /\ \E gone \in SUBSET asked : record' = GivenBack(gone)
             /\ Finish \/ UNCHANGED cmd \* killed, or the record cannot be read
       /\ UNCHANGED <<account, portal, phase, changes>>

\* A subscription without a region is kept by a plain refresh; one that comes
\* with a new link turns the feature off, or says so when root must do it.
Dropped == IF ~System THEN <<Remove>>
           ELSE IF profile = Nothing THEN <<>>
                ELSE <<<<Store([profile EXCEPT !.pending = "remove"])>>>>

\* The profile the portal sends, and whether it differs from the saved one.
Sent(pending) == [target |-> portal, pending |-> pending]
Changed == IF profile = Nothing THEN TRUE ELSE profile.target # portal

\* In user scope a profile that came is saved, and applied when the feature is on.
StoreRegion ==
    {<<Store(Sent(""))>> \o (IF mode.on = {} THEN <<>> ELSE Apply(Sent(""), applied)) :
       applied \in Available(mode.on)}

\* In system scope both commands only say that `on` has to be run again.
Pends(differs) == <<<<Store(Sent(IF differs \/ ~SystemTargetCurrent(portal)
                                  THEN "apply" ELSE ""))>>>>

Refresh(newLink) ==
    /\ phase = "using" \/ (phase = "settled" /\ ~newLink)
    /\ \/ portal = Nothing /\ newLink /\ Starts(Dropped)
       \/ portal # Nothing /\ System /\ Starts(Pends(Changed))
       \/ /\ portal # Nothing /\ ~System
          /\ IF ~Changed /\ FilesCurrent(mode.on, portal) THEN Starts(<<<<Store(Sent(""))>>>>)
             ELSE \E steps \in StoreRegion : Starts(<<steps>>)

Install ==
    /\ phase = "using"
    /\ \/ portal = Nothing /\ Starts(Dropped)
       \/ portal # Nothing /\ System /\ Starts(Pends(FALSE))
       \/ portal # Nothing /\ ~System /\ \E steps \in StoreRegion : Starts(<<steps>>)

\* `sbc privacy region on` and `off`, with any choice of components and scope.
RunRegion == \E cs \in SUBSET Components : \/ EnableUser(cs) \/ EnableSystem(cs)
                                            \/ DisableUser(cs) \/ DisableSystem(cs)

-----------------------------------------------------------------------------
(***************************************************************************)
(* What `sbc privacy region status` asks the owner to run.                 *)
(***************************************************************************)
\* Manager.Status: without a profile no file is current.
FilesGood == IF profile = Nothing THEN ~FilesExist ELSE FilesCurrent(mode.on, profile.target)

\* In user scope a record of the root helper is an orphan, whatever is on.
OrphanAsks == IF Recorded(record) # {} THEN {"off --system"} ELSE {}

UserAsks ==
    OrphanAsks
    \cup (IF profile = Nothing THEN {"refresh"} ELSE {})
    \cup (IF FilesGood THEN {}
          ELSE IF profile # Nothing /\ mode.on # {} THEN {"on"} ELSE {"off"})

\* A component is not applied, its change is incomplete or its value drifted.
Unsettled(c) == record[c] = Nothing \/ ~record[c].good

Stale ==
    \/ profile.pending = "apply"
    \/ /\ Recorded(record) # {}
       /\ \E c \in mode.on : record[c] = Nothing \/ record[c].target # profile.target

\* Without a saved profile the helper's own is compared, which is left out here.
SystemAsks ==
    (IF \E c \in mode.on : Unsettled(c) THEN {"on"} ELSE {})
    \cup (IF profile = Nothing THEN {"refresh"}
          ELSE IF profile.pending = "remove" THEN {"off"}
          ELSE IF Stale THEN {"on"} ELSE {})
    \cup (IF FilesExist THEN {"off"} ELSE {})

Asks == IF System THEN SystemAsks ELSE UserAsks

-----------------------------------------------------------------------------
(***************************************************************************)
(* The environment.                                                        *)
(***************************************************************************)
\* The operator changes, sets or drops the node's region.
PortalChanges ==
    /\ phase = "using" /\ changes < MaxChanges
    /\ portal' \in (Targets \cup {Nothing}) \ {portal}
    /\ changes' = changes + 1
    /\ UNCHANGED <<account, record, cmd, phase, faults>>

\* The user logs in again: the session gets what environment.d says.
Login ==
    /\ cmd = Idle
    /\ session' = [c \in Components |->
                     IF envd = Nothing THEN Nothing
                     ELSE IF c \in envd.on THEN envd.target ELSE Nothing]
    /\ UNCHANGED <<profile, mode, shell, envd, record, portal, cmd, phase, faults, changes>>

\* Somebody else changes a system setting.
Drift(c) ==
    /\ cmd = Idle /\ phase = "using"
    /\ record[c] # Nothing /\ record[c].good
    /\ record' = [record EXCEPT ![c].good = FALSE]
    /\ UNCHANGED <<account, portal, cmd, phase, faults, changes>>

\* From here on the owner only refreshes, or only turns the feature off.
Decide ==
    /\ phase = "using"
    /\ phase' \in (IF portal = Nothing THEN {"leaving"} ELSE {"settled", "leaving"})
    /\ UNCHANGED <<account, record, portal, cmd, faults, changes>>

Commands ==
    \/ RunRegion
    \/ \E newLink \in BOOLEAN : Refresh(newLink)
    \/ Install

Next == \/ Commands \/ Step \/ Kill
        \/ PortalChanges \/ Login \/ Decide
        \/ \E c \in Components : Drift(c)

Spec == Init /\ [][Next]_vars

\* A running command goes on unless it is killed.  An owner who stays has the
\* daily refresh of the service; one who leaves looks at status, runs `off` while
\* it says that something is on or asks for it, and `off --system` when it asks.
Off == DisableUser({}) \/ (System /\ DisableSystem({}))
LiveSpec == /\ Spec
            /\ WF_vars(Step)
            /\ WF_vars(phase = "settled" /\ Refresh(FALSE))
            /\ SF_vars(phase = "leaving" /\ (mode.on # {} \/ "off" \in Asks) /\ Off)
            /\ SF_vars(phase = "leaving" /\ "off --system" \in Asks /\ DisableSystem({}))

-----------------------------------------------------------------------------
(***************************************************************************)
(* Properties.                                                             *)
(***************************************************************************)
\* The saved files, the session and the records are well formed.
TypeOK ==
    /\ profile \in Profiles \cup {Nothing}
    /\ mode \in [on : SUBSET Components, scope : {"user", "system"}]
    /\ mode.on = {} => mode.scope = "user"
    /\ shell \in Files \cup {Nothing} /\ envd \in Files \cup {Nothing}
    /\ session \in [Components -> Targets \cup {Nothing}]
    /\ record \in [Components -> Records \cup {Nothing}]
    /\ portal \in Targets \cup {Nothing}
    /\ phase \in {"using", "settled", "leaving"}
    /\ faults \in 0 .. MaxFaults /\ changes \in 0 .. MaxChanges

\* What refresh (cli/region.go:831) leaves behind for an enabled feature.
Repaired ==
    /\ profile # Nothing /\ profile.target = portal
    /\ mode.on # {} =>
         IF System THEN SystemTargetCurrent(portal) \/ "on" \in Asks
         ELSE /\ profile.pending = ""
              /\ shell = File(mode.on, portal) /\ envd = File(mode.on, portal)

\* Whatever was killed or failed before, repeated refreshes end with the
\* portal's target in both files, or, in system scope, with the helper's record
\* on that target or status asking for `on` (printSystemRegionStatus).
RefreshRepairs == [](phase = "settled" => <>[]Repaired)

\* An owner who does what status asks for, and no more, ends with no mode, no
\* file and no record, whichever command was killed halfway (Manager.Disable's
\* leftover files, printRegionStatus); session variables are cleared too, unless
\* a fault came between the mode and the session, which status does not see.
OffClears ==
    phase = "leaving" ~> /\ mode = NoMode /\ ~FilesExist /\ Recorded(record) = {}
                         /\ faults = 0 => \A c \in Components : session[c] = Nothing

=============================================================================

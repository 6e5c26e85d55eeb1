-------------------------- MODULE MixedProxyProofs --------------------------
(***************************************************************************)
(* What holds of the mixed proxy for every script of commands and every    *)
(* number of versions, crashes and failures.                               *)
(***************************************************************************)
EXTENDS MixedProxy, TLAPS

-----------------------------------------------------------------------------
(***************************************************************************)
(* Who may start an engine.                                                *)
(***************************************************************************)
Starting(p) == proc[p].pc \in {"authorized", "loading"}
Quiescent == \A p \in Process : ~Starting(p)
Vacated == Quiescent /\ ~Ready

GrantSteps == {"launch", "await", "revoke"}

\* The three locks: one engine lease; recovery by "sbc run" only while no command
\* holds the operation lock and no grant is left; a grant only around a start.
LocksFit ==
  /\ \A p, q \in Process : HoldsLease(p) /\ HoldsLease(q) => p = q
  /\ \A p \in Process : proc[p].pc = "recovering" => op = Idle /\ ~leftover
  /\ op # Idle /\ leftover => op.pc \in {"permit", "done"} /\ op.phase = "recover"
  /\ op # Idle /\ op.grant => op.pc \in GrantSteps

\* A command writes live files, or is about to, only while nothing starts.
QuietSteps == {"run", "save", "write", "restore", "restart", "start", "vacant", "core", "config"}
NothingStarts ==
  /\ op.pc \in QuietSteps => Quiescent
  /\ op.pc = "finish" /\ ~op.tried => Quiescent
  /\ op.pc = "vacant" => Vacated
  /\ op.pc \in {"restore", "restart", "start"} /\ op.phase = "recover" => Vacated

-----------------------------------------------------------------------------
(***************************************************************************)
(* Where a command is.                                                     *)
(***************************************************************************)
Replacing == {"upgrade", "config", "port"}

\* The steps of a start: from its stop to its end, and the failure of it.
StartSteps == {"start", "vacant"} \cup GrantSteps
InStart(o) == o.pc \in StartSteps \/ (o.pc \in Waits /\ o.then \in {"vacant", "failed"})

OpFits ==
  op # Idle =>
    /\ op.kind \in script
    /\ op.pc \in {"vacant"} \cup GrantSteps => op.tried
    /\ op.pc \in Waits /\ op.then \in {"vacant", "failed"} => op.tried
    /\ op.pc \in Waits /\ op.then = "done" => op.kind = "stop" /\ ~op.tried
    /\ op.pc \in {"permit", "recover"} => ~op.tried
    /\ op.pc \in {"permit", "recover", "settle"} => op.phase = "recover"
    /\ op.pc \in {"run", "save", "write", "core", "config"} => op.phase = "apply"
    /\ op.pc \in {"restore", "restart"} => op.phase \in {"recover", "rollback"}
    /\ op.pc \in Waits /\ op.then = "restore" => op.phase \in {"recover", "rollback"}
    /\ op.phase = "rollback" => op.kind \in Replacing
    /\ op.phase = "recover" => op.from = op.to
    /\ op.pc = "finish" => op.phase = "recover" \/ op.kind = "upgrade"
    /\ op.pc = "save" => op.kind = "upgrade"
    /\ op.pc = "write" => op.kind \in Replacing
    /\ op.pc \in {"core", "config"} => op.kind = "install"
    /\ op.pc = "run" => ~op.active
    /\ op.pc \in {"write", "restore"} /\ op.phase # "recover" /\ op.kind \in {"config", "port"} =>
         op.todo = {"config"}

-----------------------------------------------------------------------------
(***************************************************************************)
(* What is live.                                                           *)
(***************************************************************************)
Mixture(from, to) == \A f \in File : live[f] \in {from[f], to[f]}
SavedRecord(o) == IF o.kind = "upgrade" THEN [from |-> o.from, to |-> o.to] ELSE NoRecord

\* Live files that an engine may be started from.
Startable ==
  ~Reinstalls => live \in complete /\ (record # NoRecord => live \in {record.from, record.to})

RecordFits ==
  record # NoRecord =>
    /\ Mixture(record.from, record.to)
    /\ ~Reinstalls => record.from \in complete

\* A command knows what is live and what is recorded.
Recovering == op # Idle /\ op.phase = "recover"
Applying == op # Idle /\ op.phase = "apply"
RollingBack == op # Idle /\ op.phase = "rollback"

RecoveringFits ==
  Recovering =>
    /\ op.pc \in {"restore", "restart", "finish"} \/ InStart(op)
         \/ (op.pc \in Waits /\ op.then = "restore") => record # NoRecord
    /\ op.pc = "settle" => record = NoRecord
    /\ op.pc = "restore" => \A f \in File \ op.todo : live[f] = record.from[f]
    /\ op.pc \in {"restart", "finish"} \/ InStart(op) => live = record.from

OnlyConfigChanges == op.kind # "upgrade" => \A f \in File \ {"config"} : op.from[f] = op.to[f]

ApplyingFits ==
  Applying =>
    /\ op.kind \notin Replacing \/ op.pc \in {"run", "save"} => record = NoRecord
    /\ ~Reinstalls => op.from \in complete
    /\ op.pc \in {"run", "save"} => live = op.from
    /\ op.pc = "write" =>
         /\ record = SavedRecord(op) /\ Mixture(op.from, op.to) /\ OnlyConfigChanges
         /\ \A f \in File \ op.todo : live[f] = op.to[f]
    /\ op.kind \in Replacing /\ (op.pc = "finish" \/ InStart(op)) =>
         /\ record = SavedRecord(op) /\ live = op.to /\ op.to \in complete
         /\ OnlyConfigChanges

RollingBackFits ==
  RollingBack =>
    /\ ~Reinstalls => op.from \in complete
    /\ op.pc # "done" =>
         record = SavedRecord(op) /\ Mixture(op.from, op.to) /\ OnlyConfigChanges
    /\ op.pc \in Waits /\ op.then = "restore" /\ op.kind # "upgrade" => live = op.to
    /\ op.pc = "restore" => \A f \in File \ op.todo : live[f] = op.from[f]
    /\ op.pc \in {"restart", "finish"} \/ InStart(op) => live = op.from

LiveFits == RecoveringFits /\ ApplyingFits /\ RollingBackFits

-----------------------------------------------------------------------------
(***************************************************************************)
(* What the processes have read.                                           *)
(***************************************************************************)
ProcessesFit ==
  /\ \A p \in Process : proc[p].pc = "recovering" =>
       /\ record = NoRecord => proc[p].todo = {}
       /\ record # NoRecord => \A f \in File \ proc[p].todo : live[f] = record.from[f]
  /\ leftover \/ ~Quiescent => Startable
  /\ \A p \in Process : proc[p].pc = "loading" => proc[p].core = live["core"]

\* No version is newer than the newest one made.
VersionsAreMade ==
  /\ \A f \in File : live[f] <= made
  /\ record # NoRecord => \A f \in File : record.from[f] <= made /\ record.to[f] <= made
  /\ op # Idle => \A f \in File : op.from[f] <= made /\ op.to[f] <= made
  /\ \A p \in Process : proc[p].pc = "ready" =>
       proc[p].loaded.core <= made /\ proc[p].loaded.config <= made

\* Every engine that answers reads what is live.
Fresh == \A p \in Process : proc[p].pc = "ready" => proc[p].loaded = EngineFiles(live)

\* None has read what the command wants to replace the live files by.
NotCandidate ==
  \A p \in Process : proc[p].pc = "ready" /\ EngineFiles(op.to) # EngineFiles(op.from) =>
    proc[p].loaded # EngineFiles(op.to)

EnginesFit ==
  /\ op.pc \in {"vacant"} \cup GrantSteps => Fresh
  /\ op.pc = "finish" /\ (op.phase = "recover" \/ (op.phase = "apply" /\ NeedsStart(op))) => Fresh
  /\ op.pc \in {"settle", "run"} /\ op.tried => Fresh
  /\ op.pc = "start" /\ op.kind \in {"start", "restart"} /\ op.phase = "apply" /\ op.tried => Fresh
  /\ Applying /\ ~op.tried /\ op.kind \in Replacing /\ op.pc \in {"save", "write", "start", "finish"} =>
       NotCandidate
  /\ RollingBack /\ op.pc # "done" /\ ~(op.pc \in Waits /\ op.then = "restore") => NotCandidate

-----------------------------------------------------------------------------
(***************************************************************************)
(* The inductive invariant.                                                *)
(***************************************************************************)
MixedInv ==
  /\ TypeOK /\ LocksFit /\ NothingStarts /\ OpFits /\ RecordFits /\ LiveFits /\ ProcessesFit
  /\ VersionsAreMade /\ EnginesFit
  /\ WholeWithoutRecord /\ NoMixedEngine /\ StartedIsCurrent

-----------------------------------------------------------------------------
(***************************************************************************)
(* Steps of a command that touch no file.                                  *)
(***************************************************************************)
\* What a command carries through almost every step of it.
Kept(n) ==
  /\ n \in Op
  /\ n.kind = op.kind /\ n.to = op.to /\ n.from = op.from /\ n.grant = op.grant

\* A running command is one with a step.
LEMMA OpIsTyped ==
  ASSUME TypeOK
  PROVE  /\ op = Idle <=> op.pc = "idle"
         /\ op # Idle => op \in Op
         /\ \A s \in Steps \cup Waits : op.pc = s => op # Idle
<1>1. Idle.pc = "idle"
  BY DEF Idle
<1>2. \A o \in Op : o.pc \in Steps \cup Waits /\ o.pc # "idle"
  BY DEF Op, Steps, Waits
<1> QED BY <1>1, <1>2 DEF TypeOK, Steps, Waits

\* A process is off, or what its step says of it.
LEMMA ProcIsTyped ==
  ASSUME TypeOK, NEW p \in Process
  PROVE  /\ proc[p] = Off <=> proc[p].pc = "off"
         /\ proc[p].pc = "recovering" => proc[p] \in [pc : {"recovering"}, todo : SUBSET File]
         /\ proc[p].pc = "loading" => proc[p] \in [pc : {"loading"}, core : Version]
         /\ proc[p].pc = "ready" => proc[p] \in [pc : {"ready"}, loaded : Pair]
<1>1. proc[p] \in Proc \cup {Off}
  BY DEF TypeOK
<1>2. Off.pc = "off"
  BY DEF Off
<1> QED BY <1>1, <1>2 DEF Proc

\* A step that touches no file and no process has to answer for the command only.
LEMMA CommandMoves ==
  ASSUME MixedInv, UNCHANGED <<Files, leftover, proc, script>>,
         svc' \in [on : BOOLEAN, dying : BOOLEAN], faults' \in 0..MaxFaults,
         op' \in Op \cup {Idle},
         LocksFit', NothingStarts', OpFits', LiveFits', EnginesFit', StartedIsCurrent',
         op' # Idle => \A f \in File : op'.from[f] <= made /\ op'.to[f] <= made
  PROVE  MixedInv'
<1>1. TypeOK' /\ RecordFits' /\ ProcessesFit' /\ WholeWithoutRecord' /\ NoMixedEngine'
  BY DEF MixedInv, TypeOK, RecordFits, ProcessesFit, WholeWithoutRecord, NoMixedEngine, Files,
         Mixture, Startable, Reinstalls, Quiescent, Starting
<1>2. VersionsAreMade'
  BY DEF MixedInv, VersionsAreMade, Files
<1> QED BY <1>1, <1>2 DEF MixedInv

\* The end of a command: the grant is gone, and b says how it went.
Ends(b) ==
  /\ op' \in Op /\ op'.pc = "done" /\ op'.ok = b /\ ~op'.grant
  /\ op'.kind = op.kind /\ op'.to = op.to /\ op'.from = op.from
  /\ op'.phase = op.phase /\ op'.tried = op.tried /\ op'.active = op.active

\* A command that is done has only to account for the engine it started.
LEMMA EndsKeeps ==
  ASSUME MixedInv, NEW b \in BOOLEAN, Ends(b), op # Idle,
         UNCHANGED <<Files, leftover, proc, script>>,
         svc' \in [on : BOOLEAN, dying : BOOLEAN], faults' \in 0..MaxFaults,
         op.tried /\ (IF op.kind \in Replacing THEN NeedsStart(op) ELSE b) /\ record = NoRecord =>
           \A p \in Process : proc[p].pc = "ready" =>
             \/ proc[p].loaded = EngineFiles(live)
             \/ ~b /\ proc[p].loaded # EngineFiles(op.to)
  PROVE  MixedInv'
<1> USE DEF MixedInv, Ends
<1>1. op \in Op /\ op' # Idle
  BY OpIsTyped DEF Idle
<1>2. LocksFit' /\ NothingStarts' /\ OpFits'
  BY <1>1 DEF LocksFit, NothingStarts, OpFits, HoldsLease, QuietSteps, GrantSteps, Waits
<1>3. RecoveringFits'
  BY <1>1 DEF RecoveringFits, InStart, StartSteps, GrantSteps, Waits
<1>4. ApplyingFits'
  BY <1>1 DEF LiveFits, ApplyingFits, Applying, InStart, StartSteps, GrantSteps,
     Waits, Files, Reinstalls
<1>5. RollingBackFits'
  BY <1>1 DEF LiveFits, RollingBackFits, RollingBack, InStart, StartSteps, GrantSteps,
     Waits, Files, Reinstalls
<1>6. EnginesFit'
  BY <1>1 DEF EnginesFit, Applying, RollingBack, GrantSteps, Waits
<1>7. StartedIsCurrent'
  BY <1>1 DEF StartedIsCurrent, MeantToStart, NeedsStart, EngineFiles, Files, Replacing
<1>8. \A f \in File : op'.from[f] <= made /\ op'.to[f] <= made
  BY <1>1 DEF VersionsAreMade
<1> QED BY <1>2, <1>3, <1>4, <1>5, <1>6, <1>7, <1>8, CommandMoves DEF LiveFits

\* The end of a command is a command again, with all but its step and result kept.
LEMMA EndingKeepsTheRest ==
  ASSUME NEW o \in Op, NEW b \in BOOLEAN
  PROVE  LET n == [o EXCEPT !.pc = "done", !.ok = b] IN
         /\ n \in Op /\ n.pc = "done" /\ n.ok = b /\ n.grant = o.grant
         /\ n.kind = o.kind /\ n.to = o.to /\ n.from = o.from
         /\ n.phase = o.phase /\ n.tried = o.tried /\ n.active = o.active
<1>1. "done" \in Steps \cup Waits
  BY DEF Steps
<1> QED BY <1>1 DEF Op

\* A command that stops its engine keeps all but its step and what comes after.
LEMMA StoppingKeepsTheRest ==
  ASSUME NEW o \in Op, NEW t \in {"restore", "vacant", "failed", "done"}
  PROVE  LET n == [o EXCEPT !.pc = "stop", !.then = t] IN
         /\ n \in Op /\ n.pc = "stop" /\ n.then = t /\ n.grant = o.grant
         /\ n.kind = o.kind /\ n.to = o.to /\ n.from = o.from
         /\ n.phase = o.phase /\ n.tried = o.tried /\ n.active = o.active
<1>1. "stop" \in Steps \cup Waits
  BY DEF Waits
<1> QED BY <1>1 DEF Op

\* A command that goes to another step keeps all but its step.
LEMMA GoingKeepsTheRest ==
  ASSUME NEW o \in Op, NEW s \in Steps \cup Waits
  PROVE  LET n == [o EXCEPT !.pc = s] IN
         /\ n \in Op /\ n.pc = s /\ n.then = o.then /\ n.grant = o.grant /\ n.ok = o.ok
         /\ n.kind = o.kind /\ n.to = o.to /\ n.from = o.from /\ n.todo = o.todo
         /\ n.phase = o.phase /\ n.tried = o.tried /\ n.active = o.active
BY DEF Op

\* Give ends a command that has no grant.
LEMMA GiveEnds ==
  ASSUME op \in Op, ~op.grant, NEW b \in BOOLEAN, Give(b)
  PROVE  Ends(b)
<1>1. op' = [op EXCEPT !.pc = "done", !.ok = b]
  BY DEF Give
<1> QED BY <1>1, EndingKeepsTheRest DEF Ends

\* A candidate needs a start only where it differs: what is recovered never does.
LEMMA RecoveryNeedsNoStart ==
  ASSUME op.from = op.to
  PROVE  ~NeedsStart(op)
BY DEF NeedsStart

\* Permission was refused, or the command goes on to its first step.
LEMMA PermitKeeps == ASSUME MixedInv, Permit, UNCHANGED script PROVE MixedInv'
<1> USE DEF MixedInv
<1>1. /\ op \in Op /\ op # Idle /\ op.pc = "permit" /\ ~op.grant /\ ~op.tried
      /\ op.phase = "recover" /\ UNCHANGED <<Files, leftover, proc, script, svc, faults>>
  BY OpIsTyped DEF Permit, On, Untouched, Steps, LocksFit, OpFits, GrantSteps
<1>2. CASE leftover
  BY <1>1, <1>2, GiveEnds, EndsKeeps DEF Permit, Permission, TypeOK
<1>3. CASE ~leftover
  <2>1. FirstStep
    BY <1>3 DEF Permit, Permission
  <2>2. /\ Kept(op') /\ op'.phase = op.phase /\ op'.tried = op.tried
        /\ \/ op'.pc = "recover"
           \/ op'.pc = "stop" /\ op'.then = "done" /\ op.kind = "stop"
    <3>1. CASE op.kind = "stop"
      <4>1. op' = [op EXCEPT !.pc = "stop", !.then = "done"]
        BY <2>1, <3>1 DEF FirstStep, Stopping
      <4> QED BY <1>1, <3>1, <4>1, StoppingKeepsTheRest DEF Kept
    <3>2. CASE op.kind # "stop"
      <4>1. op' = [op EXCEPT !.pc = "recover"] /\ "recover" \in Steps
        BY <2>1, <3>2 DEF FirstStep, Goto, Steps
      <4> QED BY <1>1, <4>1, GoingKeepsTheRest DEF Kept
    <3> QED BY <3>1, <3>2
  <2>3. op' # Idle
    BY <2>2 DEF Idle
  <2>4. LocksFit' /\ NothingStarts' /\ OpFits'
    BY <1>1, <1>3, <2>2, <2>3 DEF LocksFit, NothingStarts, OpFits, Kept, HoldsLease, QuietSteps,
       GrantSteps, Waits
  <2>5. LiveFits' /\ EnginesFit' /\ StartedIsCurrent'
    BY <1>1, <2>2, <2>3 DEF LiveFits, RecoveringFits, ApplyingFits, RollingBackFits, EnginesFit,
       StartedIsCurrent, Kept, Recovering, Applying, RollingBack, InStart, StartSteps, GrantSteps, Waits, Files
  <2>6. \A f \in File : op'.from[f] <= made /\ op'.to[f] <= made
    BY <1>1, <2>2 DEF VersionsAreMade, Kept
  <2> QED BY <1>1, <2>2, <2>4, <2>5, <2>6, CommandMoves DEF Kept, TypeOK
<1> QED BY <1>2, <1>3

\* What a failure of a start, of a write or of the commit means: the upgrade or
\* the configuration goes back, and any other command ends without its engine.
LEMMA FailedKeeps ==
  ASSUME MixedInv, Failed(op), op # Idle, ~op.grant,
         InStart(op) \/ op.pc \in {"write", "finish"},
         UNCHANGED <<Files, leftover, proc, script>>,
         svc' \in [on : BOOLEAN, dying : BOOLEAN], faults' \in 0..MaxFaults,
         op.pc = "write" => op.kind = "upgrade"
  PROVE  MixedInv'
<1> USE DEF MixedInv
<1>1. op \in Op
  BY OpIsTyped
<1>2. op.pc \notin {"permit", "done"} /\ ~leftover
  BY DEF InStart, StartSteps, GrantSteps, Waits, LocksFit
<1>3. CASE op.phase = "apply" /\ op.kind \in Replacing /\ op.tried
  <2>1. Stopping([op EXCEPT !.phase = "rollback"], "restore")
    BY <1>3 DEF Failed, Replacing
  <2>2. /\ Kept(op') /\ op'.pc = "stop" /\ op'.then = "restore" /\ op'.phase = "rollback"
        /\ op'.tried
    BY <1>1, <1>3, <2>1 DEF Stopping, Kept, Op, Steps, Waits
  <2>3. op' # Idle
    BY <2>2 DEF Idle
  <2>4. LocksFit' /\ NothingStarts' /\ OpFits'
    BY <1>2, <1>3, <2>2, <2>3 DEF LocksFit, NothingStarts, OpFits, Kept, HoldsLease, QuietSteps,
       GrantSteps, Waits
  <2>5. /\ ~Reinstalls => op.from \in complete
        /\ record = SavedRecord(op) /\ Mixture(op.from, op.to) /\ OnlyConfigChanges
        /\ op.kind # "upgrade" => live = op.to
    BY <1>3 DEF LiveFits, ApplyingFits, Applying, Mixture, OpFits
  <2>6. RollingBackFits'
    BY <2>2, <2>5 DEF RollingBackFits, Kept, InStart, StartSteps, GrantSteps, Waits, Files,
       Reinstalls, SavedRecord, Mixture, OnlyConfigChanges
  <2>7. RecoveringFits' /\ ApplyingFits' /\ EnginesFit' /\ StartedIsCurrent'
    BY <2>2 DEF RecoveringFits, ApplyingFits, Recovering, Applying, EnginesFit, RollingBack,
       StartedIsCurrent, GrantSteps, Waits
  <2>8. \A f \in File : op'.from[f] <= made /\ op'.to[f] <= made
    BY <2>2 DEF VersionsAreMade, Kept
  <2> QED BY <2>2, <2>4, <2>6, <2>7, <2>8, CommandMoves DEF Kept, LiveFits
<1>4. CASE op.phase = "apply" /\ op.kind \in Replacing /\ ~op.tried
  <2>1. op' = [op EXCEPT !.phase = "rollback", !.pc = "restore", !.todo = Undone(op)]
    BY <1>4 DEF Failed, Replacing
  <2>2. Undone(op) = (IF op.kind = "upgrade" THEN File ELSE {"config"}) /\ Undone(op) \subseteq File
    BY <1>4 DEF Undone, Replacing, File
  <2>3. /\ Kept(op') /\ op'.pc = "restore" /\ op'.phase = "rollback" /\ ~op'.tried
        /\ op'.todo = Undone(op)
    BY <1>1, <1>4, <2>1, <2>2 DEF Kept, Op, Steps
  <2>4. op' # Idle
    BY <2>3 DEF Idle
  <2>5. op.pc \in {"start", "write", "finish"} /\ Quiescent
    BY <1>4 DEF InStart, StartSteps, OpFits, NothingStarts, QuietSteps, GrantSteps
  <2>6. LocksFit' /\ NothingStarts' /\ OpFits'
    BY <1>2, <1>4, <2>2, <2>3, <2>4, <2>5 DEF LocksFit, NothingStarts, OpFits, Kept, HoldsLease,
       QuietSteps, GrantSteps, Waits, Quiescent, Starting, Replacing
  <2>7. /\ ~Reinstalls => op.from \in complete
        /\ record = SavedRecord(op) /\ Mixture(op.from, op.to) /\ OnlyConfigChanges
        /\ op.kind # "upgrade" => live = op.to
    BY <1>4 DEF LiveFits, ApplyingFits, Applying, Mixture, OpFits
  <2>8. RollingBackFits'
    BY <2>2, <2>3, <2>7 DEF RollingBackFits, Kept, InStart, StartSteps, GrantSteps, Waits, Files,
       Reinstalls, SavedRecord, Mixture, OnlyConfigChanges
  <2>9. NotCandidate /\ EnginesFit'
    BY <1>4, <2>3, <2>5 DEF EnginesFit, Applying, RollingBack, GrantSteps, Waits, NotCandidate, Kept
  <2>10. RecoveringFits' /\ ApplyingFits' /\ StartedIsCurrent'
    BY <2>3 DEF RecoveringFits, ApplyingFits, Recovering, Applying, StartedIsCurrent
  <2>11. \A f \in File : op'.from[f] <= made /\ op'.to[f] <= made
    BY <2>3 DEF VersionsAreMade, Kept
  <2> QED BY <2>3, <2>6, <2>8, <2>9, <2>10, <2>11, CommandMoves DEF Kept, LiveFits
<1>5. CASE ~(op.phase = "apply" /\ op.kind \in Replacing)
  <2>1. Ends(FALSE)
    <3>1. op' = [op EXCEPT !.pc = "done", !.ok = FALSE]
      BY <1>5 DEF Failed, Replacing
    <3> QED BY <1>1, <3>1, EndingKeepsTheRest DEF Ends
  <2>2. op.phase = "rollback" => NotCandidate
    BY DEF EnginesFit, RollingBack, InStart, StartSteps, GrantSteps, Waits
  <2>3. op.phase = "recover" => ~NeedsStart(op)
    BY RecoveryNeedsNoStart DEF OpFits
  <2>4. op.kind \in Replacing /\ NeedsStart(op) => NotCandidate /\ EngineFiles(op.to) # EngineFiles(op.from)
    BY <1>1, <1>5, <2>2, <2>3 DEF Op, NeedsStart
  <2> QED BY <2>1, <2>4, EndsKeeps DEF NotCandidate
<1> QED BY <1>3, <1>4, <1>5

\* A fault that is counted leaves the count in its range.
LEMMA FaultIsTyped == ASSUME TypeOK, Fault PROVE faults' \in 0..MaxFaults
BY MixedAssumption DEF TypeOK, Fault

-----------------------------------------------------------------------------
(***************************************************************************)
(* A start, from its stop to the end of it.                                *)
(***************************************************************************)
\* The steps of a start between two of its checks change nothing else.
LEMMA StartGoesOn ==
  ASSUME MixedInv, op # Idle, InStart(op), InStart(op'),
         op' \in Op, op'.pc # "start", op'.tried,
         op'.kind = op.kind, op'.to = op.to, op'.from = op.from, op'.phase = op.phase,
         op'.grant => op'.pc \in GrantSteps,
         op'.pc = "vacant" => Vacated,
         op'.pc \in {"vacant"} \cup GrantSteps => Fresh,
         UNCHANGED <<Files, leftover, proc, script>>,
         svc' \in [on : BOOLEAN, dying : BOOLEAN], faults' \in 0..MaxFaults
  PROVE  MixedInv'
<1> USE DEF MixedInv
<1>1. op \in Op /\ op' # Idle
  BY OpIsTyped DEF Idle, Op, Steps, Waits
<1>2. op.pc \notin {"permit", "done"} /\ ~leftover
  BY DEF InStart, StartSteps, GrantSteps, Waits, LocksFit
<1>3. LocksFit'
  BY <1>1, <1>2 DEF LocksFit, HoldsLease, GrantSteps
<1>4. NothingStarts' /\ OpFits'
  BY <1>1, <1>2 DEF NothingStarts, OpFits, InStart, StartSteps, QuietSteps, GrantSteps, Waits,
     Quiescent, Starting, Vacated, Ready
<1>5. RecoveringFits'
  BY <1>1 DEF LiveFits, RecoveringFits, Recovering, InStart, StartSteps, GrantSteps, Waits, Files
<1>6. ApplyingFits'
  BY <1>1 DEF LiveFits, ApplyingFits, Applying, InStart, StartSteps, GrantSteps, Waits, Files,
     SavedRecord, Reinstalls, OnlyConfigChanges
<1>7. RollingBackFits'
  BY <1>1 DEF LiveFits, RollingBackFits, RollingBack, InStart, StartSteps, GrantSteps, Waits, Files,
     SavedRecord, Reinstalls, OnlyConfigChanges, Mixture
<1>8. RollingBack => NotCandidate
  BY DEF EnginesFit, RollingBack, InStart, StartSteps, GrantSteps, Waits
<1>9. EnginesFit'
  BY <1>1, <1>8 DEF EnginesFit, RollingBack, Applying, InStart, StartSteps, GrantSteps, Waits,
     NotCandidate, Fresh, EngineFiles, Files
<1>10. StartedIsCurrent'
  BY DEF StartedIsCurrent, InStart, StartSteps, GrantSteps, Waits
<1>11. \A f \in File : op'.from[f] <= made /\ op'.to[f] <= made
  BY DEF VersionsAreMade
<1> QED BY <1>3, <1>4, <1>5, <1>6, <1>7, <1>9, <1>10, <1>11, CommandMoves DEF LiveFits

\* Grant: the lease is free when the grant is given, or the command fails.
LEMMA GrantKeeps == ASSUME MixedInv, Grant, UNCHANGED script PROVE MixedInv'
<1> USE DEF MixedInv
<1>1. /\ op \in Op /\ op # Idle /\ op.pc = "vacant" /\ op.tried /\ ~op.grant /\ InStart(op)
      /\ UNCHANGED <<Files, leftover, proc, svc, script>>
  BY OpIsTyped DEF Grant, On, Steps, OpFits, LocksFit, GrantSteps, InStart, StartSteps
<1>2. svc' \in [on : BOOLEAN, dying : BOOLEAN]
  BY <1>1 DEF TypeOK
<1>3. CASE op' = [op EXCEPT !.pc = "launch", !.grant = TRUE] /\ UNCHANGED faults
  <2>1. /\ op' \in Op /\ op'.pc = "launch" /\ op'.tried /\ op'.kind = op.kind /\ op'.to = op.to
        /\ op'.from = op.from /\ op'.phase = op.phase /\ InStart(op')
    BY <1>1, <1>3 DEF Op, Steps, InStart, StartSteps, GrantSteps
  <2>2. Fresh
    BY <1>1 DEF NothingStarts, Vacated, Ready, Fresh
  <2> QED BY <1>1, <1>2, <1>3, <2>1, <2>2, StartGoesOn DEF GrantSteps, TypeOK
<1>4. CASE Fault /\ Failed(op)
  BY <1>1, <1>2, <1>4, FailedKeeps, FaultIsTyped
<1> QED BY <1>3, <1>4 DEF Grant

\* Launch: the service manager takes the start, or refuses it.
LEMMA LaunchKeeps == ASSUME MixedInv, Launch, UNCHANGED script PROVE MixedInv'
<1> USE DEF MixedInv
<1>1. /\ op \in Op /\ op # Idle /\ op.pc = "launch" /\ op.tried /\ InStart(op)
      /\ UNCHANGED <<Files, leftover, proc, script>>
  BY OpIsTyped DEF Launch, On, Steps, OpFits, GrantSteps, InStart, StartSteps
<1>2. /\ op' \in Op /\ op'.pc \in {"await", "revoke"} /\ op'.tried /\ op'.kind = op.kind
      /\ op'.to = op.to /\ op'.from = op.from /\ op'.phase = op.phase
  BY <1>1 DEF Launch, Goto, Op, Steps
<1>3. Fresh
  BY <1>1 DEF EnginesFit, GrantSteps
<1>4. svc' \in [on : BOOLEAN, dying : BOOLEAN]
  BY DEF Launch, TypeOK
<1>5. faults' \in 0..MaxFaults
  BY FaultIsTyped DEF Launch, TypeOK
<1>6. InStart(op')
  BY <1>2 DEF InStart, StartSteps, GrantSteps
<1> QED BY <1>1, <1>2, <1>3, <1>4, <1>5, <1>6, StartGoesOn DEF GrantSteps

\* Await: the engine answers before the deadline, or not.
LEMMA AwaitKeeps == ASSUME MixedInv, Await, UNCHANGED script PROVE MixedInv'
<1> USE DEF MixedInv
<1>1. /\ op \in Op /\ op # Idle /\ op.pc = "await" /\ op.tried /\ InStart(op)
      /\ UNCHANGED <<Files, leftover, proc, svc, faults, script>>
  BY OpIsTyped DEF Await, On, Untouched, Steps, OpFits, GrantSteps, InStart, StartSteps
<1>2. Ready \in BOOLEAN
  BY DEF Ready
<1>3. /\ op' \in Op /\ op'.pc = "revoke" /\ op'.tried /\ op'.kind = op.kind
      /\ op'.to = op.to /\ op'.from = op.from /\ op'.phase = op.phase
  BY <1>1, <1>2 DEF Await, Op, Steps
<1>4. Fresh
  BY <1>1 DEF EnginesFit, GrantSteps
<1>5. InStart(op')
  BY <1>3 DEF InStart, StartSteps, GrantSteps
<1> QED BY <1>1, <1>3, <1>4, <1>5, StartGoesOn DEF GrantSteps, TypeOK

\* A command that gave up its grant ends like one that never had it.
LEMMA WithdrawnEnds ==
  ASSUME NEW o \in Op, o.kind = op.kind, o.to = op.to, o.from = op.from,
         o.phase = op.phase, o.active = op.active, o.tried = op.tried, ~o.grant,
         NEW b \in BOOLEAN, op' = [o EXCEPT !.pc = "done", !.ok = b]
  PROVE  Ends(b)
<1>1. /\ op' \in Op /\ op'.pc = "done" /\ op'.ok = b /\ op'.grant = o.grant
      /\ op'.kind = o.kind /\ op'.to = o.to /\ op'.from = o.from
      /\ op'.phase = o.phase /\ op'.tried = o.tried /\ op'.active = o.active
  BY EndingKeepsTheRest
<1> QED BY <1>1 DEF Ends

\* What a command goes on to when its engine runs, or needs no start: an upgrade
\* and a recovery to the end of their record, the others to their own end.
LEMMA StartedKeeps ==
  ASSUME MixedInv, op \in Op,
         NEW o \in Op, o.pc = op.pc, o.kind = op.kind, o.to = op.to, o.from = op.from,
         o.phase = op.phase, o.active = op.active, o.tried = op.tried, ~o.grant,
         Started(o), op.pc = "revoke" \/ (op.pc = "restart" /\ op.phase # "apply"),
         UNCHANGED <<Files, leftover, proc, svc, faults, script>>
  PROVE  MixedInv'
<1> USE DEF MixedInv
<1>1. op # Idle /\ ~leftover
  BY OpIsTyped DEF LocksFit, Steps
<1>2. CASE o.phase = "recover" \/ o.kind = "upgrade"
  <2>1. /\ op' \in Op /\ op'.pc = "finish" /\ op'.tried = op.tried /\ op'.kind = op.kind
        /\ op'.to = op.to /\ op'.from = op.from /\ op'.phase = op.phase /\ ~op'.grant
        /\ op'.active = op.active
    <3>1. op' = [o EXCEPT !.pc = "finish"] /\ "finish" \in Steps
      BY <1>2 DEF Started, Steps
    <3> QED BY <3>1, GoingKeepsTheRest
  <2>2. op' # Idle
    BY <2>1 DEF Idle
  <2>3. LocksFit' /\ NothingStarts' /\ OpFits'
    BY <1>1, <1>2, <2>1, <2>2 DEF LocksFit, NothingStarts, OpFits, HoldsLease, QuietSteps, GrantSteps,
       Waits, Quiescent, Starting
  <2>4. RecoveringFits'
    BY <1>1, <2>1 DEF LiveFits, RecoveringFits, Recovering, InStart, StartSteps, GrantSteps, Waits, Files
  <2>5. ApplyingFits'
    BY <1>1, <2>1 DEF LiveFits, ApplyingFits, Applying, InStart, StartSteps, GrantSteps, Waits, Files,
       SavedRecord, Reinstalls, OnlyConfigChanges
  <2>6. RollingBackFits'
    BY <1>1, <2>1 DEF LiveFits, RollingBackFits, RollingBack, InStart, StartSteps, GrantSteps, Waits,
       Files, SavedRecord, Reinstalls, OnlyConfigChanges, Mixture
  <2>7. RollingBack => NotCandidate
    BY <1>1 DEF EnginesFit, RollingBack, GrantSteps, Waits
  <2>8. op.pc = "revoke" => op.tried /\ Fresh
    BY <1>1 DEF EnginesFit, OpFits, GrantSteps
  <2>9. op.pc = "restart" /\ op.phase = "recover" => Fresh
    BY DEF NothingStarts, Vacated, Ready, Fresh
  <2>10. EnginesFit'
    BY <1>1, <2>1, <2>7, <2>8, <2>9 DEF EnginesFit, RollingBack, Applying, GrantSteps, Waits,
       NotCandidate, Fresh, EngineFiles, Files
  <2>11. StartedIsCurrent'
    BY <2>1 DEF StartedIsCurrent
  <2>12. \A f \in File : op'.from[f] <= made /\ op'.to[f] <= made
    BY <1>1, <2>1 DEF VersionsAreMade
  <2> QED BY <2>1, <2>3, <2>4, <2>5, <2>6, <2>10, <2>11, <2>12, CommandMoves DEF LiveFits, TypeOK
<1>3. CASE ~(o.phase = "recover" \/ o.kind = "upgrade")
  <2>1. Ends(o.phase # "rollback")
    <3>1. op' = [o EXCEPT !.pc = "done", !.ok = o.phase # "rollback"]
      BY <1>3 DEF Started
    <3>2. CASE o.phase = "rollback"
      <4>1. op' = [o EXCEPT !.pc = "done", !.ok = FALSE]
        BY <3>1, <3>2
      <4> QED BY <3>2, <4>1, WithdrawnEnds
    <3>3. CASE o.phase # "rollback"
      <4>1. op' = [o EXCEPT !.pc = "done", !.ok = TRUE]
        BY <3>1, <3>3
      <4> QED BY <3>3, <4>1, WithdrawnEnds
    <3> QED BY <3>2, <3>3
  <2>2. op.phase = "apply" => Fresh
    BY <1>1 DEF EnginesFit, GrantSteps
  <2>3. op.phase = "rollback" => NotCandidate
    BY <1>1 DEF EnginesFit, RollingBack, Waits
  <2>4. (o.phase # "rollback") \in BOOLEAN /\ op.phase \in {"apply", "rollback"}
    BY <1>3 DEF Op
  <2>5. op.kind \in Replacing /\ NeedsStart(op) => EngineFiles(op.to) # EngineFiles(op.from)
    BY DEF NeedsStart
  <2>6. op.phase = "rollback" => op.kind \in Replacing
    BY <1>1 DEF OpFits
  <2>7. op.tried /\ (IF op.kind \in Replacing THEN NeedsStart(op) ELSE o.phase # "rollback") /\ record = NoRecord =>
           \A p \in Process : proc[p].pc = "ready" =>
             \/ proc[p].loaded = EngineFiles(live)
             \/ ~(o.phase # "rollback") /\ proc[p].loaded # EngineFiles(op.to)
    BY <2>2, <2>3, <2>4, <2>5, <2>6 DEF Fresh, NotCandidate
  <2>8. svc' \in [on : BOOLEAN, dying : BOOLEAN] /\ faults' \in 0..MaxFaults
    BY DEF TypeOK
  <2> QED BY <1>1, <2>1, <2>4, <2>7, <2>8, EndsKeeps
<1> QED BY <1>2, <1>3

\* Revoke: every exit of a start gives up the grant; a failed one stops once more.
LEMMA RevokeKeeps == ASSUME MixedInv, Revoke, UNCHANGED script PROVE MixedInv'
<1> USE DEF MixedInv
<1>1. /\ op \in Op /\ op # Idle /\ op.pc = "revoke" /\ op.tried /\ InStart(op)
      /\ UNCHANGED <<Files, leftover, proc, svc, faults, script>>
  BY OpIsTyped DEF Revoke, On, Untouched, Steps, OpFits, GrantSteps, InStart, StartSteps
<1>2. PICK o \in Op : o = [op EXCEPT !.grant = FALSE]
  BY <1>1 DEF Op
<1>3. /\ o.pc = op.pc /\ o.kind = op.kind /\ o.to = op.to /\ o.from = op.from
      /\ o.phase = op.phase /\ o.active = op.active /\ o.tried = op.tried /\ ~o.grant
  BY <1>1, <1>2 DEF Op
<1>4. CASE op.ok
  BY <1>1, <1>2, <1>3, <1>4, StartedKeeps DEF Revoke
<1>5. CASE ~op.ok
  <2>1. Stopping(o, "failed")
    BY <1>2, <1>5 DEF Revoke
  <2>2. /\ op' \in Op /\ op'.pc = "stop" /\ op'.then = "failed" /\ op'.tried /\ op'.kind = op.kind
        /\ op'.to = op.to /\ op'.from = op.from /\ op'.phase = op.phase /\ ~op'.grant
    <3>1. op' = [o EXCEPT !.pc = "stop", !.then = "failed"]
      BY <2>1 DEF Stopping
    <3>2. /\ op' \in Op /\ op'.pc = "stop" /\ op'.then = "failed" /\ op'.tried = o.tried
          /\ op'.kind = o.kind /\ op'.to = o.to /\ op'.from = o.from /\ op'.phase = o.phase
          /\ op'.grant = o.grant
      BY <3>1, StoppingKeepsTheRest
    <3> QED BY <1>1, <1>3, <3>2
  <2>3. InStart(op')
    BY <2>2 DEF InStart, Waits
  <2> QED BY <1>1, <2>2, <2>3, StartGoesOn DEF GrantSteps, TypeOK
<1> QED BY <1>4, <1>5

-----------------------------------------------------------------------------
(***************************************************************************)
(* Stopping the engine.                                                    *)
(***************************************************************************)
\* A stop that fails: the start around it fails, or the command ends.
LEMMA StopFailedKeeps ==
  ASSUME MixedInv, op.pc \in Waits, StopFailed, ~op.grant,
         op.then = "done" => ~op.tried,
         UNCHANGED <<Files, leftover, proc, script>>,
         svc' \in [on : BOOLEAN, dying : BOOLEAN], faults' \in 0..MaxFaults
  PROVE  MixedInv'
<1> USE DEF MixedInv
<1>1. op \in Op /\ op # Idle
  BY OpIsTyped DEF Waits, Idle
<1>2. CASE op.then \in {"vacant", "failed"}
  BY <1>1, <1>2, FailedKeeps DEF StopFailed, InStart, Waits
<1>3. CASE op.then \notin {"vacant", "failed"}
  <2>1. Ends(FALSE)
    BY <1>1, <1>3, GiveEnds DEF StopFailed
  <2>2. op.phase = "recover" => ~NeedsStart(op)
    BY <1>1, RecoveryNeedsNoStart DEF OpFits
  <2>3. op.then \in {"restore", "done"}
    BY <1>1, <1>3 DEF Op
  <2>4. op.tried /\ op.kind \in Replacing /\ NeedsStart(op) /\ record = NoRecord => live = op.to
    <3>1. ASSUME op.tried, op.kind \in Replacing, NeedsStart(op), record = NoRecord
          PROVE  live = op.to
      <4>1. op.then = "restore" /\ op.phase = "rollback"
        BY <1>1, <2>2, <2>3, <3>1 DEF OpFits
      <4>2. record = SavedRecord(op)
        BY <1>1, <4>1 DEF LiveFits, RollingBackFits, RollingBack, Waits
      <4>3. op.kind # "upgrade"
        BY <3>1, <4>2 DEF SavedRecord, NoRecord, TypeOK, Set, File
      <4> QED BY <1>1, <4>1, <4>3 DEF LiveFits, RollingBackFits, RollingBack
    <3> QED BY <3>1
  <2> QED BY <1>1, <2>1, <2>4, EndsKeeps
<1> QED BY <1>2, <1>3

\* Stop: the service manager is asked; the wait for it comes next.
LEMMA StopKeeps == ASSUME MixedInv, Stop, UNCHANGED script PROVE MixedInv'
<1> USE DEF MixedInv
<1>1. /\ op \in Op /\ op # Idle /\ op.pc = "stop" /\ ~op.grant /\ ~leftover
      /\ UNCHANGED <<Files, leftover, proc, faults, script>>
  BY OpIsTyped DEF Stop, On, Waits, LocksFit, GrantSteps
<1>2. /\ op' \in Op /\ op'.pc = "stopped" /\ op'.then = op.then /\ op'.tried = op.tried
      /\ op'.kind = op.kind /\ op'.to = op.to /\ op'.from = op.from /\ op'.phase = op.phase
      /\ ~op'.grant /\ op'.active = op.active
  <2>1. op' = [op EXCEPT !.pc = "stopped"] /\ "stopped" \in Waits
    BY DEF Stop, Goto, Waits
  <2> QED BY <1>1, <2>1, GoingKeepsTheRest
<1>3. op' # Idle /\ InStart(op') = InStart(op)
  BY <1>1, <1>2 DEF Idle, InStart, StartSteps, GrantSteps, Waits
<1>4. svc' \in [on : BOOLEAN, dying : BOOLEAN]
  BY DEF Stop, TypeOK, Active
<1>5. LocksFit' /\ NothingStarts' /\ OpFits'
  BY <1>1, <1>2, <1>3 DEF LocksFit, NothingStarts, OpFits, HoldsLease, QuietSteps, GrantSteps, Waits
<1>6. RecoveringFits'
  BY <1>1, <1>2, <1>3 DEF LiveFits, RecoveringFits, Recovering, Waits, Files
<1>7. ApplyingFits'
  BY <1>1, <1>2, <1>3 DEF LiveFits, ApplyingFits, Applying, Files, SavedRecord, Reinstalls,
     OnlyConfigChanges
<1>8. RollingBackFits'
  BY <1>1, <1>2, <1>3 DEF LiveFits, RollingBackFits, RollingBack, Waits, Files, SavedRecord,
     Reinstalls, OnlyConfigChanges, Mixture
<1>9. EnginesFit' /\ StartedIsCurrent'
  BY <1>1, <1>2, <1>3 DEF EnginesFit, StartedIsCurrent, RollingBack, GrantSteps, Waits, NotCandidate
<1>10. \A f \in File : op'.from[f] <= made /\ op'.to[f] <= made
  BY <1>1, <1>2 DEF VersionsAreMade
<1> QED BY <1>1, <1>2, <1>4, <1>5, <1>6, <1>7, <1>8, <1>9, <1>10, CommandMoves DEF LiveFits, TypeOK

\* StopError: the service manager refuses.
LEMMA StopErrorKeeps == ASSUME MixedInv, StopError, UNCHANGED script PROVE MixedInv'
<1>1. op.pc \in Waits /\ StopFailed /\ UNCHANGED <<Files, leftover, svc, proc, script>>
  BY DEF StopError, On, Waits
<1>2. op # Idle /\ ~op.grant /\ faults' \in 0..MaxFaults
  BY <1>1, OpIsTyped, FaultIsTyped DEF StopError, MixedInv, LocksFit, Waits, GrantSteps
<1>3. op.then = "done" => ~op.tried
  BY <1>1, <1>2 DEF MixedInv, OpFits
<1> QED BY <1>1, <1>2, <1>3, StopFailedKeeps DEF MixedInv, TypeOK

\* Every lease is released, so no process is between its authority and its API.
LEMMA FreeLeaseIsVacant == ASSUME ~EngineBusy PROVE Vacated
BY DEF EngineBusy, HoldsLease, Vacated, Quiescent, Starting, Ready

\* Once the engine is down the files go back, or the grant is next.
LEMMA StoppedKeeps == ASSUME MixedInv, Stopped, UNCHANGED script PROVE MixedInv'
<1> USE DEF MixedInv
<1>1. /\ op \in Op /\ op # Idle /\ op.pc = "stopped" /\ ~op.grant /\ ~leftover
      /\ UNCHANGED <<Files, leftover, proc, svc, faults, script>>
      /\ op.then = "done" => ~op.tried
  BY OpIsTyped DEF Stopped, On, Untouched, Waits, LocksFit, GrantSteps, OpFits
<1>2. CASE EngineBusy \/ Active
  BY <1>1, <1>2, StopFailedKeeps DEF Stopped, Waits, TypeOK
<1>3. CASE ~(EngineBusy \/ Active)
  <2>1. Vacated
    BY <1>3, FreeLeaseIsVacant
  <2>2. CASE op.then = "restore"
    <3>1. op' = [op EXCEPT !.pc = "restore", !.todo = Undone(op)]
      BY <1>3, <2>2 DEF Stopped
    <3>2. Undone(op) \subseteq File
      BY DEF Undone, File
    <3>3. op.phase = "recover" \/ op.kind = "upgrade" => Undone(op) = File
      BY DEF Undone
    <3>4. op.phase = "rollback" /\ op.kind # "upgrade" => Undone(op) = {"config"}
      BY <1>1 DEF Undone, OpFits, Replacing
    <3>5. /\ op' \in Op /\ op'.pc = "restore" /\ op'.todo = Undone(op) /\ op'.tried = op.tried
          /\ op'.kind = op.kind /\ op'.to = op.to /\ op'.from = op.from /\ op'.phase = op.phase
          /\ ~op'.grant /\ op'.active = op.active
      BY <1>1, <3>1, <3>2 DEF Op, Steps
    <3>6. op' # Idle /\ op.phase \in {"recover", "rollback"}
      BY <1>1, <2>2, <3>5 DEF Idle, OpFits, Waits
    <3>7. LocksFit' /\ NothingStarts'
      BY <1>1, <2>1, <3>5, <3>6 DEF LocksFit, NothingStarts, HoldsLease, Vacated, Quiescent, Starting,
         Ready, GrantSteps, QuietSteps
    <3>8. OpFits'
      BY <1>1, <3>4, <3>5, <3>6 DEF OpFits, GrantSteps, Waits, Replacing
    <3>9. RecoveringFits'
      BY <1>1, <2>2, <3>3, <3>5, <3>6 DEF LiveFits, RecoveringFits, Recovering, InStart, StartSteps,
         GrantSteps, Waits, Files
    <3>10. ApplyingFits'
      BY <3>5, <3>6 DEF ApplyingFits, Applying
    <3>11. RollingBackFits'
      BY <1>1, <2>2, <3>3, <3>4, <3>5, <3>6 DEF LiveFits, RollingBackFits, RollingBack, InStart,
         StartSteps, GrantSteps, Waits, Files, SavedRecord, Reinstalls, OnlyConfigChanges, Mixture
    <3>12. NotCandidate
      BY <2>1 DEF Vacated, Ready, NotCandidate
    <3>13. EnginesFit' /\ StartedIsCurrent'
      BY <1>1, <3>5, <3>12 DEF EnginesFit, StartedIsCurrent, GrantSteps, NotCandidate, Applying
    <3>14. \A f \in File : op'.from[f] <= made /\ op'.to[f] <= made
      BY <1>1, <3>5 DEF VersionsAreMade
    <3> QED BY <1>1, <3>5, <3>7, <3>8, <3>9, <3>10, <3>11, <3>13, <3>14, CommandMoves
            DEF LiveFits, TypeOK
  <2>3. CASE op.then = "vacant"
    <3>1. /\ op' \in Op /\ op'.pc = "vacant" /\ op'.tried = op.tried /\ op'.kind = op.kind
          /\ op'.to = op.to /\ op'.from = op.from /\ op'.phase = op.phase /\ ~op'.grant
      BY <1>1, <1>3, <2>3 DEF Stopped, Goto, Op, Steps
    <3>2. InStart(op) /\ InStart(op') /\ op.tried
      BY <1>1, <2>3, <3>1 DEF InStart, StartSteps, Waits, OpFits
    <3>3. Fresh
      BY <2>1 DEF Vacated, Ready, Fresh
    <3> QED BY <1>1, <2>1, <3>1, <3>2, <3>3, StartGoesOn DEF GrantSteps, TypeOK
  <2>4. CASE op.then = "failed"
    BY <1>1, <1>3, <2>4, FailedKeeps DEF Stopped, InStart, Waits, TypeOK
  <2>5. CASE op.then = "done"
    BY <1>1, <1>3, <2>5, GiveEnds, EndsKeeps DEF Stopped, TypeOK
  <2> QED BY <1>1, <2>2, <2>3, <2>4, <2>5 DEF Op
<1> QED BY <1>2, <1>3

\* Start: an engine that the service manager does not own makes it fail, and
\* "sbc start" leaves a running service alone.
LEMMA StartKeeps == ASSUME MixedInv, Start, UNCHANGED script PROVE MixedInv'
<1> USE DEF MixedInv
<1>1. /\ op \in Op /\ op # Idle /\ op.pc = "start" /\ ~op.grant /\ InStart(op)
      /\ UNCHANGED <<Files, leftover, proc, svc, faults, script>>
  BY OpIsTyped DEF Start, On, Untouched, Steps, LocksFit, GrantSteps, InStart, StartSteps
<1>2. CASE op.kind = "start" /\ op.phase = "apply" /\ Active
  <2>1. Ends(TRUE)
    BY <1>1, <1>2, GiveEnds DEF Start
  <2>2. op.tried => Fresh
    BY <1>1, <1>2 DEF EnginesFit
  <2> QED BY <1>1, <1>2, <2>1, <2>2, EndsKeeps DEF Fresh, TypeOK
<1>3. CASE ~(op.kind = "start" /\ op.phase = "apply" /\ Active)
  <2>1. \/ Failed(op)
        \/ Stopping([op EXCEPT !.tried = TRUE], "vacant")
    BY <1>3 DEF Start
  <2>2. CASE Failed(op)
    BY <1>1, <2>2, FailedKeeps DEF TypeOK
  <2>3. CASE Stopping([op EXCEPT !.tried = TRUE], "vacant")
    <3>1. /\ op' \in Op /\ op'.pc = "stop" /\ op'.then = "vacant" /\ op'.tried /\ op'.kind = op.kind
          /\ op'.to = op.to /\ op'.from = op.from /\ op'.phase = op.phase /\ ~op'.grant
      BY <1>1, <2>3 DEF Stopping, Op, Steps, Waits
    <3>2. InStart(op')
      BY <3>1 DEF InStart, Waits
    <3> QED BY <1>1, <3>1, <3>2, StartGoesOn DEF GrantSteps, TypeOK
  <2> QED BY <2>1, <2>2, <2>3
<1> QED BY <1>2, <1>3

-----------------------------------------------------------------------------
(***************************************************************************)
(* The ends of a command, and the steps that choose what is next.          *)
(***************************************************************************)
\* Recover: with no record there is nothing to undo; otherwise the engine stops.
LEMMA RecoverKeeps == ASSUME MixedInv, Recover, UNCHANGED script PROVE MixedInv'
<1> USE DEF MixedInv
<1>1. /\ op \in Op /\ op # Idle /\ op.pc = "recover" /\ ~op.grant /\ ~leftover
      /\ op.phase = "recover" /\ ~op.tried
      /\ UNCHANGED <<Files, leftover, proc, svc, faults, script>>
  BY OpIsTyped DEF Recover, On, Untouched, Steps, LocksFit, GrantSteps, OpFits
<1>2. Active \in BOOLEAN
  BY DEF Active
<1>3. CASE record = NoRecord
  <2>1. /\ op' \in Op /\ op'.pc = "settle" /\ op'.tried = op.tried /\ op'.kind = op.kind
        /\ op'.to = op.to /\ op'.from = op.from /\ op'.phase = op.phase /\ ~op'.grant
    <3>1. op' = [op EXCEPT !.pc = "settle"] /\ "settle" \in Steps
      BY <1>3 DEF Recover, Goto, Steps
    <3> QED BY <1>1, <3>1, GoingKeepsTheRest
  <2>2. op' # Idle
    BY <2>1 DEF Idle
  <2>3. LocksFit' /\ NothingStarts' /\ OpFits'
    BY <1>1, <2>1, <2>2 DEF LocksFit, NothingStarts, OpFits, HoldsLease, QuietSteps, GrantSteps, Waits
  <2>4. LiveFits'
    BY <1>1, <1>3, <2>1 DEF LiveFits, RecoveringFits, ApplyingFits, RollingBackFits, Applying,
       RollingBack, InStart, StartSteps, GrantSteps, Waits, Files
  <2>5. EnginesFit' /\ StartedIsCurrent'
    BY <1>1, <2>1 DEF EnginesFit, StartedIsCurrent, GrantSteps, RollingBack
  <2>6. \A f \in File : op'.from[f] <= made /\ op'.to[f] <= made
    BY <1>1, <2>1 DEF VersionsAreMade
  <2> QED BY <1>1, <2>1, <2>3, <2>4, <2>5, <2>6, CommandMoves DEF TypeOK
<1>4. CASE record # NoRecord
  <2>1. PICK o \in Op : o = [op EXCEPT !.active = Active]
    BY <1>1, <1>2 DEF Op
  <2>2. Stopping(o, "restore")
    BY <1>4, <2>1 DEF Recover
  <2>3. /\ op' \in Op /\ op'.pc = "stop" /\ op'.then = "restore" /\ op'.tried = op.tried
        /\ op'.kind = op.kind /\ op'.to = op.to /\ op'.from = op.from /\ op'.phase = op.phase
        /\ ~op'.grant
    <3>1. /\ o.tried = op.tried /\ o.kind = op.kind /\ o.to = op.to /\ o.from = op.from
          /\ o.phase = op.phase /\ ~o.grant
      BY <1>1, <2>1 DEF Op
    <3>2. op' = [o EXCEPT !.pc = "stop", !.then = "restore"]
      BY <2>2 DEF Stopping
    <3> QED BY <3>1, <3>2, StoppingKeepsTheRest
  <2>4. op' # Idle
    BY <2>3 DEF Idle
  <2>5. LocksFit' /\ NothingStarts' /\ OpFits'
    BY <1>1, <2>3, <2>4 DEF LocksFit, NothingStarts, OpFits, HoldsLease, QuietSteps, GrantSteps, Waits
  <2>6. LiveFits'
    BY <1>1, <1>4, <2>3 DEF LiveFits, RecoveringFits, ApplyingFits, RollingBackFits, Applying,
       RollingBack, InStart, StartSteps, GrantSteps, Waits, Files
  <2>7. EnginesFit' /\ StartedIsCurrent'
    BY <1>1, <2>3 DEF EnginesFit, StartedIsCurrent, GrantSteps, RollingBack
  <2>8. \A f \in File : op'.from[f] <= made /\ op'.to[f] <= made
    BY <1>1, <2>3 DEF VersionsAreMade
  <2> QED BY <1>1, <2>3, <2>5, <2>6, <2>7, <2>8, CommandMoves DEF TypeOK
<1> QED BY <1>3, <1>4

\* Settle: a lease that is held belongs to an engine that answers, so that nothing
\* is starting when the command goes on to its live writes.
LEMMA SettleKeeps == ASSUME MixedInv, Settle, UNCHANGED script PROVE MixedInv'
<1> USE DEF MixedInv
<1>1. /\ op \in Op /\ op # Idle /\ op.pc = "settle" /\ ~op.grant /\ ~leftover
      /\ op.phase = "recover" /\ record = NoRecord
      /\ UNCHANGED <<Files, leftover, proc, svc, faults, script>>
  BY OpIsTyped DEF Settle, On, Untouched, Steps, LocksFit, GrantSteps, OpFits, LiveFits,
     RecoveringFits, Recovering
<1>2. CASE EngineBusy /\ ~Ready
  <2>1. ~NeedsStart(op)
    BY <1>1, RecoveryNeedsNoStart DEF OpFits
  <2> QED BY <1>1, <1>2, <2>1, GiveEnds, EndsKeeps DEF Settle, TypeOK
<1>3. CASE ~(EngineBusy /\ ~Ready)
  <2>1. Quiescent
    BY <1>3 DEF EngineBusy, Ready, HoldsLease, Quiescent, Starting, LocksFit
  <2>2. /\ op' \in Op /\ op'.pc = "run" /\ op'.tried = op.tried /\ op'.kind = op.kind
        /\ op'.to = op.to /\ op'.from = live /\ op'.phase = "apply" /\ ~op'.grant /\ ~op'.active
    <3>1. op' = [op EXCEPT !.pc = "run", !.phase = "apply", !.from = live, !.active = FALSE]
      BY <1>3 DEF Settle
    <3>2. "run" \in Steps \cup Waits /\ live \in Set
      BY DEF Steps, TypeOK
    <3> QED BY <1>1, <3>1, <3>2 DEF Op
  <2>3. op' # Idle
    BY <2>2 DEF Idle
  <2>4. LocksFit' /\ NothingStarts' /\ OpFits'
    BY <1>1, <2>1, <2>2, <2>3 DEF LocksFit, NothingStarts, OpFits, HoldsLease, QuietSteps, GrantSteps,
       Waits, Quiescent, Starting
  <2>5. LiveFits'
    BY <1>1, <2>2 DEF LiveFits, RecoveringFits, ApplyingFits, RollingBackFits, Recovering,
       RollingBack, InStart, StartSteps, GrantSteps, Waits, Files, WholeWithoutRecord, Reinstalls
  <2>6. EnginesFit' /\ StartedIsCurrent'
    BY <1>1, <2>2 DEF EnginesFit, StartedIsCurrent, GrantSteps, RollingBack, Fresh, Files, EngineFiles
  <2>7. \A f \in File : op'.from[f] <= made /\ op'.to[f] <= made
    BY <1>1, <2>2 DEF VersionsAreMade
  <2> QED BY <1>1, <2>2, <2>4, <2>5, <2>6, <2>7, CommandMoves DEF TypeOK
<1> QED BY <1>2, <1>3

\* "sbc start" and "sbc restart" have only their engine to start.
LEMMA RunServiceKeeps == ASSUME MixedInv, RunService, UNCHANGED script PROVE MixedInv'
<1> USE DEF MixedInv
<1>1. /\ op \in Op /\ op # Idle /\ op.pc = "run" /\ ~op.grant /\ ~leftover
      /\ op.phase = "apply" /\ op.kind \in {"start", "restart"}
      /\ UNCHANGED <<Files, leftover, proc, svc, faults, script>>
  BY OpIsTyped DEF RunService, On, Untouched, Steps, LocksFit, GrantSteps, OpFits
<1>2. /\ op' \in Op /\ op'.pc = "start" /\ op'.tried = op.tried /\ op'.kind = op.kind
      /\ op'.to = op.to /\ op'.from = op.from /\ op'.phase = op.phase /\ ~op'.grant
  <2>1. op' = [op EXCEPT !.pc = "start"] /\ "start" \in Steps
    BY DEF RunService, Goto, Steps
  <2> QED BY <1>1, <2>1, GoingKeepsTheRest
<1>3. op' # Idle
  BY <1>2 DEF Idle
<1>4. LocksFit' /\ NothingStarts' /\ OpFits'
  BY <1>1, <1>2, <1>3 DEF LocksFit, NothingStarts, OpFits, HoldsLease, QuietSteps, GrantSteps, Waits,
     Quiescent, Starting
<1>5. LiveFits'
  BY <1>1, <1>2 DEF LiveFits, RecoveringFits, ApplyingFits, RollingBackFits, Recovering, Applying,
     RollingBack, Files, Reinstalls, Replacing
<1>6. EnginesFit' /\ StartedIsCurrent'
  BY <1>1, <1>2 DEF EnginesFit, StartedIsCurrent, GrantSteps, RollingBack, Replacing, Fresh, Files,
     EngineFiles
<1>7. \A f \in File : op'.from[f] <= made /\ op'.to[f] <= made
  BY <1>1, <1>2 DEF VersionsAreMade
<1> QED BY <1>1, <1>2, <1>4, <1>5, <1>6, <1>7, CommandMoves DEF TypeOK

\* Nothing to do: the command has asked for no start.
LEMMA RefuseKeeps == ASSUME MixedInv, Refuse, UNCHANGED script PROVE MixedInv'
<1> USE DEF MixedInv
<1>1. /\ op \in Op /\ op # Idle /\ op.pc = "run" /\ ~op.grant /\ ~op.active /\ Give(FALSE)
      /\ UNCHANGED <<Files, leftover, proc, svc, faults, script>>
  BY OpIsTyped DEF Refuse, On, Untouched, Steps, LocksFit, GrantSteps, OpFits
<1> QED BY <1>1, GiveEnds, EndsKeeps DEF NeedsStart, TypeOK

\* A failed write of an upgrade.
LEMMA WriteErrorKeeps == ASSUME MixedInv, WriteError, UNCHANGED script PROVE MixedInv'
<1>1. /\ op # Idle /\ op.pc = "write" /\ ~op.grant /\ op.kind = "upgrade" /\ Failed(op)
      /\ UNCHANGED <<Files, leftover, proc, svc, script>> /\ faults' \in 0..MaxFaults
  BY OpIsTyped, FaultIsTyped DEF MixedInv, WriteError, On, Steps, LocksFit, GrantSteps
<1> QED BY <1>1, FailedKeeps DEF MixedInv, TypeOK

\* A failed restore ends the command; no engine has read the candidate.
LEMMA RestoreErrorKeeps == ASSUME MixedInv, RestoreError, UNCHANGED script PROVE MixedInv'
<1> USE DEF MixedInv
<1>1. /\ op \in Op /\ op # Idle /\ op.pc = "restore" /\ ~op.grant /\ Give(FALSE)
      /\ op.phase \in {"recover", "rollback"}
      /\ UNCHANGED <<Files, leftover, proc, svc, script>> /\ faults' \in 0..MaxFaults
  BY OpIsTyped, FaultIsTyped DEF RestoreError, On, Steps, LocksFit, GrantSteps, OpFits
<1>2. op.phase = "rollback" => NotCandidate
  BY <1>1 DEF EnginesFit, RollingBack, Waits
<1>3. op.phase = "recover" => ~NeedsStart(op)
  BY <1>1, RecoveryNeedsNoStart DEF OpFits
<1>4. NeedsStart(op) => NotCandidate /\ EngineFiles(op.to) # EngineFiles(op.from)
  BY <1>1, <1>2, <1>3 DEF NeedsStart
<1> QED BY <1>1, <1>4, GiveEnds, EndsKeeps DEF NotCandidate, TypeOK

\* Restart: the engine that ran comes back from the restored files.
LEMMA RestartKeeps == ASSUME MixedInv, Restart, UNCHANGED script PROVE MixedInv'
<1> USE DEF MixedInv
<1>1. /\ op \in Op /\ op # Idle /\ op.pc = "restart" /\ ~op.grant /\ ~leftover
      /\ op.phase \in {"recover", "rollback"}
      /\ UNCHANGED <<Files, leftover, proc, svc, faults, script>>
  BY OpIsTyped DEF Restart, On, Untouched, Steps, LocksFit, GrantSteps, OpFits
<1>2. CASE Started(op)
  BY <1>1, <1>2, StartedKeeps
<1>3. CASE Goto("start")
  <2>1. /\ op' \in Op /\ op'.pc = "start" /\ op'.tried = op.tried /\ op'.kind = op.kind
        /\ op'.to = op.to /\ op'.from = op.from /\ op'.phase = op.phase /\ ~op'.grant
    <3>1. op' = [op EXCEPT !.pc = "start"] /\ "start" \in Steps
      BY <1>3 DEF Goto, Steps
    <3> QED BY <1>1, <3>1, GoingKeepsTheRest
  <2>2. op' # Idle /\ InStart(op')
    BY <2>1 DEF Idle, InStart, StartSteps
  <2>3. LocksFit' /\ NothingStarts' /\ OpFits'
    BY <1>1, <2>1, <2>2 DEF LocksFit, NothingStarts, OpFits, HoldsLease, QuietSteps, GrantSteps, Waits,
       Quiescent, Starting, Vacated, Ready
  <2>4. RecoveringFits'
    BY <1>1, <2>1 DEF LiveFits, RecoveringFits, Recovering, InStart, StartSteps, GrantSteps, Waits, Files
  <2>5. ApplyingFits'
    BY <1>1, <2>1 DEF ApplyingFits, Applying
  <2>6. RollingBackFits'
    BY <1>1, <2>1, <2>2 DEF LiveFits, RollingBackFits, RollingBack, Waits, Files, SavedRecord,
       Reinstalls, OnlyConfigChanges, Mixture
  <2>7. op.phase = "rollback" => NotCandidate
    BY <1>1 DEF EnginesFit, RollingBack, Waits
  <2>8. EnginesFit' /\ StartedIsCurrent'
    BY <1>1, <2>1, <2>7 DEF EnginesFit, StartedIsCurrent, GrantSteps, RollingBack, Applying, NotCandidate
  <2>9. \A f \in File : op'.from[f] <= made /\ op'.to[f] <= made
    BY <1>1, <2>1 DEF VersionsAreMade
  <2> QED BY <1>1, <2>1, <2>3, <2>4, <2>5, <2>6, <2>8, <2>9, CommandMoves DEF LiveFits, TypeOK
<1> QED BY <1>2, <1>3 DEF Restart

\* A command without the operation lock answers for nothing.
LEMMA IdleFits ==
  ASSUME op' = Idle
  PROVE  NothingStarts' /\ OpFits' /\ LiveFits' /\ EnginesFit' /\ StartedIsCurrent'
<1>1. op'.pc = "idle" /\ ~Recovering' /\ ~Applying' /\ ~RollingBack'
  BY DEF Idle, Recovering, Applying, RollingBack
<1>2. NothingStarts' /\ OpFits' /\ LiveFits'
  BY <1>1 DEF NothingStarts, OpFits, LiveFits, RecoveringFits, ApplyingFits, RollingBackFits, QuietSteps
<1>3. EnginesFit' /\ StartedIsCurrent'
  BY <1>1 DEF EnginesFit, StartedIsCurrent, GrantSteps
<1> QED BY <1>2, <1>3

\* End: the operation lock is released.
LEMMA EndKeeps == ASSUME MixedInv, End, UNCHANGED script PROVE MixedInv'
<1> USE DEF MixedInv
<1>1. /\ op # Idle /\ op' = Idle /\ UNCHANGED <<Files, leftover, proc, svc, faults, script>>
  BY OpIsTyped DEF End, On, Untouched, Steps
<1>2. LocksFit'
  BY <1>1 DEF LocksFit, HoldsLease
<1> QED BY <1>1, <1>2, IdleFits, CommandMoves DEF TypeOK

\* While a command starts the engine its live files are one whole set.
LEMMA StartsFromAWholeSet ==
  ASSUME MixedInv, op # Idle, InStart(op)
  PROVE  Startable
<1> USE DEF MixedInv
<1>1. op.phase \in {"recover", "apply", "rollback"}
  BY OpIsTyped DEF Op
<1>2. CASE op.phase = "recover"
  BY <1>2 DEF LiveFits, RecoveringFits, Recovering, RecordFits, Startable
<1>3. CASE op.phase = "apply"
  <2>1. CASE op.kind \in Replacing
    BY <1>3, <2>1 DEF LiveFits, ApplyingFits, Applying, Startable, SavedRecord
  <2>2. CASE op.kind \notin Replacing
    BY <1>3, <2>2 DEF LiveFits, ApplyingFits, Applying, Startable, WholeWithoutRecord
  <2> QED BY <2>1, <2>2
<1>4. CASE op.phase = "rollback"
  <2>1. op.pc # "done"
    BY DEF InStart, StartSteps, GrantSteps, Waits
  <2> QED BY <1>4, <2>1 DEF LiveFits, RollingBackFits, RollingBack, Startable, SavedRecord
<1> QED BY <1>1, <1>2, <1>3, <1>4

\* Crash: the locks of a killed command go with it, and its grant, if it outlives
\* it, is over a whole set of files.
LEMMA CrashKeeps == ASSUME MixedInv, Crash, UNCHANGED script PROVE MixedInv'
<1> USE DEF MixedInv
<1>1. /\ op # Idle /\ op' = Idle /\ UNCHANGED <<Files, svc, proc, script>>
      /\ leftover' \in {leftover, leftover \/ op.grant}
  BY DEF Crash
<1>2. leftover' => leftover \/ Startable
  BY <1>1, StartsFromAWholeSet DEF LocksFit, InStart, StartSteps
<1>3. LocksFit'
  BY <1>1 DEF LocksFit, HoldsLease
<1>4. leftover' \in BOOLEAN /\ faults' \in 0..MaxFaults
  BY <1>1, OpIsTyped, FaultIsTyped DEF Crash, TypeOK, Op
<1>5. TypeOK' /\ RecordFits' /\ WholeWithoutRecord' /\ NoMixedEngine'
  BY <1>1, <1>4 DEF TypeOK, RecordFits, WholeWithoutRecord, NoMixedEngine, Files, Mixture, Reinstalls
<1>6. ProcessesFit'
  BY <1>1, <1>2 DEF ProcessesFit, Files, Startable, Reinstalls, Quiescent, Starting
<1>7. VersionsAreMade'
  BY <1>1 DEF VersionsAreMade, Files
<1> QED BY <1>1, <1>3, <1>5, <1>6, <1>7, IdleFits

\* Release: a dead command's grant goes away.
LEMMA ReleaseKeeps == ASSUME MixedInv, Release, UNCHANGED script PROVE MixedInv'
<1> USE DEF MixedInv
<1>1. leftover' = FALSE /\ UNCHANGED <<Files, op, svc, proc, faults, script>>
  BY DEF Release
<1>2. TypeOK' /\ LocksFit' /\ RecordFits' /\ WholeWithoutRecord' /\ NoMixedEngine'
  BY <1>1 DEF TypeOK, LocksFit, RecordFits, WholeWithoutRecord, NoMixedEngine, Files, Mixture,
     Reinstalls, HoldsLease
<1>3. NothingStarts' /\ OpFits' /\ ProcessesFit' /\ VersionsAreMade'
  BY <1>1 DEF NothingStarts, OpFits, ProcessesFit, VersionsAreMade, Files, Quiescent, Starting,
     Vacated, Ready, Startable, Reinstalls
<1>4. RecoveringFits' /\ ApplyingFits' /\ RollingBackFits'
  BY <1>1 DEF LiveFits, RecoveringFits, ApplyingFits, RollingBackFits, Recovering, Applying,
     RollingBack, Files, Mixture, Reinstalls, OnlyConfigChanges
<1>5. EnginesFit' /\ StartedIsCurrent'
  BY <1>1 DEF EnginesFit, StartedIsCurrent, RollingBack, Applying, NotCandidate, Fresh, Files,
     MeantToStart, NeedsStart
<1> QED BY <1>2, <1>3, <1>4, <1>5 DEF LiveFits

\* Begin: a command takes the operation lock and knows what is live.
LEMMA BeginKeeps ==
  ASSUME MixedInv, NEW kind \in script, Begin(kind), UNCHANGED script PROVE MixedInv'
<1> USE DEF MixedInv
<1>1. /\ op.pc = "idle" /\ \A p \in Process : proc[p].pc # "recovering"
      /\ UNCHANGED <<Files, leftover, proc, svc, faults, script>>
  BY DEF Begin, OperationHeld, Untouched
<1>2. kind \in UNION Scripts
  BY DEF TypeOK
<1>3. /\ op' \in Op /\ op'.pc = "permit" /\ op'.kind = kind /\ op'.phase = "recover"
      /\ op'.from = live /\ op'.to = live /\ ~op'.tried /\ ~op'.grant
  BY <1>2 DEF Begin, Op, Steps, TypeOK
<1>4. op' # Idle
  BY <1>3 DEF Idle
<1>5. LocksFit' /\ NothingStarts' /\ OpFits'
  BY <1>1, <1>3, <1>4 DEF LocksFit, NothingStarts, OpFits, HoldsLease, QuietSteps, GrantSteps, Waits
<1>6. LiveFits' /\ EnginesFit' /\ StartedIsCurrent'
  BY <1>3 DEF LiveFits, RecoveringFits, ApplyingFits, RollingBackFits, Applying, RollingBack,
     EnginesFit, StartedIsCurrent, InStart, StartSteps, GrantSteps, Waits
<1>7. \A f \in File : op'.from[f] <= made /\ op'.to[f] <= made
  BY <1>3 DEF VersionsAreMade
<1> QED BY <1>1, <1>3, <1>5, <1>6, <1>7, CommandMoves DEF TypeOK

-----------------------------------------------------------------------------
(***************************************************************************)
(* The steps of a command that prepare, write or commit files.             *)
(***************************************************************************)
\* A record names two sets of files, which NoRecord does not.
LEMMA RecordIsARecord == \A r \in Record : r # NoRecord
BY DEF Record, NoRecord, Set, File

\* While nothing starts and no command died, no process is bound to the files.
LEMMA QuietProcesses ==
  ASSUME MixedInv, op # Idle, Quiescent, ~leftover, UNCHANGED <<proc, leftover>>
  PROVE  ProcessesFit'
BY DEF MixedInv, LocksFit, ProcessesFit, Quiescent, Starting

\* A version that was not made before is in no engine.
LEMMA NewVersionIsNotLoaded ==
  ASSUME MixedInv, NEW o \in Op, o.from = live, made' = made + 1,
         \A f \in File : o.to[f] \in {live[f], made'},
         NEW p \in Process, proc[p].pc = "ready", EngineFiles(o.to) # EngineFiles(o.from)
  PROVE  proc[p].loaded # EngineFiles(o.to)
<1> USE DEF MixedInv, TypeOK
<1>1. PICK f \in {"core", "config"} : o.to[f] # live[f]
  BY DEF EngineFiles
<1>2. o.to[f] = made + 1
  BY <1>1 DEF File
<1>3. proc[p].loaded.core <= made /\ proc[p].loaded.config <= made
  BY DEF VersionsAreMade
<1>4. proc[p].loaded.core \in Nat /\ proc[p].loaded.config \in Nat /\ made \in Nat
  BY ProcIsTyped DEF Pair, Version
<1> QED BY <1>1, <1>2, <1>3, <1>4 DEF EngineFiles

\* A preparation fits the invariant when the command it prepares for does.
LEMMA PreparationKeeps ==
  ASSUME MixedInv, UNCHANGED <<live, record, complete, leftover, svc, proc, faults, script>>,
         op # Idle, Quiescent, ~leftover,
         made' = made + 1, made' \in Version, op' \in Op,
         LocksFit', NothingStarts', OpFits', LiveFits', EnginesFit', StartedIsCurrent',
         \A f \in File : op'.from[f] \in {live[f], made'} /\ op'.to[f] \in {live[f], made'}
  PROVE  MixedInv'
<1> USE DEF MixedInv
<1>1. TypeOK' /\ RecordFits' /\ WholeWithoutRecord' /\ NoMixedEngine'
  BY DEF TypeOK, RecordFits, WholeWithoutRecord, NoMixedEngine, Mixture, Reinstalls
<1>2. ProcessesFit'
  BY QuietProcesses
<1>3. /\ \A p \in Process : proc[p].pc = "ready" =>
           proc[p].loaded.core \in Nat /\ proc[p].loaded.config \in Nat
      /\ \A f \in File : live[f] \in Nat
      /\ record # NoRecord => \A f \in File : record.from[f] \in Nat /\ record.to[f] \in Nat
      /\ made \in Nat
  BY ProcIsTyped DEF TypeOK, Pair, Version, Set, Record
<1>4. VersionsAreMade'
  BY <1>3 DEF VersionsAreMade
<1> QED BY <1>1, <1>2, <1>4

\* PrepareUpgrade, PrepareConfig: what they replace is in no running engine yet.
LEMMA PrepareReplacementKeeps ==
  ASSUME MixedInv, PrepareUpgrade \/ PrepareConfig, UNCHANGED script
  PROVE  MixedInv'
<1> USE DEF MixedInv
<1>1. /\ op \in Op /\ op # Idle /\ op.pc = "run" /\ ~op.grant /\ ~leftover
      /\ op.phase = "apply" /\ record = NoRecord /\ live = op.from
      /\ ~Reinstalls => op.from \in complete
      /\ op.kind \in Replacing /\ Quiescent
      /\ UNCHANGED <<live, record, complete, leftover, svc, proc, faults, script>>
  BY OpIsTyped DEF PrepareUpgrade, PrepareConfig, Prepared, On, Steps, LocksFit, GrantSteps, OpFits,
     LiveFits, ApplyingFits, Applying, NothingStarts, QuietSteps, Replacing
<1>2. made' = made + 1 /\ made' \in Version
  <2>1. made < (IF script \in Repeated THEN MaxVersion ELSE 1) /\ made' = made + 1
    BY DEF PrepareUpgrade, PrepareConfig, Prepared
  <2> QED BY <2>1, MixedAssumption DEF TypeOK, Version
<1>3. live \in Set /\ Active \in BOOLEAN
  BY DEF TypeOK, Active
<1>4. /\ op' \in Op /\ op'.kind = op.kind /\ op'.from = live /\ op'.phase = "apply" /\ ~op'.grant
      /\ op'.tried = op.tried
      /\ \A f \in File : op'.to[f] \in {live[f], made'}
      /\ \/ op.kind = "upgrade" /\ op'.pc = "save"
         \/ /\ op.kind # "upgrade" /\ op'.pc = "write" /\ op'.todo = {"config"}
            /\ \A f \in File \ {"config"} : op'.to[f] = live[f]
  <2>1. CASE PrepareUpgrade
    <3>1. PICK changed \in SUBSET File :
            op' = [op EXCEPT !.pc = "save", !.active = Active,
                             !.to = [f \in File |-> IF f \in changed THEN made' ELSE live[f]]]
      BY <2>1 DEF PrepareUpgrade
    <3>2. PICK to \in Set : to = [f \in File |-> IF f \in changed THEN made' ELSE live[f]]
      BY <1>2, <1>3 DEF Set
    <3>3. op' = [op EXCEPT !.pc = "save", !.active = Active, !.to = to]
      BY <3>1, <3>2
    <3>4. \A f \in File : to[f] \in {live[f], made'}
      BY <3>2
    <3>5. op.kind = "upgrade"
      BY <2>1 DEF PrepareUpgrade, Prepared
    <3> QED BY <1>1, <1>3, <3>3, <3>4, <3>5 DEF Op, Steps
  <2>2. CASE PrepareConfig
    <3>1. op' = [op EXCEPT !.pc = "write", !.active = Active, !.todo = {"config"},
                           !.to = [live EXCEPT !["config"] = made']]
      BY <2>2 DEF PrepareConfig
    <3>2. PICK to \in Set : to = [live EXCEPT !["config"] = made']
      BY <1>2, <1>3 DEF Set
    <3>3. op' = [op EXCEPT !.pc = "write", !.active = Active, !.todo = {"config"}, !.to = to]
      BY <3>1, <3>2
    <3>4. \A f \in File : to[f] = IF f = "config" THEN made' ELSE live[f]
      BY <1>3, <3>2 DEF Set, File
    <3>5. op.kind # "upgrade" /\ {"config"} \subseteq File
      BY <2>2 DEF PrepareConfig, Prepared, File
    <3> QED BY <1>1, <1>3, <3>3, <3>4, <3>5 DEF Op, Steps
  <2> QED BY <2>1, <2>2
<1>5. op' # Idle /\ op'.pc \in {"save", "write"}
  BY <1>4 DEF Idle
<1>6. LocksFit' /\ NothingStarts' /\ OpFits'
  BY <1>1, <1>4, <1>5 DEF LocksFit, NothingStarts, OpFits, HoldsLease, QuietSteps, GrantSteps, Waits,
     Quiescent, Starting, Replacing
<1>7. RecoveringFits' /\ RollingBackFits'
  BY <1>4 DEF RecoveringFits, RollingBackFits, Recovering, RollingBack
<1>8. ApplyingFits'
  BY <1>1, <1>4, <1>5 DEF ApplyingFits, InStart, StartSteps, GrantSteps, Waits, SavedRecord, Mixture,
     OnlyConfigChanges, Reinstalls
<1>9. NotCandidate'
  BY <1>1, <1>2, <1>4, NewVersionIsNotLoaded DEF NotCandidate
<1>10. EnginesFit' /\ StartedIsCurrent'
  BY <1>4, <1>5, <1>9 DEF EnginesFit, StartedIsCurrent, GrantSteps, RollingBack
<1>11. \A f \in File : op'.from[f] \in {live[f], made'} /\ op'.to[f] \in {live[f], made'}
  BY <1>4
<1> QED BY <1>1, <1>2, <1>4, <1>6, <1>7, <1>8, <1>10, <1>11, PreparationKeeps DEF LiveFits

\* PrepareInstall: a reinstall, of which only the locks and the engine that it
\* starts are promised anything.
LEMMA PrepareInstallKeeps == ASSUME MixedInv, PrepareInstall, UNCHANGED script PROVE MixedInv'
<1> USE DEF MixedInv
<1>1. /\ op \in Op /\ op # Idle /\ op.pc = "run" /\ ~op.grant /\ ~leftover
      /\ op.phase = "apply" /\ record = NoRecord /\ live = op.from
      /\ ~Reinstalls => op.from \in complete
      /\ op.kind = "install" /\ Quiescent
      /\ UNCHANGED <<live, record, complete, leftover, svc, proc, faults, script>>
  BY OpIsTyped DEF PrepareInstall, Prepared, On, Steps, LocksFit, GrantSteps, OpFits,
     LiveFits, ApplyingFits, Applying, NothingStarts, QuietSteps
<1>2. made' = made + 1 /\ made' \in Version
  BY MixedAssumption DEF PrepareInstall, Prepared, TypeOK, Version
<1>3. live \in Set
  BY DEF TypeOK
<1>4. PICK to \in Set : to = [live EXCEPT !["core"] = made', !["config"] = made']
  BY <1>2, <1>3 DEF Set
<1>5. op' = [op EXCEPT !.pc = "core", !.to = to]
  BY <1>4 DEF PrepareInstall
<1>6. \A f \in File : to[f] \in {live[f], made'}
  BY <1>3, <1>4 DEF Set
<1>7. /\ op' \in Op /\ op'.kind = "install" /\ op'.from = live /\ op'.phase = "apply" /\ ~op'.grant
      /\ op'.tried = op.tried /\ op'.to = to /\ op'.pc = "core"
  BY <1>1, <1>5 DEF Op, Steps
<1>8. op' # Idle
  BY <1>7 DEF Idle
<1>9. LocksFit' /\ NothingStarts' /\ OpFits'
  BY <1>1, <1>7, <1>8 DEF LocksFit, NothingStarts, OpFits, HoldsLease, QuietSteps, GrantSteps, Waits,
     Quiescent, Starting
<1>10. RecoveringFits' /\ RollingBackFits'
  BY <1>7 DEF RecoveringFits, RollingBackFits, Recovering, RollingBack
<1>11. ApplyingFits'
  BY <1>1, <1>7 DEF ApplyingFits, InStart, StartSteps, GrantSteps, Waits, Reinstalls, Replacing
<1>12. EnginesFit' /\ StartedIsCurrent'
  BY <1>7 DEF EnginesFit, StartedIsCurrent, GrantSteps, RollingBack
<1> QED BY <1>1, <1>2, <1>6, <1>7, <1>9, <1>10, <1>11, <1>12, PreparationKeeps DEF LiveFits

\* A step that writes files while nothing starts.
LEMMA FilesMove ==
  ASSUME MixedInv, op # Idle, Quiescent, ~leftover,
         UNCHANGED <<leftover, svc, proc, made, script>>, faults' \in 0..MaxFaults,
         op' \in Op, live' \in Set, record' \in Record \cup {NoRecord},
         complete \subseteq complete', complete' \subseteq Set,
         LocksFit', NothingStarts', OpFits', LiveFits', EnginesFit', StartedIsCurrent',
         RecordFits', WholeWithoutRecord',
         \A f \in File : live'[f] <= made /\ op'.from[f] <= made /\ op'.to[f] <= made,
         record' # NoRecord => \A f \in File : record'.from[f] <= made /\ record'.to[f] <= made
  PROVE  MixedInv'
<1> USE DEF MixedInv
<1>1. TypeOK'
  BY DEF TypeOK
<1>2. NoMixedEngine'
  BY DEF NoMixedEngine, Reinstalls
<1>3. ProcessesFit'
  BY QuietProcesses
<1>4. VersionsAreMade'
  BY DEF VersionsAreMade
<1> QED BY <1>1, <1>2, <1>3, <1>4

\* Save: the record is there before the first live write.
LEMMA SaveKeeps == ASSUME MixedInv, Save, UNCHANGED script PROVE MixedInv'
<1> USE DEF MixedInv
<1>1. /\ op \in Op /\ op # Idle /\ op.pc = "save" /\ ~op.grant /\ ~leftover /\ Quiescent
      /\ op.phase = "apply" /\ op.kind = "upgrade" /\ live = op.from
      /\ ~Reinstalls => op.from \in complete
      /\ UNCHANGED <<live, leftover, svc, proc, complete, faults, made, script>>
  BY OpIsTyped DEF Save, On, Steps, LocksFit, GrantSteps, OpFits, LiveFits, ApplyingFits, Applying,
     NothingStarts, QuietSteps
<1>2. record' = [from |-> op.from, to |-> op.to]
  BY <1>1 DEF Save
<1>3. record' \in Record /\ record'.from = op.from /\ record'.to = op.to /\ record' # NoRecord
  BY <1>1, <1>2, RecordIsARecord DEF Record, Op
<1>4. /\ op' \in Op /\ op'.pc = "write" /\ op'.todo = File /\ op'.tried = op.tried
      /\ op'.kind = op.kind /\ op'.to = op.to /\ op'.from = op.from /\ op'.phase = op.phase
      /\ ~op'.grant
  BY <1>1 DEF Save, Op, Steps
<1>5. op' # Idle
  BY <1>4 DEF Idle
<1>6. LocksFit' /\ NothingStarts' /\ OpFits'
  BY <1>1, <1>4, <1>5 DEF LocksFit, NothingStarts, OpFits, HoldsLease, QuietSteps, GrantSteps, Waits,
     Quiescent, Starting, Replacing
<1>7. RecoveringFits' /\ RollingBackFits'
  BY <1>1, <1>4 DEF RecoveringFits, RollingBackFits, Recovering, RollingBack
<1>8. ApplyingFits'
  BY <1>1, <1>2, <1>4 DEF ApplyingFits, InStart, StartSteps, GrantSteps, Waits, SavedRecord, Mixture,
     OnlyConfigChanges, Reinstalls, Replacing
<1>9. EnginesFit' /\ StartedIsCurrent'
  BY <1>1, <1>4 DEF EnginesFit, StartedIsCurrent, GrantSteps, RollingBack, Applying, NotCandidate,
     Replacing
<1>10. RecordFits' /\ WholeWithoutRecord'
  BY <1>1, <1>3 DEF RecordFits, Mixture, WholeWithoutRecord, Reinstalls
<1>11. /\ \A f \in File : live'[f] <= made /\ op'.from[f] <= made /\ op'.to[f] <= made
       /\ \A f \in File : record'.from[f] <= made /\ record'.to[f] <= made
  BY <1>1, <1>3, <1>4 DEF VersionsAreMade
<1> QED BY <1>1, <1>3, <1>4, <1>6, <1>7, <1>8, <1>9, <1>10, <1>11, FilesMove DEF LiveFits, TypeOK

\* A set of files is what it holds.
LEMMA SetsAreEqual ==
  ASSUME NEW a \in Set, NEW b \in Set, \A f \in File : a[f] = b[f]
  PROVE  a = b
BY DEF Set

\* Write(f): one live file of the new set; after the last one the set is whole.
LEMMA WriteKeeps == ASSUME MixedInv, NEW f \in File, Write(f), UNCHANGED script PROVE MixedInv'
<1> USE DEF MixedInv
<1>1. /\ op \in Op /\ op # Idle /\ op.pc = "write" /\ f \in op.todo /\ ~op.grant /\ ~leftover
      /\ Quiescent /\ op.phase = "apply" /\ op.kind \in Replacing
      /\ ~Reinstalls => op.from \in complete
      /\ record = SavedRecord(op) /\ Mixture(op.from, op.to) /\ OnlyConfigChanges
      /\ \A g \in File \ op.todo : live[g] = op.to[g]
      /\ ~op.tried => NotCandidate
      /\ UNCHANGED <<record, leftover, svc, proc, faults, made, script>>
  BY OpIsTyped DEF Write, On, Steps, LocksFit, GrantSteps, OpFits, LiveFits, ApplyingFits, Applying,
     NothingStarts, QuietSteps, EnginesFit
<1>2. live \in Set /\ op.to \in Set /\ op.from \in Set
  BY <1>1 DEF TypeOK, Op
<1>3. /\ live' \in Set /\ live'[f] = op.to[f]
      /\ \A g \in File : g # f => live'[g] = live[g]
  BY <1>2 DEF Write, Set
<1>5. \A g \in File : live'[g] \in {op.from[g], op.to[g]}
  BY <1>1, <1>3 DEF Mixture
<1>6. PICK o \in Op : o = [op EXCEPT !.todo = @ \ {f}]
  BY <1>1 DEF Op
<1>7. /\ o.todo = op.todo \ {f} /\ o.pc = "write" /\ o.kind = op.kind /\ o.to = op.to
      /\ o.from = op.from /\ o.phase = op.phase /\ o.tried = op.tried /\ ~o.grant
  BY <1>1, <1>6 DEF Op
<1>8. RecordFits'
  <2>1. CASE op.kind = "upgrade"
    BY <1>1, <1>5, <2>1 DEF RecordFits, Mixture, SavedRecord, Reinstalls, Write
  <2>2. CASE op.kind # "upgrade"
    BY <1>1, <2>2 DEF RecordFits, SavedRecord
  <2> QED BY <2>1, <2>2
<1>9. /\ \A g \in File : live'[g] <= made /\ op.from[g] <= made /\ op.to[g] <= made
      /\ record # NoRecord => \A g \in File : record.from[g] <= made /\ record.to[g] <= made
  BY <1>1, <1>3 DEF VersionsAreMade
<1>10. CASE o.todo # {}
  <2>1. op' = o /\ complete' = complete
    BY <1>6, <1>10 DEF Write
  <2>2. op' # Idle
    BY <1>7, <2>1 DEF Idle
  <2>3. op.kind = "upgrade" /\ record # NoRecord
    <3>1. op.kind = "upgrade"
      BY <1>1, <1>7, <1>10 DEF OpFits, Replacing
    <3>2. record \in Record
      BY <1>1, <1>2, <3>1 DEF SavedRecord, Record
    <3> QED BY <3>1, <3>2, RecordIsARecord
  <2>4. LocksFit' /\ NothingStarts' /\ OpFits'
    BY <1>1, <1>7, <2>1, <2>2, <2>3 DEF LocksFit, NothingStarts, OpFits, HoldsLease, QuietSteps,
       GrantSteps, Waits, Quiescent, Starting
  <2>5. RecoveringFits' /\ RollingBackFits'
    BY <1>1, <1>7, <2>1 DEF RecoveringFits, RollingBackFits, Recovering, RollingBack
  <2>6. ApplyingFits'
    BY <1>1, <1>3, <1>5, <1>7, <2>1 DEF ApplyingFits, InStart, StartSteps, GrantSteps, Waits,
       SavedRecord, Mixture, OnlyConfigChanges, Reinstalls
  <2>7. EnginesFit' /\ StartedIsCurrent'
    BY <1>1, <1>7, <2>1 DEF EnginesFit, StartedIsCurrent, GrantSteps, RollingBack, NotCandidate
  <2>8. WholeWithoutRecord'
    BY <1>1, <2>3 DEF WholeWithoutRecord
  <2> QED BY <1>1, <1>3, <1>7, <1>8, <1>9, <2>1, <2>4, <2>5, <2>6, <2>7, <2>8, FilesMove
          DEF LiveFits, TypeOK
<1>11. CASE o.todo = {}
  <2>1. Written(o) /\ complete' = complete \cup {op.to}
    BY <1>6, <1>11 DEF Write
  <2>2. live' = op.to
    BY <1>1, <1>2, <1>3, <1>7, <1>11, SetsAreEqual
  <2>3. PICK a \in Op : a = IF o.kind = "port" THEN [o EXCEPT !.active = Active] ELSE o
    BY DEF Op, Active
  <2>4. /\ a.pc = "write" /\ a.kind = op.kind /\ a.to = op.to
        /\ a.from = op.from /\ a.phase = op.phase /\ a.tried = op.tried /\ ~a.grant
    BY <1>7, <2>3 DEF Op
  <2>5. IF NeedsStart(a) THEN op' = [a EXCEPT !.pc = "start"] ELSE Started(a)
    BY <2>1, <2>3 DEF Written
  <2>6. /\ op' \in Op /\ op'.kind = op.kind /\ op'.to = op.to /\ op'.from = op.from
        /\ op'.phase = "apply" /\ op'.tried = op.tried /\ ~op'.grant
        /\ \/ op'.pc = "start"
           \/ op'.pc = "finish" /\ ~NeedsStart(op') /\ op.kind = "upgrade"
           \/ op'.pc = "done" /\ ~NeedsStart(op')
    <3>1. CASE NeedsStart(a)
      BY <1>1, <2>4, <2>5, <3>1 DEF Op, Steps
    <3>2. CASE ~NeedsStart(a) /\ op.kind = "upgrade"
      <4>1. op' = [a EXCEPT !.pc = "finish"]
        BY <2>4, <2>5, <3>2 DEF Started
      <4> QED BY <1>1, <2>4, <3>2, <4>1 DEF Op, Steps, NeedsStart
    <3>3. CASE ~NeedsStart(a) /\ op.kind # "upgrade"
      <4>1. op' = [a EXCEPT !.pc = "done", !.ok = a.phase # "rollback"]
        BY <1>1, <2>4, <2>5, <3>3 DEF Started
      <4> QED BY <1>1, <2>4, <3>3, <4>1 DEF Op, Steps, NeedsStart
    <3> QED BY <3>1, <3>2, <3>3
  <2>7. op' # Idle /\ op'.pc \in {"start", "finish", "done"}
    BY <2>6 DEF Idle
  <2>8. LocksFit' /\ NothingStarts' /\ OpFits'
    BY <1>1, <2>6, <2>7 DEF LocksFit, NothingStarts, OpFits, HoldsLease, QuietSteps,
       GrantSteps, Waits, Quiescent, Starting, Replacing
  <2>9. RecoveringFits' /\ RollingBackFits'
    BY <2>6 DEF RecoveringFits, RollingBackFits, Recovering, RollingBack
  <2>10. ApplyingFits'
    BY <1>1, <2>1, <2>2, <2>6, <2>7 DEF ApplyingFits, SavedRecord, OnlyConfigChanges, Reinstalls
  <2>11. EnginesFit'
    BY <1>1, <2>6, <2>7 DEF EnginesFit, GrantSteps, RollingBack, NotCandidate, Replacing
  <2>12. StartedIsCurrent'
    BY <1>1, <2>6 DEF StartedIsCurrent, MeantToStart, Replacing
  <2>13. WholeWithoutRecord'
    BY <2>1, <2>2 DEF WholeWithoutRecord
  <2>14. complete \subseteq complete' /\ complete' \subseteq Set
    BY <1>2, <2>1 DEF TypeOK
  <2> QED BY <1>1, <1>3, <1>8, <1>9, <2>6, <2>8, <2>9, <2>10, <2>11, <2>12, <2>13, <2>14, FilesMove
          DEF LiveFits, TypeOK
<1> QED BY <1>10, <1>11

\* Restore(f): one backup goes back; after the last one the old set is live.
LEMMA RestoreKeeps == ASSUME MixedInv, NEW f \in File, Restore(f), UNCHANGED script PROVE MixedInv'
<1> USE DEF MixedInv
<1>1. /\ op \in Op /\ op # Idle /\ op.pc = "restore" /\ f \in op.todo /\ ~op.grant /\ ~leftover
      /\ Quiescent /\ op.phase \in {"recover", "rollback"}
      /\ op.phase = "recover" => Vacated
      /\ UNCHANGED <<record, leftover, svc, proc, complete, faults, made, script>>
  BY OpIsTyped DEF Restore, On, Steps, LocksFit, GrantSteps, OpFits, NothingStarts, QuietSteps
<1>2. live \in Set /\ op.to \in Set /\ op.from \in Set /\ record \in Record \cup {NoRecord}
  BY <1>1 DEF TypeOK, Op
<1>3. CASE op.phase = "recover"
  <2>1. /\ record # NoRecord /\ record \in Record /\ Backup = record.from /\ record.from \in Set
        /\ \A g \in File \ op.todo : live[g] = record.from[g]
        /\ Mixture(record.from, record.to)
        /\ ~Reinstalls => record.from \in complete
        /\ op.from = op.to
    BY <1>1, <1>2, <1>3 DEF LiveFits, RecoveringFits, Recovering, Backup, Record, RecordFits, OpFits
  <2>2. live' = [live EXCEPT ![f] = record.from[f]]
    BY <2>1 DEF Restore
  <2>3. /\ live' \in Set /\ live'[f] = record.from[f]
        /\ \A g \in File : g # f => live'[g] = live[g]
    BY <1>2, <2>1, <2>2 DEF Set
  <2>4. op' = [op EXCEPT !.todo = @ \ {f}, !.pc = IF op.todo = {f} THEN "restart" ELSE "restore"]
    BY DEF Restore
  <2>5. /\ op' \in Op /\ op'.kind = op.kind /\ op'.to = op.to /\ op'.from = op.from
        /\ op'.phase = op.phase /\ op'.tried = op.tried /\ ~op'.grant /\ op'.todo = op.todo \ {f}
        /\ op'.pc = IF op.todo = {f} THEN "restart" ELSE "restore"
    BY <1>1, <2>4 DEF Op, Steps
  <2>6. op' # Idle /\ op'.pc \in {"restart", "restore"}
    BY <2>5 DEF Idle
  <2>7. op'.pc = "restart" => live' = record.from
    <3>1. ASSUME op'.pc = "restart" PROVE \A g \in File : live'[g] = record.from[g]
      BY <2>1, <2>3, <2>5, <3>1
    <3> QED BY <2>1, <2>3, <3>1, SetsAreEqual
  <2>8. LocksFit' /\ NothingStarts' /\ OpFits'
    BY <1>1, <1>3, <2>1, <2>5, <2>6 DEF LocksFit, NothingStarts, OpFits, HoldsLease, QuietSteps,
       GrantSteps, Waits, Quiescent, Starting, Vacated, Ready
  <2>9. ApplyingFits' /\ RollingBackFits'
    BY <1>3, <2>5 DEF ApplyingFits, RollingBackFits, Applying, RollingBack
  <2>10. RecoveringFits'
    BY <1>1, <2>1, <2>3, <2>5, <2>6, <2>7 DEF RecoveringFits, InStart, StartSteps, GrantSteps, Waits
  <2>11. EnginesFit' /\ StartedIsCurrent'
    BY <1>3, <2>5, <2>6 DEF EnginesFit, StartedIsCurrent, GrantSteps, RollingBack
  <2>12. RecordFits' /\ WholeWithoutRecord'
    BY <1>1, <2>1, <2>3 DEF RecordFits, Mixture, WholeWithoutRecord, Reinstalls
  <2>13. /\ \A g \in File : live'[g] <= made /\ op'.from[g] <= made /\ op'.to[g] <= made
         /\ record # NoRecord => \A g \in File : record'.from[g] <= made /\ record'.to[g] <= made
    BY <1>1, <2>1, <2>3, <2>5 DEF VersionsAreMade
  <2> QED BY <1>1, <1>2, <2>3, <2>5, <2>8, <2>9, <2>10, <2>11, <2>12, <2>13, FilesMove
          DEF LiveFits, TypeOK
<1>4. CASE op.phase = "rollback"
  <2>1. /\ ~Reinstalls => op.from \in complete
        /\ record = SavedRecord(op) /\ Mixture(op.from, op.to) /\ OnlyConfigChanges
        /\ \A g \in File \ op.todo : live[g] = op.from[g]
        /\ NotCandidate
    BY <1>1, <1>4 DEF LiveFits, RollingBackFits, RollingBack, EnginesFit, Waits
  <2>2. op.kind = "upgrade" => record \in Record /\ record # NoRecord /\ record.from = op.from
    <3>1. ASSUME op.kind = "upgrade" PROVE record = [from |-> op.from, to |-> op.to]
      BY <2>1, <3>1 DEF SavedRecord
    <3>2. [from |-> op.from, to |-> op.to] \in Record
      BY <1>2 DEF Record
    <3> QED BY <3>1, <3>2, RecordIsARecord
  <2>3. op.kind # "upgrade" => record = NoRecord
    BY <2>1 DEF SavedRecord
  <2>4. Backup = op.from
    BY <2>2, <2>3 DEF Backup
  <2>5. live' = [live EXCEPT ![f] = op.from[f]]
    BY <2>4 DEF Restore
  <2>6. /\ live' \in Set /\ live'[f] = op.from[f]
        /\ \A g \in File : g # f => live'[g] = live[g]
    BY <1>2, <2>5 DEF Set
  <2>7. op' = [op EXCEPT !.todo = @ \ {f}, !.pc = IF op.todo = {f} THEN "restart" ELSE "restore"]
    BY DEF Restore
  <2>8. /\ op' \in Op /\ op'.kind = op.kind /\ op'.to = op.to /\ op'.from = op.from
        /\ op'.phase = op.phase /\ op'.tried = op.tried /\ ~op'.grant /\ op'.todo = op.todo \ {f}
        /\ op'.pc = IF op.todo = {f} THEN "restart" ELSE "restore"
    BY <1>1, <2>7 DEF Op, Steps
  <2>9. op' # Idle /\ op'.pc \in {"restart", "restore"}
    BY <2>8 DEF Idle
  <2>10. op'.pc = "restart" => live' = op.from
    <3>1. ASSUME op'.pc = "restart" PROVE \A g \in File : live'[g] = op.from[g]
      BY <2>1, <2>6, <2>8, <3>1
    <3> QED BY <1>2, <2>6, <3>1, SetsAreEqual
  <2>11. op.kind # "upgrade" => op.todo = {"config"}
    BY <1>1, <1>4 DEF OpFits, Replacing
  <2>12. LocksFit' /\ NothingStarts' /\ OpFits'
    BY <1>1, <1>4, <2>8, <2>9, <2>11 DEF LocksFit, NothingStarts, OpFits, HoldsLease, QuietSteps,
       GrantSteps, Waits, Quiescent, Starting
  <2>13. ApplyingFits' /\ RecoveringFits'
    BY <1>4, <2>8 DEF ApplyingFits, RecoveringFits, Applying, Recovering
  <2>14. \A g \in File : live'[g] \in {op.from[g], op.to[g]}
    BY <2>1, <2>6 DEF Mixture
  <2>15. RollingBackFits'
    BY <1>1, <2>1, <2>6, <2>8, <2>9, <2>10, <2>14 DEF RollingBackFits, InStart, StartSteps,
       GrantSteps, Waits, SavedRecord, Mixture, OnlyConfigChanges, Reinstalls
  <2>16. EnginesFit' /\ StartedIsCurrent'
    BY <1>1, <1>4, <2>1, <2>8, <2>9 DEF EnginesFit, StartedIsCurrent, GrantSteps, Applying, NotCandidate
  <2>17. RecordFits'
    BY <1>1, <2>1, <2>3, <2>14 DEF RecordFits, Mixture, Reinstalls, SavedRecord
  <2>18. WholeWithoutRecord'
    BY <1>1, <2>1, <2>2, <2>8, <2>10, <2>11 DEF WholeWithoutRecord, Reinstalls
  <2>19. /\ \A g \in File : live'[g] <= made /\ op'.from[g] <= made /\ op'.to[g] <= made
         /\ record # NoRecord => \A g \in File : record'.from[g] <= made /\ record'.to[g] <= made
    BY <1>1, <2>6, <2>8 DEF VersionsAreMade
  <2> QED BY <1>1, <1>2, <2>6, <2>8, <2>12, <2>13, <2>15, <2>16, <2>17, <2>18, <2>19, FilesMove
          DEF LiveFits, TypeOK
<1> QED BY <1>1, <1>3, <1>4

\* Where a command removes the record the live files are one whole set.
LEMMA WholeAtTheFinish ==
  ASSUME MixedInv, op # Idle, op.pc = "finish"
  PROVE  ~Reinstalls => live \in complete
<1> USE DEF MixedInv
<1>1. op.phase \in {"recover", "apply", "rollback"}
  BY OpIsTyped DEF Op
<1>2. CASE op.phase = "recover"
  BY <1>2 DEF LiveFits, RecoveringFits, Recovering, RecordFits
<1>3. CASE op.phase = "apply"
  BY <1>3 DEF LiveFits, ApplyingFits, Applying, OpFits, Replacing
<1>4. CASE op.phase = "rollback"
  BY <1>4 DEF LiveFits, RollingBackFits, RollingBack
<1> QED BY <1>1, <1>2, <1>3, <1>4

\* Finish: the commit of an upgrade, the end of its rollback or of a recovery.
LEMMA FinishKeeps == ASSUME MixedInv, Finish, UNCHANGED script PROVE MixedInv'
<1> USE DEF MixedInv
<1>1. /\ op \in Op /\ op # Idle /\ op.pc = "finish" /\ ~op.grant /\ ~leftover
      /\ UNCHANGED <<live, leftover, svc, proc, complete, made, script>>
  BY OpIsTyped DEF Finish, On, Steps, LocksFit, GrantSteps
<1>2. CASE Fault /\ Failed(op) /\ UNCHANGED record
  BY <1>1, <1>2, FailedKeeps, FaultIsTyped DEF Files, TypeOK
<1>3. CASE record' = NoRecord /\ UNCHANGED faults
           /\ IF op.phase = "recover" THEN Goto("settle") ELSE Give(op.phase = "apply")
  <2>1. ~Reinstalls => live \in complete
    BY <1>1, WholeAtTheFinish
  <2>2. /\ op' \in Op /\ op'.kind = op.kind /\ op'.to = op.to /\ op'.from = op.from
        /\ op'.phase = op.phase /\ op'.tried = op.tried /\ ~op'.grant /\ op'.active = op.active
        /\ \/ op.phase = "recover" /\ op'.pc = "settle"
           \/ op.phase # "recover" /\ op'.pc = "done" /\ op'.ok = (op.phase = "apply")
    <3>1. CASE op.phase = "recover"
      <4>1. op' = [op EXCEPT !.pc = "settle"] /\ "settle" \in Steps
        BY <1>3, <3>1 DEF Goto, Steps
      <4> QED BY <1>1, <3>1, <4>1, GoingKeepsTheRest
    <3>2. CASE op.phase # "recover"
      <4>1. op' = [op EXCEPT !.pc = "done", !.ok = op.phase = "apply"]
        BY <1>3, <3>2 DEF Give
      <4>2. CASE op.phase = "apply"
        <5>1. Ends(TRUE)
          BY <1>1, <4>1, <4>2, GiveEnds DEF Give
        <5> QED BY <4>2, <5>1 DEF Ends
      <4>3. CASE op.phase # "apply"
        <5>1. Ends(FALSE)
          BY <1>1, <4>1, <4>3, GiveEnds DEF Give
        <5> QED BY <3>2, <4>3, <5>1 DEF Ends
      <4> QED BY <4>2, <4>3
    <3> QED BY <3>1, <3>2
  <2>3. op' # Idle /\ op'.pc \in {"settle", "done"}
    BY <2>2 DEF Idle
  <2>4. LocksFit' /\ NothingStarts' /\ OpFits'
    BY <1>1, <2>2, <2>3 DEF LocksFit, NothingStarts, OpFits, HoldsLease, QuietSteps, GrantSteps, Waits
  <2>5. RecoveringFits'
    BY <1>3, <2>2, <2>3 DEF RecoveringFits, InStart, StartSteps, GrantSteps, Waits
  <2>6. ApplyingFits' /\ RollingBackFits'
    BY <1>1, <1>3, <2>2, <2>3 DEF LiveFits, ApplyingFits, RollingBackFits, Applying, RollingBack,
       InStart, StartSteps, GrantSteps, Waits, Reinstalls
  <2>7. op.phase = "recover" => Fresh
    BY <1>1 DEF EnginesFit
  <2>8. EnginesFit'
    BY <1>1, <2>2, <2>3, <2>7 DEF EnginesFit, GrantSteps, RollingBack, Applying, Fresh, EngineFiles
  <2>9. StartedIsCurrent'
    <3>1. CASE op.phase = "recover"
      BY <2>2, <3>1 DEF StartedIsCurrent
    <3>2. CASE op.phase = "apply"
      <4>1. op.kind = "upgrade" /\ (NeedsStart(op) => Fresh)
        BY <1>1, <3>2 DEF OpFits, EnginesFit
      <4> QED BY <1>1, <2>2, <4>1 DEF StartedIsCurrent, MeantToStart, NeedsStart, Fresh, EngineFiles
    <3>3. CASE op.phase = "rollback"
      <4>1. op.kind = "upgrade" /\ NotCandidate
        BY <1>1, <3>3 DEF OpFits, EnginesFit, RollingBack, Waits
      <4> QED BY <1>1, <2>2, <3>3, <4>1 DEF StartedIsCurrent, MeantToStart, NeedsStart, NotCandidate
    <3> QED BY <1>1, <3>1, <3>2, <3>3 DEF Op
  <2>10. TypeOK' /\ RecordFits' /\ WholeWithoutRecord' /\ NoMixedEngine'
    BY <1>1, <1>3, <2>1, <2>2 DEF TypeOK, RecordFits, WholeWithoutRecord, NoMixedEngine, Reinstalls
  <2>11. ProcessesFit'
    <3>1. \A p \in Process : proc'[p].pc # "recovering"
      BY <1>1 DEF LocksFit
    <3>2. Startable'
      BY <1>1, <1>3, <2>1 DEF Startable, Reinstalls
    <3> QED BY <1>1, <3>1, <3>2 DEF ProcessesFit
  <2>12. VersionsAreMade'
    BY <1>1, <1>3, <2>2 DEF VersionsAreMade
  <2> QED BY <2>4, <2>5, <2>6, <2>8, <2>9, <2>10, <2>11, <2>12 DEF LiveFits
<1> QED BY <1>2, <1>3 DEF Finish

\* InstallCore, InstallConfig: only a script with a reinstall has these steps.
LEMMA InstallKeeps ==
  ASSUME MixedInv, InstallCore \/ InstallConfig, UNCHANGED script
  PROVE  MixedInv'
<1> USE DEF MixedInv
<1>1. /\ op \in Op /\ op # Idle /\ op.pc \in {"core", "config"} /\ ~op.grant /\ ~leftover
      /\ Quiescent /\ op.phase = "apply" /\ op.kind = "install" /\ Reinstalls /\ record = NoRecord
      /\ UNCHANGED <<record, leftover, svc, proc, made, script>>
  BY OpIsTyped DEF InstallCore, InstallConfig, On, Steps, LocksFit, GrantSteps, OpFits, NothingStarts,
     QuietSteps, Reinstalls, LiveFits, ApplyingFits, Applying, Replacing
<1>2. live \in Set /\ op.to \in Set
  BY <1>1 DEF TypeOK, Op
<1>3. live' \in Set /\ \A f \in File : live'[f] \in {live[f], op.to[f]}
  BY <1>2 DEF InstallCore, InstallConfig, Set
<1>4. /\ op' \in Op /\ op'.kind = op.kind /\ op'.to = op.to /\ op'.from = op.from
      /\ op'.phase = op.phase /\ op'.tried = op.tried /\ ~op'.grant
      /\ op'.pc \in {"config", "start", "done"}
      /\ op'.pc = "done" => ~op'.ok
  <2>1. CASE Goto("config") \/ Goto("start")
    BY <1>1, <2>1 DEF Goto, Op, Steps
  <2>2. CASE Give(FALSE)
    <3>1. op' = [op EXCEPT !.pc = "done", !.ok = FALSE]
      BY <2>2 DEF Give
    <3> QED BY <1>1, <3>1, EndingKeepsTheRest
  <2> QED BY <2>1, <2>2 DEF InstallCore, InstallConfig
<1>5. op' # Idle
  BY <1>4 DEF Idle
<1>6. complete \subseteq complete' /\ complete' \subseteq Set
  BY <1>2 DEF InstallCore, InstallConfig, TypeOK
<1>7. faults' \in 0..MaxFaults
  BY FaultIsTyped DEF InstallCore, InstallConfig, TypeOK
<1>8. LocksFit' /\ NothingStarts' /\ OpFits'
  BY <1>1, <1>4, <1>5 DEF LocksFit, NothingStarts, OpFits, HoldsLease, QuietSteps, GrantSteps, Waits,
     Quiescent, Starting
<1>9. RecoveringFits' /\ RollingBackFits'
  BY <1>1, <1>4 DEF RecoveringFits, RollingBackFits, Recovering, RollingBack
<1>10. ApplyingFits'
  BY <1>1, <1>4 DEF ApplyingFits, Replacing, Reinstalls
<1>11. EnginesFit' /\ StartedIsCurrent'
  BY <1>1, <1>4 DEF EnginesFit, StartedIsCurrent, MeantToStart, GrantSteps, RollingBack, Replacing
<1>12. RecordFits' /\ WholeWithoutRecord'
  BY <1>1 DEF RecordFits, WholeWithoutRecord, Reinstalls
<1>13. /\ \A f \in File : live'[f] <= made /\ op'.from[f] <= made /\ op'.to[f] <= made
       /\ record' = NoRecord
  BY <1>1, <1>3, <1>4 DEF VersionsAreMade
<1> QED BY <1>1, <1>3, <1>4, <1>6, <1>7, <1>8, <1>9, <1>10, <1>11, <1>12, <1>13, FilesMove
        DEF LiveFits, TypeOK

-----------------------------------------------------------------------------
(***************************************************************************)
(* "sbc run": a process against the command beside it.                     *)
(***************************************************************************)
Leases == {"recovering", "leased", "authorized", "loading", "ready"}

\* No command is where a starting process would meet its writes.
NoQuietStep ==
  /\ op.pc \notin QuietSteps
  /\ ~(op.pc = "finish" /\ ~op.tried)

\* A process that starts beside a command is not one that a command rules out.
LEMMA StartingMeetsNoWrites ==
  ASSUME MixedInv, NEW p \in Process, Starting(p)
  PROVE  NoQuietStep
BY DEF MixedInv, NothingStarts, NoQuietStep, Quiescent

\* A process that moves without touching a file keeps the invariant when it has the
\* lease it needs, starts from whole files and reads what is live.
LEMMA ProcessMoves ==
  ASSUME MixedInv, NEW p \in Process, NEW s \in Proc \cup {Off}, Become(p, s), CommandsStay,
         UNCHANGED <<live, record, script>>,
         svc' \in [on : BOOLEAN, dying : BOOLEAN], faults' \in 0..MaxFaults,
         s.pc \in Leases => \A q \in Process \ {p} : ~HoldsLease(q),
         s.pc = "recovering" =>
           /\ op = Idle /\ ~leftover
           /\ record = NoRecord => s.todo = {}
           /\ record # NoRecord => \A f \in File \ s.todo : live[f] = record.from[f],
         s.pc \in {"authorized", "loading"} => Startable /\ NoQuietStep,
         s.pc = "loading" => s.core = live["core"],
         s.pc = "ready" => s.loaded = EngineFiles(live) /\ Starting(p)
  PROVE  MixedInv'
<1> USE DEF MixedInv
<1>1. proc'[p] = s /\ \A q \in Process : q # p => proc'[q] = proc[q]
  BY DEF Become, TypeOK
<1>2. UNCHANGED <<live, record, op, leftover, complete, made, script>>
  BY DEF CommandsStay
<1>3. TypeOK'
  BY <1>2 DEF TypeOK, Become
<1>4. \A q \in Process : HoldsLease(q)' => IF q = p THEN s.pc \in Leases ELSE HoldsLease(q)
  BY <1>1 DEF HoldsLease, Leases
<1>5. LocksFit'
  BY <1>1, <1>2, <1>4 DEF LocksFit
<1>6. s.pc \in {"authorized", "loading", "ready"} => NoQuietStep
  BY StartingMeetsNoWrites
<1>7. /\ NoQuietStep \/ (Quiescent => Quiescent')
      /\ NoQuietStep \/ (Vacated => Vacated')
  BY <1>1, <1>6 DEF Quiescent, Vacated, Starting, Ready
<1>8. NothingStarts' /\ OpFits' /\ RecordFits' /\ WholeWithoutRecord'
  BY <1>2, <1>7 DEF NothingStarts, NoQuietStep, QuietSteps, OpFits, RecordFits, WholeWithoutRecord,
     Reinstalls, Mixture
<1>9. RecoveringFits' /\ ApplyingFits' /\ RollingBackFits'
  BY <1>2 DEF LiveFits, RecoveringFits, ApplyingFits, RollingBackFits, Recovering, Applying,
     RollingBack, Mixture, Reinstalls, OnlyConfigChanges
<1>10. ASSUME s.pc = "ready" PROVE Startable
  BY <1>10 DEF ProcessesFit, Quiescent
<1>11. ProcessesFit'
  <2>1. leftover' \/ ~Quiescent' => Startable
    BY <1>1, <1>2 DEF ProcessesFit, Quiescent, Starting
  <2>2. \A q \in Process : proc'[q].pc = "loading" => proc'[q].core = live'["core"]
    BY <1>1, <1>2 DEF ProcessesFit
  <2>3. \A q \in Process : proc'[q].pc = "recovering" =>
          /\ record' = NoRecord => proc'[q].todo = {}
          /\ record' # NoRecord => \A f \in File \ proc'[q].todo : live'[f] = record'.from[f]
    BY <1>1, <1>2 DEF ProcessesFit
  <2> QED BY <1>2, <2>1, <2>2, <2>3 DEF ProcessesFit, Startable, Reinstalls
<1>12. NoMixedEngine'
  <2>1. ~Reinstalls /\ s.pc = "ready" => EngineFiles(live) = s.loaded /\ live \in complete
    BY <1>10 DEF Startable
  <2> QED BY <1>1, <1>2, <2>1 DEF NoMixedEngine, Reinstalls
<1>13. VersionsAreMade'
  BY <1>1, <1>2 DEF VersionsAreMade, EngineFiles, File
<1>14. Fresh => Fresh'
  BY <1>1, <1>2 DEF Fresh, EngineFiles
<1>15. ASSUME op # Idle, NotCandidate, s.pc # "ready" \/ EngineFiles(live) = EngineFiles(op.from)
       PROVE  NotCandidate'
  BY <1>1, <1>2, <1>15 DEF NotCandidate
<1>16. ASSUME RollingBack, op.pc # "done", ~(op.pc \in Waits /\ op.then = "restore"), s.pc = "ready"
       PROVE  live = op.from
  <2>1. op.pc \in {"finish"} \cup GrantSteps \cup Waits /\ op \in Op
    BY <1>6, <1>16, OpIsTyped DEF RollingBack, OpFits, NoQuietStep, QuietSteps, Op, Steps, GrantSteps, Waits
  <2>2. op.pc \in Waits => op.then \in {"vacant", "failed"}
    BY <1>16, <2>1 DEF RollingBack, OpFits, Replacing, Op
  <2> QED BY <1>16, <2>1, <2>2 DEF LiveFits, RollingBackFits, InStart, StartSteps
<1>17. EnginesFit'
  <2>1. ASSUME RollingBack, op.pc # "done", ~(op.pc \in Waits /\ op.then = "restore")
        PROVE  NotCandidate'
    <3>1. NotCandidate /\ op # Idle
      BY <2>1 DEF EnginesFit, RollingBack
    <3> QED BY <1>15, <1>16, <2>1, <3>1
  <2>2. ASSUME Applying, ~op.tried, op.kind \in Replacing, op.pc \in {"save", "write", "start", "finish"}
        PROVE  NotCandidate'
    <3>1. NotCandidate /\ op # Idle
      BY <2>2 DEF EnginesFit, Applying
    <3>2. s.pc # "ready"
      BY <1>6, <2>2 DEF NoQuietStep, QuietSteps
    <3> QED BY <1>15, <3>1, <3>2
  <2> QED BY <1>2, <1>14, <2>1, <2>2 DEF EnginesFit, RollingBack, Applying, NeedsStart, EngineFiles
<1>18. StartedIsCurrent'
  BY <1>1, <1>2 DEF StartedIsCurrent, MeantToStart, NeedsStart, EngineFiles
<1> QED BY <1>3, <1>5, <1>8, <1>9, <1>11, <1>12, <1>13, <1>17, <1>18 DEF LiveFits

\* What a step of "sbc run" has to give ProcessMoves when it frees the lease.
LEMMA OffKeeps ==
  ASSUME MixedInv, NEW p \in Process, Become(p, Off), CommandsStay,
         UNCHANGED <<live, record, script>>,
         svc' \in [on : BOOLEAN, dying : BOOLEAN], faults' \in 0..MaxFaults
  PROVE  MixedInv'
<1>1. Off.pc = "off" /\ Off \in Proc \cup {Off}
  BY DEF Off
<1> QED BY <1>1, ProcessMoves DEF Leases

\* Spawn: a new process has read nothing.
LEMMA SpawnKeeps ==
  ASSUME MixedInv, NEW p \in Process, Spawn(p), UNCHANGED script PROVE MixedInv'
<1> DEFINE s == [pc |-> "begin"]
<1>1. s \in Proc /\ s.pc = "begin"
  BY DEF Proc
<1>2. /\ Become(p, s) /\ CommandsStay /\ UNCHANGED <<live, record>>
      /\ svc' \in [on : BOOLEAN, dying : BOOLEAN] /\ faults' \in 0..MaxFaults
  BY DEF Spawn, MixedInv, TypeOK
<1> HIDE DEF s
<1> QED BY <1>1, <1>2, ProcessMoves DEF Leases

\* BeginAlone: without a command the lease is free, and an interrupted upgrade is
\* undone before anything starts.
LEMMA BeginAloneKeeps ==
  ASSUME MixedInv, NEW p \in Process, BeginAlone(p), UNCHANGED script PROVE MixedInv'
<1> USE DEF MixedInv
<1>1. /\ op = Idle /\ CommandsStay /\ UNCHANGED <<live, record>>
      /\ svc' \in [on : BOOLEAN, dying : BOOLEAN] /\ faults' \in 0..MaxFaults
  BY OpIsTyped DEF BeginAlone, OperationHeld, TypeOK
<1>2. CASE leftover \/ EngineBusy
  BY <1>1, <1>2, OffKeeps DEF BeginAlone
<1>3. CASE ~(leftover \/ EngineBusy)
  <2>1. PICK todo \in SUBSET File : todo = IF record = NoRecord THEN {} ELSE File
    OBVIOUS
  <2> DEFINE s == [pc |-> "recovering", todo |-> todo]
  <2>2. s \in Proc /\ s.pc = "recovering" /\ s.todo = todo
    BY DEF Proc
  <2>3. Become(p, s)
    BY <1>3, <2>1 DEF BeginAlone
  <2>4. \A q \in Process : ~HoldsLease(q)
    BY <1>3 DEF EngineBusy
  <2> HIDE DEF s
  <2> QED BY <1>1, <1>3, <2>1, <2>2, <2>3, <2>4, ProcessMoves
<1> QED BY <1>2, <1>3

\* BeginUnder: beside a command only the lease is taken.
LEMMA BeginUnderKeeps ==
  ASSUME MixedInv, NEW p \in Process, BeginUnder(p), UNCHANGED script PROVE MixedInv'
<1> USE DEF MixedInv
<1>1. /\ CommandsStay /\ UNCHANGED <<live, record>>
      /\ svc' \in [on : BOOLEAN, dying : BOOLEAN] /\ faults' \in 0..MaxFaults
  BY DEF BeginUnder, TypeOK
<1>2. CASE EngineBusy
  BY <1>1, <1>2, OffKeeps DEF BeginUnder
<1>3. CASE ~EngineBusy
  <2> DEFINE s == [pc |-> "leased"]
  <2>1. s \in Proc /\ s.pc = "leased"
    BY DEF Proc
  <2>2. Become(p, s) /\ \A q \in Process : ~HoldsLease(q)
    BY <1>3 DEF BeginUnder, EngineBusy
  <2> HIDE DEF s
  <2> QED BY <1>1, <2>1, <2>2, ProcessMoves
<1> QED BY <1>2, <1>3

\* Authorize: a grant is given over whole files, to no writing command's process.
LEMMA AuthorizeKeeps ==
  ASSUME MixedInv, NEW p \in Process, Authorize(p), UNCHANGED script PROVE MixedInv'
<1> USE DEF MixedInv
<1>1. /\ proc[p].pc = "leased" /\ CommandsStay /\ UNCHANGED <<live, record>>
      /\ svc' \in [on : BOOLEAN, dying : BOOLEAN] /\ faults' \in 0..MaxFaults
  BY DEF Authorize, TypeOK
<1>2. CASE ~Granted
  BY <1>1, <1>2, OffKeeps DEF Authorize
<1>3. CASE Granted
  <2> DEFINE s == [pc |-> "authorized"]
  <2>1. s \in Proc /\ s.pc = "authorized"
    BY DEF Proc
  <2>2. Become(p, s)
    BY <1>3 DEF Authorize
  <2>3. \A q \in Process \ {p} : ~HoldsLease(q)
    BY <1>1 DEF LocksFit, HoldsLease
  <2>4. CASE leftover
    <3>1. Startable
      BY <2>4 DEF ProcessesFit
    <3>2. NoQuietStep
      BY <2>4, OpIsTyped DEF LocksFit, NoQuietStep, QuietSteps, Steps
    <3> HIDE DEF s
    <3> QED BY <1>1, <2>1, <2>2, <2>3, <3>1, <3>2, ProcessMoves
  <2>5. CASE op # Idle /\ op.grant
    <3>1. op.pc \in GrantSteps
      BY <2>5 DEF LocksFit
    <3>2. Startable
      BY <2>5, <3>1, StartsFromAWholeSet DEF InStart, StartSteps
    <3>3. NoQuietStep
      BY <3>1 DEF NoQuietStep, QuietSteps, GrantSteps
    <3> HIDE DEF s
    <3> QED BY <1>1, <2>1, <2>2, <2>3, <3>2, <3>3, ProcessMoves
  <2> QED BY <1>3, <2>4, <2>5, OpIsTyped DEF Granted
<1> QED BY <1>2, <1>3

\* Exec: the engine's program is the live one.
LEMMA ExecKeeps ==
  ASSUME MixedInv, NEW p \in Process, Exec(p), UNCHANGED script PROVE MixedInv'
<1> USE DEF MixedInv
<1>1. /\ proc[p].pc = "authorized" /\ CommandsStay /\ UNCHANGED <<live, record>>
      /\ svc' \in [on : BOOLEAN, dying : BOOLEAN] /\ faults' \in 0..MaxFaults
      /\ live["core"] \in Version
  BY DEF Exec, TypeOK, Set, File
<1> DEFINE s == [pc |-> "loading", core |-> live["core"]]
<1>2. s \in Proc /\ s.pc = "loading" /\ s.core = live["core"]
  BY <1>1 DEF Proc
<1>3. Become(p, s)
  BY DEF Exec
<1>4. \A q \in Process \ {p} : ~HoldsLease(q)
  BY <1>1 DEF LocksFit, HoldsLease
<1>5. Startable /\ NoQuietStep
  BY <1>1, StartingMeetsNoWrites DEF ProcessesFit, Quiescent, Starting
<1> HIDE DEF s
<1> QED BY <1>1, <1>2, <1>3, <1>4, <1>5, ProcessMoves

\* Load: and so is its configuration.
LEMMA LoadKeeps ==
  ASSUME MixedInv, NEW p \in Process, Load(p), UNCHANGED script PROVE MixedInv'
<1> USE DEF MixedInv
<1>1. /\ proc[p].pc = "loading" /\ CommandsStay /\ UNCHANGED <<live, record>>
      /\ svc' \in [on : BOOLEAN, dying : BOOLEAN] /\ faults' \in 0..MaxFaults
      /\ live["core"] \in Version /\ live["config"] \in Version
  BY DEF Load, TypeOK, Set, File
<1>2. proc[p].core = live["core"]
  BY <1>1 DEF ProcessesFit
<1>3. EngineFiles(live) \in Pair
  BY <1>1 DEF EngineFiles, Pair
<1> DEFINE s == [pc |-> "ready", loaded |-> EngineFiles(live)]
<1>4. s \in Proc /\ s.pc = "ready" /\ s.loaded = EngineFiles(live)
  BY <1>3 DEF Proc
<1>5. Become(p, s)
  BY <1>2 DEF Load, EngineFiles
<1>6. \A q \in Process \ {p} : ~HoldsLease(q)
  BY <1>1 DEF LocksFit, HoldsLease
<1> HIDE DEF s
<1> QED BY <1>1, <1>4, <1>5, <1>6, ProcessMoves DEF Starting

\* Exit: whatever a process was, it holds nothing any more.
LEMMA ExitKeeps ==
  ASSUME MixedInv, NEW p \in Process, Exit(p), UNCHANGED script PROVE MixedInv'
<1>1. svc' \in [on : BOOLEAN, dying : BOOLEAN]
  BY DEF Exit, MixedInv, TypeOK
<1>2. faults' \in 0..MaxFaults
  BY FaultIsTyped DEF Exit, MixedInv, TypeOK
<1> QED BY <1>1, <1>2, OffKeeps DEF Exit

\* RunRestore: "sbc run" puts a backup back while no command is there.
LEMMA RunRestoreKeeps ==
  ASSUME MixedInv, NEW p \in Process, NEW f \in File, RunRestore(p, f), UNCHANGED script
  PROVE  MixedInv'
<1> USE DEF MixedInv
<1>1. /\ proc[p].pc = "recovering" /\ f \in proc[p].todo /\ CommandsStay
      /\ UNCHANGED <<record, svc, faults>> /\ op = Idle /\ ~leftover /\ record # NoRecord
      /\ \A g \in File \ proc[p].todo : live[g] = record.from[g]
  BY DEF RunRestore, LocksFit, ProcessesFit
<1>2. record \in Record /\ live \in Set /\ record.from \in Set
  BY <1>1 DEF TypeOK, Record
<1>3. /\ live' \in Set /\ live'[f] = record.from[f]
      /\ \A g \in File : g # f => live'[g] = live[g]
  BY <1>2 DEF RunRestore, Set
<1>4. PICK s \in Proc : s = [proc[p] EXCEPT !.todo = @ \ {f}]
  <2>1. proc[p] \in [pc : {"recovering"}, todo : SUBSET File]
    BY <1>1, ProcIsTyped
  <2> QED BY <2>1 DEF Proc
<1>5. s.pc = "recovering" /\ s.todo = proc[p].todo \ {f}
  <2>1. proc[p] \in [pc : {"recovering"}, todo : SUBSET File]
    BY <1>1, ProcIsTyped
  <2> QED BY <1>4, <2>1
<1>6. proc'[p] = s /\ \A q \in Process : q # p => proc'[q] = proc[q]
  BY <1>4 DEF RunRestore, Become, TypeOK
<1>7. \A q \in Process : proc'[q].pc = proc[q].pc
  BY <1>1, <1>5, <1>6
<1>8. TypeOK'
  BY <1>1, <1>3, <1>4 DEF TypeOK, CommandsStay, RunRestore, Become
<1>9. LocksFit'
  BY <1>1, <1>7 DEF LocksFit, HoldsLease, CommandsStay
<1>10. RecordFits' /\ WholeWithoutRecord'
  BY <1>1, <1>3 DEF RecordFits, WholeWithoutRecord, Mixture, CommandsStay, Reinstalls
<1>11. \A q \in Process : q # p => ~HoldsLease(q)
  BY <1>1 DEF LocksFit, HoldsLease
<1>12. ProcessesFit'
  <2>1. Quiescent'
    BY <1>1, <1>7, <1>11 DEF Quiescent, Starting, HoldsLease
  <2>2. \A q \in Process : q # p => proc'[q].pc \notin {"recovering", "loading"}
    BY <1>7, <1>11 DEF HoldsLease
  <2> QED BY <1>1, <1>3, <1>5, <1>6, <2>1, <2>2 DEF ProcessesFit, CommandsStay
<1>13. NoMixedEngine'
  BY <1>1, <1>7, <1>11 DEF NoMixedEngine, HoldsLease
<1>14. VersionsAreMade'
  BY <1>1, <1>3, <1>7, <1>11 DEF VersionsAreMade, CommandsStay, HoldsLease
<1> QED BY <1>1, <1>8, <1>9, <1>10, <1>12, <1>13, <1>14, IdleFits DEF CommandsStay

\* RunRecovered: it removes the record over the whole old set, and may start.
LEMMA RunRecoveredKeeps ==
  ASSUME MixedInv, NEW p \in Process, RunRecovered(p), UNCHANGED script
  PROVE  MixedInv'
<1> USE DEF MixedInv
<1>1. /\ proc[p].pc = "recovering" /\ proc[p].todo = {} /\ CommandsStay /\ record' = NoRecord
      /\ UNCHANGED <<live, svc, faults>> /\ op = Idle /\ ~leftover
  BY DEF RunRecovered, LocksFit
<1>2. ~Reinstalls => live \in complete
  <2>1. CASE record = NoRecord
    BY <2>1 DEF WholeWithoutRecord
  <2>2. CASE record # NoRecord
    <3>1. record.from \in Set /\ live \in Set /\ \A f \in File : live[f] = record.from[f]
      BY <1>1, <2>2 DEF ProcessesFit, TypeOK, Record
    <3>2. live = record.from
      BY <3>1, SetsAreEqual
    <3> QED BY <2>2, <3>2 DEF RecordFits
  <2> QED BY <2>1, <2>2
<1>3. [pc |-> "authorized"] \in Proc
  BY DEF Proc
<1>4. proc'[p].pc = "authorized" /\ \A q \in Process : q # p => proc'[q] = proc[q]
  BY DEF RunRecovered, Become, TypeOK
<1>5. \A q \in Process : q # p => ~HoldsLease(q)
  BY <1>1 DEF LocksFit, HoldsLease
<1>6. TypeOK'
  BY <1>1, <1>3 DEF TypeOK, CommandsStay, RunRecovered, Become
<1>7. LocksFit'
  BY <1>1, <1>4, <1>5 DEF LocksFit, HoldsLease, CommandsStay
<1>8. RecordFits' /\ WholeWithoutRecord'
  BY <1>1, <1>2 DEF RecordFits, WholeWithoutRecord, CommandsStay, Reinstalls
<1>9. ProcessesFit'
  <2>1. Startable'
    BY <1>1, <1>2 DEF Startable, CommandsStay, Reinstalls
  <2>2. \A q \in Process : proc'[q].pc \notin {"recovering", "loading"}
    BY <1>4, <1>5 DEF HoldsLease
  <2> QED BY <2>1, <2>2 DEF ProcessesFit
<1>10. \A q \in Process : proc'[q].pc # "ready"
  BY <1>4, <1>5 DEF HoldsLease
<1>11. NoMixedEngine' /\ VersionsAreMade'
  BY <1>1, <1>10 DEF NoMixedEngine, VersionsAreMade, CommandsStay
<1> QED BY <1>1, <1>6, <1>7, <1>8, <1>9, <1>11, IdleFits DEF CommandsStay

-----------------------------------------------------------------------------
(***************************************************************************)
(* The invariant holds.                                                    *)
(***************************************************************************)
\* An installed client has one published set, no command and no process.
LEMMA MixedInit == ASSUME Init PROVE MixedInv
<1> USE DEF Init
<1>1. Idle.pc = "idle" /\ Off.pc = "off"
  BY DEF Idle, Off
<1>2. live \in Set /\ \A f \in File : live[f] = 0
  BY MixedAssumption DEF Set, Version
<1>3. TypeOK
  <2>1. made \in Version /\ faults \in 0..MaxFaults
    BY MixedAssumption DEF Version
  <2>2. svc \in [on : BOOLEAN, dying : BOOLEAN] /\ proc \in [Process -> Proc \cup {Off}]
    OBVIOUS
  <2> QED BY <1>2, <2>1, <2>2 DEF TypeOK
<1>4. LocksFit /\ NothingStarts /\ OpFits /\ RecordFits
  BY <1>1 DEF LocksFit, NothingStarts, OpFits, RecordFits, HoldsLease, QuietSteps
<1>5. LiveFits /\ EnginesFit /\ StartedIsCurrent
  BY <1>1 DEF LiveFits, RecoveringFits, ApplyingFits, RollingBackFits, Recovering, Applying,
     RollingBack, EnginesFit, StartedIsCurrent, GrantSteps
<1>6. ProcessesFit /\ VersionsAreMade
  BY <1>1, <1>2 DEF ProcessesFit, VersionsAreMade, Quiescent, Starting
<1>7. WholeWithoutRecord /\ NoMixedEngine
  BY <1>1 DEF WholeWithoutRecord, NoMixedEngine
<1> QED BY <1>3, <1>4, <1>5, <1>6, <1>7 DEF MixedInv

\* Every step of a command, of "sbc run" and of a crash keeps it.
LEMMA MixedNext == ASSUME MixedInv, Next PROVE MixedInv'
<1>1. UNCHANGED script
  BY DEF Next
<1>2. ASSUME NEW kind \in script, Begin(kind) PROVE MixedInv'
  BY <1>1, <1>2, BeginKeeps
<1>3. ASSUME OpStep PROVE MixedInv'
  <2>1. ASSUME Permit \/ Recover \/ Settle \/ Stop \/ StopError \/ Stopped PROVE MixedInv'
    BY <1>1, <2>1, PermitKeeps, RecoverKeeps, SettleKeeps, StopKeeps, StopErrorKeeps, StoppedKeeps
  <2>2. ASSUME Start \/ Grant \/ Launch \/ Await \/ Revoke PROVE MixedInv'
    BY <1>1, <2>2, StartKeeps, GrantKeeps, LaunchKeeps, AwaitKeeps, RevokeKeeps
  <2>3. ASSUME PrepareUpgrade \/ PrepareConfig \/ PrepareInstall \/ RunService \/ Refuse \/ Save
        PROVE  MixedInv'
    BY <1>1, <2>3, PrepareReplacementKeeps, PrepareInstallKeeps, RunServiceKeeps, RefuseKeeps, SaveKeeps
  <2>4. ASSUME WriteError \/ RestoreError \/ Restart \/ Finish \/ End PROVE MixedInv'
    BY <1>1, <2>4, WriteErrorKeeps, RestoreErrorKeeps, RestartKeeps, FinishKeeps, EndKeeps
  <2>5. ASSUME InstallCore \/ InstallConfig PROVE MixedInv'
    BY <1>1, <2>5, InstallKeeps
  <2>6. ASSUME NEW f \in File, Write(f) \/ Restore(f) PROVE MixedInv'
    BY <1>1, <2>6, WriteKeeps, RestoreKeeps
  <2> QED BY <1>3, <2>1, <2>2, <2>3, <2>4, <2>5, <2>6 DEF OpStep
<1>4. ASSUME Crash \/ Release PROVE MixedInv'
  BY <1>1, <1>4, CrashKeeps, ReleaseKeeps
<1>5. ASSUME NEW p \in Process, Spawn(p) \/ Exit(p) PROVE MixedInv'
  BY <1>1, <1>5, SpawnKeeps, ExitKeeps
<1>6. ASSUME NEW p \in Process, ProcStep(p) PROVE MixedInv'
  <2>1. ASSUME BeginAlone(p) \/ BeginUnder(p) \/ Authorize(p) PROVE MixedInv'
    BY <1>1, <2>1, BeginAloneKeeps, BeginUnderKeeps, AuthorizeKeeps
  <2>2. ASSUME RunRecovered(p) \/ Exec(p) \/ Load(p) PROVE MixedInv'
    BY <1>1, <2>2, RunRecoveredKeeps, ExecKeeps, LoadKeeps
  <2>3. ASSUME NEW f \in File, RunRestore(p, f) PROVE MixedInv'
    BY <1>1, <2>3, RunRestoreKeeps
  <2> QED BY <1>6, <2>1, <2>2, <2>3 DEF ProcStep
<1> QED BY <1>2, <1>3, <1>4, <1>5, <1>6 DEF Next

\* Nothing changes while nobody moves.
LEMMA MixedStutter == ASSUME MixedInv, UNCHANGED <<vars, script>> PROVE MixedInv'
<1> USE DEF MixedInv
<1>1. UNCHANGED <<live, record, op, leftover, svc, proc, complete, made, faults, script>>
  BY DEF vars
<1>2. TypeOK' /\ LocksFit' /\ NothingStarts' /\ OpFits'
  BY <1>1 DEF TypeOK, LocksFit, HoldsLease, NothingStarts, Quiescent, Starting, Vacated, Ready, OpFits
<1>3. RecordFits' /\ ProcessesFit' /\ VersionsAreMade' /\ WholeWithoutRecord' /\ NoMixedEngine'
  BY <1>1 DEF RecordFits, Mixture, Reinstalls, ProcessesFit, Quiescent, Starting, Startable,
     VersionsAreMade, WholeWithoutRecord, NoMixedEngine
<1>4. RecoveringFits' /\ ApplyingFits' /\ RollingBackFits'
  BY <1>1 DEF LiveFits, RecoveringFits, ApplyingFits, RollingBackFits, Recovering, Applying,
     RollingBack, Mixture, Reinstalls, OnlyConfigChanges
<1>5. EnginesFit' /\ StartedIsCurrent'
  BY <1>1 DEF EnginesFit, StartedIsCurrent, MeantToStart, NeedsStart, Fresh, NotCandidate, EngineFiles,
     Applying, RollingBack
<1> QED BY <1>2, <1>3, <1>4, <1>5 DEF LiveFits

\* The inductive invariant of the mixed proxy: the locks fit their holders, nothing
\* starts while a command writes, and each command knows at each of its steps what
\* is live, what is recorded and what the running engine has read.
THEOREM MixedInvariant == Spec => []MixedInv
<1>1. Init => MixedInv
  BY MixedInit
<1>2. MixedInv /\ [Next]_<<vars, script>> => MixedInv'
  BY MixedNext, MixedStutter
<1> QED BY <1>1, <1>2, PTL DEF Spec

\* Every variable keeps its type.
THEOREM MixedTypes == Spec => []TypeOK
<1>1. MixedInv => TypeOK
  BY DEF MixedInv
<1> QED BY <1>1, MixedInvariant, PTL

\* WholeWithoutRecord: whatever crashed or failed, live files that no record
\* explains are one published set (Upgrade, Recover).
THEOREM WholeFiles == Spec => []WholeWithoutRecord
<1>1. MixedInv => WholeWithoutRecord
  BY DEF MixedInv
<1> QED BY <1>1, MixedInvariant, PTL

\* NoMixedEngine: every engine that answers read its program and its configuration
\* from one published set (settle, start, prepareStartup).
THEOREM WholeEngines == Spec => []NoMixedEngine
<1>1. MixedInv => NoMixedEngine
  BY DEF MixedInv
<1> QED BY <1>1, MixedInvariant, PTL

\* StartedIsCurrent: a command that started the engine leaves it on the live files,
\* and one that failed leaves no engine on what it took back.
THEOREM StartsAreCurrent == Spec => []StartedIsCurrent
<1>1. MixedInv => StartedIsCurrent
  BY DEF MixedInv
<1> QED BY <1>1, MixedInvariant, PTL

-----------------------------------------------------------------------------
(***************************************************************************)
(* The commands implement the atomic update.                               *)
(***************************************************************************)
\* The engine that answers, if one does: there is one lease.
EngineOf(pr) == IF \E p \in Process : pr[p].pc = "ready"
                THEN pr[CHOOSE p \in Process : pr[p].pc = "ready"].loaded ELSE NoRecord

\* Whatever process it is, the engine is what that process has loaded.
LEMMA OneEngine ==
  ASSUME NEW pr, NEW q \in Process, pr[q].pc = "ready",
         \A r \in Process : r # q => pr[r].pc # "ready"
  PROVE  EngineOf(pr) = pr[q].loaded
<1>1. (CHOOSE r \in Process : pr[r].pc = "ready") = q
  OBVIOUS
<1> QED BY <1>1 DEF EngineOf

\* A process that becomes ready, or no longer is, starts or stops the engine, and
\* any other move of it is not seen.
LEMMA EngineMoves ==
  ASSUME MixedInv, MixedInv', NEW p \in Process,
         \A q \in Process : q # p => proc'[q] = proc[q],
         proc[p].pc # "ready"
  PROVE  IF proc'[p].pc = "ready" THEN EngineOf(proc) = NoRecord /\ EngineOf(proc') = proc'[p].loaded
         ELSE EngineOf(proc') = EngineOf(proc)
<1>1. \A q, r \in Process : proc[q].pc = "ready" /\ proc[r].pc = "ready" => q = r
  BY DEF MixedInv, LocksFit, HoldsLease
<1>2. \A q, r \in Process : proc'[q].pc = "ready" /\ proc'[r].pc = "ready" => q = r
  BY DEF MixedInv, LocksFit, HoldsLease
<1>3. CASE proc'[p].pc = "ready"
  <2>1. EngineOf(proc') = proc'[p].loaded
    BY <1>2, <1>3, OneEngine
  <2>2. EngineOf(proc) = NoRecord
    BY <1>2, <1>3 DEF EngineOf
  <2> QED BY <1>3, <2>1, <2>2
<1>4. CASE proc'[p].pc # "ready"
  <2>1. CASE \E q \in Process : proc[q].pc = "ready"
    <3>1. PICK q \in Process : proc[q].pc = "ready"
      BY <2>1
    <3>2. EngineOf(proc) = proc[q].loaded
      BY <1>1, <3>1, OneEngine
    <3>3. proc'[q].pc = "ready" /\ proc'[q].loaded = proc[q].loaded
      BY <3>1
    <3>4. EngineOf(proc') = proc'[q].loaded
      BY <1>2, <3>3, OneEngine
    <3> QED BY <1>4, <3>2, <3>3, <3>4
  <2>2. CASE ~\E q \in Process : proc[q].pc = "ready"
    BY <1>4, <2>2 DEF EngineOf
  <2> QED BY <2>1, <2>2
<1> QED BY <1>3, <1>4

\* What the update sees of the commands, when no script reinstalls.
LEMMA UpdateView ==
  ASSUME ~Reinstalls
  PROVE  /\ Committed = IF record = NoRecord THEN live ELSE record.from
         /\ Candidate = IF record = NoRecord THEN NoRecord ELSE record.to
         /\ Engine = EngineOf(proc)
BY DEF Committed, Candidate, Engine, EngineOf, Ready

\* The same of the next state.
LEMMA UpdateViewNext ==
  ASSUME ~Reinstalls'
  PROVE  /\ Committed' = IF record' = NoRecord THEN live' ELSE record'.from
         /\ Candidate' = IF record' = NoRecord THEN NoRecord ELSE record'.to
         /\ Engine' = EngineOf(proc')
BY DEF Committed, Candidate, Engine, EngineOf, Ready

\* No engine's files are the absence of an engine.
LEMMA FilesAreFiles == ASSUME NEW s \in Set PROVE EngineFiles(s) # NoRecord /\ s # NoRecord
BY DEF EngineFiles, NoRecord, Set, File

\* A step of the update, or one that it does not see.
UpdateStep == Update!Next \/ UNCHANGED <<Committed, Candidate, Engine>>

\* Where no file, record or process changes the update sees nothing, and of a
\* script that reinstalls it sees nothing at all.
LEMMA UnseenStep ==
  ASSUME UNCHANGED script, UNCHANGED <<live, record, proc>> \/ Reinstalls
  PROVE  UpdateStep
BY DEF UpdateStep, Committed, Candidate, Engine, Ready, Reinstalls

\* Most steps of a command change none of them.
LEMMA CommandStepsAreUnseen ==
  ASSUME UNCHANGED script,
         \/ Permit \/ Recover \/ Settle \/ Stop \/ StopError \/ Stopped
         \/ Start \/ Grant \/ Launch \/ Await \/ Revoke
         \/ PrepareUpgrade \/ PrepareConfig \/ PrepareInstall \/ RunService \/ Refuse
         \/ WriteError \/ RestoreError \/ Restart \/ End \/ Crash \/ Release
         \/ \E kind \in script : Begin(kind)
  PROVE  UpdateStep
<1>1. CASE Permit \/ Recover \/ Settle \/ Stop \/ StopError \/ Stopped
  BY <1>1, UnseenStep DEF Permit, Recover, Settle, Stop, StopError, Stopped, Untouched, Files
<1>2. CASE Start \/ Grant \/ Launch \/ Await \/ Revoke
  BY <1>2, UnseenStep DEF Start, Grant, Launch, Await, Revoke, Untouched, Files
<1>3. CASE PrepareUpgrade \/ PrepareConfig \/ PrepareInstall \/ RunService \/ Refuse
  BY <1>3, UnseenStep DEF PrepareUpgrade, PrepareConfig, PrepareInstall, Prepared, RunService, Refuse,
     Untouched, Files
<1>4. CASE WriteError \/ RestoreError \/ Restart \/ End \/ Crash \/ Release
  BY <1>4, UnseenStep DEF WriteError, RestoreError, Restart, End, Crash, Release, Untouched, Files
<1>5. CASE \E kind \in script : Begin(kind)
  BY <1>5, UnseenStep DEF Begin, Untouched, Files
<1> QED BY <1>1, <1>2, <1>3, <1>4, <1>5

\* Save puts the candidate beside the committed set.
LEMMA SaveTries ==
  ASSUME MixedInv, Save, UNCHANGED script, ~Reinstalls
  PROVE  UpdateStep
<1>1. /\ op \in Op /\ live = op.from /\ record = NoRecord /\ UNCHANGED <<live, proc, script>>
      /\ record' = [from |-> live, to |-> op.to]
  BY OpIsTyped DEF Save, On, Steps, MixedInv, OpFits, LiveFits, ApplyingFits, Applying
<1>2. record'.from = live /\ record'.to = op.to /\ op.to \in Set /\ record' # NoRecord
  <2>1. record' \in Record
    BY <1>1 DEF Record, Op
  <2> QED BY <1>1, <2>1, RecordIsARecord DEF Op
<1>3. Committed' = Committed /\ Candidate = NoRecord /\ Candidate' = op.to /\ Engine' = Engine
  BY <1>1, <1>2, UpdateView, UpdateViewNext DEF Reinstalls
<1> QED BY <1>2, <1>3 DEF UpdateStep, Update!Next, Update!Try

\* The live writes of an upgrade are behind its record; a new configuration alone
\* is published, or taken back, by its one rename.
LEMMA FileWritesReplace ==
  ASSUME MixedInv, UNCHANGED <<record, proc, script>>, live' \in Set, ~Reinstalls
  PROVE  UpdateStep
<1>1. Engine' = Engine /\ Candidate' = Candidate
  BY UpdateView, UpdateViewNext DEF Reinstalls
<1>2. CASE record # NoRecord
  BY <1>1, <1>2, UpdateView, UpdateViewNext DEF Reinstalls, UpdateStep
<1>3. CASE record = NoRecord
  <2>1. Candidate = NoRecord /\ Committed' = live'
    BY <1>3, UpdateView, UpdateViewNext DEF Reinstalls
  <2> QED BY <1>1, <2>1 DEF UpdateStep, Update!Next, Update!Replace
<1> QED BY <1>2, <1>3

\* A candidate is taken back over the committed set when no engine has read it.
LEMMA RemovalTakesBack ==
  ASSUME record \in Record, record' = NoRecord, live' = record.from, ~Reinstalls, UNCHANGED script,
         EngineOf(proc') = EngineOf(proc),
         EngineOf(proc) = EngineFiles(record.to) => EngineFiles(record.to) = EngineFiles(record.from)
  PROVE  UpdateStep
<1>1. record # NoRecord /\ record.to \in Set
  BY RecordIsARecord DEF Record
<1>2. Committed = record.from /\ Candidate = record.to /\ Engine = EngineOf(proc)
  BY <1>1, UpdateView
<1>3. Committed' = record.from /\ Candidate' = NoRecord /\ Engine' = EngineOf(proc)
  BY UpdateViewNext DEF Reinstalls
<1>4. Candidate # NoRecord
  BY <1>1, <1>2, FilesAreFiles
<1> QED BY <1>2, <1>3, <1>4 DEF UpdateStep, Update!Next, Update!TakeBack

\* Finish commits the candidate of an upgrade that runs from it, and otherwise ends
\* the return to the old set.
LEMMA FinishCommits ==
  ASSUME MixedInv, MixedInv', Finish, UNCHANGED script, ~Reinstalls
  PROVE  UpdateStep
<1> USE DEF MixedInv
<1>1. /\ op \in Op /\ op # Idle /\ op.pc = "finish" /\ UNCHANGED <<live, proc>>
  BY OpIsTyped DEF Finish, On, Steps
<1>2. CASE UNCHANGED record
  BY <1>1, <1>2, UnseenStep
<1>3. CASE record' = NoRecord /\ record = NoRecord
  BY <1>1, <1>3, UnseenStep
<1>4. CASE record' = NoRecord /\ record # NoRecord
  <2>1. record \in Record /\ record.from \in Set /\ record.to \in Set
    BY <1>4 DEF TypeOK, Record
  <2>2. \/ EngineOf(proc) = NoRecord
        \/ \E p \in Process : proc[p].pc = "ready" /\ EngineOf(proc) = proc[p].loaded
    BY DEF EngineOf
  <2>3. CASE op.phase = "recover"
    <3>1. live = record.from /\ Fresh
      BY <1>1, <2>3 DEF LiveFits, RecoveringFits, Recovering, EnginesFit
    <3>2. EngineOf(proc) = EngineFiles(record.to) => EngineFiles(record.to) = EngineFiles(record.from)
      BY <2>1, <2>2, <3>1, FilesAreFiles DEF Fresh
    <3> QED BY <1>1, <1>4, <2>1, <3>1, <3>2, RemovalTakesBack
  <2>4. CASE op.phase = "apply"
    <3>1. live = record.to
      BY <1>1, <2>4 DEF LiveFits, ApplyingFits, Applying, OpFits, Replacing, SavedRecord
    <3>2. Committed' = Candidate /\ Candidate = record.to /\ Candidate' = NoRecord /\ Engine' = Engine
      BY <1>1, <1>4, <3>1, UpdateView, UpdateViewNext DEF Reinstalls
    <3>3. Candidate # NoRecord
      BY <2>1, <3>2, FilesAreFiles
    <3> QED BY <3>2, <3>3 DEF UpdateStep, Update!Next, Update!Commit
  <2>5. CASE op.phase = "rollback"
    <3>1. record = SavedRecord(op) /\ live = op.from /\ NotCandidate
      BY <1>1, <2>5 DEF LiveFits, RollingBackFits, RollingBack, EnginesFit, Waits
    <3>2. record.from = op.from /\ record.to = op.to
      BY <1>4, <3>1 DEF SavedRecord
    <3>3. EngineOf(proc) = EngineFiles(record.to) => EngineFiles(record.to) = EngineFiles(record.from)
      BY <2>1, <2>2, <3>1, <3>2, FilesAreFiles DEF NotCandidate
    <3> QED BY <1>1, <1>4, <2>1, <3>1, <3>2, <3>3, RemovalTakesBack
  <2> QED BY <1>1, <2>3, <2>4, <2>5 DEF Op
<1> QED BY <1>2, <1>3, <1>4 DEF Finish

\* "sbc run" takes an interrupted upgrade back before any engine is there.
LEMMA RunRecoveredTakesBack ==
  ASSUME MixedInv, MixedInv', NEW p \in Process, RunRecovered(p), UNCHANGED script, ~Reinstalls
  PROVE  UpdateStep
<1> USE DEF MixedInv
<1>1. /\ proc[p].pc = "recovering" /\ proc[p].todo = {} /\ record' = NoRecord /\ UNCHANGED live
      /\ proc'[p].pc = "authorized" /\ \A q \in Process : q # p => proc'[q] = proc[q]
  BY DEF RunRecovered, Become, TypeOK
<1>2. \A q \in Process : proc[q].pc # "ready"
  BY <1>1 DEF LocksFit, HoldsLease
<1>3. EngineOf(proc) = NoRecord /\ EngineOf(proc') = NoRecord
  BY <1>1, <1>2 DEF EngineOf
<1>4. CASE record = NoRecord
  BY <1>1, <1>3, <1>4, UpdateView, UpdateViewNext DEF UpdateStep, Reinstalls
<1>5. CASE record # NoRecord
  <2>1. record \in Record /\ record.from \in Set /\ record.to \in Set /\ live \in Set
    BY <1>5 DEF TypeOK, Record
  <2>2. live = record.from
    BY <1>1, <1>5, <2>1, SetsAreEqual DEF ProcessesFit
  <2>3. EngineOf(proc) # EngineFiles(record.to)
    BY <1>3, <2>1, FilesAreFiles
  <2> QED BY <1>1, <1>3, <2>1, <2>2, <2>3, RemovalTakesBack
<1> QED BY <1>4, <1>5

\* The engine starts from one of the two sets, and stops from whatever it ran.
LEMMA ProcessesStartAndStop ==
  ASSUME MixedInv, MixedInv', NEW p \in Process, UNCHANGED <<live, record, script>>, ~Reinstalls,
         NEW s \in Proc \cup {Off}, Become(p, s),
         s.pc = "ready" => proc[p].pc = "loading" /\ s.loaded = EngineFiles(live)
  PROVE  UpdateStep
<1> USE DEF MixedInv
<1>1. proc'[p] = s /\ \A q \in Process : q # p => proc'[q] = proc[q]
  BY DEF Become, TypeOK
<1>2. Committed' = Committed /\ Candidate' = Candidate
  BY UpdateView, UpdateViewNext DEF Reinstalls
<1>3. Engine = EngineOf(proc) /\ Engine' = EngineOf(proc')
  BY UpdateView, UpdateViewNext DEF Reinstalls
<1>4. CASE proc[p].pc = "ready"
  <2>1. s.pc # "ready" /\ \A q \in Process : q # p => proc[q].pc # "ready"
    BY <1>4 DEF LocksFit, HoldsLease
  <2>2. EngineOf(proc') = NoRecord
    BY <1>1, <2>1 DEF EngineOf
  <2> QED BY <1>2, <1>3, <2>2 DEF UpdateStep, Update!Next, Update!StopEngine
<1>5. CASE proc[p].pc # "ready" /\ s.pc # "ready"
  <2>1. EngineOf(proc') = EngineOf(proc)
    BY <1>1, <1>5, EngineMoves
  <2> QED BY <1>2, <1>3, <2>1 DEF UpdateStep
<1>6. CASE proc[p].pc # "ready" /\ s.pc = "ready"
  <2>1. Engine = NoRecord /\ Engine' = EngineFiles(live)
    BY <1>1, <1>3, <1>6, EngineMoves
  <2>2. Startable
    BY <1>6 DEF ProcessesFit, Quiescent, Starting
  <2>3. live \in {Committed, Candidate}
    BY <2>2, UpdateView DEF Startable
  <2>4. live # NoRecord
    BY FilesAreFiles DEF TypeOK
  <2> QED BY <1>2, <2>1, <2>3, <2>4 DEF UpdateStep, Update!Next, Update!StartEngine
<1> QED BY <1>4, <1>5, <1>6

\* The steps of "sbc run".
LEMMA ProcessStepsImplement ==
  ASSUME MixedInv, MixedInv', NEW p \in Process, Spawn(p) \/ ProcStep(p) \/ Exit(p),
         UNCHANGED script, ~Reinstalls
  PROVE  UpdateStep
<1> USE DEF MixedInv
<1>1. Off.pc = "off" /\ Off \in Proc \cup {Off}
  BY DEF Off
<1>2. CASE Become(p, Off) /\ UNCHANGED <<live, record>>
  BY <1>1, <1>2, ProcessesStartAndStop
<1>3. CASE Spawn(p)
  <2>1. [pc |-> "begin"] \in Proc /\ Become(p, [pc |-> "begin"]) /\ UNCHANGED <<live, record>>
    BY <1>3 DEF Spawn, Proc
  <2> QED BY <2>1, ProcessesStartAndStop
<1>4. CASE BeginAlone(p)
  <2>1. PICK todo \in SUBSET File : todo = IF record = NoRecord THEN {} ELSE File
    OBVIOUS
  <2>2. [pc |-> "recovering", todo |-> todo] \in Proc
    BY DEF Proc
  <2>3. CASE Become(p, [pc |-> "recovering", todo |-> todo]) /\ UNCHANGED <<live, record>>
    BY <2>2, <2>3, ProcessesStartAndStop
  <2> QED BY <1>2, <1>4, <2>1, <2>3 DEF BeginAlone
<1>5. CASE BeginUnder(p)
  <2>1. [pc |-> "leased"] \in Proc
    BY DEF Proc
  <2>2. CASE Become(p, [pc |-> "leased"]) /\ UNCHANGED <<live, record>>
    BY <2>1, <2>2, ProcessesStartAndStop
  <2> QED BY <1>2, <1>5, <2>2 DEF BeginUnder
<1>6. CASE Authorize(p)
  <2>1. [pc |-> "authorized"] \in Proc
    BY DEF Proc
  <2>2. CASE Become(p, [pc |-> "authorized"]) /\ UNCHANGED <<live, record>>
    BY <2>1, <2>2, ProcessesStartAndStop
  <2> QED BY <1>2, <1>6, <2>2 DEF Authorize
<1>7. CASE Exec(p)
  <2>1. [pc |-> "loading", core |-> live["core"]] \in Proc
    BY DEF Proc, TypeOK, Set, File
  <2>2. Become(p, [pc |-> "loading", core |-> live["core"]]) /\ UNCHANGED <<live, record>>
    BY <1>7 DEF Exec
  <2> QED BY <2>1, <2>2, ProcessesStartAndStop
<1>8. CASE Load(p)
  <2>1. proc[p].pc = "loading" /\ proc[p].core = live["core"] /\ UNCHANGED <<live, record>>
    BY <1>8 DEF Load, ProcessesFit
  <2>2. EngineFiles(live) \in Pair
    BY DEF TypeOK, Set, File, EngineFiles, Pair
  <2>3. PICK s \in Proc : s = [pc |-> "ready", loaded |-> EngineFiles(live)]
    BY <2>2 DEF Proc
  <2>4. Become(p, s) /\ s.loaded = EngineFiles(live)
    BY <1>8, <2>1, <2>3 DEF Load, EngineFiles
  <2> QED BY <2>1, <2>4, ProcessesStartAndStop
<1>9. CASE RunRecovered(p)
  BY <1>9, RunRecoveredTakesBack
<1>10. CASE \E f \in File : RunRestore(p, f)
  <2>1. PICK f \in File : RunRestore(p, f)
    BY <1>10
  <2>2. /\ proc[p].pc = "recovering" /\ f \in proc[p].todo /\ UNCHANGED record
        /\ proc[p] \in [pc : {"recovering"}, todo : SUBSET File]
        /\ proc' = [proc EXCEPT ![p] = [proc[p] EXCEPT !.todo = @ \ {f}]]
    BY <2>1, ProcIsTyped DEF RunRestore, Become
  <2>3. proc'[p].pc # "ready" /\ \A q \in Process : q # p => proc'[q] = proc[q]
    BY <2>2 DEF TypeOK
  <2>4. EngineOf(proc') = EngineOf(proc)
    BY <2>2, <2>3, EngineMoves
  <2>5. record # NoRecord
    BY <2>2 DEF ProcessesFit
  <2> QED BY <2>2, <2>4, <2>5, UpdateView, UpdateViewNext DEF UpdateStep, Reinstalls
<1>11. CASE Exit(p)
  BY <1>2, <1>11 DEF Exit
<1> QED BY <1>3, <1>4, <1>5, <1>6, <1>7, <1>8, <1>9, <1>10, <1>11 DEF ProcStep

\* Every step is one of the update's, or is not seen by it.
LEMMA NextImplements == ASSUME MixedInv, MixedInv', Next PROVE UpdateStep
<1>1. UNCHANGED script
  BY DEF Next
<1>2. CASE Reinstalls
  BY <1>1, <1>2, UnseenStep
<1>3. CASE ~Reinstalls
  <2>1. ASSUME Save PROVE UpdateStep
    BY <1>1, <1>3, <2>1, SaveTries
  <2>2. ASSUME Finish PROVE UpdateStep
    BY <1>1, <1>3, <2>2, FinishCommits
  <2>3. ASSUME NEW f \in File, Write(f) \/ Restore(f) PROVE UpdateStep
    <3>1. UNCHANGED <<record, proc>> /\ live' \in Set
      BY <2>3 DEF Write, Restore, MixedInv, TypeOK
    <3> QED BY <1>1, <1>3, <3>1, FileWritesReplace
  <2>4. ASSUME InstallCore \/ InstallConfig PROVE UpdateStep
    <3>1. UNCHANGED <<record, proc>> /\ live' \in Set
      BY <2>4 DEF InstallCore, InstallConfig, MixedInv, TypeOK
    <3> QED BY <1>1, <1>3, <3>1, FileWritesReplace
  <2>5. ASSUME NEW p \in Process, Spawn(p) \/ ProcStep(p) \/ Exit(p) PROVE UpdateStep
    BY <1>1, <1>3, <2>5, ProcessStepsImplement
  <2> QED BY <1>1, <2>1, <2>2, <2>3, <2>4, <2>5, CommandStepsAreUnseen DEF Next, OpStep
<1> QED BY <1>2, <1>3

\* ImplementsUpdate: at every moment there is one committed set, whatever is being
\* written; engines start from it or from the candidate as a whole, and a candidate
\* is taken back only when no engine runs from it (Upgrade, Recover, startupGuard).
THEOREM CommandsImplementUpdate == Spec => ImplementsUpdate
<1>1. Init => Update!Init
  <2> SUFFICES ASSUME Init PROVE Update!Init
    OBVIOUS
  <2>1. ~Ready
    BY DEF Init, Ready, Off
  <2> QED BY <2>1 DEF Init, Update!Init, Committed, Candidate, Engine
<1>2. MixedInv /\ MixedInv' /\ [Next]_<<vars, script>> =>
        [Update!Next]_<<Committed, Candidate, Engine>>
  <2>1. ASSUME MixedInv, MixedInv', Next PROVE UpdateStep
    BY <2>1, NextImplements
  <2>2. ASSUME UNCHANGED <<vars, script>> PROVE UpdateStep
    BY <2>2, UnseenStep DEF vars
  <2> QED BY <2>1, <2>2 DEF UpdateStep
<1> QED BY <1>1, <1>2, MixedInvariant, PTL DEF Spec, ImplementsUpdate, Update!Spec
=============================================================================

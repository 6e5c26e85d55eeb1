----------------------------- MODULE MixedProxy -----------------------------
(***************************************************************************)
(* The mixed proxy: the commands that replace its files, the locks that    *)
(* order them, and the processes that start its engine.                    *)
(*                                                                         *)
(* A command holds .operation.lock from its first read to its last write   *)
(* (internal/cli/maintenance.go, install/upgrade.go). "sbc run" (started   *)
(* by the service manager or by hand) owns .engine.lock from before it is  *)
(* authorized until the engine it becomes by exec has exited. Exclusive    *)
(* .startup.lock is a grant: a process that finds the operation lock busy  *)
(* may start only while somebody holds it (internal/cli/startup.go).       *)
(*                                                                         *)
(* Simplifications. The probes EngineBusy and StartGranted hold a lock for *)
(* an instant and both sides retry that collision, so each is one step. A  *)
(* file is the version it comes from. A wait either sees its condition or  *)
(* times out, whenever the condition is false. TUN is a module of its own. *)
(***************************************************************************)
EXTENDS Naturals, FiniteSets

CONSTANTS
  Scripts,     \* sets of commands: one behaviour runs the commands of one of them
  Repeated,    \* those of them that prepare MaxVersion versions; the others prepare one
  MaxVersion,  \* bound: versions of the files that ever exist
  MaxFaults    \* crashes, failed writes and failed native calls, in total

ASSUME MixedAssumption ==
  /\ Scripts \subseteq
       SUBSET {"upgrade", "config", "port", "start", "restart", "stop", "install"}
  /\ Repeated \subseteq Scripts
  /\ MaxVersion \in Nat \ {0}
  /\ MaxFaults \in Nat

VARIABLES
  live,      \* the version of each live file
  record,    \* upgrade-recovery.json: the backups it names and the target
  op,        \* the command that holds the operation lock
  leftover,  \* a dead command's startup grant is not released yet
  svc,       \* the service manager: wanted on, and told to stop its process
  proc,      \* "sbc run", under the service manager or in the foreground
  complete,  \* history: the file sets that were published whole
  made,      \* history: the newest version any command prepared
  faults,
  script     \* the kinds of command that run in this behaviour

vars == <<live, record, op, leftover, svc, proc, complete, made, faults>>

File == {"client", "core", "config"}
Process == {"service", "foreground"}
Version == 0..MaxVersion
Set == [File -> Version]
Pair == [core : Version, config : Version]

-----------------------------------------------------------------------------
NoRecord == [from |-> "none"]
Record == [from : Set, to : Set]

Idle == [pc |-> "idle"]
Waits == {"stop", "stopped"}
Steps == {"permit", "recover", "settle", "run", "save", "write", "start", "vacant",
          "launch", "await", "revoke", "restore", "restart", "finish", "done",
          "core", "config"}
Op == [pc : Steps \cup Waits, kind : UNION Scripts, phase : {"recover", "apply", "rollback"},
       then : {"restore", "vacant", "failed", "done"}, todo : SUBSET File,
       from : Set, to : Set, active : BOOLEAN, tried : BOOLEAN, grant : BOOLEAN,
       ok : BOOLEAN]

Off == [pc |-> "off"]
Proc == [pc : {"begin", "leased", "authorized"}] \cup
        [pc : {"recovering"}, todo : SUBSET File] \cup
        [pc : {"loading"}, core : Version] \cup
        [pc : {"ready"}, loaded : Pair]

TypeOK ==
  /\ live \in Set
  /\ record \in Record \cup {NoRecord}
  /\ op \in Op \cup {Idle}
  /\ leftover \in BOOLEAN
  /\ svc \in [on : BOOLEAN, dying : BOOLEAN]
  /\ proc \in [Process -> Proc \cup {Off}]
  /\ complete \subseteq Set
  /\ made \in Version
  /\ faults \in 0..MaxFaults
  /\ script \in Scripts

\* An installed client whose service is enabled and not started yet.
Init ==
  /\ live = [f \in File |-> 0]
  /\ record = NoRecord
  /\ op = Idle
  /\ leftover = FALSE
  /\ svc = [on |-> TRUE, dying |-> FALSE]
  /\ proc = [p \in Process |-> Off]
  /\ complete = {live}
  /\ made = 0
  /\ faults = 0
  /\ script \in Scripts

-----------------------------------------------------------------------------
HoldsLease(p) == proc[p].pc \in {"recovering", "leased", "authorized", "loading", "ready"}
EngineBusy == \E p \in Process : HoldsLease(p)
Ready == \E p \in Process : proc[p].pc = "ready"
Active == proc["service"].pc # "off"
OperationHeld == op.pc # "idle" \/ \E p \in Process : proc[p].pc = "recovering"
Granted == leftover \/ (op.pc # "idle" /\ op.grant)
EngineFiles(s) == [core |-> s["core"], config |-> s["config"]]

On(step) == op.pc = step
Fault == faults < MaxFaults /\ faults' = faults + 1
Files == <<live, record, complete, made>>
Untouched == UNCHANGED <<Files, leftover, svc, proc, faults>>
Goto(step) == op' = [op EXCEPT !.pc = step]
Stopping(o, then) == op' = [o EXCEPT !.pc = "stop", !.then = then]
Give(ok) == op' = [op EXCEPT !.pc = "done", !.ok = ok]

-----------------------------------------------------------------------------
(* A command takes the operation lock, then shared startup permission.     *)

Begin(kind) ==
  /\ ~OperationHeld
  /\ op' = [pc |-> "permit", kind |-> kind, phase |-> "recover", then |-> "done",
            todo |-> {}, from |-> live, to |-> live, active |-> FALSE, tried |-> FALSE,
            grant |-> FALSE, ok |-> FALSE]
  /\ Untouched

\* Shared permission waits out the grant of a command that died.
Permission == ~leftover

\* "stop" goes on without the recovery that the others do first.
FirstStep == IF op.kind = "stop" THEN Stopping(op, "done") ELSE Goto("recover")

Permit ==
  /\ On("permit")
  /\ IF Permission THEN FirstStep ELSE Give(FALSE)
  /\ Untouched

\* Mutant: an upgrade is undone under a running engine.
RecoverInPlace ==
  /\ On("recover")
  /\ IF record = NoRecord THEN Goto("settle")
     ELSE op' = [op EXCEPT !.active = Active, !.pc = "restore", !.todo = File]
  /\ Untouched

\* recoverMaintenance: stop the engine before an interrupted upgrade is undone.
Recover ==
  /\ On("recover")
  /\ IF record = NoRecord THEN Goto("settle")
     ELSE Stopping([op EXCEPT !.active = Active], "restore")
  /\ Untouched

\* Mutant: live writes do not wait for a starting engine.
SettleAtOnce ==
  /\ On("settle")
  /\ op' = [op EXCEPT !.pc = "run", !.phase = "apply", !.from = live, !.active = FALSE]
  /\ Untouched

\* settle: an engine that holds its lease must be ready before live writes.
Settle ==
  /\ On("settle")
  /\ IF EngineBusy /\ ~Ready THEN Give(FALSE)
     ELSE op' = [op EXCEPT !.pc = "run", !.phase = "apply", !.from = live, !.active = FALSE]
  /\ Untouched

-----------------------------------------------------------------------------
(* startupGuard.stop, with what follows it in op.then.                     *)

Undone(o) == IF o.kind \in {"config", "port"} /\ o.phase # "recover" THEN {"config"} ELSE File

\* What a failed start, or a failed stop, means for the command around it.
\* BeforeRestore stops what was started once more before the files go back.
Failed(o) ==
  CASE o.phase = "apply" /\ o.kind \in {"upgrade", "config", "port"} ->
         IF o.tried THEN Stopping([o EXCEPT !.phase = "rollback"], "restore")
         ELSE op' = [o EXCEPT !.phase = "rollback", !.pc = "restore", !.todo = Undone(o)]
    [] OTHER -> op' = [o EXCEPT !.pc = "done", !.ok = FALSE]

StopFailed == IF op.then \in {"vacant", "failed"} THEN Failed(op) ELSE Give(FALSE)

Stop ==
  /\ On("stop")
  /\ Goto("stopped")
  /\ svc' = IF Active \/ EngineBusy THEN [on |-> FALSE, dying |-> Active] ELSE svc
  /\ UNCHANGED <<Files, leftover, proc, faults>>

\* The native manager refuses the stop.
StopError ==
  /\ On("stop") /\ (Active \/ EngineBusy)
  /\ Fault
  /\ StopFailed
  /\ UNCHANGED <<Files, leftover, svc, proc>>

Stopped ==
  /\ On("stopped")
  /\ IF EngineBusy \/ Active THEN StopFailed
     ELSE CASE op.then = "restore" -> op' = [op EXCEPT !.pc = "restore", !.todo = Undone(op)]
            [] op.then = "vacant" -> Goto("vacant")
            [] op.then = "failed" -> Failed(op)
            [] op.then = "done" -> Give(TRUE)
  /\ Untouched

-----------------------------------------------------------------------------
(* startupGuard.start: stop, check, grant, start, wait, revoke.            *)

\* Mutant: an engine that answers is not stopped before the new start.
StartBeside ==
  /\ On("start")
  /\ IF EngineBusy /\ ~Active THEN Failed(op)
     ELSE op' = [op EXCEPT !.pc = "vacant", !.tried = TRUE]
  /\ Untouched

Start ==
  /\ On("start")
  /\ CASE op.kind = "start" /\ op.phase = "apply" /\ Active -> Give(TRUE)
       [] EngineBusy /\ ~Active -> Failed(op)
       [] OTHER -> Stopping([op EXCEPT !.tried = TRUE], "vacant")
  /\ Untouched

\* CheckVacant and then the grant, or another listener has the API port.
Grant ==
  /\ On("vacant")
  /\ \/ op' = [op EXCEPT !.pc = "launch", !.grant = TRUE] /\ UNCHANGED faults
     \/ Fault /\ Failed(op)
  /\ UNCHANGED <<Files, leftover, svc, proc>>

Launch ==
  /\ On("launch")
  /\ \/ /\ Goto("await")
        /\ svc' = [svc EXCEPT !.on = TRUE]
        /\ UNCHANGED faults
     \/ /\ Fault
        /\ op' = [op EXCEPT !.pc = "revoke", !.ok = FALSE]
        /\ UNCHANGED svc
  /\ UNCHANGED <<Files, leftover, proc>>

\* waitEngine(true): the lease is held and the API answers, or the deadline.
Await ==
  /\ On("await")
  /\ op' = [op EXCEPT !.pc = "revoke", !.ok = Ready]
  /\ Untouched

Started(o) ==
  CASE o.phase = "recover" \/ o.kind = "upgrade" -> op' = [o EXCEPT !.pc = "finish"]
    [] OTHER -> op' = [o EXCEPT !.pc = "done", !.ok = o.phase # "rollback"]

\* Every exit revokes the grant; a failed start also stops what it started.
Revoke ==
  /\ On("revoke")
  /\ IF op.ok THEN Started([op EXCEPT !.grant = FALSE])
     ELSE Stopping([op EXCEPT !.grant = FALSE], "failed")
  /\ Untouched

-----------------------------------------------------------------------------
(* What each command does once the engine has settled.                     *)

\* Downloads, checks and staging end with nothing live changed.
Prepared(kinds) ==
  /\ On("run") /\ op.kind \in kinds
  /\ made < IF script \in Repeated THEN MaxVersion ELSE 1
  /\ made' = made + 1
  /\ UNCHANGED <<live, record, complete, leftover, svc, proc, faults>>

\* An upgrade offers a new client or a new engine, with or without a new
\* configuration.
PrepareUpgrade ==
  /\ Prepared({"upgrade"})
  /\ \E changed \in SUBSET File :
       /\ changed \cap {"client", "core"} # {}
       /\ op' = [op EXCEPT !.pc = "save", !.active = Active,
                   !.to = [f \in File |-> IF f \in changed THEN made' ELSE live[f]]]

\* A refresh or a changed local setting replaces the configuration only.
PrepareConfig ==
  /\ Prepared({"config", "port"})
  /\ op' = [op EXCEPT !.pc = "write", !.active = Active, !.todo = {"config"},
              !.to = [live EXCEPT !["config"] = made']]

PrepareInstall ==
  /\ Prepared({"install"})
  /\ op' = [op EXCEPT !.pc = "core",
              !.to = [live EXCEPT !["core"] = made', !["config"] = made']]

RunService ==
  /\ On("run") /\ op.kind \in {"start", "restart"}
  /\ Goto("start")
  /\ Untouched

\* Nothing to do, or a preparation failed.
Refuse ==
  /\ On("run")
  /\ Give(FALSE)
  /\ Untouched

\* Mutant: the record is left to the end of the publication.
SaveLater ==
  /\ On("save")
  /\ op' = [op EXCEPT !.pc = "write", !.todo = File]
  /\ Untouched

\* Upgrade: every destination is backed up, then the record is written.
Save ==
  /\ On("save")
  /\ record' = [from |-> live, to |-> op.to]
  /\ op' = [op EXCEPT !.pc = "write", !.todo = File]
  /\ UNCHANGED <<live, leftover, svc, proc, complete, faults, made>>

NeedsStart(o) == o.active /\ EngineFiles(o.to) # EngineFiles(o.from)

\* "sbc port" asks for the service after its rename, the others before.
Written(o) ==
  LET asked == IF o.kind = "port" THEN [o EXCEPT !.active = Active] ELSE o IN
    IF NeedsStart(asked) THEN op' = [asked EXCEPT !.pc = "start"] ELSE Started(asked)

\* One live file at a time; the last one makes the new set whole.
Write(f) ==
  /\ On("write") /\ f \in op.todo
  /\ live' = [live EXCEPT ![f] = op.to[f]]
  /\ LET o == [op EXCEPT !.todo = @ \ {f}] IN
       IF o.todo # {} THEN op' = o /\ UNCHANGED complete
       ELSE Written(o) /\ complete' = complete \cup {op.to}
  /\ UNCHANGED <<record, leftover, svc, proc, faults, made>>

\* A failed write restores every file, with or without a start before it.
WriteError ==
  /\ On("write") /\ op.kind = "upgrade"
  /\ Fault
  /\ Failed(op)
  /\ UNCHANGED <<Files, leftover, svc, proc>>

Backup == IF record = NoRecord THEN op.from ELSE record.from

\* A rename or a copy of one backup; after the last one the engine is
\* started again if it ran.
Restore(f) ==
  /\ On("restore") /\ f \in op.todo
  /\ live' = [live EXCEPT ![f] = Backup[f]]
  /\ op' = [op EXCEPT !.todo = @ \ {f},
                    !.pc = IF op.todo = {f} THEN "restart" ELSE "restore"]
  /\ UNCHANGED <<record, leftover, svc, proc, complete, faults, made>>

RestoreError ==
  /\ On("restore")
  /\ Fault
  /\ Give(FALSE)
  /\ UNCHANGED <<Files, leftover, svc, proc>>

Restart ==
  /\ On("restart")
  /\ IF op.active /\ (op.phase = "recover" \/ NeedsStart(op)) THEN Goto("start") ELSE Started(op)
  /\ Untouched

\* Removing the record is the commit, or the end of the rollback.
Finish ==
  /\ On("finish")
  /\ \/ /\ record' = NoRecord
        /\ IF op.phase = "recover" THEN Goto("settle")
           ELSE Give(op.phase = "apply")
        /\ UNCHANGED faults
     \/ /\ Fault
        /\ Failed(op)
        /\ UNCHANGED record
  /\ UNCHANGED <<live, leftover, svc, proc, complete, made>>

\* Install replaces the engine, then the configuration, then checks them.
InstallCore ==
  /\ On("core")
  /\ live' = [live EXCEPT !["core"] = op.to["core"]]
  /\ Goto("config")
  /\ UNCHANGED <<record, leftover, svc, proc, complete, faults, made>>

InstallConfig ==
  /\ On("config")
  /\ \/ /\ live' = op.to
        /\ complete' = complete \cup {op.to}
        /\ Goto("start")
        /\ UNCHANGED faults
     \/ /\ Fault
        /\ live' \in {live, op.to}
        /\ Give(FALSE)
        /\ UNCHANGED complete
  /\ UNCHANGED <<record, leftover, svc, proc, made>>

End ==
  /\ On("done")
  /\ op' = Idle
  /\ Untouched

\* The command is killed: its locks go with it, the grant perhaps last.
Crash ==
  /\ op # Idle
  /\ Fault
  /\ leftover' \in {leftover, leftover \/ op.grant}
  /\ op' = Idle
  /\ UNCHANGED <<Files, svc, proc>>

\* Mutant: the grant of a dead command is never released.
ReleaseNever == FALSE /\ UNCHANGED vars

Release ==
  /\ leftover
  /\ leftover' = FALSE
  /\ UNCHANGED <<Files, op, svc, proc, faults>>

-----------------------------------------------------------------------------
(* "sbc run".                                                              *)

Become(p, state) == proc' = [proc EXCEPT ![p] = state]
CommandsStay == UNCHANGED <<op, leftover, complete, made>>

\* The service manager starts its process while the service is on, again
\* after each exit; a user starts one in the foreground.
Spawn(p) ==
  /\ proc[p] = Off
  /\ p = "service" => svc.on /\ ~svc.dying
  /\ Become(p, [pc |-> "begin"])
  /\ CommandsStay /\ UNCHANGED <<live, record, svc, faults>>

\* The operation lock is free: permission, then the engine lease, or exit.
BeginAlone(p) ==
  /\ proc[p].pc = "begin" /\ ~OperationHeld
  /\ IF leftover \/ EngineBusy THEN Become(p, Off)
     ELSE Become(p, [pc |-> "recovering",
                     todo |-> IF record = NoRecord THEN {} ELSE File])
  /\ CommandsStay /\ UNCHANGED <<live, record, svc, faults>>

\* It is busy: only the lease, and the grant decides later.
BeginUnder(p) ==
  /\ proc[p].pc = "begin" /\ OperationHeld
  /\ IF EngineBusy THEN Become(p, Off) ELSE Become(p, [pc |-> "leased"])
  /\ CommandsStay /\ UNCHANGED <<live, record, svc, faults>>

Authorize(p) ==
  /\ proc[p].pc = "leased"
  /\ IF Granted THEN Become(p, [pc |-> "authorized"]) ELSE Become(p, Off)
  /\ CommandsStay /\ UNCHANGED <<live, record, svc, faults>>

\* initializeMaintenance: an interrupted upgrade is undone before any start.
RunRestore(p, f) ==
  /\ proc[p].pc = "recovering" /\ f \in proc[p].todo
  /\ live' = [live EXCEPT ![f] = record.from[f]]
  /\ Become(p, [proc[p] EXCEPT !.todo = @ \ {f}])
  /\ CommandsStay /\ UNCHANGED <<record, svc, faults>>

RunRecovered(p) ==
  /\ proc[p].pc = "recovering" /\ proc[p].todo = {}
  /\ record' = NoRecord
  /\ Become(p, [pc |-> "authorized"])
  /\ CommandsStay /\ UNCHANGED <<live, svc, faults>>

\* CheckVacant, then exec: the engine's binary is read here ...
Exec(p) ==
  /\ proc[p].pc = "authorized"
  /\ Become(p, [pc |-> "loading", core |-> live["core"]])
  /\ CommandsStay /\ UNCHANGED <<live, record, svc, faults>>

\* ... and its configuration here, after which the API answers.
Load(p) ==
  /\ proc[p].pc = "loading"
  /\ Become(p, [pc |-> "ready",
                loaded |-> [core |-> proc[p].core, config |-> live["config"]]])
  /\ CommandsStay /\ UNCHANGED <<live, record, svc, faults>>

\* Killed, crashed, refused its files, or stopped by the service manager.
Exit(p) ==
  /\ proc[p] # Off
  /\ \/ /\ p = "service" /\ svc.dying
        /\ UNCHANGED faults
     \/ Fault
  /\ Become(p, Off)
  /\ svc' = IF p = "service" THEN [svc EXCEPT !.dying = FALSE] ELSE svc
  /\ CommandsStay /\ UNCHANGED <<live, record>>

-----------------------------------------------------------------------------
OpStep ==
  \/ Permit \/ Recover \/ Settle \/ Stop \/ StopError \/ Stopped
  \/ Start \/ Grant \/ Launch \/ Await \/ Revoke
  \/ PrepareUpgrade \/ PrepareConfig \/ PrepareInstall \/ RunService \/ Refuse \/ Save
  \/ WriteError \/ RestoreError \/ Restart \/ Finish \/ End
  \/ InstallCore \/ InstallConfig
  \/ \E f \in File : Write(f) \/ Restore(f)

ProcStep(p) ==
  \/ BeginAlone(p) \/ BeginUnder(p) \/ Authorize(p) \/ RunRecovered(p)
  \/ Exec(p) \/ Load(p)
  \/ \E f \in File : RunRestore(p, f)

Next ==
  /\ \/ \E kind \in script : Begin(kind)
     \/ OpStep \/ Crash \/ Release
     \/ \E p \in Process : Spawn(p) \/ ProcStep(p) \/ Exit(p)
  /\ UNCHANGED script

Spec == Init /\ [][Next]_<<vars, script>>

\* A command's next step and a process's next step are the program's own. A
\* wait may end either way, and nobody promises that a command is ever typed.
Fairness ==
  /\ WF_vars(OpStep) /\ WF_vars(Release)
  /\ WF_vars(Spawn("service"))
  /\ \A p \in Process : WF_vars(ProcStep(p))
  /\ WF_vars(svc.dying /\ Exit("service"))

LiveSpec == Spec /\ Fairness

-----------------------------------------------------------------------------
(* Safety.                                                                 *)

\* An engine that answers its API read its program and its configuration from
\* one published set, whoever started it and whatever was replaced meanwhile,
\* unless a reinstall writes in place (startup.go: settle, start, prepareStartup).
Reinstalls == "install" \in script
NoMixedEngine ==
  ~Reinstalls => \A p \in Process : proc[p].pc = "ready" =>
    \E s \in complete : EngineFiles(s) = proc[p].loaded

\* Without a recovery record the live files are one published set, through
\* every crash of every command but a reinstall, which writes them in place
\* (upgrade.go: Upgrade, recovery.go: Recover).
WholeWithoutRecord == record = NoRecord /\ ~Reinstalls => live \in complete

\* A command that started the engine ends with every running engine on the
\* live files, as far as it meant to: a start that succeeded, or a replacement
\* that needed one. If it failed, an engine from before it may be left, when its
\* own stop failed; a candidate that was rolled back never is.
MeantToStart(o) == IF o.kind \in {"upgrade", "config", "port"} THEN NeedsStart(o) ELSE o.ok

StartedIsCurrent ==
  op.pc = "done" /\ op.tried /\ MeantToStart(op) /\ record = NoRecord =>
    \A p \in Process : proc[p].pc = "ready" =>
      \/ proc[p].loaded = EngineFiles(live)
      \/ ~op.ok /\ proc[p].loaded # EngineFiles(op.to)

\* The commands implement the atomic update; a reinstall is outside it.
Committed == IF Reinstalls THEN [f \in File |-> 0]
             ELSE IF record = NoRecord THEN live ELSE record.from
Candidate == IF Reinstalls \/ record = NoRecord THEN NoRecord ELSE record.to
Engine == IF ~Reinstalls /\ Ready THEN proc[CHOOSE p \in Process : proc[p].pc = "ready"].loaded
          ELSE NoRecord

Update == INSTANCE AtomicUpdate WITH
  First <- [f \in File |-> 0], None <- NoRecord,
  committed <- Committed, candidate <- Candidate, engine <- Engine

ImplementsUpdate == Update!Spec

-----------------------------------------------------------------------------
(* Liveness.                                                               *)

\* When the commands stop and the service stays on, an engine comes up and
\* stays up, whatever recovery or foreign lease it had to wait for.
EngineComesUp == <>[](op = Idle /\ svc.on /\ ~svc.dying) => <>[]Ready

=============================================================================

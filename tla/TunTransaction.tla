--------------------------- MODULE TunTransaction ---------------------------
(***************************************************************************)
(* The root side of Linux TUN activation (internal/tun/lifecycle.go,       *)
(* apply.go, generation.go, unit.go): one durable journal, a control lock  *)
(* that root commands only try (maintenance.Lock never waits), a systemd   *)
(* service that asks the journal for permission on every start, and one    *)
(* transient systemd recovery unit per transaction that undoes whatever    *)
(* nobody committed.                                                       *)
(*                                                                         *)
(* Root commands (_tun-apply, _tun-commit, _tun-recover, _tun-off) are     *)
(* invoked by the user's sbc process; at most one holds the control lock,  *)
(* and its steps are one action per durable write or external command, so  *)
(* that a kill, a reboot, a service crash and a start job can fall between *)
(* any two of them.                                                        *)
(***************************************************************************)
EXTENDS Naturals, FiniteSets

CONSTANTS
  Tx,         \* transaction identities: one per invocation of _tun-apply
  NoTx,       \* the empty identity of a missing journal
  Partial,    \* a generation directory caught between its two renames
  MaxQueue,   \* bound: root commands invoked and not yet at the control lock
  MaxCrashes, \* bound: processes killed, engine crashes and reboots, together
  MaxFailures \* bound: durable writes, tools and external commands that fail

ASSUME TunAssumption ==
  /\ NoTx \notin Tx
  /\ Partial \notin Tx \cup {NoTx}
  /\ MaxQueue \in Nat
  /\ MaxCrashes \in Nat /\ MaxFailures \in Nat

VARIABLES
  journal,    \* transaction.json: identity, phase and the commit fact
  blocked,    \* the "blocked" marker beside it
  marker,     \* /run/sbc-tun/active
  enabled,    \* the unit is enabled at boot
  installed,  \* the published generation (binary, config and rules)
  service,    \* sbc-tun.service: job state and the generation it runs
  resources,  \* the TUN interface, its routes or its nftables table exist
  timer,      \* the recovery unit of each transaction
  expired,    \* transactions whose recovery deadline has passed
  holder,     \* the root command under the control lock, and where it is
  queue,      \* root commands invoked and not yet at the lock
  reply,      \* the exit status of the last command, for its caller
  used,       \* identities already given to an apply
  accepted,   \* history: transactions that were ever committed
  faults      \* crashes and failures so far

rootVars == <<journal, blocked, marker, enabled, installed, service, resources,
              timer, expired, holder, queue, reply, used, accepted, faults>>

durable  == <<journal, blocked, enabled, installed, used, accepted>>
runtime  == <<marker, service, resources>>

-----------------------------------------------------------------------------
TxId == Tx \cup {NoTx}
Generation == Tx \cup {NoTx, Partial}

Command == [cmd : {"apply", "commit", "recover", "off"}, tx : TxId,
            caller : {"user", "orphan", "timer"}]

\* The steps of stopLocked, shared by every command that stops capture.
StopSteps   == {"sBlock", "sDirty", "sDisable", "sConfirm", "sMarker", "sOff",
                "sUnblock"}
ApplySteps  == {"owner", "stage", "check", "probe", "block", "pend", "arm", "reblock", "repend",
                "rename", "unit", "activate", "start", "verify"}
CommitSteps == {"enable", "save", "disarm"}

\* Where stopLocked returns to: the caller's exit, or the middle of Apply.
Holder == [cmd : {"apply", "commit", "recover", "off"}, tx : TxId,
           caller : {"user", "orphan", "timer"},
           pc : StopSteps \cup ApplySteps \cup CommitSteps,
           then : {"ok", "failed", "reblock"},
           stateErr : BOOLEAN, stopErr : BOOLEAN]
Free == [pc |-> "free"]

NoReply == [status |-> "none"]

Reply == [cmd : {"apply", "commit", "recover", "off"}, tx : TxId,
          status : {"ok", "failed"}] \cup {NoReply}

RootTypeOK ==
  /\ journal \in [id : TxId, committed : BOOLEAN,
                  phase : {"none", "pending", "active", "off", "dirty"}]
  /\ blocked \in BOOLEAN
  /\ marker \in BOOLEAN
  /\ enabled \in BOOLEAN
  /\ installed \in Generation
  /\ service \in [job : {"off", "queued", "checked", "running"}, gen : Generation]
  /\ resources \in BOOLEAN
  /\ timer \in [Tx -> {"none", "armed", "fired"}]
  /\ expired \in SUBSET Tx
  /\ holder \in Holder \cup {Free}
  /\ queue \in SUBSET Command
  /\ reply \in Reply
  /\ used \in SUBSET Tx
  /\ accepted \in SUBSET Tx
  /\ faults \in [crash : 0 .. MaxCrashes, fail : 0 .. MaxFailures]

RootInit ==
  /\ journal = [id |-> NoTx, phase |-> "none", committed |-> FALSE]
  /\ blocked = FALSE
  /\ marker = FALSE
  /\ enabled = FALSE
  /\ installed = NoTx
  /\ service = [job |-> "off", gen |-> NoTx]
  /\ resources = FALSE
  /\ timer = [t \in Tx |-> "none"]
  /\ expired = {}
  /\ holder = Free
  /\ queue = {}
  /\ reply = NoReply
  /\ used = {}
  /\ accepted = {}
  /\ faults = [crash |-> 0, fail |-> 0]

-----------------------------------------------------------------------------
(* The control lock and the entry of each command.                         *)

Crash == faults.crash < MaxCrashes /\ faults' = [faults EXCEPT !.crash = @ + 1]
Fault == faults.fail < MaxFailures /\ faults' = [faults EXCEPT !.fail = @ + 1]
NoFault == UNCHANGED faults

\* The recovery unit of a fired timer runs "_tun-recover --transaction <id>".
RecoveryUnit(t) == [cmd |-> "recover", tx |-> t, caller |-> "timer"]
Runnable == queue \cup {RecoveryUnit(t) : t \in {u \in Tx : timer[u] = "fired"}}

\* A command ends. Its caller sees the status; a recovery unit that succeeded
\* is collected, one that failed is restarted by systemd (Restart=on-failure).
\* Mutant: systemd does not restart a failed recovery unit.
EndsForGood(c, status) ==
  /\ reply' = IF c.caller = "user"
              THEN [cmd |-> c.cmd, tx |-> c.tx, status |-> status] ELSE reply
  /\ timer' = IF c.caller = "timer" THEN [timer EXCEPT ![c.tx] = "none"] ELSE timer

Ends(c, status) ==
  /\ reply' = IF c.caller = "user"
              THEN [cmd |-> c.cmd, tx |-> c.tx, status |-> status] ELSE reply
  /\ timer' = IF c.caller = "timer" /\ status = "ok"
              THEN [timer EXCEPT ![c.tx] = "none"] ELSE timer

Exit(status) == holder' = Free /\ Ends(holder, status)

Enter(c, step, return) ==
  /\ holder = Free
  /\ holder' = [cmd |-> c.cmd, tx |-> c.tx, caller |-> c.caller, pc |-> step,
                then |-> return, stateErr |-> FALSE, stopErr |-> FALSE]
  /\ queue' = queue \ {c}
  /\ UNCHANGED <<reply, timer>>

\* The caller starts a root command through sudo. Apply gets a fresh identity;
\* Commit follows the success of the apply it names (runTunOn, runTunMaintenance).
Invoke(c) ==
  /\ c \notin queue
  /\ Cardinality(queue) < MaxQueue
  /\ queue' = queue \cup {c}
  /\ c.cmd = "commit" => reply = [cmd |-> "apply", tx |-> c.tx, status |-> "ok"]
  /\ reply' = NoReply
  /\ IF c.cmd = "apply" THEN c.tx \notin used /\ used' = used \cup {c.tx}
                        ELSE UNCHANGED used
  /\ UNCHANGED <<journal, blocked, enabled, installed, accepted, runtime, timer,
                 expired, holder, faults>>

\* A command that changes nothing: the lock is busy, or its check fails.
Refuse(c) ==
  /\ c \in queue
  /\ queue' = queue \ {c}
  /\ Ends(c, "failed")
  /\ UNCHANGED <<durable, runtime, expired, holder, faults>>

ApplyEnter(c) ==
  /\ c \in queue /\ c.cmd = "apply"
  /\ journal.phase \notin {"pending", "dirty"}
  /\ Enter(c, "owner", "ok")
  /\ UNCHANGED <<durable, runtime, expired, faults>>

CommitEnter(c) ==
  /\ c \in queue /\ c.cmd = "commit"
  /\ journal.id = c.tx /\ journal.phase = "pending" /\ c.tx \notin expired
  /\ service.job = "running"
  /\ Enter(c, "enable", "ok")
  /\ UNCHANGED <<durable, runtime, expired, faults>>

\* Mutant: the commit fact is not asked for, only the phase.
SettledByPhase(t) == journal.phase \in {"none", "active", "off"} \/ journal.id # t

Settled(t) ==
  \/ journal.phase \in {"none", "active", "off"}
  \/ journal.id # t
  \/ journal.committed

RecoverNothing(c) ==
  /\ c \in Runnable /\ c.cmd = "recover"
  /\ holder = Free
  /\ Settled(c.tx)
  /\ queue' = queue \ {c}
  /\ Ends(c, "ok")
  /\ UNCHANGED <<durable, runtime, expired, holder, faults>>

RecoverEnter(c) ==
  /\ c \in Runnable /\ c.cmd = "recover"
  /\ ~Settled(c.tx)
  /\ Enter(c, "sBlock", "ok")
  /\ UNCHANGED <<durable, runtime, expired, faults>>

OffEnter(c) ==
  /\ c \in queue /\ c.cmd = "off"
  /\ Enter(c, "sBlock", "ok")
  /\ UNCHANGED <<durable, runtime, expired, faults>>

-----------------------------------------------------------------------------
(* stopLocked: block, save dirty, disable --now, confirm, clear. A storage *)
(* failure does not prevent the attempt to stop capture.                   *)

At(step) == holder.pc = step
Goto(step) == holder' = [holder EXCEPT !.pc = step] /\ UNCHANGED <<reply, timer>>
Note(step, field) ==
  /\ holder' = [holder EXCEPT !.pc = step, ![field] = TRUE]
  /\ UNCHANGED <<reply, timer>>

StopBlock ==
  /\ At("sBlock")
  /\ \/ blocked' = TRUE /\ Goto("sDirty") /\ NoFault
     \/ UNCHANGED blocked /\ Note("sDirty", "stateErr") /\ Fault
  /\ UNCHANGED <<journal, enabled, installed, used, accepted, runtime, expired, queue>>

\* The commit fact outlives the stop: a stopped committed generation must not
\* become eligible for the rollback of user files.
Dirty(j) == [j EXCEPT !.phase = "dirty",
                      !.committed = j.committed \/ j.phase = "active"]

StopDirty ==
  /\ At("sDirty")
  /\ \/ journal' = Dirty(journal) /\ Goto("sDisable") /\ NoFault
     \/ UNCHANGED journal /\ Note("sDisable", "stateErr") /\ Fault
  /\ UNCHANGED <<blocked, enabled, installed, used, accepted, runtime, expired, queue>>

\* "systemctl disable --now" stops the service and cancels its jobs. It may
\* fail before or after either half, and a killed process may leave routes.
StopDisable ==
  /\ At("sDisable")
  /\ \/ /\ enabled' = FALSE
        /\ service' = [service EXCEPT !.job = "off"]
        /\ marker' = FALSE
        /\ resources' \in BOOLEAN /\ (resources' => resources)
        /\ IF resources' THEN Fault ELSE NoFault
        /\ Goto("sConfirm")
     \/ /\ enabled' \in {enabled, FALSE}
        /\ \/ UNCHANGED <<service, marker>>
           \/ service' = [service EXCEPT !.job = "off"] /\ marker' = FALSE
        /\ UNCHANGED resources
        /\ Fault
        /\ Note("sConfirm", "stopErr")
  /\ UNCHANGED <<journal, blocked, installed, used, accepted, expired, queue>>

\* Capture is off when the service has no process, no start job and no enabled
\* unit, and neither interface, route nor nftables table is left.
\* Mutant: routes and tables are not looked for.
ConfirmedWithoutResources == ~holder.stopErr /\ service.job = "off" /\ ~enabled

Confirmed == ~holder.stopErr /\ service.job = "off" /\ ~enabled /\ ~resources

StopConfirm ==
  /\ At("sConfirm")
  /\ \/ Confirmed /\ ~holder.stateErr /\ Goto("sMarker") /\ NoFault
     \/ (~Confirmed \/ holder.stateErr) /\ Exit("failed") /\ NoFault
     \/ Confirmed /\ Exit("failed") /\ Fault   \* a check tool fails
  /\ UNCHANGED <<durable, runtime, expired, queue>>

StopMarker ==
  /\ At("sMarker")
  /\ marker' = FALSE
  /\ Goto("sOff")
  /\ UNCHANGED <<durable, service, resources, expired, queue, faults>>

StopOff ==
  /\ At("sOff")
  /\ \/ journal' = [journal EXCEPT !.phase = "off"] /\ Goto("sUnblock") /\ NoFault
     \/ UNCHANGED journal /\ Exit("failed") /\ Fault
  /\ UNCHANGED <<blocked, enabled, installed, used, accepted, runtime, expired, queue>>

StopUnblock ==
  /\ At("sUnblock")
  /\ blocked' = FALSE
  /\ IF holder.then = "reblock" THEN Goto("reblock") ELSE Exit(holder.then)
  /\ UNCHANGED <<journal, enabled, installed, used, accepted, runtime, expired, queue, faults>>

\* abort reloads the journal and stops; the command fails whatever happens.
Abort == /\ holder' = [holder EXCEPT !.pc = "sBlock", !.then = "failed"]
         /\ UNCHANGED <<reply, timer>>

-----------------------------------------------------------------------------
(* Apply prepares its candidate beside the live files, under the lock: a   *)
(* recovery is refused all the while, and the capture of an older          *)
(* generation goes on.  The journal names the candidate only afterwards.   *)

Prepare(step, next) ==
  /\ At(step)
  /\ Goto(next) \/ Exit("failed")
  /\ UNCHANGED <<durable, runtime, expired, queue, faults>>

\* The service account, the directories and the owner of TUN on this machine,
\* whose commands alone are modelled.
ApplyOwner == Prepare("owner", "stage")

\* The engine, the rules and the configuration are copied to directories named
\* after the transaction, which nothing reads before they are published.
ApplyStage == Prepare("stage", "check")

\* The candidate's own check, and the selection it must keep.
ApplyCheck == Prepare("check", "probe")

\* Disposable units show that the service may capture at all.
ApplyProbe == Prepare("probe", "block")


\* Mutant: the new identity is saved without a reset of the phase.
PendingKeepsPhase(t) == [journal EXCEPT !.id = t]

Pending(t) == [id |-> t, phase |-> "pending", committed |-> FALSE]

ApplyBlock(step, next) ==
  /\ At(step)
  /\ \/ blocked' = TRUE /\ Goto(next) /\ NoFault
     \/ UNCHANGED blocked /\ Exit("failed") /\ Fault
  /\ UNCHANGED <<journal, enabled, installed, used, accepted, runtime, expired, queue>>

ApplyPend(step, next) ==
  /\ At(step)
  /\ \/ journal' = Pending(holder.tx) /\ Goto(next) /\ NoFault
     \/ UNCHANGED journal /\ Exit("failed") /\ Fault
  /\ UNCHANGED <<blocked, enabled, installed, used, accepted, runtime, expired, queue>>

\* armRecovery, then the first stopLocked, which must confirm absence.
ApplyArm ==
  /\ At("arm")
  /\ \/ /\ timer' = [timer EXCEPT ![holder.tx] = "armed"]
        /\ holder' = [holder EXCEPT !.pc = "sBlock", !.then = "reblock"]
        /\ UNCHANGED reply /\ NoFault
     \/ Abort /\ Fault
  /\ UNCHANGED <<durable, runtime, expired, queue>>

\* publishGeneration renames the binary directory, then the config directory.
ApplyRename ==
  /\ At("rename")
  /\ \/ installed # Partial /\ installed' = Partial /\ Goto("rename") /\ NoFault
     \/ installed = Partial /\ installed' = holder.tx /\ Goto("unit") /\ NoFault
     \/ UNCHANGED installed /\ Abort /\ Fault
  /\ UNCHANGED <<journal, blocked, enabled, used, accepted, runtime, expired, queue>>

\* writeUnit, daemon-reload, the engine's own check and the deadline check.
ApplyUnit ==
  /\ At("unit")
  /\ \/ holder.tx \notin expired /\ Goto("activate") /\ NoFault
     \/ holder.tx \in expired /\ Abort /\ NoFault
     \/ Abort /\ Fault
  /\ UNCHANGED <<durable, runtime, expired, queue>>

ApplyActivate ==
  /\ At("activate")
  /\ marker' = TRUE
  /\ Goto("start")
  /\ UNCHANGED <<durable, service, resources, expired, queue, faults>>

ApplyStart ==
  /\ At("start")
  /\ \/ service' = [job |-> "queued", gen |-> installed] /\ Goto("verify") /\ NoFault
     \/ UNCHANGED service /\ Abort /\ Fault
  /\ UNCHANGED <<durable, marker, resources, expired, queue>>

\* verifySelection and Verify wait for a running service with working capture.
ApplyVerify ==
  /\ At("verify")
  /\ \/ service.job = "running" /\ Exit("ok") /\ NoFault
     \/ service.job = "off" /\ Abort /\ NoFault
     \/ Abort /\ Fault
  /\ UNCHANGED <<durable, runtime, expired, queue>>

-----------------------------------------------------------------------------
(* Commit after its checks: enable at boot, save, stop the timer.          *)

CommitEnable ==
  /\ At("enable")
  /\ \/ enabled' = TRUE /\ Goto("save") /\ NoFault
     \/ UNCHANGED enabled /\ Exit("failed") /\ Fault
  /\ UNCHANGED <<journal, blocked, installed, used, accepted, runtime, expired, queue>>

CommitSave ==
  /\ At("save")
  /\ \/ /\ journal' = [journal EXCEPT !.phase = "active", !.committed = TRUE]
        /\ accepted' = accepted \cup {holder.tx}
        /\ Goto("disarm") /\ NoFault
     \/ UNCHANGED <<journal, accepted>> /\ Exit("failed") /\ Fault
  /\ UNCHANGED <<blocked, enabled, installed, used, runtime, expired, queue>>

\* Stopping the timer unit does not stop a recovery service it already started.
CommitDisarm ==
  /\ At("disarm")
  /\ holder' = Free
  /\ reply' = IF holder.caller = "user"
              THEN [cmd |-> "commit", tx |-> holder.tx, status |-> "ok"] ELSE reply
  /\ timer' = [timer EXCEPT ![holder.tx] = IF @ = "armed" THEN "none" ELSE @]
  /\ UNCHANGED <<durable, runtime, expired, queue, faults>>

-----------------------------------------------------------------------------
(* systemd and the clock. None of these takes the control lock.            *)

Expire(t) ==
  /\ t \in used \ expired
  /\ expired' = expired \cup {t}
  /\ UNCHANGED <<durable, runtime, timer, holder, queue, reply, faults>>

\* The timer runs on the monotonic clock, the deadline on the wall clock: no
\* order between Expire and TimerFire is assumed.
TimerFire(t) ==
  /\ timer[t] = "armed"
  /\ timer' = [timer EXCEPT ![t] = "fired"]
  /\ UNCHANGED <<durable, runtime, expired, holder, queue, reply, faults>>

\* AllowStart, the unit's ExecCondition, reads the journal without the lock.
\* Mutant: a pending generation may start without its recovery unit.
AllowPendingStart == journal.phase \in {"active", "pending"}

AllowStart ==
  \/ journal.phase = "active"
  \/ /\ journal.phase = "pending"
     /\ journal.id \notin expired
     /\ timer[journal.id] # "none"

CheckStart ==
  /\ service.job = "queued"
  /\ IF AllowStart
     THEN service' = [job |-> "checked", gen |-> installed] /\ marker' = TRUE
     ELSE service' = [service EXCEPT !.job = "off"] /\ marker' = FALSE
  /\ UNCHANGED <<durable, resources, timer, expired, holder, queue, reply, faults>>

RunService ==
  /\ service.job = "checked"
  /\ service' = [job |-> "running", gen |-> installed]
  /\ resources' = TRUE
  /\ UNCHANGED <<durable, marker, timer, expired, holder, queue, reply, faults>>

\* The engine dies; Restart=on-failure queues another start.
ServiceCrash ==
  /\ service.job = "running"
  /\ Crash
  /\ service' = [service EXCEPT !.job = "queued"]
  /\ marker' = FALSE
  /\ resources' \in BOOLEAN
  /\ UNCHANGED <<durable, timer, expired, holder, queue, reply>>

\* The lock holder is killed: flock releases, no step of it follows.
Kill ==
  /\ holder # Free
  /\ Crash
  /\ Exit("failed")
  /\ UNCHANGED <<durable, runtime, expired, queue>>

\* Only the durable state survives; the service starts if it is enabled.
\* Transient timers, root commands and everything under /run are gone.
Reboot ==
  /\ Crash
  /\ service' = [job |-> IF enabled THEN "queued" ELSE "off", gen |-> NoTx]
  /\ marker' = FALSE
  /\ resources' = FALSE
  /\ timer' = [t \in Tx |-> "none"]
  /\ holder' = Free
  /\ queue' = {}
  /\ reply' = NoReply
  /\ UNCHANGED <<durable, expired>>

-----------------------------------------------------------------------------
Stop == \/ StopBlock \/ StopDirty \/ StopDisable \/ StopConfirm \/ StopMarker
        \/ StopOff \/ StopUnblock

Apply == \/ ApplyOwner \/ ApplyStage \/ ApplyCheck \/ ApplyProbe
         \/ ApplyBlock("block", "pend")    \/ ApplyPend("pend", "arm")
         \/ ApplyArm
         \/ ApplyBlock("reblock", "repend") \/ ApplyPend("repend", "rename")
         \/ ApplyRename \/ ApplyUnit \/ ApplyActivate \/ ApplyStart \/ ApplyVerify

Commit == CommitEnable \/ CommitSave \/ CommitDisarm

Enters(c) == ApplyEnter(c) \/ CommitEnter(c) \/ RecoverEnter(c) \/ OffEnter(c)

LockStep == Stop \/ Apply \/ Commit
Recover(t) == RecoverNothing(RecoveryUnit(t)) \/ RecoverEnter(RecoveryUnit(t))
Systemd == CheckStart \/ RunService \/ ServiceCrash \/ \E t \in Tx : TimerFire(t)
Clock == \E t \in Tx : Expire(t)

\* Every step of the root side but a reboot, which the user side shares.
RootStep == \/ LockStep
            \/ \E c \in Runnable : Enters(c) \/ RecoverNothing(c)
            \/ \E c \in queue : Refuse(c)
            \/ Systemd \/ Clock \/ Kill

\* The user side, seen from root: any command, any time, any known identity.
UserCommand == {c \in Command : c.caller = "user" /\ (c.tx = NoTx <=> c.cmd = "off")}

RootNext == RootStep \/ Reboot \/ \E c \in UserCommand : Invoke(c)

\* systemd runs its jobs and timers and restarts a failed recovery unit (no
\* start limit); a root command is never suspended for ever; the lock is free
\* again and again, so a unit that retries every second takes it in the end.
RootFairness ==
  /\ WF_rootVars(LockStep)
  /\ WF_rootVars(CheckStart) /\ WF_rootVars(RunService)
  /\ \A t \in Tx : WF_rootVars(TimerFire(t)) /\ SF_rootVars(Recover(t))

RootSpec == RootInit /\ [][RootNext]_rootVars /\ RootFairness

-----------------------------------------------------------------------------
(* Properties.                                                             *)

Capturing == service.job \in {"checked", "running"}

\* Traffic is never captured by an uncommitted generation that nobody is bound
\* to stop: the journal still names it as unfinished and its own recovery unit
\* is armed or retrying (Apply's order arm, start; Recover; AllowStart).
UncommittedCaptureIsBounded ==
  Capturing /\ service.gen \notin accepted =>
    /\ service.gen = journal.id
    /\ journal.phase \in {"pending", "dirty"}
    /\ timer[service.gen] # "none"

\* Status() = "off" lets the mixed proxy start: it must mean that nothing
\* captures, nothing is about to and no route or table is left (stopLocked).
StatusOff == journal.phase \in {"off", "none"} /\ ~blocked /\ ~marker

OffMeansNoCapture ==
  StatusOff => service.job = "off" /\ ~resources

\* The active journal names the generation on disk and the one that captures:
\* a boot or a restart that AllowStart grants runs what was verified and
\* committed, never a later publication (Commit, publishGeneration, AllowStart).
ActiveJournalIsTheGeneration ==
  journal.phase = "active" =>
    /\ journal.id = installed
    /\ Capturing => service.gen = journal.id

\* What was committed stays, however late its recovery unit gets the lock, also
\* when an explicit off made the journal dirty and failed or died: the commit
\* fact is never taken back, so that user files are never rolled back under it,
\* and only an off or a crash ends the capture (Recover, stopLocked, Commit).
CommitIsDurable ==
  [][journal.id \in accepted =>
       /\ journal'.id = journal.id => journal'.committed
       /\ Capturing /\ service.gen = journal.id /\ ~Capturing' =>
            \/ holder # Free /\ holder.cmd = "off"
            \/ faults'.crash # faults.crash]_rootVars

\* A generation that is captured and not committed is committed or stopped in
\* the end, whatever happened to the command that started it.
UncommittedCaptureEnds ==
  \A t \in Tx :
    (Capturing /\ service.gen = t /\ t \notin accepted)
      ~> (service.job = "off" \/ t \in accepted)
=============================================================================

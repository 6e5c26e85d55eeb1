--------------------------- MODULE TunMaintenance ---------------------------
(***************************************************************************)
(* The user side of Linux TUN composed with the root transaction: "sbc tun *)
(* on", "sbc tun off" and TUN maintenance by "sbc refresh|upgrade"         *)
(* (internal/cli/tun.go, tun_maintenance.go, internal/install/tun.go).     *)
(*                                                                         *)
(* One user command runs at a time (operation.lock) and talks to root only *)
(* through sudo and through the public journal. Maintenance owns a second  *)
(* journal, upgrade-recovery.json, with backups of the user files. A user  *)
(* command may die at any step while the root command it started lives on. *)
(***************************************************************************)
EXTENDS TunTransaction

CONSTANTS
  File        \* the user files an update replaces, in an arbitrary order

VARIABLES
  files,      \* the version each user file comes from (NoTx: as installed)
  ustate,     \* tun-state.json: the transaction whose API address is saved
  recovery,   \* upgrade-recovery.json of kind "tun", with its backups
  user,       \* the running user command and where it is
  maint,      \* history: transactions begun by maintenance
  current     \* history: the last maintenance version root committed

userVars == <<files, ustate, recovery, user, maint, current>>
vars == <<rootVars, userVars>>

-----------------------------------------------------------------------------
NoRecovery == [tx |-> NoTx]
Recovery == [tx : Tx, prev : TxId, files : [File -> TxId], state : TxId]

\* A caller reads Status() first and the journal again after it (Current).
Unread == [status |-> "unread"]
Capture == [status : {"active", "dirty", "off"}] \cup
           [status : {"active", "dirty", "off"}, id : TxId, committed : BOOLEAN,
            phase : {"none", "pending", "active", "off", "dirty"}]

Idle == [pc |-> "idle"]
UserSteps == {"status", "record", "active", "stage", "begin", "recover", "after",
              "send", "applied", "publish", "write", "commit", "committed", "finish",
              "recovered", "restore", "forget", "retire",
              "onApplied", "onWrite", "onCommit", "onCommitted", "onOff", "stopped"}
User == [pc : UserSteps, goal : {"none", "active", "recover", "after"}, tx : TxId,
         cap : Capture \cup {Unread}, failing : BOOLEAN]

TypeOK ==
  /\ RootTypeOK
  /\ files \in [File -> TxId]
  /\ ustate \in TxId
  /\ recovery \in Recovery \cup {NoRecovery}
  /\ user \in User \cup {Idle}
  /\ maint \in SUBSET Tx
  /\ current \in TxId

Init ==
  /\ RootInit
  /\ files = [f \in File |-> NoTx]
  /\ ustate = NoTx
  /\ recovery = NoRecovery
  /\ user = Idle
  /\ maint = {}
  /\ current = NoTx

-----------------------------------------------------------------------------
Status ==
  IF journal.phase = "active"
  THEN IF service.job = "running" THEN "active" ELSE "dirty"
  ELSE IF journal.phase \in {"pending", "dirty"} \/ blocked \/ marker \/ service.job # "off"
       THEN "dirty" ELSE "off"

On(step) == user.pc = step
Proceed(step) == user' = [user EXCEPT !.pc = step]
Done == user' = Idle

\* Read the capture state again, then go on at the named step.
Look(goal, u) == user' = [u EXCEPT !.pc = "status", !.goal = goal, !.cap = Unread]

Sudo(cmd, t) == Invoke([cmd |-> cmd, tx |-> t, caller |-> "user"])
Quiet == UNCHANGED <<rootVars, maint, current>>

\* failTunMaintenance: recover with the journal in memory, then fail.
Fail == Look("recover", [user EXCEPT !.failing = TRUE])

-----------------------------------------------------------------------------
(* Starting a command, and reading the capture state.                      *)

Started(t) == [pc |-> "status", goal |-> "none", tx |-> t, cap |-> Unread,
                failing |-> FALSE]

\* withRecovery refuses "sbc tun on" while a TUN recovery record exists.
StartOn(t) ==
  /\ user = Idle
  /\ recovery = NoRecovery
  /\ t \notin maint
  /\ Sudo("apply", t)
  /\ user' = [Started(t) EXCEPT !.pc = "onApplied"]
  /\ UNCHANGED <<files, ustate, recovery, maint, current>>

StartOff ==
  /\ user = Idle
  /\ Sudo("off", NoTx)
  /\ user' = [Started(NoTx) EXCEPT !.pc = "stopped"]
  /\ UNCHANGED <<files, ustate, recovery, maint, current>>

\* refresh and upgrade take the TUN path when capture is not off or a record
\* waits; a record is recovered first (tunMaintenanceTarget).
StartMaintenance ==
  /\ user = Idle
  /\ Status # "off" \/ recovery # NoRecovery
  /\ user' = [Started(NoTx) EXCEPT
                !.goal = IF recovery = NoRecovery THEN "active" ELSE "recover"]
  /\ Quiet /\ UNCHANGED <<files, ustate, recovery>>

ReadStatus ==
  /\ On("status")
  /\ user' = [user EXCEPT !.pc = "record", !.cap = [status |-> Status]]
  /\ Quiet /\ UNCHANGED <<files, ustate, recovery>>

ReadRecord ==
  /\ On("record")
  /\ user' = [user EXCEPT !.pc = user.goal, !.goal = "none",
        !.cap = [status |-> user.cap.status, id |-> journal.id,
                 committed |-> journal.committed, phase |-> journal.phase]]
  /\ Quiet /\ UNCHANGED <<files, ustate, recovery>>

-----------------------------------------------------------------------------
(* Maintenance of an active generation.                                    *)

\* Everything is downloaded and checked beside the live files: the engine and
\* the client of the release or copies of the installed ones, the rules, and
\* the whole envelope with the mixed configuration patched and checked.
PrepareTunUpdate ==
  /\ On("active")
  /\ user.cap.status = "active" /\ user.cap.phase = "active" /\ ustate # NoTx
  /\ recovery = NoRecovery
  /\ Proceed("stage")
  /\ Quiet /\ UNCHANGED <<files, ustate, recovery>>

\* What root is to publish is copied from that candidate to a private directory.
PrepareStaged ==
  /\ On("stage")
  /\ Proceed("begin")
  /\ Quiet /\ UNCHANGED <<files, ustate, recovery>>

\* TunUpdate.Begin: every backup is durable before the record, and the record
\* before root can stop the old generation.  Root may have moved on since the
\* capture was read.
Begin(t) ==
  /\ On("begin")
  /\ t \notin used \cup maint
  /\ recovery' = [tx |-> t, prev |-> user.cap.id, files |-> files, state |-> ustate]
  /\ maint' = maint \cup {t}
  /\ user' = [user EXCEPT !.pc = "send", !.tx = t, !.cap = Unread]
  /\ UNCHANGED <<rootVars, files, ustate, current>>

\* Capture is not committed and active, or any preparation fails.
GiveUp ==
  /\ On("active") \/ On("stage") \/ On("begin")
  /\ Done
  /\ Quiet /\ UNCHANGED <<files, ustate, recovery>>

SendApply ==
  /\ On("send")
  /\ Sudo("apply", user.tx)
  /\ Proceed("applied")
  /\ UNCHANGED <<files, ustate, recovery, maint, current>>

Answered == reply # NoReply

Applied ==
  /\ On("applied") /\ Answered
  /\ IF reply.status = "ok" THEN Proceed("publish") ELSE Fail
  /\ Quiet /\ UNCHANGED <<files, ustate, recovery>>

\* Publish replaces one user file after another.
\* Mutant: the commit is sent before the last file.
PublishEarly ==
  /\ On("publish")
  /\ \/ \E f \in File :
          /\ files[f] # user.tx
          /\ files' = [files EXCEPT ![f] = user.tx]
          /\ UNCHANGED <<rootVars, user>>
     \/ Proceed("write") /\ UNCHANGED <<rootVars, files>>
  /\ UNCHANGED <<ustate, recovery, maint, current>>

Publish ==
  /\ On("publish")
  /\ \/ \E f \in File :
          /\ files[f] # user.tx
          /\ files' = [files EXCEPT ![f] = user.tx]
          /\ UNCHANGED <<rootVars, user>>
     \/ /\ \A f \in File : files[f] = user.tx
        /\ Proceed("write") /\ UNCHANGED <<rootVars, files>>
     \/ Fault /\ Fail /\ UNCHANGED <<durable, runtime, timer, expired, holder, queue, reply, files>>
  /\ UNCHANGED <<ustate, recovery, maint, current>>

WriteState(from, next) ==
  /\ On(from)
  /\ ustate' = user.tx
  /\ Proceed(next)
  /\ Quiet /\ UNCHANGED <<files, recovery>>

SendCommit(from, next) ==
  /\ On(from)
  /\ Sudo("commit", user.tx)
  /\ Proceed(next)
  /\ UNCHANGED <<files, ustate, recovery, maint, current>>

Committed ==
  /\ On("committed") /\ Answered
  /\ IF reply.status = "ok" THEN Proceed("finish") ELSE Fail
  /\ Quiet /\ UNCHANGED <<files, ustate, recovery>>

Finish ==
  /\ On("finish")
  /\ recovery' = NoRecovery
  /\ Done
  /\ Quiet /\ UNCHANGED <<files, ustate>>

-----------------------------------------------------------------------------
(* recoverTunMaintenance: it never starts a service. A root commit proves  *)
(* that user publication completed; otherwise it restores, after shutdown  *)
(* or when the previous generation never stopped.                          *)

\* Mutant: a committed generation that was stopped later counts as uncommitted.
CapActive == user.cap.id = recovery.tx /\ user.cap.phase = "active"

CapCommitted == user.cap.id = recovery.tx /\ (user.cap.committed \/ user.cap.phase = "active")
\* Mutant: any capture is taken for the previous generation.
PreviousCaptures == user.cap.status # "off"

PreviousActive == /\ user.cap.id = recovery.prev
                  /\ user.cap.phase = "active" /\ user.cap.status = "active"

\* The three ways out, once root is settled or has been asked to settle.
\* Mutant: the saved state is removed whatever captures.
SettleForgets ==
  IF CapCommitted THEN Proceed("forget")
  ELSE IF PreviousActive \/ user.cap.status = "off" THEN Proceed("restore") ELSE Done

Settle ==
  IF CapCommitted
  THEN IF user.cap.status = "active" THEN Proceed("retire")
       ELSE IF user.cap.status = "off" THEN Proceed("forget") ELSE Done
  ELSE IF PreviousActive \/ user.cap.status = "off" THEN Proceed("restore") ELSE Done

NeedsRoot == ~CapCommitted /\ ~PreviousActive /\ user.cap.status # "off"

RecoverDecide ==
  /\ On("recover") /\ ~NeedsRoot
  /\ IF user.cap.id \in {recovery.tx, recovery.prev} THEN Settle ELSE Done
  /\ Quiet /\ UNCHANGED <<files, ustate, recovery>>

RecoverForeign ==
  /\ On("recover") /\ NeedsRoot /\ user.cap.id # recovery.tx
  /\ Done
  /\ Quiet /\ UNCHANGED <<files, ustate, recovery>>

RecoverAsk ==
  /\ On("recover") /\ NeedsRoot /\ user.cap.id = recovery.tx
  /\ Sudo("recover", recovery.tx)
  /\ Proceed("recovered")
  /\ UNCHANGED <<files, ustate, recovery, maint, current>>

RecoverAnswer ==
  /\ On("recovered") /\ Answered
  /\ IF reply.status = "ok" THEN Look("after", user) ELSE Done
  /\ Quiet /\ UNCHANGED <<files, ustate, recovery>>

RecoverAfter ==
  /\ On("after")
  /\ IF user.cap.id = recovery.tx THEN Settle ELSE Done
  /\ Quiet /\ UNCHANGED <<files, ustate, recovery>>

\* Restore puts one file back after another, the saved state among them. An
\* error leaves the record for the next attempt.
Restore ==
  /\ On("restore")
  /\ \/ \E f \in File :
          /\ files[f] # recovery.files[f]
          /\ files' = [files EXCEPT ![f] = recovery.files[f]]
          /\ UNCHANGED <<rootVars, ustate, user>>
     \/ /\ ustate # recovery.state /\ ustate' = recovery.state
        /\ UNCHANGED <<rootVars, files, user>>
     \/ /\ files = recovery.files /\ ustate = recovery.state
        /\ Proceed(IF PreviousActive THEN "retire" ELSE "forget")
        /\ UNCHANGED <<rootVars, files, ustate>>
     \/ Fault /\ Done /\ UNCHANGED <<durable, runtime, timer, expired, holder, queue, reply, files, ustate>>
  /\ UNCHANGED <<recovery, maint, current>>

Forget ==
  /\ On("forget")
  /\ ustate' = NoTx
  /\ Proceed("retire")
  /\ Quiet /\ UNCHANGED <<files, recovery>>

\* The record goes; a fresh command goes on when capture never stopped.
Retire ==
  /\ On("retire")
  /\ recovery' = NoRecovery
  /\ IF user.cap.status = "active" /\ ~user.failing THEN Look("active", user) ELSE Done
  /\ Quiet /\ UNCHANGED <<files, ustate>>

-----------------------------------------------------------------------------
(* The rest of "sbc tun on" (finishTunActivation) and of "sbc tun off".    *)

OnApplied ==
  /\ On("onApplied") /\ Answered
  /\ IF reply.status = "ok" THEN Proceed("onWrite") ELSE Done
  /\ Quiet /\ UNCHANGED <<files, ustate, recovery>>

\* A failed write of the state, or a failed commit, turns capture off again.
OnOff ==
  /\ \/ On("onWrite")
     \/ On("onCommitted") /\ Answered /\ reply.status = "failed"
  /\ Sudo("off", NoTx)
  /\ Proceed("stopped")
  /\ UNCHANGED <<files, ustate, recovery, maint, current>>

OnCommitted ==
  /\ On("onCommitted") /\ Answered /\ reply.status = "ok"
  /\ Done
  /\ Quiet /\ UNCHANGED <<files, ustate, recovery>>

Stopped ==
  /\ On("stopped") /\ Answered
  /\ IF reply.status = "ok" THEN ustate' = NoTx ELSE UNCHANGED ustate
  /\ Done
  /\ Quiet /\ UNCHANGED <<files, recovery>>

-----------------------------------------------------------------------------
\* The user command dies; the root command it waits for goes on without it.
UserCrash ==
  /\ user # Idle
  /\ Crash
  /\ Done
  /\ queue' = {[c EXCEPT !.caller = "orphan"] : c \in queue}
  /\ holder' = IF holder # Free /\ holder.caller = "user"
               THEN [holder EXCEPT !.caller = "orphan"] ELSE holder
  /\ reply' = NoReply
  /\ UNCHANGED <<durable, runtime, timer, expired, files, ustate, recovery, maint, current>>

MachineReboot ==
  /\ Reboot
  /\ Done
  /\ UNCHANGED <<files, ustate, recovery, maint, current>>

\* A root step, with the version that maintenance has just made current.
RootSide ==
  /\ RootStep
  /\ current' = IF \E t \in maint : t \in accepted' \ accepted
                THEN CHOOSE t \in maint : t \in accepted' \ accepted ELSE current
  /\ UNCHANGED <<files, ustate, recovery, user, maint>>

UserStep ==
  \/ \E t \in Tx : StartOn(t) \/ Begin(t)
  \/ StartOff \/ StartMaintenance \/ ReadStatus \/ ReadRecord
  \/ PrepareTunUpdate \/ PrepareStaged \/ GiveUp
  \/ SendApply \/ Applied \/ Publish
  \/ WriteState("write", "commit") \/ WriteState("onWrite", "onCommit")
  \/ SendCommit("commit", "committed") \/ SendCommit("onCommit", "onCommitted")
  \/ Committed \/ Finish
  \/ RecoverDecide \/ RecoverForeign \/ RecoverAsk \/ RecoverAnswer \/ RecoverAfter
  \/ Restore \/ Forget \/ Retire
  \/ OnApplied \/ OnOff \/ OnCommitted \/ Stopped

Next == RootSide \/ UserStep \/ UserCrash \/ MachineReboot

Spec == Init /\ [][Next]_vars

-----------------------------------------------------------------------------
(* Properties.                                                             *)

\* Without a recovery record the user files are one complete version: the one
\* of the last maintenance that root committed. Neither a crash between two
\* renames, nor a late commit by an orphaned root command, nor a recovery that
\* reads the journal while it moves leaves a mixture or an older version.
FilesAreTheCommittedVersion ==
  recovery = NoRecovery => files = [f \in File |-> current]

\* "A durable root commit proves that user publication completed": while the
\* record of a committed transaction remains, every file is of that version.
CommitProvesPublication ==
  recovery.tx \in accepted =>
    files = [f \in File |-> recovery.tx] /\ ustate \in {recovery.tx, NoTx}

\* An active generation always has the owner's saved API state of that very
\* transaction: the recovery of another one never removes or replaces it.
ActiveHasItsState == journal.phase = "active" => ustate = journal.id

\* A file is put back only while the generation of the recovery record neither
\* captures nor is committed ("restore only after safe shutdown or when the
\* previous generation never stopped"): recovery decides on two unlocked reads
\* of a journal that root commands of other callers may be changing.
RestoreOnlyWhenSafe ==
  [][(\E f \in File : files'[f] # files[f] /\ On("restore")) =>
       /\ recovery.tx \notin accepted
       /\ ~(Capturing /\ service.gen = recovery.tx)]_vars
=============================================================================

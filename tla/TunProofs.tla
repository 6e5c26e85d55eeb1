------------------------------ MODULE TunProofs ------------------------------
(***************************************************************************)
(* What holds of TUN for every number of transactions, waiting commands,   *)
(* crashes and failures, and for every set of files: first of the root     *)
(* side, whose step lemmas speak of root state alone, so that they hold    *)
(* beside any user side; then of TUN maintenance beside it.                *)
(***************************************************************************)
EXTENDS TunMaintenance, TLAPS

-----------------------------------------------------------------------------
(***************************************************************************)
(* THE ROOT SIDE.                                                          *)
(***************************************************************************)

(***************************************************************************)
(* The inductive invariant.  Held: the command under the lock is one that  *)
(* may be at its step.                                                     *)
(***************************************************************************)
Held == holder # Free

FitsItsStep ==
  /\ \A c \in queue : c.caller # "timer" /\ (c.cmd # "off" => c.tx \in Tx)
  /\ Held =>
       /\ holder.pc \in ApplySteps => holder.cmd = "apply"
       /\ holder.pc \in CommitSteps => holder.cmd = "commit"
       /\ holder.then = "reblock" => holder.cmd = "apply"
       /\ holder.cmd = "apply" /\ holder.pc \in StopSteps => holder.then # "ok"
       /\ holder.pc \in StopSteps => holder.cmd # "commit"
       /\ holder.caller = "timer" => holder.cmd = "recover"
       /\ holder.cmd # "off" => holder.tx \in Tx

\* The journal's commit fact is the history's, and an active generation is
\* the one on disk.
JournalIsTrue ==
  /\ journal.committed <=> journal.id \in accepted
  /\ journal.phase \in {"pending", "active"} => journal.id \in Tx
  /\ journal.phase = "pending" => ~journal.committed
  /\ journal.phase = "active" => journal.committed /\ journal.id = installed
  /\ journal.id \in used \cup {NoTx}
  /\ accepted \subseteq used

\* An apply that was not answered is not committed, nobody asks for its commit,
\* and until it saves its journal nothing names it.
ApplyIsNew ==
  /\ \A c \in queue : c.cmd = "apply" =>
       /\ c.tx \in used \ accepted /\ journal.id # c.tx
       /\ \A d \in queue : d.tx = c.tx /\ d.cmd \in {"apply", "commit"} => d = c
       /\ ~(Held /\ holder.cmd \in {"apply", "commit"} /\ holder.tx = c.tx)
       /\ reply # [cmd |-> "apply", tx |-> c.tx, status |-> "ok"]
  /\ Held /\ holder.cmd = "apply" =>
       /\ holder.tx \in used \ accepted
       /\ \A d \in queue : ~(d.tx = holder.tx /\ d.cmd = "commit")
       /\ reply # [cmd |-> "apply", tx |-> holder.tx, status |-> "ok"]
       /\ holder.pc \in {"owner", "stage", "check", "probe", "block", "pend"} =>
            journal.id # holder.tx

\* Who was answered, or asks for a commit, has published.
Published(t) == t \in used /\ (journal.id = t => installed = t)
AnsweredIsPublished ==
  /\ \A c \in queue : c.cmd = "commit" => Published(c.tx)
  /\ \A t \in Tx : reply = [cmd |-> "apply", tx |-> t, status |-> "ok"] => Published(t)
  /\ Held /\ holder.cmd = "commit" => holder.tx \in used

\* What the command under the lock has made of the journal.
HolderKnowsTheJournal ==
  Held =>
    /\ holder.pc \in {"owner", "stage", "check", "probe", "block", "pend"} =>
         journal.phase \notin {"pending", "dirty"}
    /\ holder.pc \in StopSteps /\ holder.then = "reblock" => journal.id = holder.tx
    /\ holder.pc = "sUnblock" => journal.phase = "off"
    /\ holder.pc \in {"reblock", "repend"} => journal.id = holder.tx
    /\ holder.pc \in {"arm", "rename", "unit", "activate", "start", "verify"} =>
         journal = Pending(holder.tx)
    /\ holder.pc \in {"unit", "activate", "start", "verify"} => installed = holder.tx
    /\ holder.pc \in {"enable", "save"} =>
         journal.phase = "pending" /\ journal.id = holder.tx /\ installed = holder.tx
    /\ holder.pc = "disarm" => holder.tx \in accepted

\* Absence was confirmed, and nothing can start the service before this holder.
Absent == service.job = "off" /\ ~enabled /\ ~resources
StoppedStaysStopped ==
  /\ journal.phase \in {"none", "off"} => Absent
  /\ Held /\ holder.pc \in {"sMarker", "sOff", "sUnblock", "reblock", "repend", "rename",
                            "unit", "activate", "start"} => Absent

\* What runs, or may be started again, is what was published, and it is
\* committed or the unfinished transaction of the journal.
StartableIsKnown ==
  /\ Capturing => service.gen = installed
  /\ service.job # "off" \/ enabled =>
       \/ installed \in accepted
       \/ /\ installed = journal.id /\ journal.id \in Tx
          /\ journal.phase \in {"pending", "dirty"}

UncommittedHasTimer ==
  Capturing /\ service.gen \notin accepted => timer[service.gen] # "none"

RootInv ==
  /\ RootTypeOK /\ FitsItsStep /\ JournalIsTrue /\ ApplyIsNew /\ AnsweredIsPublished
  /\ HolderKnowsTheJournal /\ StoppedStaysStopped /\ StartableIsKnown
  /\ UncommittedHasTimer

-----------------------------------------------------------------------------
(***************************************************************************)
(* The steps of the command under the lock: it goes on, or it leaves.      *)
(***************************************************************************)
Steps == StopSteps \cup ApplySteps \cup CommitSteps
Early == {"owner", "stage", "check", "probe", "block", "pend"}

Moves ==
  /\ Held /\ holder \in Holder /\ Held' /\ holder' \in Holder
  /\ holder'.cmd = holder.cmd /\ holder'.tx = holder.tx /\ holder'.caller = holder.caller
  /\ UNCHANGED reply

GoesOn == Moves /\ UNCHANGED timer

Leaves(status) ==
  /\ Held /\ holder \in Holder /\ holder' = Free /\ ~Held'
  /\ reply' = IF holder.caller = "user"
              THEN [cmd |-> holder.cmd, tx |-> holder.tx, status |-> status] ELSE reply
  /\ reply' \in Reply
  /\ timer' \in [Tx -> {"none", "armed", "fired"}]
  /\ \A t \in Tx : timer'[t] # timer[t] =>
       holder.cmd = "recover" /\ holder.tx = t /\ status = "ok"

\* What a stop saves (state.Committed outlives it): same identity, phase dirty.
LEMMA DirtyJournal ==
  ASSUME RootTypeOK
  PROVE  /\ Dirty(journal) \in [id : TxId, committed : BOOLEAN,
                               phase : {"none", "pending", "active", "off", "dirty"}]
         /\ Dirty(journal).id = journal.id /\ Dirty(journal).phase = "dirty"
         /\ Dirty(journal).committed <=> journal.committed \/ journal.phase = "active"
  BY DEF RootTypeOK, Dirty

\* A command that is at some step of Apply, Commit or stopLocked holds the lock.
LEMMA Holding ==
  ASSUME RootTypeOK, NEW step \in Steps, At(step)
  PROVE  Held /\ holder \in Holder
  BY DEF RootTypeOK, Held, At, Free, Steps, StopSteps, ApplySteps, CommitSteps

\* Going on to another step changes nothing of the command but where it is.
LEMMA Going ==
  ASSUME RootTypeOK, NEW from \in Steps, At(from), NEW step \in Steps, Goto(step)
  PROVE  GoesOn /\ holder'.pc = step /\ holder'.then = holder.then
                /\ holder'.stateErr = holder.stateErr /\ holder'.stopErr = holder.stopErr
<1>1. Held /\ holder \in Holder BY Holding
<1>2. holder' = [holder EXCEPT !.pc = step] BY DEF Goto
<1>3. holder' \in Holder BY <1>1, <1>2 DEF Holder, Steps
<1>4. Held' BY <1>3 DEF Held, Free, Holder, StopSteps, ApplySteps, CommitSteps
<1> QED BY <1>1, <1>2, <1>3, <1>4 DEF Goto, Holder, GoesOn, Moves

\* So does going on with an error remembered for the end of stopLocked.
LEMMA Noting ==
  ASSUME RootTypeOK, NEW from \in Steps, At(from), NEW step \in Steps,
         NEW field \in {"stateErr", "stopErr"}, Note(step, field)
  PROVE  GoesOn /\ holder'.pc = step /\ holder'.then = holder.then /\ holder'[field] = TRUE
<1>1. Held /\ holder \in Holder BY Holding
<1>2. holder' = [holder EXCEPT !.pc = step, ![field] = TRUE] BY DEF Note
<1>3. holder' \in Holder BY <1>1, <1>2 DEF Holder, Steps
<1>4. Held' BY <1>3 DEF Held, Free, Holder, StopSteps, ApplySteps, CommitSteps
<1> QED BY <1>1, <1>2, <1>3, <1>4 DEF Note, Holder, GoesOn, Moves

\* abort turns Apply into a stop that will report failure.
LEMMA Aborting ==
  ASSUME RootTypeOK, NEW from \in Steps, At(from), Abort
  PROVE  GoesOn /\ holder'.pc = "sBlock" /\ holder'.then = "failed"
<1>1. Held /\ holder \in Holder BY Holding
<1>2. holder' = [holder EXCEPT !.pc = "sBlock", !.then = "failed"] BY DEF Abort
<1>3. holder' \in Holder BY <1>1, <1>2 DEF Holder, StopSteps
<1>4. Held' BY <1>3 DEF Held, Free, Holder, StopSteps, ApplySteps, CommitSteps
<1> QED BY <1>1, <1>2, <1>3, <1>4 DEF Abort, Holder, GoesOn, Moves

\* A recovery unit that was armed lets Apply stop the older generation.
LEMMA Arming ==
  ASSUME RootTypeOK, At("arm"),
         holder' = [holder EXCEPT !.pc = "sBlock", !.then = "reblock"], UNCHANGED reply
  PROVE  Moves /\ holder'.pc = "sBlock" /\ holder'.then = "reblock"
<1>1. Held /\ holder \in Holder BY Holding DEF Steps, ApplySteps
<1>2. holder' \in Holder BY <1>1 DEF Holder, StopSteps
<1>3. Held' BY <1>2 DEF Held, Free, Holder, StopSteps, ApplySteps, CommitSteps
<1> QED BY <1>1, <1>2, <1>3 DEF Holder, Moves

\* A command that exits answers a user, and disarms a timer only for good.
LEMMA Leaving ==
  ASSUME RootTypeOK, FitsItsStep, Held, NEW status \in {"ok", "failed"}, Exit(status)
  PROVE  Leaves(status)
<1>0. holder \in Holder BY DEF RootTypeOK, Held
<1>1. holder.tx \in TxId /\ holder.cmd \in {"apply", "commit", "recover", "off"}
  BY <1>0 DEF Holder
<1>2. reply' \in Reply
  BY <1>1 DEF Exit, Ends, Reply, RootTypeOK
<1>3. holder' = Free /\ ~Held'
  BY DEF Exit, Held
<1>4. timer' = timer \/ (holder.caller = "timer" /\ status = "ok" /\ timer' = [timer EXCEPT ![holder.tx] = "none"])
  BY DEF Exit, Ends
<1>5. holder.caller = "timer" => holder.cmd = "recover" /\ holder.tx \in Tx
  BY DEF FitsItsStep
<1>6. timer \in [Tx -> {"none", "armed", "fired"}]
  BY DEF RootTypeOK
<1> QED BY <1>0, <1>1, <1>2, <1>3, <1>4, <1>5, <1>6 DEF Exit, Ends, Leaves

\* The bounds on crashes and failures are kept by whoever spends one.
LEMMA FaultsInBounds ==
  ASSUME RootTypeOK, Fault \/ Crash \/ NoFault
  PROVE  faults' \in [crash : 0 .. MaxCrashes, fail : 0 .. MaxFailures]
<1>1. faults \in [crash : 0 .. MaxCrashes, fail : 0 .. MaxFailures] BY DEF RootTypeOK
<1>2. CASE Fault
  BY <1>1, <1>2, TunAssumption DEF Fault
<1>3. CASE Crash
  BY <1>1, <1>3, TunAssumption DEF Crash
<1> QED BY <1>1, <1>2, <1>3 DEF NoFault

\* However a step under the lock ends, what it leaves of the lock is typed.
LEMMA LockStepIsTyped ==
  ASSUME RootTypeOK, GoesOn \/ Leaves("ok") \/ Leaves("failed")
  PROVE  /\ holder' \in Holder \cup {Free}
         /\ reply' \in Reply
         /\ timer' \in [Tx -> {"none", "armed", "fired"}]
<1>1. CASE GoesOn
  BY <1>1 DEF GoesOn, Moves, RootTypeOK
<1>2. CASE Leaves("ok") \/ Leaves("failed")
  BY <1>2 DEF Leaves
<1> QED BY <1>1, <1>2

(***************************************************************************)
(* What a lock step that leaves the queue and the identities alone keeps.  *)
(***************************************************************************)
\* What a step under the lock keeps of the commands, waiting, running or
\* answered, as long as it leaves the queue, the identities and the disk alone.
LEMMA LockStepKeepsCommands ==
  ASSUME RootInv, UNCHANGED <<queue, used, accepted, installed>>, journal'.id = journal.id,
         \/ /\ Moves
            /\ holder'.pc \in ApplySteps => holder.cmd = "apply"
            /\ holder'.pc \in CommitSteps => holder.cmd = "commit"
            /\ holder'.then = "reblock" => holder.cmd = "apply"
            /\ holder.cmd = "apply" /\ holder'.pc \in StopSteps => holder'.then # "ok"
            /\ holder'.pc \in StopSteps => holder.cmd # "commit"
            /\ holder'.pc \in Early /\ holder.cmd = "apply" => journal.id # holder.tx
         \/ Leaves("failed")
         \/ Leaves("ok") /\ (holder.cmd = "apply" => installed = holder.tx)
  PROVE  FitsItsStep' /\ ApplyIsNew' /\ AnsweredIsPublished'
<1> USE DEF RootInv
<1>1. FitsItsStep'
  BY DEF FitsItsStep, Moves, Leaves
<1>2. ApplyIsNew'
  <2>1. CASE Moves
    <3>1. ~Leaves("failed") /\ ~Leaves("ok") BY <2>1 DEF Moves, Leaves
    <3> QED BY <2>1, <3>1 DEF ApplyIsNew, Moves, Early
  <2>2. CASE Leaves("failed")
    BY <2>2 DEF ApplyIsNew, Leaves, Holder
  <2>3. CASE Leaves("ok") 
    BY <2>3 DEF ApplyIsNew, Leaves, Holder
  <2> QED BY <2>1, <2>2, <2>3
<1>3. AnsweredIsPublished'
  <2>1. CASE Moves
    BY <2>1 DEF AnsweredIsPublished, Moves, Published
  <2>2. CASE Leaves("failed")
    BY <2>2 DEF AnsweredIsPublished, Leaves, Published
  <2>3. CASE Leaves("ok") /\ (holder.cmd = "apply" => installed = holder.tx)
    BY <2>3 DEF AnsweredIsPublished, Leaves, Published, ApplyIsNew
  <2> QED BY <2>1, <2>2, <2>3
<1> QED BY <1>1, <1>2, <1>3

\* stopLocked: the blocked marker, or a remembered storage error.
LEMMA StopBlockKeeps == ASSUME RootInv, StopBlock PROVE RootInv'
<1> USE DEF RootInv
<1>1. Held /\ holder \in Holder /\ holder.pc = "sBlock" /\ holder.then \in {"ok", "failed", "reblock"}
  BY Holding DEF StopBlock, Steps, StopSteps, ApplySteps, CommitSteps, At, Holder
<1>2. GoesOn /\ holder'.pc = "sDirty" /\ holder'.then = holder.then
  BY <1>1, Going, Noting DEF StopBlock, Steps, StopSteps, ApplySteps, CommitSteps
<1>3. UNCHANGED <<queue, used, accepted, installed>> /\ journal'.id = journal.id
  BY DEF StopBlock, durable, runtime, RootTypeOK
<1>f. faults' \in [crash : 0 .. MaxCrashes, fail : 0 .. MaxFailures]
  BY FaultsInBounds DEF StopBlock, NoFault
<1>4. FitsItsStep' /\ ApplyIsNew' /\ AnsweredIsPublished'
  BY <1>1, <1>2, <1>3, LockStepKeepsCommands DEF GoesOn, Early, Steps, StopSteps, ApplySteps,
     CommitSteps, FitsItsStep
<1>5. RootTypeOK'
  BY <1>1, <1>2, <1>3, <1>f DEF StopBlock, RootTypeOK, GoesOn, Moves, Leaves, durable, runtime
<1>6. JournalIsTrue'
  BY <1>1, <1>3 DEF StopBlock, JournalIsTrue, RootTypeOK, durable, runtime
<1>7. HolderKnowsTheJournal'
  BY <1>1, <1>2, <1>3 DEF HolderKnowsTheJournal, GoesOn, Moves, Leaves, Steps, StopSteps,
     ApplySteps, CommitSteps, RootTypeOK, durable, runtime
<1>8. StoppedStaysStopped'
  BY <1>1, <1>2, <1>3 DEF StopBlock, StoppedStaysStopped, Absent, GoesOn, Moves, Leaves,
     RootTypeOK, durable, runtime
<1>9. StartableIsKnown'
  BY <1>1, <1>2, <1>3 DEF StopBlock, StartableIsKnown, StoppedStaysStopped, Absent, Capturing,
     JournalIsTrue, RootTypeOK, durable, runtime
<1>10. UncommittedHasTimer'
  BY <1>1, <1>2, <1>3 DEF StopBlock, UncommittedHasTimer, StartableIsKnown, StoppedStaysStopped,
     Absent, Capturing, GoesOn, Moves, Leaves, RootTypeOK, durable, runtime
<1> QED BY <1>4, <1>5, <1>6, <1>7, <1>8, <1>9, <1>10

\* stopLocked: the dirty journal keeps the commit fact.
LEMMA StopDirtyKeeps == ASSUME RootInv, StopDirty PROVE RootInv'
<1> USE DEF RootInv
<1>1. Held /\ holder \in Holder /\ holder.pc = "sDirty" /\ holder.then \in {"ok", "failed", "reblock"}
  BY Holding DEF StopDirty, Steps, StopSteps, ApplySteps, CommitSteps, At, Holder
<1>2. GoesOn /\ holder'.pc = "sDisable" /\ holder'.then = holder.then
  BY <1>1, Going, Noting DEF StopDirty, Steps, StopSteps, ApplySteps, CommitSteps
<1>3. UNCHANGED <<queue, used, accepted, installed>> /\ journal'.id = journal.id
  BY DirtyJournal DEF StopDirty, durable, runtime, RootTypeOK
<1>f. faults' \in [crash : 0 .. MaxCrashes, fail : 0 .. MaxFailures]
  BY FaultsInBounds DEF StopDirty, NoFault
<1>4. FitsItsStep' /\ ApplyIsNew' /\ AnsweredIsPublished'
  BY <1>1, <1>2, <1>3, LockStepKeepsCommands DEF GoesOn, Early, Steps, StopSteps, ApplySteps,
     CommitSteps, FitsItsStep
<1>5. RootTypeOK'
  BY <1>1, <1>2, <1>3, <1>f, DirtyJournal DEF StopDirty, RootTypeOK, GoesOn, Moves, Leaves,
     durable, runtime
<1>6. JournalIsTrue'
  BY <1>1, <1>3, DirtyJournal DEF StopDirty, JournalIsTrue, RootTypeOK, durable, runtime
<1>7. HolderKnowsTheJournal'
  BY <1>1, <1>2, <1>3, DirtyJournal DEF HolderKnowsTheJournal, GoesOn, Moves, Leaves, Steps,
     StopSteps, ApplySteps, CommitSteps, RootTypeOK, durable, runtime
<1>8. StoppedStaysStopped'
  BY <1>1, <1>2, <1>3, DirtyJournal DEF StopDirty, StoppedStaysStopped, Absent, GoesOn, Moves,
     Leaves, RootTypeOK, durable, runtime
<1>9. StartableIsKnown'
  BY <1>1, <1>2, <1>3, DirtyJournal DEF StopDirty, StartableIsKnown, StoppedStaysStopped, Absent,
     Capturing, JournalIsTrue, RootTypeOK, durable, runtime
<1>10. UncommittedHasTimer'
  BY <1>1, <1>2, <1>3 DEF StopDirty, UncommittedHasTimer, StartableIsKnown, StoppedStaysStopped,
     Absent, Capturing, GoesOn, Moves, Leaves, RootTypeOK, durable, runtime
<1> QED BY <1>4, <1>5, <1>6, <1>7, <1>8, <1>9, <1>10

\* stopLocked: disable --now, whole or in part.
LEMMA StopDisableKeeps == ASSUME RootInv, StopDisable PROVE RootInv'
<1> USE DEF RootInv
<1>1. Held /\ holder \in Holder /\ holder.pc = "sDisable" /\ holder.then \in {"ok", "failed", "reblock"}
  BY Holding DEF StopDisable, Steps, StopSteps, ApplySteps, CommitSteps, At, Holder
<1>2. GoesOn /\ holder'.pc = "sConfirm" /\ holder'.then = holder.then
  BY <1>1, Going, Noting DEF StopDisable, Steps, StopSteps, ApplySteps, CommitSteps
<1>3. UNCHANGED <<queue, used, accepted, installed>> /\ journal'.id = journal.id
  BY DEF StopDisable, durable, runtime, RootTypeOK
<1>a. enabled' => enabled
  BY Zenon DEF StopDisable
<1>b. resources' => resources
  BY Zenon DEF StopDisable
<1>c. service' = service \/ service' = [service EXCEPT !.job = "off"]
  BY Zenon DEF StopDisable
<1>d. service'.gen = service.gen /\ (service'.job = "off" \/ service'.job = service.job)
  BY <1>c DEF RootTypeOK
<1>e. UNCHANGED journal
  BY DEF StopDisable
<1>f. faults' \in [crash : 0 .. MaxCrashes, fail : 0 .. MaxFailures]
  BY FaultsInBounds DEF StopDisable, NoFault
<1>4. FitsItsStep' /\ ApplyIsNew' /\ AnsweredIsPublished'
  BY <1>1, <1>2, <1>3, LockStepKeepsCommands DEF GoesOn, Early, Steps, StopSteps, ApplySteps,
     CommitSteps, FitsItsStep
<1>5. RootTypeOK'
  BY <1>1, <1>2, <1>3, <1>f DEF StopDisable, RootTypeOK, GoesOn, Moves, Leaves, durable, runtime
<1>6. JournalIsTrue'
  BY <1>1, <1>3 DEF StopDisable, JournalIsTrue, RootTypeOK, durable, runtime
<1>7. HolderKnowsTheJournal'
  BY <1>1, <1>2, <1>3 DEF HolderKnowsTheJournal, GoesOn, Moves, Leaves, Steps, StopSteps,
     ApplySteps, CommitSteps, RootTypeOK, durable, runtime
<1>8. StoppedStaysStopped'
  BY <1>1, <1>2, <1>a, <1>b, <1>d, <1>e DEF StoppedStaysStopped, Absent, GoesOn, Moves
<1>9. StartableIsKnown'
  BY <1>3, <1>a, <1>d, <1>e DEF StartableIsKnown, Capturing
<1>10. UncommittedHasTimer'
  BY <1>1, <1>2, <1>3, <1>d, <1>e DEF UncommittedHasTimer, StartableIsKnown, StoppedStaysStopped,
     Absent, Capturing, GoesOn, Moves, Leaves, RootTypeOK, durable, runtime
<1> QED BY <1>4, <1>5, <1>6, <1>7, <1>8, <1>9, <1>10

\* stopLocked: only a confirmed absence goes on towards the phase off.
LEMMA StopConfirmKeeps == ASSUME RootInv, StopConfirm PROVE RootInv'
<1> USE DEF RootInv
<1>1. Held /\ holder \in Holder /\ holder.pc = "sConfirm" /\ holder.then \in {"ok", "failed", "reblock"}
  BY Holding DEF StopConfirm, Steps, StopSteps, ApplySteps, CommitSteps, At, Holder
<1>2. \/ GoesOn /\ holder'.pc = "sMarker" /\ holder'.then = holder.then /\ Confirmed
      \/ Leaves("failed")
  BY <1>1, Going, Leaving DEF StopConfirm, Steps, StopSteps, ApplySteps, CommitSteps
<1>3. UNCHANGED <<queue, used, accepted, installed>> /\ journal'.id = journal.id
  BY DEF StopConfirm, durable, runtime, RootTypeOK
<1>f. faults' \in [crash : 0 .. MaxCrashes, fail : 0 .. MaxFailures]
  BY FaultsInBounds DEF StopConfirm, NoFault
<1>4. FitsItsStep' /\ ApplyIsNew' /\ AnsweredIsPublished'
  BY <1>1, <1>2, <1>3, LockStepKeepsCommands DEF GoesOn, Early, Steps, StopSteps, ApplySteps,
     CommitSteps, FitsItsStep
<1>5. RootTypeOK'
  BY <1>1, <1>2, <1>3, <1>f DEF StopConfirm, RootTypeOK, GoesOn, Moves, Leaves, durable, runtime
<1>6. JournalIsTrue'
  BY <1>1, <1>3 DEF StopConfirm, JournalIsTrue, RootTypeOK, durable, runtime
<1>7. HolderKnowsTheJournal'
  BY <1>1, <1>2, <1>3 DEF HolderKnowsTheJournal, GoesOn, Moves, Leaves, Steps, StopSteps,
     ApplySteps, CommitSteps, RootTypeOK, durable, runtime
<1>8. StoppedStaysStopped'
  BY <1>1, <1>2, <1>3 DEF StopConfirm, StoppedStaysStopped, Absent, GoesOn, Moves, Leaves,
     RootTypeOK, durable, runtime, Confirmed
<1>9. StartableIsKnown'
  BY <1>1, <1>2, <1>3 DEF StopConfirm, StartableIsKnown, StoppedStaysStopped, Absent, Capturing,
     JournalIsTrue, RootTypeOK, durable, runtime
<1>10. UncommittedHasTimer'
  BY <1>1, <1>2, <1>3 DEF StopConfirm, UncommittedHasTimer, StartableIsKnown, StoppedStaysStopped,
     Absent, Capturing, GoesOn, Moves, Leaves, RootTypeOK, durable, runtime
<1> QED BY <1>4, <1>5, <1>6, <1>7, <1>8, <1>9, <1>10

\* stopLocked: the runtime marker goes.
LEMMA StopMarkerKeeps == ASSUME RootInv, StopMarker PROVE RootInv'
<1> USE DEF RootInv
<1>1. Held /\ holder \in Holder /\ holder.pc = "sMarker" /\ holder.then \in {"ok", "failed", "reblock"}
  BY Holding DEF StopMarker, Steps, StopSteps, ApplySteps, CommitSteps, At, Holder
<1>2. GoesOn /\ holder'.pc = "sOff" /\ holder'.then = holder.then
  BY <1>1, Going DEF StopMarker, Steps, StopSteps, ApplySteps, CommitSteps
<1>3. UNCHANGED <<queue, used, accepted, installed>> /\ journal'.id = journal.id
  BY DEF StopMarker, durable, runtime, RootTypeOK
<1>f. faults' \in [crash : 0 .. MaxCrashes, fail : 0 .. MaxFailures]
  BY FaultsInBounds DEF StopMarker, NoFault
<1>4. FitsItsStep' /\ ApplyIsNew' /\ AnsweredIsPublished'
  BY <1>1, <1>2, <1>3, LockStepKeepsCommands DEF GoesOn, Early, Steps, StopSteps, ApplySteps,
     CommitSteps, FitsItsStep
<1>5. RootTypeOK'
  BY <1>1, <1>2, <1>3, <1>f DEF StopMarker, RootTypeOK, GoesOn, Moves, Leaves, durable, runtime
<1>6. JournalIsTrue'
  BY <1>1, <1>3 DEF StopMarker, JournalIsTrue, RootTypeOK, durable, runtime
<1>7. HolderKnowsTheJournal'
  BY <1>1, <1>2, <1>3 DEF HolderKnowsTheJournal, GoesOn, Moves, Leaves, Steps, StopSteps,
     ApplySteps, CommitSteps, RootTypeOK, durable, runtime
<1>8. StoppedStaysStopped'
  BY <1>1, <1>2, <1>3 DEF StopMarker, StoppedStaysStopped, Absent, GoesOn, Moves, Leaves,
     RootTypeOK, durable, runtime
<1>9. StartableIsKnown'
  BY <1>1, <1>2, <1>3 DEF StopMarker, StartableIsKnown, StoppedStaysStopped, Absent, Capturing,
     JournalIsTrue, RootTypeOK, durable, runtime
<1>10. UncommittedHasTimer'
  BY <1>1, <1>2, <1>3 DEF StopMarker, UncommittedHasTimer, StartableIsKnown, StoppedStaysStopped,
     Absent, Capturing, GoesOn, Moves, Leaves, RootTypeOK, durable, runtime
<1> QED BY <1>4, <1>5, <1>6, <1>7, <1>8, <1>9, <1>10

\* stopLocked: the phase off is saved after the confirmation.
LEMMA StopOffKeeps == ASSUME RootInv, StopOff PROVE RootInv'
<1> USE DEF RootInv
<1>1. Held /\ holder \in Holder /\ holder.pc = "sOff" /\ holder.then \in {"ok", "failed", "reblock"}
  BY Holding DEF StopOff, Steps, StopSteps, ApplySteps, CommitSteps, At, Holder
<1>2. \/ GoesOn /\ holder'.pc = "sUnblock" /\ holder'.then = holder.then /\ journal'.phase = "off"
      \/ Leaves("failed") /\ UNCHANGED journal
  <2>1. [journal EXCEPT !.phase = "off"].phase = "off"
    BY DEF RootTypeOK
  <2> QED BY <1>1, <2>1, Going, Leaving DEF StopOff, Steps, StopSteps, ApplySteps, CommitSteps
<1>3. UNCHANGED <<queue, used, accepted, installed>> /\ journal'.id = journal.id
  BY DEF StopOff, durable, runtime, RootTypeOK
<1>f. faults' \in [crash : 0 .. MaxCrashes, fail : 0 .. MaxFailures]
  BY FaultsInBounds DEF StopOff, NoFault
<1>4. FitsItsStep' /\ ApplyIsNew' /\ AnsweredIsPublished'
  BY <1>1, <1>2, <1>3, LockStepKeepsCommands DEF GoesOn, Early, Steps, StopSteps, ApplySteps,
     CommitSteps, FitsItsStep
<1>5. RootTypeOK'
  BY <1>1, <1>2, <1>3, <1>f DEF StopOff, RootTypeOK, GoesOn, Moves, Leaves, durable, runtime
<1>6. JournalIsTrue'
  BY <1>1, <1>3 DEF StopOff, JournalIsTrue, RootTypeOK, durable, runtime
<1>7. HolderKnowsTheJournal'
  BY <1>1, <1>2, <1>3 DEF HolderKnowsTheJournal, GoesOn, Moves, Leaves, Steps, StopSteps,
     ApplySteps, CommitSteps, RootTypeOK, durable, runtime
<1>8. StoppedStaysStopped'
  BY <1>1, <1>2, <1>3 DEF StopOff, StoppedStaysStopped, Absent, GoesOn, Moves, Leaves, RootTypeOK,
     durable, runtime
<1>9. StartableIsKnown'
  BY <1>1, <1>2, <1>3 DEF StopOff, StartableIsKnown, StoppedStaysStopped, Absent, Capturing,
     JournalIsTrue, RootTypeOK, durable, runtime
<1>10. UncommittedHasTimer'
  BY <1>1, <1>2, <1>3 DEF StopOff, UncommittedHasTimer, StartableIsKnown, StoppedStaysStopped,
     Absent, Capturing, GoesOn, Moves, Leaves, RootTypeOK, durable, runtime
<1> QED BY <1>4, <1>5, <1>6, <1>7, <1>8, <1>9, <1>10

\* stopLocked: the last marker goes, and Apply or the caller goes on.
LEMMA StopUnblockKeeps == ASSUME RootInv, StopUnblock PROVE RootInv'
<1> USE DEF RootInv
<1>1. Held /\ holder \in Holder /\ holder.pc = "sUnblock" /\ holder.then \in {"ok", "failed", "reblock"}
  BY Holding DEF StopUnblock, Steps, StopSteps, ApplySteps, CommitSteps, At, Holder
<1>2. \/ GoesOn /\ holder'.pc = "reblock" /\ holder'.then = holder.then /\ holder.then = "reblock"
      \/ holder.cmd # "apply" /\ Leaves("ok")
      \/ Leaves("failed")
  <2>1. CASE holder.then = "reblock"
    BY <1>1, <2>1, Going DEF StopUnblock, Steps, StopSteps, ApplySteps, CommitSteps
  <2>2. CASE holder.then # "reblock"
    <3>1. Exit(holder.then) BY <2>2 DEF StopUnblock
    <3>2. Leaves(holder.then) BY <1>1, <2>2, <3>1, Leaving
    <3> QED BY <1>1, <2>2, <3>2 DEF FitsItsStep, StopSteps
  <2> QED BY <2>1, <2>2
<1>3. UNCHANGED <<queue, used, accepted, installed>> /\ journal'.id = journal.id
  BY DEF StopUnblock, durable, runtime, RootTypeOK
<1>f. faults' \in [crash : 0 .. MaxCrashes, fail : 0 .. MaxFailures]
  BY FaultsInBounds DEF StopUnblock, NoFault
<1>4. FitsItsStep' /\ ApplyIsNew' /\ AnsweredIsPublished'
  BY <1>1, <1>2, <1>3, LockStepKeepsCommands DEF GoesOn, Early, Steps, StopSteps, ApplySteps,
     CommitSteps, FitsItsStep
<1>5. RootTypeOK'
  <2>1. /\ holder' \in Holder \cup {Free}
        /\ reply' \in Reply
        /\ timer' \in [Tx -> {"none", "armed", "fired"}]
    BY <1>2, LockStepIsTyped
  <2>2. blocked' \in BOOLEAN
    BY DEF StopUnblock, RootTypeOK
  <2>3. UNCHANGED <<journal, enabled, installed, used, accepted, marker, service, resources, expired, queue>>
    BY DEF StopUnblock, runtime
  <2> QED BY <1>f, <2>1, <2>2, <2>3 DEF RootTypeOK
<1>6. JournalIsTrue'
  BY <1>1, <1>3 DEF StopUnblock, JournalIsTrue, RootTypeOK, durable, runtime
<1>7. HolderKnowsTheJournal'
  BY <1>1, <1>2, <1>3 DEF HolderKnowsTheJournal, GoesOn, Moves, Leaves, Steps, StopSteps,
     ApplySteps, CommitSteps, RootTypeOK, durable, runtime
<1>8. StoppedStaysStopped'
  BY <1>1, <1>2, <1>3 DEF StopUnblock, StoppedStaysStopped, Absent, GoesOn, Moves, Leaves,
     RootTypeOK, durable, runtime
<1>9. StartableIsKnown'
  BY <1>1, <1>2, <1>3 DEF StopUnblock, StartableIsKnown, StoppedStaysStopped, Absent, Capturing,
     JournalIsTrue, RootTypeOK, durable, runtime
<1>10. UncommittedHasTimer'
  BY <1>1, <1>2, <1>3 DEF StopUnblock, UncommittedHasTimer, StartableIsKnown, StoppedStaysStopped,
     Absent, Capturing, GoesOn, Moves, Leaves, RootTypeOK, durable, runtime
<1> QED BY <1>4, <1>5, <1>6, <1>7, <1>8, <1>9, <1>10

\* Apply prepares its candidate: nothing durable changes.
LEMMA PrepareKeeps == ASSUME RootInv,
         NEW step \in {"owner", "stage", "check", "probe"},
         NEW next \in {"stage", "check", "probe", "block"}, Prepare(step, next)
   PROVE RootInv'
<1> USE DEF RootInv
<1>1. Held /\ holder \in Holder /\ holder.pc = step /\ holder.then \in {"ok", "failed", "reblock"}
  BY Holding DEF Prepare, Steps, StopSteps, ApplySteps, CommitSteps, At, Holder
<1>2. \/ GoesOn /\ holder'.pc = next /\ holder'.then = holder.then
      \/ Leaves("failed")
  BY <1>1, Going, Leaving DEF Prepare, Steps, StopSteps, ApplySteps, CommitSteps
<1>3. UNCHANGED <<queue, used, accepted, installed>> /\ journal'.id = journal.id
  BY DEF Prepare, durable, runtime, RootTypeOK
<1>f. faults' \in [crash : 0 .. MaxCrashes, fail : 0 .. MaxFailures]
  BY FaultsInBounds DEF Prepare, NoFault
<1>4. FitsItsStep' /\ ApplyIsNew' /\ AnsweredIsPublished'
  BY <1>1, <1>2, <1>3, LockStepKeepsCommands DEF GoesOn, Early, Steps, StopSteps, ApplySteps,
     CommitSteps, FitsItsStep, ApplyIsNew
<1>5. RootTypeOK'
  BY <1>1, <1>2, <1>3, <1>f DEF Prepare, RootTypeOK, GoesOn, Moves, Leaves, durable, runtime
<1>6. JournalIsTrue'
  BY <1>1, <1>3 DEF Prepare, JournalIsTrue, RootTypeOK, durable, runtime
<1>7. HolderKnowsTheJournal'
  BY <1>1, <1>2, <1>3 DEF Prepare, HolderKnowsTheJournal, GoesOn, Moves, Leaves, Steps, StopSteps,
     ApplySteps, CommitSteps, RootTypeOK, durable, runtime
<1>8. StoppedStaysStopped'
  BY <1>1, <1>2, <1>3 DEF Prepare, StoppedStaysStopped, Absent, GoesOn, Moves, Leaves, RootTypeOK,
     durable, runtime
<1>9. StartableIsKnown'
  BY <1>1, <1>2, <1>3 DEF Prepare, StartableIsKnown, StoppedStaysStopped, Absent, Capturing,
     JournalIsTrue, RootTypeOK, durable, runtime
<1>10. UncommittedHasTimer'
  BY <1>1, <1>2, <1>3 DEF Prepare, UncommittedHasTimer, StartableIsKnown, StoppedStaysStopped,
     Absent, Capturing, GoesOn, Moves, Leaves, RootTypeOK, durable, runtime
<1> QED BY <1>4, <1>5, <1>6, <1>7, <1>8, <1>9, <1>10

\* Apply blocks, before each of its two saves.
LEMMA ApplyBlockKeeps == ASSUME RootInv, NEW step, NEW next, ApplyBlock(step, next),
         \/ step = "block" /\ next = "pend"
         \/ step = "reblock" /\ next = "repend"
   PROVE RootInv'
<1> USE DEF RootInv
<1>1. Held /\ holder \in Holder /\ holder.pc = step /\ holder.then \in {"ok", "failed", "reblock"}
  BY Holding DEF ApplyBlock, Steps, StopSteps, ApplySteps, CommitSteps, At, Holder
<1>2. \/ GoesOn /\ holder'.pc = next /\ holder'.then = holder.then
      \/ Leaves("failed")
  BY <1>1, Going, Leaving DEF ApplyBlock, Steps, StopSteps, ApplySteps, CommitSteps
<1>3. UNCHANGED <<queue, used, accepted, installed>> /\ journal'.id = journal.id
  BY DEF ApplyBlock, durable, runtime, RootTypeOK
<1>f. faults' \in [crash : 0 .. MaxCrashes, fail : 0 .. MaxFailures]
  BY FaultsInBounds DEF ApplyBlock, NoFault
<1>4. FitsItsStep' /\ ApplyIsNew' /\ AnsweredIsPublished'
  BY <1>1, <1>2, <1>3, LockStepKeepsCommands DEF GoesOn, Early, Steps, StopSteps, ApplySteps,
     CommitSteps, FitsItsStep, ApplyIsNew
<1>5. RootTypeOK'
  <2>1. /\ holder' \in Holder \cup {Free}
        /\ reply' \in Reply
        /\ timer' \in [Tx -> {"none", "armed", "fired"}]
    BY <1>2, LockStepIsTyped
  <2>2. blocked' \in BOOLEAN
    BY DEF ApplyBlock, RootTypeOK
  <2>3. UNCHANGED <<journal, enabled, installed, used, accepted, marker, service, resources, expired, queue>>
    BY DEF ApplyBlock, runtime
  <2> QED BY <1>f, <2>1, <2>2, <2>3 DEF RootTypeOK
<1>6. JournalIsTrue'
  BY <1>1, <1>3 DEF ApplyBlock, JournalIsTrue, RootTypeOK, durable, runtime
<1>7. HolderKnowsTheJournal'
  BY <1>1, <1>2, <1>3 DEF ApplyBlock, HolderKnowsTheJournal, GoesOn, Moves, Leaves, Steps,
     StopSteps, ApplySteps, CommitSteps, RootTypeOK, durable, runtime
<1>8. StoppedStaysStopped'
  BY <1>1, <1>2, <1>3 DEF ApplyBlock, StoppedStaysStopped, Absent, GoesOn, Moves, Leaves,
     RootTypeOK, durable, runtime
<1>9. StartableIsKnown'
  BY <1>1, <1>2, <1>3 DEF ApplyBlock, StartableIsKnown, StoppedStaysStopped, Absent, Capturing,
     JournalIsTrue, RootTypeOK, durable, runtime
<1>10. UncommittedHasTimer'
  BY <1>1, <1>2, <1>3 DEF ApplyBlock, UncommittedHasTimer, StartableIsKnown, StoppedStaysStopped,
     Absent, Capturing, GoesOn, Moves, Leaves, RootTypeOK, durable, runtime
<1> QED BY <1>4, <1>5, <1>6, <1>7, <1>8, <1>9, <1>10

\* Apply arms its recovery unit before it stops anything.
LEMMA ApplyArmKeeps == ASSUME RootInv, ApplyArm PROVE RootInv'
<1> USE DEF RootInv
<1>1. Held /\ holder \in Holder /\ holder.pc = "arm" /\ holder.then \in {"ok", "failed", "reblock"}
  BY Holding DEF ApplyArm, GoesOn, Steps, StopSteps, ApplySteps, CommitSteps, At, Holder
<1>2. Moves /\ holder'.pc = "sBlock" /\ holder'.then \in {"reblock", "failed"}
  BY <1>1, Aborting, Arming DEF ApplyArm, GoesOn, Steps, StopSteps, ApplySteps, CommitSteps
<1>3. UNCHANGED <<queue, used, accepted, installed>> /\ journal'.id = journal.id
  BY DEF ApplyArm, GoesOn, durable, runtime, RootTypeOK
<1>f. faults' \in [crash : 0 .. MaxCrashes, fail : 0 .. MaxFailures]
  BY FaultsInBounds DEF ApplyArm, GoesOn, NoFault
<1>4. FitsItsStep' /\ ApplyIsNew' /\ AnsweredIsPublished'
  BY <1>1, <1>2, <1>3, LockStepKeepsCommands DEF GoesOn, Early, Steps, StopSteps, ApplySteps,
     CommitSteps, FitsItsStep
<1>5. RootTypeOK'
  BY <1>1, <1>2, <1>3, <1>f DEF ApplyArm, GoesOn, RootTypeOK, GoesOn, Moves, Leaves, durable,
     runtime, Abort
<1>6. JournalIsTrue'
  BY <1>1, <1>3 DEF ApplyArm, GoesOn, JournalIsTrue, RootTypeOK, durable, runtime
<1>7. HolderKnowsTheJournal'
  BY <1>1, <1>2, <1>3 DEF GoesOn, HolderKnowsTheJournal, GoesOn, Moves, Leaves, Steps, StopSteps,
     ApplySteps, CommitSteps, RootTypeOK, durable, runtime, Pending
<1>8. StoppedStaysStopped'
  BY <1>1, <1>2, <1>3 DEF ApplyArm, GoesOn, StoppedStaysStopped, Absent, GoesOn, Moves, Leaves,
     RootTypeOK, durable, runtime
<1>9. StartableIsKnown'
  BY <1>1, <1>2, <1>3 DEF ApplyArm, GoesOn, StartableIsKnown, StoppedStaysStopped, Absent,
     Capturing, JournalIsTrue, RootTypeOK, durable, runtime
<1>10. UncommittedHasTimer'
  BY <1>1, <1>2, <1>3 DEF ApplyArm, GoesOn, UncommittedHasTimer, StartableIsKnown,
     StoppedStaysStopped, Absent, Capturing, GoesOn, Moves, Leaves, RootTypeOK, durable, runtime,
     Abort
<1> QED BY <1>4, <1>5, <1>6, <1>7, <1>8, <1>9, <1>10

\* Apply writes the unit, or gives up at its deadline.
LEMMA ApplyUnitKeeps == ASSUME RootInv, ApplyUnit PROVE RootInv'
<1> USE DEF RootInv
<1>1. Held /\ holder \in Holder /\ holder.pc = "unit" /\ holder.then \in {"ok", "failed", "reblock"}
  BY Holding DEF ApplyUnit, Steps, StopSteps, ApplySteps, CommitSteps, At, Holder
<1>2. \/ GoesOn /\ holder'.pc = "activate" /\ holder'.then = holder.then
      \/ GoesOn /\ holder'.pc = "sBlock" /\ holder'.then = "failed"
  BY <1>1, Going, Aborting DEF ApplyUnit, Steps, StopSteps, ApplySteps, CommitSteps
<1>3. UNCHANGED <<queue, used, accepted, installed>> /\ journal'.id = journal.id
  BY DEF ApplyUnit, durable, runtime, RootTypeOK
<1>f. faults' \in [crash : 0 .. MaxCrashes, fail : 0 .. MaxFailures]
  BY FaultsInBounds DEF ApplyUnit, NoFault
<1>4. FitsItsStep' /\ ApplyIsNew' /\ AnsweredIsPublished'
  BY <1>1, <1>2, <1>3, LockStepKeepsCommands DEF GoesOn, Early, Steps, StopSteps, ApplySteps,
     CommitSteps, FitsItsStep
<1>5. RootTypeOK'
  BY <1>1, <1>2, <1>3, <1>f DEF ApplyUnit, RootTypeOK, GoesOn, Moves, Leaves, durable, runtime
<1>6. JournalIsTrue'
  BY <1>1, <1>3 DEF ApplyUnit, JournalIsTrue, RootTypeOK, durable, runtime
<1>7. HolderKnowsTheJournal'
  BY <1>1, <1>2, <1>3 DEF ApplyUnit, HolderKnowsTheJournal, GoesOn, Moves, Leaves, Steps,
     StopSteps, ApplySteps, CommitSteps, RootTypeOK, durable, runtime
<1>8. StoppedStaysStopped'
  BY <1>1, <1>2, <1>3 DEF ApplyUnit, StoppedStaysStopped, Absent, GoesOn, Moves, Leaves,
     RootTypeOK, durable, runtime
<1>9. StartableIsKnown'
  BY <1>1, <1>2, <1>3 DEF ApplyUnit, StartableIsKnown, StoppedStaysStopped, Absent, Capturing,
     JournalIsTrue, RootTypeOK, durable, runtime
<1>10. UncommittedHasTimer'
  BY <1>1, <1>2, <1>3 DEF ApplyUnit, UncommittedHasTimer, StartableIsKnown, StoppedStaysStopped,
     Absent, Capturing, GoesOn, Moves, Leaves, RootTypeOK, durable, runtime
<1> QED BY <1>4, <1>5, <1>6, <1>7, <1>8, <1>9, <1>10

\* Apply sets the runtime marker.
LEMMA ApplyActivateKeeps == ASSUME RootInv, ApplyActivate PROVE RootInv'
<1> USE DEF RootInv
<1>1. Held /\ holder \in Holder /\ holder.pc = "activate" /\ holder.then \in {"ok", "failed", "reblock"}
  BY Holding DEF ApplyActivate, Steps, StopSteps, ApplySteps, CommitSteps, At, Holder
<1>2. GoesOn /\ holder'.pc = "start" /\ holder'.then = holder.then
  BY <1>1, Going DEF ApplyActivate, Steps, StopSteps, ApplySteps, CommitSteps
<1>3. UNCHANGED <<queue, used, accepted, installed>> /\ journal'.id = journal.id
  BY DEF ApplyActivate, durable, runtime, RootTypeOK
<1>f. faults' \in [crash : 0 .. MaxCrashes, fail : 0 .. MaxFailures]
  BY FaultsInBounds DEF ApplyActivate, NoFault
<1>4. FitsItsStep' /\ ApplyIsNew' /\ AnsweredIsPublished'
  BY <1>1, <1>2, <1>3, LockStepKeepsCommands DEF GoesOn, Early, Steps, StopSteps, ApplySteps,
     CommitSteps, FitsItsStep
<1>5. RootTypeOK'
  BY <1>1, <1>2, <1>3, <1>f DEF ApplyActivate, RootTypeOK, GoesOn, Moves, Leaves, durable, runtime
<1>6. JournalIsTrue'
  BY <1>1, <1>3 DEF ApplyActivate, JournalIsTrue, RootTypeOK, durable, runtime
<1>7. HolderKnowsTheJournal'
  BY <1>1, <1>2, <1>3 DEF ApplyActivate, HolderKnowsTheJournal, GoesOn, Moves, Leaves, Steps,
     StopSteps, ApplySteps, CommitSteps, RootTypeOK, durable, runtime
<1>8. StoppedStaysStopped'
  BY <1>1, <1>2, <1>3 DEF ApplyActivate, StoppedStaysStopped, Absent, GoesOn, Moves, Leaves,
     RootTypeOK, durable, runtime
<1>9. StartableIsKnown'
  BY <1>1, <1>2, <1>3 DEF ApplyActivate, StartableIsKnown, StoppedStaysStopped, Absent, Capturing,
     JournalIsTrue, RootTypeOK, durable, runtime
<1>10. UncommittedHasTimer'
  BY <1>1, <1>2, <1>3 DEF ApplyActivate, UncommittedHasTimer, StartableIsKnown,
     StoppedStaysStopped, Absent, Capturing, GoesOn, Moves, Leaves, RootTypeOK, durable, runtime
<1> QED BY <1>4, <1>5, <1>6, <1>7, <1>8, <1>9, <1>10

\* Apply starts what it published, from a confirmed absence.
LEMMA ApplyStartKeeps == ASSUME RootInv, ApplyStart PROVE RootInv'
<1> USE DEF RootInv
<1>1. Held /\ holder \in Holder /\ holder.pc = "start" /\ holder.then \in {"ok", "failed", "reblock"}
  BY Holding DEF ApplyStart, Steps, StopSteps, ApplySteps, CommitSteps, At, Holder
<1>2. \/ GoesOn /\ holder'.pc = "verify" /\ holder'.then = holder.then
      \/ GoesOn /\ holder'.pc = "sBlock" /\ holder'.then = "failed" /\ UNCHANGED service
  BY <1>1, Going, Aborting DEF ApplyStart, Steps, StopSteps, ApplySteps, CommitSteps
<1>3. UNCHANGED <<queue, used, accepted, installed>> /\ journal'.id = journal.id
  BY DEF ApplyStart, durable, runtime, RootTypeOK
<1>f. faults' \in [crash : 0 .. MaxCrashes, fail : 0 .. MaxFailures]
  BY FaultsInBounds DEF ApplyStart, NoFault
<1>4. FitsItsStep' /\ ApplyIsNew' /\ AnsweredIsPublished'
  BY <1>1, <1>2, <1>3, LockStepKeepsCommands DEF GoesOn, Early, Steps, StopSteps, ApplySteps,
     CommitSteps, FitsItsStep
<1>5. RootTypeOK'
  BY <1>1, <1>2, <1>3, <1>f DEF ApplyStart, RootTypeOK, GoesOn, Moves, Leaves, durable, runtime
<1>6. JournalIsTrue'
  BY <1>1, <1>3 DEF ApplyStart, JournalIsTrue, RootTypeOK, durable, runtime
<1>7. HolderKnowsTheJournal'
  BY <1>1, <1>2, <1>3 DEF ApplyStart, HolderKnowsTheJournal, GoesOn, Moves, Leaves, Steps,
     StopSteps, ApplySteps, CommitSteps, RootTypeOK, durable, runtime
<1>8. StoppedStaysStopped'
  BY <1>1, <1>2, <1>3 DEF ApplyStart, StoppedStaysStopped, Absent, GoesOn, Moves, Leaves,
     RootTypeOK, durable, runtime, HolderKnowsTheJournal, Pending
<1>9. StartableIsKnown'
  BY <1>1, <1>2, <1>3 DEF ApplyStart, StartableIsKnown, StoppedStaysStopped, Absent, Capturing,
     JournalIsTrue, RootTypeOK, durable, runtime, HolderKnowsTheJournal, Pending, FitsItsStep,
     ApplySteps
<1>10. UncommittedHasTimer'
  BY <1>1, <1>2, <1>3 DEF ApplyStart, UncommittedHasTimer, StartableIsKnown, StoppedStaysStopped,
     Absent, Capturing, GoesOn, Moves, Leaves, RootTypeOK, durable, runtime
<1> QED BY <1>4, <1>5, <1>6, <1>7, <1>8, <1>9, <1>10

\* Apply answers when capture works.
LEMMA ApplyVerifyKeeps == ASSUME RootInv, ApplyVerify PROVE RootInv'
<1> USE DEF RootInv
<1>1. Held /\ holder \in Holder /\ holder.pc = "verify" /\ holder.then \in {"ok", "failed", "reblock"}
  BY Holding DEF ApplyVerify, Steps, StopSteps, ApplySteps, CommitSteps, At, Holder
<1>2. \/ Leaves("ok")
      \/ GoesOn /\ holder'.pc = "sBlock" /\ holder'.then = "failed"
  BY <1>1, Leaving, Aborting DEF ApplyVerify, Steps, StopSteps, ApplySteps, CommitSteps
<1>3. UNCHANGED <<queue, used, accepted, installed>> /\ journal'.id = journal.id
  BY DEF ApplyVerify, durable, runtime, RootTypeOK
<1>f. faults' \in [crash : 0 .. MaxCrashes, fail : 0 .. MaxFailures]
  BY FaultsInBounds DEF ApplyVerify, NoFault
<1>4. FitsItsStep' /\ ApplyIsNew' /\ AnsweredIsPublished'
  BY <1>1, <1>2, <1>3, LockStepKeepsCommands DEF GoesOn, Early, Steps, StopSteps, ApplySteps,
     CommitSteps, FitsItsStep, HolderKnowsTheJournal
<1>5. RootTypeOK'
  BY <1>1, <1>2, <1>3, <1>f DEF ApplyVerify, RootTypeOK, GoesOn, Moves, Leaves, durable, runtime
<1>6. JournalIsTrue'
  BY <1>1, <1>3 DEF ApplyVerify, JournalIsTrue, RootTypeOK, durable, runtime
<1>7. HolderKnowsTheJournal'
  BY <1>1, <1>2, <1>3 DEF HolderKnowsTheJournal, GoesOn, Moves, Leaves, Steps, StopSteps,
     ApplySteps, CommitSteps, RootTypeOK, durable, runtime
<1>8. StoppedStaysStopped'
  BY <1>1, <1>2, <1>3 DEF ApplyVerify, StoppedStaysStopped, Absent, GoesOn, Moves, Leaves,
     RootTypeOK, durable, runtime
<1>9. StartableIsKnown'
  BY <1>1, <1>2, <1>3 DEF ApplyVerify, StartableIsKnown, StoppedStaysStopped, Absent, Capturing,
     JournalIsTrue, RootTypeOK, durable, runtime
<1>10. UncommittedHasTimer'
  BY <1>1, <1>2, <1>3 DEF ApplyVerify, UncommittedHasTimer, StartableIsKnown, StoppedStaysStopped,
     Absent, Capturing, GoesOn, Moves, Leaves, RootTypeOK, durable, runtime, FitsItsStep,
     ApplySteps
<1> QED BY <1>4, <1>5, <1>6, <1>7, <1>8, <1>9, <1>10

\* Commit enables at boot what its journal names and the disk holds.
LEMMA CommitEnableKeeps == ASSUME RootInv, CommitEnable PROVE RootInv'
<1> USE DEF RootInv
<1>1. Held /\ holder \in Holder /\ holder.pc = "enable" /\ holder.then \in {"ok", "failed", "reblock"}
  BY Holding DEF CommitEnable, Steps, StopSteps, ApplySteps, CommitSteps, At, Holder
<1>2. \/ GoesOn /\ holder'.pc = "save" /\ holder'.then = holder.then
      \/ Leaves("failed") /\ UNCHANGED enabled
  BY <1>1, Going, Leaving DEF CommitEnable, Steps, StopSteps, ApplySteps, CommitSteps
<1>3. UNCHANGED <<queue, used, accepted, installed>> /\ journal'.id = journal.id
  BY DEF CommitEnable, durable, runtime, RootTypeOK
<1>f. faults' \in [crash : 0 .. MaxCrashes, fail : 0 .. MaxFailures]
  BY FaultsInBounds DEF CommitEnable, NoFault
<1>4. FitsItsStep' /\ ApplyIsNew' /\ AnsweredIsPublished'
  BY <1>1, <1>2, <1>3, LockStepKeepsCommands DEF GoesOn, Early, Steps, StopSteps, ApplySteps,
     CommitSteps, FitsItsStep
<1>5. RootTypeOK'
  <2>1. /\ holder' \in Holder \cup {Free}
        /\ reply' \in Reply
        /\ timer' \in [Tx -> {"none", "armed", "fired"}]
    BY <1>2, LockStepIsTyped
  <2>2. enabled' \in BOOLEAN
    BY DEF CommitEnable, RootTypeOK
  <2>3. UNCHANGED <<journal, blocked, installed, used, accepted, marker, service, resources, expired, queue>>
    BY DEF CommitEnable, runtime
  <2> QED BY <1>f, <2>1, <2>2, <2>3 DEF RootTypeOK
<1>6. JournalIsTrue'
  BY <1>1, <1>3 DEF CommitEnable, JournalIsTrue, RootTypeOK, durable, runtime
<1>7. HolderKnowsTheJournal'
  BY <1>1, <1>2, <1>3 DEF CommitEnable, HolderKnowsTheJournal, GoesOn, Moves, Leaves, Steps,
     StopSteps, ApplySteps, CommitSteps, RootTypeOK, durable, runtime
<1>8. StoppedStaysStopped'
  BY <1>1, <1>2, <1>3 DEF CommitEnable, StoppedStaysStopped, Absent, GoesOn, Moves, Leaves,
     RootTypeOK, durable, runtime, HolderKnowsTheJournal
<1>9. StartableIsKnown'
  BY <1>1, <1>2, <1>3 DEF CommitEnable, StartableIsKnown, StoppedStaysStopped, Absent, Capturing,
     JournalIsTrue, RootTypeOK, durable, runtime, HolderKnowsTheJournal
<1>10. UncommittedHasTimer'
  BY <1>1, <1>2, <1>3 DEF CommitEnable, UncommittedHasTimer, StartableIsKnown,
     StoppedStaysStopped, Absent, Capturing, GoesOn, Moves, Leaves, RootTypeOK, durable, runtime
<1> QED BY <1>4, <1>5, <1>6, <1>7, <1>8, <1>9, <1>10

\* Apply saves its journal, under an identity that was never committed.
LEMMA ApplyPendKeeps ==
  ASSUME RootInv, NEW step, NEW next, ApplyPend(step, next),
         \/ step = "pend" /\ next = "arm"
         \/ step = "repend" /\ next = "rename"
  PROVE  RootInv'
<1> USE DEF RootInv
<1>1. Held /\ holder \in Holder /\ holder.pc = step /\ holder.cmd = "apply" /\ holder.tx \in Tx
  BY Holding DEF ApplyPend, Steps, StopSteps, ApplySteps, CommitSteps, At, FitsItsStep
<1>2. \/ journal' = Pending(holder.tx) /\ GoesOn /\ holder'.pc = next /\ holder'.then = holder.then
      \/ journal' = journal /\ Leaves("failed")
  BY <1>1, Going, Leaving DEF ApplyPend, Steps, StopSteps, ApplySteps, CommitSteps
<1>3. UNCHANGED <<queue, used, accepted, installed, service, enabled, resources, marker, blocked, expired>>
  BY DEF ApplyPend, runtime
<1>f. faults' \in [crash : 0 .. MaxCrashes, fail : 0 .. MaxFailures]
  BY FaultsInBounds DEF ApplyPend, NoFault
<1>j. journal' \in [id : TxId, committed : BOOLEAN,
                    phase : {"none", "pending", "active", "off", "dirty"}]
  <2>1. CASE journal' = journal
    BY <2>1 DEF RootTypeOK
  <2>2. CASE journal' = Pending(holder.tx)
    BY <2>2, <1>1 DEF Pending, TxId
  <2> QED BY <1>2, <2>1, <2>2
<1>n. holder.tx \in used \ accepted
  BY <1>1 DEF ApplyIsNew
<1>4. FitsItsStep'
  BY <1>1, <1>2, <1>3 DEF FitsItsStep, GoesOn, Moves, Leaves, ApplySteps, CommitSteps, StopSteps
<1>5. RootTypeOK'
  BY <1>1, <1>2, <1>3, <1>f, <1>j DEF RootTypeOK, GoesOn, Moves, Leaves
<1>6. JournalIsTrue'
  BY <1>1, <1>2, <1>3, <1>n DEF JournalIsTrue, Pending
<1>7. HolderKnowsTheJournal'
  BY <1>1, <1>2, <1>3 DEF HolderKnowsTheJournal, GoesOn, Moves, Leaves, Pending, StopSteps
<1>8. StoppedStaysStopped'
  BY <1>1, <1>2, <1>3 DEF StoppedStaysStopped, Absent, GoesOn, Moves, Leaves, Pending
<1>9. StartableIsKnown'
  <2>1. CASE journal' = journal
    BY <2>1, <1>3 DEF StartableIsKnown, Capturing
  <2>2. CASE step = "pend"
    BY <2>2, <1>1, <1>3 DEF StartableIsKnown, Capturing, HolderKnowsTheJournal
  <2>3. CASE step = "repend"
    BY <2>3, <1>1, <1>3 DEF StartableIsKnown, Capturing, StoppedStaysStopped, Absent
  <2> QED BY <1>2, <2>1, <2>2, <2>3
<1>10. UncommittedHasTimer'
  <2>1. \A t \in Tx : timer'[t] = timer[t]
    BY <1>1, <1>2 DEF GoesOn, Leaves
  <2> QED BY <2>1, <1>3 DEF UncommittedHasTimer, StartableIsKnown, Capturing
<1>11. ApplyIsNew' /\ AnsweredIsPublished'
  <2>1. CASE journal'.id = journal.id
    <3>1. next \notin Early /\ next \in ApplySteps
      BY DEF Early, ApplySteps
    <3> QED BY <2>1, <3>1, <1>1, <1>2, <1>3, LockStepKeepsCommands DEF GoesOn, StopSteps,
        ApplySteps, CommitSteps, FitsItsStep
  <2>2. CASE journal'.id # journal.id
    <3>1. journal'.id = holder.tx /\ GoesOn /\ holder'.pc = next
      BY <2>2, <1>2 DEF Pending
    <3>2. ApplyIsNew'
      BY <3>1, <1>1, <1>3 DEF ApplyIsNew, GoesOn, Moves
    <3>3. AnsweredIsPublished'
      BY <3>1, <1>1, <1>3 DEF ApplyIsNew, AnsweredIsPublished, Published, GoesOn, Moves
    <3> QED BY <3>2, <3>3
  <2> QED BY <2>1, <2>2
<1> QED BY <1>4, <1>5, <1>6, <1>7, <1>8, <1>9, <1>10, <1>11

\* Apply publishes in two renames while nothing can start.
LEMMA ApplyRenameKeeps == ASSUME RootInv, ApplyRename PROVE RootInv'
<1> USE DEF RootInv
<1>1. /\ Held /\ holder \in Holder /\ holder.pc = "rename" /\ holder.cmd = "apply" /\ holder.tx \in Tx
      /\ journal = Pending(holder.tx) /\ Absent
  BY Holding DEF ApplyRename, Steps, StopSteps, ApplySteps, CommitSteps, At, FitsItsStep,
     HolderKnowsTheJournal, StoppedStaysStopped
<1>2. /\ GoesOn
      /\ \/ holder'.pc = "rename" /\ installed' = Partial /\ holder'.then = holder.then
         \/ holder'.pc = "unit" /\ installed' = holder.tx /\ holder'.then = holder.then
         \/ holder'.pc = "sBlock" /\ holder'.then = "failed" /\ installed' = installed
  BY <1>1, Going, Aborting DEF ApplyRename, Steps, StopSteps, ApplySteps, CommitSteps
<1>3. UNCHANGED <<queue, used, accepted, journal, service, enabled, resources, marker, blocked, expired>>
  BY DEF ApplyRename, runtime
<1>f. faults' \in [crash : 0 .. MaxCrashes, fail : 0 .. MaxFailures]
  BY FaultsInBounds DEF ApplyRename, NoFault
<1>4. FitsItsStep'
  BY <1>1, <1>2, <1>3 DEF FitsItsStep, GoesOn, Moves, ApplySteps, CommitSteps, StopSteps
<1>5. RootTypeOK'
  BY <1>1, <1>2, <1>3, <1>f DEF RootTypeOK, GoesOn, Moves, Generation
<1>6. JournalIsTrue'
  BY <1>1, <1>3 DEF JournalIsTrue, Pending
<1>7. HolderKnowsTheJournal'
  BY <1>1, <1>2, <1>3 DEF HolderKnowsTheJournal, GoesOn, Moves, Pending, StopSteps
<1>8. StoppedStaysStopped'
  BY <1>1, <1>3 DEF StoppedStaysStopped, Absent
<1>9. StartableIsKnown'
  BY <1>1, <1>3 DEF StartableIsKnown, Capturing, Absent
<1>10. UncommittedHasTimer'
  BY <1>2, <1>3 DEF UncommittedHasTimer, Capturing, GoesOn
<1>11. ApplyIsNew'
  BY <1>1, <1>2, <1>3 DEF ApplyIsNew, GoesOn, Moves
<1>12. AnsweredIsPublished'
  BY <1>1, <1>2, <1>3 DEF ApplyIsNew, AnsweredIsPublished, Published, GoesOn, Moves, Pending
<1> QED BY <1>4, <1>5, <1>6, <1>7, <1>8, <1>9, <1>10, <1>11, <1>12

\* Commit saves the commit fact.
LEMMA CommitSaveKeeps == ASSUME RootInv, CommitSave PROVE RootInv'
<1> USE DEF RootInv
<1>1. /\ Held /\ holder \in Holder /\ holder.pc = "save" /\ holder.cmd = "commit" /\ holder.tx \in Tx
      /\ journal.phase = "pending" /\ journal.id = holder.tx /\ installed = holder.tx
      /\ journal \in [id : TxId, committed : BOOLEAN,
                      phase : {"none", "pending", "active", "off", "dirty"}]
  BY Holding DEF CommitSave, Steps, StopSteps, ApplySteps, CommitSteps, At, FitsItsStep,
     HolderKnowsTheJournal, RootTypeOK
<1>2. \/ /\ journal' = [journal EXCEPT !.phase = "active", !.committed = TRUE]
         /\ accepted' = accepted \cup {holder.tx}
         /\ GoesOn /\ holder'.pc = "disarm" /\ holder'.then = holder.then
      \/ UNCHANGED <<journal, accepted>> /\ Leaves("failed")
  BY <1>1, Going, Leaving DEF CommitSave, Steps, StopSteps, ApplySteps, CommitSteps
<1>3. UNCHANGED <<queue, used, installed, service, enabled, resources, marker, blocked, expired>>
  BY DEF CommitSave, runtime
<1>f. faults' \in [crash : 0 .. MaxCrashes, fail : 0 .. MaxFailures]
  BY FaultsInBounds DEF CommitSave, NoFault
<1>s. CASE GoesOn
  <2>1. /\ journal'.phase = "active" /\ journal'.committed /\ journal'.id = holder.tx
        /\ accepted' = accepted \cup {holder.tx} /\ holder'.pc = "disarm" /\ holder'.then = holder.then
        /\ journal' \in [id : TxId, committed : BOOLEAN,
                         phase : {"none", "pending", "active", "off", "dirty"}]
    BY <1>s, <1>1, <1>2 DEF GoesOn, Moves, Leaves
  <2>2. holder.tx \in used
    BY <1>1, TunAssumption DEF JournalIsTrue
  <2>4. FitsItsStep'
    BY <1>s, <2>1, <1>1, <1>3 DEF FitsItsStep, GoesOn, Moves, ApplySteps, CommitSteps, StopSteps
  <2>5. RootTypeOK'
    BY <1>s, <2>1, <1>1, <1>3, <1>f DEF RootTypeOK, GoesOn, Moves
  <2>6. JournalIsTrue'
    BY <2>1, <2>2, <1>1, <1>3 DEF JournalIsTrue
  <2>7. HolderKnowsTheJournal'
    BY <1>s, <2>1, <1>1 DEF HolderKnowsTheJournal, GoesOn, Moves, StopSteps
  <2>8. StoppedStaysStopped'
    BY <1>s, <2>1, <1>3 DEF StoppedStaysStopped, Absent
  <2>9. StartableIsKnown'
    BY <2>1, <1>1, <1>3 DEF StartableIsKnown, Capturing
  <2>10. UncommittedHasTimer'
    BY <1>s, <2>1, <1>3 DEF UncommittedHasTimer, Capturing, GoesOn
  <2>11. ApplyIsNew'
    BY <1>s, <2>1, <1>1, <1>3 DEF ApplyIsNew, GoesOn, Moves
  <2>12. AnsweredIsPublished'
    BY <1>s, <2>1, <1>1, <1>3 DEF AnsweredIsPublished, Published, GoesOn, Moves
  <2> QED BY <2>4, <2>5, <2>6, <2>7, <2>8, <2>9, <2>10, <2>11, <2>12
<1>u. CASE UNCHANGED <<journal, accepted>> /\ Leaves("failed")
  <2>1. FitsItsStep' /\ ApplyIsNew' /\ AnsweredIsPublished'
    BY <1>u, <1>3, LockStepKeepsCommands
  <2>2. RootTypeOK'
    BY <1>u, <1>3, <1>f DEF RootTypeOK, Leaves
  <2>3. JournalIsTrue'
    BY <1>u, <1>3 DEF JournalIsTrue
  <2>4. HolderKnowsTheJournal' /\ StoppedStaysStopped'
    BY <1>u, <1>3 DEF HolderKnowsTheJournal, StoppedStaysStopped, Absent, Leaves
  <2>5. StartableIsKnown'
    BY <1>u, <1>3 DEF StartableIsKnown, Capturing
  <2>6. UncommittedHasTimer'
    BY <1>u, <1>1, <1>3 DEF UncommittedHasTimer, Capturing, Leaves, RootTypeOK
  <2> QED BY <2>1, <2>2, <2>3, <2>4, <2>5, <2>6
<1> QED BY <1>2, <1>s, <1>u

\* Commit stops the timer of a transaction that needs none any more.
LEMMA CommitDisarmKeeps == ASSUME RootInv, CommitDisarm PROVE RootInv'
<1> USE DEF RootInv
<1>1. /\ Held /\ holder \in Holder /\ holder.pc = "disarm" /\ holder.cmd = "commit" /\ holder.tx \in Tx
      /\ holder.tx \in accepted
  BY Holding DEF CommitDisarm, Steps, StopSteps, ApplySteps, CommitSteps, At, FitsItsStep,
     HolderKnowsTheJournal
<1>2. /\ holder' = Free /\ ~Held'
      /\ reply' \in {reply, [cmd |-> "commit", tx |-> holder.tx, status |-> "ok"]}
      /\ reply' \in Reply
  BY <1>1 DEF CommitDisarm, Held, Reply, TxId, RootTypeOK
<1>3. UNCHANGED <<queue, used, accepted, installed, journal, service, enabled, resources, marker,
                  blocked, expired, faults>>
  BY DEF CommitDisarm, durable, runtime
<1>t. /\ timer' \in [Tx -> {"none", "armed", "fired"}]
      /\ \A t \in Tx : t # holder.tx => timer'[t] = timer[t]
  BY <1>1 DEF CommitDisarm, RootTypeOK
<1>4. FitsItsStep'
  BY <1>2, <1>3 DEF FitsItsStep
<1>5. RootTypeOK'
  BY <1>2, <1>3, <1>t DEF RootTypeOK
<1>6. JournalIsTrue' /\ HolderKnowsTheJournal' /\ StoppedStaysStopped'
  BY <1>2, <1>3 DEF JournalIsTrue, HolderKnowsTheJournal, StoppedStaysStopped, Absent
<1>7. StartableIsKnown'
  BY <1>3 DEF StartableIsKnown, Capturing
<1>8. UncommittedHasTimer'
  <2> SUFFICES ASSUME Capturing, service.gen \notin accepted PROVE timer'[service.gen] # "none"
    BY <1>3 DEF UncommittedHasTimer, Capturing
  <2>1. service.gen \in Tx /\ service.gen # holder.tx
    BY <1>1 DEF StartableIsKnown, Capturing
  <2> QED BY <2>1, <1>t DEF UncommittedHasTimer
<1>9. ApplyIsNew'
  BY <1>1, <1>2, <1>3 DEF ApplyIsNew
<1>10. AnsweredIsPublished'
  BY <1>1, <1>2, <1>3 DEF AnsweredIsPublished, Published
<1> QED BY <1>4, <1>5, <1>6, <1>7, <1>8, <1>9, <1>10

(***************************************************************************)
(* A command enters, is refused, or is invoked.                            *)
(***************************************************************************)
\* A command is one that its caller sent, or the recovery unit of a timer.
LEMMA RunnableCommand ==
  ASSUME RootTypeOK, FitsItsStep, NEW c \in Runnable
  PROVE  /\ c \in Command
         /\ c.caller = "timer" => c.cmd = "recover"
         /\ c.cmd # "off" => c.tx \in Tx
         /\ c.cmd # "recover" => c \in queue
<1>1. CASE c \in queue
  BY <1>1 DEF RootTypeOK, FitsItsStep
<1>2. CASE c \in {RecoveryUnit(t) : t \in {u \in Tx : timer[u] = "fired"}}
  BY <1>2 DEF RecoveryUnit, Command, TxId
<1> QED BY <1>1, <1>2 DEF Runnable

Entered(c, step) ==
  /\ ~Held /\ Held' /\ holder' \in Holder
  /\ holder'.cmd = c.cmd /\ holder'.tx = c.tx /\ holder'.caller = c.caller
  /\ holder'.pc = step /\ holder'.then = "ok"
  /\ queue' = queue \ {c}
  /\ UNCHANGED <<reply, timer>>

\* A command that takes the lock starts at its first step, with no error noted.
LEMMA Entering ==
  ASSUME NEW c \in Command, NEW step \in {"owner", "enable", "sBlock"}, Enter(c, step, "ok")
  PROVE  Entered(c, step)
<1>1. holder' \in Holder
  BY DEF Enter, Command, Holder, StopSteps, ApplySteps, CommitSteps
<1> QED BY <1>1 DEF Enter, Entered, Held, Free, Holder, StopSteps, ApplySteps, CommitSteps

\* Taking the lock keeps the invariant, by the checks each command makes.
LEMMA EnterKeeps ==
  ASSUME RootInv, NEW c \in Runnable, NEW step,
         Entered(c, step), UNCHANGED <<durable, runtime, expired, faults>>,
         \/ c.cmd = "apply" /\ step = "owner" /\ journal.phase \notin {"pending", "dirty"}
         \/ c.cmd = "commit" /\ step = "enable" /\ journal.phase = "pending" /\ journal.id = c.tx
         \/ c.cmd \in {"recover", "off"} /\ step = "sBlock"
  PROVE  RootInv'
<1> USE DEF RootInv
<1>1. /\ c.caller = "timer" => c.cmd = "recover"
      /\ c.cmd # "off" => c.tx \in Tx
      /\ c.cmd # "recover" => c \in queue
  BY RunnableCommand
<1>2. UNCHANGED <<journal, blocked, enabled, installed, used, accepted, marker, service, resources,
                  expired, faults, reply, timer>>
  BY DEF Entered, durable, runtime
<1>3. FitsItsStep'
  BY <1>1 DEF FitsItsStep, Entered, StopSteps, ApplySteps, CommitSteps
<1>4. RootTypeOK'
  BY <1>2 DEF RootTypeOK, Entered
<1>5. JournalIsTrue'
  BY <1>2 DEF JournalIsTrue
<1>6. ApplyIsNew'
  BY <1>1, <1>2 DEF ApplyIsNew, Entered
<1>7. AnsweredIsPublished'
  BY <1>1, <1>2 DEF AnsweredIsPublished, Published, Entered
<1>8. HolderKnowsTheJournal'
  BY <1>1, <1>2 DEF HolderKnowsTheJournal, Entered, StopSteps, AnsweredIsPublished, Published
<1>9. StoppedStaysStopped'
  BY <1>2 DEF StoppedStaysStopped, Absent, Entered
<1>10. StartableIsKnown' /\ UncommittedHasTimer'
  BY <1>2 DEF StartableIsKnown, UncommittedHasTimer, Capturing
<1> QED BY <1>3, <1>4, <1>5, <1>6, <1>7, <1>8, <1>9, <1>10

\* The entry of each of the four root commands.
LEMMA EntersKeep == ASSUME RootInv, NEW c \in Runnable, Enters(c) PROVE RootInv'
<1>c. c \in Command
  BY RunnableCommand DEF RootInv
<1>1. CASE ApplyEnter(c)
  BY <1>c, <1>1, Entering, EnterKeeps DEF ApplyEnter
<1>2. CASE CommitEnter(c)
  BY <1>c, <1>2, Entering, EnterKeeps DEF CommitEnter
<1>3. CASE RecoverEnter(c)
  BY <1>c, <1>3, Entering, EnterKeeps DEF RecoverEnter
<1>4. CASE OffEnter(c)
  BY <1>c, <1>4, Entering, EnterKeeps DEF OffEnter
<1> QED BY <1>1, <1>2, <1>3, <1>4 DEF Enters

\* A command that is answered without the lock: refused, or with nothing to do.
LEMMA AnswerKeeps ==
  ASSUME RootInv, NEW c \in Runnable, NEW status \in {"ok", "failed"}, Ends(c, status),
         queue' = queue \ {c}, UNCHANGED <<durable, runtime, expired, holder, faults>>,
         c.cmd = "apply" => status = "failed",
         \A t \in Tx : c.caller = "timer" /\ c.tx = t /\ Capturing /\ service.gen = t =>
                         t \in accepted \/ status = "failed"
  PROVE  RootInv'
<1> USE DEF RootInv
<1>1. /\ c \in Command
      /\ c.caller = "timer" => c.tx \in Tx
  BY RunnableCommand
<1>2. UNCHANGED <<journal, blocked, enabled, installed, used, accepted, marker, service, resources,
                  expired, faults, holder>> /\ (Held <=> Held')
  BY DEF durable, runtime, Held
<1>3. /\ reply' \in {reply, [cmd |-> c.cmd, tx |-> c.tx, status |-> status]}
      /\ reply' \in Reply
  BY <1>1 DEF Ends, Reply, Command, RootTypeOK
<1>4. timer' = timer \/ (c.caller = "timer" /\ status = "ok" /\ timer' = [timer EXCEPT ![c.tx] = "none"])
  BY DEF Ends
<1>5. timer' \in [Tx -> {"none", "armed", "fired"}]
  BY <1>1, <1>4 DEF RootTypeOK
<1>6. RootTypeOK'
  BY <1>2, <1>3, <1>5 DEF RootTypeOK
<1>7. FitsItsStep' /\ JournalIsTrue' /\ HolderKnowsTheJournal' /\ StoppedStaysStopped'
  BY <1>2 DEF FitsItsStep, JournalIsTrue, HolderKnowsTheJournal, StoppedStaysStopped, Absent
<1>8. StartableIsKnown'
  BY <1>2 DEF StartableIsKnown, Capturing
<1>9. UncommittedHasTimer'
  <2> SUFFICES ASSUME Capturing, service.gen \notin accepted PROVE timer'[service.gen] # "none"
    BY <1>2 DEF UncommittedHasTimer, Capturing
  <2>1. service.gen \in Tx
    BY DEF StartableIsKnown, Capturing
  <2> QED BY <2>1, <1>1, <1>4, <1>5 DEF UncommittedHasTimer, RootTypeOK
<1>10. ApplyIsNew'
  BY <1>1, <1>2, <1>3 DEF ApplyIsNew, Command
<1>11. AnsweredIsPublished'
  BY <1>1, <1>2, <1>3 DEF AnsweredIsPublished, Published, Command
<1> QED BY <1>6, <1>7, <1>8, <1>9, <1>10, <1>11

\* Recover finds its transaction settled and lets its unit be collected: nothing
\* uncommitted captures under that identity (Settled).
LEMMA RecoverNothingKeeps ==
  ASSUME RootInv, NEW c \in Runnable, RecoverNothing(c) PROVE RootInv'
<1>1. /\ Ends(c, "ok") /\ queue' = queue \ {c} /\ c.cmd = "recover" /\ Settled(c.tx)
      /\ UNCHANGED <<durable, runtime, expired, holder, faults>>
  BY DEF RecoverNothing
<1>2. Capturing /\ service.gen = c.tx => c.tx \in accepted
  BY <1>1 DEF RootInv, StartableIsKnown, Capturing, JournalIsTrue, Settled
<1> QED BY <1>1, <1>2, AnswerKeeps

\* A command finds the lock busy or fails its check.
LEMMA RefuseKeeps ==
  ASSUME RootInv, NEW c \in queue, Refuse(c) PROVE RootInv'
  BY AnswerKeeps DEF Refuse, Runnable

\* A caller sends a command: an apply under a fresh identity, a commit of what
\* was answered.
LEMMA InvokeKeeps ==
  ASSUME RootInv, NEW c \in Command, c.caller # "timer", c.cmd # "off" => c.tx \in Tx, Invoke(c)
  PROVE  RootInv'
<1> USE DEF RootInv
<1>1. UNCHANGED <<journal, blocked, enabled, installed, accepted, marker, service, resources,
                  expired, faults, holder, timer>> /\ (Held <=> Held')
  BY DEF Invoke, runtime, Held
<1>2. /\ queue' = queue \cup {c} /\ reply' = NoReply /\ reply' \in Reply
      /\ NoReply.status # "ok"
  BY DEF Invoke, Reply, NoReply
<1>3. /\ c.cmd = "apply" => c.tx \notin used /\ used' = used \cup {c.tx}
      /\ c.cmd # "apply" => used' = used
  BY DEF Invoke
<1>4. c.cmd = "commit" => Published(c.tx) /\ reply = [cmd |-> "apply", tx |-> c.tx, status |-> "ok"]
  BY DEF Invoke, AnsweredIsPublished
<1>5. RootTypeOK'
  BY <1>1, <1>2, <1>3 DEF RootTypeOK
<1>6. FitsItsStep' /\ HolderKnowsTheJournal' /\ StoppedStaysStopped'
  BY <1>1, <1>2 DEF FitsItsStep, HolderKnowsTheJournal, StoppedStaysStopped, Absent
<1>7. StartableIsKnown' /\ UncommittedHasTimer'
  BY <1>1 DEF StartableIsKnown, UncommittedHasTimer, Capturing
<1>8. JournalIsTrue'
  BY <1>1, <1>3 DEF JournalIsTrue
<1>9. AnsweredIsPublished'
  BY <1>1, <1>2, <1>3, <1>4 DEF AnsweredIsPublished, Published
<1>10. ApplyIsNew'
  <2>1. CASE c.cmd = "apply"
    <3>1. /\ c.tx \in used' \ accepted /\ journal.id # c.tx
      BY <2>1, <1>3, TunAssumption DEF JournalIsTrue
    <3>2. \A d \in queue : d.tx = c.tx => d.cmd \notin {"apply", "commit"}
      BY <2>1, <1>3 DEF ApplyIsNew, AnsweredIsPublished, Published
    <3>3. ~(Held /\ holder.cmd \in {"apply", "commit"} /\ holder.tx = c.tx)
      BY <2>1, <1>3 DEF ApplyIsNew, AnsweredIsPublished
    <3> QED BY <3>1, <3>2, <3>3, <2>1, <1>1, <1>2, <1>3 DEF ApplyIsNew
  <2>2. CASE c.cmd = "commit"
    BY <2>2, <1>1, <1>2, <1>3, <1>4 DEF ApplyIsNew
  <2>3. CASE c.cmd \in {"recover", "off"}
    BY <2>3, <1>1, <1>2, <1>3 DEF ApplyIsNew
  <2> QED BY <2>1, <2>2, <2>3 DEF Command
<1> QED BY <1>5, <1>6, <1>7, <1>8, <1>9, <1>10

(***************************************************************************)
(* systemd, the clock, the death of the lock holder and of the machine.    *)
(***************************************************************************)

\* Steps that touch the service, its marker, its resources or a timer alone.
LEMMA SystemKeeps ==
  ASSUME RootInv, UNCHANGED <<durable, holder, queue, reply>>, RootTypeOK',
         StoppedStaysStopped', StartableIsKnown', UncommittedHasTimer'
  PROVE  RootInv'
  BY DEF RootInv, durable, Held, FitsItsStep, JournalIsTrue, ApplyIsNew, AnsweredIsPublished,
     Published, HolderKnowsTheJournal

\* AllowStart grants a start to what is committed, or pending with its timer.
LEMMA CheckStartKeeps == ASSUME RootInv, CheckStart PROVE RootInv'
<1> USE DEF RootInv
<1>1. UNCHANGED <<durable, journal, blocked, enabled, installed, used, accepted, resources, timer, expired,
                  holder, queue, reply, faults>>
  BY DEF CheckStart, durable
<1>2. /\ service.job = "queued"
      /\ \/ AllowStart /\ service' = [job |-> "checked", gen |-> installed] /\ marker' = TRUE
         \/ service' = [service EXCEPT !.job = "off"] /\ marker' = FALSE
  BY DEF CheckStart
<1>3. service'.job \in {"off", "checked"} /\ (service'.job = "checked" => AllowStart /\ service'.gen = installed)
  BY <1>2 DEF RootTypeOK
<1>4. service' \in [job : {"off", "queued", "checked", "running"}, gen : Generation]
  BY <1>2 DEF RootTypeOK
<1>m. marker' \in BOOLEAN
  BY <1>2
<1>t. RootTypeOK'
  BY <1>1, <1>4, <1>m DEF RootTypeOK
<1>5. StoppedStaysStopped'
  BY <1>1, <1>2 DEF StoppedStaysStopped, Absent, Held
<1>6. StartableIsKnown'
  BY <1>1, <1>2, <1>3 DEF StartableIsKnown, Capturing
<1>7. UncommittedHasTimer'
  BY <1>1, <1>2, <1>3 DEF UncommittedHasTimer, StartableIsKnown, JournalIsTrue, Capturing,
     AllowStart
<1> QED BY <1>1, <1>t, <1>5, <1>6, <1>7, SystemKeeps

\* The granted start runs what is on disk.
LEMMA RunServiceKeeps == ASSUME RootInv, RunService PROVE RootInv'
<1> USE DEF RootInv
<1>1. UNCHANGED <<durable, journal, blocked, enabled, installed, used, accepted, marker, timer, expired,
                  holder, queue, reply, faults>>
  BY DEF RunService, durable
<1>2. /\ service.job = "checked" /\ service.gen = installed
      /\ service' = [job |-> "running", gen |-> installed] /\ resources' = TRUE
  BY DEF RunService, StartableIsKnown, Capturing
<1>3. RootTypeOK'
  BY <1>1, <1>2 DEF RootTypeOK
<1>4. StoppedStaysStopped'
  BY <1>1, <1>2 DEF StoppedStaysStopped, Absent, Held
<1>5. StartableIsKnown' /\ UncommittedHasTimer'
  BY <1>1, <1>2 DEF StartableIsKnown, UncommittedHasTimer, Capturing
<1> QED BY <1>1, <1>3, <1>4, <1>5, SystemKeeps

\* The engine dies and systemd queues another start.
LEMMA ServiceCrashKeeps == ASSUME RootInv, ServiceCrash PROVE RootInv'
<1> USE DEF RootInv
<1>1. UNCHANGED <<durable, journal, blocked, enabled, installed, used, accepted, timer, expired,
                  holder, queue, reply>>
  BY DEF ServiceCrash, durable
<1>2. /\ service.job = "running" /\ service' = [service EXCEPT !.job = "queued"]
      /\ marker' = FALSE /\ resources' \in BOOLEAN
  BY DEF ServiceCrash
<1>3. service'.job = "queued"
  BY <1>2 DEF RootTypeOK
<1>f. faults' \in [crash : 0 .. MaxCrashes, fail : 0 .. MaxFailures]
  BY FaultsInBounds DEF ServiceCrash
<1>4. RootTypeOK'
  BY <1>1, <1>2, <1>f DEF RootTypeOK
<1>5. StoppedStaysStopped'
  BY <1>1, <1>2 DEF StoppedStaysStopped, Absent, Held
<1>6. StartableIsKnown' /\ UncommittedHasTimer'
  BY <1>1, <1>2, <1>3 DEF StartableIsKnown, UncommittedHasTimer, Capturing
<1> QED BY <1>1, <1>4, <1>5, <1>6, SystemKeeps

\* A timer that fires is still bound to recover.
LEMMA TimerFireKeeps == ASSUME RootInv, NEW t \in Tx, TimerFire(t) PROVE RootInv'
<1> USE DEF RootInv
<1>1. UNCHANGED <<durable, journal, blocked, enabled, installed, used, accepted, marker, service, resources,
                  expired, holder, queue, reply, faults>>
  BY DEF TimerFire, durable, runtime
<1>2. timer[t] = "armed" /\ timer' = [timer EXCEPT ![t] = "fired"]
  BY DEF TimerFire
<1>3. RootTypeOK'
  BY <1>1, <1>2 DEF RootTypeOK
<1>4. StoppedStaysStopped' /\ StartableIsKnown'
  BY <1>1 DEF StoppedStaysStopped, StartableIsKnown, Capturing, Absent, Held
<1>5. UncommittedHasTimer'
  BY <1>1, <1>2 DEF UncommittedHasTimer, Capturing, RootTypeOK
<1> QED BY <1>1, <1>3, <1>4, <1>5, SystemKeeps

\* The deadline of a transaction passes.
LEMMA ExpireKeeps == ASSUME RootInv, NEW t \in Tx, Expire(t) PROVE RootInv'
<1> USE DEF RootInv
<1>1. UNCHANGED <<durable, journal, blocked, enabled, installed, used, accepted, marker, service, resources,
                  timer, holder, queue, reply, faults>> /\ expired' = expired \cup {t}
  BY DEF Expire, durable, runtime
<1>2. RootTypeOK'
  BY <1>1 DEF RootTypeOK
<1>3. StoppedStaysStopped' /\ StartableIsKnown' /\ UncommittedHasTimer'
  BY <1>1 DEF StoppedStaysStopped, StartableIsKnown, UncommittedHasTimer, Capturing, Absent, Held
<1> QED BY <1>1, <1>2, <1>3, SystemKeeps

\* The lock holder is killed between two of its steps.
LEMMA KillKeeps == ASSUME RootInv, Kill PROVE RootInv'
<1> USE DEF RootInv
<1>1. Held /\ Leaves("failed")
  BY Leaving DEF Kill, Held
<1>2. UNCHANGED <<journal, blocked, enabled, installed, used, accepted, marker, service, resources,
                  expired, queue>>
  BY DEF Kill, durable, runtime
<1>f. faults' \in [crash : 0 .. MaxCrashes, fail : 0 .. MaxFailures]
  BY FaultsInBounds DEF Kill
<1>3. FitsItsStep' /\ ApplyIsNew' /\ AnsweredIsPublished'
  BY <1>1, <1>2, LockStepKeepsCommands
<1>4. RootTypeOK'
  BY <1>1, <1>2, <1>f DEF RootTypeOK, Leaves
<1>5. JournalIsTrue' /\ HolderKnowsTheJournal' /\ StoppedStaysStopped'
  BY <1>1, <1>2 DEF JournalIsTrue, HolderKnowsTheJournal, StoppedStaysStopped, Absent, Leaves
<1>6. StartableIsKnown'
  BY <1>2 DEF StartableIsKnown, Capturing
<1>7. UncommittedHasTimer'
  BY <1>1, <1>2 DEF UncommittedHasTimer, StartableIsKnown, Capturing, Leaves
<1> QED BY <1>3, <1>4, <1>5, <1>6, <1>7

\* A reboot keeps what is durable and starts what is enabled.
LEMMA RebootKeeps == ASSUME RootInv, Reboot PROVE RootInv'
<1> USE DEF RootInv
<1>1. UNCHANGED <<journal, blocked, enabled, installed, used, accepted, expired>>
  BY DEF Reboot, durable
<1>2. /\ service' = [job |-> IF enabled THEN "queued" ELSE "off", gen |-> NoTx]
      /\ marker' = FALSE /\ resources' = FALSE /\ timer' = [t \in Tx |-> "none"]
      /\ holder' = Free /\ ~Held' /\ queue' = {} /\ reply' = NoReply /\ NoReply.status # "ok"
  BY DEF Reboot, Held, NoReply
<1>3. service'.job \in {"queued", "off"} /\ (service'.job = "queued" => enabled)
  BY <1>2
<1>f. faults' \in [crash : 0 .. MaxCrashes, fail : 0 .. MaxFailures]
  BY FaultsInBounds DEF Reboot
<1>4. service' \in [job : {"off", "queued", "checked", "running"}, gen : Generation]
  BY <1>2 DEF Generation
<1>5. RootTypeOK'
  BY <1>1, <1>2, <1>4, <1>f DEF RootTypeOK, Reply
<1>6. FitsItsStep' /\ JournalIsTrue' /\ ApplyIsNew' /\ HolderKnowsTheJournal'
  BY <1>1, <1>2 DEF FitsItsStep, JournalIsTrue, ApplyIsNew, HolderKnowsTheJournal
<1>7. AnsweredIsPublished'
  BY <1>1, <1>2 DEF AnsweredIsPublished
<1>8. StoppedStaysStopped'
  BY <1>1, <1>2 DEF StoppedStaysStopped, Absent
<1>9. StartableIsKnown' /\ UncommittedHasTimer'
  BY <1>1, <1>3 DEF StartableIsKnown, UncommittedHasTimer, Capturing
<1> QED BY <1>5, <1>6, <1>7, <1>8, <1>9

-----------------------------------------------------------------------------
(***************************************************************************)
(* The whole root side.                                                    *)
(***************************************************************************)
\* Every step under the control lock.
LEMMA LockStepKeeps == ASSUME RootInv, LockStep PROVE RootInv'
<1>1. CASE Stop
  BY <1>1, StopBlockKeeps, StopDirtyKeeps, StopDisableKeeps, StopConfirmKeeps, StopMarkerKeeps,
     StopOffKeeps, StopUnblockKeeps DEF Stop
<1>2. CASE ApplyOwner \/ ApplyStage \/ ApplyCheck \/ ApplyProbe
  BY <1>2, PrepareKeeps DEF ApplyOwner, ApplyStage, ApplyCheck, ApplyProbe
<1>3. CASE ApplyBlock("block", "pend") \/ ApplyBlock("reblock", "repend")
  BY <1>3, ApplyBlockKeeps
<1>4. CASE ApplyPend("pend", "arm") \/ ApplyPend("repend", "rename")
  BY <1>4, ApplyPendKeeps
<1>5. CASE ApplyArm \/ ApplyRename \/ ApplyUnit \/ ApplyActivate \/ ApplyStart \/ ApplyVerify
  BY <1>5, ApplyArmKeeps, ApplyRenameKeeps, ApplyUnitKeeps, ApplyActivateKeeps, ApplyStartKeeps,
     ApplyVerifyKeeps
<1>6. CASE Commit
  BY <1>6, CommitEnableKeeps, CommitSaveKeeps, CommitDisarmKeeps DEF Commit
<1> QED BY <1>1, <1>2, <1>3, <1>4, <1>5, <1>6 DEF LockStep, Apply

\* Every step of the root side.
LEMMA RootStepKeeps == ASSUME RootInv, RootStep PROVE RootInv'
<1>1. CASE LockStep
  BY <1>1, LockStepKeeps
<1>2. CASE \E c \in Runnable : Enters(c) \/ RecoverNothing(c)
  BY <1>2, EntersKeep, RecoverNothingKeeps
<1>3. CASE \E c \in queue : Refuse(c)
  BY <1>3, RefuseKeeps
<1>4. CASE Systemd
  BY <1>4, CheckStartKeeps, RunServiceKeeps, ServiceCrashKeeps, TimerFireKeeps DEF Systemd
<1>5. CASE Clock
  BY <1>5, ExpireKeeps DEF Clock
<1>6. CASE Kill
  BY <1>6, KillKeeps
<1> QED BY <1>1, <1>2, <1>3, <1>4, <1>5, <1>6 DEF RootStep

\* History only grows: nothing that any command does makes a commit undone.
LEMMA AcceptedGrows == ASSUME RootStep \/ Reboot PROVE accepted \subseteq accepted'
<1>1. CASE LockStep
  BY <1>1 DEF LockStep, Stop, StopBlock, StopDirty, StopDisable, StopConfirm, StopMarker, StopOff,
     StopUnblock, Apply, ApplyOwner, ApplyStage, ApplyCheck, ApplyProbe, Prepare, ApplyBlock,
     ApplyPend, ApplyArm, ApplyRename, ApplyUnit, ApplyActivate, ApplyStart, ApplyVerify, Commit,
     CommitEnable, CommitSave, CommitDisarm, durable
<1>2. CASE RootStep /\ ~LockStep
  BY <1>2 DEF RootStep, Enters, ApplyEnter, CommitEnter, RecoverEnter, OffEnter, RecoverNothing,
     Refuse, Systemd, CheckStart, RunService, ServiceCrash, TimerFire, Clock, Expire, Kill,
     durable
<1>3. CASE Reboot
  BY <1>3 DEF Reboot, durable
<1> QED BY <1>1, <1>2, <1>3

\* A machine that never had TUN.
LEMMA RootInitially == ASSUME RootInit PROVE RootInv
<1> USE DEF RootInit
<1>1. RootTypeOK
  <2>1. journal \in [id : TxId, committed : BOOLEAN,
                    phase : {"none", "pending", "active", "off", "dirty"}]
    BY DEF TxId
  <2>2. service \in [job : {"off", "queued", "checked", "running"}, gen : Generation]
    BY DEF Generation
  <2>3. faults \in [crash : 0 .. MaxCrashes, fail : 0 .. MaxFailures]
    BY TunAssumption
  <2> QED BY <2>1, <2>2, <2>3 DEF RootTypeOK, Generation, Reply
<1>2. FitsItsStep /\ JournalIsTrue /\ ApplyIsNew /\ AnsweredIsPublished
  BY TunAssumption DEF FitsItsStep, JournalIsTrue, ApplyIsNew, AnsweredIsPublished, Held, NoReply
<1>3. HolderKnowsTheJournal /\ StoppedStaysStopped /\ StartableIsKnown /\ UncommittedHasTimer
  BY DEF HolderKnowsTheJournal, StoppedStaysStopped, Absent, StartableIsKnown, Capturing,
     UncommittedHasTimer, Held
<1> QED BY <1>1, <1>2, <1>3 DEF RootInv

\* The user side may lose its callers, or spend a failure of its own.
LEMMA OrphansKeep ==
  ASSUME RootInv, faults' \in [crash : 0 .. MaxCrashes, fail : 0 .. MaxFailures],
         queue' = {[c EXCEPT !.caller = "orphan"] : c \in queue},
         holder' = IF holder # Free /\ holder.caller = "user"
                   THEN [holder EXCEPT !.caller = "orphan"] ELSE holder,
         reply' = NoReply, UNCHANGED <<durable, runtime, timer, expired>>
  PROVE  RootInv'
<1> USE DEF RootInv
<1>1. UNCHANGED <<journal, blocked, enabled, installed, used, accepted, marker, service, resources,
                  expired, timer>>
  BY DEF durable, runtime
<1>2. /\ queue' \in SUBSET Command
      /\ \A d \in queue' : /\ d.caller = "orphan"
                           /\ \E c \in queue : d = [c EXCEPT !.caller = "orphan"]
                                              /\ d.cmd = c.cmd /\ d.tx = c.tx
  BY DEF RootTypeOK, Command
<1>3. /\ holder' \in Holder \cup {Free} /\ (Held' <=> Held)
      /\ Held => /\ holder'.cmd = holder.cmd /\ holder'.tx = holder.tx /\ holder'.pc = holder.pc
                 /\ holder'.then = holder.then
                 /\ holder'.caller = "timer" => holder.caller = "timer"
  <2>1. CASE holder = Free
    BY <2>1 DEF Held
  <2>2. CASE holder # Free
    <3>1. holder \in Holder
      BY <2>2 DEF RootTypeOK
    <3>2. holder' \in Holder
      BY <3>1 DEF Holder
    <3>3. Held'
      BY <3>2 DEF Held, Free, Holder, StopSteps, ApplySteps, CommitSteps
    <3> QED BY <2>2, <3>1, <3>2, <3>3 DEF Held, Holder
  <2> QED BY <2>1, <2>2
<1>4. RootTypeOK'
  BY <1>1, <1>2, <1>3 DEF RootTypeOK, Reply
<1>5. FitsItsStep'
  <2>1. \A c \in queue' : c.caller # "timer" /\ (c.cmd # "off" => c.tx \in Tx)
    BY <1>2 DEF FitsItsStep
  <2> QED BY <2>1, <1>3 DEF FitsItsStep
<1>6. JournalIsTrue' /\ HolderKnowsTheJournal' /\ StoppedStaysStopped'
  BY <1>1, <1>3 DEF JournalIsTrue, HolderKnowsTheJournal, StoppedStaysStopped, Absent
<1>7. StartableIsKnown' /\ UncommittedHasTimer'
  BY <1>1 DEF StartableIsKnown, UncommittedHasTimer, Capturing
<1>8. NoReply.status # "ok"
  BY DEF NoReply
<1>9. AnsweredIsPublished'
  BY <1>1, <1>2, <1>3, <1>8 DEF AnsweredIsPublished, Published
<1>10. ApplyIsNew'
  <2>1. ASSUME NEW c \in queue', c.cmd = "apply"
        PROVE  /\ c.tx \in used \ accepted /\ journal.id # c.tx
               /\ \A d \in queue' : d.tx = c.tx /\ d.cmd \in {"apply", "commit"} => d = c
               /\ ~(Held /\ holder.cmd \in {"apply", "commit"} /\ holder.tx = c.tx)
    <3>1. PICK b \in queue : c = [b EXCEPT !.caller = "orphan"] /\ c.cmd = b.cmd /\ c.tx = b.tx
      BY <1>2
    <3>2. ASSUME NEW d \in queue', d.tx = c.tx, d.cmd \in {"apply", "commit"} PROVE d = c
      <4>1. PICK e \in queue : d = [e EXCEPT !.caller = "orphan"] /\ d.cmd = e.cmd /\ d.tx = e.tx
        BY <1>2
      <4>2. e = b
        BY <2>1, <3>1, <3>2, <4>1 DEF ApplyIsNew
      <4> QED BY <3>1, <4>1, <4>2
    <3> QED BY <2>1, <3>1, <3>2 DEF ApplyIsNew
  <2>2. \A d \in queue' : \E c \in queue : d.cmd = c.cmd /\ d.tx = c.tx
    BY <1>2
  <2> QED BY <2>1, <2>2, <1>1, <1>3, <1>8 DEF ApplyIsNew
<1> QED BY <1>4, <1>5, <1>6, <1>7, <1>9, <1>10

\* A failure of the user side's own touches nothing of root's.
LEMMA FaultKeeps ==
  ASSUME RootInv, Fault,
         UNCHANGED <<durable, runtime, timer, expired, holder, queue, reply>>
  PROVE  RootInv'
<1>1. faults' \in [crash : 0 .. MaxCrashes, fail : 0 .. MaxFailures]
  BY FaultsInBounds DEF RootInv
<1>2. RootTypeOK'
  BY <1>1 DEF RootInv, RootTypeOK, durable, runtime
<1> QED BY <1>2, SystemKeeps DEF RootInv, durable, runtime, StoppedStaysStopped, Absent, Held,
    StartableIsKnown, UncommittedHasTimer, Capturing

\* Every step of the root side and of the callers seen from it.
LEMMA RootNextKeeps == ASSUME RootInv, [RootNext]_rootVars PROVE RootInv'
<1>1. CASE RootStep
  BY <1>1, RootStepKeeps
<1>2. CASE Reboot
  BY <1>2, RebootKeeps
<1>3. ASSUME NEW c \in UserCommand, Invoke(c) PROVE RootInv'
  <2>1. c \in Command /\ c.caller # "timer" /\ (c.cmd # "off" => c.tx \in Tx)
    BY DEF UserCommand, Command, TxId
  <2> QED BY <1>3, <2>1, InvokeKeeps
<1>4. CASE UNCHANGED rootVars
  BY <1>4 DEF rootVars, RootInv, RootTypeOK, FitsItsStep, JournalIsTrue, ApplyIsNew,
     AnsweredIsPublished, Published, HolderKnowsTheJournal, StoppedStaysStopped, Absent,
     StartableIsKnown, UncommittedHasTimer, Capturing, Held
<1> QED BY <1>1, <1>2, <1>3, <1>4 DEF RootNext

\* The inductive invariant, from any number of concurrent commands.
THEOREM RootInvariant == RootSpec => []RootInv
  BY RootInitially, RootNextKeeps, PTL DEF RootSpec

-----------------------------------------------------------------------------
(***************************************************************************)
(* What it implies.                                                        *)
(***************************************************************************)

\* The invariant bounds uncommitted capture.
LEMMA BoundedByInvariant == RootInv => UncommittedCaptureIsBounded
  BY DEF RootInv, UncommittedCaptureIsBounded, StartableIsKnown, UncommittedHasTimer, Capturing

\* The invariant makes the phase off mean absence.
LEMMA OffByInvariant == RootInv => OffMeansNoCapture
  BY DEF RootInv, OffMeansNoCapture, StatusOff, StoppedStaysStopped, Absent

\* The invariant makes the active journal name the disk and the service.
LEMMA ActiveByInvariant == RootInv => ActiveJournalIsTheGeneration
  BY DEF RootInv, ActiveJournalIsTheGeneration, JournalIsTrue, StartableIsKnown, Capturing

\* Type correctness of the root side, for every set of transactions.
THEOREM RootTypes == RootSpec => []RootTypeOK
  BY RootInvariant, PTL DEF RootInv

\* Whatever the order of commands, kills, reboots, timers and start jobs, an
\* uncommitted generation that captures is the journal's unfinished one and its
\* recovery unit is armed or retrying (Apply, Recover, AllowStart).
THEOREM UncommittedIsBounded == RootSpec => []UncommittedCaptureIsBounded
  BY RootInvariant, BoundedByInvariant, PTL

\* Whenever Status() may answer off, nothing captures, nothing is about to, and
\* no route or table is left (stopLocked).
THEOREM OffIsAbsent == RootSpec => []OffMeansNoCapture
  BY RootInvariant, OffByInvariant, PTL

\* An active journal names the generation on disk and the one that captures, so
\* that a boot runs what was verified and committed (Commit, AllowStart).
THEOREM ActiveIsOnDisk == RootSpec => []ActiveJournalIsTheGeneration
  BY RootInvariant, ActiveByInvariant, PTL

-----------------------------------------------------------------------------
(***************************************************************************)
(* Who stops a committed transaction.                                      *)
(***************************************************************************)

\* A command in stopLocked that is not an off works on an uncommitted journal.
StopsUncommitted ==
  Held /\ holder.pc \in StopSteps => holder.cmd = "off" \/ journal.id \notin accepted

\* A recovery asks for the commit fact when it has the lock; an apply that
\* aborts, or stops the generation before it, has made the journal its own.
LEMMA StopsKept == ASSUME RootInv, StopsUncommitted, RootStep \/ Reboot PROVE StopsUncommitted'
<1> USE DEF RootInv
<1>1. CASE Stop
  <2>1. Held /\ holder.pc \in StopSteps
    BY <1>1, Holding DEF Stop, StopBlock, StopDirty, StopDisable, StopConfirm, StopMarker, StopOff,
       StopUnblock, At, StopSteps, Steps
  <2>2. journal'.id = journal.id /\ accepted' = accepted
    BY <1>1, DirtyJournal DEF Stop, StopBlock, StopDirty, StopDisable, StopConfirm, StopMarker,
       StopOff, StopUnblock, durable, RootTypeOK
  <2>3. holder \in Holder
    BY <2>1 DEF RootTypeOK, Held
  <2>4. Held' => holder'.cmd = holder.cmd
    BY <1>1, <2>3 DEF Stop, StopBlock, StopDirty, StopDisable, StopConfirm, StopMarker, StopOff,
       StopUnblock, Goto, Note, Exit, Held, Holder
  <2> QED BY <2>1, <2>2, <2>4 DEF StopsUncommitted
<1>2. CASE ApplyArm \/ ApplyRename \/ ApplyUnit \/ ApplyActivate \/ ApplyStart \/ ApplyVerify
  <2>1. journal = Pending(holder.tx) /\ UNCHANGED <<journal, accepted>>
    BY <1>2, Holding DEF HolderKnowsTheJournal, ApplyArm, ApplyRename, ApplyUnit, ApplyActivate,
       ApplyStart, ApplyVerify, At, Steps, ApplySteps, durable
  <2> QED BY <2>1 DEF JournalIsTrue, Pending, StopsUncommitted
<1>3. CASE \/ ApplyOwner \/ ApplyStage \/ ApplyCheck \/ ApplyProbe
           \/ ApplyBlock("block", "pend") \/ ApplyBlock("reblock", "repend")
           \/ ApplyPend("pend", "arm") \/ ApplyPend("repend", "rename") \/ Commit
  <2>1. \E step \in Steps : At(step)
    BY <1>3 DEF ApplyOwner, ApplyStage, ApplyCheck, ApplyProbe, Prepare, ApplyBlock, ApplyPend,
       Commit, CommitEnable, CommitSave, CommitDisarm, Steps, ApplySteps, CommitSteps
  <2>2. holder \in Holder
    BY <2>1, Holding
  <2>3. ~Held' \/ holder'.pc \notin StopSteps
    BY <1>3, <2>2 DEF ApplyOwner, ApplyStage, ApplyCheck, ApplyProbe, Prepare, ApplyBlock, ApplyPend,
       Commit, CommitEnable, CommitSave, CommitDisarm, Goto, Exit, Held, Holder, StopSteps
  <2> QED BY <2>3 DEF StopsUncommitted
<1>4. ASSUME NEW c \in Runnable, Enters(c) PROVE StopsUncommitted'
  <2>1. UNCHANGED <<journal, accepted>>
    BY <1>4 DEF Enters, ApplyEnter, CommitEnter, RecoverEnter, OffEnter, durable
  <2>2. CASE RecoverEnter(c)
    BY <2>1, <2>2 DEF RecoverEnter, Settled, JournalIsTrue, StopsUncommitted
  <2>3. CASE OffEnter(c)
    BY <2>3 DEF OffEnter, Enter, StopsUncommitted
  <2>4. CASE ApplyEnter(c) \/ CommitEnter(c)
    BY <2>4 DEF ApplyEnter, CommitEnter, Enter, StopsUncommitted, StopSteps
  <2> QED BY <1>4, <2>2, <2>3, <2>4 DEF Enters
<1>5. CASE Kill \/ Reboot
  BY <1>5 DEF Kill, Reboot, Exit, StopsUncommitted, Held
<1>6. CASE \/ \E c \in Runnable : RecoverNothing(c)
           \/ \E c \in queue : Refuse(c)
           \/ Systemd \/ Clock
  <2>1. UNCHANGED <<journal, accepted, holder>>
    BY <1>6 DEF RecoverNothing, Refuse, Systemd, CheckStart, RunService, ServiceCrash, TimerFire,
       Clock, Expire, durable
  <2> QED BY <2>1 DEF StopsUncommitted, Held
<1> QED BY <1>1, <1>2, <1>3, <1>4, <1>5, <1>6 DEF RootStep, LockStep, Apply

\* Only stopLocked and a crash end a capture: nothing is started over it.
LEMMA WhoStops ==
  ASSUME RootInv, RootStep \/ Reboot, Capturing, ~Capturing'
  PROVE  (Held /\ holder.pc \in StopSteps) \/ faults'.crash # faults.crash
<1> USE DEF RootInv
<1>1. service' # service
  BY DEF Capturing
<1>2. CASE LockStep
  <2>1. StopDisable \/ ApplyStart
    BY <1>1, <1>2 DEF LockStep, Stop, StopBlock, StopDirty, StopConfirm, StopMarker, StopOff,
       StopUnblock, Apply, ApplyOwner, ApplyStage, ApplyCheck, ApplyProbe, Prepare, ApplyBlock,
       ApplyPend, ApplyArm, ApplyRename, ApplyUnit, ApplyActivate, ApplyVerify, Commit,
       CommitEnable, CommitSave, CommitDisarm, runtime
  <2>2. CASE StopDisable
    BY <2>2, Holding DEF StopDisable, At, Steps, StopSteps
  <2>3. CASE ApplyStart
    BY <2>3, Holding DEF ApplyStart, At, Steps, ApplySteps, StoppedStaysStopped, Absent, Capturing
  <2> QED BY <2>1, <2>2, <2>3
<1>3. CASE ServiceCrash \/ Kill \/ Reboot
  BY <1>3, FaultsInBounds DEF ServiceCrash, Kill, Reboot, Crash, RootTypeOK
<1>4. CASE CheckStart \/ RunService
  BY <1>4 DEF CheckStart, RunService, Capturing, RootTypeOK
<1>5. CASE RootStep /\ ~LockStep /\ ~Kill /\ ~CheckStart /\ ~RunService /\ ~ServiceCrash
  BY <1>1, <1>5 DEF RootStep, Enters, ApplyEnter, CommitEnter, RecoverEnter, OffEnter,
     RecoverNothing, Refuse, Systemd, TimerFire, Clock, Expire, runtime
<1> QED BY <1>2, <1>3, <1>4, <1>5

\* No step takes the commit fact of a transaction back (Dirty, Pending), and
\* its capture ends only by an off or a crash, never by a recovery that comes
\* late or an apply (Recover, stopLocked).
THEOREM CommitOutlives == RootSpec => CommitIsDurable
<1>1. RootInit => StopsUncommitted
  BY DEF RootInit, StopsUncommitted, Held
<1>2. RootInv /\ StopsUncommitted /\ [RootNext]_rootVars => StopsUncommitted'
  <2> SUFFICES ASSUME RootInv, StopsUncommitted, [RootNext]_rootVars PROVE StopsUncommitted'
    OBVIOUS
  <2>1. CASE UNCHANGED rootVars \/ \E c \in UserCommand : Invoke(c)
    BY <2>1 DEF rootVars, Invoke, StopsUncommitted, Held
  <2> QED BY <2>1, StopsKept DEF RootNext
<1>3. ASSUME RootInv, RootInv', StopsUncommitted, [RootNext]_rootVars
      PROVE  [journal.id \in accepted =>
                /\ journal'.id = journal.id => journal'.committed
                /\ Capturing /\ service.gen = journal.id /\ ~Capturing' =>
                     \/ holder # Free /\ holder.cmd = "off"
                     \/ faults'.crash # faults.crash]_rootVars
  <2>1. accepted \subseteq accepted'
    BY <1>3, AcceptedGrows DEF RootNext, Invoke, rootVars
  <2>2. journal.id \in accepted /\ journal'.id = journal.id => journal'.committed
    BY <1>3, <2>1 DEF RootInv, JournalIsTrue
  <2>3. CASE RootStep \/ Reboot
    BY <1>3, <2>2, <2>3, WhoStops DEF StopsUncommitted, Held
  <2>4. CASE UNCHANGED rootVars \/ \E c \in UserCommand : Invoke(c)
    BY <2>2, <2>4 DEF rootVars, Invoke, runtime, Capturing
  <2> QED BY <1>3, <2>3, <2>4 DEF RootNext
<1> QED BY <1>1, <1>2, <1>3, RootInvariant, PTL DEF RootSpec, CommitIsDurable

-----------------------------------------------------------------------------
(***************************************************************************)
(* BOTH SIDES.                                                             *)
(***************************************************************************)

(***************************************************************************)
(* What the user side sees of root.                                        *)
(***************************************************************************)

\* A commit that may still succeed: it is under the lock, or it waits for the
\* lock while the journal is pending for it.
CommitLive ==
  \/ Held /\ holder.pc \in {"enable", "save"}
  \/ journal.phase = "pending" /\ \E c \in queue : c.cmd = "commit" /\ c.tx = journal.id

\* Nothing is active and nothing can become so without a new commit.
Inactive == journal.phase # "active" /\ ~CommitLive

\* A success that was answered: off and apply leave nothing active, and a commit
\* has committed.
AnswersAreTrue ==
  reply # NoReply /\ reply.status = "ok" =>
    /\ reply.cmd = "commit" => reply.tx \in accepted
    /\ reply.cmd = "apply" => reply.tx \notin accepted
    /\ reply.cmd \in {"apply", "off"} => Inactive

\* The apply of a transaction is over, and it left nothing that starts again.
ApplyOver(t) ==
  /\ t \in used
  /\ \A c \in queue : ~(c.cmd = "apply" /\ c.tx = t)
  /\ ~(Held /\ holder.cmd = "apply" /\ holder.tx = t)

Gone(t) ==
  /\ t \notin accepted /\ ApplyOver(t)
  /\ ~(journal.id = t /\ journal.phase = "pending")
  /\ installed = t => service.job = "off" /\ ~enabled

-----------------------------------------------------------------------------
(***************************************************************************)
(* The invariant.                                                          *)
(***************************************************************************)
Waiting == {"applied", "onApplied", "committed", "onCommitted", "recovered", "stopped"}
Awaits(c) ==
  \/ user.pc \in {"applied", "onApplied"} /\ c.cmd = "apply" /\ c.tx = user.tx
  \/ user.pc \in {"committed", "onCommitted"} /\ c.cmd = "commit" /\ c.tx = user.tx
  \/ user.pc = "recovered" /\ c.cmd = "recover" /\ c.tx = recovery.tx
  \/ user.pc = "stopped" /\ c.cmd = "off"

\* One command of the user is out at a time, and its answer is the only one.
OneCommandIsOut ==
  /\ \A c \in queue : c.caller = "user" =>
       /\ reply = NoReply /\ Awaits(c)
       /\ ~(Held /\ holder.caller = "user")
       /\ \A d \in queue : d.caller = "user" => d = c
  /\ Held /\ holder.caller = "user" => reply = NoReply /\ Awaits(holder)
  /\ user.pc \in Waiting /\ reply # NoReply => Awaits(reply)

Recording == recovery # NoRecovery
Updating == {"send", "applied", "publish", "write", "commit", "committed", "finish"}
TurningOn == {"onApplied", "onWrite", "onCommit", "onCommitted"}
Recovering == {"recover", "after", "recovered", "restore", "forget", "retire"}
ReadCapture == [status : {"active", "dirty", "off"}, id : TxId, committed : BOOLEAN,
                phase : {"none", "pending", "active", "off", "dirty"}]

\* Where the user command is tells what it holds.
UserFits ==
  /\ user.pc \in {"status", "record"} => user.goal \in {"active", "recover", "after"}
  /\ user.pc \in {"status", "record"} /\ user.goal \in {"recover", "after"} => Recording
  /\ user.pc \in {"stage", "begin"} \cup TurningOn => ~Recording
  /\ user.pc \in Updating => Recording /\ user.tx = recovery.tx
  /\ user.pc \in Recovering => Recording
  /\ user.pc \in TurningOn => user.tx \in Tx \ maint
  /\ user.pc \in Updating \cup TurningOn \cup {"status", "stopped"} => user.cap = Unread
  /\ user.pc = "record" => user.cap \in [status : {"active", "dirty", "off"}]
  /\ user.pc \in {"active", "stage", "begin"} \cup Recovering =>
       /\ user.cap \in ReadCapture
       /\ user.cap.committed \/ user.cap.phase = "active" => user.cap.id \in accepted
  /\ user.pc \in {"stage", "begin"} => user.cap.phase = "active"
  /\ user.pc \in {"active", "stage", "begin"} /\ user.cap.phase = "active" => ustate = user.cap.id
  /\ user.pc \in {"publish", "write", "commit", "onWrite", "onCommit"} =>
       reply = [cmd |-> "apply", tx |-> user.tx, status |-> "ok"]
  /\ user.pc \in {"write", "commit"} => files = [f \in File |-> user.tx]
  /\ user.pc \in {"commit", "onCommit"} => ustate = user.tx
  /\ user.pc = "finish" => recovery.tx \in accepted

\* The recovery record names a fresh transaction and what it replaced.
RecordIsTrue ==
  Recording =>
    /\ recovery.tx \in maint /\ recovery.prev \in accepted /\ recovery.state = recovery.prev
    /\ recovery.tx # recovery.prev
    /\ recovery.tx \notin accepted => recovery.files = [f \in File |-> current]
    /\ recovery.tx \in accepted => current = recovery.tx /\ journal.id # recovery.prev
    /\ journal.id = recovery.prev /\ journal.phase = "active" => files = recovery.files
    /\ files # recovery.files /\ recovery.tx \notin accepted => ApplyOver(recovery.tx)

\* A commit is sent when the files and the state of its version are in place.
CommitIsPublished ==
  /\ CommitLive => ustate = journal.id
  /\ CommitLive /\ journal.id \in maint => Recording /\ recovery.tx = journal.id
  /\ Recording /\ (recovery.tx \in accepted \/ (CommitLive /\ journal.id = recovery.tx)) =>
       files = [f \in File |-> recovery.tx] /\ ustate \in {recovery.tx, NoTx}

\* What recovery decided on is still so.
Unstarted == recovery.tx \notin accepted /\ ~CommitLive
DecisionStands ==
  /\ user.pc \in {"record", "active", "recover", "after", "restore", "forget", "retire"}
        /\ user.cap.status = "off" => Inactive
  /\ user.pc \in {"record", "recover", "after", "restore"} /\ Recording /\ user.cap.status = "off"
        /\ files # recovery.files => recovery.tx \in accepted \/ Gone(recovery.tx)
  /\ user.pc \in {"recover", "after"} /\ ~CapCommitted /\ user.cap.id \in {recovery.tx, recovery.prev}
        /\ (PreviousActive \/ user.cap.status = "off") => Unstarted
  /\ user.pc \in {"recover", "after", "restore"} /\ PreviousActive =>
        files = recovery.files /\ ustate = recovery.state
  /\ user.pc = "restore" => Unstarted /\ (PreviousActive \/ user.cap.status = "off")
  /\ user.pc = "forget" => user.cap.status = "off"
  /\ user.pc \in {"forget", "retire"} =>
        \/ recovery.tx \in accepted
        \/ files = recovery.files /\ ~CommitLive

MaintenanceInv ==
  /\ TypeOK /\ OneCommandIsOut /\ UserFits /\ RecordIsTrue /\ CommitIsPublished /\ DecisionStands
  /\ FilesAreTheCommittedVersion /\ ActiveHasItsState

-----------------------------------------------------------------------------
(***************************************************************************)
(* Every step of root, as the user side sees it.                           *)
(***************************************************************************)

\* The journal: a live commit succeeds, or nothing is committed and what is live
\* or active was so before.
JournalSeen ==
  \/ /\ CommitLive /\ ~CommitLive' /\ journal.id \in Tx \ accepted
     /\ journal'.id = journal.id /\ journal'.phase = "active"
     /\ accepted' = accepted \cup {journal.id}
  \/ /\ accepted' = accepted
     /\ journal'.phase = "active" => journal.phase = "active" /\ journal'.id = journal.id
     /\ journal'.id # journal.id => journal'.id \notin accepted
     /\ CommitLive' => CommitLive /\ journal'.id = journal.id

\* The commands: one goes on, leaves, enters or is answered, or none moves.
GoingOn == UNCHANGED <<queue, reply>> /\ Held /\ Held' /\ holder'.cmd = holder.cmd
           /\ holder'.tx = holder.tx /\ holder'.caller = holder.caller
LeavingWith(status) ==
  /\ queue' = queue /\ Held /\ ~Held'
  /\ reply' = IF holder.caller = "user"
              THEN [cmd |-> holder.cmd, tx |-> holder.tx, status |-> status] ELSE reply
  /\ status = "ok" => /\ UNCHANGED <<journal, accepted>>
                      /\ \/ holder.cmd = "apply" /\ holder.pc = "verify"
                         \/ holder.cmd = "commit" /\ holder.pc = "disarm"
                         \/ holder.cmd \in {"recover", "off"} /\ journal.phase = "off"
EnteringBy(c) == c \in Runnable /\ Entered(c, holder'.pc)
AnsweringTo(c, status) ==
  /\ c \in Runnable /\ queue' = queue \ {c} /\ holder' = holder
  /\ reply' = IF c.caller = "user"
              THEN [cmd |-> c.cmd, tx |-> c.tx, status |-> status] ELSE reply
  /\ status = "ok" => c.cmd = "recover"

CommandsSeen ==
  \/ GoingOn
  \/ LeavingWith("ok") \/ LeavingWith("failed")
  \/ \E c \in Runnable : EnteringBy(c) \/ AnsweringTo(c, "ok") \/ AnsweringTo(c, "failed")
  \/ UNCHANGED <<queue, holder, reply>>

\* The disk and the service: only an apply publishes and starts, only a commit
\* enables.
ServiceSeen ==
  /\ installed' # installed =>
       Held /\ holder.cmd = "apply" /\ installed' \in {holder.tx, Partial}
  /\ service'.job # "off" /\ service.job = "off" =>
       Held /\ holder.cmd = "apply" /\ installed = holder.tx /\ installed' = installed
  /\ enabled' /\ ~enabled =>
       journal.phase = "pending" /\ installed = journal.id /\ installed' = installed
  /\ journal'.phase = "pending" =>
       \/ UNCHANGED journal
       \/ Held /\ holder.cmd = "apply" /\ journal'.id = holder.tx

RootSeen == JournalSeen /\ CommandsSeen /\ ServiceSeen /\ UNCHANGED used

\* A root step that leaves the journal and the queue alone gives no commit a
\* new chance.
LEMMA SameJournalSeen ==
  ASSUME UNCHANGED <<journal, accepted, queue>>,
         Held' /\ holder'.pc \in {"enable", "save"} => Held /\ holder.pc \in {"enable", "save"}
  PROVE  JournalSeen
  BY DEF JournalSeen, CommitLive

\* A root step that leaves the disk alone starts and enables nothing.
LEMMA SameServiceSeen ==
  ASSUME UNCHANGED <<installed, journal>>, service'.job \in {"off", service.job}, enabled' => enabled
  PROVE  ServiceSeen
  BY DEF ServiceSeen

\* A command that goes on under the control lock is seen as no answer.
LEMMA MovingSeen == ASSUME Moves, UNCHANGED queue PROVE CommandsSeen
  BY DEF Moves, CommandsSeen, GoingOn

\* A command that gives up leaves the lock and answers its caller.
LEMMA FailingSeen == ASSUME Leaves("failed"), UNCHANGED queue PROVE CommandsSeen
  BY DEF Leaves, CommandsSeen, LeavingWith

\* stopLocked as the user side sees it: it only takes activity away, and it
\* answers ok only once the journal says off.
LEMMA StopSeen == ASSUME RootInv, Stop PROVE RootSeen
<1> USE DEF RootInv, Steps, StopSteps, ApplySteps, CommitSteps
<1>1. CASE StopBlock
  <2>1. GoesOn /\ holder'.pc = "sDirty"
    BY <1>1, Going, Noting DEF StopBlock
  <2>2. UNCHANGED <<journal, accepted, queue, used, installed, service, enabled>>
    BY <1>1 DEF StopBlock, runtime
  <2> QED BY <2>1, <2>2, SameJournalSeen, SameServiceSeen, MovingSeen DEF RootSeen, GoesOn
<1>2. CASE StopDirty
  <2>1. GoesOn /\ holder'.pc = "sDisable"
    BY <1>2, Going, Noting DEF StopDirty
  <2>2. UNCHANGED <<accepted, queue, used, installed, service, enabled>>
    BY <1>2 DEF StopDirty, runtime
  <2>3. journal' = journal \/ (journal'.id = journal.id /\ journal'.phase = "dirty")
    BY <1>2, DirtyJournal DEF StopDirty
  <2>4. CASE journal' = journal
    BY <2>1, <2>2, <2>4, SameJournalSeen, SameServiceSeen, MovingSeen DEF RootSeen, GoesOn
  <2>5. CASE journal'.id = journal.id /\ journal'.phase = "dirty"
    BY <2>1, <2>2, <2>5, MovingSeen DEF RootSeen, GoesOn, JournalSeen, ServiceSeen, CommitLive
  <2> QED BY <2>3, <2>4, <2>5
<1>3. CASE StopDisable
  <2>1. GoesOn /\ holder'.pc = "sConfirm"
    BY <1>3, Going, Noting DEF StopDisable
  <2>2. UNCHANGED <<journal, accepted, queue, used, installed>>
    BY <1>3 DEF StopDisable
  <2>3. enabled' => enabled
    BY <1>3, Zenon DEF StopDisable
  <2>4. service' = service \/ service' = [service EXCEPT !.job = "off"]
    BY <1>3, Zenon DEF StopDisable
  <2>5. service'.job \in {"off", service.job}
    BY <2>4 DEF RootTypeOK
  <2> QED BY <2>1, <2>2, <2>3, <2>5, SameJournalSeen, SameServiceSeen, MovingSeen DEF RootSeen, GoesOn
<1>4. CASE StopConfirm
  <2>1. At("sConfirm") /\ Held
    BY <1>4, Holding DEF StopConfirm
  <2>2. (GoesOn /\ holder'.pc = "sMarker") \/ Leaves("failed")
    BY <1>4, <2>1, Going, Leaving DEF StopConfirm
  <2>3. UNCHANGED <<journal, accepted, queue, used, installed, service, enabled>>
    BY <1>4 DEF StopConfirm, durable, runtime
  <2> QED BY <2>2, <2>3, SameJournalSeen, SameServiceSeen, MovingSeen, FailingSeen
          DEF RootSeen, GoesOn, Leaves
<1>5. CASE StopMarker
  <2>1. GoesOn /\ holder'.pc = "sOff"
    BY <1>5, Going DEF StopMarker
  <2>2. UNCHANGED <<journal, accepted, queue, used, installed, service, enabled>>
    BY <1>5 DEF StopMarker, durable
  <2> QED BY <2>1, <2>2, SameJournalSeen, SameServiceSeen, MovingSeen DEF RootSeen, GoesOn
<1>6. CASE StopOff
  <2>1. At("sOff") /\ Held
    BY <1>6, Holding DEF StopOff
  <2>2. \/ GoesOn /\ holder'.pc = "sUnblock" /\ journal' = [journal EXCEPT !.phase = "off"]
        \/ Leaves("failed") /\ UNCHANGED journal
    BY <1>6, <2>1, Going, Leaving DEF StopOff
  <2>3. UNCHANGED <<accepted, queue, used, installed, service, enabled>>
    BY <1>6 DEF StopOff, runtime
  <2>4. CASE GoesOn /\ holder'.pc = "sUnblock" /\ journal' = [journal EXCEPT !.phase = "off"]
    <3>1. journal'.id = journal.id /\ journal'.phase = "off"
      BY <2>4 DEF RootTypeOK
    <3> QED BY <2>3, <2>4, <3>1, MovingSeen DEF RootSeen, GoesOn, JournalSeen, ServiceSeen, CommitLive
  <2>5. CASE Leaves("failed") /\ UNCHANGED journal
    BY <2>3, <2>5, SameJournalSeen, SameServiceSeen, FailingSeen DEF RootSeen, Leaves
  <2> QED BY <2>2, <2>4, <2>5
<1>7. CASE StopUnblock
  <2>1. At("sUnblock") /\ Held /\ holder \in Holder
    BY <1>7, Holding DEF StopUnblock
  <2>2. UNCHANGED <<journal, accepted, queue, used, installed, service, enabled>>
    BY <1>7 DEF StopUnblock, runtime
  <2>3. CASE holder.then = "reblock"
    <3>1. GoesOn /\ holder'.pc = "reblock"
      BY <1>7, <2>3, Going DEF StopUnblock
    <3> QED BY <2>2, <3>1, SameJournalSeen, SameServiceSeen, MovingSeen DEF RootSeen, GoesOn
  <2>4. CASE holder.then # "reblock"
    <3>1. Leaves(holder.then)
      BY <1>7, <2>1, <2>4, Leaving DEF StopUnblock, Holder
    <3>2. holder.then = "ok" => journal.phase = "off" /\ holder.cmd \in {"recover", "off"}
      BY <2>1 DEF At, HolderKnowsTheJournal, FitsItsStep, Holder
    <3>3. CommandsSeen
      BY <2>1, <2>2, <2>4, <3>1, <3>2 DEF CommandsSeen, LeavingWith, Leaves, Holder
    <3> QED BY <2>2, <3>1, <3>3, SameJournalSeen, SameServiceSeen DEF RootSeen, Leaves
  <2> QED BY <2>3, <2>4
<1> QED BY <1>1, <1>2, <1>3, <1>4, <1>5, <1>6, <1>7 DEF Stop

\* Apply as the user side sees it: a journal of its own, pending, and a start
\* of what it published.
LEMMA ApplySeen == ASSUME RootInv, Apply PROVE RootSeen
<1> USE DEF RootInv, Steps, StopSteps, ApplySteps, CommitSteps
<1>1. ASSUME NEW step \in {"owner", "stage", "check", "probe"},
             NEW next \in {"stage", "check", "probe", "block"}, Prepare(step, next)
      PROVE  RootSeen
  <2>1. At(step) /\ Held
    BY <1>1, Holding DEF Prepare
  <2>2. (GoesOn /\ holder'.pc = next) \/ Leaves("failed")
    BY <1>1, <2>1, Going, Leaving DEF Prepare
  <2>3. UNCHANGED <<journal, accepted, queue, used, installed, service, enabled>>
    BY <1>1 DEF Prepare, durable, runtime
  <2> QED BY <2>2, <2>3, SameJournalSeen, SameServiceSeen, MovingSeen, FailingSeen
          DEF RootSeen, GoesOn, Leaves
<1>2. ASSUME NEW step \in {"block", "reblock"}, NEW next \in {"pend", "repend"},
             ApplyBlock(step, next)
      PROVE  RootSeen
  <2>1. At(step) /\ Held
    BY <1>2, Holding DEF ApplyBlock
  <2>2. (GoesOn /\ holder'.pc = next) \/ Leaves("failed")
    BY <1>2, <2>1, Going, Leaving DEF ApplyBlock
  <2>3. UNCHANGED <<journal, accepted, queue, used, installed, service, enabled>>
    BY <1>2 DEF ApplyBlock, runtime
  <2> QED BY <2>2, <2>3, SameJournalSeen, SameServiceSeen, MovingSeen, FailingSeen
          DEF RootSeen, GoesOn, Leaves
<1>3. ASSUME NEW step \in {"pend", "repend"}, NEW next \in {"arm", "rename"},
             ApplyPend(step, next)
      PROVE  RootSeen
  <2>1. At(step) /\ Held
    BY <1>3, Holding DEF ApplyPend
  <2>2. \/ GoesOn /\ holder'.pc = next /\ journal' = Pending(holder.tx)
        \/ Leaves("failed") /\ UNCHANGED journal
    BY <1>3, <2>1, Going, Leaving DEF ApplyPend
  <2>3. UNCHANGED <<accepted, queue, used, installed, service, enabled>>
    BY <1>3 DEF ApplyPend, runtime
  <2>4. CASE GoesOn /\ holder'.pc = next /\ journal' = Pending(holder.tx)
    <3>1. holder.cmd = "apply" /\ holder.tx \in used \ accepted
          /\ \A d \in queue : ~(d.tx = holder.tx /\ d.cmd = "commit")
      BY <2>1 DEF At, FitsItsStep, ApplyIsNew
    <3>2. ~CommitLive'
      BY <2>3, <2>4, <3>1 DEF CommitLive, Pending
    <3>3. JournalSeen
      BY <2>3, <2>4, <3>1, <3>2 DEF JournalSeen, Pending
    <3>4. ServiceSeen
      BY <2>1, <2>3, <2>4, <3>1 DEF ServiceSeen, Pending
    <3> QED BY <2>3, <2>4, <3>3, <3>4, MovingSeen DEF RootSeen, GoesOn
  <2>5. CASE Leaves("failed") /\ UNCHANGED journal
    BY <2>3, <2>5, SameJournalSeen, SameServiceSeen, FailingSeen DEF RootSeen, Leaves
  <2> QED BY <2>2, <2>4, <2>5
<1>4. CASE ApplyArm
  <2>1. Moves /\ holder'.pc = "sBlock"
    BY <1>4, Aborting, Arming DEF ApplyArm, GoesOn
  <2>2. UNCHANGED <<journal, accepted, queue, used, installed, service, enabled>>
    BY <1>4 DEF ApplyArm, durable, runtime
  <2> QED BY <2>1, <2>2, SameJournalSeen, SameServiceSeen, MovingSeen DEF RootSeen
<1>5. CASE ApplyRename
  <2>1. At("rename") /\ Held /\ holder.cmd = "apply" /\ service.job = "off" /\ ~enabled
    BY <1>5, Holding DEF ApplyRename, At, FitsItsStep, StoppedStaysStopped, Absent
  <2>2. GoesOn /\ holder'.pc \in {"rename", "unit", "sBlock"}
    BY <1>5, <2>1, Going, Aborting DEF ApplyRename
  <2>3. UNCHANGED <<journal, accepted, queue, used, service, enabled>>
        /\ installed' \in {installed, Partial, holder.tx}
    BY <1>5 DEF ApplyRename, runtime
  <2>4. ServiceSeen
    BY <2>1, <2>3 DEF ServiceSeen
  <2> QED BY <2>2, <2>3, <2>4, SameJournalSeen, MovingSeen DEF RootSeen, GoesOn
<1>6. CASE ApplyUnit
  <2>1. GoesOn /\ holder'.pc \in {"activate", "sBlock"}
    BY <1>6, Going, Aborting DEF ApplyUnit
  <2>2. UNCHANGED <<journal, accepted, queue, used, installed, service, enabled>>
    BY <1>6 DEF ApplyUnit, durable, runtime
  <2> QED BY <2>1, <2>2, SameJournalSeen, SameServiceSeen, MovingSeen DEF RootSeen, GoesOn
<1>7. CASE ApplyActivate
  <2>1. GoesOn /\ holder'.pc = "start"
    BY <1>7, Going DEF ApplyActivate
  <2>2. UNCHANGED <<journal, accepted, queue, used, installed, service, enabled>>
    BY <1>7 DEF ApplyActivate, durable
  <2> QED BY <2>1, <2>2, SameJournalSeen, SameServiceSeen, MovingSeen DEF RootSeen, GoesOn
<1>8. CASE ApplyStart
  <2>1. At("start") /\ Held /\ holder.cmd = "apply" /\ installed = holder.tx
    BY <1>8, Holding DEF ApplyStart, At, FitsItsStep, HolderKnowsTheJournal
  <2>2. GoesOn /\ holder'.pc \in {"verify", "sBlock"}
    BY <1>8, <2>1, Going, Aborting DEF ApplyStart
  <2>3. UNCHANGED <<journal, accepted, queue, used, installed, enabled>>
    BY <1>8 DEF ApplyStart, durable
  <2>4. ServiceSeen
    BY <2>1, <2>3 DEF ServiceSeen
  <2> QED BY <2>2, <2>3, <2>4, SameJournalSeen, MovingSeen DEF RootSeen, GoesOn
<1>9. CASE ApplyVerify
  <2>1. At("verify") /\ Held /\ holder.cmd = "apply"
    BY <1>9, Holding DEF ApplyVerify, At, FitsItsStep
  <2>2. (GoesOn /\ holder'.pc = "sBlock") \/ Leaves("ok")
    BY <1>9, <2>1, Aborting, Leaving DEF ApplyVerify
  <2>3. UNCHANGED <<journal, accepted, queue, used, installed, service, enabled>>
    BY <1>9 DEF ApplyVerify, durable, runtime
  <2>4. Leaves("ok") => CommandsSeen
    BY <2>1, <2>3 DEF CommandsSeen, LeavingWith, Leaves, At
  <2> QED BY <2>2, <2>3, <2>4, SameJournalSeen, SameServiceSeen, MovingSeen DEF RootSeen, GoesOn, Leaves
<1> QED BY <1>1, <1>2, <1>3, <1>4, <1>5, <1>6, <1>7, <1>8, <1>9
        DEF Apply, ApplyOwner, ApplyStage, ApplyCheck, ApplyProbe

\* Commit as the user side sees it: the one place where a transaction becomes
\* accepted and active.
LEMMA CommitSeen == ASSUME RootInv, Commit PROVE RootSeen
<1> USE DEF RootInv, Steps, StopSteps, ApplySteps, CommitSteps
<1>1. CASE CommitEnable
  <2>1. At("enable") /\ Held /\ journal.phase = "pending" /\ installed = journal.id
    BY <1>1, Holding DEF CommitEnable, At, HolderKnowsTheJournal
  <2>2. (GoesOn /\ holder'.pc = "save") \/ Leaves("failed")
    BY <1>1, <2>1, Going, Leaving DEF CommitEnable
  <2>3. UNCHANGED <<journal, accepted, queue, used, installed, service>>
    BY <1>1 DEF CommitEnable, runtime
  <2>4. ServiceSeen
    BY <2>1, <2>3 DEF ServiceSeen
  <2> QED BY <2>1, <2>2, <2>3, <2>4, SameJournalSeen, MovingSeen, FailingSeen
          DEF RootSeen, GoesOn, Leaves, At
<1>2. CASE CommitSave
  <2>1. At("save") /\ Held /\ journal.phase = "pending" /\ journal.id = holder.tx
        /\ holder.tx \in Tx /\ journal.id \notin accepted
    BY <1>2, Holding DEF CommitSave, At, HolderKnowsTheJournal, JournalIsTrue
  <2>2. \/ /\ journal' = [journal EXCEPT !.phase = "active", !.committed = TRUE]
           /\ accepted' = accepted \cup {holder.tx}
           /\ GoesOn /\ holder'.pc = "disarm"
        \/ UNCHANGED <<journal, accepted>> /\ Leaves("failed")
    BY <1>2, <2>1, Going, Leaving DEF CommitSave
  <2>3. UNCHANGED <<queue, used, installed, service, enabled>>
    BY <1>2 DEF CommitSave, runtime
  <2>4. CASE UNCHANGED <<journal, accepted>> /\ Leaves("failed")
    BY <2>3, <2>4, SameJournalSeen, SameServiceSeen, FailingSeen DEF RootSeen, Leaves
  <2>5. CASE GoesOn
    <3>1. /\ journal'.id = journal.id /\ journal'.phase = "active" /\ accepted' = accepted \cup {holder.tx}
          /\ GoesOn /\ holder'.pc = "disarm"
      BY <2>2, <2>5 DEF RootTypeOK, GoesOn, Moves, Leaves
    <3>2. JournalSeen
      BY <2>1, <3>1 DEF JournalSeen, CommitLive, At
    <3>3. ServiceSeen
      BY <2>3, <3>1 DEF ServiceSeen
    <3> QED BY <2>3, <3>1, <3>2, <3>3, MovingSeen DEF RootSeen, GoesOn
  <2> QED BY <2>2, <2>4, <2>5
<1>3. CASE CommitDisarm
  <2>1. At("disarm") /\ Held /\ holder.cmd = "commit"
    BY <1>3, Holding DEF CommitDisarm, At, FitsItsStep
  <2>2. UNCHANGED <<journal, accepted, queue, used, installed, service, enabled>>
        /\ holder' = Free /\ ~Held'
    BY <1>3 DEF CommitDisarm, durable, runtime, Held
  <2>3. LeavingWith("ok")
    BY <1>3, <2>1, <2>2 DEF LeavingWith, CommitDisarm, At
  <2> QED BY <2>2, <2>3, SameJournalSeen, SameServiceSeen DEF RootSeen, CommandsSeen
<1> QED BY <1>1, <1>2, <1>3 DEF Commit

\* The entries, refusals, starts, timers and crashes as the user side sees them.
LEMMA OthersSeen == ASSUME RootInv, RootStep, ~LockStep PROVE RootSeen
<1> USE DEF RootInv
<1>1. ASSUME NEW c \in Runnable, Enters(c) PROVE RootSeen
  <2>0. /\ c \in Command /\ (c.cmd # "recover" => c \in queue)
    BY RunnableCommand
  <2>1. UNCHANGED <<journal, accepted, used, installed, service, enabled>>
    BY <1>1 DEF Enters, ApplyEnter, CommitEnter, RecoverEnter, OffEnter, durable, runtime
  <2>2. \/ Entered(c, "owner") \/ Entered(c, "sBlock")
        \/ Entered(c, "enable") /\ c.cmd = "commit" /\ journal.phase = "pending" /\ journal.id = c.tx
    BY <1>1, <2>0, Entering DEF Enters, ApplyEnter, CommitEnter, RecoverEnter, OffEnter
  <2>3. JournalSeen
    BY <2>0, <2>1, <2>2 DEF JournalSeen, CommitLive, Entered
  <2>4. CommandsSeen
    BY <2>2 DEF CommandsSeen, EnteringBy, Entered
  <2> QED BY <2>1, <2>3, <2>4, SameServiceSeen DEF RootSeen
<1>2. ASSUME NEW c \in Runnable, RecoverNothing(c) PROVE RootSeen
  <2>1. UNCHANGED <<journal, accepted, used, installed, service, enabled, holder>> /\ (Held' <=> Held)
    BY <1>2 DEF RecoverNothing, durable, runtime, Held
  <2>2. AnsweringTo(c, "ok")
    BY <1>2 DEF AnsweringTo, RecoverNothing, Ends
  <2>3. JournalSeen
    BY <2>1, <2>2 DEF JournalSeen, CommitLive, AnsweringTo
  <2> QED BY <2>1, <2>2, <2>3, SameServiceSeen DEF RootSeen, CommandsSeen
<1>3. ASSUME NEW c \in queue, Refuse(c) PROVE RootSeen
  <2>1. UNCHANGED <<journal, accepted, used, installed, service, enabled, holder>> /\ (Held' <=> Held)
    BY <1>3 DEF Refuse, durable, runtime, Held
  <2>2. c \in Runnable /\ AnsweringTo(c, "failed")
    BY <1>3 DEF AnsweringTo, Refuse, Ends, Runnable
  <2>3. JournalSeen
    BY <2>1, <2>2 DEF JournalSeen, CommitLive, AnsweringTo
  <2> QED BY <2>1, <2>2, <2>3, SameServiceSeen DEF RootSeen, CommandsSeen
<1>4. CASE Systemd
  <2>1. UNCHANGED <<journal, accepted, queue, used, installed, enabled, holder, reply>> /\ (Held' <=> Held)
    BY <1>4 DEF Systemd, CheckStart, RunService, ServiceCrash, TimerFire, durable, runtime, Held
  <2>2. service' = service \/ service.job # "off"
    BY <1>4 DEF Systemd, CheckStart, RunService, ServiceCrash, TimerFire, runtime
  <2>3. ServiceSeen
    BY <2>1, <2>2 DEF ServiceSeen
  <2> QED BY <2>1, <2>3, SameJournalSeen DEF RootSeen, CommandsSeen
<1>5. CASE Clock
  <2>1. UNCHANGED <<journal, accepted, queue, used, installed, enabled, service, holder, reply>>
        /\ (Held' <=> Held)
    BY <1>5 DEF Clock, Expire, durable, runtime, Held
  <2> QED BY <2>1, SameJournalSeen, SameServiceSeen DEF RootSeen, CommandsSeen
<1>6. CASE Kill
  <2>1. Leaves("failed")
    BY <1>6, Leaving DEF Kill, Held
  <2>2. UNCHANGED <<journal, accepted, queue, used, installed, enabled, service>>
    BY <1>6 DEF Kill, durable, runtime
  <2> QED BY <2>1, <2>2, SameJournalSeen, SameServiceSeen, FailingSeen DEF RootSeen, Leaves
<1> QED BY <1>1, <1>2, <1>3, <1>4, <1>5, <1>6 DEF RootStep

\* Every root step as the user side sees it.
LEMMA RootStepSeen == ASSUME RootInv, RootStep PROVE RootSeen
  BY StopSeen, ApplySeen, CommitSeen, OthersSeen DEF LockStep

-----------------------------------------------------------------------------
(***************************************************************************)
(* What root steps keep for the user side.                                 *)
(***************************************************************************)

\* An answer ok that was sent stays true until the user command reads it.
LEMMA AnswersStayTrue == ASSUME RootInv, AnswersAreTrue, RootSeen PROVE AnswersAreTrue'
<1>1. CASE reply' = reply
  BY <1>1 DEF AnswersAreTrue, RootSeen, JournalSeen, Inactive
<1>2. CASE reply' # reply
  <2>1. CASE LeavingWith("ok")
    <3>1. /\ reply' = [cmd |-> holder.cmd, tx |-> holder.tx, status |-> "ok"]
          /\ UNCHANGED <<journal, accepted, queue>> /\ Held /\ ~Held'
      BY <1>2, <2>1 DEF LeavingWith
    <3>2. CASE holder.cmd = "apply" /\ holder.pc = "verify"
      BY <3>1, <3>2 DEF AnswersAreTrue, Inactive, CommitLive, RootInv, ApplyIsNew, HolderKnowsTheJournal,
                        Pending
    <3>3. CASE holder.cmd = "commit" /\ holder.pc = "disarm"
      BY <3>1, <3>3 DEF AnswersAreTrue, RootInv, HolderKnowsTheJournal
    <3>4. CASE holder.cmd \in {"recover", "off"} /\ journal.phase = "off"
      BY <3>1, <3>4 DEF AnswersAreTrue, Inactive, CommitLive
    <3> QED BY <2>1, <3>2, <3>3, <3>4 DEF LeavingWith
  <2>2. CASE LeavingWith("failed")
    BY <1>2, <2>2 DEF LeavingWith, AnswersAreTrue
  <2>3. ASSUME NEW c \in Runnable, AnsweringTo(c, "ok") \/ AnsweringTo(c, "failed")
        PROVE  AnswersAreTrue'
    BY <1>2, <2>3 DEF AnsweringTo, AnswersAreTrue
  <2> QED BY <1>2, <2>1, <2>2, <2>3 DEF RootSeen, CommandsSeen, GoingOn, EnteringBy, Entered
<1> QED BY <1>1, <1>2

\* An apply that is over stays over: its identity is not used again.
LEMMA OverStaysOver ==
  ASSUME RootInv, RootSeen, NEW t, ApplyOver(t) PROVE ApplyOver(t)'
<1>1. used' = used
  BY DEF RootSeen
<1>2. CASE GoingOn \/ LeavingWith("ok") \/ LeavingWith("failed")
  BY <1>1, <1>2 DEF ApplyOver, GoingOn, LeavingWith
<1>3. ASSUME NEW c \in Runnable, EnteringBy(c) PROVE ApplyOver(t)'
  <2>1. c.cmd # "recover" => c \in queue
    BY RunnableCommand DEF RootInv
  <2> QED BY <1>1, <1>3, <2>1 DEF ApplyOver, EnteringBy, Entered
<1>4. ASSUME NEW c \in Runnable, AnsweringTo(c, "ok") \/ AnsweringTo(c, "failed") PROVE ApplyOver(t)'
  BY <1>1, <1>4 DEF ApplyOver, AnsweringTo, Held
<1>5. CASE UNCHANGED <<queue, holder, reply>>
  BY <1>1, <1>5 DEF ApplyOver, Held
<1> QED BY <1>2, <1>3, <1>4, <1>5 DEF RootSeen, CommandsSeen

\* A transaction that failed for good starts nothing later.
LEMMA GoneStaysGone ==
  ASSUME RootInv, RootSeen, NEW t \in Tx, Gone(t) PROVE Gone(t)'
<1>1. ApplyOver(t) /\ ApplyOver(t)'
  BY OverStaysOver DEF Gone
<1>2. t \notin accepted'
  BY DEF RootSeen, JournalSeen, Gone, CommitLive, RootInv, HolderKnowsTheJournal
<1>3. ~(journal'.id = t /\ journal'.phase = "pending")
  BY <1>1 DEF RootSeen, ServiceSeen, Gone, ApplyOver
<1>4. installed' = t => installed = t
  BY <1>1, TunAssumption DEF RootSeen, ServiceSeen, ApplyOver
<1>5. installed' = t => service'.job = "off" /\ ~enabled'
  BY <1>1, <1>4 DEF RootSeen, ServiceSeen, Gone, ApplyOver
<1> QED BY <1>1, <1>2, <1>3, <1>5 DEF Gone

\* Without a commit that may succeed, nothing becomes active.
LEMMA InactiveStays ==
  ASSUME RootSeen PROVE /\ Inactive => Inactive'
                        /\ Unstarted => Unstarted' \/ recovery' # recovery
                        /\ CommitLive' => CommitLive
  BY DEF RootSeen, JournalSeen, Inactive, Unstarted

-----------------------------------------------------------------------------
(***************************************************************************)
(* A step of root beside an unmoved user side.                             *)
(***************************************************************************)
AllInv == RootInv /\ AnswersAreTrue /\ MaintenanceInv

\* The committed version changes only by the commit that the journal is pending
\* for.
LEMMA CurrentMoves ==
  ASSUME AllInv, RootSide, RootSeen
  PROVE  \/ /\ CommitLive /\ Recording /\ journal.id = recovery.tx /\ current' = recovery.tx
            /\ recovery.tx \notin accepted /\ accepted' = accepted \cup {recovery.tx}
         \/ /\ current' = current
            /\ Recording /\ recovery.tx \in accepted' => recovery.tx \in accepted
<1> USE DEF AllInv, MaintenanceInv
<1>1. current' = IF \E t \in maint : t \in accepted' \ accepted
                 THEN CHOOSE t \in maint : t \in accepted' \ accepted ELSE current
  BY DEF RootSide
<1>2. recovery.tx \in maint \/ ~Recording
  BY DEF RecordIsTrue
<1>3. CASE accepted' = accepted
  BY <1>1, <1>3
<1>4. CASE CommitLive /\ journal.id \notin accepted /\ accepted' = accepted \cup {journal.id}
  <2>1. CASE journal.id \in maint
    <3>1. Recording /\ journal.id = recovery.tx
      BY <1>4, <2>1 DEF CommitIsPublished
    <3>2. current' = recovery.tx
      BY <1>1, <1>4, <2>1, <3>1
    <3> QED BY <1>4, <3>1, <3>2
  <2>2. CASE journal.id \notin maint
    BY <1>1, <1>2, <1>4, <2>2
  <2> QED BY <2>1, <2>2
<1> QED BY <1>3, <1>4 DEF RootSeen, JournalSeen

\* A step of the root side keeps what the user side relies on, wherever the
\* maintenance command is.
LEMMA RootSideKeeps == ASSUME AllInv, RootSide PROVE AllInv'
<1> USE DEF AllInv, MaintenanceInv
<1>1. RootInv' /\ RootSeen
  BY RootStepKeeps, RootStepSeen DEF RootSide
<1>2. AnswersAreTrue'
  BY <1>1, AnswersStayTrue
<1>3. UNCHANGED <<files, ustate, recovery, user, maint>> /\ (Recording' <=> Recording)
  BY DEF RootSide, Recording
<1>4. accepted \subseteq accepted'
  BY <1>1 DEF RootSeen, JournalSeen
<1>5. current' \in TxId
  BY <1>1, CurrentMoves, TunAssumption DEF TypeOK, Recording, NoRecovery, TxId, Recovery
<1>6. TypeOK'
  BY <1>1, <1>3, <1>5 DEF TypeOK, RootInv
<1>7. OneCommandIsOut'
  <2>1. CASE GoingOn
    BY <2>1, <1>3 DEF OneCommandIsOut, GoingOn, Awaits
  <2>2. CASE LeavingWith("ok") \/ LeavingWith("failed")
    BY <2>2, <1>3 DEF OneCommandIsOut, LeavingWith, Awaits
  <2>3. ASSUME NEW c \in Runnable, EnteringBy(c) PROVE OneCommandIsOut'
    <3>1. c.caller = "user" => c \in queue
      BY DEF Runnable, RecoveryUnit
    <3> QED BY <2>3, <3>1, <1>3 DEF OneCommandIsOut, EnteringBy, Entered, Awaits
  <2>4. ASSUME NEW c \in Runnable, AnsweringTo(c, "ok") \/ AnsweringTo(c, "failed") PROVE OneCommandIsOut'
    <3>1. c.caller = "user" => c \in queue
      BY DEF Runnable, RecoveryUnit
    <3> QED BY <2>4, <3>1, <1>3 DEF OneCommandIsOut, AnsweringTo, Awaits, Held
  <2>5. CASE UNCHANGED <<queue, holder, reply>>
    BY <2>5, <1>3 DEF OneCommandIsOut, Awaits, Held
  <2> QED BY <1>1, <2>1, <2>2, <2>3, <2>4, <2>5 DEF RootSeen, CommandsSeen
<1>8. reply # NoReply => reply' = reply
  <2>1. ASSUME NEW c \in Runnable, AnsweringTo(c, "ok") \/ AnsweringTo(c, "failed"), reply # NoReply
        PROVE  reply' = reply
    BY <2>1 DEF OneCommandIsOut, AnsweringTo, Runnable, RecoveryUnit
  <2> QED BY <1>1, <2>1 DEF RootSeen, CommandsSeen, GoingOn, LeavingWith, EnteringBy, Entered, OneCommandIsOut
<1>9. UserFits'
  BY <1>3, <1>4, <1>8 DEF UserFits, NoReply
<1>10. RecordIsTrue'
  <2> SUFFICES ASSUME Recording PROVE RecordIsTrue'
    BY <1>3 DEF RecordIsTrue
  <2>1. /\ recovery.tx \in maint /\ recovery.prev \in accepted' /\ recovery.state = recovery.prev
        /\ recovery.tx # recovery.prev
    BY <1>4 DEF RecordIsTrue
  <2>2. recovery.tx \notin accepted' => recovery.files = [f \in File |-> current']
    BY <1>1, <1>4, CurrentMoves DEF RecordIsTrue
  <2>3. recovery.tx \in accepted' => current' = recovery.tx /\ journal'.id # recovery.prev
    BY <1>1, <2>1, CurrentMoves DEF RecordIsTrue, RootSeen, JournalSeen
  <2>4. journal'.id = recovery.prev /\ journal'.phase = "active" => files = recovery.files
    BY <1>1 DEF RecordIsTrue, RootSeen, JournalSeen
  <2>5. files # recovery.files /\ recovery.tx \notin accepted' => ApplyOver(recovery.tx)'
    <3> SUFFICES ASSUME files # recovery.files, recovery.tx \notin accepted PROVE ApplyOver(recovery.tx)'
      BY <1>4
    <3>1. ApplyOver(recovery.tx)
      BY DEF RecordIsTrue
    <3>2. \A t : t = recovery.tx => ApplyOver(t)'
      BY <1>1, <3>1, OverStaysOver
    <3> QED BY <1>3, <3>2 DEF ApplyOver
  <2> QED BY <1>3, <2>1, <2>2, <2>3, <2>4, <2>5 DEF RecordIsTrue
<1>11. CommitIsPublished'
  BY <1>1, <1>3, CurrentMoves DEF CommitIsPublished, RootSeen, JournalSeen
<1>12. FilesAreTheCommittedVersion'
  BY <1>1, <1>3, CurrentMoves DEF FilesAreTheCommittedVersion, Recording
<1>13. ActiveHasItsState'
  BY <1>1, <1>3 DEF ActiveHasItsState, CommitIsPublished, RootSeen, JournalSeen
<1>14. DecisionStands'
  <2>1. /\ Inactive => Inactive'
        /\ CommitLive' => CommitLive
        /\ Unstarted => Unstarted'
    BY <1>1, <1>3, InactiveStays
  <2>2. Recording /\ Gone(recovery.tx) => Gone(recovery.tx)'
    <3> SUFFICES ASSUME Recording, Gone(recovery.tx) PROVE Gone(recovery.tx)'
      OBVIOUS
    <3>1. recovery.tx \in Tx
      BY DEF TypeOK, Recording, Recovery
    <3>2. \A t \in Tx : t = recovery.tx => Gone(t)'
      BY <1>1, GoneStaysGone
    <3> QED BY <1>3, <3>1, <3>2 DEF Gone, ApplyOver
  <2> QED BY <1>3, <1>4, <2>1, <2>2 DEF DecisionStands, CapCommitted, PreviousActive
<1> QED BY <1>1, <1>2, <1>6, <1>7, <1>9, <1>10, <1>11, <1>12, <1>13, <1>14

-----------------------------------------------------------------------------
(***************************************************************************)
(* The steps of the user command.                                          *)
(***************************************************************************)

\* A maintenance command at one of its steps has the fields of one.
LEMMA UserTyped == ASSUME TypeOK, user.pc \in UserSteps PROVE user \in User
  BY DEF TypeOK, Idle, UserSteps

\* Proceed moves the maintenance command and changes nothing else of it.
LEMMA Proceeding ==
  ASSUME TypeOK, user.pc \in UserSteps, NEW step \in UserSteps, Proceed(step)
  PROVE  /\ user' \in User /\ user'.pc = step /\ user'.goal = user.goal /\ user'.tx = user.tx
         /\ user'.cap = user.cap /\ user'.failing = user.failing
  BY UserTyped DEF Proceed, User

\* Status() as the user side reads it.
LEMMA Looking ==
  ASSUME TypeOK, user.pc \in UserSteps, NEW goal \in {"active", "recover", "after"},
         Look(goal, user) \/ Look(goal, [user EXCEPT !.failing = TRUE])
  PROVE  /\ user' \in User /\ user'.pc = "status" /\ user'.goal = goal /\ user'.cap = Unread
<1>1. user \in User /\ [user EXCEPT !.failing = TRUE] \in User
  BY UserTyped DEF User
<1>2. ASSUME NEW u \in User, Look(goal, u)
      PROVE  /\ user' \in User /\ user'.pc = "status" /\ user'.goal = goal /\ user'.cap = Unread
  BY <1>2 DEF Look, User, UserSteps
<1> QED BY <1>1, <1>2

\* Idle is none of the steps.
LEMMA NoStepIsIdle == Idle.pc \notin UserSteps /\ Idle.pc = "idle"
  BY DEF Idle, UserSteps

\* A user step that leaves root's variables alone leaves what is said of them.
LEMMA RootStands ==
  ASSUME UNCHANGED rootVars
  PROVE  /\ RootInv => RootInv'
         /\ RootTypeOK => RootTypeOK'
         /\ CommitLive' <=> CommitLive
         /\ Inactive' <=> Inactive
         /\ \A t : ApplyOver(t)' <=> ApplyOver(t)
         /\ \A t : Gone(t)' <=> Gone(t)
         /\ AnswersAreTrue => AnswersAreTrue'
<1>1. UNCHANGED <<journal, blocked, marker, enabled, installed, service, resources, timer, expired,
                  holder, queue, reply, used, accepted, faults>>
  BY DEF rootVars
<1>2. Held' <=> Held
  BY <1>1 DEF Held
<1>3. RootInv => RootInv'
  BY RootNextKeeps
<1>4. RootTypeOK => RootTypeOK'
  BY <1>1 DEF RootTypeOK
<1>5. (CommitLive' <=> CommitLive) /\ (Inactive' <=> Inactive)
  BY <1>1, <1>2 DEF CommitLive, Inactive
<1>6. \A t : ApplyOver(t)' <=> ApplyOver(t)
  BY <1>1, <1>2 DEF ApplyOver
<1>7. \A t : Gone(t)' <=> Gone(t)
  BY <1>1, <1>6 DEF Gone
<1>8. AnswersAreTrue => AnswersAreTrue'
  BY <1>1, <1>5 DEF AnswersAreTrue
<1> QED BY <1>3, <1>4, <1>5, <1>6, <1>7, <1>8

\* A user whose step is not one of waiting has no command out.
NoneOut == /\ \A c \in queue : c.caller # "user"
           /\ Held => holder.caller # "user"

\* Once the answer is there, no command of the user is out.
LEMMA AnsweredMeansNoneOut ==
  ASSUME OneCommandIsOut, user.pc \notin Waiting \/ reply # NoReply
  PROVE  NoneOut
  BY DEF OneCommandIsOut, NoneOut, Awaits, Waiting

\* A user step that sends nothing keeps the one command that is out.
LEMMA OutStands ==
  ASSUME OneCommandIsOut, user.pc \notin Waiting \/ Answered,
         UNCHANGED <<queue, holder, reply>>, user'.pc \notin Waiting
  PROVE  OneCommandIsOut'
<1>1. NoneOut
  BY AnsweredMeansNoneOut DEF Answered
<1> QED BY <1>1 DEF NoneOut, OneCommandIsOut, Held

\* A user step that changes neither root's variables nor a file keeps what is
\* said of root.
LEMMA ThinkingKeeps ==
  ASSUME AllInv, UNCHANGED <<rootVars, files, ustate, recovery, maint, current>>,
         user.pc \notin Waiting \/ Answered, user'.pc \notin Waiting,
         user' \in User \cup {Idle}, UserFits', DecisionStands'
  PROVE  AllInv'
<1> USE DEF AllInv, MaintenanceInv
<1>1. UNCHANGED <<journal, accepted, queue, holder, reply, used>>
  BY DEF rootVars
<1>2. TypeOK'
  BY RootStands DEF TypeOK
<1>3. OneCommandIsOut'
  BY <1>1, OutStands
<1>4. RecordIsTrue'
  BY <1>1, RootStands DEF RecordIsTrue, Recording, ApplyOver
<1>5. CommitIsPublished'
  BY <1>1, RootStands DEF CommitIsPublished, Recording
<1>6. FilesAreTheCommittedVersion' /\ ActiveHasItsState'
  BY <1>1 DEF FilesAreTheCommittedVersion, ActiveHasItsState
<1> QED BY <1>2, <1>3, <1>4, <1>5, <1>6, RootStands

\* A user step that sends a command sends one, with no answer pending.
LEMMA Sending ==
  ASSUME AllInv, NEW cmd \in {"apply", "commit", "recover", "off"}, NEW t \in TxId,
         cmd # "off" => t \in Tx, Sudo(cmd, t)
  PROVE  /\ RootInv' /\ AnswersAreTrue'
         /\ UNCHANGED <<journal, accepted, installed, service, enabled, holder>> /\ (Held' <=> Held)
         /\ used \subseteq used'
         /\ reply' = NoReply
         /\ queue' = queue \cup {[cmd |-> cmd, tx |-> t, caller |-> "user"]}
         /\ CommitLive' => CommitLive \/ (cmd = "commit" /\ journal.id = t /\ journal.phase = "pending")
         /\ \A x : ApplyOver(x) => ApplyOver(x)' 
<1> DEFINE c == [cmd |-> cmd, tx |-> t, caller |-> "user"]
<1>1. c \in Command /\ c.caller # "timer" /\ Invoke(c)
  BY DEF Command, Sudo
<1>2. RootInv'
  BY <1>1, InvokeKeeps DEF AllInv
<1>3. /\ UNCHANGED <<journal, accepted, installed, service, enabled, holder>> /\ (Held' <=> Held)
      /\ reply' = NoReply /\ queue' = queue \cup {c}
      /\ cmd = "apply" => t \notin used /\ used' = used \cup {t}
      /\ cmd # "apply" => used' = used
  BY <1>1 DEF Invoke, runtime, Held
<1>4. AnswersAreTrue'
  BY <1>3 DEF AnswersAreTrue
<1>5. CommitLive' => CommitLive \/ (cmd = "commit" /\ journal.id = t /\ journal.phase = "pending")
  BY <1>3 DEF CommitLive
<1>6. \A x : ApplyOver(x) => ApplyOver(x)'
  BY <1>3 DEF ApplyOver
<1> QED BY <1>2, <1>3, <1>4, <1>5, <1>6

\* Sending a command keeps what is said of root.
LEMMA SendingKeeps ==
  ASSUME AllInv, NEW cmd \in {"apply", "commit", "recover", "off"}, NEW t \in TxId,
         cmd # "off" => t \in Tx, Sudo(cmd, t),
         UNCHANGED <<files, ustate, recovery, maint, current>>,
         user.pc \notin Waiting \/ Answered,
         user' \in User,
         \/ user'.pc \in {"applied", "onApplied"} /\ cmd = "apply"
         \/ user'.pc \in {"committed", "onCommitted"} /\ cmd = "commit"
         \/ user'.pc = "recovered" /\ cmd = "recover" /\ t = recovery.tx
         \/ user'.pc = "stopped" /\ cmd = "off",
         cmd \in {"apply", "commit"} => t = user'.tx,
         cmd = "commit" => /\ ustate = t
                           /\ t \notin maint \/ (Recording /\ t = recovery.tx /\ files = [f \in File |-> t]),
         UserFits'
  PROVE  AllInv'
<1> USE DEF AllInv, MaintenanceInv
<1> DEFINE c == [cmd |-> cmd, tx |-> t, caller |-> "user"]
<1>1. NoneOut
  BY AnsweredMeansNoneOut DEF Answered
<1>2. /\ RootInv' /\ AnswersAreTrue' /\ (Recording' <=> Recording)
      /\ UNCHANGED <<journal, accepted, installed, service, enabled, holder>> /\ (Held' <=> Held)
      /\ reply' = NoReply /\ queue' = queue \cup {c}
  BY Sending DEF Recording
<1>3. /\ CommitLive' => CommitLive \/ (cmd = "commit" /\ journal.id = t /\ journal.phase = "pending")
      /\ \A x : ApplyOver(x) => ApplyOver(x)'
  BY Sending
<1>4. TypeOK'
  BY <1>2 DEF TypeOK, RootInv
<1>5. OneCommandIsOut'
  BY <1>1, <1>2 DEF OneCommandIsOut, NoneOut, Awaits
<1>6. RecordIsTrue'
  BY <1>2, <1>3 DEF RecordIsTrue, ApplyOver
<1>7. CommitIsPublished'
  BY <1>2, <1>3 DEF CommitIsPublished, RecordIsTrue
<1>8. FilesAreTheCommittedVersion' /\ ActiveHasItsState'
  BY <1>2 DEF FilesAreTheCommittedVersion, ActiveHasItsState
<1>9. DecisionStands'
  BY DEF DecisionStands, Recording
<1> QED BY <1>2, <1>4, <1>5, <1>6, <1>7, <1>8, <1>9

\* A maintenance command starts with no status read.
LEMMA StartingTyped ==
  ASSUME NEW t \in TxId
  PROVE  /\ Started(t) \in User /\ Started(t).tx = t /\ Started(t).cap = Unread
         /\ Started(t).pc = "status"
  BY DEF Started, User, UserSteps

\* The user turns TUN on (cmd_tun on).
LEMMA StartOnKeeps == ASSUME AllInv, NEW t \in Tx, StartOn(t) PROVE AllInv'
<1>1. /\ user' \in User /\ user'.pc = "onApplied" /\ user'.tx = t /\ user'.cap = Unread
  BY StartingTyped DEF StartOn, User, UserSteps, TxId
<1>2. /\ Sudo("apply", t) /\ UNCHANGED <<files, ustate, recovery, maint, current>>
      /\ user.pc \notin Waiting /\ ~Recording /\ t \notin maint /\ t \in TxId
  BY DEF StartOn, Idle, Waiting, Recording, TxId
<1>3. UserFits'
  BY <1>1, <1>2 DEF UserFits, TurningOn, Updating, Recovering, Recording
<1> QED BY <1>1, <1>2, <1>3, SendingKeeps

\* The user turns TUN off.
LEMMA StartOffKeeps == ASSUME AllInv, StartOff PROVE AllInv'
<1>0. NoTx \in TxId
  BY DEF TxId
<1>1. /\ user' \in User /\ user'.pc = "stopped" /\ user'.cap = Unread
  BY <1>0, StartingTyped DEF StartOff, User, UserSteps
<1>2. /\ Sudo("off", NoTx) /\ UNCHANGED <<files, ustate, recovery, maint, current>>
      /\ user.pc \notin Waiting
  BY DEF StartOff, Idle, Waiting
<1>3. UserFits'
  BY <1>1, <1>2 DEF UserFits, TurningOn, Updating, Recovering, Recording
<1> QED BY <1>0, <1>1, <1>2, <1>3, SendingKeeps

\* refresh or upgrade starts, with a record to recover or without.
LEMMA StartMaintenanceKeeps == ASSUME AllInv, StartMaintenance PROVE AllInv'
<1>0. NoTx \in TxId
  BY DEF TxId
<1>1. /\ user' \in User /\ user'.pc = "status" /\ user'.cap = Unread
      /\ user'.goal = IF recovery = NoRecovery THEN "active" ELSE "recover"
  BY <1>0, StartingTyped DEF StartMaintenance, User
<1>2. /\ UNCHANGED <<rootVars, files, ustate, recovery, maint, current>>
      /\ user.pc \notin Waiting
  BY DEF StartMaintenance, Quiet, Idle, Waiting
<1>3. UserFits'
  BY <1>1, <1>2 DEF UserFits, TurningOn, Updating, Recovering, Recording
<1>4. DecisionStands'
  BY <1>1 DEF DecisionStands
<1> QED BY <1>1, <1>2, <1>3, <1>4, ThinkingKeeps DEF Waiting

\* tunMaintenanceActive reads the status of the root side.
LEMMA ReadStatusKeeps == ASSUME AllInv, ReadStatus PROVE AllInv'
<1> USE DEF AllInv, MaintenanceInv
<1>1. user \in User /\ user.pc = "status"
  BY UserTyped DEF ReadStatus, On, UserSteps
<1>2. Status \in {"active", "dirty", "off"}
  BY DEF Status
<1>3. /\ user' \in User /\ user'.pc = "record" /\ user'.goal = user.goal
      /\ user'.cap = [status |-> Status]
  BY <1>1, <1>2 DEF ReadStatus, User, UserSteps, Capture
<1>4. /\ UNCHANGED <<rootVars, files, ustate, recovery, maint, current>>
      /\ (Recording' <=> Recording)
  BY DEF ReadStatus, Quiet, Recording
<1>5. UserFits'
  BY <1>1, <1>2, <1>3, <1>4 DEF UserFits, TurningOn, Updating, Recovering
<1>6. Status = "off" => Absent /\ journal.phase \in {"none", "off"} /\ Inactive
  BY DEF Status, RootInv, RootTypeOK, StoppedStaysStopped, Inactive, CommitLive, HolderKnowsTheJournal
<1>7. Recording /\ Status = "off" /\ files # recovery.files =>
        recovery.tx \in accepted \/ Gone(recovery.tx)
  BY <1>6 DEF Gone, Absent, RecordIsTrue
<1>8. DecisionStands'
  BY <1>3, <1>4, <1>6, <1>7, RootStands DEF DecisionStands, Gone, ApplyOver, rootVars
<1> QED BY <1>1, <1>3, <1>4, <1>5, <1>8, ThinkingKeeps DEF Waiting

\* The journal is read after the status: root may have moved in between.
LEMMA ReadRecordKeeps == ASSUME AllInv, ReadRecord PROVE AllInv'
<1> USE DEF AllInv, MaintenanceInv
<1>1. /\ user \in User /\ user.pc = "record" /\ user.goal \in {"active", "recover", "after"}
      /\ user.cap.status \in {"active", "dirty", "off"}
  BY UserTyped DEF ReadRecord, On, UserSteps, UserFits
<1>2. /\ user'.cap \in ReadCapture /\ user'.cap.status = user.cap.status
      /\ user'.cap.id = journal.id /\ user'.cap.committed = journal.committed
      /\ user'.cap.phase = journal.phase
  BY <1>1 DEF ReadRecord, RootInv, RootTypeOK, ReadCapture, User
<1>3. /\ user' \in User /\ user'.pc = user.goal
  BY <1>1, <1>2 DEF ReadRecord, User, UserSteps, Capture, ReadCapture
<1>4. /\ UNCHANGED <<rootVars, files, ustate, recovery, maint, current>>
      /\ (Recording' <=> Recording)
  BY DEF ReadRecord, Quiet, Recording
<1>5. UNCHANGED <<journal, accepted>>
  BY <1>4 DEF rootVars
<1>6. /\ journal.phase = "active" => ustate = journal.id
      /\ journal.committed \/ journal.phase = "active" => journal.id \in accepted
  BY DEF RootInv, JournalIsTrue, ActiveHasItsState
<1>7. UserFits'
  BY <1>1, <1>2, <1>3, <1>4, <1>5, <1>6 DEF UserFits, TurningOn, Updating, Recovering
<1>8. user.cap.status = "off" => Inactive
  BY <1>1 DEF DecisionStands
<1>9. journal.phase = "active" => ~CommitLive
  BY DEF CommitLive, RootInv, HolderKnowsTheJournal
<1>10. ASSUME Recording, ~CapCommitted', journal.id \in {recovery.tx, recovery.prev},
              PreviousActive' \/ user.cap.status = "off"
       PROVE  Unstarted
  <2>1. recovery.tx \notin accepted
    BY <1>2, <1>4, <1>10 DEF CapCommitted, RecordIsTrue, RootInv, JournalIsTrue
  <2>2. ~CommitLive
    BY <1>2, <1>8, <1>9, <1>10 DEF PreviousActive, Inactive
  <2> QED BY <2>1, <2>2 DEF Unstarted
<1>11. ASSUME Recording, PreviousActive' PROVE files = recovery.files /\ ustate = recovery.state
  BY <1>2, <1>4, <1>6, <1>11 DEF PreviousActive, RecordIsTrue
<1>12. Recording /\ user.cap.status = "off" /\ files # recovery.files =>
         recovery.tx \in accepted \/ Gone(recovery.tx)
  BY <1>1 DEF DecisionStands
<1>13. user'.pc \in {"recover", "after"} => Recording
  BY <1>1, <1>3 DEF UserFits
<1>14. Unstarted' <=> Unstarted
  BY <1>4, <1>5, RootStands DEF Unstarted
<1>15. Gone(recovery.tx)' <=> Gone(recovery.tx)
  BY <1>4, RootStands DEF Gone, ApplyOver, rootVars
<1>16. DecisionStands'
  BY <1>1, <1>2, <1>3, <1>4, <1>5, <1>8, <1>10, <1>11, <1>12, <1>13, <1>14, <1>15, RootStands
     DEF DecisionStands
<1> QED BY <1>1, <1>3, <1>4, <1>7, <1>16, ThinkingKeeps DEF Waiting

\* The command ends.
LEMMA DoneKeeps ==
  ASSUME AllInv, Done, Quiet, UNCHANGED <<files, ustate, recovery>>, user.pc \notin Waiting \/ Answered
  PROVE  AllInv'
<1>1. user'.pc = "idle" /\ user' \in {Idle}
  BY DEF Done, Idle
<1>2. UserFits' /\ DecisionStands'
  BY <1>1 DEF UserFits, DecisionStands, TurningOn, Updating, Recovering
<1> QED BY <1>1, <1>2, ThinkingKeeps DEF Quiet, Waiting

\* prepareTunUpdate: goes on only where TUN is active and no record is left.
LEMMA PrepareTunUpdateKeeps == ASSUME AllInv, PrepareTunUpdate PROVE AllInv'
<1> USE DEF AllInv, MaintenanceInv
<1>1. user.pc = "active" /\ user.cap.phase = "active" /\ ~Recording
      /\ UNCHANGED <<rootVars, files, ustate, recovery, maint, current, accepted>>
  BY DEF PrepareTunUpdate, On, Recording, Quiet, rootVars
<1>2. /\ user' \in User /\ user'.pc = "stage" /\ user'.cap = user.cap
  BY <1>1, Proceeding DEF PrepareTunUpdate, UserSteps
<1>3. UserFits' /\ DecisionStands'
  BY <1>1, <1>2 DEF UserFits, DecisionStands, TurningOn, Updating, Recovering, Recording
<1> QED BY <1>1, <1>2, <1>3, ThinkingKeeps DEF Waiting

\* What root is to publish is copied; nothing durable changes.
LEMMA PrepareStagedKeeps == ASSUME AllInv, PrepareStaged PROVE AllInv'
<1> USE DEF AllInv, MaintenanceInv
<1>1. user.pc = "stage"
      /\ UNCHANGED <<rootVars, files, ustate, recovery, maint, current, accepted>>
  BY DEF PrepareStaged, On, Quiet, rootVars
<1>2. /\ user' \in User /\ user'.pc = "begin" /\ user'.cap = user.cap
  BY <1>1, Proceeding DEF PrepareStaged, UserSteps
<1>3. UserFits' /\ DecisionStands'
  BY <1>1, <1>2 DEF UserFits, DecisionStands, TurningOn, Updating, Recovering, Recording
<1> QED BY <1>1, <1>2, <1>3, ThinkingKeeps DEF Waiting

\* tunUpdateTransaction begins: the record is saved before anything is sent.
LEMMA BeginKeeps == ASSUME AllInv, NEW t \in Tx, Begin(t) PROVE AllInv'
<1> USE DEF AllInv, MaintenanceInv
<1>1. /\ user.pc = "begin" /\ t \notin used \cup maint /\ ~Recording
      /\ UNCHANGED <<rootVars, files, ustate, current>> /\ maint' = maint \cup {t}
  BY DEF Begin, On, UserFits
<1>2. /\ user.cap \in ReadCapture /\ user.cap.id \in accepted /\ ustate = user.cap.id /\ user \in User
  BY <1>1, UserTyped DEF UserFits, UserSteps
<1>3. /\ user' \in User /\ user'.pc = "send" /\ user'.tx = t /\ user'.cap = Unread
  BY <1>2 DEF Begin, User, UserSteps, TxId
<1>4. /\ recovery' = [tx |-> t, prev |-> user.cap.id, files |-> files, state |-> ustate]
      /\ recovery' \in Recovery /\ Recording'
  <2>1. t # NoTx
    BY TunAssumption
  <2> QED BY <1>2, <2>1 DEF Begin, Recovery, ReadCapture, TypeOK, Recording, NoRecovery
<1>5. UNCHANGED <<journal, accepted, queue, holder, reply, used>>
  BY <1>1 DEF rootVars
<1>6. t \notin accepted /\ journal.id # t
  BY <1>1, TunAssumption DEF RootInv, JournalIsTrue
<1>7. TypeOK'
  BY <1>1, <1>3, <1>4, RootStands DEF TypeOK
<1>8. OneCommandIsOut'
  BY <1>1, <1>3, <1>5, OutStands DEF Waiting
<1>9. UserFits'
  BY <1>3, <1>4 DEF UserFits, TurningOn, Updating, Recovering
<1>10. RecordIsTrue'
  BY <1>1, <1>2, <1>4, <1>5, <1>6 DEF RecordIsTrue, FilesAreTheCommittedVersion, Recording
<1>11. CommitIsPublished'
  BY <1>1, <1>4, <1>5, <1>6, RootStands DEF CommitIsPublished, Recording
<1>12. FilesAreTheCommittedVersion' /\ ActiveHasItsState'
  BY <1>1, <1>4, <1>5 DEF FilesAreTheCommittedVersion, ActiveHasItsState, Recording
<1>13. DecisionStands'
  BY <1>3 DEF DecisionStands
<1> QED BY <1>1, <1>7, <1>8, <1>9, <1>10, <1>11, <1>12, <1>13, RootStands

\* The command gives up before it has sent anything.
LEMMA GiveUpKeeps == ASSUME AllInv, GiveUp PROVE AllInv'
  BY DoneKeeps DEF GiveUp, On, Waiting

\* The apply is sent after the record.
LEMMA SendApplyKeeps == ASSUME AllInv, SendApply PROVE AllInv'
<1> USE DEF AllInv, MaintenanceInv
<1>1. /\ user.pc = "send" /\ Recording /\ user.tx = recovery.tx /\ user.tx \in Tx
      /\ UNCHANGED <<files, ustate, recovery, maint, current>> /\ Sudo("apply", user.tx)
  BY DEF SendApply, On, UserFits, Updating, TypeOK, Recording, Recovery
<1>2. /\ user' \in User /\ user'.pc = "applied" /\ user'.tx = user.tx /\ user'.cap = user.cap
  BY <1>1, Proceeding DEF SendApply, UserSteps
<1>3. UserFits'
  BY <1>1, <1>2 DEF UserFits, TurningOn, Updating, Recovering, Recording
<1> QED BY <1>1, <1>2, <1>3, SendingKeeps DEF Waiting, TxId

\* A failed step goes to recovery, with a fresh look at the status.
LEMMA FailKeeps ==
  ASSUME AllInv, Fail, UNCHANGED <<rootVars, files, ustate, recovery, maint, current>>,
         user.pc \in {"applied", "committed"}, Answered
  PROVE  AllInv'
<1> USE DEF AllInv, MaintenanceInv
<1>1. Recording /\ Recording'
  BY DEF UserFits, Updating, Recording
<1>2. /\ user' \in User /\ user'.pc = "status" /\ user'.goal = "recover" /\ user'.cap = Unread
  BY Looking DEF Fail, UserSteps
<1>3. UserFits' /\ DecisionStands'
  BY <1>1, <1>2 DEF UserFits, DecisionStands, TurningOn, Updating, Recovering
<1> QED BY <1>2, <1>3, ThinkingKeeps DEF Waiting

\* The answer of the apply is read.
LEMMA AppliedKeeps == ASSUME AllInv, Applied PROVE AllInv'
<1> USE DEF AllInv, MaintenanceInv
<1>1. /\ user.pc = "applied" /\ Answered
      /\ UNCHANGED <<rootVars, files, ustate, recovery, maint, current, reply>>
  BY DEF Applied, On, Quiet, rootVars
<1>2. CASE reply.status = "ok"
  <2>1. /\ user' \in User /\ user'.pc = "publish" /\ user'.tx = user.tx /\ user'.cap = user.cap
    BY <1>1, <1>2, Proceeding DEF Applied, UserSteps
  <2>2. Awaits(reply)
    BY <1>1 DEF OneCommandIsOut, Waiting, Answered
  <2>3. reply.cmd = "apply" /\ reply.tx = user.tx
    BY <1>1, <2>2 DEF Awaits
  <2>4. reply = [cmd |-> "apply", tx |-> user.tx, status |-> "ok"]
    BY <1>1, <1>2, <2>3 DEF RootInv, RootTypeOK, Reply, Answered
  <2>5. UserFits' /\ DecisionStands'
    BY <1>1, <2>1, <2>4 DEF UserFits, DecisionStands, TurningOn, Updating, Recovering, Recording
  <2> QED BY <1>1, <2>1, <2>5, ThinkingKeeps DEF Waiting
<1>3. CASE reply.status # "ok"
  BY <1>1, <1>3, FailKeeps DEF Applied
<1> QED BY <1>2, <1>3

\* The user files are published one by one, each atomically.
LEMMA PublishKeeps == ASSUME AllInv, Publish PROVE AllInv'
<1> USE DEF AllInv, MaintenanceInv
<1>1. /\ user.pc = "publish" /\ Recording /\ user.tx = recovery.tx /\ user.tx \in Tx
      /\ UNCHANGED <<ustate, recovery, maint, current>> /\ (Recording' <=> Recording)
      /\ reply = [cmd |-> "apply", tx |-> user.tx, status |-> "ok"]
  BY DEF Publish, On, UserFits, Updating, TypeOK, Recording, Recovery
<1>2. recovery.tx \notin accepted /\ Inactive /\ ApplyOver(recovery.tx)
  <2>1. reply # NoReply
    BY <1>1 DEF NoReply
  <2>2. recovery.tx \notin accepted /\ Inactive
    BY <1>1, <2>1 DEF AnswersAreTrue
  <2>3. ApplyOver(recovery.tx)
    BY <1>1 DEF ApplyOver, RootInv, ApplyIsNew, AnsweredIsPublished, Published
  <2> QED BY <2>2, <2>3
<1>3. ASSUME NEW f \in File, files' = [files EXCEPT ![f] = user.tx], UNCHANGED <<rootVars, user>>
      PROVE  AllInv'
  <2>1. TypeOK'
    BY <1>1, <1>3, RootStands DEF TypeOK, TxId
  <2>2. UNCHANGED <<journal, accepted, queue, holder, reply, used>>
    BY <1>3 DEF rootVars
  <2>3. OneCommandIsOut'
    BY <1>1, <1>3, <2>2, OutStands DEF Waiting
  <2>4. UserFits'
    BY <1>1, <1>3, <2>2 DEF UserFits, TurningOn, Updating, Recovering
  <2>5. RecordIsTrue'
    BY <1>1, <1>2, <1>3, <2>2, RootStands DEF RecordIsTrue, Inactive, ApplyOver
  <2>6. CommitIsPublished'
    BY <1>1, <1>2, <1>3, <2>2, RootStands DEF CommitIsPublished, Inactive
  <2>7. FilesAreTheCommittedVersion' /\ ActiveHasItsState'
    BY <1>1, <1>2, <2>2 DEF FilesAreTheCommittedVersion, ActiveHasItsState, Recording, Inactive
  <2>8. DecisionStands'
    BY <1>1, <1>3 DEF DecisionStands
  <2> QED BY <1>3, <2>1, <2>3, <2>4, <2>5, <2>6, <2>7, <2>8, RootStands
<1>4. ASSUME \A f \in File : files[f] = user.tx, Proceed("write"), UNCHANGED <<rootVars, files>>
      PROVE  AllInv'
  <2>1. /\ user' \in User /\ user'.pc = "write" /\ user'.tx = user.tx /\ user'.cap = user.cap
    BY <1>1, <1>4, Proceeding DEF UserSteps
  <2>2. files = [f \in File |-> user.tx]
    BY <1>4 DEF TypeOK
  <2>3. UserFits' /\ DecisionStands'
    BY <1>1, <1>4, <2>1, <2>2 DEF UserFits, DecisionStands, TurningOn, Updating, Recovering, rootVars
  <2> QED BY <1>1, <1>4, <2>1, <2>3, ThinkingKeeps DEF Waiting
<1>5. ASSUME Fault, Fail,
             UNCHANGED <<durable, runtime, timer, expired, holder, queue, reply, files>>
      PROVE  AllInv'
  <2>1. RootInv'
    BY <1>5, FaultKeeps
  <2>2. UNCHANGED <<journal, accepted, installed, service, enabled, used, holder, queue, reply>>
        /\ (Held' <=> Held)
    BY <1>5 DEF durable, runtime, Held
  <2>3. /\ CommitLive' <=> CommitLive
        /\ Inactive' <=> Inactive
        /\ \A t : ApplyOver(t)' <=> ApplyOver(t)
    BY <2>2 DEF CommitLive, Inactive, ApplyOver
  <2>4. AnswersAreTrue'
    BY <2>2, <2>3 DEF AnswersAreTrue
  <2>5. /\ user' \in User /\ user'.pc = "status" /\ user'.goal = "recover" /\ user'.cap = Unread
    BY <1>1, <1>5, Looking DEF Fail, UserSteps
  <2>6. TypeOK'
    BY <1>1, <1>5, <2>1, <2>5 DEF TypeOK, RootInv
  <2>7. OneCommandIsOut'
    BY <1>1, <2>2, <2>5, OutStands DEF Waiting
  <2>8. UserFits' /\ DecisionStands'
    BY <1>1, <2>5 DEF UserFits, DecisionStands, TurningOn, Updating, Recovering
  <2>9. RecordIsTrue'
    BY <1>1, <1>5, <2>2, <2>3 DEF RecordIsTrue, ApplyOver
  <2>10. CommitIsPublished'
    BY <1>1, <1>5, <2>2, <2>3 DEF CommitIsPublished
  <2>11. FilesAreTheCommittedVersion' /\ ActiveHasItsState'
    BY <1>1, <1>5, <2>2 DEF FilesAreTheCommittedVersion, ActiveHasItsState
  <2> QED BY <2>1, <2>4, <2>6, <2>7, <2>8, <2>9, <2>10, <2>11
<1> QED BY <1>3, <1>4, <1>5 DEF Publish

\* The user state is saved once all files are published.
LEMMA WriteStateKeeps ==
  ASSUME AllInv, NEW from, NEW next, WriteState(from, next),
         \/ from = "write" /\ next = "commit"
         \/ from = "onWrite" /\ next = "onCommit"
  PROVE  AllInv'
<1> USE DEF AllInv, MaintenanceInv
<1>1. /\ user.pc = from /\ ustate' = user.tx
      /\ UNCHANGED <<rootVars, files, recovery, maint, current>> /\ (Recording' <=> Recording)
      /\ reply = [cmd |-> "apply", tx |-> user.tx, status |-> "ok"]
      /\ user.tx \in TxId
  BY UserTyped DEF WriteState, On, UserFits, Quiet, Recording, User, UserSteps
<1>2. user.tx \notin accepted /\ Inactive
  BY <1>1 DEF AnswersAreTrue, NoReply
<1>3. /\ user' \in User /\ user'.pc = next /\ user'.tx = user.tx /\ user'.cap = user.cap
  BY <1>1, Proceeding DEF WriteState, UserSteps
<1>4. UNCHANGED <<journal, accepted, queue, holder, reply, used>>
  BY <1>1 DEF rootVars
<1>5. TypeOK'
  BY <1>1, <1>3, RootStands DEF TypeOK
<1>6. OneCommandIsOut'
  BY <1>1, <1>3, <1>4, OutStands DEF Waiting
<1>7. UserFits' /\ DecisionStands'
  BY <1>1, <1>3, <1>4 DEF UserFits, DecisionStands, TurningOn, Updating, Recovering
<1>8. RecordIsTrue'
  BY <1>1, <1>4, RootStands DEF RecordIsTrue, ApplyOver
<1>9. Recording => from = "write" /\ user.tx = recovery.tx
  BY <1>1 DEF UserFits, TurningOn, Updating
<1>10. CommitIsPublished'
  BY <1>1, <1>2, <1>4, <1>9, RootStands DEF CommitIsPublished, Inactive
<1>11. FilesAreTheCommittedVersion' /\ ActiveHasItsState'
  BY <1>1, <1>2, <1>4 DEF FilesAreTheCommittedVersion, ActiveHasItsState, Inactive
<1> QED BY <1>1, <1>5, <1>6, <1>7, <1>8, <1>10, <1>11, RootStands

\* The commit is sent last, when the files and the state are in place.
LEMMA SendCommitKeeps ==
  ASSUME AllInv, NEW from, NEW next, SendCommit(from, next),
         \/ from = "commit" /\ next = "committed"
         \/ from = "onCommit" /\ next = "onCommitted"
  PROVE  AllInv'
<1> USE DEF AllInv, MaintenanceInv
<1>1. /\ user.pc = from /\ Sudo("commit", user.tx) /\ ustate = user.tx
      /\ UNCHANGED <<files, ustate, recovery, maint, current>>
  BY DEF SendCommit, On, UserFits
<1>2. /\ user' \in User /\ user'.pc = next /\ user'.tx = user.tx /\ user'.cap = user.cap
  BY <1>1, Proceeding DEF SendCommit, UserSteps
<1>3. /\ user.tx \in Tx
      /\ user.tx \notin maint \/ (Recording /\ user.tx = recovery.tx /\ files = [f \in File |-> user.tx])
  BY <1>1 DEF UserFits, Updating, TurningOn, TypeOK, Recording, Recovery
<1>4. UserFits'
  BY <1>1, <1>2 DEF UserFits, TurningOn, Updating, Recovering, Recording
<1>5. user.pc \notin Waiting
  BY <1>1 DEF Waiting
<1>6. user'.pc \in {"committed", "onCommitted"} /\ user.tx \in TxId
  BY <1>2, <1>3 DEF TxId
<1> QED BY <1>1, <1>2, <1>3, <1>4, <1>5, <1>6, SendingKeeps

\* The answer of the commit is read.
LEMMA CommittedKeeps == ASSUME AllInv, Committed PROVE AllInv'
<1> USE DEF AllInv, MaintenanceInv
<1>1. /\ user.pc = "committed" /\ Answered
      /\ UNCHANGED <<rootVars, files, ustate, recovery, maint, current, reply, accepted>>
  BY DEF Committed, On, Quiet, rootVars
<1>2. CASE reply.status = "ok"
  <2>1. /\ user' \in User /\ user'.pc = "finish" /\ user'.tx = user.tx /\ user'.cap = user.cap
    BY <1>1, <1>2, Proceeding DEF Committed, UserSteps
  <2>2. Awaits(reply)
    BY <1>1 DEF OneCommandIsOut, Waiting, Answered
  <2>3. reply.cmd = "commit" /\ reply.tx = user.tx /\ user.tx = recovery.tx
    BY <1>1, <2>2 DEF Awaits, UserFits, Updating
  <2>4. recovery.tx \in accepted
    BY <1>1, <1>2, <2>3 DEF AnswersAreTrue, Answered
  <2>5. UserFits' /\ DecisionStands'
    BY <1>1, <2>1, <2>4 DEF UserFits, DecisionStands, TurningOn, Updating, Recovering, Recording
  <2> QED BY <1>1, <2>1, <2>5, ThinkingKeeps DEF Waiting
<1>3. CASE reply.status # "ok"
  BY <1>1, <1>3, FailKeeps DEF Committed
<1> QED BY <1>2, <1>3

\* The record is dropped: what it protected is settled.
LEMMA RecordGoes ==
  ASSUME AllInv, Recording, recovery' = NoRecovery,
         UNCHANGED <<rootVars, files, ustate, maint, current>>,
         user.pc \notin Waiting, user'.pc \notin Waiting, user' \in User \cup {Idle},
         recovery.tx \in accepted \/ (files = recovery.files /\ ~CommitLive),
         UserFits', DecisionStands'
  PROVE  AllInv'
<1> USE DEF AllInv, MaintenanceInv
<1>1. UNCHANGED <<journal, accepted, queue, holder, reply, used>> /\ ~Recording'
  BY DEF rootVars, Recording
<1>2. TypeOK'
  BY RootStands DEF TypeOK
<1>3. OneCommandIsOut'
  BY <1>1, OutStands
<1>4. RecordIsTrue'
  BY <1>1 DEF RecordIsTrue
<1>5. files = [f \in File |-> current]
  BY DEF RecordIsTrue, CommitIsPublished
<1>6. CommitLive => journal.id \notin maint
  BY DEF CommitIsPublished, CommitLive, RootInv, HolderKnowsTheJournal, JournalIsTrue
<1>7. CommitIsPublished'
  BY <1>1, <1>6, RootStands DEF CommitIsPublished
<1>8. FilesAreTheCommittedVersion' /\ ActiveHasItsState'
  BY <1>1, <1>5 DEF FilesAreTheCommittedVersion, ActiveHasItsState
<1> QED BY <1>2, <1>3, <1>4, <1>7, <1>8, RootStands

\* The update is over and drops its record.
LEMMA FinishKeeps == ASSUME AllInv, Finish PROVE AllInv'
<1> USE DEF AllInv, MaintenanceInv
<1>1. /\ user.pc = "finish" /\ Recording /\ recovery.tx \in accepted /\ recovery' = NoRecovery
      /\ UNCHANGED <<rootVars, files, ustate, maint, current>> /\ user' = Idle /\ user'.pc = "idle"
  BY DEF Finish, On, UserFits, Updating, Quiet, Done, Idle
<1>2. UserFits' /\ DecisionStands'
  BY <1>1 DEF UserFits, DecisionStands, TurningOn, Updating, Recovering
<1> QED BY <1>1, <1>2, RecordGoes DEF Waiting

-----------------------------------------------------------------------------
(***************************************************************************)
(* Recovery.                                                               *)
(***************************************************************************)

\* recoverTunUpdate decides from the status it has read.
LEMMA SettleKeeps ==
  ASSUME AllInv, Settle, Quiet, UNCHANGED <<files, ustate, recovery>>,
         user.pc \in {"recover", "after"}, user.cap.id \in {recovery.tx, recovery.prev}
  PROVE  AllInv'
<1> USE DEF AllInv, MaintenanceInv
<1>1. /\ UNCHANGED <<rootVars, files, ustate, recovery, maint, current, accepted>>
      /\ user.pc \notin Waiting /\ Recording /\ (Recording' <=> Recording)
      /\ user.pc \in UserSteps /\ user.cap \in ReadCapture
  BY DEF Quiet, rootVars, Waiting, UserFits, Recovering, Recording, UserSteps
<1>2. CASE Done
  BY <1>1, <1>2, DoneKeeps
<1>3. CASE CapCommitted /\ (Proceed("retire") \/ (Proceed("forget") /\ user.cap.status = "off"))
  <2>1. recovery.tx \in accepted
    BY <1>1, <1>3 DEF CapCommitted, UserFits, Recovering
  <2>2. /\ user' \in User /\ user'.pc \in {"retire", "forget"} /\ user'.cap = user.cap
        /\ user'.pc = "forget" => user.cap.status = "off"
    BY <1>1, <1>3, Proceeding DEF UserSteps
  <2>3. UserFits'
    BY <1>1, <2>2 DEF UserFits, TurningOn, Updating, Recovering
  <2>4. DecisionStands'
    BY <1>1, <2>1, <2>2, RootStands DEF DecisionStands
  <2> QED BY <1>1, <2>2, <2>3, <2>4, ThinkingKeeps DEF Waiting
<1>4. CASE ~CapCommitted /\ (PreviousActive \/ user.cap.status = "off") /\ Proceed("restore")
  <2>1. Unstarted
    BY <1>1, <1>4 DEF DecisionStands
  <2>2. /\ user' \in User /\ user'.pc = "restore" /\ user'.cap = user.cap
    BY <1>1, <1>4, Proceeding DEF UserSteps
  <2>3. UserFits'
    BY <1>1, <2>2 DEF UserFits, TurningOn, Updating, Recovering
  <2>4. /\ Unstarted' <=> Unstarted
        /\ PreviousActive' <=> PreviousActive
        /\ Gone(recovery.tx)' <=> Gone(recovery.tx)
    BY <1>1, <2>2, RootStands DEF Unstarted, PreviousActive, Gone, ApplyOver, rootVars
  <2>5. DecisionStands'
    BY <1>1, <1>4, <2>1, <2>2, <2>4, RootStands DEF DecisionStands
  <2> QED BY <1>1, <2>2, <2>3, <2>5, ThinkingKeeps DEF Waiting
<1> QED BY <1>2, <1>3, <1>4 DEF Settle

\* Its first decision.
LEMMA RecoverDecideKeeps == ASSUME AllInv, RecoverDecide PROVE AllInv'
  BY SettleKeeps, DoneKeeps DEF RecoverDecide, On, Waiting

\* The journal names neither the transaction of the record nor its predecessor
\* in a state to settle: recovery stops.
LEMMA RecoverForeignKeeps == ASSUME AllInv, RecoverForeign PROVE AllInv'
  BY DoneKeeps DEF RecoverForeign, On, Waiting

\* Recovery asks root to recover the unfinished transaction.
LEMMA RecoverAskKeeps == ASSUME AllInv, RecoverAsk PROVE AllInv'
<1> USE DEF AllInv, MaintenanceInv
<1>1. /\ user.pc = "recover" /\ Recording /\ recovery.tx \in Tx
      /\ UNCHANGED <<files, ustate, recovery, maint, current>> /\ Sudo("recover", recovery.tx)
  BY DEF RecoverAsk, On, UserFits, Recovering, TypeOK, Recording, Recovery
<1>2. /\ user' \in User /\ user'.pc = "recovered" /\ user'.tx = user.tx /\ user'.cap = user.cap
  BY <1>1, Proceeding DEF RecoverAsk, UserSteps
<1>3. UNCHANGED accepted
  BY <1>1 DEF Sudo, Invoke
<1>4. UserFits'
  BY <1>1, <1>2, <1>3 DEF UserFits, TurningOn, Updating, Recovering, Recording
<1> QED BY <1>1, <1>2, <1>4, SendingKeeps DEF Waiting, TxId

\* The answer of the recovery is read.
LEMMA RecoverAnswerKeeps == ASSUME AllInv, RecoverAnswer PROVE AllInv'
<1> USE DEF AllInv, MaintenanceInv
<1>1. /\ user.pc = "recovered" /\ Answered /\ Recording /\ (Recording' <=> Recording)
      /\ UNCHANGED <<rootVars, files, ustate, recovery, maint, current>>
  BY DEF RecoverAnswer, On, Quiet, UserFits, Recovering, Recording
<1>2. CASE Done
  BY <1>1, <1>2, DoneKeeps DEF RecoverAnswer
<1>3. CASE Look("after", user)
  <2>1. /\ user' \in User /\ user'.pc = "status" /\ user'.goal = "after" /\ user'.cap = Unread
    BY <1>1, <1>3, Looking DEF UserSteps
  <2>2. UserFits' /\ DecisionStands'
    BY <1>1, <2>1 DEF UserFits, DecisionStands, TurningOn, Updating, Recovering
  <2> QED BY <1>1, <2>1, <2>2, ThinkingKeeps DEF Waiting
<1> QED BY <1>2, <1>3 DEF RecoverAnswer

\* Its second decision, after a second look.
LEMMA RecoverAfterKeeps == ASSUME AllInv, RecoverAfter PROVE AllInv'
  BY SettleKeeps, DoneKeeps DEF RecoverAfter, On, Waiting

\* The previous files are put back one by one.
LEMMA RestoreKeeps == ASSUME AllInv, Restore PROVE AllInv'
<1> USE DEF AllInv, MaintenanceInv
<1>1. /\ user.pc = "restore" /\ Recording /\ (Recording' <=> Recording) /\ recovery \in Recovery
      /\ UNCHANGED <<recovery, maint, current>>
      /\ Unstarted /\ (PreviousActive \/ user.cap.status = "off")
      /\ PreviousActive => files = recovery.files /\ ustate = recovery.state
      /\ user.cap.status = "off" => Inactive
  BY DEF Restore, On, UserFits, Recovering, DecisionStands, Recording, TypeOK
<1>2. ASSUME UNCHANGED <<rootVars, user>>,
             files' \in [File -> TxId], ustate' \in TxId,
             \/ files # recovery.files /\ UNCHANGED ustate
             \/ ustate # recovery.state /\ UNCHANGED files
      PROVE  AllInv'
  <2>1. user.cap.status = "off" /\ ~PreviousActive /\ Inactive
    BY <1>1, <1>2
  <2>2. UNCHANGED <<journal, accepted, queue, holder, reply, used, installed, service, enabled>>
    BY <1>2 DEF rootVars
  <2>3. TypeOK'
    BY <1>1, <1>2, RootStands DEF TypeOK
  <2>4. OneCommandIsOut'
    BY <1>1, <1>2, <2>2, OutStands DEF Waiting
  <2>5. UserFits'
    BY <1>1, <1>2, <2>2 DEF UserFits, TurningOn, Updating, Recovering
  <2>6. files' # files => files # recovery.files
    BY <1>2
  <2>7. journal.phase # "active" /\ ~CommitLive /\ recovery.tx \notin accepted
    BY <1>1, <2>1 DEF Inactive, Unstarted
  <2>8. files' # recovery.files => files # recovery.files
    BY <2>6
  <2>9. RecordIsTrue'
    BY <1>1, <1>2, <2>2, <2>7, <2>8, RootStands DEF RecordIsTrue, ApplyOver
  <2>10. CommitIsPublished'
    BY <1>1, <1>2, <2>2, <2>7, RootStands DEF CommitIsPublished
  <2>11. FilesAreTheCommittedVersion' /\ ActiveHasItsState'
    BY <1>1, <2>2, <2>7 DEF FilesAreTheCommittedVersion, ActiveHasItsState, Recording
  <2>12. /\ Unstarted' <=> Unstarted
         /\ PreviousActive' <=> PreviousActive
         /\ Gone(recovery.tx)' <=> Gone(recovery.tx)
    BY <1>1, <1>2, <2>2, RootStands DEF Unstarted, PreviousActive, Gone, ApplyOver
  <2>13. DecisionStands'
    BY <1>1, <1>2, <2>1, <2>2, <2>8, <2>12, RootStands DEF DecisionStands
  <2> QED BY <1>2, <2>3, <2>4, <2>5, <2>9, <2>10, <2>11, <2>13, RootStands
<1>3. ASSUME NEW f \in File, files[f] # recovery.files[f],
             files' = [files EXCEPT ![f] = recovery.files[f]], UNCHANGED <<rootVars, ustate, user>>
      PROVE  AllInv'
  <2>1. files' \in [File -> TxId] /\ files # recovery.files /\ ustate' \in TxId
    BY <1>1, <1>3 DEF TypeOK, Recovery
  <2> QED BY <1>2, <1>3, <2>1
<1>4. ASSUME ustate # recovery.state, ustate' = recovery.state, UNCHANGED <<rootVars, files, user>>
      PROVE  AllInv'
  <2>1. files' \in [File -> TxId] /\ ustate' \in TxId
    BY <1>1, <1>4 DEF TypeOK, Recovery
  <2> QED BY <1>2, <1>4, <2>1
<1>5. ASSUME files = recovery.files, ustate = recovery.state,
             Proceed(IF PreviousActive THEN "retire" ELSE "forget"), UNCHANGED <<rootVars, files, ustate>>
      PROVE  AllInv'
  <2>1. /\ user' \in User /\ user'.cap = user.cap
        /\ user'.pc \in {"retire", "forget"} /\ (user'.pc = "forget" => ~PreviousActive)
    BY <1>1, <1>5, Proceeding DEF UserSteps
  <2>2. UNCHANGED accepted
    BY <1>5 DEF rootVars
  <2>3. UserFits'
    BY <1>1, <2>1, <2>2 DEF UserFits, TurningOn, Updating, Recovering
  <2>4. DecisionStands'
    BY <1>1, <1>5, <2>1, RootStands DEF DecisionStands, Unstarted
  <2> QED BY <1>1, <1>5, <2>1, <2>3, <2>4, ThinkingKeeps DEF Waiting
<1>6. ASSUME Fault, Done,
             UNCHANGED <<durable, runtime, timer, expired, holder, queue, reply, files, ustate>>
      PROVE  AllInv'
  <2>1. RootInv'
    BY <1>6, FaultKeeps
  <2>2. UNCHANGED <<journal, accepted, installed, service, enabled, used, holder, queue, reply>>
        /\ (Held' <=> Held)
    BY <1>6 DEF durable, runtime, Held
  <2>3. /\ CommitLive' <=> CommitLive
        /\ Inactive' <=> Inactive
        /\ \A t : ApplyOver(t)' <=> ApplyOver(t)
    BY <2>2 DEF CommitLive, Inactive, ApplyOver
  <2>4. AnswersAreTrue'
    BY <2>2, <2>3 DEF AnswersAreTrue
  <2>5. user' \in {Idle} /\ user'.pc = "idle"
    BY <1>6 DEF Done, Idle
  <2>6. TypeOK'
    BY <1>1, <1>6, <2>1, <2>5 DEF TypeOK, RootInv
  <2>7. OneCommandIsOut'
    BY <1>1, <2>2, <2>5, OutStands DEF Waiting
  <2>8. UserFits' /\ DecisionStands'
    BY <2>5 DEF UserFits, DecisionStands, TurningOn, Updating, Recovering
  <2>9. RecordIsTrue'
    BY <1>1, <1>6, <2>2, <2>3 DEF RecordIsTrue, ApplyOver
  <2>10. CommitIsPublished'
    BY <1>1, <1>6, <2>2, <2>3 DEF CommitIsPublished
  <2>11. FilesAreTheCommittedVersion' /\ ActiveHasItsState'
    BY <1>1, <1>6, <2>2 DEF FilesAreTheCommittedVersion, ActiveHasItsState
  <2> QED BY <2>1, <2>4, <2>6, <2>7, <2>8, <2>9, <2>10, <2>11
<1> QED BY <1>3, <1>4, <1>5, <1>6 DEF Restore

\* The state record of a version that captures no more may go.
LEMMA StateForgotten ==
  ASSUME AllInv, UNCHANGED <<rootVars, files, recovery, maint, current>>, ustate' = NoTx, Inactive,
         user.pc \notin Waiting \/ Answered, user'.pc \notin Waiting,
         user' \in User \cup {Idle}, UserFits', DecisionStands'
  PROVE  AllInv'
<1> USE DEF AllInv, MaintenanceInv
<1>1. UNCHANGED <<journal, accepted, queue, holder, reply, used>>
  BY DEF rootVars
<1>2. TypeOK'
  BY RootStands DEF TypeOK, TxId
<1>3. OneCommandIsOut'
  BY <1>1, OutStands
<1>4. RecordIsTrue'
  BY <1>1, RootStands DEF RecordIsTrue, Recording, ApplyOver
<1>5. CommitIsPublished'
  BY <1>1, RootStands DEF CommitIsPublished, Recording, Inactive
<1>6. FilesAreTheCommittedVersion' /\ ActiveHasItsState'
  BY <1>1 DEF FilesAreTheCommittedVersion, ActiveHasItsState, Inactive
<1> QED BY <1>2, <1>3, <1>4, <1>5, <1>6, RootStands

\* The state record is dropped when TUN is off.
LEMMA ForgetKeeps == ASSUME AllInv, Forget PROVE AllInv'
<1> USE DEF AllInv, MaintenanceInv
<1>1. /\ user.pc = "forget" /\ Recording /\ (Recording' <=> Recording) /\ ustate' = NoTx /\ Inactive
      /\ UNCHANGED <<rootVars, files, recovery, maint, current, accepted>>
  BY DEF Forget, On, Quiet, UserFits, Recovering, DecisionStands, Recording, rootVars
<1>2. /\ user' \in User /\ user'.pc = "retire" /\ user'.cap = user.cap
  BY <1>1, Proceeding DEF Forget, UserSteps
<1>3. UserFits'
  BY <1>1, <1>2 DEF UserFits, TurningOn, Updating, Recovering
<1>4. DecisionStands'
  BY <1>1, <1>2, RootStands DEF DecisionStands
<1> QED BY <1>1, <1>2, <1>3, <1>4, StateForgotten DEF Waiting

\* The recovery record is dropped last; a command with nothing to fail goes on.
LEMMA RetireKeeps == ASSUME AllInv, Retire PROVE AllInv'
<1> USE DEF AllInv, MaintenanceInv
<1>1. /\ user.pc = "retire" /\ Recording /\ recovery' = NoRecovery
      /\ UNCHANGED <<rootVars, files, ustate, maint, current>>
      /\ recovery.tx \in accepted \/ (files = recovery.files /\ ~CommitLive)
  BY DEF Retire, On, Quiet, UserFits, Recovering, DecisionStands
<1>2. /\ user' \in User \cup {Idle}
      /\ user'.pc = "idle" \/ (user'.pc = "status" /\ user'.goal = "active" /\ user'.cap = Unread)
  BY <1>1, Looking DEF Retire, UserSteps, Done, Idle
<1>3. UserFits' /\ DecisionStands'
  BY <1>2 DEF UserFits, DecisionStands, TurningOn, Updating, Recovering
<1> QED BY <1>1, <1>2, <1>3, RecordGoes DEF Waiting

-----------------------------------------------------------------------------
(***************************************************************************)
(* The rest of "sbc tun on" and "sbc tun off".                             *)
(***************************************************************************)

\* The user's own apply is answered.
LEMMA OnAppliedKeeps == ASSUME AllInv, OnApplied PROVE AllInv'
<1> USE DEF AllInv, MaintenanceInv
<1>1. /\ user.pc = "onApplied" /\ Answered
      /\ UNCHANGED <<rootVars, files, ustate, recovery, maint, current, reply>>
  BY DEF OnApplied, On, Quiet, rootVars
<1>2. CASE reply.status = "ok"
  <2>1. /\ user' \in User /\ user'.pc = "onWrite" /\ user'.tx = user.tx /\ user'.cap = user.cap
    BY <1>1, <1>2, Proceeding DEF OnApplied, UserSteps
  <2>2. Awaits(reply)
    BY <1>1 DEF OneCommandIsOut, Waiting, Answered
  <2>3. reply.cmd = "apply" /\ reply.tx = user.tx
    BY <1>1, <2>2 DEF Awaits
  <2>4. reply = [cmd |-> "apply", tx |-> user.tx, status |-> "ok"]
    BY <1>1, <1>2, <2>3 DEF RootInv, RootTypeOK, Reply, Answered
  <2>5. UserFits' /\ DecisionStands'
    BY <1>1, <2>1, <2>4 DEF UserFits, DecisionStands, TurningOn, Updating, Recovering, Recording
  <2> QED BY <1>1, <2>1, <2>5, ThinkingKeeps DEF Waiting
<1>3. CASE reply.status # "ok"
  BY <1>1, <1>3, DoneKeeps DEF OnApplied
<1> QED BY <1>2, <1>3

\* A failed write of the state, or a failed commit, asks root to turn capture off.
LEMMA OnOffKeeps == ASSUME AllInv, OnOff PROVE AllInv'
<1> USE DEF AllInv, MaintenanceInv
<1>1. /\ user.pc \in {"onWrite", "onCommitted"} /\ (user.pc \notin Waiting \/ Answered)
      /\ UNCHANGED <<files, ustate, recovery, maint, current>> /\ Sudo("off", NoTx) /\ NoTx \in TxId
  BY DEF OnOff, On, Waiting, TxId
<1>2. /\ user' \in User /\ user'.pc = "stopped" /\ user'.tx = user.tx /\ user'.cap = user.cap
  BY <1>1, Proceeding DEF OnOff, UserSteps
<1>3. UserFits'
  BY <1>1, <1>2 DEF UserFits, TurningOn, Updating, Recovering, Recording
<1> QED BY <1>1, <1>2, <1>3, SendingKeeps

\* Its commit is answered.
LEMMA OnCommittedKeeps == ASSUME AllInv, OnCommitted PROVE AllInv'
  BY DoneKeeps DEF OnCommitted

\* The off is answered: the state record goes only after an answered off.
LEMMA StoppedKeeps == ASSUME AllInv, Stopped PROVE AllInv'
<1> USE DEF AllInv, MaintenanceInv
<1>1. /\ user.pc = "stopped" /\ Answered /\ Done /\ Quiet /\ user' = Idle /\ user'.pc = "idle"
      /\ UNCHANGED <<rootVars, files, recovery, maint, current>>
  BY DEF Stopped, On, Quiet, Done, Idle
<1>2. UserFits' /\ DecisionStands'
  BY <1>1 DEF UserFits, DecisionStands, TurningOn, Updating, Recovering
<1>3. CASE reply.status = "ok"
  <2>1. Awaits(reply)
    BY <1>1 DEF OneCommandIsOut, Waiting, Answered
  <2>2. Inactive
    BY <1>1, <1>3, <2>1 DEF Awaits, AnswersAreTrue, Answered
  <2>3. ustate' = NoTx
    BY <1>3 DEF Stopped
  <2> QED BY <1>1, <1>2, <2>2, <2>3, StateForgotten DEF Waiting
<1>4. CASE reply.status # "ok"
  BY <1>1, <1>4, DoneKeeps DEF Stopped
<1> QED BY <1>3, <1>4

\* Every step of a user command.
LEMMA UserStepKeeps == ASSUME AllInv, UserStep PROVE AllInv'
<1>1. CASE \E t \in Tx : StartOn(t) \/ Begin(t)
  BY <1>1, StartOnKeeps, BeginKeeps
<1>2. CASE StartOff \/ StartMaintenance \/ ReadStatus \/ ReadRecord
           \/ PrepareTunUpdate \/ PrepareStaged \/ GiveUp
  BY <1>2, StartOffKeeps, StartMaintenanceKeeps, ReadStatusKeeps, ReadRecordKeeps,
     PrepareTunUpdateKeeps, PrepareStagedKeeps, GiveUpKeeps
<1>3. CASE SendApply \/ Applied \/ Publish \/ Committed \/ Finish
  BY <1>3, SendApplyKeeps, AppliedKeeps, PublishKeeps, CommittedKeeps, FinishKeeps
<1>4. CASE \/ WriteState("write", "commit") \/ WriteState("onWrite", "onCommit")
           \/ SendCommit("commit", "committed") \/ SendCommit("onCommit", "onCommitted")
  BY <1>4, WriteStateKeeps, SendCommitKeeps
<1>5. CASE RecoverDecide \/ RecoverForeign \/ RecoverAsk \/ RecoverAnswer \/ RecoverAfter
           \/ Restore \/ Forget \/ Retire
  BY <1>5, RecoverDecideKeeps, RecoverForeignKeeps, RecoverAskKeeps, RecoverAnswerKeeps,
     RecoverAfterKeeps, RestoreKeeps, ForgetKeeps, RetireKeeps
<1>6. CASE OnApplied \/ OnOff \/ OnCommitted \/ Stopped
  BY <1>6, OnAppliedKeeps, OnOffKeeps, OnCommittedKeeps, StoppedKeeps
<1> QED BY <1>1, <1>2, <1>3, <1>4, <1>5, <1>6 DEF UserStep

-----------------------------------------------------------------------------
(***************************************************************************)
(* The death of the user command and of the machine.                       *)
(***************************************************************************)

\* What a death of the user's process leaves: root's durable state and the
\* record on disk.
LEMMA CrashKeeps ==
  ASSUME AllInv, RootInv', Done, UNCHANGED <<durable, files, ustate, recovery, maint, current>>,
         reply' = NoReply, CommitLive' => CommitLive,
         \A c \in queue' : c.caller # "user", Held' => holder'.caller # "user",
         \A t : ApplyOver(t) => ApplyOver(t)'
  PROVE  AllInv'
<1> USE DEF AllInv, MaintenanceInv
<1>1. user' \in {Idle} /\ user'.pc = "idle"
  BY DEF Done, Idle
<1>2. UNCHANGED <<journal, accepted, used>> /\ (Recording' <=> Recording)
  BY DEF durable, Recording
<1>3. AnswersAreTrue'
  BY DEF AnswersAreTrue
<1>4. TypeOK'
  BY <1>1 DEF TypeOK, RootInv
<1>5. OneCommandIsOut'
  BY <1>1 DEF OneCommandIsOut, Waiting
<1>6. UserFits' /\ DecisionStands'
  BY <1>1 DEF UserFits, DecisionStands, TurningOn, Updating, Recovering
<1>7. RecordIsTrue'
  BY <1>2 DEF RecordIsTrue, ApplyOver
<1>8. CommitIsPublished'
  BY <1>2 DEF CommitIsPublished
<1>9. FilesAreTheCommittedVersion' /\ ActiveHasItsState'
  BY <1>2 DEF FilesAreTheCommittedVersion, ActiveHasItsState
<1> QED BY <1>3, <1>4, <1>5, <1>6, <1>7, <1>8, <1>9

\* The user command dies between two steps; what it sent goes on as an orphan.
LEMMA UserCrashKeeps == ASSUME AllInv, UserCrash PROVE AllInv'
<1> USE DEF AllInv
<1>1. /\ Done /\ UNCHANGED <<durable, runtime, timer, expired, files, ustate, recovery, maint, current>>
      /\ reply' = NoReply
      /\ queue' = {[c EXCEPT !.caller = "orphan"] : c \in queue}
      /\ holder' = IF holder # Free /\ holder.caller = "user"
                   THEN [holder EXCEPT !.caller = "orphan"] ELSE holder
  BY DEF UserCrash
<1>2. faults' \in [crash : 0 .. MaxCrashes, fail : 0 .. MaxFailures]
  BY FaultsInBounds DEF UserCrash, RootInv
<1>3. RootInv'
  BY <1>1, <1>2, OrphansKeep
<1>4. \A d \in queue' : d.caller # "user" /\ \E c \in queue : d.cmd = c.cmd /\ d.tx = c.tx
  BY <1>1 DEF RootInv, RootTypeOK, Command
<1>5. /\ Held' => Held /\ holder'.caller # "user" /\ holder'.cmd = holder.cmd /\ holder'.tx = holder.tx
                  /\ holder'.pc = holder.pc
  BY <1>1 DEF RootInv, RootTypeOK, Holder, Held
<1>6. UNCHANGED <<journal, used>>
  BY <1>1 DEF durable
<1>7. CommitLive' => CommitLive
  BY <1>4, <1>5, <1>6 DEF CommitLive
<1>8. \A t : ApplyOver(t) => ApplyOver(t)'
  BY <1>4, <1>5, <1>6 DEF ApplyOver
<1> QED BY <1>1, <1>3, <1>4, <1>5, <1>7, <1>8, CrashKeeps

\* The machine reboots: no command is left, and what is durable stays.
LEMMA MachineRebootKeeps == ASSUME AllInv, MachineReboot PROVE AllInv'
<1> USE DEF AllInv
<1>1. /\ Done /\ UNCHANGED <<durable, files, ustate, recovery, maint, current>>
      /\ reply' = NoReply /\ queue' = {} /\ holder' = Free /\ ~Held'
  BY DEF MachineReboot, Reboot, Held
<1>2. RootInv'
  BY RebootKeeps DEF MachineReboot
<1>3. ~CommitLive'
  BY <1>1 DEF CommitLive
<1>4. \A t : ApplyOver(t) => ApplyOver(t)'
  BY <1>1 DEF ApplyOver, durable
<1> QED BY <1>1, <1>2, <1>3, <1>4, CrashKeeps

-----------------------------------------------------------------------------
(***************************************************************************)
(* The whole, and what it implies.                                         *)
(***************************************************************************)
\* A machine that never had TUN.
LEMMA Initially == ASSUME Init PROVE AllInv
<1>1. RootInv /\ RootInit
  BY RootInitially DEF Init
<1>2. ~CommitLive /\ queue = {} /\ reply = NoReply /\ ~Held /\ journal.phase = "none"
  BY <1>1 DEF RootInit, CommitLive, Held
<1>3. user.pc = "idle" /\ ~Recording
  BY DEF Init, Idle, Recording
<1>4. TypeOK
  BY <1>1 DEF TypeOK, Init, RootInv, TxId
<1>5. OneCommandIsOut /\ UserFits /\ RecordIsTrue /\ CommitIsPublished /\ DecisionStands
  BY <1>2, <1>3 DEF OneCommandIsOut, UserFits, RecordIsTrue, CommitIsPublished, DecisionStands, Waiting,
                    TurningOn, Updating, Recovering
<1>6. FilesAreTheCommittedVersion /\ ActiveHasItsState /\ AnswersAreTrue
  BY <1>2 DEF Init, FilesAreTheCommittedVersion, ActiveHasItsState, AnswersAreTrue
<1> QED BY <1>1, <1>4, <1>5, <1>6 DEF AllInv, MaintenanceInv

\* Every step keeps the invariant: one lemma for each actor.
LEMMA NextKeeps == ASSUME AllInv, [Next]_vars PROVE AllInv'
<1>1. CASE UNCHANGED vars
  <2>1. UNCHANGED <<rootVars, files, ustate, recovery, user, maint, current>>
    BY <1>1 DEF vars, userVars
  <2>2. UNCHANGED <<journal, accepted, queue, holder, reply, used, installed, service, enabled>>
    BY <2>1 DEF rootVars
  <2>3. RootInv' /\ AnswersAreTrue'
    BY <2>1, RootStands DEF AllInv
  <2>4. MaintenanceInv'
    <3> USE DEF AllInv, MaintenanceInv
    <3>1. TypeOK'
      BY <2>1, RootStands DEF TypeOK
    <3>2. OneCommandIsOut' /\ UserFits'
      BY <2>1, <2>2 DEF OneCommandIsOut, UserFits, Awaits, Held, Recording
    <3>3. RecordIsTrue' /\ CommitIsPublished'
      BY <2>1, <2>2, RootStands DEF RecordIsTrue, CommitIsPublished, Recording, ApplyOver
    <3>4. /\ Unstarted' <=> Unstarted
          /\ PreviousActive' <=> PreviousActive
          /\ CapCommitted' <=> CapCommitted
          /\ Gone(recovery.tx)' <=> Gone(recovery.tx)
      BY <2>1, <2>2, RootStands DEF Unstarted, PreviousActive, CapCommitted, Gone, ApplyOver
    <3>5. DecisionStands'
      BY <2>1, <2>2, <3>4, RootStands DEF DecisionStands, Recording
    <3>6. FilesAreTheCommittedVersion' /\ ActiveHasItsState'
      BY <2>1, <2>2 DEF FilesAreTheCommittedVersion, ActiveHasItsState
    <3> QED BY <3>1, <3>2, <3>3, <3>5, <3>6
  <2> QED BY <2>3, <2>4 DEF AllInv
<1> QED BY <1>1, RootSideKeeps, UserStepKeeps, UserCrashKeeps, MachineRebootKeeps DEF Next

\* The inductive invariant of root and user together.
THEOREM MaintenanceInvariant == Spec => []AllInv
  BY Initially, NextKeeps, PTL DEF Spec

\* Type correctness of root and user together, for every set of files and
\* transactions.
THEOREM MaintenanceTypes == Spec => []TypeOK
  BY MaintenanceInvariant, PTL DEF AllInv, MaintenanceInv

\* Without a recovery record on disk, the user's files are those of one and the
\* same version, whatever died in between (Publish, Restore, Retire).
THEOREM FilesAreWhole == Spec => []FilesAreTheCommittedVersion
  BY MaintenanceInvariant, PTL DEF AllInv, MaintenanceInv

\* The invariant makes a commit prove its publication.
LEMMA PublishedByInvariant == AllInv => CommitProvesPublication
<1> SUFFICES ASSUME AllInv, recovery.tx \in accepted
             PROVE  files = [f \in File |-> recovery.tx] /\ ustate \in {recovery.tx, NoTx}
  BY DEF CommitProvesPublication
<1>1. accepted \subseteq Tx
  BY DEF AllInv, RootInv, RootTypeOK
<1>2. Recording
  BY <1>1, TunAssumption DEF Recording, NoRecovery
<1> QED BY <1>2 DEF AllInv, MaintenanceInv, CommitIsPublished

\* Once the transaction of the record is committed, its files are all in place:
\* recovery has nothing to take back (tunUpdateTransaction).
THEOREM CommitMeansPublished == Spec => []CommitProvesPublication
  BY MaintenanceInvariant, PublishedByInvariant, PTL

\* Whenever the journal is active, the user's state record names its generation
\* (WriteState before SendCommit).
THEOREM StateFollowsActive == Spec => []ActiveHasItsState
  BY MaintenanceInvariant, PTL DEF AllInv, MaintenanceInv

\* The active journal names what is on disk, also beside a maintenance command
\* that is killed, crashes or recovers.
THEOREM ActiveIsOnDiskBesideUsers == Spec => []ActiveJournalIsTheGeneration
  BY MaintenanceInvariant, ActiveByInvariant, PTL DEF AllInv

\* Recovery puts a previous file back only when its transaction is not committed
\* and captures nothing (recoverTunUpdate).
THEOREM RestoredOnlyWhenSafe == Spec => RestoreOnlyWhenSafe
<1>1. ASSUME AllInv, [Next]_vars
      PROVE  [(\E f \in File : files'[f] # files[f] /\ On("restore")) =>
                /\ recovery.tx \notin accepted
                /\ ~(Capturing /\ service.gen = recovery.tx)]_vars
  <2> SUFFICES ASSUME NEW f \in File, files'[f] # files[f], On("restore"), Next
               PROVE  /\ recovery.tx \notin accepted
                      /\ ~(Capturing /\ service.gen = recovery.tx)
    BY <1>1 DEF vars, userVars
  <2>1. Restore
    BY DEF Next, RootSide, MachineReboot, UserCrash, UserStep, StartOn, Begin, StartOff, StartMaintenance,
           ReadStatus, ReadRecord, PrepareTunUpdate, PrepareStaged, GiveUp, SendApply, Applied, Publish, On,
           WriteState, SendCommit, Committed, Finish, RecoverDecide, RecoverForeign, RecoverAsk,
           RecoverAnswer, RecoverAfter, Forget, Retire, OnApplied, OnOff, OnCommitted, Stopped
  <2>2. files # recovery.files
    BY <2>1 DEF Restore
  <2>3. Recording /\ recovery.tx \notin accepted /\ user.cap.status = "off"
    BY <1>1, <2>2 DEF AllInv, MaintenanceInv, DecisionStands, Unstarted, UserFits, Recovering, On
  <2>4. Gone(recovery.tx)
    BY <1>1, <2>2, <2>3 DEF AllInv, MaintenanceInv, DecisionStands, On
  <2> QED BY <1>1, <2>3, <2>4 DEF Gone, Capturing, AllInv, RootInv, StartableIsKnown
<1> QED BY <1>1, MaintenanceInvariant, PTL DEF Spec, RestoreOnlyWhenSafe
=============================================================================

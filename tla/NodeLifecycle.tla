---------------------------- MODULE NodeLifecycle ----------------------------
(***************************************************************************)
(* The lifecycle of the proxy engine on a node, over the counter ledger:   *)
(* node-agent/cmd/sbm-node-g0 (lifecycle.go, recovery.go, main.go).        *)
(*                                                                         *)
(* Three parties share one host.  The agent (one, agent.lock) runs cycles: *)
(* it recovers the selected generation locally, applies a newer one,       *)
(* samples the engine's counters and reports.  systemd starts, stops and   *)
(* restarts the proxy unit.  The unit's process is first a wrapper         *)
(* (executeEngine), which takes lifecycle.lock, writes a startup receipt   *)
(* for the selected generation and then becomes the engine; the lock is    *)
(* closed by exec.  Everything that the agent does to the unit, the        *)
(* pointer and the ledger before a start happens under the same lock.      *)
(***************************************************************************)
EXTENDS Accounting

CONSTANTS
  Generation,   \* numbers of the generations that the controller offers
  Roster,       \* the one credential of each generation
  NoInvocation  \* the empty invocation, and the missing receipt or report

ASSUME LifecycleAssumption ==
  /\ Generation \subseteq Nat \ {0}
  /\ Roster \in [Generation -> Credential]
  /\ NoInvocation \notin Invocation

VARIABLES
  pub,       \* the generation that the current link selects, 0 without one
  receipt,   \* running.json: generation and invocation of the last wrapper
  unit,      \* the proxy unit: its state, invocation and loaded generation
  lock,      \* who holds lifecycle.lock
  agent,     \* the agent: where its cycle is, and its local variables
  started,   \* invocations that systemd has given out
  ran,       \* history: the generation each invocation ran as an engine, or 0
  count,     \* the engine's counters per invocation
  reported   \* the last status that reached the controller

hostVars == <<pub, receipt, unit, lock, agent, started, ran, count, reported>>
nodeVars == <<ledgerVars, hostVars>>

-----------------------------------------------------------------------------
Selected == Generation \cup {0}
Run == [gen : Selected, inv : Invocation \cup {NoInvocation}]
NoRun == [gen |-> 0, inv |-> NoInvocation]
Status == [gen : Selected, inv : Invocation \cup {NoInvocation}, gaps : Nat]
NoStatus == [gen |-> 0, inv |-> NoInvocation, gaps |-> 0]

UnitState == {"stopped", "restart", "waiting", "locked", "written", "running",
              "stopping"}
Steps == {"off", "cycle", "recover", "recovering", "fetch", "apply", "inspect",
          "sample", "identify", "read", "record", "stop", "confirm", "finish",
          "publish", "reset", "start", "observe", "upload", "status", "count", "post"}
Agent == [pc : Steps, goal : {"none", "recover", "apply", "sample"},
          cur : Selected, cand : Selected, failing : BOOLEAN,
          inv : Invocation \cup {NoInvocation}, reading : Bytes, counted : Nat]

NewCycle(g) == [pc |-> "cycle", goal |-> "none", cur |-> g, cand |-> 0,
                failing |-> FALSE, inv |-> NoInvocation, reading |-> NoBytes,
                counted |-> 0]

LifecycleInit ==
  /\ LedgerInit
  /\ pub = 0
  /\ receipt = NoRun
  /\ unit = [state |-> "stopped", gen |-> 0, inv |-> NoInvocation]
  /\ lock = "free"
  /\ agent = NewCycle(0)
  /\ started = {}
  /\ ran = [i \in Invocation |-> 0]
  /\ count = [i \in Invocation |-> NoBytes]
  /\ reported = NoStatus

(***************************************************************************)
(* serviceState.stopped: no main process, and inactive, failed or between  *)
(* two automatic restarts.                                                 *)
(***************************************************************************)
Stopped == unit.state \in {"stopped", "restart"}

(***************************************************************************)
(* runningIdentity: the pointer, the receipt and the unit's main process   *)
(* name one generation and one invocation, and that process is the engine. *)
(***************************************************************************)
Identified(g) ==
  /\ pub = g
  /\ unit.state = "running"
  /\ receipt = [gen |-> g, inv |-> unit.inv]

\* The unit is given a fresh invocation, unless the link is missing
\* (ConditionPathExists of the unit).
Launch ==
  /\ Stopped /\ pub # 0
  /\ \E i \in Invocation \ started :
       /\ unit' = [state |-> "waiting", gen |-> 0, inv |-> i]
       /\ started' = started \cup {i}

-----------------------------------------------------------------------------
(***************************************************************************)
(* systemd and the unit's process.                                         *)
(***************************************************************************)
Quiet == UNCHANGED <<ledgerVars, reported>>

\* An automatic restart, a start at boot or by the operator.
UnitStart ==
  /\ Launch
  /\ Quiet /\ UNCHANGED <<pub, receipt, lock, agent, ran, count>>

\* Mutant: the wrapper does not take the lock.
WrapperEnters ==
  /\ unit.state = "waiting"
  /\ unit' = [unit EXCEPT !.state = "locked", !.gen = pub]
  /\ Quiet /\ UNCHANGED <<pub, receipt, lock, agent, started, ran, count>>

WrapperLocks ==
  /\ unit.state = "waiting"
  /\ lock = "free"
  /\ lock' = "wrapper"
  /\ unit' = [unit EXCEPT !.state = "locked", !.gen = pub]
  /\ Quiet /\ UNCHANGED <<pub, receipt, agent, started, ran, count>>

WrapperWrites ==
  /\ unit.state = "locked"
  /\ receipt' = [gen |-> unit.gen, inv |-> unit.inv]
  /\ unit' = [unit EXCEPT !.state = "written"]
  /\ Quiet /\ UNCHANGED <<pub, lock, agent, started, ran, count>>

WrapperExecs ==
  /\ unit.state = "written"
  /\ unit' = [unit EXCEPT !.state = "running"]
  /\ lock' = IF lock = "wrapper" THEN "free" ELSE lock
  /\ ran' = [ran EXCEPT ![unit.inv] = unit.gen]
  /\ Quiet /\ UNCHANGED <<pub, receipt, agent, started, count>>

\* The process ends by itself: the lock wait expires, a check or the exec
\* fails, the engine dies or the operator stops it.  Restart=on-failure
\* applies unless the end was clean or the start limit is reached.
UnitExits ==
  /\ ~Stopped
  /\ \E s \in {"stopped", "restart"} :
       /\ s = "restart" => unit.state # "stopping"
       /\ unit' = [unit EXCEPT !.state = s, !.gen = 0]
  /\ lock' = IF lock = "wrapper" THEN "free" ELSE lock
  /\ Quiet /\ UNCHANGED <<pub, receipt, agent, started, ran, count>>

\* A client's bytes pass through the engine.
Traffic ==
  /\ unit.state \in {"running", "stopping"}
  /\ \E dir \in Direction :
       /\ count[unit.inv][dir] < MaxInt
       /\ count' = [count EXCEPT ![unit.inv][dir] = @ + 1]
  /\ Quiet /\ UNCHANGED <<pub, receipt, unit, lock, agent, started, ran>>

-----------------------------------------------------------------------------
(***************************************************************************)
(* The agent's cycle.  A step that fails ends the cycle: its deferred      *)
(* Close releases the lock, and after apply the pointer is read again,     *)
(* because a published generation is selected even if its start failed.    *)
(***************************************************************************)
At(step) == agent.pc = step
Unlock == lock' = IF lock = "agent" THEN "free" ELSE lock
Goto(step) == agent' = [agent EXCEPT !.pc = step]

\* Mutant: an error path keeps the lock.
ReturnLocked ==
  /\ UNCHANGED lock
  /\ agent' = NewCycle(IF agent.goal = "apply" /\ pub' = agent.cand
                       THEN agent.cand ELSE agent.cur)

Return ==
  /\ Unlock
  /\ agent' = NewCycle(IF agent.goal = "apply" /\ pub' = agent.cand
                       THEN agent.cand ELSE agent.cur)

Host == UNCHANGED <<started, ran, count>>

\* A step whose command, file or database fails, before it changed anything.
Fails ==
  /\ agent.pc \notin {"off", "cycle", "start", "observe"}
  /\ UNCHANGED <<ledgerVars, pub, receipt, unit, reported>> /\ Host
  /\ Return

Cycle ==
  /\ At("cycle")
  /\ Goto(IF agent.cur = 0 THEN "fetch" ELSE "recover")
  /\ Quiet /\ Host /\ UNCHANGED <<pub, receipt, unit, lock>>

TakeLock(from, next) ==
  /\ At(from) /\ lock = "free"
  /\ lock' = "agent"
  /\ Goto(next)
  /\ Quiet /\ Host /\ UNCHANGED <<pub, receipt, unit>>

MissingEngine ==
  IF receipt = NoRun THEN UNCHANGED ledgerVars ELSE Gap(receipt.inv)

\* recoverCurrent under the lock: a live engine of the selected generation is
\* left alone, a stopped one is started, anything else is an error (Fails).
Recover ==
  /\ At("recovering") /\ pub = agent.cur
  /\ \/ /\ Identified(agent.cur)
        /\ Goto("fetch")
        /\ UNCHANGED ledgerVars
     \/ /\ Stopped
        /\ MissingEngine
        /\ agent' = [agent EXCEPT !.pc = "start", !.goal = "recover"]
  /\ lock' = "free"
  /\ Host /\ UNCHANGED <<pub, receipt, unit, reported>>

\* startSelected: a start of a running unit does nothing.
Start ==
  /\ At("start")
  /\ \/ Launch
     \/ ~Stopped /\ unit.state # "stopping" /\ UNCHANGED <<unit, started>>
  /\ Goto("observe")
  /\ Quiet /\ UNCHANGED <<pub, receipt, lock, ran, count>>

Target == IF agent.goal = "apply" THEN agent.cand ELSE agent.cur

Observe ==
  /\ At("observe") /\ lock = "free" /\ Identified(Target)
  /\ agent' = IF agent.goal = "apply"
              THEN [NewCycle(agent.cand) EXCEPT !.pc = "sample", !.goal = "sample"]
              ELSE [agent EXCEPT !.pc = "fetch"]
  /\ Quiet /\ Host /\ UNCHANGED <<pub, receipt, unit, lock>>

\* A failed or unconfirmed start: recovery goes on to fetch a repair.
StartFails ==
  /\ At("start") \/ At("observe")
  /\ Quiet /\ Host /\ UNCHANGED <<pub, receipt, unit>>
  /\ \/ /\ agent.goal = "recover"
        /\ agent' = [agent EXCEPT !.pc = "fetch", !.failing = TRUE]
        /\ UNCHANGED lock
     \/ agent.goal = "apply" /\ Return

\* The controller answers with a newer generation, or has none, or does not
\* answer.
Fetch ==
  /\ At("fetch")
  /\ \/ \E g \in Generation :
          /\ g > agent.cur
          /\ agent' = [agent EXCEPT !.pc = "apply", !.goal = "apply", !.cand = g]
     \/ /\ agent.cur # 0 /\ ~agent.failing
        /\ agent' = [agent EXCEPT !.pc = "sample", !.goal = "sample"]
  /\ Quiet /\ Host /\ UNCHANGED <<pub, receipt, unit, lock>>

-----------------------------------------------------------------------------
(***************************************************************************)
(* sampleLocked: identify, read, identify again and record.                *)
(***************************************************************************)
Sampling == IF agent.goal = "apply" THEN pub ELSE agent.cur

Identify(from) ==
  /\ At(from)
  /\ Identified(Sampling)
  /\ agent' = [agent EXCEPT !.pc = "read", !.inv = unit.inv]
  /\ Quiet /\ Host /\ UNCHANGED <<pub, receipt, unit, lock>>

\* The answer comes from whatever engine listens by now.
ReadCounters ==
  /\ At("read")
  /\ unit.state \in {"running", "stopping"}
  /\ agent' = [agent EXCEPT !.pc = "record", !.reading = count[unit.inv]]
  /\ Quiet /\ Host /\ UNCHANGED <<pub, receipt, unit, lock>>

AfterSample == IF agent.goal = "apply"
               THEN Goto("stop") /\ UNCHANGED lock
               ELSE Goto("upload") /\ Unlock

\* Mutant: the final sample is booked to the roster of the new generation.
CommitForCandidate ==
  /\ At("record")
  /\ Identified(Sampling) /\ unit.inv = agent.inv
  /\ \E d \in Day : Record(agent.inv, Roster[Target], agent.reading, d)
  /\ AfterSample
  /\ Host /\ UNCHANGED <<pub, receipt, unit, reported>>

CommitSample ==
  /\ At("record")
  /\ Identified(Sampling) /\ unit.inv = agent.inv
  /\ \E d \in Day : Record(agent.inv, Roster[Sampling], agent.reading, d)
  /\ AfterSample
  /\ Host /\ UNCHANGED <<pub, receipt, unit, reported>>

-----------------------------------------------------------------------------
(***************************************************************************)
(* apply under the lock: final sample or gap, stop, confirm, finish,       *)
(* publish; then unlock, reset and start.                                  *)
(***************************************************************************)
InspectStopped ==
  /\ At("inspect") /\ Stopped
  /\ MissingEngine
  /\ Goto("stop")
  /\ Host /\ UNCHANGED <<pub, receipt, unit, lock, reported>>

\* Mutant: the invocation is completed before it is stopped.
FinishThenStop ==
  /\ At("stop")
  /\ IF agent.inv = NoInvocation THEN UNCHANGED ledgerVars ELSE Finish(agent.inv)
  /\ Goto("confirm")
  /\ Host /\ UNCHANGED <<pub, receipt, unit, lock, reported>>

StopUnit ==
  /\ At("stop")
  /\ unit' = [unit EXCEPT !.state = "stopped", !.gen = 0]
  /\ Goto("confirm")
  /\ Quiet /\ Host /\ UNCHANGED <<pub, receipt, lock>>

\* "systemctl stop" outlives the ten seconds the agent waits for it; a wrapper
\* ends at once.
StopExpires ==
  /\ At("stop") /\ unit.state = "running"
  /\ unit' = [unit EXCEPT !.state = "stopping"]
  /\ Quiet /\ Host /\ UNCHANGED <<pub, receipt>>
  /\ Return

Confirm ==
  /\ At("confirm") /\ Stopped
  /\ Goto(IF agent.inv = NoInvocation THEN "publish" ELSE "finish")
  /\ Quiet /\ Host /\ UNCHANGED <<pub, receipt, unit, lock>>

FinishInvocation ==
  /\ At("finish")
  /\ Finish(agent.inv)
  /\ Goto("publish")
  /\ Host /\ UNCHANGED <<pub, receipt, unit, lock, reported>>

\* The rename publishes; the sync of its directory may still fail.
Publish ==
  /\ At("publish")
  /\ pub' = agent.cand
  /\ \/ Goto("reset") /\ lock' = "free"
     \/ Return
  /\ Quiet /\ Host /\ UNCHANGED <<receipt, unit>>

Reset ==
  /\ At("reset")
  /\ Goto("start")
  /\ Quiet /\ Host /\ UNCHANGED <<pub, receipt, unit, lock>>

-----------------------------------------------------------------------------
(***************************************************************************)
(* The reports, and the end of the agent or of the machine.                *)
(***************************************************************************)
Upload ==
  /\ At("upload")
  /\ Goto("status")
  /\ Quiet /\ Host /\ UNCHANGED <<pub, receipt, unit, lock>>

\* Mutant: the status names the engine that runs now, sampled or not.
ReobserveAnew ==
  /\ At("status") /\ lock = "free"
  /\ Identified(agent.cur)
  /\ agent' = [agent EXCEPT !.pc = "count", !.inv = unit.inv]
  /\ Quiet /\ Host /\ UNCHANGED <<pub, receipt, unit, lock>>

\* observeRunning once more: it drops the lock before the gaps are counted and
\* the status is sent, so the engine may end at any of these steps.
Reobserve ==
  /\ At("status") /\ lock = "free"
  /\ Identified(agent.cur) /\ unit.inv = agent.inv
  /\ Goto("count")
  /\ Quiet /\ Host /\ UNCHANGED <<pub, receipt, unit, lock>>

CountGaps ==
  /\ At("count")
  /\ agent' = [agent EXCEPT !.pc = "post", !.counted = Cardinality(gaps)]
  /\ Quiet /\ Host /\ UNCHANGED <<pub, receipt, unit, lock>>

\* The status reaches the controller; the cycle ends, answered or not.
PostStatus ==
  /\ At("post")
  /\ reported' = [gen |-> agent.cur, inv |-> agent.inv, gaps |-> agent.counted]
  /\ UNCHANGED <<ledgerVars, pub, receipt, unit>> /\ Host
  /\ Return

AgentCrash ==
  /\ ~At("off")
  /\ Unlock
  /\ agent' = [NewCycle(0) EXCEPT !.pc = "off"]
  /\ Quiet /\ Host /\ UNCHANGED <<pub, receipt, unit>>

AgentStart ==
  /\ At("off")
  /\ agent' = NewCycle(pub)
  /\ Quiet /\ Host /\ UNCHANGED <<pub, receipt, unit, lock>>

Reboot ==
  /\ unit' = [unit EXCEPT !.state = "stopped", !.gen = 0]
  /\ lock' = "free"
  /\ agent' = [NewCycle(0) EXCEPT !.pc = "off"]
  /\ Quiet /\ Host /\ UNCHANGED <<pub, receipt>>

Systemd == UnitStart \/ WrapperLocks \/ WrapperWrites \/ WrapperExecs \/ UnitExits

AgentStep ==
  \/ Cycle \/ Fetch \/ Recover \/ Start \/ Observe \/ StartFails \/ Fails
  \/ TakeLock("recover", "recovering") \/ TakeLock("apply", "inspect")
  \/ TakeLock("sample", "identify")
  \/ Identify("identify") \/ Identify("inspect") \/ ReadCounters \/ CommitSample
  \/ InspectStopped \/ StopUnit \/ StopExpires \/ Confirm \/ FinishInvocation
  \/ Publish \/ Reset \/ Upload \/ Reobserve \/ CountGaps \/ PostStatus

LifecycleNext ==
  Systemd \/ Traffic \/ AgentStep \/ AgentCrash \/ AgentStart \/ Reboot

LifecycleSpec == LifecycleInit /\ [][LifecycleNext]_nodeVars

(***************************************************************************)
(* systemd restarts the agent (which must not crash so fast that it uses   *)
(* up its own start limit); the agent's cycle and the unit's process go    *)
(* on; a lock that is free again and again is taken, and a start that is   *)
(* asked for again and again succeeds at last (the start limit of the      *)
(* proxy unit only delays it).  Crashes may interrupt every step, but not  *)
(* each try of it for ever.  Nothing is assumed of clients, of the         *)
(* controller or of the operator.                                          *)
(***************************************************************************)
LifecycleFairness ==
  /\ WF_nodeVars(AgentStart) /\ SF_nodeVars(Cycle) /\ WF_nodeVars(Fetch) /\ WF_nodeVars(Fails)
  /\ SF_nodeVars(TakeLock("recover", "recovering")) /\ SF_nodeVars(Recover)
  /\ SF_nodeVars(Start) /\ WF_nodeVars(StartFails)
  /\ SF_nodeVars(WrapperLocks) /\ WF_nodeVars(WrapperWrites) /\ WF_nodeVars(WrapperExecs)

LifecycleLive == LifecycleSpec /\ LifecycleFairness
-----------------------------------------------------------------------------
(***************************************************************************)
(* The types of the pointer, the receipt, the unit and the agent.          *)
(***************************************************************************)
LifecycleTypeOK ==
  /\ LedgerTypeOK
  /\ pub \in Selected
  /\ receipt \in Run
  /\ unit \in [state : UnitState, gen : Selected, inv : Invocation \cup {NoInvocation}]
  /\ lock \in {"free", "agent", "wrapper"}
  /\ agent \in Agent
  /\ started \subseteq Invocation
  /\ ran \in [Invocation -> Selected]
  /\ count \in [Invocation -> Bytes]
  /\ reported \in Status

(***************************************************************************)
(* The invocations that were an engine and are no more.                    *)
(***************************************************************************)
Ended == {i \in Invocation :
            /\ ran[i] # 0
            /\ ~(unit.inv = i /\ unit.state \in {"running", "stopping"})}

(***************************************************************************)
(* An engine runs the generation that the pointer selects: the wrapper     *)
(* reads the pointer under the lock, and apply publishes under the lock    *)
(* only when nothing runs.                                                 *)
(***************************************************************************)
EngineRunsSelected ==
  unit.state \in {"locked", "written", "running", "stopping"} => unit.gen = pub

(***************************************************************************)
(* What is recorded for an invocation was counted by that invocation, and  *)
(* is booked to the credential of the generation that it ran: the final    *)
(* sample of an engine that a new generation replaces is still the old     *)
(* credential's.                                                           *)
(***************************************************************************)
SamplesAreGenuine ==
  \A i \in Invocation, c \in Credential :
    i \in Sampled(c) => /\ ran[i] \in Generation /\ Roster[ran[i]] = c
                        /\ Leq(checkpoints[i][c], count[i])

(***************************************************************************)
(* A completion marker is final: a finished invocation runs no more, so no *)
(* byte is counted after it.                                               *)
(***************************************************************************)
FinishedHasEnded == finished \subseteq Ended

(***************************************************************************)
(* "Applied status follows a successful sample": a status names the        *)
(* selected generation and an invocation that ran it and was sampled for   *)
(* its credential, every other invocation that was sampled for that        *)
(* credential is finished or a gap, and the status counts those gaps.  The *)
(* named invocation itself may have ended since the lock was dropped: its  *)
(* gap is a later cycle's.                                                 *)
(***************************************************************************)
StatusIsEarned ==
  [][reported' # reported =>
       LET sampled == Sampled(Roster[pub])
       IN /\ reported'.gen = pub /\ ran[reported'.inv] = pub
          /\ reported'.inv \in sampled
          /\ sampled \ {reported'.inv} \subseteq finished \cup gaps
          /\ reported'.gaps = Cardinality(gaps)]_nodeVars

(***************************************************************************)
(* "Unexpected termination retains a durable coverage warning": whenever   *)
(* a status is reported, every engine that has ended is finished or a gap. *)
(***************************************************************************)
EveryEndIsReported ==
  [][reported' # reported =>
       {i \in Ended : count[i] # NoBytes} \subseteq finished \cup gaps]_nodeVars

(***************************************************************************)
(* A stopped engine of a selected generation is started again, without the *)
(* controller, unless the model has no invocation left to give it.         *)
(***************************************************************************)
EngineComesBack ==
  (pub # 0 /\ unit.state = "stopped")
    ~> (unit.state = "running" \/ started = Invocation)
=============================================================================

------------------------- MODULE NodeLifecycleProofs -------------------------
(***************************************************************************)
(* What holds of the engine's lifecycle on a node for all generations,     *)
(* rosters, invocations and widths, whatever dies or restarts in between.  *)
(***************************************************************************)
EXTENDS NodeLifecycle, AccountingProofs

(***************************************************************************)
(* lifecycle.lock: the wrapper has it from its first look at the pointer   *)
(* until exec closes it, the agent has it at these steps.                  *)
(***************************************************************************)
LockedSteps == {"recovering", "inspect", "identify", "read", "record", "stop",
                "confirm", "finish", "publish"}

LockFitsHolders ==
  /\ lock = "agent" <=> agent.pc \in LockedSteps
  /\ lock = "wrapper" <=> unit.state \in {"locked", "written"}

(***************************************************************************)
(* An invocation is given out once and runs one generation, the selected   *)
(* one.                                                                    *)
(***************************************************************************)
Engine == {"running", "stopping"}
Up == {"waiting", "locked", "written"} \cup Engine

UnitFits ==
  /\ unit.state \in Up => unit.inv \in started /\ pub # 0
  /\ unit.state \in {"waiting", "locked", "written"} => ran[unit.inv] = 0
  /\ unit.state \in Engine => ran[unit.inv] = unit.gen
  /\ \A i \in Invocation : ran[i] # 0 => i \in started
  /\ receipt # NoRun => receipt.inv \in started

(***************************************************************************)
(* The steps at which the agent has seen the unit down keep it down: only  *)
(* the wrapper could start an engine, and it waits for the lock.           *)
(***************************************************************************)
UnitStaysDown ==
  agent.pc \in {"finish", "publish"} => unit.state \in {"stopped", "restart", "waiting"}

(***************************************************************************)
(* What the local variables of the cycle stand for.  The counters that     *)
(* were read are those of the invocation that was identified before, since *)
(* no other engine can start under the lock.                               *)
(***************************************************************************)
AgentFits ==
  /\ agent.pc \in {"apply", "inspect", "stop", "confirm", "finish", "publish", "reset"} =>
       agent.goal = "apply"
  /\ agent.pc \in {"sample", "identify", "upload", "status", "count", "post"} =>
       agent.goal = "sample"
  /\ agent.pc \in {"read", "record"} => agent.goal \in {"apply", "sample"}
  /\ agent.goal = "apply" => agent.cand # 0
  /\ agent.goal = "sample" => agent.cur # 0
  /\ agent.pc = "finish" => agent.inv # NoInvocation
  /\ agent.inv # NoInvocation => ran[agent.inv] # 0
  /\ agent.pc \in {"read", "record"} =>
       /\ agent.inv # NoInvocation
       /\ unit.state \in Engine => unit.inv = agent.inv
  /\ agent.pc = "record" => Leq(agent.reading, count[agent.inv])
  /\ agent.pc \in {"count", "post"} => pub = agent.cur /\ ran[agent.inv] = pub

(***************************************************************************)
(* After the sample of a cycle, and whatever ends the engine meanwhile,    *)
(* every other invocation that was sampled for the same credential is      *)
(* accounted for; once the gaps are counted, no gap is added before the    *)
(* status is sent.                                                         *)
(***************************************************************************)
SampleIsCommitted ==
  /\ agent.pc \in {"upload", "status", "count", "post"} =>
       LET sampled == Sampled(Roster[agent.cur])
       IN agent.inv \in sampled /\ sampled \ {agent.inv} \subseteq finished \cup gaps
  /\ agent.pc = "post" => agent.counted = Cardinality(gaps)

(***************************************************************************)
(* The inductive invariant.                                                *)
(***************************************************************************)
LifecycleInv ==
  /\ LifecycleTypeOK /\ LockFitsHolders /\ UnitFits /\ EngineRunsSelected /\ UnitStaysDown
  /\ AgentFits /\ SampleIsCommitted /\ SamplesAreGenuine /\ FinishedHasEnded

-----------------------------------------------------------------------------
(***************************************************************************)
(* The agent's cycle.                                                      *)
(***************************************************************************)

\* A cycle starts with nothing identified and nothing read.
LEMMA NewCycleTyped ==
  ASSUME NEW g \in Selected
  PROVE  /\ NewCycle(g) \in Agent
         /\ NewCycle(g).pc = "cycle" /\ NewCycle(g).goal = "none"
         /\ NewCycle(g).cur = g /\ NewCycle(g).inv = NoInvocation
<1>1. NoBytes \in Bytes /\ 0 \in Selected
  BY AccountingAssumption DEF NoBytes, Bytes, Selected
<1>2. "cycle" \in Steps
  BY DEF Steps
<1> QED BY <1>1, <1>2 DEF Agent, NewCycle

\* So does one that has not begun.
LEMMA CrashedTyped ==
  LET off == [NewCycle(0) EXCEPT !.pc = "off"]
  IN off \in Agent /\ off.pc = "off" /\ off.goal = "none" /\ off.inv = NoInvocation
<1>1. 0 \in Selected
  BY DEF Selected
<1>2. PICK c \in Agent : c = NewCycle(0)
  BY <1>1, NewCycleTyped
<1>3. c.goal = "none" /\ c.inv = NoInvocation
  BY <1>1, <1>2, NewCycleTyped
<1>4. [NewCycle(0) EXCEPT !.pc = "off"] = [c EXCEPT !.pc = "off"]
  BY <1>2
<1> QED BY <1>3, <1>4 DEF Agent, Steps

\* Return: the deferred Close and the next cycle.
LEMMA Returning ==
  ASSUME LifecycleInv, Return, pub' \in Selected
  PROVE  /\ agent' \in Agent /\ agent'.pc = "cycle" /\ agent'.goal = "none"
         /\ agent'.inv = NoInvocation
         /\ lock' = IF lock = "agent" THEN "free" ELSE lock
<1>1. PICK g \in Selected : agent' = NewCycle(g)
  BY DEF Return, LifecycleInv, LifecycleTypeOK, Agent
<1> QED BY <1>1, NewCycleTyped DEF Return, Unlock

\* An idle agent claims nothing.
LEMMA IdleClaimsNothing ==
  ASSUME agent'.pc \in {"cycle", "off"}, agent'.goal = "none", agent'.inv = NoInvocation
  PROVE  AgentFits' /\ SampleIsCommitted' /\ UnitStaysDown'
  BY DEF AgentFits, SampleIsCommitted, UnitStaysDown

\* A step of the agent that leaves the pointer and the unit alone is judged by
\* what it claims and by what it writes to the ledger.
LEMMA AgentWrites ==
  ASSUME LifecycleInv, UNCHANGED <<pub, receipt, unit>>, Host, LedgerTypeOK',
         agent' \in Agent, lock' \in {"free", "agent", "wrapper"}, reported' \in Status,
         LockFitsHolders', UnitStaysDown', AgentFits', SampleIsCommitted',
         SamplesAreGenuine', FinishedHasEnded'
  PROVE  LifecycleInv'
<1> USE DEF LifecycleInv, Host
<1>1. LifecycleTypeOK'
  BY DEF LifecycleTypeOK
<1>2. UnitFits' /\ EngineRunsSelected'
  BY DEF UnitFits, EngineRunsSelected
<1> QED BY <1>1, <1>2

\* So is one that writes nothing.
LEMMA AgentMoves ==
  ASSUME LifecycleInv, UNCHANGED <<ledgerVars, pub, receipt, unit>>, Host,
         agent' \in Agent, lock' \in {"free", "agent", "wrapper"}, reported' \in Status,
         LockFitsHolders', UnitStaysDown', AgentFits', SampleIsCommitted'
  PROVE  LifecycleInv'
<1>1. LedgerTypeOK'
  BY DEF LifecycleInv, LifecycleTypeOK, LedgerTypeOK, ledgerVars
<1>2. SamplesAreGenuine' /\ FinishedHasEnded'
  BY DEF LifecycleInv, SamplesAreGenuine, FinishedHasEnded, Sampled, Ended, ledgerVars, Host
<1> QED BY <1>1, <1>2, AgentWrites

\* Going to another step keeps the local variables of the cycle.
LEMMA Going ==
  ASSUME LifecycleInv, NEW step \in Steps, Goto(step)
  PROVE  /\ agent' \in Agent /\ agent'.pc = step
         /\ agent'.goal = agent.goal /\ agent'.cur = agent.cur /\ agent'.cand = agent.cand
         /\ agent'.inv = agent.inv /\ agent'.reading = agent.reading
  BY DEF LifecycleInv, LifecycleTypeOK, Agent, Goto

\* Any step that fails ends the cycle and releases the lock.
LEMMA FailsKeeps == ASSUME LifecycleInv, Fails PROVE LifecycleInv'
<1>1. pub' \in Selected /\ Return
  BY DEF LifecycleInv, LifecycleTypeOK, Fails
<1>2. LockFitsHolders'
  BY <1>1, Returning DEF LifecycleInv, LockFitsHolders, Fails, LockedSteps
<1>3. lock' \in {"free", "agent", "wrapper"} /\ reported' \in Status
  BY <1>1, Returning DEF LifecycleInv, LifecycleTypeOK, Fails
<1> QED BY <1>1, <1>2, <1>3, Returning, IdleClaimsNothing, AgentMoves DEF Fails

\* A cycle starts with the local recovery, if a generation is known.
LEMMA CycleKeeps == ASSUME LifecycleInv, Cycle PROVE LifecycleInv'
<1>1. PICK step \in {"fetch", "recover"} : Goto(step)
  BY DEF Cycle
<1>2. step \in Steps
  BY DEF Steps
<1>3. agent.pc = "cycle" /\ UNCHANGED <<ledgerVars, pub, receipt, unit, lock, reported>> /\ Host
  BY DEF Cycle, At, Quiet
<1>4. LockFitsHolders'
  BY <1>1, <1>2, <1>3, Going DEF LifecycleInv, LockFitsHolders, LockedSteps
<1>5. AgentFits' /\ SampleIsCommitted' /\ UnitStaysDown'
  BY <1>1, <1>2, <1>3, Going DEF LifecycleInv, AgentFits, SampleIsCommitted, UnitStaysDown, Host
<1> QED BY <1>1, <1>2, <1>3, <1>4, <1>5, Going, AgentMoves DEF LifecycleInv, LifecycleTypeOK

\* A step that takes lifecycle.lock finds it free.
LEMMA TakeLockKeeps ==
  ASSUME LifecycleInv, NEW from, NEW next, TakeLock(from, next),
         \/ from = "recover" /\ next = "recovering"
         \/ from = "apply" /\ next = "inspect"
         \/ from = "sample" /\ next = "identify"
  PROVE  LifecycleInv'
<1>1. next \in Steps /\ next \in LockedSteps
  BY DEF Steps, LockedSteps
<1>2. /\ agent.pc = from /\ lock = "free" /\ lock' = "agent" /\ Goto(next)
      /\ UNCHANGED <<ledgerVars, pub, receipt, unit, reported>> /\ Host
  BY DEF TakeLock, At, Quiet
<1>3. LockFitsHolders'
  BY <1>1, <1>2, Going DEF LifecycleInv, LockFitsHolders
<1>4. AgentFits' /\ SampleIsCommitted' /\ UnitStaysDown'
  BY <1>1, <1>2, Going DEF LifecycleInv, AgentFits, SampleIsCommitted, UnitStaysDown, Host
<1> QED BY <1>1, <1>2, <1>3, <1>4, Going, AgentMoves DEF LifecycleInv, LifecycleTypeOK

\* A gap of an ended or replaced invocation is reported (MissingEngine).
LEMMA GapReported ==
  ASSUME LifecycleInv, MissingEngine, Host, UNCHANGED unit
  PROVE  /\ UNCHANGED <<checkpoints, usage, finished>> /\ LedgerTypeOK'
         /\ SamplesAreGenuine' /\ FinishedHasEnded'
<1> USE DEF LifecycleInv, LifecycleTypeOK
<1>1. UNCHANGED <<checkpoints, usage, finished>> /\ gaps' \subseteq Invocation
  <2>1. CASE receipt = NoRun
    BY <2>1 DEF MissingEngine, LedgerTypeOK, ledgerVars
  <2>2. CASE receipt # NoRun
    <3>1. Gap(receipt.inv) /\ receipt.inv \in Invocation
      BY <2>2 DEF MissingEngine, UnitFits
    <3> QED BY <3>1 DEF Gap, LedgerTypeOK
  <2> QED BY <2>1, <2>2
<1>2. LedgerTypeOK'
  BY <1>1 DEF LedgerTypeOK
<1>3. SamplesAreGenuine' /\ FinishedHasEnded'
  BY <1>1 DEF SamplesAreGenuine, FinishedHasEnded, Sampled, Ended, Host
<1> QED BY <1>1, <1>2, <1>3

\* recoverCurrent: a live engine is left alone, a stopped one leaves its gap.
LEMMA RecoverKeeps == ASSUME LifecycleInv, Recover PROVE LifecycleInv'
<1> USE DEF LifecycleInv, LifecycleTypeOK
<1>1. /\ agent.pc = "recovering" /\ lock' = "free"
      /\ UNCHANGED <<pub, receipt, unit, reported>> /\ Host
  BY DEF Recover, At
<1>2. lock = "agent" /\ unit.state \notin {"locked", "written"}
  BY <1>1 DEF LockFitsHolders, LockedSteps
<1>3. CASE Goto("fetch") /\ UNCHANGED ledgerVars
  <2>1. "fetch" \in Steps
    BY DEF Steps
  <2>2. LockFitsHolders'
    BY <1>1, <1>2, <1>3, <2>1, Going DEF LockFitsHolders, LockedSteps
  <2>3. AgentFits' /\ SampleIsCommitted' /\ UnitStaysDown'
    BY <1>1, <1>3, <2>1, Going DEF AgentFits, SampleIsCommitted, UnitStaysDown, Host
  <2> QED BY <1>1, <1>3, <2>1, <2>2, <2>3, Going, AgentMoves
<1>4. CASE MissingEngine /\ agent' = [agent EXCEPT !.pc = "start", !.goal = "recover"]
  <2>1. /\ agent' \in Agent /\ agent'.pc = "start" /\ agent'.goal = "recover"
        /\ agent'.inv = agent.inv
    BY <1>4 DEF Agent, Steps
  <2>2. LockFitsHolders'
    BY <1>1, <1>2, <2>1 DEF LockFitsHolders, LockedSteps
  <2>3. AgentFits' /\ SampleIsCommitted' /\ UnitStaysDown'
    BY <1>1, <2>1 DEF AgentFits, SampleIsCommitted, UnitStaysDown, Host
  <2> QED BY <1>1, <1>4, <2>1, <2>2, <2>3, GapReported, AgentWrites
<1> QED BY <1>3, <1>4 DEF Recover

\* Every start of the unit gives it a fresh invocation.
LEMMA Launching ==
  ASSUME LifecycleInv, Launch, UNCHANGED <<pub, receipt, ran, count>>
  PROVE  /\ unit' \in [state : UnitState, gen : Selected, inv : Invocation \cup {NoInvocation}]
         /\ started' \subseteq Invocation
         /\ unit.state \in {"stopped", "restart"} /\ unit'.state = "waiting"
         /\ UnitFits' /\ EngineRunsSelected'
<1> USE DEF LifecycleInv, LifecycleTypeOK
<1>1. PICK i \in Invocation \ started :
        unit' = [state |-> "waiting", gen |-> 0, inv |-> i] /\ started' = started \cup {i}
  BY DEF Launch
<1>2. 0 \in Selected /\ "waiting" \in UnitState
  BY DEF Selected, UnitState
<1>3. unit.state \in {"stopped", "restart"} /\ pub # 0
  BY DEF Launch, Stopped
<1>4. ran[i] = 0
  BY <1>1 DEF UnitFits
<1>5. UnitFits'
  BY <1>1, <1>3, <1>4 DEF UnitFits, Up, Engine
<1> QED BY <1>1, <1>2, <1>3, <1>5 DEF EngineRunsSelected

\* A unit that is launched or goes down ends no finished invocation's rest.
LEMMA DownStaysGenuine ==
  ASSUME LifecycleInv, UNCHANGED <<ledgerVars, ran, count>>,
         unit'.state \in Engine => unit.state \in Engine /\ unit'.inv = unit.inv
  PROVE  LedgerTypeOK' /\ SamplesAreGenuine' /\ FinishedHasEnded'
<1> USE DEF LifecycleInv, LifecycleTypeOK
<1>1. LedgerTypeOK'
  BY DEF LedgerTypeOK, ledgerVars
<1>2. SamplesAreGenuine'
  BY DEF SamplesAreGenuine, Sampled, ledgerVars
<1>3. FinishedHasEnded'
  BY DEF FinishedHasEnded, Ended, ledgerVars, Engine
<1> QED BY <1>1, <1>2, <1>3

\* startSelected: the unit is launched, or it is up already.
LEMMA StartKeeps == ASSUME LifecycleInv, Start PROVE LifecycleInv'
<1> USE DEF LifecycleInv, LifecycleTypeOK
<1>1. /\ agent.pc = "start" /\ Goto("observe") /\ "observe" \in Steps
      /\ UNCHANGED <<ledgerVars, reported, pub, receipt, lock, ran, count>>
  BY DEF Start, At, Quiet, Steps
<1>2. AgentFits' /\ SampleIsCommitted' /\ UnitStaysDown'
  BY <1>1, Going DEF AgentFits, SampleIsCommitted, UnitStaysDown
<1>3. CASE Launch
  <2>1. LockFitsHolders'
    BY <1>1, <1>3, Launching, Going DEF LockFitsHolders, LockedSteps
  <2>2. LedgerTypeOK' /\ SamplesAreGenuine' /\ FinishedHasEnded'
    BY <1>1, <1>3, Launching, DownStaysGenuine DEF Engine
  <2>3. agent' \in Agent
    BY <1>1, Going
  <2> QED BY <1>1, <1>2, <1>3, <2>1, <2>2, <2>3, Launching
<1>4. CASE UNCHANGED <<unit, started>>
  <2>1. LockFitsHolders'
    BY <1>1, <1>4, Going DEF LockFitsHolders, LockedSteps
  <2> QED BY <1>1, <1>2, <1>4, <2>1, Going, AgentMoves DEF Host
<1> QED BY <1>3, <1>4 DEF Start

\* The start is confirmed by the identity of the engine.
LEMMA ObserveKeeps == ASSUME LifecycleInv, Observe PROVE LifecycleInv'
<1> USE DEF LifecycleInv, LifecycleTypeOK
<1>1. /\ agent.pc = "observe"
      /\ UNCHANGED <<ledgerVars, reported, pub, receipt, unit, lock>> /\ Host
  BY DEF Observe, At, Quiet
<1>2. CASE agent.goal = "apply" /\ agent' = [NewCycle(agent.cand) EXCEPT !.pc = "sample", !.goal = "sample"]
  <2>1. agent.cand \in Selected /\ agent.cand # 0
    BY <1>2 DEF Agent, AgentFits
  <2>2. /\ agent' \in Agent /\ agent'.pc = "sample" /\ agent'.goal = "sample"
        /\ agent'.cur = agent.cand /\ agent'.inv = NoInvocation
    <3>1. PICK c \in Agent : c = NewCycle(agent.cand)
      BY <2>1, NewCycleTyped
    <3>2. c.cur = agent.cand /\ c.inv = NoInvocation
      BY <2>1, <3>1, NewCycleTyped
    <3>3. agent' = [c EXCEPT !.pc = "sample", !.goal = "sample"]
      BY <1>2, <3>1
    <3> HIDE DEF LifecycleInv, LifecycleTypeOK
    <3> QED BY <3>2, <3>3 DEF Agent, Steps
  <2>3. LockFitsHolders'
    BY <1>1, <2>2 DEF LockFitsHolders, LockedSteps
  <2>4. AgentFits' /\ SampleIsCommitted' /\ UnitStaysDown'
    BY <2>1, <2>2 DEF AgentFits, SampleIsCommitted, UnitStaysDown
  <2> QED BY <1>1, <2>2, <2>3, <2>4, AgentMoves
<1>3. CASE agent' = [agent EXCEPT !.pc = "fetch"]
  <2>1. Goto("fetch") /\ "fetch" \in Steps
    BY <1>3 DEF Goto, Steps
  <2>2. LockFitsHolders'
    BY <1>1, <2>1, Going DEF LockFitsHolders, LockedSteps
  <2>3. AgentFits' /\ SampleIsCommitted' /\ UnitStaysDown'
    BY <1>1, <2>1, Going DEF AgentFits, SampleIsCommitted, UnitStaysDown, Host
  <2> QED BY <1>1, <2>1, <2>2, <2>3, Going, AgentMoves
<1> QED BY <1>2, <1>3 DEF Observe

\* A start that fails or is not confirmed: recovery goes on, apply gives up.
LEMMA StartFailsKeeps == ASSUME LifecycleInv, StartFails PROVE LifecycleInv'
<1> USE DEF LifecycleInv, LifecycleTypeOK
<1>1. /\ agent.pc \in {"start", "observe"}
      /\ UNCHANGED <<ledgerVars, reported, pub, receipt, unit>> /\ Host
  BY DEF StartFails, At, Quiet
<1>2. CASE agent.goal = "recover" /\ agent' = [agent EXCEPT !.pc = "fetch", !.failing = TRUE] /\ UNCHANGED lock
  <2>1. /\ agent' \in Agent /\ agent'.pc = "fetch" /\ agent'.goal = "recover"
        /\ agent'.inv = agent.inv
    BY <1>2 DEF Agent, Steps
  <2>2. LockFitsHolders'
    BY <1>1, <1>2, <2>1 DEF LockFitsHolders, LockedSteps
  <2>3. AgentFits' /\ SampleIsCommitted' /\ UnitStaysDown'
    BY <1>1, <2>1 DEF AgentFits, SampleIsCommitted, UnitStaysDown, Host
  <2> QED BY <1>1, <1>2, <2>1, <2>2, <2>3, AgentMoves
<1>3. CASE Return
  <2>1. LockFitsHolders'
    BY <1>1, <1>3, Returning DEF LockFitsHolders, LockedSteps
  <2> QED BY <1>1, <1>3, <2>1, Returning, IdleClaimsNothing, AgentMoves
<1> QED BY <1>2, <1>3 DEF StartFails

\* The controller's answer: a newer generation, or a sample of this one.
LEMMA FetchKeeps == ASSUME LifecycleInv, Fetch PROVE LifecycleInv'
<1> USE DEF LifecycleInv, LifecycleTypeOK
<1>1. /\ agent.pc = "fetch"
      /\ UNCHANGED <<ledgerVars, reported, pub, receipt, unit, lock>> /\ Host
  BY DEF Fetch, At, Quiet
<1>a. agent \in Agent /\ {"apply", "sample"} \subseteq Steps
  BY DEF Steps
<1>b. \/ \E g \in Generation :
           g > agent.cur /\ agent' = [agent EXCEPT !.pc = "apply", !.goal = "apply", !.cand = g]
      \/ agent.cur # 0 /\ agent' = [agent EXCEPT !.pc = "sample", !.goal = "sample"]
  BY DEF Fetch
<1>2. /\ \/ agent'.pc = "apply" /\ agent'.goal = "apply" /\ agent'.cand # 0
         \/ agent'.pc = "sample" /\ agent'.goal = "sample" /\ agent'.cur # 0
      /\ agent' \in Agent /\ agent'.inv = agent.inv
  <2>1. CASE \E g \in Generation :
               g > agent.cur /\ agent' = [agent EXCEPT !.pc = "apply", !.goal = "apply", !.cand = g]
    <3>1. PICK g \in Generation :
            agent' = [agent EXCEPT !.pc = "apply", !.goal = "apply", !.cand = g]
      BY <2>1
    <3>2. g # 0 /\ g \in Selected
      BY LifecycleAssumption DEF Selected
    <3> QED BY <1>a, <3>1, <3>2 DEF Agent
  <2>2. CASE agent.cur # 0 /\ agent' = [agent EXCEPT !.pc = "sample", !.goal = "sample"]
    BY <1>a, <2>2 DEF Agent
  <2> QED BY <1>b, <2>1, <2>2
<1>4. LockFitsHolders'
  BY <1>1, <1>2 DEF LockFitsHolders, LockedSteps
<1>5. AgentFits' /\ SampleIsCommitted' /\ UnitStaysDown'
  BY <1>1, <1>2 DEF AgentFits, SampleIsCommitted, UnitStaysDown, Host
<1> QED BY <1>1, <1>2, <1>4, <1>5, AgentMoves

\* Identify: the invocation that runs the selected generation.
LEMMA IdentifyKeeps ==
  ASSUME LifecycleInv, NEW from \in {"identify", "inspect"}, Identify(from)
  PROVE  LifecycleInv'
<1> USE DEF LifecycleInv, LifecycleTypeOK
<1>1. /\ agent.pc = from /\ unit.state = "running" /\ pub = Sampling
      /\ agent' = [agent EXCEPT !.pc = "read", !.inv = unit.inv]
      /\ UNCHANGED <<ledgerVars, reported, pub, receipt, unit, lock>> /\ Host
  BY DEF Identify, Identified, At, Quiet
<1>2. /\ agent' \in Agent /\ agent'.pc = "read" /\ agent'.inv = unit.inv
      /\ agent'.goal = agent.goal /\ agent'.cur = agent.cur /\ agent'.cand = agent.cand
  BY <1>1 DEF Agent, Steps
<1>3. unit.inv \in Invocation /\ ran[unit.inv] # 0
  BY <1>1 DEF UnitFits, EngineRunsSelected, Up, Engine
<1>4. LockFitsHolders'
  BY <1>1, <1>2 DEF LockFitsHolders, LockedSteps
<1>5. AgentFits' /\ SampleIsCommitted' /\ UnitStaysDown'
  BY <1>1, <1>2, <1>3, LifecycleAssumption DEF AgentFits, SampleIsCommitted, UnitStaysDown, Host
<1> QED BY <1>1, <1>2, <1>4, <1>5, AgentMoves

\* The counters that answer are those of the engine that was identified.
LEMMA ReadCountersKeeps == ASSUME LifecycleInv, ReadCounters PROVE LifecycleInv'
<1> USE DEF LifecycleInv, LifecycleTypeOK
<1>1. /\ agent.pc = "read" /\ unit.state \in Engine
      /\ agent' = [agent EXCEPT !.pc = "record", !.reading = count[unit.inv]]
      /\ UNCHANGED <<ledgerVars, reported, pub, receipt, unit, lock>> /\ Host
  BY DEF ReadCounters, At, Quiet, Engine
<1>2. unit.inv = agent.inv /\ unit.inv \in Invocation /\ count[unit.inv] \in Bytes
  BY <1>1 DEF AgentFits, UnitFits, Up
<1>3. /\ agent' \in Agent /\ agent'.pc = "record" /\ agent'.reading = count[agent.inv]
      /\ agent'.goal = agent.goal /\ agent'.cur = agent.cur /\ agent'.cand = agent.cand
      /\ agent'.inv = agent.inv
  BY <1>1, <1>2 DEF Agent, Steps
<1>4. Leq(count[agent.inv], count[agent.inv])
  BY <1>2, LeqReflexive
<1>5. Leq(agent'.reading, count'[agent'.inv])
  BY <1>1, <1>3, <1>4 DEF Host
<1>6. LockFitsHolders'
  BY <1>1, <1>3 DEF LockFitsHolders, LockedSteps
<1>7. AgentFits' /\ SampleIsCommitted' /\ UnitStaysDown'
  BY <1>1, <1>3, <1>5 DEF AgentFits, SampleIsCommitted, UnitStaysDown, Host
<1> QED BY <1>1, <1>3, <1>6, <1>7, AgentMoves

\* Record under lifecycle.lock: the reading was counted by the invocation that
\* runs the selected generation, and is booked to that generation's credential.
LEMMA CommitSampleKeeps == ASSUME LifecycleInv, CommitSample PROVE LifecycleInv'
<1> USE DEF LifecycleInv, LifecycleTypeOK
<1> DEFINE i == agent.inv
           c == Roster[Sampling]
           r == agent.reading
<1>1. /\ agent.pc = "record" /\ pub = Sampling /\ unit.state = "running" /\ unit.inv = i
      /\ UNCHANGED <<reported, pub, receipt, unit>> /\ Host /\ AfterSample
  BY DEF CommitSample, Identified, At
<1>2. PICK d \in Day : Record(i, c, r, d)
  BY DEF CommitSample
<1>3. i \in Invocation /\ pub \in Generation /\ ran[i] = pub
  BY <1>1 DEF UnitFits, EngineRunsSelected, Up, Engine, Selected
<1>4. c \in Credential /\ r \in Bytes /\ Roster[pub] = c
  BY <1>1, <1>3, LifecycleAssumption DEF Agent
<1>5. LedgerTypeOK'
  BY <1>2, <1>3, <1>4, RecordStep
<1>6. /\ checkpoints' = [checkpoints EXCEPT ![i][c] = r]
      /\ finished' = finished
      /\ gaps' = gaps \cup (Sampled(c) \ ({i} \cup finished))
  BY <1>2 DEF Record, Abandoned
<1>7. /\ agent' \in Agent /\ agent'.pc \in {"stop", "upload"} /\ agent'.goal = agent.goal
      /\ agent'.cur = agent.cur /\ agent'.cand = agent.cand /\ agent'.inv = agent.inv
      /\ agent'.pc = "stop" => agent.goal = "apply" /\ lock' = lock
      /\ agent'.pc = "upload" =>
           agent.goal = "sample" /\ lock' = IF lock = "agent" THEN "free" ELSE lock
  <2>1. "stop" \in Steps /\ "upload" \in Steps
    BY DEF Steps
  <2> QED BY <1>1, <2>1, Going DEF AfterSample, AgentFits, Unlock
<1>8. Leq(r, count[i])
  BY <1>1 DEF AgentFits
<1> HIDE DEF i, c, r
<1>9. ASSUME NEW b \in Credential
      PROVE  Sampled(b)' = IF b = c THEN Sampled(b) \cup {i} ELSE Sampled(b)
  <2>1. \A j \in Invocation : checkpoints'[j][b] = IF j = i /\ b = c THEN r ELSE checkpoints[j][b]
    BY <1>3, <1>4, <1>6 DEF LedgerTypeOK
  <2>2. r # NoReading
    BY <1>4, NoReadingAssumption
  <2> QED BY <1>3, <2>1, <2>2 DEF Sampled
<1>10. SamplesAreGenuine'
  <2>1. ASSUME NEW j \in Invocation, NEW b \in Credential, j \in Sampled(b)'
        PROVE  ran'[j] \in Generation /\ Roster[ran'[j]] = b /\ Leq(checkpoints'[j][b], count'[j])
    <3>1. CASE j = i /\ b = c
      BY <1>1, <1>3, <1>4, <1>6, <1>8, <3>1 DEF Host, LedgerTypeOK
    <3>2. CASE ~(j = i /\ b = c)
      <4>1. checkpoints'[j][b] = checkpoints[j][b]
        BY <1>3, <1>4, <1>6, <3>2 DEF LedgerTypeOK
      <4>2. j \in Sampled(b)
        BY <2>1, <4>1 DEF Sampled
      <4> QED BY <1>1, <4>1, <4>2 DEF SamplesAreGenuine, Host
    <3> QED BY <3>1, <3>2
  <2> QED BY <2>1 DEF SamplesAreGenuine
<1>11. FinishedHasEnded'
  BY <1>1, <1>6 DEF FinishedHasEnded, Ended, Host
<1>12. LockFitsHolders'
  BY <1>1, <1>7 DEF LockFitsHolders, LockedSteps
<1>13. AgentFits' /\ UnitStaysDown'
  BY <1>1, <1>7 DEF AgentFits, UnitStaysDown, Host
<1>14. SampleIsCommitted'
  <2>1. PICK b \in Credential : b = c
    BY <1>4
  <2>2. agent'.pc = "upload" => Roster[agent'.cur] = b /\ agent'.inv = i
    BY <1>7, <2>1 DEF Sampling, i, c
  <2>3. i \in Sampled(b)' /\ Sampled(b)' \ {i} \subseteq finished' \cup gaps'
    BY <1>6, <1>9, <2>1
  <2> QED BY <1>7, <2>2, <2>3 DEF SampleIsCommitted, Sampled
<1>15. lock' \in {"free", "agent", "wrapper"} /\ reported' \in Status
  BY <1>1, <1>7
<1> QED BY <1>1, <1>5, <1>7, <1>10, <1>11, <1>12, <1>13, <1>14, <1>15, AgentWrites

\* apply finds the unit stopped: a gap for what ran, if anything did.
LEMMA InspectStoppedKeeps == ASSUME LifecycleInv, InspectStopped PROVE LifecycleInv'
<1> USE DEF LifecycleInv, LifecycleTypeOK
<1>1. /\ agent.pc = "inspect" /\ MissingEngine /\ Goto("stop") /\ "stop" \in Steps
      /\ UNCHANGED <<pub, receipt, unit, lock, reported>> /\ Host
  BY DEF InspectStopped, At, Steps
<1>2. LockFitsHolders'
  BY <1>1, Going DEF LockFitsHolders, LockedSteps
<1>3. AgentFits' /\ SampleIsCommitted' /\ UnitStaysDown'
  BY <1>1, Going DEF AgentFits, SampleIsCommitted, UnitStaysDown, Host
<1> QED BY <1>1, <1>2, <1>3, Going, GapReported, AgentWrites

\* A unit that goes down under the agent's lock or by itself.
LEMMA Stopping ==
  ASSUME LifecycleInv, NEW s \in UnitState \ {"waiting", "locked", "written"},
         s \in Engine => unit.state \in Engine,
         unit' = [unit EXCEPT !.state = s, !.gen = IF s \in Engine THEN unit.gen ELSE 0],
         UNCHANGED <<ledgerVars, pub, receipt, started, ran, count>>
  PROVE  /\ unit' \in [state : UnitState, gen : Selected, inv : Invocation \cup {NoInvocation}]
         /\ unit'.state = s /\ unit'.inv = unit.inv
         /\ UnitFits' /\ EngineRunsSelected' /\ LedgerTypeOK'
         /\ SamplesAreGenuine' /\ FinishedHasEnded'
<1> USE DEF LifecycleInv, LifecycleTypeOK
<1>1. /\ unit' \in [state : UnitState, gen : Selected, inv : Invocation \cup {NoInvocation}]
      /\ unit'.state = s /\ unit'.inv = unit.inv
      /\ s \in Engine => unit'.gen = unit.gen
  BY DEF Selected
<1>2. UnitFits' /\ EngineRunsSelected'
  BY <1>1 DEF UnitFits, EngineRunsSelected, UnitState, Up, Engine
<1>3. LedgerTypeOK' /\ SamplesAreGenuine' /\ FinishedHasEnded'
  BY <1>1, DownStaysGenuine
<1> QED BY <1>1, <1>2, <1>3

\* apply stops the unit under the lock.
LEMMA StopUnitKeeps == ASSUME LifecycleInv, StopUnit PROVE LifecycleInv'
<1> USE DEF LifecycleInv, LifecycleTypeOK
<1>1. /\ agent.pc = "stop" /\ Goto("confirm") /\ "confirm" \in Steps
      /\ UNCHANGED <<ledgerVars, pub, receipt, lock, reported, started, ran, count>>
      /\ unit' = [unit EXCEPT !.state = "stopped", !.gen = 0]
  BY DEF StopUnit, At, Steps, Quiet, Host
<1>2. "stopped" \in UnitState \ ({"waiting", "locked", "written"} \cup Engine)
  BY DEF UnitState, Engine
<1>3. /\ unit' \in [state : UnitState, gen : Selected, inv : Invocation \cup {NoInvocation}]
      /\ unit'.state = "stopped" /\ UnitFits' /\ EngineRunsSelected' /\ LedgerTypeOK'
      /\ SamplesAreGenuine' /\ FinishedHasEnded'
  BY <1>1, <1>2, Stopping
<1>4. LockFitsHolders'
  BY <1>1, <1>3, Going DEF LockFitsHolders, LockedSteps
<1>5. AgentFits' /\ SampleIsCommitted' /\ UnitStaysDown'
  BY <1>1, Going DEF AgentFits, SampleIsCommitted, UnitStaysDown
<1> QED BY <1>1, <1>3, <1>4, <1>5, Going

\* The stop command expires: the engine is stopping when the cycle ends.
LEMMA StopExpiresKeeps == ASSUME LifecycleInv, StopExpires PROVE LifecycleInv'
<1> USE DEF LifecycleInv, LifecycleTypeOK
<1>1. /\ agent.pc = "stop" /\ unit.state = "running" /\ Return
      /\ UNCHANGED <<ledgerVars, pub, receipt, reported, started, ran, count>>
      /\ unit' = [unit EXCEPT !.state = "stopping"]
  BY DEF StopExpires, At, Quiet, Host
<1>2. "stopping" \in UnitState \ {"waiting", "locked", "written"} /\ {"stopping", "running"} \subseteq Engine
  BY DEF UnitState, Engine
<1>3. unit' = [unit EXCEPT !.state = "stopping", !.gen = unit.gen]
  BY <1>1
<1>4. /\ unit' \in [state : UnitState, gen : Selected, inv : Invocation \cup {NoInvocation}]
      /\ unit'.state = "stopping" /\ UnitFits' /\ EngineRunsSelected' /\ LedgerTypeOK'
      /\ SamplesAreGenuine' /\ FinishedHasEnded'
  BY <1>1, <1>2, <1>3, Stopping
<1>5. LockFitsHolders'
  BY <1>1, <1>4, Returning DEF LockFitsHolders, LockedSteps
<1> QED BY <1>1, <1>4, <1>5, Returning, IdleClaimsNothing

\* The stop is confirmed before anything is finished or published.
LEMMA ConfirmKeeps == ASSUME LifecycleInv, Confirm PROVE LifecycleInv'
<1> USE DEF LifecycleInv, LifecycleTypeOK
<1>1. /\ agent.pc = "confirm" /\ unit.state \in {"stopped", "restart"}
      /\ UNCHANGED <<ledgerVars, pub, receipt, unit, lock, reported>> /\ Host
  BY DEF Confirm, At, Stopped, Quiet
<1>2. PICK step \in {"publish", "finish"} :
        Goto(step) /\ (step = "finish" => agent.inv # NoInvocation)
  BY DEF Confirm
<1>3. step \in Steps
  BY DEF Steps
<1>4. LockFitsHolders'
  BY <1>1, <1>2, <1>3, Going DEF LockFitsHolders, LockedSteps
<1>5. AgentFits' /\ SampleIsCommitted' /\ UnitStaysDown'
  BY <1>1, <1>2, <1>3, Going DEF AgentFits, SampleIsCommitted, UnitStaysDown, Host
<1> QED BY <1>1, <1>2, <1>3, <1>4, <1>5, Going, AgentMoves

\* Finish, under the lock and after the confirmation: its invocation has ended.
LEMMA FinishInvocationKeeps == ASSUME LifecycleInv, FinishInvocation PROVE LifecycleInv'
<1> USE DEF LifecycleInv, LifecycleTypeOK
<1>1. /\ agent.pc = "finish" /\ Finish(agent.inv) /\ Goto("publish") /\ "publish" \in Steps
      /\ UNCHANGED <<pub, receipt, unit, lock, reported>> /\ Host
  BY DEF FinishInvocation, At, Steps
<1>2. /\ agent.inv \in Invocation /\ ran[agent.inv] # 0
      /\ unit.state \in {"stopped", "restart", "waiting"}
  BY <1>1 DEF AgentFits, Agent, UnitStaysDown
<1>3. finished' = finished \cup {agent.inv} /\ UNCHANGED <<checkpoints, usage, gaps>>
  BY <1>1 DEF Finish
<1>4. LedgerTypeOK' /\ SamplesAreGenuine'
  BY <1>1, <1>2, <1>3 DEF LedgerTypeOK, SamplesAreGenuine, Sampled, Host
<1>5. FinishedHasEnded'
  BY <1>1, <1>2, <1>3 DEF FinishedHasEnded, Ended, Host
<1>6. LockFitsHolders'
  BY <1>1, Going DEF LockFitsHolders, LockedSteps
<1>7. AgentFits' /\ SampleIsCommitted' /\ UnitStaysDown'
  BY <1>1, Going DEF AgentFits, SampleIsCommitted, UnitStaysDown, Host
<1> QED BY <1>1, <1>4, <1>5, <1>6, <1>7, Going, AgentWrites

\* The pointer moves under the lock while nothing runs.
LEMMA PublishKeeps == ASSUME LifecycleInv, Publish PROVE LifecycleInv'
<1> USE DEF LifecycleInv, LifecycleTypeOK
<1>1. /\ agent.pc = "publish" /\ pub' = agent.cand
      /\ UNCHANGED <<ledgerVars, reported, receipt, unit>> /\ Host
      /\ (Goto("reset") /\ lock' = "free") \/ Return
  BY DEF Publish, At, Quiet
<1>2. /\ pub' \in Selected /\ pub' # 0 /\ unit.state \in {"stopped", "restart", "waiting"}
      /\ lock = "agent"
  BY <1>1 DEF Agent, AgentFits, UnitStaysDown, LockFitsHolders, LockedSteps
<1>3. UnitFits' /\ EngineRunsSelected'
  BY <1>1, <1>2 DEF UnitFits, EngineRunsSelected, Up, Engine, Host
<1>4. LedgerTypeOK' /\ SamplesAreGenuine' /\ FinishedHasEnded'
  BY <1>1, DownStaysGenuine DEF Host
<1>5. CASE Goto("reset") /\ lock' = "free"
  <2>1. "reset" \in Steps
    BY DEF Steps
  <2>2. LockFitsHolders'
    BY <1>1, <1>2, <1>5, <2>1, Going DEF LockFitsHolders, LockedSteps
  <2>3. AgentFits' /\ SampleIsCommitted' /\ UnitStaysDown'
    BY <1>1, <1>5, <2>1, Going DEF AgentFits, SampleIsCommitted, UnitStaysDown, Host
  <2> QED BY <1>1, <1>2, <1>3, <1>4, <1>5, <2>1, <2>2, <2>3, Going DEF Host
<1>6. CASE Return
  <2>1. LockFitsHolders'
    BY <1>1, <1>2, <1>6, Returning DEF LockFitsHolders, LockedSteps
  <2> QED BY <1>1, <1>2, <1>3, <1>4, <1>6, <2>1, Returning, IdleClaimsNothing DEF Host
<1> QED BY <1>1, <1>5, <1>6

\* The failed-state reset, the upload of the ledger: no state of the host.
LEMMA ResetKeeps == ASSUME LifecycleInv, Reset \/ Upload PROVE LifecycleInv'
<1> USE DEF LifecycleInv, LifecycleTypeOK
<1>1. UNCHANGED <<ledgerVars, pub, receipt, unit, lock, reported>> /\ Host
  BY DEF Reset, Upload, Quiet
<1>2. \/ agent.pc = "reset" /\ Goto("start")
      \/ agent.pc = "upload" /\ Goto("status")
  BY DEF Reset, Upload, At
<1>3. "start" \in Steps /\ "status" \in Steps
  BY DEF Steps
<1>4. LockFitsHolders'
  BY <1>1, <1>2, <1>3, Going DEF LockFitsHolders, LockedSteps
<1>5. AgentFits' /\ UnitStaysDown'
  BY <1>1, <1>2, <1>3, Going DEF AgentFits, UnitStaysDown, Host
<1>6. SampleIsCommitted'
  BY <1>1, <1>2, <1>3, Going DEF SampleIsCommitted, Sampled, ledgerVars
<1> QED BY <1>1, <1>2, <1>3, <1>4, <1>5, <1>6, Going, AgentMoves

\* The engine is observed again, and the lock is free.
LEMMA ReobserveKeeps == ASSUME LifecycleInv, Reobserve PROVE LifecycleInv'
<1> USE DEF LifecycleInv, LifecycleTypeOK
<1>1. /\ agent.pc = "status" /\ Goto("count") /\ "count" \in Steps
      /\ UNCHANGED <<ledgerVars, pub, receipt, unit, lock, reported>> /\ Host
      /\ pub = agent.cur /\ unit.state = "running" /\ unit.inv = agent.inv
  BY DEF Reobserve, At, Quiet, Steps, Identified
<1>2. ran[agent.inv] = pub
  BY <1>1 DEF UnitFits, EngineRunsSelected, Engine
<1>3. LockFitsHolders'
  BY <1>1, Going DEF LockFitsHolders, LockedSteps
<1>4. AgentFits' /\ UnitStaysDown'
  BY <1>1, <1>2, Going DEF AgentFits, UnitStaysDown, Host
<1>5. SampleIsCommitted'
  BY <1>1, Going DEF SampleIsCommitted, Sampled, ledgerVars
<1> QED BY <1>1, <1>3, <1>4, <1>5, Going, AgentMoves

\* The gaps are counted.
LEMMA CountGapsKeeps == ASSUME LifecycleInv, CountGaps PROVE LifecycleInv'
<1> USE DEF LifecycleInv, LifecycleTypeOK
<1>1. /\ agent.pc = "count" /\ agent' = [agent EXCEPT !.pc = "post", !.counted = Cardinality(gaps)]
      /\ UNCHANGED <<ledgerVars, pub, receipt, unit, lock, reported>> /\ Host
  BY DEF CountGaps, At, Quiet
<1>2. Cardinality(gaps) \in Nat
  BY FS_Subset, FS_CardinalityType, AccountingAssumption DEF LedgerTypeOK
<1>3. /\ agent' \in Agent /\ agent'.pc = "post" /\ agent'.counted = Cardinality(gaps)
      /\ agent'.goal = agent.goal /\ agent'.cur = agent.cur /\ agent'.cand = agent.cand
      /\ agent'.inv = agent.inv
  BY <1>1, <1>2 DEF Agent, Steps
<1>4. LockFitsHolders'
  BY <1>1, <1>3 DEF LockFitsHolders, LockedSteps
<1>5. AgentFits' /\ UnitStaysDown'
  BY <1>1, <1>3 DEF AgentFits, UnitStaysDown, Host
<1>6. SampleIsCommitted'
  BY <1>1, <1>3 DEF SampleIsCommitted, Sampled, ledgerVars
<1> QED BY <1>1, <1>3, <1>4, <1>5, <1>6, AgentMoves

\* The status that a cycle earns.
LEMMA PostStatusKeeps == ASSUME LifecycleInv, PostStatus PROVE LifecycleInv'
<1> USE DEF LifecycleInv, LifecycleTypeOK
<1>1. /\ agent.pc = "post" /\ Return
      /\ UNCHANGED <<ledgerVars, pub, receipt, unit>> /\ Host
      /\ reported' = [gen |-> agent.cur, inv |-> agent.inv, gaps |-> agent.counted]
  BY DEF PostStatus, At
<1>2. reported' \in Status
  BY <1>1 DEF Status, Agent
<1>3. LockFitsHolders'
  BY <1>1, Returning DEF LockFitsHolders, LockedSteps
<1> QED BY <1>1, <1>2, <1>3, Returning, IdleClaimsNothing, AgentMoves

\* The agent dies at any step: its lock goes with it, the host stays.
LEMMA AgentCrashKeeps == ASSUME LifecycleInv, AgentCrash \/ AgentStart PROVE LifecycleInv'
<1> USE DEF LifecycleInv, LifecycleTypeOK
<1>1. UNCHANGED <<ledgerVars, pub, receipt, unit, reported>> /\ Host
  BY DEF AgentCrash, AgentStart, Quiet
<1>2. /\ agent' \in Agent /\ agent'.pc \in {"cycle", "off"} /\ agent'.goal = "none"
      /\ agent'.inv = NoInvocation
  <2>1. CASE AgentCrash
    BY <2>1, CrashedTyped DEF AgentCrash
  <2>2. CASE AgentStart
    BY <2>2, NewCycleTyped DEF AgentStart
  <2> QED BY <2>1, <2>2
<1>3. LockFitsHolders' /\ lock' \in {"free", "agent", "wrapper"}
  BY <1>1, <1>2 DEF AgentCrash, AgentStart, At, Unlock, LockFitsHolders, LockedSteps
<1> QED BY <1>1, <1>2, <1>3, IdleClaimsNothing, AgentMoves

-----------------------------------------------------------------------------
(***************************************************************************)
(* The unit and its process.                                               *)
(***************************************************************************)

\* systemd starts the unit: its process waits for the lock.
LEMMA UnitStartKeeps == ASSUME LifecycleInv, UnitStart PROVE LifecycleInv'
<1> USE DEF LifecycleInv, LifecycleTypeOK
<1>1. Launch /\ UNCHANGED <<ledgerVars, reported, pub, receipt, lock, agent, ran, count>>
  BY DEF UnitStart, Quiet
<1>2. LockFitsHolders'
  BY <1>1, Launching DEF LockFitsHolders
<1>3. LedgerTypeOK' /\ SamplesAreGenuine' /\ FinishedHasEnded'
  BY <1>1, Launching, DownStaysGenuine DEF Engine
<1>4. AgentFits' /\ SampleIsCommitted' /\ UnitStaysDown'
  BY <1>1, Launching DEF AgentFits, SampleIsCommitted, UnitStaysDown, Sampled, ledgerVars, Engine
<1> QED BY <1>1, <1>2, <1>3, <1>4, Launching

\* The wrapper reads the pointer under the lock.
LEMMA WrapperLocksKeeps == ASSUME LifecycleInv, WrapperLocks PROVE LifecycleInv'
<1> USE DEF LifecycleInv, LifecycleTypeOK
<1>1. /\ unit.state = "waiting" /\ lock = "free" /\ lock' = "wrapper"
      /\ unit' = [unit EXCEPT !.state = "locked", !.gen = pub]
      /\ UNCHANGED <<ledgerVars, reported, pub, receipt, agent, started, ran, count>>
  BY DEF WrapperLocks, Quiet
<1>2. /\ unit' \in [state : UnitState, gen : Selected, inv : Invocation \cup {NoInvocation}]
      /\ unit'.state = "locked" /\ unit'.gen = pub /\ unit'.inv = unit.inv
  BY <1>1 DEF UnitState
<1>3. UnitFits' /\ EngineRunsSelected'
  BY <1>1, <1>2 DEF UnitFits, EngineRunsSelected, Up, Engine
<1>4. agent.pc \notin LockedSteps
  BY <1>1 DEF LockFitsHolders
<1>5. LockFitsHolders'
  BY <1>1, <1>2, <1>4 DEF LockFitsHolders
<1>6. LedgerTypeOK' /\ SamplesAreGenuine' /\ FinishedHasEnded'
  BY <1>1, <1>2, DownStaysGenuine DEF Engine
<1>7. AgentFits' /\ SampleIsCommitted' /\ UnitStaysDown'
  BY <1>1, <1>2, <1>4 DEF AgentFits, SampleIsCommitted, UnitStaysDown, Sampled, ledgerVars,
                          Engine, LockedSteps
<1> QED BY <1>1, <1>2, <1>3, <1>5, <1>6, <1>7

\* It writes its receipt.
LEMMA WrapperWritesKeeps == ASSUME LifecycleInv, WrapperWrites PROVE LifecycleInv'
<1> USE DEF LifecycleInv, LifecycleTypeOK
<1>1. /\ unit.state = "locked" /\ receipt' = [gen |-> unit.gen, inv |-> unit.inv]
      /\ unit' = [unit EXCEPT !.state = "written"]
      /\ UNCHANGED <<ledgerVars, reported, pub, lock, agent, started, ran, count>>
  BY DEF WrapperWrites, Quiet
<1>2. /\ unit' \in [state : UnitState, gen : Selected, inv : Invocation \cup {NoInvocation}]
      /\ unit'.state = "written" /\ unit'.gen = unit.gen /\ unit'.inv = unit.inv
      /\ receipt' \in Run /\ receipt'.inv = unit.inv
  BY <1>1 DEF UnitState, Run
<1>3. UnitFits' /\ EngineRunsSelected'
  BY <1>1, <1>2 DEF UnitFits, EngineRunsSelected, Up, Engine
<1>4. LockFitsHolders'
  BY <1>1, <1>2 DEF LockFitsHolders
<1>5. LedgerTypeOK' /\ SamplesAreGenuine' /\ FinishedHasEnded'
  BY <1>1, <1>2, DownStaysGenuine DEF Engine
<1>6. AgentFits' /\ SampleIsCommitted' /\ UnitStaysDown'
  BY <1>1, <1>2 DEF AgentFits, SampleIsCommitted, UnitStaysDown, Sampled, ledgerVars, Engine
<1> QED BY <1>1, <1>2, <1>3, <1>4, <1>5, <1>6

\* exec: a fresh invocation becomes an engine of the selected generation.
LEMMA WrapperExecsKeeps == ASSUME LifecycleInv, WrapperExecs PROVE LifecycleInv'
<1> USE DEF LifecycleInv, LifecycleTypeOK
<1>1. /\ unit.state = "written" /\ unit' = [unit EXCEPT !.state = "running"]
      /\ ran' = [ran EXCEPT ![unit.inv] = unit.gen]
      /\ UNCHANGED <<ledgerVars, reported, pub, receipt, agent, started, count>>
  BY DEF WrapperExecs, Quiet
<1>2. /\ unit' \in [state : UnitState, gen : Selected, inv : Invocation \cup {NoInvocation}]
      /\ unit'.state = "running" /\ unit'.gen = unit.gen /\ unit'.inv = unit.inv
  BY <1>1 DEF UnitState
<1>3. /\ unit.inv \in started /\ unit.inv \in Invocation /\ ran[unit.inv] = 0
      /\ unit.gen = pub /\ pub # 0
  BY <1>1 DEF UnitFits, EngineRunsSelected, Up
<1>4. /\ ran' \in [Invocation -> Selected] /\ ran'[unit.inv] = unit.gen
      /\ \A i \in Invocation : i # unit.inv => ran'[i] = ran[i]
  BY <1>1, <1>3
<1>5. lock = "wrapper" /\ lock' = "free" /\ agent.pc \notin LockedSteps
  BY <1>1 DEF WrapperExecs, LockFitsHolders
<1>6. UnitFits' /\ EngineRunsSelected'
  BY <1>1, <1>2, <1>3, <1>4 DEF UnitFits, EngineRunsSelected, Up, Engine
<1>7. LockFitsHolders'
  BY <1>1, <1>2, <1>5 DEF LockFitsHolders
<1>8. LedgerTypeOK'
  BY <1>1 DEF LedgerTypeOK, ledgerVars
<1>9. SamplesAreGenuine'
  <2>1. ASSUME NEW i \in Invocation, NEW c \in Credential, i \in Sampled(c)'
        PROVE  ran'[i] \in Generation /\ Roster[ran'[i]] = c /\ Leq(checkpoints'[i][c], count'[i])
    <3>1. i \in Sampled(c)
      BY <1>1, <2>1 DEF Sampled, ledgerVars
    <3>2. ran[i] \in Generation /\ Roster[ran[i]] = c /\ Leq(checkpoints[i][c], count[i])
      BY <3>1 DEF SamplesAreGenuine
    <3>3. i # unit.inv
      BY <1>3, <3>2, LifecycleAssumption
    <3> QED BY <1>1, <1>4, <3>2, <3>3 DEF ledgerVars
  <2> QED BY <2>1 DEF SamplesAreGenuine
<1>10. FinishedHasEnded'
  <2>1. \A i \in finished : i \in Invocation /\ ran[i] # 0
    BY DEF FinishedHasEnded, Ended
  <2> QED BY <1>1, <1>2, <1>3, <1>4, <2>1 DEF FinishedHasEnded, Ended, ledgerVars
<1>11. AgentFits' /\ SampleIsCommitted' /\ UnitStaysDown'
  <2>1. agent.inv # NoInvocation => ran'[agent.inv] # 0
    BY <1>3, <1>4 DEF AgentFits, Agent
  <2>2. agent.pc \in {"count", "post"} => pub = agent.cur /\ ran'[agent.inv] = pub
    BY <1>3, <1>4 DEF AgentFits, SampleIsCommitted, Sampled
  <2> QED BY <1>1, <1>5, <2>1, <2>2 DEF AgentFits, SampleIsCommitted, UnitStaysDown, Sampled, ledgerVars,
                                  LockedSteps
<1> QED BY <1>1, <1>2, <1>4, <1>5, <1>6, <1>7, <1>8, <1>9, <1>10, <1>11

\* The process ends by itself; a wrapper's lock goes with it.
LEMMA UnitExitsKeeps == ASSUME LifecycleInv, UnitExits PROVE LifecycleInv'
<1> USE DEF LifecycleInv, LifecycleTypeOK
<1>1. PICK s \in {"stopped", "restart"} : unit' = [unit EXCEPT !.state = s, !.gen = 0]
  BY DEF UnitExits
<1>2. UNCHANGED <<ledgerVars, reported, pub, receipt, agent, started, ran, count>>
  BY DEF UnitExits, Quiet
<1>3. s \in UnitState \ ({"waiting", "locked", "written"} \cup Engine)
  BY DEF UnitState, Engine
<1>4. /\ unit' \in [state : UnitState, gen : Selected, inv : Invocation \cup {NoInvocation}]
      /\ unit'.state = s /\ UnitFits' /\ EngineRunsSelected' /\ LedgerTypeOK'
      /\ SamplesAreGenuine' /\ FinishedHasEnded'
  BY <1>1, <1>2, <1>3, Stopping
<1>5. LockFitsHolders' /\ lock' \in {"free", "agent", "wrapper"}
  BY <1>2, <1>3, <1>4 DEF LockFitsHolders, UnitExits
<1>6. AgentFits' /\ SampleIsCommitted' /\ UnitStaysDown'
  BY <1>2, <1>3, <1>4 DEF AgentFits, SampleIsCommitted, UnitStaysDown, Sampled, ledgerVars
<1> QED BY <1>2, <1>4, <1>5, <1>6

\* Bytes pass: the counters of an invocation only grow.
LEMMA TrafficKeeps == ASSUME LifecycleInv, Traffic PROVE LifecycleInv'
<1> USE DEF LifecycleInv, LifecycleTypeOK
<1>1. /\ unit.state \in Engine
      /\ UNCHANGED <<ledgerVars, reported, pub, receipt, unit, lock, agent, started, ran>>
  BY DEF Traffic, Quiet, Engine
<1>2. PICK dir \in Direction :
        count[unit.inv][dir] < MaxInt /\ count' = [count EXCEPT ![unit.inv][dir] = @ + 1]
  BY DEF Traffic
<1>3. unit.inv \in Invocation
  BY <1>1 DEF UnitFits, Up
<1>4. \A i \in Invocation : count[i] \in Bytes
  OBVIOUS
<1>5. count'[unit.inv] = [count[unit.inv] EXCEPT ![dir] = @ + 1]
  BY <1>2, <1>3
<1>6. \A i \in Invocation : i # unit.inv => count'[i] = count[i]
  BY <1>2, <1>3
<1>7. count'[unit.inv] \in Bytes /\ Leq(count[unit.inv], count'[unit.inv])
  BY <1>2, <1>3, <1>4, <1>5, AccountingAssumption DEF Bytes, Leq
<1>8. /\ count' \in [Invocation -> Bytes]
      /\ \A i \in Invocation : Leq(count[i], count'[i])
  <2>1. \A i \in Invocation : count'[i] \in Bytes /\ Leq(count[i], count'[i])
    BY <1>4, <1>6, <1>7, LeqReflexive
  <2>2. DOMAIN count' = Invocation /\ count' = [i \in Invocation |-> count'[i]]
    BY <1>2
  <2> QED BY <2>1, <2>2
<1>9. SamplesAreGenuine'
  <2>1. ASSUME NEW i \in Invocation, NEW c \in Credential, i \in Sampled(c)'
        PROVE  ran'[i] \in Generation /\ Roster[ran'[i]] = c /\ Leq(checkpoints'[i][c], count'[i])
    <3>1. i \in Sampled(c)
      BY <1>1, <2>1 DEF Sampled, ledgerVars
    <3>2. ran[i] \in Generation /\ Roster[ran[i]] = c /\ Leq(checkpoints[i][c], count[i])
      BY <3>1 DEF SamplesAreGenuine
    <3>3. checkpoints[i][c] \in Bytes /\ count[i] \in Bytes /\ count'[i] \in Bytes
      BY <1>8, <3>1 DEF Sampled, LedgerTypeOK
    <3>4. Leq(checkpoints[i][c], count'[i])
      BY <1>8, <3>2, <3>3, LeqTransitive
    <3> QED BY <1>1, <3>2, <3>4 DEF ledgerVars
  <2> QED BY <2>1 DEF SamplesAreGenuine
<1>10. agent.pc = "record" => Leq(agent.reading, count'[agent.inv])
  <2> SUFFICES ASSUME agent.pc = "record" PROVE Leq(agent.reading, count'[agent.inv])
    OBVIOUS
  <2>1. /\ agent.inv \in Invocation /\ agent.reading \in Bytes
        /\ Leq(agent.reading, count[agent.inv])
    BY DEF AgentFits, Agent
  <2> QED BY <1>4, <1>8, <2>1, LeqTransitive
<1>11. AgentFits'
  BY <1>1, <1>10 DEF AgentFits
<1>12. /\ LedgerTypeOK' /\ LockFitsHolders' /\ UnitFits' /\ EngineRunsSelected' /\ UnitStaysDown'
       /\ SampleIsCommitted' /\ FinishedHasEnded'
  BY <1>1 DEF LedgerTypeOK, LockFitsHolders, UnitFits, EngineRunsSelected, UnitStaysDown, Sampled,
              SampleIsCommitted, FinishedHasEnded, Ended, ledgerVars
<1> QED BY <1>1, <1>8, <1>9, <1>11, <1>12

\* The machine reboots: nothing runs, nobody holds the lock.
LEMMA RebootKeeps == ASSUME LifecycleInv, Reboot PROVE LifecycleInv'
<1> USE DEF LifecycleInv, LifecycleTypeOK
<1>1. /\ unit' = [unit EXCEPT !.state = "stopped", !.gen = 0] /\ lock' = "free"
      /\ agent' = [NewCycle(0) EXCEPT !.pc = "off"]
      /\ UNCHANGED <<ledgerVars, reported, pub, receipt, started, ran, count>>
  BY DEF Reboot, Quiet, Host
<1>2. "stopped" \in UnitState \ ({"waiting", "locked", "written"} \cup Engine)
  BY DEF UnitState, Engine
<1>3. /\ unit' \in [state : UnitState, gen : Selected, inv : Invocation \cup {NoInvocation}]
      /\ unit'.state = "stopped" /\ UnitFits' /\ EngineRunsSelected' /\ LedgerTypeOK'
      /\ SamplesAreGenuine' /\ FinishedHasEnded'
  BY <1>1, <1>2, Stopping
<1>4. /\ agent' \in Agent /\ agent'.pc = "off" /\ agent'.goal = "none"
      /\ agent'.inv = NoInvocation
  BY <1>1, CrashedTyped
<1>5. LockFitsHolders'
  BY <1>1, <1>3, <1>4 DEF LockFitsHolders, LockedSteps
<1> QED BY <1>1, <1>3, <1>4, <1>5, IdleClaimsNothing

-----------------------------------------------------------------------------
(***************************************************************************)
(* The whole, and what it implies.                                         *)
(***************************************************************************)

\* A node without a generation.
LEMMA LifecycleInitially == ASSUME LifecycleInit PROVE LifecycleInv
<1>1. LedgerTypeOK
  BY LedgerInitType DEF LifecycleInit
<1>2. 0 \in Selected /\ NoBytes \in Bytes /\ NewCycle(0) \in Agent
  BY NewCycleTyped, AccountingAssumption DEF Selected, NoBytes, Bytes
<1>3. NewCycle(0).pc = "cycle" /\ NewCycle(0).goal = "none" /\ NewCycle(0).inv = NoInvocation
  BY <1>2, NewCycleTyped
<1>4. LifecycleTypeOK
  BY <1>1, <1>2 DEF LifecycleInit, LifecycleTypeOK, Run, NoRun, Status, NoStatus, UnitState
<1>5. LockFitsHolders /\ UnitFits /\ EngineRunsSelected /\ UnitStaysDown
  BY <1>3 DEF LifecycleInit, LockFitsHolders, LockedSteps, UnitFits, Up, Engine,
              EngineRunsSelected, UnitStaysDown
<1>6. AgentFits /\ SampleIsCommitted
  BY <1>3 DEF LifecycleInit, AgentFits, SampleIsCommitted
<1>7. SamplesAreGenuine /\ FinishedHasEnded
  BY DEF LifecycleInit, LedgerInit, SamplesAreGenuine, FinishedHasEnded, Sampled
<1> QED BY <1>4, <1>5, <1>6, <1>7 DEF LifecycleInv

\* Every step of the agent, of systemd, of the clients and every crash.
LEMMA LifecycleStep == ASSUME LifecycleInv, [LifecycleNext]_nodeVars PROVE LifecycleInv'
<1>1. CASE UNCHANGED nodeVars
  BY <1>1 DEF nodeVars, hostVars, ledgerVars, LifecycleInv, LifecycleTypeOK, LedgerTypeOK, Sampled,
              LockFitsHolders, UnitFits, EngineRunsSelected, UnitStaysDown, AgentFits,
              SampleIsCommitted, SamplesAreGenuine, FinishedHasEnded, Ended
<1>2. CASE Systemd
  BY <1>2, UnitStartKeeps, WrapperLocksKeeps, WrapperWritesKeeps, WrapperExecsKeeps,
     UnitExitsKeeps DEF Systemd
<1>3. CASE AgentStep
  <2>1. CASE Cycle \/ Fetch \/ Recover \/ Start \/ Observe \/ StartFails \/ Fails
    BY <2>1, CycleKeeps, FetchKeeps, RecoverKeeps, StartKeeps, ObserveKeeps, StartFailsKeeps,
       FailsKeeps
  <2>2. CASE \/ TakeLock("recover", "recovering") \/ TakeLock("apply", "inspect")
             \/ TakeLock("sample", "identify")
    BY <2>2, TakeLockKeeps
  <2>3. CASE Identify("identify") \/ Identify("inspect") \/ ReadCounters \/ CommitSample
    BY <2>3, IdentifyKeeps, ReadCountersKeeps, CommitSampleKeeps
  <2>4. CASE \/ InspectStopped \/ StopUnit \/ StopExpires \/ Confirm \/ FinishInvocation
             \/ Publish \/ Reset \/ Upload \/ Reobserve \/ CountGaps \/ PostStatus
    BY <2>4, InspectStoppedKeeps, StopUnitKeeps, StopExpiresKeeps, ConfirmKeeps,
       FinishInvocationKeeps, PublishKeeps, ResetKeeps, ReobserveKeeps,
       CountGapsKeeps, PostStatusKeeps
  <2> QED BY <1>3, <2>1, <2>2, <2>3, <2>4 DEF AgentStep
<1> QED BY <1>1, <1>2, <1>3, TrafficKeeps, AgentCrashKeeps, RebootKeeps DEF LifecycleNext

(***************************************************************************)
(* The inductive invariant of the engine, its lock and the agent.          *)
(***************************************************************************)
THEOREM LifecycleInvariant == LifecycleSpec => []LifecycleInv
  BY LifecycleInitially, LifecycleStep, PTL DEF LifecycleSpec

(***************************************************************************)
(* Type correctness of the node, for every roster and width.               *)
(***************************************************************************)
THEOREM LifecycleTypes == LifecycleSpec => []LifecycleTypeOK
  BY LifecycleInvariant, PTL DEF LifecycleInv

(***************************************************************************)
(* What runs is what the pointer selects (executeEngine, apply).           *)
(***************************************************************************)
THEOREM SelectedRuns == LifecycleSpec => []EngineRunsSelected
  BY LifecycleInvariant, PTL DEF LifecycleInv

(***************************************************************************)
(* Samples are of the invocation and the credential they are booked to     *)
(* (sampleLocked).                                                         *)
(***************************************************************************)
THEOREM GenuineSamples == LifecycleSpec => []SamplesAreGenuine
  BY LifecycleInvariant, PTL DEF LifecycleInv

(***************************************************************************)
(* A completion marker is of an engine that has ended (stopLocked).        *)
(***************************************************************************)
THEOREM FinishedMeansEnded == LifecycleSpec => []FinishedHasEnded
  BY LifecycleInvariant, PTL DEF LifecycleInv

(***************************************************************************)
(* The lifecycle writes the ledger by the ledger's methods only, whatever  *)
(* dies, and with readings of its types: what is proved of the ledger      *)
(* holds on a node.                                                        *)
(***************************************************************************)
LEMMA GapIsALedgerStep ==
  ASSUME LifecycleInv, MissingEngine PROVE [LedgerNext]_ledgerVars
<1>1. receipt # NoRun => Gap(receipt.inv) /\ receipt.inv \in Invocation
  BY DEF MissingEngine, LifecycleInv, LifecycleTypeOK, UnitFits
<1>2. receipt = NoRun => UNCHANGED ledgerVars
  BY DEF MissingEngine
<1> QED BY <1>1, <1>2 DEF LedgerNext

\* Of a step of the node's lifecycle the ledger sees one of its own transactions, made
\* with what the agent holds, or nothing.
LEMMA LedgerSeen == ASSUME LifecycleInv, [LifecycleNext]_nodeVars PROVE [LedgerNext]_ledgerVars
<1>1. CASE CommitSample
  <2>1. agent.inv \in Invocation /\ Sampling \in Generation /\ agent.reading \in Bytes
    BY <1>1 DEF CommitSample, Identified, LifecycleInv, LifecycleTypeOK, UnitFits, Up, Engine,
                Selected, Agent
  <2>2. Roster[Sampling] \in Credential
    BY <2>1, LifecycleAssumption
  <2>3. \E d \in Day : Record(agent.inv, Roster[Sampling], agent.reading, d)
    BY <1>1 DEF CommitSample
  <2> QED BY <2>1, <2>2, <2>3 DEF LedgerNext
<1>2. CASE FinishInvocation
  <2>1. Finish(agent.inv) /\ agent.inv \in Invocation
    BY <1>2 DEF FinishInvocation, At, LifecycleInv, LifecycleTypeOK, AgentFits, Agent
  <2> QED BY <2>1 DEF LedgerNext
<1>3. CASE Recover \/ InspectStopped
  BY <1>3, GapIsALedgerStep DEF Recover, InspectStopped
<1>4. CASE Systemd \/ Traffic \/ AgentCrash \/ AgentStart \/ Reboot
  BY <1>4 DEF Systemd, Traffic, AgentCrash, AgentStart, Reboot, UnitStart, WrapperLocks,
              WrapperWrites, WrapperExecs, UnitExits, Quiet
<1>5. CASE AgentStep /\ ~(CommitSample \/ FinishInvocation \/ Recover \/ InspectStopped)
  BY <1>5 DEF AgentStep, Cycle, Fetch, Start, Observe, StartFails, Fails, TakeLock, Identify,
              ReadCounters, StopUnit, StopExpires, Confirm, Publish, Reset, Upload, Reobserve,
              CountGaps, PostStatus, Quiet
<1>6. CASE UNCHANGED nodeVars
  BY <1>6 DEF nodeVars
<1> QED BY <1>1, <1>2, <1>3, <1>4, <1>5, <1>6 DEF LifecycleNext

\* The ledger of a node with its agent, engines and crashes is still the ledger of
\* Accounting (sampleLocked, missingEngine, recoverEngine).
THEOREM LifecycleImplementsLedger == LifecycleSpec => LedgerSpec
<1>1. LifecycleInit => LedgerInit
  BY DEF LifecycleInit
<1> QED BY <1>1, LedgerSeen, LifecycleInvariant, PTL DEF LifecycleSpec, LedgerSpec

(***************************************************************************)
(* On a node too a confirmed final sample stays one, and a gap stays.      *)
(***************************************************************************)
THEOREM LifecycleFinality == LifecycleSpec => CoverageIsFinal
  BY LifecycleImplementsLedger, LedgerFinality

(***************************************************************************)
(* Across crashes of the agent, restarts of its engine and reboots of the  *)
(* node every byte that a sample observed is counted exactly once.         *)
(***************************************************************************)
THEOREM LifecycleCounts == LifecycleSpec => []EveryByteCountedOnce
  BY LifecycleImplementsLedger, LedgerCounts

(***************************************************************************)
(* A status is earned by a sample of an engine of the selected generation, *)
(* every other invocation sampled for its credential is accounted for, and *)
(* the gaps among them are counted in it, whatever ends or restarts after  *)
(* the lock was dropped (observeRunning, GapCount, the status request).    *)
(***************************************************************************)
THEOREM EarnedStatus == LifecycleSpec => StatusIsEarned
<1> DEFINE Earned ==
      LET sampled == Sampled(Roster[pub])
      IN /\ reported'.gen = pub /\ ran[reported'.inv] = pub
         /\ reported'.inv \in sampled
         /\ sampled \ {reported'.inv} \subseteq finished \cup gaps
         /\ reported'.gaps = Cardinality(gaps)
<1>1. ASSUME LifecycleInv, [LifecycleNext]_nodeVars, reported' # reported
      PROVE  Earned
  <2>1. PostStatus
    BY <1>1 DEF LifecycleNext, nodeVars, hostVars, Systemd, Traffic, AgentCrash, AgentStart, Reboot,
                UnitStart, WrapperLocks, WrapperWrites, WrapperExecs, UnitExits, Quiet, AgentStep,
                Cycle, Fetch, Recover, Start, Observe, StartFails, Fails, TakeLock, Identify,
                ReadCounters, CommitSample, InspectStopped, StopUnit, StopExpires, Confirm,
                FinishInvocation, Publish, Reset, Upload, Reobserve, CountGaps
  <2>2. /\ agent.pc = "post"
        /\ reported' = [gen |-> agent.cur, inv |-> agent.inv, gaps |-> agent.counted]
    BY <2>1 DEF PostStatus, At
  <2>3. pub = agent.cur /\ ran[agent.inv] = pub
    BY <1>1, <2>2 DEF LifecycleInv, AgentFits
  <2>4. /\ agent.inv \in Sampled(Roster[pub])
        /\ Sampled(Roster[pub]) \ {agent.inv} \subseteq finished \cup gaps
        /\ agent.counted = Cardinality(gaps)
    BY <1>1, <2>2, <2>3 DEF LifecycleInv, SampleIsCommitted
  <2> QED BY <2>2, <2>3, <2>4
<1>2. LifecycleInv /\ [LifecycleNext]_nodeVars => [reported' # reported => Earned]_nodeVars
  BY <1>1
<1> QED BY <1>2, LifecycleInvariant, PTL DEF LifecycleSpec, StatusIsEarned
=============================================================================

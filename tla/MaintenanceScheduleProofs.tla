---------------------- MODULE MaintenanceScheduleProofs ----------------------
(***************************************************************************)
(* What holds of background maintenance on each platform, for every set of *)
(* intervals, every command and every number of failures and logins.       *)
(***************************************************************************)
EXTENDS MaintenanceSchedule, TLAPS

-----------------------------------------------------------------------------
(***************************************************************************)
(* What the holder of the operation lock knows.                            *)
(***************************************************************************)
\* The copy of the settings is not stale: only the holder writes them.
Fetched == {"files", "apply", "install", "save", "attempt"}
MemoryFits ==
  op # Idle =>
    /\ op.memory.policy = settings.policy
    /\ op.pc \in Fetched => op.memory = settings
    /\ op.pc \in {"work", "report"} => op.memory.scheduled = settings.scheduled

\* Native schedules change only while the mark is off, or known to be remade.
Making == {"files", "apply", "install", "save"}
MarkFits == op.pc \in Making => ~settings.scheduled \/ remaking

\* An attempt is made by hand, or by a worker whose policy is on.
AttemptFits == op.pc = "attempt" => op.kind = "manual" \/ settings.policy[op.action].on

-----------------------------------------------------------------------------
(***************************************************************************)
(* How far the native schedules are made.                                  *)
(***************************************************************************)
Made(a) == loaded[a] = Wanted(settings, a) /\ AfterLogin(a) = Wanted(settings, a)
Written(a) == file[a] = settings.policy[a].every

ProgressFits ==
  /\ op.pc \in {"files", "apply", "install"} => op.todo # {}
  /\ op.pc = "install" => platform # "tasks"
  /\ op.pc \in {"files", "apply", "install"} /\ platform = "systemd" =>
       \A a \in Action : (op.pc = "files" /\ a \in op.todo) \/ Written(a)
  /\ op.pc = "install" /\ platform = "systemd" => settings.policy[Now].on /\ boot[Now]
  /\ op.pc \in {"apply", "install"} => \A a \in Action \ op.todo : Made(a)
  /\ op.pc = "save" => InForce

-----------------------------------------------------------------------------
(***************************************************************************)
(* The inductive invariant.                                                *)
(***************************************************************************)
ScheduleInv ==
  /\ TypeOK /\ MemoryFits /\ MarkFits /\ AttemptFits /\ ProgressFits /\ ScheduledIsNative

-----------------------------------------------------------------------------
(***************************************************************************)
(* Steps that leave the settings and the schedules alone.                  *)
(***************************************************************************)
\* A command is one with a step.
LEMMA OpIsTyped ==
  ASSUME TypeOK
  PROVE  /\ op = Idle <=> op.pc = "idle"
         /\ op # Idle => op \in Op
<1>1. Idle.pc = "idle" /\ \A o \in Op : o.pc # "idle"
  BY DEF Idle, Op
<1> QED BY <1>1 DEF TypeOK

\* A fault that is counted leaves the count in its range.
LEMMA FaultIsTyped == ASSUME TypeOK, Fault PROVE faults' \in 0..MaxFaults
BY ScheduleAssumption DEF TypeOK, Fault

\* Whoever waits, fires or gives up does not touch what the lock protects.
LEMMA OthersMove ==
  ASSUME ScheduleInv, UNCHANGED <<platform, settings, Native, op, remaking>>, TypeOK'
  PROVE  ScheduleInv'
<1> USE DEF ScheduleInv, Native
<1>1. MemoryFits' /\ MarkFits' /\ AttemptFits'
  BY DEF MemoryFits, MarkFits, AttemptFits
<1>2. \A a \in Action : (Made(a) <=> Made(a)') /\ (Written(a) <=> Written(a)')
  BY DEF Made, Written, Wanted, AfterLogin
<1>3. ProgressFits' /\ ScheduledIsNative'
  BY <1>2 DEF ProgressFits, ScheduledIsNative, InForce, Made, Now
<1> QED BY <1>1, <1>3

\* A command that makes no schedule has only to remember the settings.
LEMMA CommandMoves ==
  ASSUME ScheduleInv, UNCHANGED <<platform, settings, Native>>, TypeOK',
         remaking' = remaking,
         op' # Idle => op'.pc \notin Making /\ op'.memory = settings,
         op' # Idle /\ op'.pc = "attempt" => op'.kind = "manual" \/ settings.policy[op'.action].on
  PROVE  ScheduleInv'
<1> USE DEF ScheduleInv
<1>1. Idle.pc = "idle"
  BY DEF Idle
<1>2. op'.pc \notin Making
  BY <1>1 DEF Making
<1>3. MemoryFits' /\ MarkFits' /\ AttemptFits' /\ ProgressFits'
  BY <1>1, <1>2 DEF MemoryFits, MarkFits, AttemptFits, ProgressFits, Making
<1>4. ScheduledIsNative'
  BY DEF ScheduledIsNative, InForce, Wanted, AfterLogin, Native
<1> QED BY <1>3, <1>4

\* What follows the scheduling knows the settings as they are saved.
LEMMA AfterEnsureFetches ==
  ASSUME ScheduleInv, op # Idle, AfterEnsure
  PROVE  /\ op' \in Op \cup {Idle}
         /\ op' # Idle => op'.pc = "attempt" /\ op'.kind = "manual" /\ op'.memory = settings
<1>1. op \in Op /\ settings \in Settings
  BY OpIsTyped DEF ScheduleInv, TypeOK
<1> QED BY <1>1 DEF AfterEnsure, Op

\* A new command has read the settings.
LEMMA StartFetches ==
  ASSUME NEW kind \in {"setting", "manual", "run", "install", "worker", "legacy"},
         NEW a \in Action, NEW step \in {"ensure", "retire", "attempt"}, NEW memory \in Settings,
         Start(kind, a, step, memory)
  PROVE  /\ op' \in Op /\ op'.pc = step /\ op'.kind = kind /\ op'.action = a
         /\ op'.memory = memory /\ op' # Idle
BY DEF Start, Op, Idle

\* A command begins, by hand, by a schedule or by the old task.
LEMMA BeginKeeps ==
  ASSUME ScheduleInv,
         \/ \E kind \in Commands \ {"setting"}, a \in Action : Command(kind, a)
         \/ \E a \in Action : Worker(a)
         \/ LegacyLock
  PROVE  ScheduleInv'
<1> USE DEF ScheduleInv
<1>1. settings \in Settings
  BY DEF TypeOK
<1>2. ASSUME NEW kind \in Commands \ {"setting"}, NEW a \in Action, Command(kind, a)
      PROVE  ScheduleInv'
  <2>1. Start(kind, a, "ensure", settings)
    BY <1>2 DEF Command
  <2>2. kind \in {"manual", "run", "install"}
    BY ScheduleAssumption
  <2>3. op' \in Op /\ op'.pc = "ensure" /\ op'.memory = settings
    BY <1>1, <2>1, <2>2, StartFetches
  <2>4. TypeOK'
    BY <1>2, <2>3 DEF TypeOK, Command, Others, Kept, Native
  <2> QED BY <1>2, <2>3, <2>4, CommandMoves DEF Command, Others, Kept, Making
<1>3. ASSUME NEW a \in Action, Worker(a) PROVE ScheduleInv'
  <2>1. /\ op' \in Op \cup {Idle}
        /\ op' # Idle => op'.pc = "attempt" /\ op'.memory = settings /\ settings.policy[op'.action].on
    BY <1>1, <1>3, StartFetches DEF Worker
  <2>2. TypeOK'
    BY <1>3, <2>1 DEF TypeOK, Worker, Others, Kept, Native
  <2> QED BY <1>3, <2>1, <2>2, CommandMoves DEF Worker, Others, Kept, Making
<1>4. ASSUME LegacyLock PROVE ScheduleInv'
  <2>1. Start("legacy", "refresh", IF legacy.scheduled THEN "retire" ELSE "ensure", settings)
    BY <1>4 DEF LegacyLock
  <2>2. op' \in Op /\ op'.pc \in {"retire", "ensure"} /\ op'.memory = settings
    BY <1>1, <2>1, StartFetches DEF Action
  <2>3. TypeOK'
    BY <1>4, <2>2 DEF TypeOK, LegacyLock, Others, Kept, Native
  <2> QED BY <1>4, <2>2, <2>3, CommandMoves DEF LegacyLock, Others, Kept, Making
<1> QED BY <1>2, <1>3, <1>4

\* Wake, GiveUp, OldFires, LegacyBusy: nothing that the lock protects.
LEMMA WaitersKeep ==
  ASSUME ScheduleInv,
         (\E a \in Action : Wake(a) \/ GiveUp(a)) \/ OldFires \/ LegacyBusy
  PROVE  ScheduleInv'
<1>1. TypeOK'
  <2>1. ASSUME NEW a \in Action, Wake(a) \/ GiveUp(a) PROVE TypeOK'
    BY <2>1 DEF ScheduleInv, TypeOK, Wake, GiveUp, Others, Kept, Native
  <2>2. ASSUME OldFires PROVE TypeOK'
    BY <2>2 DEF ScheduleInv, TypeOK, OldFires, Others, Kept, Native, Legacy, Settings
  <2>3. ASSUME LegacyBusy PROVE TypeOK'
    BY <2>3 DEF ScheduleInv, TypeOK, LegacyBusy, Others, Kept, Native
  <2> QED BY <2>1, <2>2, <2>3
<1>2. UNCHANGED <<platform, settings, Native, op, remaking>>
  BY DEF Wake, GiveUp, OldFires, LegacyBusy, Others, Kept
<1> QED BY <1>1, <1>2, OthersMove

\* Setting: the policy is saved without the mark.
LEMMA SettingKeeps ==
  ASSUME ScheduleInv, NEW a \in Action, NEW p \in Policy, Setting(a, p) PROVE ScheduleInv'
<1> USE DEF ScheduleInv
<1>1. settings' \in Settings /\ ~settings'.scheduled
  BY DEF Setting, TypeOK, Settings, Policy
<1>2. op' \in Op /\ op'.pc = "ensure" /\ op'.memory = settings'
  BY <1>1, StartFetches DEF Setting
<1>3. TypeOK'
  BY <1>1, <1>2 DEF TypeOK, Setting, Others, Kept, Native
<1>4. MemoryFits' /\ MarkFits' /\ AttemptFits' /\ ProgressFits'
  BY <1>2 DEF MemoryFits, MarkFits, AttemptFits, ProgressFits, Making
<1>5. ScheduledIsNative'
  BY <1>1 DEF ScheduledIsNative
<1> QED BY <1>3, <1>4, <1>5

-----------------------------------------------------------------------------
(***************************************************************************)
(* Making the schedules.                                                   *)
(***************************************************************************)
\* While schedules are made the mark promises nothing, so that a step answers for
\* the command and for how far it is.
LEMMA MakingMoves ==
  ASSUME ScheduleInv, op.pc \in Making, UNCHANGED <<platform, settings, remaking>>, TypeOK',
         op' # Idle => op'.memory = settings,
         op'.pc = "attempt" => op'.kind = "manual",
         ProgressFits'
  PROVE  ScheduleInv'
<1> USE DEF ScheduleInv
<1>1. ~settings.scheduled \/ remaking
  BY DEF MarkFits
<1>2. MemoryFits' /\ MarkFits' /\ AttemptFits' /\ ScheduledIsNative'
  BY <1>1 DEF MemoryFits, MarkFits, AttemptFits, ScheduledIsNative
<1> QED BY <1>2

\* Ensure: schedules that are marked and not forced stay; the others are made, and a
\* forced one is known to be made once more.
LEMMA EnsureKeeps == ASSUME ScheduleInv, Ensure PROVE ScheduleInv'
<1> USE DEF ScheduleInv
<1>1. /\ op.pc = "ensure" /\ op # Idle /\ op \in Op /\ settings \in Settings
      /\ UNCHANGED <<platform, settings, Native, old, waiting, legacy, faults, outcome>>
  BY OpIsTyped DEF Ensure, On, TypeOK, Idle, Kept
<1>2. remaking' \in BOOLEAN
  BY DEF Ensure, TypeOK, Forced, Settings
<1>3. CASE settings.scheduled /\ ~Forced
  <2>1. AfterEnsure /\ remaking' = remaking
    BY <1>3 DEF Ensure, TypeOK
  <2>2. /\ op' \in Op \cup {Idle}
        /\ op' # Idle => op'.pc = "attempt" /\ op'.kind = "manual" /\ op'.memory = settings
    BY <1>1, <2>1, AfterEnsureFetches
  <2>3. TypeOK'
    BY <1>1, <1>2, <2>2 DEF TypeOK, Native
  <2> QED BY <1>1, <2>1, <2>2, <2>3, CommandMoves DEF Making
<1>4. CASE ~(settings.scheduled /\ ~Forced)
  <2>1. op' = [op EXCEPT !.pc = IF platform = "launchd" THEN "apply" ELSE "files",
                         !.memory = settings, !.todo = Action]
    BY <1>4 DEF Ensure
  <2>2. /\ op' \in Op /\ op'.memory = settings /\ op'.todo = Action
        /\ op'.pc = IF platform = "launchd" THEN "apply" ELSE "files"
    BY <1>1, <2>1 DEF Op
  <2>3. ~settings.scheduled \/ remaking'
    BY <1>4 DEF Ensure
  <2>4. TypeOK'
    BY <1>1, <1>2, <2>2 DEF TypeOK, Native
  <2>5. MemoryFits' /\ MarkFits' /\ AttemptFits' /\ ScheduledIsNative'
    <3>1. ScheduledIsNative'
      BY <1>1, <2>3 DEF ScheduledIsNative
    <3> QED BY <1>1, <2>2, <2>3, <3>1 DEF MemoryFits, MarkFits, AttemptFits
  <2>6. ProgressFits'
    BY <1>1, <2>2 DEF ProgressFits, Action
  <2> QED BY <2>4, <2>5, <2>6
<1> QED BY <1>3, <1>4

\* What a step of the making has to start from.
LEMMA MakingIsTyped ==
  ASSUME ScheduleInv, op.pc \in Making
  PROVE  /\ op \in Op /\ op # Idle /\ op.memory = settings /\ settings \in Settings
         /\ op.pc \in {"files", "apply", "install"} => Now \in op.todo /\ Now \in Action
         /\ \A a \in Action : settings.policy[a].on \in BOOLEAN /\ settings.policy[a].every \in Intervals
<1> USE DEF ScheduleInv
<1>1. op \in Op /\ op # Idle /\ settings \in Settings
  BY OpIsTyped DEF Making, Idle, TypeOK
<1>2. op.pc \in {"files", "apply", "install"} => op.todo # {} /\ op.todo \subseteq Action
  BY <1>1 DEF ProgressFits, Op
<1> QED BY <1>1, <1>2 DEF MemoryFits, Fetched, Making, Now, Action, Settings, Policy

\* WriteFile: the definitions are all there before the first is applied.
LEMMA WriteFileKeeps == ASSUME ScheduleInv, NEW a \in Action, WriteFile(a) PROVE ScheduleInv'
<1> USE DEF ScheduleInv
<1>1. /\ op.pc = "files" /\ op.pc \in Making /\ a \in op.todo
      /\ UNCHANGED <<settings, boot, loaded, old, waiting, legacy, faults, platform, outcome, remaking>>
  BY DEF WriteFile, On, Making, Others, Kept
<1>2. /\ op \in Op /\ op # Idle /\ op.memory = settings
      /\ \A b \in Action : settings.policy[b].every \in Intervals
  BY <1>1, MakingIsTyped
<1>3. file' = [file EXCEPT ![a] = settings.policy[a].every] /\ file \in [Action -> Definition]
  BY <1>2 DEF WriteFile, TypeOK
<1>4. file' \in [Action -> Definition]
  BY <1>2, <1>3 DEF Definition
<1>5. \A b \in Action : Written(b)' <=> b = a \/ Written(b)
  BY <1>1, <1>3 DEF Written
<1>6. /\ op' \in Op /\ op'.memory = settings
      /\ \/ op'.pc = "apply" /\ op'.todo = Action /\ op.todo = {a}
         \/ op'.pc = "files" /\ op'.todo = op.todo \ {a} /\ op.todo # {a}
  <2>1. CASE op.todo = {a}
    BY <1>1, <1>2, <2>1 DEF WriteFile, Op
  <2>2. CASE op.todo # {a}
    BY <1>1, <1>2, <2>2 DEF WriteFile, Op
  <2> QED BY <2>1, <2>2
<1>7. TypeOK'
  BY <1>1, <1>4, <1>6 DEF TypeOK
<1>8. ProgressFits'
  BY <1>1, <1>5, <1>6 DEF ProgressFits, Action
<1> QED BY <1>1, <1>6, <1>7, <1>8, MakingMoves

\* Applied: the next action of the list, or the end of it. A schedule that is
\* applied is made, and the others stay as they are.
LEMMA AppliedMoves ==
  ASSUME ScheduleInv, op.pc \in {"apply", "install"}, NEW a \in Action, a = Now, Applied(a),
         UNCHANGED <<platform, settings>>,
         Made(a)', \A b \in Action : b # a /\ Made(b) => Made(b)',
         platform = "systemd" => UNCHANGED file
  PROVE  op' \in Op /\ op'.memory = settings /\ op'.pc # "attempt" /\ ProgressFits'
<1>1. op \in Op /\ op.memory = settings /\ a \in op.todo
  BY MakingIsTyped DEF Making
<1>2. /\ op' \in Op /\ op'.memory = settings
      /\ \/ op'.pc = "save" /\ op'.todo = {} /\ op.todo = {a}
         \/ op'.pc = "apply" /\ op'.todo = op.todo \ {a} /\ op'.todo # {}
  <2>1. CASE op.todo = {a}
    BY <1>1, <2>1 DEF Applied, Op
  <2>2. CASE op.todo # {a}
    <3>1. op' = [op EXCEPT !.pc = "apply", !.todo = @ \ {a}]
      BY <2>2 DEF Applied
    <3> QED BY <1>1, <2>2, <3>1 DEF Op
  <2> QED BY <2>1, <2>2
<1>3. \A b \in Action \ op'.todo : Made(b)'
  <2>1. \A b \in Action \ op.todo : Made(b)
    BY DEF ScheduleInv, ProgressFits
  <2> QED BY <1>2, <2>1
<1>4. CASE op'.pc = "save"
  BY <1>2, <1>3, <1>4 DEF ProgressFits, InForce, Made
<1>5. CASE op'.pc = "apply"
  <2>1. platform = "systemd" => \A b \in Action : Written(b)'
    BY DEF ScheduleInv, ProgressFits, Written
  <2> QED BY <1>2, <1>3, <1>5, <2>1 DEF ProgressFits
<1> QED BY <1>2, <1>4, <1>5

\* systemd: a timer that is on is enabled and restarted over its new definition; one
\* that is off is disabled and stopped.
LEMMA SystemdKeeps == ASSUME ScheduleInv, ApplySystemd PROVE ScheduleInv'
<1> USE DEF ScheduleInv
<1>1. /\ platform = "systemd" /\ op.pc \in {"apply", "install"} /\ op.pc \in Making
      /\ UNCHANGED <<settings, file, old, waiting, legacy, faults, platform, outcome, remaking>>
  BY DEF ApplySystemd, On, Making, Others, Kept
<1>2. PICK a \in Action : a = Now
  BY <1>1, MakingIsTyped
<1>3. /\ op \in Op /\ op # Idle /\ op.memory = settings /\ a \in op.todo
      /\ \A b \in Action : settings.policy[b].on \in BOOLEAN /\ settings.policy[b].every \in Intervals
  BY <1>1, <1>2, MakingIsTyped
<1>4. /\ loaded \in [Action -> Definition] /\ boot \in [Action -> BOOLEAN]
      /\ file \in [Action -> Definition] /\ \A b \in Action : file[b] = settings.policy[b].every
      /\ \A b \in Action \ op.todo : Made(b)
  BY <1>1 DEF TypeOK, ProgressFits, Written
<1>5. CASE /\ op.pc = "apply" /\ settings.policy[a].on
           /\ boot' = [boot EXCEPT ![a] = op.memory.policy[a].on]
           /\ Goto("install") /\ UNCHANGED loaded
  <2>1. op' \in Op /\ op'.pc = "install" /\ op'.memory = settings /\ op'.todo = op.todo
    BY <1>3, <1>5 DEF Goto, Op
  <2>2. boot' \in [Action -> BOOLEAN] /\ boot'[a] /\ \A b \in Action : b # a => boot'[b] = boot[b]
    BY <1>3, <1>4, <1>5
  <2>3. \A b \in Action \ op.todo : Made(b)'
    BY <1>1, <1>3, <1>4, <1>5, <2>2 DEF Made, Wanted, AfterLogin
  <2>4. TypeOK'
    BY <1>1, <1>5, <2>1, <2>2 DEF TypeOK
  <2>5. Now' = a
    BY <1>2, <2>1 DEF Now
  <2>6. ProgressFits'
    BY <1>1, <1>3, <1>4, <1>5, <2>1, <2>2, <2>3, <2>5 DEF ProgressFits, Written
  <2> QED BY <1>1, <2>1, <2>4, <2>6, MakingMoves
<1>6. CASE /\ op.pc = "apply" /\ ~settings.policy[a].on
           /\ boot' = [boot EXCEPT ![a] = op.memory.policy[a].on]
           /\ Applied(a) /\ loaded' = [loaded EXCEPT ![a] = 0]
  <2>1. /\ boot' \in [Action -> BOOLEAN] /\ ~boot'[a]
        /\ \A b \in Action : b # a => boot'[b] = boot[b]
    BY <1>3, <1>4, <1>6
  <2>2. /\ loaded' \in [Action -> Definition] /\ loaded'[a] = 0
        /\ \A b \in Action : b # a => loaded'[b] = loaded[b]
    BY <1>3, <1>4, <1>6 DEF Definition
  <2>3. Made(a)' /\ \A b \in Action : b # a /\ Made(b) => Made(b)'
    BY <1>1, <1>6, <2>1, <2>2 DEF Made, Wanted, AfterLogin
  <2>4. op' \in Op /\ op'.memory = settings /\ op'.pc # "attempt" /\ ProgressFits'
    BY <1>1, <1>2, <1>6, <2>3, AppliedMoves
  <2>5. TypeOK'
    BY <1>1, <2>1, <2>2, <2>4 DEF TypeOK
  <2> QED BY <1>1, <2>4, <2>5, MakingMoves
<1>7. CASE op.pc = "install" /\ loaded' = [loaded EXCEPT ![a] = file[a]] /\ Applied(a) /\ UNCHANGED boot
  <2>1. /\ loaded' \in [Action -> Definition] /\ loaded'[a] = settings.policy[a].every
        /\ \A b \in Action : b # a => loaded'[b] = loaded[b]
    BY <1>3, <1>4, <1>7 DEF Definition
  <2>2. settings.policy[a].on /\ boot[a]
    BY <1>1, <1>2, <1>7 DEF ProgressFits
  <2>3. Made(a)' /\ \A b \in Action : b # a /\ Made(b) => Made(b)'
    BY <1>1, <1>4, <1>7, <2>1, <2>2 DEF Made, Wanted, AfterLogin
  <2>4. op' \in Op /\ op'.memory = settings /\ op'.pc # "attempt" /\ ProgressFits'
    BY <1>1, <1>2, <1>7, <2>3, AppliedMoves
  <2>5. TypeOK'
    BY <1>1, <1>7, <2>1, <2>4 DEF TypeOK
  <2> QED BY <1>1, <2>4, <2>5, MakingMoves
<1> QED BY <1>2, <1>3, <1>5, <1>6, <1>7 DEF ApplySystemd, On

\* launchd: unloaded first, then the file, then loaded from it.
LEMMA LaunchdKeeps == ASSUME ScheduleInv, ApplyLaunchd PROVE ScheduleInv'
<1> USE DEF ScheduleInv
<1>1. /\ platform = "launchd" /\ op.pc \in {"apply", "install"} /\ op.pc \in Making
      /\ UNCHANGED <<settings, boot, old, legacy, faults, platform, outcome, remaking>>
  BY DEF ApplyLaunchd, On, Making, Others, Kept
<1>2. PICK a \in Action : a = Now
  BY <1>1, MakingIsTyped
<1>3. /\ op \in Op /\ op # Idle /\ op.memory = settings /\ a \in op.todo
      /\ Wanted(settings, a) \in Definition
  BY <1>1, <1>2, MakingIsTyped DEF Wanted, Definition
<1>4. /\ loaded \in [Action -> Definition] /\ file \in [Action -> Definition] /\ waiting \subseteq Action
      /\ \A b \in Action \ op.todo : Made(b)
  BY <1>1 DEF TypeOK, ProgressFits
<1>5. CASE /\ op.pc = "apply" /\ loaded' = [loaded EXCEPT ![a] = 0] /\ waiting' = waiting \ {a}
           /\ Goto("install") /\ UNCHANGED file
  <2>1. op' \in Op /\ op'.pc = "install" /\ op'.memory = settings /\ op'.todo = op.todo
    BY <1>3, <1>5 DEF Goto, Op
  <2>2. loaded' \in [Action -> Definition] /\ \A b \in Action : b # a => loaded'[b] = loaded[b]
    BY <1>4, <1>5 DEF Definition
  <2>3. \A b \in Action \ op.todo : Made(b)'
    BY <1>1, <1>3, <1>4, <1>5, <2>2 DEF Made, Wanted, AfterLogin
  <2>4. TypeOK'
    BY <1>1, <1>4, <1>5, <2>1, <2>2 DEF TypeOK
  <2>5. ProgressFits'
    BY <1>1, <1>3, <2>1, <2>3 DEF ProgressFits
  <2> QED BY <1>1, <2>1, <2>4, <2>5, MakingMoves
<1>6. CASE /\ op.pc = "install" /\ file' = [file EXCEPT ![a] = Wanted(op.memory, a)]
           /\ UNCHANGED <<op, loaded, waiting>>
  <2>1. file' \in [Action -> Definition] /\ \A b \in Action : b # a => file'[b] = file[b]
    BY <1>3, <1>4, <1>6
  <2>2. \A b \in Action \ op.todo : Made(b)'
    BY <1>1, <1>3, <1>4, <1>6, <2>1 DEF Made, Wanted, AfterLogin
  <2>3. TypeOK'
    BY <1>1, <1>6, <2>1 DEF TypeOK
  <2>4. ProgressFits'
    BY <1>1, <1>3, <1>6, <2>2 DEF ProgressFits
  <2> QED BY <1>1, <1>3, <1>6, <2>3, <2>4, MakingMoves
<1>7. CASE /\ op.pc = "install" /\ file[a] = Wanted(op.memory, a)
           /\ loaded' = [loaded EXCEPT ![a] = file[a]] /\ Applied(a) /\ UNCHANGED <<file, waiting>>
  <2>1. /\ loaded' \in [Action -> Definition] /\ loaded'[a] = Wanted(settings, a)
        /\ \A b \in Action : b # a => loaded'[b] = loaded[b]
    BY <1>3, <1>4, <1>7
  <2>2. Made(a)' /\ \A b \in Action : b # a /\ Made(b) => Made(b)'
    BY <1>1, <1>3, <1>7, <2>1 DEF Made, Wanted, AfterLogin
  <2>3. op' \in Op /\ op'.memory = settings /\ op'.pc # "attempt" /\ ProgressFits'
    BY <1>1, <1>2, <1>7, <2>2, AppliedMoves
  <2>4. TypeOK'
    BY <1>1, <1>7, <2>1, <2>3 DEF TypeOK
  <2> QED BY <1>1, <2>3, <2>4, MakingMoves
<1>8. \/ On("apply") /\ loaded' = [loaded EXCEPT ![a] = 0] /\ waiting' = waiting \ {a}
         /\ Goto("install") /\ UNCHANGED file
      \/ On("install") /\ file' = [file EXCEPT ![a] = Wanted(op.memory, a)]
         /\ UNCHANGED <<op, loaded, waiting>>
      \/ On("install") /\ file[a] = Wanted(op.memory, a)
         /\ loaded' = [loaded EXCEPT ![a] = file[a]] /\ Applied(a) /\ UNCHANGED <<file, waiting>>
  BY <1>2 DEF ApplyLaunchd
<1> QED BY <1>5, <1>6, <1>7, <1>8 DEF On

\* Task Scheduler: one definition replaces the other, in force at once and after.
LEMMA TasksKeep == ASSUME ScheduleInv, ApplyTasks PROVE ScheduleInv'
<1> USE DEF ScheduleInv
<1>1. /\ platform = "tasks" /\ op.pc = "apply" /\ op.pc \in Making
      /\ UNCHANGED <<settings, file, boot, old, waiting, legacy, faults, platform, outcome, remaking>>
  BY DEF ApplyTasks, On, Making, Others, Kept
<1>2. PICK a \in Action : a = Now
  BY <1>1, MakingIsTyped
<1>3. op.memory = settings /\ Wanted(settings, a) \in Definition
  BY <1>1, MakingIsTyped DEF Wanted, Definition
<1>4. loaded' = [loaded EXCEPT ![a] = Wanted(settings, a)] /\ Applied(a)
  BY <1>2, <1>3 DEF ApplyTasks
<1>5. /\ loaded' \in [Action -> Definition] /\ loaded'[a] = Wanted(settings, a)
      /\ \A b \in Action : b # a => loaded'[b] = loaded[b]
  BY <1>3, <1>4 DEF TypeOK
<1>6. Made(a)' /\ \A b \in Action : b # a /\ Made(b) => Made(b)'
  BY <1>1, <1>5 DEF Made, Wanted, AfterLogin
<1>7. op' \in Op /\ op'.memory = settings /\ op'.pc # "attempt" /\ ProgressFits'
  BY <1>1, <1>2, <1>4, <1>6, AppliedMoves
<1>8. TypeOK'
  BY <1>1, <1>5, <1>7 DEF TypeOK
<1> QED BY <1>1, <1>7, <1>8, MakingMoves

\* A native call fails: without S4U once more on Windows, or the end of the making,
\* where the mark is still off, or known to be remade.
LEMMA ScheduleErrorKeeps == ASSUME ScheduleInv, ScheduleError PROVE ScheduleInv'
<1> USE DEF ScheduleInv
<1>1. /\ op.pc \in {"files", "apply", "install"} /\ op.pc \in Making /\ faults' \in 0..MaxFaults
      /\ UNCHANGED <<settings, Native, old, waiting, legacy, platform, outcome, remaking>>
  BY FaultIsTyped DEF ScheduleError, Making, Others, Kept
<1>2. op \in Op /\ op # Idle /\ op.memory = settings
  BY <1>1, MakingIsTyped
<1>3. CASE platform = "tasks" /\ ~op.fallback
  <2>1. op' = [op EXCEPT !.pc = "files", !.todo = Action, !.fallback = TRUE]
    BY <1>3 DEF ScheduleError
  <2>2. op' \in Op /\ op'.pc = "files" /\ op'.memory = settings /\ op'.todo = Action
    BY <1>2, <2>1 DEF Op
  <2>3. TypeOK'
    BY <1>1, <2>2 DEF TypeOK, Native
  <2>4. ProgressFits'
    BY <1>1, <1>3, <2>2 DEF ProgressFits, Action
  <2> QED BY <1>1, <2>2, <2>3, <2>4, MakingMoves
<1>4. CASE ~(platform = "tasks" /\ ~op.fallback)
  <2>1. AfterEnsure
    BY <1>4 DEF ScheduleError
  <2>2. /\ op' \in Op \cup {Idle}
        /\ op' # Idle => op'.pc = "attempt" /\ op'.kind = "manual" /\ op'.memory = settings
    BY <1>2, <2>1, AfterEnsureFetches
  <2>3. TypeOK'
    BY <1>1, <2>2 DEF TypeOK, Native
  <2> QED BY <1>1, <2>2, <2>3, CommandMoves DEF Making
<1> QED BY <1>3, <1>4

-----------------------------------------------------------------------------
(***************************************************************************)
(* The mark, the retirement and the attempt.                               *)
(***************************************************************************)
\* Whoever writes the settings from its copy loses no policy and no mark: the copy
\* of the holder of the lock is not stale.
LEMMA CopiesLoseNothing ==
  ASSUME ScheduleInv, SaveScheduled \/ Attempt \/ Report
  PROVE  /\ settings' \in Settings /\ settings'.policy = settings.policy
         /\ settings'.scheduled = IF SaveScheduled THEN TRUE ELSE settings.scheduled
<1> USE DEF ScheduleInv
<1>1. op \in Op /\ op # Idle /\ op.memory \in Settings /\ outcome \in [Action -> Result]
  BY OpIsTyped DEF SaveScheduled, Attempt, Report, On, Idle, Op, TypeOK
<1>2. op.memory.policy = settings.policy /\ op.action \in Action
  BY <1>1 DEF MemoryFits, Op
<1>3. CASE SaveScheduled
  BY <1>1, <1>2, <1>3 DEF SaveScheduled, Settings
<1>4. CASE Attempt
  <2>1. settings' = [op.memory EXCEPT !.result[op.action] = "running"] /\ op.memory = settings
    BY <1>1, <1>4 DEF Attempt, On, MemoryFits, Fetched
  <2>2. ~SaveScheduled
    BY <1>4 DEF Attempt, SaveScheduled, On
  <2> QED BY <1>1, <1>2, <2>1, <2>2 DEF Settings, Result
<1>5. CASE Report
  <2>1. /\ settings' = [op.memory EXCEPT !.result[op.action] = outcome[op.action]]
        /\ op.memory.scheduled = settings.scheduled
    BY <1>1, <1>5 DEF Report, On, MemoryFits
  <2>2. ~SaveScheduled
    BY <1>5 DEF Report, SaveScheduled, On
  <2> QED BY <1>1, <1>2, <2>1, <2>2 DEF Settings
<1> QED BY <1>3, <1>4, <1>5

\* SaveScheduled: the mark is true, since the schedules are all in force.
LEMMA SaveScheduledKeeps == ASSUME ScheduleInv, SaveScheduled PROVE ScheduleInv'
<1> USE DEF ScheduleInv
<1>1. /\ op.pc = "save" /\ op \in Op /\ op # Idle /\ op.memory = settings /\ InForce
      /\ UNCHANGED <<Native, old, waiting, legacy, faults, platform, outcome>>
  BY MakingIsTyped DEF SaveScheduled, On, Making, ProgressFits, Kept
<1>2. settings' \in Settings /\ settings'.policy = settings.policy
  BY CopiesLoseNothing
<1>3. op' \in Op /\ op'.pc = "retire" /\ op'.memory = settings
  BY <1>1 DEF SaveScheduled, Goto, Op
<1>4. TypeOK'
  BY <1>1, <1>2, <1>3 DEF TypeOK, Native, SaveScheduled
<1>5. MemoryFits' /\ MarkFits' /\ AttemptFits' /\ ProgressFits'
  BY <1>2, <1>3 DEF MemoryFits, MarkFits, AttemptFits, ProgressFits, Making, Fetched
<1>6. InForce'
  BY <1>1, <1>2 DEF InForce, Wanted, AfterLogin, Native
<1> QED BY <1>4, <1>5, <1>6 DEF ScheduledIsNative

\* The retirement of the old task touches none of the schedules.
LEMMA RetirementMoves ==
  ASSUME ScheduleInv, op.pc \in {"retire", "unload"},
         UNCHANGED <<platform, settings, Native, waiting, outcome, remaking>>,
         faults' \in 0..MaxFaults, legacy' \in Legacy \cup {Idle},
         old' \in [file : BOOLEAN, loaded : BOOLEAN],
         UNCHANGED op \/ Goto("unload") \/ AfterEnsure
  PROVE  ScheduleInv'
<1> USE DEF ScheduleInv
<1>1. op \in Op /\ op # Idle
  BY OpIsTyped DEF Idle
<1>2. ASSUME op' \in Op, op'.pc \in {"retire", "unload"}, op'.memory = op.memory PROVE ScheduleInv'
  <2>1. TypeOK'
    BY <1>2 DEF TypeOK, Native
  <2>2. MemoryFits' /\ MarkFits' /\ AttemptFits' /\ ProgressFits'
    BY <1>1, <1>2 DEF MemoryFits, MarkFits, AttemptFits, ProgressFits, Making, Fetched
  <2>3. ScheduledIsNative'
    BY DEF ScheduledIsNative, InForce, Wanted, AfterLogin, Native
  <2> QED BY <2>1, <2>2, <2>3
<1>3. CASE UNCHANGED op \/ Goto("unload")
  <2>1. op' \in Op /\ op'.pc \in {"retire", "unload"} /\ op'.memory = op.memory
    BY <1>1, <1>3 DEF Goto, Op
  <2> QED BY <1>2, <2>1
<1>4. CASE AfterEnsure
  <2>1. /\ op' \in Op \cup {Idle}
        /\ op' # Idle => op'.pc = "attempt" /\ op'.kind = "manual" /\ op'.memory = settings
    BY <1>1, <1>4, AfterEnsureFetches
  <2>2. TypeOK'
    BY <2>1 DEF TypeOK, Native
  <2> QED BY <2>1, <2>2, CommandMoves DEF Making
<1> QED BY <1>3, <1>4

\* Each way to retire the old task, and its failure, is such a step.
LEMMA RetirementKeeps ==
  ASSUME ScheduleInv, RetireSystemd \/ RetireLaunchd \/ RetireTasks \/ RetireError
  PROVE  ScheduleInv'
<1>1. /\ old \in [file : BOOLEAN, loaded : BOOLEAN] /\ legacy \in Legacy \cup {Idle}
      /\ faults \in 0..MaxFaults
  BY DEF ScheduleInv, TypeOK
<1>2. /\ op.pc \in {"retire", "unload"}
      /\ UNCHANGED <<platform, settings, Native, waiting, outcome, remaking>>
      /\ legacy' = legacy \/ legacy' = Idle
  BY DEF RetireSystemd, RetireLaunchd, RetireTasks, RetireError, On, Others, Kept
<1>3. faults' \in 0..MaxFaults
  BY <1>1, FaultIsTyped DEF RetireSystemd, RetireLaunchd, RetireTasks, RetireError, ScheduleInv
<1>4. old' \in [file : BOOLEAN, loaded : BOOLEAN]
  <2>1. \/ old' = [old EXCEPT !.loaded = FALSE]
        \/ old' = [old EXCEPT !.file = FALSE]
        \/ old' = [file |-> FALSE, loaded |-> FALSE]
        \/ old' = old
    BY DEF RetireSystemd, RetireLaunchd, RetireTasks, RetireError
  <2>2. CASE old' = [old EXCEPT !.loaded = FALSE]
    BY <1>1, <2>2
  <2>3. CASE old' = [old EXCEPT !.file = FALSE]
    BY <1>1, <2>3
  <2>4. CASE old' = [file |-> FALSE, loaded |-> FALSE]
    BY <2>4
  <2>5. CASE old' = old
    BY <1>1, <2>5
  <2> QED BY <2>1, <2>2, <2>3, <2>4, <2>5
<1>5. UNCHANGED op \/ Goto("unload") \/ AfterEnsure
  BY DEF RetireSystemd, RetireLaunchd, RetireTasks, RetireError
<1> QED BY <1>1, <1>2, <1>3, <1>4, <1>5, RetirementMoves

\* Attempt, Work, Report: the policies and the mark stay, and so do the schedules.
LEMMA AttemptKeeps == ASSUME ScheduleInv, Attempt \/ Work \/ Report PROVE ScheduleInv'
<1> USE DEF ScheduleInv
<1>1. /\ op \in Op /\ op # Idle /\ outcome \in [Action -> Result]
      /\ UNCHANGED <<platform, Native, old, waiting, legacy, remaking, faults>>
  BY OpIsTyped DEF Attempt, Work, Report, On, Idle, TypeOK, Others, Kept
<1>2. /\ settings' \in Settings /\ settings'.policy = settings.policy
      /\ settings'.scheduled = settings.scheduled
  <2>1. CASE Attempt \/ Report
    <3>1. ~SaveScheduled
      BY <2>1 DEF Attempt, Report, SaveScheduled, On
    <3> QED BY <2>1, <3>1, CopiesLoseNothing
  <2>2. CASE Work
    BY <2>2 DEF Work, TypeOK
  <2> QED BY <2>1, <2>2
<1>3. outcome' \in [Action -> Result]
  BY <1>1 DEF Attempt, Work, Report, Result, Others, Kept
<1>4. /\ op.memory.policy = settings.policy /\ op.memory.scheduled = settings.scheduled
  BY <1>1 DEF Attempt, Work, Report, On, MemoryFits, Fetched
<1>5. \/ op' \in Op /\ op'.pc \in {"work", "report"} /\ op'.memory = op.memory
      \/ op' = Idle
  BY <1>1 DEF Attempt, Work, Report, Goto, Op
<1>6. op' = Idle => op'.pc = "idle"
  BY DEF Idle
<1>7. TypeOK'
  BY <1>1, <1>2, <1>3, <1>5 DEF TypeOK, Native
<1>8. MemoryFits' /\ MarkFits' /\ AttemptFits' /\ ProgressFits'
  BY <1>2, <1>4, <1>5, <1>6 DEF MemoryFits, MarkFits, AttemptFits, ProgressFits, Making, Fetched
<1>9. ScheduledIsNative'
  BY <1>1, <1>2 DEF ScheduledIsNative, InForce, Wanted, AfterLogin, Native
<1> QED BY <1>7, <1>8, <1>9

-----------------------------------------------------------------------------
(***************************************************************************)
(* Faults.                                                                 *)
(***************************************************************************)
\* Crash: whatever was made stays, without its mark.
LEMMA CrashKeeps == ASSUME ScheduleInv, Crash PROVE ScheduleInv'
<1>1. TypeOK'
  BY FaultIsTyped DEF ScheduleInv, TypeOK, Crash, Others, Kept, Native
<1> QED BY <1>1, CommandMoves DEF Crash, Others, Kept

\* Login: what the manager reads again is what was in force.
LEMMA LoginKeeps == ASSUME ScheduleInv, Login PROVE ScheduleInv'
<1> USE DEF ScheduleInv
<1>1. /\ loaded' = [a \in Action |-> AfterLogin(a)] /\ op' = Idle /\ faults' \in 0..MaxFaults
      /\ UNCHANGED <<settings, file, boot, platform, outcome, remaking>>
  BY FaultIsTyped DEF Login, Others, Kept
<1>2. loaded' \in [Action -> Definition]
  BY <1>1, ScheduleAssumption DEF TypeOK, AfterLogin, Definition
<1>3. old' \in [file : BOOLEAN, loaded : BOOLEAN]
  BY DEF Login, TypeOK
<1>4. TypeOK'
  BY <1>1, <1>2, <1>3 DEF TypeOK, Login
<1>5. op'.pc = "idle"
  BY <1>1 DEF Idle
<1>6. MemoryFits' /\ MarkFits' /\ AttemptFits' /\ ProgressFits'
  BY <1>1, <1>5 DEF MemoryFits, MarkFits, AttemptFits, ProgressFits, Making
<1>7. InForce => InForce'
  <2>1. SUFFICES ASSUME InForce, NEW a \in Action
                 PROVE  loaded'[a] = Wanted(settings, a)' /\ AfterLogin(a)' = Wanted(settings, a)'
    BY DEF InForce
  <2>2. loaded[a] = Wanted(settings, a) /\ AfterLogin(a) = Wanted(settings, a)
    BY <2>1 DEF InForce
  <2>3. loaded'[a] = AfterLogin(a) /\ Wanted(settings, a)' = Wanted(settings, a)
    BY <1>1 DEF Wanted
  <2>4. AfterLogin(a)' = Wanted(settings, a)
    BY <1>1, <2>2, <2>3, ScheduleAssumption DEF AfterLogin, TypeOK
  <2> QED BY <2>2, <2>3, <2>4
<1>8. ScheduledIsNative'
  BY <1>1, <1>7 DEF ScheduledIsNative
<1> QED BY <1>4, <1>6, <1>8

-----------------------------------------------------------------------------
(***************************************************************************)
(* The theorems.                                                           *)
(***************************************************************************)
\* The client that was just upgraded has nothing scheduled and nothing marked.
LEMMA ScheduleInit == Init => ScheduleInv
<1> SUFFICES ASSUME Init PROVE ScheduleInv
  OBVIOUS
<1>1. PICK i \in Intervals : settings = Defaults(i)
  BY ScheduleAssumption DEF Init
<1>2. settings \in Settings /\ ~settings.scheduled
  BY <1>1 DEF Defaults, Settings, Policy, Result
<1>3. TypeOK
  <2>1. platform \in Platforms /\ op \in Op \cup {Idle} /\ waiting \subseteq Action
    BY DEF Init
  <2>2. legacy \in Legacy \cup {Idle} /\ remaking \in BOOLEAN
    BY Zenon DEF Init
  <2>3. faults \in 0..MaxFaults
    <3>1. faults = 0
      BY Zenon DEF Init
    <3> QED BY <3>1, ScheduleAssumption
  <2>4. file \in [Action -> Definition] /\ loaded \in [Action -> Definition]
    BY DEF Init, Definition
  <2>5. boot \in [Action -> BOOLEAN] /\ old \in [file : BOOLEAN, loaded : BOOLEAN]
    BY DEF Init
  <2>6. outcome \in [Action -> Result]
    BY DEF Init, Result
  <2> QED BY <1>2, <2>1, <2>2, <2>3, <2>4, <2>5, <2>6 DEF TypeOK
<1>4. op = Idle /\ op.pc = "idle"
  BY DEF Init, Idle
<1>5. MemoryFits /\ MarkFits /\ AttemptFits /\ ProgressFits
  BY <1>4 DEF MemoryFits, MarkFits, AttemptFits, ProgressFits, Making
<1> QED BY <1>2, <1>3, <1>5 DEF ScheduleInv, ScheduledIsNative

\* One lemma for each action.
LEMMA ScheduleNext == ScheduleInv /\ [Next]_vars => ScheduleInv'
<1> SUFFICES ASSUME ScheduleInv, [Next]_vars PROVE ScheduleInv'
  OBVIOUS
<1>1. CASE UNCHANGED vars
  BY <1>1, OthersMove DEF vars, ScheduleInv, TypeOK, Native
<1>2. CASE OpStep
  BY <1>2, EnsureKeeps, SystemdKeeps, LaunchdKeeps, TasksKeep, SaveScheduledKeeps,
     RetirementKeeps, AttemptKeeps, WriteFileKeeps DEF OpStep
<1>3. CASE ScheduleError \/ RetireError \/ Crash \/ Login
  BY <1>3, ScheduleErrorKeeps, RetirementKeeps, CrashKeeps, LoginKeeps
<1>4. CASE OldFires \/ LegacyLock \/ LegacyBusy
  BY <1>4, WaitersKeep, BeginKeeps
<1>5. ASSUME NEW a \in Action, Wake(a) \/ GiveUp(a) \/ Worker(a) PROVE ScheduleInv'
  BY <1>5, WaitersKeep, BeginKeeps
<1>6. ASSUME NEW a \in Action, NEW p \in Policy, Setting(a, p) PROVE ScheduleInv'
  BY <1>6, SettingKeeps
<1>7. ASSUME NEW a \in Action, NEW kind \in Commands \ {"setting"}, Command(kind, a)
      PROVE  ScheduleInv'
  BY <1>7, BeginKeeps
<1> QED BY <1>1, <1>2, <1>3, <1>4, <1>5, <1>6, <1>7 DEF Next

\* The inductive invariant holds in every behaviour: the holder of the lock knows
\* the settings, and the schedules are made as far as its step says.
THEOREM ScheduleInvariant == Spec => []ScheduleInv
BY ScheduleInit, ScheduleNext, PTL DEF Spec

\* The settings, the definitions and the commands have their types.
THEOREM ScheduleTypes == Spec => []TypeOK
<1>1. ScheduleInv => TypeOK
  BY DEF ScheduleInv
<1> QED BY <1>1, ScheduleInvariant, PTL

\* A client that is marked as scheduled has exactly the schedules of its policies in
\* force, now and after the next login, on every platform (ensureMaintenance).
THEOREM MarkedIsNative == Spec => []ScheduledIsNative
<1>1. ScheduleInv => ScheduledIsNative
  BY DEF ScheduleInv
<1> QED BY <1>1, ScheduleInvariant, PTL

\* The settings are written by one command alone, or from a copy that is not stale.
LEMMA SettingsMove ==
  ASSUME ScheduleInv, Next, settings' # settings
  PROVE  \/ op = Idle /\ op'.kind = "setting"
         \/ /\ settings'.policy = settings.policy
            /\ settings.scheduled => settings'.scheduled
<1>1. ASSUME NEW a \in Action, NEW p \in Policy, Setting(a, p) PROVE op = Idle /\ op'.kind = "setting"
  BY <1>1 DEF Setting, Start
<1>2. CASE SaveScheduled \/ Attempt \/ Report
  BY <1>2, CopiesLoseNothing
<1>3. (\E a \in Action, p \in Policy : Setting(a, p)) \/ SaveScheduled \/ Attempt \/ Report
  BY DEF Next, OpStep, Ensure, ApplySystemd, ApplyLaunchd, ApplyTasks, RetireSystemd,
         RetireLaunchd, RetireTasks, Work, WriteFile, ScheduleError, RetireError, Crash, Login,
         OldFires, LegacyLock, LegacyBusy, Wake, GiveUp, Worker, Command
<1> QED BY <1>1, <1>2, <1>3

\* No command but a setting changes a policy or takes the mark away: neither a worker
\* that worked on a copy, nor a reinstall (maintenanceAttempt, ensureMaintenance).
THEOREM SettingsSurvive == Spec => SettingsAreKept
<1>1. ScheduleInv /\ [Next]_vars =>
        [/\ settings'.policy # settings.policy => op = Idle /\ op'.kind = "setting"
         /\ settings.scheduled /\ ~settings'.scheduled => op = Idle /\ op'.kind = "setting"]_vars
  <2> SUFFICES ASSUME ScheduleInv, Next
               PROVE  /\ settings'.policy # settings.policy => op = Idle /\ op'.kind = "setting"
                      /\ settings.scheduled /\ ~settings'.scheduled =>
                           op = Idle /\ op'.kind = "setting"
    OBVIOUS
  <2>1. CASE settings' = settings
    BY <2>1
  <2>2. CASE settings' # settings
    BY <2>2, SettingsMove
  <2> QED BY <2>1, <2>2
<1> QED BY <1>1, ScheduleInvariant, PTL DEF Spec, SettingsAreKept

\* Only a manual action, or a worker whose saved policy is on, starts an attempt
\* (runMaintenance, maintenanceAttempt).
LEMMA OnlyAttemptRuns ==
  ASSUME ScheduleInv, Next, NEW a \in Action, outcome'[a] = "running", outcome[a] # "running"
  PROVE  op.kind = "manual" \/ settings.policy[a].on
<1>1. outcome \in [Action -> Result]
  BY DEF ScheduleInv, TypeOK
<1>2. outcome' # outcome => Attempt \/ Work
  BY DEF Next, OpStep, Ensure, ApplySystemd, ApplyLaunchd, ApplyTasks, SaveScheduled, RetireSystemd,
         RetireLaunchd, RetireTasks, Report, WriteFile, ScheduleError, RetireError, Crash, Login,
         OldFires, LegacyLock, LegacyBusy, Wake, GiveUp, Worker, Command, Setting, Others, Kept
<1>3. ~Work
  BY <1>1 DEF Work
<1>4. Attempt
  BY <1>2, <1>3
<1>5. op.action = a
  BY <1>1, <1>4 DEF Attempt
<1> QED BY <1>4, <1>5 DEF Attempt, On, ScheduleInv, AttemptFits

\* An opt-out holds: a schedule that still fires, or a worker that waited, starts no
\* attempt of an action whose saved policy is off.
THEOREM OptOut == Spec => OptOutHolds
<1>1. ScheduleInv /\ [Next]_vars =>
        [\A a \in Action : outcome'[a] = "running" /\ outcome[a] # "running" =>
           op.kind = "manual" \/ settings.policy[a].on]_vars
  BY OnlyAttemptRuns
<1> QED BY <1>1, ScheduleInvariant, PTL DEF Spec, OptOutHolds
=============================================================================

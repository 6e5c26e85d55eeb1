------------------------- MODULE MaintenanceSchedule -------------------------
(***************************************************************************)
(* Background maintenance: the saved policies, the native schedules made   *)
(* from them, the workers those schedules start, and the retirement of the *)
(* fixed refresh task of older clients (internal/cli/maintenance.go,       *)
(* internal/service/maintenance.go, internal/maintenance/settings.go).     *)
(*                                                                         *)
(* Every writer of maintenance.json holds .operation.lock. Between two     *)
(* writes it calls the native scheduler several times; each call is a      *)
(* step, may fail, and the command may die after it.                       *)
(*                                                                         *)
(* A definition is its interval, 0 for one that never starts. The refresh  *)
(* and the upgrade themselves are MixedProxy; here they end well or badly. *)
(***************************************************************************)
EXTENDS Naturals, FiniteSets

CONSTANTS
  Platforms,   \* of "systemd", "launchd", "tasks": the managers to check
  Commands,    \* of "setting", "manual", "run", "install"
  Intervals,   \* the intervals a user chooses
  MaxFaults    \* failed native calls, crashes and logins, in total

ASSUME ScheduleAssumption ==
  /\ Platforms \subseteq {"systemd", "launchd", "tasks"}
  /\ Commands \subseteq {"setting", "manual", "run", "install"}
  /\ Intervals \subseteq Nat \ {0} /\ Intervals # {}
  /\ MaxFaults \in Nat

VARIABLES
  platform,
  settings,   \* maintenance.json
  file,       \* the definition on disk
  boot,       \* systemd: the timer is enabled
  loaded,     \* the definition in force in the running manager
  old,        \* the fixed refresh task: its definition, and in force or not
  op,         \* the holder of the operation lock
  waiting,    \* the background workers that wait for the lock
  legacy,     \* a process of the old task before its lock, and what it read
  outcome,    \* history: how the last attempt of each action really ended
  remaking,   \* history: schedules marked as set up are being made once more
  faults

vars == <<platform, settings, file, boot, loaded, old, op, waiting, legacy,
          outcome, remaking, faults>>

Action == {"refresh", "upgrade"}
Definition == Intervals \cup {0}
Policy == [on : BOOLEAN, every : Intervals]
Result == {"", "running", "ok", "failed"}
Settings == [policy : [Action -> Policy], scheduled : BOOLEAN, result : [Action -> Result]]

Idle == [pc |-> "idle"]
\* memory is the copy of the settings the command works with; then is what
\* follows the scheduling.
Op == [pc : {"ensure", "files", "apply", "install", "save", "retire", "unload",
             "attempt", "work", "report"},
       kind : {"setting", "manual", "run", "install", "worker", "legacy"},
       action : Action, memory : Settings, todo : SUBSET Action, fallback : BOOLEAN]
Legacy == [pc : {"read"}, scheduled : BOOLEAN]

TypeOK ==
  /\ platform \in Platforms
  /\ settings \in Settings
  /\ file \in [Action -> Definition] /\ loaded \in [Action -> Definition]
  /\ boot \in [Action -> BOOLEAN]
  /\ old \in [file : BOOLEAN, loaded : BOOLEAN]
  /\ op \in Op \cup {Idle}
  /\ waiting \subseteq Action
  /\ legacy \in Legacy \cup {Idle}
  /\ outcome \in [Action -> Result]
  /\ remaking \in BOOLEAN
  /\ faults \in 0..MaxFaults

\* Defaults: both actions are on with one interval, and nothing is scheduled.
Defaults(every) ==
  [policy |-> [a \in Action |-> [on |-> TRUE, every |-> every]],
   scheduled |-> FALSE, result |-> [a \in Action |-> ""]]

\* A client that was just upgraded from one with the fixed refresh task.
Init ==
  /\ platform \in Platforms
  /\ settings = Defaults(CHOOSE i \in Intervals : TRUE)
  /\ file = [a \in Action |-> 0] /\ loaded = [a \in Action |-> 0]
  /\ boot = [a \in Action |-> FALSE]
  /\ old = [file |-> TRUE, loaded |-> TRUE]
  /\ op = Idle /\ waiting = {} /\ legacy = Idle
  /\ outcome = [a \in Action |-> ""]
  /\ remaking = FALSE
  /\ faults = 0

-----------------------------------------------------------------------------
On(step) == op.pc = step
Fault == faults < MaxFaults /\ faults' = faults + 1
Native == <<file, boot, loaded>>
Goto(step) == op' = [op EXCEPT !.pc = step]
Kept == UNCHANGED <<platform, outcome>>
Others == Kept /\ UNCHANGED remaking

\* The definition a plan wants in force.
Wanted(plan, a) == IF plan.policy[a].on THEN plan.policy[a].every ELSE 0

\* What the manager has in force after the next login.
AfterLogin(a) ==
  CASE platform = "systemd" -> IF boot[a] THEN file[a] ELSE 0
    [] platform = "launchd" -> file[a]
    [] platform = "tasks" -> loaded[a]

\* Mutant: the manual action goes on with the settings it read before.
AfterEnsureStale ==
  op' = IF op.kind = "manual" THEN [op EXCEPT !.pc = "attempt"] ELSE Idle

\* After the scheduling, whether it failed or not: the manual action, which
\* reads the settings again, or the end of the command.
AfterEnsure ==
  op' = IF op.kind = "manual" THEN [op EXCEPT !.pc = "attempt", !.memory = settings] ELSE Idle

Start(kind, a, step, memory) ==
  op' = [pc |-> step, kind |-> kind, action |-> a, memory |-> memory,
         todo |-> {}, fallback |-> FALSE]

-----------------------------------------------------------------------------
(* Commands that take the operation lock.                                  *)

\* runMaintenanceSetting: the policy is saved first, and marked unscheduled.
\* One command changes the switch or the interval, never both.
Setting(a, p) ==
  /\ op = Idle
  /\ p.on = settings.policy[a].on \/ p.every = settings.policy[a].every
  /\ settings' = [settings EXCEPT !.policy[a] = p, !.scheduled = FALSE]
  /\ Start("setting", a, "ensure", settings')
  /\ UNCHANGED <<Native, old, waiting, legacy, faults>> /\ Others

\* sbc refresh and sbc upgrade, sbc run, start and restart, sbc install.
Command(kind, a) ==
  /\ op = Idle
  /\ Start(kind, a, "ensure", settings)
  /\ UNCHANGED <<settings, Native, old, waiting, legacy, faults>> /\ Others

\* A schedule that is in force starts its worker, which waits for the lock.
Wake(a) ==
  /\ loaded[a] # 0 /\ a \notin waiting
  /\ ~(op # Idle /\ op.kind = "worker" /\ op.action = a)
  /\ waiting' = waiting \cup {a}
  /\ UNCHANGED <<settings, Native, old, op, legacy, faults>> /\ Others

\* The worker gives up after ten minutes.
GiveUp(a) ==
  /\ a \in waiting /\ op # Idle
  /\ waiting' = waiting \ {a}
  /\ UNCHANGED <<settings, Native, old, op, legacy, faults>> /\ Others

\* Mutant: the worker trusts the schedule that woke it.
WorkerTrusts(a) ==
  /\ a \in waiting /\ op = Idle
  /\ waiting' = waiting \ {a}
  /\ Start("worker", a, "attempt", settings)
  /\ UNCHANGED <<settings, Native, old, legacy, faults>> /\ Others

\* runMaintenance in the background: the saved policy decides, read under
\* the lock.
Worker(a) ==
  /\ a \in waiting /\ op = Idle
  /\ waiting' = waiting \ {a}
  /\ IF settings.policy[a].on THEN Start("worker", a, "attempt", settings) ELSE op' = Idle
  /\ UNCHANGED <<settings, Native, old, legacy, faults>> /\ Others

\* "sbc update" of the old task reads the settings before it has the lock.
OldFires ==
  /\ old.loaded /\ legacy = Idle /\ ~(op # Idle /\ op.kind = "legacy")
  /\ legacy' = [pc |-> "read", scheduled |-> settings.scheduled]
  /\ UNCHANGED <<settings, Native, old, op, waiting, faults>> /\ Others

\* Mutant: a scheduled client leaves the old task alone.
LegacyLockKeeps ==
  /\ legacy # Idle /\ op = Idle
  /\ legacy' = Idle
  /\ IF legacy.scheduled THEN UNCHANGED op ELSE Start("legacy", "refresh", "ensure", settings)
  /\ UNCHANGED <<settings, Native, old, waiting, faults>> /\ Others

LegacyLock ==
  /\ legacy # Idle /\ op = Idle
  /\ legacy' = Idle
  /\ Start("legacy", "refresh", IF legacy.scheduled THEN "retire" ELSE "ensure", settings)
  /\ UNCHANGED <<settings, Native, old, waiting, faults>> /\ Others

LegacyBusy ==
  /\ legacy # Idle /\ op # Idle
  /\ legacy' = Idle
  /\ UNCHANGED <<settings, Native, old, op, waiting, faults>> /\ Others

-----------------------------------------------------------------------------
(* ensureMaintenance: schedule, record, retire.                            *)

Forced == op.kind \in {"setting", "install", "legacy"}

Ensure ==
  /\ On("ensure")
  /\ IF settings.scheduled /\ ~Forced THEN AfterEnsure
     ELSE op' = [op EXCEPT !.pc = IF platform = "launchd" THEN "apply" ELSE "files",
                           !.memory = settings, !.todo = Action]
  /\ remaking' = (remaking \/ (settings.scheduled /\ Forced))
  /\ UNCHANGED <<settings, Native, old, waiting, legacy, faults>> /\ Kept

\* The next action of the list still to do: refresh before upgrade.
Now == IF "refresh" \in op.todo THEN "refresh" ELSE "upgrade"

\* The definitions of both actions are written before the first is applied.
WriteFile(a) ==
  /\ On("files") /\ a \in op.todo
  /\ file' = [file EXCEPT ![a] = op.memory.policy[a].every]
  /\ op' = IF op.todo = {a} THEN [op EXCEPT !.pc = "apply", !.todo = Action]
           ELSE [op EXCEPT !.todo = @ \ {a}]
  /\ UNCHANGED <<settings, boot, loaded, old, waiting, legacy, faults>> /\ Others

Applied(a) == op' = IF op.todo = {a} THEN [op EXCEPT !.pc = "save", !.todo = {}]
                    ELSE [op EXCEPT !.pc = "apply", !.todo = @ \ {a}]

\* systemd: enable and then restart the timer, or disable --now.
ApplySystemd ==
  /\ platform = "systemd"
  /\ LET a == Now IN
       \/ /\ On("apply")
          /\ boot' = [boot EXCEPT ![a] = op.memory.policy[a].on]
          /\ IF op.memory.policy[a].on THEN Goto("install") /\ UNCHANGED loaded
             ELSE Applied(a) /\ loaded' = [loaded EXCEPT ![a] = 0]
       \/ /\ On("install")
          /\ loaded' = [loaded EXCEPT ![a] = file[a]]
          /\ Applied(a) /\ UNCHANGED boot
  /\ UNCHANGED <<settings, file, old, waiting, legacy, faults>> /\ Others

\* Mutant: an agent that is off keeps its definition on disk.
ApplyLaunchdKeeps ==
  /\ platform = "launchd"
  /\ LET a == Now IN
       /\ On("apply")
       /\ loaded' = [loaded EXCEPT ![a] = Wanted(op.memory, a)]
       /\ file' = [file EXCEPT ![a] = op.memory.policy[a].every]
       /\ Applied(a)
  /\ UNCHANGED <<settings, boot, old, waiting, legacy, faults>> /\ Others

\* launchd: unload, which ends a worker that waits; then remove or write the
\* definition, and load it.
ApplyLaunchd ==
  /\ platform = "launchd"
  /\ LET a == Now IN
       \/ /\ On("apply")
          /\ loaded' = [loaded EXCEPT ![a] = 0]
          /\ waiting' = waiting \ {a}
          /\ Goto("install") /\ UNCHANGED file
       \/ /\ On("install") /\ file[a] # Wanted(op.memory, a)
          /\ file' = [file EXCEPT ![a] = Wanted(op.memory, a)]
          /\ UNCHANGED <<op, loaded, waiting>>
       \/ /\ On("install") /\ file[a] = Wanted(op.memory, a)
          /\ loaded' = [loaded EXCEPT ![a] = file[a]]
          /\ Applied(a) /\ UNCHANGED <<file, waiting>>
  /\ UNCHANGED <<settings, boot, old, legacy, faults>> /\ Others

\* Task Scheduler: one definition, enabled or not, replaces the other.
ApplyTasks ==
  /\ platform = "tasks" /\ On("apply")
  /\ LET a == Now IN
       /\ loaded' = [loaded EXCEPT ![a] = Wanted(op.memory, a)]
       /\ Applied(a)
  /\ UNCHANGED <<settings, file, boot, old, waiting, legacy, faults>> /\ Others

\* A native call fails. Task Scheduler gets one more try without S4U.
ScheduleError ==
  /\ op.pc \in {"files", "apply", "install"}
  /\ Fault
  /\ IF platform = "tasks" /\ ~op.fallback
     THEN op' = [op EXCEPT !.pc = "files", !.todo = Action, !.fallback = TRUE]
     ELSE AfterEnsure
  /\ UNCHANGED <<settings, Native, old, waiting, legacy>> /\ Others

SaveScheduled ==
  /\ On("save")
  /\ settings' = [op.memory EXCEPT !.scheduled = TRUE]
  /\ remaking' = FALSE
  /\ Goto("retire")
  /\ UNCHANGED <<Native, old, waiting, legacy, faults>> /\ Kept

\* systemd disables the old timer before it removes the file.
RetireSystemd ==
  /\ platform = "systemd" /\ On("retire")
  /\ IF old.loaded /\ old.file THEN old' = [old EXCEPT !.loaded = FALSE] /\ UNCHANGED op
     ELSE old' = [old EXCEPT !.file = FALSE] /\ AfterEnsure
  /\ UNCHANGED <<settings, Native, waiting, legacy, faults>> /\ Others

\* launchd removes the file first, because unloading ends the old task's own
\* process. Another process of the old task may wait for this one: it stays.
RetireLaunchd ==
  /\ platform = "launchd"
  /\ \/ /\ On("retire")
        /\ old' = [old EXCEPT !.file = FALSE]
        /\ IF old.loaded /\ legacy = Idle THEN Goto("unload") ELSE AfterEnsure
        /\ UNCHANGED legacy
     \/ /\ On("unload")
        /\ old' = [old EXCEPT !.loaded = FALSE]
        /\ legacy' = Idle
        /\ AfterEnsure
  /\ UNCHANGED <<settings, Native, waiting, faults>> /\ Others

\* Task Scheduler deletes the task, then the copy of its definition.
RetireTasks ==
  /\ platform = "tasks" /\ On("retire")
  /\ old' = [file |-> FALSE, loaded |-> FALSE]
  /\ AfterEnsure
  /\ UNCHANGED <<settings, Native, waiting, legacy, faults>> /\ Others

\* The retirement fails. On Windows the copy may be all that is removed, since
\* a query that fails reads as "no such task".
RetireError ==
  /\ op.pc \in {"retire", "unload"}
  /\ Fault
  /\ AfterEnsure
  /\ \/ UNCHANGED old
     \/ platform = "tasks" /\ old' = [old EXCEPT !.file = FALSE]
  /\ UNCHANGED <<settings, Native, waiting, legacy>> /\ Others

-----------------------------------------------------------------------------
(* maintenanceAttempt.                                                     *)

Attempt ==
  /\ On("attempt")
  /\ settings' = [op.memory EXCEPT !.result[op.action] = "running"]
  /\ outcome' = [outcome EXCEPT ![op.action] = "running"]
  /\ Goto("work")
  /\ UNCHANGED <<platform, Native, old, waiting, legacy, remaking, faults>>

\* The refresh or the upgrade itself.
Work ==
  /\ On("work")
  /\ \E r \in {"ok", "failed"} : outcome' = [outcome EXCEPT ![op.action] = r]
  /\ Goto("report")
  /\ UNCHANGED <<platform, settings, Native, old, waiting, legacy, remaking, faults>>

Report ==
  /\ On("report")
  /\ settings' = [op.memory EXCEPT !.result[op.action] = outcome[op.action]]
  /\ op' = Idle
  /\ UNCHANGED <<Native, old, waiting, legacy, faults>> /\ Others

-----------------------------------------------------------------------------
(* Faults.                                                                 *)

Crash ==
  /\ op # Idle /\ Fault
  /\ op' = Idle
  /\ UNCHANGED <<settings, Native, old, waiting, legacy>> /\ Others

\* The user logs in again, or the machine starts: every process is gone, and
\* the manager reads its definitions.
Login ==
  /\ Fault
  /\ loaded' = [a \in Action |-> AfterLogin(a)]
  /\ old' = IF platform = "launchd" THEN [old EXCEPT !.loaded = old.file] ELSE old
  /\ op' = Idle /\ waiting' = {} /\ legacy' = Idle
  /\ UNCHANGED <<settings, file, boot>> /\ Others

-----------------------------------------------------------------------------
OpStep ==
  \/ Ensure \/ ApplySystemd \/ ApplyLaunchd \/ ApplyTasks \/ SaveScheduled
  \/ RetireSystemd \/ RetireLaunchd \/ RetireTasks
  \/ Attempt \/ Work \/ Report
  \/ \E a \in Action : WriteFile(a)

Next ==
  \/ OpStep \/ ScheduleError \/ RetireError \/ Crash \/ Login
  \/ OldFires \/ LegacyLock \/ LegacyBusy
  \/ \E a \in Action :
       \/ Wake(a) \/ GiveUp(a) \/ Worker(a)
       \/ "setting" \in Commands /\ \E p \in Policy : Setting(a, p)
       \/ \E kind \in Commands \ {"setting"} : Command(kind, a)

Spec == Init /\ [][Next]_vars

\* A started command goes on. The old task fires again and again while it is in
\* force, every six hours: some of its starts find the lock free, and take it.
Fairness ==
  /\ WF_vars(OpStep)
  /\ SF_vars(op = Idle /\ OldFires) /\ SF_vars(LegacyLock)

LiveSpec == Spec /\ Fairness

-----------------------------------------------------------------------------
(* Properties.                                                             *)

InForce ==
  \A a \in Action : loaded[a] = Wanted(settings, a) /\ AfterLogin(a) = Wanted(settings, a)

\* A client marked as scheduled has in force, now and after the next login,
\* exactly the schedules of its saved policies, as long as nobody makes marked
\* schedules once more (ensureMaintenance, runMaintenanceSetting).
ScheduledIsNative == settings.scheduled /\ ~remaking => InForce

\* A schedule that still fires, or a worker that waited, starts no attempt of
\* an action whose saved policy is off (README_SBC.md: saved policies, "off"
\* included, survive).
OptOutHolds ==
  [][\A a \in Action : outcome'[a] = "running" /\ outcome[a] # "running" =>
       op.kind = "manual" \/ settings.policy[a].on]_vars

\* No command but a setting of that action changes a policy or takes the mark
\* away: neither a worker that worked on a copy, nor a reinstall.
SettingsAreKept ==
  [][/\ settings'.policy # settings.policy => op = Idle /\ op'.kind = "setting"
     /\ settings.scheduled /\ ~settings'.scheduled => op = Idle /\ op'.kind = "setting"]_vars

\* The fixed refresh task of the older client is retired, by whatever command
\* comes first or by its own next start (runLegacyUpdate).
OldTaskRetires == <>[](~old.loaded)
=============================================================================

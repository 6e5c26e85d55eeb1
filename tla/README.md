# Verification of sing-box-manager

TLA+ models of the parts of sing-box-manager whose correctness depends on
ordering, crashes and retries, the TLC runs that check them, and the theorems
that TLAPS proves about them. Everything is translated from the source; the
lines each definition stands for are in `PROJECT.json` under `map`.

## 1. The system

The repository holds three programs: the Go client `sbc` (`internal/`, `cmd/`),
the Go node agent (`node-agent/`) and the Python portal `sbm`
(`sing_box_manager/`).

| Component | State | Operations | Hard behaviour | Module |
|---|---|---|---|---|
| TUN root transaction (`internal/tun`) | `transaction.json`, the `blocked` marker, `/run/sbc-tun/active`, the published generation, the systemd service and one transient recovery timer per transaction | `Apply`, `Commit`, `Recover`, `Stop`, `AllowStart`, `Status` | kill, reboot, engine crash or failing tool between any two durable writes; start jobs and timers that do not take the control lock | `TunTransaction` |
| TUN user side (`internal/cli/tun*.go`, `internal/install/tun.go`) | user files, `tun-state.json`, `upgrade-recovery.json` | `tun on`, `tun off`, TUN `refresh`/`upgrade` and their recovery | the user command dies while the root command it started lives on; recovery decides on unlocked reads | `TunMaintenance` |
| Locks, startup and upgrade of the mixed proxy (`internal/maintenance/lock.go`, `cli/startup.go`, `install/upgrade.go`, `recovery.go`) | operation, startup and engine locks; client, core and configuration file; recovery record | every command that writes those files, `sbc run`, starts and stops by the service manager | a wrapper that starts the engine under an old grant; a crash between publication, restart, readiness and the removal of the record | `MixedProxy` |
| Maintenance policies and native schedules (`maintenance/settings.go`, `service/maintenance.go`, `tasks.go`) | `maintenance.json`, unit, plist and task definitions, what the manager has loaded | `maintenance` settings, `ensureMaintenance`, background workers, the old refresh task | one of several native calls fails; a login reloads what is on disk; a worker that waited over a change | `MaintenanceSchedule` |
| System region (`region/system.go`) | `/etc/localtime`, the locale file, backups, the saved record | `SystemApply`, `SystemDisable` by the root helper | crash between a tool's write and the record; other people's changes | `SystemRegion` |
| Region choice of an account (`region/manager.go`, `cli/region.go`) | profile, mode, shell and environment.d files, session variables | `region on`, `off`, `refresh`, install, `status` | a command of many durable steps is killed between two; a portal that changes its mind | `RegionChoice` |
| Browser language (`internal/browserlanguage`) | Chrome's preference files, the recovery record | `Enable`, `Disable`, `NoteTarget` | Chrome, its user and crashes between the steps; two stores per profile, several profiles in one record | `BrowserLanguage` |
| Node accounting ledger (`accounting/store.go`) | SQLite tables `checkpoints`, `usage`, `finished`, `gaps` | `Record`, `Finish`, `Gap` | mixed invocations and days, integer width, coverage | `Accounting` |
| Counter export (`accounting/export_state.go`, `exporter`) | table `counter_export_ack`, requests in flight | `PendingCounters`, `ExportOnce`, `AcknowledgeCounters` | concurrent calls; lost answers; rows that move while their page travels | `CounterExport` |
| Central ingest (`control_plane/traffic_ingest.py`) | `TrafficSnapshot` rows, credential bindings | `ingest_page` | repeated, late and reordered pages; one bad row refuses the page | `CounterExport` |
| Traffic wire codec (`node-agent/internal/traffic`) | none | produce, encode, parse and validate pages and receipts | a document that was changed at one place; reordered entries and receipts; largest counts | `TrafficWire` |
| Node lifecycle, G0 (`cmd/sbm-node-g0`) | `current` link, generations, `running.json`, `lifecycle.lock` | `apply`, `recoverCurrent`, `executeEngine`, `sampleLocked`, `cycle` | engine restarts between check and sample; crash between stop, finish and publication | `NodeLifecycle` |
| Node synchronisation (`control_plane/node_sync.py`) | desired and applied generations | publish, report | stale reports | – |
| Release store and collector (`release/`) | release directories, current pointer | build, publish, collect | a collector beside readers | – |
| Connection tracking, traffic store (`connection_tracking.py`, `traffic_store.py`) | open connections, the batch in flight, aggregated rows | apply frames, commit, restore | replayed connections, commits of unknown outcome, restarts | – |
| Reconciliation (`traffic_reconciliation.py`) | none | compare two totals | boundaries | – |
| Desktop, shell, Docker, services | system integration files | install, remove | partly applied settings | – |
| Deployment, provisioning, portal views, TUI, diagnostics | remote hosts, database rows | commands, forms, pages | little concurrency of their own | – |

How they interact. The user's TUN command talks to root only through `sudo` (a
root command with an exit status) and through the public journal it reads; root
recovery units talk to nobody and read the journal. The commands of the mixed
proxy, the service manager and the wrapper `sbc run` meet in three file locks.
Background workers take the operation lock like commands, and then are
`refresh` or `upgrade`. The account's region commands call the root helper,
which keeps a record of its own, and read that record for `status`. The node's
ledger is written by the sampling loop and read by the exporter; the exporter
and the central store exchange one request with a page of snapshots and one
response with receipts, both in the wire codec. The node agent drives the proxy
unit through `systemctl`, shares the lifecycle lock, the `current` link and the
startup receipt with the unit's wrapper process, and is the only writer of the
ledger. The node and the client do not interact.

## 2. Modules

| Module | Models | Composes or implements |
|---|---|---|
| `TunTransaction` | the root side of TUN | |
| `TunMaintenance` | the user side of TUN | extends `TunTransaction`: both sides in one state space |
| `AtomicUpdate` | abstract specification of a file replacement | |
| `MixedProxy` | locks, commands and processes of the mixed proxy | implements `AtomicUpdate` |
| `MaintenanceSchedule` | policies, schedules and workers | |
| `SystemRegion` | the root helper of region matching | |
| `RegionChoice` | the account's side of region matching | takes the helper's outcomes as one step |
| `BrowserLanguage` | Chrome language matching | |
| `Accounting` | the ledger | |
| `CounterReplication` | abstract specification of the export | |
| `CounterExport` | exporter, network and central ingest | extends `Accounting`; implements `CounterReplication` and `Accounting` |
| `NodeLifecycle` | the G0 node agent, the proxy unit and its wrapper | extends `Accounting` |
| `TrafficWire` | the wire codec | |
| `MC…` | instances for TLC | |
| `AccountingProofs` | theorems of the ledger, alone or under a component that writes it, then of its export | extends `CounterExport` |
| `NodeLifecycleProofs` | theorems of the node | extends `NodeLifecycle`, `AccountingProofs` |
| `TunProofs` | theorems of the root side of TUN, then of both sides | extends `TunMaintenance` |
| `MixedProxyProofs` | theorems of the mixed proxy | extends `MixedProxy` |
| `MaintenanceScheduleProofs` | theorems of the schedules | extends `MaintenanceSchedule` |
| `SystemRegionProofs` | theorems of the root helper | extends `SystemRegion` |
| `BrowserLanguageProofs` | theorems of Chrome language matching | extends `BrowserLanguage` |
| `TrafficWireProofs` | theorems of the wire codec | extends `TrafficWire` |

### TunTransaction

`journal`, `blocked`, `enabled` and `installed` survive a reboot; `marker`,
`service`, `resources` and `timer` do not. `holder` is the one root command
under the control lock with a program counter, `queue` the commands that are
started and not yet at the lock. `maintenance.Lock` never waits, so a command
that finds the lock taken fails (`Refuse`), and only a recovery unit is started
again, by systemd (`Ends`).

One action stands for one durable write or one external command, so a kill, a
reboot, an engine crash, a timer or a start job can fall between any two of
them. Each has the outcomes the code handles: success, failure with the code's
error path, and for `systemctl disable --now` a failure after either half.
`Apply` prepares under its lock in four steps, the check of the owner, the
staging of the generation, the check of the configuration and the probes
(`ApplyOwner`, `ApplyStage`, `ApplyCheck`, `ApplyProbe`), before it touches
anything that captures. `stopLocked` is one sequence of steps (`sBlock` to
`sUnblock`) used by `Recover`, `Stop`, `abort` and by `Apply` itself, which
continues at `reblock`.

A generation is the identity of the transaction that published it; `Partial`
is the pair of directories between the two renames of `publishGeneration`. A
service run reads the installed generation when it starts. A missing unit makes
`disable --now` fail in the code, which then accepts `LoadState=not-found`; the
model has that case as a stop that succeeds. The deadline runs on the wall clock
and the timer on the monotonic clock, so `Expire` and `TimerFire` have no order.

### TunMaintenance

`user` is the one running `sbc` command (operation lock) with its program
counter, `files` the version of each user file, `ustate` the transaction named
by `tun-state.json`, `recovery` the record with its backups. A maintenance
prepares in two steps (`PrepareTunUpdate`, `PrepareStaged`) before its record
is written, and `GiveUp` may end it at each. `Current()` is two
reads without a lock and is two actions, `ReadStatus` and `ReadRecord`.
`Sudo` starts a root command and the answer arrives in `reply`. When the user
command dies (`UserCrash`), its root command goes on as an orphan.

`maint` and `current` are history: which transactions maintenance began and
which of them root committed last. Guards never read them, except that a new
transaction takes an identity nobody used, as `RandomSecret` gives one.

### MixedProxy and AtomicUpdate

`live` is the version each of the three files comes from, `record` the recovery
record with the set to go back to and the target, `op` the command under the
operation lock with the local variables its code keeps, `leftover` the startup
grant of a dead command whose file descriptor is still open in a child, `svc`
what the service manager wants and whether it is stopping its process, and
`proc` the wrapper `sbc run`, once as the service and once in the foreground,
from its lease over its authorization to the engine it becomes by exec. An
engine reads the core when it is loaded and the configuration afterwards, so a
replacement can fall between. The locks are not variables of their own: who
holds them follows from program counters, as the locks follow from open
descriptors in the code. Each wait of the startup guard ends by its condition
or by its deadline.

A behaviour runs the commands of one script of `Scripts`. Reinstalls write in
place and are outside the abstract update, and the properties say so.
`AtomicUpdate` knows one committed set, at most one candidate beside it, and an
engine that is only ever started from one of the two as a whole.

### MaintenanceSchedule

`settings` is `maintenance.json`: a policy and a last result per action, and
the mark that the native schedules were set up. `file`, `boot` and `loaded` are
a schedule's definition on disk, whether systemd starts its timer at the next
boot, and what is in force in the running manager; `Login` reloads the one from the
others. The three platforms are three translations of the same request and
differ in their native calls and in what each leaves behind when it fails.
`op.memory` is the copy of the settings a command works on. A worker waits for
the lock before it reads its policy (`waiting`); the fixed task of the older
client reads first (`legacy`) and locks afterwards, as its code does.

### SystemRegion, RegionChoice, BrowserLanguage

All three change something that is the user's own and promise to give it back.
Their state is the thing itself (`value`; the files and session; `prefs`), the
durable record, the running command with one step per durable write, and
history of what the user last chose, which only the properties and the actions
of that user read.

`SystemRegion`: per component a value with its form, because the helper
recognises its own value by link target or file hash and timedatectl writes a
relative link where the helper writes an absolute one. `on` may ask for another zone
or language every time, and may be repeated over a change that was interrupted, as
`status` tells the owner to do. The code loses the original in some of these cases
(see the findings): `astray` is history that names the components where it has,
from the step that loses it (`Stranded`, `Overlays`) until someone else sets the
component again. `Track` is its conjunct beside every action (`Next == Move /\ Track`);
no action reads it, and the properties except exactly these components.

`RegionChoice`: a command is the sequence of groups of steps it has left; a step
that fails gives up its group, and the command goes on with the next one, as
the code collects errors. `Asks` is what `status` prints as the next thing to do,
computed from the files, the mode and the helper's record as
`printRegionStatus` and `printSystemRegionStatus` do; the owner of the liveness
properties does no more than that.

`BrowserLanguage`: fields of the local store and of a signed-in account's store;
per profile the record holds what each field had before the first change, what
sbc writes, and while a target changes what it wrote before. Chrome may start
and stop, its user may change a field or add and delete a profile, between any
two steps of the command that the code does not protect.

### TrafficWire

A document is its decoded tree. `Make` produces a page of valid snapshots,
`Tamper` changes the document on its way at any one place (a value of another type, a
fraction, a missing, an additional or a repeated name, another order, an item dropped
or repeated), and `Parse` is what the other side makes of it; receipts travel
back the same way. SHA-256 is taken for injective, so a digest is the payload it hashes.
`Sorted` puts each entry at the place that the number of entries before it says; entries of
equal names, which every validation refuses, keep their order.
Lengths in bytes, nesting and escapes, which can only refuse, are left
out. A whole snapshot that is dropped from a page passes the parser and is only
noticed when the receipts do not cover the page. The Python codec of the
central service (`traffic_contract.py`) mirrors the Go one and is not mapped.

### Accounting and CounterExport

Each method of the store is one SQLite transaction on one connection and is one
atomic action; a method that fails rolls back and is a stuttering step. A bucket
is (credential, day), a row its version and its bytes per direction, `MaxInt`
the width of both. `CounterExport` adds the acknowledgement table, the calls of
`ExportOnce` (selected and sent, answered, idle), the central rows, the
credentials bound to the node, and `late`, the requests whose call gave up but
which may still reach the server, once or several times. A snapshot is the row it was read from:
its digest is a hash of exactly that content. `ingest_page` locks the source
and the credential rows and is one durable transaction, hence one action.
`CounterReplication` says what the exchange is for: three versions per bucket
(local, central, confirmed) that follow one another.

### NodeLifecycle

`agent` is the agent's program counter with the local variables of `cycle`,
`apply` and `sampleLocked`; `unit` is the proxy unit as systemd sees it, with
the invocation and the generation its process loaded; `lock` is the owner of
`lifecycle.lock`; `pub` and `receipt` are the durable `current` link and
`running.json`; `started`, `ran`, `count` and `reported` are what systemd, the
engine and the controller know (only identities and counters of the running
engine are read by guards). The wrapper has one action per step that others
can see: taking the lock with reading the pointer, writing the receipt, and
becoming the engine, which drops the lock (close-on-exec). The agent has one
action per external command or durable write; `Fails` ends the cycle at any of
them, `Return` is what every end of a cycle does, the second reading of the
pointer after `apply` included. `AgentCrash`, `Reboot`, an end of the unit's process
and a start by systemd or the operator can fall between any two actions. A
generation that cannot be staged, checked or synced is an early failure
(`Fails` at `inspect`); an engine that does not answer the counter RPC is one at
`read`. A status is three steps without the lock: `Reobserve`, whose lock is dropped
before it returns, `CountGaps` and `PostStatus`; the engine can end, or be replaced, between
any two of them. An invocation is a fresh identity: systemd makes a random one.

## 3. Properties and runs

| Run | Instance | Checks |
|---|---|---|
| `tun_root` | 1 transaction, 2 waiting commands, 2 crashes, 2 failures | capture without a commit is always bounded by its recovery unit and comes to an end; off means no capture; no late recovery stops a committed generation or takes its commit back |
| `tun_maintenance` | TUN on or off at first, 2 transactions to come, 2 files, 2 waiting commands, 1 crash; 1 failure when it is off at first | user files are the committed version, or a record leads there; a commit proves publication; an active journal names what is installed and runs, and an active generation has its saved state; files are put back only when that is safe |
| `mixed_proxy` | 2 versions of upgrades, 1 version of the other scripts, service and foreground wrapper, 1 fault | no engine runs a mixed set; the live files without a record were published whole; a command that started the engine ends with it on the live files; refinement of `AtomicUpdate`; an engine comes up |
| `schedules` | 3 platforms, every command, one interval, 1 fault | marked schedules are what the saved policies want, now and after the next login; nothing runs an action whose policy is off; nobody overwrites a policy; the old task retires |
| `region` | 2 zones, 1 language, 1 foreign name, 2 faults | but for a component that went astray: what sbc wrote is claimed, the original is kept, `off` gives back only that, and in the end does |
| `region_off` (violation) | the same | `off` gives both components back, as the documentation says: neither comes back |
| `region_choice` | 2 components, 2 targets, 1 fault, 2 changes of the portal | refresh repairs; an owner who does what `status` asks ends with nothing left |
| `browser` | 1 profile with an account, 2 faults, 1 change; 2 profiles, 1 fault or 1 change; 2 targets | what sbc wrote is recoverable; repeated `off` restores every language |
| `export` | 2 buckets on pages of one, 2 calls, 1 late request | exported means stored; no honest page conflicts; the central store is never ahead; refinement of `CounterReplication`; a bucket with a slot on the page is exported |
| `node` | 2 generations with a credential each, 2 invocations, 2 days, counters up to 2 | every byte counted once; a completion marker is final; a sample is booked to its own invocation and credential; an engine runs what the pointer selects; a status names an invocation that was sampled, and every other one sampled for its credential is finished or a gap that it counts; a stopped engine of a selected generation comes back |
| `node_gap` (violation) | 1 generation, 3 invocations, counters up to 1 | a status is reported although an engine that carried traffic ended with neither marker nor gap |
| `wire` | pages of up to two snapshots, one change anywhere | what is accepted was produced; receipts cover the page |

Each property of a passing run has a mutant of the code (an operator beside the one it replaces,
marked `Mutant:`) which the run refutes.

Bounds. `MaxQueue`, `MaxCrashes`, `MaxFailures`, `MaxFaults`, `MaxChanges` and
`MaxLate` bound what the environment does, and appear in the guards. One crash
or fault can fall at every step; a failure beside a crash, or two faults, give
every pair. In `tun_root` one transaction is enough for what the properties
relate, its own commands, timer and start job; that a later transaction meets
an earlier one's leftovers is in `tun_maintenance`, which has three (one of
them spent), what it takes for an orphan to meet a stranger. Two files make a
half-published version possible. In `mixed_proxy` the second version of
upgrades meets the leftovers of the first one; the other scripts combine an upgrade
with what may come between: a configuration written in one rename, a port change with
restarts, a stop and a reinstall. In `region` two zones make a retarget in both
directions, a foreign name someone else's change, and two faults an interrupted `on` and an
interrupted repetition or `off`; the language has one target, since a pending record of a
language claims its earlier value together with the target and a retarget adds no case (the
theorems are for any number of both). The first
values are those of someone else with a foreign name, or a link to one of the zones; in `region_choice` two changes of the
portal let it go back to where it was. In `browser` two profiles share the one
record and one profile has an account store beside the local one. In `node` two
generations make a successor and two invocations an engine and its replacement;
crashes and failures are not bounded. Counters up to 2 over two days let a sample follow
a sample of the same invocation, on the same day or the next, well inside the
width: bytes counted again would show, and are not refused as an overflow. Two calls and a late request give three
copies of a page in flight. `MaxInt` makes the overflow of both versions and bytes
reachable; what the width is does not matter to the theorems. Symmetry is used
only for sets whose members nothing orders, and in no run with a liveness property.

Larger instances were checked beside the runs, with the same properties unless noted:
`TunTransaction` with two transactions (1 waiting command, 1 crash, 1 failure; 1.1
million states); `MixedProxy` with two versions and all scripts under two
faults (11.2 million, safety) and with `{"upgrade", "config"}` over two versions
with liveness (2.8 million); `MaintenanceSchedule` without reinstalls under two faults (11.9
million); `BrowserLanguage` with one profile and two faults without a bound on changes
(0.7 million) and with two profiles under one fault and one change (5.4 million, safety). The
type invariant of every module (`TypeOK`, `RootTypeOK`, `LedgerTypeOK`,
`LifecycleTypeOK`) holds on the instance of each of its runs.

The TUN maintenance, export, region, browser and wire configurations set
`CHECK_DEADLOCK FALSE`: the system may rest. Counters that are full with every
page confirmed, a TUN that is off with all bounded identities used, settings
that were given back to an owner who left, or a page whose receipts arrived have
nothing left to do. `tun_root` sets it for the same reason.

### The findings

`docs/NODE_ACCEPTANCE.md` says "Unexpected termination retains a
durable coverage warning" (line 91; line 61 says the same of invocation
changes). `node_gap` shows a behaviour without one: an engine starts, writes its
receipt, carries traffic and dies before the agent samples it; systemd (one
second) or the agent's own pending start brings up the next engine, whose
wrapper overwrites `running.json`. From then on nothing names the lost
invocation: `missingEngine` reads only the last receipt, and `Record` makes gaps
only of invocations with a checkpoint. The next status reports its gap count
without it. TLC's shortest trace uses a start by the operator right after the
publication; the same happens with an automatic restart. An engine that was
sampled leaves its gap when its credential is sampled again, which
`StatusIsEarned` states. When the next generation has other credentials, not
even that is certain.

`docs/README_SBC.md:452` says "The first `on --system` records the previous
time zone and locale under /var/lib/sbc/region. `off` restores them." `region_off` shows
a behaviour at whose end no record is left and neither component is what its owner had,
by two defects.

- *A change of target that ends early* (`region/system.go:363`). To change from zone A to
  B the helper replaces its record of A by a pending one of B and saves it before it
  writes the link. If it dies there, or if that save fails and a later save of the same
  command writes the record anyway, the link is still sbc's A, while the record names
  only B: `timezoneOwned` is false, `off` takes the link for a change made outside sbc
  (`system.go:528`), drops the record and leaves A.
- *`on` over an interrupted change* (`system.go:344`, `:427`). After a crash between the
  tool's write and the last save, `status` says "change incomplete; run 'sbc privacy
  region on' to finish" (`cli/region.go:615`). That `on` compares the value only with
  `old.Written`, which for a language is what was there before and for a time zone the
  absolute link, where timedatectl writes a relative one; `off` and the ownership tests
  also know a pending record by its target. So the helper takes its own value for the
  user's, stores it over the backup, and `off` restores that.

`OffRestores` asks for one component only, so that its counterexample must lose both and
shows both defects. For every component that neither has hit, `SystemRegionProofs`
proves that the original is kept and given back.

### Fairness

`node`: systemd restarts the agent; a step of the agent or the
wrapper that is tried again and again succeeds at last (strong), because each is
a bounded command or a lock whose holders all release it; the wrapper's two steps after
it has the lock are local (weak); the start limit of the
proxy unit only delays a start, and the agent is assumed not to crash so fast
that it uses up its own. Crashes are not bounded otherwise, and nothing is
assumed of the controller. `EngineComesBack` is released when the finitely many
invocations of the instance are used up.

`tun_root`: systemd runs start jobs and timers; a root command
under the lock is not suspended for ever (all its external commands are bounded
by timeouts or by the recovery itself); the recovery unit has
`Restart=on-failure`, `RestartSec=1s` and no start limit, so it tries for the
lock again and again, and strong fairness says that it gets it once the lock is free
again and again. Kills and reboots are bounded, nothing is assumed of users.

`export`: `ExportOnce` is a library call, so the caller must keep calling
it (`Select`, weak); while calls are made again and again, one of them is served and, later,
its acknowledgement committed (`Serve`, `Acknowledge`, strong, of whichever call), because
every page is selected anew after each failure. Nothing is assumed of the
engine, of late requests or of the operator. The property itself has two hypotheses,
which the code does not guarantee. All credentials stay bound in the end, since one
unbound credential refuses the whole page and the deterministic selection sends the same
page again. And the bucket keeps a slot on the page (`HasSlot`): selection has a fixed
order, and a receipt of a row that has grown since confirms nothing, so a page full of
buckets that grow in every round trip starves those behind it (see the
observations). The bucket itself may grow as it likes: a version counts as exported when it, or
a later one, is stored.

`mixed_proxy`: a command and a wrapper take their next step, the operating
system releases a dead process's descriptors, and the service manager starts a
wanted service and ends a process it is stopping. Nobody is assumed to type a
command, and the foreground wrapper need not be started. `EngineComesUp`
is about behaviours in which the commands come to rest with the service wanted on.

`schedules`: a started command goes on, and the old task, which fires every six hours
while it is in force, gets the lock at last (strong): commands release it.

`region`, `browser`: a started command goes on unless it crashes, and a user who wants
everything back repeats `off` while a record remains (strong, since `off` waits
for the running command). `LanguagesComeBack` assumes that Chrome is closed in the
end, as the documentation asks.

`region_choice`: a started command goes on unless it is killed; an owner who
stays has the repeated refresh; one who leaves runs `off` while the mode is
on or `status` asks for it, and `off --system` while `status` asks for that, and does
nothing else.

## 4. Proofs

The eight modules prove what follows for every value of the constants: any
number of transactions, versions, generations, invocations, commands, crashes
and failures, any set of files, names or intervals, any integer width.

| Module | Theorem | Says |
|---|---|---|
| `TunProofs` | `RootInvariant`, `RootTypes` | the inductive invariant `RootInv`; `RootTypeOK` |
| | `UncommittedIsBounded`, `OffIsAbsent`, `ActiveIsOnDisk` | `UncommittedCaptureIsBounded`, `OffMeansNoCapture`, `ActiveJournalIsTheGeneration` |
| | `CommitOutlives` | `CommitIsDurable` |
| | `MaintenanceInvariant`, `MaintenanceTypes` | the inductive invariant `AllInv` of both sides; `TypeOK` |
| | `FilesAreWhole`, `CommitMeansPublished`, `StateFollowsActive` | `FilesAreTheCommittedVersion`, `CommitProvesPublication`, `ActiveHasItsState` |
| | `ActiveIsOnDiskBesideUsers` | `ActiveJournalIsTheGeneration` while user commands and orphans drive the root side |
| | `RestoredOnlyWhenSafe` | `RestoreOnlyWhenSafe` |
| `AccountingProofs` | `LedgerTypes`, `LedgerVersions`, `LedgerCoverage`, `LedgerFinality` | `LedgerTypeOK`, `VersionsNameContents`, `OneOpenInvocation`, `CoverageIsFinal` of `LedgerSpec` |
| | `LedgerCounts` | `EveryByteCountedOnce` of `LedgerSpec` |
| | `ExportInvariant`, `ExportTypes` | the inductive invariant `IInv`; `TypeOK` |
| | `CentralBehindLedger`, `NothingIsLost`, `NoHonestConflict`, `CentralOnlyAdvances` | `CentralNeverAhead`, `ExportedMeansStored`, `HonestPagesNeverConflict`, `CentralNeverRegresses` |
| | `ConfirmedUnlessGrown` | `RoundTripConfirms`: a receipt confirms its row unless the row has grown |
| | `ExportImplementsLedger`, `ExportImplementsReplication` | `Spec` implements `LedgerSpec` and `CounterReplication` |
| `NodeLifecycleProofs` | `LifecycleInvariant`, `LifecycleTypes` | the inductive invariant `LifecycleInv`; `LifecycleTypeOK` |
| | `SelectedRuns`, `GenuineSamples`, `FinishedMeansEnded`, `EarnedStatus` | `EngineRunsSelected`, `SamplesAreGenuine`, `FinishedHasEnded`, `StatusIsEarned` |
| | `LifecycleImplementsLedger`, `LifecycleFinality` | the node implements `LedgerSpec`, so `CoverageIsFinal` holds of it |
| | `LifecycleCounts` | `EveryByteCountedOnce` of the node |
| `MixedProxyProofs` | `MixedInvariant`, `MixedTypes` | the inductive invariant `MixedInv`; `TypeOK` |
| | `WholeFiles`, `WholeEngines`, `StartsAreCurrent` | `WholeWithoutRecord`, `NoMixedEngine`, `StartedIsCurrent` |
| | `CommandsImplementUpdate` | `ImplementsUpdate`: `Spec` implements `AtomicUpdate` |
| `MaintenanceScheduleProofs` | `ScheduleInvariant`, `ScheduleTypes` | the inductive invariant `ScheduleInv`; `TypeOK` |
| | `MarkedIsNative`, `SettingsSurvive`, `OptOut` | `ScheduledIsNative`, `SettingsAreKept`, `OptOutHolds` |
| `SystemRegionProofs` | `RegionInvariant` | the inductive invariant `RegionInv` |
| | `ValueIsClaimed`, `OriginalSurvives`, `OnlyGivesBack` | `OurValueIsClaimed`, `OriginalIsKept`, `GivesBackOnly` |
| `BrowserLanguageProofs` | `LanguageInvariant`, `LanguageTypes` | the inductive invariant `LanguageInv`; `TypeOK` |
| | `Recoverable` | `LanguagesAreRecoverable` |
| `TrafficWireProofs` | `ExchangeInvariant` | the inductive invariant `WireInv` |
| | `AcceptedWasMade`, `ReceiptsCover` | `AcceptedIsSent`, `ReceiptsCoverThePage` |

Assumptions: the named `ASSUME`s of the modules, which TLC evaluates in the
runs. They give the constants their kinds (finite sets, natural numbers), keep the
values that stand for "none" apart from the others, and name the scripts, commands
and platforms there are. No theorem has another hypothesis. What the theorems about the
region except, the components in `astray`, is what the finding shows to be lost.

Each proof has the same shape: lemmas about the operators, one lemma per
action (or per group of actions with the same effect) that says the invariant is
kept, a step lemma over the disjuncts of `Next`, and a temporal step. TLC
checked every inductive invariant on the instance of its run before it was proved,
except `WireInv`, which says that some list exists and is beyond TLC's evaluation. No run
repeats `VersionsNameContents`, `OneOpenInvocation`, `CentralNeverRegresses` and
the type invariants, which are proved for all instances (`RegionChoice` has only TLC's
check).

### Arguments

**The root side of TUN.** No property is inductive: whether a capture is bounded
depends on where the command under the lock is. `RootInv` says of each program
counter what its command has established (`HolderKnowsTheJournal`): from the
block on nothing can start, after the stop nothing runs (`StoppedStaysStopped`), the
journal is pending for its transaction while it arms the timer, publishes and
starts. `StartableIsKnown` says which generation a start job that has passed its
check may run, `UncommittedHasTimer` that the journal's transaction keeps its
unit until it is committed or stopped. `ApplyIsNew` is what the fresh identities
give: an apply that was not answered is not committed, and nobody asks for its
commit. That a late recovery does no harm (`CommitOutlives`) needs one more fact: a command in
`stopLocked` that is not an off works on an uncommitted journal (`StopsUncommitted`), because a
recovery asks for the commit fact under the lock and an apply has made the journal its own
before it may abort. The step lemmas name only the variables of the root side, so that
they hold beside the user's side, too.

**Both sides of TUN.** The user's command sees root through one reply and two
unlocked reads, and must survive its own death. `AllInv` adds to `RootInv` what an
answer means (`AnswersAreTrue`), and per step of the command what the recovery
record, the files and the saved state are. The central fact is that after a
successful off or apply nothing is active and no commit is under way; a commit can
only be the one of the journal's pending transaction, which is the record's
(`CurrentMoves`). That covers orphans, because nothing in it asks who waits.

**The ledger and its export.** Whether a page may be refused depends on every other
copy of its buckets, so `IInv` speaks of copies. Order rows by "is a later version
of, with at least the bytes, and equal at the same version" (`Follows`).
`OneHistory` says that any two copies of a bucket, in the ledger, in a request,
late or not, in a receipt or in the central store, are comparable in that order
and none follows the ledger's; `ReceiptsAreStored` says that the central row follows
every receipt and every acknowledged row. A step either makes a new copy of an
existing one, or is `Record`, which appends a version that follows all others.
From `IInv` the rest is immediate: two comparable rows cannot conflict; a receipt
equal to the ledger's row pins the central row between itself and the ledger's.
`LedgerFinality` and `LedgerVersions` need the types alone, and
`LedgerCoverage` is inductive together with them.

**Every byte once.** `EveryByteCountedOnce` compares two sums, of a credential's buckets over
the days and of its invocations' last readings. A sum over a finite set is one step of a
recursive function for each element, so the lemmas about it are inductions over subsets,
done through the well-founded order of strict subsets (`SubsetInduction`; the property
of a subset is given as the set of subsets that have it). Sums exist for every finite set
(`SumsExist`), and if two summands agree but at one element, so do the sums up to the
difference there (`SumsDiffer`). `Record` then adds the same bytes to one bucket
and to one invocation's reading (`UsageSumGrows`, `ReadSumGrows`), a refused sample adds
none. Days and invocations are finite sets by assumption.

**The node.** `LockFitsHolders` says who has `lifecycle.lock` at each step;
from it follow `UnitStaysDown` (once the agent saw the unit down under the lock, no
wrapper becomes an engine before the publication) and that the counters read
are those of the invocation identified before. `SampleIsCommitted` carries
the coverage of a sample over the three steps of the status, which have no lock: only
the agent writes the ledger, so whatever happens to the engine meanwhile, the other
invocations sampled for that credential stay accounted for, and the gaps counted are
those there are at the end. What the property cannot say, because the code does not
give it, is that the named invocation still runs, or has its gap if it does not: that gap is
made by a later cycle. Nor is it about all invocations: `Record` makes gaps per credential.
The theorem makes no assumption on rosters.

**The mixed proxy.** `LocksFit` and `NothingStarts` are what the three locks are
for: a command that writes live files holds the operation lock while no wrapper is
between its authorization and its engine. `RecordFits` and `LiveFits` say at each
step which files are of which set and that the record leads from one to the other,
`ProcessesFit` and `EnginesFit` what a wrapper has read before and after a
replacement. `StartedIsCurrent` needs that a command which waits for its engine
still means to start it, on files it does not write again. The refinement maps
the record's old set to `committed` and its target to `candidate`; a command's durable
write of the record tries the target, removing the record commits it or takes it
back, a configuration published by one rename replaces the set, the load of an
engine starts it, and every other step stutters.

**The schedules.** `MemoryFits`: only the holder of the operation lock writes
settings, so its copy is not stale. `MarkFits`: native definitions change only
while the mark is off or known to be remade. `ProgressFits` says per platform how
much is already made at each step; at the save all of it is. The opt-out concerns
only the step that starts an attempt, with the policy read under the lock
(`AttemptFits`).

**The region.** `Accounts` relates a value, a record, what someone else last
chose and a backup: a value nobody else chose is claimed, and a claimed one has
that choice as its original. `Fits` demands it of every component that is not
astray. With no helper running the saved record fits; while one runs, its copy, and the
record it goes back to when a tool fails, do (`Changing`, `Pending`). In between, one
other thing can be saved: the pending record of another zone over sbc's earlier link
(`Parted`). It is harmless while the helper goes on, since the link is written or
taken back next, so the invariant allows it during a command (`Sound`); a command that
ends there makes the component astray, and so does an `on` that takes sbc's value for the
original. These two are all the ways out of `Fits`: the proof covers any sequence of
targets and repetitions under any number of crashes and failures.

**Chrome's languages.** `Accounts` relates a record, the fields of a profile and what
its user last had there: every field that differs is claimed with the user's
value as its original, and so is every field that `off` would take back.
`LanguageInv` demands it of the saved record and of the copy in memory, which
differ after a failed save. `Safe` is what the refusals of `applyProfile` are for:
a field that will be written held its original or a value of sbc's when it was
read, so it does not matter who changed it since. Chrome's user may choose
anything but sbc's own targets, which no code could tell from sbc's writes.

**The wire codec.** Everything rests on one fact about order: an entry's place is the number of
entries before it, no two entries share one, so all places are taken (counting, no
induction), and sorting an ordered list changes nothing. Hence the content that the
producer hashes, the one on the wire and the one the parser hashes again are the same
(`MadeIsRead`, `ReadIsPayload`). A change of a document changes one member of its list or only
the list (`MangledOpens`). If the member's digest is still the producer's, the parser's
own hash of what it read must be the producer's content (`KeptDigestIsRead`); if the
digest is what was changed, the content is not, and the hash differs
(`ChangedIsRead`). What is read need not be well-formed for this, it only needs names in
an order (`Nameable`). For receipts, distinct keys on both sides and equal key sets
make a bijection, so the lengths agree.

### Only model-checked

- All liveness properties: TLAPS proves neither `ENABLED` nor leads-to under
  fairness.
- `RegionChoice`: its properties are liveness.

## 5. Not modelled

Left out of modelled parts:

- TUN: damaged journals and recovery records; several owners (one owner issues
  the commands); the content of configurations; the host checks; the background
  update check, which writes only a hint.
- Mixed proxy: downloads and signatures, which are a preparation that succeeds
  or fails; the validation of a record's paths; uninstall.
- Schedules: the upgrade hint; uninstall.
- Region: the checks of paths and owners before the root helper's first step;
  damaged state files; the wording of `status` (what it asks for is modelled).
- Browser: managed policies and damaged preference files, which are an error of
  their profile like any other; two managers at once, which the file lock
  keeps out.
- Ingest: attribution snapshots and the registration of sources.
- Node lifecycle: the files of an immutable generation directory, a damaged
  `current` link or receipt, and a failing read of the link right after its
  publication.
- Wire: lengths, nesting, escapes; the Python codec.

Components that are not modelled at all are listed in `PROJECT.json` with the
reason. Node synchronisation, the release store with its collector, and
connection tracking with the traffic store have state worth a model and come
next; reconciliation is a pure comparison; the portal's views, deployment,
desktop integration, the user interface and the probes have little state of
their own.

### Observations

Behaviour that was noticed while modelling, that contradicts no document, and
that a maintainer should know of.

- `cli/tun_maintenance.go:239`: when an orphaned apply has left the journal at a
  third transaction, the maintenance record waits for manual repair.
- `tun/apply.go:271`: a damaged journal makes an explicit off start from an empty
  record, whose identity no recovery unit has.
- `tun/apply.go:347`: another user is told to have the owner run `sbc tun off`
  first, but nothing removes the owner's manifest.
- `accounting/store.go:137`: `Snapshots` of the G0 fixture never gets past its
  first 100 rows; one unbound credential holds back every bucket behind its page.
- A roster change between two generations can lose the gap of a credential that
  is no longer in the roster.
- `cli/region.go:78`: a pending removal of the profile survives `off`; a partial `off`
  that fails between the mode and the session leaves `TZ` or `LANG` in the
  systemd user environment, where `status` does not look. A crash between the
  environment.d file and the session is not repaired by `refresh` for the same
  reason. While the mode is that of the user scope, the summary of `sbc status` does
  not show an orphaned record of the root helper; `sbc privacy region status` does.
- `region/system.go:573`: `off` puts the original back and removes its backup before the
  state says so. After a crash between the two, a language record that was
  still pending claims the restored file and asks for the backup again, so every later
  `off` fails until someone changes the file (`Unbacked`, the one record that
  `SettingsComeBack` lets stay).
- `accounting/export_state.go:26`: pending buckets are sent in a fixed order and a
  receipt confirms only the version that was sent (`:92`). A page full of buckets that
  grow in every round trip is sent for ever, and buckets behind it are not exported.
- Uninstall removes lock files while it holds them; on Windows the restart on
  failure is limited to three attempts.
- A refresh that crashes after its rename leaves the new configuration live with
  the old engine running until the next start; a reinstall makes its
  configuration live before it checks it (`install/install.go:185`).
- `ensureMaintenance` that is forced over marked schedules passes through states
  where the mark does not hold (`remaking` in `ScheduledIsNative`).

## 6. Plan

1. Proofs: shorter ones of the TUN side; what of `RegionChoice` is safety.
2. `NodeSync`, connection tracking with the traffic store, and the release store
   with its collector.

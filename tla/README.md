# KythOS: TLA+ models of updates, installation and the desktop services

KythOS is a bootc desktop image. Its run-time authority is Rust (`src/kyth-shared-rs`, `src/kyth-installer-web/src-tauri`,
`src/kyth-hub-web/src-tauri`); the Python trees are retired and kept as parity fixtures. This project models the parts whose
logic can brick a machine, lose a disk or leave a root process nobody controls, and that unit tests reach worst: the programs
that stage, judge and roll back system images; the daemon that partitions and installs, with its two journals; and the
stateful services of the desktop (jobs, update operations, VPN, guardian, scheduler). TLC checks small instances, TLAPS
proves the safety properties for every value of the constants (section 5). `PROJECT.json` maps every definition to the lines
it stands for and lists the main hazards, each at its line with the properties that watch it; section 4 names what the
properties leave out.

## 1. Inventory

| Component | State it keeps | Operations | Hard behaviour | Module |
|---|---|---|---|---|
| boot health (`system/boot_health.rs`) | digests, tally per digest, quarantine, last failed boot, last rollback attempt | `record_staged`, `record_failure`, `mark_healthy`, `clear_quarantine`, `note_rollback_attempted`, `rollback_retry_due` | long sequences of legal calls; dedupe that remembers one boot | `BootHealth` |
| update coordinator (`system/update_coordinator.rs`) | `boot-health.json` behind a file lock | one transaction per transition; an update that breaks `invariants()` is not written | refused transactions, thresholds | `UpdateCoordinator` |
| `kyth-boot-health` | locals between two transactions | `record-failure`, `mark-healthy`, `clear-quarantine`, `retry-rollback` | power loss between steps, failed rollbacks | `UpdateSafety` |
| `kyth-safe-upgrade`, `kyth-update-watcher` | locals, bootc lock | gate, lock, bootc, check, record, finalize | checks that go stale, the tag moves | `UpdateSafety` |
| `bootc_guard.rs`, `bootc_query.rs`, greenboot hooks | `/run/kyth-bootc.lock`, verdict | lock, switch, busy detection; required, success, failure | writers outside the lock, hooks that do not carry the verdict | `UpdateSafety` |
| job supervisor, installer daemon, transaction record | `JobState`, event history, registry, storage gate, `transaction.json` | start, cancel, partition routes, reboot, stream | check-then-act across two mutexes, cancel racing completion, replayed requests | `InstallJob`, `InstallDaemon`, `InstallSlot` |
| phase executor and durable journal (`installer_job_executor.rs`, `installer_durable_journal.rs`) | journal file on tmpfs or on the ESP, partition table and its backup, Windows file system, fstab | storage phase of five modes, image, configuration, cleanup, retry | failure before or after an effect, power loss, another size on retry, a corrupt journal | `InstallJournal` |
| partition editor (`installer_journal.rs`, its routes) | staged operations, commit state, table backup | add, remove, validate, commit, restore | a tool that fails half way, validation and execution written twice | `PartitionEditor` |
| shared job store (`system/jobs.rs`, `commands/job.rs`) | bounded table, eviction queue, flags | start, phase, finish, cancel, prune, evict | late reports, colliding ids, a full table | `JobStore` |
| Hub update jobs (`commands/updates.rs`) | the mutating slot, jobs, progress bar | stage, rollback, switch, apply, cancel | a root helper that cannot be killed, pipes that fill | `HubUpdates` |
| Hub VPN jobs (`commands/vpn.rs`) | status, child slot, generation, firewall zone | connect, sign-in, disconnect, fail-closed | threads of superseded generations, doubled callbacks | `VpnJob` |
| guardian (`guardian.rs`, `guardian_bin.rs`) | `guardian.json` | check, fix, repair, dismiss | load and save without a lock between them | `Guardian` |
| scheduler daemon (`sched_bin.rs`, `system/sched_daemon.rs`, performance mode) | profile, applied scheduler, retry counter, detector cache, saved settings | poll, signals, children | a loader that fails or answers late, children nobody waits for | `SchedDaemon` |
| privileged service, version ordering, process runner, runtime coordinator, planning, disks, mounts, user interfaces, Python, image build | - | - | - | not modelled (section 6) |

Interactions: safe-upgrade, the watcher, `bootc switch` and the boot-health commands share `boot-health.json` (by
transactions), the bootc lock (non-blocking, exclusive) and bootc's deployments. In the installer, request threads, one
worker per installation and stream threads share the registry and the storage gate (mutexes, gate first), the supervisor's
state and the transaction file; the worker's phases work on the disk through the durable journal, the partition routes
through the editor's journal, and the storage gate keeps the two apart (StorageExclusive), which is why the journals are
checked one at a time. The Hub's page polls the job store; its update jobs and VPN jobs have threads of their own, share
nothing with each other, and reach the update programs only by starting a root helper. Guardian's processes share one file.

What makes them correct: a quarantine is earned and never forgotten, a quarantined image is left and not staged again, one
program at a time drives bootc; one installation at a time, never beside a partition change, ending and reported as what it
was; no partition is cut or overlaid by a retry or a failed step, and what was done to Windows can be found after a reboot;
every root child the Hub starts can still be stopped or is waited for; what the user cancelled, dismissed or disconnected
stays so.

## 2. Modules

    BootHealth            pure transitions of BootHealthState
      UpdateCoordinator   the file and its transactions: the abstract specification of boot-health.json
        QuarantineDue     the same with a history of what was reported
          UpdateCoordinatorProofs
      UpdateSafety        the whole machine; INSTANCE UpdateCoordinator, shown to implement it
        UpdateSafetyProofs
    InstallJob            pure critical sections of one JobSupervisor
      InstallDaemon       routes, worker, streams; INSTANCE InstallSlot
        InstallDaemonProofs   storage, transaction file, streams, and that the daemon implements InstallSlot
    InstallSlot           what the daemon promises about installations
    InstallJournal        the destructive phases and the durable journal
      InstallJournalProofs
    PartitionEditor       the manual partition editor and its commit
      EditorProofs
    HubUpdates, VpnJob    the Hub's update jobs and VPN jobs
      HubProofs
    JobStore, Guardian, SchedDaemon   the shared job table; repairs and their history; the scheduler daemon
      ServiceProofs
    Induction             induction over numbers and recursive functions, used by the proofs
    MCUpdateSafety, MCMachine, MCInstallDaemon    instances for TLC
    MCParts, MCRecords, MCServices     several modules that share no state, checked one at a time

`MCParts`, `MCRecords` and `MCServices` extend several modules. The variable `part`, chosen initially from `MovingParts`,
says which of them moves; the others stay in one initial state. The reachable states are the sum, not the product, of
those of the modules; invariants of the modules that stand still hold in their initial state and add nothing. `MCMachine`
chooses in the same way the kind of `day`: both updaters with an administrator who repeats a rollback and a power loss, or
one of the updaters with an administrator who switches channels; the two are not combined.

**BootHealth / UpdateCoordinator.** `health` is `BootHealthState` without reasons and time stamps; a digest's quarantine
record is its failure count (0: not quarantined). Operators have the names of the Rust functions. `Transaction` is
`UpdateCoordinator::transaction`: the updated state is written only if `Valid` (`invariants()`) holds, otherwise the call
fails and the file stays. `boot`, `booted` come from the kernel and bootc; `failedBoots` is a history variable, the boots
put on file as failed since a digest was last forgiven. `QuarantineDue` adds a history that does not look at the file at all:
`dueBoots` has the boots that were reported at the default threshold, whether the report was written or refused.

**UpdateSafety.** One variable per program (its pc and locals), bootc's deployments (`next`, `prev`, `staged`), the tag
(`remote`), the lock. An action is one stretch of code between two points where another program can step in: each
transaction, each bootc command, each status read. A `bootc upgrade` stages what the tag names unless it is booted, a
`switch` also stages the booted digest (another channel may carry it). `AllowDowngrade` has the values the opt-in of
the configuration may take. `bootc`, ostree, greenboot, the registry and power loss are external and
modelled from how the code calls them. Probes (battery, space, metered link) and skip reasons are a choice between going on
and stopping. `HooksWired` tells whether greenboot's hooks call `kyth-boot-health`, as the documents and the hooks' comments
say, or run `kyth-runtime greenboot-*`, as installed. Every passing run of this module sets it TRUE: it shows what the
update-safety code does when its commands are called; the run `hooks` shows that the installed hooks do not call them.

**InstallJob / InstallDaemon.** `NativeJobRegistry::start` builds a new supervisor for each request, so `sup` is the
sequence of all supervisors of a daemon's life; its position is the installation's identity, `job_id` what the wire carries.
Each `lock()` ... drop of the code is one action. `StartClaim`, `StartSpawn`, `StartInstalled` are separate because the
worker may run before the registry takes its supervisor; `CancelAccept` and `CancelToken` because the token is set after the
state's lock is released. A phase of the executor is one step that succeeds or fails and leaves a status in the transaction
file. A stream thread replays, writes frame by frame, waits under the registry lock, breaks and reconnects.

**InstallSlot.** The promise: outcomes of the installations in order, whether the running one's cancellation was accepted,
who is changing partitions. Refinement mapping: the outcome of a supervisor is "running" while its worker is active, its
last event's kind once it has a terminal event, "refused" if its worker was never started.

**InstallJournal.** `espFile` and `stageFile` are the two places of the journal file, `handle` the one `durable_journal`
points to, `hidden` says that the target root is mounted over the staging file. A journal is its sequence of Started and
Completed records. `pc` walks the steps of one attempt in the order of the code for its mode; each may fail before or after
its effect, and a failed table mutation goes through the restore of its backup. `Open` is the first or the next attempt with
the same mode and perhaps another size; its probe for a mounted ESP may fail, and the journal is then opened below the
staging mount. `blind` remembers that an attempt did so, for whatever reason, while the ESP had the completion of a shrink.
`JournalPowerLoss` empties the tmpfs, `CorruptEsp` makes the file unreadable. The disk is what matters to the properties:
where Windows' partition and its file system end, and the partitions created behind.

**PartitionEditor.** `edOps` is the journal the daemon holds, with the index the page addresses an operation by. Validation
is the fold over the operations the code makes, kept as the accounts it has after each of them; `Execute...` is one action per
operation kind. Each disk tool may fail before or after its effect, a shrink also while it moves data, which leaves a lost file
system and no flag; `EmitFails` is the early return of an event that cannot be written, without restore and without flag.
`edIntact` remembers which partitions of the backup still have their data. `ReportedFs` is the cached `lsblk`: for five
seconds the answer of the commit's beginning.

**JobStore.** A job id is the clock reading of its start plus the suffix that made it unique. Each method of the store is one
step (one mutex); workers begin, run and report in their own time. "Expired" entries are pruned at any moment.

**HubUpdates.** One record per job: thread, helper, pipe, reader. The kill of a root helper is refused or not.

**VpnJob.** One job: the runtime under its mutex, one worker and one child per generation, callbacks of the sign-in window,
the Hub's main thread, the firewall's default zone. The child is `sudo openconnect`, so the kernel may refuse its kill; the
slot is then empty and the thread in `takenBy` waits until the child ends by itself. Reading the preset, calling
firewall-cmd and writing the status are three steps, a call that times out may have changed the zone, and a preset file that
cannot be read is "off". `revived` remembers that a sign-in restarted a disconnected job, `overwritten` the running children
another one replaced in the slot, `liftSkipped` that a release read "off" and left the present block in force.

**Guardian.** `gOp` is what each thread or process holds between its load and its save. Loads and saves may fail: a failed load
is an empty history, a check's and a dismissal's failed save is an error, a repair's is ignored. `gForgotten` collects the
records that were lost one by one: not saved, undone by a save of an older copy, or dropped by the cap. The properties are
about all others (section 4).

**SchedDaemon.** One action per poll with all its effects, the signals, the game, the loader and the children. Each setting is
read, written and restored by a call of its own, which may fail (`missed`); one without a value (`UnsetSettings`) is saved
empty, and `restore_state` skips it. `upset` remembers what spoils the saved copy as a whole.

## 3. Runs

| Run | Module, specification | Result | Shows |
|---|---|---|---|
| `machine` | MCMachine, MachineSpec | pass | safe-upgrade, watcher and red-boot hook with an administrator who repeats a rollback and one power loss, or one of the updaters with one who switches channels: the lock excludes (StagingExclusive), safe-upgrade's and the watcher's checks stay valid until used (ChecksStayValid), the file changes only by transactions (ImplementsCoordinator) |
| `install` | MCInstallDaemon, FairSpec | pass | two clients, six phases, two installations: StorageExclusive, TransactionAgrees, ImplementsSlot, and every installation ends (JobEnds) |
| `parts` | MCParts, PartsSpec | pass | five parts, see below |
| `records` | MCRecords, RecordsSpec | pass | three parts, see below |
| `services` | MCServices, ServicesSpec (fair) | pass | three parts, see below |
| `restage` | MCUpdateSafety | violation | the watcher alone updates; the tag moves between its check and its `bootc upgrade`: a quarantined digest is staged |
| `lock` | MCUpdateSafety | violation | the red-boot hook's `bootc rollback` runs outside the bootc lock |
| `powerloss` | MCUpdateSafety | violation | power lost between the quarantining transaction and the rollback: no later red boot rolls back |
| `hooks` | MCUpdateSafety | violation | the installed hooks judge a bad image green |
| `cancel` | MCInstallDaemon | violation | every supervisor numbers its job 1: a cancel of a finished installation stops the next |
| `shrink` | MCParts | violation | a retry in a live session without the ESP mounted reads an empty staging journal and shrinks Windows again |
| `vpn` | MCParts | violation | a worker that was told to stop still overwrites the final status of the disconnect |

The violations are the `findings` of `PROJECT.json`, each with the sentence of the documents or comments it contradicts.

**`parts`**
- *stream*: a stream that lags, breaks and reconnects across a truncated history and two installations (StreamInOrder).
- *journal*: five modes, ESP mounted or not, three attempts, two failing steps, one power loss, one corruption. Windows' file
  system never reaches past its partition and created partitions lie on nothing (LayoutSound = WindowsFits and
  PartitionsDisjoint); once Windows was touched the ESP says so, and image and configuration are journalled there
  (JournalIsDurable = ShrinkIsDurable and ImageIsDurable); a retry does not shrink twice unless an attempt was blind to the
  completion on the ESP (SightedShrinkOnce; the run `shrink` shows what a blind one does); a failed mutation is undone unless
  the undo failed (FailureUndone); completions survive merges (CompletionsKept).
- *editor*: up to three staged operations, two commits, two failures (tools, events, the daemon). A failure reported without
  the irreversible flag left the old table and cost only what a create overwrote or the shrink that stopped midway
  (RestoredOrFlagged); what validation accepts, execution can do (ValidatedRuns); root and mounts agree with the disk
  (CommitProjects = RootAgrees and ManualMountsProject).
- *tunnels*: a VPN job of four generations and two callbacks, any kill refused. A running child is in the slot or waited for,
  or was replaced there in a revived job, and a sign-in reconnects once (ConnectionAccounted = TunnelsReachable and
  SignInOnce); a late worker spares the newer child (NewestSpared).
- *lockdown*: the same with fail-closed on, three generations, one callback and one change of the choice. A blocked network
  does not stay reported as connected or complete, but for the block a silent release left (BlockIsReported).

**`records`**
- *coordinator*: five boots of two digests, reports at the default threshold of 3 and at 2, all transactions in all orders: a
  quarantine is earned by Threshold different boots (QuarantineEarned), the tally counts boots (TallyIsBootCount), and
  Threshold boots reported at the default quarantine whatever lower reports were refused in between (QuarantineComes); only
  forgiveness takes evidence (EvidenceKept).
- *jobs*: a store of three entries and four starts, two of them in one clock reading. The queue lists the tracked jobs and
  reports reach their own entry (StoreConsistent = QueueTracksJobs and OwnReports), a child nobody tracks has been signalled
  (UntrackedAreSignalled), a cancellation sticks (CancelSticks).
- *guardian*: a kyth-guardian process and two Hub threads, two recipes, four operations, loads and saves that fail: a repair
  runs alone in its process, on advice and after the cooldown of every repair on record (RepairsGuarded = OneRepairPerProcess,
  RepairsAreAdvised and RepairsSpaced), dismissals on record hold (DismissedStaysHidden).

**`services`**, under fairness
- *recovery*: a machine with two bad images and a good one, two failing rollbacks, ten boots, no power loss: quarantine brings a
  rollback attempt and a failed one is repeated (RollbackFollows = QuarantineTriggersRollback and FailedRollbackRetried),
  none happens twice (RollbackOnce), the bad image is left (BadImageAbandoned).
- *sched*: three events around the daemon (game, loader, configuration, signals, restart, failing calls), two settings, one
  without a value: the kernel ends with the wanted scheduler (SchedulerConverges), the user's settings come back
  (PerfRestored).
- *updates*: two jobs of four operations, one exit of the Hub: one helper at a time, whose job does not read as ended
  (HelperAccounted = OneHelper and EndedMeansStopped), the bar is about the current stage (BarIsCurrent), and the slot comes
  free (SlotComesFree).

Each of the three has one type invariant for its parts (PartsTypeOK, RecordsTypeOK, ServicesTypeOK); that of the editor
also says that an operation's index is unique.

**Bounds** are all in guards. Two digests suffice for "this one and another"; recovery has a third so that a rollback from
one bad image can land on a second. Threshold is the code's 3 everywhere but in `machine`, where it is 1 so that quarantine,
staging and checking meet within two boots; ten boots are three to quarantine each of two digests, three for failed attempts
and one to end on. `MaxHistory` stands for 1024: 7 holds the six phases and the ending (no truncation, as in the code), 2
makes the history drop events. `MaxJobs` = 2 is the least in which a request of one installation meets the next. Journal
sizes are units: Windows has room for one shrink of either size and for a second one that should not happen, and `Deltas` has
the minimum, which leaves too little beside a BIOS boot partition, and one more; three attempts are one that shrinks, one
that resumes and one that finds both. The editor's disk has a mounted ESP, two Linux partitions and a free tail; the requests
include one over a partition to be deleted, one in what a resize frees, and ones that must be refused; three operations are
enough for delete, create in its place, and mount. `MaxTracked` stands for 256, `MaxSameReading` is less than it because no
256 starts share a nanosecond. `HistoryCap` stands for 200 records, `PendingWindow` and `Cooldown` are short of the clock's
range so that both run out. `RetryPolls` and `CachePolls` keep the order of the defaults: the detector's cache (60 s, twelve
polls) outlasts the wait between retries (six polls). `PipeRoom` is smaller than `MaxLines` so that a pipe fills. A VPN job
has four generations in `tunnels`, where a connect, a disconnect, a revival and one more meet, and three in `lockdown`. Five
boots are three to quarantine a digest and two of another, or two refused ones, in between. Deadlock is checked in `install`;
the other systems stop at their bounds.

**Fairness.** *UpdateSafety*: greenboot's checks and hooks run to their end and a red boot is restarted (systemd,
greenboot-healthcheck.service); nothing is assumed of updates, administrators or restarts of a healthy machine.
*InstallDaemon*: a started worker's steps happen and its executor returns, and a start that claimed the slot goes on (the
kernel schedules threads); nothing is assumed of clients, streams, or who gets a contended mutex, which is why JobEnds is
about the slot and not about requests. *SchedDaemon*: the poll loop goes round (its sleep is bounded) and a
performance-mode child ends. *HubUpdates*: job threads and readers are scheduled, and a helper goes on as long as it can
print: a root helper that nobody kills ends by itself; nothing is assumed of the page. The loader's recovery is a premise
of SchedulerConverges, not fairness.

## 4. What the passing properties leave out

Found while choosing them; each is behaviour of the code that no document or comment contradicts, or that a property
states as its exception.

*Updates.* RollbackOnce needs one recorder per boot (as greenboot runs it); with two concurrent ones both may roll back, and
a power loss combined with failed rollbacks breaks it too. RollbackFollows needs more, because the file has one slot for the
last attempt. If an update leads from a failed rollback to a second bad image, the second one's note replaces the first's,
and the first is not tried again. If an image fails only now and then, a healthy boot forgives it but leaves the note of its
rollback, and the next quarantine of the same digest gets none. Both are premises of the theorem (section 5), not of the
code. safe-upgrade finalizes whatever is staged by then, outside the bootc lock; a SIGTERM that arrives as bootc ends is
reported as 'nothing was staged' although it is. `record-failure --threshold 2` (or 1) is accepted, and the report that
reaches it is refused by `invariants()`: a machine whose failures are only reported so stays one boot short (at none with 1)
and is never quarantined; QuarantineComes says that such reports cost later ones at the default nothing. A clear-quarantine
between a rollback and its note is undone by the note. BadImageAbandoned fails if an updater holds bootc at every red boot,
because status queries then answer nothing. A switch may stage the digest that is booted; should a safe-upgrade find it so
and clean, the boot's own failure can quarantine it before it is recorded and finalized (the exception in ChecksStayValid).

*Daemon.* StreamInOrder is about one installation: a stream that spans two keeps its cursor although ids restart at 1, and
may skip events or never close. `wait_for_events` holds the registry lock up to 15 seconds. After an accepted reboot the gate
is free again; a start may be accepted while the machine goes down.

*Executor.* `open_durable_journal` takes a failed probe for "no ESP mounted": a retry whose `findmnt` or `lsblk` fails is as
blind to the completion on the ESP as one in a live session that has not mounted it, and shrinks Windows again (`blind`;
the run `shrink`). Power lost between moving the boundary and recording `ntfs_shrink` as completed makes the retry shrink again.
`prepare_btrfs_target` mounts the new root over the staging journal before `ensure_esp_journal` reads it, so that an
alongside or manual installation in a live session without the ESP mounted fails there. It also takes its target from the
plan, which names none for free_space and resize_ntfs: those modes change the table and then fail. A shrink by exactly the
minimum on a disk without a BIOS boot partition fails after Windows was shrunk, for the 2 MiB come out of the freed region.
No property says that an installation succeeds; they say what is safe when it does not.

*Editor.* Validation reserves 1 MiB for the BIOS boot partition of a new gpt table, execution creates 2 (the exception in
ValidatedRuns). A shrink that is stopped midway (its timeout kills it) is reported as a failure without the irreversible
flag, and the table is restored over a file system nobody can read, although installer_journal.rs:1421-1423 calls a failed
shrink "zero mutation"; RestoredOrFlagged names the case. An event that cannot be written (`emit_event(...)?`) ends a commit
without restore and without flag, whatever was done; the reply is the bare error, and no property is about it. A committed
journal can be committed again and is executed again. A resize within five seconds of the commit's beginning believes the
cached file system, although its comment says it probes the live one; the tools then refuse. The rollback route clears the
staged operations and touches no disk.

*Guardian.* Load and save are locked one by one: a save may undo another process' dismissal or repair, and with it a
cooldown; a check that cannot load the file saves its advice over the whole history; a verified repair whose save fails
leaves no record and may run again inside its cooldown (`gForgotten`). The automatic fix of a check is tried before the
check's advice is saved and is therefore refused unless an earlier check advised it.

*Scheduler.* A `kyth-scx` that outlives its five seconds takes effect after it was reported as failed. A setting that had no
value before the game is saved empty and stays on the gaming value; so does one whose read, write or restore failed, and
`restore_state` removes its file all the same. Performance-mode children may overlap: one that saves while another restores,
or children that end out of order, leave the gaming settings, and so do a restart or a changed configuration during a game.
PerfRestored names these cases (`UnsetSettings`, `missed`, `upset`).

*Hub.* When the Hub dies its slot is free while the root helper still runs (OneHelper is about one life). A sign-in that
arrives after a disconnect revives the job, and at four generations one worker can then replace another's running child in
the slot (`overwritten`): that tunnel is lost. A refused kill of `sudo openconnect` leaves the tunnel up while the main
thread or the worker waits for it, although vpn.rs:534 wants that "no openconnect outlives its job". A release that finds
network.toml unreadable, or fail-closed switched off, leaves the zone on block and says nothing (`liftSkipped`), although
vpn.rs:1003 says "Clean user disconnect lifts any fail-closed lockdown". A job of the store that is evicted between its
registration and the lookup of its flag runs on with a flag nobody can set; `JobStore` makes the two one step.

## 5. Proofs

All for every value of the constants; the assumptions are the named ASSUMEs of the modules, evaluated by TLC in every run
that extends them: names are distinct from the values that mean "none" or "free", thresholds, bounds and limits are
numbers (the ones the code divides by or keeps at least one of are positive), sets of recipes are finite, PHASES is a
nonempty sequence with "complete" last and only last, a requested shrink is at least the minimum the planner accepts, fewer
starts share a clock reading than the job store holds, and the editor begins with a disk as `lsblk` lists it (finitely many
partitions, each number once, without overlap, within a disk that has room for a BIOS boot partition) and typed requests.

| Module | Theorem | States |
|---|---|---|
| UpdateCoordinatorProofs | `TypeCorrect` | []TypeOK |
| | `QuarantineIsEarned` | []QuarantineEarned, whatever thresholds callers ask for |
| | `EvidenceIsKept` | EvidenceKept |
| | `TallyCorrect` | []TallyIsBootCount, whatever thresholds callers ask for |
| | `QuarantineArrives` | []QuarantineComes, of DueSpec |
| UpdateSafetyProofs | `MachineImplementsCoordinator` | the machine refines UpdateCoordinator |
| | `MachineQuarantineEarned`, `MachineEvidenceKept` | the coordinator's properties, carried over to the machine |
| | `MachineTypeCorrect` | []TypeOK |
| | `BootcLockExcludes` | []StagingExclusive |
| | `ChecksRemainValid` | []ChecksStayValid |
| | `RollsBackOnce` | []RollbackOnce, if GreenbootAlone |
| | `RollbackFollowsQuarantine` | []RollbackFollows, if GreenbootAlone and RetriesKept |
| InstallDaemonProofs | `DaemonTypeCorrect` | []TypeOK |
| | `StorageIsExclusive` | []StorageExclusive |
| | `TransactionIsRight` | []TransactionAgrees |
| | `StreamsInOrder` | StreamInOrder |
| | `DaemonImplementsSlot` | the daemon refines InstallSlot |
| InstallJournalProofs | `JournalTypeCorrect` | []JournalTypeOK |
| | `LayoutStaysSound` | []LayoutSound |
| | `JournalStaysDurable` | []JournalIsDurable |
| | `SightedShrinksOnce` | []SightedShrinkOnce |
| | `FailuresUndone` | []FailureUndone |
| | `CompletionsAreKept` | CompletionsKept |
| EditorProofs | `EditorTypeCorrect` | []EditorTypeOK |
| | `ValidationHolds` | []ValidatedRuns |
| | `CommitsProject` | []CommitProjects |
| | `FailureRestores` | []RestoredOrFlagged |
| HubProofs | `HubTypeCorrect`, `VpnTypeCorrect` | types of HubUpdates and of VpnJob |
| | `HelperIsAccounted` | []HelperAccounted |
| | `BarStaysCurrent` | []BarIsCurrent |
| | `ConnectionsAccounted` | []ConnectionAccounted |
| | `BlocksAreReported` | []BlockIsReported |
| | `NewestIsSpared` | NewestSpared |
| ServiceProofs | `GuardianTypeCorrect`, `SchedTypeCorrect` | types of Guardian and of SchedDaemon |
| | `RepairsStayGuarded` | []RepairsGuarded |
| | `DismissalsHold` | []DismissedStaysHidden |
| | `SettingsComeBack` | []PerfRestored |
| | `StoreTypeCorrect` | []JobTypeOK |
| | `StoreIsConsistent` | []StoreConsistent |
| | `UntrackedSignalled` | []UntrackedAreSignalled |
| | `CancellationSticks` | CancelSticks |

Each safety theorem follows from an inductive invariant. Why the properties are not inductive, and
what the invariants add:

*UpdateCoordinator.* Nothing in QuarantineEarned bounds the tally. `IInv` adds that the tally is covered by reported boots
other than an unrecorded current one, that a quarantine record is within the tally, that reported boots are not in the
future, and that the remembered boot id, if current, belongs to the booted digest - the reason why remembering one boot is
enough. `ExactInv` adds the opposite inclusion for TallyCorrect. `DueInv`, for QuarantineArrives, relates the two histories:
every boot reported at the default threshold is on file (DueCovered). A report at the default is never refused, a refused
one changes nothing, and one that is taken for a repetition was counted: the mark of the last failed boot is backed by a
boot on file or by a digest forgiven in this boot (MarkBacked).

*UpdateSafety.* `ProgramInv`: where each program is and that what it carries into a transaction is a digest (without which a
step would not be one of the coordinator's); a program inside its bootc call holds the lock; and the watcher hands bootc no
digest that is booted. The last is the reason behind ChecksStayValid: a red boot judges the booted digest only, so it cannot
judge the one the watcher found clean, nor the one safe-upgrade did unless it is the booted one, which only a switch stages.
One lemma per program names the coordinator's step it takes or shows that it stutters; the coordinator's theorems then hold
of the machine through the INSTANCE.

*UpdateSafety, rollbacks.* Both theorems have premises, which are the situation greenboot makes and the instance of the run
`services`. `GreenbootAlone`: one recorder, no administrator, no power loss. `RetriesKept`: an image is bad at every boot or
at none, and, where an updater can move the machine, there is one bad image; with any number of bad images and no updater it
holds. TLC finds a counterexample when either part is dropped. RollbackOnce says nothing of the file; `OnceInv` adds
that a digest rolled back from stays quarantined and that no note of a failed attempt for it is in the file, so that
`rollback_retry_due` is false. `RecorderInv` and `ThisReport` say that nothing moved the file between a hook's reading and its
transaction. `FollowsInv` accounts for every quarantine: it had its attempt or the hook is on its way to it
(AttemptsFollow), and what failed is in the slot of the last attempt or about to be noted there.

*InstallDaemon.* StorageExclusive looks at the worker only when a route checks, so the invariant must say why nobody
starts between check and act. `IInv` (in `InstallDaemon`) adds: who is between a lock and its unlock holds it (LocksHeld);
only the newest supervisor has a worker, and the registry knows it unless a start is still under way (NewestRuns); a start
refers to that supervisor (StartsNewest); a worker ends as cancelled only after an accepted request (CancelAccepted).
`WorkerStep` reduces the worker's eight actions to one shape: it goes on without touching the cancellation, or ends in a way
the cancellation allows. `TxInv` follows the transaction file from the start of an installation: while its worker is active
it says what the worker's place implies (TxFollows), and no file is about a supervisor that does not exist yet. `StreamInv`
says that the ids of a history are consecutive and end at the last id given out, and that what a stream holds is a run of
such ids that begins after the last one it sent; the lemmas about `EventsAfter` give the first id of a replay.

*InstallSlot.* `EndsRecorded` (the last event of an ended installation is its ending) makes the outcome well defined;
`SlotUpdate` says what the change of one supervisor does to the mapping; one `...Slot` lemma per action then names the step
of InstallSlot it is, and the rest stutter.

*InstallJournal.* `JournalInv` has one part per property. LayoutInv: the backup is itself a sound table and has no less room
for Windows, so restoring it is safe at any point; the file system is small enough before the boundary moves. DurableInv: a
step that needs the ESP finds the journal there, and a wipe never enters the table mutation. ShrinkInv: unless an attempt was
blind, Windows has its original size, or a request's size and the completion is on the ESP, and up to the resume guard a
journal below the staging mount misses no completion of the ESP's (Sees). UndoneInv: outside the guard an uncommitted table is
its backup. The lemmas about `merge_journal_states` (the merge contains the completions of both files) carry
CompletionsKept.

*PartitionEditor.* Validation and execution are two programs over the same operations, so the invariants relate them after
each one. `EditorInv`: while operation k is executed the disk is what the allocation map after k - 1 operations says
(`Match`): kept partitions are the same in both, and a created one lies where the map has its key, except where a new gpt
table took more than validation reserved. A check that validation made of the map is then one of the disk, which is
ValidatedRuns. `MountInv`: the mount points the journal assigns and the ones validation counted are about the same
partitions, a key of the map standing for the number the created partition got; with every executed create still on the disk
this gives CommitProjects. `LossInv` is needed because a committed journal can be committed again: its creates then carry the
numbers and the `created` flags of the earlier commit, and a format that takes such a number for a new partition is not
flagged. `StaleInv` says that the numbers recorded are the ones another commit gives out again, in order, as long as no
create before them was skipped; `FreshInv` says where every partition on the disk comes from; so what an unflagged format
hits lies where a create was staged (LossExplained), as RestoredOrFlagged allows; a shrink that stopped midway is the failing
operation itself. TLC checked the three on smaller instances before they were proved.

*JobStore.* Reports reach their own entry although ids are clock readings: `JobInv` says that a worker that may still report
under a tracked id is that entry's own (WritersOwn), that readings grow, and that while a start may still read the same time
every unfinished worker of this reading is tracked as running, so that its id cannot be given away (ReadingTracked; it is
here that `MaxSameReading` must be less than `MaxTracked`). The queue is the tracked ids in the order of their starts, which
is what makes the eviction take the oldest.

*HubUpdates.* `HubInv`: only the newest job has a thread and that thread holds the slot, so that a helper alive means a slot
taken; an active bar is about the newest job, a stage that has not yet set it idle.

*VpnJob.* `VpnInv`: generations not reached have no worker; the child in the slot has a worker that reads it (SlotSound);
before the first disconnect one callback reconnects, after the first worker spawned, and no child runs when it launches the
second (FirstSignIn), because one whose kill was refused is the one it waits for (EarlyChildren); unless the job was revived,
a worker about to spawn is the only one and no child runs (SpawnsAlone), so that nothing is replaced in the slot; reconnects
are owed to a claim of the cookie or to a claim a disconnect gave back (ClaimsCounted). The invariant was checked with four
generations and three callbacks before it was proved.

*Guardian.* `GuardianInv` relates three places: the file, what an operation holds between its load and its save, and when
each recipe was last advised, repaired and dismissed (history variables). The file holds every verified repair and last
dismissal that was not lost (Remembered), and a running repair is spaced from each of those repairs (Spaced). Coalescing
keeps the newest record of each kind, which is why it loses none of this. A repair's end is trimmed to the cap before it is
coalesced, and the records that costs count as lost too. In the code the cap is 200.

*SchedDaemon.* `PerfInv`: unless `upset`, the daemon's view of the option is the file's, and every setting that had a value and
was not missed is in the saved copy during a game and until the restore has run, and in place otherwise; the commands
in flight are those of one game.

*Recursion.* The library's induction theorems take an operator as a parameter, which none of the provers instantiates.
`Induction` states induction for sets of numbers instead (a nonempty set of naturals has a least element, by the library's
well-foundedness of <), and that a function given by a first value and a step exists (`RecursionRuns`). The merge of two
journals, the replay of events, the coalescing of records and the editor's accounts and mount points are recursive functions
for that reason, and what the proofs need of them is proved for sequences of every length.

*Only model-checked:*
- liveness (JobEnds, BadImageAbandoned, SchedulerConverges, SlotComesFree): fairness and ENABLED are beyond the prover;
- PartsTypeOK, RecordsTypeOK, ServicesTypeOK as such: they are the conjunctions of the modules' type invariants, each of
  which is proved in its module.

## 6. Not modelled

- HTTP parsing, authentication and read-only routes; messages, reasons and time stamps; progress parsing of bootc; the
  contents of the transaction file; firmware, flatpaks, notifications.
- Installer planning, disks, guards and mounts: command lines, parsing of `lsblk` and `parted`, checks of a request before
  the first step. The executor's preflight checks, image verification, encryption and the contents of the configuration.
- `installer_runtime.rs` serves read-only routes; its claims have no caller outside tests.
- The editor's backup on external media; device names (a partition is its number).
- The VPN's store of jobs (live-gateway guards, cap and reaping, the errors of connect), profiles and command lines.
- The boot id `unknown` of a machine without `/proc/sys/kernel/random/boot_id` (boot_health_bin.rs:40): every boot of the
  model has an id of its own.
- `privileged.rs`: each request is checked against credentials and an allow-list and answered on its own.
- `compare_image_versions`: UpdateSafety takes the order as a constant relation, so its properties hold for every order.
- `tunable_bin.rs`, `runtime_bin.rs` (but for the greenboot hooks), `setup_transfer`: one-shot commands that write settings.
- The process runner (`system/process.rs`) is modelled by what its callers use of it.
- User interfaces, the retired Python trees, image build, CI and vendored code.

## 7. State of the project

Modelled, checked and proved: the updates (`BootHealth`, `UpdateCoordinator`, `UpdateSafety`), the installer (`InstallJob`,
`InstallSlot`, `InstallDaemon`, `InstallJournal`, `PartitionEditor`) and the desktop services (`JobStore`, `HubUpdates`,
`VpnJob`, `Guardian`, `SchedDaemon`). Candidates for an extension are the VPN's store of jobs, where a job marked as failed
while its child still runs can be reaped at the cap, and a model of power loss in the editor's commit, whose backup is on
external media.

---------------------------- MODULE UpdateSafety ----------------------------
(***************************************************************************)
(* Health-aware updates of a KythOS machine: the programs that stage,      *)
(* judge and roll back deployments, running side by side on one machine    *)
(* over several boots.                                                     *)
(*                                                                         *)
(*   kyth-safe-upgrade    (safe_upgrade_bin.rs)     variable su            *)
(*   kyth-update-watcher  (update_watcher_bin.rs)   variable wt            *)
(*   kyth-bootc-guard switch (bootc_guard.rs)       variable sw            *)
(*   kyth-boot-health record-failure / mark-healthy / clear-quarantine /   *)
(*     retry-rollback     (boot_health_bin.rs)      variables rec, adm     *)
(*                                                                         *)
(* They share boot-health.json (every change of it is a transaction of     *)
(* UpdateCoordinator), the bootc lock /run/kyth-bootc.lock and bootc's     *)
(* deployments.  bootc, ostree, greenboot and the registry are external:   *)
(* modelled from how the code calls them.                                  *)
(***************************************************************************)
EXTENDS BootHealth, FiniteSets

CONSTANTS
    Thresholds, Channel, MaxBoots,   \* of UpdateCoordinator
    Bad,          \* images that always fail the required checks
    Flaky,        \* images that sometimes fail them
    Older,        \* pairs <<d, e>>: d has an older version than e
    AllowDowngrade,  \* what auto_update.allow_downgrade may be set to
    RingConfig,   \* rollout_ring of auto-update.toml, or "missing"
    HooksWired,   \* TRUE: greenboot's hooks call kyth-boot-health, as documented
                  \* FALSE: they run kyth-runtime greenboot-*, as installed
    Recorders,    \* concurrent kyth-boot-health record-failure commands
    Updaters,     \* which of the staging programs run
    AdminActs,    \* whether an administrator clears and retries
    MaxFaults,    \* bound: bootc rollback commands that fail
    MaxPowerLoss  \* bound: power losses

ASSUME CoordinatorAssumption ==
    Thresholds \subseteq Nat \ {0} /\ Channel \in Rings /\ MaxBoots \in Nat
ASSUME ImagesAssumption == Bad \subseteq Digests /\ Flaky \subseteq Digests
ASSUME BoundsAssumption == MaxFaults \in Nat /\ MaxPowerLoss \in Nat
ASSUME SwitchesAssumption ==
    HooksWired \in BOOLEAN /\ AdminActs \in BOOLEAN /\ AllowDowngrade \subseteq BOOLEAN

VARIABLES
    health, boot, booted, failedBoots,   \* of UpdateCoordinator
    next,         \* deployment the boot loader starts next
    prev,         \* rollback deployment, or NoDigest
    staged,       \* staged deployment, or NoDigest
    remote,       \* digest the registry tag points to
    lock,         \* holder of /run/kyth-bootc.lock, or "free"
    verdict,      \* greenboot's verdict on this boot: "none", "red", "green"
    su, wt, sw, rec, adm,   \* the programs: pc and local variables
    attempt,      \* history: last rollback attempt of the recorder per digest,
                  \* since the digest was last forgiven
    faults, losses          \* spent bounds

coordVars == <<health, boot, booted, failedBoots>>
bootcVars == <<next, prev, staged, remote>>
progVars  == <<su, wt, sw, rec, adm>>
envVars   == <<verdict, faults, losses>>
vars == <<coordVars, bootcVars, progVars, envVars, lock, attempt>>

Coordinator == INSTANCE UpdateCoordinator

NoAttempt == [outcome |-> "none", boot |-> NoBoot, rollbacks |-> 0]
SuIdle  == [pc |-> "idle", seen |-> NoDigest]
WtIdle  == [pc |-> "idle", seen |-> NoDigest, remote |-> NoDigest]
RecIdle == [pc |-> "idle", before |-> DefaultState]
AdmIdle == [pc |-> "idle", digest |-> NoDigest]

Init ==
    /\ Coordinator!Init
    /\ next = booted
    /\ prev \in (Digests \cup {NoDigest}) \ {booted}
    /\ staged = NoDigest
    /\ remote \in Digests
    /\ lock = "free"
    /\ verdict = "none"
    /\ su = SuIdle /\ wt = WtIdle /\ sw = "idle"
    /\ rec = [p \in Recorders |-> RecIdle]
    /\ adm = AdmIdle
    /\ attempt = [d \in Digests |-> NoAttempt]
    /\ faults = 0 /\ losses = 0

-----------------------------------------------------------------------------
(* External: bootc and ostree                                              *)

\* `bootc upgrade` stages the image of the tracked tag unless it is booted.
BootcStage(d) == staged' = IF d = booted THEN staged ELSE d

\* `ostree admin finalize-staged` makes the staged deployment the default.
FinalizeStaged ==
    /\ staged # NoDigest
    /\ next' = staged
    /\ staged' = NoDigest

\* `bootc rollback` queues the rollback deployment.  Whether a staged update
\* is dropped by it is left open.
BootcRollback ==
    /\ prev # NoDigest
    /\ next' = prev
    /\ staged' \in {staged, NoDigest}

\* `bootc rollback` fails: nothing to roll back to, or any other error.
BootcRollbackFails ==
    /\ \/ prev = NoDigest /\ faults' = faults
       \/ faults < MaxFaults /\ faults' = faults + 1
    /\ UNCHANGED <<next, staged>>

-----------------------------------------------------------------------------
(* with_bootc_lock: a non-blocking exclusive flock                         *)

\* Mutated form: the flock is not exclusive.
AcquireShared(p) == lock' = p

Acquire(p) == lock = "free" /\ lock' = p
Busy(p) == lock # "free" /\ lock # p
Release(p) == lock = p /\ lock' = "free"

\* active_operation(): ps shows a mutating bootc command.  While it does,
\* fetch_status_data() answers nothing to anyone.
BootcActive ==
    \/ lock # "free"
    \/ \E p \in Recorders : rec[p].pc = "rollback"
    \/ adm.pc = "rollback"

-----------------------------------------------------------------------------
(* kyth-safe-upgrade                                                       *)

SuDone == su' = SuIdle
SuGoto(pc) == su' = [su EXCEPT !.pc = pc]
SuFrame == UNCHANGED <<coordVars, envVars, wt, sw, rec, adm, attempt, prev, remote>>

\* The ring safe-upgrade enforces: a missing setting keeps the last known one.
SuRing == IF RingConfig = "missing" THEN health.rollout_ring ELSE RingConfig

\* fetch_status_data(): the staged digest before anything runs.
SuBegin ==
    /\ "safe-upgrade" \in Updaters
    /\ su.pc = "idle"
    /\ ~BootcActive
    /\ su' = [su EXCEPT !.pc = "gate", !.seen = staged]
    /\ SuFrame /\ UNCHANGED <<next, staged, lock>>

\* Reasons to stop before touching bootc: ring policy, a quarantined staged
\* image, a bootc process already running.
SuBlocked(d) ==
    \/ RolloutBlocks(Channel, SuRing)
    \/ Quarantined(health, d)
    \/ BootcActive

\* The battery gate and the free-space checks may stop it at any time.
SuGate ==
    /\ su.pc = "gate"
    /\ \/ SuDone
       \/ ~SuBlocked(su.seen) /\ SuGoto("lock")
    /\ SuFrame /\ UNCHANGED <<next, staged, lock>>

SuLock ==
    /\ su.pc = "lock"
    /\ \/ Acquire("safe-upgrade") /\ SuGoto("bootc")
       \/ Busy("safe-upgrade") /\ UNCHANGED lock /\ SuDone
    /\ SuFrame /\ UNCHANGED <<next, staged>>

\* The bootc child ends: it succeeds, fails, times out or is terminated.  A
\* child that is killed, and one that SIGTERM finds completed, may have staged
\* the image although the command reports that nothing was staged.
SuBootc ==
    /\ su.pc = "bootc"
    /\ Release("safe-upgrade")
    /\ \/ BootcStage(remote) /\ SuGoto("verify")
       \/ (BootcStage(remote) \/ UNCHANGED staged) /\ SuDone
    /\ SuFrame /\ UNCHANGED next

\* fetch_status_data() again: what is staged now, after the lock is gone.
SuVerify ==
    /\ su.pc = "verify"
    /\ CASE BootcActive -> SuDone
         [] ~BootcActive /\ staged = NoDigest -> SuDone
         [] OTHER -> su' = [su EXCEPT !.pc = "check", !.seen = staged]
    /\ SuFrame /\ UNCHANGED <<next, staged, lock>>

\* validate_post_upgrade_state and validate_not_downgrade: a refusal returns
\* at once and leaves the image staged.  auto_update.allow_downgrade, read from
\* the configuration file at this very moment, permits an older image.
SuRefuses(d, allow_downgrade) ==
    Quarantined(health, d) \/ (<<d, booted>> \in Older /\ ~allow_downgrade)

SuCheck ==
    /\ su.pc = "check"
    /\ \E allow_downgrade \in AllowDowngrade :
          IF SuRefuses(su.seen, allow_downgrade) THEN SuDone ELSE SuGoto("record")
    /\ SuFrame /\ UNCHANGED <<next, staged, lock>>

SuRecord ==
    /\ su.pc = "record"
    /\ Coordinator!RecordStaged(su.seen)
    /\ SuGoto("finalize")
    /\ UNCHANGED <<envVars, wt, sw, rec, adm, attempt, bootcVars, lock>>

\* finalize_staged(false), outside the bootc lock; it promotes whatever is
\* staged by then.  /var/cache may be full, and ostree may fail.
SuFinalize ==
    /\ su.pc = "finalize"
    /\ \/ FinalizeStaged /\ SuDone
       \/ UNCHANGED <<next, staged>> /\ SuDone
    /\ SuFrame /\ UNCHANGED lock

SafeUpgrade ==
    \/ SuBegin \/ SuGate \/ SuLock \/ SuBootc
    \/ SuVerify \/ SuCheck \/ SuRecord \/ SuFinalize

-----------------------------------------------------------------------------
(* kyth-update-watcher                                                     *)

WtGoto(pc) == wt' = [wt EXCEPT !.pc = pc]
WtFrame == UNCHANGED <<coordVars, envVars, su, sw, rec, adm, attempt,
                       next, prev, remote>>

\* Unlike safe-upgrade, a missing setting means follow-image.
WtRing == IF RingConfig = "missing" THEN "follow-image" ELSE RingConfig

\* A run of the timer that no skip reason stops reads the status and passes
\* the ring policy.
WtBegin ==
    /\ "watcher" \in Updaters
    /\ wt.pc = "idle"
    /\ ~BootcActive
    /\ ~RolloutBlocks(Channel, WtRing)
    /\ wt' = [pc |-> "probe", seen |-> staged, remote |-> NoDigest]
    /\ WtFrame /\ UNCHANGED <<staged, lock>>

\* The registry probe answers, or fails and the run ends in an error.
WtProbe ==
    /\ wt.pc = "probe"
    /\ \/ wt' = [wt EXCEPT !.pc = "gate", !.remote = remote]
       \/ wt' = WtIdle
    /\ WtFrame /\ UNCHANGED <<staged, lock>>

\* Mutated form: a probed digest is not looked up in the quarantine.
WtSkipsBlind(d) == d = booted \/ d = wt.seen

\* The probed digest is quarantined, booted or staged already.
WtSkips(d) == Quarantined(health, d) \/ d = booted \/ d = wt.seen

WtGate ==
    /\ wt.pc = "gate"
    /\ (IF WtSkips(wt.remote) THEN wt' = WtIdle ELSE WtGoto("lock"))
    /\ WtFrame /\ UNCHANGED <<staged, lock>>

WtLock ==
    /\ wt.pc = "lock"
    /\ \/ Acquire("watcher") /\ WtGoto("bootc")
       \/ Busy("watcher") /\ UNCHANGED lock /\ wt' = WtIdle
    /\ WtFrame /\ UNCHANGED staged

\* bootc resolves the tag again: what it stages is what the tag names now.  A
\* bootc that fails or is killed on timeout may have staged it all the same.
WtBootc ==
    /\ wt.pc = "bootc"
    /\ Release("watcher")
    /\ \/ BootcStage(remote) /\ WtGoto("reread")
       \/ (BootcStage(remote) \/ UNCHANGED staged) /\ wt' = WtIdle
    /\ WtFrame

\* The staged digest, or the probed one when the status cannot be read.
WtReread ==
    /\ wt.pc = "reread"
    /\ wt' = [wt EXCEPT !.pc = "record",
                        !.seen = IF BootcActive \/ staged = NoDigest
                                 THEN wt.remote ELSE staged]
    /\ WtFrame /\ UNCHANGED <<staged, lock>>

WtRecord ==
    /\ wt.pc = "record"
    /\ Coordinator!RecordStaged(wt.seen)
    /\ wt' = WtIdle
    /\ UNCHANGED <<envVars, su, sw, rec, adm, attempt, bootcVars, lock>>

Watcher ==
    WtBegin \/ WtProbe \/ WtGate \/ WtLock \/ WtBootc \/ WtReread \/ WtRecord

-----------------------------------------------------------------------------
(* kyth-bootc-guard switch: stage and finalize, all under the lock         *)

SwFrame == UNCHANGED <<coordVars, envVars, su, wt, rec, adm, attempt, prev, remote>>

SwLock ==
    /\ "switch" \in Updaters
    /\ sw = "idle"
    /\ Acquire("switch")
    /\ sw' = "bootc"
    /\ SwFrame /\ UNCHANGED <<next, staged>>

\* The other channel's image is staged, or the switch fails.  Two channels may
\* name one digest: the booted one is then staged under its new reference.
SwBootc ==
    /\ sw = "bootc"
    /\ staged' \in Digests \cup {staged}
    /\ \/ staged' # NoDigest /\ sw' = "finalize" /\ UNCHANGED lock
       \/ sw' = "idle" /\ Release("switch")
    /\ SwFrame /\ UNCHANGED next

SwFinalize ==
    /\ sw = "finalize"
    /\ Release("switch")
    /\ sw' = "idle"
    /\ FinalizeStaged \/ UNCHANGED <<next, staged>>
    /\ SwFrame

Switch == SwLock \/ SwBootc \/ SwFinalize

-----------------------------------------------------------------------------
(* kyth-boot-health                                                        *)

RecGoto(p, pc) == rec' = [rec EXCEPT ![p] = [RecIdle EXCEPT !.pc = pc]]
RecFrame == UNCHANGED <<verdict, losses, su, wt, sw, adm, prev, remote, lock>>

\* record-failure: current_digest(), then a read outside any lock.  When the
\* status cannot be read the command fails and records nothing.
RecBegin(p) ==
    /\ verdict = "red"
    /\ rec[p].pc = "idle"
    /\ IF BootcActive
       THEN RecGoto(p, "done")
       ELSE rec' = [rec EXCEPT ![p] = [pc |-> "read", before |-> health]]
    /\ RecFrame /\ UNCHANGED <<coordVars, next, staged, faults, attempt>>

\* Mutated form: the transition is applied to the state read before the lock.
RecTransactionStale(p) ==
    /\ rec[p].pc = "read"
    /\ \E t \in Thresholds :
        LET updated == record_failure(rec[p].before, booted, boot, t)
        IN  /\ health' = updated
            /\ Coordinator!CountFailure(t)
            /\ RecGoto(p, IF rollback_retry_due(rec[p].before, updated, booted)
                          THEN "rollback" ELSE "done")
    /\ RecFrame /\ UNCHANGED <<boot, booted, next, staged, faults, attempt>>

\* The transaction, and the decision of maybe_rollback on its result.
RecTransaction(p) ==
    /\ rec[p].pc = "read"
    /\ \E t \in Thresholds :
        LET updated == record_failure(health, booted, boot, t)
        IN  /\ Coordinator!RecordFailure(t)
            /\ RecGoto(p, IF /\ Valid(updated)
                             /\ rollback_retry_due(rec[p].before, updated, booted)
                          THEN "rollback" ELSE "done")
    /\ RecFrame /\ UNCHANGED <<next, staged, faults, attempt>>

\* History of an attempt.
Attempted(outcome) ==
    attempt' = [attempt EXCEPT ![booted] =
        [outcome   |-> outcome,
         boot      |-> boot,
         rollbacks |-> IF outcome = "ok" THEN @.rollbacks + 1 ELSE @.rollbacks]]

\* `bootc rollback`, without the bootc lock.
RecRollback(p) ==
    /\ rec[p].pc = "rollback"
    /\ \/ BootcRollback /\ UNCHANGED faults
          /\ RecGoto(p, "note_ok") /\ Attempted("ok")
       \/ BootcRollbackFails /\ RecGoto(p, "note_failed") /\ Attempted("failed")
    /\ RecFrame /\ UNCHANGED coordVars

RecNote(p) ==
    /\ rec[p].pc \in {"note_ok", "note_failed"}
    /\ Coordinator!NoteRollbackAttempted(booted, rec[p].pc = "note_failed")
    /\ RecGoto(p, "done")
    /\ RecFrame /\ UNCHANGED <<next, staged, faults, attempt>>

Recorder(p) == RecBegin(p) \/ RecTransaction(p) \/ RecRollback(p) \/ RecNote(p)

Forgive(d) == attempt' = [attempt EXCEPT ![d] = NoAttempt]

\* mark-healthy.
MarkHealthy ==
    /\ verdict = "green"
    /\ HooksWired
    /\ ~BootcActive
    /\ Coordinator!MarkHealthy
    /\ Forgive(booted)
    /\ UNCHANGED <<envVars, progVars, bootcVars, lock>>

ClearQuarantine(d) ==
    /\ AdminActs
    /\ Coordinator!ClearQuarantine(d)
    /\ Forgive(d)
    /\ UNCHANGED <<envVars, progVars, bootcVars, lock>>

\* retry-rollback, in its four steps.
AdmFrame == UNCHANGED <<verdict, losses, su, wt, sw, rec, attempt,
                        prev, remote, lock>>

AdmBegin(d) ==
    /\ AdminActs
    /\ adm.pc = "idle"
    /\ Quarantined(health, d)
    /\ adm' = [pc |-> "release", digest |-> d]
    /\ AdmFrame /\ UNCHANGED <<coordVars, next, staged, faults>>

AdmRelease ==
    /\ adm.pc = "release"
    /\ Coordinator!ReleaseRollbackSlot(adm.digest)
    /\ adm' = [adm EXCEPT !.pc = "rollback"]
    /\ AdmFrame /\ UNCHANGED <<next, staged, faults>>

AdmRollback ==
    /\ adm.pc = "rollback"
    /\ \/ BootcRollback /\ UNCHANGED faults /\ adm' = [adm EXCEPT !.pc = "note_ok"]
       \/ BootcRollbackFails /\ adm' = [adm EXCEPT !.pc = "note_failed"]
       \/ BootcRollbackFails /\ adm' = AdmIdle   \* could not run: no note
    /\ AdmFrame /\ UNCHANGED coordVars

AdmNote ==
    /\ adm.pc \in {"note_ok", "note_failed"}
    /\ Coordinator!NoteRollbackAttempted(adm.digest, adm.pc = "note_failed")
    /\ adm' = AdmIdle
    /\ AdmFrame /\ UNCHANGED <<next, staged, faults>>

Admin ==
    \/ \E d \in Digests : ClearQuarantine(d) \/ AdmBegin(d)
    \/ AdmRelease \/ AdmRollback \/ AdmNote

-----------------------------------------------------------------------------
(* The machine                                                             *)

\* The required checks.  The installed hook always reports success.
Greenboot ==
    /\ verdict = "none"
    /\ \/ verdict' = "green" /\ (HooksWired => booted \notin Bad)
       \/ verdict' = "red" /\ HooksWired /\ booted \in Bad \cup Flaky
    /\ UNCHANGED <<coordVars, bootcVars, progVars, lock, attempt, faults, losses>>

\* A new boot of d: every program dies with the old one, and so does the lock.
StartBoot(d) ==
    /\ Coordinator!Boot(d)
    /\ next' = d
    /\ prev' = IF d # booted THEN booted ELSE prev
    /\ staged' = NoDigest
    /\ lock' = "free"
    /\ verdict' = "none"
    /\ su' = SuIdle /\ wt' = WtIdle /\ sw' = "idle"
    /\ rec' = [p \in Recorders |-> RecIdle]
    /\ adm' = AdmIdle
    /\ UNCHANGED <<remote, attempt, faults>>

\* A restart runs ostree's shutdown hook, which finalizes a staged deployment
\* or drops it.  Greenboot restarts a red boot once its hooks have run.
Reboot ==
    /\ \/ verdict = "green"
       \/ verdict = "red" /\ \A p \in Recorders : rec[p].pc = "done"
    /\ StartBoot(next) \/ (staged # NoDigest /\ StartBoot(staged))
    /\ UNCHANGED losses

\* Power loss: the staged deployment lives in /run and is gone.
PowerLoss ==
    /\ losses < MaxPowerLoss
    /\ losses' = losses + 1
    /\ StartBoot(next)

\* The registry tag moves.
Publish ==
    /\ \E d \in Digests \ {remote} : remote' = d
    /\ UNCHANGED <<coordVars, progVars, envVars, next, prev, staged, lock, attempt>>

Next ==
    \/ SafeUpgrade \/ Watcher \/ Switch
    \/ \E p \in Recorders : Recorder(p)
    \/ MarkHealthy
    \/ Admin
    \/ Greenboot \/ Reboot \/ PowerLoss \/ Publish

Spec == Init /\ [][Next]_vars

\* Greenboot's hooks run to the end and a red boot is restarted: systemd and
\* greenboot-healthcheck.service.  Nothing is assumed of updates, of the
\* administrator or of a healthy machine being restarted.
Fairness ==
    /\ WF_vars(Greenboot)
    /\ \A p \in Recorders : WF_vars(Recorder(p))
    /\ WF_vars(verdict = "red" /\ Reboot)

FairSpec == Spec /\ Fairness

-----------------------------------------------------------------------------

Staging == {"safe-upgrade", "watcher", "switch"}
MaybeDigest == Digests \cup {NoDigest}

\* Every program is at one of its steps and holds digests where it should; a
\* digest safe-upgrade checks and records is never the empty string.
TypeOK ==
    /\ Coordinator!TypeOK
    /\ next \in Digests /\ remote \in Digests
    /\ prev \in MaybeDigest /\ staged \in MaybeDigest
    /\ lock \in Staging \cup {"free"}
    /\ verdict \in {"none", "red", "green"}
    /\ su \in [pc : {"idle", "gate", "lock", "bootc", "verify", "check",
                     "record", "finalize"},
               seen : MaybeDigest]
    /\ su.pc \in {"check", "record", "finalize"} => su.seen \in Digests
    /\ wt \in [pc : {"idle", "probe", "gate", "lock", "bootc", "reread", "record"},
               seen : MaybeDigest, remote : MaybeDigest]
    /\ sw \in {"idle", "bootc", "finalize"}
    /\ rec \in [Recorders -> [pc : {"idle", "read", "rollback", "note_ok",
                                    "note_failed", "done"},
                              before : HealthState]]
    /\ adm \in [pc : {"idle", "release", "rollback", "note_ok", "note_failed"},
                digest : MaybeDigest]
    /\ attempt \in [Digests -> [outcome : {"none", "ok", "failed"},
                                boot : Nat, rollbacks : Nat]]
    /\ faults \in Nat /\ losses \in Nat

InBootc(p) ==
    \/ p = "safe-upgrade" /\ su.pc = "bootc"
    \/ p = "watcher" /\ wt.pc = "bootc"
    \/ p = "switch" /\ sw \in {"bootc", "finalize"}

\* with_bootc_lock: a program inside its bootc call holds the lock, so no two
\* of the staging programs run bootc at once, through failures and restarts.
StagingExclusive ==
    \A p \in Staging : InBootc(p) <=> lock = p

\* Between safe-upgrade's quarantine check and the finalization of the staged
\* update, the digest it is about to record stays out of quarantine, although
\* the check and the record are separate reads and writes of the file: only
\* the booted digest, staged again by a switch of channels, can be quarantined
\* meanwhile, by the boot it has just failed.
SafeUpgradeRecordsClean ==
    su.pc \in {"record", "finalize"}
        => ~Quarantined(health, su.seen) \/ su.seen = booted

\* The digest on whose account the watcher starts bootc is not quarantined
\* from its check until bootc ends.
WatcherStartsClean ==
    wt.pc \in {"lock", "bootc"} => ~Quarantined(health, wt.remote)

\* A digest that safe-upgrade or the watcher found clean is clean until it is
\* used, whatever the other programs, the hooks and the administrator write.
ChecksStayValid == SafeUpgradeRecordsClean /\ WatcherStartsClean

RedBootJudged ==
    verdict = "red" /\ \A p \in Recorders : rec[p].pc = "done"

\* When the hooks of a red boot are done, a quarantined booted digest has had
\* its `bootc rollback`: none is left quarantined and never rolled back.
QuarantineTriggersRollback ==
    RedBootJudged /\ Quarantined(health, booted)
        => attempt[booted].outcome # "none"

\* A red boot that counts a new failure of a digest whose last rollback
\* failed tries the rollback again.
FailedRollbackRetried ==
    (/\ RedBootJudged
     /\ Quarantined(health, booted)
     /\ health.last_failure_boot_id = boot
     /\ attempt[booted].outcome = "failed")
        => attempt[booted].boot = boot

\* Every red boot on a quarantined digest that calls for a rollback, the first
\* or a repeated one, gets it (rollback_retry_due over a whole history of boots).
RollbackFollows == QuarantineTriggersRollback /\ FailedRollbackRetried

\* A digest is rolled back from automatically at most once until it is
\* forgiven: two bad deployments cannot bounce the machine between them.
RollbackOnce == \A d \in Digests : attempt[d].rollbacks <= 1

\* The programs change boot-health.json only by the coordinator's
\* transactions: the system implements UpdateCoordinator.
ImplementsCoordinator == Coordinator!Spec

\* A machine that boots a bad image with a good one to fall back on leaves it,
\* as long as the bounds on boots and rollback faults leave room for it.
BadImageAbandoned ==
    (/\ booted \in Bad
     /\ prev \in Digests \ Bad
     /\ boot + Threshold + MaxFaults < MaxBoots) ~> booted \notin Bad

-----------------------------------------------------------------------------
(* What the documentation says and the code does not do                    *)

\* docs/update-safety.md, step 6: the update paths will not download or stage
\* a quarantined digest again.
NeverStagesQuarantined ==
    [][(staged' # staged /\ staged' # NoDigest)
         => ~Quarantined(health, staged')]_vars

\* bootc_guard.rs: two writers can never interleave bootc upgrade / switch /
\* rollback.
BootcWritersExclusive ==
    lock # "free" => \A p \in Recorders : rec[p].pc # "rollback"

\* docs/update-safety.md: an update is successful only after the booted image
\* passes the required health checks.
GreenMeansHealthy == verdict = "green" => booted \notin Bad

=============================================================================

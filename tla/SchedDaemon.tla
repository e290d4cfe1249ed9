---------------------------- MODULE SchedDaemon ----------------------------
(***************************************************************************)
(* kyth-sched: the user daemon that follows games with the CPU scheduler   *)
(* (sched_bin.rs, system/sched_daemon.rs) and the performance-mode         *)
(* commands it starts (performance_mode_bin.rs).                           *)
(*                                                                         *)
(* Every poll the daemon takes over what the signals left (a reload, a     *)
(* manual override), asks a cached detector whether a game runs, and on a  *)
(* change of profile switches the scheduler through kyth-scx and starts a  *)
(* performance-mode command.  The switch fails while the loader is down,   *)
(* and a switch that outlived its five seconds took effect although the    *)
(* daemon was told it failed.  "save" is waited for; "gaming" and          *)
(* "restore" are children nobody waits for.  Every setting these commands  *)
(* read or write takes a call of its own, whose failure nobody looks at.   *)
(***************************************************************************)
EXTENDS Integers, Sequences, FiniteSets

CONSTANTS
    RetryPolls,        \* SCX_RETRY_POLLS
    CachePolls,        \* polls within GAMING_CACHE_TTL of the detector's answer
    SchedConfigs,      \* contents sched.conf may have
    Settings,          \* power profile, EPP, animation speed, blur
    UnsetSettings,     \* those with no value of the user's in the desktop's files
    MaxSchedEvents     \* bound: what happens around the daemon, and failed calls

ASSUME SchedAssumption ==
    /\ RetryPolls \in Nat /\ CachePolls \in Nat /\ MaxSchedEvents \in Nat
    /\ \A c \in SchedConfigs : c.integrate_perf_mode \in BOOLEAN
    /\ UnsetSettings \subseteq Settings

VARIABLES
    game,           \* a game is running
    loader,         \* scx_loader: "up", "down" or "slow" (answers too late)
    kernelSched,    \* the scheduler the kernel runs
    configFile,     \* sched.conf
    signals,        \* what the handlers stored: [reload, override]
    daemon,         \* the daemon's SchedState, config and detector cache
    perf,           \* setting -> "user", "gaming", or "unset" when it has no value
    savedPerf,      \* kyth-performance-mode.state: whether it exists, what it holds
    perfChildren,   \* performance-mode commands still running, oldest first
    missed,         \* history: settings a save or restore failed to read or write
    upset,          \* history: a save while a restore ran (mixed), commands that ended
                    \* out of order, a restart or new sched.conf during a game
    schedEvents     \* bound counter

schedVars == <<game, loader, kernelSched, configFile, signals, daemon, perf,
               savedPerf, perfChildren, missed, upset, schedEvents>>

Values == {"user", "gaming", "unset"}
UserSettings == [k \in Settings |-> IF k \in UnsetSettings THEN "unset" ELSE "user"]
NoState == [file |-> FALSE, values |-> [k \in Settings |-> "unset"]]

Wanted(config, gaming) ==
    IF gaming THEN config.gaming_scheduler ELSE config.desktop_scheduler

\* SchedState::new; an empty detector cache is one that ran out.
FreshDaemon(config) ==
    [config |-> config, gaming_prev |-> FALSE, override |-> FALSE, applied |-> "none",
     polls_since_attempt |-> 0, verdict |-> FALSE, verdictAge |-> CachePolls]

\* What kyth-scx does to the kernel's scheduler; the daemon believes only "up".
set_scheduler(name) == IF loader = "down" THEN kernelSched ELSE name

SchedInit ==
    /\ game \in BOOLEAN
    /\ loader \in {"up", "down"}
    /\ configFile \in SchedConfigs
    /\ signals = [reload |-> FALSE, override |-> "none"]
    /\ daemon = FreshDaemon(configFile)
    /\ kernelSched = IF loader = "up" THEN configFile.desktop_scheduler ELSE "none"
    /\ perf = UserSettings
    /\ savedPerf = NoState
    /\ perfChildren = <<>>
    /\ missed = {}
    /\ upset = {}
    /\ schedEvents = 0

-----------------------------------------------------------------------------
(* One iteration of the daemon's loop.                                     *)

\* The configuration and override the iteration starts from.
Reloaded == IF signals.reload THEN configFile ELSE daemon.config
Overridden ==
    CASE signals.override = "gaming" -> TRUE
      [] signals.override = "clear" -> FALSE
      [] OTHER -> daemon.override

\* GamingCache::check answers from the cache while the entry is young; how
\* many polls that lasts depends on how long they take.
Fresh(fresh) == fresh \/ daemon.verdictAge >= CachePolls
Verdict(fresh) == IF Fresh(fresh) THEN game ELSE daemon.verdict

Unconfirmed(wanted) == daemon.applied # wanted

\* Mutant: a failed attempt is not repeated.
RetryNever(wanted) == FALSE

RetryDue(wanted) == Unconfirmed(wanted) /\ daemon.polls_since_attempt >= RetryPolls

\* Mutant: an attempt counts as applied.
AppliedAnyway(wanted) == wanted

\* scheduler_applied, for an attempt kyth-scx confirmed in time.
Applied(wanted) == IF loader = "up" THEN wanted ELSE daemon.applied

\* Mutant: the performance effects of a transition at every retry too.
PerfOnAttempt(config, transitioned) == config.integrate_perf_mode

\* Perf effects belong to a transition of an integrated daemon.
PerfEffect(config, transitioned) == transitioned /\ config.integrate_perf_mode

\* save_state: a setting that has no value, or that could not be read, is
\* saved as empty.
SavedState(read) ==
    [file |-> TRUE, values |-> [k \in Settings |-> IF k \in read THEN perf[k] ELSE "unset"]]

\* Commands with a call that fails are counted among the events.
FailedCalls(some) ==
    /\ schedEvents' = IF some THEN schedEvents + 1 ELSE schedEvents
    /\ schedEvents' <= MaxSchedEvents

\* enter_gaming_perf_mode: save what is set now and wait for it, then leave
\* "gaming" to a child; RestorePerf only leaves a "restore" child.
PerfMode(gaming, saved, read) ==
    /\ perfChildren' = Append(perfChildren, IF gaming THEN "gaming" ELSE "restore")
    /\ savedPerf' = IF gaming /\ saved THEN SavedState(read) ELSE savedPerf
    /\ missed' = missed \cup (IF ~gaming THEN {}
                               ELSE IF saved THEN Settings \ read ELSE Settings)
    /\ upset' = upset \cup
          (IF gaming /\ \E i \in DOMAIN perfChildren : perfChildren[i] = "restore"
           THEN {"mixed"} ELSE {})
    /\ FailedCalls(gaming /\ (~saved \/ read # Settings))

\* The iteration: signals, detection, poll_step, its effects.
Poll(fresh, saved, read) ==
    LET config == Reloaded
        gaming == Overridden \/ Verdict(fresh)
        wanted == Wanted(config, gaming)
        transitioned == gaming # daemon.gaming_prev
        attempt == transitioned \/ RetryDue(wanted)
    IN  /\ signals' = [reload |-> FALSE, override |-> "none"]
        /\ daemon' =
             [config |-> config, gaming_prev |-> gaming, override |-> Overridden,
              applied |-> IF attempt THEN Applied(wanted) ELSE daemon.applied,
              polls_since_attempt |->
                  IF attempt THEN 0
                  ELSE IF Unconfirmed(wanted) THEN daemon.polls_since_attempt + 1
                       ELSE daemon.polls_since_attempt,
              verdict |-> Verdict(fresh),
              verdictAge |-> IF Fresh(fresh) THEN 0 ELSE daemon.verdictAge + 1]
        /\ kernelSched' = IF attempt THEN set_scheduler(wanted) ELSE kernelSched
        /\ IF attempt /\ PerfEffect(config, transitioned)
           THEN PerfMode(gaming, saved, read)
           ELSE UNCHANGED <<savedPerf, perfChildren, missed, upset, schedEvents>>
        /\ UNCHANGED <<game, loader, configFile, perf>>

\* restore_state writes what was saved, but nothing for a setting saved empty.
RestoreValue(k) == IF savedPerf.values[k] = "unset" THEN perf[k] ELSE savedPerf.values[k]

\* A child applies the gaming settings, or puts the saved ones back and
\* removes the file; done are the settings whose call worked.  Without the
\* file restore does nothing, and one that cannot read it leaves it (done is
\* empty, kept).
PerfChild(i, done, kept) ==
    LET gaming == perfChildren[i] = "gaming"
        restores == ~gaming /\ savedPerf.file
    IN  /\ perf' = [k \in Settings |->
                       IF k \notin done THEN perf[k]
                       ELSE IF gaming THEN "gaming"
                       ELSE IF restores THEN RestoreValue(k) ELSE perf[k]]
        /\ savedPerf' = IF restores /\ ~kept THEN NoState ELSE savedPerf
        /\ missed' = missed \cup (IF restores THEN Settings \ done ELSE {})
        /\ upset' = upset \cup (IF i > 1 THEN {"reordered"} ELSE {})
        /\ perfChildren' = SubSeq(perfChildren, 1, i - 1)
                             \o SubSeq(perfChildren, i + 1, Len(perfChildren))
        /\ FailedCalls(kept \/ done # Settings)
        /\ UNCHANGED <<game, loader, kernelSched, configFile, signals, daemon>>

-----------------------------------------------------------------------------
(* What happens around the daemon.                                         *)

SchedEvent ==
    /\ schedEvents < MaxSchedEvents
    /\ schedEvents' = schedEvents + 1

GameChanges ==
    /\ SchedEvent
    /\ game' = ~game
    /\ UNCHANGED <<loader, kernelSched, configFile, signals, daemon, perf, savedPerf,
                   perfChildren, missed, upset>>

LoaderChanges(to) ==
    /\ SchedEvent
    /\ loader # to
    /\ loader' = to
    /\ UNCHANGED <<game, kernelSched, configFile, signals, daemon, perf, savedPerf,
                   perfChildren, missed, upset>>

\* on_force_gaming and on_force_desktop: the later signal wins.
ForceSignal(override) ==
    /\ SchedEvent
    /\ signals' = [signals EXCEPT !.override = override]
    /\ UNCHANGED <<game, loader, kernelSched, configFile, daemon, perf, savedPerf,
                   perfChildren, missed, upset>>

\* The user edits sched.conf and sends SIGHUP (on_hup).  Performance mode
\* switched off while gaming is never restored.
ConfigChanges(config) ==
    /\ SchedEvent
    /\ config # configFile
    /\ configFile' = config
    /\ signals' = [signals EXCEPT !.reload = TRUE]
    /\ upset' = upset \cup (IF config.integrate_perf_mode # configFile.integrate_perf_mode
                            THEN {"reconfigured"} ELSE {})
    /\ UNCHANGED <<game, loader, kernelSched, daemon, perf, savedPerf, perfChildren, missed>>

\* The daemon dies or is stopped and is started again: it forgets its state
\* and asks for the desktop scheduler, without noting whether it got it.
SchedRestarts ==
    /\ SchedEvent
    /\ daemon' = FreshDaemon(configFile)
    /\ signals' = [reload |-> FALSE, override |-> "none"]
    /\ kernelSched' = set_scheduler(configFile.desktop_scheduler)
    /\ upset' = upset \cup (IF daemon.gaming_prev THEN {"restarted"} ELSE {})
    /\ UNCHANGED <<game, loader, configFile, perf, savedPerf, perfChildren, missed>>

Polls ==
    \E fresh, saved \in BOOLEAN, read \in SUBSET Settings : Poll(fresh, saved, read)
PerfChildEnds ==
    \E i \in DOMAIN perfChildren, done \in SUBSET Settings, kept \in BOOLEAN :
        PerfChild(i, done, kept)

SchedNext ==
    \/ Polls
    \/ PerfChildEnds
    \/ GameChanges
    \/ \E to \in {"up", "down", "slow"} : LoaderChanges(to)
    \/ \E override \in {"gaming", "clear"} : ForceSignal(override)
    \/ \E config \in SchedConfigs : ConfigChanges(config)
    \/ SchedRestarts

\* The loop sleeps at most one poll interval, and a performance-mode command
\* is a handful of bounded calls.
SchedFairness == WF_schedVars(Polls) /\ WF_schedVars(PerfChildEnds)

SchedSpec == SchedInit /\ [][SchedNext]_schedVars /\ SchedFairness

-----------------------------------------------------------------------------
(* Properties.                                                             *)

\* Type correctness; retries stay paced: the counter never passes the poll at
\* which one is due.
SchedTypeOK ==
    /\ game \in BOOLEAN /\ loader \in {"up", "down", "slow"}
    /\ configFile \in SchedConfigs
    /\ signals \in [reload : BOOLEAN, override : {"none", "gaming", "clear"}]
    /\ daemon.config \in SchedConfigs
    /\ daemon.gaming_prev \in BOOLEAN /\ daemon.override \in BOOLEAN
    /\ daemon.polls_since_attempt \in 0..RetryPolls
    /\ daemon.verdict \in BOOLEAN /\ daemon.verdictAge \in 0..CachePolls
    /\ perf \in [Settings -> Values]
    /\ savedPerf \in [file : BOOLEAN, values : [Settings -> Values]]
    /\ perfChildren \in Seq({"gaming", "restore"})
    /\ missed \subseteq Settings
    /\ upset \subseteq {"mixed", "reordered", "reconfigured", "restarted"}

\* The scheduler the current situation calls for.
Target == Wanted(configFile, game \/ daemon.override)

\* Once the loader answers for good and nothing changes any more, the kernel
\* ends up with the wanted scheduler: a switch that failed while the loader was
\* away is retried however the polls, the cache, the overrides and the restarts
\* fell (applied_scheduler's comment).
SchedulerConverges ==
    (<>[](loader = "up") /\ [](loader # "slow")) => <>[](kernelSched = Target)

\* Back on the desktop, with no command left running, every setting has the
\* value the user gave it, however often the switch was retried and even when
\* the commands of two transitions ran side by side.  Left on the gaming value
\* are at most: a setting that had no value (it is saved empty, and
\* restore_state skips it), and one that a save or restore failed to read or
\* write.  The commands must end in the order they were started, none saving
\* while another restores, and the daemon not be restarted or reconfigured in
\* a game.
PerfRestored ==
    upset = {} /\ perfChildren = <<>> /\ ~daemon.gaming_prev =>
        \A k \in Settings \ (UnsetSettings \cup missed) : perf[k] = "user"

=============================================================================

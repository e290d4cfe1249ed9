----------------------------- MODULE HubUpdates -----------------------------
(***************************************************************************)
(* The Hub's update operations (commands/updates.rs): stage, rollback,     *)
(* channel switch and restart.  Each is a job whose thread starts a root   *)
(* helper through sudo, watches it, and holds the one mutating slot of the *)
(* process until it is through.  The stage helper's output is read by a    *)
(* thread of its own, which moves the progress bar.                        *)
(*                                                                         *)
(* Cancelling or running out of time sends the helper's process group      *)
(* SIGKILL.  The helper runs as root and the Hub as the user: whether the  *)
(* kernel lets the signal through is left open, and when it does not the   *)
(* helper goes on with its job marked cancelled.                           *)
(***************************************************************************)
EXTENDS Integers, Sequences, FiniteSets

CONSTANTS
    UpdateOps,        \* operations the page can start
    MaxUpdateJobs,    \* bound: launches
    MaxPercent,       \* the fullest an unfinished bar gets (99)
    MaxLines,         \* bound: lines a helper prints
    PipeRoom,         \* lines its pipe holds
    MaxHubExits       \* bound: times the Hub dies

ASSUME HubUpdatesAssumption ==
    /\ MaxUpdateJobs \in Nat /\ MaxPercent \in Nat /\ MaxLines \in Nat
    /\ PipeRoom \in Nat \ {0} /\ MaxHubExits \in Nat

VARIABLES
    slot,        \* UPDATE_MUTATING
    updateJobs,  \* the jobs in launch order, each with its thread and helper
    bar,         \* STAGE_PROGRESS: percent, active, and the job it is about
    hubExits     \* bound counter

hubVars == <<slot, updateJobs, bar, hubExits>>

Jobs == DOMAIN updateJobs

NewJob(op) ==
    [op |-> op,
     state |-> "running",   \* its entry in the job store
     flag |-> FALSE,        \* the entry's cancellation flag
     pc |-> "spawn",        \* the thread: spawn, watch, join, idle_bar, report, release, over
     result |-> "failed",   \* what the thread will report
     helper |-> "none",     \* the root process: none, alive, gone
     left |-> 0,            \* lines it has still to print
     pipe |-> <<>>,         \* lines printed and not read
     refused |-> FALSE]     \* the kernel refused a SIGKILL to it

IdleBar == [pct |-> 0, active |-> FALSE, job |-> 0]

HubInit ==
    /\ slot = FALSE
    /\ updateJobs = <<>>
    /\ bar = IdleBar
    /\ hubExits = 0

Alive(j) == updateJobs[j].helper = "alive"
At(j, pc) == j \in Jobs /\ updateJobs[j].pc = pc

-----------------------------------------------------------------------------
(* Commands of the page.                                                   *)

\* Mutant: a stage starts on the progress of the last one.
KeepBar(op, job) == IF op = "stage" THEN [bar EXCEPT !.active = TRUE] ELSE bar

\* start_stage_job shows an empty, active bar.
StartBar(op, job) ==
    IF op = "stage" THEN [pct |-> 0, active |-> TRUE, job |-> job] ELSE bar

\* take_mutating_slot, the job's registration, and the spawn of its thread.
Launch(op) ==
    /\ Len(updateJobs) < MaxUpdateJobs
    /\ ~slot
    /\ slot' = TRUE
    /\ updateJobs' = Append(updateJobs, NewJob(op))
    /\ bar' = StartBar(op, Len(updateJobs) + 1)
    /\ UNCHANGED hubExits

\* update_job_cancel.
CancelUpdate(j) ==
    /\ updateJobs[j].state = "running" /\ updateJobs[j].pc # "over"
    /\ updateJobs' = [updateJobs EXCEPT ![j].state = "cancelled", ![j].flag = TRUE]
    /\ UNCHANGED <<slot, bar, hubExits>>

-----------------------------------------------------------------------------
(* The job's thread.                                                       *)

\* The helper starts, or cannot be started.
SpawnHelper(j, started, lines) ==
    /\ At(j, "spawn")
    /\ updateJobs' = [updateJobs EXCEPT
         ![j].pc = IF started THEN "watch" ELSE "idle_bar",
         ![j].helper = IF started THEN "alive" ELSE "none",
         ![j].left = IF started THEN lines ELSE 0]
    /\ UNCHANGED <<slot, bar, hubExits>>

\* The poll loop sees the helper's exit and its exit status.
WatchSeesExit(j, result) ==
    /\ At(j, "watch") /\ ~Alive(j)
    /\ updateJobs' = [updateJobs EXCEPT ![j].pc = "join", ![j].result = result]
    /\ UNCHANGED <<slot, bar, hubExits>>

\* The poll loop sees the flag, or that the time is over, and kills the group.
WatchKills(j, killed) ==
    /\ At(j, "watch") /\ Alive(j)
    /\ updateJobs' = [updateJobs EXCEPT
         ![j].pc = "join", ![j].result = "failed",
         ![j].helper = IF killed THEN "gone" ELSE "alive",
         ![j].refused = ~killed]
    /\ UNCHANGED <<slot, bar, hubExits>>

\* Mutant: the readers are not waited for.
JoinNothing(j) == TRUE

\* The pipes are closed and read to the end: kill_and_join_readers, or the
\* joins of the stage job's reader threads.
Joined(j) == ~Alive(j) /\ updateJobs[j].pipe = <<>>

JoinReaders(j) ==
    /\ At(j, "join") /\ Joined(j)
    /\ updateJobs' = [updateJobs EXCEPT ![j].pc = "idle_bar"]
    /\ UNCHANGED <<slot, bar, hubExits>>

\* A stage job's bar goes idle; the other operations have none.
IdleTheBar(j) ==
    /\ At(j, "idle_bar")
    /\ bar' = IF updateJobs[j].op = "stage" THEN [bar EXCEPT !.active = FALSE] ELSE bar
    /\ updateJobs' = [updateJobs EXCEPT ![j].pc = "report"]
    /\ UNCHANGED <<slot, hubExits>>

\* finish: not over a cancelled entry.
ReportUpdate(j) ==
    /\ At(j, "report")
    /\ updateJobs' = [updateJobs EXCEPT
         ![j].pc = "release",
         ![j].state = IF @ = "cancelled" THEN @ ELSE updateJobs[j].result]
    /\ UNCHANGED <<slot, bar, hubExits>>

\* The slot is dropped with the thread's closure.
FreeSlot(j) ==
    /\ At(j, "release")
    /\ slot' = FALSE
    /\ updateJobs' = [updateJobs EXCEPT ![j].pc = "over"]
    /\ UNCHANGED <<bar, hubExits>>

-----------------------------------------------------------------------------
(* The helper and the reader of its output.                                *)

\* The helper prints a progress marker; it waits while the pipe is full.
HelperPrints(j, pct) ==
    /\ Alive(j) /\ updateJobs[j].left > 0
    /\ Len(updateJobs[j].pipe) < PipeRoom
    /\ updateJobs' = [updateJobs EXCEPT ![j].left = @ - 1, ![j].pipe = Append(@, pct)]
    /\ UNCHANGED <<slot, bar, hubExits>>

HelperExits(j) ==
    /\ Alive(j) /\ updateJobs[j].left = 0
    /\ updateJobs' = [updateJobs EXCEPT ![j].helper = "gone"]
    /\ UNCHANGED <<slot, bar, hubExits>>

\* merge_stage_snapshot: the bar never moves back.
merge_stage_snapshot(current, next) == IF next.pct >= current.pct THEN next ELSE current

\* Mutant: a reader stops at its capture limit.
ReadsFirst(j) == updateJobs[j].left >= MaxLines - 1

\* The reader keeps draining, whatever it still captures.
Reads(j) == TRUE

\* parse_stage_marker: the bar is full only when the job ends.
parse_stage_marker(j, pct) ==
    [pct |-> IF pct > MaxPercent THEN MaxPercent ELSE pct, active |-> TRUE, job |-> j]

\* The reader thread takes a line: a marker of a stage moves the bar.
ReadLine(j) ==
    /\ updateJobs[j].pipe # <<>> /\ updateJobs[j].pc # "over"
    /\ Reads(j)
    /\ updateJobs' = [updateJobs EXCEPT ![j].pipe = Tail(@)]
    /\ bar' = IF updateJobs[j].op = "stage"
              THEN merge_stage_snapshot(bar, parse_stage_marker(j, Head(updateJobs[j].pipe)))
              ELSE bar
    /\ UNCHANGED <<slot, hubExits>>

\* The Hub dies and is started again: its threads, slot and bar are gone, its
\* helpers are not.
HubExits ==
    /\ hubExits < MaxHubExits
    /\ hubExits' = hubExits + 1
    /\ slot' = FALSE
    /\ bar' = IdleBar
    /\ updateJobs' = [j \in Jobs |-> [updateJobs[j] EXCEPT !.pc = "over", !.pipe = <<>>,
                                                           !.left = 0]]

Thread(j) ==
    \/ \E started \in BOOLEAN, lines \in 0..MaxLines : SpawnHelper(j, started, lines)
    \/ \E result \in {"complete", "failed"} : WatchSeesExit(j, result)
    \/ \E killed \in BOOLEAN : WatchKills(j, killed)
    \/ JoinReaders(j) \/ IdleTheBar(j) \/ ReportUpdate(j) \/ FreeSlot(j)

Helper(j) == HelperExits(j) \/ \E pct \in 0..(MaxPercent + 1) : HelperPrints(j, pct)

HubNext ==
    \/ \E op \in UpdateOps : Launch(op)
    \/ \E j \in Jobs : CancelUpdate(j)
    \/ \E j \in Jobs : Thread(j)
    \/ \E j \in Jobs : Helper(j)
    \/ \E j \in Jobs : ReadLine(j)
    \/ HubExits

\* Threads are scheduled, the poll loop gives up at its time limit, and a
\* helper that can print goes on and ends.
HubFairness ==
    \A j \in 1..MaxUpdateJobs :
        /\ WF_hubVars(j \in Jobs /\ Thread(j))
        /\ WF_hubVars(j \in Jobs /\ Helper(j))
        /\ WF_hubVars(j \in Jobs /\ ReadLine(j))

HubSpec == HubInit /\ [][HubNext]_hubVars /\ HubFairness

-----------------------------------------------------------------------------
(* Properties.                                                             *)

\* Type correctness; the bar stays in range.
HubTypeOK ==
    /\ slot \in BOOLEAN
    /\ bar \in [pct : 0..MaxPercent, active : BOOLEAN, job : 0..Len(updateJobs)]
    /\ \A j \in Jobs :
          /\ updateJobs[j].op \in UpdateOps
          /\ updateJobs[j].state \in {"running", "complete", "failed", "cancelled"}
          /\ updateJobs[j].pc \in {"spawn", "watch", "join", "idle_bar", "report", "release",
                                   "over"}
          /\ updateJobs[j].helper \in {"none", "alive", "gone"}
          /\ updateJobs[j].left \in 0..MaxLines
          /\ updateJobs[j].pipe \in Seq(0..(MaxPercent + 1))

\* As long as the Hub lives, at most one root helper it started is alive: a
\* cancelled or timed out job whose helper would not die keeps the slot until
\* it is gone, so no second operation races it (UPDATE_MUTATING's comment).
OneHelper ==
    hubExits = 0 => \A i, j \in Jobs : Alive(i) /\ Alive(j) => i = j

\* A job reads complete or failed only when its helper has ended; it reads
\* cancelled with the helper alive only until the poll loop's next look or
\* after the kernel refused the kill.
EndedMeansStopped ==
    \A j \in Jobs :
        Alive(j) /\ updateJobs[j].pc # "over" =>
          /\ updateJobs[j].state \in {"running", "cancelled"}
          /\ updateJobs[j].pc = "watch" \/ updateJobs[j].refused

\* A root helper is accounted for as long as the Hub lives: it is the only one,
\* and its job does not read as ended.
HelperAccounted == OneHelper /\ EndedMeansStopped

\* An active bar is about the stage that holds the slot: no marker of an
\* earlier stage, cancelled or timed out, shows on a later one's bar.
BarIsCurrent ==
    bar.active => /\ slot /\ bar.job = Len(updateJobs)
                  /\ updateJobs[bar.job].op = "stage"

\* The slot always comes free again: no amount of output wedges the helper and
\* with it every later update (start_stage_job's comment on draining both
\* pipes), even when the kill is refused.
SlotComesFree == slot ~> ~slot

=============================================================================

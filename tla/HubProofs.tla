----------------------------- MODULE HubProofs -----------------------------
(***************************************************************************)
(* The Hub's update jobs keep one root helper and a current progress bar,  *)
(* for any operations, number of launches, helper output, pipe size and    *)
(* number of Hub restarts; its VPN jobs keep every tunnel in sight, for    *)
(* any number of sign-in callbacks, generations and disconnects.           *)
(***************************************************************************)
EXTENDS HubUpdates, VpnJob, FiniteSetTheorems, TLAPS

UpdateJob ==
    [op : UpdateOps,
     state : {"running", "complete", "failed", "cancelled"},
     flag : BOOLEAN,
     pc : {"spawn", "watch", "join", "idle_bar", "report", "release", "over"},
     result : {"complete", "failed"},
     helper : {"none", "alive", "gone"},
     left : 0..MaxLines,
     pipe : Seq(0..(MaxPercent + 1)),
     refused : BOOLEAN]

HubTypes ==
    /\ slot \in BOOLEAN
    /\ bar \in [pct : 0..MaxPercent, active : BOOLEAN, job : 0..Len(updateJobs)]
    /\ updateJobs \in Seq(UpdateJob)
    /\ hubExits \in Nat

\* What one job's record may look like, whatever the others do: its helper is
\* alive only under the poll loop or, refused its kill, until the readers are
\* joined; it has output to read only until then; it is settled only by
\* ReportUpdate.
JobSound(r) ==
    /\ r.pc = "spawn" => r.helper = "none"
    /\ r.helper = "alive" /\ r.pc # "over" => r.pc = "watch" \/ (r.pc = "join" /\ r.refused)
    /\ r.pipe # <<>> /\ r.pc # "over" => r.pc \in {"watch", "join"}
    /\ r.pc \notin {"release", "over"} => r.state \in {"running", "cancelled"}

\* Only the newest job has a thread, and that thread holds the slot; until the
\* Hub dies no helper outlives its job's thread.
ThreadHoldsSlot ==
    \A j \in Jobs :
        /\ updateJobs[j].pc # "over" => slot /\ j = Len(updateJobs)
        /\ hubExits = 0 /\ Alive(j) => updateJobs[j].pc # "over"

\* An active bar is about the newest job, a stage that has not yet set it idle.
BarFollowsStage ==
    bar.active => /\ Len(updateJobs) # 0
                  /\ bar.job = Len(updateJobs)
                  /\ updateJobs[bar.job].op = "stage"
                  /\ updateJobs[bar.job].pc \notin {"report", "release", "over"}

HubInv ==
    /\ HubTypes
    /\ \A j \in Jobs : JobSound(updateJobs[j])
    /\ ThreadHoldsSlot
    /\ BarFollowsStage

-----------------------------------------------------------------------------
(* The sequence of jobs.                                                   *)

\* One job's record is replaced: the list keeps its length and the others.
LEMMA JobReplaced ==
    ASSUME NEW S, NEW q \in Seq(S), NEW i \in DOMAIN q, NEW v \in S
    PROVE  /\ [q EXCEPT ![i] = v] \in Seq(S)
           /\ Len([q EXCEPT ![i] = v]) = Len(q)
           /\ DOMAIN [q EXCEPT ![i] = v] = DOMAIN q
           /\ [q EXCEPT ![i] = v][i] = v
           /\ \A k \in DOMAIN q : k # i => [q EXCEPT ![i] = v][k] = q[k]
OBVIOUS

\* What the provers need to know of the list of jobs.
LEMMA JobShape ==
    ASSUME HubTypes
    PROVE  /\ Len(updateJobs) \in Nat /\ Jobs = 1..Len(updateJobs)
           /\ \A j \in Jobs : updateJobs[j] \in UpdateJob
BY DEF HubTypes, Jobs

\* Every step of one job that leaves slot and bar alone keeps the invariant
\* when the new record is sound, of the same operation and at an earlier stage
\* of the thread than a bar it may have active, and when its helper, if alive,
\* was alive before or has a thread.
LEMMA JobStep ==
    ASSUME HubInv, NEW j \in Jobs, NEW r \in UpdateJob,
           updateJobs' = [updateJobs EXCEPT ![j] = r],
           UNCHANGED <<slot, bar, hubExits>>,
           JobSound(r), r.op = updateJobs[j].op,
           r.pc = "over" <=> updateJobs[j].pc = "over",
           r.helper = "alive" => Alive(j) \/ r.pc # "over",
           r.pc \in {"report", "release"} => updateJobs[j].pc \in {"report", "release"}
    PROVE  HubInv'
<1>1. /\ updateJobs' \in Seq(UpdateJob) /\ Len(updateJobs') = Len(updateJobs)
      /\ Jobs' = Jobs /\ updateJobs'[j] = r
      /\ \A k \in Jobs : k # j => updateJobs'[k] = updateJobs[k]
  BY JobReplaced DEF HubInv, HubTypes, Jobs
<1>2. HubTypes' BY <1>1 DEF HubInv, HubTypes
<1>3. \A k \in Jobs' : JobSound(updateJobs'[k]) BY <1>1 DEF HubInv
<1>4. ThreadHoldsSlot'
  BY <1>1 DEF HubInv, ThreadHoldsSlot, Alive
<1>5. BarFollowsStage'
  BY <1>1, JobShape DEF HubInv, BarFollowsStage
<1> QED BY <1>2, <1>3, <1>4, <1>5 DEF HubInv

-----------------------------------------------------------------------------
(* One lemma per step of HubNext.                                          *)

\* A launch takes the free slot, so no other job has a thread.
LEMMA LaunchStep ==
    ASSUME HubInv, NEW op \in UpdateOps, Launch(op)
    PROVE  HubInv'
<1> DEFINE n == Len(updateJobs) + 1
<1>1. NewJob(op) \in UpdateJob /\ JobSound(NewJob(op))
      /\ NewJob(op).op = op /\ NewJob(op).pc = "spawn" /\ NewJob(op).helper = "none"
  BY HubUpdatesAssumption DEF NewJob, UpdateJob, JobSound
<1>2. updateJobs \in Seq(UpdateJob) BY DEF HubInv, HubTypes
<1>3. /\ updateJobs' \in Seq(UpdateJob) /\ Len(updateJobs') = n /\ Jobs' = 1..n /\ n \in Nat \ {0}
      /\ updateJobs'[n] = NewJob(op)
      /\ \A k \in Jobs : updateJobs'[k] = updateJobs[k] /\ k \in 1..n /\ k # n
      /\ \A k \in 1..n : k = n \/ k \in Jobs
  BY <1>1, <1>2 DEF Launch, Jobs
<1>4. ~slot /\ slot' = TRUE /\ UNCHANGED hubExits /\ bar' = StartBar(op, n) BY DEF Launch
<1>5. \A k \in Jobs : updateJobs[k].pc = "over" BY <1>4 DEF HubInv, ThreadHoldsSlot
<1>6. ~bar.active
  BY <1>5, JobShape DEF HubInv, BarFollowsStage
<1>7. bar' = bar \/ (op = "stage" /\ bar' = [pct |-> 0, active |-> TRUE, job |-> n])
  BY <1>4 DEF StartBar
<1>8. HubTypes'
  <2>1. bar' \in [pct : 0..MaxPercent, active : BOOLEAN, job : 0..n]
    <3>1. bar \in [pct : 0..MaxPercent, active : BOOLEAN, job : 0..Len(updateJobs)]
      BY DEF HubInv, HubTypes
    <3>2. 0 \in 0..MaxPercent /\ n \in 0..n /\ 0..Len(updateJobs) \subseteq 0..n
      BY <1>3, HubUpdatesAssumption
    <3>3. bar \in [pct : 0..MaxPercent, active : BOOLEAN, job : 0..n]
      BY <3>1, <3>2
    <3>4. [pct |-> 0, active |-> TRUE, job |-> n]
             \in [pct : 0..MaxPercent, active : BOOLEAN, job : 0..n]
      BY <3>2
    <3> QED BY <1>7, <3>3, <3>4
  <2> QED BY <1>3, <1>4, <2>1 DEF HubInv, HubTypes
<1>9. \A k \in Jobs' : JobSound(updateJobs'[k]) BY <1>1, <1>3 DEF HubInv
<1>10. ThreadHoldsSlot'
  BY <1>1, <1>3, <1>4, <1>5 DEF HubInv, ThreadHoldsSlot, Alive
<1>11. BarFollowsStage'
  BY <1>1, <1>3, <1>6, <1>7 DEF BarFollowsStage
<1> QED BY <1>8, <1>9, <1>10, <1>11 DEF HubInv

\* Cancelling marks a running job and leaves its thread where it is.
LEMMA CancelStep ==
    ASSUME HubInv, NEW j \in Jobs, CancelUpdate(j)
    PROVE  HubInv'
<1> DEFINE r == [updateJobs[j] EXCEPT !.state = "cancelled", !.flag = TRUE]
<1>1. updateJobs[j] \in UpdateJob /\ JobSound(updateJobs[j]) BY JobShape DEF HubInv
<1>2. r \in UpdateJob BY <1>1 DEF UpdateJob
<1>3. r.pc = updateJobs[j].pc /\ r.helper = updateJobs[j].helper /\ r.op = updateJobs[j].op
      /\ JobSound(r)
  BY <1>1 DEF UpdateJob, JobSound
<1>4. updateJobs' = [updateJobs EXCEPT ![j] = r] /\ UNCHANGED <<slot, bar, hubExits>>
  BY DEF CancelUpdate
<1> QED BY <1>2, <1>3, <1>4, JobStep DEF Alive

\* The thread starts its helper, or goes on without one.
LEMMA SpawnStep ==
    ASSUME HubInv, NEW j \in Jobs, NEW started \in BOOLEAN, NEW lines \in 0..MaxLines,
           SpawnHelper(j, started, lines)
    PROVE  HubInv'
<1> DEFINE r == [updateJobs[j] EXCEPT
                   !.pc = IF started THEN "watch" ELSE "idle_bar",
                   !.helper = IF started THEN "alive" ELSE "none",
                   !.left = IF started THEN lines ELSE 0]
<1>1. /\ updateJobs[j] \in UpdateJob /\ JobSound(updateJobs[j]) /\ updateJobs[j].pc = "spawn"
  BY JobShape DEF HubInv, SpawnHelper, At
<1>2. r \in UpdateJob
  <2>1. (IF started THEN lines ELSE 0) \in 0..MaxLines BY HubUpdatesAssumption
  <2> QED BY <1>1, <2>1 DEF UpdateJob
<1>3. r.pc \in {"watch", "idle_bar"} /\ r.op = updateJobs[j].op /\ JobSound(r)
  BY <1>1 DEF UpdateJob, JobSound
<1>4. updateJobs' = [updateJobs EXCEPT ![j] = r] /\ UNCHANGED <<slot, bar, hubExits>>
  BY DEF SpawnHelper
<1> QED BY <1>1, <1>2, <1>3, <1>4, JobStep

\* The poll loop leaves for the join: the helper ended, or was sent a kill that
\* took effect or was refused.
LEMMA WatchStep ==
    ASSUME HubInv, NEW j \in Jobs,
           \/ \E result \in {"complete", "failed"} : WatchSeesExit(j, result)
           \/ \E killed \in BOOLEAN : WatchKills(j, killed)
    PROVE  HubInv'
<1>1. /\ updateJobs[j] \in UpdateJob /\ JobSound(updateJobs[j]) /\ updateJobs[j].pc = "watch"
  BY JobShape DEF HubInv, WatchSeesExit, WatchKills, At
<1>2. ASSUME NEW result \in {"complete", "failed"}, WatchSeesExit(j, result)
      PROVE  HubInv'
  <2> DEFINE r == [updateJobs[j] EXCEPT !.pc = "join", !.result = result]
  <2>1. ~Alive(j) BY <1>2 DEF WatchSeesExit
  <2>2. r \in UpdateJob BY <1>1 DEF UpdateJob
  <2>3. r.pc = "join" /\ r.op = updateJobs[j].op /\ JobSound(r)
    BY <1>1, <2>1 DEF UpdateJob, JobSound, Alive
  <2>4. updateJobs' = [updateJobs EXCEPT ![j] = r] /\ UNCHANGED <<slot, bar, hubExits>>
    BY <1>2 DEF WatchSeesExit
  <2> QED BY <1>1, <2>2, <2>3, <2>4, JobStep
<1>3. ASSUME NEW killed \in BOOLEAN, WatchKills(j, killed)
      PROVE  HubInv'
  <2> DEFINE r == [updateJobs[j] EXCEPT
                     !.pc = "join", !.result = "failed",
                     !.helper = IF killed THEN "gone" ELSE "alive",
                     !.refused = ~killed]
  <2>1. r \in UpdateJob BY <1>1 DEF UpdateJob
  <2>2. r.pc = "join" /\ r.op = updateJobs[j].op /\ JobSound(r)
    BY <1>1 DEF UpdateJob, JobSound
  <2>3. updateJobs' = [updateJobs EXCEPT ![j] = r] /\ UNCHANGED <<slot, bar, hubExits>>
    BY <1>3 DEF WatchKills
  <2> QED BY <1>1, <2>1, <2>2, <2>3, JobStep
<1> QED BY <1>2, <1>3

\* The readers are joined only when the helper is gone and its output read.
LEMMA JoinStep ==
    ASSUME HubInv, NEW j \in Jobs, JoinReaders(j)
    PROVE  HubInv'
<1> DEFINE r == [updateJobs[j] EXCEPT !.pc = "idle_bar"]
<1>1. /\ updateJobs[j] \in UpdateJob /\ JobSound(updateJobs[j]) /\ updateJobs[j].pc = "join"
      /\ ~Alive(j) /\ updateJobs[j].pipe = <<>>
  BY JobShape DEF HubInv, JoinReaders, At, Joined
<1>2. r \in UpdateJob BY <1>1 DEF UpdateJob
<1>3. r.pc = "idle_bar" /\ r.op = updateJobs[j].op /\ JobSound(r)
  BY <1>1 DEF UpdateJob, JobSound, Alive
<1>4. updateJobs' = [updateJobs EXCEPT ![j] = r] /\ UNCHANGED <<slot, bar, hubExits>>
  BY DEF JoinReaders
<1> QED BY <1>1, <1>2, <1>3, <1>4, JobStep

\* A stage's thread sets the bar idle before it reports.
LEMMA IdleStep ==
    ASSUME HubInv, NEW j \in Jobs, IdleTheBar(j)
    PROVE  HubInv'
<1> DEFINE r == [updateJobs[j] EXCEPT !.pc = "report"]
<1>1. /\ updateJobs[j] \in UpdateJob /\ JobSound(updateJobs[j]) /\ updateJobs[j].pc = "idle_bar"
      /\ slot /\ j = Len(updateJobs)
  BY JobShape DEF HubInv, IdleTheBar, At, ThreadHoldsSlot
<1>2. r \in UpdateJob BY <1>1 DEF UpdateJob
<1>3. r.pc = "report" /\ r.op = updateJobs[j].op /\ r.helper # "alive" /\ JobSound(r)
  BY <1>1 DEF UpdateJob, JobSound
<1>4. updateJobs' = [updateJobs EXCEPT ![j] = r] /\ UNCHANGED <<slot, hubExits>>
  BY DEF IdleTheBar
<1>5. /\ updateJobs' \in Seq(UpdateJob) /\ Len(updateJobs') = Len(updateJobs)
      /\ Jobs' = Jobs /\ updateJobs'[j] = r
      /\ \A k \in Jobs : k # j => updateJobs'[k] = updateJobs[k]
  BY <1>2, <1>4, JobReplaced DEF HubInv, HubTypes, Jobs
<1>6. bar' \in [pct : 0..MaxPercent, active : BOOLEAN, job : 0..Len(updateJobs)] /\ ~bar'.active
  <2>1. bar \in [pct : 0..MaxPercent, active : BOOLEAN, job : 0..Len(updateJobs)]
    BY DEF HubInv, HubTypes
  <2>2. CASE updateJobs[j].op = "stage"
    <3>1. bar' = [bar EXCEPT !.active = FALSE] BY <2>2 DEF IdleTheBar
    <3> QED BY <2>1, <3>1
  <2>3. CASE updateJobs[j].op # "stage"
    <3>1. bar' = bar BY <2>3 DEF IdleTheBar
    <3>2. ~bar.active BY <1>1, <2>3 DEF HubInv, BarFollowsStage
    <3> QED BY <2>1, <3>1, <3>2
  <2> QED BY <2>2, <2>3
<1>7. HubTypes' BY <1>4, <1>5, <1>6 DEF HubInv, HubTypes
<1>8. \A k \in Jobs' : JobSound(updateJobs'[k]) BY <1>3, <1>5 DEF HubInv
<1>9. ThreadHoldsSlot' BY <1>1, <1>3, <1>4, <1>5 DEF HubInv, ThreadHoldsSlot, Alive
<1>10. BarFollowsStage' BY <1>6 DEF BarFollowsStage
<1> QED BY <1>7, <1>8, <1>9, <1>10 DEF HubInv

\* The thread reports: a cancelled entry stays cancelled.
LEMMA ReportStep ==
    ASSUME HubInv, NEW j \in Jobs, ReportUpdate(j)
    PROVE  HubInv'
<1> DEFINE r == [updateJobs[j] EXCEPT !.pc = "release",
                   !.state = IF @ = "cancelled" THEN @ ELSE updateJobs[j].result]
<1>1. /\ updateJobs[j] \in UpdateJob /\ JobSound(updateJobs[j]) /\ updateJobs[j].pc = "report"
  BY JobShape DEF HubInv, ReportUpdate, At
<1>2. r \in UpdateJob BY <1>1 DEF UpdateJob
<1>3. r.pc = "release" /\ r.op = updateJobs[j].op /\ r.helper = updateJobs[j].helper
      /\ JobSound(r)
  BY <1>1 DEF UpdateJob, JobSound
<1>4. updateJobs' = [updateJobs EXCEPT ![j] = r] /\ UNCHANGED <<slot, bar, hubExits>>
  BY DEF ReportUpdate
<1> QED BY <1>1, <1>2, <1>3, <1>4, JobStep DEF Alive

\* The slot comes free with the last thread, its bar idle.
LEMMA FreeStep ==
    ASSUME HubInv, NEW j \in Jobs, FreeSlot(j)
    PROVE  HubInv'
<1> DEFINE r == [updateJobs[j] EXCEPT !.pc = "over"]
<1>1. /\ updateJobs[j] \in UpdateJob /\ JobSound(updateJobs[j]) /\ updateJobs[j].pc = "release"
      /\ slot /\ j = Len(updateJobs)
  BY JobShape DEF HubInv, FreeSlot, At, ThreadHoldsSlot
<1>2. r \in UpdateJob /\ r.pc = "over" /\ r.helper # "alive" /\ JobSound(r)
  BY <1>1 DEF UpdateJob, JobSound
<1>3. updateJobs' = [updateJobs EXCEPT ![j] = r] /\ slot' = FALSE /\ UNCHANGED <<bar, hubExits>>
  BY DEF FreeSlot
<1>4. /\ updateJobs' \in Seq(UpdateJob) /\ Len(updateJobs') = Len(updateJobs)
      /\ Jobs' = Jobs /\ updateJobs'[j] = r
      /\ \A k \in Jobs : k # j => updateJobs'[k] = updateJobs[k]
  BY <1>2, <1>3, JobReplaced DEF HubInv, HubTypes, Jobs
<1>5. ~bar.active BY <1>1 DEF HubInv, BarFollowsStage
<1>6. HubTypes' BY <1>3, <1>4 DEF HubInv, HubTypes
<1>7. \A k \in Jobs' : JobSound(updateJobs'[k]) BY <1>2, <1>4 DEF HubInv
<1>8. ThreadHoldsSlot' BY <1>1, <1>2, <1>3, <1>4 DEF HubInv, ThreadHoldsSlot, Alive
<1>9. BarFollowsStage' BY <1>3, <1>5 DEF BarFollowsStage
<1> QED BY <1>6, <1>7, <1>8, <1>9 DEF HubInv

\* The helper prints into its pipe or ends, under a thread or after the Hub.
LEMMA HelperStep ==
    ASSUME HubInv, NEW j \in Jobs, Helper(j)
    PROVE  HubInv'
<1>1. updateJobs[j] \in UpdateJob /\ JobSound(updateJobs[j]) /\ Alive(j)
  BY JobShape DEF HubInv, Helper, HelperExits, HelperPrints
<1>2. ASSUME HelperExits(j)
      PROVE  HubInv'
  <2> DEFINE r == [updateJobs[j] EXCEPT !.helper = "gone"]
  <2>1. r \in UpdateJob BY <1>1 DEF UpdateJob
  <2>2. r.pc = updateJobs[j].pc /\ r.op = updateJobs[j].op /\ r.helper = "gone" /\ JobSound(r)
    BY <1>1 DEF UpdateJob, JobSound, Alive
  <2>3. updateJobs' = [updateJobs EXCEPT ![j] = r] /\ UNCHANGED <<slot, bar, hubExits>>
    BY <1>2 DEF HelperExits
  <2> QED BY <2>1, <2>2, <2>3, JobStep
<1>3. ASSUME NEW pct \in 0..(MaxPercent + 1), HelperPrints(j, pct)
      PROVE  HubInv'
  <2> DEFINE r == [updateJobs[j] EXCEPT !.left = @ - 1, !.pipe = Append(@, pct)]
  <2>1. updateJobs[j].left - 1 \in 0..MaxLines
    BY <1>1, <1>3, HubUpdatesAssumption DEF UpdateJob, HelperPrints
  <2>2. Append(updateJobs[j].pipe, pct) \in Seq(0..(MaxPercent + 1)) BY <1>1 DEF UpdateJob
  <2>3. r \in UpdateJob BY <1>1, <2>1, <2>2 DEF UpdateJob
  <2>4. r.pc = updateJobs[j].pc /\ r.op = updateJobs[j].op /\ r.helper = "alive" /\ JobSound(r)
    BY <1>1 DEF UpdateJob, JobSound, Alive
  <2>5. updateJobs' = [updateJobs EXCEPT ![j] = r] /\ UNCHANGED <<slot, bar, hubExits>>
    BY <1>3 DEF HelperPrints
  <2> QED BY <1>1, <2>3, <2>4, <2>5, JobStep
<1> QED BY <1>2, <1>3 DEF Helper

\* A reader takes a line only under the poll loop or before the join, so the
\* marker it applies is of the job that holds the slot.
LEMMA ReadStep ==
    ASSUME HubInv, NEW j \in Jobs, ReadLine(j)
    PROVE  HubInv'
<1> DEFINE r == [updateJobs[j] EXCEPT !.pipe = Tail(@)]
           marker == parse_stage_marker(j, Head(updateJobs[j].pipe))
<1>1. /\ updateJobs[j] \in UpdateJob /\ JobSound(updateJobs[j])
      /\ updateJobs[j].pipe # <<>> /\ updateJobs[j].pc \in {"watch", "join"}
      /\ slot /\ j = Len(updateJobs)
  BY JobShape DEF HubInv, ReadLine, ThreadHoldsSlot, JobSound
<1>2. /\ updateJobs[j].pipe \in Seq(0..(MaxPercent + 1))
      /\ Tail(updateJobs[j].pipe) \in Seq(0..(MaxPercent + 1))
      /\ Head(updateJobs[j].pipe) \in 0..(MaxPercent + 1)
  <2>1. ASSUME NEW S, NEW q \in Seq(S), q # <<>>
        PROVE  Tail(q) \in Seq(S) /\ Head(q) \in S
    BY <2>1
  <2>2. updateJobs[j].pipe \in Seq(0..(MaxPercent + 1)) BY <1>1 DEF UpdateJob
  <2> QED BY <1>1, <2>1, <2>2
<1>3. r \in UpdateJob BY <1>1, <1>2 DEF UpdateJob
<1>4. /\ r.pc = updateJobs[j].pc /\ r.op = updateJobs[j].op /\ r.helper = updateJobs[j].helper
      /\ JobSound(r)
  BY <1>1 DEF UpdateJob, JobSound
<1>5. updateJobs' = [updateJobs EXCEPT ![j] = r] /\ UNCHANGED <<slot, hubExits>>
  BY DEF ReadLine
<1>6. /\ updateJobs' \in Seq(UpdateJob) /\ Len(updateJobs') = Len(updateJobs)
      /\ Jobs' = Jobs /\ updateJobs'[j] = r
      /\ \A k \in Jobs : k # j => updateJobs'[k] = updateJobs[k]
  BY <1>3, <1>5, JobReplaced DEF HubInv, HubTypes, Jobs
<1>7. bar' = bar \/ (updateJobs[j].op = "stage" /\ bar' = marker)
  BY DEF ReadLine, merge_stage_snapshot
<1>8. /\ marker \in [pct : 0..MaxPercent, active : BOOLEAN, job : 0..Len(updateJobs)]
      /\ marker.job = Len(updateJobs)
  <2>1. \A h \in 0..(MaxPercent + 1) : (IF h > MaxPercent THEN MaxPercent ELSE h) \in 0..MaxPercent
    BY HubUpdatesAssumption
  <2>2. j \in 0..Len(updateJobs) BY <1>1, JobShape DEF HubInv
  <2> QED BY <1>1, <1>2, <2>1, <2>2 DEF parse_stage_marker
<1>9. HubTypes' BY <1>5, <1>6, <1>7, <1>8 DEF HubInv, HubTypes
<1>10. \A k \in Jobs' : JobSound(updateJobs'[k]) BY <1>4, <1>6 DEF HubInv
<1>11. ThreadHoldsSlot' BY <1>1, <1>4, <1>5, <1>6 DEF HubInv, ThreadHoldsSlot, Alive
<1>12. BarFollowsStage'
  <2>1. /\ Len(updateJobs') # 0 /\ updateJobs'[Len(updateJobs')].op = updateJobs[j].op
        /\ updateJobs'[Len(updateJobs')].pc \in {"watch", "join"}
    BY <1>1, <1>4, <1>6, JobShape DEF HubInv
  <2>2. bar'.active => bar'.job = Len(updateJobs) /\ updateJobs[j].op = "stage"
    BY <1>1, <1>7, <1>8 DEF HubInv, BarFollowsStage
  <2> QED BY <1>6, <2>1, <2>2 DEF BarFollowsStage
<1> QED BY <1>9, <1>10, <1>11, <1>12 DEF HubInv

\* The Hub dies: no job has a thread any more, and from here on its helpers
\* may outlive it.
LEMMA HubExitStep ==
    ASSUME HubInv, HubExits
    PROVE  HubInv'
<1> DEFINE r(j) == [updateJobs[j] EXCEPT !.pc = "over", !.pipe = <<>>, !.left = 0]
<1>1. updateJobs' = [j \in Jobs |-> r(j)] BY DEF HubExits
<1>2. ASSUME NEW j \in Jobs
      PROVE  r(j) \in UpdateJob /\ r(j).pc = "over" /\ JobSound(r(j))
  <2>1. updateJobs[j] \in UpdateJob BY JobShape DEF HubInv
  <2>2. <<>> \in Seq(0..(MaxPercent + 1)) /\ 0 \in 0..MaxLines BY HubUpdatesAssumption
  <2> QED BY <2>1, <2>2 DEF UpdateJob, JobSound
<1>3. Jobs = 1..Len(updateJobs) /\ Len(updateJobs) \in Nat BY JobShape DEF HubInv
<1>4. updateJobs' \in [1..Len(updateJobs) -> UpdateJob] BY <1>1, <1>2, <1>3
<1>5. /\ updateJobs' \in Seq(UpdateJob) /\ Len(updateJobs') = Len(updateJobs)
      /\ Jobs' = Jobs
  BY <1>3, <1>4 DEF Jobs
<1>6. \A j \in Jobs : updateJobs'[j].pc = "over" /\ JobSound(updateJobs'[j]) BY <1>1, <1>2
<1>7. slot' = FALSE /\ hubExits' \in Nat \ {0}
  <2>1. slot' = FALSE /\ hubExits' = hubExits + 1 BY DEF HubExits
  <2>2. hubExits \in Nat BY DEF HubInv, HubTypes
  <2> QED BY <2>1, <2>2
<1>8. bar' \in [pct : 0..MaxPercent, active : BOOLEAN, job : 0..Len(updateJobs)] /\ ~bar'.active
  <2>1. bar' = [pct |-> 0, active |-> FALSE, job |-> 0] BY DEF HubExits, IdleBar
  <2>2. 0 \in 0..MaxPercent /\ 0 \in 0..Len(updateJobs) BY <1>3, HubUpdatesAssumption
  <2> QED BY <2>1, <2>2
<1>9. HubTypes' BY <1>5, <1>7, <1>8 DEF HubTypes
<1>10. ThreadHoldsSlot' BY <1>5, <1>6, <1>7 DEF ThreadHoldsSlot
<1>11. BarFollowsStage' BY <1>8 DEF BarFollowsStage
<1> QED BY <1>5, <1>6, <1>9, <1>10, <1>11 DEF HubInv

\* HubInv is inductive.
LEMMA HubInvStep == HubInv /\ [HubNext]_hubVars => HubInv'
<1> SUFFICES ASSUME HubInv, [HubNext]_hubVars PROVE HubInv' OBVIOUS
<1>1. ASSUME NEW j \in Jobs, Thread(j)
      PROVE  HubInv'
  BY <1>1, SpawnStep, WatchStep, JoinStep, IdleStep, ReportStep, FreeStep DEF Thread
<1>2. CASE UNCHANGED hubVars
  BY <1>2 DEF hubVars, HubInv, HubTypes, ThreadHoldsSlot, BarFollowsStage, Jobs, Alive, JobSound
<1> QED
  BY <1>1, <1>2, LaunchStep, CancelStep, HelperStep, ReadStep, HubExitStep DEF HubNext

\* A Hub that has launched nothing satisfies HubInv.
LEMMA HubInvInit == HubInit => HubInv
<1> SUFFICES ASSUME HubInit PROVE HubInv OBVIOUS
<1>1. updateJobs = <<>> /\ Jobs = {} /\ Len(updateJobs) = 0 /\ updateJobs \in Seq(UpdateJob)
  BY DEF HubInit, Jobs
<1>2. bar \in [pct : 0..MaxPercent, active : BOOLEAN, job : 0..Len(updateJobs)] /\ ~bar.active
  BY <1>1, HubUpdatesAssumption DEF HubInit, IdleBar
<1> QED BY <1>1, <1>2 DEF HubInit, HubInv, HubTypes, ThreadHoldsSlot, BarFollowsStage

LEMMA HubInvariant == HubSpec => []HubInv
BY HubInvInit, HubInvStep, PTL DEF HubSpec

-----------------------------------------------------------------------------
(* Theorems.                                                               *)

\* Every value the update jobs, the bar and the slot take has its type: in
\* particular merge_stage_snapshot and parse_stage_marker keep the bar in
\* 0..MaxPercent whatever a helper prints.
THEOREM HubTypeCorrect == HubSpec => []HubTypeOK
<1>1. HubInv => HubTypeOK
  <2> SUFFICES ASSUME HubInv PROVE HubTypeOK OBVIOUS
  <2>1. \A j \in Jobs : updateJobs[j] \in UpdateJob BY JobShape DEF HubInv
  <2> QED BY <2>1 DEF HubInv, HubTypes, HubTypeOK, UpdateJob
<1> QED BY <1>1, HubInvariant, PTL

\* As long as the Hub lives at most one root helper is alive, and no job reads
\* complete or failed over a helper that still runs: the mutating slot of
\* take_mutating_slot is held until kill_and_join_readers returns.
THEOREM HelperIsAccounted == HubSpec => []HelperAccounted
<1>1. HubInv => HelperAccounted
  <2> SUFFICES ASSUME HubInv PROVE HelperAccounted OBVIOUS
  <2>1. OneHelper BY DEF HubInv, ThreadHoldsSlot, OneHelper
  <2>2. EndedMeansStopped BY DEF HubInv, JobSound, EndedMeansStopped, Alive
  <2> QED BY <2>1, <2>2 DEF HelperAccounted
<1> QED BY <1>1, HubInvariant, PTL

\* An active STAGE_PROGRESS is about the stage that holds the slot: no reader of
\* an earlier stage moves a later one's bar.
THEOREM BarStaysCurrent == HubSpec => []BarIsCurrent
<1>1. HubInv => BarIsCurrent
  <2> SUFFICES ASSUME HubInv, bar.active PROVE BarIsCurrent BY DEF BarIsCurrent
  <2>1. Len(updateJobs) \in Jobs BY JobShape DEF HubInv, BarFollowsStage
  <2> QED BY <2>1 DEF HubInv, BarFollowsStage, ThreadHoldsSlot, BarIsCurrent
<1> QED BY <1>1, HubInvariant, PTL

-----------------------------------------------------------------------------
(* A VPN connection: its inductive invariant                               *)

VpnStates == {"none"} \cup ReapableStates \cup LiveStates
VpnRuntimes == [state : VpnStates, stopped : BOOLEAN,
                generation : 0..MaxGenerations, slot : 0..MaxGenerations]
WorkerPcs == {"none", "spawn", "loop", "unlock", "lift", "open", "reap", "ended", "dropped",
              "engage", "lock", "locked", "unlocked", "end"}
VpnWorker == [pc : WorkerPcs, opened : BOOLEAN]
ReadingPcs == {"loop", "unlock", "lift", "open"}
AnnouncedPcs == {"unlock", "lift", "open", "locked", "unlocked"}
SignInPcs == {"idle", "replay", "claim", "terminate", "build", "launch", "served"}
MainPcs == {"idle", "terminate", "forget", "unlock", "lift", "open"}
ChildStates == {"none", "up", "ok", "failed", "killed"}
VpnThreads == {NoThread, MainThread} \cup SignIns

VpnTypes ==
    /\ runtime \in VpnRuntimes
    /\ consumed \in BOOLEAN /\ signInOpen \in BOOLEAN /\ revived \in BOOLEAN
    /\ liftSkipped \in BOOLEAN /\ overwritten \subseteq VpnGenerations
    /\ openconnect \in [VpnGenerations -> ChildStates]
    /\ takenBy \in [VpnGenerations -> VpnThreads]
    /\ vpnWorkers \in [VpnGenerations -> VpnWorker]
    /\ signIns \in [SignIns -> SignInPcs]
    /\ hubMain \in MainPcs
    /\ zone \in {"preset", "block"}
    /\ failClosed \in BOOLEAN /\ presetFlips \in Nat /\ disconnects \in Nat

\* The child in the slot was started and not reaped, and its worker reads it.
SlotSound ==
    runtime.slot # 0 =>
        /\ openconnect[runtime.slot] \in {"up", "ok", "failed"}
        /\ vpnWorkers[runtime.slot].pc \in ReadingPcs

\* Generations not reached have no worker; a job not yet connected has nothing
\* at all; the main thread is busy only with a disconnect.
VpnOrder ==
    /\ \A g \in VpnGenerations : g > runtime.generation => vpnWorkers[g].pc = "none"
    /\ runtime.state = "none" =>
          /\ runtime.generation = 0 /\ ~signInOpen /\ hubMain = "idle"
          /\ \A c \in SignIns : signIns[c] = "idle"
    /\ runtime.generation = 0 => runtime.state = "none"
    /\ hubMain # "idle" => disconnects # 0
    /\ disconnects = 0 => ~revived

\* The callbacks that used the cookie and have not launched the new worker yet.
Claimed == {c \in SignIns : signIns[c] \in {"terminate", "build", "launch"}}
NoneSpawning == \A g \in VpnGenerations : vpnWorkers[g].pc # "spawn"
NoneUp == \A g \in VpnGenerations : openconnect[g] # "up"

\* Before the first disconnect one callback reconnects, after the first worker
\* has spawned, and no child runs when it launches the second.
FirstSignIn ==
    disconnects = 0 =>
      /\ ~runtime.stopped
      /\ runtime.generation <= 1 /\ (signInOpen \/ \E c \in SignIns : signIns[c] # "idle")
            => NoneSpawning
      /\ ~consumed => Claimed = {} /\ runtime.generation <= 1
      /\ \A c, d \in Claimed : c = d
      /\ Claimed # {} => runtime.generation <= 1
      /\ (\E c \in SignIns : signIns[c] = "launch") => NoneUp

\* Until then the first worker reaps a child only when it has ended by itself, and
\* a child whose kill was refused is the one the callback waits for.
EarlyChildren ==
    disconnects = 0 =>
      /\ runtime.generation <= 1 =>
            \A g \in VpnGenerations : vpnWorkers[g].pc = "reap" => openconnect[g] # "up"
      /\ \A c \in SignIns : signIns[c] = "build" =>
            \A g \in VpnGenerations : openconnect[g] = "up" => takenBy[g] = c

\* A worker that is about to spawn is the only one, and no child runs.
SpawnsAlone ==
    ~revived => \A g, h \in VpnGenerations :
        vpnWorkers[g].pc = "spawn" =>
            openconnect[h] # "up" /\ (vpnWorkers[h].pc = "spawn" => h = g)

\* Reconnects launched or claimed are owed to the claim or to a claim a
\* disconnect gave back.
ClaimsCounted ==
    LET launched == runtime.generation - 1 - disconnects
        used == IF consumed THEN 1 ELSE 0
        returned == IF hubMain \in {"terminate", "forget"} THEN disconnects - 1 ELSE disconnects
    IN  launched + Cardinality(Claimed) <= used + returned

VpnInv == VpnTypes /\ VpnOrder /\ SlotSound /\ FirstSignIn /\ EarlyChildren /\ SpawnsAlone
          /\ TunnelsReachable /\ ClaimsCounted /\ BlockIsReported

LEMMA RuntimeTyped ==
    ASSUME NEW r \in VpnRuntimes
    PROVE  /\ \A s \in VpnStates : [r EXCEPT !.state = s] \in VpnRuntimes
           /\ SlotEmptied(r) \in VpnRuntimes
           /\ \A b \in BOOLEAN : [r EXCEPT !.stopped = b] \in VpnRuntimes
           /\ \A g \in VpnGenerations : [r EXCEPT !.slot = g] \in VpnRuntimes
           /\ r.generation < MaxGenerations => NextGeneration(r) \in VpnRuntimes
<1>1. MaxGenerations \in Nat /\ 0 \in 0..MaxGenerations /\ \A g \in VpnGenerations : g \in 0..MaxGenerations
  BY VpnAssumption DEF VpnGenerations
<1>2. r.generation < MaxGenerations => r.generation + 1 \in 0..MaxGenerations
  BY <1>1 DEF VpnRuntimes
<1> QED BY <1>1, <1>2 DEF VpnRuntimes, SlotEmptied, NextGeneration

\* The values the step of a worker may leave.
LEMMA WorkerTyped ==
    ASSUME NEW w \in VpnWorker, NEW b \in BOOLEAN,
           NEW pc \in WorkerPcs
    PROVE  /\ [w EXCEPT !.pc = pc] \in VpnWorker /\ [w EXCEPT !.pc = pc].pc = pc
           /\ [NoVpnWorker EXCEPT !.pc = pc] \in VpnWorker
           /\ [NoVpnWorker EXCEPT !.pc = pc].pc = pc
           /\ [w EXCEPT !.opened = b] \in VpnWorker /\ [w EXCEPT !.opened = b].pc = w.pc
BY DEF VpnWorker, NoVpnWorker

\* What a reached worker says about the job.
LEMMA WorkerReached ==
    ASSUME VpnInv, NEW g \in VpnGenerations, vpnWorkers[g].pc # "none"
    PROVE  /\ g <= runtime.generation /\ runtime.state # "none"
           /\ runtime.generation <= 1 =>
                 \A h \in VpnGenerations : h # g => vpnWorkers[h].pc = "none"
<1>1. runtime.generation \in Nat /\ runtime \in VpnRuntimes
  BY VpnAssumption DEF VpnInv, VpnTypes, VpnRuntimes
<1>2. g \in Nat /\ g >= 1 /\ \A h \in VpnGenerations : h \in Nat /\ h >= 1
  BY VpnAssumption DEF VpnGenerations
<1>3. ~(g > runtime.generation) BY DEF VpnInv, VpnOrder
<1>4. g <= runtime.generation BY <1>1, <1>2, <1>3
<1>5. runtime.generation # 0 BY <1>1, <1>2, <1>4
<1>6. runtime.state # "none" BY <1>5 DEF VpnInv, VpnOrder
<1>7. ASSUME runtime.generation <= 1, NEW h \in VpnGenerations, h # g
      PROVE  vpnWorkers[h].pc = "none"
  <2>0. h \in Nat /\ h >= 1 BY <1>2
  <2>1. h > runtime.generation BY <1>1, <1>2, <1>4, <1>7, <2>0
  <2> QED BY <2>1 DEF VpnInv, VpnOrder
<1> QED BY <1>4, <1>6, <1>7

\* The tag in the slot is a generation, with a child and a worker.
LEMMA SlotInRange ==
    ASSUME VpnInv, runtime.slot # 0
    PROVE  runtime.slot \in VpnGenerations /\ vpnWorkers[runtime.slot].pc \in ReadingPcs
<1>1. runtime \in VpnRuntimes /\ MaxGenerations \in Nat BY VpnAssumption DEF VpnInv, VpnTypes
<1>2. runtime.slot \in 0..MaxGenerations BY <1>1 DEF VpnRuntimes
<1> QED BY <1>1, <1>2 DEF VpnGenerations, VpnInv, SlotSound

\* A thread that takes a child is not one that takes none.
LEMMA ThreadsApart ==
    /\ NoThread \notin SignIns /\ MainThread \notin SignIns /\ NoThread # MainThread
BY VpnAssumption DEF NoThread, MainThread, SignIns

\* A worker's step that leaves the children alone.
LEMMA WorkerStep ==
    ASSUME VpnInv, NEW g \in VpnGenerations, NEW w \in VpnWorker,
           vpnWorkers' = [vpnWorkers EXCEPT ![g] = w],
           vpnWorkers[g].pc # "none", w.pc \notin {"none", "spawn"},
           w.pc = "reap" => vpnWorkers[g].pc = "reap",
           vpnWorkers[g].pc = "reap" => w.pc = "reap",
           UNCHANGED <<consumed, openconnect, takenBy, signIns, hubMain, failClosed, presetFlips,
                       disconnects, revived, overwritten>>,
           runtime' \in VpnRuntimes, runtime'.generation = runtime.generation,
           runtime'.slot = runtime.slot, runtime'.stopped = runtime.stopped,
           runtime'.state # "none" \/ runtime' = runtime,
           zone' \in {"preset", "block"}, liftSkipped' \in BOOLEAN, signInOpen' \in BOOLEAN,
           signInOpen' => signInOpen \/ vpnWorkers[g].pc # "spawn",
           vpnWorkers[g].pc \in ReadingPcs => w.pc \in ReadingPcs,
           BlockIsReported'
    PROVE  VpnInv'
<1>1. runtime.state # "none" /\ (runtime.generation <= 1 =>
          \A h \in VpnGenerations : h # g => vpnWorkers[h].pc = "none")
  BY WorkerReached
<1>2. vpnWorkers \in [VpnGenerations -> VpnWorker] BY DEF VpnInv, VpnTypes
<1>3. /\ vpnWorkers' \in [VpnGenerations -> VpnWorker] /\ vpnWorkers'[g] = w
      /\ \A h \in VpnGenerations : h # g => vpnWorkers'[h] = vpnWorkers[h]
  BY <1>2
<1>4. VpnTypes' BY <1>3 DEF VpnInv, VpnTypes
<1>5. VpnOrder' BY <1>1, <1>3 DEF VpnInv, VpnOrder
<1>11. SlotSound'
  <2>1. runtime.slot # 0 => runtime.slot \in VpnGenerations BY SlotInRange
  <2> QED BY <1>3, <2>1 DEF VpnInv, SlotSound
<1>6. FirstSignIn' BY <1>1, <1>3 DEF VpnInv, FirstSignIn, NoneSpawning, NoneUp, Claimed
<1>12. EarlyChildren' BY <1>3 DEF VpnInv, EarlyChildren
<1>7. SpawnsAlone' BY <1>3 DEF VpnInv, SpawnsAlone
<1>8. TunnelsReachable' BY <1>3 DEF VpnInv, TunnelsReachable, Awaited, ReadingPcs
<1>9. Claimed' = Claimed BY DEF Claimed
<1>10. ClaimsCounted' BY <1>9 DEF VpnInv, ClaimsCounted
<1> QED BY <1>4, <1>5, <1>6, <1>7, <1>8, <1>10, <1>11, <1>12 DEF VpnInv

\* The step of a callback that leaves the slot, the workers and the children
\* alone; it may have waited for a child, may use the cookie, and may give up.
LEMMA CallbackStep ==
    ASSUME VpnInv, NEW c \in SignIns, signIns[c] # "idle" \/ signInOpen,
           NEW pc \in {"claim", "replay", "terminate", "launch", "served"},
           signIns' = [signIns EXCEPT ![c] = pc],
           UNCHANGED <<vpnWorkers, openconnect, hubMain, zone, failClosed, presetFlips,
                       liftSkipped, disconnects, revived, overwritten>>,
           \/ signIns[c] = "build" /\ Reaped(c)
           \/ signIns[c] # "build" /\ UNCHANGED takenBy,
           runtime' \in VpnRuntimes, runtime'.generation = runtime.generation,
           runtime'.slot = runtime.slot, runtime'.stopped => runtime.stopped,
           runtime' = runtime \/ runtime'.state \in {"failed", "connecting"},
           signInOpen' \in BOOLEAN, signInOpen' => signInOpen, consumed' \in BOOLEAN,
           consumed => consumed', pc = "launch" => signIns[c] = "build",
           c \in Claimed \/ pc \notin {"terminate", "launch"} \/ (~consumed /\ consumed'),
           pc = "terminate" => signIns[c] = "claim"
    PROVE  VpnInv'
<1>0. signIns \in [SignIns -> SignInPcs]
  BY DEF VpnInv, VpnTypes
<1>1. /\ signIns' \in [SignIns -> SignInPcs]
      /\ signIns'[c] = pc /\ \A d \in SignIns : d # c => signIns'[d] = signIns[d]
  BY <1>0 DEF SignInPcs
<1>2. runtime.state # "none" BY DEF VpnInv, VpnOrder
<1>11. /\ takenBy' \in [VpnGenerations -> VpnThreads]
       /\ \A g \in VpnGenerations : takenBy[g] # c => takenBy'[g] = takenBy[g]
       /\ signIns[c] = "build" => \A g \in VpnGenerations : takenBy[g] = c => openconnect[g] # "up"
  <2>1. takenBy \in [VpnGenerations -> VpnThreads] BY DEF VpnInv, VpnTypes
  <2>2. NoThread \in VpnThreads BY DEF VpnThreads
  <2> QED BY <2>1, <2>2 DEF Reaped
<1>3. VpnTypes' BY <1>1, <1>11 DEF VpnInv, VpnTypes
<1>4. VpnOrder' BY <1>2 DEF VpnInv, VpnOrder
<1>5. Claimed' \subseteq Claimed \cup {c}
      /\ (c \in Claimed' => pc \in {"terminate", "launch"})
      /\ (c \notin Claimed' => Claimed' = Claimed \ {c})
      /\ (c \in Claimed' => Claimed' = Claimed \cup {c})
  BY <1>1 DEF Claimed
<1>6. FirstSignIn'
  <2> SUFFICES ASSUME disconnects' = 0 PROVE FirstSignIn' BY DEF FirstSignIn
  <2>0. disconnects = 0 /\ FirstSignIn BY DEF VpnInv
  <2>1. (runtime'.generation <= 1 /\ (signInOpen' \/ \E d \in SignIns : signIns'[d] # "idle"))
            => NoneSpawning'
    BY <2>0 DEF FirstSignIn, NoneSpawning
  <2>2. ~consumed' => Claimed' = {} /\ runtime'.generation <= 1
    <3> SUFFICES ASSUME ~consumed' PROVE Claimed' = {} /\ runtime'.generation <= 1 OBVIOUS
    <3>1. ~consumed /\ Claimed = {} /\ runtime.generation <= 1 BY <2>0 DEF FirstSignIn
    <3> QED BY <1>5, <3>1
  <2>3. \A d, e \in Claimed' : d = e
    <3>1. CASE c \in Claimed BY <1>5, <2>0, <3>1 DEF FirstSignIn
    <3>2. CASE c \notin Claimed /\ c \in Claimed'
      <4>1. ~consumed BY <1>5, <3>2
      <4>2. Claimed = {} BY <2>0, <4>1 DEF FirstSignIn
      <4> QED BY <1>5, <4>2
    <3>3. CASE c \notin Claimed /\ c \notin Claimed' BY <1>5, <2>0, <3>3 DEF FirstSignIn
    <3> QED BY <3>1, <3>2, <3>3
  <2>4. Claimed' # {} => runtime'.generation <= 1
    <3>1. CASE c \in Claimed BY <1>5, <2>0, <3>1 DEF FirstSignIn
    <3>2. CASE c \notin Claimed /\ c \in Claimed'
      <4>1. ~consumed BY <1>5, <3>2
      <4> QED BY <2>0, <4>1 DEF FirstSignIn
    <3>3. CASE c \notin Claimed /\ c \notin Claimed' BY <1>5, <2>0, <3>3 DEF FirstSignIn
    <3> QED BY <3>1, <3>2, <3>3
  <2>5. (\E d \in SignIns : signIns'[d] = "launch") => NoneUp'
    <3>1. CASE pc = "launch"
      <4>1. \A g \in VpnGenerations : openconnect[g] = "up" => takenBy[g] = c
        BY <2>0, <3>1 DEF VpnInv, EarlyChildren
      <4> QED BY <1>11, <3>1, <4>1 DEF NoneUp
    <3>2. CASE pc # "launch" BY <1>1, <2>0, <3>2 DEF FirstSignIn, NoneUp
    <3> QED BY <3>1, <3>2
  <2>6. ~runtime'.stopped BY <2>0 DEF FirstSignIn
  <2> QED BY <2>1, <2>2, <2>3, <2>4, <2>5, <2>6 DEF FirstSignIn
<1>12. EarlyChildren'
  <2> SUFFICES ASSUME disconnects = 0 PROVE EarlyChildren' BY DEF EarlyChildren
  <2>1. ASSUME NEW d \in SignIns, signIns'[d] = "build",
               NEW g \in VpnGenerations, openconnect'[g] = "up"
        PROVE  takenBy'[g] = d
    <3>1. d # c /\ signIns[d] = "build" BY <1>1, <2>1
    <3>2. takenBy[g] = d BY <2>1, <3>1 DEF VpnInv, EarlyChildren
    <3> QED BY <1>11, <3>1, <3>2
  <2> QED BY <2>1 DEF VpnInv, EarlyChildren
<1>13. SlotSound' BY DEF VpnInv, SlotSound
<1>7. SpawnsAlone' BY DEF VpnInv, SpawnsAlone
<1>8. TunnelsReachable'
  <2> SUFFICES ASSUME NEW g \in VpnGenerations, openconnect[g] = "up"
               PROVE  \/ runtime'.slot = g /\ vpnWorkers'[g].pc \in ReadingPcs
                      \/ Awaited(g)'
                      \/ g \in overwritten'
    BY DEF VpnInv, TunnelsReachable, ReadingPcs
  <2>1. Awaited(g) => Awaited(g)'
    <3>1. CASE hubMain = "forget" /\ takenBy[g] = MainThread
      <4>1. takenBy[g] # c BY <3>1, ThreadsApart
      <4> QED BY <1>11, <3>1, <4>1 DEF Awaited
    <3>2. CASE takenBy[g] \in SignIns /\ signIns[takenBy[g]] = "build"
      <4>1. takenBy[g] # c BY <1>11, <3>2
      <4> QED BY <1>1, <1>11, <3>2, <4>1 DEF Awaited
    <3>3. CASE vpnWorkers[g].pc = "reap" BY <3>3 DEF Awaited
    <3> QED BY <3>1, <3>2, <3>3 DEF Awaited
  <2> QED BY <2>1 DEF VpnInv, TunnelsReachable, ReadingPcs
<1>9. ClaimsCounted'
  <2>1. IsFiniteSet(Claimed) /\ Cardinality(Claimed) \in Nat
    <3>1. MaxCallbacks \in Nat BY VpnAssumption
    <3>2. IsFiniteSet(SignIns) BY <3>1, FS_Interval DEF SignIns
    <3>3. Claimed \subseteq SignIns BY DEF Claimed
    <3> QED BY <3>2, <3>3, FS_Subset, FS_CardinalityType
  <2>2. /\ Cardinality(Claimed') \in Nat
        /\ Cardinality(Claimed') <= Cardinality(Claimed) + 1
        /\ Cardinality(Claimed') > Cardinality(Claimed) => c \notin Claimed /\ c \in Claimed'
    <3>1. CASE c \in Claimed'
      <4>1. Claimed' = Claimed \cup {c} BY <1>5, <3>1
      <4>2. Cardinality(Claimed') =
              IF c \in Claimed THEN Cardinality(Claimed) ELSE Cardinality(Claimed) + 1
        BY <2>1, <4>1, FS_AddElement
      <4> QED BY <2>1, <3>1, <4>2
    <3>2. CASE c \notin Claimed'
      <4>1. Claimed' = Claimed \ {c} BY <1>5, <3>2
      <4>2. Cardinality(Claimed') =
              IF c \in Claimed THEN Cardinality(Claimed) - 1 ELSE Cardinality(Claimed)
        BY <2>1, <4>1, FS_RemoveElement
      <4>3. IsFiniteSet(Claimed') BY <2>1, <4>1, FS_RemoveElement
      <4>4. Cardinality(Claimed') \in Nat BY <4>3, FS_CardinalityType
      <4> QED BY <2>1, <4>2, <4>4
    <3> QED BY <3>1, <3>2
  <2>3. Cardinality(Claimed') > Cardinality(Claimed) => ~consumed /\ consumed'
    BY <1>5, <2>2
  <2>4. runtime.generation \in Nat /\ disconnects \in Nat /\ consumed \in BOOLEAN
    BY VpnAssumption DEF VpnInv, VpnTypes, VpnRuntimes
  <2> DEFINE n == Cardinality(Claimed)
             m == Cardinality(Claimed')
             launched == runtime.generation - 1 - disconnects
             returned == IF hubMain \in {"terminate", "forget"} THEN disconnects - 1
                         ELSE disconnects
  <2>5. launched + n <= (IF consumed THEN 1 ELSE 0) + returned BY DEF VpnInv, ClaimsCounted
  <2>6. launched \in Int /\ returned \in Int BY <2>4
  <2>7. m \in Nat /\ n \in Nat /\ m <= n + 1 /\ (m > n => ~consumed /\ consumed')
    BY <2>1, <2>2, <2>3
  <2> HIDE DEF launched, returned, m, n
  <2>8. launched + m <= (IF consumed' THEN 1 ELSE 0) + returned
    BY <2>4, <2>5, <2>6, <2>7
  <2> QED BY <2>8 DEF ClaimsCounted, launched, returned, m
<1>10. BlockIsReported' BY DEF VpnInv, BlockIsReported, Releasing, Reporting
<1> QED BY <1>3, <1>4, <1>6, <1>7, <1>8, <1>9, <1>10, <1>12, <1>13 DEF VpnInv

\* set_vpn_lockdown(false) leaves the block only when firewall-cmd failed or when
\* it was skipped.
LEMMA Released ==
    ASSUME VpnInv
    PROVE  /\ SkipsLift => /\ zone' \in {"preset", "block"} /\ liftSkipped' \in BOOLEAN
                           /\ zone' = "block" => liftSkipped'
           /\ \A ok \in BOOLEAN : Lifts(ok) =>
                 /\ zone' \in {"preset", "block"} /\ liftSkipped' \in BOOLEAN
                 /\ ok => zone' = "preset"
<1>1. zone \in {"preset", "block"} /\ liftSkipped \in BOOLEAN BY DEF VpnInv, VpnTypes
<1> QED BY <1>1 DEF SkipsLift, Lifts

LEMMA StateWritten ==
    ASSUME VpnInv, NEW s \in VpnStates \ {"none"}, SetState(s)
    PROVE  /\ runtime' \in VpnRuntimes /\ runtime'.generation = runtime.generation
           /\ runtime'.slot = runtime.slot /\ runtime'.state = s /\ runtime'.stopped = runtime.stopped
<1>1. runtime \in VpnRuntimes BY DEF VpnInv, VpnTypes
<1> QED BY <1>1 DEF SetState, VpnRuntimes

LEMMA WorkerReadsKeeps ==
    ASSUME VpnInv, NEW g \in VpnGenerations, WorkerReads(g)
    PROVE  VpnInv'
<1>1. /\ vpnWorkers[g] \in VpnWorker /\ vpnWorkers[g].pc = "loop"
      /\ vpnWorkers \in [VpnGenerations -> VpnWorker] /\ signInOpen \in BOOLEAN
      /\ runtime \in VpnRuntimes /\ zone \in {"preset", "block"}
  BY DEF VpnInv, VpnTypes, WorkerReads
<1>2. \A s \in {"authentication_required", "failed", "connected", "connecting"} :
        s \in VpnStates \ {"none"}
  BY DEF VpnStates, ReapableStates, LiveStates
<1>3. /\ UNCHANGED <<consumed, openconnect, takenBy, signIns, hubMain, zone, failClosed,
                     presetFlips, liftSkipped, disconnects, revived, overwritten>>
      /\ liftSkipped \in BOOLEAN
  BY DEF WorkerReads, vpnChildren, vpnNetwork, vpnPreset, vpnHistory, VpnInv, VpnTypes
<1>4. CASE /\ vpnWorkers' = [vpnWorkers EXCEPT ![g].opened = TRUE]
           /\ OpenSamlWindow
  <2> DEFINE w == [vpnWorkers[g] EXCEPT !.opened = TRUE]
  <2>1. w \in VpnWorker /\ w.pc = "loop" BY <1>1, WorkerTyped DEF WorkerPcs
  <2>2. vpnWorkers' = [vpnWorkers EXCEPT ![g] = w] BY <1>1, <1>4
  <2> HIDE DEF w
  <2>3. signInOpen' \in BOOLEAN BY <1>1, <1>4 DEF OpenSamlWindow
  <2>4. SetState("authentication_required") \/ SetState("failed") BY <1>4 DEF OpenSamlWindow
  <2>5. /\ runtime' \in VpnRuntimes /\ runtime'.generation = runtime.generation
        /\ runtime'.slot = runtime.slot /\ runtime'.stopped = runtime.stopped
        /\ runtime'.state \in {"authentication_required", "failed"}
    BY <1>2, <2>4, StateWritten
  <2>6. BlockIsReported' BY <2>5 DEF BlockIsReported
  <2> QED BY <1>1, <1>3, <2>1, <2>2, <2>3, <2>5, <2>6, WorkerStep DEF ReadingPcs
<1>5. CASE /\ SetState("authentication_required") \/ SetState("connecting")
           /\ UNCHANGED <<vpnWorkers, signInOpen>>
  <2> DEFINE w == vpnWorkers[g]
  <2>1. vpnWorkers' = [vpnWorkers EXCEPT ![g] = w] BY <1>1, <1>5
  <2>2. /\ runtime' \in VpnRuntimes /\ runtime'.generation = runtime.generation
        /\ runtime'.slot = runtime.slot /\ runtime'.stopped = runtime.stopped
        /\ runtime'.state \in {"authentication_required", "connecting"}
    BY <1>2, <1>5, StateWritten
  <2>3. BlockIsReported' BY <2>2 DEF BlockIsReported
  <2>4. w \in VpnWorker /\ w.pc = "loop" /\ signInOpen' = signInOpen BY <1>1, <1>5
  <2> HIDE DEF w
  <2> QED BY <1>1, <1>3, <2>1, <2>2, <2>3, <2>4, WorkerStep DEF ReadingPcs
<1>6. CASE SetState("connected") /\ WorkerGoes(g, "unlock") /\ UNCHANGED signInOpen
  <2> DEFINE w == [vpnWorkers[g] EXCEPT !.pc = "unlock"]
  <2>1. w \in VpnWorker /\ w.pc = "unlock" BY <1>1, WorkerTyped DEF WorkerPcs
  <2>2. vpnWorkers' = [vpnWorkers EXCEPT ![g] = w] BY <1>1, <1>6 DEF WorkerGoes
  <2>3. /\ runtime' \in VpnRuntimes /\ runtime'.generation = runtime.generation
        /\ runtime'.slot = runtime.slot /\ runtime'.state = "connected"
        /\ runtime'.stopped = runtime.stopped
    BY <1>2, <1>6, StateWritten
  <2> HIDE DEF w
  <2>4. vpnWorkers'[g].pc = "unlock" BY <1>1, <2>1, <2>2
  <2>5. BlockIsReported' BY <2>4 DEF BlockIsReported, Releasing
  <2> QED BY <1>1, <1>3, <1>6, <2>1, <2>2, <2>3, <2>5, WorkerStep DEF ReadingPcs
<1> QED BY <1>4, <1>5, <1>6 DEF WorkerReads

LEMMA WorkerUnlocksKeeps ==
    ASSUME VpnInv, NEW g \in VpnGenerations,
           \/ WorkerUnlocks(g) \/ WorkerLifts(g)
           \/ WorkerReports(g) /\ vpnWorkers[g].pc = "open"
    PROVE  VpnInv'
<1>1. /\ vpnWorkers[g] \in VpnWorker /\ vpnWorkers[g].pc \in {"unlock", "lift", "open"}
      /\ vpnWorkers \in [VpnGenerations -> VpnWorker] /\ signInOpen \in BOOLEAN
      /\ runtime \in VpnRuntimes /\ zone \in {"preset", "block"} /\ liftSkipped \in BOOLEAN
  BY DEF VpnInv, VpnTypes, WorkerUnlocks, WorkerLifts
<1>2. UNCHANGED <<consumed, signInOpen, openconnect, takenBy, signIns, hubMain, failClosed,
                  presetFlips, disconnects, revived, overwritten>>
  BY DEF WorkerUnlocks, WorkerLifts, WorkerReports, vpnChildren, vpnNetwork, vpnPreset, vpnHistory
<1>3. PICK pc \in {"loop", "lift", "open"} :
        /\ WorkerGoes(g, pc)
        /\ runtime' = runtime \/ SetState("connected_firewall_open")
        /\ zone' \in {"preset", "block"} /\ liftSkipped' \in BOOLEAN
        /\ \/ pc \in {"lift", "open"}
           \/ zone' = "preset"
           \/ zone' = "block" => liftSkipped'
           \/ SetState("connected_firewall_open")
  <2>1. CASE WorkerUnlocks(g)
    <3>1. PICK enabled \in LoadedFailClosed :
            \/ enabled /\ WorkerGoes(g, "lift") /\ UNCHANGED <<zone, liftSkipped>>
            \/ ~enabled /\ WorkerGoes(g, "loop") /\ SkipsLift
      BY <2>1 DEF WorkerUnlocks
    <3>2. runtime' = runtime BY <2>1 DEF WorkerUnlocks
    <3> QED BY <1>1, <3>1, <3>2, Released
  <2>2. CASE WorkerLifts(g)
    <3>1. PICK ok \in BOOLEAN : Lifts(ok) /\ WorkerGoes(g, IF ok THEN "loop" ELSE "open")
      BY <2>2 DEF WorkerLifts
    <3>2. runtime' = runtime BY <2>2 DEF WorkerLifts
    <3> QED BY <3>1, <3>2, Released
  <2>3. CASE WorkerReports(g) /\ vpnWorkers[g].pc = "open"
    BY <1>1, <2>3 DEF WorkerReports, vpnNetwork
  <2> QED BY <2>1, <2>2, <2>3
<1>4. "connected_firewall_open" \in VpnStates \ {"none"} BY DEF VpnStates, LiveStates
<1>5. /\ runtime' \in VpnRuntimes /\ runtime'.generation = runtime.generation
      /\ runtime'.slot = runtime.slot /\ runtime'.stopped = runtime.stopped
      /\ (runtime' = runtime \/ runtime'.state = "connected_firewall_open")
      /\ SetState("connected_firewall_open") => runtime'.state = "connected_firewall_open"
  BY <1>1, <1>3, <1>4, StateWritten
<1> DEFINE w == [vpnWorkers[g] EXCEPT !.pc = pc]
<1>6. w \in VpnWorker /\ w.pc = pc
  <2>1. pc \in WorkerPcs BY DEF WorkerPcs
  <2> QED BY <1>1, <2>1, WorkerTyped
<1>7. vpnWorkers' = [vpnWorkers EXCEPT ![g] = w] BY <1>1, <1>3 DEF WorkerGoes
<1> HIDE DEF w
<1>8. vpnWorkers'[g].pc = pc BY <1>1, <1>6, <1>7
<1>9. BlockIsReported' BY <1>3, <1>5, <1>8 DEF BlockIsReported, Releasing
<1>10. runtime'.state # "none" \/ runtime' = runtime BY <1>5
<1>11. pc \in ReadingPcs /\ pc \notin {"none", "spawn", "reap"} BY DEF ReadingPcs
<1> QED BY <1>1, <1>2, <1>3, <1>5, <1>6, <1>7, <1>9, <1>10, <1>11, WorkerStep

LEMMA WorkerSettlesKeeps ==
    ASSUME VpnInv, NEW g \in VpnGenerations,
           \/ WorkerSettles(g) \/ WorkerEngages(g) \/ WorkerLocks(g)
           \/ WorkerReports(g) /\ vpnWorkers[g].pc # "open"
    PROVE  VpnInv'
<1> DEFINE Ends == {"disconnected", "failed", "failed_lockdown", "failed_lockdown_open"}
<1>1. /\ vpnWorkers[g] \in VpnWorker
      /\ vpnWorkers[g].pc \in {"ended", "dropped", "engage", "lock", "locked", "unlocked"}
      /\ vpnWorkers \in [VpnGenerations -> VpnWorker] /\ signInOpen \in BOOLEAN
      /\ runtime \in VpnRuntimes /\ zone \in {"preset", "block"} /\ liftSkipped \in BOOLEAN
  BY DEF VpnInv, VpnTypes, WorkerSettles, WorkerEngages, WorkerLocks, WorkerReports
<1>2. \A s \in Ends : s \in VpnStates \ {"none"} BY DEF VpnStates, ReapableStates
<1>3. UNCHANGED <<consumed, signInOpen, openconnect, takenBy, signIns, hubMain, failClosed,
                  presetFlips, disconnects, revived, overwritten>>
  BY DEF WorkerSettles, WorkerEngages, WorkerLocks, WorkerReports, vpnChildren, vpnNetwork,
         vpnPreset, vpnHistory
<1>4. PICK pc \in {"end", "engage", "lock", "locked", "unlocked"} :
        /\ WorkerStops(g, pc)
        /\ zone' \in {"preset", "block"} /\ liftSkipped' \in BOOLEAN
        /\ \/ /\ runtime' = runtime
              /\ \/ /\ pc \notin {"locked", "unlocked"} /\ UNCHANGED <<zone, liftSkipped>>
                    /\ vpnWorkers[g].pc \in {"ended", "dropped", "engage"}
                 \/ pc \in {"locked", "unlocked"}
           \/ \E s \in Ends : SetState(s)
  <2>1. CASE WorkerSettles(g) BY <1>1, <2>1 DEF WorkerSettles, vpnNetwork
  <2>2. CASE WorkerEngages(g) BY <1>1, <2>2 DEF WorkerEngages, vpnNetwork
  <2>3. CASE WorkerLocks(g) BY <1>1, <2>3 DEF WorkerLocks
  <2>4. CASE WorkerReports(g) /\ vpnWorkers[g].pc # "open"
    BY <1>1, <2>4 DEF WorkerReports, vpnNetwork
  <2> QED BY <2>1, <2>2, <2>3, <2>4
<1> DEFINE w == [NoVpnWorker EXCEPT !.pc = pc]
<1>5. w \in VpnWorker /\ w.pc = pc
  <2>1. pc \in WorkerPcs BY DEF WorkerPcs
  <2> QED BY <1>1, <2>1, WorkerTyped
<1>6. vpnWorkers' = [vpnWorkers EXCEPT ![g] = w] BY <1>4 DEF WorkerStops
<1> HIDE DEF w
<1>7. /\ vpnWorkers'[g].pc = pc
      /\ \A h \in VpnGenerations : h # g => vpnWorkers'[h] = vpnWorkers[h]
  BY <1>1, <1>5, <1>6
<1>8. vpnWorkers[g].pc \notin ReadingPcs /\ vpnWorkers[g].pc \notin {"none", "spawn", "reap"}
      /\ pc \notin {"none", "spawn", "reap"}
  BY <1>1 DEF ReadingPcs
<1>9. CASE runtime' = runtime
  <2>1. BlockIsReported'
    <3>1. CASE pc \in {"locked", "unlocked"} BY <1>7, <3>1 DEF BlockIsReported, Reporting
    <3>2. CASE /\ UNCHANGED <<zone, liftSkipped>>
               /\ vpnWorkers[g].pc \in {"ended", "dropped", "engage"}
      <4>1. (Releasing => Releasing') /\ (Reporting => Reporting')
        BY <1>3, <1>7, <3>2 DEF Releasing, Reporting
      <4> QED BY <1>9, <3>2, <4>1 DEF VpnInv, BlockIsReported
    <3>3. CASE \E s \in Ends : SetState(s)
      <4>1. PICK s \in Ends : SetState(s) BY <3>3
      <4>2. runtime'.state = s BY <1>2, <4>1, StateWritten
      <4> QED BY <4>2 DEF BlockIsReported
    <3> QED BY <1>4, <3>1, <3>2, <3>3
  <2> QED BY <1>1, <1>3, <1>4, <1>5, <1>6, <1>8, <1>9, <2>1, WorkerStep
<1>10. CASE \E s \in Ends : SetState(s)
  <2>1. PICK s \in Ends : SetState(s) BY <1>10
  <2>2. /\ runtime' \in VpnRuntimes /\ runtime'.generation = runtime.generation
        /\ runtime'.slot = runtime.slot /\ runtime'.state = s /\ runtime'.stopped = runtime.stopped
    BY <1>2, <2>1, StateWritten
  <2>3. BlockIsReported' BY <2>2 DEF BlockIsReported
  <2>4. runtime'.state # "none" BY <2>2
  <2> QED BY <1>1, <1>3, <1>4, <1>5, <1>6, <1>8, <2>2, <2>3, <2>4, WorkerStep
<1> QED BY <1>4, <1>9, <1>10

LEMMA WorkerSpawnsKeeps ==
    ASSUME VpnInv, NEW g \in VpnGenerations, WorkerSpawns(g)
    PROVE  VpnInv'
<1>1. /\ vpnWorkers[g] \in VpnWorker /\ vpnWorkers[g].pc = "spawn"
      /\ vpnWorkers \in [VpnGenerations -> VpnWorker] /\ signInOpen \in BOOLEAN
      /\ runtime \in VpnRuntimes /\ zone \in {"preset", "block"} /\ liftSkipped \in BOOLEAN
      /\ openconnect \in [VpnGenerations -> ChildStates]
  BY DEF VpnInv, VpnTypes, WorkerSpawns
<1>2. UNCHANGED <<consumed, signInOpen, takenBy, signIns, hubMain, zone, failClosed, presetFlips,
                  liftSkipped, disconnects, revived>>
  BY DEF WorkerSpawns, vpnNetwork, vpnPreset
<1>3. CASE SetState("failed") /\ WorkerStops(g, "end") /\ UNCHANGED <<openconnect, overwritten>>
  <2> DEFINE w == [NoVpnWorker EXCEPT !.pc = "end"]
  <2>1. w \in VpnWorker /\ w.pc = "end" BY <1>1, WorkerTyped DEF WorkerPcs
  <2>2. vpnWorkers' = [vpnWorkers EXCEPT ![g] = w] BY <1>3 DEF WorkerStops
  <2>3. "failed" \in VpnStates \ {"none"} BY DEF VpnStates, ReapableStates
  <2>4. /\ runtime' \in VpnRuntimes /\ runtime'.generation = runtime.generation
        /\ runtime'.slot = runtime.slot /\ runtime'.state = "failed"
        /\ runtime'.stopped = runtime.stopped
    BY <1>3, <2>3, StateWritten
  <2>5. BlockIsReported' BY <2>4 DEF BlockIsReported
  <2>6. "spawn" \notin ReadingPcs BY DEF ReadingPcs
  <2> HIDE DEF w
  <2> QED BY <1>1, <1>2, <1>3, <2>1, <2>2, <2>4, <2>5, <2>6, WorkerStep
<1>4. CASE /\ openconnect' = [openconnect EXCEPT ![g] = "up"]
           /\ runtime' = [runtime EXCEPT !.slot = g]
           /\ overwritten' = overwritten \cup
                  {h \in VpnGenerations : h = runtime.slot /\ openconnect[h] = "up"}
           /\ WorkerGoes(g, "loop")
  <2>1. /\ runtime' \in VpnRuntimes /\ runtime'.generation = runtime.generation
        /\ runtime'.state = runtime.state /\ runtime'.stopped = runtime.stopped
    BY <1>1, <1>4, RuntimeTyped DEF VpnRuntimes
  <2>2. runtime'.slot = g BY <1>1, <1>4 DEF VpnRuntimes
  <2>3. /\ openconnect' \in [VpnGenerations -> ChildStates]
        /\ openconnect'[g] = "up"
        /\ \A h \in VpnGenerations : h # g => openconnect'[h] = openconnect[h]
    BY <1>1, <1>4 DEF ChildStates
  <2> DEFINE w == [vpnWorkers[g] EXCEPT !.pc = "loop"]
  <2>4. w \in VpnWorker /\ w.pc = "loop" BY <1>1, WorkerTyped DEF WorkerPcs
  <2>5. vpnWorkers' = [vpnWorkers EXCEPT ![g] = w] BY <1>4 DEF WorkerGoes
  <2> HIDE DEF w
  <2>6. /\ vpnWorkers' \in [VpnGenerations -> VpnWorker] /\ vpnWorkers'[g].pc = "loop"
        /\ \A h \in VpnGenerations : h # g => vpnWorkers'[h] = vpnWorkers[h]
    BY <1>1, <2>4, <2>5
  <2>7. g <= runtime.generation /\ runtime.state # "none" BY <1>1, WorkerReached
  <2>8. VpnTypes'
    <3>1. overwritten' \subseteq VpnGenerations BY <1>4 DEF VpnInv, VpnTypes
    <3> QED BY <1>2, <2>1, <2>3, <2>6, <3>1 DEF VpnInv, VpnTypes
  <2>9. VpnOrder'
    <3>1. ~(g > runtime.generation)
      <4>1. g \in Int /\ runtime.generation \in Int
        BY <1>1, VpnAssumption DEF VpnGenerations, VpnRuntimes
      <4> QED BY <2>7, <4>1
    <3> QED BY <1>2, <2>1, <2>6, <2>7, <3>1 DEF VpnInv, VpnOrder
  <2>15. SlotSound' BY <2>2, <2>3, <2>6 DEF SlotSound, ReadingPcs
  <2>16. (disconnects = 0 /\ \E c \in SignIns : signIns[c] \in {"build", "launch"}) => FALSE
    <3>1. (disconnects = 0 /\ \E c \in SignIns : signIns[c] # "idle") => runtime.generation > 1
      <4>1. ~NoneSpawning BY <1>1 DEF NoneSpawning
      <4>2. runtime.generation \in Int BY <1>1, VpnAssumption DEF VpnRuntimes
      <4> QED BY <4>1, <4>2 DEF VpnInv, FirstSignIn
    <3>2. (disconnects = 0 /\ Claimed # {}) => FALSE
      <4> SUFFICES ASSUME disconnects = 0, Claimed # {} PROVE FALSE OBVIOUS
      <4>1. \E c \in SignIns : signIns[c] # "idle" BY DEF Claimed
      <4>2. runtime.generation \in Int BY <1>1, VpnAssumption DEF VpnRuntimes
      <4>3. runtime.generation <= 1 BY DEF VpnInv, FirstSignIn
      <4> QED BY <3>1, <4>1, <4>2, <4>3
    <3> QED BY <3>2 DEF Claimed
  <2>10. FirstSignIn'
    <3>1. Claimed' = Claimed BY <1>2 DEF Claimed
    <3>2. NoneSpawning => NoneSpawning' BY <1>1 DEF NoneSpawning
    <3> QED BY <1>2, <2>1, <2>16, <3>1, <3>2 DEF VpnInv, FirstSignIn
  <2>17. EarlyChildren' BY <1>2, <2>1, <2>3, <2>6, <2>16 DEF VpnInv, EarlyChildren
  <2>11. SpawnsAlone'
    <3> SUFFICES ASSUME ~revived, NEW h \in VpnGenerations, vpnWorkers'[h].pc = "spawn"
                 PROVE  FALSE
      BY <1>2 DEF SpawnsAlone
    <3> QED BY <1>1, <2>6 DEF VpnInv, SpawnsAlone
  <2>12. TunnelsReachable'
    <3>1. ASSUME NEW h \in VpnGenerations, openconnect'[h] = "up"
          PROVE  \/ runtime'.slot = h /\ vpnWorkers'[h].pc \in ReadingPcs
                 \/ Awaited(h)'
                 \/ h \in overwritten'
      <4>1. CASE h = g BY <2>2, <2>6, <4>1 DEF ReadingPcs
      <4>2. CASE h # g
        <5>1. openconnect[h] = "up" /\ vpnWorkers'[h] = vpnWorkers[h] BY <2>3, <2>6, <3>1, <4>2
        <5>2. runtime.slot = h \/ Awaited(h) \/ h \in overwritten
          BY <5>1 DEF VpnInv, TunnelsReachable
        <5>3. Awaited(h) => Awaited(h)' BY <1>2, <5>1 DEF Awaited
        <5> QED BY <1>4, <5>1, <5>2, <5>3
      <4> QED BY <4>1, <4>2
    <3>2. ASSUME ~revived PROVE overwritten' = {}
      <4>1. overwritten = {} BY <3>2 DEF VpnInv, TunnelsReachable
      <4>2. \A h \in VpnGenerations : openconnect[h] # "up"
        BY <1>1, <3>2 DEF VpnInv, SpawnsAlone
      <4> QED BY <1>4, <4>1, <4>2
    <3> QED BY <1>2, <3>1, <3>2 DEF TunnelsReachable, ReadingPcs
  <2>13. ClaimsCounted'
    <3>1. Claimed' = Claimed BY <1>2 DEF Claimed
    <3> QED BY <1>2, <2>1, <3>1 DEF VpnInv, ClaimsCounted
  <2>14. BlockIsReported'
    <3>1. (Releasing => Releasing') /\ (Reporting => Reporting')
      BY <1>1, <1>2, <2>6 DEF Releasing, Reporting
    <3> QED BY <1>2, <2>1, <3>1 DEF VpnInv, BlockIsReported
  <2> QED BY <2>8, <2>9, <2>10, <2>11, <2>12, <2>13, <2>14, <2>15, <2>17 DEF VpnInv
<1> QED BY <1>3, <1>4 DEF WorkerSpawns

LEMMA EmptiedSlot ==
    ASSUME NEW r \in VpnRuntimes
    PROVE  LET e == SlotEmptied(r)
           IN  /\ e \in VpnRuntimes /\ e.generation = r.generation /\ e.state = r.state
               /\ e.slot = 0 /\ e.stopped = r.stopped
<1>1. SlotEmptied(r) \in VpnRuntimes BY RuntimeTyped
<1>2. SlotEmptied(r) = [r EXCEPT !.slot = 0] BY DEF SlotEmptied
<1> QED BY <1>1, <1>2 DEF VpnRuntimes

\* The end of some children, or of a worker that is done with its own; the
\* caller shows who is left to find the children that still run.
LEMMA ChildrenStep ==
    ASSUME VpnInv,
           openconnect' \in [VpnGenerations -> ChildStates],
           takenBy' \in [VpnGenerations -> VpnThreads],
           \A g \in VpnGenerations : openconnect'[g] = "up" => openconnect[g] = "up",
           vpnWorkers' \in [VpnGenerations -> VpnWorker],
           \A g \in VpnGenerations :
              /\ vpnWorkers'[g].pc = "spawn" => vpnWorkers[g].pc = "spawn"
              /\ vpnWorkers[g].pc = "none" => vpnWorkers'[g].pc = "none"
              /\ vpnWorkers[g].pc \in AnnouncedPcs => vpnWorkers'[g].pc = vpnWorkers[g].pc,
           runtime' = runtime \/ runtime' = SlotEmptied(runtime),
           SlotSound', EarlyChildren', TunnelsReachable',
           UNCHANGED <<consumed, signInOpen, zone, failClosed, presetFlips, liftSkipped,
                       disconnects, revived, overwritten>>,
           \/ UNCHANGED <<signIns, hubMain>>
           \/ /\ hubMain = "terminate" /\ hubMain' = "forget" /\ UNCHANGED signIns
           \/ /\ \E c \in SignIns : signIns[c] = "terminate" /\ CallbackGoes(c, "build")
              /\ UNCHANGED hubMain
    PROVE  VpnInv'
<1>1. runtime \in VpnRuntimes BY DEF VpnInv, VpnTypes
<1>2. /\ runtime' \in VpnRuntimes /\ runtime'.generation = runtime.generation
      /\ runtime'.state = runtime.state /\ runtime'.stopped = runtime.stopped
  BY <1>1, EmptiedSlot
<1>3. signIns \in [SignIns -> SignInPcs] BY DEF VpnInv, VpnTypes
<1>4. /\ signIns' \in [SignIns -> SignInPcs]
      /\ \A c \in SignIns : signIns[c] = "idle" <=> signIns'[c] = "idle"
      /\ Claimed' = Claimed
      /\ \A c \in SignIns : signIns'[c] = "launch" => signIns[c] = "launch"
  <2>1. CASE UNCHANGED signIns BY <1>3, <2>1 DEF Claimed
  <2>2. CASE \E c \in SignIns : signIns[c] = "terminate" /\ CallbackGoes(c, "build")
    <3>1. PICK c \in SignIns : signIns[c] = "terminate" /\ CallbackGoes(c, "build") BY <2>2
    <3>2. /\ signIns' \in [SignIns -> SignInPcs]
          /\ signIns'[c] = "build" /\ \A d \in SignIns : d # c => signIns'[d] = signIns[d]
      BY <1>3, <3>1 DEF CallbackGoes, SignInPcs
    <3> QED BY <3>1, <3>2 DEF Claimed
  <2> QED BY <2>1, <2>2
<1>5. /\ hubMain' \in MainPcs
      /\ hubMain' # "idle" => hubMain # "idle"
      /\ hubMain = "idle" => hubMain' = "idle"
      /\ hubMain \in {"terminate", "forget"} <=> hubMain' \in {"terminate", "forget"}
      /\ hubMain \in {"unlock", "lift", "open"} => hubMain' = hubMain
  BY DEF VpnInv, VpnTypes, MainPcs
<1>6. VpnTypes' BY <1>2, <1>4, <1>5 DEF VpnInv, VpnTypes
<1>7. VpnOrder' BY <1>2, <1>4, <1>5 DEF VpnInv, VpnOrder
<1>8. FirstSignIn'
  <2> SUFFICES ASSUME disconnects' = 0 PROVE FirstSignIn' BY DEF FirstSignIn
  <2>0. disconnects = 0 /\ FirstSignIn BY DEF VpnInv, VpnOrder
  <2>1. NoneSpawning => NoneSpawning' BY DEF NoneSpawning
  <2>2. NoneUp => NoneUp' BY DEF NoneUp
  <2>3. (\E c \in SignIns : signIns'[c] = "launch") => NoneUp'
    BY <1>4, <2>0, <2>2 DEF FirstSignIn
  <2> QED BY <1>2, <1>4, <2>0, <2>1, <2>3 DEF FirstSignIn
<1>9. SpawnsAlone' BY DEF VpnInv, SpawnsAlone
<1>10. ClaimsCounted' BY <1>2, <1>4, <1>5 DEF VpnInv, ClaimsCounted
<1>11. BlockIsReported'
  <2>1. (Releasing => Releasing') /\ (Reporting => Reporting')
    BY <1>5 DEF Releasing, Reporting, AnnouncedPcs
  <2> QED BY <1>2, <2>1 DEF VpnInv, BlockIsReported
<1> QED BY <1>6, <1>7, <1>8, <1>9, <1>10, <1>11 DEF VpnInv

LEMMA ChildEndsKeeps ==
    ASSUME VpnInv, NEW g \in VpnGenerations, ChildEnds(g)
    PROVE  VpnInv'
<1>1. /\ openconnect \in [VpnGenerations -> ChildStates]
      /\ takenBy \in [VpnGenerations -> VpnThreads]
      /\ vpnWorkers \in [VpnGenerations -> VpnWorker]
  BY DEF VpnInv, VpnTypes
<1>2. PICK how \in {"ok", "failed"} : openconnect' = [openconnect EXCEPT ![g] = how]
  BY DEF ChildEnds
<1>3. /\ openconnect' \in [VpnGenerations -> ChildStates]
      /\ openconnect'[g] = how
      /\ \A h \in VpnGenerations : h # g => openconnect'[h] = openconnect[h]
  BY <1>1, <1>2 DEF ChildStates
<1>4. UNCHANGED <<runtime, consumed, signInOpen, vpnWorkers, takenBy, signIns, hubMain, zone,
                  failClosed, presetFlips, liftSkipped, disconnects, revived, overwritten>>
  BY DEF ChildEnds, vpnNetwork, vpnPreset, vpnHistory
<1>5. SlotSound'
  <2>1. runtime.slot # 0 => runtime.slot \in VpnGenerations BY SlotInRange
  <2> QED BY <1>3, <1>4, <2>1 DEF VpnInv, SlotSound
<1>6. \A h \in VpnGenerations : openconnect'[h] = "up" => openconnect[h] = "up" BY <1>3
<1>7. EarlyChildren' BY <1>4, <1>6 DEF VpnInv, EarlyChildren
<1>8. TunnelsReachable' BY <1>4, <1>6 DEF VpnInv, TunnelsReachable, Awaited
<1> QED BY <1>1, <1>3, <1>4, <1>5, <1>6, <1>7, <1>8, ChildrenStep

\* kill_process_group kills nothing but the child in the slot.
LEMMA KillsOnlySlot ==
    ASSUME VpnInv, KillsChild(runtime.slot)
    PROVE  /\ openconnect' \in [VpnGenerations -> ChildStates]
           /\ \A g \in VpnGenerations :
                 \/ openconnect'[g] = openconnect[g]
                 \/ g = runtime.slot /\ openconnect'[g] = "killed"
<1>1. openconnect \in [VpnGenerations -> ChildStates] BY DEF VpnInv, VpnTypes
<1> QED BY <1>1 DEF KillsChild, ChildStates

LEMMA WorkerTakesKeeps ==
    ASSUME VpnInv, NEW g \in VpnGenerations, WorkerTakes(g)
    PROVE  VpnInv'
<1>1. /\ openconnect \in [VpnGenerations -> ChildStates] /\ vpnWorkers[g] \in VpnWorker
      /\ takenBy \in [VpnGenerations -> VpnThreads]
      /\ vpnWorkers \in [VpnGenerations -> VpnWorker] /\ runtime \in VpnRuntimes
  BY DEF VpnInv, VpnTypes
<1>2. /\ vpnWorkers[g].pc = "loop"
      /\ Superseded(g) \/ ChildGone(runtime.slot) \/ (runtime.slot # g /\ ChildGone(g))
  BY DEF WorkerTakes
<1>3. UNCHANGED <<consumed, signInOpen, takenBy, signIns, hubMain, zone, failClosed, presetFlips,
                  liftSkipped, disconnects, revived, overwritten>>
  BY DEF WorkerTakes, vpnNetwork, vpnPreset, vpnHistory
<1>4. runtime.slot # 0 => runtime.slot \in VpnGenerations BY SlotInRange
<1>5. PICK pc \in {"reap", "end", "dropped"} :
        /\ WorkerStops(g, pc)
        /\ \/ /\ runtime.slot = g /\ pc = "reap" /\ runtime' = SlotEmptied(runtime)
              /\ IF Superseded(g) THEN KillsChild(runtime.slot) ELSE UNCHANGED openconnect
           \/ /\ runtime.slot # g /\ pc # "reap" /\ runtime' = runtime
              /\ openconnect' = [h \in VpnGenerations |->
                     IF h = g /\ ChildGone(g) THEN "none" ELSE openconnect[h]]
  BY DEF WorkerTakes, TakesChild
<1> DEFINE w == [NoVpnWorker EXCEPT !.pc = pc]
<1>6. w \in VpnWorker /\ w.pc = pc
  <2>1. pc \in WorkerPcs BY DEF WorkerPcs
  <2> QED BY <1>1, <2>1, WorkerTyped
<1>7. vpnWorkers' = [vpnWorkers EXCEPT ![g] = w] BY <1>5 DEF WorkerStops
<1> HIDE DEF w
<1>8. /\ vpnWorkers' \in [VpnGenerations -> VpnWorker] /\ vpnWorkers'[g].pc = pc
      /\ \A h \in VpnGenerations : h # g => vpnWorkers'[h] = vpnWorkers[h]
  BY <1>1, <1>6, <1>7
<1>9. /\ openconnect' \in [VpnGenerations -> ChildStates]
      /\ \A h \in VpnGenerations : h # g => openconnect'[h] = openconnect[h]
      /\ \A h \in VpnGenerations : openconnect'[h] = "up" => openconnect[h] = "up"
  <2>1. CASE runtime.slot = g BY <1>1, <1>5, <2>1, KillsOnlySlot
  <2>2. CASE runtime.slot # g BY <1>1, <1>5, <2>2 DEF ChildStates
  <2> QED BY <2>1, <2>2
<1>10. SlotSound'
  <2>1. CASE runtime.slot = g BY <1>1, <1>5, <2>1, EmptiedSlot DEF SlotSound
  <2>2. CASE runtime.slot # g BY <1>4, <1>5, <1>8, <1>9, <2>2 DEF VpnInv, SlotSound
  <2> QED BY <2>1, <2>2
<1>11. runtime'.generation = runtime.generation BY <1>1, <1>5, EmptiedSlot
<1>12. EarlyChildren'
  <2> SUFFICES ASSUME disconnects = 0 PROVE EarlyChildren' BY <1>3 DEF EarlyChildren
  <2>1. ASSUME runtime.generation <= 1, pc = "reap" PROVE openconnect'[g] # "up"
    <3>1. ~runtime.stopped BY DEF VpnInv, FirstSignIn
    <3>2. g <= runtime.generation BY <1>2, WorkerReached
    <3>3. runtime.generation = g
      <4>1. g \in Nat /\ g >= 1 BY VpnAssumption DEF VpnGenerations
      <4>2. runtime.generation \in Nat BY <1>1, VpnAssumption DEF VpnRuntimes
      <4> QED BY <2>1, <3>2, <4>1, <4>2
    <3>4. ~Superseded(g) BY <3>1, <3>3 DEF Superseded
    <3>5. runtime.slot = g /\ UNCHANGED openconnect BY <1>5, <2>1, <3>4
    <3>6. ChildGone(g) BY <1>2, <3>4, <3>5
    <3> QED BY <3>5, <3>6 DEF ChildGone
  <2>2. runtime'.generation <= 1 =>
          \A h \in VpnGenerations : vpnWorkers'[h].pc = "reap" => openconnect'[h] # "up"
    BY <1>8, <1>9, <1>11, <2>1 DEF VpnInv, EarlyChildren
  <2> QED BY <1>3, <1>9, <2>2 DEF VpnInv, EarlyChildren
<1>13. TunnelsReachable'
  <2>1. ASSUME NEW h \in VpnGenerations, openconnect'[h] = "up"
        PROVE  \/ runtime'.slot = h /\ vpnWorkers'[h].pc \in ReadingPcs
               \/ Awaited(h)'
               \/ h \in overwritten'
    <3>1. /\ openconnect[h] = "up"
          /\ \/ runtime.slot = h /\ vpnWorkers[h].pc \in ReadingPcs
             \/ Awaited(h)
             \/ h \in overwritten
      BY <1>9, <2>1 DEF VpnInv, TunnelsReachable, ReadingPcs
    <3>2. CASE pc = "reap" /\ h = g BY <1>8, <3>2 DEF Awaited
    <3>3. CASE pc # "reap" /\ h = g
      <4>1. runtime.slot # g BY <1>5, <3>3
      <4>2. Awaited(h) => Awaited(h)' BY <1>2, <1>3, <3>3 DEF Awaited
      <4> QED BY <1>3, <3>1, <3>3, <4>1, <4>2
    <3>4. CASE h # g
      <4>1. Awaited(h) => Awaited(h)' BY <1>3, <1>8, <3>4 DEF Awaited
      <4>2. runtime.slot = h => runtime' = runtime BY <1>5, <3>4
      <4> QED BY <1>3, <1>8, <3>1, <3>4, <4>1, <4>2
    <3> QED BY <3>2, <3>3, <3>4
  <2> QED BY <1>3, <2>1 DEF VpnInv, TunnelsReachable, ReadingPcs
<1>14. \A h \in VpnGenerations :
          /\ vpnWorkers'[h].pc = "spawn" => vpnWorkers[h].pc = "spawn"
          /\ vpnWorkers[h].pc = "none" => vpnWorkers'[h].pc = "none"
          /\ vpnWorkers[h].pc \in AnnouncedPcs => vpnWorkers'[h].pc = vpnWorkers[h].pc
  BY <1>2, <1>8 DEF AnnouncedPcs
<1>15. runtime' = runtime \/ runtime' = SlotEmptied(runtime) BY <1>5
<1>16. takenBy' \in [VpnGenerations -> VpnThreads] BY <1>1, <1>3
<1> QED BY <1>3, <1>8, <1>9, <1>10, <1>12, <1>13, <1>14, <1>15, <1>16, ChildrenStep

LEMMA WorkerReapsKeeps ==
    ASSUME VpnInv, NEW g \in VpnGenerations, WorkerReaps(g)
    PROVE  VpnInv'
<1>1. /\ openconnect \in [VpnGenerations -> ChildStates] /\ vpnWorkers[g] \in VpnWorker
      /\ takenBy \in [VpnGenerations -> VpnThreads]
      /\ vpnWorkers \in [VpnGenerations -> VpnWorker] /\ runtime \in VpnRuntimes
  BY DEF VpnInv, VpnTypes
<1>2. /\ vpnWorkers[g].pc = "reap" /\ openconnect[g] # "up"
      /\ openconnect' = [openconnect EXCEPT ![g] = "none"]
      /\ UNCHANGED <<runtime, consumed, signInOpen, takenBy, signIns, hubMain, zone, failClosed,
                     presetFlips, liftSkipped, disconnects, revived, overwritten>>
  BY DEF WorkerReaps, vpnNetwork, vpnPreset, vpnHistory
<1>3. PICK pc \in {"end", "ended", "dropped"} : WorkerStops(g, pc) BY DEF WorkerReaps
<1> DEFINE w == [NoVpnWorker EXCEPT !.pc = pc]
<1>4. w \in VpnWorker /\ w.pc = pc
  <2>1. pc \in WorkerPcs BY DEF WorkerPcs
  <2> QED BY <1>1, <2>1, WorkerTyped
<1>5. vpnWorkers' = [vpnWorkers EXCEPT ![g] = w] BY <1>3 DEF WorkerStops
<1> HIDE DEF w
<1>6. /\ vpnWorkers' \in [VpnGenerations -> VpnWorker] /\ vpnWorkers'[g].pc = pc
      /\ \A h \in VpnGenerations : h # g => vpnWorkers'[h] = vpnWorkers[h]
  BY <1>1, <1>4, <1>5
<1>7. /\ openconnect' \in [VpnGenerations -> ChildStates]
      /\ \A h \in VpnGenerations : h # g => openconnect'[h] = openconnect[h]
      /\ openconnect'[g] = "none"
  BY <1>1, <1>2 DEF ChildStates
<1>8. SlotSound'
  <2>1. runtime.slot # 0 => runtime.slot \in VpnGenerations
                            /\ vpnWorkers[runtime.slot].pc \in ReadingPcs
    BY SlotInRange
  <2>2. g # 0 BY VpnAssumption DEF VpnGenerations
  <2>3. runtime.slot # g BY <1>2, <2>1, <2>2 DEF ReadingPcs
  <2> QED BY <1>2, <1>6, <1>7, <2>1, <2>3 DEF VpnInv, SlotSound
<1>9. EarlyChildren' BY <1>2, <1>6, <1>7 DEF VpnInv, EarlyChildren
<1>10. TunnelsReachable'
  <2>1. ASSUME NEW h \in VpnGenerations, openconnect'[h] = "up"
        PROVE  \/ runtime'.slot = h /\ vpnWorkers'[h].pc \in ReadingPcs
               \/ Awaited(h)'
               \/ h \in overwritten'
    <3>1. h # g /\ openconnect[h] = "up" BY <1>7, <2>1
    <3>2. Awaited(h) => Awaited(h)' BY <1>2, <1>6, <3>1 DEF Awaited
    <3> QED BY <1>2, <1>6, <3>1, <3>2 DEF VpnInv, TunnelsReachable, ReadingPcs
  <2> QED BY <1>2, <2>1 DEF VpnInv, TunnelsReachable, ReadingPcs
<1>11. \A h \in VpnGenerations :
          /\ openconnect'[h] = "up" => openconnect[h] = "up"
          /\ vpnWorkers'[h].pc = "spawn" => vpnWorkers[h].pc = "spawn"
          /\ vpnWorkers[h].pc = "none" => vpnWorkers'[h].pc = "none"
          /\ vpnWorkers[h].pc \in AnnouncedPcs => vpnWorkers'[h].pc = vpnWorkers[h].pc
  BY <1>2, <1>6, <1>7 DEF AnnouncedPcs
<1>12. takenBy' \in [VpnGenerations -> VpnThreads] BY <1>1, <1>2
<1> QED BY <1>2, <1>6, <1>7, <1>8, <1>9, <1>10, <1>11, <1>12, ChildrenStep

\* terminate_child, by a disconnect or by a sign-in.
LEMMA TerminatesKeeps ==
    ASSUME VpnInv, DisconnectTerminates \/ \E c \in SignIns : ReconnectTerminates(c)
    PROVE  VpnInv'
<1>1. /\ openconnect \in [VpnGenerations -> ChildStates]
      /\ takenBy \in [VpnGenerations -> VpnThreads] /\ signIns \in [SignIns -> SignInPcs]
      /\ vpnWorkers \in [VpnGenerations -> VpnWorker] /\ runtime \in VpnRuntimes
  BY DEF VpnInv, VpnTypes
<1>2. UNCHANGED <<consumed, signInOpen, vpnWorkers, zone, failClosed, presetFlips, liftSkipped,
                  disconnects, revived, overwritten>>
  BY DEF DisconnectTerminates, ReconnectTerminates, vpnNetwork, vpnPreset, vpnHistory
<1>3. PICK t \in {MainThread} \cup SignIns :
        /\ TerminateChild(t)
        /\ \/ /\ t = MainThread /\ hubMain = "terminate" /\ hubMain' = "forget"
              /\ UNCHANGED signIns
           \/ /\ t \in SignIns /\ signIns[t] = "terminate" /\ CallbackGoes(t, "build")
              /\ UNCHANGED hubMain
  BY DEF DisconnectTerminates, ReconnectTerminates
<1>4. t \in VpnThreads BY DEF VpnThreads
<1>5. runtime' = SlotEmptied(runtime) /\ runtime'.slot = 0
      /\ runtime'.generation = runtime.generation
  BY <1>1, <1>3, EmptiedSlot DEF TerminateChild
<1>6. /\ openconnect' \in [VpnGenerations -> ChildStates]
      /\ \A g \in VpnGenerations : openconnect'[g] = "up" => openconnect[g] = "up"
  BY <1>3, KillsOnlySlot DEF TerminateChild
<1>7. /\ takenBy' \in [VpnGenerations -> VpnThreads]
      /\ \A g \in VpnGenerations : takenBy'[g] = IF g = runtime.slot THEN t ELSE takenBy[g]
  BY <1>1, <1>3, <1>4 DEF TerminateChild
<1>8. t \in SignIns => /\ signIns'[t] = "build"
                       /\ \A d \in SignIns : d # t => signIns'[d] = signIns[d]
  BY <1>1, <1>3, ThreadsApart DEF CallbackGoes
<1>9. SlotSound' BY <1>5 DEF SlotSound
<1>10. EarlyChildren'
  <2> SUFFICES ASSUME disconnects = 0 PROVE EarlyChildren' BY <1>2 DEF EarlyChildren
  <2>1. hubMain = "idle" BY DEF VpnInv, VpnOrder
  <2>2. t \in SignIns /\ signIns[t] = "terminate" /\ t \in Claimed BY <1>3, <2>1 DEF Claimed
  <2>3. /\ runtime.generation <= 1
        /\ \A d \in SignIns : signIns[d] = "build" => d = t
    BY <2>2 DEF VpnInv, FirstSignIn, Claimed
  <2>4. overwritten = {} BY DEF VpnInv, VpnOrder, TunnelsReachable
  <2>5. ASSUME NEW g \in VpnGenerations, openconnect'[g] = "up" PROVE takenBy'[g] = t
    <3>1. openconnect[g] = "up" BY <1>6, <2>5
    <3>2. vpnWorkers[g].pc # "reap" BY <2>3, <3>1 DEF VpnInv, EarlyChildren
    <3>3. ~Awaited(g) BY <2>1, <2>2, <2>3, <3>2 DEF Awaited
    <3>4. runtime.slot = g BY <2>4, <3>1, <3>3 DEF VpnInv, TunnelsReachable
    <3> QED BY <1>7, <3>4
  <2>6. \A d \in SignIns : signIns'[d] = "build" => d = t BY <1>8, <2>2, <2>3
  <2> QED BY <1>2, <1>5, <1>6, <2>5, <2>6 DEF VpnInv, EarlyChildren
<1>11. TunnelsReachable'
  <2>1. ASSUME NEW g \in VpnGenerations, openconnect'[g] = "up"
        PROVE  Awaited(g)' \/ g \in overwritten'
    <3>1. openconnect[g] = "up" BY <1>6, <2>1
    <3>2. CASE runtime.slot = g
      <4>1. takenBy'[g] = t BY <1>7, <3>2
      <4> QED BY <1>3, <1>8, <4>1 DEF Awaited
    <3>3. CASE runtime.slot # g /\ Awaited(g)
      <4>1. takenBy'[g] = takenBy[g] BY <1>7, <3>3
      <4>2. CASE hubMain = "forget" /\ takenBy[g] = MainThread
        <5>1. hubMain' = "forget" BY <1>3, <4>2
        <5> QED BY <4>1, <4>2, <5>1 DEF Awaited
      <4>3. CASE takenBy[g] \in SignIns /\ signIns[takenBy[g]] = "build"
        <5>1. signIns'[takenBy[g]] = "build"
          <6>1. CASE t = MainThread BY <1>3, <4>3, <6>1, ThreadsApart
          <6>2. CASE t \in SignIns BY <1>3, <1>8, <4>3, <6>2
          <6> QED BY <6>1, <6>2
        <5> QED BY <4>1, <4>3, <5>1 DEF Awaited
      <4>4. CASE vpnWorkers[g].pc = "reap" BY <1>2, <4>4 DEF Awaited
      <4> QED BY <3>3, <4>2, <4>3, <4>4 DEF Awaited
    <3>4. CASE runtime.slot # g /\ ~Awaited(g)
      BY <1>2, <3>1, <3>4 DEF VpnInv, TunnelsReachable
    <3> QED BY <3>2, <3>3, <3>4
  <2> QED BY <1>2, <2>1 DEF VpnInv, TunnelsReachable
<1>12. \/ hubMain = "terminate" /\ hubMain' = "forget" /\ UNCHANGED signIns
       \/ /\ \E c \in SignIns : signIns[c] = "terminate" /\ CallbackGoes(c, "build")
          /\ UNCHANGED hubMain
  BY <1>3
<1>13. vpnWorkers' = vpnWorkers BY <1>2
<1> QED BY <1>1, <1>2, <1>5, <1>6, <1>7, <1>9, <1>10, <1>11, <1>12, <1>13, ChildrenStep

LEMMA VpnShape ==
    ASSUME VpnInv
    PROVE  /\ runtime \in VpnRuntimes /\ runtime.generation \in Nat /\ disconnects \in Nat
           /\ consumed \in BOOLEAN /\ signInOpen \in BOOLEAN /\ presetFlips \in Nat
           /\ runtime.generation <= MaxGenerations /\ MaxGenerations \in Nat
           /\ Cardinality(Claimed) \in Nat /\ IsFiniteSet(Claimed)
<1>1. runtime \in VpnRuntimes /\ MaxGenerations \in Nat /\ MaxCallbacks \in Nat
  BY VpnAssumption DEF VpnInv, VpnTypes
<1>2. runtime.generation \in Nat /\ runtime.generation <= MaxGenerations BY <1>1 DEF VpnRuntimes
<1>3. IsFiniteSet(SignIns) BY <1>1, FS_Interval DEF SignIns
<1>4. Claimed \subseteq SignIns BY DEF Claimed
<1>5. IsFiniteSet(Claimed) /\ Cardinality(Claimed) \in Nat
  BY <1>3, <1>4, FS_Subset, FS_CardinalityType
<1> QED BY <1>1, <1>2, <1>5 DEF VpnInv, VpnTypes

LEMMA VpnConnectKeeps ==
    ASSUME VpnInv, VpnConnect
    PROVE  VpnInv'
<1>1. /\ runtime.state = "none" /\ runtime.generation = 0 /\ ~signInOpen /\ hubMain = "idle"
      /\ \A c \in SignIns : signIns[c] = "idle"
      /\ \A g \in VpnGenerations : vpnWorkers[g].pc = "none"
  <2>1. runtime.state = "none" BY DEF VpnConnect
  <2>2. /\ runtime.generation = 0 /\ ~signInOpen /\ hubMain = "idle"
        /\ \A c \in SignIns : signIns[c] = "idle"
    BY <2>1 DEF VpnInv, VpnOrder
  <2>3. \A g \in VpnGenerations : g > 0 BY VpnAssumption DEF VpnGenerations
  <2> QED BY <2>1, <2>2, <2>3 DEF VpnInv, VpnOrder
<1>2. UNCHANGED <<consumed, signInOpen, openconnect, takenBy, signIns, hubMain, zone, failClosed,
                  presetFlips, liftSkipped, disconnects, revived, overwritten>>
  BY DEF VpnConnect, vpnChildren, vpnNetwork, vpnPreset, vpnHistory
<1>3. 1 \in VpnGenerations /\ MaxGenerations \in Nat /\ 0 < MaxGenerations
  BY VpnAssumption DEF VpnGenerations
<1>4. /\ runtime' \in VpnRuntimes /\ runtime'.generation = 1 /\ runtime'.state = "connecting"
      /\ runtime'.slot = runtime.slot /\ runtime'.stopped = runtime.stopped
  <2> DEFINE r == [runtime EXCEPT !.state = "connecting"]
  <2>1. "connecting" \in VpnStates BY DEF VpnStates, LiveStates
  <2>2. r \in VpnRuntimes /\ r.generation = 0 /\ r.state = "connecting" /\ r.slot = runtime.slot
        /\ r.stopped = runtime.stopped
    BY <1>1, <2>1, VpnShape DEF VpnRuntimes
  <2>3. runtime' = NextGeneration(r) BY DEF VpnConnect
  <2> HIDE DEF r
  <2>4. runtime' \in VpnRuntimes BY <1>3, <2>2, <2>3, RuntimeTyped
  <2>5. runtime' = [r EXCEPT !.generation = 1] BY <2>2, <2>3 DEF NextGeneration
  <2> QED BY <2>2, <2>4, <2>5 DEF VpnRuntimes
<1>5. vpnWorkers \in [VpnGenerations -> VpnWorker] BY DEF VpnInv, VpnTypes
<1>6. /\ vpnWorkers' \in [VpnGenerations -> VpnWorker] /\ vpnWorkers'[1].pc = "spawn"
      /\ \A g \in VpnGenerations : g # 1 => vpnWorkers'[g].pc = "none"
  <2> DEFINE w == [NoVpnWorker EXCEPT !.pc = "spawn"]
  <2>1. w \in VpnWorker /\ w.pc = "spawn" BY <1>3, <1>5, WorkerTyped DEF WorkerPcs
  <2>2. vpnWorkers' = [vpnWorkers EXCEPT ![1] = w] BY DEF VpnConnect, StartsWorker
  <2> HIDE DEF w
  <2> QED BY <1>1, <1>3, <1>5, <2>1, <2>2
<1>7. VpnTypes' BY <1>2, <1>4, <1>6 DEF VpnInv, VpnTypes
<1>8. VpnOrder' BY <1>2, <1>4, <1>6 DEF VpnInv, VpnOrder
<1>9. Claimed = {} /\ Claimed' = {} BY <1>1, <1>2 DEF Claimed
<1>10. FirstSignIn' BY <1>1, <1>2, <1>4, <1>9 DEF VpnInv, FirstSignIn
<1>16. runtime.slot = 0
  <2>1. runtime.slot # 0 => runtime.slot \in VpnGenerations
                            /\ vpnWorkers[runtime.slot].pc \in ReadingPcs
    BY SlotInRange
  <2> QED BY <1>1, <2>1 DEF ReadingPcs
<1>17. SlotSound' BY <1>4, <1>16 DEF SlotSound
<1>18. EarlyChildren' BY <1>1, <1>2, <1>6 DEF EarlyChildren
<1>11. ASSUME NEW g \in VpnGenerations, openconnect[g] = "up" PROVE g \in overwritten
  <2>1. ~Awaited(g) BY <1>1 DEF Awaited
  <2>2. runtime.slot # g BY <1>16, VpnAssumption DEF VpnGenerations
  <2> QED BY <1>11, <2>1, <2>2 DEF VpnInv, TunnelsReachable
<1>12. SpawnsAlone'
  <2>1. ~revived => \A g \in VpnGenerations : openconnect[g] # "up"
    BY <1>11 DEF VpnInv, TunnelsReachable
  <2> QED BY <1>2, <1>6, <2>1 DEF SpawnsAlone
<1>13. TunnelsReachable' BY <1>2, <1>11 DEF VpnInv, TunnelsReachable
<1>14. ClaimsCounted'
  <2>1. Cardinality(Claimed') = 0 BY <1>9, FS_EmptySet
  <2>2. disconnects \in Nat /\ consumed \in BOOLEAN BY VpnShape
  <2>3. hubMain' = "idle" /\ disconnects' = disconnects /\ runtime'.generation = 1
    BY <1>1, <1>2, <1>4
  <2> QED BY <2>1, <2>2, <2>3 DEF ClaimsCounted
<1>15. BlockIsReported' BY <1>4 DEF BlockIsReported
<1> QED BY <1>7, <1>8, <1>10, <1>12, <1>13, <1>14, <1>15, <1>17, <1>18 DEF VpnInv

LEMMA VpnDisconnectKeeps ==
    ASSUME VpnInv, VpnDisconnect
    PROVE  VpnInv'
<1>1. /\ hubMain = "idle" /\ runtime.state # "none" /\ runtime.generation < MaxGenerations
      /\ disconnects' = disconnects + 1 /\ hubMain' = "terminate"
      /\ UNCHANGED <<consumed, signInOpen, vpnWorkers, openconnect, takenBy, signIns, zone,
                     failClosed, presetFlips, liftSkipped, revived, overwritten>>
  BY DEF VpnDisconnect, vpnChildren, vpnNetwork, vpnPreset
<1>2. disconnects \in Nat /\ disconnects' \in Nat /\ disconnects' # 0 BY <1>1, VpnShape
<1>3. /\ runtime' \in VpnRuntimes /\ runtime'.generation = runtime.generation + 1
      /\ runtime'.state = runtime.state /\ runtime'.slot = runtime.slot
  <2> DEFINE r == [runtime EXCEPT !.stopped = TRUE]
  <2>1. r \in VpnRuntimes /\ r.generation = runtime.generation /\ r.state = runtime.state
        /\ r.slot = runtime.slot
    BY VpnShape DEF VpnRuntimes
  <2>2. runtime' = NextGeneration(r) BY DEF VpnDisconnect
  <2> HIDE DEF r
  <2>3. runtime' \in VpnRuntimes BY <1>1, <2>1, <2>2, RuntimeTyped
  <2>4. runtime' = [r EXCEPT !.generation = runtime.generation + 1]
    BY <2>1, <2>2 DEF NextGeneration
  <2> QED BY <2>1, <2>3, <2>4 DEF VpnRuntimes
<1>4. VpnTypes' BY <1>1, <1>2, <1>3 DEF VpnInv, VpnTypes, MainPcs
<1>5. VpnOrder'
  <2>1. ASSUME NEW g \in VpnGenerations, g > runtime'.generation PROVE vpnWorkers'[g].pc = "none"
    <3>1. g \in Nat /\ runtime.generation \in Nat BY VpnShape DEF VpnGenerations
    <3>2. g > runtime.generation BY <1>3, <2>1, <3>1
    <3> QED BY <1>1, <3>2 DEF VpnInv, VpnOrder
  <2>2. runtime'.generation # 0
    <3>1. runtime.generation \in Nat BY VpnShape
    <3> QED BY <1>3, <3>1
  <2> QED BY <1>1, <1>2, <1>3, <2>1, <2>2 DEF VpnInv, VpnOrder
<1>6. FirstSignIn' /\ EarlyChildren' BY <1>2 DEF FirstSignIn, EarlyChildren
<1>11. SlotSound' BY <1>1, <1>3 DEF VpnInv, SlotSound
<1>7. SpawnsAlone' BY <1>1 DEF VpnInv, SpawnsAlone
<1>8. TunnelsReachable' BY <1>1, <1>3 DEF VpnInv, TunnelsReachable, Awaited
<1>9. ClaimsCounted'
  <2>1. Claimed' = Claimed BY <1>1 DEF Claimed
  <2> DEFINE n == Cardinality(Claimed)
             used == IF consumed THEN 1 ELSE 0
  <2>2. n \in Nat /\ used \in Nat /\ runtime.generation \in Nat BY VpnShape
  <2>3. runtime.generation - 1 - disconnects + n <= used + disconnects
    BY <1>1 DEF VpnInv, ClaimsCounted
  <2>4. runtime'.generation - 1 - disconnects' + n <= used + (disconnects' - 1)
    <3> HIDE DEF n, used
    <3> QED BY <1>1, <1>2, <1>3, <2>2, <2>3
  <2> QED BY <1>1, <2>1, <2>4 DEF ClaimsCounted
<1>10. BlockIsReported' BY <1>1, <1>3 DEF VpnInv, BlockIsReported, Releasing, Reporting
<1> QED BY <1>4, <1>5, <1>6, <1>7, <1>8, <1>9, <1>10, <1>11 DEF VpnInv

\* The end of a disconnect, and the protection switch.
LEMMA MainKeeps ==
    ASSUME VpnInv,
           \/ DisconnectForgets \/ DisconnectUnlocks \/ DisconnectLifts \/ DisconnectReports
           \/ SetVpnProtection
    PROVE  VpnInv'
<1>1. /\ UNCHANGED <<signInOpen, vpnWorkers, openconnect, signIns, disconnects, revived,
                     overwritten>>
      /\ hubMain # "idle" => disconnects # 0
  BY DEF DisconnectForgets, DisconnectUnlocks, DisconnectLifts, DisconnectReports,
         SetVpnProtection, vpnChildren, vpnHistory, VpnInv, VpnOrder
<1>2. /\ runtime \in VpnRuntimes /\ zone \in {"preset", "block"} /\ liftSkipped \in BOOLEAN
      /\ presetFlips \in Nat /\ consumed \in BOOLEAN /\ failClosed \in BOOLEAN
      /\ takenBy \in [VpnGenerations -> VpnThreads]
  BY DEF VpnInv, VpnTypes
<1>3. /\ runtime' \in VpnRuntimes /\ runtime'.generation = runtime.generation
      /\ runtime'.slot = runtime.slot /\ runtime'.stopped = runtime.stopped
      /\ runtime' = runtime \/ (runtime'.state # "none" /\ hubMain # "idle")
      /\ zone' \in {"preset", "block"} /\ liftSkipped' \in BOOLEAN
      /\ consumed' \in BOOLEAN /\ failClosed' \in BOOLEAN /\ presetFlips' \in Nat
      /\ hubMain' \in {"idle", "unlock", "lift", "open"}
      /\ hubMain = "idle" => hubMain' = "idle"
      /\ hubMain' # "idle" => hubMain # "idle"
      /\ consumed' = consumed \/ hubMain = "forget"
      /\ (hubMain = "forget" /\ Reaped(MainThread)) \/ (hubMain # "forget" /\ takenBy' = takenBy)
      /\ BlockIsReported'
  <2>1. CASE DisconnectForgets
    <3>1. "complete" \in VpnStates \ {"none"} BY DEF VpnStates, ReapableStates
    <3>2. /\ runtime' \in VpnRuntimes /\ runtime'.generation = runtime.generation
          /\ runtime'.slot = runtime.slot /\ runtime'.state = "complete"
          /\ runtime'.stopped = runtime.stopped
      BY <2>1, <3>1, StateWritten DEF DisconnectForgets
    <3>3. /\ hubMain = "forget" /\ hubMain' = "unlock" /\ consumed' = FALSE /\ Reaped(MainThread)
          /\ UNCHANGED <<zone, liftSkipped, failClosed, presetFlips>>
      BY <2>1 DEF DisconnectForgets, vpnNetwork, vpnPreset
    <3>4. BlockIsReported' BY <3>3 DEF BlockIsReported, Releasing
    <3> QED BY <1>1, <1>2, <3>2, <3>3, <3>4
  <2>2. CASE DisconnectUnlocks
    <3>1. PICK enabled \in LoadedFailClosed :
            \/ enabled /\ hubMain' = "lift" /\ UNCHANGED <<zone, liftSkipped>>
            \/ ~enabled /\ hubMain' = "idle" /\ SkipsLift
      BY <2>2 DEF DisconnectUnlocks
    <3>2. hubMain = "unlock" /\ UNCHANGED <<runtime, consumed, takenBy, failClosed, presetFlips>>
      BY <2>2 DEF DisconnectUnlocks, vpnChildren, vpnPreset
    <3>3. zone' \in {"preset", "block"} /\ liftSkipped' \in BOOLEAN BY <1>2, <3>1, Released
    <3>4. BlockIsReported'
      <4>1. CASE hubMain' = "lift" BY <4>1 DEF BlockIsReported, Releasing
      <4>2. CASE SkipsLift
        <5>1. zone' = "block" => liftSkipped' BY <4>2, Released
        <5> QED BY <5>1 DEF BlockIsReported
      <4> QED BY <3>1, <4>1, <4>2
    <3> QED BY <1>1, <1>2, <3>1, <3>2, <3>3, <3>4
  <2>3. CASE DisconnectLifts
    <3>1. PICK ok \in BOOLEAN : Lifts(ok) /\ hubMain' = IF ok THEN "idle" ELSE "open"
      BY <2>3 DEF DisconnectLifts
    <3>2. hubMain = "lift" /\ UNCHANGED <<runtime, consumed, takenBy, failClosed, presetFlips>>
      BY <2>3 DEF DisconnectLifts, vpnChildren, vpnPreset
    <3>3. /\ zone' \in {"preset", "block"} /\ liftSkipped' \in BOOLEAN
          /\ ok => zone' = "preset"
      BY <3>1, Released
    <3>4. BlockIsReported'
      <4>1. CASE ok BY <3>3, <4>1 DEF BlockIsReported
      <4>2. CASE ~ok BY <3>1, <4>2 DEF BlockIsReported, Releasing
      <4> QED BY <4>1, <4>2
    <3> QED BY <1>1, <1>2, <3>1, <3>2, <3>3, <3>4
  <2>4. CASE DisconnectReports
    <3>1. "complete_firewall_open" \in VpnStates \ {"none"} BY DEF VpnStates, ReapableStates
    <3>2. /\ runtime' \in VpnRuntimes /\ runtime'.generation = runtime.generation
          /\ runtime'.slot = runtime.slot /\ runtime'.state = "complete_firewall_open"
          /\ runtime'.stopped = runtime.stopped
      BY <2>4, <3>1, StateWritten DEF DisconnectReports
    <3>3. /\ hubMain = "open" /\ hubMain' = "idle"
          /\ UNCHANGED <<consumed, takenBy, zone, liftSkipped, failClosed, presetFlips>>
      BY <2>4 DEF DisconnectReports, vpnChildren, vpnNetwork, vpnPreset
    <3>4. BlockIsReported' BY <3>2 DEF BlockIsReported
    <3> QED BY <1>1, <1>2, <3>2, <3>3, <3>4
  <2>5. CASE SetVpnProtection
    <3>1. /\ hubMain = "idle" /\ hubMain' = "idle"
          /\ presetFlips' = presetFlips + 1 /\ failClosed' = ~failClosed
          /\ UNCHANGED <<runtime, consumed, takenBy, zone, liftSkipped>>
      BY <2>5 DEF SetVpnProtection, vpnChildren
    <3>2. BlockIsReported' BY <1>1, <3>1 DEF VpnInv, BlockIsReported, Releasing, Reporting
    <3> QED BY <1>1, <1>2, <3>1, <3>2
  <2> QED BY <2>1, <2>2, <2>3, <2>4, <2>5
<1>4. /\ takenBy' \in [VpnGenerations -> VpnThreads]
      /\ \A g \in VpnGenerations : takenBy[g] # MainThread => takenBy'[g] = takenBy[g]
      /\ hubMain = "forget" =>
            \A g \in VpnGenerations : takenBy[g] = MainThread => openconnect[g] # "up"
  <2>1. NoThread \in VpnThreads BY DEF VpnThreads
  <2> QED BY <1>2, <1>3, <2>1 DEF Reaped
<1>5. VpnTypes' BY <1>1, <1>3, <1>4 DEF VpnInv, VpnTypes, MainPcs
<1>6. VpnOrder' BY <1>1, <1>3 DEF VpnInv, VpnOrder
<1>7. Claimed' = Claimed BY <1>1 DEF Claimed
<1>8. FirstSignIn'
  BY <1>1, <1>3, <1>7 DEF VpnInv, FirstSignIn, NoneSpawning, NoneUp
<1>9. EarlyChildren' BY <1>1, <1>3 DEF VpnInv, EarlyChildren
<1>10. SlotSound' BY <1>1, <1>3 DEF VpnInv, SlotSound
<1>11. SpawnsAlone' BY <1>1 DEF VpnInv, SpawnsAlone
<1>12. TunnelsReachable'
  <2>1. ASSUME NEW g \in VpnGenerations, openconnect[g] = "up", Awaited(g) PROVE Awaited(g)'
    <3>1. ~(hubMain = "forget" /\ takenBy[g] = MainThread) BY <1>4, <2>1
    <3>2. takenBy[g] \in SignIns => takenBy'[g] = takenBy[g] BY <1>4, ThreadsApart
    <3> QED BY <1>1, <2>1, <3>1, <3>2 DEF Awaited
  <2> QED BY <1>1, <1>3, <2>1 DEF VpnInv, TunnelsReachable
<1>13. ClaimsCounted'
  <2> DEFINE n == Cardinality(Claimed)
             launched == runtime.generation - 1 - disconnects
  <2>1. n \in Nat /\ launched \in Int /\ disconnects \in Nat /\ consumed \in BOOLEAN BY VpnShape
  <2>2. launched + n <= (IF consumed THEN 1 ELSE 0)
            + (IF hubMain \in {"terminate", "forget"} THEN disconnects - 1 ELSE disconnects)
    BY DEF VpnInv, ClaimsCounted
  <2> HIDE DEF n, launched
  <2>3. launched + n <= (IF consumed' THEN 1 ELSE 0) + disconnects
    BY <1>3, <2>1, <2>2
  <2>4. hubMain' \notin {"terminate", "forget"} BY <1>3
  <2> QED BY <1>1, <1>3, <1>7, <2>3, <2>4 DEF ClaimsCounted, n, launched
<1> QED BY <1>3, <1>5, <1>6, <1>8, <1>9, <1>10, <1>11, <1>12, <1>13 DEF VpnInv

LEMMA SignInKeeps ==
    ASSUME VpnInv, NEW c \in SignIns,
           SignInCallsBack(c) \/ SignInReplays(c) \/ SignInClaims(c) \/ ReconnectBuilds(c)
    PROVE  VpnInv'
<1>1. /\ runtime \in VpnRuntimes /\ consumed \in BOOLEAN /\ signInOpen \in BOOLEAN
  BY VpnShape
<1>2. "failed" \in VpnStates \ {"none"} /\ "connecting" \in VpnStates
  BY DEF VpnStates, ReapableStates, LiveStates
<1>3. ASSUME SetState("failed")
      PROVE  /\ runtime' \in VpnRuntimes /\ runtime'.generation = runtime.generation
             /\ runtime'.slot = runtime.slot /\ runtime'.state = "failed"
             /\ runtime'.stopped = runtime.stopped
  BY <1>2, <1>3, StateWritten
<1>4. /\ UNCHANGED <<vpnWorkers, openconnect, hubMain, zone, failClosed, presetFlips,
                     liftSkipped, disconnects, revived, overwritten>>
      /\ \/ signIns[c] = "build" /\ Reaped(c)
         \/ signIns[c] # "build" /\ UNCHANGED takenBy
  BY DEF SignInCallsBack, SignInReplays, SignInClaims, ReconnectBuilds, vpnChildren, vpnNetwork,
         vpnPreset, vpnHistory
<1>5. CASE SignInCallsBack(c)
  <2>1. PICK pc \in {"claim", "replay", "served"} :
          CallbackGoes(c, pc) /\ (runtime' = runtime \/ SetState("failed"))
    BY <1>5 DEF SignInCallsBack
  <2>2. signIns' = [signIns EXCEPT ![c] = pc] /\ signInOpen /\ signInOpen' = signInOpen
        /\ consumed' = consumed
    BY <1>5, <2>1 DEF SignInCallsBack, CallbackGoes
  <2>3. /\ runtime' \in VpnRuntimes /\ runtime'.generation = runtime.generation
        /\ runtime'.slot = runtime.slot /\ (runtime' = runtime \/ runtime'.state = "failed")
        /\ runtime'.stopped = runtime.stopped
    BY <1>1, <1>3, <2>1
  <2> QED BY <1>1, <1>4, <2>1, <2>2, <2>3, CallbackStep
<1>6. CASE SignInReplays(c)
  <2>1. PICK pc \in {"claim", "served"} :
          CallbackGoes(c, pc) /\ (runtime' = runtime \/ SetState("failed"))
    BY <1>6 DEF SignInReplays
  <2>2. signIns' = [signIns EXCEPT ![c] = pc] /\ signIns[c] = "replay" /\ signInOpen' = FALSE
        /\ consumed' = consumed
    BY <1>6, <2>1 DEF SignInReplays, CallbackGoes
  <2>3. /\ runtime' \in VpnRuntimes /\ runtime'.generation = runtime.generation
        /\ runtime'.slot = runtime.slot /\ (runtime' = runtime \/ runtime'.state = "failed")
        /\ runtime'.stopped = runtime.stopped
    BY <1>1, <1>3, <2>1
  <2> QED BY <1>1, <1>4, <2>1, <2>2, <2>3, CallbackStep
<1>7. CASE SignInClaims(c)
  <2>1. signIns[c] = "claim" /\ consumed' = TRUE /\ runtime' = runtime BY <1>7 DEF SignInClaims
  <2>2. CASE Claims
    <3>1. signIns' = [signIns EXCEPT ![c] = "terminate"] /\ signInOpen' = FALSE /\ ~consumed
      BY <1>7, <2>2 DEF SignInClaims, Claims, CallbackGoes
    <3> QED BY <1>1, <1>4, <2>1, <3>1, CallbackStep
  <2>3. CASE ~Claims
    <3>1. signIns' = [signIns EXCEPT ![c] = "served"] /\ signInOpen' = signInOpen
      BY <1>7, <2>3 DEF SignInClaims, CallbackGoes
    <3> QED BY <1>1, <1>4, <2>1, <3>1, CallbackStep
  <2> QED BY <2>2, <2>3
<1>8. CASE ReconnectBuilds(c)
  <2>1. signIns[c] = "build" /\ c \in Claimed /\ consumed' = consumed /\ signInOpen' = signInOpen
    BY <1>8 DEF ReconnectBuilds, Claimed
  <2>2. CASE /\ runtime' = [runtime EXCEPT !.stopped = FALSE, !.state = "connecting"]
             /\ CallbackGoes(c, "launch")
    <3>1. /\ runtime' \in VpnRuntimes /\ runtime'.generation = runtime.generation
          /\ runtime'.slot = runtime.slot /\ runtime'.state = "connecting"
          /\ ~runtime'.stopped
      BY <1>1, <1>2, <2>2 DEF VpnRuntimes
    <3>2. signIns' = [signIns EXCEPT ![c] = "launch"] BY <2>2 DEF CallbackGoes
    <3> QED BY <1>1, <1>4, <2>1, <3>1, <3>2, CallbackStep
  <2>3. CASE SetState("failed") /\ CallbackGoes(c, "served")
    <3>1. signIns' = [signIns EXCEPT ![c] = "served"] BY <2>3 DEF CallbackGoes
    <3> QED BY <1>1, <1>3, <1>4, <2>1, <2>3, <3>1, CallbackStep
  <2> QED BY <1>8, <2>2, <2>3 DEF ReconnectBuilds
<1> QED BY <1>5, <1>6, <1>7, <1>8

LEMMA ReconnectLaunchesKeeps ==
    ASSUME VpnInv, NEW c \in SignIns, ReconnectLaunches(c)
    PROVE  VpnInv'
<1> DEFINE g == runtime.generation + 1
<1>1. /\ signIns[c] = "launch" /\ signIns' = [signIns EXCEPT ![c] = "served"]
      /\ runtime.generation < MaxGenerations /\ runtime' = NextGeneration(runtime)
      /\ StartsWorker(g) /\ revived' = (revived \/ disconnects > 0)
      /\ UNCHANGED <<consumed, signInOpen, openconnect, takenBy, hubMain, zone, failClosed,
                     presetFlips, liftSkipped, disconnects, overwritten>>
  BY DEF ReconnectLaunches, CallbackGoes, vpnChildren, vpnNetwork, vpnPreset
<1>2. /\ runtime \in VpnRuntimes /\ runtime.generation \in Nat /\ disconnects \in Nat
      /\ MaxGenerations \in Nat /\ consumed \in BOOLEAN
  BY VpnShape
<1>3. g \in VpnGenerations /\ g > runtime.generation BY <1>1, <1>2 DEF VpnGenerations
<1>4. /\ runtime' \in VpnRuntimes /\ runtime'.generation = g
      /\ runtime'.state = runtime.state /\ runtime'.slot = runtime.slot
      /\ runtime'.stopped = runtime.stopped
  <2>1. runtime' \in VpnRuntimes BY <1>1, <1>2, RuntimeTyped
  <2>2. runtime' = [runtime EXCEPT !.generation = g] BY <1>1, <1>2 DEF NextGeneration
  <2> HIDE DEF g
  <2> QED BY <1>2, <2>1, <2>2 DEF VpnRuntimes
<1>5. vpnWorkers \in [VpnGenerations -> VpnWorker] /\ vpnWorkers[g].pc = "none"
  BY <1>3 DEF VpnInv, VpnTypes, VpnOrder
<1>6. /\ vpnWorkers' \in [VpnGenerations -> VpnWorker] /\ vpnWorkers'[g].pc = "spawn"
      /\ \A h \in VpnGenerations : h # g => vpnWorkers'[h] = vpnWorkers[h]
  <2> DEFINE w == [NoVpnWorker EXCEPT !.pc = "spawn"]
  <2>1. w \in VpnWorker /\ w.pc = "spawn" BY DEF VpnWorker, NoVpnWorker, WorkerPcs
  <2>2. vpnWorkers' = [vpnWorkers EXCEPT ![g] = w] BY <1>1 DEF StartsWorker
  <2> HIDE DEF w, g
  <2> QED BY <1>3, <1>5, <2>1, <2>2
<1>7. signIns \in [SignIns -> SignInPcs]
      /\ revived \in BOOLEAN
  BY DEF VpnInv, VpnTypes
<1>8. /\ signIns' \in [SignIns -> SignInPcs]
      /\ signIns'[c] = "served" /\ \A d \in SignIns : d # c => signIns'[d] = signIns[d]
  BY <1>1, <1>7 DEF SignInPcs
<1>9. runtime.state # "none" BY <1>1 DEF VpnInv, VpnOrder
<1>10. ASSUME NEW h \in VpnGenerations, h > g PROVE h # g /\ h > runtime.generation
  <2>1. h \in Nat BY DEF VpnGenerations
  <2> QED BY <1>2, <1>10, <2>1
<1>11. Claimed' = Claimed \ {c} /\ c \in Claimed BY <1>1, <1>8 DEF Claimed
<1>12. ASSUME disconnects = 0 PROVE ~revived'
  <2>1. revived' <=> (revived \/ disconnects > 0) BY <1>1
  <2>2. ~(disconnects > 0) BY <1>2, <1>12
  <2>3. ~revived BY <1>12 DEF VpnInv, VpnOrder
  <2> QED BY <2>1, <2>2, <2>3
<1>13. disconnects = 0 =>
          /\ runtime.generation <= 1 /\ consumed /\ Claimed' = {}
          /\ NoneSpawning /\ NoneUp /\ runtime.generation # 0
  <2> SUFFICES ASSUME disconnects = 0
               PROVE  /\ runtime.generation <= 1 /\ consumed /\ Claimed' = {}
                      /\ NoneSpawning /\ NoneUp /\ runtime.generation # 0
    OBVIOUS
  <2>0. FirstSignIn BY DEF VpnInv
  <2>1. runtime.generation <= 1 /\ consumed /\ Claimed' = {} BY <1>11, <2>0 DEF FirstSignIn
  <2>2. NoneSpawning BY <1>1, <2>0, <2>1 DEF FirstSignIn
  <2>3. NoneUp BY <1>1, <2>0 DEF FirstSignIn
  <2>4. runtime.generation # 0 BY <1>9 DEF VpnInv, VpnOrder
  <2> QED BY <2>1, <2>2, <2>3, <2>4
<1>14. ~revived' => disconnects = 0 /\ ~revived
  <2>1. revived' <=> (revived \/ disconnects > 0) BY <1>1
  <2>2. ~(disconnects > 0) => disconnects = 0 BY <1>2
  <2> QED BY <2>1, <2>2
<1>15. revived' \in BOOLEAN BY <1>1, <1>7
<1> HIDE DEF g
<1>16. VpnTypes' BY <1>1, <1>4, <1>6, <1>8, <1>15 DEF VpnInv, VpnTypes
<1>17. VpnOrder'
  <2>1. \A h \in VpnGenerations : h > runtime'.generation => vpnWorkers'[h].pc = "none"
    BY <1>4, <1>6, <1>10 DEF VpnInv, VpnOrder
  <2>2. runtime'.generation # 0 BY <1>2, <1>4 DEF g
  <2> QED BY <1>1, <1>4, <1>9, <1>12, <2>1, <2>2 DEF VpnInv, VpnOrder
<1>18. FirstSignIn'
  <2> SUFFICES ASSUME disconnects = 0 PROVE FirstSignIn' BY <1>1 DEF FirstSignIn
  <2>1. ~(runtime'.generation <= 1) BY <1>2, <1>4, <1>13 DEF g
  <2>2. NoneUp' BY <1>1, <1>13 DEF NoneUp
  <2> QED BY <1>1, <1>4, <1>13, <2>1, <2>2 DEF VpnInv, FirstSignIn
<1>23. EarlyChildren'
  <2> SUFFICES ASSUME disconnects = 0 PROVE EarlyChildren' BY <1>1 DEF EarlyChildren
  <2>1. \A h \in VpnGenerations : openconnect'[h] # "up" BY <1>1, <1>13 DEF NoneUp
  <2> QED BY <2>1 DEF EarlyChildren
<1>24. SlotSound'
  <2>1. runtime.slot # 0 => runtime.slot \in VpnGenerations
                            /\ vpnWorkers[runtime.slot].pc \in ReadingPcs
    BY SlotInRange
  <2>2. runtime.slot # 0 => runtime.slot # g BY <1>5, <2>1 DEF ReadingPcs
  <2> QED BY <1>1, <1>4, <1>6, <2>1, <2>2 DEF VpnInv, SlotSound
<1>19. SpawnsAlone'
  <2> SUFFICES ASSUME ~revived' PROVE SpawnsAlone' BY DEF SpawnsAlone
  <2>1. NoneUp /\ NoneSpawning BY <1>13, <1>14
  <2>2. \A h \in VpnGenerations : vpnWorkers'[h].pc = "spawn" => h = g BY <1>6, <2>1 DEF NoneSpawning
  <2>3. \A h \in VpnGenerations : openconnect'[h] # "up" BY <1>1, <2>1 DEF NoneUp
  <2> QED BY <2>2, <2>3 DEF SpawnsAlone
<1>20. TunnelsReachable'
  <2>1. ASSUME NEW h \in VpnGenerations, openconnect'[h] = "up"
        PROVE  \/ runtime'.slot = h /\ vpnWorkers'[h].pc \in ReadingPcs
               \/ Awaited(h)'
               \/ h \in overwritten'
    <3>1. /\ openconnect[h] = "up"
          /\ \/ runtime.slot = h /\ vpnWorkers[h].pc \in ReadingPcs
             \/ Awaited(h)
             \/ h \in overwritten
      BY <1>1, <2>1 DEF VpnInv, TunnelsReachable, ReadingPcs
    <3>2. vpnWorkers[h].pc \in ReadingPcs \cup {"reap"} => vpnWorkers'[h] = vpnWorkers[h]
      BY <1>5, <1>6 DEF ReadingPcs
    <3>3. Awaited(h) => Awaited(h)' BY <1>1, <1>8, <3>2 DEF Awaited
    <3> QED BY <1>1, <1>4, <3>1, <3>2, <3>3
  <2>2. overwritten' # {} => revived' BY <1>1, <1>14 DEF VpnInv, TunnelsReachable
  <2> QED BY <2>1, <2>2 DEF TunnelsReachable, ReadingPcs
<1>21. ClaimsCounted'
  <2>1. Cardinality(Claimed') = Cardinality(Claimed) - 1 /\ Cardinality(Claimed) \in Nat
    BY <1>11, VpnShape, FS_RemoveElement
  <2> DEFINE n == Cardinality(Claimed)
             rhs == (IF consumed THEN 1 ELSE 0)
                    + (IF hubMain \in {"terminate", "forget"} THEN disconnects - 1 ELSE disconnects)
  <2>2. runtime.generation - 1 - disconnects + n <= rhs BY DEF VpnInv, ClaimsCounted
  <2>3. rhs \in Int BY <1>2
  <2> HIDE DEF rhs, n
  <2>4. g - 1 - disconnects + (n - 1) <= rhs
    <3>1. n \in Nat BY <2>1 DEF n
    <3> QED BY <1>2, <2>2, <2>3, <3>1 DEF g
  <2> QED BY <1>1, <1>4, <2>1, <2>4 DEF ClaimsCounted, rhs, n
<1>22. BlockIsReported'
  <2>1. (Releasing => Releasing') /\ (Reporting => Reporting')
    BY <1>1, <1>5, <1>6 DEF Releasing, Reporting
  <2> QED BY <1>1, <1>4, <2>1 DEF VpnInv, BlockIsReported
<1> QED BY <1>16, <1>17, <1>18, <1>19, <1>20, <1>21, <1>22, <1>23, <1>24 DEF VpnInv

LEMMA VpnInitially == VpnInit => VpnInv
<1> SUFFICES ASSUME VpnInit PROVE VpnInv OBVIOUS
<1> USE DEF VpnInit
<1>1. MaxGenerations \in Nat /\ 0 \in 0..MaxGenerations BY VpnAssumption
<1>2. runtime \in VpnRuntimes /\ runtime.generation = 0 /\ runtime.slot = 0
      /\ runtime.state = "none"
  BY <1>1 DEF VpnRuntimes, VpnStates
<1>3. \A g \in VpnGenerations : vpnWorkers[g] = NoVpnWorker /\ openconnect[g] = "none" OBVIOUS
<1>4. NoVpnWorker \in VpnWorker /\ NoVpnWorker.pc = "none" BY DEF NoVpnWorker, VpnWorker, WorkerPcs
<1>5. VpnTypes
  <2>1. vpnWorkers \in [VpnGenerations -> VpnWorker] BY <1>4
  <2>2. openconnect \in [VpnGenerations -> ChildStates] BY DEF ChildStates
  <2>3. signIns \in [SignIns -> SignInPcs] BY DEF SignInPcs
  <2>4. takenBy \in [VpnGenerations -> VpnThreads] BY DEF VpnThreads
  <2> QED BY <1>2, <2>1, <2>2, <2>3, <2>4 DEF VpnTypes, MainPcs
<1>6. VpnOrder BY <1>2, <1>3, <1>4 DEF VpnOrder
<1>7. Claimed = {} BY DEF Claimed
<1>8. FirstSignIn BY <1>2, <1>3, <1>4, <1>7 DEF FirstSignIn, NoneSpawning, NoneUp
<1>14. SlotSound /\ EarlyChildren BY <1>2, <1>3 DEF SlotSound, EarlyChildren
<1>9. SpawnsAlone BY <1>3, <1>4 DEF SpawnsAlone
<1>10. TunnelsReachable BY <1>3 DEF TunnelsReachable
<1>11. Cardinality(Claimed) = 0 BY <1>7, FS_EmptySet
<1>12. ClaimsCounted BY <1>2, <1>11 DEF ClaimsCounted
<1>13. BlockIsReported BY DEF BlockIsReported
<1> QED BY <1>5, <1>6, <1>8, <1>9, <1>10, <1>12, <1>13, <1>14 DEF VpnInv

LEMMA VpnInvariance == VpnSpec => []VpnInv
<1>1. VpnInv /\ [VpnNext]_vpnVars => VpnInv'
  <2> SUFFICES ASSUME VpnInv, [VpnNext]_vpnVars PROVE VpnInv' OBVIOUS
  <2>1. CASE VpnConnect BY <2>1, VpnConnectKeeps
  <2>2. CASE VpnDisconnect BY <2>2, VpnDisconnectKeeps
  <2>3. CASE DisconnectTerminates BY <2>3, TerminatesKeeps
  <2>4. CASE \/ DisconnectForgets \/ DisconnectUnlocks \/ DisconnectLifts \/ DisconnectReports
             \/ SetVpnProtection
    BY <2>4, MainKeeps
  <2>5. ASSUME NEW g \in VpnGenerations,
               \/ ChildEnds(g) \/ WorkerSpawns(g) \/ WorkerReads(g) \/ WorkerUnlocks(g)
               \/ WorkerLifts(g) \/ WorkerTakes(g) \/ WorkerReaps(g) \/ WorkerSettles(g)
               \/ WorkerEngages(g) \/ WorkerLocks(g) \/ WorkerReports(g)
        PROVE  VpnInv'
    BY <2>5, ChildEndsKeeps, WorkerSpawnsKeeps, WorkerReadsKeeps, WorkerUnlocksKeeps,
       WorkerTakesKeeps, WorkerReapsKeeps, WorkerSettlesKeeps
  <2>6. ASSUME NEW c \in SignIns,
               \/ SignInCallsBack(c) \/ SignInReplays(c) \/ SignInClaims(c)
               \/ ReconnectTerminates(c) \/ ReconnectBuilds(c) \/ ReconnectLaunches(c)
        PROVE  VpnInv'
    BY <2>6, SignInKeeps, TerminatesKeeps, ReconnectLaunchesKeeps
  <2>7. CASE UNCHANGED vpnVars
    BY <2>7 DEF vpnVars, VpnInv, VpnTypes, VpnOrder, SlotSound, FirstSignIn, EarlyChildren,
                SpawnsAlone, TunnelsReachable, ClaimsCounted, BlockIsReported, Claimed,
                NoneSpawning, NoneUp, Awaited, Releasing, Reporting
  <2> QED BY <2>1, <2>2, <2>3, <2>4, <2>5, <2>6, <2>7 DEF VpnNext
<1> QED BY <1>1, VpnInitially, PTL DEF VpnSpec

-----------------------------------------------------------------------------
(* Theorems about a VPN connection.                                        *)

\* The runtime, the threads and the children are well formed, and the slot is
\* tagged with a generation whose child was started and not reaped.
THEOREM VpnTypeCorrect == VpnSpec => []VpnTypeOK
<1>1. VpnInv => VpnTypeOK
  BY DEF VpnInv, VpnTypes, SlotSound, VpnTypeOK, VpnRuntimes, VpnStates, VpnWorker, WorkerPcs,
         ChildStates, VpnThreads, SignInPcs, MainPcs
<1> QED BY <1>1, VpnInvariance, PTL

\* No openconnect outlives its job unseen, whatever kills the kernel refuses: it
\* is in the slot, or a thread waits for it, or, once a sign-in restarted a
\* disconnected job, another child replaced it in the slot.  And claim_saml_cookie
\* lets each sign-in reconnect once, for any number of callbacks, generations and
\* disconnects.
THEOREM ConnectionsAccounted == VpnSpec => []ConnectionAccounted
<1>1. VpnInv => ConnectionAccounted
  <2> SUFFICES ASSUME VpnInv PROVE ConnectionAccounted OBVIOUS
  <2> DEFINE n == Cardinality(Claimed)
             launched == runtime.generation - 1 - disconnects
  <2>1. n \in Nat /\ launched \in Int /\ disconnects \in Nat /\ consumed \in BOOLEAN BY VpnShape
  <2>2. launched + n <= (IF consumed THEN 1 ELSE 0)
            + (IF hubMain \in {"terminate", "forget"} THEN disconnects - 1 ELSE disconnects)
    BY DEF VpnInv, ClaimsCounted
  <2> HIDE DEF n, launched
  <2>3. launched <= 1 + disconnects BY <2>1, <2>2
  <2>4. SignInOnce BY <2>3 DEF SignInOnce, launched
  <2> QED BY <2>4 DEF VpnInv, ConnectionAccounted
<1> QED BY <1>1, VpnInvariance, PTL

\* While a block zone is in force the job reads connected or complete only until
\* a thread has lifted it or written what became of it, or after a release of
\* that block that read fail-closed as off, switched off or lost with an
\* unreadable file (set_vpn_lockdown).
THEOREM BlocksAreReported == VpnSpec => []BlockIsReported
<1>1. VpnInv => BlockIsReported BY DEF VpnInv
<1> QED BY <1>1, VpnInvariance, PTL

\* A superseded worker never takes down the newest generation's child
\* (take_child_for_generation compares the tag).
THEOREM NewestIsSpared == VpnSpec => NewestSpared
<1> DEFINE Spared == LET g == runtime.generation IN
       (g # 0 /\ openconnect[g] = "up" /\ openconnect'[g] \notin {"up", "ok", "failed"}) =>
           \/ runtime.stopped
           \/ hubMain = "terminate"
           \/ \E c \in SignIns : signIns[c] = "terminate"
<1>1. VpnInv /\ [VpnNext]_vpnVars => [Spared]_vpnVars
  <2> SUFFICES ASSUME VpnInv, VpnNext, runtime.generation # 0,
                      openconnect[runtime.generation] = "up",
                      openconnect'[runtime.generation] \notin {"up", "ok", "failed"},
                      ~runtime.stopped, hubMain # "terminate",
                      \A c \in SignIns : signIns[c] # "terminate"
               PROVE  FALSE
    OBVIOUS
  <2> DEFINE g == runtime.generation
  <2>1. g \in VpnGenerations
    <3>1. g \in Nat /\ g <= MaxGenerations /\ g # 0 BY VpnShape
    <3> QED BY <3>1 DEF VpnGenerations
  <2>2. openconnect \in [VpnGenerations -> ChildStates]
    BY DEF VpnInv, VpnTypes
  <2> HIDE DEF g
  <2>3. openconnect[g] = "up" /\ openconnect'[g] \notin {"up", "ok", "failed"} BY DEF g
  <2>4. ASSUME UNCHANGED openconnect PROVE FALSE BY <2>3, <2>4
  <2>5. ASSUME NEW h \in VpnGenerations, ChildEnds(h) PROVE FALSE
    BY <2>1, <2>2, <2>3, <2>5 DEF ChildEnds
  <2>6. ASSUME NEW h \in VpnGenerations, WorkerSpawns(h) PROVE FALSE
    BY <2>1, <2>2, <2>3, <2>6 DEF WorkerSpawns
  <2>7. ASSUME NEW h \in VpnGenerations, WorkerTakes(h) PROVE FALSE
    <3>1. CASE TakesChild(h)
      <4>1. runtime.slot = h BY <3>1 DEF TakesChild
      <4>2. Superseded(h) /\ KillsChild(runtime.slot) BY <2>4, <2>7, <3>1 DEF WorkerTakes
      <4>3. g = runtime.slot BY <2>1, <2>3, <4>2, KillsOnlySlot
      <4> QED BY <4>1, <4>2, <4>3 DEF Superseded, g
    <3>2. CASE ~TakesChild(h)
      <4>1. openconnect'[g] = IF g = h /\ ChildGone(h) THEN "none" ELSE openconnect[g]
        BY <2>1, <2>7, <3>2 DEF WorkerTakes
      <4> QED BY <2>3, <4>1 DEF ChildGone
    <3> QED BY <3>1, <3>2
  <2>9. ASSUME NEW h \in VpnGenerations, WorkerReaps(h) PROVE FALSE
    BY <2>1, <2>2, <2>3, <2>9 DEF WorkerReaps
  <2>8. UNCHANGED openconnect
        \/ \E h \in VpnGenerations :
              ChildEnds(h) \/ WorkerSpawns(h) \/ WorkerTakes(h) \/ WorkerReaps(h)
    BY DEF VpnNext, VpnConnect, VpnDisconnect, DisconnectTerminates, DisconnectForgets,
           DisconnectUnlocks, DisconnectLifts, DisconnectReports, SetVpnProtection, WorkerReads,
           WorkerUnlocks, WorkerLifts, WorkerSettles, WorkerEngages, WorkerLocks, WorkerReports,
           SignInCallsBack, SignInReplays, SignInClaims, ReconnectTerminates, ReconnectBuilds,
           ReconnectLaunches, vpnChildren
  <2> QED BY <2>4, <2>5, <2>6, <2>7, <2>8, <2>9
<1> QED BY <1>1, VpnInvariance, PTL DEF VpnSpec, NewestSpared

=============================================================================

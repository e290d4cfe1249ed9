----------------------------- MODULE MCServices -----------------------------
(***************************************************************************)
(* What must eventually happen, for TLC: recovery from a bad image, the    *)
(* scheduler daemon, and the update jobs of the Hub.  They share no state  *)
(* here; part is the one that moves, the others stay in one initial state, *)
(* and fairness binds the part that moves.                                 *)
(***************************************************************************)
EXTENDS MCUpdateSafety, SchedDaemon, HubUpdates

CONSTANT MovingParts    \* which of the parts are checked

VARIABLE part

\* Tuned for games, with the performance mode following; and left alone.
SomeSchedConfigs ==
    {[desktop_scheduler |-> "scx_bpfland", gaming_scheduler |-> "scx_lavd",
      integrate_perf_mode |-> TRUE],
     [desktop_scheduler |-> "default", gaming_scheduler |-> "scx_lavd",
      integrate_perf_mode |-> FALSE]}

ServicesInit ==
    /\ part \in MovingParts
    /\ Init
    /\ SchedInit
    /\ HubInit
    /\ part # "recovery" => booted = good /\ prev = bad /\ remote = good
    /\ part # "sched" => ~game /\ loader = "up" /\ configFile.integrate_perf_mode

ServicesNext ==
    /\ UNCHANGED part
    /\ \/ part = "recovery" /\ Next /\ UNCHANGED <<schedVars, hubVars>>
       \/ part = "sched" /\ SchedNext /\ UNCHANGED <<vars, hubVars>>
       \/ part = "updates" /\ HubNext /\ UNCHANGED <<vars, schedVars>>

\* Fairness of UpdateSafety, SchedFairness and HubFairness.
PartFairness ==
    /\ WF_vars(part = "recovery" /\ Greenboot)
    /\ \A p \in Recorders : WF_vars(part = "recovery" /\ Recorder(p))
    /\ WF_vars(part = "recovery" /\ verdict = "red" /\ Reboot)
    /\ WF_schedVars(part = "sched" /\ Polls)
    /\ WF_schedVars(part = "sched" /\ PerfChildEnds)
    /\ \A j \in 1..MaxUpdateJobs :
          /\ WF_hubVars(part = "updates" /\ j \in Jobs /\ Thread(j))
          /\ WF_hubVars(part = "updates" /\ j \in Jobs /\ Helper(j))
          /\ WF_hubVars(part = "updates" /\ j \in Jobs /\ ReadLine(j))

ServicesSpec ==
    /\ ServicesInit
    /\ [][ServicesNext]_<<part, vars, schedVars, hubVars>>
    /\ PartFairness

\* Type correctness of the parts; the scheduler's retries stay paced.
ServicesTypeOK == TypeOK /\ SchedTypeOK /\ HubTypeOK
=============================================================================

----------------------------- MODULE MCMachine ------------------------------
(***************************************************************************)
(* The whole machine of UpdateSafety for TLC.  day is what runs beside the *)
(* hooks and clear-quarantine in a behaviour: both updaters with an        *)
(* administrator who repeats a rollback, or one of the updaters with one   *)
(* who switches channels, without a power loss.                            *)
(***************************************************************************)
EXTENDS MCUpdateSafety

VARIABLE day

MachineInit == Init /\ day \in {"updaters", "safe-upgrade", "watcher"}

MachineNext ==
    /\ Next
    /\ UNCHANGED day
    /\ day = "updaters" => sw' = "idle"
    /\ day # "updaters" => adm'.pc = "idle" /\ UNCHANGED losses
    /\ day = "safe-upgrade" => wt'.pc = "idle"
    /\ day = "watcher" => su'.pc = "idle"

MachineSpec == MachineInit /\ [][MachineNext]_<<vars, day>>
=============================================================================

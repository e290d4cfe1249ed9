----------------------------- MODULE MCRecords ------------------------------
(***************************************************************************)
(* Records that several programs and threads change, side by side for TLC: *)
(* the update coordinator's state, the job store of kyth-shared, and the   *)
(* guardian's history.  They share no state; part is the one that moves,   *)
(* the others stay in one initial state.                                   *)
(***************************************************************************)
EXTENDS QuarantineDue, JobStore, Guardian

CONSTANTS
    MovingParts,    \* which of the parts are checked
    d1, d2          \* two deployments

VARIABLE part

RecordsInit ==
    /\ part \in MovingParts
    /\ DueInit
    /\ JobInit
    /\ GuardianInit
    /\ part # "coordinator" => booted = d1

RecordsNext ==
    /\ UNCHANGED part
    /\ \/ part = "coordinator" /\ DueNext /\ UNCHANGED <<jobVars, guardianVars>>
       \/ part = "jobs" /\ JobNext /\ UNCHANGED <<dueVars, guardianVars>>
       \/ part = "guardian" /\ GuardianNext /\ UNCHANGED <<dueVars, jobVars>>

RecordsSpec == RecordsInit /\ [][RecordsNext]_<<part, dueVars, jobVars, guardianVars>>

\* Type correctness of the parts; the job store and the guardian's file stay
\* within their limits.
RecordsTypeOK == TypeOK /\ JobTypeOK /\ GuardianTypeOK
=============================================================================

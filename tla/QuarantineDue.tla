--------------------------- MODULE QuarantineDue ---------------------------
(***************************************************************************)
(* boot-health.json with a history of what its callers reported.           *)
(* `kyth-boot-health record-failure --threshold N` takes any N from 1, but *)
(* the coordinator refuses a quarantine on fewer boots than the default    *)
(* threshold (update_coordinator.rs, `invariants()`), and with it the      *)
(* whole report.  The history does not look at the file: it says which     *)
(* boots were reported with the default threshold.                         *)
(***************************************************************************)
EXTENDS UpdateCoordinator

VARIABLES
    forgivenNow,  \* history: the digests forgiven in this boot
    dueBoots      \* history: boots reported with the default threshold, per
                  \* digest, since it was last forgiven

dueVars == <<vars, forgivenNow, dueBoots>>

DueInit ==
    /\ Init
    /\ forgivenNow = {}
    /\ dueBoots = [d \in Digests |-> {}]

\* A boot in which the digest was forgiven is not held against it again: the
\* file may still hold it as its last failure.
NoteReport(threshold) ==
    /\ dueBoots' = IF threshold = Threshold /\ booted \notin forgivenNow
                   THEN [dueBoots EXCEPT ![booted] = @ \cup {boot}]
                   ELSE dueBoots
    /\ UNCHANGED forgivenNow

NoteForgiven(d) ==
    /\ dueBoots' = [dueBoots EXCEPT ![d] = {}]
    /\ forgivenNow' = forgivenNow \cup {d}

\* What neither reports, forgives nor boots.
OtherSteps ==
    \/ \E d \in Digests : RecordStaged(d)
    \/ \E d \in Digests, failed \in BOOLEAN : NoteRollbackAttempted(d, failed)
    \/ \E d \in Digests : ReleaseRollbackSlot(d)

DueNext ==
    \/ \E t \in Thresholds : RecordFailure(t) /\ NoteReport(t)
    \/ MarkHealthy /\ NoteForgiven(booted)
    \/ \E d \in Digests : ClearQuarantine(d) /\ NoteForgiven(d)
    \/ \E d \in Digests : Boot(d) /\ forgivenNow' = {} /\ UNCHANGED dueBoots
    \/ OtherSteps /\ UNCHANGED <<forgivenNow, dueBoots>>

DueSpec == DueInit /\ [][DueNext]_dueVars

-----------------------------------------------------------------------------

\* Threshold boots reported with the default threshold since a digest was
\* forgiven have it quarantined, whatever reports with other thresholds came in
\* between, before or after them in the same boots, accepted or refused: a
\* refused report leaves neither a tally nor the mark by which record_failure
\* takes the boot for counted (update_coordinator.rs:88).
QuarantineComes ==
    \A d \in Digests :
        Cardinality(dueBoots[d]) >= Threshold => Quarantined(health, d)

=============================================================================

------------------------- MODULE UpdateCoordinator -------------------------
(***************************************************************************)
(* The one writer of /var/lib/kyth/boot-health.json                        *)
(* (kyth-shared-rs/src/system/update_coordinator.rs): every change of the  *)
(* file is one transaction (exclusive flock, read, transform, refuse an    *)
(* invalid result, atomic replace), so each is one step here.  The module  *)
(* says what the file may do over many boots, whoever calls: it is the     *)
(* abstract specification that UpdateSafety implements.                    *)
(***************************************************************************)
EXTENDS BootHealth, FiniteSets

CONSTANTS
    Thresholds,   \* values --threshold takes, after .max(1)
    Channel,      \* image_ring() of the booted reference
    MaxBoots      \* bound: boots of a behaviour

ASSUME ThresholdsAssumption == Thresholds \subseteq Nat \ {0}
ASSUME ChannelAssumption == Channel \in Rings
ASSUME MaxBootsAssumption == MaxBoots \in Nat

VARIABLES
    health,       \* contents of boot-health.json
    boot,         \* /proc/sys/kernel/random/boot_id of this boot
    booted,       \* digest bootc reports as booted; fixed within a boot
    failedBoots   \* history: boots put on file as failed, per digest, since it was
                  \* last forgiven (healthy boot or clear-quarantine)

vars == <<health, boot, booted, failedBoots>>

Init ==
    /\ health = DefaultState
    /\ boot = 1
    /\ booted \in Digests
    /\ failedBoots = [d \in Digests |-> {}]

\* Mutated form: a refused result still leaves its dedupe mark behind.
PersistedMark(s, t) ==
    IF Valid(t) THEN t
    ELSE [s EXCEPT !.current_digest = t.current_digest,
                   !.last_failure_boot_id = t.last_failure_boot_id]

\* What a transaction leaves in the file: an invalid result is refused.
Persisted(s, t) == IF Valid(t) THEN t ELSE s

Transaction(t) == health' = Persisted(health, t)

RecordStaged(d) ==
    /\ Transaction(record_staged(health, d, Channel))
    /\ UNCHANGED <<boot, booted, failedBoots>>

\* History: the accepted report of a failed boot.  A boot the file already holds
\* as its last failure is not news.
CountFailure(threshold) ==
    failedBoots' = IF \/ health.last_failure_boot_id = boot
                      \/ ~Valid(record_failure(health, booted, boot, threshold))
                   THEN failedBoots
                   ELSE [failedBoots EXCEPT ![booted] = @ \cup {boot}]

\* A threshold below the default makes a quarantine the file refuses.
RecordFailure(threshold) ==
    /\ Transaction(record_failure(health, booted, boot, threshold))
    /\ CountFailure(threshold)
    /\ UNCHANGED <<boot, booted>>

MarkHealthy ==
    /\ Transaction(mark_healthy(health, booted))
    /\ failedBoots' = [failedBoots EXCEPT ![booted] = {}]
    /\ UNCHANGED <<boot, booted>>

ClearQuarantine(d) ==
    /\ Transaction(clear_quarantine(health, d))
    /\ failedBoots' = [failedBoots EXCEPT ![d] = {}]
    /\ UNCHANGED <<boot, booted>>

NoteRollbackAttempted(d, failed) ==
    /\ Transaction(note_rollback_attempted(health, d, failed))
    /\ UNCHANGED <<boot, booted, failedBoots>>

\* The transaction of `kyth-boot-health retry-rollback`.
ReleaseRollbackSlot(d) ==
    /\ Transaction(ReleaseSlot(health, d))
    /\ UNCHANGED <<boot, booted, failedBoots>>

Boot(d) ==
    /\ boot < MaxBoots
    /\ boot' = boot + 1
    /\ booted' = d
    /\ UNCHANGED <<health, failedBoots>>

Next ==
    \/ \E d \in Digests : RecordStaged(d)
    \/ \E t \in Thresholds : RecordFailure(t)
    \/ MarkHealthy
    \/ \E d \in Digests : ClearQuarantine(d)
    \/ \E d \in Digests, failed \in BOOLEAN : NoteRollbackAttempted(d, failed)
    \/ \E d \in Digests : ReleaseRollbackSlot(d)
    \/ \E d \in Digests : Boot(d)

Spec == Init /\ [][Next]_vars

-----------------------------------------------------------------------------

\* The file, the boot and the history hold values of their types.
TypeOK ==
    /\ health \in HealthState
    /\ boot \in Nat
    /\ booted \in Digests
    /\ failedBoots \in [Digests -> SUBSET Nat]

\* A digest is quarantined only on the evidence of Threshold different boots
\* that failed since it was last forgiven, however often one boot is reported
\* and however boots of other digests interleave (record_failure's dedupe
\* looks at the last recorded boot only).
QuarantineEarned ==
    \A d \in Digests :
        Quarantined(health, d) => Cardinality(failedBoots[d]) >= Threshold

\* The tally kept in failures_by_digest is the number of different boots
\* put on file since the digest was forgiven: no boot counts twice, none is lost
\* to a digest booted in between, and a refused report leaves no trace.
TallyIsBootCount ==
    \A d \in Digests :
        health.failures_by_digest[d] = Cardinality(failedBoots[d])

\* The evidence behind a quarantine survives everything but forgiveness: a
\* staged update, a rollback record or another digest's boot never lowers the
\* tally of a digest or releases its quarantine.
EvidenceKept ==
    [][\A d \in Digests :
         \/ health'.failures_by_digest[d] >= health.failures_by_digest[d]
            /\ (Quarantined(health, d) => Quarantined(health', d))
         \/ failedBoots'[d] = {}]_vars

=============================================================================

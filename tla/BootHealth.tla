----------------------------- MODULE BootHealth -----------------------------
(***************************************************************************)
(* The boot-health state of KythOS and its pure transitions                *)
(* (kyth-shared-rs/src/system/boot_health.rs).  The operators keep the     *)
(* names of the Rust functions; none of them touches a file, a lock or the *)
(* clock.  Reasons and timestamps are dropped: no decision of the code     *)
(* depends on them.  The two maps of the state are total functions on      *)
(* Digests in which 0 stands for "no entry".                               *)
(***************************************************************************)
EXTENDS Integers

CONSTANTS
    Digests,      \* image digests the machine can meet
    NoDigest,     \* the empty string where a digest is expected
    Threshold     \* DEFAULT_FAILURE_THRESHOLD

ASSUME DigestAssumption == NoDigest \notin Digests
ASSUME ThresholdAssumption == Threshold \in Nat \ {0}

Statuses == {"unknown", "healthy", "recovered", "unhealthy", "quarantined"}
Rings == {"follow-image", "canary", "testing", "stable"}

\* Boot ids are the numbers of the boots, from 1: fresh UUIDs never recur.
\* NoBoot is the empty string where a boot id is expected.
NoBoot == 0

HealthState ==
    [current_digest         : Digests \cup {NoDigest},
     last_healthy_digest    : Digests \cup {NoDigest},
     pending_digest         : Digests \cup {NoDigest},
     last_recovered_digest  : Digests \cup {NoDigest},
     status                 : Statuses,
     failures               : Nat,
     last_failure_boot_id   : Nat,
     rollout_ring           : Rings,
     quarantined            : [Digests -> Nat],
     failures_by_digest     : [Digests -> Nat],
     rollback_attempted_for : Digests \cup {NoDigest},
     last_rollback_error    : BOOLEAN]

\* BootHealthState::default(), also what a missing or malformed file decodes to.
DefaultState ==
    [current_digest         |-> NoDigest,
     last_healthy_digest    |-> NoDigest,
     pending_digest         |-> NoDigest,
     last_recovered_digest  |-> NoDigest,
     status                 |-> "unknown",
     failures               |-> 0,
     last_failure_boot_id   |-> NoBoot,
     rollout_ring           |-> "follow-image",
     quarantined            |-> [d \in Digests |-> 0],
     failures_by_digest     |-> [d \in Digests |-> 0],
     rollback_attempted_for |-> NoDigest,
     last_rollback_error    |-> FALSE]

\* BootHealthState::invariants() reports no error.
Valid(s) ==
    /\ s.failures >= 0
    /\ s.status = "healthy" => s.last_healthy_digest # NoDigest
    /\ \A d \in Digests : s.quarantined[d] # 0 => s.quarantined[d] >= Threshold
    /\ \A d \in Digests : s.failures_by_digest[d] >= 0

Quarantined(s, d) == d \in Digests /\ s.quarantined[d] # 0

-----------------------------------------------------------------------------

record_staged(s, d, ring) ==
    [s EXCEPT !.pending_digest = d, !.rollout_ring = ring]

\* Mutated form: the dedupe ignores the boot id.
CountsEveryReport(s, d, b) == TRUE

\* A boot is counted once per deployment: repeated reports are deduplicated
\* against the last recorded (digest, boot id) pair only.
CountsThisBoot(s, d, b) ==
    ~(s.current_digest = d /\ s.last_failure_boot_id = b)

DigestFailures(s, d, b) ==
    s.failures_by_digest[d] + (IF CountsThisBoot(s, d, b) THEN 1 ELSE 0)

ClearPending(s, d) ==
    IF s.pending_digest = d THEN NoDigest ELSE s.pending_digest

\* The state after a failed boot, given the new quarantine map and tallies.
FailureState(s, d, b, quarantined, tallies) ==
    [s EXCEPT
        !.current_digest       = d,
        !.pending_digest       = ClearPending(s, d),
        !.status               = IF quarantined[d] # 0 THEN "quarantined"
                                                       ELSE "unhealthy",
        !.failures             = (IF s.current_digest = d THEN @ ELSE 0)
                                 + (IF CountsThisBoot(s, d, b) THEN 1 ELSE 0),
        !.last_failure_boot_id = b,
        !.quarantined          = quarantined,
        !.failures_by_digest   = tallies]

\* The quarantine map after d has failed `total` times.
Judge(s, d, total, threshold) ==
    IF total >= threshold THEN [s.quarantined EXCEPT ![d] = total]
                          ELSE s.quarantined

\* Mutated form: a boot of another digest restarts the tally, as it does the
\* displayed streak.
RecordFailureStreakOnly(s, d, b, threshold) ==
    LET total == DigestFailures(s, d, b)
    IN  FailureState(s, d, b, Judge(s, d, total, threshold),
                     [e \in Digests |-> IF e = d THEN total ELSE 0])

record_failure(s, d, b, threshold) ==
    LET total == DigestFailures(s, d, b)
    IN  FailureState(s, d, b, Judge(s, d, total, threshold),
                     [s.failures_by_digest EXCEPT ![d] = total])

\* A healthy boot forgives the digest, but leaves the rollback slot alone.
mark_healthy(s, d) ==
    LET recovered == s.current_digest # d /\ Quarantined(s, s.current_digest)
    IN  [s EXCEPT
            !.current_digest        = d,
            !.last_healthy_digest   = d,
            !.pending_digest        = ClearPending(s, d),
            !.last_recovered_digest = IF recovered THEN s.current_digest ELSE @,
            !.status                = IF recovered THEN "recovered"
                                                   ELSE "healthy",
            !.failures              = 0,
            !.last_failure_boot_id  = NoBoot,
            !.quarantined           = [@ EXCEPT ![d] = 0],
            !.failures_by_digest    = [@ EXCEPT ![d] = 0]]

\* One global slot records the last rollback attempt, whichever digest it was for.
note_rollback_attempted(s, d, failed) ==
    [s EXCEPT !.rollback_attempted_for = d, !.last_rollback_error = failed]

ReleaseSlot(s, d) ==
    IF s.rollback_attempted_for = d
    THEN [s EXCEPT !.rollback_attempted_for = NoDigest,
                   !.last_rollback_error = FALSE]
    ELSE s

clear_quarantine(s, d) ==
    [ReleaseSlot(s, d) EXCEPT
        !.quarantined        = [@ EXCEPT ![d] = 0],
        !.failures_by_digest = [@ EXCEPT ![d] = 0],
        !.status = IF s.current_digest = d /\ s.status = "quarantined"
                   THEN "unhealthy" ELSE s.status]

\* Mutated form: every report on a quarantined digest is due a rollback.
RollbackAlwaysDue(before, updated, d) == Quarantined(updated, d)

\* Mutated form: an attempt is never repeated, failed or not.
RollbackNeverRetried(before, updated, d) ==
    Quarantined(updated, d) /\ ~Quarantined(before, d)

\* Mutated form: a rollback is due only to a digest that already has a record.
RollbackOnlyRetried(before, updated, d) ==
    /\ Quarantined(updated, d)
    /\ updated.rollback_attempted_for = d
    /\ updated.last_rollback_error

\* Whether a red boot that moved the state from `before` to `updated` owes a
\* `bootc rollback` for d.
rollback_retry_due(before, updated, d) ==
    LET ours == updated.rollback_attempted_for = d
    IN  /\ Quarantined(updated, d)
        /\ ~(ours /\ ~updated.last_rollback_error)
        /\ \/ ~Quarantined(before, d)
           \/ /\ ours
              /\ updated.last_rollback_error
              /\ updated.failures_by_digest[d] > before.failures_by_digest[d]

\* rollout_policy_reason() gives a reason to refuse an image of ring `actual`.
RolloutBlocks(actual, configured) ==
    \/ configured \notin Rings
    \/ configured # "follow-image" /\ actual # configured

=============================================================================

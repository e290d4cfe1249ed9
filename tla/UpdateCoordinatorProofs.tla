---------------------- MODULE UpdateCoordinatorProofs ----------------------
(***************************************************************************)
(* Proofs about boot-health.json, for any set of digests, any threshold    *)
(* and any number of boots.                                                *)
(*                                                                         *)
(* QuarantineEarned is not inductive: a state whose tally exceeds the      *)
(* boots behind it satisfies it and leads out of it.  IInv adds that the   *)
(* tally is covered by reported boots other than an unrecorded current     *)
(* one, that a quarantine record is within the tally, that no reported     *)
(* boot lies in the future, and that the boot id the dedupe remembers      *)
(* belongs to the booted digest, which is why remembering one boot is      *)
(* enough.                                                                 *)
(***************************************************************************)
EXTENDS QuarantineDue, FiniteSetTheorems, TLAPS

\* A quarantine record never claims more failures than the tally.
RecordWithinTally ==
    \A d \in Digests :
        health.quarantined[d] <= health.failures_by_digest[d]

\* Reported boots are finitely many and not in the future; the current boot
\* is one of the booted digest.
BootsReported ==
    \A d \in Digests :
        /\ IsFiniteSet(failedBoots[d])
        /\ \A b \in failedBoots[d] : b <= boot
        /\ boot \in failedBoots[d] => d = booted

\* The boot id the dedupe compares with is not in the future, and if it is
\* the current one, it was recorded for the booted digest.
BootIdKnown ==
    /\ boot # NoBoot
    /\ health.last_failure_boot_id <= boot
    /\ health.last_failure_boot_id = boot => health.current_digest = booted

\* The boots that can stand behind the tally of d: without the current one
\* as long as its failure is not on file.
Evidence(d) ==
    IF health.last_failure_boot_id = boot THEN failedBoots[d]
                                          ELSE failedBoots[d] \ {boot}

TallyWithinBoots ==
    \A d \in Digests :
        health.failures_by_digest[d] <= Cardinality(Evidence(d))

IInv ==
    /\ TypeOK
    /\ Valid(health)
    /\ RecordWithinTally
    /\ BootsReported
    /\ BootIdKnown
    /\ TallyWithinBoots

-----------------------------------------------------------------------------

LEMMA InitIInv == Init => IInv
<1> SUFFICES ASSUME Init PROVE IInv
  OBVIOUS
<1>0. /\ health.quarantined = [d \in Digests |-> 0]
      /\ health.failures_by_digest = [d \in Digests |-> 0]
      /\ failedBoots = [d \in Digests |-> {}]
      /\ health.last_failure_boot_id = 0 /\ boot = 1
  BY DEF Init, DefaultState, NoBoot
<1>1. TypeOK
  BY DEF Init, DefaultState, TypeOK, HealthState, Statuses, Rings, NoBoot
<1>2. Valid(health)
  BY DEF Init, DefaultState, Valid
<1>3. RecordWithinTally
  <2> SUFFICES ASSUME NEW d \in Digests
               PROVE  health.quarantined[d] <= health.failures_by_digest[d]
    BY DEF RecordWithinTally
  <2>1. health.quarantined[d] = 0 /\ health.failures_by_digest[d] = 0
    BY <1>0
  <2> QED
    BY <2>1
<1>4. BootsReported
  BY <1>0, FS_EmptySet DEF BootsReported
<1>5. BootIdKnown
  BY <1>0 DEF BootIdKnown, NoBoot
<1>6. TallyWithinBoots
  <2> SUFFICES ASSUME NEW d \in Digests
               PROVE  health.failures_by_digest[d] <= Cardinality(Evidence(d))
    BY DEF TallyWithinBoots
  <2>1. Evidence(d) = {}
    BY <1>0 DEF Evidence
  <2>2. health.failures_by_digest[d] = 0
    BY <1>0
  <2> QED
    BY <2>1, <2>2, FS_EmptySet
<1> QED
  BY <1>1, <1>2, <1>3, <1>4, <1>5, <1>6 DEF IInv

LEMMA FailureStateType ==
    ASSUME NEW s \in HealthState, NEW d \in Digests, NEW b \in Nat,
           NEW q \in [Digests -> Nat], NEW y \in [Digests -> Nat]
    PROVE  LET r == FailureState(s, d, b, q, y)
           IN  /\ r \in HealthState
               /\ r.current_digest = d
               /\ r.last_failure_boot_id = b
               /\ r.failures_by_digest = y
               /\ r.quarantined = q
               /\ r.status # "healthy"
<1> DEFINE n == (IF s.current_digest = d THEN s.failures ELSE 0)
                + (IF CountsThisBoot(s, d, b) THEN 1 ELSE 0)
           st == IF q[d] # 0 THEN "quarantined" ELSE "unhealthy"
<1>1. n \in Nat
  <2>1. s.failures \in Nat
    BY DEF HealthState
  <2> QED
    BY <2>1
<1>2. st \in Statuses /\ st # "healthy"
  BY DEF Statuses
<1>3. ClearPending(s, d) \in Digests \cup {NoDigest}
  BY DEF ClearPending, HealthState
<1> DEFINE p == ClearPending(s, d)
           r == [s EXCEPT !.current_digest = d, !.pending_digest = p,
                          !.status = st, !.failures = n, !.last_failure_boot_id = b,
                          !.quarantined = q, !.failures_by_digest = y]
<1>4. FailureState(s, d, b, q, y) = r
  BY DEF FailureState
<1> HIDE DEF n, st, p
<1>5. r \in HealthState
  BY <1>1, <1>2, <1>3 DEF HealthState, p
<1>6. /\ r.current_digest = d /\ r.last_failure_boot_id = b
      /\ r.failures_by_digest = y /\ r.quarantined = q /\ r.status = st
  BY DEF HealthState
<1> HIDE DEF r
<1> QED
  BY <1>2, <1>4, <1>5, <1>6

\* What record_failure does to the fields the invariant speaks of.
LEMMA FailureFields ==
    ASSUME NEW s \in HealthState, NEW d \in Digests, NEW b \in Nat,
           NEW t \in Nat \ {0}
    PROVE  LET r == record_failure(s, d, b, t)
           IN  /\ r \in HealthState
               /\ r.current_digest = d
               /\ r.last_failure_boot_id = b
               /\ r.failures_by_digest =
                    [s.failures_by_digest EXCEPT ![d] = DigestFailures(s, d, b)]
               /\ \/ r.quarantined = s.quarantined
                  \/ /\ DigestFailures(s, d, b) >= t
                     /\ r.quarantined =
                          [s.quarantined EXCEPT ![d] = DigestFailures(s, d, b)]
               /\ r.status # "healthy"
<1> DEFINE total == DigestFailures(s, d, b)
           quar == Judge(s, d, total, t)
           tally == [s.failures_by_digest EXCEPT ![d] = total]
           r == FailureState(s, d, b, quar, tally)
<1>1. total \in Nat
  <2>1. s.failures_by_digest[d] \in Nat
    BY DEF HealthState
  <2> QED
    BY <2>1 DEF DigestFailures
<1>2. \/ quar = s.quarantined
      \/ total >= t /\ quar = [s.quarantined EXCEPT ![d] = total]
  BY DEF Judge
<1>3. quar \in [Digests -> Nat] /\ tally \in [Digests -> Nat]
  BY <1>1, <1>2 DEF HealthState
<1>4. /\ r \in HealthState
      /\ r.current_digest = d
      /\ r.last_failure_boot_id = b
      /\ r.failures_by_digest = tally
      /\ r.quarantined = quar
      /\ r.status # "healthy"
  <2> HIDE DEF quar, tally
  <2> QED
    BY <1>3, FailureStateType
<1>5. record_failure(s, d, b, t) = r
  BY DEF record_failure
<1> QED
  BY <1>2, <1>4, <1>5

\* The same for mark_healthy and clear_quarantine.
LEMMA HealthyFields ==
    ASSUME NEW s \in HealthState, NEW d \in Digests
    PROVE  LET r == mark_healthy(s, d)
           IN  /\ r \in HealthState
               /\ r.last_healthy_digest = d
               /\ r.last_failure_boot_id = NoBoot
               /\ r.failures_by_digest = [s.failures_by_digest EXCEPT ![d] = 0]
               /\ r.quarantined = [s.quarantined EXCEPT ![d] = 0]
<1>1. ClearPending(s, d) \in Digests \cup {NoDigest}
  BY DEF ClearPending, HealthState
<1>2. mark_healthy(s, d) \in HealthState
  BY <1>1 DEF mark_healthy, HealthState, Statuses, NoBoot
<1>3. /\ mark_healthy(s, d).last_healthy_digest = d
      /\ mark_healthy(s, d).last_failure_boot_id = NoBoot
      /\ mark_healthy(s, d).failures_by_digest
            = [s.failures_by_digest EXCEPT ![d] = 0]
      /\ mark_healthy(s, d).quarantined = [s.quarantined EXCEPT ![d] = 0]
  BY DEF mark_healthy, HealthState
<1> QED
  BY <1>2, <1>3

LEMMA ReleaseFields ==
    ASSUME NEW s \in HealthState, NEW d \in Digests
    PROVE  LET r == ReleaseSlot(s, d)
           IN  /\ r \in HealthState
               /\ r.status = s.status
               /\ r.last_healthy_digest = s.last_healthy_digest
               /\ r.current_digest = s.current_digest
               /\ r.last_failure_boot_id = s.last_failure_boot_id
               /\ r.failures_by_digest = s.failures_by_digest
               /\ r.quarantined = s.quarantined
  BY DEF ReleaseSlot, HealthState

LEMMA ClearFields ==
    ASSUME NEW s \in HealthState, NEW d \in Digests
    PROVE  LET r == clear_quarantine(s, d)
           IN  /\ r \in HealthState
               /\ r.current_digest = s.current_digest
               /\ r.last_failure_boot_id = s.last_failure_boot_id
               /\ r.status \in {s.status, "unhealthy"}
               /\ r.last_healthy_digest = s.last_healthy_digest
               /\ r.failures_by_digest = [s.failures_by_digest EXCEPT ![d] = 0]
               /\ r.quarantined = [s.quarantined EXCEPT ![d] = 0]
<1> DEFINE q == ReleaseSlot(s, d)
           qd == [q.quarantined EXCEPT ![d] = 0]
           fd == [q.failures_by_digest EXCEPT ![d] = 0]
           st == IF s.current_digest = d /\ s.status = "quarantined"
                 THEN "unhealthy" ELSE s.status
<1>1. /\ q \in HealthState
      /\ q.status = s.status
      /\ q.last_healthy_digest = s.last_healthy_digest
      /\ q.current_digest = s.current_digest
      /\ q.last_failure_boot_id = s.last_failure_boot_id
      /\ q.failures_by_digest = s.failures_by_digest
      /\ q.quarantined = s.quarantined
  BY ReleaseFields
<1> HIDE DEF q
<1>2. clear_quarantine(s, d) =
        [q EXCEPT !.quarantined = qd, !.failures_by_digest = fd, !.status = st]
  BY DEF clear_quarantine, q
<1>3. st \in {s.status, "unhealthy"} /\ st \in Statuses
  BY DEF HealthState, Statuses
<1>4. /\ qd \in [Digests -> Nat] /\ qd = [s.quarantined EXCEPT ![d] = 0]
      /\ fd \in [Digests -> Nat] /\ fd = [s.failures_by_digest EXCEPT ![d] = 0]
  BY <1>1 DEF HealthState
<1> HIDE DEF st, qd, fd
<1>5. clear_quarantine(s, d) \in HealthState
  BY <1>1, <1>2, <1>3, <1>4 DEF HealthState
<1>6. /\ clear_quarantine(s, d).current_digest = s.current_digest
      /\ clear_quarantine(s, d).last_failure_boot_id = s.last_failure_boot_id
      /\ clear_quarantine(s, d).status = st
      /\ clear_quarantine(s, d).last_healthy_digest = s.last_healthy_digest
  BY <1>1, <1>2 DEF HealthState
<1>7. /\ clear_quarantine(s, d).failures_by_digest
            = [s.failures_by_digest EXCEPT ![d] = 0]
      /\ clear_quarantine(s, d).quarantined = [s.quarantined EXCEPT ![d] = 0]
  BY <1>1, <1>2, <1>4 DEF HealthState
<1> QED
  BY <1>3, <1>5, <1>6, <1>7

-----------------------------------------------------------------------------

\* The fields of a health state the invariant speaks of.
SameEvidence(s, t) ==
    /\ t.status = s.status
    /\ t.last_healthy_digest = s.last_healthy_digest
    /\ t.current_digest = s.current_digest
    /\ t.last_failure_boot_id = s.last_failure_boot_id
    /\ t.failures_by_digest = s.failures_by_digest
    /\ t.quarantined = s.quarantined

\* A transaction that leaves those fields alone preserves the invariant.
LEMMA QuietStep ==
    ASSUME IInv, NEW t \in HealthState, SameEvidence(health, t),
           Transaction(t), UNCHANGED <<boot, booted, failedBoots>>
    PROVE  IInv'
<1>1. health' \in HealthState /\ SameEvidence(health, health')
  BY DEF Transaction, Persisted, SameEvidence, IInv, TypeOK
<1>2. TypeOK'
  BY <1>1 DEF IInv, TypeOK
<1>3. Valid(health')
  BY <1>1 DEF IInv, Valid, SameEvidence, HealthState
<1>4. RecordWithinTally'
  BY <1>1 DEF IInv, RecordWithinTally, SameEvidence
<1>5. BootsReported' /\ BootIdKnown'
  BY <1>1 DEF IInv, BootsReported, BootIdKnown, SameEvidence
<1>6. TallyWithinBoots'
  BY <1>1 DEF IInv, TallyWithinBoots, Evidence, SameEvidence
<1> QED
  BY <1>2, <1>3, <1>4, <1>5, <1>6 DEF IInv

\* Only the booted digest has the current boot among its reported ones.
LEMMA EvidenceOfOthers ==
    ASSUME IInv, NEW d \in Digests, d # booted
    PROVE  Evidence(d) = failedBoots[d]
  BY DEF IInv, BootsReported, Evidence

\* Forgiving a digest leaves a state the coordinator accepts.
LEMMA ForgiveAccepted ==
    ASSUME IInv, NEW d \in Digests, NEW t \in HealthState,
           t.quarantined = [health.quarantined EXCEPT ![d] = 0],
           t.status = "healthy" => t.last_healthy_digest # NoDigest
    PROVE  Valid(t)
<1>1. t.failures >= 0
  BY DEF HealthState
<1>2. \A e \in Digests : t.quarantined[e] # 0 => t.quarantined[e] >= Threshold
  BY DEF IInv, TypeOK, Valid, HealthState
<1>3. \A e \in Digests : t.failures_by_digest[e] >= 0
  BY DEF HealthState
<1> QED
  BY <1>1, <1>2, <1>3 DEF Valid

\* Forgiving d (mark_healthy, clear_quarantine) preserves the invariant.
LEMMA ForgiveStep ==
    ASSUME IInv, NEW d \in Digests, NEW t \in HealthState,
           t.failures_by_digest = [health.failures_by_digest EXCEPT ![d] = 0],
           t.quarantined = [health.quarantined EXCEPT ![d] = 0],
           t.status = "healthy" => t.last_healthy_digest # NoDigest,
           \/ d = booted /\ t.last_failure_boot_id = NoBoot
           \/ /\ t.current_digest = health.current_digest
              /\ t.last_failure_boot_id = health.last_failure_boot_id,
           Transaction(t), failedBoots' = [failedBoots EXCEPT ![d] = {}],
           UNCHANGED <<boot, booted>>
    PROVE  IInv'
<1>0. /\ health \in HealthState /\ failedBoots \in [Digests -> SUBSET Nat]
      /\ boot \in Nat
  BY DEF IInv, TypeOK
<1>1. Valid(t)
  BY ForgiveAccepted
<1>2. health' = t
  BY <1>1 DEF Transaction, Persisted
<1>3. TypeOK'
  BY <1>2 DEF IInv, TypeOK
<1>4. RecordWithinTally'
  <2> SUFFICES ASSUME NEW e \in Digests
               PROVE  health'.quarantined[e] <= health'.failures_by_digest[e]
    BY DEF RecordWithinTally
  <2>1. CASE e = d
    <3>1. health'.quarantined[e] = 0 /\ health'.failures_by_digest[e] = 0
      BY <1>0, <1>2, <2>1 DEF HealthState
    <3> QED
      BY <3>1
  <2>2. CASE e # d
    BY <1>0, <1>2, <2>2 DEF IInv, HealthState, RecordWithinTally
  <2> QED
    BY <2>1, <2>2
<1>5. BootsReported'
  BY <1>0, FS_EmptySet DEF IInv, BootsReported
<1>6. BootIdKnown'
  BY <1>0, <1>2 DEF IInv, BootIdKnown, NoBoot
<1>7. TallyWithinBoots'
  <2> SUFFICES ASSUME NEW e \in Digests
               PROVE  t.failures_by_digest[e] <= Cardinality(Evidence(e)')
    BY <1>2 DEF TallyWithinBoots
  <2>1. CASE e = d
    <3>1. t.failures_by_digest[e] = 0
      BY <1>0, <2>1 DEF HealthState
    <3>2. Evidence(e)' = {}
      BY <1>0, <2>1 DEF Evidence
    <3> QED
      BY <3>1, <3>2, FS_EmptySet
  <2>2. CASE e # d
    <3>1. t.failures_by_digest[e] = health.failures_by_digest[e]
      BY <1>0, <2>2 DEF HealthState
    <3>2. failedBoots'[e] = failedBoots[e]
      BY <1>0, <2>2
    <3>3. Evidence(e)' = Evidence(e)
      <4>1. CASE t.last_failure_boot_id = health.last_failure_boot_id
        BY <1>2, <3>2, <4>1 DEF Evidence
      <4>2. CASE d = booted
        BY <1>2, <2>2, <3>2, <4>2, EvidenceOfOthers
           DEF Evidence, IInv, BootsReported
      <4> QED
        BY <4>1, <4>2
    <3> QED
      BY <3>1, <3>3 DEF IInv, TallyWithinBoots
  <2> QED
    BY <2>1, <2>2
<1> QED
  BY <1>1, <1>2, <1>3, <1>4, <1>5, <1>6, <1>7 DEF IInv

\* What a red boot puts on file, and when it is a new failure.
LEMMA FailureFacts ==
    ASSUME IInv, NEW threshold \in Thresholds, RecordFailure(threshold)
    PROVE  LET t == record_failure(health, booted, boot, threshold)
               total == DigestFailures(health, booted, boot)
           IN  /\ t \in HealthState
               /\ t.current_digest = booted
               /\ t.last_failure_boot_id = boot
               /\ t.status # "healthy"
               /\ t.failures_by_digest =
                    [health.failures_by_digest EXCEPT ![booted] = total]
               /\ \/ t.quarantined = health.quarantined
                  \/ /\ total >= threshold
                     /\ t.quarantined =
                          [health.quarantined EXCEPT ![booted] = total]
               /\ total = health.failures_by_digest[booted]
                          + (IF health.last_failure_boot_id = boot THEN 0 ELSE 1)
<1>0. /\ health \in HealthState /\ boot \in Nat /\ booted \in Digests
      /\ threshold \in Nat \ {0}
  BY ThresholdsAssumption DEF IInv, TypeOK
<1>1. CountsThisBoot(health, booted, boot) <=> health.last_failure_boot_id # boot
  BY DEF IInv, BootIdKnown, CountsThisBoot
<1>2. DigestFailures(health, booted, boot)
        = health.failures_by_digest[booted]
          + (IF health.last_failure_boot_id = boot THEN 0 ELSE 1)
  BY <1>1 DEF DigestFailures
<1> QED
  BY <1>0, <1>2, FailureFields

\* A red boot preserves the invariant: the one action that adds evidence.
LEMMA FailureStep ==
    ASSUME IInv, NEW threshold \in Thresholds, RecordFailure(threshold)
    PROVE  IInv'
<1> DEFINE total == DigestFailures(health, booted, boot)
           t == record_failure(health, booted, boot, threshold)
<1>0. /\ health \in HealthState /\ boot \in Nat /\ booted \in Digests
      /\ failedBoots \in [Digests -> SUBSET Nat]
      /\ health.failures_by_digest \in [Digests -> Nat]
      /\ health.quarantined \in [Digests -> Nat]
      /\ UNCHANGED <<boot, booted>>
  BY DEF IInv, TypeOK, RecordFailure, HealthState
<1>1. /\ t \in HealthState
      /\ t.current_digest = booted
      /\ t.last_failure_boot_id = boot
      /\ t.failures_by_digest =
            [health.failures_by_digest EXCEPT ![booted] = total]
      /\ \/ t.quarantined = health.quarantined
         \/ t.quarantined = [health.quarantined EXCEPT ![booted] = total]
      /\ total = health.failures_by_digest[booted]
                 + (IF health.last_failure_boot_id = boot THEN 0 ELSE 1)
  BY FailureFacts
<1>2. health' = IF Valid(t) THEN t ELSE health
  BY DEF RecordFailure, Transaction, Persisted
<1>3. failedBoots' = IF health.last_failure_boot_id = boot \/ ~Valid(t)
                     THEN failedBoots
                     ELSE [failedBoots EXCEPT ![booted] = @ \cup {boot}]
  BY DEF RecordFailure, CountFailure
<1>4. total \in Nat /\ total >= health.failures_by_digest[booted]
  <2>1. health.failures_by_digest[booted] \in Nat
    BY <1>0
  <2> QED
    BY <1>1, <2>1
<1> HIDE DEF t, total
<1>5. TypeOK'
  BY <1>0, <1>1, <1>2, <1>3 DEF TypeOK
<1>6. Valid(health')
  BY <1>2 DEF IInv
<1>7. RecordWithinTally'
  <2> SUFFICES ASSUME NEW e \in Digests, Valid(t)
               PROVE  t.quarantined[e] <= t.failures_by_digest[e]
    BY <1>2 DEF IInv, RecordWithinTally
  <2>1. /\ health.quarantined[e] \in Nat
        /\ health.failures_by_digest[e] \in Nat
        /\ health.quarantined[e] <= health.failures_by_digest[e]
    BY <1>0 DEF IInv, RecordWithinTally
  <2>2. CASE e = booted
    <3>1. t.failures_by_digest[e] = total
      BY <1>0, <1>1, <2>2
    <3>2. t.quarantined[e] \in {health.quarantined[e], total}
      BY <1>0, <1>1, <2>2
    <3> QED
      BY <1>4, <2>1, <2>2, <3>1, <3>2
  <2>3. CASE e # booted
    <3>1. /\ t.failures_by_digest[e] = health.failures_by_digest[e]
          /\ t.quarantined[e] = health.quarantined[e]
      BY <1>0, <1>1, <2>3
    <3> QED
      BY <2>1, <3>1
  <2> QED
    BY <2>2, <2>3
<1>8. BootsReported'
  <2> SUFFICES ASSUME NEW e \in Digests
               PROVE  /\ IsFiniteSet(failedBoots'[e])
                      /\ \A b \in failedBoots'[e] : b <= boot
                      /\ boot \in failedBoots'[e] => e = booted
    BY <1>0 DEF BootsReported
  <2>1. /\ IsFiniteSet(failedBoots[e])
        /\ \A b \in failedBoots[e] : b <= boot
        /\ boot \in failedBoots[e] => e = booted
    BY DEF IInv, BootsReported
  <2>2. \/ failedBoots'[e] = failedBoots[e]
        \/ e = booted /\ failedBoots'[e] = failedBoots[e] \cup {boot}
    BY <1>0, <1>3
  <2>3. IsFiniteSet(failedBoots[e] \cup {boot})
    BY <2>1, FS_AddElement
  <2>4. \A b \in failedBoots[e] \cup {boot} : b <= boot
    BY <1>0, <2>1
  <2> QED
    BY <2>1, <2>2, <2>3, <2>4
<1>9. BootIdKnown'
  BY <1>0, <1>1, <1>2 DEF IInv, BootIdKnown
<1>10. TallyWithinBoots'
  <2> SUFFICES ASSUME NEW e \in Digests
               PROVE  health'.failures_by_digest[e] <= Cardinality(Evidence(e)')
    BY DEF TallyWithinBoots
  <2>1. health.failures_by_digest[e] <= Cardinality(Evidence(e))
    BY DEF IInv, TallyWithinBoots
  <2>2. CASE e # booted
    <3>1. health'.failures_by_digest[e] = health.failures_by_digest[e]
      BY <1>0, <1>1, <1>2, <2>2
    <3>2. failedBoots'[e] = failedBoots[e] /\ boot \notin failedBoots[e]
      BY <1>0, <1>3, <2>2 DEF IInv, BootsReported
    <3>3. Evidence(e)' = Evidence(e)
      BY <1>0, <3>2 DEF Evidence
    <3> QED
      BY <2>1, <3>1, <3>3
  <2>3. CASE e = booted /\ ~Valid(t)
    <3>1. health' = health
      BY <1>2, <2>3
    <3>2. Evidence(e)' = Evidence(e)
      BY <1>0, <1>3, <2>3, <3>1 DEF Evidence
    <3> QED
      BY <2>1, <3>1, <3>2
  <2>4. CASE e = booted /\ Valid(t) /\ health.last_failure_boot_id = boot
    <3>1. health'.failures_by_digest[e] = health.failures_by_digest[e]
      BY <1>0, <1>1, <1>2, <2>4
    <3>2. Evidence(e)' = Evidence(e)
      BY <1>0, <1>1, <1>2, <1>3, <2>4 DEF Evidence
    <3> QED
      BY <2>1, <3>1, <3>2
  <2>5. CASE e = booted /\ Valid(t) /\ health.last_failure_boot_id # boot
    <3>1. health'.failures_by_digest[e] = health.failures_by_digest[e] + 1
      BY <1>0, <1>1, <1>2, <2>5
    <3>2. Evidence(e) = failedBoots[e] \ {boot}
      BY <2>5 DEF Evidence
    <3>3. Evidence(e)' = Evidence(e) \cup {boot}
      BY <1>0, <1>1, <1>2, <1>3, <2>5, <3>2 DEF Evidence
    <3>4. IsFiniteSet(Evidence(e))
      BY <3>2, FS_Difference DEF IInv, BootsReported
    <3>5. boot \notin Evidence(e)
      BY <3>2
    <3>6. Cardinality(Evidence(e)') = Cardinality(Evidence(e)) + 1
      BY <3>3, <3>4, <3>5, FS_AddElement
    <3>7. Cardinality(Evidence(e)) \in Nat
      BY <3>4, FS_CardinalityType
    <3>8. health.failures_by_digest[e] \in Nat
      BY <1>0
    <3> QED
      BY <2>1, <3>1, <3>6, <3>7, <3>8
  <2> QED
    BY <2>2, <2>3, <2>4, <2>5
<1> QED
  BY <1>5, <1>6, <1>7, <1>8, <1>9, <1>10 DEF IInv

LEMMA NextIInv == IInv /\ [Next]_vars => IInv'
<1> SUFFICES ASSUME IInv, [Next]_vars PROVE IInv'
  OBVIOUS
<1>0. health \in HealthState /\ booted \in Digests /\ boot \in Nat
  BY DEF IInv, TypeOK
<1>1. ASSUME NEW d \in Digests, RecordStaged(d) PROVE IInv'
  <2>1. record_staged(health, d, Channel) \in HealthState
    BY <1>0, ChannelAssumption DEF record_staged, HealthState
  <2>2. SameEvidence(health, record_staged(health, d, Channel))
    BY <1>0 DEF record_staged, HealthState, SameEvidence
  <2> QED
    BY <1>1, <2>1, <2>2, QuietStep DEF RecordStaged
<1>2. ASSUME NEW t \in Thresholds, RecordFailure(t) PROVE IInv'
  BY <1>2, FailureStep
<1>3. ASSUME MarkHealthy PROVE IInv'
  <2> DEFINE t == mark_healthy(health, booted)
  <2>1. /\ t \in HealthState
        /\ t.last_healthy_digest = booted
        /\ t.last_failure_boot_id = NoBoot
        /\ t.failures_by_digest = [health.failures_by_digest EXCEPT ![booted] = 0]
        /\ t.quarantined = [health.quarantined EXCEPT ![booted] = 0]
    BY <1>0, HealthyFields
  <2>2. t.last_healthy_digest # NoDigest
    BY <1>0, <2>1, DigestAssumption
  <2> HIDE DEF t
  <2>3. /\ Transaction(t) /\ failedBoots' = [failedBoots EXCEPT ![booted] = {}]
        /\ UNCHANGED <<boot, booted>>
    BY <1>3 DEF MarkHealthy, t
  <2> QED
    BY <1>0, <2>1, <2>2, <2>3, ForgiveStep
<1>4. ASSUME NEW d \in Digests, ClearQuarantine(d) PROVE IInv'
  <2> DEFINE t == clear_quarantine(health, d)
  <2>1. /\ t \in HealthState
        /\ t.current_digest = health.current_digest
        /\ t.last_failure_boot_id = health.last_failure_boot_id
        /\ t.status \in {health.status, "unhealthy"}
        /\ t.last_healthy_digest = health.last_healthy_digest
        /\ t.failures_by_digest = [health.failures_by_digest EXCEPT ![d] = 0]
        /\ t.quarantined = [health.quarantined EXCEPT ![d] = 0]
    BY <1>0, ClearFields
  <2>2. t.status = "healthy" => t.last_healthy_digest # NoDigest
    BY <2>1 DEF IInv, Valid
  <2> HIDE DEF t
  <2>3. /\ Transaction(t) /\ failedBoots' = [failedBoots EXCEPT ![d] = {}]
        /\ UNCHANGED <<boot, booted>>
    BY <1>4 DEF ClearQuarantine, t
  <2> QED
    BY <2>1, <2>2, <2>3, ForgiveStep
<1>5. ASSUME NEW d \in Digests, NEW failed \in BOOLEAN,
             NoteRollbackAttempted(d, failed)
      PROVE  IInv'
  <2>1. note_rollback_attempted(health, d, failed) \in HealthState
    BY <1>0 DEF note_rollback_attempted, HealthState
  <2>2. SameEvidence(health, note_rollback_attempted(health, d, failed))
    BY <1>0 DEF note_rollback_attempted, HealthState, SameEvidence
  <2> QED
    BY <1>5, <2>1, <2>2, QuietStep DEF NoteRollbackAttempted
<1>6. ASSUME NEW d \in Digests, ReleaseRollbackSlot(d) PROVE IInv'
  <2>1. ReleaseSlot(health, d) \in HealthState
    BY <1>0, ReleaseFields
  <2>2. SameEvidence(health, ReleaseSlot(health, d))
    BY <1>0, ReleaseFields DEF SameEvidence
  <2> QED
    BY <1>6, <2>1, <2>2, QuietStep DEF ReleaseRollbackSlot
<1>7. ASSUME NEW d \in Digests, Boot(d) PROVE IInv'
  <2>1. boot' = boot + 1 /\ booted' = d /\ UNCHANGED <<health, failedBoots>>
    BY <1>7 DEF Boot
  <2>2. TypeOK' /\ Valid(health') /\ RecordWithinTally'
    BY <2>1 DEF IInv, TypeOK, RecordWithinTally
  <2>3. \A e \in Digests : \A b \in failedBoots[e] : b \in Nat /\ b <= boot
    BY DEF IInv, TypeOK, BootsReported
  <2>4. BootsReported'
    BY <1>0, <2>1, <2>3 DEF IInv, BootsReported
  <2>5. health.last_failure_boot_id \in Nat
    BY <1>0 DEF HealthState
  <2>6. BootIdKnown'
    BY <1>0, <2>1, <2>5 DEF IInv, BootIdKnown, NoBoot
  <2>7. TallyWithinBoots'
    <3> SUFFICES ASSUME NEW e \in Digests
                 PROVE  health.failures_by_digest[e] <= Cardinality(Evidence(e)')
      BY <2>1 DEF TallyWithinBoots
    <3>1. Evidence(e)' = failedBoots[e]
      <4>1. boot' \notin failedBoots[e]
        BY <1>0, <2>1, <2>3
      <4> QED
        BY <2>1, <4>1 DEF Evidence
    <3>2. IsFiniteSet(failedBoots[e])
      BY DEF IInv, BootsReported
    <3>3. Evidence(e) \subseteq failedBoots[e]
      BY DEF Evidence
    <3>4. /\ Cardinality(Evidence(e)) <= Cardinality(failedBoots[e])
          /\ Cardinality(Evidence(e)) \in Nat
          /\ Cardinality(failedBoots[e]) \in Nat
      BY <3>2, <3>3, FS_Subset, FS_CardinalityType
    <3>5. /\ health.failures_by_digest[e] <= Cardinality(Evidence(e))
          /\ health.failures_by_digest[e] \in Nat
      BY <1>0 DEF IInv, TallyWithinBoots, HealthState
    <3> QED
      BY <3>1, <3>4, <3>5
  <2> QED
    BY <2>2, <2>4, <2>6, <2>7 DEF IInv
<1>8. CASE UNCHANGED vars
  BY <1>8 DEF vars, IInv, TypeOK, RecordWithinTally, BootsReported,
              BootIdKnown, TallyWithinBoots, Evidence
<1> QED
  BY <1>1, <1>2, <1>3, <1>4, <1>5, <1>6, <1>7, <1>8 DEF Next

-----------------------------------------------------------------------------

LEMMA AlwaysIInv == Spec => []IInv
  BY InitIInv, NextIInv, PTL DEF Spec

\* boot-health.json decodes to a well-typed state after every transaction of
\* update_coordinator.rs, whatever its callers interleave.
THEOREM TypeCorrect == Spec => []TypeOK
<1>1. IInv => TypeOK
  BY DEF IInv
<1> QED
  BY <1>1, AlwaysIInv, PTL

\* record_failure quarantines a digest only after Threshold different boots of
\* it were reported as failed since it was last forgiven, whatever thresholds
\* its callers ask for.
THEOREM QuarantineIsEarned == Spec => []QuarantineEarned
<1>1. IInv => QuarantineEarned
  <2> SUFFICES ASSUME IInv, NEW d \in Digests, Quarantined(health, d)
               PROVE  Cardinality(failedBoots[d]) >= Threshold
    BY DEF QuarantineEarned
  <2>1. /\ health.quarantined[d] \in Nat
        /\ health.failures_by_digest[d] \in Nat
    BY DEF IInv, TypeOK, HealthState
  <2>2. health.quarantined[d] >= Threshold
    BY DEF IInv, Valid, Quarantined
  <2>3. health.quarantined[d] <= health.failures_by_digest[d]
    BY DEF IInv, RecordWithinTally
  <2>4. health.failures_by_digest[d] <= Cardinality(Evidence(d))
    BY DEF IInv, TallyWithinBoots
  <2>5. Evidence(d) \subseteq failedBoots[d] /\ IsFiniteSet(failedBoots[d])
    BY DEF IInv, BootsReported, Evidence
  <2>6. /\ Cardinality(Evidence(d)) <= Cardinality(failedBoots[d])
        /\ Cardinality(Evidence(d)) \in Nat
        /\ Cardinality(failedBoots[d]) \in Nat
    BY <2>5, FS_Subset, FS_CardinalityType
  <2> QED
    BY <2>1, <2>2, <2>3, <2>4, <2>6, ThresholdAssumption
<1> QED
  BY <1>1, AlwaysIInv, PTL

-----------------------------------------------------------------------------

\* What EvidenceKept asks of one step for one digest.
Kept(d) ==
    \/ health'.failures_by_digest[d] >= health.failures_by_digest[d]
       /\ (Quarantined(health, d) => Quarantined(health', d))
    \/ failedBoots'[d] = {}

\* A transaction that leaves tallies and quarantine map alone keeps evidence.
LEMMA QuietKeeps ==
    ASSUME IInv, NEW d \in Digests,
           health'.failures_by_digest = health.failures_by_digest,
           health'.quarantined = health.quarantined
    PROVE  Kept(d)
<1>1. health.failures_by_digest[d] \in Nat
  BY DEF IInv, TypeOK, HealthState
<1> QED
  BY <1>1 DEF Kept, Quarantined

LEMMA FailureKeeps ==
    ASSUME IInv, NEW d \in Digests, NEW threshold \in Thresholds,
           RecordFailure(threshold)
    PROVE  Kept(d)
<1> DEFINE total == DigestFailures(health, booted, boot)
           t == record_failure(health, booted, boot, threshold)
<1>0. /\ health \in HealthState /\ boot \in Nat /\ booted \in Digests
      /\ threshold \in Nat \ {0}
  BY ThresholdsAssumption DEF IInv, TypeOK
<1>1. /\ t.failures_by_digest =
            [health.failures_by_digest EXCEPT ![booted] = total]
      /\ \/ t.quarantined = health.quarantined
         \/ t.quarantined = [health.quarantined EXCEPT ![booted] = total]
      /\ total = health.failures_by_digest[booted]
                 + (IF health.last_failure_boot_id = boot THEN 0 ELSE 1)
  BY FailureFacts
<1>2. /\ health.failures_by_digest[d] \in Nat
      /\ health.quarantined[d] \in Nat
      /\ health.quarantined[d] <= health.failures_by_digest[d]
      /\ health.failures_by_digest \in [Digests -> Nat]
      /\ health.quarantined \in [Digests -> Nat]
  BY <1>0 DEF IInv, RecordWithinTally, HealthState
<1>3. health.failures_by_digest[booted] \in Nat
  BY <1>0, <1>2
<1>4. total \in Nat /\ total >= health.failures_by_digest[booted]
  BY <1>1, <1>3
<1>5. health' \in {health, t}
  BY DEF RecordFailure, Transaction, Persisted
<1> HIDE DEF t, total
<1>6. CASE health' = health
  BY <1>6, QuietKeeps
<1>7. CASE health' = t /\ d # booted
  <2>1. /\ t.failures_by_digest[d] = health.failures_by_digest[d]
        /\ t.quarantined[d] = health.quarantined[d]
    BY <1>0, <1>1, <1>2, <1>7
  <2> QED
    BY <1>2, <1>7, <2>1 DEF Kept, Quarantined
<1>8. CASE health' = t /\ d = booted
  <2>1. t.failures_by_digest[d] = total
    BY <1>0, <1>1, <1>2, <1>8
  <2>2. t.quarantined[d] \in {health.quarantined[d], total}
    BY <1>0, <1>1, <1>2, <1>8
  <2>3. health.quarantined[d] # 0 => t.quarantined[d] # 0
    BY <1>2, <1>4, <1>8, <2>2
  <2>4. t.failures_by_digest[d] >= health.failures_by_digest[d]
    BY <1>4, <1>8, <2>1
  <2> QED
    BY <1>8, <2>3, <2>4 DEF Kept, Quarantined
<1> QED
  BY <1>5, <1>6, <1>7, <1>8

\* Forgiving e empties the history of e and leaves the others their evidence.
LEMMA ForgiveKeeps ==
    ASSUME IInv, NEW d \in Digests, NEW e \in Digests, NEW t \in HealthState,
           t.failures_by_digest = [health.failures_by_digest EXCEPT ![e] = 0],
           t.quarantined = [health.quarantined EXCEPT ![e] = 0],
           Transaction(t), failedBoots' = [failedBoots EXCEPT ![e] = {}]
    PROVE  Kept(d)
<1>0. /\ health.failures_by_digest \in [Digests -> Nat]
      /\ health.quarantined \in [Digests -> Nat]
      /\ failedBoots \in [Digests -> SUBSET Nat]
  BY DEF IInv, TypeOK, HealthState
<1>1. CASE d = e
  BY <1>0, <1>1 DEF Kept
<1>2. CASE d # e
  <2>1. /\ health'.failures_by_digest[d] = health.failures_by_digest[d]
        /\ health'.quarantined[d] = health.quarantined[d]
    BY <1>0, <1>2 DEF Transaction, Persisted
  <2>2. health.failures_by_digest[d] \in Nat
    BY <1>0
  <2> QED
    BY <2>1, <2>2 DEF Kept, Quarantined
<1> QED
  BY <1>1, <1>2

LEMMA NextKeeps ==
    ASSUME IInv, [Next]_vars, NEW d \in Digests
    PROVE  Kept(d)
<1>0. health \in HealthState /\ booted \in Digests
  BY DEF IInv, TypeOK
<1>1. ASSUME NEW e \in Digests, RecordStaged(e) PROVE Kept(d)
  BY <1>0, <1>1, QuietKeeps
     DEF RecordStaged, Transaction, Persisted, record_staged, HealthState
<1>2. ASSUME NEW t \in Thresholds, RecordFailure(t) PROVE Kept(d)
  BY <1>2, FailureKeeps
<1>3. ASSUME MarkHealthy PROVE Kept(d)
  BY <1>0, <1>3, HealthyFields, ForgiveKeeps DEF MarkHealthy
<1>4. ASSUME NEW e \in Digests, ClearQuarantine(e) PROVE Kept(d)
  BY <1>0, <1>4, ClearFields, ForgiveKeeps DEF ClearQuarantine
<1>5. ASSUME NEW e \in Digests, NEW failed \in BOOLEAN,
             NoteRollbackAttempted(e, failed)
      PROVE  Kept(d)
  BY <1>0, <1>5, QuietKeeps
     DEF NoteRollbackAttempted, Transaction, Persisted,
         note_rollback_attempted, HealthState
<1>6. ASSUME NEW e \in Digests, ReleaseRollbackSlot(e) PROVE Kept(d)
  BY <1>0, <1>6, ReleaseFields, QuietKeeps
     DEF ReleaseRollbackSlot, Transaction, Persisted
<1>7. ASSUME NEW e \in Digests, Boot(e) PROVE Kept(d)
  BY <1>7, QuietKeeps DEF Boot
<1>8. CASE UNCHANGED vars
  BY <1>8, QuietKeeps DEF vars
<1> QED
  BY <1>1, <1>2, <1>3, <1>4, <1>5, <1>6, <1>7, <1>8 DEF Next

\* Only mark_healthy and clear_quarantine take evidence away, and only from
\* the digest they forgive.
THEOREM EvidenceIsKept == Spec => EvidenceKept
<1>1. IInv /\ [Next]_vars =>
        [\A d \in Digests :
           \/ health'.failures_by_digest[d] >= health.failures_by_digest[d]
              /\ (Quarantined(health, d) => Quarantined(health', d))
           \/ failedBoots'[d] = {}]_vars
  BY NextKeeps DEF Kept
<1> QED
  BY <1>1, AlwaysIInv, PTL DEF Spec, EvidenceKept

-----------------------------------------------------------------------------
(* The tally is exact: what is refused leaves no trace.                    *)

\* Once the current boot is reported, its failure is on file.
DedupeKnows ==
    \A d \in Digests :
        boot \in failedBoots[d] => health.last_failure_boot_id = boot

ExactInv == IInv /\ TallyIsBootCount /\ DedupeKnows

LEMMA FailureExact ==
    ASSUME ExactInv, NEW threshold \in Thresholds, RecordFailure(threshold)
    PROVE  TallyIsBootCount' /\ DedupeKnows'
<1> DEFINE total == DigestFailures(health, booted, boot)
           t == record_failure(health, booted, boot, threshold)
<1>0. /\ IInv /\ boot \in Nat /\ booted \in Digests
      /\ failedBoots \in [Digests -> SUBSET Nat]
      /\ health.failures_by_digest \in [Digests -> Nat]
      /\ UNCHANGED <<boot, booted>>
  BY DEF ExactInv, IInv, TypeOK, RecordFailure, HealthState
<1>1. CASE ~Valid(t)
  <2>1. UNCHANGED <<health, failedBoots>>
    BY <1>1 DEF RecordFailure, CountFailure, Transaction, Persisted
  <2> QED
    BY <1>0, <2>1 DEF ExactInv, TallyIsBootCount, DedupeKnows
<1>2. CASE Valid(t)
  <2>1. /\ health'.last_failure_boot_id = boot
        /\ health'.failures_by_digest =
              [health.failures_by_digest EXCEPT ![booted] = total]
        /\ total = health.failures_by_digest[booted]
                   + (IF health.last_failure_boot_id = boot THEN 0 ELSE 1)
    <3>1. health' = t
      BY <1>2 DEF RecordFailure, Transaction, Persisted
    <3> QED
      BY <1>0, <3>1, FailureFacts
  <2>2. failedBoots' = IF health.last_failure_boot_id = boot
                       THEN failedBoots
                       ELSE [failedBoots EXCEPT ![booted] = @ \cup {boot}]
    BY <1>2 DEF RecordFailure, CountFailure
  <2> HIDE DEF total, t
  <2>3. TallyIsBootCount'
    <3> SUFFICES ASSUME NEW e \in Digests
                 PROVE  health'.failures_by_digest[e]
                          = Cardinality(failedBoots'[e])
      BY DEF TallyIsBootCount
    <3>1. health.failures_by_digest[e] = Cardinality(failedBoots[e])
      BY DEF ExactInv, TallyIsBootCount
    <3>2. CASE e # booted \/ health.last_failure_boot_id = boot
      <4>1. health'.failures_by_digest[e] = health.failures_by_digest[e]
        BY <1>0, <2>1, <3>2
      <4>2. failedBoots'[e] = failedBoots[e]
        BY <1>0, <2>2, <3>2
      <4> QED
        BY <3>1, <4>1, <4>2
    <3>3. CASE e = booted /\ health.last_failure_boot_id # boot
      <4>1. health'.failures_by_digest[e] = health.failures_by_digest[e] + 1
        BY <1>0, <2>1, <3>3
      <4>2. failedBoots'[e] = failedBoots[e] \cup {boot}
        BY <1>0, <2>2, <3>3
      <4>3. boot \notin failedBoots[e] /\ IsFiniteSet(failedBoots[e])
        BY <1>0, <3>3 DEF ExactInv, DedupeKnows, IInv, BootsReported
      <4>4. Cardinality(failedBoots'[e]) = Cardinality(failedBoots[e]) + 1
        BY <4>2, <4>3, FS_AddElement
      <4> QED
        BY <3>1, <4>1, <4>4
    <3> QED
      BY <3>2, <3>3
  <2>4. DedupeKnows'
    BY <1>0, <2>1 DEF DedupeKnows
  <2> QED
    BY <2>3, <2>4
<1> QED
  BY <1>1, <1>2

\* Forgiving d keeps the others' tallies exact.
LEMMA ForgiveExact ==
    ASSUME ExactInv, NEW d \in Digests, NEW t \in HealthState,
           t.failures_by_digest = [health.failures_by_digest EXCEPT ![d] = 0],
           \/ d = booted
           \/ t.last_failure_boot_id = health.last_failure_boot_id,
           health' = t, failedBoots' = [failedBoots EXCEPT ![d] = {}],
           UNCHANGED <<boot, booted>>
    PROVE  TallyIsBootCount' /\ DedupeKnows'
<1>0. /\ failedBoots \in [Digests -> SUBSET Nat]
      /\ health.failures_by_digest \in [Digests -> Nat]
  BY DEF ExactInv, IInv, TypeOK, HealthState
<1>1. TallyIsBootCount'
  <2> SUFFICES ASSUME NEW e \in Digests
               PROVE  t.failures_by_digest[e] = Cardinality(failedBoots'[e])
    BY DEF TallyIsBootCount
  <2>1. CASE e = d
    BY <1>0, <2>1, FS_EmptySet
  <2>2. CASE e # d
    BY <1>0, <2>2 DEF ExactInv, TallyIsBootCount
  <2> QED
    BY <2>1, <2>2
<1>2. DedupeKnows'
  BY <1>0 DEF ExactInv, DedupeKnows, IInv, BootsReported
<1> QED
  BY <1>1, <1>2

LEMMA NextExact == ExactInv /\ [Next]_vars => ExactInv'
<1> SUFFICES ASSUME ExactInv, [Next]_vars
             PROVE  TallyIsBootCount' /\ DedupeKnows'
  BY NextIInv DEF ExactInv
<1>0. IInv /\ health \in HealthState /\ booted \in Digests /\ boot \in Nat
  BY DEF ExactInv, IInv, TypeOK
<1>1. ASSUME NEW t \in HealthState, SameEvidence(health, t), Transaction(t),
             UNCHANGED <<boot, booted, failedBoots>>
      PROVE  TallyIsBootCount' /\ DedupeKnows'
  BY <1>1 DEF Transaction, Persisted, SameEvidence, ExactInv,
              TallyIsBootCount, DedupeKnows
<1>2. ASSUME NEW d \in Digests, RecordStaged(d)
      PROVE  TallyIsBootCount' /\ DedupeKnows'
  <2>1. record_staged(health, d, Channel) \in HealthState
    BY <1>0, ChannelAssumption DEF record_staged, HealthState
  <2>2. SameEvidence(health, record_staged(health, d, Channel))
    BY <1>0 DEF record_staged, HealthState, SameEvidence
  <2> QED
    BY <1>1, <1>2, <2>1, <2>2 DEF RecordStaged
<1>3. ASSUME NEW t \in Thresholds, RecordFailure(t)
      PROVE  TallyIsBootCount' /\ DedupeKnows'
  BY <1>3, FailureExact
<1>4. ASSUME MarkHealthy PROVE TallyIsBootCount' /\ DedupeKnows'
  <2> DEFINE t == mark_healthy(health, booted)
  <2>1. /\ t \in HealthState
        /\ t.last_healthy_digest # NoDigest
        /\ t.failures_by_digest = [health.failures_by_digest EXCEPT ![booted] = 0]
        /\ t.quarantined = [health.quarantined EXCEPT ![booted] = 0]
    BY <1>0, HealthyFields, DigestAssumption
  <2> HIDE DEF t
  <2>2. Valid(t)
    BY <1>0, <2>1, ForgiveAccepted
  <2>3. /\ health' = t /\ failedBoots' = [failedBoots EXCEPT ![booted] = {}]
        /\ UNCHANGED <<boot, booted>>
    BY <1>4, <2>2 DEF MarkHealthy, Transaction, Persisted, t
  <2> QED
    BY <1>0, <2>1, <2>3, ForgiveExact
<1>5. ASSUME NEW d \in Digests, ClearQuarantine(d)
      PROVE  TallyIsBootCount' /\ DedupeKnows'
  <2> DEFINE t == clear_quarantine(health, d)
  <2>1. /\ t \in HealthState
        /\ t.last_failure_boot_id = health.last_failure_boot_id
        /\ t.status \in {health.status, "unhealthy"}
        /\ t.last_healthy_digest = health.last_healthy_digest
        /\ t.failures_by_digest = [health.failures_by_digest EXCEPT ![d] = 0]
        /\ t.quarantined = [health.quarantined EXCEPT ![d] = 0]
    BY <1>0, ClearFields
  <2>2. t.status = "healthy" => t.last_healthy_digest # NoDigest
    BY <1>0, <2>1 DEF IInv, Valid
  <2> HIDE DEF t
  <2>3. Valid(t)
    BY <1>0, <2>1, <2>2, ForgiveAccepted
  <2>4. /\ health' = t /\ failedBoots' = [failedBoots EXCEPT ![d] = {}]
        /\ UNCHANGED <<boot, booted>>
    BY <1>5, <2>3 DEF ClearQuarantine, Transaction, Persisted, t
  <2> QED
    BY <2>1, <2>4, ForgiveExact
<1>6. ASSUME NEW d \in Digests, NEW failed \in BOOLEAN,
             NoteRollbackAttempted(d, failed)
      PROVE  TallyIsBootCount' /\ DedupeKnows'
  <2>1. note_rollback_attempted(health, d, failed) \in HealthState
    BY <1>0 DEF note_rollback_attempted, HealthState
  <2>2. SameEvidence(health, note_rollback_attempted(health, d, failed))
    BY <1>0 DEF note_rollback_attempted, HealthState, SameEvidence
  <2> QED
    BY <1>1, <1>6, <2>1, <2>2 DEF NoteRollbackAttempted
<1>7. ASSUME NEW d \in Digests, ReleaseRollbackSlot(d)
      PROVE  TallyIsBootCount' /\ DedupeKnows'
  <2>1. ReleaseSlot(health, d) \in HealthState
    BY <1>0, ReleaseFields
  <2>2. SameEvidence(health, ReleaseSlot(health, d))
    BY <1>0, ReleaseFields DEF SameEvidence
  <2> QED
    BY <1>1, <1>7, <2>1, <2>2 DEF ReleaseRollbackSlot
<1>8. ASSUME NEW d \in Digests, Boot(d) PROVE TallyIsBootCount' /\ DedupeKnows'
  <2>1. boot' = boot + 1 /\ UNCHANGED <<health, failedBoots>>
    BY <1>8 DEF Boot
  <2>2. \A e \in Digests : \A b \in failedBoots[e] : b \in Nat /\ b <= boot
    BY <1>0 DEF IInv, TypeOK, BootsReported
  <2>3. DedupeKnows'
    BY <1>0, <2>1, <2>2 DEF DedupeKnows
  <2> QED
    BY <2>1, <2>3 DEF ExactInv, TallyIsBootCount
<1>9. CASE UNCHANGED vars
  BY <1>9 DEF vars, ExactInv, TallyIsBootCount, DedupeKnows
<1> QED
  BY <1>2, <1>3, <1>4, <1>5, <1>6, <1>7, <1>8, <1>9 DEF Next

LEMMA InitExact == Init => ExactInv
<1> SUFFICES ASSUME Init PROVE TallyIsBootCount /\ DedupeKnows
  BY InitIInv DEF ExactInv
<1>1. /\ health.failures_by_digest = [d \in Digests |-> 0]
      /\ failedBoots = [d \in Digests |-> {}]
  BY DEF Init, DefaultState
<1> QED
  BY <1>1, FS_EmptySet DEF TallyIsBootCount, DedupeKnows

\* failures_by_digest counts boots, whatever thresholds are asked for:
\* record_failure's dedupe, which remembers one (digest, boot id) pair, never
\* counts a boot twice, and what the coordinator refuses is not counted.
THEOREM TallyCorrect == Spec => []TallyIsBootCount
<1>1. ExactInv => TallyIsBootCount
  BY DEF ExactInv
<1> QED
  BY <1>1, InitExact, NextExact, PTL DEF Spec

-----------------------------------------------------------------------------
(* A quarantine that is due comes.  The boots reported with the default    *)
(* threshold are among the boots on file: if the file already holds the    *)
(* current boot as its last failure, it holds it for the booted digest,    *)
(* unless that was forgiven meanwhile.  So the exact tally is at least     *)
(* their number, and the last of them finds it at the threshold.           *)

DueTyped ==
    /\ dueBoots \in [Digests -> SUBSET Nat]
    /\ forgivenNow \subseteq Digests

\* The mark of a boot stands for a boot on file.
MarkBacked ==
    health.last_failure_boot_id = boot /\ booted \notin forgivenNow
        => boot \in failedBoots[booted]

DueCovered == \A d \in Digests : dueBoots[d] \subseteq failedBoots[d]

DueInv == ExactInv /\ DueTyped /\ MarkBacked /\ DueCovered /\ QuarantineComes

LEMMA DueNextIsNext == [DueNext]_dueVars => [Next]_vars
  BY DEF DueNext, OtherSteps, Next, dueVars, vars

LEMMA DueInitInv == DueInit => DueInv
<1> SUFFICES ASSUME DueInit PROVE DueInv
  OBVIOUS
<1>1. ExactInv
  BY InitExact DEF DueInit
<1>2. DueTyped /\ DueCovered
  BY <1>1 DEF DueInit, DueTyped, DueCovered
<1>3. MarkBacked
  BY DEF DueInit, Init, DefaultState, NoBoot, MarkBacked
<1>4. QuarantineComes
  BY FS_EmptySet, ThresholdAssumption DEF DueInit, QuarantineComes
<1> QED
  BY <1>1, <1>2, <1>3, <1>4 DEF DueInv

\* A step that leaves the history of d alone or empties it leaves d
\* quarantined if it is due.
LEMMA StaysDue ==
    ASSUME DueInv, [Next]_vars, DueCovered', NEW d \in Digests,
           dueBoots'[d] \in {dueBoots[d], {}}
    PROVE  Cardinality(dueBoots'[d]) >= Threshold => Quarantined(health', d)
<1>1. CASE dueBoots'[d] = {}
  BY <1>1, FS_EmptySet, ThresholdAssumption
<1>2. CASE dueBoots'[d] = dueBoots[d] /\ dueBoots'[d] # {}
  <2>1. Kept(d)
    BY NextKeeps DEF DueInv, ExactInv
  <2>2. failedBoots'[d] # {}
    BY <1>2 DEF DueCovered
  <2> QED
    BY <1>2, <2>1, <2>2 DEF Kept, DueInv, QuarantineComes
<1> QED
  BY <1>1, <1>2

\* The coordinator refuses no report with the default threshold or a higher one.
LEMMA ReportAccepted ==
    ASSUME IInv, NEW threshold \in Thresholds, threshold >= Threshold,
           RecordFailure(threshold)
    PROVE  /\ Valid(record_failure(health, booted, boot, threshold))
           /\ health' = record_failure(health, booted, boot, threshold)
<1> DEFINE t == record_failure(health, booted, boot, threshold)
           total == DigestFailures(health, booted, boot)
<1>0. /\ health.quarantined \in [Digests -> Nat]
      /\ health.failures_by_digest \in [Digests -> Nat]
      /\ booted \in Digests
  BY DEF IInv, TypeOK, HealthState
<1>1. /\ t \in HealthState
      /\ t.status # "healthy"
      /\ \/ t.quarantined = health.quarantined
         \/ /\ total >= threshold
            /\ t.quarantined = [health.quarantined EXCEPT ![booted] = total]
      /\ total = health.failures_by_digest[booted]
                 + (IF health.last_failure_boot_id = boot THEN 0 ELSE 1)
  BY FailureFacts
<1>2. /\ threshold \in Nat /\ threshold >= Threshold /\ Threshold \in Nat
  BY ThresholdsAssumption, ThresholdAssumption
<1>3. total \in Nat
  <2>1. health.failures_by_digest[booted] \in Nat
    BY <1>0
  <2> QED
    BY <1>1, <2>1
<1> HIDE DEF t, total
<1>4. \A d \in Digests : t.quarantined[d] # 0 => t.quarantined[d] >= Threshold
  <2> SUFFICES ASSUME NEW d \in Digests, t.quarantined[d] # 0
               PROVE  t.quarantined[d] >= Threshold
    OBVIOUS
  <2>1. \/ t.quarantined[d] = health.quarantined[d]
        \/ total >= threshold /\ t.quarantined[d] = total
    BY <1>0, <1>1
  <2>2. health.quarantined[d] # 0 => health.quarantined[d] >= Threshold
    BY DEF IInv, Valid
  <2> QED
    BY <1>2, <1>3, <2>1, <2>2
<1>5. t.failures >= 0 /\ \A d \in Digests : t.failures_by_digest[d] >= 0
  BY <1>1 DEF HealthState
<1>6. Valid(t)
  BY <1>1, <1>4, <1>5 DEF Valid
<1>7. health' = t
  BY <1>6 DEF RecordFailure, Transaction, Persisted, t
<1> QED
  BY <1>6, <1>7 DEF t

\* The report with the default threshold.
LEMMA ReportQuarantines ==
    ASSUME DueInv, Threshold \in Thresholds, RecordFailure(Threshold),
           ExactInv', Cardinality(failedBoots'[booted]) >= Threshold
    PROVE  Quarantined(health', booted)
<1> DEFINE t == record_failure(health, booted, boot, Threshold)
           total == DigestFailures(health, booted, boot)
<1>0. /\ IInv /\ booted \in Digests /\ health \in HealthState
      /\ Threshold \in Nat \ {0} /\ boot \in Nat
  BY ThresholdAssumption DEF DueInv, ExactInv, IInv, TypeOK
<1>1. health' = t
  BY <1>0, ReportAccepted
<1>2. t.failures_by_digest = [health.failures_by_digest EXCEPT ![booted] = total]
  BY <1>0, FailureFacts
<1>3. total = Cardinality(failedBoots'[booted])
  <2>1. health'.failures_by_digest[booted] = Cardinality(failedBoots'[booted])
    BY <1>0 DEF ExactInv, TallyIsBootCount
  <2>2. health.failures_by_digest \in [Digests -> Nat]
    BY <1>0 DEF HealthState
  <2> QED
    BY <1>0, <1>1, <1>2, <2>1, <2>2
<1>4. t.quarantined = [health.quarantined EXCEPT ![booted] = total]
  BY <1>0, <1>3 DEF record_failure, FailureState, Judge, HealthState
<1>5. health.quarantined \in [Digests -> Nat]
  BY <1>0 DEF HealthState
<1> HIDE DEF t, total
<1>6. total # 0
  BY <1>0, <1>3
<1> QED
  BY <1>0, <1>1, <1>4, <1>5, <1>6 DEF Quarantined

LEMMA DueReport ==
    ASSUME DueInv, ExactInv', NEW threshold \in Thresholds,
           RecordFailure(threshold), NoteReport(threshold)
    PROVE  DueInv'
<1> DEFINE t == record_failure(health, booted, boot, threshold)
           news == threshold = Threshold /\ booted \notin forgivenNow
<1>0. /\ IInv /\ boot \in Nat /\ booted \in Digests
      /\ failedBoots \in [Digests -> SUBSET Nat]
      /\ dueBoots \in [Digests -> SUBSET Nat] /\ forgivenNow \subseteq Digests
      /\ UNCHANGED <<boot, booted, forgivenNow>>
      /\ dueBoots' = IF news THEN [dueBoots EXCEPT ![booted] = @ \cup {boot}]
                              ELSE dueBoots
  BY DEF DueInv, DueTyped, ExactInv, IInv, TypeOK, RecordFailure, NoteReport
<1>1. DueTyped'
  BY <1>0 DEF DueTyped
<1>2. /\ health' = IF Valid(t) THEN t ELSE health
      /\ failedBoots' = IF health.last_failure_boot_id = boot \/ ~Valid(t)
                        THEN failedBoots
                        ELSE [failedBoots EXCEPT ![booted] = @ \cup {boot}]
  BY DEF RecordFailure, Transaction, Persisted, CountFailure
<1>3. threshold = Threshold => Valid(t)
  BY <1>0, ThresholdAssumption, ReportAccepted
<1> HIDE DEF t
<1>4. MarkBacked'
  BY <1>0, <1>2 DEF DueInv, MarkBacked
<1>5. news => boot \in failedBoots'[booted]
  BY <1>0, <1>2, <1>3 DEF DueInv, MarkBacked
<1>6. DueCovered'
  BY <1>0, <1>2, <1>5 DEF DueInv, DueCovered
<1>7. QuarantineComes'
  <2> SUFFICES ASSUME NEW d \in Digests, Cardinality(dueBoots'[d]) >= Threshold
               PROVE  Quarantined(health', d)
    BY DEF QuarantineComes
  <2>1. CASE news /\ d = booted
    <3>1. dueBoots'[d] \subseteq failedBoots'[d] /\ IsFiniteSet(failedBoots'[d])
      BY <1>6 DEF DueCovered, ExactInv, IInv, BootsReported
    <3>2. /\ Cardinality(dueBoots'[d]) <= Cardinality(failedBoots'[d])
          /\ Cardinality(dueBoots'[d]) \in Nat
          /\ Cardinality(failedBoots'[d]) \in Nat
      BY <3>1, FS_Subset, FS_CardinalityType
    <3>3. Cardinality(failedBoots'[d]) >= Threshold
      BY <3>2, ThresholdAssumption
    <3> QED
      BY <2>1, <3>3, ReportQuarantines
  <2>2. CASE ~(news /\ d = booted)
    <3>1. dueBoots'[d] = dueBoots[d]
      BY <1>0, <2>2
    <3>2. [Next]_vars
      BY DEF Next
    <3> QED
      BY <1>6, <3>1, <3>2, StaysDue
  <2> QED
    BY <2>1, <2>2
<1> QED
  BY <1>1, <1>4, <1>6, <1>7 DEF DueInv

LEMMA DueForgive ==
    ASSUME DueInv, ExactInv', [Next]_vars, NEW d \in Digests, NoteForgiven(d),
           failedBoots' = [failedBoots EXCEPT ![d] = {}],
           UNCHANGED <<boot, booted>>,
           d # booted =>
               health'.last_failure_boot_id = health.last_failure_boot_id
    PROVE  DueInv'
<1>0. /\ failedBoots \in [Digests -> SUBSET Nat] /\ booted \in Digests
      /\ dueBoots \in [Digests -> SUBSET Nat] /\ forgivenNow \subseteq Digests
      /\ dueBoots' = [dueBoots EXCEPT ![d] = {}]
      /\ forgivenNow' = forgivenNow \cup {d}
  BY DEF DueInv, DueTyped, ExactInv, IInv, TypeOK, NoteForgiven
<1>1. DueTyped'
  BY <1>0 DEF DueTyped
<1>2. MarkBacked'
  BY <1>0 DEF DueInv, MarkBacked
<1>3. DueCovered'
  BY <1>0 DEF DueInv, DueCovered
<1>4. QuarantineComes'
  <2> SUFFICES ASSUME NEW e \in Digests
               PROVE  Cardinality(dueBoots'[e]) >= Threshold
                        => Quarantined(health', e)
    BY DEF QuarantineComes
  <2>1. dueBoots'[e] \in {dueBoots[e], {}}
    BY <1>0
  <2> QED
    BY <1>3, <2>1, StaysDue
<1> QED
  BY <1>1, <1>2, <1>3, <1>4 DEF DueInv

\* A step that leaves the dedupe's mark and both histories of boots alone.
LEMMA DueQuiet ==
    ASSUME DueInv, ExactInv', [Next]_vars,
           UNCHANGED <<failedBoots, dueBoots>>,
           forgivenNow' \subseteq Digests,
           \/ /\ UNCHANGED <<boot, booted, forgivenNow>>
              /\ health'.last_failure_boot_id = health.last_failure_boot_id
           \/ health'.last_failure_boot_id # boot'
    PROVE  DueInv'
<1>1. DueTyped' /\ DueCovered'
  BY DEF DueInv, DueTyped, DueCovered
<1>2. MarkBacked'
  BY DEF DueInv, MarkBacked
<1>3. QuarantineComes'
  BY <1>1, StaysDue DEF QuarantineComes
<1> QED
  BY <1>1, <1>2, <1>3 DEF DueInv

LEMMA DueNextInv == DueInv /\ [DueNext]_dueVars => DueInv'
<1> SUFFICES ASSUME DueInv, [DueNext]_dueVars PROVE DueInv'
  OBVIOUS
<1>0. /\ IInv /\ health \in HealthState /\ boot \in Nat /\ booted \in Digests
      /\ forgivenNow \subseteq Digests
  BY DEF DueInv, DueTyped, ExactInv, IInv, TypeOK
<1>1. [Next]_vars
  BY DueNextIsNext
<1>2. ExactInv'
  BY <1>1, NextExact DEF DueInv
<1>3. ASSUME NEW t \in Thresholds, RecordFailure(t), NoteReport(t) PROVE DueInv'
  BY <1>2, <1>3, DueReport
<1>4. ASSUME MarkHealthy, NoteForgiven(booted) PROVE DueInv'
  BY <1>0, <1>1, <1>2, <1>4, DueForgive DEF MarkHealthy
<1>5. ASSUME NEW d \in Digests, ClearQuarantine(d), NoteForgiven(d) PROVE DueInv'
  <2>1. health'.last_failure_boot_id = health.last_failure_boot_id
    BY <1>0, <1>5, ClearFields DEF ClearQuarantine, Transaction, Persisted
  <2> QED
    BY <1>1, <1>2, <1>5, <2>1, DueForgive DEF ClearQuarantine
<1>6. ASSUME NEW d \in Digests, Boot(d), forgivenNow' = {}, UNCHANGED dueBoots
      PROVE  DueInv'
  <2>1. health'.last_failure_boot_id # boot'
    <3>1. health.last_failure_boot_id \in Nat /\ health.last_failure_boot_id <= boot
      BY <1>0 DEF HealthState, IInv, BootIdKnown
    <3> QED
      BY <1>0, <1>6, <3>1 DEF Boot
  <2> QED
    BY <1>1, <1>2, <1>6, <2>1, DueQuiet DEF Boot
<1>7. ASSUME OtherSteps, UNCHANGED <<forgivenNow, dueBoots>> PROVE DueInv'
  <2>1. /\ UNCHANGED <<boot, booted, failedBoots>>
        /\ health'.last_failure_boot_id = health.last_failure_boot_id
    <3>1. ASSUME NEW d \in Digests, RecordStaged(d)
          PROVE  health'.last_failure_boot_id = health.last_failure_boot_id
      BY <1>0, <3>1 DEF RecordStaged, Transaction, Persisted, record_staged,
                        HealthState
    <3>2. ASSUME NEW d \in Digests, NEW failed \in BOOLEAN,
                 NoteRollbackAttempted(d, failed)
          PROVE  health'.last_failure_boot_id = health.last_failure_boot_id
      BY <1>0, <3>2 DEF NoteRollbackAttempted, Transaction, Persisted,
                        note_rollback_attempted, HealthState
    <3>3. ASSUME NEW d \in Digests, ReleaseRollbackSlot(d)
          PROVE  health'.last_failure_boot_id = health.last_failure_boot_id
      BY <1>0, <3>3, ReleaseFields DEF ReleaseRollbackSlot, Transaction, Persisted
    <3> QED
      BY <1>7, <3>1, <3>2, <3>3
         DEF OtherSteps, RecordStaged, NoteRollbackAttempted, ReleaseRollbackSlot
  <2> QED
    BY <1>0, <1>1, <1>2, <1>7, <2>1, DueQuiet
<1>8. CASE UNCHANGED dueVars
  BY <1>0, <1>1, <1>2, <1>8, DueQuiet DEF dueVars, vars
<1> QED
  BY <1>3, <1>4, <1>5, <1>6, <1>7, <1>8 DEF DueNext

\* Threshold boots of a digest reported with DEFAULT_FAILURE_THRESHOLD since it
\* was last forgiven have it quarantined, whatever `--threshold` other reports
\* ask for in between, lower ones that the coordinator refuses included.
THEOREM QuarantineArrives == DueSpec => []QuarantineComes
<1>1. DueInv => QuarantineComes
  BY DEF DueInv
<1> QED
  BY <1>1, DueInitInv, DueNextInv, PTL DEF DueSpec

=============================================================================

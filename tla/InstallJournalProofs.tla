----------------------- MODULE InstallJournalProofs -----------------------
(***************************************************************************)
(* The executor and its durable journal, for any sizes, any requests and   *)
(* any number of retries, step failures, power losses and corruptions.     *)
(***************************************************************************)
EXTENDS InstallJournal, Induction, TLAPS

-----------------------------------------------------------------------------
(* The inductive invariant.                                                *)

\* A step outside the guarded table mutation.
Outside(at) == at \notin Guarded \cup {"restore"}

\* Windows and the created partitions of a table do not overlap.
Disjoint(t) ==
    /\ \A p \in t.created : t.ntfs <= p[1] /\ p[2] <= DiskSize
    /\ \A p, q \in t.created : p = q \/ p[2] <= q[1] \/ q[2] <= p[1]

\* What the guarded steps may rely on: the backup is a sound table with no
\* less room for Windows, the shrink fits, the file system is small enough
\* before the boundary moves, and the region of the new partitions is free.
LayoutInv ==
    /\ WindowsFits
    /\ Disjoint(table) /\ Disjoint(backup)
    /\ ~Outside(pc) => table.ntfs <= backup.ntfs
    /\ pc \in {"fs_resize", "boundary"} => request.delta <= table.ntfs
    /\ pc = "boundary" => ntfsFs <= table.ntfs - request.delta
    /\ pc \in {"shrink_done", "create", "create_target"} => Free(window[1], window[2])

\* A file that is not a journal holds no records.
FilesSound ==
    /\ ~IsJournal(espFile) => espFile.ops = <<>>
    /\ ~IsJournal(stageFile) => stageFile.ops = <<>>

\* The steps that need the ESP have the journal there, with the records of
\* what came before.
EspReady ==
    /\ pc \in {"shrink_start", "fs_resize", "boundary", "shrink_done"} => handle = "esp"
    /\ pc = "fs_resize" => started(espFile.ops, "ntfs_shrink")
    /\ (pc \in {"image_start", "bootc", "image_done"} /\ mode # "wipe") => handle = "esp"
    /\ pc = "move_wipe_journal" => completed(ActiveFile.ops, "image_write")
    /\ pc \in {"mount_wipe_root", "configure_start", "configure"} =>
         handle = "esp" /\ completed(espFile.ops, "image_write")
    /\ pc = "configure" => started(espFile.ops, "configure")

\* A wipe never enters the table mutation.
WipeApart ==
    mode = "wipe" => /\ "ntfs_shrink" \notin wrote
                     /\ pc \notin Guarded \cup {"table_start"}

DurableInv == FilesSound /\ EspReady /\ WipeApart /\ ShrinkIsDurable

\* A resize that never was blind, with nothing lost.
Undisturbed ==
    ~blind /\ mode = "resize_ntfs" /\ powerLosses = 0 /\ corruptions = 0 /\ ~restoreFailed

\* The size n of Windows is the original one, or a request's with the
\* completion on the ESP.
Accounted(n) ==
    \/ n = DiskSize
    \/ DiskSize - n \in Deltas /\ completed(espFile.ops, "ntfs_shrink")

\* Up to the resume guard, a journal below the staging mount misses no
\* completion of the ESP's.
Sees ==
    (~blind /\ pc \in {"table_start", "resize"} /\ handle # "esp")
        => ~completed(espFile.ops, "ntfs_shrink")

ShrinkInv ==
    /\ pc \in Steps => request.delta \in Deltas
    /\ Sees
    /\ Undisturbed =>
         /\ \/ Accounted(table.ntfs)
            \/ DiskSize - table.ntfs \in Deltas /\ pc \in {"shrink_done", "restore"}
         /\ pc \in {"move_before_shrink", "shrink_start", "fs_resize", "boundary"} =>
              table.ntfs = DiskSize
         /\ ~Outside(pc) => Accounted(backup.ntfs)

\* Outside the guard, a table that was never committed is its backup; outside
\* the configuration, an uncommitted fstab is clean.
UndoneInv ==
    /\ (/\ Outside(pc) /\ ~restoreFailed /\ powerLosses = 0
        /\ "partition_table" \notin wrote /\ mode # "wipe") => table = backup
    /\ (pc # "restore_fstab" /\ ~restoreFailed /\ powerLosses = 0 /\ "configure" \notin wrote)
         => fstab = "clean"

JournalInv == JournalTypeOK /\ LayoutInv /\ DurableInv /\ ShrinkInv /\ UndoneInv

-----------------------------------------------------------------------------
(* The operators of the journal.                                           *)

\* The last open record is an open record.
LEMMA MaxIsMember ==
    ASSUME NEW N \in Nat, NEW S \in SUBSET (1 .. N), S # {}
    PROVE  Max(S) \in S
<1> DEFINE D == {N - x : x \in S}
<1>0. \A x \in S : x \in Nat /\ N - x \in Nat OBVIOUS
<1>1. D \in SUBSET Nat /\ D # {}
  <2>1. D \in SUBSET Nat BY <1>0
  <2>2. PICK x \in S : TRUE OBVIOUS
  <2>3. N - x \in D BY <2>2
  <2> QED BY <2>1, <2>3
<1>2. PICK m \in D : \A y \in D : m <= y BY <1>1, LeastElement
<1>3. PICK k \in S : m = N - k BY <1>2
<1>4. ASSUME NEW y \in S PROVE k >= y
  <2>1. m <= N - y BY <1>2
  <2>2. k \in Nat /\ y \in Nat BY <1>0
  <2> QED BY <1>3, <2>1, <2>2
<1>5. \E x \in S : \A y \in S : x >= y BY <1>4
<1> QED BY <1>5 DEF Max

\* record keeps what the journal holds and adds what it records.
LEMMA RecordKeeps ==
    ASSUME NEW ops \in Seq(JournalRecord), NEW op \in JournalOps,
           NEW state \in {"Started", "Completed"}
    PROVE  LET R == record(ops, op, state) IN
           /\ R \in Seq(JournalRecord)
           /\ \A o : completed(ops, o) => completed(R, o)
           /\ \A o : started(ops, o) => started(R, o)
           /\ started(R, op)
           /\ state = "Completed" => completed(R, op)
<1> DEFINE R == record(ops, op, state)
<1>0. \A i \in 1 .. Len(ops) : ops[i] \in JournalRecord /\ i \in DOMAIN ops OBVIOUS
<1>1. ASSUME NEW r \in JournalRecord, R = Append(ops, r)
      PROVE  /\ R \in Seq(JournalRecord)
             /\ \A o : completed(ops, o) => completed(R, o)
             /\ \A o : started(ops, o) => started(R, o)
             /\ R[Len(ops) + 1] = r /\ Len(ops) + 1 \in DOMAIN R
  <2> HIDE DEF R
  <2>1. /\ R \in Seq(JournalRecord) /\ DOMAIN R = 1 .. Len(ops) + 1
        /\ R[Len(ops) + 1] = r /\ \A i \in 1 .. Len(ops) : R[i] = ops[i]
    BY <1>1
  <2>2. DOMAIN ops = 1 .. Len(ops) /\ Len(ops) \in Nat OBVIOUS
  <2>3. \A i \in DOMAIN ops : i \in DOMAIN R /\ R[i] = ops[i] BY <2>1, <2>2
  <2>4. Len(ops) + 1 \in DOMAIN R BY <2>1, <2>2
  <2> QED BY <2>1, <2>3, <2>4 DEF completed, started
<1>2. CASE state = "Started"
  <2> DEFINE r == [op |-> op, done |-> FALSE]
  <2>1. r \in JournalRecord /\ r.op = op BY DEF JournalRecord
  <2>2. R = Append(ops, r) BY <1>2 DEF record
  <2> HIDE DEF R, r
  <2>3. started(R, op) BY <1>1, <2>1, <2>2 DEF started
  <2> QED BY <1>1, <1>2, <2>1, <2>2, <2>3 DEF R
<1>3. CASE state = "Completed" /\ OpenRecords(ops, op) = {}
  <2> DEFINE r == [op |-> op, done |-> TRUE]
  <2>1. r \in JournalRecord /\ r.op = op BY DEF JournalRecord
  <2>2. R = Append(ops, r) BY <1>3 DEF record
  <2>3. completed(R, op)
    <3>1. R[Len(ops) + 1] = r /\ Len(ops) + 1 \in DOMAIN R BY <1>1, <2>1, <2>2
    <3> HIDE DEF R
    <3> QED BY <3>1 DEF completed
  <2> HIDE DEF R, r
  <2>4. started(R, op) BY <1>1, <2>1, <2>2 DEF started
  <2> QED BY <1>1, <2>1, <2>2, <2>3, <2>4 DEF R
<1>4. CASE state = "Completed" /\ OpenRecords(ops, op) # {}
  <2> DEFINE k == Max(OpenRecords(ops, op))
  <2>1. k \in OpenRecords(ops, op)
    <3>1. OpenRecords(ops, op) \in SUBSET (1 .. Len(ops)) BY DEF OpenRecords
    <3> QED BY <1>4, <3>1, MaxIsMember
  <2>2. R = [ops EXCEPT ![k].done = TRUE] BY <1>4 DEF record
  <2> HIDE DEF R, k
  <2>3. k \in 1 .. Len(ops) /\ ops[k] = [op |-> op, done |-> FALSE] BY <2>1 DEF OpenRecords
  <2>4. [ops[k] EXCEPT !.done = TRUE] = [op |-> op, done |-> TRUE]
    <3> DEFINE r == [ops[k] EXCEPT !.done = TRUE]
    <3>1. ops[k] \in JournalRecord /\ ops[k].op = op BY <1>0, <2>3
    <3>2. r \in JournalRecord /\ r.op = op /\ r.done = TRUE BY <3>1 DEF JournalRecord
    <3> HIDE DEF r
    <3>3. r = [op |-> op, done |-> TRUE] BY <3>2 DEF JournalRecord
    <3> QED BY <3>3 DEF r
  <2>5. R = [ops EXCEPT ![k] = [op |-> op, done |-> TRUE]] BY <2>2, <2>4
  <2>6. [op |-> op, done |-> TRUE] \in JournalRecord BY DEF JournalRecord
  <2>7. /\ R \in Seq(JournalRecord) /\ DOMAIN R = DOMAIN ops
        /\ R[k] = [op |-> op, done |-> TRUE]
        /\ \A i \in DOMAIN ops : i # k => R[i] = ops[i]
    BY <2>3, <2>5, <2>6
  <2>8. k \in DOMAIN R BY <2>3, <2>7
  <2>9. completed(R, op) /\ started(R, op)
    <3>1. R[k].op = op BY <2>7
    <3> QED BY <2>7, <2>8, <3>1 DEF completed, started
  <2>10. ASSUME NEW o, completed(ops, o) PROVE completed(R, o)
    <3>1. PICK i \in DOMAIN ops : ops[i] = [op |-> o, done |-> TRUE] BY <2>10 DEF completed
    <3>2. i # k BY <2>3, <3>1
    <3> QED BY <2>7, <3>1, <3>2 DEF completed
  <2>11. ASSUME NEW o, started(ops, o) PROVE started(R, o)
    <3>1. PICK i \in DOMAIN ops : ops[i].op = o BY <2>11 DEF started
    <3>2. CASE i = k
      <4>1. o = op BY <2>3, <3>1, <3>2
      <4> QED BY <2>9, <4>1
    <3>3. CASE i # k BY <2>7, <3>1, <3>3 DEF started
    <3> QED BY <3>2, <3>3
  <2> QED BY <2>7, <2>9, <2>10, <2>11 DEF R
<1> QED BY <1>2, <1>3, <1>4

\* The merge keeps the records of the staging file, and for each record of
\* the destination one of that operation, a completed one if it was completed.
LEMMA MergeKeeps ==
    ASSUME NEW staging \in Seq(JournalRecord), NEW existing \in Seq(JournalRecord)
    PROVE  LET M == merge_journal_states(staging, existing) IN
           /\ M \in Seq(JournalRecord)
           /\ \A o : completed(staging, o) \/ completed(existing, o) => completed(M, o)
           /\ \A o : started(staging, o) \/ started(existing, o) => started(M, o)
<1> DEFINE N == Len(existing)
           Next1(m, n) == IF completed(m, existing[n].op) THEN m ELSE Append(m, existing[n])
           Run(g, n) == /\ g \in [0 .. n -> Seq(JournalRecord)] /\ g[0] = staging
                        /\ \A i \in 1 .. n : g[i] = Next1(g[i - 1], i)
<1>0. N \in Nat /\ \A i \in 1 .. N : existing[i] \in JournalRecord OBVIOUS
<1>1. \E g \in [0 .. N -> Seq(JournalRecord)] : Run(g, N)
  <2> DEFINE V == Seq(JournalRecord)
             step == [n \in 1 .. N |-> [m \in V |-> Next1(m, n)]]
  <2>1. \A n \in 1 .. N, m \in V : Next1(m, n) \in V BY <1>0
  <2> HIDE DEF Next1, N
  <2>2. step \in [1 .. N -> [V -> V]] BY <2>1
  <2>3. \A n \in 1 .. N, m \in V : step[n][m] = Next1(m, n) OBVIOUS
  <2> HIDE DEF step, V
  <2>4. staging \in V BY DEF V
  <2>5. PICK g : Recursion(g, N, V, staging, step)
    <3>1. N \in Nat BY <1>0
    <3> QED BY <3>1, <2>2, <2>4, RecursionRuns
  <2>6. ASSUME NEW i \in 1 .. N PROVE g[i] = Next1(g[i - 1], i)
    <3>1. g[i - 1] \in V BY <1>0, <2>5 DEF Recursion
    <3> QED BY <2>3, <2>5, <3>1 DEF Recursion
  <2>7. Run(g, N) BY <2>5, <2>6 DEF V, Recursion
  <2> QED BY <2>7
<1> DEFINE Def(m) == m = [n \in 0 .. N |-> IF n = 0 THEN staging ELSE Next1(m[n - 1], n)]
           merged == CHOOSE m : Def(m)
<1>2. Def(merged)
  <2>1. PICK g \in [0 .. N -> Seq(JournalRecord)] : Run(g, N) BY <1>1
  <2>2. Def(g)
    <3> HIDE DEF Next1, N
    <3>1. \A n \in 0 .. N : g[n] = IF n = 0 THEN staging ELSE Next1(g[n - 1], n)
      BY <2>1, <1>0
    <3> QED BY <3>1
  <2> QED BY <2>2
<1>3. merge_journal_states(staging, existing) = merged[N]
  BY DEF merge_journal_states
<1>4. /\ merged[0] = staging
      /\ \A n \in 1 .. N : merged[n] = Next1(merged[n - 1], n)
  <2> HIDE DEF Next1, merged, N
  <2> QED BY <1>0, <1>2
<1> HIDE DEF merged
<1> DEFINE Kept(m, n) ==
             /\ m \in Seq(JournalRecord)
             /\ \A o : completed(staging, o) => completed(m, o)
             /\ \A o : started(staging, o) => started(m, o)
             /\ \A i \in 1 .. n : /\ started(m, existing[i].op)
                                  /\ existing[i].done => completed(m, existing[i].op)
           T == {n \in 0 .. N : Kept(merged[n], n)}
<1>5. 0 \in T BY <1>0, <1>4
<1>6. ASSUME NEW n \in 0 .. N, n \in T, n < N PROVE n + 1 \in T
  <2> DEFINE m == merged[n]
             r == existing[n + 1]
             m1 == merged[n + 1]
  <2>1. n + 1 \in 1 .. N /\ (n + 1) - 1 = n BY <1>0, <1>6
  <2>2. m1 = IF completed(m, r.op) THEN m ELSE Append(m, r) BY <1>4, <2>1
  <2>3. r \in JournalRecord BY <1>0, <2>1
  <2>4. Kept(m, n) BY <1>6
  <2> HIDE DEF m, r, m1
  <2>5. /\ m1 \in Seq(JournalRecord)
        /\ \A o : completed(m, o) => completed(m1, o)
        /\ \A o : started(m, o) => started(m1, o)
        /\ started(m1, r.op) /\ (r.done => completed(m1, r.op))
    <3>1. CASE completed(m, r.op)
      <4>1. started(m, r.op) BY <3>1 DEF completed, started
      <4> QED BY <2>2, <2>4, <3>1, <4>1
    <3>2. CASE ~completed(m, r.op)
      <4>1. m1 = Append(m, r) /\ m \in Seq(JournalRecord) BY <2>2, <2>4, <3>2
      <4>2. /\ m1 \in Seq(JournalRecord) /\ m1[Len(m) + 1] = r /\ Len(m) + 1 \in DOMAIN m1
            /\ \A i \in DOMAIN m : i \in DOMAIN m1 /\ m1[i] = m[i]
        BY <4>1, <2>3
      <4>3. r.done => r = [op |-> r.op, done |-> TRUE] BY <2>3 DEF JournalRecord
      <4>4. started(m1, r.op) /\ (r.done => completed(m1, r.op))
        BY <4>2, <4>3 DEF started, completed
      <4> QED BY <4>2, <4>4 DEF started, completed
    <3> QED BY <3>1, <3>2
  <2>6. ASSUME NEW i \in 1 .. n + 1
        PROVE  /\ started(m1, existing[i].op)
               /\ existing[i].done => completed(m1, existing[i].op)
    <3>1. CASE i = n + 1 BY <3>1, <2>5 DEF r
    <3>2. CASE i \in 1 .. n BY <3>2, <2>4, <2>5
    <3> QED BY <3>1, <3>2, <2>1
  <2>7. Kept(m1, n + 1) BY <2>4, <2>5, <2>6
  <2> HIDE DEF Kept
  <2> QED BY <2>1, <2>7 DEF m1
<1>7. \A n \in 0 .. N : n \in T
  <2> HIDE DEF T, N
  <2> QED BY <1>0, <1>5, <1>6, BoundedInduction
<1>8. N \in 0 .. N BY <1>0
<1>9. Kept(merged[N], N) BY <1>7, <1>8
<1>10. ASSUME NEW o, completed(existing, o) PROVE completed(merged[N], o)
  <2>1. PICK i \in DOMAIN existing : existing[i] = [op |-> o, done |-> TRUE] BY <1>10 DEF completed
  <2>2. i \in 1 .. N /\ existing[i].op = o /\ existing[i].done BY <2>1
  <2> QED BY <1>9, <2>2
<1>11. ASSUME NEW o, started(existing, o) PROVE started(merged[N], o)
  <2>1. PICK i \in DOMAIN existing : existing[i].op = o BY <1>11 DEF started
  <2>2. i \in 1 .. N BY <2>1
  <2> QED BY <1>9, <2>1, <2>2
<1> QED BY <1>3, <1>9, <1>10, <1>11

-----------------------------------------------------------------------------
(* What the shared parts of the steps do.                                  *)

LEMMA ExitPlace ==
    ASSUME NEW at
    PROVE  /\ FailureExit(at) \in {"restore", "restore_fstab", "cleanup"}
           /\ FailureExit(at) = "restore" <=> at \in Guarded
           /\ FailureExit(at) = "restore_fstab" <=> at = "configure"
BY DEF FailureExit, Guarded

LEMMA ThenGoes ==
    ASSUME NEW next, Then(next), stepFaults \in Nat
    PROVE  pc' \in {next, FailureExit(pc)} /\ stepFaults' \in Nat
BY InstallJournalAssumption DEF Then

LEMMA RefuseGoes ==
    ASSUME Refuse, stepFaults \in Nat
    PROVE  pc' = FailureExit(pc) /\ stepFaults' \in Nat
BY DEF Refuse

LEMMA FileOfOps ==
    ASSUME NEW ops \in Seq(JournalRecord)
    PROVE  /\ JournalFile(ops) \in FileType
           /\ IsJournal(JournalFile(ops)) /\ JournalFile(ops).ops = ops
BY DEF JournalFile, FileType, IsJournal

\* The files stay files, nothing is lost from the ESP.
FilesKept ==
    /\ espFile' \in FileType /\ stageFile' \in FileType /\ FilesSound'
    /\ \A o : completed(espFile.ops, o) => completed(espFile'.ops, o)
    /\ \A o : started(espFile.ops, o) => started(espFile'.ops, o)

\* record_journal leaves the record behind the handle, or fails.
LEMMA RecordJournalEffect ==
    ASSUME JournalTypeOK, FilesSound, NEW op \in JournalOps,
           NEW state \in {"Started", "Completed"}, NEW next, RecordJournal(op, state, next)
    PROVE  /\ FilesKept /\ UNCHANGED <<hidden, handle>>
           /\ pc' \in {next, FailureExit(pc)} /\ stepFaults' \in Nat
           /\ pc' # FailureExit(pc) =>
                /\ handle = "esp" => started(espFile'.ops, op)
                /\ state = "Completed" =>
                     /\ completed(ActiveFile'.ops, op)
                     /\ handle = "esp" => completed(espFile'.ops, op)
<1>0. stepFaults \in Nat /\ espFile \in FileType /\ stageFile \in FileType
  BY DEF JournalTypeOK
<1>1. CASE ~IsJournal(ActiveFile)
  <2>1. Refuse /\ UNCHANGED journal BY <1>1 DEF RecordJournal
  <2>2. pc' = FailureExit(pc) /\ stepFaults' \in Nat BY <2>1, <1>0, RefuseGoes
  <2>3. UNCHANGED <<espFile, stageFile, hidden, handle>> BY <2>1 DEF journal
  <2>4. FilesKept BY <1>0, <2>3 DEF FilesKept, FilesSound, IsJournal
  <2> QED BY <2>2, <2>3, <2>4
<1>2. CASE IsJournal(ActiveFile)
  <2> DEFINE ops == ActiveFile.ops
             R == record(ops, op, state)
             file == JournalFile(R)
  <2>1. /\ espFile' = IF handle = "esp" THEN file ELSE espFile
        /\ stageFile' = IF handle = "stage" THEN file ELSE stageFile
        /\ UNCHANGED <<hidden, handle>> /\ Then(next)
    BY <1>2 DEF RecordJournal
  <2>2. \/ handle = "esp" /\ ops = espFile.ops
        \/ handle = "stage" /\ ~hidden /\ ops = stageFile.ops
    BY <1>2 DEF ActiveFile, Missing, IsJournal, JournalTypeOK
  <2>3. ops \in Seq(JournalRecord) BY <2>2, <1>0 DEF FileType
  <2>4. /\ R \in Seq(JournalRecord)
        /\ \A o : completed(ops, o) => completed(R, o)
        /\ \A o : started(ops, o) => started(R, o)
        /\ started(R, op)
        /\ state = "Completed" => completed(R, op)
    <3> HIDE DEF ops
    <3> QED BY <2>3, RecordKeeps
  <2> HIDE DEF R
  <2>5. file \in FileType /\ IsJournal(file) /\ file.ops = R BY <2>4, FileOfOps
  <2> HIDE DEF file, ops
  <2>6. FilesKept
    <3>1. CASE handle = "esp"
      <4>1. espFile' = file /\ stageFile' = stageFile BY <2>1, <3>1
      <4>2. ops = espFile.ops BY <2>2, <3>1
      <4> QED BY <1>0, <4>1, <4>2, <2>4, <2>5 DEF FilesKept, FilesSound
    <3>2. CASE handle = "stage"
      <4>1. stageFile' = file /\ espFile' = espFile BY <2>1, <3>2
      <4> QED BY <1>0, <4>1, <2>5 DEF FilesKept, FilesSound
    <3> QED BY <2>2, <3>1, <3>2
  <2>7. ActiveFile' = file BY <2>1, <2>2 DEF ActiveFile
  <2>8. handle = "esp" => espFile' = file BY <2>1
  <2>9. pc' \in {next, FailureExit(pc)} /\ stepFaults' \in Nat BY <1>0, <2>1, ThenGoes
  <2> QED BY <2>1, <2>4, <2>5, <2>6, <2>7, <2>8, <2>9
<1> QED BY <1>1, <1>2

\* ensure_esp_journal leaves the journal on the ESP with what it held and what
\* the ESP held, or fails.
LEMMA EnsureEffect ==
    ASSUME JournalTypeOK, FilesSound, NEW next, EnsureEspJournal(next)
    PROVE  /\ FilesKept /\ handle' \in {handle, "esp"}
           /\ pc' \in {next, FailureExit(pc)} /\ stepFaults' \in Nat
           /\ pc' # FailureExit(pc) =>
                /\ handle' = "esp"
                /\ \A o : completed(ActiveFile.ops, o) => completed(espFile'.ops, o)
<1>0. stepFaults \in Nat /\ espFile \in FileType /\ stageFile \in FileType
  BY DEF JournalTypeOK
<1>1. CASE UNCHANGED <<espFile, stageFile, handle>>
           /\ ((handle = "esp" /\ Then(next)) \/ Refuse)
  <2>1. FilesKept BY <1>0, <1>1 DEF FilesKept, FilesSound, IsJournal
  <2>2. pc' \in {next, FailureExit(pc)} /\ stepFaults' \in Nat
    BY <1>0, <1>1, ThenGoes, RefuseGoes
  <2>3. pc' # FailureExit(pc) => handle = "esp" BY <1>0, <1>1, RefuseGoes
  <2>4. handle = "esp" => ActiveFile = espFile BY DEF ActiveFile
  <2> QED BY <1>1, <2>1, <2>2, <2>3, <2>4
<1>2. CASE handle # "esp" /\ IsJournal(ActiveFile) /\ espFile' = relocate(stageFile, espFile)
           /\ handle' = "esp" /\ Then(next) /\ UNCHANGED stageFile
  <2>1. ActiveFile = stageFile /\ IsJournal(stageFile)
    BY <1>2 DEF ActiveFile, Missing, IsJournal
  <2>2. stageFile.ops \in Seq(JournalRecord) /\ espFile.ops \in Seq(JournalRecord)
    BY <1>0 DEF FileType
  <2> DEFINE M == IF IsJournal(espFile) THEN merge_journal_states(stageFile.ops, espFile.ops)
                  ELSE stageFile.ops
  <2>3. /\ M \in Seq(JournalRecord)
        /\ \A o : completed(stageFile.ops, o) \/ completed(espFile.ops, o) => completed(M, o)
        /\ \A o : started(stageFile.ops, o) \/ started(espFile.ops, o) => started(M, o)
    <3>1. CASE IsJournal(espFile) BY <2>2, <3>1, MergeKeeps
    <3>2. CASE ~IsJournal(espFile)
      <4>1. espFile.ops = <<>> BY <3>2 DEF FilesSound
      <4>2. \A o : ~completed(espFile.ops, o) /\ ~started(espFile.ops, o)
        BY <4>1 DEF completed, started
      <4> QED BY <2>2, <3>2, <4>2
    <3> QED BY <3>1, <3>2
  <2>4. espFile' = JournalFile(M) BY <1>2 DEF relocate
  <2> HIDE DEF M
  <2>5. espFile' \in FileType /\ IsJournal(espFile') /\ espFile'.ops = M BY <2>3, <2>4, FileOfOps
  <2>6. FilesKept BY <1>0, <1>2, <2>3, <2>5 DEF FilesKept, FilesSound, IsJournal
  <2>7. pc' \in {next, FailureExit(pc)} /\ stepFaults' \in Nat BY <1>0, <1>2, ThenGoes
  <2> QED BY <1>2, <2>1, <2>3, <2>5, <2>6, <2>7
<1> QED BY <1>1, <1>2 DEF EnsureEspJournal

-----------------------------------------------------------------------------
(* The steps that leave the disk alone.                                    *)

Places == Steps \cup {"idle", "restore", "restore_fstab", "cleanup", "installed"}

\* Where such a step may go.  It enters no guard and leaves none, comes to the
\* resize of the file system only with a size that fits, and to the creation
\* of partitions only with the shrink on record.
QuietMove ==
    /\ pc' \in Places
    /\ Outside(pc) <=> Outside(pc')
    /\ pc # "restore" /\ pc' \notin {"boundary", "table_start", "resize"}
    /\ pc' = "fs_resize" => request.delta <= table.ntfs
    /\ pc' \in {"shrink_done", "create", "create_target"} => pc = "shrink_done"
    /\ pc = "shrink_done" => pc' = "restore" \/ completed(espFile'.ops, "ntfs_shrink")
    /\ pc' \in {"move_before_shrink", "shrink_start", "fs_resize"}
         => pc \in {"move_before_shrink", "shrink_start"}
    /\ pc = "restore_fstab" => pc' = "restore_fstab"
    /\ pc' \in Steps => pc \in Steps /\ handle' \in {handle, "esp"}

LEMMA QuietStep ==
    ASSUME JournalInv,
           UNCHANGED <<mode, espMounted, blind, attempts, powerLosses, corruptions, request,
                       table, ntfsFs, backup, window, fstab, wrote, restoreFailed>>,
           FilesKept, hidden' \in BOOLEAN, handle' \in {"none", "stage", "esp"},
           stepFaults' \in Nat, QuietMove, EspReady'
    PROVE  JournalInv'
<1> USE DEF JournalInv
<1>1. JournalTypeOK' BY DEF JournalTypeOK, FilesKept, QuietMove, Places
<1>2. LayoutInv'
  <2>1. WindowsFits' /\ Disjoint(table)' /\ Disjoint(backup)'
    BY DEF LayoutInv, WindowsFits, Disjoint
  <2>2. ~Outside(pc') => table.ntfs <= backup.ntfs BY DEF LayoutInv, QuietMove
  <2>3. pc' \in {"shrink_done", "create", "create_target"} => Free(window[1], window[2])
    BY DEF LayoutInv, QuietMove
  <2>4. Free(window[1], window[2])' <=> Free(window[1], window[2]) BY DEF Free
  <2>5. /\ pc' \in {"fs_resize", "boundary"} => request.delta <= table.ntfs
        /\ pc' # "boundary"
    BY DEF QuietMove
  <2> QED BY <2>1, <2>2, <2>3, <2>4, <2>5 DEF LayoutInv
<1>3. DurableInv'
  <2>1. FilesSound' BY DEF FilesKept
  <2>2. WipeApart' BY DEF DurableInv, WipeApart, QuietMove, Outside, Guarded
  <2>3. ShrinkIsDurable' BY DEF DurableInv, ShrinkIsDurable, FilesKept
  <2> QED BY <2>1, <2>2, <2>3 DEF DurableInv
<1>4. ShrinkInv'
  <2>1. pc' \in Steps => request.delta \in Deltas BY DEF ShrinkInv, QuietMove
  <2>2. Sees' BY DEF Sees, QuietMove
  <2>3. ASSUME Undisturbed'
        PROVE  /\ \/ Accounted(table.ntfs)'
                  \/ DiskSize - table.ntfs \in Deltas /\ pc' \in {"shrink_done", "restore"}
               /\ pc' \in {"move_before_shrink", "shrink_start", "fs_resize", "boundary"} =>
                    table.ntfs = DiskSize
               /\ ~Outside(pc') => Accounted(backup.ntfs)'
    <3>1. Undisturbed BY <2>3 DEF Undisturbed
    <3>2. \A n : Accounted(n) => Accounted(n)' BY DEF Accounted, FilesKept
    <3>3. pc' \in {"move_before_shrink", "shrink_start", "fs_resize", "boundary"}
            => table.ntfs = DiskSize
      BY <3>1 DEF ShrinkInv, QuietMove
    <3>4. ~Outside(pc') => Accounted(backup.ntfs) BY <3>1 DEF ShrinkInv, QuietMove
    <3>5. \/ Accounted(table.ntfs)
          \/ DiskSize - table.ntfs \in Deltas /\ pc \in {"shrink_done", "restore"}
      BY <3>1 DEF ShrinkInv
    <3>6. pc \in {"shrink_done", "restore"} =>
            pc' = "restore" \/ completed(espFile'.ops, "ntfs_shrink")
      BY DEF QuietMove
    <3>7. \/ Accounted(table.ntfs)'
          \/ DiskSize - table.ntfs \in Deltas /\ pc' \in {"shrink_done", "restore"}
      BY <3>2, <3>5, <3>6 DEF Accounted
    <3>8. (~Outside(pc') => Accounted(backup.ntfs)') BY <3>2, <3>4
    <3> QED BY <3>3, <3>7, <3>8
  <2> QED BY <2>1, <2>2, <2>3 DEF ShrinkInv
<1>5. UndoneInv' BY DEF UndoneInv, QuietMove
<1> QED BY <1>1, <1>2, <1>3, <1>4, <1>5

\* Steps that write a record and go on, outside the table mutation.
LEMMA PlainRecordStep ==
    ASSUME JournalInv, TableDone \/ Format \/ FormatDone \/ ImageStart \/ ConfigureStart
                       \/ ConfigureDone \/ ImageDone
    PROVE  JournalInv'
<1> USE DEF JournalInv
<1>0. UNCHANGED <<mode, espMounted, blind, attempts, powerLosses, corruptions, request,
                  table, ntfsFs, backup, window, fstab, wrote, restoreFailed>>
  BY DEF TableDone, Format, FormatDone, ImageStart, ConfigureStart, ConfigureDone, ImageDone,
         setting, disk
<1> DEFINE Flow(op, state, next) ==
             \/ RecordJournal(op, state, next)
             \/ Refuse /\ UNCHANGED journal
<1>1. ASSUME NEW op \in JournalOps, NEW state \in {"Started", "Completed"},
             NEW next \in {"format", "mkfs", "mount", "bootc", "configure", "secure_boot",
                           "move_wipe_journal", "configure_start"},
             Flow(op, state, next),
             pc \in {"table_done", "format", "format_done", "image_start", "configure_start",
                     "configure_done", "image_done"},
             next = "bootc" => pc = "image_start",
             next = "configure" => pc = "configure_start" /\ op = "configure",
             next = "move_wipe_journal" => op = "image_write" /\ state = "Completed",
             next = "configure_start" => /\ op = "image_write" /\ state = "Completed"
                                         /\ pc = "image_done" /\ mode # "wipe"
      PROVE  JournalInv'
  <2>1. /\ FilesKept /\ UNCHANGED <<hidden, handle>>
        /\ pc' \in {next, FailureExit(pc)} /\ stepFaults' \in Nat
        /\ pc' # FailureExit(pc) =>
             /\ handle = "esp" => started(espFile'.ops, op)
             /\ state = "Completed" =>
                  /\ completed(ActiveFile'.ops, op)
                  /\ handle = "esp" => completed(espFile'.ops, op)
    <3>1. CASE RecordJournal(op, state, next)
      BY <3>1, RecordJournalEffect DEF DurableInv
    <3>2. CASE Refuse /\ UNCHANGED journal
      <4>1. stepFaults \in Nat BY DEF JournalTypeOK
      <4>2. pc' = FailureExit(pc) /\ stepFaults' \in Nat BY <3>2, <4>1, RefuseGoes
      <4>3. FilesKept
        BY <3>2 DEF journal, FilesKept, FilesSound, IsJournal, DurableInv, JournalTypeOK
      <4> QED BY <3>2, <4>2, <4>3 DEF journal
    <3> QED BY <1>1, <3>1, <3>2
  <2>2. FailureExit(pc) = "cleanup" BY <1>1 DEF FailureExit, Guarded
  <2>3. pc' \in {next, "cleanup"} BY <2>1, <2>2
  <2>4. QuietMove
    BY <1>1, <2>1, <2>3 DEF QuietMove, Places, Steps, Guarded, Outside
  <2>5. EspReady'
    <3>1. CASE pc' = "cleanup" BY <3>1 DEF EspReady
    <3>2. CASE pc' = "bootc"
      <4>1. mode # "wipe" => handle = "esp"
        BY <1>1, <2>3, <3>2 DEF DurableInv, EspReady
      <4> QED BY <3>2, <4>1, <2>1, <1>0 DEF EspReady
    <3>3. CASE pc' = "configure"
      <4>1. next = "configure" /\ pc' # FailureExit(pc) BY <2>2, <2>3, <3>3
      <4>2. handle = "esp" /\ completed(espFile.ops, "image_write")
        BY <1>1, <4>1 DEF DurableInv, EspReady
      <4>3. completed(espFile'.ops, "image_write") /\ started(espFile'.ops, "configure")
        BY <1>1, <2>1, <4>1, <4>2 DEF FilesKept
      <4> QED BY <3>3, <4>2, <4>3, <2>1 DEF EspReady
    <3>4. CASE pc' = "move_wipe_journal"
      <4>1. completed(ActiveFile'.ops, "image_write") BY <1>1, <2>1, <2>2, <2>3, <3>4
      <4> QED BY <3>4, <4>1 DEF EspReady
    <3>5. CASE pc' = "configure_start"
      <4>1. handle = "esp" BY <1>1, <2>3, <3>5 DEF DurableInv, EspReady
      <4>2. completed(espFile'.ops, "image_write") BY <1>1, <2>1, <2>2, <2>3, <3>5, <4>1
      <4> QED BY <3>5, <4>1, <4>2, <2>1 DEF EspReady
    <3>6. CASE pc' \in {"format", "mkfs", "mount", "secure_boot"} BY <3>6 DEF EspReady
    <3> QED BY <1>1, <2>3, <3>1, <3>2, <3>3, <3>4, <3>5, <3>6
  <2>6. hidden' \in BOOLEAN /\ handle' \in {"none", "stage", "esp"} BY <2>1 DEF JournalTypeOK
  <2> QED BY <1>0, <2>1, <2>4, <2>5, <2>6, QuietStep
<1>2. CASE TableDone
  <2>1. pc = "table_done" /\ Flow("partition_table", "Completed", "format") BY <1>2 DEF TableDone
  <2> HIDE DEF Flow
  <2> QED BY <2>1, <1>1 DEF JournalOps
<1>3. CASE Format
  <2>1. pc = "format" /\ Flow("format", "Started", "mkfs") BY <1>3 DEF Format
  <2> HIDE DEF Flow
  <2> QED BY <2>1, <1>1 DEF JournalOps
<1>4. CASE FormatDone
  <2>1. pc = "format_done" /\ Flow("format", "Completed", "mount") BY <1>4 DEF FormatDone
  <2> HIDE DEF Flow
  <2> QED BY <2>1, <1>1 DEF JournalOps
<1>5. CASE ImageStart
  <2>1. pc = "image_start" /\ Flow("image_write", "Started", "bootc") BY <1>5 DEF ImageStart
  <2> HIDE DEF Flow
  <2> QED BY <2>1, <1>1 DEF JournalOps
<1>6. CASE ConfigureStart
  <2>1. pc = "configure_start" /\ Flow("configure", "Started", "configure")
    BY <1>6 DEF ConfigureStart
  <2> HIDE DEF Flow
  <2> QED BY <2>1, <1>1 DEF JournalOps
<1>7. CASE ConfigureDone
  <2>1. pc = "configure_done" /\ Flow("configure", "Completed", "secure_boot")
    BY <1>7 DEF ConfigureDone
  <2> HIDE DEF Flow
  <2> QED BY <2>1, <1>1 DEF JournalOps
<1>8. CASE ImageDone
  <2>1. pc = "image_done" BY <1>8 DEF ImageDone
  <2>2. CASE mode = "wipe"
    <3>1. Flow("image_write", "Completed", "move_wipe_journal") BY <1>8, <2>2 DEF ImageDone
    <3> HIDE DEF Flow
    <3> QED BY <2>1, <3>1, <1>1 DEF JournalOps
  <2>3. CASE mode # "wipe"
    <3>1. Flow("image_write", "Completed", "configure_start") BY <1>8, <2>3 DEF ImageDone
    <3> HIDE DEF Flow
    <3> QED BY <2>1, <2>3, <3>1, <1>1 DEF JournalOps
  <2> QED BY <2>2, <2>3
<1> QED BY <1>2, <1>3, <1>4, <1>5, <1>6, <1>7, <1>8

\* The records of the shrink.
LEMMA ShrinkRecordStep ==
    ASSUME JournalInv, ShrinkStart \/ ShrinkDone
    PROVE  JournalInv'
<1> USE DEF JournalInv
<1>0. UNCHANGED <<mode, espMounted, blind, attempts, powerLosses, corruptions, request,
                  table, ntfsFs, backup, window, fstab, wrote, restoreFailed>>
  BY DEF ShrinkStart, ShrinkDone, setting, disk
<1>a. hidden \in BOOLEAN /\ handle \in {"none", "stage", "esp"} /\ stepFaults \in Nat
  BY DEF JournalTypeOK
<1>1. CASE ShrinkStart
  <2>0. pc = "shrink_start" /\ handle = "esp" BY <1>1 DEF ShrinkStart, DurableInv, EspReady
  <2>1. FailureExit(pc) = "restore" BY <2>0 DEF FailureExit, Guarded
  <2>2. /\ FilesKept /\ UNCHANGED <<hidden, handle>> /\ stepFaults' \in Nat
        /\ pc' \in {"fs_resize", "restore"}
        /\ pc' = "fs_resize" =>
             request.delta <= table.ntfs /\ started(espFile'.ops, "ntfs_shrink")
    <3>1. CASE table.ntfs < request.delta + MinWindows
      <4>1. Refuse /\ UNCHANGED journal BY <1>1, <3>1 DEF ShrinkStart
      <4>2. FilesKept
        BY <4>1 DEF journal, FilesKept, FilesSound, IsJournal, DurableInv, JournalTypeOK
      <4> QED BY <4>1, <4>2, <2>1, <1>a, RefuseGoes DEF journal
    <3>2. CASE ~(table.ntfs < request.delta + MinWindows)
      <4>1. RecordJournal("ntfs_shrink", "Started", "fs_resize") BY <1>1, <3>2 DEF ShrinkStart
      <4>2. request.delta <= table.ntfs
        BY <3>2, InstallJournalAssumption DEF JournalTypeOK, TableType
      <4>3. "ntfs_shrink" \in JournalOps BY DEF JournalOps
      <4> QED BY <4>1, <4>2, <4>3, <2>0, <2>1, RecordJournalEffect DEF DurableInv
    <3> QED BY <3>1, <3>2
  <2>3. QuietMove BY <2>0, <2>2 DEF QuietMove, Places, Steps, Guarded, Outside
  <2>4. EspReady' BY <2>0, <2>2 DEF EspReady
  <2> QED BY <1>0, <1>a, <2>2, <2>3, <2>4, QuietStep
<1>2. CASE ShrinkDone
  <2>0. pc = "shrink_done" /\ handle = "esp" BY <1>2 DEF ShrinkDone, DurableInv, EspReady
  <2>1. FailureExit(pc) = "restore" BY <2>0 DEF FailureExit, Guarded
  <2>2. /\ FilesKept /\ UNCHANGED <<hidden, handle>> /\ stepFaults' \in Nat
        /\ pc' \in {"create", "restore"}
        /\ pc' = "create" => completed(espFile'.ops, "ntfs_shrink")
    <3>1. RecordJournal("ntfs_shrink", "Completed", "create") BY <1>2 DEF ShrinkDone
    <3>2. "ntfs_shrink" \in JournalOps BY DEF JournalOps
    <3> QED BY <3>1, <3>2, <2>0, <2>1, RecordJournalEffect DEF DurableInv
  <2>3. QuietMove BY <2>0, <2>2 DEF QuietMove, Places, Steps, Guarded, Outside
  <2>4. EspReady' BY <2>0, <2>2 DEF EspReady
  <2> QED BY <1>0, <1>a, <2>2, <2>3, <2>4, QuietStep
<1> QED BY <1>1, <1>2

\* The journal goes to the ESP.
LEMMA MoveStep ==
    ASSUME JournalInv, MoveBeforeShrink \/ MoveJournal \/ MoveWipeJournal
    PROVE  JournalInv'
<1> USE DEF JournalInv
<1>0. /\ UNCHANGED <<mode, espMounted, blind, attempts, powerLosses, corruptions, request,
                     table, ntfsFs, backup, window, fstab, wrote, restoreFailed>>
      /\ UNCHANGED hidden
  BY DEF MoveBeforeShrink, MoveJournal, MoveWipeJournal, setting, disk
<1>a. hidden \in BOOLEAN /\ handle \in {"none", "stage", "esp"}
  BY DEF JournalTypeOK
<1>1. ASSUME NEW next \in {"shrink_start", "image_start", "mount_wipe_root"},
             EnsureEspJournal(next),
             next = "shrink_start" => pc = "move_before_shrink",
             next = "image_start" => pc = "move_journal",
             next = "mount_wipe_root" => pc = "move_wipe_journal"
      PROVE  JournalInv'
  <2>1. /\ FilesKept /\ handle' \in {handle, "esp"}
        /\ pc' \in {next, FailureExit(pc)} /\ stepFaults' \in Nat
        /\ pc' # FailureExit(pc) =>
             /\ handle' = "esp"
             /\ \A o : completed(ActiveFile.ops, o) => completed(espFile'.ops, o)
    BY <1>1, EnsureEffect DEF DurableInv
  <2>2. /\ FailureExit(pc) \in {"restore", "cleanup"}
        /\ FailureExit(pc) = "restore" <=> pc = "move_before_shrink"
    BY <1>1 DEF FailureExit, Guarded
  <2>3. QuietMove
    BY <1>1, <2>1, <2>2 DEF QuietMove, Places, Steps, Guarded, Outside
  <2>4. EspReady'
    <3>1. CASE pc' = FailureExit(pc) BY <2>2, <3>1 DEF EspReady
    <3>2. CASE pc' = next /\ pc' # FailureExit(pc)
      <4>1. next = "mount_wipe_root" => completed(espFile'.ops, "image_write")
        BY <1>1, <2>1, <3>2 DEF DurableInv, EspReady
      <4> QED BY <2>1, <3>2, <4>1 DEF EspReady
    <3> QED BY <2>1, <3>1, <3>2
  <2> QED BY <1>0, <1>a, <2>1, <2>3, <2>4, QuietStep
<1>2. CASE MoveBeforeShrink BY <1>1, <1>2 DEF MoveBeforeShrink
<1>3. CASE MoveJournal BY <1>1, <1>3 DEF MoveJournal
<1>4. CASE MoveWipeJournal BY <1>1, <1>4 DEF MoveWipeJournal
<1> QED BY <1>2, <1>3, <1>4

\* Mounts, the key enrolment, the ends of a run, and failures that come
\* before a step has had an effect.
LEMMA IdleStep ==
    ASSUME JournalInv, Mount \/ MountWipeRoot \/ SecureBoot \/ Complete \/ Cleanup \/ StepFails
    PROVE  JournalInv'
<1> USE DEF JournalInv
<1>0. /\ UNCHANGED <<mode, espMounted, blind, attempts, powerLosses, corruptions, request,
                     table, ntfsFs, backup, window, fstab, wrote, restoreFailed>>
      /\ UNCHANGED <<espFile, stageFile>>
  BY DEF Mount, MountWipeRoot, SecureBoot, Complete, Cleanup, StepFails, Unmounted, setting, disk,
         journal
<1>a. hidden \in BOOLEAN /\ handle \in {"none", "stage", "esp"} /\ stepFaults \in Nat
  BY DEF JournalTypeOK
<1>b. FilesKept
  BY <1>0 DEF FilesKept, FilesSound, IsJournal, DurableInv, JournalTypeOK
<1>1. CASE Mount \/ MountWipeRoot \/ SecureBoot
  <2>1. PICK next \in {"move_journal", "configure_start", "complete"} :
          /\ Then(next) /\ UNCHANGED handle /\ hidden' \in BOOLEAN
          /\ pc \in {"mount", "mount_wipe_root", "secure_boot"}
          /\ next = "configure_start" => pc = "mount_wipe_root"
    BY <1>1, <1>a DEF Mount, MountWipeRoot, SecureBoot, journal
  <2>2. FailureExit(pc) = "cleanup" BY <2>1 DEF FailureExit, Guarded
  <2>3. pc' \in {next, "cleanup"} /\ stepFaults' \in Nat BY <1>a, <2>1, <2>2, ThenGoes
  <2>4. QuietMove BY <2>1, <2>3 DEF QuietMove, Places, Steps, Guarded, Outside
  <2>5. EspReady'
    <3>1. CASE pc' = "configure_start"
      <4>1. handle = "esp" /\ completed(espFile.ops, "image_write")
        BY <2>1, <2>3, <3>1 DEF DurableInv, EspReady
      <4> QED BY <1>0, <2>1, <3>1, <4>1 DEF EspReady
    <3>2. CASE pc' \in {"move_journal", "complete", "cleanup"} BY <3>2 DEF EspReady
    <3> QED BY <2>3, <3>1, <3>2
  <2> QED BY <1>0, <1>a, <1>b, <2>1, <2>3, <2>4, <2>5, QuietStep
<1>2. CASE Complete \/ Cleanup
  <2>1. /\ pc \in {"complete", "cleanup"} /\ pc' \in {"installed", "idle"}
        /\ hidden' \in BOOLEAN /\ handle' = "none" /\ UNCHANGED stepFaults
    BY <1>2 DEF Complete, Cleanup, Unmounted
  <2>2. QuietMove BY <2>1 DEF QuietMove, Places, Steps, Guarded, Outside
  <2>3. EspReady' BY <2>1 DEF EspReady
  <2> QED BY <1>0, <1>a, <1>b, <2>1, <2>2, <2>3, QuietStep
<1>3. CASE StepFails
  <2>1. pc \in Steps /\ pc' = FailureExit(pc) /\ stepFaults' \in Nat /\ UNCHANGED <<hidden, handle>>
    BY <1>3, <1>a DEF StepFails, journal
  <2>2. /\ pc' \in {"restore", "restore_fstab", "cleanup"}
        /\ pc' = "restore" <=> pc \in Guarded
    BY <2>1, ExitPlace
  <2>3. pc \notin {"restore", "restore_fstab"} /\ (pc = "shrink_done" => pc \in Guarded)
    BY <2>1 DEF Steps, Guarded
  <2>4. QuietMove BY <2>1, <2>2, <2>3 DEF QuietMove, Places, Steps, Guarded, Outside
  <2>5. EspReady' BY <2>2 DEF EspReady
  <2> QED BY <1>0, <1>a, <1>b, <2>1, <2>4, <2>5, QuietStep
<1> QED BY <1>1, <1>2, <1>3

-----------------------------------------------------------------------------
(* The steps outside the table mutation that change more than the journal. *)

LEMMA LayoutOutside ==
    ASSUME LayoutInv, UNCHANGED <<table, ntfsFs, backup>>, Outside(pc')
    PROVE  LayoutInv'
<1>1. WindowsFits' /\ Disjoint(table)' /\ Disjoint(backup)'
  BY DEF LayoutInv, WindowsFits, Disjoint
<1>2. pc' \notin {"fs_resize", "boundary", "shrink_done", "create", "create_target"}
  BY DEF Outside, Guarded
<1> QED BY <1>1, <1>2 DEF LayoutInv

LEMMA ShrinkOutside ==
    ASSUME ShrinkInv, UNCHANGED table, Outside(pc'), Sees',
           Undisturbed' => /\ Undisturbed /\ pc \notin {"shrink_done", "restore"}
                           /\ \A o : completed(espFile.ops, o) => completed(espFile'.ops, o),
           pc' \in Steps => request'.delta \in Deltas
    PROVE  ShrinkInv'
<1>1. ASSUME Undisturbed' PROVE Accounted(table.ntfs)'
  BY <1>1 DEF ShrinkInv, Accounted
<1>2. pc' \notin {"move_before_shrink", "shrink_start", "fs_resize", "boundary"}
  BY DEF Outside, Guarded
<1> QED BY <1>1, <1>2 DEF ShrinkInv

LEMMA EmptyJournal ==
    /\ JournalFile(<<>>) \in FileType /\ IsJournal(JournalFile(<<>>))
    /\ Missing \in FileType /\ Missing.ops = <<>>
    /\ Corrupt \in FileType /\ Corrupt.ops = <<>>
    /\ \A o : ~completed(<<>>, o) /\ ~started(<<>>, o)
BY DEF JournalFile, FileType, IsJournal, Missing, Corrupt, completed, started

\* The storage phase opens the journal of the request.
LEMMA OpenStep ==
    ASSUME JournalInv, NEW delta \in Deltas, NEW probed \in BOOLEAN, Open(delta, probed)
    PROVE  JournalInv'
<1> USE DEF JournalInv
<1>0. /\ UNCHANGED <<mode, espMounted, powerLosses, corruptions, hidden, table, ntfsFs, backup,
                     fstab, wrote, restoreFailed>>
      /\ pc = "idle" /\ request' = [delta |-> delta, preShrink |-> table.ntfs]
      /\ attempts' = attempts + 1
      /\ stepFaults' = stepFaults \/ stepFaults' = stepFaults + 1
  BY DEF Open
<1>a. blind' \in BOOLEAN /\ (~blind' => ~blind) /\ Sees'
  <2>1. blind \in BOOLEAN BY DEF JournalTypeOK
  <2>2. CASE espMounted /\ probed BY <2>1, <2>2 DEF Open, Sees
  <2>3. CASE ~(espMounted /\ probed)
    <3>1. blind' = (blind \/ completed(espFile.ops, "ntfs_shrink")) /\ espFile' = espFile
      BY <2>3 DEF Open
    <3> QED BY <2>1, <3>1 DEF Sees
  <2> QED BY <2>2, <2>3
<1>1. FilesKept
  <2>1. /\ espFile' = espFile \/ (espFile = Missing /\ espFile' = JournalFile(<<>>))
        /\ stageFile' = stageFile \/ (stageFile = Missing /\ stageFile' = JournalFile(<<>>))
    BY DEF Open
  <2>2. espFile \in FileType /\ stageFile \in FileType /\ FilesSound
    BY DEF JournalTypeOK, DurableInv
  <2>3. /\ espFile' \in FileType /\ (~IsJournal(espFile') => espFile'.ops = <<>>)
        /\ stageFile' \in FileType /\ (~IsJournal(stageFile') => stageFile'.ops = <<>>)
    BY <2>1, <2>2, EmptyJournal DEF FilesSound
  <2>4. /\ \A o : completed(espFile.ops, o) => completed(espFile'.ops, o)
        /\ \A o : started(espFile.ops, o) => started(espFile'.ops, o)
    BY <2>1, EmptyJournal
  <2> QED BY <2>3, <2>4 DEF FilesKept, FilesSound
<1>2. /\ handle' \in {"stage", "esp"}
      /\ pc' \in {"cleanup", "image_start", "format", "table_start"}
      /\ pc' = "image_start" => mode = "wipe"
      /\ pc' = "table_start" => mode # "wipe"
  BY DEF Open, FirstStep
<1>3. JournalTypeOK'
  <2>1. window' \in Region
    <3>1. DiskSize \in Nat /\ FreeTail \in Nat /\ FreeTail < DiskSize BY InstallJournalAssumption
    <3>2. DiskSize - FreeTail \in 0 .. DiskSize /\ DiskSize \in 0 .. DiskSize /\ 0 \in 0 .. DiskSize
      BY <3>1
    <3> QED BY <3>2 DEF Open, NoWindow, Region
  <2>2. request' \in [delta : Nat, preShrink : Nat]
    BY <1>0, InstallJournalAssumption DEF JournalTypeOK, TableType
  <2>3. attempts' \in Nat /\ stepFaults' \in Nat BY <1>0 DEF JournalTypeOK
  <2>4. pc' \in Steps \cup {"idle", "restore", "restore_fstab", "cleanup", "installed"}
    BY <1>2 DEF Steps
  <2> QED BY <1>0, <1>a, <1>1, <1>2, <2>1, <2>2, <2>3, <2>4 DEF JournalTypeOK, FilesKept
<1>4. Outside(pc') /\ Outside(pc) BY <1>0, <1>2 DEF Outside, Guarded
<1>5. LayoutInv' BY <1>0, <1>4, LayoutOutside
<1>6. DurableInv'
  <2>1. EspReady' BY <1>0, <1>2 DEF EspReady
  <2>2. WipeApart' BY <1>0, <1>2 DEF DurableInv, WipeApart, Guarded
  <2>3. ShrinkIsDurable' BY <1>0, <1>1 DEF DurableInv, ShrinkIsDurable, FilesKept
  <2> QED BY <1>1, <2>1, <2>2, <2>3 DEF DurableInv, FilesKept
<1>7. ShrinkInv'
  <2>1. Undisturbed' => Undisturbed BY <1>0, <1>a DEF Undisturbed
  <2>2. request'.delta \in Deltas BY <1>0
  <2> QED BY <1>0, <1>a, <1>1, <1>2, <1>4, <2>1, <2>2, ShrinkOutside DEF FilesKept
<1>8. UndoneInv' BY <1>0, <1>4 DEF UndoneInv
<1> QED BY <1>3, <1>5, <1>6, <1>7, <1>8

\* A step that writes the target: mkfs, the configuration, and its undoing.
LEMMA TargetStep ==
    ASSUME JournalInv, Mkfs \/ Configure \/ RestoreFstab
    PROVE  JournalInv'
<1> USE DEF JournalInv
<1>0. UNCHANGED <<mode, espMounted, blind, attempts, powerLosses, corruptions, request, espFile,
                  stageFile, hidden, handle, table, ntfsFs, backup, window>>
  BY DEF Mkfs, Configure, RestoreFstab, setting, journal
<1>a. stepFaults \in Nat /\ wrote \subseteq JournalOps /\ restoreFailed \in BOOLEAN
      /\ fstab \in {"clean", "edited"}
  BY DEF JournalTypeOK
<1>1. /\ pc \in {"mkfs", "configure", "restore_fstab"}
      /\ pc' \in {"format_done", "configure_done", "restore_fstab", "cleanup"}
      /\ stepFaults' \in Nat /\ restoreFailed' \in BOOLEAN /\ (restoreFailed => restoreFailed')
      /\ fstab' \in {"clean", "edited"} /\ wrote \subseteq wrote' /\ wrote' \subseteq JournalOps
      /\ "ntfs_shrink" \in wrote' => "ntfs_shrink" \in wrote
      /\ pc' \in Steps => pc \in Steps
      /\ (pc' # "restore_fstab" /\ ~restoreFailed' /\ "configure" \notin wrote') =>
           \/ fstab' = "clean"
           \/ pc # "restore_fstab" /\ fstab' = fstab
  <2>1. CASE Mkfs
    <3>1. FailureExit(pc) = "cleanup" BY <2>1 DEF Mkfs, FailureExit, Guarded
    <3>2. pc' \in {"format_done", "cleanup"} /\ stepFaults' \in Nat
      BY <2>1, <1>a, <3>1, ThenGoes DEF Mkfs
    <3> QED BY <2>1, <1>a, <3>2 DEF Mkfs, JournalOps, Steps
  <2>2. CASE Configure
    <3>1. FailureExit(pc) = "restore_fstab" BY <2>2 DEF Configure, FailureExit, Guarded
    <3>2. pc' \in {"configure_done", "restore_fstab"} /\ stepFaults' \in Nat
      BY <2>2, <1>a, <3>1, ThenGoes DEF Configure
    <3> QED BY <2>2, <1>a, <3>2 DEF Configure, JournalOps, Steps
  <2>3. CASE RestoreFstab
    <3>1. pc = "restore_fstab" /\ pc' = "cleanup" /\ wrote' = wrote BY <2>3 DEF RestoreFstab
    <3>2. /\ stepFaults' \in Nat /\ restoreFailed' \in BOOLEAN /\ (restoreFailed => restoreFailed')
          /\ fstab' \in {"clean", "edited"} /\ (~restoreFailed' => fstab' = "clean")
      <4>1. CASE fstab' = "clean" /\ UNCHANGED <<restoreFailed, stepFaults>> BY <1>a, <4>1
      <4>2. CASE stepFaults' = stepFaults + 1 /\ restoreFailed' = TRUE /\ UNCHANGED fstab
        <5>1. stepFaults' \in Nat BY <1>a, <4>2
        <5> QED BY <1>a, <4>2, <5>1
      <4> QED BY <2>3, <4>1, <4>2 DEF RestoreFstab
    <3>3. pc' \notin Steps BY <3>1 DEF Steps, Guarded
    <3> QED BY <1>a, <3>1, <3>2, <3>3
  <2> QED BY <2>1, <2>2, <2>3
<1>2. JournalTypeOK'
  BY <1>0, <1>1 DEF JournalTypeOK, Steps
<1>3. Outside(pc') /\ Outside(pc) BY <1>1 DEF Outside, Guarded
<1>4. LayoutInv' BY <1>0, <1>3, LayoutOutside
<1>5. DurableInv'
  <2>1. EspReady' BY <1>1 DEF EspReady
  <2>2. WipeApart' BY <1>0, <1>1 DEF DurableInv, WipeApart, Guarded
  <2>3. ShrinkIsDurable' BY <1>0, <1>1 DEF DurableInv, ShrinkIsDurable
  <2>4. FilesSound' BY <1>0 DEF DurableInv, FilesSound, IsJournal
  <2> QED BY <2>1, <2>2, <2>3, <2>4 DEF DurableInv
<1>6. ShrinkInv'
  <2>1. Undisturbed' => Undisturbed BY <1>0, <1>1 DEF Undisturbed
  <2>2. pc' \in Steps => request'.delta \in Deltas
    BY <1>0, <1>1 DEF ShrinkInv
  <2>3. Sees' BY <1>1 DEF Sees
  <2> QED BY <1>0, <1>1, <1>3, <2>1, <2>2, <2>3, ShrinkOutside
<1>7. UndoneInv'
  <2>1. (/\ Outside(pc') /\ ~restoreFailed' /\ powerLosses' = 0
         /\ "partition_table" \notin wrote' /\ mode' # "wipe") => table' = backup'
    BY <1>0, <1>1, <1>3 DEF UndoneInv
  <2>2. (pc' # "restore_fstab" /\ ~restoreFailed' /\ powerLosses' = 0 /\ "configure" \notin wrote')
          => fstab' = "clean"
    BY <1>0, <1>1 DEF UndoneInv
  <2> QED BY <2>1, <2>2 DEF UndoneInv
<1> QED BY <1>2, <1>4, <1>5, <1>6, <1>7

\* bootc writes the image; a wipe replaces the whole disk.
LEMMA BootcStep ==
    ASSUME JournalInv, Bootc
    PROVE  JournalInv'
<1> USE DEF JournalInv
<1>0. /\ UNCHANGED <<mode, espMounted, blind, attempts, powerLosses, corruptions, request, stageFile,
                     hidden, handle, backup, window, restoreFailed>>
      /\ pc = "bootc" /\ wrote' = wrote \cup {"image_write"} /\ fstab' = "clean"
  BY DEF Bootc, setting
<1>1. pc' \in {"image_done", "cleanup"} /\ stepFaults' \in Nat
  <2>1. FailureExit(pc) = "cleanup" /\ stepFaults \in Nat
    BY <1>0 DEF FailureExit, Guarded, JournalTypeOK
  <2> QED BY <2>1, ThenGoes DEF Bootc
<1>2. Outside(pc') /\ Outside(pc) BY <1>0, <1>1 DEF Outside, Guarded
<1>3. DiskSize \in Nat BY InstallJournalAssumption
<1>4. CASE mode = "wipe"
  <2>1. /\ table' = [ntfs |-> 0, bios |-> TRUE, created |-> {<<0, DiskSize>>}]
        /\ ntfsFs' = 0 /\ espFile' = Missing
    BY <1>4 DEF Bootc
  <2>2. table'.ntfs = 0 /\ table'.created = {<<0, DiskSize>>} BY <2>1
  <2>3. JournalTypeOK'
    <3>1. table' \in TableType BY <1>3, <2>1 DEF TableType, Region
    <3>2. wrote' \subseteq JournalOps BY <1>0 DEF JournalTypeOK, JournalOps
    <3>3. pc' \in Steps \cup {"idle", "restore", "restore_fstab", "cleanup", "installed"}
      BY <1>1 DEF Steps
    <3>4. ntfsFs' \in 0 .. DiskSize BY <1>3, <2>1
    <3> QED BY <1>0, <1>1, <2>1, <3>1, <3>2, <3>3, <3>4, EmptyJournal DEF JournalTypeOK
  <2>4. LayoutInv'
    <3>1. WindowsFits' BY <2>1, <2>2 DEF WindowsFits
    <3>2. Disjoint(table)' BY <1>3, <2>2 DEF Disjoint
    <3>3. Disjoint(backup)' BY <1>0 DEF LayoutInv, Disjoint
    <3> QED BY <1>1, <1>2, <3>1, <3>2, <3>3 DEF LayoutInv
  <2>5. DurableInv'
    <3>1. EspReady' BY <1>0, <1>1, <1>4 DEF EspReady
    <3>2. WipeApart' BY <1>0, <1>1 DEF DurableInv, WipeApart, Guarded
    <3>3. ShrinkIsDurable' BY <1>0, <1>4 DEF DurableInv, WipeApart, ShrinkIsDurable
    <3>4. FilesSound' BY <1>0, <2>1, EmptyJournal DEF DurableInv, FilesSound, IsJournal
    <3> QED BY <3>1, <3>2, <3>3, <3>4 DEF DurableInv
  <2>6. ShrinkInv'
    <3>1. ~Undisturbed' BY <1>0, <1>4 DEF Undisturbed
    <3>2. pc \in Steps BY <1>0 DEF Steps
    <3>3. Sees' BY <1>1 DEF Sees
    <3> QED BY <1>0, <3>1, <3>2, <3>3 DEF ShrinkInv
  <2>7. UndoneInv' BY <1>0, <1>4 DEF UndoneInv
  <2> QED BY <2>3, <2>4, <2>5, <2>6, <2>7
<1>5. CASE mode # "wipe"
  <2>1. UNCHANGED <<table, ntfsFs, espFile>> BY <1>5 DEF Bootc
  <2>2. JournalTypeOK'
    <3>1. wrote' \subseteq JournalOps BY <1>0 DEF JournalTypeOK, JournalOps
    <3>2. pc' \in Steps \cup {"idle", "restore", "restore_fstab", "cleanup", "installed"}
      BY <1>1 DEF Steps
    <3> QED BY <1>0, <1>1, <2>1, <3>1, <3>2 DEF JournalTypeOK
  <2>3. LayoutInv' BY <1>0, <1>2, <2>1, LayoutOutside
  <2>4. DurableInv'
    <3>1. EspReady' BY <1>0, <1>1, <2>1 DEF DurableInv, EspReady
    <3>2. WipeApart' BY <1>0, <1>5 DEF WipeApart
    <3>3. ShrinkIsDurable' BY <1>0, <2>1 DEF DurableInv, ShrinkIsDurable
    <3>4. FilesSound' BY <1>0, <2>1 DEF DurableInv, FilesSound, IsJournal
    <3> QED BY <3>1, <3>2, <3>3, <3>4 DEF DurableInv
  <2>5. ShrinkInv'
    <3>1. Undisturbed' => Undisturbed BY <1>0 DEF Undisturbed
    <3>2. pc \in Steps BY <1>0 DEF Steps
    <3>3. request'.delta \in Deltas BY <1>0, <3>2 DEF ShrinkInv
    <3>4. Sees' BY <1>1 DEF Sees
    <3> QED BY <1>0, <1>2, <2>1, <3>1, <3>3, <3>4, ShrinkOutside
  <2>6. UndoneInv' BY <1>0, <1>2, <2>1 DEF UndoneInv
  <2> QED BY <2>2, <2>3, <2>4, <2>5, <2>6
<1> QED BY <1>4, <1>5

\* The power goes, or the ESP loses the journal.
LEMMA DisasterStep ==
    ASSUME JournalInv, JournalPowerLoss \/ CorruptEsp
    PROVE  JournalInv'
<1> USE DEF JournalInv
<1>0. /\ UNCHANGED <<mode, espMounted, blind, attempts, request, table, ntfsFs, backup, window, fstab,
                     wrote, stepFaults, restoreFailed>>
      /\ pc' = "idle" /\ powerLosses' \in Nat /\ corruptions' \in Nat
      /\ hidden' \in BOOLEAN /\ handle' \in {"none", "stage", "esp"}
      /\ espFile' \in {espFile, Corrupt} /\ stageFile' \in {stageFile, Missing}
      /\ (espFile' = espFile /\ corruptions' = corruptions) \/ corruptions' # 0
      /\ powerLosses' # 0 \/ (pc = "idle" /\ UNCHANGED powerLosses)
      /\ powerLosses' # 0 \/ corruptions' # 0
  <2>0. /\ powerLosses \in Nat /\ corruptions \in Nat /\ hidden \in BOOLEAN
        /\ handle \in {"none", "stage", "esp"}
    BY DEF JournalTypeOK
  <2>1. CASE JournalPowerLoss
    <3>1. powerLosses' = powerLosses + 1 BY <2>1 DEF JournalPowerLoss
    <3>2. powerLosses' \in Nat /\ powerLosses' # 0 BY <2>0, <3>1
    <3> QED BY <2>0, <2>1, <3>2 DEF JournalPowerLoss, disk
  <2>2. CASE CorruptEsp
    <3>1. corruptions' = corruptions + 1 BY <2>2 DEF CorruptEsp
    <3>2. corruptions' \in Nat /\ corruptions' # 0 BY <2>0, <3>1
    <3> QED BY <2>0, <2>2, <3>2 DEF CorruptEsp, disk
  <2> QED BY <2>1, <2>2
<1>1. JournalTypeOK' BY <1>0, EmptyJournal DEF JournalTypeOK
<1>2. Outside(pc') BY <1>0 DEF Outside, Guarded
<1>3. LayoutInv' BY <1>0, <1>2, LayoutOutside
<1>4. DurableInv'
  <2>1. EspReady' BY <1>0 DEF EspReady
  <2>2. WipeApart' BY <1>0 DEF DurableInv, WipeApart, Guarded
  <2>3. ShrinkIsDurable' BY <1>0 DEF DurableInv, ShrinkIsDurable
  <2>4. FilesSound' BY <1>0, EmptyJournal DEF DurableInv, FilesSound
  <2> QED BY <2>1, <2>2, <2>3, <2>4 DEF DurableInv
<1>5. ShrinkInv'
  <2>1. ~Undisturbed' BY <1>0 DEF Undisturbed
  <2>2. pc' \notin Steps BY <1>0 DEF Steps, Guarded
  <2>3. Sees' BY <1>0 DEF Sees
  <2> QED BY <2>1, <2>2, <2>3 DEF ShrinkInv
<1>6. UndoneInv'
  <2>1. CASE powerLosses' # 0 BY <2>1 DEF UndoneInv
  <2>2. CASE pc = "idle" /\ UNCHANGED powerLosses
    <3>1. Outside(pc) BY <2>2 DEF Outside, Guarded
    <3> QED BY <1>0, <2>2, <3>1 DEF UndoneInv
  <2> QED BY <1>0, <2>1, <2>2
<1> QED BY <1>1, <1>3, <1>4, <1>5, <1>6

-----------------------------------------------------------------------------
(* The guarded mutation of the partition table.                            *)

\* The table is backed up and the region of a free_space install checked.
LEMMA TableStartStep ==
    ASSUME JournalInv, TableStart
    PROVE  JournalInv'
<1> USE DEF JournalInv
<1>0. /\ UNCHANGED <<mode, espMounted, blind, attempts, powerLosses, corruptions, request,
                     table, ntfsFs, window, fstab, wrote, restoreFailed>>
      /\ pc = "table_start"
  BY DEF TableStart, setting
<1>a. /\ FailureExit(pc) = "cleanup" /\ Outside(pc) /\ pc \in Steps /\ mode # "wipe"
      /\ stepFaults \in Nat
  BY <1>0 DEF FailureExit, Guarded, Outside, Steps, DurableInv, WipeApart, JournalTypeOK
<1>1. /\ FilesKept /\ UNCHANGED <<hidden, handle>> /\ stepFaults' \in Nat
      /\ pc' \in {"create", "resize", "cleanup"}
      /\ handle # "esp" => espFile' = espFile
      /\ pc' = "create" => Free(window[1], window[2])
      /\ backup' = table \/ (pc' = "cleanup" /\ UNCHANGED backup)
  <2>1. CASE mode = "free_space" /\ ~Free(window[1], window[2])
    <3>1. Refuse /\ UNCHANGED <<journal, backup>> BY <2>1 DEF TableStart
    <3>2. FilesKept
      BY <3>1 DEF journal, FilesKept, FilesSound, IsJournal, DurableInv, JournalTypeOK
    <3> QED BY <3>1, <3>2, <1>a, RefuseGoes DEF journal
  <2>2. CASE ~(mode = "free_space" /\ ~Free(window[1], window[2]))
    <3> DEFINE next == IF mode = "free_space" THEN "create" ELSE "resize"
    <3>1. RecordJournal("partition_table", "Started", next) /\ backup' = table
      BY <2>2 DEF TableStart
    <3>2. "partition_table" \in JournalOps BY DEF JournalOps
    <3>3. next = "create" => Free(window[1], window[2]) BY <2>2
    <3>4. next \in {"create", "resize"} OBVIOUS
    <3> HIDE DEF next
    <3>5. /\ FilesKept /\ UNCHANGED <<hidden, handle>>
          /\ pc' \in {next, FailureExit(pc)} /\ stepFaults' \in Nat
      BY <3>1, <3>2, RecordJournalEffect DEF DurableInv
    <3>6. handle # "esp" => espFile' = espFile BY <3>1 DEF RecordJournal, journal
    <3> QED BY <3>1, <3>3, <3>4, <3>5, <3>6, <1>a
  <2> QED BY <2>1, <2>2
<1>2. JournalTypeOK'
  <2>1. backup' \in TableType BY <1>1 DEF JournalTypeOK
  <2>2. pc' \in Steps \cup {"idle", "restore", "restore_fstab", "cleanup", "installed"}
    BY <1>1 DEF Steps, Guarded
  <2> QED BY <1>0, <1>1, <2>1, <2>2 DEF JournalTypeOK, FilesKept
<1>3. LayoutInv'
  <2>1. WindowsFits' /\ Disjoint(table)' BY <1>0 DEF LayoutInv, WindowsFits, Disjoint
  <2>2. Disjoint(backup)' BY <1>1 DEF LayoutInv, Disjoint
  <2>3. ~Outside(pc') => table.ntfs <= backup'.ntfs
    <3>1. pc' = "cleanup" => Outside(pc') BY DEF Outside, Guarded
    <3>2. table.ntfs <= table.ntfs BY DEF JournalTypeOK, TableType
    <3> QED BY <1>1, <3>1, <3>2
  <2>4. Free(window[1], window[2])' <=> Free(window[1], window[2]) BY <1>0 DEF Free
  <2> QED BY <1>0, <1>1, <2>1, <2>2, <2>3, <2>4 DEF LayoutInv
<1>4. DurableInv'
  <2>1. EspReady' BY <1>1 DEF EspReady
  <2>2. WipeApart' BY <1>0, <1>a DEF WipeApart
  <2>3. ShrinkIsDurable' BY <1>0, <1>1 DEF DurableInv, ShrinkIsDurable, FilesKept
  <2> QED BY <1>1, <2>1, <2>2, <2>3 DEF DurableInv, FilesKept
<1>5. ShrinkInv'
  <2>1. request'.delta \in Deltas
    BY <1>0, <1>1, <1>a DEF ShrinkInv
  <2>2. ASSUME Undisturbed'
        PROVE  Accounted(table.ntfs)' /\ (~Outside(pc') => Accounted(backup.ntfs)')
    <3>1. Undisturbed BY <2>2, <1>0 DEF Undisturbed
    <3>2. Accounted(table.ntfs) BY <3>1, <1>0 DEF ShrinkInv
    <3>3. \A n : Accounted(n) => Accounted(n)' BY <1>1 DEF Accounted, FilesKept
    <3>4. ~Outside(pc') => backup' = table BY <1>1 DEF Outside, Guarded
    <3>5. Accounted(table.ntfs)' BY <1>0, <3>2, <3>3
    <3>6. ~Outside(pc') => Accounted(backup.ntfs)' BY <3>2, <3>3, <3>4
    <3> QED BY <3>5, <3>6
  <2>3. Sees' BY <1>0, <1>1 DEF ShrinkInv, Sees
  <2> QED BY <1>0, <1>1, <2>1, <2>2, <2>3 DEF ShrinkInv
<1>6. UndoneInv' BY <1>0, <1>1, <1>a DEF UndoneInv
<1> QED BY <1>2, <1>3, <1>4, <1>5, <1>6

\* A recorded completion is resumed, never repeated.
LEMMA ResumeStep ==
    ASSUME JournalInv, Resume
    PROVE  JournalInv'
<1> USE DEF JournalInv
<1>0. /\ UNCHANGED <<mode, espMounted, blind, attempts, powerLosses, corruptions, request, espFile,
                     stageFile, hidden, handle, table, ntfsFs, backup, fstab, wrote, restoreFailed>>
      /\ pc = "resize"
  BY DEF Resume, setting, journal
<1>a. FailureExit(pc) = "restore" /\ ~Outside(pc) /\ pc \in Steps /\ stepFaults \in Nat
  BY <1>0 DEF FailureExit, Guarded, Outside, Steps, JournalTypeOK
<1> DEFINE end == table.ntfs + request.delta
<1>1. /\ stepFaults' \in Nat /\ pc' \in {"move_before_shrink", "create", "restore"}
      /\ pc' = "move_before_shrink" => ~journal_completed("ntfs_shrink")
      /\ \/ UNCHANGED window /\ pc' # "create"
         \/ window' = <<table.ntfs, end>> /\ Free(table.ntfs, end)
  BY <1>a, RefuseGoes DEF Resume
<1>b. table.ntfs \in 0 .. DiskSize /\ request.delta \in Nat /\ DiskSize \in Nat
  BY InstallJournalAssumption DEF JournalTypeOK, TableType
<1>2. JournalTypeOK'
  <2>1. window' \in Region
    <3>1. CASE UNCHANGED window BY <3>1 DEF JournalTypeOK
    <3>2. CASE window' = <<table.ntfs, end>> /\ Free(table.ntfs, end)
      <4>1. end \in 0 .. DiskSize BY <1>b, <3>2 DEF Free
      <4> QED BY <1>b, <3>2, <4>1 DEF Region
    <3> QED BY <1>1, <3>1, <3>2
  <2>2. pc' \in Steps \cup {"idle", "restore", "restore_fstab", "cleanup", "installed"}
    BY <1>1 DEF Steps, Guarded
  <2> QED BY <1>0, <1>1, <2>1, <2>2 DEF JournalTypeOK
<1>3. LayoutInv'
  <2>1. WindowsFits' /\ Disjoint(table)' /\ Disjoint(backup)'
    BY <1>0 DEF LayoutInv, WindowsFits, Disjoint
  <2>2. table.ntfs <= backup.ntfs BY <1>a DEF LayoutInv
  <2>3. pc' = "create" => Free(window[1], window[2])'
    <3>1. CASE UNCHANGED window /\ pc' # "create" BY <3>1
    <3>2. CASE window' = <<table.ntfs, end>> /\ Free(table.ntfs, end)
      <4>1. window'[1] = table.ntfs /\ window'[2] = end BY <3>2
      <4> HIDE DEF end
      <4> QED BY <1>0, <3>2, <4>1 DEF Free
    <3> QED BY <1>1, <3>1, <3>2
  <2> QED BY <1>0, <1>1, <2>1, <2>2, <2>3 DEF LayoutInv
<1>4. DurableInv'
  <2>1. EspReady' BY <1>1 DEF EspReady
  <2>2. WipeApart' BY <1>0 DEF DurableInv, WipeApart, Guarded
  <2>3. ShrinkIsDurable' BY <1>0 DEF DurableInv, ShrinkIsDurable
  <2>4. FilesSound' BY <1>0 DEF DurableInv, FilesSound, IsJournal
  <2> QED BY <2>1, <2>2, <2>3, <2>4 DEF DurableInv
<1>5. ShrinkInv'
  <2>1. request'.delta \in Deltas
    BY <1>0, <1>a DEF ShrinkInv
  <2>2. ASSUME Undisturbed'
        PROVE  /\ Accounted(table.ntfs)' /\ Accounted(backup.ntfs)'
               /\ pc' = "move_before_shrink" => table.ntfs = DiskSize
    <3>1. Undisturbed BY <2>2, <1>0 DEF Undisturbed
    <3>2. Accounted(table.ntfs) /\ Accounted(backup.ntfs) BY <3>1, <1>0, <1>a DEF ShrinkInv
    <3>3. ~journal_completed("ntfs_shrink") => ~completed(espFile.ops, "ntfs_shrink")
      BY <3>1, <1>0 DEF ShrinkInv, Sees, Undisturbed, journal_completed, ActiveFile
    <3>4. pc' = "move_before_shrink" => table.ntfs = DiskSize BY <1>1, <3>2, <3>3 DEF Accounted
    <3> QED BY <1>0, <3>2, <3>4 DEF Accounted
  <2>3. Sees' BY <1>1 DEF Sees
  <2> QED BY <1>0, <1>1, <2>1, <2>2, <2>3 DEF ShrinkInv
<1>6. UndoneInv'
  <2>1. ~Outside(pc') BY <1>1 DEF Outside, Guarded
  <2> QED BY <1>0, <2>1 DEF UndoneInv
<1> QED BY <1>2, <1>3, <1>4, <1>5, <1>6

\* The file system shrinks, with the record of it on the ESP.
LEMMA FsResizeStep ==
    ASSUME JournalInv, FsResize
    PROVE  JournalInv'
<1> USE DEF JournalInv
<1>0. /\ UNCHANGED <<mode, espMounted, blind, attempts, powerLosses, corruptions, request, espFile,
                     stageFile, hidden, handle, table, backup, window, fstab, restoreFailed>>
      /\ pc = "fs_resize" /\ ntfsFs' = table.ntfs - request.delta
      /\ wrote' = wrote \cup {"ntfs_shrink"}
  BY DEF FsResize, setting, journal
<1>a. FailureExit(pc) = "restore" /\ ~Outside(pc) /\ pc \in Steps /\ stepFaults \in Nat
  BY <1>0 DEF FailureExit, Guarded, Outside, Steps, JournalTypeOK
<1>b. /\ table.ntfs \in 0 .. DiskSize /\ request.delta \in Nat /\ DiskSize \in Nat
      /\ request.delta <= table.ntfs /\ mode # "wipe"
  BY <1>0, InstallJournalAssumption
  DEF JournalTypeOK, TableType, LayoutInv, DurableInv, WipeApart, Guarded
<1>1. pc' \in {"boundary", "restore"} /\ stepFaults' \in Nat
  BY <1>a, ThenGoes DEF FsResize
<1>2. ntfsFs' \in 0 .. DiskSize /\ ntfsFs' <= table.ntfs /\ ntfsFs' <= table.ntfs - request.delta
  BY <1>0, <1>b
<1>3. JournalTypeOK'
  <2>1. pc' \in Steps \cup {"idle", "restore", "restore_fstab", "cleanup", "installed"}
    BY <1>1 DEF Steps, Guarded
  <2>2. wrote' \subseteq JournalOps BY <1>0 DEF JournalTypeOK, JournalOps
  <2> QED BY <1>0, <1>1, <1>2, <2>1, <2>2 DEF JournalTypeOK
<1>4. LayoutInv'
  <2>1. WindowsFits' /\ Disjoint(table)' /\ Disjoint(backup)'
    BY <1>0, <1>2 DEF LayoutInv, WindowsFits, Disjoint
  <2>2. table.ntfs <= backup.ntfs BY <1>a DEF LayoutInv
  <2> QED BY <1>0, <1>1, <1>2, <1>b, <2>1, <2>2 DEF LayoutInv
<1>5. DurableInv'
  <2>1. EspReady' BY <1>0, <1>1 DEF DurableInv, EspReady
  <2>2. WipeApart' BY <1>0, <1>b DEF WipeApart
  <2>3. ShrinkIsDurable' BY <1>0 DEF DurableInv, EspReady, ShrinkIsDurable
  <2>4. FilesSound' BY <1>0 DEF DurableInv, FilesSound, IsJournal
  <2> QED BY <2>1, <2>2, <2>3, <2>4 DEF DurableInv
<1>6. ShrinkInv'
  <2>1. request'.delta \in Deltas
    BY <1>0, <1>a DEF ShrinkInv
  <2>2. ASSUME Undisturbed'
        PROVE  Accounted(table.ntfs)' /\ Accounted(backup.ntfs)' /\ table.ntfs = DiskSize
    <3>1. Undisturbed BY <2>2, <1>0 DEF Undisturbed
    <3>2. Accounted(table.ntfs) /\ Accounted(backup.ntfs) /\ table.ntfs = DiskSize
      BY <3>1, <1>0, <1>a DEF ShrinkInv
    <3> QED BY <1>0, <3>2 DEF Accounted
  <2>3. Sees' BY <1>1 DEF Sees
  <2> QED BY <1>0, <1>1, <2>1, <2>2, <2>3 DEF ShrinkInv
<1>7. UndoneInv'
  <2>1. ~Outside(pc') BY <1>1 DEF Outside, Guarded
  <2> QED BY <1>0, <2>1 DEF UndoneInv
<1> QED BY <1>3, <1>4, <1>5, <1>6, <1>7

\* The boundary follows; what it frees is free.
LEMMA BoundaryStep ==
    ASSUME JournalInv, Boundary
    PROVE  JournalInv'
<1> USE DEF JournalInv
<1> DEFINE size == table.ntfs - request.delta
<1>0. /\ UNCHANGED <<mode, espMounted, blind, attempts, powerLosses, corruptions, request, espFile,
                     stageFile, hidden, handle, ntfsFs, backup, fstab, wrote, restoreFailed>>
      /\ pc = "boundary" /\ window' = <<size, table.ntfs>>
      /\ table' = [table EXCEPT !.ntfs = size]
  BY DEF Boundary, setting, journal
<1>a. /\ FailureExit(pc) = "restore" /\ ~Outside(pc) /\ pc \in Steps /\ stepFaults \in Nat
      /\ table \in TableType
  BY <1>0 DEF FailureExit, Guarded, Outside, Steps, JournalTypeOK
<1>b. /\ table.ntfs \in 0 .. DiskSize /\ request.delta \in Nat /\ DiskSize \in Nat
      /\ request.delta <= table.ntfs /\ mode # "wipe" /\ ntfsFs <= size
      /\ table.ntfs <= backup.ntfs /\ backup.ntfs \in 0 .. DiskSize
  BY <1>0, <1>a, InstallJournalAssumption
  DEF JournalTypeOK, TableType, LayoutInv, DurableInv, WipeApart, Guarded
<1>c. size \in 0 .. DiskSize /\ size <= table.ntfs BY <1>b
<1> HIDE DEF size
<1>1. pc' \in {"shrink_done", "restore"} /\ stepFaults' \in Nat
  BY <1>a, ThenGoes DEF Boundary
<1>2. /\ table' \in TableType /\ table'.ntfs = size /\ table'.created = table.created
      /\ window' \in Region /\ window'[1] = size /\ window'[2] = table.ntfs
  BY <1>0, <1>a, <1>b, <1>c DEF TableType, Region
<1>3. JournalTypeOK'
  <2>1. pc' \in Steps \cup {"idle", "restore", "restore_fstab", "cleanup", "installed"}
    BY <1>1 DEF Steps, Guarded
  <2> QED BY <1>0, <1>1, <1>2, <2>1 DEF JournalTypeOK
<1>d. \A p \in table.created : p[1] \in 0 .. DiskSize /\ p[2] \in 0 .. DiskSize
  BY <1>a DEF TableType, Region
<1>4. LayoutInv'
  <2>1. WindowsFits' BY <1>0, <1>b, <1>2 DEF WindowsFits
  <2>2. Disjoint(table)'
    <3>1. \A p \in table.created : table.ntfs <= p[1] /\ p[2] <= DiskSize
      BY DEF LayoutInv, Disjoint
    <3>2. \A p \in table.created : size <= p[1] BY <3>1, <1>b, <1>c, <1>d
    <3> QED BY <1>2, <3>1, <3>2 DEF LayoutInv, Disjoint
  <2>3. Disjoint(backup)' BY <1>0 DEF LayoutInv, Disjoint
  <2>4. table'.ntfs <= backup'.ntfs BY <1>0, <1>b, <1>c, <1>2
  <2>5. Free(window[1], window[2])'
    <3>1. \A p \in table.created : table.ntfs <= p[1] BY DEF LayoutInv, Disjoint
    <3>2. size <= size /\ table.ntfs <= DiskSize BY <1>b, <1>c
    <3> QED BY <1>2, <3>1, <3>2 DEF Free
  <2> QED BY <1>1, <2>1, <2>2, <2>3, <2>4, <2>5 DEF LayoutInv
<1>5. DurableInv'
  <2>1. EspReady' BY <1>0, <1>1 DEF DurableInv, EspReady
  <2>2. WipeApart' BY <1>0, <1>b DEF WipeApart
  <2>3. ShrinkIsDurable' BY <1>0 DEF DurableInv, ShrinkIsDurable
  <2>4. FilesSound' BY <1>0 DEF DurableInv, FilesSound, IsJournal
  <2> QED BY <2>1, <2>2, <2>3, <2>4 DEF DurableInv
<1>6. ShrinkInv'
  <2>1. request.delta \in Deltas
    BY <1>0, <1>a DEF ShrinkInv
  <2>2. ASSUME Undisturbed'
        PROVE  DiskSize - table'.ntfs \in Deltas /\ Accounted(backup.ntfs)'
    <3>1. Undisturbed BY <2>2, <1>0 DEF Undisturbed
    <3>2. Accounted(backup.ntfs) /\ table.ntfs = DiskSize BY <3>1, <1>0, <1>a DEF ShrinkInv
    <3>3. DiskSize - table'.ntfs = request.delta BY <1>b, <1>2, <3>2 DEF size
    <3> QED BY <1>0, <2>1, <3>2, <3>3 DEF Accounted
  <2>3. Sees' BY <1>1 DEF Sees
  <2> QED BY <1>0, <1>1, <2>1, <2>2, <2>3 DEF ShrinkInv
<1>7. UndoneInv'
  <2>1. ~Outside(pc') BY <1>1 DEF Outside, Guarded
  <2> QED BY <1>0, <2>1 DEF UndoneInv
<1> QED BY <1>3, <1>4, <1>5, <1>6, <1>7

\* A free region becomes a partition; the rest of it stays free.
LEMMA RegionTaken ==
    ASSUME table \in TableType, Disjoint(table), NEW a \in 0 .. DiskSize, NEW b \in 0 .. DiskSize,
           NEW c \in 0 .. DiskSize, a <= b, b <= c, Free(a, c), DiskSize \in Nat,
           table'.ntfs = table.ntfs, table'.created = table.created \cup {<<a, b>>}
    PROVE  Disjoint(table)' /\ Free(b, c)'
<1>1. \A p \in table.created : p[1] \in 0 .. DiskSize /\ p[2] \in 0 .. DiskSize
  BY DEF TableType, Region
<1>2. table.ntfs \in 0 .. DiskSize BY DEF TableType
<1>3. /\ table.ntfs <= a /\ table.ntfs <= b /\ b <= DiskSize /\ c <= DiskSize
      /\ \A p \in table.created : p[2] <= a \/ c <= p[1]
  BY <1>2 DEF Free
<1>4. \A p \in table.created : (p[2] <= a \/ b <= p[1]) /\ (p[2] <= b \/ c <= p[1])
  BY <1>1, <1>3
<1> DEFINE t == <<a, b>>
<1>5. t[1] = a /\ t[2] = b OBVIOUS
<1> HIDE DEF t
<1>6. table'.created = table.created \cup {t} BY DEF t
<1>7. Disjoint(table)' BY <1>3, <1>4, <1>5, <1>6 DEF Disjoint
<1>8. b <= b OBVIOUS
<1>9. Free(b, c)' BY <1>3, <1>4, <1>5, <1>6, <1>8 DEF Free
<1> QED BY <1>7, <1>9

\* The invariant after a step that only adds partitions to the free region.
LEMMA CreationStep ==
    ASSUME JournalInv,
           UNCHANGED <<mode, espMounted, blind, attempts, powerLosses, corruptions, request, espFile,
                       stageFile, hidden, handle, ntfsFs, backup, fstab, restoreFailed>>,
           pc \in {"create", "create_target"},
           pc' \in {"create_target", "table_done", "restore"}, stepFaults' \in Nat,
           table' \in TableType, table'.ntfs = table.ntfs, Disjoint(table)', window' \in Region,
           pc' = "create_target" => Free(window[1], window[2])',
           wrote' = wrote \/ (pc' = "table_done" /\ wrote' = wrote \cup {"partition_table"}),
           pc' = "table_done" => "partition_table" \in wrote'
    PROVE  JournalInv'
<1> USE DEF JournalInv
<1>a. ~Outside(pc) /\ pc \in Steps BY DEF Outside, Guarded, Steps
<1>1. JournalTypeOK'
  <2>1. pc' \in Steps \cup {"idle", "restore", "restore_fstab", "cleanup", "installed"}
    BY DEF Steps, Guarded
  <2>2. wrote' \subseteq JournalOps BY DEF JournalTypeOK, JournalOps
  <2> QED BY <2>1, <2>2 DEF JournalTypeOK
<1>2. LayoutInv'
  <2>1. WindowsFits' BY DEF LayoutInv, WindowsFits
  <2>2. Disjoint(backup)' BY DEF LayoutInv, Disjoint
  <2>3. table'.ntfs <= backup'.ntfs BY <1>a DEF LayoutInv
  <2> QED BY <2>1, <2>2, <2>3 DEF LayoutInv
<1>3. DurableInv'
  <2>1. EspReady' BY DEF EspReady
  <2>2. WipeApart' BY DEF DurableInv, WipeApart, Guarded
  <2>3. ShrinkIsDurable' BY DEF DurableInv, ShrinkIsDurable
  <2>4. FilesSound' BY DEF DurableInv, FilesSound, IsJournal
  <2> QED BY <2>1, <2>2, <2>3, <2>4 DEF DurableInv
<1>4. ShrinkInv'
  <2>1. request'.delta \in Deltas BY <1>a DEF ShrinkInv
  <2>2. ASSUME Undisturbed' PROVE Accounted(table.ntfs)' /\ Accounted(backup.ntfs)'
    <3>1. Undisturbed BY <2>2 DEF Undisturbed
    <3>2. Accounted(table.ntfs) /\ Accounted(backup.ntfs) BY <3>1, <1>a DEF ShrinkInv
    <3> QED BY <3>2 DEF Accounted
  <2>3. Sees' BY DEF Sees
  <2> QED BY <2>1, <2>2, <2>3 DEF ShrinkInv
<1>5. UndoneInv'
  <2>1. Outside(pc') => "partition_table" \in wrote' BY DEF Outside, Guarded
  <2>2. "configure" \notin wrote' => "configure" \notin wrote OBVIOUS
  <2> QED BY <2>1, <2>2 DEF UndoneInv
<1> QED BY <1>1, <1>2, <1>3, <1>4, <1>5

\* The BIOS boot partition at the start of the region.
LEMMA CreateStep ==
    ASSUME JournalInv, Create
    PROVE  JournalInv'
<1>0. /\ UNCHANGED <<mode, espMounted, blind, attempts, powerLosses, corruptions, request, espFile,
                     stageFile, hidden, handle, ntfsFs, backup, fstab, wrote, restoreFailed>>
      /\ pc = "create"
  BY DEF Create, setting, journal
<1>a. /\ FailureExit(pc) = "restore" /\ stepFaults \in Nat
      /\ table \in TableType /\ window \in Region /\ Disjoint(table)
      /\ Free(window[1], window[2]) /\ DiskSize \in Nat /\ BiosBoot \in Nat
  BY <1>0, InstallJournalAssumption DEF FailureExit, Guarded, JournalInv, JournalTypeOK, LayoutInv
<1>1. CASE UNCHANGED <<table, window>> /\ ((pc' = "create_target" /\ UNCHANGED stepFaults) \/ Refuse)
  <2>1. pc' \in {"create_target", "restore"} /\ stepFaults' \in Nat BY <1>1, <1>a, RefuseGoes
  <2>2. Disjoint(table)' /\ Free(window[1], window[2])' BY <1>1, <1>a DEF Disjoint, Free
  <2> QED BY <1>0, <1>1, <1>a, <2>1, <2>2, CreationStep
<1>2. CASE ~(window[2] - window[1] <= BiosBoot)
           /\ table' = [table EXCEPT !.bios = TRUE,
                          !.created = @ \cup {<<window[1], window[1] + BiosBoot>>}]
           /\ window' = <<window[1] + BiosBoot, window[2]>>
           /\ Then("create_target")
  <2>1. pc' \in {"create_target", "restore"} /\ stepFaults' \in Nat BY <1>2, <1>a, ThenGoes
  <2>2. PICK a \in 0 .. DiskSize, c \in 0 .. DiskSize : a = window[1] /\ c = window[2]
    BY <1>a DEF Region
  <2>b. a + BiosBoot \in 0 .. DiskSize /\ a <= a + BiosBoot /\ a + BiosBoot <= c
    BY <2>2, <1>2, <1>a
  <2>3. PICK b \in 0 .. DiskSize : b = a + BiosBoot /\ a <= b /\ b <= c BY <2>b
  <2>4. Free(a, c) /\ table' = [table EXCEPT !.bios = TRUE, !.created = @ \cup {<<a, b>>}]
        /\ window' = <<b, c>>
    BY <1>2, <1>a, <2>2, <2>3
  <2>5. <<a, b>> \in Region BY <2>2, <2>3 DEF Region
  <2>6. /\ table' \in TableType /\ table'.ntfs = table.ntfs
        /\ table'.created = table.created \cup {<<a, b>>}
    BY <2>4, <2>5, <1>a DEF TableType
  <2>7. Disjoint(table)' /\ Free(b, c)' BY <1>a, <2>2, <2>3, <2>4, <2>6, RegionTaken
  <2>8. window' \in Region /\ window'[1] = b /\ window'[2] = c BY <2>2, <2>3, <2>4 DEF Region
  <2>9. Free(window[1], window[2])' BY <2>7, <2>8 DEF Free
  <2> QED BY <1>0, <2>1, <2>6, <2>7, <2>8, <2>9, CreationStep
<1> QED BY <1>1, <1>2 DEF Create

\* The target partition in the rest.
LEMMA CreateTargetStep ==
    ASSUME JournalInv, CreateTarget
    PROVE  JournalInv'
<1>0. /\ UNCHANGED <<mode, espMounted, blind, attempts, powerLosses, corruptions, request, espFile,
                     stageFile, hidden, handle, ntfsFs, backup, window, fstab, restoreFailed>>
      /\ pc = "create_target"
  BY DEF CreateTarget, setting, journal
<1>a. /\ FailureExit(pc) = "restore" /\ stepFaults \in Nat
      /\ table \in TableType /\ window \in Region /\ Disjoint(table)
      /\ Free(window[1], window[2]) /\ DiskSize \in Nat /\ MinKyth \in Nat
  BY <1>0, InstallJournalAssumption DEF FailureExit, Guarded, JournalInv, JournalTypeOK, LayoutInv
<1>1. CASE Refuse /\ UNCHANGED <<table, wrote>>
  <2>1. pc' = "restore" /\ stepFaults' \in Nat BY <1>1, <1>a, RefuseGoes
  <2>2. Disjoint(table)' BY <1>1, <1>a DEF Disjoint
  <2> QED BY <1>0, <1>1, <1>a, <2>1, <2>2, CreationStep
<1>2. CASE ~(window[2] - window[1] < MinKyth)
           /\ table' = [table EXCEPT !.created = @ \cup {window}]
           /\ Then("table_done")
           /\ wrote' = IF pc' = "table_done" THEN wrote \cup {"partition_table"} ELSE wrote
  <2>1. pc' \in {"table_done", "restore"} /\ stepFaults' \in Nat BY <1>2, <1>a, ThenGoes
  <2> DEFINE a == window[1]
             c == window[2]
  <2>2. a \in 0 .. DiskSize /\ c \in 0 .. DiskSize /\ window = <<a, c>> BY <1>a DEF Region
  <2>3. a <= c BY <2>2, <1>2, <1>a
  <2>4. Free(a, c) BY <1>a
  <2> HIDE DEF a, c
  <2>5. c <= c BY <2>2
  <2>6. /\ table' \in TableType /\ table'.ntfs = table.ntfs
        /\ table'.created = table.created \cup {window}
    BY <1>2, <1>a DEF TableType
  <2>7. Disjoint(table)' BY <1>a, <2>2, <2>3, <2>4, <2>5, <2>6, RegionTaken
  <2> QED BY <1>0, <1>2, <1>a, <2>1, <2>6, <2>7, CreationStep
<1> QED BY <1>1, <1>2 DEF CreateTarget

\* The backup is written back, or that fails and is remembered.
LEMMA RestoreStep ==
    ASSUME JournalInv, Restore
    PROVE  JournalInv'
<1> USE DEF JournalInv
<1>0. /\ UNCHANGED <<mode, espMounted, blind, attempts, powerLosses, corruptions, request, espFile,
                     stageFile, hidden, handle, ntfsFs, backup, window, fstab, wrote>>
      /\ pc = "restore" /\ pc' = "cleanup"
  BY DEF Restore, setting, journal
<1>a. /\ stepFaults \in Nat /\ restoreFailed \in BOOLEAN /\ table \in TableType
      /\ backup \in TableType /\ Disjoint(table) /\ Disjoint(backup) /\ WindowsFits
      /\ table.ntfs <= backup.ntfs
  BY <1>0 DEF JournalTypeOK, LayoutInv, Outside
<1>1. /\ stepFaults' \in Nat /\ restoreFailed' \in BOOLEAN
      /\ \/ table' = backup /\ restoreFailed' = restoreFailed
         \/ table' = table /\ restoreFailed'
  <2>1. CASE table' = backup /\ UNCHANGED <<restoreFailed, stepFaults>> BY <1>a, <2>1
  <2>2. CASE stepFaults' = stepFaults + 1 /\ restoreFailed' = TRUE /\ UNCHANGED table
    <3>1. stepFaults' \in Nat BY <1>a, <2>2
    <3> QED BY <2>2, <3>1
  <2> QED BY <2>1, <2>2 DEF Restore, RestoreTable
<1>2. JournalTypeOK'
  <2>1. table' \in TableType BY <1>1, <1>a
  <2>2. pc' \in Steps \cup {"idle", "restore", "restore_fstab", "cleanup", "installed"} BY <1>0
  <2> QED BY <1>0, <1>1, <2>1, <2>2 DEF JournalTypeOK
<1>3. Outside(pc') BY <1>0 DEF Outside, Guarded
<1>4. LayoutInv'
  <2>1. WindowsFits'
    <3>1. ntfsFs \in Nat /\ table.ntfs \in Nat /\ backup.ntfs \in Nat
      BY InstallJournalAssumption DEF JournalTypeOK, TableType
    <3>2. ntfsFs <= table.ntfs /\ ntfsFs <= backup.ntfs BY <1>a, <3>1 DEF WindowsFits
    <3> QED BY <1>0, <1>1, <3>2 DEF WindowsFits
  <2>2. Disjoint(table)' /\ Disjoint(backup)' BY <1>0, <1>1, <1>a DEF Disjoint
  <2> QED BY <1>0, <1>3, <2>1, <2>2 DEF LayoutInv
<1>5. DurableInv'
  <2>1. EspReady' BY <1>0 DEF EspReady
  <2>2. WipeApart' BY <1>0 DEF DurableInv, WipeApart, Guarded
  <2>3. ShrinkIsDurable' BY <1>0 DEF DurableInv, ShrinkIsDurable
  <2>4. FilesSound' BY <1>0 DEF DurableInv, FilesSound, IsJournal
  <2> QED BY <2>1, <2>2, <2>3, <2>4 DEF DurableInv
<1>6. ShrinkInv'
  <2>1. ASSUME Undisturbed' PROVE Accounted(table.ntfs)'
    <3>1. Undisturbed /\ table' = backup BY <2>1, <1>0, <1>1 DEF Undisturbed
    <3>2. Accounted(backup.ntfs) BY <3>1, <1>0 DEF ShrinkInv, Outside
    <3> QED BY <1>0, <3>1, <3>2 DEF Accounted
  <2>2. pc' \notin Steps BY <1>0 DEF Steps, Guarded
  <2>3. Sees' BY <1>0 DEF Sees
  <2> QED BY <1>0, <1>3, <2>1, <2>2, <2>3 DEF ShrinkInv
<1>7. UndoneInv'
  <2>1. ~restoreFailed' => table' = backup' BY <1>0, <1>1
  <2>2. ~restoreFailed' => ~restoreFailed BY <1>1
  <2> QED BY <1>0, <2>1, <2>2 DEF UndoneInv
<1> QED BY <1>2, <1>4, <1>5, <1>6, <1>7

-----------------------------------------------------------------------------
(* The invariant holds.                                                    *)

LEMMA InitJournalInv == JournalInit => JournalInv
<1> SUFFICES ASSUME JournalInit PROVE JournalInv OBVIOUS
<1>0. /\ mode \in AllModes /\ espMounted \in BOOLEAN
      /\ DiskSize \in Nat /\ FreeTail \in Nat /\ FreeTail < DiskSize
  BY InstallJournalAssumption DEF JournalInit
<1>1. PICK bios \in BOOLEAN :
        table = [ntfs |-> IF mode = "free_space" THEN DiskSize - FreeTail ELSE DiskSize,
                 bios |-> bios, created |-> {}]
  BY DEF JournalInit
<1>2. /\ pc = "idle" /\ espFile = Missing /\ stageFile = Missing /\ hidden = FALSE
      /\ handle = "none" /\ request = [delta |-> 0, preShrink |-> 0] /\ ntfsFs = table.ntfs
      /\ backup = table /\ window = <<0, 0>> /\ fstab = "clean" /\ wrote = {}
      /\ attempts = 0 /\ stepFaults = 0 /\ powerLosses = 0 /\ corruptions = 0
      /\ restoreFailed = FALSE /\ blind = FALSE
  BY DEF JournalInit, NoWindow
<1>3. table \in TableType /\ table.created = {} /\ table.ntfs \in 0 .. DiskSize
  <2>1. (IF mode = "free_space" THEN DiskSize - FreeTail ELSE DiskSize) \in 0 .. DiskSize
    BY <1>0
  <2> QED BY <1>1, <2>1 DEF TableType
<1>4. /\ pc \notin Steps /\ pc \notin Guarded /\ Outside(pc) BY <1>2 DEF Steps, Guarded, Outside
<1>5. JournalTypeOK
  <2>1. Missing \in FileType BY DEF Missing, FileType
  <2>2. window \in Region BY <1>0, <1>2 DEF Region
  <2>3. request \in [delta : Nat, preShrink : Nat] BY <1>2
  <2> QED BY <1>0, <1>2, <1>3, <2>1, <2>2, <2>3 DEF JournalTypeOK
<1>6. LayoutInv
  <2>1. WindowsFits BY <1>2, <1>3, <1>0 DEF WindowsFits
  <2>2. Disjoint(table) /\ Disjoint(backup) BY <1>2, <1>3 DEF Disjoint
  <2> QED BY <2>1, <2>2, <1>2, <1>4 DEF LayoutInv
<1>7. DurableInv
  <2>1. FilesSound BY <1>2 DEF FilesSound, Missing
  <2>2. EspReady BY <1>2 DEF EspReady
  <2>3. WipeApart BY <1>2, <1>4 DEF WipeApart
  <2>4. ShrinkIsDurable BY <1>2 DEF ShrinkIsDurable
  <2> QED BY <2>1, <2>2, <2>3, <2>4 DEF DurableInv
<1>8. ShrinkInv
  <2>1. Undisturbed => table.ntfs = DiskSize BY <1>1 DEF Undisturbed
  <2>2. Sees BY <1>2 DEF Sees
  <2> QED BY <1>2, <1>4, <2>1, <2>2 DEF ShrinkInv, Accounted
<1>9. UndoneInv BY <1>2 DEF UndoneInv
<1> QED BY <1>5, <1>6, <1>7, <1>8, <1>9 DEF JournalInv

LEMMA StutterJournalInv ==
    ASSUME JournalInv, UNCHANGED journalVars
    PROVE  JournalInv'
<1> USE DEF JournalInv, journalVars
<1>1. JournalTypeOK' BY DEF JournalTypeOK
<1>2. LayoutInv' BY DEF LayoutInv, WindowsFits, Disjoint, Free, Outside
<1>3. DurableInv'
  <2>1. FilesSound' BY DEF DurableInv, FilesSound, IsJournal
  <2>2. EspReady' BY DEF DurableInv, EspReady, ActiveFile, completed, started
  <2>3. WipeApart' BY DEF DurableInv, WipeApart
  <2>4. ShrinkIsDurable' BY DEF DurableInv, ShrinkIsDurable
  <2> QED BY <2>1, <2>2, <2>3, <2>4 DEF DurableInv
<1>4. ShrinkInv' BY DEF ShrinkInv, Undisturbed, Accounted, Sees
<1>5. UndoneInv' BY DEF UndoneInv
<1> QED BY <1>1, <1>2, <1>3, <1>4, <1>5

LEMMA NextJournalInv == JournalInv /\ [JournalNext]_journalVars => JournalInv'
<1> SUFFICES ASSUME JournalInv, [JournalNext]_journalVars PROVE JournalInv' OBVIOUS
<1>1. ASSUME NEW delta \in Deltas, NEW probed \in BOOLEAN, Open(delta, probed) PROVE JournalInv'
  BY <1>1, OpenStep
<1>2. ASSUME ExecutorStep PROVE JournalInv'
  <2>1. CASE TableStart BY <2>1, TableStartStep
  <2>2. CASE Resume BY <2>2, ResumeStep
  <2>3. CASE MoveBeforeShrink \/ MoveJournal \/ MoveWipeJournal BY <2>3, MoveStep
  <2>4. CASE ShrinkStart \/ ShrinkDone BY <2>4, ShrinkRecordStep
  <2>5. CASE FsResize BY <2>5, FsResizeStep
  <2>6. CASE Boundary BY <2>6, BoundaryStep
  <2>7. CASE Create BY <2>7, CreateStep
  <2>8. CASE CreateTarget BY <2>8, CreateTargetStep
  <2>9. CASE Restore BY <2>9, RestoreStep
  <2>10. CASE TableDone \/ Format \/ FormatDone \/ ImageStart \/ ConfigureStart \/ ConfigureDone
              \/ ImageDone
    BY <2>10, PlainRecordStep
  <2>11. CASE Mkfs \/ Configure \/ RestoreFstab BY <2>11, TargetStep
  <2>12. CASE Mount \/ MountWipeRoot \/ SecureBoot \/ Complete \/ Cleanup BY <2>12, IdleStep
  <2>13. CASE Bootc BY <2>13, BootcStep
  <2> QED
    BY <1>2, <2>1, <2>2, <2>3, <2>4, <2>5, <2>6, <2>7, <2>8, <2>9, <2>10, <2>11, <2>12, <2>13
    DEF ExecutorStep
<1>3. CASE StepFails BY <1>3, IdleStep
<1>4. CASE JournalPowerLoss \/ CorruptEsp BY <1>4, DisasterStep
<1>5. CASE UNCHANGED journalVars BY <1>5, StutterJournalInv
<1> QED BY <1>1, <1>2, <1>3, <1>4, <1>5 DEF JournalNext

LEMMA JournalInvHolds == JournalSpec => []JournalInv
BY InitJournalInv, NextJournalInv, PTL DEF JournalSpec

-----------------------------------------------------------------------------
(* What it gives.                                                          *)

\* The executor and its journal stay in their types, the journal files among
\* them: record and merge_journal_states return sequences of records.
THEOREM JournalTypeCorrect == JournalSpec => []JournalTypeOK
<1>1. JournalInv => JournalTypeOK BY DEF JournalInv
<1> QED BY <1>1, JournalInvHolds, PTL

\* Windows fits its partition and the created partitions overlap nothing, for
\* any disk, any sequence of sizes asked for and any failures of steps and of
\* restores (resize_ntfs_target, guarded_table_mutation).
THEOREM LayoutStaysSound == JournalSpec => []LayoutSound
<1>1. JournalInv => LayoutSound
  BY DEF JournalInv, LayoutInv, Disjoint, LayoutSound, PartitionsDisjoint
<1> QED BY <1>1, JournalInvHolds, PTL

\* The records of the shrink, of the image and of the configuration are on the
\* ESP when the step they belong to runs (ensure_esp_journal).
THEOREM JournalStaysDurable == JournalSpec => []JournalIsDurable
<1>1. JournalInv => JournalIsDurable
  <2> SUFFICES ASSUME JournalInv PROVE JournalIsDurable OBVIOUS
  <2>1. ShrinkIsDurable BY DEF JournalInv, DurableInv
  <2>2. ImageIsDurable BY DEF JournalInv, DurableInv, EspReady, ImageIsDurable
  <2> QED BY <2>1, <2>2 DEF JournalIsDurable
<1> QED BY <1>1, JournalInvHolds, PTL

\* Unless an attempt is blind to a completion on the ESP, any number of
\* retries with any sizes, each with its journal on the ESP or below the
\* staging mount, takes from Windows what one request asked for
\* (ntfs_shrink_resume_window, open_durable_journal).
THEOREM SightedShrinksOnce == JournalSpec => []SightedShrinkOnce
<1>1. JournalInv => SightedShrinkOnce
  <2> SUFFICES ASSUME JournalInv, Undisturbed PROVE DiskSize - table.ntfs \in {0} \cup Deltas
    BY DEF SightedShrinkOnce, Undisturbed
  <2>1. table.ntfs = DiskSize \/ DiskSize - table.ntfs \in Deltas
    BY DEF JournalInv, ShrinkInv, Accounted
  <2>2. DiskSize \in Nat BY InstallJournalAssumption
  <2> QED BY <2>1, <2>2
<1> QED BY <1>1, JournalInvHolds, PTL

\* A failed run leaves the table and the fstab it found, whichever step failed
\* (guarded_table_mutation, restore_fstab).
THEOREM FailuresUndone == JournalSpec => []FailureUndone
<1>1. JournalInv => FailureUndone
  BY DEF JournalInv, UndoneInv, FailureUndone, Outside, Guarded
<1> QED BY <1>1, JournalInvHolds, PTL

\* No step takes a completion from a journal on the ESP that is still there
\* (relocate, merge_journal_states, record).
THEOREM CompletionsAreKept == JournalSpec => CompletionsKept
<1> DEFINE Kept == \A op \in JournalOps :
             (completed(espFile.ops, op) /\ espFile'.state = "ok") => completed(espFile'.ops, op)
<1>1. JournalInv /\ [JournalNext]_journalVars => [Kept]_journalVars
  <2> SUFFICES ASSUME JournalInv, JournalNext PROVE Kept OBVIOUS
  <2>0. JournalTypeOK /\ FilesSound BY DEF JournalInv, DurableInv
  <2>1. CASE UNCHANGED espFile BY <2>1
  <2>2. ASSUME NEW delta \in Deltas, NEW probed \in BOOLEAN, Open(delta, probed) PROVE Kept
    <3>1. espFile = Missing => \A op : ~completed(espFile.ops, op) BY DEF Missing, completed
    <3> QED BY <2>2, <2>1, <3>1 DEF Open
  <2>3. ASSUME NEW op \in JournalOps, NEW state \in {"Started", "Completed"}, NEW next,
               RecordJournal(op, state, next)
        PROVE  Kept
    BY <2>0, <2>3, RecordJournalEffect DEF FilesKept
  <2>4. ASSUME NEW next, EnsureEspJournal(next) PROVE Kept
    BY <2>0, <2>4, EnsureEffect DEF FilesKept
  <2>5. CASE Bootc
    <3>1. espFile' \in {espFile, Missing} BY <2>5 DEF Bootc
    <3> QED BY <2>1, <3>1 DEF Missing
  <2>6. CASE CorruptEsp BY <2>6 DEF CorruptEsp, Corrupt
  <2>7. CASE TableStart \/ ShrinkStart \/ ShrinkDone \/ TableDone \/ Format \/ FormatDone
             \/ ImageStart \/ ImageDone \/ ConfigureStart \/ ConfigureDone
    <3> HIDE DEF Kept
    <3>1. \/ UNCHANGED espFile
          \/ \E op \in JournalOps, state \in {"Started", "Completed"}, next \in Places :
               RecordJournal(op, state, next)
      <4> USE DEF Places, Steps, Guarded, JournalOps, journal
      <4>1. CASE TableStart BY <4>1 DEF TableStart
      <4>2. CASE ShrinkStart BY <4>2 DEF ShrinkStart
      <4>3. CASE ShrinkDone BY <4>3 DEF ShrinkDone
      <4>4. CASE TableDone BY <4>4 DEF TableDone
      <4>5. CASE Format BY <4>5 DEF Format
      <4>6. CASE FormatDone BY <4>6 DEF FormatDone
      <4>7. CASE ImageStart BY <4>7 DEF ImageStart
      <4>8. CASE ImageDone BY <4>8 DEF ImageDone
      <4>9. CASE ConfigureStart BY <4>9 DEF ConfigureStart
      <4>10. CASE ConfigureDone BY <4>10 DEF ConfigureDone
      <4> QED BY <2>7, <4>1, <4>2, <4>3, <4>4, <4>5, <4>6, <4>7, <4>8, <4>9, <4>10
    <3> QED BY <2>1, <2>3, <3>1
  <2>8. CASE MoveBeforeShrink \/ MoveJournal \/ MoveWipeJournal
    <3> HIDE DEF Kept
    <3> QED BY <2>4, <2>8 DEF MoveBeforeShrink, MoveJournal, MoveWipeJournal
  <2>9. CASE Resume \/ FsResize \/ Boundary \/ Create \/ CreateTarget \/ Restore
             \/ Mkfs \/ Mount \/ MountWipeRoot \/ Configure \/ RestoreFstab \/ SecureBoot
             \/ Complete \/ Cleanup \/ StepFails \/ JournalPowerLoss
    <3>1. UNCHANGED espFile
      BY <2>9 DEF Resume, FsResize, Boundary, Create, CreateTarget, Restore, Mkfs, Mount,
        MountWipeRoot, Configure, RestoreFstab, SecureBoot, Complete, Cleanup, StepFails,
        JournalPowerLoss, Unmounted, journal
    <3> QED BY <2>1, <3>1
  <2> HIDE DEF Kept
  <2> QED BY <2>2, <2>5, <2>6, <2>7, <2>8, <2>9 DEF JournalNext, ExecutorStep
<1>2. JournalSpec => [][Kept]_journalVars BY <1>1, JournalInvHolds, PTL DEF JournalSpec
<1> QED BY <1>2 DEF CompletionsKept
=============================================================================

-------------------------- MODULE PartitionEditor --------------------------
(***************************************************************************)
(* The manual partition editor: NativeJournalRegistry::dispatch of          *)
(* installer_daemon.rs over installer_journal.rs.                          *)
(*                                                                         *)
(* Clients stage operations in the one journal the daemon holds; commit    *)
(* validates the whole journal against the live disk, backs the partition  *)
(* table up, executes the operations one by one, and writes the table back *)
(* when one fails before anything irreversible has happened.  Offsets are  *)
(* small numbers; partitions are numbered, a new one takes the lowest free *)
(* number.  What the disk tools do (parted, mkfs, ntfsresize, lsblk) is    *)
(* modelled from how the code uses them.                                   *)
(***************************************************************************)
EXTENDS Integers, Sequences, SequencesExt

CONSTANTS
    EditorDisk,     \* partitions at start: set of [part, from, to, fs]
    EditorEnd,      \* disk_size_bytes
    EditorInUse,    \* partitions that are mounted
    StagedCreates,  \* create requests: set of [from, size, fs, mp]
    StagedEdits,    \* other requests: set of [kind, part, size, fs, mp]
    PrimaryLimit,   \* primary partitions of an msdos table
    MaxPending, MaxRequests, MaxCommits, MaxToolFaults

\* automatic BIOS boot partition: where it starts, what validate reserves for
\* it and what execute_operation creates (BIOS_BOOT_BYTES).
BiosStart == 1
BiosReserved == 1
BiosCreated == 2

EditKinds == {"delete", "format", "resize", "set_mountpoint"}

\* lsblk lists finitely many partitions, each number once, without overlap; the
\* requests are typed by the routes; a disk has room for a BIOS boot partition.
ASSUME PartitionEditorAssumption ==
    /\ EditorEnd \in Nat /\ BiosStart + BiosCreated <= EditorEnd
    /\ IsFiniteSet(EditorDisk)
    /\ \A p \in EditorDisk :
          /\ p \in [part : Nat \ {0}, from : Nat, to : Nat, fs : STRING]
          /\ p.from < p.to /\ p.to <= EditorEnd
    /\ \A p, q \in EditorDisk :
          p = q \/ (p.part # q.part /\ (p.to <= q.from \/ q.to <= p.from))
    /\ \A c \in StagedCreates : c \in [from : Nat, size : Nat, fs : STRING, mp : STRING]
    /\ \A e \in StagedEdits :
          e \in [kind : EditKinds, part : Nat, size : Nat, fs : STRING, mp : STRING]
    /\ {PrimaryLimit, MaxPending, MaxRequests, MaxCommits, MaxToolFaults} \subseteq Nat

VARIABLES
    edOps,        \* operations of the active journal; the first is new_table
    edActive,     \* there is an active journal
    edCommitted,  \* journal.committed
    edRoot,       \* journal.root_partition, 0 for None
    edDisk,       \* partitions on the disk
    edTableType,  \* "gpt" or "msdos"
    edBackup,     \* partition-table.backup of the commit: [table, parts]
    edIntact,     \* partitions of the backup whose data is untouched
    edRun,        \* operations of the commit under way, as executed so far
    edPos,        \* next operation of the commit, 0 when there is none
    edIrreversible, \* the commit's irreversible flag
    edReply,      \* reply of the last commit and why it failed
    edRequests, edCommits, edFaults

editorVars == <<edOps, edActive, edCommitted, edRoot, edDisk, edTableType, edBackup, edIntact,
                edRun, edPos, edIrreversible, edReply, edRequests, edCommits, edFaults>>
staged == <<edOps, edActive, edCommitted, edRoot, edRequests>>
commit == <<edDisk, edTableType, edBackup, edIntact, edRun, edPos, edIrreversible, edReply,
            edCommits, edFaults>>

-----------------------------------------------------------------------------
(* Staging.                                                                *)

NoOp == [kind |-> "", index |-> 0, part |-> 0, from |-> 0, size |-> 0, fs |-> "", mp |-> "",
         created |-> FALSE]

Indices(ops) == {ops[i].index : i \in DOMAIN ops}

\* add_op: one more than the largest identity in the list.
add_op(ops, op) ==
    Append(ops, [op EXCEPT !.index = IF ops = <<>> THEN 0 ELSE Max(Indices(ops)) + 1])

remove_op(ops, index) == RemoveAt(ops, SelectInSeq(ops, LAMBDA op : op.index = index))

\* The registry lock is held for a whole commit; nothing is staged after the
\* last commit the bound allows.
Idle == edPos = 0 /\ edCommits < MaxCommits

Request ==
    /\ Idle /\ edRequests < MaxRequests
    /\ edRequests' = edRequests + 1

\* /api/disk/new-table starts a new journal, whatever the old one held.
NewTable(type) ==
    /\ Request
    /\ edOps' = add_op(<<>>, [NoOp EXCEPT !.kind = "new_table", !.fs = type])
    /\ edActive' = TRUE /\ edCommitted' = FALSE /\ edRoot' = 0
    /\ UNCHANGED commit

Stage(op) ==
    /\ Request /\ edActive /\ Len(edOps) < MaxPending
    /\ edOps' = add_op(edOps, op)
    /\ UNCHANGED <<edActive, edCommitted, edRoot, commit>>

StageCreate(c) ==
    Stage([NoOp EXCEPT !.kind = "create", !.from = c.from, !.size = c.size, !.fs = c.fs, !.mp = c.mp])

\* The partition must be on the disk (validate_target_request).
StageEdit(e) ==
    /\ \E p \in edDisk : p.part = e.part
    /\ Stage([NoOp EXCEPT !.kind = e.kind, !.part = e.part, !.size = e.size, !.fs = e.fs, !.mp = e.mp])

\* A committed journal cannot be edited this way.
RemovePending(index) ==
    /\ Request /\ edActive /\ ~edCommitted
    /\ index \in Indices(edOps)
    /\ edOps' = remove_op(edOps, index)
    /\ UNCHANGED <<edActive, edCommitted, edRoot, commit>>

\* rollback_metadata: only the staged operations.
RollbackMetadata ==
    /\ Request /\ edActive /\ ~edCommitted
    /\ edOps' = <<>> /\ edRoot' = 0
    /\ UNCHANGED <<edActive, edCommitted, commit>>

-----------------------------------------------------------------------------
(* validate: the journal run over an allocation map.                       *)

Overlaps(from, to, p) == p.from < p.to /\ from < p.to /\ p.from < to

\* Keys of the allocation map that are not partition numbers ("bios", "new:i").
BiosKey == 0
NewKey(index) == -(index + 1)

\* validated_mountpoint and the file system rules for / and /boot/efi.
MountAllowed(mp, fs) ==
    CASE mp = "" -> TRUE
      [] mp = "/" -> fs = "btrfs"
      [] mp = "/boot/efi" -> fs = "fat32"
      [] mp = "swap" -> fs = "linux-swap"
      [] OTHER -> fs \in {"btrfs", "ext4", "xfs"}

\* Mutant: the first assignment of a partition counts.
FirstMountpoint(ops, op) ==
    \A i \in DOMAIN ops : (ops[i].kind = "set_mountpoint" /\ ops[i].part = op.part)
                              => ops[i].index >= op.index

\* Only the last assignment of a partition counts (last_mountpoint_indices).
LastMountpoint(ops, op) ==
    \A i \in DOMAIN ops : (ops[i].kind = "set_mountpoint" /\ ops[i].part = op.part)
                              => ops[i].index <= op.index

ValidateNewTable(acc, op) ==
    [acc EXCEPT !.alloc = IF op.fs = "gpt"
                          THEN {[part |-> BiosKey, from |-> BiosStart,
                                 to |-> BiosStart + BiosReserved, fs |-> "bios_grub"]}
                          ELSE {},
                !.mounts = {}, !.table = op.fs, !.primaries = 0]

\* Mutant: the regions in use are not consulted.
CreateFitsAnywhere(acc, from, to) == to <= EditorEnd

CreateFits(acc, from, to) ==
    /\ to <= EditorEnd
    /\ \A p \in acc.alloc : ~Overlaps(from, to, p)

ValidateCreate(acc, op) ==
    LET to == op.from + op.size
        fine == /\ op.from > 0 /\ op.size > 0
                /\ CreateFits(acc, op.from, to)
                /\ acc.table = "msdos" => acc.primaries < PrimaryLimit
                /\ MountAllowed(op.mp, op.fs)
                /\ op.mp # "" => \A m \in acc.mounts : m[2] # op.mp
        key == NewKey(op.index)
    IN  [acc EXCEPT !.valid = @ /\ fine,
                    !.alloc = @ \cup {[part |-> key, from |-> op.from, to |-> to, fs |-> op.fs]},
                    !.primaries = IF acc.table = "msdos" THEN @ + 1 ELSE @,
                    !.mounts = IF op.mp # "" /\ MountAllowed(op.mp, op.fs)
                               THEN @ \cup {<<key, op.mp>>} ELSE @]

\* Mutant: any new size is accepted.
GrowOrShrink(p, size) == size > 0

\* A resize shrinks, so it cannot reach another region or the end of the disk.
ShrinkOnly(p, size) == size > 0 /\ size <= p.to - p.from

\* delete, format, resize and set_mountpoint of a partition that is there.  The
\* attestations of a shrink (backup, AC power, clean NTFS) hold.
ValidateEdit(acc, op) ==
    LET p == CHOOSE q \in acc.alloc : q.part = op.part
        others == acc.alloc \ {p}
        unmounted == {m \in acc.mounts : m[1] # op.part}
    IN  CASE op.kind = "delete" ->
               [acc EXCEPT !.alloc = others, !.mounts = unmounted,
                           !.primaries = IF acc.table = "msdos" /\ @ > 0 THEN @ - 1 ELSE @]
          [] op.kind = "format" ->
               [acc EXCEPT !.alloc = others \cup {[p EXCEPT !.fs = op.fs]}]
          [] op.kind = "resize" ->
               IF ShrinkOnly(p, op.size)
               THEN [acc EXCEPT !.alloc = others \cup {[p EXCEPT !.to = p.from + op.size]}]
               ELSE [acc EXCEPT !.valid = FALSE]
          [] op.kind = "set_mountpoint" ->
               IF MountAllowed(op.mp, p.fs) /\ (op.mp # "" => \A m \in unmounted : m[2] # op.mp)
               THEN [acc EXCEPT !.mounts = IF op.mp = "" THEN unmounted
                                           ELSE unmounted \cup {<<op.part, op.mp>>}]
               ELSE [acc EXCEPT !.valid = FALSE]

ValidateOp(ops, acc, op) ==
    CASE op.kind = "set_mountpoint" /\ ~LastMountpoint(ops, op) -> acc
      [] op.kind = "new_table" -> ValidateNewTable(acc, op)
      [] op.kind = "create" -> ValidateCreate(acc, op)
      [] OTHER -> IF \E p \in acc.alloc : p.part = op.part THEN ValidateEdit(acc, op)
                  ELSE [acc EXCEPT !.valid = FALSE]

\* Nothing that destroys a mounted partition, and it is not made the root.
SparesInUse(ops) ==
    \A i \in DOMAIN ops : ops[i].part \in EditorInUse =>
        /\ ops[i].kind \notin {"delete", "format", "resize"}
        /\ ~(ops[i].kind = "set_mountpoint" /\ ops[i].mp = "/" /\ LastMountpoint(ops, ops[i]))

\* The allocation map before the first operation, and after each of them.
Unallocated(disk, table) ==
    [valid |-> TRUE, alloc |-> disk, mounts |-> {}, table |-> table,
     primaries |-> IF table = "msdos" THEN Cardinality(disk) ELSE 0]

Validated(disk, table, ops) ==
    LET acc[n \in 0..Len(ops)] ==
            IF n = 0 THEN Unallocated(disk, table) ELSE ValidateOp(ops, acc[n - 1], ops[n])
    IN  acc

validate(ops) ==
    LET acc == Validated(edDisk, edTableType, ops)[Len(ops)]
    IN  /\ ops # <<>> /\ acc.valid
        /\ Cardinality({m \in acc.mounts : m[2] = "/"}) = 1
        /\ SparesInUse(ops)

-----------------------------------------------------------------------------
(* commit_request.                                                         *)

Reply(status, cause) == [status |-> status, cause |-> cause]

\* Neither the registry nor commit_request asks whether the journal was
\* committed before.
Commit ==
    /\ Idle /\ edActive
    /\ edCommits' = edCommits + 1
    /\ IF validate(edOps)
       THEN /\ edBackup' = [table |-> edTableType, parts |-> edDisk]
            /\ edIntact' = edDisk
            /\ edRun' = edOps /\ edPos' = 1 /\ edIrreversible' = FALSE
            /\ edReply' = Reply("none", "")
       ELSE /\ edReply' = Reply("errors", "")
            /\ UNCHANGED <<edBackup, edIntact, edRun, edPos, edIrreversible>>
    /\ UNCHANGED <<staged, edDisk, edTableType, edFaults>>

CurrentOp == edRun[edPos]
Running(kind) == edPos \in DOMAIN edRun /\ CurrentOp.kind = kind
Found(n) == CHOOSE p \in edDisk : p.part = n
OnDisk(n) == \E p \in edDisk : p.part = n

\* Writing a file system over a region ends the data of what was there.
Spared(from, to) == {p \in edIntact : ~Overlaps(from, to, p)}

OpDone(op) ==
    /\ edRun' = [edRun EXCEPT ![edPos] = op]
    /\ edPos' = edPos + 1
    /\ UNCHANGED <<staged, edBackup, edReply, edCommits, edFaults>>

\* What the table says of a partition whose data is gone.
Restored(intact) ==
    {IF p \in intact THEN p ELSE [p EXCEPT !.fs = "lost"] : p \in edBackup.parts}

\* The tool faults a cause stands for.
FaultOf(cause) == IF cause \in {"tool", "shrink"} THEN 1 ELSE 0

\* The error path of the loop, from the disk as the failed operation left it.
Fail(cause, disk, table, intact, irreversible) ==
    /\ edPos' = 0 /\ edIntact' = intact /\ edIrreversible' = irreversible
    /\ \/ /\ irreversible
          /\ edDisk' = disk /\ edTableType' = table
          /\ edReply' = Reply("irreversible", cause)
          /\ edFaults' = edFaults + FaultOf(cause)
       \/ /\ ~irreversible
          /\ edDisk' = Restored(intact) /\ edTableType' = edBackup.table
          /\ edReply' = Reply("failed", cause)
          /\ edFaults' = edFaults + FaultOf(cause)
       \/ /\ ~irreversible /\ edFaults + FaultOf(cause) < MaxToolFaults
          /\ edDisk' = disk /\ edTableType' = table
          /\ edReply' = Reply("recovery", cause)
          /\ edFaults' = edFaults + FaultOf(cause) + 1
    /\ UNCHANGED <<staged, edBackup, edRun, edCommits>>

FailHere(cause) == Fail(cause, edDisk, edTableType, edIntact, edIrreversible)

\* A tool that fails or times out before it changed anything.
ToolFails ==
    /\ edPos \in DOMAIN edRun /\ edFaults < MaxToolFaults
    /\ CurrentOp.kind # "format"
    /\ FailHere("tool")

\* A new label, and on gpt the BIOS boot partition.
ExecuteNewTable ==
    /\ Running("new_table")
    /\ edTableType' = CurrentOp.fs
    /\ edDisk' = IF CurrentOp.fs # "gpt" THEN {}
                 ELSE {[part |-> 1, from |-> BiosStart, to |-> BiosStart + BiosCreated,
                        fs |-> "bios_grub"]}
    /\ OpDone(CurrentOp)
    /\ UNCHANGED <<edIntact, edIrreversible>>

\* The label is written and the BIOS boot partition is not.
NewTableHalfDone ==
    /\ Running("new_table") /\ CurrentOp.fs = "gpt" /\ edFaults < MaxToolFaults
    /\ Fail("tool", {}, "gpt", edIntact, edIrreversible)

Blocked(from, to) == to > EditorEnd \/ \E p \in edDisk : Overlaps(from, to, p)

LowestFree == Min({n \in 1 .. Cardinality(edDisk) + 1 : ~OnDisk(n)})

\* parted mkpart, then mkfs (a swap partition is not formatted), then the flag.
ExecuteCreate ==
    /\ Running("create")
    /\ LET op == CurrentOp
           to == op.from + op.size
           new == [part |-> LowestFree, from |-> op.from, to |-> to, fs |-> op.fs]
           spared == IF op.fs = "linux-swap" THEN edIntact ELSE Spared(op.from, to)
       IN  \/ /\ Blocked(op.from, to)
              /\ FailHere("overlap")
           \/ /\ ~Blocked(op.from, to)
              /\ edTableType = "msdos" /\ Cardinality(edDisk) >= PrimaryLimit
              /\ FailHere("limit")
           \/ /\ ~Blocked(op.from, to)
              /\ edTableType = "msdos" => Cardinality(edDisk) < PrimaryLimit
              /\ \/ /\ edDisk' = edDisk \cup {new}
                    /\ edIntact' = spared
                    /\ OpDone([op EXCEPT !.part = new.part, !.created = TRUE])
                    /\ UNCHANGED <<edTableType, edIrreversible>>
                 \/ /\ edFaults < MaxToolFaults
                    /\ Fail("tool", edDisk \cup {new}, edTableType, spared, edIrreversible)

ExecuteDelete ==
    /\ Running("delete")
    /\ \/ /\ OnDisk(CurrentOp.part)
          /\ edDisk' = edDisk \ {Found(CurrentOp.part)}
          /\ OpDone(CurrentOp)
          /\ UNCHANGED <<edTableType, edIntact, edIrreversible>>
       \/ /\ ~OnDisk(CurrentOp.part)
          /\ FailHere("missing")

Shrinkable == {"ntfs", "ext4"}

\* The file system as cached_runtime_lsblk reports it: the snapshot taken when
\* the commit began, for as long as it is fresh, or the disk itself.
ReportedFs(n) == {p.fs : p \in {q \in edBackup.parts \cup edDisk : q.part = n}}

\* The tools refuse another file system than the one they are told of.  A shrink
\* that fails or times out midway leaves a file system nobody can read.
ExecuteResize ==
    /\ Running("resize")
    /\ LET op == CurrentOp
           p == Found(op.part)
       IN  \/ /\ ~OnDisk(op.part)
              /\ FailHere("missing")
           \/ /\ OnDisk(op.part)
              /\ \E fs \in ReportedFs(op.part) :
                    \/ /\ fs \notin Shrinkable \/ fs # p.fs
                       /\ FailHere("filesystem")
                    \/ /\ fs \in Shrinkable /\ fs = p.fs
                       /\ \/ /\ edDisk' = (edDisk \ {p}) \cup {[p EXCEPT !.to = p.from + op.size]}
                             /\ edIrreversible' = TRUE
                             /\ OpDone(op)
                             /\ UNCHANGED <<edTableType, edIntact>>
                          \/ /\ edFaults < MaxToolFaults  \* the boundary stays behind
                             /\ Fail("tool", edDisk, edTableType, edIntact, TRUE)
                          \/ /\ edFaults < MaxToolFaults  \* stopped while it moves data
                             /\ Fail("shrink", (edDisk \ {p}) \cup {[p EXCEPT !.fs = "lost"]},
                                     edTableType, Spared(p.from, p.to), edIrreversible)

CreatedHere(n) == \E i \in DOMAIN edRun : edRun[i].kind = "create" /\ edRun[i].created /\ edRun[i].part = n

\* Mutant: the format is flagged once mkfs has succeeded.
FormatFailsUnflagged(irreversible) == edIrreversible

\* The flag is raised before mkfs starts.
FormatFails(irreversible) == irreversible

ExecuteFormat ==
    /\ Running("format")
    /\ LET op == CurrentOp
           p == Found(op.part)
           spared == Spared(p.from, p.to)
           irreversible == edIrreversible \/ ~CreatedHere(op.part)
       IN  \/ /\ OnDisk(op.part)
              /\ edDisk' = (edDisk \ {p}) \cup {[p EXCEPT !.fs = op.fs]}
              /\ edIntact' = spared /\ edIrreversible' = irreversible
              /\ OpDone(op)
              /\ UNCHANGED edTableType
           \/ /\ OnDisk(op.part) /\ edFaults < MaxToolFaults
              /\ Fail("tool", (edDisk \ {p}) \cup {[p EXCEPT !.fs = "lost"]}, edTableType, spared,
                      FormatFails(irreversible))
           \/ /\ ~OnDisk(op.part)
              /\ Fail("missing", edDisk, edTableType, edIntact, FormatFails(irreversible))

\* At most the esp flag of the partition.
ExecuteSetMountpoint ==
    /\ Running("set_mountpoint")
    /\ \/ /\ OnDisk(CurrentOp.part)
          /\ OpDone(CurrentOp)
          /\ UNCHANGED <<edDisk, edTableType, edIntact, edIrreversible>>
       \/ /\ ~OnDisk(CurrentOp.part)
          /\ FailHere("missing")

-----------------------------------------------------------------------------
(* What a committed journal says to the installer.                         *)

\* Mount point assignments after one more operation.
Assign(mounts, op) ==
    CASE op.kind = "new_table" -> {}
      [] op.kind \in {"create", "set_mountpoint"} ->
           {m \in mounts : m[1] # op.part} \cup (IF op.mp = "" THEN {} ELSE {<<op.part, op.mp>>})
      [] op.kind = "delete" -> {m \in mounts : m[1] # op.part}
      [] OTHER -> mounts

Assigned(ops) ==
    LET mounts[n \in 0..Len(ops)] == IF n = 0 THEN {} ELSE Assign(mounts[n - 1], ops[n])
    IN  mounts

Assignments(ops) == Assigned(ops)[Len(ops)]

root_partition(ops) ==
    LET roots == {m[1] : m \in {n \in Assignments(ops) : n[2] = "/"}}
    IN  IF Cardinality(roots) = 1 THEN CHOOSE n \in roots : TRUE ELSE 0

\* manual_mounts: the assignments it projects; it refuses the journal when two
\* share a mount point or one is on a partition that has disappeared.
manual_mounts(ops) == {m \in Assignments(ops) : m[2] \notin {"/", "/boot/efi"}}

ManualMountsRefused(ops, disk) ==
    LET created == {ops[i].part : i \in {j \in DOMAIN ops : ops[j].kind = "create"}}
    IN  \/ \E m \in manual_mounts(ops) : m[1] \notin {p.part : p \in disk} \cup created
        \/ \E m, n \in manual_mounts(ops) : m # n /\ m[2] = n[2]

CommitDone ==
    /\ edPos > Len(edRun)
    /\ edOps' = edRun /\ edCommitted' = TRUE /\ edRoot' = root_partition(edRun)
    /\ edPos' = 0 /\ edReply' = Reply("ok", "")
    /\ UNCHANGED <<edActive, edRequests, edDisk, edTableType, edBackup, edIntact, edRun, edIrreversible,
                   edCommits, edFaults>>

\* The daemon dies during a commit: the journal and the backup are gone, the
\* running tool dies with it, the disk stays as it is.
EditorCrash ==
    /\ edPos > 0 /\ edFaults < MaxToolFaults
    /\ edFaults' = edFaults + 1
    /\ edOps' = <<>> /\ edActive' = FALSE /\ edCommitted' = FALSE /\ edRoot' = 0
    /\ edPos' = 0 /\ edReply' = Reply("none", "")
    /\ UNCHANGED <<edDisk, edTableType, edBackup, edIntact, edRun, edIrreversible, edCommits,
                   edRequests>>

\* An event cannot be written: emit_event's error leaves the loop at once,
\* before or after an operation.  Nothing is restored, the daemon keeps the
\* journal as it was staged and answers with the error alone.
EmitFails ==
    /\ edPos > 0 /\ edFaults < MaxToolFaults
    /\ edFaults' = edFaults + 1
    /\ edPos' = 0 /\ edReply' = Reply("aborted", "emit")
    /\ UNCHANGED <<staged, edDisk, edTableType, edBackup, edIntact, edRun, edIrreversible,
                   edCommits>>

EditorInit ==
    /\ edOps = <<>> /\ edActive = FALSE /\ edCommitted = FALSE /\ edRoot = 0
    /\ edDisk = EditorDisk /\ edTableType \in {"gpt", "msdos"}
    /\ edBackup = [table |-> edTableType, parts |-> edDisk] /\ edIntact = edDisk
    /\ edRun = <<>> /\ edPos = 0 /\ edIrreversible = FALSE
    /\ edReply = Reply("none", "") /\ edRequests = 0 /\ edCommits = 0 /\ edFaults = 0

EditorNext ==
    \/ \E type \in {"gpt", "msdos"} : NewTable(type)
    \/ \E c \in StagedCreates : StageCreate(c)
    \/ \E e \in StagedEdits : StageEdit(e)
    \/ \E index \in Indices(edOps) : RemovePending(index)
    \/ RollbackMetadata
    \/ Commit
    \/ ToolFails
    \/ ExecuteNewTable
    \/ NewTableHalfDone
    \/ ExecuteCreate
    \/ ExecuteDelete
    \/ ExecuteResize
    \/ ExecuteFormat
    \/ ExecuteSetMountpoint
    \/ CommitDone
    \/ EmitFails
    \/ EditorCrash

EditorSpec == EditorInit /\ [][EditorNext]_editorVars

-----------------------------------------------------------------------------
(* Properties.                                                             *)

Parts(disk) == {<<p.part, p.from, p.to>> : p \in disk}

\* Type invariant: the partitions on the disk are numbered once, do not
\* overlap and end on the disk; the identity a client removes an operation by
\* names one operation, after any additions and removals (add_op, remove_op).
EditorTypeOK ==
    /\ edActive \in BOOLEAN /\ edCommitted \in BOOLEAN /\ edIrreversible \in BOOLEAN
    /\ edPos \in 0 .. Len(edRun) + 1
    /\ edTableType \in {"gpt", "msdos"}
    /\ edReply.status \in {"none", "errors", "ok", "failed", "irreversible", "recovery",
                           "aborted"}
    /\ edFaults \in 0 .. MaxToolFaults
    /\ \A p \in edDisk : p.part \in Nat \ {0} /\ p.from < p.to /\ p.to <= EditorEnd
    /\ \A p, q \in edDisk : p = q \/ (p.part # q.part /\ ~Overlaps(p.from, p.to, q))
    /\ \A i, j \in DOMAIN edOps : edOps[i].index = edOps[j].index => i = j

\* A commit that reports a failure without `irreversible` has put the table
\* back as it found it, and the only partitions whose data it cost are the ones
\* a create of the journal wrote a new file system over and, when the failure is
\* a shrink that stopped midway, the partition it was shrinking: formats and
\* finished shrinks of what was found are always flagged.
RestoredOrFlagged ==
    edReply.status = "failed" /\ edPos = 0 =>
        /\ Parts(edDisk) = Parts(edBackup.parts) /\ edTableType = edBackup.table
        /\ \A p \in edBackup.parts \ edIntact :
              \E i \in DOMAIN edRun :
                  \/ /\ edRun[i].kind = "create"
                     /\ Overlaps(edRun[i].from, edRun[i].from + edRun[i].size, p)
                  \/ /\ edRun[i].kind = "resize" /\ edRun[i].part = p.part
                     /\ edReply.cause = "shrink"

\* validate and execute_operation agree: a journal that passed validation meets
\* no missing partition, no full msdos table and no region in use, except the
\* part of the BIOS boot partition of a new gpt table that validate does not
\* reserve.
ValidatedRuns ==
    /\ edReply.cause \notin {"missing", "limit"}
    /\ edReply.cause = "overlap" =>
          \E i, j \in DOMAIN edRun :
              /\ edRun[i].kind = "new_table" /\ edRun[i].fs = "gpt"
              /\ edRun[j].kind = "create" /\ i < j
              /\ edRun[j].from < BiosStart + BiosCreated

\* The root a successful commit records is the partition the operations leave
\* mounted at "/", and it is on the disk: validation and root_partition read
\* the same journal the same way.
RootAgrees ==
    edReply.status = "ok" /\ edPos = 0 /\ edCommitted /\ edOps = edRun =>
        edRoot # 0 /\ OnDisk(edRoot)

\* What a successful commit leaves is never refused when the mounts of the
\* installed system are projected from it (manual_mounts): every target is on
\* the disk and no mount point is used twice.
ManualMountsProject ==
    edReply.status = "ok" /\ edPos = 0 /\ edCommitted /\ edOps = edRun =>
        /\ ~ManualMountsRefused(edOps, edDisk)
        /\ \A m \in manual_mounts(edOps) : OnDisk(m[1])

\* The installer can take over what a successful commit left: its root and its
\* mounts, which two other loops over the operations compute, fit the disk.
CommitProjects == RootAgrees /\ ManualMountsProject
=============================================================================

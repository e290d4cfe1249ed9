--------------------------- MODULE InstallJournal ---------------------------
(***************************************************************************)
(* The destructive phases of one installation and the durable journal that *)
(* tells a retry what already happened: installer_job_executor.rs over     *)
(* installer_durable_journal.rs.                                           *)
(*                                                                         *)
(* The journal file lives on the EFI system partition (it survives a       *)
(* reboot) or below the staging mount point (tmpfs).  The executor         *)
(* brackets each destructive step with a Started and a Completed record,   *)
(* keeps a backup of the partition table while it moves boundaries, and    *)
(* takes the journal to the ESP before it shrinks Windows.  A step may     *)
(* fail before or after its effect, the power may go at any point, and the *)
(* user may retry.  Sizes are in units of which only the order matters;    *)
(* the Windows partition starts at 0 and the install mode is the same for  *)
(* all retries.                                                            *)
(***************************************************************************)
EXTENDS Naturals, Sequences, SequencesExt

CONSTANTS
    InstallModes,      \* modes explored, of AllModes
    EspMountedChoices, \* whether the live session has the ESP mounted
    DiskSize,          \* size of the region that Windows and KythOS share
    FreeTail,          \* unallocated space behind Windows in free_space mode
    Deltas,            \* sizes a request may take from Windows
    MinKyth,           \* MIN_KYTHOS_BYTES
    MinWindows,        \* MIN_WINDOWS_BYTES
    BiosBoot,          \* BIOS_BOOT_BYTES
    MaxAttempts, MaxStepFaults, MaxJournalPowerLoss, MaxCorruptions

AllModes == {"wipe", "alongside", "manual", "free_space", "resize_ntfs"}

ASSUME InstallJournalAssumption ==
    /\ InstallModes \subseteq AllModes
    /\ EspMountedChoices \subseteq BOOLEAN
    /\ {DiskSize, FreeTail, MinKyth, MinWindows, BiosBoot} \subseteq Nat
    /\ Deltas \subseteq Nat /\ \A d \in Deltas : d >= MinKyth
    /\ {MaxAttempts, MaxStepFaults, MaxJournalPowerLoss, MaxCorruptions} \subseteq Nat
    /\ FreeTail < DiskSize

VARIABLES
    mode, espMounted,   \* the request and the live session
    espFile, stageFile, \* the two journal files
    hidden,             \* the target root is mounted over the staging file
    handle,             \* the file durable_journal points to
    request,            \* resize_bytes and pre_shrink_bytes of the plan
    table,              \* partition table
    ntfsFs,             \* size of the Windows file system
    backup,             \* partition-table.backup of guarded_table_mutation
    window,             \* region handed to create_target_partition
    fstab,              \* "clean" or "edited"
    wrote,              \* operations that have changed the disk, ever; the table
                        \* and the configuration when they were not undone
    pc,                 \* next step of the executor
    attempts, stepFaults, powerLosses, corruptions, \* bounds
    restoreFailed,      \* some table restore has failed
    blind               \* history: an attempt opened its journal below the staging
                        \* mount while the ESP had the completion of a shrink

disk == <<table, ntfsFs, backup, window, fstab, wrote>>
journal == <<espFile, stageFile, hidden, handle>>
setting == <<mode, espMounted, attempts, powerLosses, corruptions, blind>>
journalVars == <<mode, espMounted, espFile, stageFile, hidden, handle, request, table,
                 ntfsFs, backup, window, fstab, wrote, pc, attempts, stepFaults, powerLosses,
                 corruptions, restoreFailed, blind>>

-----------------------------------------------------------------------------
(* The journal: a sequence of records, closed when completed.              *)

JournalOps == {"partition_table", "ntfs_shrink", "format", "image_write", "configure"}
JournalRecord == [op : JournalOps, done : BOOLEAN]
Missing == [state |-> "missing", ops |-> <<>>]
Corrupt == [state |-> "corrupt", ops |-> <<>>]
JournalFile(ops) == [state |-> "ok", ops |-> ops]
IsJournal(file) == file.state = "ok"

completed(ops, op) == \E i \in DOMAIN ops : ops[i] = [op |-> op, done |-> TRUE]
started(ops, op) == \E i \in DOMAIN ops : ops[i].op = op

\* The record that Completed closes: the most recent open one of that name.
OpenRecords(ops, op) == {i \in DOMAIN ops : ops[i] = [op |-> op, done |-> FALSE]}

record(ops, op, state) ==
    IF state = "Started" THEN Append(ops, [op |-> op, done |-> FALSE])
    ELSE IF OpenRecords(ops, op) = {} THEN Append(ops, [op |-> op, done |-> TRUE])
    ELSE [ops EXCEPT ![Max(OpenRecords(ops, op))].done = TRUE]

\* Mutant: the destination is overwritten.
KeepStagingOnly(staging, existing) == staging

\* Staging records first, then those of the destination that staging, or an
\* earlier record of the destination, has not completed.
merge_journal_states(staging, existing) ==
    LET merged[n \in 0 .. Len(existing)] ==
          IF n = 0 THEN staging
          ELSE IF completed(merged[n - 1], existing[n].op) THEN merged[n - 1]
          ELSE Append(merged[n - 1], existing[n])
    IN  merged[Len(existing)]

\* A destination that does not parse fails toward the staging records.
relocate(staging, dest) ==
    JournalFile(IF IsJournal(dest) THEN merge_journal_states(staging.ops, dest.ops)
                ELSE staging.ops)

\* The file behind the handle, as load sees it.
ActiveFile == IF handle = "esp" THEN espFile
              ELSE IF handle = "none" \/ hidden THEN Missing ELSE stageFile

journal_completed(op) == completed(ActiveFile.ops, op)

-----------------------------------------------------------------------------
(* Control: where a step goes when it succeeds and when it fails.          *)

\* The steps that run inside guarded_table_mutation.
Guarded == {"resize", "move_before_shrink", "shrink_start", "fs_resize", "boundary",
            "shrink_done", "create", "create_target"}

\* A refusal or a failure inside the guard restores the table first; one inside
\* the configuration closure restores fstab.
FailureExit(at) == IF at \in Guarded THEN "restore"
                   ELSE IF at = "configure" THEN "restore_fstab" ELSE "cleanup"

Refuse == /\ pc' = FailureExit(pc)
          /\ UNCHANGED stepFaults

\* The step had its effect; the helper then reports success or failure.
Then(next) == \/ pc' = next /\ UNCHANGED stepFaults
              \/ /\ stepFaults < MaxStepFaults
                 /\ stepFaults' = stepFaults + 1
                 /\ pc' = FailureExit(pc)

Steps == Guarded \cup {"table_start", "table_done", "format", "mkfs", "format_done", "mount",
                       "move_journal", "image_start", "bootc", "image_done", "move_wipe_journal",
                       "mount_wipe_root", "configure_start",
                       "configure", "configure_done", "secure_boot", "complete"}

\* record_journal: load, append or close, write back.  A file that cannot be
\* loaded fails the phase.
RecordJournal(op, state, next) ==
    IF IsJournal(ActiveFile)
    THEN /\ LET file == JournalFile(record(ActiveFile.ops, op, state))
            IN  /\ espFile' = IF handle = "esp" THEN file ELSE espFile
                /\ stageFile' = IF handle = "stage" THEN file ELSE stageFile
         /\ UNCHANGED <<hidden, handle>>
         /\ Then(next)
    ELSE Refuse /\ UNCHANGED journal

\* A step fails, or the job is cancelled, before it has had an effect.
StepFails ==
    /\ pc \in Steps
    /\ stepFaults < MaxStepFaults
    /\ stepFaults' = stepFaults + 1
    /\ pc' = FailureExit(pc)
    /\ UNCHANGED <<setting, request, disk, journal, restoreFailed>>

-----------------------------------------------------------------------------
(* Opening the journal, and taking it to the ESP.                          *)

NoWindow == <<0, 0>>
FirstStep == CASE mode = "wipe" -> "image_start"
               [] mode \in {"alongside", "manual"} -> "format"
               [] OTHER -> "table_start"

\* A request is accepted and its storage phase opens the journal; a corrupt
\* file fails closed.  The probe for a mounted ESP is best-effort: when one of
\* its helpers fails, the journal opens below the staging mount all the same.
Open(delta, probed) ==
    /\ pc = "idle" /\ attempts < MaxAttempts
    /\ attempts' = attempts + 1
    /\ IF probed THEN UNCHANGED stepFaults
       ELSE stepFaults < MaxStepFaults /\ stepFaults' = stepFaults + 1
    /\ request' = [delta |-> delta, preShrink |-> table.ntfs]
    /\ window' = IF mode = "free_space" THEN <<DiskSize - FreeTail, DiskSize>> ELSE NoWindow
    /\ IF espMounted /\ probed
       THEN /\ espFile' = IF espFile = Missing THEN JournalFile(<<>>) ELSE espFile
            /\ handle' = "esp"
            /\ pc' = IF espFile = Corrupt THEN "cleanup" ELSE FirstStep
            /\ UNCHANGED <<stageFile, blind>>
       ELSE /\ stageFile' = IF stageFile = Missing THEN JournalFile(<<>>) ELSE stageFile
            /\ handle' = "stage" /\ pc' = FirstStep
            /\ blind' = (blind \/ completed(espFile.ops, "ntfs_shrink"))
            /\ UNCHANGED espFile
    /\ UNCHANGED <<mode, espMounted, powerLosses, corruptions, hidden, table, ntfsFs, backup,
                   fstab, wrote, restoreFailed>>

\* ensure_esp_journal: mounts the ESP when nobody has, and moves the records
\* there.  The staging file must still be readable.
EnsureEspJournal(next) ==
    IF handle = "esp" THEN Then(next) /\ UNCHANGED <<espFile, stageFile, handle>>
    ELSE IF ~IsJournal(ActiveFile) THEN Refuse /\ UNCHANGED <<espFile, stageFile, handle>>
    ELSE /\ espFile' = relocate(stageFile, espFile)
         /\ handle' = "esp"
         /\ Then(next)
         /\ UNCHANGED stageFile

-----------------------------------------------------------------------------
(* The guarded mutation of the partition table.                            *)

\* contains_free_region
Free(from, to) ==
    /\ table.ntfs <= from /\ to <= DiskSize
    /\ \A p \in table.created : p[2] <= from \/ to <= p[1]

\* The region must still be free; the table is backed up under the disk lock
\* after partition_table is recorded as started.
TableStart ==
    /\ pc = "table_start"
    /\ IF mode = "free_space" /\ ~Free(window[1], window[2])
       THEN Refuse /\ UNCHANGED <<journal, backup>>
       ELSE /\ RecordJournal("partition_table", "Started",
                             IF mode = "free_space" THEN "create" ELSE "resize")
            /\ backup' = table
    /\ UNCHANGED <<setting, request, table, ntfsFs, window, fstab, wrote, restoreFailed>>

\* Mutant: no retry guard.
ResumeNever ==
    /\ pc = "resize" /\ pc' = "move_before_shrink"
    /\ UNCHANGED <<setting, request, journal, disk, stepFaults, restoreFailed>>

\* ntfs_shrink_resume_window: a recorded completion skips the shrink when the
\* space behind Windows, as wide as this request asks, is free; else it fails.
Resume ==
    /\ pc = "resize"
    /\ LET end == table.ntfs + request.delta
       IN  IF ~journal_completed("ntfs_shrink")
           THEN pc' = "move_before_shrink" /\ UNCHANGED <<window, stepFaults>>
           ELSE IF request.preShrink = table.ntfs /\ Free(table.ntfs, end)
                THEN /\ window' = <<table.ntfs, end>>
                     /\ pc' = "create"
                     /\ UNCHANGED stepFaults
                ELSE Refuse /\ UNCHANGED window
    /\ UNCHANGED <<setting, request, journal, table, ntfsFs, backup, fstab, wrote, restoreFailed>>

\* Mutant: the journal stays where it was opened.
ShrinkOnStaging ==
    /\ pc = "move_before_shrink"
    /\ Then("shrink_start")
    /\ UNCHANGED <<setting, request, journal, disk, restoreFailed>>

\* The completion of the shrink must survive a reboot.
MoveBeforeShrink ==
    /\ pc = "move_before_shrink"
    /\ EnsureEspJournal("shrink_start")
    /\ UNCHANGED <<setting, request, hidden, disk, restoreFailed>>

\* Windows keeps its minimum, else nothing is recorded.
ShrinkStart ==
    /\ pc = "shrink_start"
    /\ IF table.ntfs < request.delta + MinWindows
       THEN Refuse /\ UNCHANGED journal
       ELSE RecordJournal("ntfs_shrink", "Started", "fs_resize")
    /\ UNCHANGED <<setting, request, disk, restoreFailed>>

\* Mutant: the boundary moves before the file system is smaller.
FsResizeLater ==
    /\ pc = "fs_resize"
    /\ table' = [table EXCEPT !.ntfs = @ - request.delta]
    /\ wrote' = wrote \cup {"ntfs_shrink"}
    /\ Then("boundary")
    /\ UNCHANGED <<setting, request, journal, ntfsFs, backup, window, fstab, restoreFailed>>

\* ntfsresize: check, info, dry run, resize.
FsResize ==
    /\ pc = "fs_resize"
    /\ ntfsFs' = table.ntfs - request.delta
    /\ wrote' = wrote \cup {"ntfs_shrink"}
    /\ Then("boundary")
    /\ UNCHANGED <<setting, request, journal, table, backup, window, fstab, restoreFailed>>

\* resize_partition: the freed region is remembered from the probe.
Boundary ==
    /\ pc = "boundary"
    /\ LET size == table.ntfs - request.delta
       IN  /\ window' = <<size, table.ntfs>>
           /\ table' = [table EXCEPT !.ntfs = size]
    /\ Then("shrink_done")
    /\ UNCHANGED <<setting, request, journal, ntfsFs, backup, fstab, wrote, restoreFailed>>

ShrinkDone ==
    /\ pc = "shrink_done"
    /\ RecordJournal("ntfs_shrink", "Completed", "create")
    /\ UNCHANGED <<setting, request, disk, restoreFailed>>

\* create_target_partition, first half: a disk without a BIOS boot partition
\* gets one at the start of the region.
Create ==
    /\ pc = "create"
    /\ IF table.bios
       THEN pc' = "create_target" /\ UNCHANGED <<table, window, stepFaults>>
       ELSE IF window[2] - window[1] <= BiosBoot
       THEN Refuse /\ UNCHANGED <<table, window>>
       ELSE /\ table' = [table EXCEPT !.bios = TRUE,
                           !.created = @ \cup {<<window[1], window[1] + BiosBoot>>}]
            /\ window' = <<window[1] + BiosBoot, window[2]>>
            /\ Then("create_target")
    /\ UNCHANGED <<setting, request, journal, ntfsFs, backup, fstab, wrote, restoreFailed>>

\* Second half: the rest of the region, if it is large enough.
CreateTarget ==
    /\ pc = "create_target"
    /\ IF window[2] - window[1] < MinKyth
       THEN Refuse /\ UNCHANGED <<table, wrote>>
       ELSE /\ table' = [table EXCEPT !.created = @ \cup {window}]
            /\ Then("table_done")
            /\ wrote' = IF pc' = "table_done" THEN wrote \cup {"partition_table"} ELSE wrote
    /\ UNCHANGED <<setting, request, journal, ntfsFs, backup, window, fstab, restoreFailed>>

TableDone ==
    /\ pc = "table_done"
    /\ RecordJournal("partition_table", "Completed", "format")
    /\ UNCHANGED <<setting, request, disk, restoreFailed>>

\* Mutant: the failed mutation returns without writing the backup back.
RestoreSkipped == UNCHANGED <<table, restoreFailed, stepFaults>>

\* run_guarded: the body failed, so the backup is written back, on a token
\* that cannot be cancelled.  A restore that fails keeps the backup file.
RestoreTable ==
    \/ table' = backup /\ UNCHANGED <<restoreFailed, stepFaults>>
    \/ /\ stepFaults < MaxStepFaults
       /\ stepFaults' = stepFaults + 1
       /\ restoreFailed' = TRUE
       /\ UNCHANGED table

Restore ==
    /\ pc = "restore"
    /\ RestoreTable
    /\ pc' = "cleanup"
    /\ UNCHANGED <<setting, request, journal, ntfsFs, backup, window, fstab, wrote>>

-----------------------------------------------------------------------------
(* Formatting, mounting, the image, the configuration.                     *)

\* prepare_btrfs_target takes its target from the plan, and only alongside and
\* manual plans name one.
Format ==
    /\ pc = "format"
    /\ IF mode \in {"alongside", "manual"}
       THEN RecordJournal("format", "Started", "mkfs")
       ELSE Refuse /\ UNCHANGED journal
    /\ UNCHANGED <<setting, request, disk, restoreFailed>>

Mkfs ==
    /\ pc = "mkfs"
    /\ wrote' = wrote \cup {"format"}
    /\ Then("format_done")
    /\ UNCHANGED <<setting, request, journal, table, ntfsFs, backup, window, fstab, restoreFailed>>

FormatDone ==
    /\ pc = "format_done"
    /\ RecordJournal("format", "Completed", "mount")
    /\ UNCHANGED <<setting, request, disk, restoreFailed>>

\* Subvolumes, then the new root on the staging mount point: the file below it
\* is hidden.  The ESP is mounted inside the root.
Mount ==
    /\ pc = "mount"
    /\ hidden' = TRUE
    /\ Then("move_journal")
    /\ UNCHANGED <<setting, request, disk, espFile, stageFile, handle, restoreFailed>>

MoveJournal ==
    /\ pc = "move_journal"
    /\ EnsureEspJournal("image_start")
    /\ UNCHANGED <<setting, request, hidden, disk, restoreFailed>>

ImageStart ==
    /\ pc = "image_start"
    /\ RecordJournal("image_write", "Started", "bootc")
    /\ UNCHANGED <<setting, request, disk, restoreFailed>>

\* bootc install; a wipe replaces every partition, the ESP among them.
Bootc ==
    /\ pc = "bootc"
    /\ wrote' = wrote \cup {"image_write"}
    /\ fstab' = "clean"
    /\ IF mode = "wipe"
       THEN /\ table' = [ntfs |-> 0, bios |-> TRUE, created |-> {<<0, DiskSize>>}]
            /\ ntfsFs' = 0
            /\ espFile' = Missing
       ELSE UNCHANGED <<table, ntfsFs, espFile>>
    /\ Then("image_done")
    /\ UNCHANGED <<setting, request, stageFile, hidden, handle, backup, window, restoreFailed>>

ImageDone ==
    /\ pc = "image_done"
    /\ RecordJournal("image_write", "Completed",
                     IF mode = "wipe" THEN "move_wipe_journal" ELSE "configure_start")
    /\ UNCHANGED <<setting, request, disk, restoreFailed>>

\* A wipe moves the journal to the ESP that bootc made, then mounts the root.
MoveWipeJournal ==
    /\ pc = "move_wipe_journal"
    /\ EnsureEspJournal("mount_wipe_root")
    /\ UNCHANGED <<setting, request, hidden, disk, restoreFailed>>

MountWipeRoot ==
    /\ pc = "mount_wipe_root"
    /\ hidden' = TRUE
    /\ Then("configure_start")
    /\ UNCHANGED <<setting, request, disk, espFile, stageFile, handle, restoreFailed>>

ConfigureStart ==
    /\ pc = "configure_start"
    /\ RecordJournal("configure", "Started", "configure")
    /\ UNCHANGED <<setting, request, disk, restoreFailed>>

\* Mounts and fstab entries of the mode, the planned files, the account, the
\* assurance checks.
Configure ==
    /\ pc = "configure"
    /\ fstab' = "edited"
    /\ Then("configure_done")
    /\ wrote' = IF pc' = "configure_done" THEN wrote \cup {"configure"} ELSE wrote
    /\ UNCHANGED <<setting, request, journal, table, ntfsFs, backup, window, restoreFailed>>

\* restore_fstab writes the snapshot back; it may fail too.
RestoreFstab ==
    /\ pc = "restore_fstab"
    /\ \/ fstab' = "clean" /\ UNCHANGED <<restoreFailed, stepFaults>>
       \/ /\ stepFaults < MaxStepFaults
          /\ stepFaults' = stepFaults + 1
          /\ restoreFailed' = TRUE
          /\ UNCHANGED fstab
    /\ pc' = "cleanup"
    /\ UNCHANGED <<setting, request, journal, table, ntfsFs, backup, window, wrote>>

ConfigureDone ==
    /\ pc = "configure_done"
    /\ RecordJournal("configure", "Completed", "secure_boot")
    /\ UNCHANGED <<setting, request, disk, restoreFailed>>

\* The key enrolment is staged, the mounts are released.
SecureBoot ==
    /\ pc = "secure_boot"
    /\ Then("complete")
    /\ UNCHANGED <<setting, request, disk, journal, restoreFailed>>

Unmounted == hidden' = FALSE /\ handle' = "none" /\ UNCHANGED <<espFile, stageFile>>

Complete ==
    /\ pc = "complete"
    /\ Unmounted
    /\ pc' = "installed"
    /\ UNCHANGED <<setting, request, disk, stepFaults, restoreFailed>>

\* record_failed and record_cancelled: the mounts are released, the executor is
\* dropped, the user may retry.
Cleanup ==
    /\ pc = "cleanup"
    /\ Unmounted
    /\ pc' = "idle"
    /\ UNCHANGED <<setting, request, disk, stepFaults, restoreFailed>>

-----------------------------------------------------------------------------
(* Faults outside the executor.                                            *)

\* The machine goes down: tmpfs and the mounts are gone.
JournalPowerLoss ==
    /\ pc # "installed" /\ powerLosses < MaxJournalPowerLoss
    /\ powerLosses' = powerLosses + 1
    /\ stageFile' = Missing /\ hidden' = FALSE /\ handle' = "none"
    /\ pc' = "idle"
    /\ UNCHANGED <<mode, espMounted, attempts, corruptions, espFile, request, disk, stepFaults,
                   restoreFailed, blind>>

\* The FAT file system of the ESP loses the journal's contents.
CorruptEsp ==
    /\ pc = "idle" /\ corruptions < MaxCorruptions
    /\ IsJournal(espFile)
    /\ corruptions' = corruptions + 1
    /\ espFile' = Corrupt
    /\ UNCHANGED <<mode, espMounted, attempts, powerLosses, stageFile, hidden, handle, request,
                   disk, pc, stepFaults, restoreFailed, blind>>

JournalInit ==
    /\ mode \in InstallModes
    \* bootc refuses to wipe a disk with a mounted partition
    /\ espMounted \in EspMountedChoices /\ (mode = "wipe" => ~espMounted)
    /\ espFile = Missing /\ stageFile = Missing /\ hidden = FALSE /\ handle = "none"
    /\ request = [delta |-> 0, preShrink |-> 0]
    /\ \E bios \in BOOLEAN :
         table = [ntfs |-> IF mode = "free_space" THEN DiskSize - FreeTail ELSE DiskSize,
                  bios |-> bios, created |-> {}]
    /\ ntfsFs = table.ntfs /\ backup = table
    /\ window = NoWindow /\ fstab = "clean" /\ wrote = {}
    /\ pc = "idle" /\ attempts = 0 /\ stepFaults = 0 /\ powerLosses = 0 /\ corruptions = 0
    /\ restoreFailed = FALSE /\ blind = FALSE

ExecutorStep ==
    \/ TableStart \/ Resume \/ MoveBeforeShrink \/ ShrinkStart \/ FsResize \/ Boundary
    \/ ShrinkDone \/ Create \/ CreateTarget \/ TableDone \/ Restore
    \/ Format \/ Mkfs \/ FormatDone \/ Mount \/ MoveJournal
    \/ ImageStart \/ Bootc \/ ImageDone \/ MoveWipeJournal \/ MountWipeRoot
    \/ ConfigureStart \/ Configure \/ RestoreFstab \/ ConfigureDone
    \/ SecureBoot \/ Complete \/ Cleanup

JournalNext ==
    \/ \E delta \in Deltas, probed \in BOOLEAN : Open(delta, probed)
    \/ ExecutorStep
    \/ StepFails
    \/ JournalPowerLoss
    \/ CorruptEsp

JournalSpec == JournalInit /\ [][JournalNext]_journalVars

-----------------------------------------------------------------------------
(* Properties.                                                             *)

Region == (0 .. DiskSize) \X (0 .. DiskSize)
FileType == [state : {"missing", "corrupt", "ok"}, ops : Seq(JournalRecord)]
TableType == [ntfs : 0 .. DiskSize, bios : BOOLEAN, created : SUBSET Region]

\* Type invariant of the executor and its journal.
JournalTypeOK ==
    /\ mode \in AllModes /\ espMounted \in BOOLEAN
    /\ espFile \in FileType /\ stageFile \in FileType
    /\ hidden \in BOOLEAN /\ handle \in {"none", "stage", "esp"}
    /\ request \in [delta : Nat, preShrink : Nat]
    /\ table \in TableType /\ backup \in TableType
    /\ ntfsFs \in 0 .. DiskSize /\ window \in Region
    /\ fstab \in {"clean", "edited"} /\ wrote \subseteq JournalOps
    /\ pc \in Steps \cup {"idle", "restore", "restore_fstab", "cleanup", "installed"}
    /\ {attempts, stepFaults, powerLosses, corruptions} \subseteq Nat
    /\ restoreFailed \in BOOLEAN /\ blind \in BOOLEAN

\* The Windows file system never reaches past its partition, whatever step
\* fails, whenever the power goes and however often the user retries with
\* another size (resize_ntfs_target shrinks the file system first, and a
\* restored table only makes the partition larger).
WindowsFits == ntfsFs <= table.ntfs

\* No partition the executor creates lies on Windows or on another one, also
\* after a restored table and a resumed shrink.
PartitionsDisjoint ==
    /\ \A p \in table.created : table.ntfs <= p[1] /\ p[2] <= DiskSize
    /\ \A p, q \in table.created : p = q \/ p[2] <= q[1] \/ q[2] <= p[1]

\* Windows and what was created behind it are whole, after any failure, power
\* loss or retry.
LayoutSound == WindowsFits /\ PartitionsDisjoint

\* Once the Windows file system has been touched, the ESP holds the record of
\* it: a reboot at any later moment finds it (ensure_esp_journal before the
\* shrink, the merge on every later retry).
ShrinkIsDurable ==
    ("ntfs_shrink" \in wrote /\ corruptions = 0) => started(espFile.ops, "ntfs_shrink")

\* Retries take the space a request asked for from Windows at most once, with
\* the ESP mounted or not and wherever the journal was opened, as long as no
\* attempt was blind to a completion on the ESP, the power stayed and every
\* table could be restored (the guard of ntfs_shrink_resume_window over all
\* attempts, the merge of the two journals among them).
SightedShrinkOnce ==
    (~blind /\ mode = "resize_ntfs" /\ powerLosses = 0 /\ corruptions = 0 /\ ~restoreFailed)
        => DiskSize - table.ntfs \in {0} \cup Deltas

\* The same for blind attempts too: "shrinking again would double-shrink
\* Windows" (resize_ntfs_target).
ShrinkOnce ==
    (mode = "resize_ntfs" /\ powerLosses = 0 /\ corruptions = 0 /\ ~restoreFailed)
        => DiskSize - table.ntfs \in {0} \cup Deltas

\* From the image on, an installation beside other systems journals on the ESP,
\* and so does every configuration: "no supported path where the journal
\* silently stays on tmpfs" (ensure_esp_journal).
ImageIsDurable ==
    /\ (pc = "bootc" /\ mode # "wipe") => handle = "esp"
    /\ pc = "configure" => /\ handle = "esp"
                           /\ completed(espFile.ops, "image_write")
                           /\ started(espFile.ops, "configure")

\* What the disk went through is on the ESP by the time it matters.
JournalIsDurable == ShrinkIsDurable /\ ImageIsDurable

\* A failed table mutation leaves the table it found, and a failed
\* configuration the fstab it found, unless writing them back failed too.
FailureUndone ==
    (pc = "cleanup" /\ ~restoreFailed) =>
        /\ ("partition_table" \notin wrote /\ mode # "wipe" /\ powerLosses = 0) => table = backup
        /\ ("configure" \notin wrote /\ powerLosses = 0) => fstab = "clean"

\* Completions on the ESP are never lost by a retry, only with the file itself
\* (corruption, bootc's new ESP): "must not delete completions a previous run
\* recorded" (relocate).
CompletionsKept ==
    [][\A op \in JournalOps :
         (completed(espFile.ops, op) /\ espFile'.state = "ok") => completed(espFile'.ops, op)]_journalVars
=============================================================================

------------------------------ MODULE MCParts ------------------------------
(***************************************************************************)
(* Parts that share no state, side by side for TLC: the installer daemon's *)
(* event stream, its executor with the durable journal, its partition      *)
(* editor, and a VPN connection of the Hub.  part is the one that moves;   *)
(* the others stay in one initial state.                                   *)
(***************************************************************************)
EXTENDS InstallDaemon, InstallJournal, PartitionEditor, VpnJob

CONSTANTS
    MovingParts,               \* which of the parts are checked
    MaxLockdownGenerations     \* bound: generations of the job with fail-closed on

VARIABLE part

FewPhases == <<"prepare", "image", "complete">>

OnDiskPart(number, from, to, fs) ==
    [part |-> number, from |-> from, to |-> to, fs |-> fs]
CreateRequest(from, size, fs, mp) ==
    [from |-> from, size |-> size, fs |-> fs, mp |-> mp]
EditRequest(kind, number, size, fs, mp) ==
    [kind |-> kind, part |-> number, size |-> size, fs |-> fs, mp |-> mp]

\* An EFI partition in use, and two Linux ones; the tail of the disk is free.
SomeDisk == {OnDiskPart(1, 1, 3, "fat32"), OnDiskPart(2, 3, 6, "btrfs"),
             OnDiskPart(3, 6, 9, "ext4")}

\* Over a partition that may be deleted first, in the free tail, in what a
\* resize frees, and a swap partition.
SomeCreates == {CreateRequest(2, 4, "btrfs", "/"), CreateRequest(9, 3, "btrfs", "/"),
                CreateRequest(7, 2, "ext4", "/home"), CreateRequest(3, 2, "linux-swap", "")}

SomeEdits ==
    {EditRequest("delete", 3, 0, "", ""), EditRequest("delete", 2, 0, "", ""),
     EditRequest("resize", 3, 1, "", ""), EditRequest("resize", 3, 8, "", ""),
     EditRequest("format", 3, 0, "btrfs", ""),
     EditRequest("set_mountpoint", 2, 0, "", "/"), EditRequest("set_mountpoint", 2, 0, "", ""),
     EditRequest("set_mountpoint", 3, 0, "", "/home"),
     EditRequest("set_mountpoint", 1, 0, "", "/boot/efi")}

PartsInit ==
    /\ part \in MovingParts
    /\ Init
    /\ JournalInit
    /\ EditorInit
    /\ VpnInit
    /\ part # "journal" => mode = "wipe" /\ ~espMounted /\ ~table.bios
    /\ part # "editor" => edTableType = "gpt"
    /\ failClosed = (part = "lockdown")

\* The VPN twice: its tunnels with fail-closed off, up to the bounds, and its
\* lockdowns over fewer connections.
LockdownBounds ==
    /\ runtime'.generation <= MaxLockdownGenerations
    /\ \A c \in SignIns : signIns'[c] # "idle" => c = 1

VpnPart ==
    \/ part = "tunnels" /\ VpnNext /\ presetFlips' = 0
    \/ part = "lockdown" /\ VpnNext /\ LockdownBounds

PartsNext ==
    /\ UNCHANGED part
    /\ \/ part = "stream" /\ Next /\ UNCHANGED <<journalVars, editorVars, vpnVars>>
       \/ part = "journal" /\ JournalNext /\ UNCHANGED <<vars, editorVars, vpnVars>>
       \/ part = "editor" /\ EditorNext /\ UNCHANGED <<vars, journalVars, vpnVars>>
       \/ VpnPart /\ UNCHANGED <<vars, journalVars, editorVars>>

PartsSpec == PartsInit /\ [][PartsNext]_<<part, vars, journalVars, editorVars, vpnVars>>

\* Type correctness of the parts: the journal's records and regions, the
\* editor's disk and operations, the VPN's slot and threads.
PartsTypeOK == JournalTypeOK /\ EditorTypeOK /\ VpnTypeOK
=============================================================================

------------------------------- MODULE VpnJob -------------------------------
(***************************************************************************)
(* A VPN connection of the Hub (kyth-hub-web, commands/vpn.rs).  The job   *)
(* owns one runtime: a status, a slot for the openconnect child tagged     *)
(* with the generation that spawned it, a stopped flag and a generation    *)
(* counter.  Each generation has a worker thread that reads its child's    *)
(* output.  The sign-in window calls back on threads of its own, possibly  *)
(* twice; connect, disconnect and the protection switch run on the Hub's   *)
(* main thread.                                                            *)
(***************************************************************************)
EXTENDS Integers

CONSTANTS
    MaxCallbacks,      \* bound: callbacks of the sign-in window
    MaxGenerations,    \* bound: generations of the job
    MaxPresetFlips     \* bound: changes of the fail-closed choice

ASSUME VpnAssumption ==
    MaxCallbacks \in Nat /\ MaxGenerations \in Nat \ {0} /\ MaxPresetFlips \in Nat

VARIABLES
    runtime,         \* VpnRuntime: state, stopped, generation, slot (0: empty)
    consumed,        \* the job is in SAML_CONSUMED: its cookie was used
    signInOpen,      \* its sign-in window is open
    vpnWorkers,      \* the worker thread of each generation
    openconnect,     \* the child of each generation
    takenBy,         \* the thread that waits for it in terminate_child
    signIns,         \* the callback threads
    hubMain,         \* the main thread
    zone,            \* the default zone of the firewall
    failClosed,      \* vpn_fail_closed in network.toml
    presetFlips,
    liftSkipped,     \* history: a release read "off" and left the block in force
    disconnects,     \* how often the job was disconnected
    revived,         \* a sign-in restarted it after a disconnect
    overwritten      \* history: running children another one replaced in the slot

vpnVars == <<runtime, consumed, signInOpen, vpnWorkers, openconnect, takenBy, signIns, hubMain,
             zone, failClosed, presetFlips, liftSkipped, disconnects, revived, overwritten>>
vpnChildren == <<openconnect, takenBy>>
vpnPreset == <<failClosed, presetFlips>>
vpnNetwork == <<zone, liftSkipped, vpnPreset>>
vpnHistory == <<disconnects, revived, overwritten>>

VpnGenerations == 1..MaxGenerations
SignIns == 1..MaxCallbacks    \* each on a thread of its own
MainThread == 0
NoThread == -1
NoVpnWorker == [pc |-> "none", opened |-> FALSE]
ReapableStates == {"failed", "disconnected", "complete", "failed_lockdown",
                   "failed_lockdown_open", "complete_firewall_open"}
LiveStates == {"connecting", "authentication_required", "connected", "connected_firewall_open"}

VpnInit ==
    /\ runtime = [state |-> "none", stopped |-> FALSE, generation |-> 0, slot |-> 0]
    /\ consumed = FALSE /\ signInOpen = FALSE
    /\ vpnWorkers = [g \in VpnGenerations |-> NoVpnWorker]
    /\ openconnect = [g \in VpnGenerations |-> "none"]
    /\ takenBy = [g \in VpnGenerations |-> NoThread]
    /\ signIns = [c \in SignIns |-> "idle"]
    /\ hubMain = "idle"
    /\ zone = "preset" /\ failClosed \in BOOLEAN /\ presetFlips = 0 /\ liftSkipped = FALSE
    /\ disconnects = 0 /\ revived = FALSE /\ overwritten = {}

\* status: the last writer wins, whatever its generation.
SetState(s) == runtime' = [runtime EXCEPT !.state = s]

\* start_process: the generation is taken on the calling thread.
NextGeneration(r) == [r EXCEPT !.generation = @ + 1]
StartsWorker(g) == vpnWorkers' = [vpnWorkers EXCEPT ![g] = [NoVpnWorker EXCEPT !.pc = "spawn"]]

SlotEmptied(r) == [r EXCEPT !.slot = 0]

\* kill_process_group: the child is `sudo openconnect`, run by root, and the
\* kernel may refuse the signal, which nobody looks at.
KillsChild(slot) ==
    \E refused \in BOOLEAN :
        openconnect' = [g \in VpnGenerations |->
            IF g = slot /\ openconnect[g] = "up" /\ ~refused THEN "killed" ELSE openconnect[g]]

\* terminate_child: the slot is emptied, whatever the tag, and its child killed;
\* the thread then waits until the child has ended.
TerminateChild(thread) ==
    /\ runtime' = SlotEmptied(runtime)
    /\ takenBy' = [g \in VpnGenerations |-> IF g = runtime.slot THEN thread ELSE takenBy[g]]
    /\ KillsChild(runtime.slot)

\* child.wait() has returned.
Reaped(thread) ==
    /\ \A g \in VpnGenerations : takenBy[g] = thread => openconnect[g] # "up"
    /\ takenBy' = [g \in VpnGenerations |-> IF takenBy[g] = thread THEN NoThread ELSE takenBy[g]]

\* network_preset::load: a file that cannot be read or parsed is the default,
\* which is not fail-closed.
LoadedFailClosed == {failClosed, FALSE}

\* set_vpn_lockdown(false) that reads "off" does nothing.
SkipsLift == liftSkipped' = (liftSkipped \/ zone = "block") /\ UNCHANGED zone

\* Mutant: the zone is not restored.
LiftsNothing(ok) == UNCHANGED <<zone, liftSkipped>>

\* firewall-cmd sets the preset's zone; when it fails or times out the zone may
\* have changed or not.
Lifts(ok) ==
    \/ zone' = "preset" /\ liftSkipped' = FALSE
    \/ ~ok /\ UNCHANGED <<zone, liftSkipped>>

----------------------------------------------------------------------------
(***************************************************************************)
(* The commands, on the main thread.                                       *)
(***************************************************************************)
VpnConnect ==
    /\ hubMain = "idle" /\ runtime.state = "none"
    /\ runtime' = NextGeneration([runtime EXCEPT !.state = "connecting"])
    /\ StartsWorker(1)
    /\ UNCHANGED <<consumed, signInOpen, vpnChildren, signIns, hubMain, vpnNetwork, vpnHistory>>

VpnDisconnect ==
    /\ hubMain = "idle" /\ runtime.state # "none"
    /\ runtime.generation < MaxGenerations
    /\ runtime' = NextGeneration([runtime EXCEPT !.stopped = TRUE])
    /\ disconnects' = disconnects + 1
    /\ hubMain' = "terminate"
    /\ UNCHANGED <<consumed, signInOpen, vpnWorkers, vpnChildren, signIns, vpnNetwork, revived,
                   overwritten>>

DisconnectTerminates ==
    /\ hubMain = "terminate" /\ hubMain' = "forget"
    /\ TerminateChild(MainThread)
    /\ UNCHANGED <<consumed, signInOpen, vpnWorkers, signIns, vpnNetwork, vpnHistory>>

\* The claim is given back; the sign-in window stays open.
DisconnectForgets ==
    /\ hubMain = "forget" /\ hubMain' = "unlock"
    /\ Reaped(MainThread)
    /\ consumed' = FALSE
    /\ SetState("complete")
    /\ UNCHANGED <<signInOpen, vpnWorkers, openconnect, signIns, vpnNetwork, vpnHistory>>

DisconnectUnlocks ==
    /\ hubMain = "unlock"
    /\ \E enabled \in LoadedFailClosed :
          \/ enabled /\ hubMain' = "lift" /\ UNCHANGED <<zone, liftSkipped>>
          \/ ~enabled /\ hubMain' = "idle" /\ SkipsLift
    /\ UNCHANGED <<runtime, consumed, signInOpen, vpnWorkers, vpnChildren, signIns, vpnPreset,
                   vpnHistory>>

DisconnectLifts ==
    /\ hubMain = "lift"
    /\ \E ok \in BOOLEAN : Lifts(ok) /\ hubMain' = IF ok THEN "idle" ELSE "open"
    /\ UNCHANGED <<runtime, consumed, signInOpen, vpnWorkers, vpnChildren, signIns, vpnPreset,
                   vpnHistory>>

DisconnectReports ==
    /\ hubMain = "open" /\ hubMain' = "idle"
    /\ SetState("complete_firewall_open")
    /\ UNCHANGED <<consumed, signInOpen, vpnWorkers, vpnChildren, signIns, vpnNetwork, vpnHistory>>

\* set_vpn_protection, when the write lands.
SetVpnProtection ==
    /\ hubMain = "idle"
    /\ presetFlips < MaxPresetFlips
    /\ presetFlips' = presetFlips + 1
    /\ failClosed' = ~failClosed
    /\ UNCHANGED <<runtime, consumed, signInOpen, vpnWorkers, vpnChildren, signIns, hubMain, zone,
                   liftSkipped, vpnHistory>>

----------------------------------------------------------------------------
(***************************************************************************)
(* The worker thread of generation g, and its child.                       *)
(***************************************************************************)
WorkerGoes(g, pc) == vpnWorkers' = [vpnWorkers EXCEPT ![g].pc = pc]
WorkerStops(g, pc) == vpnWorkers' = [vpnWorkers EXCEPT ![g] = [NoVpnWorker EXCEPT !.pc = pc]]
Superseded(g) == runtime.stopped \/ runtime.generation # g

\* The child ends by itself: the tunnel is closed, or lost.
ChildEnds(g) ==
    /\ openconnect[g] = "up"
    /\ \E how \in {"ok", "failed"} : openconnect' = [openconnect EXCEPT ![g] = how]
    /\ UNCHANGED <<runtime, takenBy, consumed, signInOpen, vpnWorkers, signIns, hubMain, vpnNetwork,
                   vpnHistory>>

\* prepare_sudo_command or spawn may fail; the child goes into the slot, where
\* it replaces the one that is there.
WorkerSpawns(g) ==
    /\ vpnWorkers[g].pc = "spawn"
    /\ \/ SetState("failed") /\ WorkerStops(g, "end") /\ UNCHANGED <<openconnect, overwritten>>
       \/ /\ openconnect' = [openconnect EXCEPT ![g] = "up"]
          /\ runtime' = [runtime EXCEPT !.slot = g]
          /\ overwritten' = overwritten \cup
                 {h \in VpnGenerations : h = runtime.slot /\ openconnect[h] = "up"}
          /\ WorkerGoes(g, "loop")
    /\ UNCHANGED <<consumed, signInOpen, takenBy, signIns, hubMain, vpnNetwork, disconnects,
                   revived>>

\* open_saml_window: the window opens, or the job fails.
OpenSamlWindow ==
    \/ signInOpen' = TRUE /\ SetState("authentication_required")
    \/ ~signInOpen /\ UNCHANGED signInOpen /\ SetState("failed")

\* One line of output, still in the pipe if the child has ended; a stopped or
\* superseded worker reads it all the same.
WorkerReads(g) ==
    /\ vpnWorkers[g].pc = "loop"
    /\ \/ /\ ~vpnWorkers[g].opened
          /\ vpnWorkers' = [vpnWorkers EXCEPT ![g].opened = TRUE]
          /\ OpenSamlWindow
       \/ /\ vpnWorkers[g].opened
          /\ SetState("authentication_required") /\ UNCHANGED <<vpnWorkers, signInOpen>>
       \/ SetState("connected") /\ WorkerGoes(g, "unlock") /\ UNCHANGED signInOpen
       \/ SetState("connecting") /\ UNCHANGED <<vpnWorkers, signInOpen>>
    /\ UNCHANGED <<consumed, vpnChildren, signIns, hubMain, vpnNetwork, vpnHistory>>

WorkerUnlocks(g) ==
    /\ vpnWorkers[g].pc = "unlock"
    /\ \E enabled \in LoadedFailClosed :
          \/ enabled /\ WorkerGoes(g, "lift") /\ UNCHANGED <<zone, liftSkipped>>
          \/ ~enabled /\ WorkerGoes(g, "loop") /\ SkipsLift
    /\ UNCHANGED <<runtime, consumed, signInOpen, vpnChildren, signIns, hubMain, vpnPreset,
                   vpnHistory>>

WorkerLifts(g) ==
    /\ vpnWorkers[g].pc = "lift"
    /\ \E ok \in BOOLEAN : Lifts(ok) /\ WorkerGoes(g, IF ok THEN "loop" ELSE "open")
    /\ UNCHANGED <<runtime, consumed, signInOpen, vpnChildren, signIns, hubMain, vpnPreset,
                   vpnHistory>>

\* Mutant: the tag is not compared.
TakesAnyChild(g) == runtime.slot # 0

\* take_child_for_generation: only the child with the worker's own tag.
TakesChild(g) == runtime.slot = g

ChildGone(g) == g \in VpnGenerations /\ openconnect[g] \notin {"none", "up"}

\* Nothing to read for a tick, or the pipes are closed: the worker leaves its
\* loop (the exit test looks at whichever child is in the slot), takes its
\* child and kills it if the job was stopped or went on without it.
WorkerTakes(g) ==
    LET slot == runtime.slot
    IN  /\ vpnWorkers[g].pc = "loop"
        /\ Superseded(g) \/ ChildGone(slot) \/ (slot # g /\ ChildGone(g))
        /\ \/ /\ TakesChild(g)
              /\ runtime' = SlotEmptied(runtime)
              /\ IF Superseded(g) THEN KillsChild(slot) ELSE UNCHANGED openconnect
              /\ WorkerStops(g, "reap")
           \/ /\ ~TakesChild(g)
              /\ WorkerStops(g, IF runtime.generation # g THEN "end" ELSE "dropped")
              /\ openconnect' = [h \in VpnGenerations |->
                     IF h = g /\ ChildGone(g) THEN "none" ELSE openconnect[h]]
              /\ UNCHANGED runtime
        /\ UNCHANGED <<consumed, signInOpen, takenBy, signIns, hubMain, vpnNetwork, vpnHistory>>

\* child.wait(), then the last look at the generation.
WorkerReaps(g) ==
    /\ vpnWorkers[g].pc = "reap" /\ openconnect[g] # "up"
    /\ openconnect' = [openconnect EXCEPT ![g] = "none"]
    /\ WorkerStops(g, IF runtime.generation # g THEN "end"
                      ELSE IF openconnect[g] = "ok" THEN "ended" ELSE "dropped")
    /\ UNCHANGED <<runtime, consumed, signInOpen, takenBy, signIns, hubMain, vpnNetwork,
                   vpnHistory>>

\* The flag, the status, the outcome.
WorkerSettles(g) ==
    LET quiet == runtime.stopped \/ runtime.state = "authentication_required"
        pc == vpnWorkers[g].pc
    IN  /\ \/ /\ quiet /\ pc \in {"ended", "dropped"}
              /\ UNCHANGED runtime /\ WorkerStops(g, "end")
           \/ /\ ~quiet /\ pc = "ended"
              /\ SetState("disconnected") /\ WorkerStops(g, "end")
           \/ /\ ~quiet /\ pc = "dropped" /\ TRUE \in LoadedFailClosed
              /\ UNCHANGED runtime /\ WorkerStops(g, "engage")
           \/ /\ ~quiet /\ pc = "dropped" /\ FALSE \in LoadedFailClosed
              /\ SetState("failed") /\ WorkerStops(g, "end")
        /\ UNCHANGED <<consumed, signInOpen, vpnChildren, signIns, hubMain, vpnNetwork, vpnHistory>>

\* set_vpn_lockdown(true): it reads the preset again.
WorkerEngages(g) ==
    /\ vpnWorkers[g].pc = "engage"
    /\ \E enabled \in LoadedFailClosed :
          \/ enabled /\ WorkerStops(g, "lock") /\ UNCHANGED runtime
          \/ ~enabled /\ WorkerStops(g, "end") /\ SetState("failed")
    /\ UNCHANGED <<consumed, signInOpen, vpnChildren, signIns, hubMain, vpnNetwork, vpnHistory>>

\* firewall-cmd, behind an admin prompt and a limit of 60 s: one that fails or
\* times out may have changed the zone.
WorkerLocks(g) ==
    /\ vpnWorkers[g].pc = "lock"
    /\ \/ /\ zone' = "block" /\ liftSkipped' = FALSE
          /\ \E pc \in {"locked", "unlocked"} : WorkerStops(g, pc)
       \/ UNCHANGED <<zone, liftSkipped>> /\ WorkerStops(g, "unlocked")
    /\ UNCHANGED <<runtime, consumed, signInOpen, vpnChildren, signIns, hubMain, vpnPreset,
                   vpnHistory>>

\* The status after firewall-cmd: a release that failed, then the two ends of
\* an engagement.
WorkerReports(g) ==
    /\ \/ /\ vpnWorkers[g].pc = "open"
          /\ SetState("connected_firewall_open") /\ WorkerGoes(g, "loop")
       \/ /\ vpnWorkers[g].pc = "locked"
          /\ SetState("failed_lockdown") /\ WorkerStops(g, "end")
       \/ /\ vpnWorkers[g].pc = "unlocked"
          /\ SetState("failed_lockdown_open") /\ WorkerStops(g, "end")
    /\ UNCHANGED <<consumed, signInOpen, vpnChildren, signIns, hubMain, vpnNetwork, vpnHistory>>

----------------------------------------------------------------------------
(***************************************************************************)
(* A callback of the sign-in window.                                       *)
(***************************************************************************)
CallbackGoes(c, pc) == signIns' = [signIns EXCEPT ![c] = pc]

\* handle_saml_callback: a cookie is claimed at once, a form is replayed to
\* the portal first, anything else fails the job.
SignInCallsBack(c) ==
    /\ signIns[c] = "idle" /\ signInOpen
    /\ \A d \in 1..(c - 1) : signIns[d] # "idle"
    /\ \/ \E pc \in {"claim", "replay"} : CallbackGoes(c, pc) /\ UNCHANGED runtime
       \/ CallbackGoes(c, "served") /\ SetState("failed")
    /\ UNCHANGED <<consumed, signInOpen, vpnWorkers, vpnChildren, hubMain, vpnNetwork,
                   vpnHistory>>

SignInReplays(c) ==
    /\ signIns[c] = "replay"
    /\ signInOpen' = FALSE
    /\ \/ CallbackGoes(c, "claim") /\ UNCHANGED runtime
       \/ CallbackGoes(c, "served") /\ SetState("failed")
    /\ UNCHANGED <<consumed, vpnWorkers, vpnChildren, hubMain, vpnNetwork, vpnHistory>>

\* Mutant: every callback may use the cookie.
ClaimsAlways == TRUE

\* claim_saml_cookie: only the first callback goes on.
Claims == ~consumed

SignInClaims(c) ==
    /\ signIns[c] = "claim"
    /\ consumed' = TRUE
    /\ \/ Claims /\ signInOpen' = FALSE /\ CallbackGoes(c, "terminate")
       \/ ~Claims /\ UNCHANGED signInOpen /\ CallbackGoes(c, "served")
    /\ UNCHANGED <<runtime, vpnWorkers, vpnChildren, hubMain, vpnNetwork, vpnHistory>>

\* start_reconnect.
ReconnectTerminates(c) ==
    /\ signIns[c] = "terminate" /\ CallbackGoes(c, "build")
    /\ TerminateChild(c)
    /\ UNCHANGED <<consumed, signInOpen, vpnWorkers, hubMain, vpnNetwork, vpnHistory>>

ReconnectBuilds(c) ==
    /\ signIns[c] = "build"
    /\ Reaped(c)
    /\ \/ /\ runtime' = [runtime EXCEPT !.stopped = FALSE, !.state = "connecting"]
          /\ CallbackGoes(c, "launch")
       \/ SetState("failed") /\ CallbackGoes(c, "served")
    /\ UNCHANGED <<consumed, signInOpen, vpnWorkers, openconnect, hubMain, vpnNetwork,
                   vpnHistory>>

ReconnectLaunches(c) ==
    /\ signIns[c] = "launch" /\ CallbackGoes(c, "served")
    /\ runtime.generation < MaxGenerations
    /\ runtime' = NextGeneration(runtime)
    /\ StartsWorker(runtime.generation + 1)
    /\ revived' = (revived \/ disconnects > 0)
    /\ UNCHANGED <<consumed, signInOpen, vpnChildren, hubMain, vpnNetwork, disconnects, overwritten>>

----------------------------------------------------------------------------
VpnNext ==
    \/ VpnConnect
    \/ VpnDisconnect
    \/ DisconnectTerminates
    \/ DisconnectForgets
    \/ DisconnectUnlocks
    \/ DisconnectLifts
    \/ DisconnectReports
    \/ SetVpnProtection
    \/ \E g \in VpnGenerations :
          \/ ChildEnds(g)
          \/ WorkerSpawns(g)
          \/ WorkerReads(g)
          \/ WorkerUnlocks(g)
          \/ WorkerLifts(g)
          \/ WorkerTakes(g)
          \/ WorkerReaps(g)
          \/ WorkerSettles(g)
          \/ WorkerEngages(g)
          \/ WorkerLocks(g)
          \/ WorkerReports(g)
    \/ \E c \in SignIns :
          \/ SignInCallsBack(c)
          \/ SignInReplays(c)
          \/ SignInClaims(c)
          \/ ReconnectTerminates(c)
          \/ ReconnectBuilds(c)
          \/ ReconnectLaunches(c)

VpnSpec == VpnInit /\ [][VpnNext]_vpnVars

----------------------------------------------------------------------------
(* The runtime and the threads are well formed, and the slot is tagged     *)
(* with a generation whose child was started and not reaped                *)
(* (take_child_for_generation and terminate_child empty it first).         *)
VpnTypeOK ==
    /\ runtime \in [state : {"none"} \cup ReapableStates \cup LiveStates, stopped : BOOLEAN,
                    generation : 0..MaxGenerations, slot : 0..MaxGenerations]
    /\ consumed \in BOOLEAN /\ signInOpen \in BOOLEAN /\ revived \in BOOLEAN
    /\ liftSkipped \in BOOLEAN /\ overwritten \subseteq VpnGenerations
    /\ \A g \in VpnGenerations :
          /\ openconnect[g] \in {"none", "up", "ok", "failed", "killed"}
          /\ takenBy[g] \in {NoThread, MainThread} \cup SignIns
          /\ vpnWorkers[g].pc \in {"none", "spawn", "loop", "unlock", "lift", "open", "reap",
                                   "ended", "dropped", "engage", "lock", "locked", "unlocked",
                                   "end"}
    /\ \A c \in SignIns :
          signIns[c] \in {"idle", "replay", "claim", "terminate", "build", "launch", "served"}
    /\ hubMain \in {"idle", "terminate", "forget", "unlock", "lift", "open"}
    /\ zone \in {"preset", "block"}
    /\ runtime.slot # 0 => openconnect[runtime.slot] \in {"up", "ok", "failed"}

\* A thread waits for the child it took: the main thread or a callback in
\* terminate_child, or the child's own worker.
Awaited(g) ==
    \/ hubMain = "forget" /\ takenBy[g] = MainThread
    \/ takenBy[g] \in SignIns /\ signIns[takenBy[g]] = "build"
    \/ vpnWorkers[g].pc = "reap"

(* No openconnect outlives its job unseen: a child that runs is in the     *)
(* slot, where disconnect, a reconnect and its own worker find it, and its *)
(* worker still reads its output; or its kill was refused and a thread     *)
(* waits for it.  The one way to lose it is another worker's store into    *)
(* the slot (vpn.rs:448), and that takes a sign-in that restarts the job   *)
(* after a disconnect.                                                     *)
TunnelsReachable ==
    /\ \A g \in VpnGenerations :
          openconnect[g] = "up" =>
              \/ runtime.slot = g /\ vpnWorkers[g].pc \in {"loop", "unlock", "lift", "open"}
              \/ Awaited(g)
              \/ g \in overwritten
    /\ overwritten # {} => revived

(* A cookie starts one reconnect: however the two callbacks of a sign-in   *)
(* and the disconnects interleave, the job is reconnected at most once,    *)
(* and once more for each disconnect, which gives the claim back           *)
(* (claim_saml_cookie).                                                    *)
SignInOnce == runtime.generation - 1 - disconnects <= 1 + disconnects

(* Every tunnel can be reached and every reconnect is owed to one sign-in. *)
ConnectionAccounted == TunnelsReachable /\ SignInOnce

(* A superseded worker that ends late leaves the newer generation alone:   *)
(* the child of the newest generation is killed only when the job was      *)
(* stopped, or by the step of a disconnect or a reconnect that empties the *)
(* slot.                                                                   *)
NewestSpared ==
    [][LET g == runtime.generation IN
       (g # 0 /\ openconnect[g] = "up" /\ openconnect'[g] \notin {"up", "ok", "failed"}) =>
           \/ runtime.stopped
           \/ hubMain = "terminate"
           \/ \E c \in SignIns : signIns[c] = "terminate"]_vpnVars

\* A thread that has yet to lift the block, or to say that it could not.
Releasing ==
    \/ hubMain \in {"unlock", "lift", "open"}
    \/ \E g \in VpnGenerations : vpnWorkers[g].pc \in {"unlock", "lift", "open"}

\* A worker that has yet to write how its lockdown went.
Reporting == \E g \in VpnGenerations : vpnWorkers[g].pc \in {"locked", "unlocked"}

(* A blocked network is not reported as a working one: while the block     *)
(* zone of a drop is in force, the job reads connected or complete only    *)
(* until a thread has lifted the block or written what became of it, or    *)
(* after a release of this very block found fail-closed off, switched off  *)
(* meanwhile or lost with an unreadable network.toml: that release is      *)
(* silent (vpn.rs:295).                                                    *)
BlockIsReported ==
    (zone = "block" /\ runtime.state \in {"connected", "complete"}) =>
        Releasing \/ Reporting \/ liftSkipped

----------------------------------------------------------------------------
(* What a comment says and the code does not do.                           *)

(* "Disconnect keeps its final status for the UI poller" (vpn_connect,     *)
(* vpn.rs:918): after a disconnect the status stays the one it wrote until *)
(* the job is started again.  The stopped worker still reads what is left  *)
(* in the pipe, and each line it reads sets the status again.              *)
FinalStatusKept ==
    (disconnects > 0 /\ hubMain = "idle" /\ runtime.stopped) =>
        runtime.state \in {"complete", "complete_firewall_open"}

=============================================================================

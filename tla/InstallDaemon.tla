--------------------------- MODULE InstallDaemon ---------------------------
(***************************************************************************)
(* kyth-installerd: request threads (installer_daemon.rs, handle), the     *)
(* native job registry, the installation's worker thread (installer_job.rs,*)
(* run_worker), the durable transaction file its executor writes, and      *)
(* event streams.                                                          *)
(*                                                                         *)
(* The registry builds a new supervisor for every accepted start, so sup   *)
(* is the sequence of the supervisors built so far; the position in sup is *)
(* the installation's true identity, its job_id is what the wire carries.  *)
(*                                                                         *)
(* Locks: gate (storage_gate) is held by partition routes, reboot and      *)
(* start; reg (NativeJobRegistry::active) by start, cancel and, while it   *)
(* waits for events, by a stream.  They are taken in this order.           *)
(***************************************************************************)
EXTENDS InstallJob, FiniteSets

CONSTANTS
    Clients,    \* connections that send requests
    Streams,    \* connections that follow /api/stream
    MaxJobs     \* bound: installations started

ASSUME ConnectionsAssumption == Clients \cap Streams = {} /\ "free" \notin Clients \cup Streams
ASSUME JobsAssumption == MaxJobs \in Nat

VARIABLES
    sup,       \* supervisors built so far
    worker,    \* the worker thread of each supervisor
    active,    \* the registry's supervisor, 0 for None
    gate, reg, \* holders of the two mutexes, or "free"
    req,       \* request threads
    known,     \* installations whose receipt was sent
    following, \* where each stream thread is
    stream,    \* its cursor and what its client received
    tx,        \* /run/kyth-installer/txn/transaction.json
    unwritten  \* history: ended installations whose last write of tx failed

serverVars == <<sup, worker, active, tx, unwritten>>
streamVars == <<following, stream>>
vars == <<serverVars, gate, reg, req, known, streamVars>>

NoWorker == [pc |-> "none", at |-> 1, result |-> "ok", ending |-> "error"]
IdleReq  == [pc |-> "idle", want |-> 0]
NoEvent  == [sup |-> 0, id |-> 0]
NoStream == [sent |-> 1, from |-> 0, batch |-> <<>>, seen |-> NoEvent]

Init ==
    /\ sup = <<>> /\ worker = <<>>
    /\ active = 0
    /\ gate = "free" /\ reg = "free"
    /\ req = [c \in Clients |-> IdleReq]
    /\ known = {}
    /\ following = [s \in Streams |-> "closed"]
    /\ stream = [s \in Streams |-> NoStream]
    /\ tx = [sup |-> 0, status |-> "none"]
    /\ unwritten = {}

\* registry.snapshot()?.is_some_and(|snapshot| snapshot.worker_active)
InstallRuns == active # 0 /\ sup[active].worker_active

Step(c, from, to) == req[c].pc = from /\ req' = [req EXCEPT ![c].pc = to]
-----------------------------------------------------------------------------
(* POST /api/start                                                         *)

Newest == Len(sup)

StartGate(c) ==
    /\ gate = "free" /\ Len(sup) < MaxJobs
    /\ Step(c, "idle", "start")
    /\ gate' = c
    /\ UNCHANGED <<serverVars, reg, known, streamVars>>

\* The request does not validate, an installation runs, or its plan is refused.
StartRefused(c) ==
    /\ Step(c, "start", "idle")
    /\ gate' = "free"
    /\ UNCHANGED <<serverVars, reg, known, streamVars>>

\* NativeJobRegistry::start up to the claim of the new supervisor's slot.
StartClaim(c) ==
    /\ reg = "free" /\ ~InstallRuns
    /\ Step(c, "start", "spawn")
    /\ reg' = c
    /\ sup' = Append(sup, Claimed(DefaultJob))
    /\ worker' = Append(worker, NoWorker)
    /\ UNCHANGED <<active, tx, unwritten, gate, known, streamVars>>

StartSpawn(c) ==
    /\ Step(c, "spawn", "install")
    /\ worker' = [worker EXCEPT ![Newest].pc = "begin"]
    /\ UNCHANGED <<sup, active, tx, unwritten, gate, reg, known, streamVars>>

\* record_job_started or the spawn fails: the new supervisor is dropped.
StartFails(c) ==
    /\ Step(c, "spawn", "idle")
    /\ sup' = [sup EXCEPT ![Newest] = StartFailed(@)]
    /\ gate' = "free" /\ reg' = "free"
    /\ UNCHANGED <<worker, active, tx, unwritten, known, streamVars>>

StartInstalled(c) ==
    /\ Step(c, "install", "idle")
    /\ active' = Newest
    /\ known' = known \cup {Newest}
    /\ gate' = "free" /\ reg' = "free"
    /\ UNCHANGED <<sup, worker, tx, unwritten, streamVars>>

StartRoute(c) ==
    \/ StartGate(c) \/ StartRefused(c) \/ StartClaim(c)
    \/ StartSpawn(c) \/ StartFails(c) \/ StartInstalled(c)
-----------------------------------------------------------------------------
(* POST /api/cancel                                                        *)

\* A client names an installation it has the receipt of; the request may
\* arrive late.
CancelSend(c) ==
    /\ req[c].pc = "idle"
    /\ \E j \in known : req' = [req EXCEPT ![c] = [pc |-> "cancel", want |-> j]]
    /\ UNCHANGED <<serverVars, gate, reg, known, streamVars>>

\* NativeJobRegistry::cancel: the job_id is compared under the registry lock.
NamesActive(c) == sup[active].job_id = sup[req[c].want].job_id

CancelRefused(c) ==
    /\ req[c].pc = "cancel"
    /\ reg = "free" /\ ~(InstallRuns /\ NamesActive(c))
    /\ req' = [req EXCEPT ![c] = IdleReq]
    /\ UNCHANGED <<serverVars, gate, reg, known, streamVars>>

CancelAccept(c) ==
    /\ Step(c, "cancel", "token")
    /\ reg = "free" /\ InstallRuns /\ NamesActive(c)
    /\ reg' = c
    /\ sup' = [sup EXCEPT ![active].cancel_requested = TRUE]
    /\ UNCHANGED <<worker, active, tx, unwritten, gate, known, streamVars>>

\* The token is set after the supervisor's lock is released.
CancelToken(c) ==
    /\ req[c].pc = "token"
    /\ req' = [req EXCEPT ![c] = IdleReq]
    /\ reg' = "free"
    /\ sup' = [sup EXCEPT ![active].token = TRUE]
    /\ UNCHANGED <<worker, active, tx, unwritten, gate, known, streamVars>>

CancelRoute(c) == CancelSend(c) \/ CancelRefused(c) \/ CancelAccept(c) \/ CancelToken(c)
-----------------------------------------------------------------------------
(* POST /api/disk/... and /api/reboot                                      *)

\* Mutant: the route looks at the worker without the gate.
OperateUngated(c) ==
    /\ Step(c, "idle", "check")
    /\ UNCHANGED <<serverVars, gate, reg, known, streamVars>>

OperateGate(c) ==
    /\ gate = "free"
    /\ Step(c, "idle", "check")
    /\ gate' = c
    /\ UNCHANGED <<serverVars, reg, known, streamVars>>

OperateLocked(c) ==
    /\ reg = "free" /\ InstallRuns
    /\ Step(c, "check", "idle")
    /\ gate' = "free"
    /\ UNCHANGED <<serverVars, reg, known, streamVars>>

OperateBegin(c) ==
    /\ reg = "free" /\ ~InstallRuns
    /\ Step(c, "check", "operate")
    /\ UNCHANGED <<serverVars, gate, reg, known, streamVars>>

OperateEnd(c) ==
    /\ Step(c, "operate", "idle")
    /\ gate' = "free"
    /\ UNCHANGED <<serverVars, reg, known, streamVars>>

StorageRoute(c) == OperateGate(c) \/ OperateLocked(c) \/ OperateBegin(c) \/ OperateEnd(c)
-----------------------------------------------------------------------------
(* The worker thread, run_worker                                           *)

WorkerAt(j, pc) == worker[j].pc = pc /\ sup[j].worker_active
Moves(j, w) == worker' = [worker EXCEPT ![j] = w]
Ends(j, ending) == Moves(j, [worker[j] EXCEPT !.pc = "record", !.ending = ending])
KeepsDaemon == UNCHANGED <<active, gate, reg, req, known, streamVars>>

WorkerBegin(j) ==
    /\ WorkerAt(j, "begin")
    /\ sup' = [sup EXCEPT ![j].lifecycle = "installing"]
    /\ Moves(j, [worker[j] EXCEPT !.pc = "top"])
    /\ UNCHANGED <<tx, unwritten>> /\ KeepsDaemon

\* token.is_cancelled() before a phase
WorkerTop(j) ==
    /\ WorkerAt(j, "top")
    /\ \/ sup[j].token /\ Ends(j, "cancelled")
       \/ ~sup[j].token /\ Moves(j, [worker[j] EXCEPT !.pc = "enter"])
    /\ UNCHANGED <<sup, tx, unwritten>> /\ KeepsDaemon

WorkerEnter(j) ==
    /\ WorkerAt(j, "enter")
    /\ sup' = [sup EXCEPT ![j] = PhaseEntered(@, PHASES[worker[j].at])]
    /\ Moves(j, [worker[j] EXCEPT !.pc = "execute"])
    /\ UNCHANGED <<tx, unwritten>> /\ KeepsDaemon

\* What a phase leaves in the transaction file: it writes "complete" at its
\* end or a progress status; a failing phase may have written it before.
PhaseStatus(i) == IF i = Len(PHASES) THEN "complete" ELSE "installing"

\* Mutant: a panic ends the thread.
WorkerExecuteUnguarded(j) ==
    LET written == [sup |-> j, status |-> PhaseStatus(worker[j].at)]
    IN  /\ WorkerAt(j, "execute")
        /\ \/ tx' = written /\ Moves(j, [worker[j] EXCEPT !.pc = "after", !.result = "ok"])
           \/ tx' \in {tx, written} /\ Moves(j, [worker[j] EXCEPT !.pc = "gone"])
        /\ UNCHANGED <<sup, unwritten>> /\ KeepsDaemon

\* A panic of the executor is an error like any other.
WorkerExecute(j) ==
    LET written == [sup |-> j, status |-> PhaseStatus(worker[j].at)]
    IN  /\ WorkerAt(j, "execute")
        /\ \/ tx' = written /\ Moves(j, [worker[j] EXCEPT !.pc = "after", !.result = "ok"])
           \/ tx' \in {tx, written} /\ Moves(j, [worker[j] EXCEPT !.pc = "after", !.result = "err"])
        /\ UNCHANGED <<sup, unwritten>> /\ KeepsDaemon

\* Mutant: one phase too many.
WorkerAfterBeyond(j) ==
    /\ WorkerAt(j, "after")
    /\ \/ sup[j].token /\ Ends(j, "cancelled")
       \/ ~sup[j].token /\ worker[j].result = "ok" /\ worker[j].at <= Len(PHASES)
          /\ Moves(j, [worker[j] EXCEPT !.pc = "top", !.at = @ + 1])
    /\ UNCHANGED <<sup, tx, unwritten>> /\ KeepsDaemon

\* The token is looked at before the result.
WorkerAfter(j) ==
    /\ WorkerAt(j, "after")
    /\ \/ sup[j].token /\ Ends(j, "cancelled")
       \/ ~sup[j].token /\ worker[j].result = "err" /\ Ends(j, "error")
       \/ ~sup[j].token /\ worker[j].result = "ok" /\ worker[j].at < Len(PHASES)
          /\ Moves(j, [worker[j] EXCEPT !.pc = "top", !.at = @ + 1])
       \/ ~sup[j].token /\ worker[j].result = "ok" /\ worker[j].at = Len(PHASES)
          /\ Moves(j, [worker[j] EXCEPT !.pc = "end"])
    /\ UNCHANGED <<sup, tx, unwritten>> /\ KeepsDaemon

\* Mutant: only the token is looked at.
CancelSeen(s) == s.token

\* The last check is made under the state lock.
CancelPending(s) == s.cancel_requested \/ s.token

\* Mutant: a cancellation at the end is not recorded.
WorkerEndUnrecorded(j) ==
    /\ WorkerAt(j, "end")
    /\ \/ CancelPending(sup[j]) /\ UNCHANGED sup
          /\ Moves(j, [worker[j] EXCEPT !.pc = "finish", !.ending = "cancelled"])
       \/ ~CancelPending(sup[j]) /\ Moves(j, [NoWorker EXCEPT !.pc = "gone"])
          /\ sup' = [sup EXCEPT ![j] = FinishedDone(@)]
    /\ UNCHANGED <<tx, unwritten>> /\ KeepsDaemon

WorkerEnd(j) ==
    /\ WorkerAt(j, "end")
    /\ \/ CancelPending(sup[j]) /\ Ends(j, "cancelled") /\ UNCHANGED sup
       \/ ~CancelPending(sup[j]) /\ Moves(j, [NoWorker EXCEPT !.pc = "gone"])
          /\ sup' = [sup EXCEPT ![j] = FinishedDone(@)]
    /\ UNCHANGED <<tx, unwritten>> /\ KeepsDaemon

\* record_cancelled, record_failed: a failing write is ignored.
WorkerRecord(j) ==
    /\ WorkerAt(j, "record")
    /\ \/ tx' = [sup |-> j, status |-> "failed"] /\ UNCHANGED unwritten
       \/ UNCHANGED tx /\ unwritten' = unwritten \cup {j}
    /\ Moves(j, [worker[j] EXCEPT !.pc = "finish"])
    /\ UNCHANGED sup /\ KeepsDaemon

WorkerFinish(j) ==
    /\ WorkerAt(j, "finish")
    /\ sup' = [sup EXCEPT ![j] = finish_terminal(@, worker[j].ending)]
    /\ Moves(j, [NoWorker EXCEPT !.pc = "gone"])
    /\ UNCHANGED <<tx, unwritten>> /\ KeepsDaemon

Worker(j) ==
    \/ WorkerBegin(j) \/ WorkerTop(j) \/ WorkerEnter(j) \/ WorkerExecute(j)
    \/ WorkerAfter(j) \/ WorkerEnd(j) \/ WorkerRecord(j) \/ WorkerFinish(j)
-----------------------------------------------------------------------------
(* GET /api/stream, native_stream                                          *)

StreamMoves(s, from, to) == following[s] = from /\ following' = [following EXCEPT ![s] = to]
Follow(s, t) == stream' = [stream EXCEPT ![s] = t]
KeepsServer == UNCHANGED <<serverVars, gate, req, known>>

\* A new subscription, or a reconnection with Last-Event-ID.
StreamOpen(s) ==
    /\ reg = "free" /\ active # 0
    /\ \/ StreamMoves(s, "closed", "replay") /\ Follow(s, NoStream)
       \/ StreamMoves(s, "lost", "replay")
          /\ Follow(s, [stream[s] EXCEPT !.sent = stream[s].seen.id + 1])
    /\ UNCHANGED reg /\ KeepsServer

StreamReplay(s) ==
    LET t == stream[s]
        events == EventsAfter(sup[active], t.sent - 1)
        reset == ResetRequired(sup[active], t.sent - 1)
    IN  /\ reg = "free"
        /\ StreamMoves(s, "replay", IF events = <<>> THEN "wait" ELSE "write")
        /\ Follow(s, [t EXCEPT !.sent = IF reset THEN Head(events).id ELSE @,
                               !.batch = events, !.from = active])
        /\ UNCHANGED reg /\ KeepsServer

\* One frame; the stream ends with the first terminal event.
StreamWrite(s) ==
    LET t == stream[s]
        event == Head(t.batch)
        seen == [sup |-> t.from, id |-> event.id]
    IN  /\ following[s] = "write"
        /\ \/ event.kind \in Endings /\ StreamMoves(s, "write", "closed")
              /\ Follow(s, [NoStream EXCEPT !.seen = seen])
           \/ event.kind \notin Endings
              /\ StreamMoves(s, "write", IF Tail(t.batch) = <<>> THEN "wait" ELSE "write")
              /\ Follow(s, [t EXCEPT !.sent = event.id + 1, !.batch = Tail(@), !.seen = seen])
        /\ UNCHANGED reg /\ KeepsServer

\* The connection breaks; its thread notices at the next write.
StreamLost(s) ==
    /\ \E from \in {"replay", "write"} : StreamMoves(s, from, "lost")
    /\ Follow(s, [NoStream EXCEPT !.seen = stream[s].seen])
    /\ UNCHANGED reg /\ KeepsServer

\* wait_for_events: the registry lock is held for the whole wait.
StreamWait(s) ==
    /\ reg = "free" /\ StreamMoves(s, "wait", "waiting")
    /\ reg' = s
    /\ UNCHANGED stream /\ KeepsServer

\* New events, or 15 seconds without one and a keepalive.
StreamWake(s) ==
    /\ StreamMoves(s, "waiting", "replay")
    /\ reg' = "free"
    /\ UNCHANGED stream /\ KeepsServer

Stream(s) ==
    \/ StreamOpen(s) \/ StreamReplay(s) \/ StreamWrite(s)
    \/ StreamLost(s) \/ StreamWait(s) \/ StreamWake(s)
-----------------------------------------------------------------------------
Next ==
    \/ \E c \in Clients : StartRoute(c) \/ CancelRoute(c) \/ StorageRoute(c)
    \/ \E j \in DOMAIN sup : Worker(j)
    \/ \E s \in Streams : Stream(s)

Spec == Init /\ [][Next]_vars

\* Threads are scheduled: a started worker's steps happen, its executor
\* returns, and a start that claimed the slot goes on.  Nothing is assumed
\* of clients, of streams or of who gets a contended lock.
Fairness ==
    /\ \A j \in 1..MaxJobs : WF_vars(j \in DOMAIN sup /\ Worker(j))
    /\ \A c \in Clients : WF_vars(StartSpawn(c)) /\ WF_vars(StartInstalled(c))

FairSpec == Spec /\ Fairness
-----------------------------------------------------------------------------
ServerTypeOK ==
    /\ sup \in Seq(JobState)
    /\ worker \in Seq([pc : {"none", "begin", "top", "enter", "execute", "after",
                             "end", "record", "finish", "gone"},
                       at : 1..Len(PHASES), result : {"ok", "err"},
                       ending : {"error", "cancelled"}])
    /\ Len(worker) = Len(sup)
    /\ active \in 0..Len(sup)
    /\ gate \in Clients \cup {"free"}
    /\ reg \in Clients \cup Streams \cup {"free"}
    /\ req \in [Clients -> [pc : {"idle", "start", "spawn", "install", "cancel", "token",
                                  "check", "operate"},
                            want : Nat]]
    /\ known \subseteq DOMAIN sup
    /\ tx \in [sup : Nat, status : {"none", "installing", "complete", "failed"}]
    /\ unwritten \subseteq DOMAIN sup
    /\ following \in [Streams -> {"closed", "lost", "replay", "write", "wait", "waiting"}]

StreamTypeOK ==
    stream \in [Streams -> [sent : Nat, from : Nat, batch : Seq(Event),
                            seen : [sup : Nat, id : Nat]]]

TypeOK == ServerTypeOK /\ StreamTypeOK

\* No partition is changed and no reboot begun while an installation owns the
\* disk, although the routes look at the worker and act later (handle: "leaves
\* a check-then-act race").
StorageExclusive ==
    \A c \in Clients : req[c].pc = "operate" => \A j \in DOMAIN sup : ~sup[j].worker_active

\* Once an installation has ended, the transaction file says how, unless its
\* last write failed: a cancellation that beats "done" also takes back the
\* "complete" the last phase wrote, and no earlier worker overwrites the record.
TransactionAgrees ==
    \A j \in DOMAIN sup :
        (sup[j].terminal_event_id # 0 /\ j \notin unwritten /\ tx.sup <= j) =>
            tx = [sup |-> j, status |-> IF sup[j].lifecycle = "done" THEN "complete" ELSE "failed"]

\* Within one installation a subscriber, reconnections included, is sent the
\* event after the last one it saw, unless that one has left the history
\* (installer_job.rs: "every subscriber sees the same ordering").
StreamInOrder ==
    [][\A s \in Streams :
          LET before == stream[s].seen
              after == stream'[s].seen
          IN  (after # before /\ after.sup = before.sup /\ after.sup # 0) =>
                  \/ after.id = before.id + 1
                  \/ before.id + 1 < Head(sup[after.sup].history).id /\ after.id > before.id]_vars

OwnsSlot(j) == j \in DOMAIN sup /\ sup[j].worker_active

\* An accepted installation always gives its slot back, whatever clients and
\* streams do ("a disconnected client must not stop ... installation").
JobEnds ==
    \A j \in 1..MaxJobs : OwnsSlot(j) ~> ~OwnsSlot(j)

\* A cancellation reaches only the installation it names (docs: "a replayed
\* cancel for a finished job can never kill a newer install").
CancelHitsItsJob ==
    [][\A j \in DOMAIN sup :
          (sup'[j].cancel_requested /\ ~sup[j].cancel_requested) =>
              \E c \in Clients : req[c].pc = "cancel" /\ req[c].want = j]_vars

Outcome(s) ==
    IF s.worker_active THEN "running"
    ELSE IF s.terminal_event_id = 0 THEN "refused"
    ELSE s.history[Len(s.history)].kind

Slot == INSTANCE InstallSlot WITH
    outcome <- [j \in DOMAIN sup |-> Outcome(sup[j])],
    cancel <- (Newest # 0 /\ sup[Newest].cancel_requested),
    operating <- {c \in Clients : req[c].pc = "operate"}

\* The daemon implements InstallSlot: start, cancel and the worker's end are
\* the only steps that change what a client is told of its installation.
ImplementsSlot == Slot!SlotSpec
-----------------------------------------------------------------------------
(* The inductive invariant behind StorageExclusive and ImplementsSlot      *)

\* Who is between a lock and its unlock holds the lock.
LocksHeld ==
    /\ \A c \in Clients :
          /\ req[c].pc \in {"start", "spawn", "install", "check", "operate"} => gate = c
          /\ req[c].pc \in {"spawn", "install", "token"} => reg = c
    /\ \A s \in Streams : following[s] = "waiting" => reg = s

\* Only the newest supervisor has a worker, and the registry knows it unless
\* its start is still under way.
NewestRuns ==
    \A j \in DOMAIN sup : sup[j].worker_active =>
        /\ j = Newest
        /\ j = active \/ \E c \in Clients : req[c].pc \in {"spawn", "install"}

\* A start under way refers to the newest supervisor.
StartsNewest ==
    \A c \in Clients :
        /\ req[c].pc \in {"spawn", "install"} => Newest # 0
        /\ req[c].pc = "spawn" =>
              /\ sup[Newest].worker_active
              /\ sup[Newest].terminal_event_id = 0
              /\ worker[Newest].pc = "none"
        /\ req[c].pc = "token" => active # 0

\* A worker ends its installation as cancelled only after an accepted request.
CancelAccepted ==
    /\ \A j \in DOMAIN sup : sup[j].worker_active =>
          /\ sup[j].token => sup[j].cancel_requested
          /\ (worker[j].pc \in {"record", "finish"} /\ worker[j].ending = "cancelled") =>
                sup[j].cancel_requested
    /\ \A c \in Clients :
          (req[c].pc = "token" /\ sup[active].worker_active) => sup[active].cancel_requested

IInv ==
    /\ ServerTypeOK
    /\ LocksHeld
    /\ NewestRuns
    /\ StartsNewest
    /\ CancelAccepted
    /\ StorageExclusive
=============================================================================

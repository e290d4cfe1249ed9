------------------------------ MODULE JobStore ------------------------------
(***************************************************************************)
(* The bounded background-job store of the Hub (system/jobs.rs) together   *)
(* with the worker threads that run its jobs (commands/job.rs,             *)
(* commands/privilege.rs, system/process.rs).                              *)
(*                                                                         *)
(* A command of the Hub registers a job and spawns its worker; the page    *)
(* polls the job's status and may cancel it.  A "process" worker runs a    *)
(* child it kills once its cancellation flag is set; a "socket" worker     *)
(* looks at the flag once and then waits for the privileged service.  The  *)
(* store's mutex makes each operation one step; what interleaves is the    *)
(* worker's own life: begin, run, and report when it is through.           *)
(*                                                                         *)
(* A job id is the clock reading of its start and, when that id is already *)
(* tracked, the suffix that made it unique: <<reading, round>>.  Commands  *)
(* run one after the other on the main thread, so only starts that follow  *)
(* each other directly can read the same time, and fewer than the store    *)
(* holds (MaxSameReading < MaxTracked; the store holds 256).               *)
(***************************************************************************)
EXTENDS Integers, Sequences, FiniteSets, SequencesExt

CONSTANTS
    MaxTracked,       \* MAX_JOBS
    MaxJobStarts,     \* bound: jobs started in one behaviour
    MaxSameReading    \* bound: consecutive starts that read the same time

ASSUME JobStoreAssumption ==
    /\ MaxTracked \in Nat \ {0}
    /\ MaxJobStarts \in Nat
    /\ MaxSameReading \in 1..(MaxTracked - 1)

VARIABLES
    jobs,       \* entries: tracked id -> its entry
    queue,      \* order: ids, oldest first
    workers,    \* one record per job ever started, its generation the index
    reading,    \* the clock, as new_job_id reads it
    sameStarts  \* starts made at this reading

jobVars == <<jobs, queue, workers, reading, sameStarts>>

\* "finished" stands for complete and failed, which the store treats alike.
JobStates == {"running", "finished", "cancelled"}
JobDetails == {"pending", "phase", "result", "cancelled"}
Generations == 1..Len(workers)

\* is_terminal: a state other than running.
IsTerminal(entry) == entry.state # "running"

JobInit ==
    /\ jobs = <<>>
    /\ queue = <<>>
    /\ workers = <<>>
    /\ reading = 0
    /\ sameStarts = 0

-----------------------------------------------------------------------------
(* The store's private operations, on its two fields as a record.          *)

Inner == [entries |-> jobs, order |-> queue]

\* VecDeque::retain: the n-th id kept is the one with n kept ids up to it.
Retain(order, ids) ==
    LET kept == {i \in DOMAIN order : order[i] \notin ids}
        upTo(i) == Cardinality({k \in kept : k <= i})
    IN  [n \in 1..Cardinality(kept) |-> order[CHOOSE i \in kept : upTo(i) = n]]

Without(inner, ids) ==
    [entries |-> [id \in DOMAIN inner.entries \ ids |-> inner.entries[id]],
     order |-> Retain(inner.order, ids)]

\* prune_locked: drop the entries that finished more than TERMINAL_TTL ago,
\* and their ids in the eviction queue.  Which terminal entries are that old
\* is the clock's choice.
Finished(inner) == {id \in DOMAIN inner.entries : IsTerminal(inner.entries[id])}

prune(inner, old) == Without(inner, old)

\* The entry to evict: the oldest terminal one, else the oldest.
Victim(inner) ==
    LET finished == {i \in DOMAIN inner.order : IsTerminal(inner.entries[inner.order[i]])}
    IN  inner.order[IF finished # {} THEN Min(finished) ELSE 1]

\* evict_locked.  The store never holds more than MAX_JOBS, so its loop runs
\* at most once.
Full(inner) == Cardinality(DOMAIN inner.entries) >= MaxTracked

\* Mutant: nothing is evicted.
EvictNever(inner) == inner

evict(inner) == IF Full(inner) THEN Without(inner, {Victim(inner)}) ELSE inner

\* Mutant: a running job that is evicted is not told.
SignalledNever(inner) == {}

\* The generation whose flag eviction sets: a running victim's.
Signalled(inner) ==
    IF Full(inner) /\ ~IsTerminal(inner.entries[Victim(inner)])
    THEN {inner.entries[Victim(inner)].gen} ELSE {}

\* Mutant: no suffix.
BareId(inner, base) == <<base, 1>>

\* The id start settles on: the bare reading, else the first free suffix.
UniqueId(inner, base) ==
    LET free == {round \in 1..(MaxTracked + 1) : <<base, round>> \notin DOMAIN inner.entries}
    IN  <<base, Min(free)>>

Raise(gens) ==
    [g \in Generations |->
        [workers[g] EXCEPT !.flag = @ \/ g \in gens]]

SetInner(inner) ==
    /\ jobs' = inner.entries
    /\ queue' = inner.order

-----------------------------------------------------------------------------
(* Commands of the Hub.                                                    *)

\* start and the spawn of the worker with the entry's flag: privileged_action,
\* or start_job followed by spawn_argv_job on the same thread.
JobStart(kind, later, old) ==
    /\ Len(workers) < MaxJobStarts
    /\ later \/ sameStarts \in 1..(MaxSameReading - 1)
    /\ reading' = IF later THEN reading + 1 ELSE reading
    /\ sameStarts' = IF later THEN 1 ELSE sameStarts + 1
    /\ LET pruned == prune(Inner, old)
           room == evict(pruned)
           id == UniqueId(room, reading')
           gen == Len(workers) + 1
       IN  /\ SetInner(
                [entries |-> [i \in DOMAIN room.entries \cup {id} |->
                                IF i = id
                                THEN [state |-> "running", detail |-> "pending",
                                      gen |-> gen, by |-> gen]
                                ELSE room.entries[i]],
                 order |-> Append(room.order, id)])
           /\ workers' = Append(Raise(Signalled(pruned)),
                           [id |-> id, kind |-> kind, flag |-> FALSE,
                            phase |-> IF kind = "socket" THEN "spawned" ELSE "running"])

\* job_status of any id: the entries that outlived their TTL go.
JobStatus(old) ==
    /\ SetInner(prune(Inner, old))
    /\ UNCHANGED <<workers, reading, sameStarts>>

\* cancel; the status cancel_job answers with is JobStatus.  The next start
\* reads a later time.
Cancelled(entry) == [entry EXCEPT !.state = "cancelled", !.detail = "cancelled"]

JobCancel(id) ==
    /\ jobs[id].state = "running"
    /\ SetInner([Inner EXCEPT !.entries[id] = Cancelled(@)])
    /\ workers' = Raise({jobs[id].gen})
    /\ sameStarts' = 0
    /\ UNCHANGED reading

-----------------------------------------------------------------------------
(* Worker threads.                                                         *)

\* A socket worker's thread starts: cancelled by then, it asks for nothing.
WorkerBegins(g) ==
    /\ workers[g].phase = "spawned"
    /\ workers' = [workers EXCEPT
                     ![g].phase = IF workers[g].flag THEN "dismissed" ELSE "running"]
    /\ UNCHANGED <<jobs, queue, reading, sameStarts>>

\* update_job: progress text, refused once the job is not running.
update_detail(id, gen) ==
    IF id \in DOMAIN jobs /\ jobs[id].state = "running"
    THEN [jobs EXCEPT ![id].detail = "phase", ![id].by = gen] ELSE jobs

WorkerProgresses(g) ==
    /\ workers[g].phase = "running" /\ workers[g].kind = "process"
    /\ update_detail(workers[g].id, g) # jobs
    /\ jobs' = update_detail(workers[g].id, g)
    /\ UNCHANGED <<queue, workers, reading, sameStarts>>

\* Mutant: the result is written over a cancellation.
FinishAnyway(id, gen, result) ==
    IF id \in DOMAIN jobs
    THEN [jobs EXCEPT ![id].state = result, ![id].detail = "result", ![id].by = gen]
    ELSE jobs

\* finish: never over a cancelled entry; an unknown id is ignored.
finish(id, gen, result) ==
    IF id \in DOMAIN jobs /\ jobs[id].state # "cancelled"
    THEN [jobs EXCEPT ![id].state = result, ![id].detail = "result", ![id].by = gen]
    ELSE jobs

\* The worker is through and reports: a dismissed one that it was cancelled,
\* another what its child (run_bounded_command_cancel returned: it exited,
\* never started, ran out of time or was killed on the flag) or the service
\* answered.
WorkerReports(g, result) ==
    /\ \/ workers[g].phase = "running" /\ result = "finished"
       \/ workers[g].phase = "dismissed" /\ result = "cancelled"
    /\ jobs' = finish(workers[g].id, g, result)
    /\ workers' = [workers EXCEPT ![g].phase = "done"]
    /\ UNCHANGED <<queue, reading, sameStarts>>

JobNext ==
    \/ \E kind \in {"process", "socket"}, later \in BOOLEAN,
          old \in SUBSET Finished(Inner) : JobStart(kind, later, old)
    \/ \E old \in SUBSET Finished(Inner) : JobStatus(old)
    \/ \E id \in DOMAIN jobs : JobCancel(id)
    \/ \E g \in Generations : WorkerBegins(g)
    \/ \E g \in Generations : WorkerProgresses(g)
    \/ \E g \in Generations, result \in JobStates : WorkerReports(g, result)

JobSpec == JobInit /\ [][JobNext]_jobVars

-----------------------------------------------------------------------------
(* Properties.                                                             *)

\* Type correctness; the store never holds more than MAX_JOBS entries.
JobTypeOK ==
    /\ \A id \in DOMAIN jobs :
          /\ id \in (1..reading) \X (1..MaxTracked)
          /\ jobs[id] \in [state : JobStates, detail : JobDetails,
                           gen : Generations, by : Generations]
    /\ Cardinality(DOMAIN jobs) <= MaxTracked
    /\ queue \in Seq(DOMAIN jobs)
    /\ workers \in Seq([id : Nat \X Nat, kind : {"process", "socket"}, flag : BOOLEAN,
                        phase : {"spawned", "running", "dismissed", "done"}])
    /\ reading \in Nat /\ sameStarts \in 0..MaxSameReading

\* The eviction queue lists exactly the tracked jobs, each once: churn of
\* short jobs neither grows it (prune_locked's comment) nor hides a job from
\* eviction.
QueueTracksJobs ==
    /\ ToSet(queue) = DOMAIN jobs
    /\ Len(queue) = Cardinality(DOMAIN jobs)

\* What an entry says was written for its own job: no worker of another job,
\* evicted or started at the same clock reading, reports under its id
\* (start's comment: finishes would land on the wrong entry).
OwnReports == \A id \in DOMAIN jobs : jobs[id].by = jobs[id].gen

\* The store's table, its queue and its reports belong together through
\* evictions, prunings and colliding ids.
StoreConsistent == QueueTracksJobs /\ OwnReports

\* A child process nobody tracks as running any more, because its job was
\* cancelled or evicted, has been told to stop: it cannot keep changing the
\* system after the Hub lost its id (evict_locked's comment).
UntrackedAreSignalled ==
    \A g \in Generations :
        /\ workers[g].phase \in {"spawned", "running"}
        /\ ~ \E id \in DOMAIN jobs : jobs[id].gen = g /\ jobs[id].state = "running"
        => workers[g].flag

\* A cancelled job stays cancelled and keeps its text for as long as it is
\* tracked, whatever its worker still reports.
CancelSticks ==
    [][\A id \in DOMAIN jobs \cap DOMAIN jobs' :
          jobs[id].state = "cancelled" /\ jobs'[id].gen = jobs[id].gen =>
            jobs'[id].state = "cancelled" /\ jobs'[id].detail = "cancelled"]_jobVars

=============================================================================

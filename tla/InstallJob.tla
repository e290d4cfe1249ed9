----------------------------- MODULE InstallJob -----------------------------
(***************************************************************************)
(* The locked state of one JobSupervisor (installer_job.rs) and what each  *)
(* critical section does to it.  Messages and thread ids are dropped.      *)
(* job_id and terminal_event_id are 0 for None; next_job_id always equals  *)
(* job_id.  The cancellation token, an atomic flag shared by the           *)
(* supervisor and its worker, is the field token.                          *)
(***************************************************************************)
EXTENDS Naturals, Sequences

CONSTANTS
    PHASES,       \* the phases of an installation, in order; "complete" is last
    MaxHistory    \* MAX_EVENT_HISTORY: events kept for replay

PhaseNames == {"prepare", "storage", "image", "configure", "secure_boot", "complete"}

ASSUME PhasesAssumption ==
    /\ PHASES \in Seq(PhaseNames)
    /\ Len(PHASES) # 0
    /\ \A i \in 1..Len(PHASES) : PHASES[i] = "complete" <=> i = Len(PHASES)
ASSUME HistoryAssumption == MaxHistory \in Nat \ {0}

Endings == {"done", "error", "cancelled"}
Lifecycles == {"idle", "validated", "installing", "done", "failed"}

Event == [id : Nat \ {0}, kind : PhaseNames \cup Endings]

JobState ==
    [job_id : Nat,
     next_event_id : Nat,
     lifecycle : Lifecycles,
     phase : PhaseNames,
     cancel_requested : BOOLEAN,
     token : BOOLEAN,
     worker_active : BOOLEAN,
     terminal_event_id : Nat,
     history : Seq(Event)]

DefaultJob ==
    [job_id |-> 0, next_event_id |-> 0, lifecycle |-> "idle", phase |-> "prepare",
     cancel_requested |-> FALSE, token |-> FALSE, worker_active |-> FALSE,
     terminal_event_id |-> 0, history |-> <<>>]

\* start: the slot is claimed before the thread is spawned.
Claimed(s) ==
    [s EXCEPT !.job_id = @ + 1, !.lifecycle = "validated", !.phase = "prepare",
              !.cancel_requested = FALSE, !.token = FALSE, !.worker_active = TRUE,
              !.terminal_event_id = 0]

\* The job id could not be recorded or the thread not be spawned: the slot is
\* given back and no event is published.
StartFailed(s) ==
    [s EXCEPT !.worker_active = FALSE, !.lifecycle = "failed", !.cancel_requested = FALSE]

\* Ids are assigned under the lock; the oldest event is dropped at the limit.
append_event(s, kind) ==
    LET event == [id |-> s.next_event_id + 1, kind |-> kind]
        longer == Append(s.history, event)
    IN  [s EXCEPT !.next_event_id = event.id,
                  !.history = IF Len(longer) > MaxHistory THEN Tail(longer) ELSE longer]

PhaseEntered(s, phase) == [append_event(s, phase) EXCEPT !.phase = phase]

\* finish_error, finish_cancelled
finish_terminal(s, ending) ==
    [append_event(s, ending) EXCEPT
        !.lifecycle = "failed", !.cancel_requested = FALSE, !.worker_active = FALSE,
        !.terminal_event_id = s.next_event_id + 1]

FinishedDone(s) ==
    [append_event(s, "done") EXCEPT
        !.lifecycle = "done", !.phase = "complete", !.cancel_requested = FALSE,
        !.worker_active = FALSE, !.terminal_event_id = s.next_event_id + 1]

\* Mutant: the newest events come first.
EventsAfterReversed(s, last) ==
    LET newer(e) == e.id > last
        events == SelectSeq(s.history, newer)
    IN  [i \in DOMAIN events |-> events[Len(events) + 1 - i]]

\* replay_locked: the history is filtered in its order.
EventsAfter(s, last) ==
    LET newer[n \in 0 .. Len(s.history)] ==
          IF n = 0 THEN <<>>
          ELSE IF s.history[n].id > last THEN Append(newer[n - 1], s.history[n])
          ELSE newer[n - 1]
    IN  newer[Len(s.history)]

ResetRequired(s, last) == s.history # <<>> /\ last + 1 < Head(s.history).id
=============================================================================

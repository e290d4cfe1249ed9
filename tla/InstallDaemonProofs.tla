------------------------ MODULE InstallDaemonProofs ------------------------
(***************************************************************************)
(* For any number of clients, streams, installations and phases and any    *)
(* history limit: no partition change or reboot beside an installation,    *)
(* the transaction record tells what happened, the streams tell every      *)
(* event in order, and the daemon implements InstallSlot.                  *)
(***************************************************************************)
EXTENDS InstallDaemon, Induction, TLAPS

WorkerState ==
    [pc : {"none", "begin", "top", "enter", "execute", "after",
           "end", "record", "finish", "gone"},
     at : 1..Len(PHASES), result : {"ok", "err"}, ending : {"error", "cancelled"}]
-----------------------------------------------------------------------------
(* Sequences and supervisor states                                         *)

\* Replacing one element of a sequence (every write of sup and worker).
LEMMA SeqUpdate ==
    ASSUME NEW S, NEW q \in Seq(S), NEW i \in DOMAIN q, NEW v \in S
    PROVE  /\ [q EXCEPT ![i] = v] \in Seq(S)
           /\ Len([q EXCEPT ![i] = v]) = Len(q)
           /\ DOMAIN [q EXCEPT ![i] = v] = DOMAIN q
           /\ [q EXCEPT ![i] = v][i] = v
           /\ \A k \in DOMAIN q : k # i => [q EXCEPT ![i] = v][k] = q[k]
OBVIOUS

\* Appending to a sequence (a new supervisor, a new event).
LEMMA SeqAppend ==
    ASSUME NEW S, NEW q \in Seq(S), NEW v \in S
    PROVE  /\ Append(q, v) \in Seq(S)
           /\ Len(Append(q, v)) = Len(q) + 1
           /\ DOMAIN Append(q, v) = 1..(Len(q) + 1)
           /\ Append(q, v)[Len(q) + 1] = v
           /\ \A k \in DOMAIN q : Append(q, v)[k] = q[k]
OBVIOUS

\* The history keeps the new event last, also when it drops the oldest one.
LEMMA HistoryKeepsNewest ==
    ASSUME NEW q \in Seq(Event), NEW v \in Event,
           NEW h, h = IF Len(Append(q, v)) > MaxHistory THEN Tail(Append(q, v)) ELSE Append(q, v)
    PROVE  h \in Seq(Event) /\ Len(h) # 0 /\ h[Len(h)] = v
<1> DEFINE a == Append(q, v)
<1>1. a \in Seq(Event) /\ Len(a) = Len(q) + 1 /\ a[Len(a)] = v
  BY SeqAppend
<1>2. Len(q) \in Nat OBVIOUS
<1>3. CASE Len(a) > MaxHistory
  <2>1. Len(a) > 1 BY <1>1, <1>2, <1>3, HistoryAssumption
  <2> HIDE DEF a
  <2>2. /\ Tail(a) \in Seq(Event)
        /\ Len(Tail(a)) = Len(a) - 1
        /\ Tail(a)[Len(a) - 1] = a[Len(a)]
    BY <1>1, <1>2, <2>1
  <2> USE DEF a
  <2> QED BY <2>1, <2>2, <1>1, <1>2, <1>3
<1>4. CASE ~(Len(a) > MaxHistory)
  BY <1>1, <1>2, <1>4
<1> QED BY <1>3, <1>4

\* append_event assigns the next id and leaves the rest of the state alone.
LEMMA AppendEvent ==
    ASSUME NEW s \in JobState, NEW k \in PhaseNames \cup Endings
    PROVE  /\ append_event(s, k) \in JobState
           /\ append_event(s, k).history # <<>>
           /\ append_event(s, k).history[Len(append_event(s, k).history)].kind = k
           /\ append_event(s, k).worker_active = s.worker_active
           /\ append_event(s, k).token = s.token
           /\ append_event(s, k).cancel_requested = s.cancel_requested
           /\ append_event(s, k).terminal_event_id = s.terminal_event_id
<1> DEFINE e == [id |-> s.next_event_id + 1, kind |-> k]
           a == Append(s.history, e)
           h == IF Len(a) > MaxHistory THEN Tail(a) ELSE a
           r == [s EXCEPT !.next_event_id = e.id, !.history = h]
<1>1. e \in Event BY DEF JobState, Event
<1>2. s.history \in Seq(Event) BY DEF JobState
<1>3. h \in Seq(Event) /\ Len(h) # 0 /\ h[Len(h)] = e
  BY <1>1, <1>2, HistoryKeepsNewest
<1>4. append_event(s, k) = r BY DEF append_event
<1>5. e.kind = k /\ e.id \in Nat BY DEF JobState
<1> HIDE DEF h, e
<1>6. r \in JobState /\ r.history = h /\ r.worker_active = s.worker_active
      /\ r.token = s.token /\ r.cancel_requested = s.cancel_requested
      /\ r.terminal_event_id = s.terminal_event_id
  BY <1>3, <1>5 DEF JobState
<1> QED BY <1>3, <1>4, <1>5, <1>6

\* What each critical section of the supervisor does to the fields that the
\* slot is made of.
LEMMA Supervisor ==
    ASSUME NEW s \in JobState
    PROVE  /\ \A p \in PhaseNames :
                 LET t == PhaseEntered(s, p)
                 IN  t \in JobState /\ t.worker_active = s.worker_active
                     /\ t.token = s.token /\ t.cancel_requested = s.cancel_requested
           /\ \A k \in {"error", "cancelled"} :
                 LET t == finish_terminal(s, k)
                 IN  t \in JobState /\ ~t.worker_active /\ ~t.cancel_requested
                     /\ t.terminal_event_id # 0 /\ t.history[Len(t.history)].kind = k
           /\ LET t == FinishedDone(s)
              IN  t \in JobState /\ ~t.worker_active /\ ~t.cancel_requested
                  /\ t.terminal_event_id # 0 /\ t.history[Len(t.history)].kind = "done"
           /\ LET t == StartFailed(s)
              IN  t \in JobState /\ ~t.worker_active /\ ~t.cancel_requested
                  /\ t.terminal_event_id = s.terminal_event_id
<1>1. ASSUME NEW p \in PhaseNames
      PROVE  LET t == PhaseEntered(s, p)
             IN  t \in JobState /\ t.worker_active = s.worker_active
                 /\ t.token = s.token /\ t.cancel_requested = s.cancel_requested
  <2> DEFINE a == append_event(s, p)
  <2>1. a \in JobState /\ a.worker_active = s.worker_active
        /\ a.token = s.token /\ a.cancel_requested = s.cancel_requested
    BY AppendEvent
  <2>2. PhaseEntered(s, p) = [a EXCEPT !.phase = p] BY DEF PhaseEntered
  <2> HIDE DEF a
  <2> QED BY <2>1, <2>2 DEF JobState
<1>2. ASSUME NEW k \in {"error", "cancelled"}
      PROVE  LET t == finish_terminal(s, k)
             IN  t \in JobState /\ ~t.worker_active /\ ~t.cancel_requested
                 /\ t.terminal_event_id # 0 /\ t.history[Len(t.history)].kind = k
  <2> DEFINE a == append_event(s, k)
  <2>1. a \in JobState /\ a.history[Len(a.history)].kind = k
    BY AppendEvent DEF Endings
  <2> DEFINE n == s.next_event_id + 1
             t == [a EXCEPT !.lifecycle = "failed", !.cancel_requested = FALSE,
                            !.worker_active = FALSE, !.terminal_event_id = n]
  <2>2. finish_terminal(s, k) = t BY DEF finish_terminal
  <2>3. n \in Nat /\ n # 0 BY DEF JobState
  <2> HIDE DEF a, n
  <2>4. t \in JobState /\ t.worker_active = FALSE /\ t.cancel_requested = FALSE
        /\ t.terminal_event_id = n /\ t.history = a.history
    BY <2>1, <2>3 DEF JobState, Lifecycles
  <2> HIDE DEF t
  <2> QED BY <2>1, <2>2, <2>3, <2>4
<1>3. LET t == FinishedDone(s)
      IN  t \in JobState /\ ~t.worker_active /\ ~t.cancel_requested
          /\ t.terminal_event_id # 0 /\ t.history[Len(t.history)].kind = "done"
  <2> DEFINE a == append_event(s, "done")
  <2>1. a \in JobState /\ a.history[Len(a.history)].kind = "done"
    BY AppendEvent DEF Endings
  <2> DEFINE n == s.next_event_id + 1
             t == [a EXCEPT !.lifecycle = "done", !.phase = "complete", !.cancel_requested = FALSE,
                            !.worker_active = FALSE, !.terminal_event_id = n]
  <2>2. FinishedDone(s) = t BY DEF FinishedDone
  <2>3. n \in Nat /\ n # 0 BY DEF JobState
  <2> HIDE DEF a, n
  <2>4. t \in JobState /\ t.worker_active = FALSE /\ t.cancel_requested = FALSE
        /\ t.terminal_event_id = n /\ t.history = a.history
    BY <2>1, <2>3 DEF JobState, Lifecycles, PhaseNames
  <2> HIDE DEF t
  <2> QED BY <2>1, <2>2, <2>3, <2>4
<1>4. LET t == StartFailed(s)
      IN  t \in JobState /\ ~t.worker_active /\ ~t.cancel_requested
          /\ t.terminal_event_id = s.terminal_event_id
  BY DEF StartFailed, JobState, Lifecycles
<1> QED BY <1>1, <1>2, <1>3, <1>4

\* The supervisor that a start builds.
LEMMA NewSupervisor ==
    LET t == Claimed(DefaultJob)
    IN  t \in JobState /\ t.worker_active /\ ~t.token /\ ~t.cancel_requested
        /\ t.terminal_event_id = 0
<1> DEFINE d == DefaultJob
           n == d.job_id + 1
           t == [d EXCEPT !.job_id = n, !.lifecycle = "validated", !.phase = "prepare",
                          !.cancel_requested = FALSE, !.token = FALSE, !.worker_active = TRUE,
                          !.terminal_event_id = 0]
<1>1. d \in JobState
  BY DEF DefaultJob, JobState, Lifecycles, PhaseNames
<1>2. Claimed(DefaultJob) = t BY DEF Claimed
<1>3. n \in Nat BY <1>1 DEF JobState
<1> HIDE DEF d, n
<1>4. t \in JobState /\ t.worker_active = TRUE /\ t.token = FALSE
      /\ t.cancel_requested = FALSE /\ t.terminal_event_id = 0
  BY <1>1, <1>3 DEF JobState, Lifecycles, PhaseNames
<1> QED BY <1>2, <1>4
-----------------------------------------------------------------------------
(* The worker                                                              *)

\* One element of sup and one of worker change in a worker step.
WorkerWrites(j, u, w) ==
    /\ sup' = [sup EXCEPT ![j] = u]
    /\ worker' = [worker EXCEPT ![j] = w]
    /\ UNCHANGED <<active, gate, reg, req, known, streamVars>>
    /\ tx' \in [sup : Nat, status : {"none", "installing", "complete", "failed"}]
    /\ unwritten' \subseteq DOMAIN sup

\* What a worker step may do to its installation: go on without touching the
\* cancellation, or end it in a way the cancellation allows.
WorkerAllowed(j, u, w) ==
    /\ sup[j].worker_active
    /\ worker[j].pc # "none" /\ w.pc # "none"
    /\ u.worker_active =>
          /\ u.token = sup[j].token
          /\ u.cancel_requested = sup[j].cancel_requested
          /\ (w.pc \in {"record", "finish"} /\ w.ending = "cancelled") => sup[j].cancel_requested
    /\ ~u.worker_active =>
          /\ ~u.cancel_requested
          /\ u.terminal_event_id # 0
          /\ u.history[Len(u.history)].kind \in Endings
          /\ u.history[Len(u.history)].kind = "done" => ~sup[j].cancel_requested
          /\ u.history[Len(u.history)].kind = "cancelled" => sup[j].cancel_requested

\* Every step of the worker is of that kind.
LEMMA WorkerStep ==
    ASSUME ServerTypeOK, CancelAccepted, NEW j \in DOMAIN sup, Worker(j)
    PROVE  \E u \in JobState, w \in WorkerState : WorkerWrites(j, u, w) /\ WorkerAllowed(j, u, w)
<1> DEFINE s == sup[j]
           v == worker[j]
           Goal == \E u \in JobState, w \in WorkerState :
                      WorkerWrites(j, u, w) /\ WorkerAllowed(j, u, w)
<1> USE DEF KeepsDaemon
<1>1. /\ s \in JobState /\ v \in WorkerState
      /\ sup = [sup EXCEPT ![j] = s] /\ worker = [worker EXCEPT ![j] = v]
      /\ j \in Nat
  <2>1. sup \in Seq(JobState) /\ worker \in Seq(WorkerState) /\ Len(worker) = Len(sup)
    BY DEF ServerTypeOK, WorkerState
  <2>2. j \in 1..Len(sup) /\ j \in DOMAIN worker BY <2>1
  <2>3. s \in JobState /\ v \in WorkerState BY <2>1, <2>2
  <2>4. sup = [sup EXCEPT ![j] = sup[j]] BY <2>1
  <2>5. worker = [worker EXCEPT ![j] = worker[j]] BY <2>1
  <2> QED BY <2>2, <2>3, <2>4, <2>5
<1>2. /\ s.worker_active /\ s.token => s.cancel_requested
      /\ s.worker_active /\ v.pc \in {"record", "finish"} /\ v.ending = "cancelled"
            => s.cancel_requested
  BY DEF CancelAccepted
<1>3. s.worker_active \in BOOLEAN /\ s.token \in BOOLEAN /\ s.cancel_requested \in BOOLEAN
  BY <1>1 DEF JobState
<1>4. /\ tx \in [sup : Nat, status : {"none", "installing", "complete", "failed"}]
      /\ unwritten \subseteq DOMAIN sup
      /\ \A x \in {"installing", "complete", "failed"} :
            [sup |-> j, status |-> x] \in [sup : Nat, status : {"none", "installing", "complete", "failed"}]
  BY <1>1 DEF ServerTypeOK
\* An installation that goes on, with a new state of its worker only.
<1>5. ASSUME NEW w \in WorkerState, WorkerAt(j, v.pc), v.pc # "none", w.pc # "none",
             UNCHANGED sup, worker' = [worker EXCEPT ![j] = w],
             UNCHANGED <<active, gate, reg, req, known, streamVars>>,
             tx' \in [sup : Nat, status : {"none", "installing", "complete", "failed"}],
             unwritten' \subseteq DOMAIN sup,
             (w.pc \in {"record", "finish"} /\ w.ending = "cancelled") => s.cancel_requested
      PROVE  Goal
  <2>1. WorkerWrites(j, s, w) BY <1>1, <1>5 DEF WorkerWrites
  <2>2. WorkerAllowed(j, s, w) BY <1>5, <1>3 DEF WorkerAllowed, WorkerAt
  <2> QED BY <1>1, <2>1, <2>2
<1>6. ASSUME NEW e \in {"error", "cancelled"}
      PROVE  [v EXCEPT !.pc = "record", !.ending = e] \in WorkerState
             /\ [v EXCEPT !.pc = "record", !.ending = e].pc = "record"
             /\ [v EXCEPT !.pc = "record", !.ending = e].ending = e
  BY <1>1 DEF WorkerState
<1>7. ASSUME NEW pc \in {"begin", "top", "enter", "execute", "after", "end", "record", "finish", "gone"}
      PROVE  [v EXCEPT !.pc = pc] \in WorkerState /\ [v EXCEPT !.pc = pc].pc = pc
             /\ [v EXCEPT !.pc = pc].ending = v.ending
  BY <1>1 DEF WorkerState
<1>8. ASSUME NEW e \in {"error", "cancelled"}, Ends(j, e), WorkerAt(j, v.pc), v.pc # "none",
             UNCHANGED <<sup, tx, unwritten>>, UNCHANGED <<active, gate, reg, req, known, streamVars>>,
             e = "cancelled" => s.cancel_requested
      PROVE  Goal
  <2> DEFINE w == [v EXCEPT !.pc = "record", !.ending = e]
  <2>1. worker' = [worker EXCEPT ![j] = w] BY <1>8 DEF Ends, Moves
  <2>2. w \in WorkerState /\ w.pc = "record" /\ w.ending = e BY <1>6
  <2> HIDE DEF w
  <2> QED BY <2>1, <2>2, <1>4, <1>5, <1>8
<1>a. CASE WorkerBegin(j)
  <2> DEFINE w == [v EXCEPT !.pc = "top"]
             u == [s EXCEPT !.lifecycle = "installing"]
  <2>1. w \in WorkerState /\ w.pc = "top" BY <1>7
  <2>2. u \in JobState /\ u.worker_active = s.worker_active /\ u.token = s.token
        /\ u.cancel_requested = s.cancel_requested
    BY <1>1 DEF JobState, Lifecycles
  <2>3. sup' = [sup EXCEPT ![j] = u] /\ worker' = [worker EXCEPT ![j] = w]
    BY <1>a DEF WorkerBegin, Moves
  <2>4. WorkerWrites(j, u, w) BY <2>3, <1>4, <1>a DEF WorkerWrites, WorkerBegin
  <2> HIDE DEF u, w
  <2>5. WorkerAllowed(j, u, w)
    BY <2>1, <2>2, <1>3, <1>a DEF WorkerAllowed, WorkerBegin, WorkerAt
  <2> QED BY <2>1, <2>2, <2>4, <2>5
<1>b. CASE WorkerTop(j)
  <2>1. CASE s.token /\ Ends(j, "cancelled")
    BY <2>1, <1>2, <1>8, <1>b DEF WorkerTop, WorkerAt
  <2>2. CASE ~s.token /\ Moves(j, [v EXCEPT !.pc = "enter"])
    <3> DEFINE w == [v EXCEPT !.pc = "enter"]
    <3>1. w \in WorkerState /\ w.pc = "enter" BY <1>7
    <3>2. worker' = [worker EXCEPT ![j] = w] BY <2>2 DEF Moves
    <3> HIDE DEF w
    <3> QED BY <3>1, <3>2, <1>4, <1>5, <1>b DEF WorkerTop, WorkerAt
  <2> QED BY <2>1, <2>2, <1>b DEF WorkerTop
<1>c. CASE WorkerEnter(j)
  <2> DEFINE w == [v EXCEPT !.pc = "execute"]
             u == PhaseEntered(s, PHASES[v.at])
  <2>1. w \in WorkerState /\ w.pc = "execute" BY <1>7
  <2>2. PHASES[v.at] \in PhaseNames BY <1>1, PhasesAssumption DEF WorkerState
  <2>3. u \in JobState /\ u.worker_active = s.worker_active /\ u.token = s.token
        /\ u.cancel_requested = s.cancel_requested
    BY <1>1, <2>2, Supervisor
  <2>4. sup' = [sup EXCEPT ![j] = u] /\ worker' = [worker EXCEPT ![j] = w]
    BY <1>c DEF WorkerEnter, Moves
  <2>5. WorkerWrites(j, u, w) BY <2>4, <1>4, <1>c DEF WorkerWrites, WorkerEnter
  <2> HIDE DEF u, w
  <2>6. WorkerAllowed(j, u, w)
    BY <2>1, <2>3, <1>3, <1>c DEF WorkerAllowed, WorkerEnter, WorkerAt
  <2> QED BY <2>1, <2>3, <2>5, <2>6
<1>d. CASE WorkerExecute(j)
  <2> DEFINE Res == {"ok", "err"}
  <2>1. PICK r \in Res : Moves(j, [v EXCEPT !.pc = "after", !.result = r])
    BY <1>d DEF WorkerExecute
  <2> DEFINE w == [v EXCEPT !.pc = "after", !.result = r]
  <2>2. w \in WorkerState /\ w.pc = "after" BY <1>1 DEF WorkerState
  <2>3. worker' = [worker EXCEPT ![j] = w] BY <2>1 DEF Moves
  <2>4. tx' \in [sup : Nat, status : {"none", "installing", "complete", "failed"}]
    BY <1>4, <1>d DEF WorkerExecute, PhaseStatus
  <2> HIDE DEF w
  <2> QED BY <2>2, <2>3, <2>4, <1>4, <1>5, <1>d DEF WorkerExecute, WorkerAt
<1>e. CASE WorkerAfter(j)
  <2>1. CASE s.token /\ Ends(j, "cancelled")
    BY <2>1, <1>2, <1>8, <1>e DEF WorkerAfter, WorkerAt
  <2>2. CASE ~s.token /\ v.result = "err" /\ Ends(j, "error")
    BY <2>2, <1>8, <1>e DEF WorkerAfter, WorkerAt
  <2>3. CASE v.at < Len(PHASES) /\ Moves(j, [v EXCEPT !.pc = "top", !.at = @ + 1])
    <3> DEFINE w == [v EXCEPT !.pc = "top", !.at = v.at + 1]
    <3>1. Len(PHASES) \in Nat BY PhasesAssumption
    <3>2. w \in WorkerState /\ w.pc = "top"
      <4> DEFINE n == v.at + 1
      <4>1. v.at \in 1..Len(PHASES) BY <1>1 DEF WorkerState
      <4>2. n \in 1..Len(PHASES) BY <4>1, <2>3, <3>1
      <4> HIDE DEF n
      <4>3. [v EXCEPT !.pc = "top", !.at = n] \in WorkerState
            /\ [v EXCEPT !.pc = "top", !.at = n].pc = "top"
        BY <1>1, <4>2 DEF WorkerState
      <4> QED BY <4>3 DEF n
    <3>3. worker' = [worker EXCEPT ![j] = w] BY <2>3 DEF Moves
    <3> HIDE DEF w
    <3> QED BY <3>2, <3>3, <1>4, <1>5, <1>e DEF WorkerAfter, WorkerAt
  <2>4. CASE Moves(j, [v EXCEPT !.pc = "end"])
    <3> DEFINE w == [v EXCEPT !.pc = "end"]
    <3>1. w \in WorkerState /\ w.pc = "end" BY <1>7
    <3>2. worker' = [worker EXCEPT ![j] = w] BY <2>4 DEF Moves
    <3> HIDE DEF w
    <3> QED BY <3>1, <3>2, <1>4, <1>5, <1>e DEF WorkerAfter, WorkerAt
  <2> QED BY <2>1, <2>2, <2>3, <2>4, <1>e DEF WorkerAfter
\* The worker that released its slot.
<1>9. /\ [NoWorker EXCEPT !.pc = "gone"] \in WorkerState
      /\ [NoWorker EXCEPT !.pc = "gone"].pc = "gone"
  BY PhasesAssumption DEF NoWorker, WorkerState
<1>f. CASE WorkerEnd(j)
  <2>1. CASE CancelPending(s) /\ Ends(j, "cancelled") /\ UNCHANGED sup
    BY <2>1, <1>2, <1>8, <1>f DEF WorkerEnd, WorkerAt, CancelPending
  <2>2. CASE /\ ~CancelPending(s) /\ Moves(j, [NoWorker EXCEPT !.pc = "gone"])
             /\ sup' = [sup EXCEPT ![j] = FinishedDone(@)]
    <3> DEFINE w == [NoWorker EXCEPT !.pc = "gone"]
               u == FinishedDone(s)
    <3>1. u \in JobState /\ ~u.worker_active /\ ~u.cancel_requested
          /\ u.terminal_event_id # 0 /\ u.history[Len(u.history)].kind = "done"
      BY <1>1, Supervisor
    <3>2. sup' = [sup EXCEPT ![j] = u] /\ worker' = [worker EXCEPT ![j] = w]
      BY <2>2 DEF Moves
    <3>3. WorkerWrites(j, u, w) BY <3>2, <1>4, <1>f DEF WorkerWrites, WorkerEnd
    <3>4. w \in WorkerState /\ w.pc = "gone" BY <1>9
    <3> HIDE DEF u, w
    <3>5. WorkerAllowed(j, u, w)
      BY <3>1, <3>4, <2>2, <1>f DEF WorkerAllowed, WorkerEnd, WorkerAt, CancelPending, Endings
    <3> QED BY <3>1, <3>3, <3>4, <3>5
  <2> QED BY <2>1, <2>2, <1>f DEF WorkerEnd
<1>g. CASE WorkerRecord(j)
  <2> DEFINE w == [v EXCEPT !.pc = "finish"]
  <2>1. w \in WorkerState /\ w.pc = "finish" /\ w.ending = v.ending BY <1>7
  <2>2. worker' = [worker EXCEPT ![j] = w] BY <1>g DEF WorkerRecord, Moves
  <2>3. /\ tx' \in [sup : Nat, status : {"none", "installing", "complete", "failed"}]
        /\ unwritten' \subseteq DOMAIN sup
    BY <1>4, <1>g DEF WorkerRecord
  <2> HIDE DEF w
  <2> QED BY <2>1, <2>2, <2>3, <1>2, <1>5, <1>g DEF WorkerRecord, WorkerAt
<1>h. CASE WorkerFinish(j)
  <2> DEFINE w == [NoWorker EXCEPT !.pc = "gone"]
             u == finish_terminal(s, v.ending)
  <2>1. v.ending \in {"error", "cancelled"} BY <1>1 DEF WorkerState
  <2>2. u \in JobState /\ ~u.worker_active /\ ~u.cancel_requested
        /\ u.terminal_event_id # 0 /\ u.history[Len(u.history)].kind = v.ending
    BY <1>1, <2>1, Supervisor
  <2>3. sup' = [sup EXCEPT ![j] = u] /\ worker' = [worker EXCEPT ![j] = w]
    BY <1>h DEF WorkerFinish, Moves
  <2>4. WorkerWrites(j, u, w) BY <2>3, <1>4, <1>h DEF WorkerWrites, WorkerFinish
  <2>5. w \in WorkerState /\ w.pc = "gone" BY <1>9
  <2> HIDE DEF u, w
  <2>6. WorkerAllowed(j, u, w)
    BY <2>1, <2>2, <2>5, <1>2, <1>h DEF WorkerAllowed, WorkerFinish, WorkerAt, Endings
  <2> QED BY <2>2, <2>4, <2>5, <2>6
<1> QED BY <1>a, <1>b, <1>c, <1>d, <1>e, <1>f, <1>g, <1>h DEF Worker
-----------------------------------------------------------------------------
(* The inductive invariant                                                 *)

ReqState ==
    [pc : {"idle", "start", "spawn", "install", "cancel", "token", "check", "operate"},
     want : Nat]

GatePcs == {"start", "spawn", "install", "check", "operate"}
RegPcs  == {"spawn", "install", "token"}

LEMMA InitIInv == Init => IInv
<1> SUFFICES ASSUME Init PROVE IInv OBVIOUS
<1>1. /\ sup = <<>> /\ worker = <<>> /\ sup \in Seq(JobState) /\ worker \in Seq(WorkerState)
      /\ Len(sup) = 0 /\ Len(worker) = 0 /\ DOMAIN sup = {}
  BY DEF Init
<1>2. IdleReq \in ReqState /\ IdleReq.pc = "idle" BY DEF IdleReq, ReqState
<1>3. req \in [Clients -> ReqState] /\ \A c \in Clients : req[c].pc = "idle"
  BY <1>2 DEF Init
<1>4. \A s \in Streams : following[s] = "closed" BY DEF Init
<1>5. ServerTypeOK BY <1>1, <1>3 DEF Init, ServerTypeOK, WorkerState, ReqState
<1> QED BY <1>1, <1>3, <1>4, <1>5
      DEF IInv, LocksHeld, NewestRuns, StartsNewest, CancelAccepted, StorageExclusive

\* A step of a request thread that leaves supervisors and registry alone.
LEMMA QuietClient ==
    ASSUME IInv, NEW c \in Clients, NEW r \in ReqState,
           UNCHANGED <<serverVars, reg, known, streamVars>>,
           req' = [req EXCEPT ![c] = r],
           r.pc \notin RegPcs, req[c].pc \notin RegPcs,
           r.pc \in GatePcs => gate' = c,
           \/ gate' = gate
           \/ gate = "free" /\ gate' = c
           \/ gate = c /\ gate' = "free",
           r.pc = "operate" => \A j \in DOMAIN sup : ~sup[j].worker_active
    PROVE  IInv'
<1> USE DEF IInv, serverVars, streamVars
<1>1. UNCHANGED <<sup, worker, active, reg, known, following, tx, unwritten>> OBVIOUS
<1>2. req \in [Clients -> ReqState] BY DEF ServerTypeOK, ReqState
<1>3. req' \in [Clients -> ReqState] /\ req'[c] = r
      /\ \A d \in Clients : d # c => req'[d] = req[d]
  BY <1>2
<1>4. ServerTypeOK'
  BY <1>1, <1>3 DEF ServerTypeOK, ReqState
<1>5. LocksHeld'
  <2>1. ASSUME NEW d \in Clients, req'[d].pc \in GatePcs PROVE gate' = d
    <3>1. CASE d = c BY <3>1, <2>1, <1>3
    <3>2. CASE d # c
      <4>1. gate = d BY <3>2, <2>1, <1>3 DEF LocksHeld, GatePcs
      <4>2. d # "free" BY ConnectionsAssumption
      <4> QED BY <4>1, <4>2, <3>2
    <3> QED BY <3>1, <3>2
  <2>2. ASSUME NEW d \in Clients, req'[d].pc \in RegPcs PROVE reg' = d
    BY <2>2, <1>1, <1>3 DEF LocksHeld, RegPcs
  <2>3. \A t \in Streams : following'[t] = "waiting" => reg' = t
    BY <1>1 DEF LocksHeld
  <2> QED BY <2>1, <2>2, <2>3 DEF LocksHeld, GatePcs, RegPcs
<1>6. \A d \in Clients : /\ req'[d].pc \in {"spawn", "install"} <=> req[d].pc \in {"spawn", "install"}
                         /\ req'[d].pc = "spawn" <=> req[d].pc = "spawn"
                         /\ req'[d].pc = "token" <=> req[d].pc = "token"
  BY <1>3 DEF RegPcs
<1>7. NewestRuns' BY <1>1, <1>6 DEF NewestRuns, Newest
<1>8. StartsNewest' BY <1>1, <1>6 DEF StartsNewest, Newest
<1>9. CancelAccepted' BY <1>1, <1>6 DEF CancelAccepted
<1>10. StorageExclusive' BY <1>1, <1>3 DEF StorageExclusive
<1> QED BY <1>4, <1>5, <1>7, <1>8, <1>9, <1>10

\* Under the gate nobody else is starting, and only the registry's supervisor
\* can have a worker.
LEMMA GateExcludes ==
    ASSUME IInv, NEW c \in Clients, req[c].pc \in {"start", "check"}, ~InstallRuns
    PROVE  \A j \in DOMAIN sup : ~sup[j].worker_active
<1> SUFFICES ASSUME NEW j \in DOMAIN sup, sup[j].worker_active PROVE FALSE
  <2>1. \A j \in DOMAIN sup : sup[j] \in JobState
    BY DEF IInv, ServerTypeOK
  <2> QED BY <2>1 DEF JobState
<1>1. j = active \/ \E d \in Clients : req[d].pc \in {"spawn", "install"}
  BY DEF IInv, NewestRuns
<1>2. ASSUME NEW d \in Clients, req[d].pc \in {"spawn", "install"} PROVE FALSE
  <2>1. gate = d /\ gate = c BY <1>2 DEF IInv, LocksHeld
  <2> QED BY <2>1, <1>2
<1>3. j # 0 BY DEF IInv, ServerTypeOK
<1> QED BY <1>1, <1>2, <1>3 DEF InstallRuns

\* A step of a stream thread changes its own position and perhaps the
\* registry lock.
LEMMA StreamStep ==
    ASSUME IInv, NEW s \in Streams, Stream(s)
    PROVE  IInv' /\ UNCHANGED <<sup, req>>
<1> USE DEF KeepsServer, serverVars, StreamMoves
<1>1. UNCHANGED <<sup, worker, active, tx, unwritten, gate, req, known>>
  BY DEF Stream, StreamOpen, StreamReplay, StreamWrite, StreamLost, StreamWait, StreamWake
<1>2. PICK p \in {"closed", "lost", "replay", "write", "wait", "waiting"} :
        /\ following' = [following EXCEPT ![s] = p]
        /\ \/ reg' = reg /\ p # "waiting" /\ following[s] # "waiting"
           \/ reg = "free" /\ reg' = s /\ p = "waiting"
           \/ following[s] = "waiting" /\ reg' = "free" /\ p # "waiting"
  <2>1. CASE StreamOpen(s) BY <2>1 DEF StreamOpen
  <2>2. CASE StreamReplay(s) BY <2>2 DEF StreamReplay
  <2>3. CASE StreamWrite(s) BY <2>3 DEF StreamWrite
  <2>4. CASE StreamLost(s) BY <2>4 DEF StreamLost
  <2>5. CASE StreamWait(s) BY <2>5 DEF StreamWait
  <2>6. CASE StreamWake(s) BY <2>6 DEF StreamWake
  <2> QED BY <2>1, <2>2, <2>3, <2>4, <2>5, <2>6 DEF Stream
<1>3. /\ following' \in [Streams -> {"closed", "lost", "replay", "write", "wait", "waiting"}]
      /\ following'[s] = p
      /\ \A t \in Streams : t # s => following'[t] = following[t]
  BY <1>2 DEF IInv, ServerTypeOK
<1>4. ServerTypeOK' BY <1>1, <1>2, <1>3 DEF IInv, ServerTypeOK
<1>5. LocksHeld'
  <2>1. \A c \in Clients : c # s /\ c # "free" BY ConnectionsAssumption
  <2>2. s # "free" /\ \A t \in Streams : t # "free" BY ConnectionsAssumption
  <2>3. following[s] = "waiting" => reg = s BY DEF IInv, LocksHeld
  <2>4. ASSUME NEW c \in Clients
        PROVE  /\ req'[c].pc \in {"start", "spawn", "install", "check", "operate"} => gate' = c
               /\ req'[c].pc \in {"spawn", "install", "token"} => reg' = c
    BY <1>1, <1>2, <2>1, <2>3 DEF IInv, LocksHeld
  <2>5. ASSUME NEW t \in Streams, following'[t] = "waiting" PROVE reg' = t
    <3>1. CASE t = s BY <3>1, <2>5, <1>2, <1>3
    <3>2. CASE t # s
      <4>1. reg = t BY <3>2, <2>5, <1>3 DEF IInv, LocksHeld
      <4> QED BY <4>1, <3>2, <1>2, <2>2, <2>3
    <3> QED BY <3>1, <3>2
  <2> QED BY <2>4, <2>5 DEF LocksHeld
<1>6. NewestRuns' BY <1>1 DEF IInv, NewestRuns, Newest
<1>7. StartsNewest' BY <1>1 DEF IInv, StartsNewest, Newest
<1>8. CancelAccepted' BY <1>1 DEF IInv, CancelAccepted
<1>9. StorageExclusive' BY <1>1 DEF IInv, StorageExclusive
<1> QED BY <1>1, <1>4, <1>5, <1>6, <1>7, <1>8, <1>9 DEF IInv

\* Facts about the state that the next lemmas start from.
LEMMA Shape ==
    ASSUME IInv
    PROVE  /\ sup \in Seq(JobState) /\ worker \in Seq(WorkerState)
           /\ Len(sup) \in Nat /\ Len(worker) = Len(sup)
           /\ DOMAIN sup = 1..Len(sup) /\ DOMAIN worker = 1..Len(sup)
           /\ active \in 0..Len(sup)
           /\ req \in [Clients -> ReqState]
           /\ \A j \in DOMAIN sup :
                 /\ sup[j] \in JobState /\ worker[j] \in WorkerState
                 /\ sup[j].worker_active \in BOOLEAN
                 /\ sup[j].token \in BOOLEAN
                 /\ sup[j].cancel_requested \in BOOLEAN
<1>1. /\ sup \in Seq(JobState) /\ worker \in Seq(WorkerState)
      /\ Len(worker) = Len(sup) /\ active \in 0..Len(sup)
      /\ req \in [Clients -> ReqState]
  BY DEF IInv, ServerTypeOK, WorkerState, ReqState
<1>2. Len(sup) \in Nat /\ DOMAIN sup = 1..Len(sup) /\ DOMAIN worker = 1..Len(worker)
  BY <1>1
<1>3. \A j \in DOMAIN sup : sup[j] \in JobState /\ worker[j] \in WorkerState
  BY <1>1, <1>2
<1>4. \A x \in JobState : /\ x.worker_active \in BOOLEAN /\ x.token \in BOOLEAN
                          /\ x.cancel_requested \in BOOLEAN
  BY DEF JobState
<1> QED BY <1>1, <1>2, <1>3, <1>4

\* A worker step keeps the invariant.
LEMMA WorkerKeeps ==
    ASSUME IInv, NEW j \in DOMAIN sup, Worker(j)
    PROVE  IInv'
<1>1. PICK u \in JobState, w \in WorkerState : WorkerWrites(j, u, w) /\ WorkerAllowed(j, u, w)
  BY WorkerStep DEF IInv
<1>2. UNCHANGED <<active, gate, reg, req, known, following>>
  BY <1>1 DEF WorkerWrites, streamVars
<1>3. /\ sup' \in Seq(JobState) /\ Len(sup') = Len(sup) /\ DOMAIN sup' = DOMAIN sup
      /\ sup'[j] = u /\ \A k \in DOMAIN sup : k # j => sup'[k] = sup[k]
  BY <1>1, Shape, SeqUpdate DEF WorkerWrites
<1>4. /\ worker' \in Seq(WorkerState) /\ Len(worker') = Len(worker)
      /\ worker'[j] = w /\ \A k \in DOMAIN sup : k # j => worker'[k] = worker[k]
  BY <1>1, Shape, SeqUpdate DEF WorkerWrites
<1>5. ServerTypeOK'
  BY <1>1, <1>2, <1>3, <1>4 DEF IInv, ServerTypeOK, WorkerState, WorkerWrites
<1>6. sup[j].worker_active /\ worker[j].pc # "none" BY <1>1 DEF WorkerAllowed
<1>7. j = Newest /\ \A k \in DOMAIN sup : sup'[k].worker_active => sup[k].worker_active
  <2>1. j = Newest BY <1>6 DEF IInv, NewestRuns
  <2> QED BY <2>1, <1>3, <1>6
<1>8. LocksHeld' BY <1>2 DEF IInv, LocksHeld
<1>9. NewestRuns' BY <1>2, <1>3, <1>7 DEF IInv, NewestRuns, Newest
<1>10. StartsNewest'
  BY <1>2, <1>3, <1>6, <1>7, Shape DEF IInv, StartsNewest, Newest
<1>11. CancelAccepted'
  <2>1. ASSUME NEW k \in DOMAIN sup, sup'[k].worker_active
        PROVE  /\ sup'[k].token => sup'[k].cancel_requested
               /\ (worker'[k].pc \in {"record", "finish"} /\ worker'[k].ending = "cancelled") =>
                     sup'[k].cancel_requested
    <3>1. CASE k = j
      <4>1. u.worker_active BY <2>1, <3>1, <1>3
      <4>2. sup[j].token => sup[j].cancel_requested
        BY <1>6 DEF IInv, CancelAccepted
      <4> QED BY <3>1, <4>1, <4>2, <1>1, <1>3, <1>4 DEF WorkerAllowed
    <3>2. CASE k # j
      BY <3>2, <2>1, <1>3, <1>4 DEF IInv, CancelAccepted
    <3> QED BY <3>1, <3>2
  <2>2. ASSUME NEW c \in Clients, req'[c].pc = "token", sup'[active].worker_active
        PROVE  sup'[active].cancel_requested
    <3>1. active # 0 BY <2>2, <1>2 DEF IInv, StartsNewest
    <3>2. active \in DOMAIN sup BY <3>1, Shape
    <3>3. sup[active].worker_active BY <2>2, <3>2, <1>7
    <3>4. sup[active].cancel_requested BY <3>3, <2>2, <1>2 DEF IInv, CancelAccepted
    <3>5. CASE active = j
      BY <3>4, <3>5, <2>2, <1>1, <1>3 DEF WorkerAllowed
    <3>6. CASE active # j
      BY <3>2, <3>4, <3>6, <1>3
    <3> QED BY <3>5, <3>6
  <2> QED BY <2>1, <2>2, <1>2, <1>3 DEF CancelAccepted
<1>12. StorageExclusive'
  BY <1>2, <1>3, <1>7 DEF IInv, StorageExclusive
<1> QED BY <1>5, <1>8, <1>9, <1>10, <1>11, <1>12 DEF IInv

\* Changing the pc of one request thread.
LEMMA StepChangesOne ==
    ASSUME IInv, NEW c \in Clients,
           NEW from \in {"idle", "start", "spawn", "install", "cancel", "token", "check", "operate"},
           NEW to \in {"idle", "start", "spawn", "install", "cancel", "token", "check", "operate"},
           Step(c, from, to)
    PROVE  /\ req[c].pc = from
           /\ req' \in [Clients -> ReqState]
           /\ [req[c] EXCEPT !.pc = to] \in ReqState
           /\ req' = [req EXCEPT ![c] = [req[c] EXCEPT !.pc = to]]
           /\ req'[c].pc = to
           /\ \A d \in Clients : d # c => req'[d] = req[d]
<1>1. req \in [Clients -> ReqState] BY Shape
<1>2. req[c] \in ReqState BY <1>1
<1> DEFINE r == [req[c] EXCEPT !.pc = to]
<1>3. r \in ReqState /\ r.pc = to BY <1>2 DEF ReqState
<1>4. req' = [req EXCEPT ![c] = r] BY DEF Step
<1> HIDE DEF r
<1>5. req' \in [Clients -> ReqState] /\ req'[c] = r /\ \A d \in Clients : d # c => req'[d] = req[d]
  BY <1>1, <1>3, <1>4
<1> QED BY <1>3, <1>4, <1>5 DEF Step, r

\* The claim of a new supervisor's slot.
LEMMA ClaimKeeps ==
    ASSUME IInv, NEW c \in Clients, StartClaim(c)
    PROVE  IInv'
<1> DEFINE u == Claimed(DefaultJob)
           n == Len(sup) + 1
<1>1. /\ req[c].pc = "start" /\ req'[c].pc = "spawn" /\ req' \in [Clients -> ReqState]
      /\ \A d \in Clients : d # c => req'[d] = req[d]
  BY StepChangesOne DEF StartClaim
<1>2. UNCHANGED <<active, tx, unwritten, gate, known, following>> /\ reg = "free" /\ reg' = c
  BY DEF StartClaim, streamVars
<1>3. u \in JobState /\ u.worker_active /\ ~u.token /\ ~u.cancel_requested
      /\ u.terminal_event_id = 0
  BY NewSupervisor
<1>4. NoWorker \in WorkerState /\ NoWorker.pc = "none"
  BY PhasesAssumption DEF NoWorker, WorkerState
<1>5. sup' = Append(sup, u) /\ worker' = Append(worker, NoWorker) BY DEF StartClaim
<1> HIDE DEF u
<1>6. /\ sup' \in Seq(JobState) /\ Len(sup') = n /\ DOMAIN sup' = 1..n
      /\ sup'[n] = u /\ \A k \in DOMAIN sup : sup'[k] = sup[k]
  BY <1>3, <1>5, Shape, SeqAppend
<1>7. /\ worker' \in Seq(WorkerState) /\ Len(worker') = n /\ DOMAIN worker' = 1..n
      /\ worker'[n] = NoWorker /\ \A k \in DOMAIN sup : worker'[k] = worker[k]
  BY <1>4, <1>5, Shape, SeqAppend
<1>8. Len(sup) \in Nat /\ DOMAIN sup = 1..Len(sup) BY Shape
<1>9. \A k \in DOMAIN sup' : k \in DOMAIN sup \/ k = n BY <1>6, <1>8
<1>10. \A k \in DOMAIN sup : ~sup[k].worker_active
  BY <1>1, GateExcludes DEF StartClaim
<1>11. gate = c BY <1>1 DEF IInv, LocksHeld
<1>12. ASSUME NEW d \in Clients, d # c
       PROVE  req[d].pc \notin {"start", "spawn", "install", "check", "operate"}
  BY <1>11, <1>12 DEF IInv, LocksHeld
<1>13. ASSUME NEW d \in Clients
       PROVE  req[d].pc \notin {"spawn", "install", "token"}
  BY <1>2, ConnectionsAssumption DEF IInv, LocksHeld
<1>14. ServerTypeOK'
  BY <1>1, <1>2, <1>6, <1>7, <1>8 DEF IInv, ServerTypeOK, WorkerState, ReqState
<1>15. LocksHeld'
  <2>1. \A t \in Streams : following'[t] # "waiting"
    BY <1>2, ConnectionsAssumption DEF IInv, LocksHeld
  <2>2. ASSUME NEW d \in Clients
        PROVE  /\ req'[d].pc \in {"start", "spawn", "install", "check", "operate"} => gate' = d
               /\ req'[d].pc \in {"spawn", "install", "token"} => reg' = d
    BY <1>1, <1>2, <1>11, <1>12, <1>13
  <2> QED BY <2>1, <2>2 DEF LocksHeld
<1>16. NewestRuns'
  BY <1>1, <1>6, <1>9, <1>10 DEF NewestRuns, Newest
<1>17. StartsNewest'
  <2>1. n # 0 BY <1>8
  <2>2. ASSUME NEW d \in Clients PROVE req'[d].pc # "token"
    BY <1>1, <1>13
  <2> QED BY <2>1, <2>2, <1>3, <1>4, <1>6, <1>7 DEF StartsNewest, Newest
<1>18. CancelAccepted'
  <2>1. ASSUME NEW d \in Clients PROVE req'[d].pc # "token"
    BY <1>1, <1>13
  <2> QED BY <2>1, <1>3, <1>4, <1>6, <1>7, <1>9, <1>10 DEF CancelAccepted
<1>19. StorageExclusive'
  BY <1>1, <1>12 DEF StorageExclusive
<1> QED BY <1>14, <1>15, <1>16, <1>17, <1>18, <1>19 DEF IInv

\* While a start is under way, its thread alone holds both locks.
LEMMA StarterAlone ==
    ASSUME IInv, NEW c \in Clients, req[c].pc \in {"spawn", "install"}
    PROVE  /\ gate = c /\ reg = c
           /\ \A d \in Clients : d # c =>
                 req[d].pc \notin {"start", "spawn", "install", "check", "operate", "token"}
           /\ \A t \in Streams : following[t] # "waiting"
           /\ Newest # 0 /\ Newest \in DOMAIN sup
<1>1. gate = c /\ reg = c /\ Newest # 0 BY DEF IInv, LocksHeld, StartsNewest
<1>2. Newest \in DOMAIN sup BY <1>1, Shape DEF Newest
<1> QED BY <1>1, <1>2, ConnectionsAssumption DEF IInv, LocksHeld

\* The worker is spawned.
LEMMA SpawnKeeps ==
    ASSUME IInv, NEW c \in Clients, StartSpawn(c)
    PROVE  IInv'
<1> DEFINE w == [worker[Newest] EXCEPT !.pc = "begin"]
<1>1. /\ req[c].pc = "spawn" /\ req'[c].pc = "install" /\ req' \in [Clients -> ReqState]
      /\ \A d \in Clients : d # c => req'[d] = req[d]
  BY StepChangesOne DEF StartSpawn
<1>2. UNCHANGED <<sup, active, tx, unwritten, gate, reg, known, following>>
  BY DEF StartSpawn, streamVars
<1>3. Newest \in DOMAIN sup BY <1>1, StarterAlone
<1>4. w \in WorkerState /\ w.pc = "begin"
  <2>1. worker[Newest] \in WorkerState BY <1>3, Shape
  <2> QED BY <2>1 DEF WorkerState
<1>5. worker' = [worker EXCEPT ![Newest] = w] BY DEF StartSpawn
<1> HIDE DEF w
<1>6. /\ worker' \in Seq(WorkerState) /\ Len(worker') = Len(worker)
      /\ worker'[Newest] = w /\ \A k \in DOMAIN sup : k # Newest => worker'[k] = worker[k]
  BY <1>3, <1>4, <1>5, Shape, SeqUpdate
<1>7. ServerTypeOK'
  BY <1>1, <1>2, <1>6 DEF IInv, ServerTypeOK, WorkerState, ReqState
<1>8. LocksHeld' BY <1>1, <1>2, StarterAlone DEF IInv, LocksHeld
<1>9. NewestRuns' BY <1>1, <1>2 DEF IInv, NewestRuns, Newest
<1>10. StartsNewest'
  <2>1. \A d \in Clients : req'[d].pc # "spawn" /\ req'[d].pc # "token"
    BY <1>1, StarterAlone
  <2>2. Newest' = Newest /\ Newest # 0 BY <1>1, <1>2, StarterAlone DEF Newest
  <2> QED BY <2>1, <2>2 DEF StartsNewest
<1>11. CancelAccepted'
  <2>1. \A d \in Clients : req'[d].pc # "token" BY <1>1, StarterAlone
  <2> QED BY <2>1, <1>2, <1>4, <1>6 DEF IInv, CancelAccepted
<1>12. StorageExclusive' BY <1>1, <1>2 DEF IInv, StorageExclusive
<1> QED BY <1>7, <1>8, <1>9, <1>10, <1>11, <1>12 DEF IInv

\* The worker could not be started.
LEMMA FailKeeps ==
    ASSUME IInv, NEW c \in Clients, StartFails(c)
    PROVE  IInv'
<1> DEFINE u == StartFailed(sup[Newest])
<1>1. /\ req[c].pc = "spawn" /\ req'[c].pc = "idle" /\ req' \in [Clients -> ReqState]
      /\ \A d \in Clients : d # c => req'[d] = req[d]
  BY StepChangesOne DEF StartFails
<1>2. UNCHANGED <<worker, active, tx, unwritten, known, following>>
      /\ gate' = "free" /\ reg' = "free"
  BY DEF StartFails, streamVars
<1>3. Newest \in DOMAIN sup /\ Newest # 0 BY <1>1, StarterAlone
<1>4. u \in JobState /\ ~u.worker_active
  BY <1>3, Shape, Supervisor
<1>5. sup' = [sup EXCEPT ![Newest] = u] BY DEF StartFails
<1> HIDE DEF u
<1>6. /\ sup' \in Seq(JobState) /\ Len(sup') = Len(sup) /\ DOMAIN sup' = DOMAIN sup
      /\ sup'[Newest] = u /\ \A k \in DOMAIN sup : k # Newest => sup'[k] = sup[k]
  BY <1>3, <1>4, <1>5, Shape, SeqUpdate
<1>7. \A d \in Clients :
        req'[d].pc \notin {"start", "spawn", "install", "check", "operate", "token"}
  BY <1>1, StarterAlone
<1>8. \A k \in DOMAIN sup' : ~sup'[k].worker_active
  BY <1>3, <1>4, <1>6, Shape DEF IInv, NewestRuns
<1>9. ServerTypeOK'
  BY <1>1, <1>2, <1>6 DEF IInv, ServerTypeOK, WorkerState, ReqState
<1>10. LocksHeld'
  <2>1. \A t \in Streams : following'[t] # "waiting" BY <1>1, <1>2, StarterAlone
  <2> QED BY <2>1, <1>7 DEF LocksHeld
<1>11. NewestRuns' /\ StartsNewest' /\ CancelAccepted' /\ StorageExclusive'
  BY <1>7, <1>8 DEF NewestRuns, StartsNewest, CancelAccepted, StorageExclusive
<1> QED BY <1>9, <1>10, <1>11 DEF IInv

\* The registry takes the new supervisor.
LEMMA InstallKeeps ==
    ASSUME IInv, NEW c \in Clients, StartInstalled(c)
    PROVE  IInv'
<1>1. /\ req[c].pc = "install" /\ req'[c].pc = "idle" /\ req' \in [Clients -> ReqState]
      /\ \A d \in Clients : d # c => req'[d] = req[d]
  BY StepChangesOne DEF StartInstalled
<1>2. UNCHANGED <<sup, worker, tx, unwritten, following>> /\ active' = Newest
      /\ known' = known \cup {Newest} /\ gate' = "free" /\ reg' = "free"
  BY DEF StartInstalled, streamVars
<1>3. Newest \in DOMAIN sup /\ Newest # 0 BY <1>1, StarterAlone
<1>4. \A d \in Clients :
        req'[d].pc \notin {"start", "spawn", "install", "check", "operate", "token"}
  BY <1>1, StarterAlone
<1>5. Newest \in 0..Len(sup) BY Shape DEF Newest
<1>6. ServerTypeOK'
  BY <1>1, <1>2, <1>3, <1>5 DEF IInv, ServerTypeOK, ReqState
<1>7. LocksHeld'
  <2>1. \A t \in Streams : following'[t] # "waiting" BY <1>1, <1>2, StarterAlone
  <2> QED BY <2>1, <1>4 DEF LocksHeld
<1>8. NewestRuns' BY <1>2 DEF IInv, NewestRuns, Newest
<1>9. CancelAccepted' BY <1>2, <1>4 DEF IInv, CancelAccepted
<1>10. StartsNewest' /\ StorageExclusive' BY <1>4 DEF StartsNewest, StorageExclusive
<1> QED BY <1>6, <1>7, <1>8, <1>9, <1>10 DEF IInv

\* A cancellation changes two flags of the registry's supervisor.
LEMMA CancelKeeps ==
    ASSUME IInv, NEW c \in Clients, CancelAccept(c) \/ CancelToken(c)
    PROVE  IInv'
<1>1. PICK u \in JobState, r \in ReqState :
        /\ active \in DOMAIN sup
        /\ sup' = [sup EXCEPT ![active] = u]
        /\ req' = [req EXCEPT ![c] = r]
        /\ u.worker_active = sup[active].worker_active
        /\ u.terminal_event_id = sup[active].terminal_event_id
        /\ u.worker_active => u.cancel_requested
        /\ req[c].pc \in {"cancel", "token"} /\ r.pc \in {"token", "idle"}
        /\ req[c].pc = "cancel" => reg = "free" /\ reg' = c
        /\ req[c].pc = "token" => reg' = "free" /\ r.pc = "idle"
  <2>1. CASE CancelAccept(c)
    <3> DEFINE r == [req[c] EXCEPT !.pc = "token"]
               u == [sup[active] EXCEPT !.cancel_requested = TRUE]
    <3>1. req[c].pc = "cancel" /\ r \in ReqState /\ req' = [req EXCEPT ![c] = r]
      BY <2>1, StepChangesOne DEF CancelAccept
    <3>2. r.pc = "token"
      <4>1. req[c] \in ReqState BY Shape
      <4> QED BY <4>1 DEF ReqState
    <3>3. active \in DOMAIN sup BY <2>1, Shape DEF CancelAccept, InstallRuns
    <3>4. sup[active] \in JobState BY <3>3, Shape
    <3>5. u \in JobState /\ u.worker_active = sup[active].worker_active
          /\ u.terminal_event_id = sup[active].terminal_event_id /\ u.cancel_requested = TRUE
      BY <3>4 DEF JobState
    <3>6. sup' = [sup EXCEPT ![active] = u] /\ reg = "free" /\ reg' = c
      BY <2>1 DEF CancelAccept
    <3> HIDE DEF r, u
    <3> QED BY <3>1, <3>2, <3>3, <3>5, <3>6
  <2>2. CASE CancelToken(c)
    <3> DEFINE u == [sup[active] EXCEPT !.token = TRUE]
    <3>1. req[c].pc = "token" /\ req' = [req EXCEPT ![c] = IdleReq] /\ reg' = "free"
      BY <2>2 DEF CancelToken
    <3>2. IdleReq \in ReqState /\ IdleReq.pc = "idle" BY DEF IdleReq, ReqState
    <3>3. active \in DOMAIN sup BY <3>1, Shape DEF IInv, StartsNewest
    <3>4. sup[active] \in JobState BY <3>3, Shape
    <3>5. u \in JobState /\ u.worker_active = sup[active].worker_active
          /\ u.terminal_event_id = sup[active].terminal_event_id
          /\ u.cancel_requested = sup[active].cancel_requested
      BY <3>4 DEF JobState
    <3>6. sup' = [sup EXCEPT ![active] = u] BY <2>2 DEF CancelToken
    <3>7. sup[active].worker_active => sup[active].cancel_requested
      BY <3>1 DEF IInv, CancelAccepted
    <3> HIDE DEF u
    <3> QED BY <3>1, <3>2, <3>3, <3>5, <3>6, <3>7
  <2> QED BY <2>1, <2>2
<1>2. UNCHANGED <<worker, active, tx, unwritten, gate, known, following>>
  BY DEF CancelAccept, CancelToken, streamVars
<1>3. /\ sup' \in Seq(JobState) /\ Len(sup') = Len(sup) /\ DOMAIN sup' = DOMAIN sup
      /\ sup'[active] = u /\ \A k \in DOMAIN sup : k # active => sup'[k] = sup[k]
  BY <1>1, Shape, SeqUpdate
<1>4. req' \in [Clients -> ReqState] /\ req'[c] = r
      /\ \A d \in Clients : d # c => req'[d] = req[d]
  BY <1>1, Shape
<1>5. \A k \in DOMAIN sup : /\ sup'[k].worker_active = sup[k].worker_active
                            /\ sup'[k].terminal_event_id = sup[k].terminal_event_id
  BY <1>1, <1>3
<1>6. reg' \in Clients \cup Streams \cup {"free"} BY <1>1
<1>7. ServerTypeOK'
  BY <1>2, <1>3, <1>4, <1>6 DEF IInv, ServerTypeOK, ReqState
<1>8. LocksHeld'
  <2>1. req[c].pc = "token" => reg = c BY DEF IInv, LocksHeld
  <2>2. ASSUME NEW d \in Clients
        PROVE  /\ req'[d].pc \in {"start", "spawn", "install", "check", "operate"} => gate' = d
               /\ req'[d].pc \in {"spawn", "install", "token"} => reg' = d
    <3>1. CASE d = c BY <3>1, <1>1, <1>4
    <3>2. CASE d # c
      <4>1. req'[d] = req[d] BY <3>2, <1>4
      <4>2. req[d].pc \in {"spawn", "install", "token"} => reg = d
        BY DEF IInv, LocksHeld
      <4>3. req[d].pc \notin {"spawn", "install", "token"}
        BY <4>2, <3>2, <2>1, <1>1, ConnectionsAssumption
      <4> QED BY <4>1, <4>3, <1>2 DEF IInv, LocksHeld
    <3> QED BY <3>1, <3>2
  <2>3. \A t \in Streams : following'[t] # "waiting"
    BY <1>1, <1>2, <2>1, ConnectionsAssumption DEF IInv, LocksHeld
  <2> QED BY <2>2, <2>3 DEF LocksHeld
<1>9. \A d \in Clients : /\ req'[d].pc \in {"spawn", "install"} <=> req[d].pc \in {"spawn", "install"}
                         /\ req'[d].pc = "spawn" <=> req[d].pc = "spawn"
                         /\ req'[d].pc = "operate" <=> req[d].pc = "operate"
  BY <1>1, <1>4
<1>10. NewestRuns' BY <1>2, <1>3, <1>5, <1>9 DEF IInv, NewestRuns, Newest
<1>11. StartsNewest'
  <2>1. active # 0 BY <1>1, Shape
  <2>2. Newest' = Newest BY <1>3 DEF Newest
  <2>3. \A d \in Clients : req'[d].pc \in {"spawn", "install"} => Newest' # 0
    BY <1>9, <2>2 DEF IInv, StartsNewest
  <2>4. ASSUME NEW d \in Clients, req'[d].pc = "spawn"
        PROVE  /\ sup'[Newest].worker_active /\ sup'[Newest].terminal_event_id = 0
               /\ worker'[Newest].pc = "none"
    <3>1. Newest \in DOMAIN sup BY <2>4, <1>9, StarterAlone
    <3> QED BY <3>1, <2>4, <1>2, <1>5, <1>9 DEF IInv, StartsNewest
  <2> QED BY <2>1, <2>2, <2>3, <2>4, <1>2 DEF StartsNewest
<1>12. CancelAccepted'
  <2>1. sup'[active].worker_active => sup'[active].cancel_requested BY <1>1, <1>3
  <2> QED BY <2>1, <1>2, <1>3 DEF IInv, CancelAccepted
<1>13. StorageExclusive' BY <1>3, <1>5, <1>9 DEF IInv, StorageExclusive
<1> QED BY <1>7, <1>8, <1>10, <1>11, <1>12, <1>13 DEF IInv

\* The remaining steps of the request threads.
LEMMA QuietKeeps ==
    ASSUME IInv, NEW c \in Clients,
           \/ StartGate(c) \/ StartRefused(c) \/ CancelSend(c) \/ CancelRefused(c)
           \/ OperateGate(c) \/ OperateLocked(c) \/ OperateBegin(c) \/ OperateEnd(c)
    PROVE  IInv'
<1> USE DEF RegPcs, GatePcs
<1>0. req[c] \in ReqState BY Shape
<1>1. req[c].pc \in GatePcs => gate = c BY DEF IInv, LocksHeld
\* Steps that only move the pc.
<1>2. ASSUME NEW from \in {"idle", "start", "check", "operate"},
             NEW to \in {"idle", "start", "check", "operate"},
             Step(c, from, to), UNCHANGED <<serverVars, reg, known, streamVars>>,
             to # "idle" => gate' = c,
             \/ gate' = gate
             \/ gate = "free" /\ gate' = c
             \/ gate = c /\ gate' = "free",
             to = "operate" => \A j \in DOMAIN sup : ~sup[j].worker_active
      PROVE  IInv'
  <2> DEFINE r == [req[c] EXCEPT !.pc = to]
  <2>1. req[c].pc = from BY <1>2 DEF Step
  <2>2. r \in ReqState /\ r.pc = to BY <1>0, <1>2 DEF ReqState
  <2>3. req' = [req EXCEPT ![c] = r] BY <1>2 DEF Step
  <2>4. r.pc \notin RegPcs /\ req[c].pc \notin RegPcs BY <2>1, <2>2, <1>2
  <2>5. r.pc \in GatePcs => gate' = c BY <2>2, <1>2
  <2>6. r.pc = "operate" => \A j \in DOMAIN sup : ~sup[j].worker_active BY <2>2, <1>2
  <2> HIDE DEF r, RegPcs, GatePcs
  <2> QED BY <2>2, <2>3, <2>4, <2>5, <2>6, <1>2, QuietClient
<1>3. CASE StartGate(c)
  <2>1. /\ Step(c, "idle", "start") /\ gate = "free" /\ gate' = c
        /\ UNCHANGED <<serverVars, reg, known, streamVars>>
    BY <1>3 DEF StartGate
  <2> QED BY <2>1, <1>2
<1>4. CASE StartRefused(c)
  <2>1. /\ Step(c, "start", "idle") /\ gate' = "free"
        /\ UNCHANGED <<serverVars, reg, known, streamVars>>
    BY <1>4 DEF StartRefused
  <2>2. gate = c BY <2>1, <1>1 DEF Step
  <2> QED BY <2>1, <2>2, <1>2
<1>5. CASE OperateGate(c)
  <2>1. /\ Step(c, "idle", "check") /\ gate = "free" /\ gate' = c
        /\ UNCHANGED <<serverVars, reg, known, streamVars>>
    BY <1>5 DEF OperateGate
  <2> QED BY <2>1, <1>2
<1>6. CASE OperateLocked(c)
  <2>1. /\ Step(c, "check", "idle") /\ gate' = "free"
        /\ UNCHANGED <<serverVars, reg, known, streamVars>>
    BY <1>6 DEF OperateLocked
  <2>2. gate = c BY <2>1, <1>1 DEF Step
  <2> QED BY <2>1, <2>2, <1>2
<1>7. CASE OperateBegin(c)
  <2>1. /\ Step(c, "check", "operate") /\ gate' = gate /\ ~InstallRuns
        /\ UNCHANGED <<serverVars, reg, known, streamVars>>
    BY <1>7 DEF OperateBegin
  <2>2. req[c].pc = "check" /\ gate' = c BY <2>1, <1>1 DEF Step
  <2>3. \A j \in DOMAIN sup : ~sup[j].worker_active BY <2>1, <2>2, GateExcludes
  <2> QED BY <2>1, <2>2, <2>3, <1>2
<1>8. CASE OperateEnd(c)
  <2>1. /\ Step(c, "operate", "idle") /\ gate' = "free"
        /\ UNCHANGED <<serverVars, reg, known, streamVars>>
    BY <1>8 DEF OperateEnd
  <2>2. gate = c BY <2>1, <1>1 DEF Step
  <2> QED BY <2>1, <2>2, <1>2
<1>9. CASE CancelSend(c)
  <2>1. PICK j \in known : req' = [req EXCEPT ![c] = [pc |-> "cancel", want |-> j]]
    BY <1>9 DEF CancelSend
  <2> DEFINE r == [pc |-> "cancel", want |-> j]
  <2>2. j \in Nat BY Shape DEF IInv, ServerTypeOK
  <2>3. r \in ReqState /\ r.pc = "cancel" BY <2>2 DEF ReqState
  <2> HIDE DEF r
  <2> QED BY <2>1, <2>3, <1>9, QuietClient DEF CancelSend, r
<1>10. CASE CancelRefused(c)
  <2>1. IdleReq \in ReqState /\ IdleReq.pc = "idle" BY DEF IdleReq, ReqState
  <2> QED BY <2>1, <1>10, QuietClient DEF CancelRefused
<1> QED BY <1>3, <1>4, <1>5, <1>6, <1>7, <1>8, <1>9, <1>10

\* Every step keeps the invariant.
LEMMA NextKeeps == IInv /\ [Next]_vars => IInv'
<1> SUFFICES ASSUME IInv, [Next]_vars PROVE IInv' OBVIOUS
<1>1. CASE UNCHANGED vars
  BY <1>1 DEF vars, serverVars, streamVars, IInv, ServerTypeOK, LocksHeld, NewestRuns, Newest,
              StartsNewest, CancelAccepted, StorageExclusive
<1>2. ASSUME NEW c \in Clients, StartRoute(c) \/ CancelRoute(c) \/ StorageRoute(c) PROVE IInv'
  BY <1>2, QuietKeeps, ClaimKeeps, SpawnKeeps, FailKeeps, InstallKeeps, CancelKeeps
     DEF StartRoute, CancelRoute, StorageRoute
<1>3. ASSUME NEW j \in DOMAIN sup, Worker(j) PROVE IInv' BY <1>3, WorkerKeeps
<1>4. ASSUME NEW s \in Streams, Stream(s) PROVE IInv' BY <1>4, StreamStep
<1> QED BY <1>1, <1>2, <1>3, <1>4 DEF Next

\* The invariant holds in every state of the daemon.
LEMMA Invariance == Spec => []IInv
<1> QED BY InitIInv, NextKeeps, PTL DEF Spec

\* For any clients, streams and installations: no partition is changed and no
\* reboot begun while an installation owns the disk.
THEOREM StorageIsExclusive == Spec => []StorageExclusive
<1>1. IInv => StorageExclusive BY DEF IInv
<1> QED BY Invariance, <1>1, PTL
-----------------------------------------------------------------------------
(* The transaction file                                                    *)

\* What the file holds while the newest installation runs: the progress of
\* its phases until a cancellation or an error has been recorded.
TxFollows(j, w, file, lost) ==
    /\ (w.pc = "after" /\ w.result = "ok") => file = [sup |-> j, status |-> PhaseStatus(w.at)]
    /\ w.pc = "end" => file = [sup |-> j, status |-> "complete"]
    /\ (w.pc = "finish" /\ j \notin lost) => file = [sup |-> j, status |-> "failed"]

TxInv ==
    /\ tx.sup <= Newest
    /\ \A j \in DOMAIN sup :
          sup[j].worker_active => sup[j].terminal_event_id = 0 /\ TxFollows(j, worker[j], tx, unwritten)
    /\ TransactionAgrees

\* What the file says of an ended installation.
TxOutcome(j, s) ==
    [sup |-> j, status |-> IF s.lifecycle = "done" THEN "complete" ELSE "failed"]

\* A step of the worker, which is the newest one: whatever it writes hides
\* what the file said of the installations before.
LEMMA TxWorkerStep ==
    ASSUME IInv, TxInv, NEW j \in DOMAIN sup, sup[j].worker_active,
           NEW u \in JobState, NEW w \in WorkerState,
           sup' = [sup EXCEPT ![j] = u], worker' = [worker EXCEPT ![j] = w],
           tx' = tx \/ tx'.sup = j, unwritten \subseteq unwritten',
           u.worker_active => u.terminal_event_id = 0 /\ TxFollows(j, w, tx', unwritten'),
           ~u.worker_active => j \in unwritten' \/ tx' = TxOutcome(j, u)
    PROVE  TxInv'
<1>1. /\ Len(sup') = Len(sup) /\ DOMAIN sup' = DOMAIN sup
      /\ sup'[j] = u /\ \A k \in DOMAIN sup : k # j => sup'[k] = sup[k]
  BY Shape, SeqUpdate
<1>2. worker'[j] = w BY Shape, SeqUpdate
<1>3. j = Newest /\ Newest' = Newest /\ Newest \in Nat BY <1>1, Shape DEF IInv, NewestRuns, Newest
<1>4. \A k \in DOMAIN sup : k # j => ~sup[k].worker_active /\ k < j
  BY <1>3, Shape DEF IInv, NewestRuns, Newest
<1>5. u.worker_active \in BOOLEAN BY DEF JobState
<1>6. tx'.sup <= Newest' BY <1>3 DEF TxInv
<1>7. ASSUME NEW k \in DOMAIN sup', sup'[k].worker_active
      PROVE  sup'[k].terminal_event_id = 0 /\ TxFollows(k, worker'[k], tx', unwritten')
  <2>1. k = j BY <1>1, <1>4, <1>7
  <2> QED BY <2>1, <1>1, <1>2, <1>7 DEF TxFollows
<1>8. ASSUME NEW k \in DOMAIN sup', sup'[k].terminal_event_id # 0, k \notin unwritten', tx'.sup <= k
      PROVE  tx' = TxOutcome(k, sup'[k])
  <2>1. CASE k = j
    <3>1. ~u.worker_active BY <1>1, <1>5, <1>8, <2>1
    <3> QED BY <3>1, <1>1, <1>8, <2>1
  <2>2. CASE k # j
    <3>1. k < j /\ j \in Nat /\ k \in Nat BY <1>1, <1>4, <2>2, Shape
    <3>2. tx' = tx BY <3>1, <1>8
    <3> QED BY <3>2, <1>1, <1>8, <2>2 DEF TxInv, TransactionAgrees, TxOutcome
  <2> QED BY <2>1, <2>2
<1>9. TransactionAgrees' BY <1>8 DEF TransactionAgrees, TxOutcome
<1> QED BY <1>6, <1>7, <1>9 DEF TxInv

\* How the critical sections of the supervisor leave an installation.
LEMMA Lifecycle ==
    ASSUME NEW s \in JobState
    PROVE  /\ \A p \in PhaseNames : PhaseEntered(s, p).terminal_event_id = s.terminal_event_id
           /\ \A k \in {"error", "cancelled"} : finish_terminal(s, k).lifecycle = "failed"
           /\ FinishedDone(s).lifecycle = "done"
<1>1. ASSUME NEW k \in PhaseNames \cup Endings
      PROVE  /\ append_event(s, k) \in JobState
             /\ append_event(s, k).terminal_event_id = s.terminal_event_id
  BY AppendEvent
<1>2. ASSUME NEW p \in PhaseNames PROVE PhaseEntered(s, p).terminal_event_id = s.terminal_event_id
  <2> DEFINE a == append_event(s, p)
  <2>1. a \in JobState /\ a.terminal_event_id = s.terminal_event_id BY <1>1
  <2>2. PhaseEntered(s, p) = [a EXCEPT !.phase = p] BY DEF PhaseEntered
  <2> HIDE DEF a
  <2> QED BY <2>1, <2>2 DEF JobState
<1>3. ASSUME NEW k \in {"error", "cancelled"} PROVE finish_terminal(s, k).lifecycle = "failed"
  <2> DEFINE a == append_event(s, k)
  <2>1. a \in JobState BY <1>1 DEF Endings
  <2>2. finish_terminal(s, k) =
          [a EXCEPT !.lifecycle = "failed", !.cancel_requested = FALSE, !.worker_active = FALSE,
                    !.terminal_event_id = s.next_event_id + 1]
    BY DEF finish_terminal
  <2> HIDE DEF a
  <2> QED BY <2>1, <2>2 DEF JobState
<1>4. FinishedDone(s).lifecycle = "done"
  <2> DEFINE a == append_event(s, "done")
  <2>1. a \in JobState BY <1>1 DEF Endings
  <2>2. FinishedDone(s) =
          [a EXCEPT !.lifecycle = "done", !.phase = "complete", !.cancel_requested = FALSE,
                    !.worker_active = FALSE, !.terminal_event_id = s.next_event_id + 1]
    BY DEF FinishedDone
  <2> HIDE DEF a
  <2> QED BY <2>1, <2>2 DEF JobState
<1> QED BY <1>2, <1>3, <1>4

LEMMA TxWorker ==
    ASSUME IInv, TxInv, NEW j \in DOMAIN sup, Worker(j)
    PROVE  TxInv'
<1> DEFINE s == sup[j]
           v == worker[j]
<1>1. /\ s \in JobState /\ v \in WorkerState /\ sup = [sup EXCEPT ![j] = s]
      /\ s.worker_active /\ s.terminal_event_id = 0 /\ TxFollows(j, v, tx, unwritten)
  <2>1. sup \in Seq(JobState) /\ s \in JobState /\ v \in WorkerState BY Shape
  <2>2. sup = [sup EXCEPT ![j] = sup[j]] BY <2>1
  <2>3. s.worker_active
    BY DEF Worker, WorkerBegin, WorkerTop, WorkerEnter, WorkerExecute, WorkerAfter, WorkerEnd,
           WorkerRecord, WorkerFinish, WorkerAt
  <2> QED BY <2>1, <2>2, <2>3 DEF TxInv
<1>2. Len(PHASES) \in Nat /\ v.at \in 1..Len(PHASES) BY <1>1, PhasesAssumption DEF WorkerState
\* The worker goes on.
<1>3. ASSUME NEW w \in WorkerState, NEW u \in JobState, sup' = [sup EXCEPT ![j] = u],
             worker' = [worker EXCEPT ![j] = w], u.worker_active = s.worker_active,
             u.terminal_event_id = s.terminal_event_id,
             tx' = tx \/ tx'.sup = j, unwritten \subseteq unwritten', TxFollows(j, w, tx', unwritten')
      PROVE  TxInv'
  BY <1>1, <1>3, TxWorkerStep
<1>4. ASSUME NEW w \in WorkerState, w.pc \in {"top", "enter", "execute", "record"}
      PROVE  TxFollows(j, w, tx', unwritten')
  BY <1>4 DEF TxFollows
<1>5. ASSUME NEW e \in {"error", "cancelled"}, Ends(j, e), UNCHANGED <<sup, tx, unwritten>>
      PROVE  TxInv'
  <2> DEFINE w == [v EXCEPT !.pc = "record", !.ending = e]
  <2>1. w \in WorkerState /\ w.pc = "record" BY <1>1 DEF WorkerState
  <2>2. worker' = [worker EXCEPT ![j] = w] BY <1>5 DEF Ends, Moves
  <2> HIDE DEF w
  <2> QED BY <1>1, <1>3, <1>4, <1>5, <2>1, <2>2
<1>a. CASE WorkerBegin(j)
  <2> DEFINE w == [v EXCEPT !.pc = "top"]
             u == [s EXCEPT !.lifecycle = "installing"]
  <2>1. w \in WorkerState /\ w.pc = "top" BY <1>1 DEF WorkerState
  <2>2. u \in JobState /\ u.worker_active = s.worker_active
        /\ u.terminal_event_id = s.terminal_event_id
    BY <1>1 DEF JobState, Lifecycles
  <2>3. sup' = [sup EXCEPT ![j] = u] /\ worker' = [worker EXCEPT ![j] = w]
        /\ UNCHANGED <<tx, unwritten>>
    BY <1>a DEF WorkerBegin, Moves
  <2> HIDE DEF u, w
  <2> QED BY <1>3, <1>4, <2>1, <2>2, <2>3
<1>b. CASE WorkerTop(j)
  <2>1. CASE Ends(j, "cancelled") BY <2>1, <1>5, <1>b DEF WorkerTop
  <2>2. CASE Moves(j, [v EXCEPT !.pc = "enter"])
    <3> DEFINE w == [v EXCEPT !.pc = "enter"]
    <3>1. w \in WorkerState /\ w.pc = "enter" BY <1>1 DEF WorkerState
    <3>2. worker' = [worker EXCEPT ![j] = w] /\ UNCHANGED <<sup, tx, unwritten>>
      BY <2>2, <1>b DEF Moves, WorkerTop
    <3> HIDE DEF w
    <3> QED BY <1>1, <1>3, <1>4, <3>1, <3>2
  <2> QED BY <2>1, <2>2, <1>b DEF WorkerTop
<1>c. CASE WorkerEnter(j)
  <2> DEFINE w == [v EXCEPT !.pc = "execute"]
             u == PhaseEntered(s, PHASES[v.at])
  <2>1. w \in WorkerState /\ w.pc = "execute" BY <1>1 DEF WorkerState
  <2>2. PHASES[v.at] \in PhaseNames BY <1>2, PhasesAssumption
  <2>3. u \in JobState /\ u.worker_active = s.worker_active
        /\ u.terminal_event_id = s.terminal_event_id
    <3>1. u \in JobState /\ u.worker_active = s.worker_active BY <1>1, <2>2, Supervisor
    <3>2. u.terminal_event_id = s.terminal_event_id BY <1>1, <2>2, Lifecycle
    <3> QED BY <3>1, <3>2
  <2>4. sup' = [sup EXCEPT ![j] = u] /\ worker' = [worker EXCEPT ![j] = w]
        /\ UNCHANGED <<tx, unwritten>>
    BY <1>c DEF WorkerEnter, Moves
  <2> HIDE DEF u, w
  <2> QED BY <1>3, <1>4, <2>1, <2>3, <2>4
<1>d. CASE WorkerExecute(j)
  <2>1. PICK r \in {"ok", "err"} :
          /\ worker' = [worker EXCEPT ![j] = [v EXCEPT !.pc = "after", !.result = r]]
          /\ tx' \in {tx, [sup |-> j, status |-> PhaseStatus(v.at)]}
          /\ r = "ok" => tx' = [sup |-> j, status |-> PhaseStatus(v.at)]
    BY <1>d DEF WorkerExecute, Moves
  <2> DEFINE w == [v EXCEPT !.pc = "after", !.result = r]
  <2>2. w \in WorkerState /\ w.pc = "after" /\ w.result = r /\ w.at = v.at
    BY <1>1 DEF WorkerState
  <2>3. UNCHANGED <<sup, unwritten>> BY <1>d DEF WorkerExecute
  <2>4. worker' = [worker EXCEPT ![j] = w] BY <2>1
  <2> HIDE DEF w
  <2>5. TxFollows(j, w, tx', unwritten') BY <2>1, <2>2 DEF TxFollows
  <2>6. tx' = tx \/ tx'.sup = j BY <2>1
  <2> QED BY <1>1, <1>3, <2>2, <2>3, <2>4, <2>5, <2>6
<1>e. CASE WorkerAfter(j)
  <2>0. v.pc = "after" /\ UNCHANGED <<sup, tx, unwritten>> BY <1>e DEF WorkerAfter, WorkerAt
  <2>1. CASE Ends(j, "cancelled") BY <2>0, <2>1, <1>5
  <2>2. CASE Ends(j, "error") BY <2>0, <2>2, <1>5
  <2>3. CASE v.at < Len(PHASES) /\ Moves(j, [v EXCEPT !.pc = "top", !.at = @ + 1])
    <3> DEFINE n == v.at + 1
               w == [v EXCEPT !.pc = "top", !.at = n]
    <3>1. n \in 1..Len(PHASES) BY <1>2, <2>3
    <3>2. worker' = [worker EXCEPT ![j] = w] BY <2>3 DEF Moves
    <3> HIDE DEF n
    <3>3. w \in WorkerState /\ w.pc = "top" BY <1>1, <3>1 DEF WorkerState
    <3> HIDE DEF w
    <3> QED BY <1>1, <1>3, <1>4, <2>0, <3>2, <3>3
  <2>4. CASE /\ v.result = "ok" /\ v.at = Len(PHASES)
             /\ Moves(j, [v EXCEPT !.pc = "end"])
    <3> DEFINE w == [v EXCEPT !.pc = "end"]
    <3>1. w \in WorkerState /\ w.pc = "end" BY <1>1 DEF WorkerState
    <3>2. worker' = [worker EXCEPT ![j] = w] BY <2>4 DEF Moves
    <3>3. tx = [sup |-> j, status |-> "complete"] BY <1>1, <2>0, <2>4 DEF TxFollows, PhaseStatus
    <3> HIDE DEF w
    <3>4. TxFollows(j, w, tx', unwritten') BY <2>0, <3>1, <3>3 DEF TxFollows
    <3> QED BY <1>1, <1>3, <2>0, <3>1, <3>2, <3>4
  <2> QED BY <1>e, <2>1, <2>2, <2>3, <2>4 DEF WorkerAfter
<1>6. [NoWorker EXCEPT !.pc = "gone"] \in WorkerState
  BY PhasesAssumption DEF NoWorker, WorkerState
<1>f. CASE WorkerEnd(j)
  <2>0. v.pc = "end" /\ UNCHANGED <<tx, unwritten>> BY <1>f DEF WorkerEnd, WorkerAt
  <2>1. CASE Ends(j, "cancelled") /\ UNCHANGED sup BY <2>0, <2>1, <1>5
  <2>2. CASE /\ Moves(j, [NoWorker EXCEPT !.pc = "gone"])
             /\ sup' = [sup EXCEPT ![j] = FinishedDone(@)]
    <3> DEFINE u == FinishedDone(s)
    <3>1. u \in JobState /\ ~u.worker_active /\ u.lifecycle = "done"
      BY <1>1, Supervisor, Lifecycle
    <3>2. sup' = [sup EXCEPT ![j] = u] BY <2>2
    <3>3. tx' = [sup |-> j, status |-> "complete"] BY <1>1, <2>0 DEF TxFollows
    <3> HIDE DEF u
    <3>4. tx' = TxOutcome(j, u) BY <3>1, <3>3 DEF TxOutcome
    <3> QED BY <1>1, <1>6, <2>0, <2>2, <3>1, <3>2, <3>4, TxWorkerStep DEF Moves
  <2> QED BY <1>f, <2>1, <2>2 DEF WorkerEnd
<1>g. CASE WorkerRecord(j)
  <2> DEFINE w == [v EXCEPT !.pc = "finish"]
  <2>1. w \in WorkerState /\ w.pc = "finish" BY <1>1 DEF WorkerState
  <2>2. worker' = [worker EXCEPT ![j] = w] /\ UNCHANGED sup BY <1>g DEF WorkerRecord, Moves
  <2>3. \/ tx' = [sup |-> j, status |-> "failed"] /\ unwritten' = unwritten
        \/ tx' = tx /\ unwritten' = unwritten \cup {j}
    BY <1>g DEF WorkerRecord
  <2> HIDE DEF w
  <2>4. TxFollows(j, w, tx', unwritten') BY <2>1, <2>3 DEF TxFollows
  <2>5. (tx' = tx \/ tx'.sup = j) /\ unwritten \subseteq unwritten' BY <2>3
  <2> QED BY <1>1, <1>3, <2>1, <2>2, <2>4, <2>5
<1>h. CASE WorkerFinish(j)
  <2>0. v.pc = "finish" /\ UNCHANGED <<tx, unwritten>> BY <1>h DEF WorkerFinish, WorkerAt
  <2> DEFINE u == finish_terminal(s, v.ending)
  <2>1. v.ending \in {"error", "cancelled"} BY <1>1 DEF WorkerState
  <2>2. u \in JobState /\ ~u.worker_active /\ u.lifecycle = "failed"
    BY <1>1, <2>1, Supervisor, Lifecycle
  <2>3. sup' = [sup EXCEPT ![j] = u] /\ Moves(j, [NoWorker EXCEPT !.pc = "gone"])
    BY <1>h DEF WorkerFinish
  <2>4. j \in unwritten' \/ tx' = [sup |-> j, status |-> "failed"] BY <1>1, <2>0 DEF TxFollows
  <2> HIDE DEF u
  <2>5. j \in unwritten' \/ tx' = TxOutcome(j, u) BY <2>2, <2>4 DEF TxOutcome
  <2> QED BY <1>1, <1>6, <2>0, <2>2, <2>3, <2>5, TxWorkerStep DEF Moves
<1> QED BY <1>a, <1>b, <1>c, <1>d, <1>e, <1>f, <1>g, <1>h DEF Worker

\* A step that changes one supervisor, and neither its ending nor the file.
LEMMA TxFlags ==
    ASSUME IInv, TxInv, NEW i \in DOMAIN sup, NEW u \in JobState, sup' = [sup EXCEPT ![i] = u],
           UNCHANGED <<worker, tx, unwritten>>,
           u.worker_active => sup[i].worker_active,
           u.terminal_event_id = sup[i].terminal_event_id,
           u.terminal_event_id = 0 \/ u.lifecycle = sup[i].lifecycle
    PROVE  TxInv'
<1>1. /\ Len(sup') = Len(sup) /\ DOMAIN sup' = DOMAIN sup
      /\ sup'[i] = u /\ \A k \in DOMAIN sup : k # i => sup'[k] = sup[k]
  BY Shape, SeqUpdate
<1>2. tx'.sup <= Newest' BY <1>1 DEF TxInv, Newest
<1>3. ASSUME NEW k \in DOMAIN sup', sup'[k].worker_active
      PROVE  sup'[k].terminal_event_id = 0 /\ TxFollows(k, worker'[k], tx', unwritten')
  <2>1. sup[k].worker_active /\ sup'[k].terminal_event_id = sup[k].terminal_event_id
    BY <1>1, <1>3
  <2> QED BY <1>1, <2>1 DEF TxInv, TxFollows
<1>4. TransactionAgrees' BY <1>1 DEF TxInv, TransactionAgrees
<1> QED BY <1>2, <1>3, <1>4 DEF TxInv

LEMMA TxStart ==
    ASSUME IInv, TxInv, NEW c \in Clients, StartRoute(c)
    PROVE  TxInv'
<1>1. CASE StartGate(c) \/ StartRefused(c) \/ StartInstalled(c)
  <2>1. UNCHANGED <<sup, worker, tx, unwritten>>
    BY <1>1 DEF StartGate, StartRefused, StartInstalled, serverVars
  <2> QED BY <2>1 DEF TxInv, TxFollows, TransactionAgrees, Newest
<1>2. CASE StartClaim(c)
  <2> DEFINE u == Claimed(DefaultJob)
             n == Len(sup) + 1
  <2>1. UNCHANGED <<tx, unwritten>> /\ sup' = Append(sup, u) /\ worker' = Append(worker, NoWorker)
    BY <1>2 DEF StartClaim
  <2>2. u \in JobState /\ u.terminal_event_id = 0 BY NewSupervisor
  <2> HIDE DEF u
  <2>3. /\ Len(sup') = n /\ DOMAIN sup' = 1..n
        /\ sup'[n] = u /\ \A k \in DOMAIN sup : sup'[k] = sup[k]
    BY <2>1, <2>2, Shape, SeqAppend
  <2>4. NoWorker \in WorkerState /\ NoWorker.pc = "none"
    BY PhasesAssumption DEF NoWorker, WorkerState
  <2>5. worker'[n] = NoWorker /\ \A k \in DOMAIN sup : worker'[k] = worker[k]
    BY <2>1, <2>4, Shape, SeqAppend
  <2>6. \A k \in DOMAIN sup' : k \in DOMAIN sup \/ k = n BY <2>3, Shape
  <2>7. tx'.sup <= Newest'
    <3>1. tx.sup \in Nat BY DEF IInv, ServerTypeOK
    <3> QED BY <2>1, <2>3, <3>1, Shape DEF TxInv, Newest
  <2>8. TxFollows(n, NoWorker, tx', unwritten') BY <2>4 DEF TxFollows
  <2>9. ASSUME NEW k \in DOMAIN sup', sup'[k].worker_active
        PROVE  sup'[k].terminal_event_id = 0 /\ TxFollows(k, worker'[k], tx', unwritten')
    <3>1. CASE k = n BY <2>2, <2>3, <2>5, <2>8, <3>1 DEF TxFollows
    <3>2. CASE k \in DOMAIN sup BY <2>1, <2>3, <2>5, <2>9, <3>2 DEF TxInv, TxFollows
    <3> QED BY <2>6, <3>1, <3>2
  <2>10. TransactionAgrees' BY <2>1, <2>2, <2>3, <2>6 DEF TxInv, TransactionAgrees
  <2> QED BY <2>7, <2>9, <2>10 DEF TxInv
<1>3. CASE StartSpawn(c)
  <2> DEFINE w == [worker[Newest] EXCEPT !.pc = "begin"]
  <2>1. UNCHANGED <<sup, tx, unwritten>> /\ worker' = [worker EXCEPT ![Newest] = w]
    BY <1>3 DEF StartSpawn
  <2>2. Newest \in DOMAIN sup BY <1>3, StarterAlone DEF StartSpawn, Step
  <2>3. w \in WorkerState /\ w.pc = "begin"
    <3>1. worker[Newest] \in WorkerState BY <2>2, Shape
    <3> QED BY <3>1 DEF WorkerState
  <2> HIDE DEF w
  <2>4. worker'[Newest] = w /\ \A k \in DOMAIN sup : k # Newest => worker'[k] = worker[k]
    BY <2>1, <2>2, <2>3, Shape, SeqUpdate
  <2>5. TxFollows(Newest, worker'[Newest], tx', unwritten') BY <2>3, <2>4 DEF TxFollows
  <2>6. ASSUME NEW k \in DOMAIN sup', sup'[k].worker_active
        PROVE  sup'[k].terminal_event_id = 0 /\ TxFollows(k, worker'[k], tx', unwritten')
    <3>1. CASE k = Newest BY <2>1, <2>5, <2>6, <3>1 DEF TxInv, TxFollows
    <3>2. CASE k # Newest BY <2>1, <2>4, <2>6, <3>2 DEF TxInv, TxFollows
    <3> QED BY <3>1, <3>2
  <2>7. TransactionAgrees' /\ tx'.sup <= Newest' BY <2>1 DEF TxInv, TransactionAgrees, Newest
  <2> QED BY <2>6, <2>7 DEF TxInv
<1>4. CASE StartFails(c)
  <2> DEFINE u == StartFailed(sup[Newest])
  <2>1. UNCHANGED <<worker, tx, unwritten>> /\ sup' = [sup EXCEPT ![Newest] = u]
    BY <1>4 DEF StartFails
  <2>2. req[c].pc = "spawn" BY <1>4 DEF StartFails, Step
  <2>3. Newest \in DOMAIN sup BY <2>2, StarterAlone
  <2>4. u \in JobState /\ ~u.worker_active /\ u.terminal_event_id = sup[Newest].terminal_event_id
    BY <2>3, Shape, Supervisor
  <2>5. u.terminal_event_id = 0 BY <2>2, <2>4 DEF IInv, StartsNewest
  <2> HIDE DEF u
  <2> QED BY <2>1, <2>3, <2>4, <2>5, TxFlags
<1> QED BY <1>1, <1>2, <1>3, <1>4 DEF StartRoute

LEMMA TxCancel ==
    ASSUME IInv, TxInv, NEW c \in Clients, CancelRoute(c)
    PROVE  TxInv'
<1>1. CASE CancelSend(c) \/ CancelRefused(c)
  <2>1. UNCHANGED <<sup, worker, tx, unwritten>>
    BY <1>1 DEF CancelSend, CancelRefused, serverVars
  <2> QED BY <2>1 DEF TxInv, TxFollows, TransactionAgrees, Newest
<1>2. CASE CancelAccept(c) \/ CancelToken(c)
  <2>1. active # 0
    BY <1>2 DEF CancelAccept, InstallRuns, CancelToken, IInv, StartsNewest
  <2>2. active \in DOMAIN sup BY <2>1, Shape
  <2>3. sup[active] \in JobState BY <2>2, Shape
  <2>4. \E u \in JobState :
          /\ sup' = [sup EXCEPT ![active] = u]
          /\ u.worker_active = sup[active].worker_active
          /\ u.terminal_event_id = sup[active].terminal_event_id
          /\ u.lifecycle = sup[active].lifecycle
    <3>1. CASE CancelAccept(c)
      <4> DEFINE u == [sup[active] EXCEPT !.cancel_requested = TRUE]
      <4>1. u \in JobState /\ u.worker_active = sup[active].worker_active
            /\ u.terminal_event_id = sup[active].terminal_event_id
            /\ u.lifecycle = sup[active].lifecycle
        BY <2>3 DEF JobState
      <4>2. sup' = [sup EXCEPT ![active] = u] BY <3>1 DEF CancelAccept
      <4> HIDE DEF u
      <4> QED BY <4>1, <4>2
    <3>2. CASE CancelToken(c)
      <4> DEFINE u == [sup[active] EXCEPT !.token = TRUE]
      <4>1. u \in JobState /\ u.worker_active = sup[active].worker_active
            /\ u.terminal_event_id = sup[active].terminal_event_id
            /\ u.lifecycle = sup[active].lifecycle
        BY <2>3 DEF JobState
      <4>2. sup' = [sup EXCEPT ![active] = u] BY <3>2 DEF CancelToken
      <4> HIDE DEF u
      <4> QED BY <4>1, <4>2
    <3> QED BY <1>2, <3>1, <3>2
  <2>5. UNCHANGED <<worker, tx, unwritten>> BY <1>2 DEF CancelAccept, CancelToken
  <2> QED BY <2>2, <2>4, <2>5, TxFlags
<1> QED BY <1>1, <1>2 DEF CancelRoute

\* An ended installation's record agrees with what its client was told, for
\* any phases and any number of installations, whatever cancellation beats
\* whichever phase.
THEOREM TransactionIsRight == Spec => []TransactionAgrees
<1>1. Init => TxInv
  <2> SUFFICES ASSUME Init PROVE TxInv OBVIOUS
  <2>1. Len(sup) = 0 /\ DOMAIN sup = {} /\ tx.sup = 0 BY DEF Init
  <2> QED BY <2>1 DEF TxInv, TransactionAgrees, Newest
<1>2. IInv /\ TxInv /\ [Next]_vars => TxInv'
  <2> SUFFICES ASSUME IInv, TxInv, [Next]_vars PROVE TxInv' OBVIOUS
  <2>1. CASE UNCHANGED <<sup, worker, tx, unwritten>>
    BY <2>1 DEF TxInv, TxFollows, TransactionAgrees, Newest
  <2>2. ASSUME NEW c \in Clients, StorageRoute(c) PROVE TxInv'
    BY <2>1, <2>2
    DEF StorageRoute, OperateGate, OperateLocked, OperateBegin, OperateEnd, serverVars
  <2>3. ASSUME NEW t \in Streams, Stream(t) PROVE TxInv'
    BY <2>1, <2>3 DEF Stream, StreamOpen, StreamReplay, StreamWrite, StreamLost, StreamWait,
                      StreamWake, KeepsServer, serverVars
  <2>4. CASE UNCHANGED vars BY <2>1, <2>4 DEF vars, serverVars
  <2> QED BY <2>2, <2>3, <2>4, TxStart, TxCancel, TxWorker DEF Next
<1>3. TxInv => TransactionAgrees BY DEF TxInv
<1> QED BY <1>1, <1>2, <1>3, Invariance, PTL DEF Spec
-----------------------------------------------------------------------------
(* The event history, and what a stream is sent of it                      *)

\* The ids of a history follow each other up to the last one assigned.
Contiguous(s) ==
    /\ \A i \in 1..Len(s.history) : s.history[i].id = s.history[1].id + (i - 1)
    /\ s.history # <<>> => s.history[Len(s.history)].id = s.next_event_id

\* What a step may do to a history: go on in order, drop from its front.
Grown(s, t) ==
    /\ Contiguous(s) => Contiguous(t)
    /\ (Contiguous(s) /\ s.history # <<>>) =>
          t.history # <<>> /\ s.history[1].id <= t.history[1].id

LEMMA AppendGrows ==
    ASSUME NEW s \in JobState, NEW k \in PhaseNames \cup Endings
    PROVE  Grown(s, append_event(s, k))
<1> DEFINE q == s.history
           e == [id |-> s.next_event_id + 1, kind |-> k]
           a == Append(q, e)
           t == append_event(s, k)
           h == t.history
<1>1. q \in Seq(Event) /\ s.next_event_id \in Nat BY DEF JobState
<1>2. e \in Event /\ e.id = s.next_event_id + 1 BY <1>1 DEF Event
<1>3. h = (IF Len(a) > MaxHistory THEN Tail(a) ELSE a) /\ t.next_event_id = e.id
  BY DEF append_event, JobState
<1> HIDE DEF e, t
<1>4. /\ a \in Seq(Event) /\ Len(a) = Len(q) + 1 /\ Len(q) \in Nat /\ a # <<>>
      /\ a[Len(a)] = e /\ \A i \in 1..Len(q) : a[i] = q[i]
  BY <1>1, <1>2
<1>b. \A x \in Event : x.id \in Nat BY DEF Event
<1>5. \A i \in 1..Len(a) : a[i].id \in Nat
  <2>1. \A i \in 1..Len(a) : a[i] \in Event BY <1>4
  <2> QED BY <1>b, <2>1
<1>6. Contiguous(s) => \A i \in 1..Len(a) : a[i].id = a[1].id + (i - 1)
  <2> SUFFICES ASSUME Contiguous(s), NEW i \in 1..Len(a) PROVE a[i].id = a[1].id + (i - 1)
    OBVIOUS
  <2>1. CASE Len(q) = 0 BY <1>4, <1>5, <2>1
  <2>2. CASE Len(q) # 0 /\ i \in 1..Len(q)
    <3>1. 1 \in 1..Len(q) BY <1>4, <2>2
    <3> QED BY <1>4, <2>2, <3>1 DEF Contiguous
  <2>3. CASE Len(q) # 0 /\ i = Len(q) + 1
    <3>1. 1 \in 1..Len(q) /\ Len(q) \in 1..Len(q) /\ q # <<>> BY <1>1, <1>4, <2>3
    <3>2. q[Len(q)].id = q[1].id + (Len(q) - 1) /\ q[Len(q)].id = s.next_event_id
      BY <3>1 DEF Contiguous
    <3>3. a[1] = q[1] /\ a[i] = e BY <1>4, <2>3, <3>1
    <3>4. q[1].id \in Nat
      <4>1. q[1] \in Event BY <1>1, <3>1
      <4> QED BY <1>b, <4>1
    <3> HIDE DEF q, a
    <3> QED BY <1>1, <1>2, <1>4, <2>3, <3>2, <3>3, <3>4
  <2> QED BY <1>4, <2>1, <2>2, <2>3
<1>7. q # <<>> => a[1] = q[1]
  <2>1. q # <<>> => 1 \in 1..Len(q) BY <1>1
  <2> QED BY <1>4, <2>1
<1> HIDE DEF a, h
<1>8. CASE ~(Len(a) > MaxHistory)
  <2>1. h = a BY <1>3, <1>8
  <2>2. q # <<>> => q[1].id \in Nat
    <3>1. q # <<>> => q[1] \in Event BY <1>1
    <3> QED BY <1>b, <3>1
  <2>3. Contiguous(s) => Contiguous(t)
    BY <1>2, <1>3, <1>4, <1>6, <2>1 DEF Contiguous, h
  <2> QED BY <1>4, <1>7, <2>1, <2>2, <2>3 DEF Grown, h, t
<1>9. CASE Len(a) > MaxHistory
  <2>1. Len(a) > 1 /\ Len(a) \in Nat BY <1>4, <1>9, HistoryAssumption
  <2>2. /\ h \in Seq(Event) /\ Len(h) = Len(a) - 1 /\ h # <<>>
        /\ \A i \in 1..Len(h) : h[i] = a[i + 1]
    <3>1. h = Tail(a) BY <1>3, <1>9
    <3>2. Tail(a) \in Seq(Event) /\ Len(Tail(a)) = Len(a) - 1 BY <1>4, <2>1
    <3>3. \A i \in 1..(Len(a) - 1) : Tail(a)[i] = a[i + 1] BY <1>4, <2>1
    <3>4. Tail(a) # <<>>
      <4>1. Len(Tail(a)) # 0 BY <2>1, <3>2
      <4>2. Len(<<>>) = 0 OBVIOUS
      <4> QED BY <4>1, <4>2
    <3> QED BY <3>1, <3>2, <3>3, <3>4
  <2>3. 1 \in 1..Len(h) /\ Len(h) \in 1..Len(h) /\ h[1] = a[2] /\ h[Len(h)] = e
        /\ 2 \in 1..Len(a) /\ 1 \in 1..Len(a)
    BY <1>4, <2>1, <2>2
  <2>4. q # <<>> /\ Contiguous(s) => q[1].id <= h[1].id
    <3>1. Contiguous(s) => a[2].id = a[1].id + 1 BY <1>6, <2>3
    <3> QED BY <1>5, <1>7, <2>3, <3>1
  <2>5. ASSUME Contiguous(s), NEW i \in 1..Len(h) PROVE h[i].id = h[1].id + (i - 1)
    <3>1. i + 1 \in 1..Len(a) /\ h[i] = a[i + 1] BY <2>1, <2>2
    <3>2. a[i + 1].id = a[1].id + i /\ a[2].id = a[1].id + 1 /\ a[1].id \in Nat
      BY <1>5, <1>6, <2>3, <2>5, <3>1
    <3>3. i \in Nat BY <2>2
    <3> HIDE DEF h
    <3>4. h[i].id = a[1].id + i /\ h[1].id = a[1].id + 1 BY <2>3, <3>1, <3>2
    <3>5. \A b, n \in Nat : b + n = (b + 1) + (n - 1) OBVIOUS
    <3> QED BY <3>2, <3>3, <3>4, <3>5
  <2>6. Contiguous(s) => Contiguous(t)
    BY <1>3, <2>3, <2>5 DEF Contiguous, h
  <2> QED BY <2>2, <2>4, <2>6 DEF Grown, h, t
<1> QED BY <1>8, <1>9

\* A change of other fields, before or after an event.
LEMMA GrownKept ==
    ASSUME NEW s, NEW t, NEW u, Grown(s, t),
           u.history = t.history, u.next_event_id = t.next_event_id
    PROVE  Grown(s, u)
BY DEF Grown, Contiguous

LEMMA GrownSame ==
    ASSUME NEW s \in JobState, NEW u,
           u.history = s.history, u.next_event_id = s.next_event_id
    PROVE  Grown(s, u)
<1>1. s.history # <<>> => s.history[1].id \in Nat
  <2>1. s.history \in Seq(Event) BY DEF JobState
  <2>2. s.history # <<>> => s.history[1] \in Event BY <2>1
  <2>3. \A x \in Event : x.id \in Nat BY DEF Event
  <2> QED BY <2>2, <2>3
<1> QED BY <1>1 DEF Grown, Contiguous

LEMMA SupervisorGrows ==
    ASSUME NEW s \in JobState
    PROVE  /\ \A p \in PhaseNames : Grown(s, PhaseEntered(s, p))
           /\ \A k \in {"error", "cancelled"} : Grown(s, finish_terminal(s, k))
           /\ Grown(s, FinishedDone(s))
<1>1. ASSUME NEW k \in PhaseNames \cup Endings
      PROVE  append_event(s, k) \in JobState /\ Grown(s, append_event(s, k))
  BY AppendEvent, AppendGrows
<1>2. ASSUME NEW p \in PhaseNames PROVE Grown(s, PhaseEntered(s, p))
  <2> DEFINE a == append_event(s, p)
             u == [a EXCEPT !.phase = p]
  <2>1. a \in JobState /\ Grown(s, a) BY <1>1
  <2> HIDE DEF a
  <2>2. u.history = a.history /\ u.next_event_id = a.next_event_id BY <2>1 DEF JobState
  <2> HIDE DEF u
  <2>3. Grown(s, u) BY <2>1, <2>2, GrownKept
  <2> QED BY <2>3 DEF PhaseEntered, u, a
<1>3. ASSUME NEW k \in {"error", "cancelled"} PROVE Grown(s, finish_terminal(s, k))
  <2> DEFINE a == append_event(s, k)
             u == [a EXCEPT !.lifecycle = "failed", !.cancel_requested = FALSE,
                            !.worker_active = FALSE, !.terminal_event_id = s.next_event_id + 1]
  <2>1. a \in JobState /\ Grown(s, a) BY <1>1 DEF Endings
  <2> HIDE DEF a
  <2>2. u.history = a.history /\ u.next_event_id = a.next_event_id BY <2>1 DEF JobState
  <2> HIDE DEF u
  <2>3. Grown(s, u) BY <2>1, <2>2, GrownKept
  <2> QED BY <2>3 DEF finish_terminal, u, a
<1>4. Grown(s, FinishedDone(s))
  <2> DEFINE a == append_event(s, "done")
             u == [a EXCEPT !.lifecycle = "done", !.phase = "complete",
                            !.cancel_requested = FALSE, !.worker_active = FALSE,
                            !.terminal_event_id = s.next_event_id + 1]
  <2>1. a \in JobState /\ Grown(s, a) BY <1>1 DEF Endings
  <2> HIDE DEF a
  <2>2. u.history = a.history /\ u.next_event_id = a.next_event_id BY <2>1 DEF JobState
  <2> HIDE DEF u
  <2>3. Grown(s, u) BY <2>1, <2>2, GrownKept
  <2> QED BY <2>3 DEF FinishedDone, u, a
<1> QED BY <1>2, <1>3, <1>4

\* What replay_locked returns: the events after the last one seen, in order
\* and without a gap, from the oldest one kept if that is a later one.
LEMMA EventsAfterRun ==
    ASSUME NEW s \in JobState, Contiguous(s), NEW last \in Nat
    PROVE  LET E == EventsAfter(s, last)
               h == s.history
           IN  /\ E \in Seq(Event)
               /\ \A i \in 1..Len(E) : E[i].id = E[1].id + (i - 1)
               /\ E # <<>> => /\ h # <<>>
                              /\ h[1].id <= last => E[1].id = last + 1
                              /\ h[1].id > last => E[1].id = h[1].id
               /\ (h # <<>> /\ h[1].id > last) => E # <<>>
<1> DEFINE h == s.history
           N == Len(h)
           V == Seq(Event)
           Next1(m, n) == IF h[n].id > last THEN Append(m, h[n]) ELSE m
           step == [n \in 1 .. N |-> [m \in V |-> Next1(m, n)]]
<1>0. h \in Seq(Event) /\ N \in Nat BY DEF JobState
<1>1. \A i \in 1 .. N : h[i] \in Event /\ h[i].id \in Nat /\ h[i].id = h[1].id + (i - 1)
  <2>1. \A x \in Event : x.id \in Nat BY DEF Event
  <2>2. \A i \in 1 .. N : h[i] \in Event BY <1>0
  <2> QED BY <2>1, <2>2 DEF Contiguous
<1> HIDE DEF h
<1>2. \A n \in 1 .. N, m \in V : Next1(m, n) \in V BY <1>1
<1> HIDE DEF N
<1>3. PICK g : Recursion(g, N, V, <<>>, step)
  <2> HIDE DEF Next1
  <2>1. step \in [1 .. N -> [V -> V]] BY <1>2
  <2>2. <<>> \in V OBVIOUS
  <2> HIDE DEF step, V
  <2> QED BY <1>0, <2>1, <2>2, RecursionRuns
<1> DEFINE Def(m) == m = [n \in 0 .. N |-> IF n = 0 THEN <<>>
                                          ELSE IF h[n].id > last THEN Append(m[n - 1], h[n])
                                          ELSE m[n - 1]]
           newer == CHOOSE m : Def(m)
<1>4. Def(newer)
  <2>1. ASSUME NEW n \in 1 .. N PROVE g[n] = Next1(g[n - 1], n)
    <3> HIDE DEF Next1
    <3>1. g[n - 1] \in V BY <1>0, <1>3 DEF Recursion
    <3>2. step[n][g[n - 1]] = Next1(g[n - 1], n) BY <3>1
    <3> HIDE DEF step
    <3> QED BY <1>3, <3>2 DEF Recursion
  <2>2. g \in [0 .. N -> V] /\ g[0] = <<>> BY <1>3 DEF Recursion
  <2>3. Def(g)
    <3>1. ASSUME NEW n \in 0 .. N
          PROVE  g[n] = IF n = 0 THEN <<>>
                        ELSE IF h[n].id > last THEN Append(g[n - 1], h[n])
                        ELSE g[n - 1]
      <4>1. CASE n = 0 BY <2>2, <4>1
      <4>2. CASE n # 0
        <5>1. n \in 1 .. N BY <1>0, <4>2
        <5>2. g[n] = Next1(g[n - 1], n) BY <2>1, <5>1
        <5> QED BY <4>2, <5>2
      <4> QED BY <4>1, <4>2
    <3>2. g = [n \in 0 .. N |-> g[n]] BY <2>2
    <3> QED BY <3>1, <3>2
  <2> QED BY <2>3
<1>5. EventsAfter(s, last) = newer[N] BY DEF EventsAfter, N, h
<1>6. newer[0] = <<>> /\ \A n \in 1 .. N : newer[n] = Next1(newer[n - 1], n)
  <2> HIDE DEF newer
  <2>1. \A n \in 0 .. N : newer[n] = IF n = 0 THEN <<>>
                                     ELSE IF h[n].id > last THEN Append(newer[n - 1], h[n])
                                     ELSE newer[n - 1]
    BY <1>4
  <2> HIDE DEF Def
  <2>2. 0 \in 0 .. N BY <1>0
  <2>3. newer[0] = <<>> BY <2>1, <2>2
  <2>4. ASSUME NEW n \in 1 .. N PROVE newer[n] = Next1(newer[n - 1], n)
    <3>1. n \in 0 .. N /\ n # 0 BY <1>0
    <3> QED BY <2>1, <3>1
  <2> QED BY <2>3, <2>4
<1> HIDE DEF newer, Def
\* The id before the first event that is returned.
<1> DEFINE B == IF h[1].id > last THEN h[1].id - 1 ELSE last
           Kept(m, n) == /\ m \in V
                         /\ \A i \in 1 .. Len(m) : m[i].id = B + i
                         /\ n # 0 /\ h[n].id > last => Len(m) = h[n].id - B
                         /\ n = 0 \/ h[n].id <= last => m = <<>>
           T == {n \in 0 .. N : Kept(newer[n], n)}
<1>7. N # 0 => h[1].id \in Nat /\ B \in Nat /\ B >= last
  <2>1. N # 0 => 1 \in 1 .. N BY <1>0
  <2> QED BY <1>1, <2>1
<1>8. 0 \in T
  <2>1. <<>> \in V /\ Len(<<>>) = 0 OBVIOUS
  <2>2. \A i \in 1 .. Len(<<>>) : FALSE BY <2>1
  <2> HIDE DEF V, B
  <2>3. Kept(<<>>, 0) BY <2>1, <2>2
  <2>4. 0 \in 0 .. N BY <1>0
  <2> HIDE DEF Kept
  <2> QED BY <1>6, <2>3, <2>4
<1>9. ASSUME NEW n \in 0 .. N, n \in T, n < N PROVE n + 1 \in T
  <2> DEFINE m == newer[n]
             m1 == newer[n + 1]
             r == h[n + 1]
  <2>1. n \in Nat /\ n + 1 \in 1 .. N /\ (n + 1) - 1 = n /\ N # 0 BY <1>0, <1>9
  <2>2. m1 = IF r.id > last THEN Append(m, r) ELSE m BY <1>6, <2>1
  <2>3. Kept(m, n) BY <1>9
  <2>4. r \in Event /\ r.id \in Nat /\ r.id = h[1].id + n BY <1>1, <2>1
  <2>5. n # 0 => h[n].id = r.id - 1 /\ h[n].id \in Nat
    <3>1. n # 0 => n \in 1 .. N BY <2>1
    <3> QED BY <1>1, <1>7, <2>1, <2>4, <3>1
  <2> HIDE DEF m, m1, r
  <2>6. CASE r.id > last
    <3>1. r.id = B + (Len(m) + 1)
      <4>1. CASE n = 0
        <5>1. Len(m) = 0 BY <2>3, <4>1
        <5>2. r.id = h[1].id /\ h[1].id > last BY <1>7, <2>1, <2>4, <2>6, <4>1
        <5>3. B = h[1].id - 1 BY <5>2
        <5> HIDE DEF B
        <5>4. \A k, l \in Nat : \A b : l = 0 /\ b = k - 1 => k = b + (l + 1) OBVIOUS
        <5>5. r.id \in Nat /\ Len(m) \in Nat /\ B = r.id - 1 BY <2>4, <5>1, <5>2, <5>3
        <5> QED BY <5>1, <5>4, <5>5
      <4>2. CASE n # 0 /\ h[n].id > last
        <5>1. Len(m) = h[n].id - B BY <2>3, <4>2
        <5>2. B \in Nat /\ r.id \in Nat /\ h[n].id = r.id - 1 BY <1>7, <2>1, <2>4, <2>5, <4>2
        <5> HIDE DEF B
        <5>3. \A b, k \in Nat : \A i, l : i = k - 1 /\ l = i - b => k = b + (l + 1) OBVIOUS
        <5> QED BY <5>1, <5>2, <5>3
      <4>3. CASE n # 0 /\ h[n].id <= last
        <5>1. Len(m) = 0 BY <2>3, <4>3
        <5>2. r.id = last + 1 /\ h[1].id <= last BY <1>7, <2>1, <2>4, <2>5, <2>6, <4>3
        <5> QED BY <1>7, <2>1, <5>1, <5>2
      <4> QED BY <2>5, <4>1, <4>2, <4>3
    <3> HIDE DEF B
    <3>2. /\ m1 \in V /\ Len(m1) = Len(m) + 1 /\ Len(m) \in Nat
          /\ m1[Len(m) + 1] = r /\ \A i \in 1 .. Len(m) : m1[i] = m[i]
      BY <2>2, <2>3, <2>4, <2>6
    <3>3. \A i \in 1 .. Len(m1) : m1[i].id = B + i
      <4> TAKE i \in 1 .. Len(m1)
      <4>1. i \in 1 .. Len(m) \/ i = Len(m) + 1 BY <3>2
      <4> QED BY <2>3, <3>1, <3>2, <4>1
    <3>4. Len(m1) = r.id - B BY <1>7, <2>1, <3>1, <3>2
    <3>5. Kept(m1, n + 1) BY <2>1, <2>4, <2>6, <3>2, <3>3, <3>4 DEF r
    <3> HIDE DEF Kept
    <3> QED BY <2>1, <3>5 DEF m1
  <2>7. CASE ~(r.id > last)
    <3>1. m1 = m BY <2>2, <2>7
    <3>2. n = 0 \/ h[n].id <= last BY <2>4, <2>5, <2>7
    <3>3. m = <<>> BY <2>3, <3>2
    <3>4. Kept(m1, n + 1) BY <2>1, <2>3, <2>7, <3>1, <3>3 DEF r
    <3> HIDE DEF Kept
    <3> QED BY <2>1, <3>4 DEF m1
  <2> QED BY <2>6, <2>7
<1>10. N \in T
  <2> HIDE DEF T
  <2>1. \A n \in 0 .. N : n \in T BY <1>0, <1>8, <1>9, BoundedInduction
  <2> QED BY <1>0, <2>1
<1> DEFINE E == EventsAfter(s, last)
<1>11. Kept(E, N) BY <1>5, <1>10
<1> HIDE DEF E
<1>12. E # <<>> => N # 0 /\ 1 \in 1 .. Len(E) /\ E[1].id = B + 1 BY <1>11
<1>13. N # 0 <=> h # <<>> BY <1>0 DEF N
<1>14. ASSUME NEW i \in 1 .. Len(E) PROVE E[i].id = E[1].id + (i - 1)
  <2>1. E # <<>> /\ i \in Nat BY <1>11, <1>14
  <2>2. E[i].id = B + i /\ E[1].id = B + 1 /\ B \in Nat BY <1>7, <1>11, <1>12, <2>1
  <2> HIDE DEF B
  <2> QED BY <2>1, <2>2
<1>15. E # <<>> => /\ h # <<>>
                   /\ h[1].id <= last => E[1].id = last + 1
                   /\ h[1].id > last => E[1].id = h[1].id
  BY <1>7, <1>12, <1>13
<1>16. (h # <<>> /\ h[1].id > last) => E # <<>>
  <2> SUFFICES ASSUME h # <<>>, h[1].id > last PROVE E # <<>> OBVIOUS
  <2>1. N \in 1 .. N /\ 1 \in 1 .. N BY <1>0, <1>13
  <2>2. h[N].id \in Nat /\ h[N].id >= h[1].id BY <1>0, <1>1, <1>7, <1>13, <2>1
  <2>3. Len(E) = h[N].id - B /\ B = h[1].id - 1 BY <1>7, <1>11, <1>13, <2>2
  <2>4. Len(E) # 0 BY <1>7, <1>13, <2>2, <2>3
  <2>5. Len(<<>>) = 0 OBVIOUS
  <2> QED BY <2>4, <2>5
<1> QED BY <1>11, <1>14, <1>15, <1>16 DEF E, h

StreamState == [sent : Nat, from : Nat, batch : Seq(Event), seen : [sup : Nat, id : Nat]]

\* A stream t whose thread is at pc, given the supervisors S and the registry's a:
\* its cursor follows the last event sent, and what it is about to send goes on
\* from there, or from the oldest event that is still kept.
StreamRight(t, pc, S, a) ==
    /\ pc \in {"replay", "write", "wait", "waiting"} => a # 0
    /\ pc \in {"replay", "wait", "waiting"} => t.sent = t.seen.id + 1
    /\ pc = "write" =>
          /\ t.batch # <<>> /\ t.from \in DOMAIN S /\ S[t.from].history # <<>>
          /\ \A i \in 1..Len(t.batch) : t.batch[i].id = t.batch[1].id + (i - 1)
          /\ \/ t.batch[1].id = t.seen.id + 1
             \/ t.seen.id + 1 < S[t.from].history[1].id /\ t.batch[1].id > t.seen.id

HistoriesRun == \A j \in DOMAIN sup : Contiguous(sup[j])
StreamsRight == \A s \in Streams : StreamRight(stream[s], following[s], sup, active)

StreamInv == StreamTypeOK /\ HistoriesRun /\ StreamsRight

\* A supervisor is never removed, and no step breaks or rewinds a history.
HistoriesGrow ==
    /\ \A k \in DOMAIN sup : k \in DOMAIN sup' /\ Grown(sup[k], sup'[k])
    /\ \A k \in DOMAIN sup' : k \in DOMAIN sup \/ Contiguous(sup'[k])

LEMMA OneGrows ==
    ASSUME IInv, NEW j \in DOMAIN sup, NEW u, sup' = [sup EXCEPT ![j] = u], Grown(sup[j], u)
    PROVE  HistoriesGrow
<1>1. DOMAIN sup' = DOMAIN sup /\ sup'[j] = u
      /\ \A k \in DOMAIN sup : k # j => sup'[k] = sup[k]
  BY Shape
<1>2. ASSUME NEW k \in DOMAIN sup PROVE Grown(sup[k], sup'[k])
  <2>1. CASE k = j BY <1>1, <2>1
  <2>2. CASE k # j
    <3>1. sup[k] \in JobState /\ sup'[k] = sup[k] BY <1>1, <2>2, Shape
    <3> QED BY <3>1, GrownSame
  <2> QED BY <2>1, <2>2
<1> QED BY <1>1, <1>2 DEF HistoriesGrow

LEMMA NoneGrows ==
    ASSUME IInv, UNCHANGED sup
    PROVE  HistoriesGrow
<1>1. ASSUME NEW k \in DOMAIN sup PROVE Grown(sup[k], sup'[k])
  <2>1. sup[k] \in JobState /\ sup'[k] = sup[k] BY Shape
  <2> QED BY <2>1, GrownSame
<1> QED BY <1>1 DEF HistoriesGrow

LEMMA WorkerGrows ==
    ASSUME IInv, NEW j \in DOMAIN sup, Worker(j)
    PROVE  HistoriesGrow
<1>1. sup[j] \in JobState /\ worker[j] \in WorkerState BY Shape
<1>2. CASE WorkerBegin(j)
  <2> DEFINE u == [sup[j] EXCEPT !.lifecycle = "installing"]
  <2>1. u.history = sup[j].history /\ u.next_event_id = sup[j].next_event_id
    BY <1>1 DEF JobState
  <2>2. sup' = [sup EXCEPT ![j] = u] BY <1>2 DEF WorkerBegin
  <2> HIDE DEF u
  <2> QED BY <1>1, <2>1, <2>2, GrownSame, OneGrows
<1>3. CASE WorkerEnter(j)
  <2>1. PHASES[worker[j].at] \in PhaseNames BY <1>1, PhasesAssumption DEF WorkerState
  <2>2. sup' = [sup EXCEPT ![j] = PhaseEntered(sup[j], PHASES[worker[j].at])]
    BY <1>3 DEF WorkerEnter
  <2>3. Grown(sup[j], PhaseEntered(sup[j], PHASES[worker[j].at]))
    BY <1>1, <2>1, SupervisorGrows
  <2> QED BY <2>2, <2>3, OneGrows
<1>4. CASE WorkerEnd(j)
  <2>1. CASE UNCHANGED sup BY <2>1, NoneGrows
  <2>2. CASE sup' = [sup EXCEPT ![j] = FinishedDone(sup[j])]
    <3>1. Grown(sup[j], FinishedDone(sup[j])) BY <1>1, SupervisorGrows
    <3> QED BY <2>2, <3>1, OneGrows
  <2> QED BY <1>4, <2>1, <2>2 DEF WorkerEnd
<1>5. CASE WorkerFinish(j)
  <2>1. worker[j].ending \in {"error", "cancelled"} BY <1>1 DEF WorkerState
  <2>2. Grown(sup[j], finish_terminal(sup[j], worker[j].ending)) BY <1>1, <2>1, SupervisorGrows
  <2>3. sup' = [sup EXCEPT ![j] = finish_terminal(sup[j], worker[j].ending)]
    BY <1>5 DEF WorkerFinish
  <2> QED BY <2>2, <2>3, OneGrows
<1>6. CASE WorkerTop(j) \/ WorkerExecute(j) \/ WorkerAfter(j) \/ WorkerRecord(j)
  <2>1. UNCHANGED sup BY <1>6 DEF WorkerTop, WorkerExecute, WorkerAfter, WorkerRecord
  <2> QED BY <2>1, NoneGrows
<1> QED BY <1>2, <1>3, <1>4, <1>5, <1>6 DEF Worker

LEMMA StartGrows ==
    ASSUME IInv, NEW c \in Clients, StartRoute(c)
    PROVE  HistoriesGrow
<1>1. CASE StartClaim(c)
  <2> DEFINE u == Claimed(DefaultJob)
  <2>1. u \in JobState BY NewSupervisor
  <2>2. u.history = <<>> BY DEF Claimed, DefaultJob
  <2>3. Len(<<>>) = 0 OBVIOUS
  <2>4. sup' = Append(sup, u) BY <1>1 DEF StartClaim
  <2> HIDE DEF u
  <2>5. Contiguous(u) BY <2>2, <2>3 DEF Contiguous
  <2>6. /\ DOMAIN sup' = 1..(Len(sup) + 1) /\ sup'[Len(sup) + 1] = u
        /\ \A k \in DOMAIN sup : sup'[k] = sup[k]
    BY <2>1, <2>4, Shape, SeqAppend
  <2>7. Len(sup) \in Nat /\ DOMAIN sup = 1..Len(sup) BY Shape
  <2>8. ASSUME NEW k \in DOMAIN sup PROVE k \in DOMAIN sup' /\ Grown(sup[k], sup'[k])
    <3>1. sup[k] \in JobState /\ sup'[k] = sup[k] BY <2>6, Shape
    <3>2. Grown(sup[k], sup'[k]) BY <3>1, GrownSame
    <3> QED BY <2>6, <2>7, <3>2
  <2>9. ASSUME NEW k \in DOMAIN sup' PROVE k \in DOMAIN sup \/ Contiguous(sup'[k])
    <3>1. k \in DOMAIN sup \/ k = Len(sup) + 1 BY <2>6, <2>7
    <3> QED BY <2>5, <2>6, <3>1
  <2> QED BY <2>8, <2>9 DEF HistoriesGrow
<1>2. CASE StartFails(c)
  <2> DEFINE u == StartFailed(sup[Newest])
  <2>1. req[c].pc = "spawn" BY <1>2 DEF StartFails, Step
  <2>2. Newest \in DOMAIN sup BY <2>1, StarterAlone
  <2>3. sup[Newest] \in JobState BY <2>2, Shape
  <2>4. u.history = sup[Newest].history /\ u.next_event_id = sup[Newest].next_event_id
    BY <2>3 DEF StartFailed, JobState
  <2>5. sup' = [sup EXCEPT ![Newest] = u] BY <1>2 DEF StartFails
  <2> HIDE DEF u
  <2>6. Grown(sup[Newest], u) BY <2>3, <2>4, GrownSame
  <2> QED BY <2>2, <2>5, <2>6, OneGrows
<1>3. CASE StartGate(c) \/ StartRefused(c) \/ StartSpawn(c) \/ StartInstalled(c)
  <2>1. UNCHANGED sup
    BY <1>3 DEF StartGate, StartRefused, StartSpawn, StartInstalled, serverVars
  <2> QED BY <2>1, NoneGrows
<1> QED BY <1>1, <1>2, <1>3 DEF StartRoute

LEMMA CancelGrows ==
    ASSUME IInv, NEW c \in Clients, CancelRoute(c)
    PROVE  HistoriesGrow
<1>1. CASE CancelAccept(c)
  <2> DEFINE u == [sup[active] EXCEPT !.cancel_requested = TRUE]
  <2>1. active \in DOMAIN sup BY <1>1, Shape DEF CancelAccept, InstallRuns
  <2>2. sup[active] \in JobState BY <2>1, Shape
  <2>3. u.history = sup[active].history /\ u.next_event_id = sup[active].next_event_id
    BY <2>2 DEF JobState
  <2>4. sup' = [sup EXCEPT ![active] = u] BY <1>1 DEF CancelAccept
  <2> HIDE DEF u
  <2>5. Grown(sup[active], u) BY <2>2, <2>3, GrownSame
  <2> QED BY <2>1, <2>4, <2>5, OneGrows
<1>2. CASE CancelToken(c)
  <2> DEFINE u == [sup[active] EXCEPT !.token = TRUE]
  <2>1. active # 0 BY <1>2 DEF CancelToken, IInv, StartsNewest
  <2>2. active \in DOMAIN sup BY <2>1, Shape
  <2>3. sup[active] \in JobState BY <2>2, Shape
  <2>4. u.history = sup[active].history /\ u.next_event_id = sup[active].next_event_id
    BY <2>3 DEF JobState
  <2>5. sup' = [sup EXCEPT ![active] = u] BY <1>2 DEF CancelToken
  <2> HIDE DEF u
  <2>6. Grown(sup[active], u) BY <2>3, <2>4, GrownSame
  <2> QED BY <2>2, <2>5, <2>6, OneGrows
<1>3. CASE CancelSend(c) \/ CancelRefused(c)
  <2>1. UNCHANGED sup BY <1>3 DEF CancelSend, CancelRefused, serverVars
  <2> QED BY <2>1, NoneGrows
<1> QED BY <1>1, <1>2, <1>3 DEF CancelRoute

\* A step of the daemon leaves streams alone, and what they are about to send
\* stays right: the oldest event of a history is only ever replaced by a later one.
LEMMA ServerStep ==
    ASSUME IInv, IInv', StreamInv, HistoriesGrow, UNCHANGED streamVars,
           active # 0 => active' # 0
    PROVE  StreamInv'
<1>1. stream' = stream /\ following' = following BY DEF streamVars
<1>2. StreamTypeOK' BY <1>1 DEF StreamInv, StreamTypeOK
<1>3. HistoriesRun'
  <2>1. ASSUME NEW k \in DOMAIN sup' PROVE Contiguous(sup'[k])
    BY DEF HistoriesGrow, StreamInv, HistoriesRun, Grown
  <2> QED BY <2>1 DEF HistoriesRun, Contiguous
<1>4. ASSUME NEW s \in Streams
      PROVE  StreamRight(stream[s], following[s], sup', active')
  <2> DEFINE t == stream[s]
             pc == following[s]
  <2>1. StreamRight(t, pc, sup, active) BY DEF StreamInv, StreamsRight
  <2>2. t.seen.id \in Nat BY DEF StreamInv, StreamTypeOK
  <2> HIDE DEF t, pc
  <2>3. ASSUME pc = "write"
        PROVE  /\ t.from \in DOMAIN sup' /\ sup'[t.from].history # <<>>
               /\ t.seen.id + 1 < sup[t.from].history[1].id =>
                     t.seen.id + 1 < sup'[t.from].history[1].id
    <3>1. t.from \in DOMAIN sup /\ sup[t.from].history # <<>> BY <2>1, <2>3 DEF StreamRight
    <3>2. Contiguous(sup[t.from]) BY <3>1 DEF StreamInv, HistoriesRun
    <3>3. t.from \in DOMAIN sup' /\ Grown(sup[t.from], sup'[t.from])
      BY <3>1 DEF HistoriesGrow
    <3>4. sup'[t.from].history # <<>> /\ sup[t.from].history[1].id <= sup'[t.from].history[1].id
      BY <3>1, <3>2, <3>3 DEF Grown
    <3>5. sup[t.from].history[1].id \in Nat /\ sup'[t.from].history[1].id \in Nat
      <4>1. \A x \in JobState : x.history # <<>> => x.history[1].id \in Nat
        <5> TAKE x \in JobState
        <5>1. x.history \in Seq(Event) BY DEF JobState
        <5>2. x.history # <<>> => x.history[1] \in Event BY <5>1
        <5>3. \A y \in Event : y.id \in Nat BY DEF Event
        <5> QED BY <5>2, <5>3
      <4>2. sup[t.from] \in JobState BY <3>1, Shape
      <4>3. sup'[t.from] \in JobState BY <3>3 DEF IInv, ServerTypeOK
      <4> QED BY <3>1, <3>4, <4>1, <4>2, <4>3
    <3>6. \A a, b, c \in Nat : a + 1 < b /\ b <= c => a + 1 < c OBVIOUS
    <3> QED BY <2>2, <3>3, <3>4, <3>5, <3>6
  <2>4. StreamRight(t, pc, sup', active') BY <2>1, <2>3 DEF StreamRight
  <2> QED BY <2>4 DEF t, pc
<1>5. StreamsRight' BY <1>1, <1>4 DEF StreamsRight, StreamRight
<1> QED BY <1>2, <1>3, <1>5 DEF StreamInv

\* What a step of a stream may tell its client: nothing new (a new subscription
\* has seen nothing), the event after the last one, or a later one when that one
\* has left the history.
SeenRight(b, a, S) ==
    \/ a = b \/ a.sup = 0
    \/ a.id = b.id + 1
    \/ b.id + 1 < Head(S[a.sup].history).id /\ a.id > b.id

\* What a step of a stream thread does.
StreamDoes(s, t, pc) ==
    /\ stream' = [stream EXCEPT ![s] = t]
    /\ following' = [following EXCEPT ![s] = pc]
    /\ StreamRight(t, pc, sup, active)
    /\ SeenRight(stream[s].seen, t.seen, sup)

LEMMA ReplayRight ==
    ASSUME IInv, StreamInv, NEW s \in Streams, StreamReplay(s)
    PROVE  \E t \in StreamState : \E pc : StreamDoes(s, t, pc)
<1> DEFINE b == stream[s]
           S == sup[active]
           h == S.history
           last == b.sent - 1
           E == EventsAfter(S, last)
           reset == ResetRequired(S, last)
           pc == IF E = <<>> THEN "wait" ELSE "write"
           sent == IF reset THEN Head(E).id ELSE b.sent
           t == [b EXCEPT !.sent = sent, !.batch = E, !.from = active]
<1>1. b \in StreamState BY DEF StreamInv, StreamTypeOK, StreamState
<1>2. StreamRight(b, "replay", sup, active)
  BY DEF StreamReplay, StreamMoves, StreamInv, StreamsRight
<1>3. active # 0 /\ b.sent = b.seen.id + 1 /\ b.seen.id \in Nat
  BY <1>1, <1>2 DEF StreamRight, StreamState
<1>4. active \in DOMAIN sup /\ active \in Nat BY <1>3, Shape
<1>5. S \in JobState BY <1>4, Shape
<1>6. Contiguous(S) BY <1>4 DEF StreamInv, HistoriesRun
<1>7. last = b.seen.id /\ last \in Nat BY <1>3
<1>8. stream' = [stream EXCEPT ![s] = t] /\ following' = [following EXCEPT ![s] = pc]
  BY DEF StreamReplay, Follow, StreamMoves
<1>9. h \in Seq(Event) BY <1>5 DEF JobState
<1>10. h # <<>> => Head(h) = h[1] /\ h[1].id \in Nat
  <2>1. h # <<>> => Head(h) = h[1] /\ h[1] \in Event BY <1>9
  <2>2. \A y \in Event : y.id \in Nat BY DEF Event
  <2> QED BY <2>1, <2>2
<1>11. reset <=> h # <<>> /\ last + 1 < Head(h).id BY DEF ResetRequired
<1> HIDE DEF S, last
<1>12. /\ E \in Seq(Event)
       /\ \A i \in 1..Len(E) : E[i].id = E[1].id + (i - 1)
       /\ E # <<>> => /\ h # <<>>
                      /\ h[1].id <= last => E[1].id = last + 1
                      /\ h[1].id > last => E[1].id = h[1].id
       /\ (h # <<>> /\ h[1].id > last) => E # <<>>
  BY <1>5, <1>6, <1>7, EventsAfterRun
<1> HIDE DEF E, h, reset
<1>13. reset => E # <<>> BY <1>7, <1>10, <1>11, <1>12
<1>14. E # <<>> => Head(E) \in Event /\ Head(E).id \in Nat
  <2>1. E # <<>> => Head(E) \in Event BY <1>12
  <2>2. \A y \in Event : y.id \in Nat BY DEF Event
  <2> QED BY <2>1, <2>2
<1>15. sent \in Nat
  <2>1. b.sent \in Nat BY <1>1 DEF StreamState
  <2> QED BY <1>13, <1>14, <2>1
<1>16. E = <<>> => sent = b.sent BY <1>13
<1> HIDE DEF sent
<1>17. t \in StreamState /\ t.sent = sent /\ t.batch = E /\ t.from = active /\ t.seen = b.seen
  BY <1>1, <1>4, <1>12, <1>15 DEF StreamState
<1> HIDE DEF t, b
<1>18. StreamRight(t, pc, sup, active)
  <2>1. CASE E = <<>>
    BY <1>3, <1>16, <1>17, <2>1 DEF StreamRight
  <2>2. CASE E # <<>>
    <3>1. \/ E[1].id = last + 1
          \/ last + 1 < h[1].id /\ E[1].id > last
      <4>1. h # <<>> /\ h[1].id \in Nat BY <1>10, <1>12, <2>2
      <4>2. CASE h[1].id <= last BY <1>12, <2>2, <4>2
      <4>3. CASE h[1].id > last
        <5>1. E[1].id = h[1].id BY <1>12, <2>2, <4>3
        <5>2. h[1].id = last + 1 \/ last + 1 < h[1].id BY <1>7, <4>1, <4>3
        <5> QED BY <4>3, <5>1, <5>2
      <4> QED BY <1>7, <4>1, <4>2, <4>3
    <3>2. sup[active].history # <<>> /\ sup[active].history[1] = h[1]
      BY <1>12, <2>2 DEF h, S
    <3> QED BY <1>3, <1>4, <1>7, <1>12, <1>17, <2>2, <3>1, <3>2 DEF StreamRight
  <2> QED BY <2>1, <2>2
<1>19. SeenRight(b.seen, t.seen, sup) BY <1>17 DEF SeenRight
<1>20. StreamDoes(s, t, pc) BY <1>8, <1>18, <1>19 DEF StreamDoes, b
<1> QED BY <1>17, <1>20

LEMMA WriteRight ==
    ASSUME IInv, StreamInv, NEW s \in Streams, StreamWrite(s)
    PROVE  \E t \in StreamState : \E pc : StreamDoes(s, t, pc)
<1> DEFINE b == stream[s]
           q == b.batch
           e == Head(q)
           seen == [sup |-> b.from, id |-> e.id]
<1>1. b \in StreamState BY DEF StreamInv, StreamTypeOK, StreamState
<1>2. StreamRight(b, "write", sup, active)
  BY DEF StreamWrite, StreamInv, StreamsRight
<1>3. q \in Seq(Event) /\ b.from \in Nat /\ b.seen.id \in Nat BY <1>1 DEF StreamState
<1>4. q # <<>> /\ b.from \in DOMAIN sup /\ sup[b.from].history # <<>>
  BY <1>2 DEF StreamRight
<1>5. e = q[1] /\ e \in Event BY <1>3, <1>4
<1>6. e.id \in Nat BY <1>5 DEF Event
<1>7. sup[b.from].history \in Seq(Event)
  <2>1. sup[b.from] \in JobState BY <1>4, Shape
  <2> QED BY <2>1 DEF JobState
<1>8. Head(sup[b.from].history) = sup[b.from].history[1] BY <1>4, <1>7
<1>9. seen \in [sup : Nat, id : Nat] /\ seen.id = e.id /\ seen.sup = b.from BY <1>3, <1>6
<1>10. SeenRight(b.seen, seen, sup)
  <2>1. \/ q[1].id = b.seen.id + 1
        \/ b.seen.id + 1 < sup[b.from].history[1].id /\ q[1].id > b.seen.id
    BY <1>2 DEF StreamRight
  <2> HIDE DEF b, q, e, seen
  <2> QED BY <1>5, <1>8, <1>9, <2>1 DEF SeenRight
<1>11. CASE e.kind \in Endings /\ StreamMoves(s, "write", "closed")
            /\ Follow(s, [NoStream EXCEPT !.seen = seen])
  <2> DEFINE t == [NoStream EXCEPT !.seen = seen]
  <2> HIDE DEF seen
  <2>1. t \in StreamState /\ t.seen = seen
    <3> DEFINE fresh == [sent |-> 1, from |-> 0, batch |-> <<>>, seen |-> seen]
    <3>1. t = fresh BY DEF NoStream
    <3>2. <<>> \in Seq(Event) OBVIOUS
    <3>3. fresh \in StreamState /\ fresh.seen = seen BY <1>9, <3>2 DEF StreamState
    <3> HIDE DEF t, fresh
    <3> QED BY <3>1, <3>3
  <2>2. stream' = [stream EXCEPT ![s] = t] /\ following' = [following EXCEPT ![s] = "closed"]
    BY <1>11 DEF Follow, StreamMoves
  <2> HIDE DEF t
  <2>3. StreamRight(t, "closed", sup, active) BY DEF StreamRight
  <2>4. StreamDoes(s, t, "closed") BY <1>10, <2>1, <2>2, <2>3 DEF StreamDoes
  <2> QED BY <2>1, <2>4
<1>12. CASE StreamMoves(s, "write", IF Tail(q) = <<>> THEN "wait" ELSE "write")
            /\ Follow(s, [b EXCEPT !.sent = e.id + 1, !.batch = Tail(@), !.seen = seen])
  <2> DEFINE r == Tail(q)
             n == e.id + 1
             pc == IF r = <<>> THEN "wait" ELSE "write"
             t == [b EXCEPT !.sent = n, !.batch = r, !.seen = seen]
  <2>1. r \in Seq(Event) /\ Len(r) = Len(q) - 1 /\ Len(q) \in Nat /\ Len(q) # 0
        /\ \A i \in 1..Len(r) : r[i] = q[i + 1]
    <3>1. Len(q) \in Nat /\ Len(q) # 0 BY <1>3, <1>4
    <3>2. Tail(q) \in Seq(Event) /\ Len(Tail(q)) = Len(q) - 1 BY <1>3, <1>4
    <3>3. \A i \in 1..(Len(q) - 1) : Tail(q)[i] = q[i + 1] BY <1>3, <1>4
    <3> QED BY <3>1, <3>2, <3>3
  <2>2. n \in Nat BY <1>6
  <2>3. stream' = [stream EXCEPT ![s] = t] /\ following' = [following EXCEPT ![s] = pc]
    BY <1>12 DEF Follow, StreamMoves
  <2>4. ASSUME NEW i \in 1..Len(r) PROVE r[i].id = r[1].id + (i - 1) /\ r[1].id = n
    <3>1. \A k \in 1..Len(q) : q[k].id = q[1].id + (k - 1) BY <1>2 DEF StreamRight
    <3>2. i + 1 \in 1..Len(q) /\ 2 \in 1..Len(q) /\ 1 \in 1..Len(r) /\ i \in Nat BY <2>1
    <3>3. q[i + 1].id = q[1].id + ((i + 1) - 1) /\ q[2].id = q[1].id + (2 - 1) BY <3>1, <3>2
    <3>4. r[i] = q[i + 1] /\ r[1] = q[2]
      <4>1. r[1] = q[1 + 1] BY <2>1, <3>2
      <4> QED BY <2>1, <4>1
    <3>5. \A x, y \in Nat : x + ((y + 1) - 1) = (x + (2 - 1)) + (y - 1) /\ x + (2 - 1) = x + 1
      OBVIOUS
    <3>6. q[1].id = e.id BY <1>5
    <3> HIDE DEF q, r, e
    <3>7. e.id + ((i + 1) - 1) = (e.id + (2 - 1)) + (i - 1) /\ e.id + (2 - 1) = e.id + 1
      BY <1>6, <3>2, <3>5
    <3>8. r[i].id = e.id + ((i + 1) - 1) /\ r[1].id = e.id + (2 - 1) BY <3>3, <3>4, <3>6
    <3> QED BY <3>7, <3>8
  <2>5. n = seen.id + 1 BY <1>9
  <2> HIDE DEF n, r, seen
  <2>6. t \in StreamState /\ t.sent = n /\ t.batch = r /\ t.from = b.from /\ t.seen = seen
    BY <1>1, <1>9, <2>1, <2>2 DEF StreamState
  <2>7. active # 0
    BY <1>2 DEF StreamRight
  <2> HIDE DEF t
  <2>8. StreamRight(t, pc, sup, active)
    <3>1. CASE r = <<>> BY <2>5, <2>6, <2>7, <3>1 DEF StreamRight
    <3>2. CASE r # <<>>
      <4>1. 1 \in 1..Len(r) BY <2>1, <3>2
      <4>2. r[1].id = seen.id + 1 BY <2>4, <2>5, <4>1
      <4> QED BY <1>4, <2>4, <2>6, <2>7, <3>2, <4>2 DEF StreamRight
    <3> QED BY <3>1, <3>2
  <2>9. StreamDoes(s, t, pc) BY <1>10, <2>3, <2>6, <2>8 DEF StreamDoes
  <2> QED BY <2>6, <2>9
<1> QED BY <1>11, <1>12 DEF StreamWrite

LEMMA StreamServes ==
    ASSUME IInv, StreamInv, NEW s \in Streams, Stream(s)
    PROVE  \E t \in StreamState : \E pc : StreamDoes(s, t, pc)
<1> DEFINE b == stream[s]
<1>1. b \in StreamState BY DEF StreamInv, StreamTypeOK, StreamState
<1>2. stream = [stream EXCEPT ![s] = b] BY DEF StreamInv, StreamTypeOK
<1>3. StreamRight(b, following[s], sup, active) BY DEF StreamInv, StreamsRight
<1>4. b.seen \in [sup : Nat, id : Nat] /\ b.seen.id \in Nat BY <1>1 DEF StreamState
<1>5. <<>> \in Seq(Event) OBVIOUS
<1>6. ASSUME NEW e \in [sup : Nat, id : Nat]
      PROVE  [NoStream EXCEPT !.seen = e] \in StreamState
             /\ [NoStream EXCEPT !.seen = e].seen = e
  <2> DEFINE fresh == [sent |-> 1, from |-> 0, batch |-> <<>>, seen |-> e]
  <2>1. [NoStream EXCEPT !.seen = e] = fresh BY DEF NoStream
  <2>2. fresh \in StreamState /\ fresh.seen = e BY <1>5 DEF StreamState
  <2> HIDE DEF fresh
  <2> QED BY <2>1, <2>2
<1>a. CASE StreamOpen(s)
  <2>0. active # 0 BY <1>a DEF StreamOpen
  <2>1. CASE StreamMoves(s, "closed", "replay") /\ Follow(s, NoStream)
    <3>1. NoStream \in StreamState /\ NoStream.sent = 1 /\ NoStream.seen.id = 0
          /\ NoStream.seen.sup = 0
      BY <1>5 DEF NoStream, NoEvent, StreamState
    <3>2. StreamRight(NoStream, "replay", sup, active) BY <2>0, <3>1 DEF StreamRight
    <3>3. SeenRight(b.seen, NoStream.seen, sup) BY <3>1 DEF SeenRight
    <3>4. StreamDoes(s, NoStream, "replay")
      BY <2>1, <3>2, <3>3 DEF StreamDoes, Follow, StreamMoves
    <3> QED BY <3>1, <3>4
  <2>2. CASE StreamMoves(s, "lost", "replay")
             /\ Follow(s, [b EXCEPT !.sent = b.seen.id + 1])
    <3> DEFINE n == b.seen.id + 1
               t == [b EXCEPT !.sent = n]
    <3>1. n \in Nat BY <1>4
    <3>2. stream' = [stream EXCEPT ![s] = t] /\ following' = [following EXCEPT ![s] = "replay"]
      BY <2>2 DEF Follow, StreamMoves
    <3>3. n = b.seen.id + 1 OBVIOUS
    <3> HIDE DEF n
    <3>4. t \in StreamState /\ t.sent = n /\ t.seen = b.seen BY <1>1, <3>1 DEF StreamState
    <3> HIDE DEF t
    <3>5. StreamRight(t, "replay", sup, active) BY <2>0, <3>3, <3>4 DEF StreamRight
    <3>6. StreamDoes(s, t, "replay") BY <3>2, <3>4, <3>5 DEF StreamDoes, SeenRight
    <3> QED BY <3>4, <3>6
  <2> QED BY <1>a, <2>1, <2>2 DEF StreamOpen
<1>b. CASE StreamReplay(s) BY <1>b, ReplayRight
<1>c. CASE StreamWrite(s) BY <1>c, WriteRight
<1>d. CASE StreamLost(s)
  <2> DEFINE t == [NoStream EXCEPT !.seen = b.seen]
  <2>1. t \in StreamState /\ t.seen = b.seen BY <1>4, <1>6
  <2>2. stream' = [stream EXCEPT ![s] = t] /\ following' = [following EXCEPT ![s] = "lost"]
    BY <1>d DEF StreamLost, Follow, StreamMoves
  <2> HIDE DEF t
  <2>3. StreamRight(t, "lost", sup, active) BY DEF StreamRight
  <2>4. StreamDoes(s, t, "lost") BY <2>1, <2>2, <2>3 DEF StreamDoes, SeenRight
  <2> QED BY <2>1, <2>4
<1>e. ASSUME NEW pc \in {"waiting", "replay"}, following[s] \in {"wait", "waiting"},
             following' = [following EXCEPT ![s] = pc], UNCHANGED stream
      PROVE  \E t \in StreamState : \E p : StreamDoes(s, t, p)
  <2>1. StreamRight(b, pc, sup, active) BY <1>3, <1>e DEF StreamRight
  <2>2. StreamDoes(s, b, pc) BY <1>2, <1>e, <2>1 DEF StreamDoes, SeenRight
  <2> QED BY <1>1, <2>2
<1>f. CASE StreamWait(s) BY <1>e, <1>f DEF StreamWait, StreamMoves
<1>g. CASE StreamWake(s) BY <1>e, <1>g DEF StreamWake, StreamMoves
<1> QED BY <1>a, <1>b, <1>c, <1>d, <1>f, <1>g DEF Stream

LEMMA StreamKeeps ==
    ASSUME IInv, StreamInv, NEW s \in Streams, Stream(s)
    PROVE  /\ StreamInv'
           /\ \A x \in Streams : SeenRight(stream[x].seen, stream'[x].seen, sup)
<1>1. UNCHANGED <<sup, active>>
  BY DEF Stream, StreamOpen, StreamReplay, StreamWrite, StreamLost, StreamWait, StreamWake,
         KeepsServer, serverVars
<1>0. PICK t \in StreamState : \E pc : StreamDoes(s, t, pc) BY StreamServes
<1>2. PICK pc : StreamDoes(s, t, pc) BY <1>0
<1>3. stream \in [Streams -> StreamState] BY DEF StreamInv, StreamTypeOK, StreamState
<1>4. following \in [Streams -> {"closed", "lost", "replay", "write", "wait", "waiting"}]
  BY DEF IInv, ServerTypeOK
<1>5. /\ stream' \in [Streams -> StreamState] /\ stream'[s] = t
      /\ \A x \in Streams : x # s => stream'[x] = stream[x]
  BY <1>2, <1>3 DEF StreamDoes
<1>6. following'[s] = pc /\ \A x \in Streams : x # s => following'[x] = following[x]
  BY <1>2, <1>4 DEF StreamDoes
<1>7. StreamTypeOK' BY <1>5 DEF StreamTypeOK, StreamState
<1>8. HistoriesRun' BY <1>1 DEF StreamInv, HistoriesRun
<1>9. ASSUME NEW x \in Streams
      PROVE  /\ StreamRight(stream'[x], following'[x], sup, active)
             /\ SeenRight(stream[x].seen, stream'[x].seen, sup)
  <2>1. CASE x = s BY <1>2, <1>5, <1>6, <2>1 DEF StreamDoes
  <2>2. CASE x # s
    <3>1. StreamRight(stream[x], following[x], sup, active) BY DEF StreamInv, StreamsRight
    <3> QED BY <1>5, <1>6, <2>2, <3>1 DEF SeenRight
  <2> QED BY <2>1, <2>2
<1>10. StreamsRight' BY <1>1, <1>9 DEF StreamsRight, StreamRight
<1> QED BY <1>7, <1>8, <1>9, <1>10 DEF StreamInv

LEMMA StreamStepKeeps ==
    ASSUME IInv, IInv', StreamInv, [Next]_vars
    PROVE  /\ StreamInv'
           /\ \A x \in Streams : SeenRight(stream[x].seen, stream'[x].seen, sup)
<1> DEFINE Quiet == UNCHANGED streamVars /\ (active # 0 => active' # 0)
           Goal == /\ StreamInv'
                   /\ \A x \in Streams : SeenRight(stream[x].seen, stream'[x].seen, sup)
<1>1. ASSUME Quiet, HistoriesGrow PROVE Goal
  <2>1. StreamInv' BY <1>1, ServerStep
  <2>2. stream' = stream BY <1>1 DEF streamVars
  <2> QED BY <2>1, <2>2 DEF SeenRight
<1>2. ASSUME NEW c \in Clients, StartRoute(c) PROVE Goal
  <2>1. HistoriesGrow BY <1>2, StartGrows
  <2>2. UNCHANGED streamVars
    BY <1>2 DEF StartRoute, StartGate, StartRefused, StartClaim, StartSpawn, StartFails,
                StartInstalled
  <2>3. active # 0 => active' # 0
    <3>1. CASE StartInstalled(c)
      <4>1. req[c].pc = "install" /\ active' = Newest BY <3>1 DEF StartInstalled, Step
      <4> QED BY <4>1, StarterAlone
    <3>2. CASE ~StartInstalled(c)
      BY <1>2, <3>2 DEF StartRoute, StartGate, StartRefused, StartClaim, StartSpawn, StartFails,
                        serverVars
    <3> QED BY <3>1, <3>2
  <2> QED BY <1>1, <2>1, <2>2, <2>3
<1>3. ASSUME NEW c \in Clients, CancelRoute(c) PROVE Goal
  <2>1. HistoriesGrow BY <1>3, CancelGrows
  <2>2. UNCHANGED <<streamVars, active>>
    BY <1>3 DEF CancelRoute, CancelSend, CancelRefused, CancelAccept, CancelToken, serverVars
  <2> QED BY <1>1, <2>1, <2>2
<1>4. ASSUME NEW c \in Clients, StorageRoute(c) PROVE Goal
  <2>1. UNCHANGED <<streamVars, active, sup>>
    BY <1>4 DEF StorageRoute, OperateGate, OperateLocked, OperateBegin, OperateEnd, serverVars
  <2>2. HistoriesGrow BY <2>1, NoneGrows
  <2> QED BY <1>1, <2>1, <2>2
<1>5. ASSUME NEW j \in DOMAIN sup, Worker(j) PROVE Goal
  <2>1. HistoriesGrow BY <1>5, WorkerGrows
  <2>2. UNCHANGED <<streamVars, active>>
    BY <1>5 DEF Worker, WorkerBegin, WorkerTop, WorkerEnter, WorkerExecute, WorkerAfter,
                WorkerEnd, WorkerRecord, WorkerFinish, KeepsDaemon
  <2> QED BY <1>1, <2>1, <2>2
<1>6. ASSUME NEW s \in Streams, Stream(s) PROVE Goal BY <1>6, StreamKeeps
<1>7. CASE UNCHANGED vars
  <2>1. UNCHANGED <<streamVars, active, sup>> BY <1>7 DEF vars, serverVars
  <2>2. HistoriesGrow BY <2>1, NoneGrows
  <2> QED BY <1>1, <2>1, <2>2
<1> QED BY <1>2, <1>3, <1>4, <1>5, <1>6, <1>7 DEF Next

LEMMA StreamInvariance == Spec => []StreamInv
<1>1. Init => StreamInv
  <2> SUFFICES ASSUME Init PROVE StreamInv OBVIOUS
  <2>1. <<>> \in Seq(Event) OBVIOUS
  <2>2. NoStream \in StreamState BY <2>1 DEF NoStream, NoEvent, StreamState
  <2>3. StreamTypeOK BY <2>2 DEF Init, StreamTypeOK, StreamState
  <2>4. DOMAIN sup = {} BY DEF Init
  <2>5. \A s \in Streams : following[s] = "closed" BY DEF Init
  <2> QED BY <2>3, <2>4, <2>5 DEF StreamInv, HistoriesRun, StreamsRight, StreamRight
<1>2. IInv /\ IInv' /\ StreamInv /\ [Next]_vars => StreamInv' BY StreamStepKeeps
<1> QED BY <1>1, <1>2, Invariance, PTL DEF Spec

\* The daemon's state always has its type: supervisors, worker threads, locks,
\* requests, the transaction file and what streams hold of the history.
THEOREM DaemonTypeCorrect == Spec => []TypeOK
<1>1. IInv /\ StreamInv => TypeOK BY DEF IInv, StreamInv, TypeOK
<1> QED BY <1>1, Invariance, StreamInvariance, PTL

\* replay_locked and native_stream never send an event twice, skip one that is
\* still kept, or send two in the wrong order, whatever reconnections and
\* history limits do.
THEOREM StreamsInOrder == Spec => StreamInOrder
<1> DEFINE Told == \A s \in Streams :
                      LET before == stream[s].seen
                          after == stream'[s].seen
                      IN  (after # before /\ after.sup = before.sup /\ after.sup # 0) =>
                              \/ after.id = before.id + 1
                              \/ before.id + 1 < Head(sup[after.sup].history).id /\ after.id > before.id
<1>1. IInv /\ IInv' /\ StreamInv /\ [Next]_vars => [Told]_vars
  BY StreamStepKeeps DEF SeenRight
<1> QED BY <1>1, Invariance, StreamInvariance, PTL DEF Spec, StreamInOrder
-----------------------------------------------------------------------------
(* The daemon implements InstallSlot.                                      *)

\* The three state functions the refinement mapping gives InstallSlot.
Outcomes == [j \in DOMAIN sup |-> Outcome(sup[j])]
CancelTaken == Newest # 0 /\ sup[Newest].cancel_requested
Operating == {c \in Clients : req[c].pc = "operate"}

\* The last event of an installation that ended is its ending.
EndsRecorded ==
    \A j \in DOMAIN sup :
        (~sup[j].worker_active /\ sup[j].terminal_event_id # 0) =>
            sup[j].history[Len(sup[j].history)].kind \in Endings

Kinds == {"running", "refused"} \cup Endings

\* Outcomes is a sequence as long as sup; only a running installation's says
\* so.
LEMMA OutcomesShape ==
    ASSUME IInv, EndsRecorded
    PROVE  /\ Outcomes \in Seq(Kinds) /\ Len(Outcomes) = Len(sup)
           /\ DOMAIN Outcomes = DOMAIN sup
           /\ \A j \in DOMAIN sup : /\ Outcomes[j] = Outcome(sup[j])
                                    /\ Outcome(sup[j]) = "running" <=> sup[j].worker_active
<1>1. ASSUME NEW j \in DOMAIN sup
      PROVE  Outcome(sup[j]) \in Kinds /\ (Outcome(sup[j]) = "running" <=> sup[j].worker_active)
  <2>1. sup[j].worker_active \in BOOLEAN BY Shape
  <2> QED BY <2>1 DEF EndsRecorded, Outcome, Kinds, Endings
<1>2. DOMAIN sup = 1..Len(sup) /\ Len(sup) \in Nat BY Shape
<1>3. Outcomes \in [1..Len(sup) -> Kinds] BY <1>1, <1>2 DEF Outcomes
<1>4. Outcomes \in Seq(Kinds) /\ Len(Outcomes) = Len(sup) BY <1>2, <1>3
<1>5. \A j \in DOMAIN sup : Outcomes[j] = Outcome(sup[j]) BY DEF Outcomes
<1> QED BY <1>1, <1>2, <1>3, <1>4, <1>5

\* InstallSlot's Running, in terms of the supervisors.
LEMMA SlotRuns ==
    ASSUME IInv, EndsRecorded
    PROVE  Slot!Running <=> \E j \in DOMAIN sup : sup[j].worker_active
<1>1. Slot!Running <=> (Outcomes # <<>> /\ Outcomes[Len(Outcomes)] = "running")
  BY DEF Slot!Running, Outcomes
<1>2. /\ Len(Outcomes) = Len(sup) /\ Outcomes \in Seq(Kinds)
      /\ \A j \in DOMAIN sup : Outcomes[j] = "running" <=> sup[j].worker_active
  BY OutcomesShape
<1>3. DOMAIN sup = 1..Len(sup) /\ Len(sup) \in Nat BY Shape
<1>4. \A j \in DOMAIN sup : sup[j].worker_active => j = Len(sup)
  BY DEF IInv, NewestRuns, Newest
<1>5. Outcomes # <<>> <=> Len(sup) # 0 BY <1>2
<1> QED BY <1>1, <1>2, <1>3, <1>4, <1>5

\* One supervisor changes.
LEMMA SlotUpdate ==
    ASSUME IInv, EndsRecorded, NEW i \in DOMAIN sup, NEW u \in JobState,
           sup' = [sup EXCEPT ![i] = u]
    PROVE  /\ Outcomes' = [Outcomes EXCEPT ![i] = Outcome(u)]
           /\ Outcome(u) = Outcome(sup[i]) => Outcomes' = Outcomes
           /\ i = Newest => CancelTaken' = u.cancel_requested
           /\ u.cancel_requested = sup[i].cancel_requested => CancelTaken' = CancelTaken
           /\ (~u.worker_active /\ u.terminal_event_id # 0
                  => u.history[Len(u.history)].kind \in Endings) => EndsRecorded'
<1>1. /\ sup' \in Seq(JobState) /\ Len(sup') = Len(sup) /\ DOMAIN sup' = DOMAIN sup
      /\ sup'[i] = u /\ \A k \in DOMAIN sup : k # i => sup'[k] = sup[k]
  BY Shape, SeqUpdate
<1>2. Len(sup) \in Nat /\ DOMAIN sup = 1..Len(sup) BY Shape
<1>3. Outcomes' = [j \in DOMAIN sup |-> Outcome(sup'[j])]
  BY <1>1 DEF Outcomes, Outcome
<1>4. \A j \in DOMAIN sup : Outcome(sup'[j]) = IF j = i THEN Outcome(u) ELSE Outcome(sup[j])
  BY <1>1
<1>5. Outcomes' = [Outcomes EXCEPT ![i] = Outcome(u)]
  BY <1>3, <1>4 DEF Outcomes
<1>6. Outcome(u) = Outcome(sup[i]) => Outcomes' = Outcomes
  BY <1>3, <1>4 DEF Outcomes
<1>7. Newest' = Newest BY <1>1 DEF Newest
<1>8. u.cancel_requested \in BOOLEAN BY DEF JobState
<1>9. i = Newest => CancelTaken' = u.cancel_requested
  BY <1>1, <1>2, <1>7, <1>8 DEF CancelTaken
<1>10. u.cancel_requested = sup[i].cancel_requested => CancelTaken' = CancelTaken
  <2>1. Newest # 0 => Newest \in DOMAIN sup BY <1>2 DEF Newest
  <2> QED BY <2>1, <1>1, <1>7 DEF CancelTaken
<1>11. (~u.worker_active /\ u.terminal_event_id # 0
          => u.history[Len(u.history)].kind \in Endings) => EndsRecorded'
  BY <1>1 DEF EndsRecorded
<1> QED BY <1>5, <1>6, <1>9, <1>10, <1>11
-----------------------------------------------------------------------------
(* What each step of the daemon is to InstallSlot                          *)

\* A step of InstallSlot, or none.
SlotStep == Slot!SlotNext \/ UNCHANGED Slot!slotVars

\* Nothing of the slot changes.
LEMMA SlotStutters ==
    ASSUME Outcomes' = Outcomes, CancelTaken' = CancelTaken, Operating' = Operating
    PROVE  SlotStep
<1>1. UNCHANGED Slot!slotVars BY DEF Slot!slotVars, Outcomes, CancelTaken, Operating
<1> QED BY <1>1 DEF SlotStep

\* A supervisor list that stays keeps the slot.
LEMMA SlotUntouched ==
    ASSUME EndsRecorded, UNCHANGED sup
    PROVE  EndsRecorded' /\ Outcomes' = Outcomes /\ CancelTaken' = CancelTaken
BY DEF EndsRecorded, Outcomes, Outcome, CancelTaken, Newest

\* A worker goes on, or ends its installation as the cancellation allows.
LEMMA WorkerSlot ==
    ASSUME IInv, EndsRecorded, NEW j \in DOMAIN sup, Worker(j)
    PROVE  EndsRecorded' /\ SlotStep
<1>1. PICK u \in JobState, w \in WorkerState : WorkerWrites(j, u, w) /\ WorkerAllowed(j, u, w)
  BY WorkerStep DEF IInv
<1>2. /\ Outcomes' = [Outcomes EXCEPT ![j] = Outcome(u)]
      /\ Outcome(u) = Outcome(sup[j]) => Outcomes' = Outcomes
      /\ j = Newest => CancelTaken' = u.cancel_requested
      /\ u.cancel_requested = sup[j].cancel_requested => CancelTaken' = CancelTaken
      /\ (~u.worker_active /\ u.terminal_event_id # 0
             => u.history[Len(u.history)].kind \in Endings) => EndsRecorded'
  BY <1>1, SlotUpdate DEF WorkerWrites
<1>3. sup[j].worker_active /\ u.worker_active \in BOOLEAN BY <1>1 DEF WorkerAllowed, JobState
<1>4. j = Newest BY <1>3 DEF IInv, NewestRuns
<1>5. Operating' = Operating BY <1>1 DEF WorkerWrites, Operating
<1>6. EndsRecorded' BY <1>1, <1>2 DEF WorkerAllowed
<1>7. CASE u.worker_active
  <2>1. Outcome(u) = Outcome(sup[j]) BY <1>3, <1>7 DEF Outcome
  <2>2. u.cancel_requested = sup[j].cancel_requested BY <1>1, <1>7 DEF WorkerAllowed
  <2> QED BY <2>1, <2>2, <1>2, <1>5, <1>6, SlotStutters
<1>8. CASE ~u.worker_active
  <2> DEFINE ending == u.history[Len(u.history)].kind
  <2>1. /\ ending \in Endings /\ ~u.cancel_requested /\ u.terminal_event_id # 0
        /\ ending = "done" => ~sup[j].cancel_requested
        /\ ending = "cancelled" => sup[j].cancel_requested
    BY <1>1, <1>8 DEF WorkerAllowed
  <2>2. Outcome(u) = ending BY <1>8, <2>1 DEF Outcome
  <2> HIDE DEF ending
  <2>3. Slot!Running BY <1>3, SlotRuns
  <2>4. CancelTaken = sup[j].cancel_requested
    <3>1. sup[j].cancel_requested \in BOOLEAN /\ Newest # 0
      BY <1>4, Shape
    <3> QED BY <3>1, <1>4 DEF CancelTaken
  <2>5. Outcomes' = [Outcomes EXCEPT ![Len(Outcomes)] = ending]
    BY <1>2, <1>4, <2>2, OutcomesShape DEF Newest
  <2>6. CancelTaken' = FALSE BY <1>2, <1>4, <2>1 DEF JobState
  <2>7. (ending = "done" => ~CancelTaken) /\ (ending = "cancelled" => CancelTaken)
    BY <2>1, <2>4
  <2>8. Slot!Finish(ending)
    BY <2>3, <2>5, <2>6, <2>7, <1>5 DEF Slot!Finish, Outcomes, CancelTaken, Operating
  <2>9. Slot!SlotNext BY <2>1, <2>8 DEF Slot!SlotNext, Endings
  <2> QED BY <2>9, <1>6 DEF SlotStep
<1> QED BY <1>3, <1>7, <1>8

\* A claim starts an installation.
LEMMA ClaimSlot ==
    ASSUME IInv, EndsRecorded, NEW c \in Clients, StartClaim(c)
    PROVE  EndsRecorded' /\ SlotStep
<1> DEFINE u == Claimed(DefaultJob)
           n == Len(sup) + 1
<1>1. /\ req[c].pc = "start" /\ req'[c].pc = "spawn"
      /\ \A d \in Clients : d # c => req'[d] = req[d]
  BY StepChangesOne DEF StartClaim
<1>2. sup' = Append(sup, u) /\ ~InstallRuns BY DEF StartClaim
<1>3. u \in JobState /\ u.worker_active /\ ~u.cancel_requested BY NewSupervisor
<1> HIDE DEF u
<1>4. /\ Len(sup') = n /\ DOMAIN sup' = 1..n /\ sup'[n] = u
      /\ \A k \in DOMAIN sup : sup'[k] = sup[k]
  BY <1>2, <1>3, Shape, SeqAppend
<1>5. Len(sup) \in Nat /\ DOMAIN sup = 1..Len(sup) BY Shape
<1>6. \A k \in DOMAIN sup' : k \in DOMAIN sup \/ k = n BY <1>4, <1>5
<1>7. EndsRecorded' BY <1>3, <1>4, <1>6 DEF EndsRecorded
<1>8. \A j \in DOMAIN sup : ~sup[j].worker_active BY <1>1, <1>2, GateExcludes
<1>9. ~Slot!Running BY <1>8, SlotRuns
<1>10. Operating = {} /\ Operating' = Operating
  <2>1. \A d \in Clients : req[d].pc # "operate"
    <3>1. gate = c BY <1>1 DEF IInv, LocksHeld
    <3> QED BY <3>1, <1>1 DEF IInv, LocksHeld
  <2>2. \A d \in Clients : req'[d].pc # "operate" BY <2>1, <1>1
  <2> QED BY <2>1, <2>2 DEF Operating
<1>11. CancelTaken' = FALSE
  <2>1. Newest' = n BY <1>4 DEF Newest
  <2> QED BY <2>1, <1>3, <1>4 DEF CancelTaken
<1>12. Outcomes' = Append(Outcomes, "running")
  <2>1. Outcome(u) = "running" BY <1>3 DEF Outcome
  <2>2. Outcomes' = [k \in 1..n |-> Outcome(sup'[k])] BY <1>4 DEF Outcomes, Outcome
  <2>3. \A k \in 1..n : Outcome(sup'[k]) = IF k = n THEN "running" ELSE Outcome(sup[k])
    BY <2>1, <1>4, <1>5, <1>6
  <2>4. /\ Outcomes \in Seq(Kinds) /\ Len(Outcomes) = Len(sup)
        /\ \A k \in 1..Len(sup) : Outcomes[k] = Outcome(sup[k])
    BY <1>5, OutcomesShape
  <2>5. "running" \in Kinds BY DEF Kinds
  <2> DEFINE a == Append(Outcomes, "running")
  <2>6. /\ a \in Seq(Kinds) /\ DOMAIN a = 1..n /\ a[n] = "running"
        /\ \A k \in 1..Len(sup) : a[k] = Outcomes[k]
    BY <2>4, <2>5, <1>5, SeqAppend
  <2> HIDE DEF a
  <2>7. a = [k \in 1..n |-> a[k]] BY <2>6
  <2>8. \A k \in 1..n : a[k] = Outcome(sup'[k])
    BY <2>3, <2>4, <2>6, <1>5
  <2>9. Outcomes' = a BY <2>2, <2>7, <2>8
  <2> QED BY <2>9 DEF a
<1>13. Slot!Start
  BY <1>9, <1>10, <1>11, <1>12 DEF Slot!Start, Outcomes, CancelTaken, Operating
<1> QED BY <1>7, <1>13 DEF SlotStep, Slot!SlotNext

\* A start that fails ends as refused.
LEMMA FailSlot ==
    ASSUME IInv, EndsRecorded, NEW c \in Clients, StartFails(c)
    PROVE  EndsRecorded' /\ SlotStep
<1> DEFINE u == StartFailed(sup[Newest])
<1>1. /\ req[c].pc = "spawn" /\ req'[c].pc = "idle"
      /\ \A d \in Clients : d # c => req'[d] = req[d]
  BY StepChangesOne DEF StartFails
<1>2. Newest \in DOMAIN sup /\ sup[Newest].worker_active /\ sup[Newest].terminal_event_id = 0
  BY <1>1, StarterAlone DEF IInv, StartsNewest
<1>3. u \in JobState /\ ~u.worker_active /\ ~u.cancel_requested /\ u.terminal_event_id = 0
  BY <1>2, Shape, Supervisor
<1>4. sup' = [sup EXCEPT ![Newest] = u] BY DEF StartFails
<1> HIDE DEF u
<1>5. /\ Outcomes' = [Outcomes EXCEPT ![Newest] = Outcome(u)]
      /\ CancelTaken' = u.cancel_requested
      /\ EndsRecorded'
  BY <1>2, <1>3, <1>4, SlotUpdate
<1>6. Outcome(u) = "refused" BY <1>3 DEF Outcome
<1>7. Outcomes' = [Outcomes EXCEPT ![Len(Outcomes)] = "refused"]
  BY <1>5, <1>6, OutcomesShape DEF Newest
<1>8. CancelTaken' = FALSE BY <1>3, <1>5 DEF JobState
<1>9. Operating' = Operating BY <1>1 DEF Operating
<1>10. Slot!Running BY <1>2, SlotRuns
<1>11. Slot!Finish("refused")
  BY <1>7, <1>8, <1>9, <1>10 DEF Slot!Finish, Outcomes, CancelTaken, Operating
<1> QED BY <1>5, <1>11 DEF SlotStep, Slot!SlotNext

\* An accepted cancellation, and the token that follows it.
LEMMA CancelSlot ==
    ASSUME IInv, EndsRecorded, NEW c \in Clients, CancelAccept(c) \/ CancelToken(c)
    PROVE  EndsRecorded' /\ SlotStep
<1>1. CASE CancelAccept(c)
  <2> DEFINE u == [sup[active] EXCEPT !.cancel_requested = TRUE]
  <2>1. /\ req[c].pc = "cancel" /\ req'[c].pc = "token"
        /\ \A d \in Clients : d # c => req'[d] = req[d]
    BY <1>1, StepChangesOne DEF CancelAccept
  <2>2. active \in DOMAIN sup /\ sup[active].worker_active
    BY <1>1, Shape DEF CancelAccept, InstallRuns
  <2>3. active = Newest BY <2>2 DEF IInv, NewestRuns
  <2>4. sup[active] \in JobState BY <2>2, Shape
  <2>5. u \in JobState /\ u.worker_active = sup[active].worker_active
        /\ u.cancel_requested = TRUE
    BY <2>4 DEF JobState
  <2>6. sup' = [sup EXCEPT ![active] = u] BY <1>1 DEF CancelAccept
  <2> HIDE DEF u
  <2>7. Outcome(u) = Outcome(sup[active]) BY <2>2, <2>5 DEF Outcome
  <2>8. EndsRecorded' /\ Outcomes' = Outcomes /\ CancelTaken' = TRUE
    BY <2>2, <2>3, <2>5, <2>6, <2>7, SlotUpdate
  <2>9. Operating' = Operating BY <2>1 DEF Operating
  <2>10. Slot!Running BY <2>2, SlotRuns
  <2>11. Slot!Cancel
    BY <2>8, <2>9, <2>10 DEF Slot!Cancel, Outcomes, CancelTaken, Operating
  <2> QED BY <2>8, <2>11 DEF SlotStep, Slot!SlotNext
<1>2. CASE CancelToken(c)
  <2> DEFINE u == [sup[active] EXCEPT !.token = TRUE]
  <2>1. req[c].pc = "token" /\ req' = [req EXCEPT ![c] = IdleReq] BY <1>2 DEF CancelToken
  <2>2. active \in DOMAIN sup BY <2>1, Shape DEF IInv, StartsNewest
  <2>3. sup[active] \in JobState BY <2>2, Shape
  <2>4. /\ u \in JobState /\ u.worker_active = sup[active].worker_active
        /\ u.cancel_requested = sup[active].cancel_requested
        /\ u.terminal_event_id = sup[active].terminal_event_id
        /\ u.history = sup[active].history
    BY <2>3 DEF JobState
  <2>5. sup' = [sup EXCEPT ![active] = u] BY <1>2 DEF CancelToken
  <2> HIDE DEF u
  <2>6. Outcome(u) = Outcome(sup[active]) BY <2>4 DEF Outcome
  <2>7. ~u.worker_active /\ u.terminal_event_id # 0 => u.history[Len(u.history)].kind \in Endings
    BY <2>2, <2>4 DEF EndsRecorded
  <2>8. EndsRecorded' /\ Outcomes' = Outcomes /\ CancelTaken' = CancelTaken
    BY <2>2, <2>4, <2>5, <2>6, <2>7, SlotUpdate
  <2>9. Operating' = Operating
    <3>1. IdleReq.pc # "operate" BY DEF IdleReq
    <3>2. req \in [Clients -> ReqState] BY Shape
    <3>3. \A d \in Clients : req'[d].pc = "operate" <=> req[d].pc = "operate"
      BY <2>1, <3>1, <3>2
    <3> QED BY <3>3 DEF Operating
  <2> QED BY <2>8, <2>9, SlotStutters
<1> QED BY <1>1, <1>2

\* Steps of the request threads that leave the supervisors alone.
LEMMA QuietSlot ==
    ASSUME IInv, EndsRecorded, NEW c \in Clients,
           \/ StartGate(c) \/ StartRefused(c) \/ StartSpawn(c) \/ StartInstalled(c)
           \/ CancelSend(c) \/ CancelRefused(c)
           \/ OperateGate(c) \/ OperateLocked(c) \/ OperateBegin(c) \/ OperateEnd(c)
    PROVE  EndsRecorded' /\ SlotStep
<1>1. UNCHANGED sup
  BY DEF StartGate, StartRefused, StartSpawn, StartInstalled, CancelSend, CancelRefused,
         OperateGate, OperateLocked, OperateBegin, OperateEnd, serverVars
<1>2. EndsRecorded' /\ Outcomes' = Outcomes /\ CancelTaken' = CancelTaken
  BY <1>1, SlotUntouched
<1>3. req \in [Clients -> ReqState] BY Shape
<1>4. CASE OperateBegin(c)
  <2>1. /\ req[c].pc = "check" /\ req'[c].pc = "operate"
        /\ \A d \in Clients : d # c => req'[d] = req[d]
    BY <1>4, StepChangesOne DEF OperateBegin
  <2>2. \A j \in DOMAIN sup : ~sup[j].worker_active
    BY <2>1, <1>4, GateExcludes DEF OperateBegin
  <2>3. ~Slot!Running BY <2>2, SlotRuns
  <2>4. Operating' = Operating \cup {c} BY <2>1 DEF Operating
  <2>5. Slot!Operate(c)
    BY <1>2, <2>3, <2>4 DEF Slot!Operate, Outcomes, CancelTaken, Operating
  <2> QED BY <1>2, <2>5 DEF SlotStep, Slot!SlotNext
<1>5. CASE OperateEnd(c)
  <2>1. /\ req[c].pc = "operate" /\ req'[c].pc = "idle"
        /\ \A d \in Clients : d # c => req'[d] = req[d]
    BY <1>5, StepChangesOne DEF OperateEnd
  <2>2. c \in Operating /\ Operating' = Operating \ {c} BY <2>1 DEF Operating
  <2>3. Slot!Stop(c)
    BY <1>2, <2>2 DEF Slot!Stop, Outcomes, CancelTaken, Operating
  <2> QED BY <1>2, <2>3 DEF SlotStep, Slot!SlotNext
<1>6. CASE ~OperateBegin(c) /\ ~OperateEnd(c)
  <2>1. \/ \E from \in {"idle", "start", "spawn", "install", "check"},
              to \in {"idle", "start", "install", "check"} : Step(c, from, to)
        \/ req[c].pc \in {"idle", "cancel"} /\ \E j : req' = [req EXCEPT ![c] = [pc |-> "cancel", want |-> j]]
        \/ req[c].pc \in {"idle", "cancel"} /\ req' = [req EXCEPT ![c] = IdleReq]
    BY <1>6 DEF StartGate, StartRefused, StartSpawn, StartInstalled, CancelSend, CancelRefused,
                OperateGate, OperateLocked
  <2>2. req[c].pc # "operate" /\ req'[c].pc # "operate"
        /\ \A d \in Clients : d # c => req'[d] = req[d]
    <3>1. IdleReq.pc = "idle" BY DEF IdleReq
    <3>2. CASE \E from \in {"idle", "start", "spawn", "install", "check"},
                  to \in {"idle", "start", "install", "check"} : Step(c, from, to)
      <4>1. PICK from \in {"idle", "start", "spawn", "install", "check"},
                 to \in {"idle", "start", "install", "check"} : Step(c, from, to)
        BY <3>2
      <4> DEFINE r == [req[c] EXCEPT !.pc = to]
      <4>2. req[c].pc = from /\ req' = [req EXCEPT ![c] = r] BY <4>1 DEF Step
      <4>3. r.pc = to BY <1>3 DEF ReqState
      <4>4. from # "operate" /\ to # "operate" OBVIOUS
      <4> HIDE DEF r
      <4> QED BY <4>2, <4>3, <4>4, <1>3
    <3>3. CASE /\ req[c].pc \in {"idle", "cancel"}
               /\ \E j : req' = [req EXCEPT ![c] = [pc |-> "cancel", want |-> j]]
      BY <3>3, <1>3
    <3>4. CASE req[c].pc \in {"idle", "cancel"} /\ req' = [req EXCEPT ![c] = IdleReq]
      BY <3>1, <3>4, <1>3
    <3> QED BY <2>1, <3>2, <3>3, <3>4
  <2>3. Operating' = Operating BY <2>2 DEF Operating
  <2> QED BY <1>2, <2>3, SlotStutters
<1> QED BY <1>4, <1>5, <1>6

\* Every step of the daemon is a step of InstallSlot or none.
LEMMA NextSlot == IInv /\ EndsRecorded /\ [Next]_vars => EndsRecorded' /\ SlotStep
<1> SUFFICES ASSUME IInv, EndsRecorded, [Next]_vars PROVE EndsRecorded' /\ SlotStep OBVIOUS
<1>1. ASSUME UNCHANGED <<sup, req>> PROVE EndsRecorded' /\ SlotStep
  <2>1. Operating' = Operating BY <1>1 DEF Operating
  <2> QED BY <1>1, <2>1, SlotUntouched, SlotStutters
<1>2. CASE UNCHANGED vars BY <1>1, <1>2 DEF vars, serverVars
<1>3. ASSUME NEW c \in Clients, StartRoute(c) \/ CancelRoute(c) \/ StorageRoute(c)
      PROVE  EndsRecorded' /\ SlotStep
  BY <1>3, QuietSlot, ClaimSlot, FailSlot, CancelSlot DEF StartRoute, CancelRoute, StorageRoute
<1>4. ASSUME NEW j \in DOMAIN sup, Worker(j) PROVE EndsRecorded' /\ SlotStep
  BY <1>4, WorkerSlot
<1>5. ASSUME NEW s \in Streams, Stream(s) PROVE EndsRecorded' /\ SlotStep
  BY <1>1, <1>5, StreamStep
<1> QED BY <1>2, <1>3, <1>4, <1>5 DEF Next

\* The daemon implements InstallSlot: one installation at a time and never
\* beside a storage operation, each ends once, an accepted cancellation is
\* never reported as done and none is made up.
THEOREM DaemonImplementsSlot == Spec => ImplementsSlot
<1>1. Init => Slot!SlotInit /\ EndsRecorded
  <2> SUFFICES ASSUME Init PROVE Slot!SlotInit /\ EndsRecorded OBVIOUS
  <2>1. sup = <<>> /\ DOMAIN sup = {} /\ Len(sup) = 0 BY DEF Init
  <2>2. [j \in DOMAIN sup |-> Outcome(sup[j])] = <<>> BY <2>1
  <2>3. (Newest # 0 /\ sup[Newest].cancel_requested) = FALSE BY <2>1 DEF Newest
  <2>4. \A c \in Clients : req[c].pc # "operate" BY DEF Init, IdleReq
  <2>5. {c \in Clients : req[c].pc = "operate"} = {} BY <2>4
  <2> QED BY <2>1, <2>2, <2>3, <2>5 DEF Slot!SlotInit, EndsRecorded
<1>2. IInv /\ EndsRecorded /\ [Next]_vars => EndsRecorded' /\ [Slot!SlotNext]_Slot!slotVars
  BY NextSlot DEF SlotStep
<1> QED BY <1>1, <1>2, Invariance, PTL DEF Spec, ImplementsSlot, Slot!SlotSpec
=============================================================================

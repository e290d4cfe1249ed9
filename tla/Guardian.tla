------------------------------ MODULE Guardian ------------------------------
(***************************************************************************)
(* Guardian's history file and the processes that read, decide on and      *)
(* rewrite it: kyth-guardian (the timer's checks, a check the Hub starts,  *)
(* "fix" on the command line) and the Hub's own threads (repairs and       *)
(* dismissals).                                                            *)
(*                                                                         *)
(* Every writer loads the whole file, works, and saves the whole file.     *)
(* The file locks cover one load or one save each, never the pair, so a    *)
(* save can undo what another process saved since the load: a repair holds *)
(* its copy for as long as its command runs.  A load that fails, or finds  *)
(* a corrupt file, goes on with an empty history, and a repair does not    *)
(* look at whether its save failed.  gForgotten remembers which records    *)
(* were lost this way; what Guardian promises is stated of the others.     *)
(***************************************************************************)
EXTENDS Integers, Sequences, FiniteSets, SequencesExt

CONSTANTS
    Repairs,             \* recipes with a command, risk safe or confirm
    AutomaticRepairs,    \* those that are safe and automatic
    GuardianProcesses,   \* concurrent kyth-guardian processes
    HubThreads,          \* threads of the Hub that repair or dismiss
    PendingWindow,       \* NOTIFY_THROTTLE_S
    Cooldown,            \* recipe.cooldown
    HistoryCap,          \* the 200 records the file keeps
    MaxGuardianClock,    \* bound: time
    MaxGuardianOps       \* bound: operations begun

ASSUME GuardianAssumption ==
    /\ AutomaticRepairs \subseteq Repairs /\ IsFiniteSet(Repairs)
    /\ GuardianProcesses \cap HubThreads = {} /\ "hub" \notin GuardianProcesses
    /\ Cooldown \in Nat /\ PendingWindow \in Nat
    /\ HistoryCap \in Nat \ {0}

VARIABLES
    history,         \* guardian.json: records [recipe, action, verified, at]
    gClock,          \* now_unix
    gOp,             \* what each thread or process is doing
    gOpsBegun,       \* bound counter
    gForgotten,      \* history: records not saved, overwritten or past the cap
    gRepaired,       \* history: verified repairs [recipe, at]
    gAdvised,        \* history: recipe -> when a recorded check last advised it
    gDismissed       \* history: recipe -> when it was last dismissed

guardianVars == <<history, gClock, gOp, gOpsBegun, gForgotten, gRepaired, gAdvised,
                  gDismissed>>

GuardianActors == GuardianProcesses \cup HubThreads
Process(a) == IF a \in HubThreads THEN "hub" ELSE a

IdleOp == [phase |-> "idle", snap |-> <<>>, since |-> 0, recipe |-> "none",
           todo |-> {}, advice |-> {}, decided |-> 0]

Record(recipe, action, verified, at) ==
    [recipe |-> recipe, action |-> action, verified |-> verified, at |-> at]

\* x is one of the records.
Holds(records, x) == \E i \in DOMAIN records : records[i] = x

\* The verified repairs and the last dismissals, as the records they left.
RunRecord(run) == Record(run.recipe, "executed", TRUE, run.at)
DismissRecord(recipe) == Record(recipe, "dismissed", FALSE, gDismissed[recipe])
Written == {RunRecord(run) : run \in gRepaired}
             \cup {DismissRecord(recipe) : recipe \in {r \in Repairs : gDismissed[r] # 0}}

-----------------------------------------------------------------------------
(* The functions on a history.                                             *)

Merge(done, i, item) == [done EXCEPT ![i] = item]

\* coalesce_recommendations: a recommendation takes the place of the previous
\* one of its recipe if nothing else about the recipe came between.
Coalesced(done, item) ==
    LET same == {i \in DOMAIN done : done[i].recipe = item.recipe}
    IN  IF item.action = "recommended" /\ same # {} /\ done[Max(same)].action = "recommended"
        THEN Merge(done, Max(same), item)
        ELSE Append(done, item)

coalesce(records) ==
    LET done[n \in 0..Len(records)] ==
          IF n = 0 THEN <<>> ELSE Coalesced(done[n - 1], records[n])
    IN  done[Len(records)]

\* The newest HistoryCap records, by position.
trim(records) ==
    SubSeq(records, IF Len(records) > HistoryCap THEN Len(records) - HistoryCap + 1 ELSE 1,
           Len(records))

\* What save_state_locked writes.
Normalized(records) == trim(coalesce(records))

\* Mutant: the last record by position.
LastWritten(records, recipe) ==
    LET about == {i \in DOMAIN records : /\ records[i].recipe = recipe
                                         /\ gClock - records[i].at <= PendingWindow}
    IN  IF about = {} THEN 0 ELSE Max(about)

\* The record pending_recommendations settles on for a recipe: in the window,
\* the latest by time, of equal times the last.
Latest(records, recipe) ==
    LET about == {i \in DOMAIN records : /\ records[i].recipe = recipe
                                         /\ gClock - records[i].at <= PendingWindow}
        newest == {i \in about : \A j \in about : records[j].at <= records[i].at}
    IN  IF newest = {} THEN 0 ELSE Max(newest)

is_pending_recipe(records, recipe) ==
    LET i == Latest(records, recipe) IN i # 0 /\ records[i].action = "recommended"

\* Mutant: no cooldown.
CooldownIgnored(records, recipe) == FALSE

cooldown_active(records, recipe) ==
    \E i \in DOMAIN records :
        /\ records[i].recipe = recipe /\ records[i].action = "executed"
        /\ records[i].verified
        /\ gClock - records[i].at < Cooldown

-----------------------------------------------------------------------------
GuardianInit ==
    /\ history = <<>>
    /\ gClock = PendingWindow + 1
    /\ gOp = [a \in GuardianActors |-> IdleOp]
    /\ gOpsBegun = 0
    /\ gForgotten = {}
    /\ gRepaired = {}
    /\ gAdvised = [r \in Repairs |-> 0]
    /\ gDismissed = [r \in Repairs |-> 0]

GuardianTick ==
    /\ gClock < MaxGuardianClock
    /\ gClock' = gClock + 1
    /\ UNCHANGED <<history, gOp, gOpsBegun, gForgotten, gRepaired, gAdvised, gDismissed>>

Begins(a) ==
    /\ gOp[a].phase = "idle"
    /\ gOpsBegun < MaxGuardianOps
    /\ gOpsBegun' = gOpsBegun + 1

\* save_state of a whole document, with the records that are mine.  Others are
\* lost when they are not in the copy that was loaded; any may be when the file
\* outgrows its cap (trimmed: already before).
Save(a, records, trimmed, mine) ==
    /\ history' = Normalized(records)
    /\ gForgotten' = gForgotten
          \cup {x \in Written : ~Holds(gOp[a].snap, x)}
          \cup (IF trimmed \/ Len(coalesce(records)) > HistoryCap
                THEN {x \in Written \cup mine : ~Holds(history', x)} ELSE {})

\* save_state fails: the file stays, and what it would have gained is lost.
SaveFails(mine) == UNCHANGED history /\ gForgotten' = gForgotten \cup mine

-----------------------------------------------------------------------------
(* check: collect the symptoms, repair the automatic ones, record the rest. *)

\* The symptoms are in: those that will not be repaired are advised on, as of
\* now (one time for all of them).  allowed is automatic_safe_fixes.
CheckBegins(a, symptoms, allowed) ==
    LET todo == IF allowed THEN symptoms \cap AutomaticRepairs ELSE {}
    IN  /\ Begins(a)
        /\ gOp' = [gOp EXCEPT ![a] =
                     [IdleOp EXCEPT !.phase = "checking", !.todo = todo,
                                    !.advice = symptoms \ todo, !.decided = gClock]]
        /\ UNCHANGED <<history, gClock, gForgotten, gRepaired, gAdvised, gDismissed>>

\* record_service_check loads the file, or starts from empty_state ...
CheckLoads(a, loaded) ==
    /\ gOp[a].phase = "checking" /\ gOp[a].todo = {}
    /\ gOp' = [gOp EXCEPT ![a].phase = "recording",
                          ![a].snap = IF loaded THEN history ELSE <<>>]
    /\ UNCHANGED <<history, gClock, gOpsBegun, gForgotten, gRepaired, gAdvised, gDismissed>>

\* ... appends the advice and saves it.
Advice(a) ==
    [i \in 1..Cardinality(gOp[a].advice) |->
        Record(SetToSeq(gOp[a].advice)[i], "recommended", FALSE, gOp[a].decided)]

NowAdvised(a) ==
    [r \in Repairs |-> IF r \in gOp[a].advice /\ gOp[a].decided > gAdvised[r]
                       THEN gOp[a].decided ELSE gAdvised[r]]

CheckSaves(a, saved) ==
    /\ gOp[a].phase = "recording"
    /\ IF saved THEN Save(a, gOp[a].snap \o Advice(a), FALSE, {}) /\ gAdvised' = NowAdvised(a)
       ELSE SaveFails({}) /\ UNCHANGED gAdvised
    /\ gOp' = [gOp EXCEPT ![a] = IdleOp]
    /\ UNCHANGED <<gClock, gOpsBegun, gRepaired, gDismissed>>

-----------------------------------------------------------------------------
(* execute_recipe.                                                         *)

\* RECIPE_SLOT is free: no other thread of the process is repairing.
SlotFree(a) ==
    \A other \in GuardianActors :
        Process(other) = Process(a) => gOp[other].phase # "repairing"

\* The gates: Guardian currently recommends the recipe, and its cooldown is over.
Authorized(recipe) ==
    is_pending_recipe(history, recipe) /\ ~cooldown_active(history, recipe)

\* The gates pass and the command starts, with the copy of the file they
\* looked at.
Repairing(op, recipe) ==
    [op EXCEPT !.phase = "repairing", !.recipe = recipe, !.snap = history,
               !.since = gClock]

\* A thread of the Hub, or "kyth-guardian fix".
RepairBegins(a, recipe) ==
    /\ Begins(a)
    /\ SlotFree(a)
    /\ Authorized(recipe)
    /\ gOp' = [gOp EXCEPT ![a] = Repairing(@, recipe)]
    /\ UNCHANGED <<history, gClock, gForgotten, gRepaired, gAdvised, gDismissed>>

\* A check's automatic repair: refused unless recommended and past its
\* cooldown (or the file did not load), and then neither repaired nor advised
\* on.
CheckRepairs(a, recipe, loaded) ==
    /\ gOp[a].phase = "checking" /\ recipe \in gOp[a].todo
    /\ LET op == [gOp[a] EXCEPT !.todo = @ \ {recipe}]
       IN  gOp' = [gOp EXCEPT ![a] =
                     IF loaded /\ Authorized(recipe) THEN Repairing(op, recipe) ELSE op]
    /\ UNCHANGED <<history, gClock, gOpsBegun, gForgotten, gRepaired, gAdvised, gDismissed>>

\* The command and its verification are over: the record goes to the copy
\* loaded when it started, and that copy is saved; whether it was, nobody asks.
RepairEnds(a, verified, saved) ==
    /\ gOp[a].phase = "repairing"
    /\ LET record == Record(gOp[a].recipe, "executed", verified, gClock)
           records == Append(gOp[a].snap, record)
           mine == IF verified THEN {record} ELSE {}
       IN  IF saved THEN Save(a, trim(records), Len(records) > HistoryCap, mine)
           ELSE SaveFails(mine)
    /\ gRepaired' = IF verified
                    THEN gRepaired \cup {[recipe |-> gOp[a].recipe, at |-> gClock]}
                    ELSE gRepaired
    /\ gOp' = [gOp EXCEPT ![a] =
                 IF @.decided # 0
                 THEN [@ EXCEPT !.phase = "checking", !.recipe = "none", !.snap = <<>>,
                                !.since = 0]
                 ELSE IdleOp]
    /\ UNCHANGED <<gClock, gOpsBegun, gAdvised, gDismissed>>

-----------------------------------------------------------------------------
(* dismiss_recommendation.                                                 *)

DismissBegins(a, recipe) ==
    /\ Begins(a)
    /\ is_pending_recipe(history, recipe)
    /\ gOp' = [gOp EXCEPT ![a] = [IdleOp EXCEPT !.phase = "dismissing", !.recipe = recipe,
                                                !.snap = history, !.since = gClock]]
    /\ UNCHANGED <<history, gClock, gForgotten, gRepaired, gAdvised, gDismissed>>

\* A save that fails is an error the Hub shows: nothing was dismissed.
DismissSaves(a, saved) ==
    /\ gOp[a].phase = "dismissing"
    /\ LET record == Record(gOp[a].recipe, "dismissed", FALSE, gClock)
       IN  IF saved THEN /\ Save(a, Append(gOp[a].snap, record), FALSE, {record})
                         /\ gDismissed' = [gDismissed EXCEPT ![gOp[a].recipe] = gClock]
           ELSE SaveFails({}) /\ UNCHANGED gDismissed
    /\ gOp' = [gOp EXCEPT ![a] = IdleOp]
    /\ UNCHANGED <<gClock, gOpsBegun, gRepaired, gAdvised>>

GuardianNext ==
    \/ GuardianTick
    \/ \E a \in GuardianProcesses, symptoms \in SUBSET Repairs, allowed \in BOOLEAN :
          CheckBegins(a, symptoms, allowed)
    \/ \E a \in GuardianProcesses, r \in Repairs, loaded \in BOOLEAN : CheckRepairs(a, r, loaded)
    \/ \E a \in GuardianProcesses, ok \in BOOLEAN : CheckLoads(a, ok) \/ CheckSaves(a, ok)
    \/ \E a \in GuardianActors, r \in Repairs : RepairBegins(a, r)
    \/ \E a \in GuardianActors, verified, saved \in BOOLEAN : RepairEnds(a, verified, saved)
    \/ \E a \in HubThreads, r \in Repairs : DismissBegins(a, r)
    \/ \E a \in HubThreads, saved \in BOOLEAN : DismissSaves(a, saved)

GuardianSpec == GuardianInit /\ [][GuardianNext]_guardianVars

-----------------------------------------------------------------------------
(* Properties.                                                             *)

\* Type correctness; the file never keeps more than its cap.
GuardianTypeOK ==
    /\ history \in Seq([recipe : Repairs, action : {"recommended", "executed", "dismissed"},
                        verified : BOOLEAN, at : Nat])
    /\ Len(history) <= HistoryCap
    /\ \A a \in GuardianActors :
          gOp[a].phase \in {"idle", "checking", "recording", "repairing", "dismissing"}

\* Two repairs never run in one process at the same time, however the Hub's
\* threads are scheduled (execute_recipe's comment on its single-flight slot).
OneRepairPerProcess ==
    \A a, b \in GuardianActors :
        /\ a # b /\ Process(a) = Process(b)
        => ~(gOp[a].phase = "repairing" /\ gOp[b].phase = "repairing")

\* No repair runs that Guardian did not recommend within the window before it
\* started, whoever starts it and whatever was overwritten since.
RepairsAreAdvised ==
    \A a \in GuardianActors :
        gOp[a].phase = "repairing" =>
          /\ gAdvised[gOp[a].recipe] # 0
          /\ \E i \in DOMAIN gOp[a].snap :
                /\ gOp[a].snap[i].recipe = gOp[a].recipe
                /\ gOp[a].snap[i].action = "recommended"
                /\ gOp[a].since - gOp[a].snap[i].at <= PendingWindow

\* A verified repair is not started again before its cooldown is over, by any
\* process.  Only a repair whose record was lost may be: its own save failed, a
\* process saved a copy without it, or the file outgrew its cap.
RepairsSpaced ==
    \A a \in GuardianActors, run \in gRepaired :
        /\ RunRecord(run) \notin gForgotten
        /\ gOp[a].phase = "repairing" /\ gOp[a].recipe = run.recipe
        /\ gOp[a].since > run.at
        => gOp[a].since - run.at >= Cooldown

\* A repair runs alone in its process, on advice, and after its cooldown
\* (the gates of execute_recipe, against every other thread and process).
RepairsGuarded == OneRepairPerProcess /\ RepairsAreAdvised /\ RepairsSpaced

\* What was dismissed is not shown again before a later check advises it, even
\* when a check that had decided earlier saves after the dismissal; unless the
\* dismissal itself was lost to a save of an older copy or to the cap.
DismissedStaysHidden ==
    \A r \in Repairs :
        is_pending_recipe(history, r) /\ DismissRecord(r) \notin gForgotten =>
            gAdvised[r] >= gDismissed[r]

=============================================================================

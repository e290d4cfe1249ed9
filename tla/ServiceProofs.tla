--------------------------- MODULE ServiceProofs ---------------------------
(***************************************************************************)
(* Proofs about the services of kyth-shared, for any bounds: Guardian's    *)
(* history file and the repairs it authorizes; the scheduler daemon's      *)
(* performance mode; and the job store, for any capacity, number of starts *)
(* and number of starts at one clock reading below the capacity: its table *)
(* and queue agree, reports land on their own job, and no child process    *)
(* runs on unsignalled once its job is cancelled or evicted.               *)
(***************************************************************************)
EXTENDS Guardian, SchedDaemon, JobStore, FiniteSetTheorems, SequenceTheorems, Induction, TLAPS

-----------------------------------------------------------------------------
(* What a save does to the records of a history                            *)

Rec == [recipe : Repairs, action : {"recommended", "executed", "dismissed"},
        verified : BOOLEAN, at : Nat]

LEMMA MaxIsMember ==
    ASSUME NEW N \in Nat, NEW S \in SUBSET (0 .. N), S # {}
    PROVE  Max(S) \in S
<1>1. \E x \in S : \A y \in S : x >= y BY GreatestElement
<1> QED BY <1>1 DEF Max

\* One step of coalesce_recommendations: nothing is invented, and only a
\* recommendation is replaced.
LEMMA CoalescedKeeps ==
    ASSUME NEW m \in Seq(Rec), NEW e \in Rec
    PROVE  LET c == Coalesced(m, e)
           IN  /\ c \in Seq(Rec)
               /\ \A i \in DOMAIN c : Holds(m, c[i]) \/ c[i] = e
               /\ \A i \in DOMAIN m : m[i].action # "recommended" => Holds(c, m[i])
               /\ Holds(c, e)
<1> DEFINE same == {i \in DOMAIN m : m[i].recipe = e.recipe}
           k == Max(same)
<1>0. Len(m) \in Nat /\ DOMAIN m = 1..Len(m) OBVIOUS
<1>1. CASE e.action = "recommended" /\ same # {} /\ m[k].action = "recommended"
  <2>1. k \in DOMAIN m
    <3>1. same \in SUBSET (0 .. Len(m)) BY <1>0
    <3> HIDE DEF same
    <3>2. Max(same) \in same BY <1>0, <1>1, <3>1, MaxIsMember
    <3> QED BY <3>2 DEF same
  <2> HIDE DEF k
  <2> DEFINE c == [m EXCEPT ![k] = e]
  <2>2. Coalesced(m, e) = c BY <1>1 DEF Coalesced, Merge, k
  <2>3. c \in Seq(Rec) /\ DOMAIN c = DOMAIN m /\ c[k] = e
        /\ \A i \in DOMAIN m : i # k => c[i] = m[i]
    BY <2>1
  <2> HIDE DEF c, same
  <2>4. \A i \in DOMAIN m : m[i].action # "recommended" => c[i] = m[i] BY <1>1, <2>3
  <2> QED BY <2>1, <2>2, <2>3, <2>4 DEF Holds
<1>2. CASE ~(e.action = "recommended" /\ same # {} /\ m[k].action = "recommended")
  <2> DEFINE c == Append(m, e)
  <2>1. Coalesced(m, e) = c BY <1>2 DEF Coalesced
  <2>2. c \in Seq(Rec) /\ DOMAIN c = 1..(Len(m) + 1) /\ c[Len(m) + 1] = e
        /\ \A i \in DOMAIN m : c[i] = m[i] /\ i \in DOMAIN c
    BY <1>0
  <2> HIDE DEF c
  <2>3. \A i \in DOMAIN c : i \in DOMAIN m \/ i = Len(m) + 1 BY <1>0, <2>2
  <2>4. Len(m) + 1 \in DOMAIN c BY <1>0, <2>2
  <2> QED BY <2>1, <2>2, <2>3, <2>4 DEF Holds
<1> QED BY <1>1, <1>2

LEMMA CoalesceKeeps ==
    ASSUME NEW records \in Seq(Rec)
    PROVE  LET c == coalesce(records)
           IN  /\ c \in Seq(Rec)
               /\ \A i \in DOMAIN c : Holds(records, c[i])
               /\ \A j \in DOMAIN records :
                     records[j].action # "recommended" => Holds(c, records[j])
<1> DEFINE N == Len(records)
           V == Seq(Rec)
           step == [n \in 1 .. N |-> [m \in V |-> Coalesced(m, records[n])]]
<1>0. N \in Nat /\ DOMAIN records = 1..N /\ \A n \in 1..N : records[n] \in Rec OBVIOUS
<1>1. \A n \in 1 .. N, m \in V : Coalesced(m, records[n]) \in V BY <1>0, CoalescedKeeps
<1> HIDE DEF N
<1>2. PICK g : Recursion(g, N, V, <<>>, step)
  <2>1. step \in [1 .. N -> [V -> V]] BY <1>1
  <2>2. <<>> \in V OBVIOUS
  <2> HIDE DEF step, V
  <2> QED BY <1>0, <2>1, <2>2, RecursionRuns
<1> DEFINE Def(m) == m = [n \in 0 .. N |-> IF n = 0 THEN <<>> ELSE Coalesced(m[n - 1], records[n])]
           done == CHOOSE m : Def(m)
<1>3. Def(done)
  <2>1. ASSUME NEW n \in 1 .. N PROVE g[n] = Coalesced(g[n - 1], records[n])
    <3>1. g[n - 1] \in V BY <1>0, <1>2 DEF Recursion
    <3>2. step[n][g[n - 1]] = Coalesced(g[n - 1], records[n]) BY <3>1
    <3> HIDE DEF step
    <3> QED BY <1>2, <3>2 DEF Recursion
  <2>2. g \in [0 .. N -> V] /\ g[0] = <<>> BY <1>2 DEF Recursion
  <2>3. ASSUME NEW n \in 0 .. N
        PROVE  g[n] = IF n = 0 THEN <<>> ELSE Coalesced(g[n - 1], records[n])
    <3>1. CASE n = 0 BY <2>2, <3>1
    <3>2. CASE n # 0
      <4>1. n \in 1 .. N BY <1>0, <3>2
      <4> QED BY <2>1, <3>2, <4>1
    <3> QED BY <3>1, <3>2
  <2>4. g = [n \in 0 .. N |-> g[n]] BY <2>2
  <2>5. Def(g) BY <2>3, <2>4
  <2> QED BY <2>5
<1>4. coalesce(records) = done[N] BY DEF coalesce, N
<1>5. done[0] = <<>> /\ \A n \in 1 .. N : done[n] = Coalesced(done[n - 1], records[n])
  <2> HIDE DEF done
  <2>1. \A n \in 0 .. N : done[n] = IF n = 0 THEN <<>> ELSE Coalesced(done[n - 1], records[n])
    BY <1>3
  <2> HIDE DEF Def
  <2>2. 0 \in 0 .. N BY <1>0
  <2>3. done[0] = <<>> BY <2>1, <2>2
  <2>4. ASSUME NEW n \in 1 .. N PROVE done[n] = Coalesced(done[n - 1], records[n])
    <3>1. n \in 0 .. N /\ n # 0 BY <1>0
    <3> QED BY <2>1, <3>1
  <2> QED BY <2>3, <2>4
<1> HIDE DEF done, Def, step
<1> DEFINE Kept(m, n) == /\ m \in V
                         /\ \A i \in DOMAIN m : Holds(records, m[i])
                         /\ \A j \in 1 .. n : records[j].action # "recommended" => Holds(m, records[j])
           T == {n \in 0 .. N : Kept(done[n], n)}
<1>6. 0 \in T
  <2>1. <<>> \in V /\ DOMAIN <<>> = {} OBVIOUS
  <2>2. Kept(<<>>, 0) BY <2>1
  <2>3. 0 \in 0 .. N BY <1>0
  <2> HIDE DEF Kept
  <2> QED BY <1>5, <2>2, <2>3
<1>7. ASSUME NEW n \in 0 .. N, n \in T, n < N PROVE n + 1 \in T
  <2> DEFINE m == done[n]
             c == done[n + 1]
             e == records[n + 1]
  <2>1. n \in Nat /\ n + 1 \in 1 .. N /\ (n + 1) - 1 = n BY <1>0, <1>7
  <2>2. c = Coalesced(m, e) /\ e \in Rec BY <1>0, <1>5, <2>1
  <2>3. Kept(m, n) BY <1>7
  <2>4. Holds(records, e) BY <1>0, <2>1 DEF Holds
  <2> HIDE DEF m, e
  <2>5. /\ c \in Seq(Rec)
        /\ \A i \in DOMAIN c : Holds(m, c[i]) \/ c[i] = e
        /\ \A i \in DOMAIN m : m[i].action # "recommended" => Holds(c, m[i])
        /\ Holds(c, e)
    BY <2>2, <2>3, CoalescedKeeps
  <2> HIDE DEF c
  <2>6. ASSUME NEW i \in DOMAIN c PROVE Holds(records, c[i])
    <3>1. CASE c[i] = e BY <2>4, <3>1
    <3>2. CASE Holds(m, c[i])
      <4>1. PICK k \in DOMAIN m : m[k] = c[i] BY <3>2 DEF Holds
      <4> QED BY <2>3, <4>1
    <3> QED BY <2>5, <3>1, <3>2
  <2>7. ASSUME NEW j \in 1 .. (n + 1), records[j].action # "recommended"
        PROVE  Holds(c, records[j])
    <3>1. CASE j = n + 1 BY <2>5, <3>1 DEF e
    <3>2. CASE j # n + 1
      <4>1. j \in 1 .. n BY <2>1, <3>2
      <4>2. Holds(m, records[j]) BY <2>3, <2>7, <4>1
      <4>3. PICK k \in DOMAIN m : m[k] = records[j] BY <4>2 DEF Holds
      <4> QED BY <2>5, <2>7, <4>3
    <3> QED BY <3>1, <3>2
  <2>8. Kept(c, n + 1) BY <2>5, <2>6, <2>7
  <2> HIDE DEF Kept
  <2> QED BY <2>1, <2>8 DEF c
<1>8. N \in T
  <2> HIDE DEF T
  <2>1. \A n \in 0 .. N : n \in T BY <1>0, <1>6, <1>7, BoundedInduction
  <2> QED BY <1>0, <2>1
<1>9. Kept(coalesce(records), N) BY <1>4, <1>8
<1> QED BY <1>0, <1>9

LEMMA TrimKeeps ==
    ASSUME NEW records \in Seq(Rec)
    PROVE  /\ trim(records) \in Seq(Rec) /\ Len(trim(records)) <= HistoryCap
           /\ \A i \in DOMAIN trim(records) : Holds(records, trim(records)[i])
           /\ Len(records) <= HistoryCap => trim(records) = records
<1> DEFINE n == Len(records)
           k == IF n > HistoryCap THEN n - HistoryCap + 1 ELSE 1
           t == SubSeq(records, k, n)
<1>0. HistoryCap \in Nat /\ HistoryCap # 0 BY GuardianAssumption
<1>1. n \in Nat /\ k \in Nat /\ k >= 1 /\ k <= n + 1 BY <1>0
<1>2. t = trim(records) BY DEF trim
<1>3. n + 1 - k \in Nat /\ n + 1 - k <= HistoryCap BY <1>0, <1>1
<1> HIDE DEF k
<1>4. t \in Seq(Rec) /\ Len(t) = n + 1 - k /\ DOMAIN t = 1 .. (n + 1 - k)
  BY <1>1, <1>3
<1>5. \A i \in 1 .. (n + 1 - k) : t[i] = records[k + i - 1] /\ k + i - 1 \in 1..n
  BY <1>1, <1>3
<1> HIDE DEF t
<1>6. \A i \in DOMAIN t : Holds(records, t[i]) BY <1>4, <1>5 DEF Holds
<1>7. ASSUME n <= HistoryCap PROVE t = records
  <2>1. k = 1 /\ n + 1 - k = n BY <1>0, <1>1, <1>7 DEF k
  <2>2. \A i \in 1..n : k + i - 1 = i BY <1>1, <2>1
  <2>3. \A i \in 1..n : t[i] = records[i] BY <1>5, <2>1, <2>2
  <2>4. Len(t) = n BY <1>4, <2>1
  <2> QED BY <1>1, <1>4, <2>3, <2>4
<1> QED BY <1>2, <1>3, <1>4, <1>6, <1>7

\* SetToSeq lists the elements of a finite set.
LEMMA ListedAreMembers ==
    ASSUME NEW S \in SUBSET Repairs
    PROVE  /\ Cardinality(S) \in Nat
           /\ \A i \in 1..Cardinality(S) : SetToSeq(S)[i] \in S
<1>1. IsFiniteSet(S) BY GuardianAssumption, FS_Subset
<1>2. Cardinality(S) \in Nat BY <1>1, FS_CardinalityType
<1>3. \E f \in [1..Cardinality(S) -> S] : IsInjective(f)
  <2>1. ExistsBijection(1..Cardinality(S), S) BY <1>1, FS_CardinalityType
  <2>2. PICK f : f \in Bijection(1..Cardinality(S), S) BY <2>1 DEF ExistsBijection
  <2>3. f \in [1..Cardinality(S) -> S] /\ IsInjective(f)
    BY <2>2 DEF Bijection, Injection, IsInjective
  <2> QED BY <2>3
<1>4. SetToSeq(S) \in [1..Cardinality(S) -> S] BY <1>3 DEF SetToSeq
<1> QED BY <1>2, <1>4
-----------------------------------------------------------------------------
(* Guardian's inductive invariant                                          *)

OpState ==
    [phase : {"idle", "checking", "recording", "repairing", "dismissing"}, snap : Seq(Rec),
     since : Nat, recipe : Repairs \cup {"none"}, todo : SUBSET Repairs,
     advice : SUBSET Repairs, decided : Nat]

GuardianTypes ==
    /\ history \in Seq(Rec) /\ Len(history) <= HistoryCap
    /\ gClock \in Nat /\ gClock > PendingWindow
    /\ gOp \in [GuardianActors -> OpState]
    /\ gRepaired \in SUBSET [recipe : Repairs, at : Nat]
    /\ gAdvised \in [Repairs -> Nat] /\ gDismissed \in [Repairs -> Nat]

\* A recommendation is in a file or a copy only once a check has recorded it.
Advised(records, advised) ==
    \A i \in DOMAIN records : records[i].action = "recommended" =>
        /\ advised[records[i].recipe] # 0
        /\ records[i].at <= advised[records[i].recipe]

\* The copy a repair was authorized by recommends it.
Recommended(op) ==
    \E i \in DOMAIN op.snap :
        /\ op.snap[i].recipe = op.recipe /\ op.snap[i].action = "recommended"
        /\ op.since - op.snap[i].at <= PendingWindow

OpRight(op, clock, advised) ==
    /\ op.since <= clock /\ op.decided <= clock
    /\ op.phase \in {"checking", "recording"} => op.decided # 0
    /\ op.phase \in {"repairing", "dismissing"} => op.recipe \in Repairs
    /\ Advised(op.snap, advised)
    /\ op.phase = "repairing" => Recommended(op)

\* The file still holds what was repaired and dismissed, but for what was lost.
Remembered == \A x \in Written \ gForgotten : Holds(history, x)

Spaced(op, repaired, forgotten) ==
    op.phase = "repairing" => \A run \in repaired :
        RunRecord(run) \notin forgotten /\ op.recipe = run.recipe /\ op.since > run.at =>
            op.since - run.at >= Cooldown

GuardianInv ==
    /\ GuardianTypes
    /\ \A a \in GuardianActors : OpRight(gOp[a], gClock, gAdvised)
    /\ Advised(history, gAdvised)
    /\ OneRepairPerProcess
    /\ Remembered
    /\ \A a \in GuardianActors : Spaced(gOp[a], gRepaired, gForgotten)

\* A later check only advises later.
LEMMA AdvisedKept ==
    ASSUME NEW records \in Seq(Rec), NEW old \in [Repairs -> Nat], NEW new \in [Repairs -> Nat],
           Advised(records, old), \A r \in Repairs : old[r] <= new[r]
    PROVE  Advised(records, new)
<1> SUFFICES ASSUME NEW i \in DOMAIN records, records[i].action = "recommended"
             PROVE  /\ new[records[i].recipe] # 0
                    /\ records[i].at <= new[records[i].recipe]
  BY DEF Advised
<1>1. records[i] \in Rec OBVIOUS
<1>2. records[i].recipe \in Repairs /\ records[i].at \in Nat BY <1>1 DEF Rec
<1>3. old[records[i].recipe] # 0 /\ records[i].at <= old[records[i].recipe] BY DEF Advised
<1> DEFINE r == records[i].recipe
<1>4. old[r] \in Nat /\ new[r] \in Nat /\ old[r] <= new[r] BY <1>2
<1> QED BY <1>2, <1>3, <1>4

\* The step of one thread keeps the invariant if what it leaves is right.
LEMMA ActorStep ==
    ASSUME GuardianInv, NEW a \in GuardianActors, NEW op \in OpState,
           gOp' = [gOp EXCEPT ![a] = op], UNCHANGED gClock,
           history' \in Seq(Rec), Len(history') <= HistoryCap,
           gForgotten \subseteq gForgotten',
           gRepaired' \in SUBSET [recipe : Repairs, at : Nat],
           \A run \in gRepaired' : run \in gRepaired \/ run.at = gClock,
           gAdvised' \in [Repairs -> Nat], \A r \in Repairs : gAdvised[r] <= gAdvised'[r],
           gDismissed' \in [Repairs -> Nat],
           Advised(history', gAdvised'), OpRight(op, gClock, gAdvised'),
           op.phase = "repairing" =>
              \A b \in GuardianActors : b # a /\ Process(b) = Process(a) =>
                  gOp[b].phase # "repairing",
           Remembered', Spaced(op, gRepaired', gForgotten')
    PROVE  GuardianInv'
<1>1. gOp \in [GuardianActors -> OpState] /\ gAdvised \in [Repairs -> Nat] /\ gClock \in Nat
  BY DEF GuardianInv, GuardianTypes
<1>2. /\ gOp' \in [GuardianActors -> OpState] /\ gOp'[a] = op
      /\ \A b \in GuardianActors : b # a => gOp'[b] = gOp[b]
  BY <1>1
<1>3. GuardianTypes' BY <1>2 DEF GuardianInv, GuardianTypes
<1>4. ASSUME NEW b \in GuardianActors PROVE OpRight(gOp'[b], gClock, gAdvised')
  <2>1. CASE b = a BY <1>2, <2>1
  <2>2. CASE b # a
    <3>1. OpRight(gOp[b], gClock, gAdvised) /\ gOp[b] \in OpState BY <1>1 DEF GuardianInv
    <3>2. gOp[b].snap \in Seq(Rec) BY <3>1 DEF OpState
    <3>3. Advised(gOp[b].snap, gAdvised') BY <1>1, <3>1, <3>2, AdvisedKept DEF OpRight
    <3> QED BY <1>2, <2>2, <3>1, <3>3 DEF OpRight
  <2> QED BY <2>1, <2>2
<1>5. OneRepairPerProcess'
  <2> SUFFICES ASSUME NEW b \in GuardianActors, NEW c \in GuardianActors, b # c,
                      Process(b) = Process(c),
                      gOp'[b].phase = "repairing", gOp'[c].phase = "repairing"
               PROVE  FALSE
    BY DEF OneRepairPerProcess, Process
  <2>1. CASE b = a BY <1>2, <2>1
  <2>2. CASE c = a BY <1>2, <2>2
  <2>3. CASE b # a /\ c # a BY <1>2, <2>3 DEF GuardianInv, OneRepairPerProcess
  <2> QED BY <2>1, <2>2, <2>3
<1>6. ASSUME NEW b \in GuardianActors PROVE Spaced(gOp'[b], gRepaired', gForgotten')
  <2>1. CASE b = a BY <1>2, <2>1
  <2>2. CASE b # a
    <3>1. Spaced(gOp[b], gRepaired, gForgotten) BY DEF GuardianInv
    <3>2. gOp[b].since <= gClock BY DEF GuardianInv, OpRight
    <3>3. gOp[b].since \in Nat BY <1>1 DEF OpState
    <3>4. ~(gOp[b].since > gClock) BY <1>1, <3>2, <3>3
    <3> QED BY <1>2, <2>2, <3>1, <3>4 DEF Spaced
  <2> QED BY <2>1, <2>2
<1>7. \A b \in GuardianActors : OpRight(gOp'[b], gClock', gAdvised') BY <1>4
<1>8. (\A b \in GuardianActors : OpRight(gOp[b], gClock, gAdvised))'
  BY <1>7 DEF OpRight, Advised, Recommended
<1>9. (Advised(history, gAdvised))' BY DEF Advised
<1>10. (\A b \in GuardianActors : Spaced(gOp[b], gRepaired, gForgotten))'
  BY <1>6 DEF Spaced, RunRecord, Record
<1> QED BY <1>3, <1>5, <1>8, <1>9, <1>10 DEF GuardianInv

\* A step that leaves file and clock alone.
LEMMA QuietActor ==
    ASSUME GuardianInv, NEW a \in GuardianActors, NEW op \in OpState,
           gOp' = [gOp EXCEPT ![a] = op],
           UNCHANGED <<history, gClock, gForgotten, gRepaired, gAdvised, gDismissed>>,
           OpRight(op, gClock, gAdvised),
           op.phase = "repairing" =>
              /\ \A b \in GuardianActors : b # a /\ Process(b) = Process(a) =>
                     gOp[b].phase # "repairing"
              /\ Spaced(op, gRepaired, gForgotten)
    PROVE  GuardianInv'
<1>1. GuardianTypes BY DEF GuardianInv
<1>2. \A r \in Repairs : gAdvised[r] <= gAdvised'[r] BY <1>1 DEF GuardianTypes
<1>3. /\ history' \in Seq(Rec) /\ Len(history') <= HistoryCap
      /\ gRepaired' \in SUBSET [recipe : Repairs, at : Nat]
      /\ gAdvised' \in [Repairs -> Nat] /\ gDismissed' \in [Repairs -> Nat]
  BY <1>1 DEF GuardianTypes
<1>4. Advised(history', gAdvised') /\ OpRight(op, gClock, gAdvised')
  BY DEF GuardianInv
<1>5. Remembered' /\ Spaced(op, gRepaired', gForgotten')
  <2>1. op.phase # "repairing" => Spaced(op, gRepaired, gForgotten) BY DEF Spaced
  <2>2. Remembered' BY DEF GuardianInv, Remembered, Written, RunRecord, DismissRecord, Record, Holds
  <2> QED BY <2>1, <2>2
<1>6. \A run \in gRepaired' : run \in gRepaired \/ run.at = gClock OBVIOUS
<1> QED BY <1>2, <1>3, <1>4, <1>5, <1>6, ActorStep

\* What was written is of repairs and dismissals.
LEMMA WrittenIsFinal == \A x \in Written : x.action # "recommended"
BY DEF Written, RunRecord, DismissRecord, Record

\* What a save leaves in the file: records that it read or that are mine.
LEMMA SaveRight ==
    ASSUME GuardianInv, NEW a \in GuardianActors, NEW records \in Seq(Rec),
           NEW trimmed \in BOOLEAN, NEW mine, \A x \in mine : x.action # "recommended",
           Save(a, records, trimmed, mine), NEW advised, Advised(records, advised),
           ~trimmed => \A x : x.action # "recommended" /\ (Holds(gOp[a].snap, x) \/ x \in mine)
                                => Holds(records, x)
    PROVE  /\ history' \in Seq(Rec) /\ Len(history') <= HistoryCap
           /\ gForgotten \subseteq gForgotten'
           /\ Advised(history', advised)
           /\ \A x \in (Written \cup mine) \ gForgotten' : Holds(history', x)
<1> DEFINE c == coalesce(records)
           t == trim(c)
           full == trimmed \/ Len(c) > HistoryCap
<1>1. history' = t BY DEF Save, Normalized
<1>2. /\ c \in Seq(Rec)
      /\ \A i \in DOMAIN c : Holds(records, c[i])
      /\ \A j \in DOMAIN records : records[j].action # "recommended" => Holds(c, records[j])
  BY CoalesceKeeps
<1>3. gForgotten' = gForgotten \cup {x \in Written : ~Holds(gOp[a].snap, x)}
                      \cup (IF full THEN {x \in Written \cup mine : ~Holds(history', x)} ELSE {})
  BY DEF Save
<1> HIDE DEF c
<1>4. /\ t \in Seq(Rec) /\ Len(t) <= HistoryCap
      /\ \A i \in DOMAIN t : Holds(c, t[i])
      /\ Len(c) <= HistoryCap => t = c
  BY <1>2, TrimKeeps
<1> HIDE DEF t
<1>5. Advised(t, advised)
  <2> SUFFICES ASSUME NEW i \in DOMAIN t, t[i].action = "recommended"
               PROVE  advised[t[i].recipe] # 0 /\ t[i].at <= advised[t[i].recipe]
    BY DEF Advised
  <2>1. PICK k \in DOMAIN c : c[k] = t[i] BY <1>4 DEF Holds
  <2>2. PICK j \in DOMAIN records : records[j] = c[k] BY <1>2 DEF Holds
  <2> QED BY <2>1, <2>2 DEF Advised
<1>6. \A x \in Written \ gForgotten' : Holds(gOp[a].snap, x) BY <1>3
<1>7. ASSUME NEW x \in (Written \cup mine) \ gForgotten' PROVE Holds(history', x)
  <2>1. CASE full BY <1>3, <2>1
  <2>2. CASE ~full
    <3>1. t = c
      <4>1. Len(c) \in Nat /\ HistoryCap \in Nat /\ ~(Len(c) > HistoryCap)
        BY <1>2, <2>2, GuardianAssumption
      <4> QED BY <1>4, <4>1
    <3>2. x.action # "recommended" BY WrittenIsFinal
    <3>3. Holds(records, x) BY <1>6, <2>2, <3>2
    <3>4. PICK j \in DOMAIN records : records[j] = x BY <3>3 DEF Holds
    <3>5. Holds(c, x) BY <1>2, <3>2, <3>4
    <3> QED BY <1>1, <3>1, <3>5
  <2> QED BY <2>1, <2>2
<1> QED BY <1>1, <1>3, <1>4, <1>5, <1>6, <1>7

LEMMA GuardianShape ==
    ASSUME GuardianInv
    PROVE  /\ history \in Seq(Rec) /\ gClock \in Nat /\ gClock # 0
           /\ gOp \in [GuardianActors -> OpState]
           /\ \A a \in GuardianActors : gOp[a] \in OpState /\ OpRight(gOp[a], gClock, gAdvised)
           /\ GuardianActors = GuardianProcesses \cup HubThreads
<1>1. gClock \in Nat /\ gClock > PendingWindow /\ PendingWindow \in Nat
  BY GuardianAssumption DEF GuardianInv, GuardianTypes
<1>2. gClock # 0 BY <1>1
<1> QED BY <1>1, <1>2 DEF GuardianInv, GuardianTypes, GuardianActors

LEMMA IdleIsRight ==
    ASSUME NEW clock \in Nat, NEW advised
    PROVE  IdleOp \in OpState /\ IdleOp.phase = "idle" /\ OpRight(IdleOp, clock, advised)
           /\ IdleOp.snap = <<>>
<1>1. <<>> \in Seq(Rec) /\ DOMAIN <<>> = {} OBVIOUS
<1>2. IdleOp \in OpState /\ IdleOp.phase = "idle" /\ IdleOp.snap = <<>>
      /\ IdleOp.since = 0 /\ IdleOp.decided = 0
  BY <1>1 DEF IdleOp, OpState
<1> QED BY <1>1, <1>2 DEF OpRight, Advised

\* The record pending_recommendations settles on is one of the recipe's.
LEMMA LatestRight ==
    ASSUME NEW records \in Seq(Rec), NEW recipe \in Repairs, is_pending_recipe(records, recipe)
    PROVE  \E i \in DOMAIN records :
              /\ records[i].recipe = recipe /\ records[i].action = "recommended"
              /\ gClock - records[i].at <= PendingWindow
              /\ \A j \in DOMAIN records :
                    records[j].recipe = recipe /\ gClock - records[j].at <= PendingWindow =>
                        records[j].at <= records[i].at
<1> DEFINE about == {i \in DOMAIN records : /\ records[i].recipe = recipe
                                            /\ gClock - records[i].at <= PendingWindow}
           newest == {i \in about : \A j \in about : records[j].at <= records[i].at}
           i == Latest(records, recipe)
<1>1. i # 0 /\ records[i].action = "recommended" BY DEF is_pending_recipe
<1>2. newest # {} /\ i = Max(newest)
  <2>1. i = IF newest = {} THEN 0 ELSE Max(newest) BY DEF Latest
  <2> HIDE DEF i, newest
  <2> QED BY <1>1, <2>1
<1>3. newest \in SUBSET (0 .. Len(records)) /\ Len(records) \in Nat OBVIOUS
<1> HIDE DEF newest, i
<1>4. i \in newest BY <1>2, <1>3, MaxIsMember
<1> QED BY <1>1, <1>4 DEF newest

LEMMA CheckKeeps ==
    ASSUME GuardianInv, NEW a \in GuardianProcesses,
           \/ \E symptoms \in SUBSET Repairs, allowed \in BOOLEAN :
                 CheckBegins(a, symptoms, allowed)
           \/ \E loaded \in BOOLEAN : CheckLoads(a, loaded)
    PROVE  GuardianInv'
<1>0. a \in GuardianActors BY GuardianShape
<1>1. gOp[a] \in OpState /\ OpRight(gOp[a], gClock, gAdvised) /\ history \in Seq(Rec)
      /\ gClock \in Nat /\ gClock # 0
  BY <1>0, GuardianShape
<1>2. IdleOp \in OpState /\ OpRight(IdleOp, gClock, gAdvised) BY <1>1, IdleIsRight
<1>3. ASSUME NEW symptoms \in SUBSET Repairs, NEW allowed \in BOOLEAN,
             CheckBegins(a, symptoms, allowed)
      PROVE  GuardianInv'
  <2> DEFINE todo == IF allowed THEN symptoms \cap AutomaticRepairs ELSE {}
             rest == symptoms \ todo
             op == [IdleOp EXCEPT !.phase = "checking", !.todo = todo,
                                  !.advice = rest, !.decided = gClock]
  <2>1. todo \in SUBSET Repairs /\ rest \in SUBSET Repairs BY GuardianAssumption
  <2>2. gOp' = [gOp EXCEPT ![a] = op] BY <1>3 DEF CheckBegins
  <2> HIDE DEF todo, rest
  <2>3. op \in OpState /\ op.phase = "checking" /\ op.since = IdleOp.since
        /\ op.decided = gClock /\ op.snap = IdleOp.snap
    BY <1>1, <1>2, <2>1 DEF OpState
  <2> HIDE DEF op
  <2>4. OpRight(op, gClock, gAdvised) BY <1>1, <1>2, <2>3 DEF OpRight
  <2> QED BY <1>0, <1>3, <2>2, <2>3, <2>4, QuietActor DEF CheckBegins
<1>4. ASSUME NEW loaded \in BOOLEAN, CheckLoads(a, loaded) PROVE GuardianInv'
  <2> DEFINE snap == IF loaded THEN history ELSE <<>>
             op == [gOp[a] EXCEPT !.phase = "recording", !.snap = snap]
  <2>1. snap \in Seq(Rec) /\ Advised(snap, gAdvised)
    <3>1. <<>> \in Seq(Rec) /\ DOMAIN <<>> = {} OBVIOUS
    <3>2. Advised(<<>>, gAdvised) BY <3>1 DEF Advised
    <3> QED BY <1>1, <3>1, <3>2 DEF GuardianInv
  <2>2. gOp' = [gOp EXCEPT ![a] = op] BY <1>4 DEF CheckLoads
  <2> HIDE DEF snap
  <2>3. op \in OpState /\ op.phase = "recording" /\ op.snap = snap
        /\ op.since = gOp[a].since /\ op.decided = gOp[a].decided
    BY <1>1, <2>1 DEF OpState
  <2> HIDE DEF op
  <2>4. gOp[a].decided # 0 BY <1>1, <1>4 DEF CheckLoads, OpRight
  <2>5. OpRight(op, gClock, gAdvised) BY <1>1, <2>1, <2>3, <2>4 DEF OpRight
  <2> QED BY <1>0, <1>4, <2>2, <2>3, <2>5, QuietActor DEF CheckLoads
<1> QED BY <1>3, <1>4

\* A save that fails: the step leaves nothing but what it was doing.
LEMMA UnsavedKeeps ==
    ASSUME GuardianInv, NEW a \in GuardianActors, gOp' = [gOp EXCEPT ![a] = IdleOp],
           SaveFails({}), UNCHANGED <<gClock, gRepaired, gAdvised, gDismissed>>
    PROVE  GuardianInv'
<1>1. gClock \in Nat BY GuardianShape
<1>2. IdleOp \in OpState /\ IdleOp.phase = "idle" /\ OpRight(IdleOp, gClock, gAdvised)
  BY <1>1, IdleIsRight
<1>3. UNCHANGED <<history, gClock, gForgotten, gRepaired, gAdvised, gDismissed>> BY DEF SaveFails
<1> QED BY <1>2, <1>3, QuietActor

LEMMA CheckSavesKeeps ==
    ASSUME GuardianInv, NEW a \in GuardianProcesses, CheckSaves(a, TRUE)
    PROVE  GuardianInv'
<1> DEFINE b == gOp[a]
           n == Cardinality(b.advice)
           list == SetToSeq(b.advice)
           records == b.snap \o Advice(a)
<1>0. a \in GuardianActors BY GuardianShape
<1>1. /\ b \in OpState /\ OpRight(b, gClock, gAdvised) /\ gClock \in Nat
      /\ b.snap \in Seq(Rec) /\ b.advice \in SUBSET Repairs /\ b.decided \in Nat
  BY <1>0, GuardianShape DEF OpState
<1>2. b.decided # 0 BY <1>1 DEF CheckSaves, OpRight
<1>3. n \in Nat /\ \A i \in 1..n : list[i] \in b.advice
  BY <1>1, ListedAreMembers
<1>4. /\ Advice(a) \in Seq(Rec) /\ Len(Advice(a)) = n
      /\ \A i \in 1..n : Advice(a)[i] = Record(list[i], "recommended", FALSE, b.decided)
  <2> DEFINE e(i) == Record(list[i], "recommended", FALSE, b.decided)
             s == [i \in 1..n |-> e(i)]
  <2>1. \A i \in 1..n : e(i) \in Rec BY <1>1, <1>3 DEF Record, Rec
  <2>2. Advice(a) = s BY DEF Advice
  <2> HIDE DEF e, n
  <2>3. s \in Seq(Rec) /\ Len(s) = n BY <1>3, <2>1
  <2> QED BY <2>2, <2>3 DEF e
<1>5. gAdvised \in [Repairs -> Nat] BY DEF GuardianInv, GuardianTypes
<1>6. /\ gAdvised' \in [Repairs -> Nat]
      /\ \A r \in Repairs : gAdvised[r] <= gAdvised'[r]
      /\ \A r \in b.advice : gAdvised'[r] # 0 /\ b.decided <= gAdvised'[r]
  <2>1. \A r \in Repairs : gAdvised'[r] = IF r \in b.advice /\ b.decided > gAdvised[r]
                                          THEN b.decided ELSE gAdvised[r]
    BY DEF CheckSaves, NowAdvised
  <2>2. \A r \in Repairs : gAdvised[r] \in Nat BY <1>5
  <2>3. gAdvised' = [r \in Repairs |-> gAdvised'[r]] BY DEF CheckSaves, NowAdvised
  <2> HIDE DEF b
  <2>4. \A r \in Repairs : gAdvised'[r] \in Nat /\ gAdvised[r] <= gAdvised'[r]
    BY <1>1, <2>1, <2>2
  <2>5. ASSUME NEW r \in b.advice PROVE gAdvised'[r] # 0 /\ b.decided <= gAdvised'[r]
    <3>1. r \in Repairs BY <1>1
    <3> QED BY <1>1, <1>2, <2>1, <2>2, <3>1
  <2>6. gAdvised' \in [Repairs -> Nat] BY <2>3, <2>4
  <2> QED BY <2>4, <2>5, <2>6
<1> HIDE DEF n, list
<1>7. /\ records \in Seq(Rec) /\ Len(records) = Len(b.snap) + n /\ Len(b.snap) \in Nat
      /\ \A i \in 1..Len(b.snap) : records[i] = b.snap[i]
      /\ \A i \in 1..n : records[Len(b.snap) + i] = Advice(a)[i]
  <2> DEFINE s == b.snap
             t == Advice(a)
  <2>1. s \in Seq(Rec) /\ t \in Seq(Rec) /\ Len(t) = n /\ n \in Nat BY <1>1, <1>3, <1>4
  <2>2. records = s \o t OBVIOUS
  <2> HIDE DEF s, t, records
  <2>3. /\ records \in Seq(Rec) /\ Len(records) = Len(s) + Len(t)
        /\ \A i \in 1..(Len(s) + Len(t)) :
              records[i] = IF i <= Len(s) THEN s[i] ELSE t[i - Len(s)]
    BY <2>1, <2>2, ConcatProperties
  <2>4. Len(s) \in Nat BY <2>1
  <2>5. \A i \in 1..Len(s) : i \in 1..(Len(s) + Len(t)) /\ i <= Len(s) BY <2>1, <2>4
  <2>6. \A i \in 1..n : /\ Len(s) + i \in 1..(Len(s) + Len(t)) /\ ~(Len(s) + i <= Len(s))
                        /\ (Len(s) + i) - Len(s) = i
    BY <2>1, <2>4
  <2>7. /\ \A i \in 1..Len(s) : records[i] = s[i]
        /\ \A i \in 1..n : records[Len(s) + i] = t[i]
    BY <2>3, <2>5, <2>6
  <2> QED BY <2>1, <2>3, <2>4, <2>7 DEF s, t
<1>8. Save(a, records, FALSE, {}) BY DEF CheckSaves
<1> HIDE DEF records, b
<1>9. Advised(b.snap, gAdvised') BY <1>1, <1>5, <1>6, AdvisedKept DEF OpRight
<1>10. Advised(records, gAdvised')
  <2> SUFFICES ASSUME NEW i \in DOMAIN records, records[i].action = "recommended"
               PROVE  /\ gAdvised'[records[i].recipe] # 0
                      /\ records[i].at <= gAdvised'[records[i].recipe]
    BY DEF Advised
  <2>1. i \in 1..(Len(b.snap) + n) BY <1>7
  <2>2. CASE i \in 1..Len(b.snap)
    <3>1. i \in DOMAIN b.snap /\ records[i] = b.snap[i] BY <1>1, <1>7, <2>2
    <3> QED BY <1>9, <3>1 DEF Advised
  <2>3. CASE i \notin 1..Len(b.snap)
    <3> DEFINE k == i - Len(b.snap)
    <3>1. k \in 1..n /\ i = Len(b.snap) + k BY <1>3, <1>7, <2>1, <2>3
    <3>2. records[i] = Record(list[k], "recommended", FALSE, b.decided) /\ list[k] \in b.advice
      BY <1>3, <1>4, <1>7, <3>1
    <3>3. records[i].recipe = list[k] /\ records[i].at = b.decided BY <3>2 DEF Record
    <3> QED BY <1>6, <3>2, <3>3
  <2> QED BY <2>2, <2>3
<1>11. ASSUME NEW x, Holds(b.snap, x) PROVE Holds(records, x)
  <2>1. PICK i \in DOMAIN b.snap : b.snap[i] = x BY <1>11 DEF Holds
  <2>2. i \in 1..Len(b.snap) BY <1>1, <2>1
  <2>3. i \in DOMAIN records /\ records[i] = x BY <1>3, <1>7, <2>1, <2>2
  <2> QED BY <2>3 DEF Holds
<1>12. /\ history' \in Seq(Rec) /\ Len(history') <= HistoryCap
       /\ gForgotten \subseteq gForgotten'
       /\ Advised(history', gAdvised')
       /\ \A x \in Written \ gForgotten' : Holds(history', x)
  <2> DEFINE none == {}
  <2>1. \A x : x.action # "recommended" /\ (Holds(gOp[a].snap, x) \/ x \in none)
                => Holds(records, x)
    BY <1>11 DEF b
  <2>2. \A x \in none : x.action # "recommended" OBVIOUS
  <2>3. Save(a, records, FALSE, none) BY <1>8
  <2>4. Written \subseteq Written \cup none OBVIOUS
  <2> HIDE DEF none
  <2> QED BY <1>0, <1>7, <1>10, <2>1, <2>2, <2>3, <2>4, SaveRight
<1>13. gRepaired' = gRepaired /\ gDismissed' = gDismissed BY DEF CheckSaves
<1>14. Remembered' /\ Spaced(IdleOp, gRepaired', gForgotten')
  <2>1. Written' = Written BY <1>13 DEF Written, RunRecord, DismissRecord, Record
  <2>2. \A x \in Written' \ gForgotten' : Holds(history', x) BY <1>12, <2>1
  <2>3. Remembered' BY <2>2 DEF Remembered, Holds
  <2> QED BY <2>3 DEF Spaced, IdleOp
<1>15. IdleOp \in OpState /\ OpRight(IdleOp, gClock, gAdvised') /\ IdleOp.phase = "idle"
  BY <1>1, IdleIsRight
<1>16. gOp' = [gOp EXCEPT ![a] = IdleOp] /\ UNCHANGED gClock BY DEF CheckSaves
<1>17. gDismissed \in [Repairs -> Nat] /\ gRepaired \in SUBSET [recipe : Repairs, at : Nat]
  BY DEF GuardianInv, GuardianTypes
<1> QED BY <1>0, <1>6, <1>12, <1>13, <1>14, <1>15, <1>16, <1>17, ActorStep

\* A repair that passes the gates is on advice and past its cooldown.
LEMMA AuthorizedRight ==
    ASSUME GuardianInv, NEW op \in OpState, OpRight(op, gClock, gAdvised), NEW recipe \in Repairs,
           Authorized(recipe)
    PROVE  LET run == Repairing(op, recipe)
           IN  /\ run \in OpState /\ run.phase = "repairing"
               /\ OpRight(run, gClock, gAdvised)
               /\ Spaced(run, gRepaired, gForgotten)
<1> DEFINE run == Repairing(op, recipe)
<1>0. history \in Seq(Rec) /\ gClock \in Nat BY GuardianShape
<1>1. /\ run \in OpState /\ run.phase = "repairing" /\ run.recipe = recipe
      /\ run.snap = history /\ run.since = gClock /\ run.decided = op.decided
  BY <1>0 DEF OpState, Repairing
<1> HIDE DEF run
<1>2. Recommended(run)
  <2>1. is_pending_recipe(history, recipe) BY DEF Authorized
  <2>2. PICK i \in DOMAIN history :
          /\ history[i].recipe = recipe /\ history[i].action = "recommended"
          /\ gClock - history[i].at <= PendingWindow
    BY <1>0, <2>1, LatestRight
  <2> QED BY <1>1, <2>2 DEF Recommended
<1>3. OpRight(run, gClock, gAdvised)
  BY <1>0, <1>1, <1>2 DEF OpRight, GuardianInv
<1>4. ASSUME NEW r \in gRepaired, RunRecord(r) \notin gForgotten, r.recipe = recipe
      PROVE  gClock - r.at >= Cooldown
  <2> DEFINE x == RunRecord(r)
  <2>1. Holds(history, x) BY <1>4 DEF GuardianInv, Remembered, Written
  <2>2. PICK i \in DOMAIN history : history[i] = x BY <2>1 DEF Holds
  <2>3. /\ history[i].recipe = recipe /\ history[i].action = "executed"
        /\ history[i].verified /\ history[i].at = r.at
    BY <1>4, <2>2 DEF RunRecord, Record
  <2>4. ~(gClock - history[i].at < Cooldown) BY <2>3 DEF Authorized, cooldown_active
  <2>5. r.at \in Nat /\ Cooldown \in Nat BY GuardianAssumption DEF GuardianInv, GuardianTypes
  <2> QED BY <1>0, <2>3, <2>4, <2>5
<1>5. Spaced(run, gRepaired, gForgotten) BY <1>1, <1>4 DEF Spaced
<1> QED BY <1>1, <1>3, <1>5 DEF run

LEMMA RepairBeginsKeeps ==
    ASSUME GuardianInv, NEW a \in GuardianActors, NEW recipe \in Repairs, RepairBegins(a, recipe)
    PROVE  GuardianInv'
<1> DEFINE run == Repairing(gOp[a], recipe)
<1>1. gOp[a] \in OpState /\ OpRight(gOp[a], gClock, gAdvised) BY GuardianShape
<1>2. /\ run \in OpState /\ run.phase = "repairing" /\ OpRight(run, gClock, gAdvised)
      /\ Spaced(run, gRepaired, gForgotten)
  BY <1>1, AuthorizedRight DEF RepairBegins
<1>3. gOp' = [gOp EXCEPT ![a] = run] BY DEF RepairBegins
<1>4. \A b \in GuardianActors : b # a /\ Process(b) = Process(a) => gOp[b].phase # "repairing"
  BY DEF RepairBegins, SlotFree
<1> HIDE DEF run
<1> QED BY <1>2, <1>3, <1>4, QuietActor DEF RepairBegins

LEMMA CheckRepairsKeeps ==
    ASSUME GuardianInv, NEW a \in GuardianProcesses, NEW recipe \in Repairs,
           NEW loaded \in BOOLEAN, CheckRepairs(a, recipe, loaded)
    PROVE  GuardianInv'
<1> DEFINE op == [gOp[a] EXCEPT !.todo = @ \ {recipe}]
<1>0. a \in GuardianActors BY GuardianShape
<1>1. gOp[a] \in OpState /\ OpRight(gOp[a], gClock, gAdvised) BY <1>0, GuardianShape
<1>2. /\ op \in OpState /\ op.phase = gOp[a].phase /\ op.since = gOp[a].since
      /\ op.decided = gOp[a].decided /\ op.snap = gOp[a].snap /\ op.recipe = gOp[a].recipe
  BY <1>1 DEF OpState
<1>3. gOp' = [gOp EXCEPT ![a] = IF loaded /\ Authorized(recipe) THEN Repairing(op, recipe) ELSE op]
      /\ gOp[a].phase = "checking"
  BY DEF CheckRepairs
<1> HIDE DEF op
<1>4. OpRight(op, gClock, gAdvised) BY <1>1, <1>2 DEF OpRight, Recommended
<1>5. CASE ~(loaded /\ Authorized(recipe))
  <2>1. gOp' = [gOp EXCEPT ![a] = op] BY <1>3, <1>5
  <2> QED BY <1>0, <1>2, <1>3, <1>4, <2>1, QuietActor DEF CheckRepairs
<1>6. CASE loaded /\ Authorized(recipe)
  <2> DEFINE run == Repairing(op, recipe)
  <2>1. gOp' = [gOp EXCEPT ![a] = run] BY <1>3, <1>6
  <2>2. /\ run \in OpState /\ run.phase = "repairing" /\ OpRight(run, gClock, gAdvised)
        /\ Spaced(run, gRepaired, gForgotten)
    BY <1>2, <1>4, <1>6, AuthorizedRight
  <2>3. ASSUME NEW b \in GuardianActors, b # a PROVE Process(b) # Process(a)
    <3>1. Process(a) = a BY GuardianAssumption DEF Process
    <3>2. Process(b) = IF b \in HubThreads THEN "hub" ELSE b BY DEF Process
    <3> QED BY <2>3, <3>1, <3>2, GuardianAssumption
  <2> HIDE DEF run
  <2> QED BY <1>0, <2>1, <2>2, <2>3, QuietActor DEF CheckRepairs
<1> QED BY <1>5, <1>6

\* What a save must leave: a list within its cap, whose advice is accounted
\* for, with every record that is not counted as forgotten.
SavedWell(mine) ==
    /\ history' \in Seq(Rec) /\ Len(history') <= HistoryCap
    /\ gForgotten \subseteq gForgotten'
    /\ Advised(history', gAdvised)
    /\ \A x \in (Written \cup mine) \ gForgotten' : Holds(history', x)

\* `records` is what was loaded with `e` after it, cut or not.
Joined(a, e, records, trimmed) ==
    \/ records = Append(gOp[a].snap, e)
    \/ /\ records = trim(Append(gOp[a].snap, e))
       /\ trimmed <=> Len(Append(gOp[a].snap, e)) > HistoryCap

\* The record a repair or a dismissal appends joins what was loaded.
LEMMA AppendSaved ==
    ASSUME GuardianInv, NEW a \in GuardianActors, NEW e \in Rec, e.action # "recommended",
           NEW mine \in SUBSET {e},
           NEW records, NEW trimmed \in BOOLEAN, Save(a, records, trimmed, mine),
           Joined(a, e, records, trimmed)
    PROVE  SavedWell(mine)
<1> DEFINE s == gOp[a].snap
           l == Append(s, e)
<1>1. s \in Seq(Rec) /\ Advised(s, gAdvised) BY GuardianShape DEF OpState, OpRight
<1>2. /\ l \in Seq(Rec) /\ Len(l) = Len(s) + 1 /\ Len(s) \in Nat /\ l[Len(s) + 1] = e
      /\ DOMAIN l = 1..(Len(s) + 1) /\ DOMAIN s = 1..Len(s)
      /\ \A i \in 1..Len(s) : l[i] = s[i]
  BY <1>1
<1> HIDE DEF l, s
<1>3. Advised(l, gAdvised)
  <2> SUFFICES ASSUME NEW i \in DOMAIN l, l[i].action = "recommended"
               PROVE  gAdvised[l[i].recipe] # 0 /\ l[i].at <= gAdvised[l[i].recipe]
    BY DEF Advised
  <2>1. i \in 1..Len(s) \/ i = Len(s) + 1 BY <1>2
  <2> QED BY <1>1, <1>2, <2>1 DEF Advised
<1>4. /\ records \in Seq(Rec) /\ Advised(records, gAdvised)
      /\ ~trimmed => records = l
  <2>1. CASE records = l BY <1>2, <1>3, <2>1
  <2>2. CASE records = trim(l) /\ (trimmed <=> Len(l) > HistoryCap)
    <3>1. /\ trim(l) \in Seq(Rec)
          /\ \A i \in DOMAIN trim(l) : Holds(l, trim(l)[i])
          /\ Len(l) <= HistoryCap => trim(l) = l
      BY <1>2, TrimKeeps
    <3>2. Advised(trim(l), gAdvised)
      <4> SUFFICES ASSUME NEW i \in DOMAIN trim(l), trim(l)[i].action = "recommended"
                   PROVE  gAdvised[trim(l)[i].recipe] # 0 /\ trim(l)[i].at <= gAdvised[trim(l)[i].recipe]
        BY DEF Advised
      <4>1. PICK k \in DOMAIN l : l[k] = trim(l)[i] BY <3>1 DEF Holds
      <4> QED BY <1>3, <4>1 DEF Advised
    <3>3. ~trimmed => Len(l) <= HistoryCap BY <1>2, <2>2, GuardianAssumption
    <3> QED BY <2>2, <3>1, <3>2, <3>3
  <2> QED BY <2>1, <2>2 DEF l, s, Joined
<1>5. ASSUME ~trimmed, NEW x, Holds(s, x) \/ x \in mine PROVE Holds(records, x)
  <2>1. records = l BY <1>4, <1>5
  <2>2. CASE x \in mine
    <3>1. x = e /\ Len(s) + 1 \in DOMAIN l BY <1>2, <2>2
    <3> QED BY <1>2, <2>1, <3>1 DEF Holds
  <2>3. CASE Holds(s, x)
    <3>1. PICK i \in 1..Len(s) : s[i] = x BY <1>2, <2>3 DEF Holds
    <3>2. i \in DOMAIN l /\ l[i] = x BY <1>2, <3>1
    <3> QED BY <2>1, <3>2 DEF Holds
  <2> QED BY <1>5, <2>2, <2>3
<1>6. ~trimmed => \A x : x.action # "recommended" /\ (Holds(gOp[a].snap, x) \/ x \in mine)
                            => Holds(records, x)
  BY <1>5 DEF s
<1>7. \A x \in mine : x.action # "recommended" OBVIOUS
<1> QED BY <1>4, <1>6, <1>7, SaveRight DEF SavedWell

\* What execute_recipe saves: the loaded list with its record, trimmed.
LEMMA TrimSaved ==
    ASSUME GuardianInv, NEW a \in GuardianActors, NEW e \in Rec, e.action # "recommended",
           NEW mine \in SUBSET {e},
           Save(a, trim(Append(gOp[a].snap, e)), Len(Append(gOp[a].snap, e)) > HistoryCap, mine)
    PROVE  SavedWell(mine)
<1> DEFINE l == Append(gOp[a].snap, e)
<1>1. CASE Len(l) > HistoryCap
  <2>1. Save(a, trim(l), TRUE, mine) BY <1>1 DEF Save
  <2>2. Joined(a, e, trim(l), TRUE) BY <1>1 DEF Joined
  <2> HIDE DEF l
  <2> QED BY <2>1, <2>2, AppendSaved
<1>2. CASE ~(Len(l) > HistoryCap)
  <2>1. Save(a, trim(l), FALSE, mine) BY <1>2 DEF Save
  <2>2. Joined(a, e, trim(l), FALSE) BY <1>2 DEF Joined
  <2> HIDE DEF l
  <2> QED BY <2>1, <2>2, AppendSaved
<1> QED BY <1>1, <1>2

\* A record of a repair or a dismissal is one of the file's.
LEMMA RecordIsRec ==
    ASSUME NEW r \in Repairs, NEW action \in {"recommended", "executed", "dismissed"},
           NEW verified \in BOOLEAN, NEW at \in Nat
    PROVE  Record(r, action, verified, at) \in Rec
           /\ Record(r, action, verified, at).action = action
BY DEF Record, Rec

LEMMA RepairEndsKeeps ==
    ASSUME GuardianInv, NEW a \in GuardianActors, NEW verified \in BOOLEAN,
           NEW saved \in BOOLEAN, RepairEnds(a, verified, saved)
    PROVE  GuardianInv'
<1> DEFINE b == gOp[a]
           e == Record(b.recipe, "executed", verified, gClock)
           l == Append(b.snap, e)
           mine == IF verified THEN {e} ELSE {}
           run == [recipe |-> b.recipe, at |-> gClock]
           back == [b EXCEPT !.phase = "checking", !.recipe = "none", !.snap = <<>>, !.since = 0]
           op == IF b.decided # 0 THEN back ELSE IdleOp
<1>1. /\ b \in OpState /\ OpRight(b, gClock, gAdvised) /\ gClock \in Nat /\ b.phase = "repairing"
      /\ gOp \in [GuardianActors -> OpState]
  BY GuardianShape DEF RepairEnds
<1>2. b.recipe \in Repairs BY <1>1 DEF OpRight
<1>3. e \in Rec /\ e.action = "executed" BY <1>1, <1>2, RecordIsRec
<1>4. IF saved THEN Save(a, trim(l), Len(l) > HistoryCap, mine) ELSE SaveFails(mine)
  BY DEF RepairEnds
<1>5. (Len(l) > HistoryCap) \in BOOLEAN OBVIOUS
<1>6. gRepaired' = IF verified THEN gRepaired \cup {run} ELSE gRepaired BY DEF RepairEnds
<1>7. gOp' = [gOp EXCEPT ![a] = op] BY <1>1 DEF RepairEnds
<1>8. gClock' = gClock /\ gAdvised' = gAdvised /\ gDismissed' = gDismissed BY DEF RepairEnds
<1>9. IdleOp \in OpState /\ IdleOp.phase = "idle" /\ OpRight(IdleOp, gClock, gAdvised)
  BY <1>1, IdleIsRight
<1>10. /\ back \in OpState /\ back.phase = "checking" /\ back.snap = <<>> /\ back.since = 0
       /\ back.decided = b.decided
  <2>1. <<>> \in Seq(Rec) OBVIOUS
  <2>2. b \in OpState BY <1>1
  <2> HIDE DEF b
  <2> QED BY <2>1, <2>2 DEF OpState
<1>11. /\ history' \in Seq(Rec) /\ Len(history') <= HistoryCap
       /\ gForgotten \subseteq gForgotten'
       /\ Advised(history', gAdvised)
       /\ \A x \in (Written \cup mine) \ gForgotten' : Holds(history', x)
  <2>1. CASE saved
    <3>1. Save(a, trim(Append(gOp[a].snap, e)), Len(Append(gOp[a].snap, e)) > HistoryCap, mine)
      BY <1>4, <2>1
    <3>2. mine \in SUBSET {e} OBVIOUS
    <3>3. e \in Rec /\ e.action # "recommended" BY <1>3
    <3> HIDE DEF e, mine
    <3>4. SavedWell(mine) BY <3>1, <3>2, <3>3, TrimSaved
    <3> QED BY <3>4 DEF SavedWell
  <2>2. CASE ~saved
    <3> HIDE DEF mine
    <3>1. history' = history /\ gForgotten' = gForgotten \cup mine BY <1>4, <2>2 DEF SaveFails
    <3> QED BY <3>1 DEF GuardianInv, GuardianTypes, Remembered
  <2> QED BY <2>1, <2>2
<1> HIDE DEF back, b, l
<1>12. OpRight(back, gClock, gAdvised) \/ b.decided = 0
  <2>1. DOMAIN <<>> = {} OBVIOUS
  <2>2. b.decided <= gClock BY <1>1 DEF OpRight
  <2> QED BY <1>1, <1>10, <2>1, <2>2 DEF OpRight, Advised
<1>13. op \in OpState /\ op.phase # "repairing" /\ OpRight(op, gClock, gAdvised)
  BY <1>9, <1>10, <1>12
<1>14. gRepaired \in SUBSET [recipe : Repairs, at : Nat] /\ gAdvised \in [Repairs -> Nat]
       /\ gDismissed \in [Repairs -> Nat]
  BY DEF GuardianInv, GuardianTypes
<1>15. /\ gRepaired' \in SUBSET [recipe : Repairs, at : Nat]
       /\ \A x \in gRepaired' : x \in gRepaired \/ x.at = gClock
  BY <1>1, <1>2, <1>6, <1>14
<1>16. Remembered' /\ Spaced(op, gRepaired', gForgotten')
  <2>1. Written' \subseteq Written \cup mine
    <3>1. RunRecord(run) = Record(b.recipe, "executed", TRUE, gClock) BY DEF RunRecord
    <3>2. verified => RunRecord(run) \in mine BY <3>1
    <3>3. \A x \in gRepaired' : x \in gRepaired \/ (x = run /\ verified) BY <1>6
    <3> HIDE DEF run, mine
    <3>4. Written' = {RunRecord(x) : x \in gRepaired'}
                       \cup {DismissRecord(q) : q \in {t \in Repairs : gDismissed[t] # 0}}
      BY <1>8 DEF Written, RunRecord, DismissRecord, Record
    <3> QED BY <3>2, <3>3, <3>4 DEF Written
  <2>2. \A x \in Written' \ gForgotten' : Holds(history', x) BY <1>11, <2>1
  <2>3. Remembered' BY <2>2 DEF Remembered, Holds
  <2> QED BY <1>13, <2>3 DEF Spaced
<1> HIDE DEF op
<1>17. \A r \in Repairs : gAdvised[r] <= gAdvised'[r] BY <1>8, <1>14
<1> QED BY <1>7, <1>8, <1>11, <1>13, <1>14, <1>15, <1>16, <1>17, ActorStep

LEMMA DismissBeginsKeeps ==
    ASSUME GuardianInv, NEW a \in HubThreads, NEW recipe \in Repairs, DismissBegins(a, recipe)
    PROVE  GuardianInv'
<1> DEFINE op == [IdleOp EXCEPT !.phase = "dismissing", !.recipe = recipe,
                                !.snap = history, !.since = gClock]
<1>0. a \in GuardianActors /\ gClock \in Nat /\ history \in Seq(Rec) BY GuardianShape
<1>1. IdleOp \in OpState /\ OpRight(IdleOp, gClock, gAdvised) BY <1>0, IdleIsRight
<1>2. gOp' = [gOp EXCEPT ![a] = op] BY DEF DismissBegins
<1>3. /\ op \in OpState /\ op.phase = "dismissing" /\ op.recipe = recipe /\ op.snap = history
      /\ op.since = gClock /\ op.decided = IdleOp.decided
  BY <1>0, <1>1 DEF OpState
<1> HIDE DEF op
<1>4. OpRight(op, gClock, gAdvised) BY <1>0, <1>1, <1>3 DEF OpRight, GuardianInv
<1> QED BY <1>0, <1>2, <1>3, <1>4, QuietActor DEF DismissBegins

LEMMA DismissSavesKeeps ==
    ASSUME GuardianInv, NEW a \in HubThreads, DismissSaves(a, TRUE)
    PROVE  GuardianInv'
<1> DEFINE b == gOp[a]
           e == Record(b.recipe, "dismissed", FALSE, gClock)
           records == Append(b.snap, e)
<1>0. a \in GuardianActors /\ gClock \in Nat BY GuardianShape
<1>1. b \in OpState /\ OpRight(b, gClock, gAdvised) /\ b.phase = "dismissing"
  BY <1>0, GuardianShape DEF DismissSaves
<1>2. b.recipe \in Repairs BY <1>1 DEF OpRight
<1>3. e \in Rec /\ e.action = "dismissed" BY <1>0, <1>2, RecordIsRec
<1>4. Save(a, records, FALSE, {e}) BY DEF DismissSaves
<1>5. gDismissed' = [gDismissed EXCEPT ![b.recipe] = gClock] BY DEF DismissSaves
<1>6. gOp' = [gOp EXCEPT ![a] = IdleOp] BY DEF DismissSaves
<1>7. gClock' = gClock /\ gAdvised' = gAdvised /\ gRepaired' = gRepaired BY DEF DismissSaves
<1>8. IdleOp \in OpState /\ IdleOp.phase = "idle" /\ OpRight(IdleOp, gClock, gAdvised)
  BY <1>0, IdleIsRight
<1>9. /\ history' \in Seq(Rec) /\ Len(history') <= HistoryCap
      /\ gForgotten \subseteq gForgotten'
      /\ Advised(history', gAdvised)
      /\ \A x \in (Written \cup {e}) \ gForgotten' : Holds(history', x)
  <2>1. records = Append(gOp[a].snap, e) OBVIOUS
  <2> HIDE DEF records, e
  <2> QED BY <1>0, <1>3, <1>4, <2>1, AppendSaved DEF SavedWell, Joined
<1> HIDE DEF records, b
<1>10. gRepaired \in SUBSET [recipe : Repairs, at : Nat] /\ gAdvised \in [Repairs -> Nat]
       /\ gDismissed \in [Repairs -> Nat]
  BY DEF GuardianInv, GuardianTypes
<1>11. /\ gDismissed' \in [Repairs -> Nat] /\ gDismissed'[b.recipe] = gClock
       /\ \A r \in Repairs : r # b.recipe => gDismissed'[r] = gDismissed[r]
  BY <1>0, <1>2, <1>5, <1>10
<1>12. Remembered' /\ Spaced(IdleOp, gRepaired', gForgotten')
  <2>1. Written' \subseteq Written \cup {e}
    <3> SUFFICES ASSUME NEW x \in Written' PROVE x \in Written \cup {e} OBVIOUS
    <3>1. Written' = {RunRecord(y) : y \in gRepaired}
                       \cup {Record(q, "dismissed", FALSE, gDismissed'[q]) :
                                q \in {t \in Repairs : gDismissed'[t] # 0}}
      BY <1>7 DEF Written, RunRecord, DismissRecord, Record
    <3>2. CASE x \in {RunRecord(y) : y \in gRepaired} BY <3>2 DEF Written
    <3>3. CASE x \notin {RunRecord(y) : y \in gRepaired}
      <4>1. PICK q \in Repairs : /\ gDismissed'[q] # 0
                                 /\ x = Record(q, "dismissed", FALSE, gDismissed'[q])
        BY <3>1, <3>3
      <4>2. CASE q = b.recipe BY <1>11, <4>1, <4>2
      <4>3. CASE q # b.recipe
        <5>1. gDismissed[q] # 0 /\ x = DismissRecord(q) BY <1>11, <4>1, <4>3 DEF DismissRecord
        <5> QED BY <5>1 DEF Written
      <4> QED BY <4>2, <4>3
    <3> QED BY <3>2, <3>3
  <2>2. \A x \in Written' \ gForgotten' : Holds(history', x) BY <1>9, <2>1
  <2>3. Remembered' BY <2>2 DEF Remembered, Holds
  <2> QED BY <1>8, <2>3 DEF Spaced
<1>13. \A r \in Repairs : gAdvised[r] <= gAdvised'[r] BY <1>7, <1>10
<1>14. \A x \in gRepaired' : x \in gRepaired \/ x.at = gClock BY <1>7
<1> QED BY <1>0, <1>6, <1>7, <1>8, <1>9, <1>10, <1>11, <1>12, <1>13, <1>14, ActorStep

LEMMA TickKeeps ==
    ASSUME GuardianInv, GuardianTick
    PROVE  GuardianInv'
<1>1. gClock \in Nat /\ gClock' = gClock + 1 /\ gClock > PendingWindow /\ PendingWindow \in Nat
  BY GuardianAssumption DEF GuardianInv, GuardianTypes, GuardianTick
<1>2. gClock' \in Nat /\ gClock' > PendingWindow /\ gClock <= gClock' BY <1>1
<1>3. ASSUME NEW a \in GuardianActors PROVE OpRight(gOp[a], gClock', gAdvised)
  <2>1. gOp[a] \in OpState /\ OpRight(gOp[a], gClock, gAdvised) BY GuardianShape
  <2>2. gOp[a].since \in Nat /\ gOp[a].decided \in Nat BY <2>1 DEF OpState
  <2>3. gOp[a].since <= gClock /\ gOp[a].decided <= gClock BY <2>1 DEF OpRight
  <2>4. gOp[a].since <= gClock' /\ gOp[a].decided <= gClock' BY <1>1, <1>2, <2>2, <2>3
  <2> QED BY <2>1, <2>4 DEF OpRight
<1>4. UNCHANGED <<history, gOp, gOpsBegun, gForgotten, gRepaired, gAdvised, gDismissed>>
  BY DEF GuardianTick
<1>5. GuardianTypes' BY <1>2, <1>4 DEF GuardianInv, GuardianTypes
<1>6. (\A a \in GuardianActors : OpRight(gOp[a], gClock, gAdvised))'
  BY <1>3, <1>4 DEF OpRight, Advised, Recommended
<1>7. (Advised(history, gAdvised))' BY <1>4 DEF GuardianInv, Advised
<1>8. OneRepairPerProcess' BY <1>4 DEF GuardianInv, OneRepairPerProcess, Process
<1>9. Remembered'
  BY <1>4 DEF GuardianInv, Remembered, Written, RunRecord, DismissRecord, Record, Holds
<1>10. (\A a \in GuardianActors : Spaced(gOp[a], gRepaired, gForgotten))'
  BY <1>4 DEF GuardianInv, Spaced, RunRecord, Record
<1> QED BY <1>5, <1>6, <1>7, <1>8, <1>9, <1>10 DEF GuardianInv

LEMMA GuardianInitially == GuardianInit => GuardianInv
<1> SUFFICES ASSUME GuardianInit PROVE GuardianInv OBVIOUS
<1> USE DEF GuardianInit
<1>1. PendingWindow \in Nat /\ HistoryCap \in Nat BY GuardianAssumption
<1>2. gClock \in Nat /\ gClock > PendingWindow BY <1>1
<1>3. <<>> \in Seq(Rec) /\ DOMAIN <<>> = {} /\ Len(<<>>) = 0 OBVIOUS
<1>4. IdleOp \in OpState /\ IdleOp.phase = "idle" /\ OpRight(IdleOp, gClock, gAdvised)
  BY <1>2, IdleIsRight
<1>5. \A a \in GuardianActors : gOp[a] = IdleOp OBVIOUS
<1>6. GuardianTypes
  <2>1. gOp \in [GuardianActors -> OpState] BY <1>4
  <2>2. /\ gAdvised \in [Repairs -> Nat] /\ gDismissed \in [Repairs -> Nat]
        /\ gRepaired \in SUBSET [recipe : Repairs, at : Nat]
    OBVIOUS
  <2>3. history \in Seq(Rec) /\ Len(history) <= HistoryCap BY <1>1, <1>3
  <2> QED BY <1>2, <2>1, <2>2, <2>3 DEF GuardianTypes
<1>7. Advised(history, gAdvised) BY <1>3 DEF Advised
<1>8. OneRepairPerProcess BY <1>4, <1>5 DEF OneRepairPerProcess
<1>9. Remembered BY DEF Remembered, Written
<1>10. \A a \in GuardianActors : Spaced(gOp[a], gRepaired, gForgotten) BY DEF Spaced
<1> QED BY <1>4, <1>5, <1>6, <1>7, <1>8, <1>9, <1>10 DEF GuardianInv

LEMMA GuardianInvariance == GuardianSpec => []GuardianInv
<1>1. GuardianInv /\ [GuardianNext]_guardianVars => GuardianInv'
  <2> SUFFICES ASSUME GuardianInv, [GuardianNext]_guardianVars PROVE GuardianInv' OBVIOUS
  <2>1. CASE GuardianTick BY <2>1, TickKeeps
  <2>2. ASSUME NEW a \in GuardianProcesses, NEW symptoms \in SUBSET Repairs,
               NEW allowed \in BOOLEAN, CheckBegins(a, symptoms, allowed)
        PROVE  GuardianInv'
    BY <2>2, CheckKeeps
  <2>3. ASSUME NEW a \in GuardianProcesses, NEW r \in Repairs, NEW loaded \in BOOLEAN,
               CheckRepairs(a, r, loaded)
        PROVE  GuardianInv'
    BY <2>3, CheckRepairsKeeps
  <2>4. ASSUME NEW a \in GuardianProcesses, NEW ok \in BOOLEAN, CheckLoads(a, ok)
        PROVE  GuardianInv'
    BY <2>4, CheckKeeps
  <2>5. ASSUME NEW a \in GuardianProcesses, NEW ok \in BOOLEAN, CheckSaves(a, ok)
        PROVE  GuardianInv'
    <3>1. CASE ok = TRUE BY <2>5, <3>1, CheckSavesKeeps
    <3>2. CASE ok = FALSE BY <2>5, <3>2, GuardianShape, UnsavedKeeps DEF CheckSaves
    <3> QED BY <3>1, <3>2
  <2>6. ASSUME NEW a \in GuardianActors, NEW r \in Repairs, RepairBegins(a, r)
        PROVE  GuardianInv'
    BY <2>6, RepairBeginsKeeps
  <2>7. ASSUME NEW a \in GuardianActors, NEW verified \in BOOLEAN, NEW saved \in BOOLEAN,
               RepairEnds(a, verified, saved)
        PROVE  GuardianInv'
    BY <2>7, RepairEndsKeeps
  <2>8. ASSUME NEW a \in HubThreads, NEW r \in Repairs, DismissBegins(a, r) PROVE GuardianInv'
    BY <2>8, DismissBeginsKeeps
  <2>9. ASSUME NEW a \in HubThreads, NEW saved \in BOOLEAN, DismissSaves(a, saved)
        PROVE  GuardianInv'
    <3>1. CASE saved = TRUE BY <2>9, <3>1, DismissSavesKeeps
    <3>2. CASE saved = FALSE BY <2>9, <3>2, GuardianShape, UnsavedKeeps DEF DismissSaves
    <3> QED BY <3>1, <3>2
  <2>10. CASE UNCHANGED guardianVars
    <3>1. UNCHANGED <<history, gClock, gOp, gForgotten, gRepaired, gAdvised, gDismissed>>
      BY <2>10 DEF guardianVars
    <3> QED BY <3>1 DEF GuardianInv, GuardianTypes, OneRepairPerProcess, Process, OpRight, Advised,
               Recommended, Remembered, Holds, Spaced, Written, RunRecord, DismissRecord, Record
  <2> QED BY <2>1, <2>2, <2>3, <2>4, <2>5, <2>6, <2>7, <2>8, <2>9, <2>10 DEF GuardianNext
<1> QED BY <1>1, GuardianInitially, PTL DEF GuardianSpec

\* Guardian's file holds well-formed records and never more than its cap,
\* whatever the writers overwrite (save_state_locked).
THEOREM GuardianTypeCorrect == GuardianSpec => []GuardianTypeOK
<1>1. GuardianInv => GuardianTypeOK
  <2> SUFFICES ASSUME GuardianInv PROVE GuardianTypeOK OBVIOUS
  <2>1. GuardianTypes BY DEF GuardianInv
  <2>2. \A a \in GuardianActors :
          gOp[a].phase \in {"idle", "checking", "recording", "repairing", "dismissing"}
    BY <2>1 DEF GuardianTypes, OpState
  <2> QED BY <2>1, <2>2 DEF GuardianTypes, GuardianTypeOK, Rec
<1> QED BY <1>1, GuardianInvariance, PTL

\* Every repair runs alone in its process, on a recommendation made within the
\* window before it started, and after the cooldown of every verified one whose
\* record was not lost (execute_recipe's gates), for any number of processes,
\* threads and recipes, whichever loads and saves fail.
THEOREM RepairsStayGuarded == GuardianSpec => []RepairsGuarded
<1>1. GuardianInv => RepairsGuarded
  <2> SUFFICES ASSUME GuardianInv PROVE RepairsGuarded OBVIOUS
  <2>1. ASSUME NEW a \in GuardianActors, gOp[a].phase = "repairing"
        PROVE  gAdvised[gOp[a].recipe] # 0 /\ Recommended(gOp[a])
    <3>1. OpRight(gOp[a], gClock, gAdvised) BY DEF GuardianInv
    <3>2. Recommended(gOp[a]) /\ Advised(gOp[a].snap, gAdvised) BY <2>1, <3>1 DEF OpRight
    <3> QED BY <3>2 DEF Recommended, Advised
  <2>2. RepairsAreAdvised BY <2>1 DEF RepairsAreAdvised, Recommended
  <2>3. RepairsSpaced BY DEF GuardianInv, RepairsSpaced, Spaced
  <2> QED BY <2>2, <2>3 DEF GuardianInv, RepairsGuarded
<1> QED BY <1>1, GuardianInvariance, PTL

\* What the user dismissed is not offered again before a later check advises
\* it, even if a check that had decided earlier saves after the dismissal
\* (pending_recommendations takes the latest record by time), unless the
\* dismissal was lost to a save of an older copy or to the cap.
THEOREM DismissalsHold == GuardianSpec => []DismissedStaysHidden
<1>1. GuardianInv => DismissedStaysHidden
  <2> SUFFICES ASSUME GuardianInv, NEW r \in Repairs, DismissRecord(r) \notin gForgotten,
                      is_pending_recipe(history, r)
               PROVE  gAdvised[r] >= gDismissed[r]
    BY DEF DismissedStaysHidden
  <2>0. /\ history \in Seq(Rec) /\ gClock \in Nat /\ PendingWindow \in Nat
        /\ gAdvised[r] \in Nat /\ gDismissed[r] \in Nat
    BY GuardianAssumption DEF GuardianInv, GuardianTypes
  <2>1. PICK i \in DOMAIN history :
          /\ history[i].recipe = r /\ history[i].action = "recommended"
          /\ gClock - history[i].at <= PendingWindow
          /\ \A j \in DOMAIN history :
                history[j].recipe = r /\ gClock - history[j].at <= PendingWindow =>
                    history[j].at <= history[i].at
    BY <2>0, LatestRight
  <2>2. history[i].at <= gAdvised[r] BY <2>1 DEF GuardianInv, Advised
  <2>3. history[i] \in Rec BY <2>0
  <2>4. history[i].at \in Nat BY <2>3 DEF Rec
  <2>5. CASE gDismissed[r] = 0 BY <2>0, <2>5
  <2>6. CASE gDismissed[r] # 0
    <3>0. DismissRecord(r) \in Written \ gForgotten BY <2>6 DEF Written
    <3>1. PICK j \in DOMAIN history : history[j] = Record(r, "dismissed", FALSE, gDismissed[r])
      BY <3>0 DEF GuardianInv, Remembered, Holds, DismissRecord
    <3>2. history[j].recipe = r /\ history[j].at = gDismissed[r] BY <3>1 DEF Record
    <3>3. CASE gClock - gDismissed[r] <= PendingWindow BY <2>0, <2>1, <2>2, <2>4, <3>2, <3>3
    <3>4. CASE ~(gClock - gDismissed[r] <= PendingWindow) BY <2>0, <2>1, <2>2, <2>4, <3>4
    <3> QED BY <3>3, <3>4
  <2> QED BY <2>5, <2>6
<1> QED BY <1>1, GuardianInvariance, PTL

-----------------------------------------------------------------------------
(* The scheduler daemon and its performance-mode commands                  *)

LEMMA SchedTyped == SchedTypeOK /\ [SchedNext]_schedVars => SchedTypeOK'
<1> SUFFICES ASSUME SchedTypeOK, [SchedNext]_schedVars PROVE SchedTypeOK' OBVIOUS
<1>0. RetryPolls \in Nat /\ CachePolls \in Nat BY SchedAssumption
<1>1. \A c \in SchedConfigs : LET d == FreshDaemon(c) IN
          /\ d.config = c /\ d.gaming_prev = FALSE /\ d.override = FALSE
          /\ d.polls_since_attempt \in 0..RetryPolls
          /\ d.verdict = FALSE /\ d.verdictAge \in 0..CachePolls
  BY <1>0 DEF FreshDaemon
<1>2. ASSUME NEW fresh \in BOOLEAN, NEW saved \in BOOLEAN, NEW read \in SUBSET Settings,
             Poll(fresh, saved, read)
      PROVE  SchedTypeOK'
  <2> DEFINE gaming == Overridden \/ Verdict(fresh)
             wanted == Wanted(Reloaded, gaming)
             transitioned == gaming # daemon.gaming_prev
             attempt == transitioned \/ RetryDue(wanted)
             polls == IF attempt THEN 0
                      ELSE IF Unconfirmed(wanted) THEN daemon.polls_since_attempt + 1
                           ELSE daemon.polls_since_attempt
             age == IF Fresh(fresh) THEN 0 ELSE daemon.verdictAge + 1
  <2>1. Reloaded \in SchedConfigs BY DEF Reloaded, SchedTypeOK
  <2>2. Overridden \in BOOLEAN BY DEF Overridden, SchedTypeOK
  <2>3. Verdict(fresh) \in BOOLEAN BY DEF Verdict, SchedTypeOK
  <2>4. polls \in 0..RetryPolls
    <3>1. daemon.polls_since_attempt \in 0..RetryPolls BY DEF SchedTypeOK
    <3>2. CASE attempt
      <4>1. polls = 0 BY <3>2
      <4> QED BY <1>0, <4>1
    <3>3. CASE ~attempt /\ Unconfirmed(wanted)
      <4>1. ~(daemon.polls_since_attempt >= RetryPolls) BY <3>3 DEF RetryDue
      <4>2. polls = daemon.polls_since_attempt + 1 BY <3>3
      <4> QED BY <1>0, <3>1, <4>1, <4>2
    <3>4. CASE ~attempt /\ ~Unconfirmed(wanted)
      <4>1. polls = daemon.polls_since_attempt BY <3>4
      <4> QED BY <3>1, <4>1
    <3> QED BY <3>2, <3>3, <3>4
  <2>5. age \in 0..CachePolls
    <3>1. daemon.verdictAge \in 0..CachePolls BY DEF SchedTypeOK
    <3>2. CASE Fresh(fresh)
      <4>1. age = 0 BY <3>2
      <4> QED BY <1>0, <4>1
    <3>3. CASE ~Fresh(fresh)
      <4>1. ~(daemon.verdictAge >= CachePolls) BY <3>3 DEF Fresh
      <4>2. age = daemon.verdictAge + 1 BY <3>3
      <4> QED BY <1>0, <3>1, <4>1, <4>2
    <3> QED BY <3>2, <3>3
  <2>6. /\ daemon'.config = Reloaded /\ daemon'.gaming_prev = gaming
        /\ daemon'.override = Overridden /\ daemon'.polls_since_attempt = polls
        /\ daemon'.verdict = Verdict(fresh) /\ daemon'.verdictAge = age
    BY <1>2 DEF Poll
  <2>7. /\ savedPerf' \in [file : BOOLEAN, values : [Settings -> Values]]
        /\ perfChildren' \in Seq({"gaming", "restore"})
        /\ missed' \subseteq Settings
        /\ upset' \subseteq {"mixed", "reordered", "reconfigured", "restarted"}
    <3>0. /\ savedPerf \in [file : BOOLEAN, values : [Settings -> Values]]
          /\ perf \in [Settings -> Values]
          /\ perfChildren \in Seq({"gaming", "restore"})
          /\ missed \subseteq Settings
          /\ upset \subseteq {"mixed", "reordered", "reconfigured", "restarted"}
      BY DEF SchedTypeOK
    <3>1. CASE PerfMode(gaming, saved, read)
      <4> HIDE DEF gaming
      <4>1. savedPerf' \in [file : BOOLEAN, values : [Settings -> Values]]
        <5>1. SavedState(read) \in [file : BOOLEAN, values : [Settings -> Values]]
          BY <3>0 DEF SavedState, Values
        <5> QED BY <3>0, <3>1, <5>1 DEF PerfMode
      <4>2. perfChildren' \in Seq({"gaming", "restore"})
        <5> DEFINE command == IF gaming THEN "gaming" ELSE "restore"
        <5>1. command \in {"gaming", "restore"} OBVIOUS
        <5>2. perfChildren' = Append(perfChildren, command) BY <3>1 DEF PerfMode
        <5> HIDE DEF command
        <5>3. \A S : \A s \in Seq(S), e \in S : Append(s, e) \in Seq(S) OBVIOUS
        <5> QED BY <3>0, <5>1, <5>2, <5>3, Zenon
      <4>3. upset' \subseteq {"mixed", "reordered", "reconfigured", "restarted"}
        BY <3>0, <3>1 DEF PerfMode
      <4>4. missed' \subseteq Settings BY <3>0, <3>1 DEF PerfMode
      <4> QED BY <4>1, <4>2, <4>3, <4>4
    <3>2. CASE UNCHANGED <<savedPerf, perfChildren, missed, upset>> BY <3>0, <3>2
    <3> QED BY <1>2, <3>1, <3>2 DEF Poll
  <2>8. signals' = [reload |-> FALSE, override |-> "none"]
        /\ UNCHANGED <<game, loader, configFile, perf>>
    BY <1>2 DEF Poll
  <2> HIDE DEF polls, age, attempt, transitioned, wanted
  <2> QED BY <2>1, <2>2, <2>3, <2>4, <2>5, <2>6, <2>7, <2>8 DEF SchedTypeOK
<1>3. ASSUME NEW i \in DOMAIN perfChildren, NEW done \in SUBSET Settings, NEW kept \in BOOLEAN,
             PerfChild(i, done, kept)
      PROVE  SchedTypeOK'
  <2>1. perfChildren \in Seq({"gaming", "restore"}) BY DEF SchedTypeOK
  <2>2. i \in 1..Len(perfChildren) /\ Len(perfChildren) \in Nat BY <2>1
  <2>3. SubSeq(perfChildren, 1, i - 1) \in Seq({"gaming", "restore"}) BY <2>1, <2>2
  <2>4. SubSeq(perfChildren, i + 1, Len(perfChildren)) \in Seq({"gaming", "restore"})
    BY <2>1, <2>2
  <2>5. perfChildren' \in Seq({"gaming", "restore"}) BY <1>3, <2>3, <2>4 DEF PerfChild
  <2>6. perf' \in [Settings -> Values]
    <3>1. perf \in [Settings -> Values] /\ savedPerf.values \in [Settings -> Values]
      BY DEF SchedTypeOK
    <3>2. \A k \in Settings : perf[k] \in Values /\ RestoreValue(k) \in Values
      BY <3>1 DEF RestoreValue
    <3> QED BY <1>3, <3>2 DEF PerfChild, Values
  <2>7. savedPerf' \in [file : BOOLEAN, values : [Settings -> Values]]
    <3>1. NoState \in [file : BOOLEAN, values : [Settings -> Values]] BY DEF NoState, Values
    <3>2. savedPerf' \in {NoState, savedPerf} BY <1>3 DEF PerfChild
    <3> QED BY <3>1, <3>2 DEF SchedTypeOK
  <2>8. /\ missed' \subseteq Settings
        /\ upset' \subseteq {"mixed", "reordered", "reconfigured", "restarted"}
    BY <1>3 DEF PerfChild, SchedTypeOK
  <2> QED BY <1>3, <2>5, <2>6, <2>7, <2>8 DEF PerfChild, SchedTypeOK
<1>4. CASE GameChanges BY <1>4 DEF GameChanges, SchedTypeOK
<1>5. ASSUME NEW to \in {"up", "down", "slow"}, LoaderChanges(to) PROVE SchedTypeOK'
  BY <1>5 DEF LoaderChanges, SchedTypeOK
<1>6. ASSUME NEW override \in {"gaming", "clear"}, ForceSignal(override) PROVE SchedTypeOK'
  <2>1. signals' \in [reload : BOOLEAN, override : {"none", "gaming", "clear"}]
    BY <1>6 DEF ForceSignal, SchedTypeOK
  <2> QED BY <1>6, <2>1 DEF ForceSignal, SchedTypeOK
<1>7. ASSUME NEW config \in SchedConfigs, ConfigChanges(config) PROVE SchedTypeOK'
  <2>1. signals' \in [reload : BOOLEAN, override : {"none", "gaming", "clear"}]
    BY <1>7 DEF ConfigChanges, SchedTypeOK
  <2> QED BY <1>7, <2>1 DEF ConfigChanges, SchedTypeOK
<1>8. CASE SchedRestarts
  <2>1. configFile \in SchedConfigs /\ daemon' = FreshDaemon(configFile)
    BY <1>8 DEF SchedRestarts, SchedTypeOK
  <2>2. /\ daemon'.config \in SchedConfigs
        /\ daemon'.gaming_prev \in BOOLEAN /\ daemon'.override \in BOOLEAN
        /\ daemon'.polls_since_attempt \in 0..RetryPolls
        /\ daemon'.verdict \in BOOLEAN /\ daemon'.verdictAge \in 0..CachePolls
    BY <1>1, <2>1
  <2> QED BY <1>8, <2>2 DEF SchedRestarts, SchedTypeOK
<1>9. CASE UNCHANGED schedVars BY <1>9 DEF schedVars, SchedTypeOK
<1> QED BY <1>2, <1>3, <1>4, <1>5, <1>6, <1>7, <1>8, <1>9 DEF SchedNext, Polls, PerfChildEnds

\* The settings that must come back, and the user's values of them.
Due(lost) == Settings \ (UnsetSettings \cup lost)
InPlace(values, lost) == \A k \in Due(lost) : values[k] = "user"
Recoverable(state, lost) == \A k \in Due(lost) : state.file /\ state.values[k] = "user"

\* Where the settings are while nothing has spoiled them: during a game and
\* until the last restore has run they are in the file, otherwise in place;
\* the commands running belong to one game.
PerfRight(integrated, gaming, children, state, settings, lost) ==
    IF integrated
    THEN \/ children \in {<<>>, <<"gaming">>} /\ gaming /\ Recoverable(state, lost)
         \/ children = <<>> /\ ~gaming /\ InPlace(settings, lost)
         \/ /\ children \in {<<"restore">>, <<"gaming", "restore">>}
            /\ ~gaming /\ Recoverable(state, lost)
    ELSE children = <<>> /\ InPlace(settings, lost)

PerfInv ==
    upset = {} =>
        /\ daemon.config.integrate_perf_mode = configFile.integrate_perf_mode
        /\ PerfRight(configFile.integrate_perf_mode, daemon.gaming_prev, perfChildren,
                     savedPerf, perf, missed)

LEMMA TwoCommands ==
    /\ Append(<<"gaming">>, "restore") = <<"gaming", "restore">>
    /\ <<>> \o SubSeq(<<"gaming", "restore">>, 2, 2) = <<"restore">>
<1> DEFINE C == {"gaming", "restore"}
           a == Append(<<"gaming">>, "restore")
           b == <<"gaming", "restore">>
           c == SubSeq(b, 2, 2)
           d == <<"restore">>
<1>1. /\ a \in Seq(C) /\ b \in Seq(C) /\ Len(a) = 2 /\ Len(b) = 2
      /\ a[1] = "gaming" /\ a[2] = "restore" /\ b[1] = "gaming" /\ b[2] = "restore"
  OBVIOUS
<1>2. c \in Seq(C) /\ Len(c) = 1 /\ c[1] = b[2]
  <2> HIDE DEF b, C
  <2>1. b \in Seq(C) /\ 2 \in 1..Len(b) BY <1>1
  <2>2. c \in Seq(C) BY <2>1, SubSeqProperties
  <2>3. Len(c) = 1 BY <2>1, SubSeqProperties
  <2>4. c[1] = b[2] BY <2>1, SubSeqProperties
  <2> QED BY <2>2, <2>3, <2>4
<1>3. d \in Seq(C) /\ Len(d) = 1 /\ d[1] = "restore" OBVIOUS
<1> HIDE DEF a, b, c, d
<1>4. a = b BY <1>1, SeqEqual
<1>5. c = d BY <1>1, <1>2, <1>3, SeqEqual
<1>6. <<>> \o c = c
  <2>1. \A s \in Seq(C) : <<>> \o s = s OBVIOUS
  <2> QED BY <1>2, <2>1
<1> QED BY <1>4, <1>5, <1>6 DEF a, b, c, d

LEMMA PerfStep == SchedTypeOK /\ PerfInv /\ [SchedNext]_schedVars => PerfInv'
<1> SUFFICES ASSUME SchedTypeOK, PerfInv, [SchedNext]_schedVars, upset' = {}
             PROVE  /\ daemon'.config.integrate_perf_mode = configFile'.integrate_perf_mode
                    /\ PerfRight(configFile'.integrate_perf_mode, daemon'.gaming_prev,
                                 perfChildren', savedPerf', perf', missed')
  BY DEF PerfInv, PerfRight, InPlace, Recoverable, Due
<1> DEFINE Goal == /\ daemon'.config.integrate_perf_mode = configFile'.integrate_perf_mode
                   /\ PerfRight(configFile'.integrate_perf_mode, daemon'.gaming_prev,
                                perfChildren', savedPerf', perf', missed')
<1>0. /\ daemon.gaming_prev \in BOOLEAN /\ configFile \in SchedConfigs
      /\ configFile.integrate_perf_mode \in BOOLEAN
  BY SchedAssumption DEF SchedTypeOK
<1>1. upset = {} =>
        /\ daemon.config.integrate_perf_mode = configFile.integrate_perf_mode
        /\ PerfRight(configFile.integrate_perf_mode, daemon.gaming_prev, perfChildren,
                     savedPerf, perf, missed)
  BY DEF PerfInv
<1>2. ASSUME NEW fresh \in BOOLEAN, NEW saved \in BOOLEAN, NEW read \in SUBSET Settings,
             Poll(fresh, saved, read)
      PROVE  Goal
  <2> DEFINE gaming == Overridden \/ Verdict(fresh)
             wanted == Wanted(Reloaded, gaming)
             transitioned == gaming # daemon.gaming_prev
             attempt == transitioned \/ RetryDue(wanted)
             integrated == configFile.integrate_perf_mode
  <2>1. daemon'.config = Reloaded /\ daemon'.gaming_prev = gaming
        /\ configFile' = configFile /\ perf' = perf
    BY <1>2 DEF Poll
  <2>2. \/ attempt /\ PerfEffect(Reloaded, transitioned) /\ PerfMode(gaming, saved, read)
        \/ /\ ~(attempt /\ PerfEffect(Reloaded, transitioned))
           /\ UNCHANGED <<savedPerf, perfChildren, missed, upset>>
    BY <1>2 DEF Poll
  <2>3. upset = {} BY <2>2 DEF PerfMode
  <2>4. Reloaded.integrate_perf_mode = integrated BY <1>1, <2>3 DEF Reloaded
  <2>5. gaming \in BOOLEAN
    <3>1. Overridden \in BOOLEAN BY DEF Overridden, SchedTypeOK
    <3>2. Verdict(fresh) \in BOOLEAN BY DEF Verdict, SchedTypeOK
    <3> QED BY <3>1, <3>2
  <2> HIDE DEF gaming
  <2>6. PerfRight(integrated, daemon.gaming_prev, perfChildren, savedPerf, perf, missed)
    BY <1>1, <2>3
  <2>7. CASE attempt /\ PerfEffect(Reloaded, transitioned) /\ PerfMode(gaming, saved, read)
    <3>1. integrated /\ gaming # daemon.gaming_prev BY <2>4, <2>7 DEF PerfEffect
    <3>2. perfChildren' = Append(perfChildren, IF gaming THEN "gaming" ELSE "restore")
      BY <2>7 DEF PerfMode
    <3>3. CASE gaming
      <4>1. ~daemon.gaming_prev BY <1>0, <2>5, <3>1, <3>3
      <4>2. ~\E i \in DOMAIN perfChildren : perfChildren[i] = "restore"
        BY <2>7, <3>3 DEF PerfMode
      <4>3. perfChildren # <<"restore">> /\ perfChildren # <<"gaming", "restore">>
        <5>1. <<"restore">>[1] = "restore" /\ 1 \in DOMAIN <<"restore">> OBVIOUS
        <5>2. <<"gaming", "restore">>[2] = "restore" /\ 2 \in DOMAIN <<"gaming", "restore">>
          OBVIOUS
        <5> QED BY <4>2, <5>1, <5>2
      <4>4. perfChildren = <<>> /\ InPlace(perf, missed)
        BY <2>6, <3>1, <4>1, <4>3 DEF PerfRight
      <4>5. perfChildren' = <<"gaming">> BY <3>2, <3>3, <4>4
      <4>6. Recoverable(savedPerf', missed')
        <5>1. CASE saved
          <6>1. savedPerf' = SavedState(read) /\ missed' = missed \cup (Settings \ read)
            BY <2>7, <3>3, <5>1 DEF PerfMode
          <6> QED BY <4>4, <6>1 DEF SavedState, Recoverable, InPlace, Due
        <5>2. CASE ~saved
          <6>1. missed' = missed \cup Settings BY <2>7, <3>3, <5>2 DEF PerfMode
          <6> QED BY <6>1 DEF Recoverable, Due
        <5> QED BY <5>1, <5>2
      <4> QED BY <2>1, <2>4, <3>1, <3>3, <4>5, <4>6 DEF PerfRight
    <3>4. CASE ~gaming
      <4>1. /\ daemon.gaming_prev /\ perfChildren \in {<<>>, <<"gaming">>}
            /\ Recoverable(savedPerf, missed)
        BY <1>0, <2>5, <2>6, <3>1, <3>4 DEF PerfRight
      <4>2. perfChildren' \in {<<"restore">>, <<"gaming", "restore">>}
        <5>1. perfChildren' = Append(perfChildren, "restore") BY <3>2, <3>4
        <5>2. Append(<<>>, "restore") = <<"restore">> OBVIOUS
        <5>3. Append(<<"gaming">>, "restore") = <<"gaming", "restore">> BY TwoCommands
        <5> QED BY <4>1, <5>1, <5>2, <5>3
      <4>3. savedPerf' = savedPerf /\ missed' = missed BY <2>7, <3>4 DEF PerfMode
      <4> QED BY <2>1, <2>4, <3>1, <3>4, <4>1, <4>2, <4>3 DEF PerfRight
    <3> QED BY <3>3, <3>4
  <2>8. CASE /\ ~(attempt /\ PerfEffect(Reloaded, transitioned))
             /\ UNCHANGED <<savedPerf, perfChildren, missed, upset>>
    <3>1. ~integrated \/ gaming = daemon.gaming_prev BY <2>4, <2>8 DEF PerfEffect
    <3> QED BY <2>1, <2>4, <2>6, <2>8, <3>1 DEF PerfRight
  <2> QED BY <2>2, <2>7, <2>8
<1>3. ASSUME NEW i \in DOMAIN perfChildren, NEW done \in SUBSET Settings, NEW kept \in BOOLEAN,
             PerfChild(i, done, kept)
      PROVE  Goal
  <2>1. upset = {} /\ UNCHANGED <<configFile, daemon>> /\ ~(i > 1) BY <1>3 DEF PerfChild
  <2>2. perfChildren \in Seq({"gaming", "restore"}) BY DEF SchedTypeOK
  <2>3. i = 1 /\ perfChildren # <<>>
    <3>1. i \in 1..Len(perfChildren) /\ Len(perfChildren) \in Nat BY <2>2
    <3> QED BY <2>1, <2>2, <3>1
  <2>4. /\ configFile.integrate_perf_mode
        /\ Recoverable(savedPerf, missed)
        /\ \/ perfChildren = <<"gaming">> /\ daemon.gaming_prev
           \/ perfChildren \in {<<"restore">>, <<"gaming", "restore">>} /\ ~daemon.gaming_prev
    BY <1>1, <2>1, <2>3 DEF PerfRight
  <2>5. perfChildren' = SubSeq(perfChildren, 1, 0)
                          \o SubSeq(perfChildren, 2, Len(perfChildren))
    BY <1>3, <2>3 DEF PerfChild
  <2>6. CASE perfChildren = <<"gaming">> /\ daemon.gaming_prev
    <3>1. perfChildren' = <<>> BY <2>5, <2>6
    <3>2. perfChildren[i] = "gaming" BY <2>3, <2>6
    <3>3. savedPerf' = savedPerf /\ missed' = missed BY <1>3, <3>2 DEF PerfChild
    <3> QED BY <1>1, <2>1, <2>4, <2>6, <3>1, <3>3 DEF PerfRight
  <2>7. CASE perfChildren = <<"gaming", "restore">> /\ ~daemon.gaming_prev
    <3>1. perfChildren' = <<"restore">>
      <4>1. Len(perfChildren) = 2 BY <2>7
      <4>2. SubSeq(perfChildren, 1, 0) = <<>> BY <2>7
      <4> QED BY <2>5, <2>7, <4>1, <4>2, TwoCommands
    <3>2. perfChildren[i] = "gaming" BY <2>3, <2>7
    <3>3. savedPerf' = savedPerf /\ missed' = missed BY <1>3, <3>2 DEF PerfChild
    <3> QED BY <1>1, <2>1, <2>4, <2>7, <3>1, <3>3 DEF PerfRight
  <2>8. CASE perfChildren = <<"restore">> /\ ~daemon.gaming_prev
    <3>1. perfChildren' = <<>> BY <2>5, <2>8
    <3>2. perfChildren[i] = "restore" BY <2>3, <2>8
    <3>3. InPlace(perf', missed')
      <4> SUFFICES ASSUME NEW k \in Due(missed') PROVE perf'[k] = "user" BY DEF InPlace
      <4>1. k \in Due(missed) /\ k \in Settings BY <1>3 DEF PerfChild, Due
      <4>2. savedPerf.file /\ savedPerf.values[k] = "user" BY <2>4, <4>1 DEF Recoverable
      <4>3. k \in done BY <1>3, <3>2, <4>2 DEF PerfChild, Due
      <4>4. perf'[k] = RestoreValue(k) BY <1>3, <3>2, <4>1, <4>2, <4>3 DEF PerfChild
      <4> QED BY <4>2, <4>4 DEF RestoreValue
    <3> QED BY <1>1, <2>1, <2>4, <2>8, <3>1, <3>3 DEF PerfRight
  <2> QED BY <2>4, <2>6, <2>7, <2>8
<1>4. ASSUME GameChanges PROVE Goal BY <1>1, <1>4 DEF GameChanges
<1>5. ASSUME NEW to \in {"up", "down", "slow"}, LoaderChanges(to) PROVE Goal
  BY <1>1, <1>5 DEF LoaderChanges
<1>6. ASSUME NEW override \in {"gaming", "clear"}, ForceSignal(override) PROVE Goal
  BY <1>1, <1>6 DEF ForceSignal
<1>7. ASSUME NEW config \in SchedConfigs, ConfigChanges(config) PROVE Goal
  <2>1. upset = {} /\ config.integrate_perf_mode = configFile.integrate_perf_mode
    BY <1>7 DEF ConfigChanges
  <2> QED BY <1>1, <1>7, <2>1 DEF ConfigChanges
<1>8. ASSUME SchedRestarts PROVE Goal
  <2>1. upset = {} /\ ~daemon.gaming_prev BY <1>8 DEF SchedRestarts
  <2>2. daemon'.config = configFile /\ daemon'.gaming_prev = FALSE
    BY <1>8 DEF SchedRestarts, FreshDaemon
  <2>3. UNCHANGED <<configFile, perf, savedPerf, perfChildren, missed>> BY <1>8 DEF SchedRestarts
  <2> QED BY <1>0, <1>1, <2>1, <2>2, <2>3 DEF PerfRight
<1>9. ASSUME UNCHANGED schedVars PROVE Goal BY <1>1, <1>9 DEF schedVars
<1> HIDE DEF Goal
<1>10. Goal
  BY <1>2, <1>3, <1>4, <1>5, <1>6, <1>7, <1>8, <1>9 DEF SchedNext, Polls, PerfChildEnds
<1> QED BY <1>10 DEF Goal

LEMMA SchedInvariance == SchedSpec => [](SchedTypeOK /\ PerfInv)
<1>1. SchedInit => SchedTypeOK /\ PerfInv
  <2> SUFFICES ASSUME SchedInit PROVE SchedTypeOK /\ PerfInv OBVIOUS
  <2>0. RetryPolls \in Nat /\ CachePolls \in Nat BY SchedAssumption
  <2>1. /\ daemon.config = configFile /\ daemon.gaming_prev = FALSE /\ daemon.override = FALSE
        /\ daemon.polls_since_attempt = 0 /\ daemon.verdict = FALSE
        /\ daemon.verdictAge = CachePolls
    BY DEF SchedInit, FreshDaemon
  <2>2. daemon.polls_since_attempt \in 0..RetryPolls /\ daemon.verdictAge \in 0..CachePolls
    BY <2>0, <2>1
  <2>3. signals \in [reload : BOOLEAN, override : {"none", "gaming", "clear"}] BY DEF SchedInit
  <2>4. perfChildren \in Seq({"gaming", "restore"}) BY DEF SchedInit
  <2>5. perf \in [Settings -> Values] /\ \A k \in Settings \ UnsetSettings : perf[k] = "user"
    BY DEF SchedInit, UserSettings, Values
  <2>6. savedPerf \in [file : BOOLEAN, values : [Settings -> Values]]
    BY DEF SchedInit, NoState, Values
  <2>7. SchedTypeOK BY <2>1, <2>2, <2>3, <2>4, <2>5, <2>6 DEF SchedInit, SchedTypeOK
  <2>8. PerfInv BY <2>1, <2>5 DEF SchedInit, PerfInv, PerfRight, InPlace, Due
  <2> QED BY <2>7, <2>8
<1>2. SchedTypeOK /\ PerfInv /\ [SchedNext]_schedVars => (SchedTypeOK /\ PerfInv)'
  BY SchedTyped, PerfStep
<1> QED BY <1>1, <1>2, PTL DEF SchedSpec

\* The daemon's state stays well-formed and its retries paced: the counter
\* never passes the poll at which one is due, for every SCX_RETRY_POLLS.
THEOREM SchedTypeCorrect == SchedSpec => []SchedTypeOK
BY SchedInvariance, PTL

\* After a game every setting that had a value, and that every save and restore
\* could read and write, has the user's value again, for every retry pacing,
\* cache lifetime, set of configurations and set of settings
\* (enter_gaming_perf_mode, save_state and restore_state), as long as the
\* commands end in the order they were started.
THEOREM SettingsComeBack == SchedSpec => []PerfRestored
<1>1. PerfInv => PerfRestored BY DEF PerfInv, PerfRight, PerfRestored, InPlace, Due
<1> QED BY <1>1, SchedInvariance, PTL

-----------------------------------------------------------------------------
(* The job store: finite sets of numbers, and what retain keeps of a queue *)

\* A set of naturals that is not empty has a least element, and Min is it
\* (UniqueId's suffix, Victim's position).
LEMMA MinIsLeast ==
    ASSUME NEW S \in SUBSET Nat, S # {}
    PROVE  Min(S) \in S /\ \A y \in S : Min(S) <= y
BY LeastElement DEF Min

\* Retain keeps the ids it should, in order: pos gives the place each kept id
\* had.
LEMMA RetainKeeps ==
    ASSUME NEW S, NEW q \in Seq(S), NEW ids
    PROVE  LET R == Retain(q, ids) IN
           /\ R \in Seq(S)
           /\ \E pos \in [1..Len(R) -> 1..Len(q)] :
                 /\ \A n \in 1..Len(R) : R[n] = q[pos[n]] /\ R[n] \notin ids
                 /\ \A m, n \in 1..Len(R) : m < n => pos[m] < pos[n]
                 /\ \A i \in 1..Len(q) : q[i] \notin ids => \E n \in 1..Len(R) : pos[n] = i
<1> DEFINE kept == {i \in DOMAIN q : q[i] \notin ids}
           below(i) == {k \in kept : k <= i}
           N == Cardinality(kept)
           R == Retain(q, ids)
           rank == [i \in kept |-> Cardinality(below(i))]
           pos == [n \in 1..N |-> CHOOSE i \in kept : Cardinality(below(i)) = n]
<1>1. DOMAIN q = 1..Len(q) /\ Len(q) \in Nat /\ kept \subseteq 1..Len(q) OBVIOUS
<1>2. IsFiniteSet(kept) /\ N \in Nat
  <2>1. IsFiniteSet(1..Len(q)) BY <1>1, FS_Interval
  <2>2. IsFiniteSet(kept) BY <1>1, <2>1, FS_Subset
  <2> QED BY <2>2, FS_CardinalityType
<1>3. \A i \in kept : IsFiniteSet(below(i)) /\ Cardinality(below(i)) \in 1..N
  <2> TAKE i \in kept
  <2>1. below(i) \in SUBSET kept /\ i \in below(i) BY <1>1
  <2>2. IsFiniteSet(below(i)) /\ Cardinality(below(i)) <= N /\ Cardinality(below(i)) \in Nat
    BY <1>2, <2>1, FS_Subset, FS_CardinalityType
  <2>3. Cardinality(below(i)) # 0 BY <2>1, <2>2, FS_EmptySet
  <2> QED BY <1>2, <2>2, <2>3
<1>4. \A i, k \in kept : i < k => Cardinality(below(i)) < Cardinality(below(k))
  <2> SUFFICES ASSUME NEW i \in kept, NEW k \in kept, i < k
               PROVE  Cardinality(below(i)) < Cardinality(below(k))
    OBVIOUS
  <2>1. below(i) \in SUBSET below(k) /\ k \in below(k) /\ k \notin below(i) BY <1>1
  <2>2. IsFiniteSet(below(k)) /\ Cardinality(below(k)) \in Nat /\ Cardinality(below(i)) \in Nat
    <3> HIDE DEF below, N
    <3> QED BY <1>2, <1>3
  <2>3. Cardinality(below(i)) <= Cardinality(below(k)) /\ Cardinality(below(k)) # Cardinality(below(i))
    BY <2>1, <2>2, FS_Subset
  <2> QED BY <2>2, <2>3
<1> HIDE DEF below
<1>5. rank \in Injection(kept, 1..N)
  <2>1. rank \in [kept -> 1..N] BY <1>3
  <2>2. \A i, k \in kept : i # k => rank[i] # rank[k]
    <3> SUFFICES ASSUME NEW i \in kept, NEW k \in kept, i # k PROVE rank[i] # rank[k] OBVIOUS
    <3>1. i < k \/ k < i BY <1>1
    <3>2. Cardinality(below(i)) \in Nat /\ Cardinality(below(k)) \in Nat BY <1>2, <1>3
    <3> QED BY <1>4, <3>1, <3>2
  <2> QED BY <2>1, <2>2 DEF Injection, IsInjective
<1>6. rank \in Surjection(kept, 1..N)
  <2>1. IsFiniteSet(1..N) /\ Cardinality(1..N) = N BY <1>2, FS_Interval
  <2> QED BY <1>5, <2>1, FS_Injection
<1>7. \A n \in 1..N : \E i \in kept : Cardinality(below(i)) = n
  BY <1>6 DEF Surjection
<1>8. \A n \in 1..N : pos[n] \in kept /\ Cardinality(below(pos[n])) = n
  BY <1>7
<1>9. R = [n \in 1..N |-> q[pos[n]]]
  BY DEF Retain, below
<1>10. pos \in [1..N -> 1..Len(q)] BY <1>1, <1>8
<1> HIDE DEF pos, N, R
<1>11. R \in [1..N -> S] BY <1>9, <1>10
<1>12. R \in Seq(S) /\ Len(R) = N BY <1>2, <1>11
<1>13. \A n \in 1..N : R[n] = q[pos[n]] /\ R[n] \notin ids BY <1>8, <1>9
<1>14. \A m, n \in 1..N : m < n => pos[m] < pos[n]
  <2> SUFFICES ASSUME NEW m \in 1..N, NEW n \in 1..N, m < n PROVE pos[m] < pos[n] OBVIOUS
  <2>1. pos[m] \in kept /\ pos[n] \in kept /\ pos[m] \in Nat /\ pos[n] \in Nat
    BY <1>1, <1>8
  <2>2. ~(pos[n] < pos[m]) /\ pos[m] # pos[n] BY <1>4, <1>8, <2>1
  <2> QED BY <2>1, <2>2
<1>15. \A i \in 1..Len(q) : q[i] \notin ids => \E n \in 1..N : pos[n] = i
  <2> SUFFICES ASSUME NEW i \in 1..Len(q), q[i] \notin ids PROVE \E n \in 1..N : pos[n] = i
    OBVIOUS
  <2>1. i \in kept BY <1>1
  <2> DEFINE n == Cardinality(below(i))
  <2>2. n \in 1..N BY <1>3, <2>1
  <2>3. pos[n] \in kept /\ Cardinality(below(pos[n])) = n BY <1>8, <2>2
  <2>4. pos[n] = i
    <3>1. pos[n] \in Nat /\ i \in Nat BY <1>1, <2>1, <2>3
    <3>2. n \in Nat BY <1>2, <2>2
    <3>3. ~(pos[n] < i) /\ ~(i < pos[n]) BY <1>4, <2>1, <2>3, <3>1, <3>2
    <3> QED BY <3>1, <3>3
  <2> QED BY <2>2, <2>4
<1>16. /\ pos \in [1..Len(R) -> 1..Len(q)]
       /\ \A n \in 1..Len(R) : R[n] = q[pos[n]] /\ R[n] \notin ids
       /\ \A m, n \in 1..Len(R) : m < n => pos[m] < pos[n]
       /\ \A i \in 1..Len(q) : q[i] \notin ids => \E n \in 1..Len(R) : pos[n] = i
  BY <1>10, <1>12, <1>13, <1>14, <1>15, Zenon
<1> QED BY <1>12, <1>16, Zenon DEF R

-----------------------------------------------------------------------------
(* The job store's inductive invariant                                     *)

Entry(n) == [state : JobStates, detail : JobDetails, gen : 1..n, by : 1..n]

WorkerRecord ==
    [id : Nat \X Nat, kind : {"process", "socket"}, flag : BOOLEAN,
     phase : {"spawned", "running", "dismissed", "done"}]

StoreTypes ==
    /\ jobs \in [DOMAIN jobs -> Entry(Len(workers))]
    /\ DOMAIN jobs \subseteq (1..reading) \X (1..MaxTracked)
    /\ Cardinality(DOMAIN jobs) <= MaxTracked
    /\ workers \in Seq(WorkerRecord)
    /\ reading \in Nat /\ sameStarts \in 0..MaxSameReading

\* The queue lists every tracked id, in the order the jobs were started.
QueueInOrder(inner) ==
    /\ inner.order \in Seq(DOMAIN inner.entries)
    /\ \A id \in DOMAIN inner.entries : \E i \in 1..Len(inner.order) : inner.order[i] = id
    /\ \A i, k \in 1..Len(inner.order) :
          i < k => inner.entries[inner.order[i]].gen < inner.entries[inner.order[k]].gen

\* An entry and the worker of its generation: same id, reports of its own
\* only, no flag while it runs, finished only by that worker.
EntryMatches(id, entry, w) ==
    /\ w.id = id
    /\ entry.by = entry.gen
    /\ entry.state = "running" => ~w.flag
    /\ entry.state = "finished" => w.phase = "done"
    /\ entry.state = "cancelled" => entry.detail = "cancelled"

EntriesMatch == \A id \in DOMAIN jobs : EntryMatches(id, jobs[id], workers[jobs[id].gen])

\* A worker that may still report under a tracked id is that entry's own.
WritersOwn ==
    \A id \in DOMAIN jobs, g \in Generations :
        workers[g].id = id /\ workers[g].phase # "done" => jobs[id].gen = g

\* Later jobs have later readings; a dismissed worker was told to stop.
ReadingsGrow ==
    /\ \A g \in Generations : workers[g].id[1] \in 1..reading
    /\ \A g, h \in Generations : g < h => workers[g].id[1] <= workers[h].id[1]
    /\ \A g \in Generations : workers[g].phase = "dismissed" => workers[g].flag

\* While another start may read the same time, the tracked jobs of this reading
\* are few, and every worker of this reading that is not through is tracked as
\* running: its id is not given away.
ReadingTracked ==
    sameStarts # 0 =>
      /\ reading # 0
      /\ Cardinality({id \in DOMAIN jobs : id[1] = reading}) <= sameStarts
      /\ \A g \in Generations :
            workers[g].id[1] = reading /\ workers[g].phase # "done" =>
              /\ workers[g].id \in DOMAIN jobs
              /\ jobs[workers[g].id].gen = g
              /\ jobs[workers[g].id].state = "running"

JobInv ==
    /\ StoreTypes
    /\ QueueInOrder(Inner)
    /\ EntriesMatch
    /\ WritersOwn
    /\ ReadingsGrow
    /\ ReadingTracked
    /\ UntrackedAreSignalled

-----------------------------------------------------------------------------
(* The job store's private operations                                      *)

\* q lists the tracked jobs ids, in the order they were started.
ListsInOrder(q, ids) ==
    /\ q \in Seq(ids)
    /\ \A id \in ids : \E i \in 1..Len(q) : q[i] = id
    /\ \A i, k \in 1..Len(q) : i < k => jobs[q[i]].gen < jobs[q[k]].gen

\* A queue in order holds each tracked id once, so its length is their number.
LEMMA QueueCounts ==
    ASSUME NEW inner, QueueInOrder(inner), NEW n \in Nat,
           inner.entries \in [DOMAIN inner.entries -> Entry(n)]
    PROVE  /\ ToSet(inner.order) = DOMAIN inner.entries
           /\ IsFiniteSet(DOMAIN inner.entries)
           /\ Len(inner.order) = Cardinality(DOMAIN inner.entries)
<1> DEFINE D == DOMAIN inner.entries
           q == inner.order
           L == Len(q)
<1>1. q \in Seq(D) /\ DOMAIN q = 1..L /\ L \in Nat /\ q \in [1..L -> D] BY DEF QueueInOrder
<1>2. ToSet(q) = D BY <1>1 DEF QueueInOrder, ToSet
<1>3. \A i, k \in 1..L : i # k => q[i] # q[k]
  <2> SUFFICES ASSUME NEW i \in 1..L, NEW k \in 1..L, i < k PROVE q[i] # q[k] BY <1>1
  <2>1. inner.entries[q[i]].gen < inner.entries[q[k]].gen BY DEF QueueInOrder
  <2>2. q[i] \in D /\ inner.entries[q[i]].gen \in Nat
    <3>1. q[i] \in D BY <1>1
    <3>2. inner.entries[q[i]] \in Entry(n) BY <3>1
    <3>3. inner.entries[q[i]].gen \in 1..n BY <3>2 DEF Entry
    <3> QED BY <3>1, <3>3
  <2> QED BY <2>1, <2>2
<1>4. \A id \in D : \E i \in 1..L : q[i] = id BY DEF QueueInOrder
<1> HIDE DEF D, q, L
<1>5. q \in Bijection(1..L, D)
  BY <1>1, <1>3, <1>4 DEF Bijection, Injection, Surjection, IsInjective
<1>6. IsFiniteSet(1..L) /\ Cardinality(1..L) = L BY <1>1, FS_Interval
<1>7. ExistsBijection(1..L, D) BY <1>5 DEF ExistsBijection
<1>8. IsFiniteSet(D) /\ Cardinality(D) = L BY <1>6, <1>7, FS_Bijection
<1> QED BY <1>2, <1>8 DEF D, q, L

\* Taking ids out of the store leaves the rest of it, in order.
LEMMA WithoutKeeps ==
    ASSUME NEW inner, QueueInOrder(inner), NEW ids
    PROVE  LET w == Without(inner, ids) IN
           /\ DOMAIN w.entries = DOMAIN inner.entries \ ids
           /\ \A id \in DOMAIN w.entries : w.entries[id] = inner.entries[id]
           /\ QueueInOrder(w)
<1> DEFINE w == Without(inner, ids)
           D == DOMAIN inner.entries
           q == inner.order
           R == Retain(q, ids)
<1>1. /\ w.order = R /\ DOMAIN w.entries = D \ ids
      /\ \A id \in D \ ids : w.entries[id] = inner.entries[id]
  BY DEF Without
<1>2. q \in Seq(D) BY DEF QueueInOrder
<1> HIDE DEF w
<1>3. /\ R \in Seq(D)
      /\ \E pos \in [1..Len(R) -> 1..Len(q)] :
            /\ \A n \in 1..Len(R) : R[n] = q[pos[n]] /\ R[n] \notin ids
            /\ \A m, n \in 1..Len(R) : m < n => pos[m] < pos[n]
            /\ \A i \in 1..Len(q) : q[i] \notin ids => \E n \in 1..Len(R) : pos[n] = i
  BY <1>2, RetainKeeps, SMTT(60)
<1>4. PICK pos \in [1..Len(R) -> 1..Len(q)] :
            /\ \A n \in 1..Len(R) : R[n] = q[pos[n]] /\ R[n] \notin ids
            /\ \A m, n \in 1..Len(R) : m < n => pos[m] < pos[n]
            /\ \A i \in 1..Len(q) : q[i] \notin ids => \E n \in 1..Len(R) : pos[n] = i
  BY <1>3
<1> HIDE DEF R
<1>5. R \in Seq(D \ ids)
  <2>1. R \in [1..Len(R) -> D] /\ Len(R) \in Nat BY <1>3
  <2>2. R \in [1..Len(R) -> D \ ids] BY <1>4, <2>1
  <2> QED BY <2>1, <2>2
<1>6. ASSUME NEW id \in D \ ids
      PROVE  \E n \in 1..Len(R) : R[n] = id
  <2>1. PICK i \in 1..Len(q) : q[i] = id BY DEF QueueInOrder
  <2> QED BY <1>4, <2>1
<1>7. ASSUME NEW m \in 1..Len(R), NEW n \in 1..Len(R), m < n
      PROVE  w.entries[R[m]].gen < w.entries[R[n]].gen
  <2>1. inner.entries[q[pos[m]]].gen < inner.entries[q[pos[n]]].gen
    BY <1>4, <1>7 DEF QueueInOrder
  <2>2. R[m] \in D \ ids /\ R[n] \in D \ ids BY <1>5
  <2> QED BY <1>1, <1>4, <2>1, <2>2
<1>8. QueueInOrder(w) BY <1>1, <1>5, <1>6, <1>7 DEF QueueInOrder
<1> QED BY <1>1, <1>8 DEF w

\* The victim is tracked; it is a running one only when it is the oldest.
LEMMA VictimIsOldest ==
    ASSUME NEW inner, QueueInOrder(inner), NEW n \in Nat, DOMAIN inner.entries # {},
           inner.entries \in [DOMAIN inner.entries -> Entry(n)]
    PROVE  /\ Victim(inner) \in DOMAIN inner.entries
           /\ \/ IsTerminal(inner.entries[Victim(inner)])
              \/ \A id \in DOMAIN inner.entries :
                    inner.entries[Victim(inner)].gen <= inner.entries[id].gen
<1> DEFINE D == DOMAIN inner.entries
           q == inner.order
           finished == {i \in DOMAIN q : IsTerminal(inner.entries[q[i]])}
<1>1. /\ q \in Seq(D) /\ DOMAIN q = 1..Len(q) /\ Len(q) \in Nat
      /\ \A id \in D : \E i \in 1..Len(q) : q[i] = id
      /\ \A i \in 1..Len(q) : q[i] \in D
  <2>1. q \in Seq(D) BY DEF QueueInOrder
  <2>2. \A id \in D : \E i \in 1..Len(q) : q[i] = id BY DEF QueueInOrder
  <2> HIDE DEF D, q
  <2>3. DOMAIN q = 1..Len(q) /\ Len(q) \in Nat /\ \A i \in 1..Len(q) : q[i] \in D BY <2>1
  <2> QED BY <2>1, <2>2, <2>3
<1>2. 1 \in 1..Len(q) BY <1>1
<1>3. CASE finished # {}
  <2>1. finished \in SUBSET Nat BY <1>1
  <2>2. Victim(inner) = q[Min(finished)] BY <1>3 DEF Victim
  <2>3. Min(finished) \in finished
    <3> HIDE DEF finished
    <3> QED BY <1>3, <2>1, MinIsLeast
  <2>4. Min(finished) \in 1..Len(q) /\ IsTerminal(inner.entries[q[Min(finished)]])
    BY <1>1, <2>3
  <2>5. q[Min(finished)] \in D BY <1>1, <2>4
  <2> QED BY <2>2, <2>4, <2>5
<1>4. CASE finished = {}
  <2>1. Victim(inner) = q[1] BY <1>4 DEF Victim
  <2>2. ASSUME NEW id \in D PROVE inner.entries[q[1]].gen <= inner.entries[id].gen
    <3>1. PICK i \in 1..Len(q) : q[i] = id BY <1>1
    <3>2. i = 1 \/ 1 < i BY <1>1
    <3>3. 1 < i => inner.entries[q[1]].gen < inner.entries[id].gen
      BY <1>2, <3>1 DEF QueueInOrder
    <3>4. inner.entries[q[1]].gen \in Nat /\ inner.entries[id].gen \in Nat
      <4>1. q[1] \in D BY <1>1, <1>2
      <4>2. \A d \in D : inner.entries[d].gen \in 1..n BY DEF Entry
      <4> QED BY <4>1, <4>2
    <3> QED BY <3>1, <3>2, <3>3, <3>4
  <2> QED BY <1>1, <1>2, <2>1, <2>2
<1> QED BY <1>3, <1>4

\* A store with room gives out an id it does not track, with a suffix of at
\* most MAX_JOBS.
LEMMA UniqueIdIsFree ==
    ASSUME NEW inner, IsFiniteSet(DOMAIN inner.entries),
           Cardinality(DOMAIN inner.entries) < MaxTracked, NEW base
    PROVE  /\ UniqueId(inner, base) \notin DOMAIN inner.entries
           /\ \E round \in 1..MaxTracked : UniqueId(inner, base) = <<base, round>>
<1> DEFINE D == DOMAIN inner.entries
           free == {round \in 1..(MaxTracked + 1) : <<base, round>> \notin D}
<1>1. MaxTracked \in Nat /\ Cardinality(D) \in Nat
  BY JobStoreAssumption, FS_CardinalityType
<1>2. \E round \in 1..MaxTracked : <<base, round>> \notin D
  <2> SUFFICES ASSUME \A round \in 1..MaxTracked : <<base, round>> \in D PROVE FALSE OBVIOUS
  <2> DEFINE f == [round \in 1..MaxTracked |-> <<base, round>>]
  <2>1. f \in Injection(1..MaxTracked, D) BY DEF Injection, IsInjective
  <2>2. Cardinality(1..MaxTracked) = MaxTracked BY <1>1, FS_Interval
  <2>3. Cardinality(1..MaxTracked) <= Cardinality(D) BY <2>1, FS_Injection
  <2> QED BY <1>1, <2>2, <2>3
<1>3. free \in SUBSET Nat /\ free # {} BY <1>1, <1>2
<1>4. Min(free) \in free /\ \A y \in free : Min(free) <= y
  <2> HIDE DEF free
  <2> QED BY <1>3, MinIsLeast
<1>5. UniqueId(inner, base) = <<base, Min(free)>> BY DEF UniqueId
<1>6. Min(free) \in 1..MaxTracked
  <2>1. PICK y \in 1..MaxTracked : <<base, y>> \notin D BY <1>2
  <2>2. y \in free BY <1>1, <2>1
  <2>3. Min(free) \in 1..(MaxTracked + 1) /\ Min(free) <= y BY <1>4, <2>2
  <2> QED BY <1>1, <2>1, <2>3
<1>7. <<base, Min(free)>> \notin D BY <1>4
<1> QED BY <1>5, <1>6, <1>7

\* What a start finds after pruning and evicting: room for one more, the
\* remaining entries untouched and in order; a running job goes only when it is
\* signalled, and never one of the current reading while more starts may read
\* that time.
LEMMA RoomIsMade ==
    ASSUME JobInv, NEW old \in SUBSET Finished(Inner)
    PROVE  LET pruned == prune(Inner, old)
               room == evict(pruned)
           IN  /\ DOMAIN room.entries \subseteq DOMAIN jobs
               /\ \A id \in DOMAIN room.entries : room.entries[id] = jobs[id]
               /\ QueueInOrder(room)
               /\ IsFiniteSet(DOMAIN room.entries)
               /\ Cardinality(DOMAIN room.entries) < MaxTracked
               /\ \A id \in DOMAIN jobs \ DOMAIN room.entries :
                     jobs[id].state = "running" =>
                       /\ jobs[id].gen \in Signalled(pruned)
                       /\ ~(sameStarts # 0 /\ id[1] = reading)
               /\ \A g \in Signalled(pruned) :
                     \E id \in DOMAIN jobs \ DOMAIN room.entries : g = jobs[id].gen
<1> DEFINE pruned == prune(Inner, old)
           room == evict(pruned)
           n == Len(workers)
           P == DOMAIN pruned.entries
<1>1. /\ Inner.entries = jobs /\ Inner.order = queue /\ QueueInOrder(Inner) /\ n \in Nat
      /\ jobs \in [DOMAIN jobs -> Entry(n)]
  BY DEF Inner, JobInv, StoreTypes
<1>2. /\ P = DOMAIN jobs \ old /\ QueueInOrder(pruned)
      /\ \A id \in P : pruned.entries[id] = jobs[id]
  BY <1>1, WithoutKeeps DEF prune
<1>3. \A id \in old : id \in DOMAIN jobs /\ jobs[id].state # "running"
  BY <1>1 DEF Finished, IsTerminal
<1>4. pruned.entries \in [P -> Entry(n)]
  <2>1. pruned.entries = [id \in P |-> pruned.entries[id]]
    BY DEF prune, Without
  <2>2. \A id \in P : pruned.entries[id] \in Entry(n) BY <1>1, <1>2
  <2> QED BY <2>1, <2>2
<1>5. IsFiniteSet(DOMAIN jobs) /\ IsFiniteSet(P) /\ Cardinality(P) \in Nat
      /\ Cardinality(P) <= Cardinality(DOMAIN jobs) /\ Cardinality(DOMAIN jobs) \in Nat
  <2>1. IsFiniteSet(DOMAIN jobs) BY <1>1, QueueCounts
  <2>2. P \in SUBSET DOMAIN jobs BY <1>2
  <2> QED BY <2>1, <2>2, FS_Subset, FS_CardinalityType
<1>6. MaxTracked \in Nat \ {0} /\ Cardinality(DOMAIN jobs) <= MaxTracked
  BY JobStoreAssumption DEF JobInv, StoreTypes
<1> HIDE DEF pruned
<1>7. CASE ~Full(pruned)
  <2>1. room = pruned /\ Signalled(pruned) = {} BY <1>7 DEF evict, Signalled
  <2>2. Cardinality(P) < MaxTracked BY <1>5, <1>6, <1>7 DEF Full
  <2> QED BY <1>2, <1>3, <1>5, <2>1, <2>2 DEF pruned
<1>8. CASE Full(pruned)
  <2> DEFINE v == Victim(pruned)
  <2>1. room = Without(pruned, {v}) BY <1>8 DEF evict
  <2>2. Cardinality(P) >= MaxTracked BY <1>8 DEF Full
  <2>3. P # {} BY <1>5, <1>6, <2>2, FS_EmptySet
  <2>4. /\ v \in P
        /\ \/ IsTerminal(pruned.entries[v])
           \/ \A id \in P : pruned.entries[v].gen <= pruned.entries[id].gen
    BY <1>1, <1>2, <1>4, <2>3, VictimIsOldest
  <2>5. Signalled(pruned) = IF IsTerminal(jobs[v]) THEN {} ELSE {jobs[v].gen}
    BY <1>2, <1>8, <2>4 DEF Signalled
  <2> HIDE DEF v, room
  <2>6. /\ DOMAIN room.entries = P \ {v} /\ QueueInOrder(room)
        /\ \A id \in DOMAIN room.entries : room.entries[id] = pruned.entries[id]
    BY <1>2, <2>1, WithoutKeeps
  <2>7. IsFiniteSet(P \ {v}) /\ Cardinality(P \ {v}) = Cardinality(P) - 1
    BY <1>5, <2>4, FS_RemoveElement
  <2>8. Cardinality(P \ {v}) < MaxTracked BY <1>5, <1>6, <2>7
  <2>9. ASSUME jobs[v].state = "running", sameStarts # 0, v[1] = reading
        PROVE  FALSE
    <3> DEFINE S == {id \in DOMAIN jobs : id[1] = reading}
    <3>1. \A id \in P : jobs[v].gen <= jobs[id].gen
      BY <1>2, <2>4, <2>9 DEF IsTerminal
    <3>2. P \subseteq S
      <4> SUFFICES ASSUME NEW id \in P PROVE id[1] = reading BY <1>2
      <4>1. v \in DOMAIN jobs /\ id \in DOMAIN jobs BY <1>2, <2>4
      <4>2. jobs[v].gen \in Generations /\ jobs[id].gen \in Generations
            /\ jobs[v].gen \in Nat /\ jobs[id].gen \in Nat
        BY <1>1, <4>1 DEF Entry, Generations
      <4>3. workers[jobs[v].gen].id = v /\ workers[jobs[id].gen].id = id
        BY <4>1 DEF JobInv, EntriesMatch, EntryMatches
      <4>4. v[1] <= id[1] \/ jobs[v].gen = jobs[id].gen
        BY <3>1, <4>2, <4>3 DEF JobInv, ReadingsGrow
      <4>5. id[1] \in 1..reading /\ v[1] \in 1..reading /\ reading \in Nat
        BY <4>2, <4>3 DEF JobInv, ReadingsGrow, StoreTypes
      <4> QED BY <2>9, <4>3, <4>4, <4>5
    <3>3. IsFiniteSet(S) /\ Cardinality(P) <= Cardinality(S) /\ Cardinality(S) \in Nat
      <4>1. S \in SUBSET DOMAIN jobs OBVIOUS
      <4>2. IsFiniteSet(S) BY <1>5, <4>1, FS_Subset
      <4> HIDE DEF S
      <4> QED BY <3>2, <4>2, FS_Subset, FS_CardinalityType
    <3>4. Cardinality(S) <= sameStarts BY <2>9 DEF JobInv, ReadingTracked
    <3>5. sameStarts \in Nat /\ sameStarts < MaxTracked
      BY <1>6, JobStoreAssumption DEF JobInv, StoreTypes
    <3> QED BY <1>5, <1>6, <2>2, <3>3, <3>4, <3>5
  <2>10. \A id \in DOMAIN jobs \ DOMAIN room.entries : id \in old \/ id = v
    BY <1>2, <2>6
  <2>11. v \in DOMAIN jobs \ DOMAIN room.entries BY <1>2, <2>4, <2>6
  <2>12. jobs[v].state = "running" => jobs[v].gen \in Signalled(pruned)
    BY <2>5 DEF IsTerminal
  <2>13. \A g \in Signalled(pruned) : g = jobs[v].gen BY <2>5
  <2> QED
    BY <1>2, <1>3, <2>6, <2>7, <2>8, <2>9, <2>10, <2>11, <2>12, <2>13 DEF pruned, room
<1> QED BY <1>7, <1>8

\* Raising flags changes the flags of those generations only.
LEMMA RaiseFlags ==
    ASSUME workers \in Seq(WorkerRecord), NEW gens
    PROVE  /\ Raise(gens) \in Seq(WorkerRecord) /\ Len(Raise(gens)) = Len(workers)
           /\ \A g \in Generations :
                 /\ Raise(gens)[g].id = workers[g].id
                 /\ Raise(gens)[g].kind = workers[g].kind
                 /\ Raise(gens)[g].phase = workers[g].phase
                 /\ Raise(gens)[g].flag <=> workers[g].flag \/ g \in gens
<1> DEFINE r(g) == [workers[g] EXCEPT !.flag = @ \/ g \in gens]
<1>1. Len(workers) \in Nat /\ \A g \in 1..Len(workers) : workers[g] \in WorkerRecord OBVIOUS
<1>2. ASSUME NEW g \in 1..Len(workers)
      PROVE  /\ r(g) \in WorkerRecord /\ r(g).id = workers[g].id
             /\ r(g).kind = workers[g].kind /\ r(g).phase = workers[g].phase
             /\ r(g).flag <=> workers[g].flag \/ g \in gens
  <2>1. workers[g] \in WorkerRecord BY <1>1
  <2>2. (workers[g].flag \/ g \in gens) \in BOOLEAN OBVIOUS
  <2> QED BY <2>1, <2>2 DEF WorkerRecord
<1>3. Raise(gens) = [g \in 1..Len(workers) |-> r(g)] BY DEF Raise, Generations
<1> HIDE DEF r
<1>4. Raise(gens) \in [1..Len(workers) -> WorkerRecord] BY <1>2, <1>3
<1>5. Raise(gens) \in Seq(WorkerRecord) /\ Len(Raise(gens)) = Len(workers) BY <1>1, <1>4
<1> QED BY <1>2, <1>3, <1>5 DEF Generations

\* What the table, the queue and the workers are after a start: kept entries
\* stay, the one new entry is running, gens were told to stop.
Started(kept, round, gens, q) ==
    LET id == <<reading', round>>
        n == Len(workers)
    IN
    /\ kept \in SUBSET DOMAIN jobs /\ round \in 1..MaxTracked
    /\ reading' \in Nat /\ reading' >= reading /\ reading' # 0
    /\ \/ reading' = reading + 1 /\ sameStarts' = 1
       \/ /\ reading' = reading /\ sameStarts' = sameStarts + 1
          /\ sameStarts \in 1..(MaxSameReading - 1)
    /\ IsFiniteSet(kept) /\ Cardinality(kept) < MaxTracked /\ id \notin kept
    /\ DOMAIN jobs' = kept \cup {id}
    /\ jobs' = [i \in kept \cup {id} |-> jobs'[i]]
    /\ jobs'[id] = [state |-> "running", detail |-> "pending", gen |-> n + 1, by |-> n + 1]
    /\ \A i \in kept : jobs'[i] = jobs[i]
    /\ ListsInOrder(q, kept) /\ queue' = Append(q, id)
    /\ workers' \in Seq(WorkerRecord) /\ Len(workers') = n + 1
    /\ workers'[n + 1].id = id /\ ~workers'[n + 1].flag
    /\ workers'[n + 1].phase \in {"spawned", "running"}
    /\ \A g \in Generations :
          /\ workers'[g].id = workers[g].id /\ workers'[g].phase = workers[g].phase
          /\ workers'[g].flag <=> workers[g].flag \/ g \in gens
    /\ \A i \in DOMAIN jobs \ kept :
          jobs[i].state = "running" =>
             jobs[i].gen \in gens /\ ~(sameStarts # 0 /\ i[1] = reading)
    /\ \A g \in gens : \E i \in DOMAIN jobs \ kept : g = jobs[i].gen
    /\ \A g \in Generations : workers[g].id = id => workers[g].phase = "done"

\* What a start does to the clock, the table, the queue and the workers; its id
\* is no living worker's.
LEMMA StartEffect ==
    ASSUME JobInv, NEW kind \in {"process", "socket"}, NEW later \in BOOLEAN,
           NEW old \in SUBSET Finished(Inner), JobStart(kind, later, old)
    PROVE  \E kept, round, gens, q : Started(kept, round, gens, q)
<1> DEFINE pruned == prune(Inner, old)
           room == evict(pruned)
           id == UniqueId(room, reading')
           n == Len(workers)
           gens == Signalled(pruned)
           kept == DOMAIN room.entries
           new == [id |-> id, kind |-> kind, flag |-> FALSE,
                   phase |-> IF kind = "socket" THEN "spawned" ELSE "running"]
           entry == [state |-> "running", detail |-> "pending", gen |-> n + 1, by |-> n + 1]
<1>1. /\ reading \in Nat /\ sameStarts \in 0..MaxSameReading /\ workers \in Seq(WorkerRecord)
      /\ n \in Nat
  BY DEF JobInv, StoreTypes
<1>2. /\ later \/ sameStarts \in 1..(MaxSameReading - 1)
      /\ reading' = IF later THEN reading + 1 ELSE reading
      /\ sameStarts' = IF later THEN 1 ELSE sameStarts + 1
      /\ jobs' = [i \in kept \cup {id} |-> IF i = id THEN entry ELSE room.entries[i]]
      /\ queue' = Append(room.order, id)
      /\ workers' = Append(Raise(gens), new)
  BY DEF JobStart, SetInner
<1>3. /\ kept \subseteq DOMAIN jobs
      /\ \A i \in kept : room.entries[i] = jobs[i]
      /\ QueueInOrder(room)
      /\ IsFiniteSet(kept) /\ Cardinality(kept) < MaxTracked
      /\ \A i \in DOMAIN jobs \ kept :
            jobs[i].state = "running" =>
              jobs[i].gen \in gens /\ ~(sameStarts # 0 /\ i[1] = reading)
      /\ \A g \in gens : \E i \in DOMAIN jobs \ kept : g = jobs[i].gen
  BY RoomIsMade
<1>4. id \notin kept /\ \E round \in 1..MaxTracked : id = <<reading', round>>
  <2> HIDE DEF room
  <2>1. \A base : /\ UniqueId(room, base) \notin DOMAIN room.entries
                  /\ \E round \in 1..MaxTracked : UniqueId(room, base) = <<base, round>>
    BY <1>3, UniqueIdIsFree
  <2> QED BY <2>1
<1> HIDE DEF room, pruned, gens, id
<1>5. PICK round \in 1..MaxTracked : id = <<reading', round>> BY <1>4
<1>6. reading' \in Nat /\ reading' >= reading /\ reading' # 0
  <2>1. sameStarts \in 1..(MaxSameReading - 1) => reading # 0
    BY JobStoreAssumption DEF JobInv, ReadingTracked
  <2> QED BY <1>1, <1>2, <2>1
<1>7. \/ reading' = reading + 1 /\ sameStarts' = 1
      \/ /\ reading' = reading /\ sameStarts' = sameStarts + 1
         /\ sameStarts \in 1..(MaxSameReading - 1)
  BY <1>2
<1>8. /\ DOMAIN jobs' = kept \cup {id}
      /\ jobs' = [i \in kept \cup {id} |-> jobs'[i]]
      /\ jobs'[id] = entry
      /\ \A i \in kept : jobs'[i] = jobs[i]
  BY <1>2, <1>3, <1>4
<1>9. /\ Raise(gens) \in Seq(WorkerRecord) /\ Len(Raise(gens)) = n
      /\ \A g \in Generations :
            /\ Raise(gens)[g].id = workers[g].id /\ Raise(gens)[g].phase = workers[g].phase
            /\ Raise(gens)[g].flag <=> workers[g].flag \/ g \in gens
  BY <1>1, RaiseFlags
<1>10. /\ new \in WorkerRecord /\ new.id = id /\ new.flag = FALSE
       /\ new.phase \in {"spawned", "running"}
  <2>1. id \in Nat \X Nat BY <1>5, <1>6, JobStoreAssumption
  <2> QED BY <2>1 DEF WorkerRecord
<1> HIDE DEF new
<1>11. /\ workers' \in Seq(WorkerRecord) /\ Len(workers') = n + 1 /\ workers'[n + 1] = new
       /\ \A g \in Generations : workers'[g] = Raise(gens)[g]
  BY <1>1, <1>2, <1>9, <1>10 DEF Generations
<1>12. ASSUME NEW g \in Generations, workers[g].id = id, workers[g].phase # "done"
       PROVE  FALSE
  <2>1. workers[g].id[1] \in 1..reading BY DEF JobInv, ReadingsGrow
  <2>2. id[1] = reading' BY <1>5
  <2>3. reading' = reading /\ sameStarts # 0
    BY <1>1, <1>7, <1>12, <2>1, <2>2, JobStoreAssumption
  <2>4. id \in DOMAIN jobs /\ jobs[id].state = "running"
    BY <1>12, <2>2, <2>3 DEF JobInv, ReadingTracked
  <2> QED BY <1>3, <1>4, <2>2, <2>3, <2>4
<1>13. ListsInOrder(room.order, kept) /\ queue' = Append(room.order, id)
  <2> DEFINE q == room.order
  <2>1. q \in Seq(kept) /\ \A i \in kept : \E k \in 1..Len(q) : q[k] = i
    BY <1>3 DEF QueueInOrder
  <2>2. \A i \in 1..Len(q) : q[i] \in kept
    <3> HIDE DEF q
    <3> QED BY <2>1
  <2>3. \A i, k \in 1..Len(q) : i < k => room.entries[q[i]].gen < room.entries[q[k]].gen
    BY <1>3 DEF QueueInOrder
  <2> QED BY <1>2, <1>3, <2>1, <2>2, <2>3 DEF ListsInOrder
<1> HIDE DEF kept, entry, n
<1> QED
  <2>1. kept \in SUBSET DOMAIN jobs BY <1>3
  <2>2. entry = [state |-> "running", detail |-> "pending", gen |-> n + 1, by |-> n + 1]
    BY DEF entry
  <2>3. Started(kept, round, gens, room.order)
    BY <1>3, <1>4, <1>5, <1>6, <1>7, <1>8, <1>9, <1>10, <1>11, <1>12, <1>13, <2>1, <2>2
    DEF n, Started
  <2> QED BY <2>3

-----------------------------------------------------------------------------
(* One lemma per step of JobNext                                           *)

\* What the provers need to know of the table and the workers.
LEMMA StoreShape ==
    ASSUME JobInv
    PROVE  /\ Len(workers) \in Nat /\ Generations = 1..Len(workers)
           /\ \A g \in Generations : workers[g] \in WorkerRecord
           /\ \A id \in DOMAIN jobs : /\ jobs[id] \in Entry(Len(workers))
                                     /\ jobs[id].gen \in Generations
           /\ IsFiniteSet(DOMAIN jobs)
<1>1. Len(workers) \in Nat /\ Generations = 1..Len(workers)
      /\ \A g \in Generations : workers[g] \in WorkerRecord
  BY DEF JobInv, StoreTypes, Generations
<1>2. \A id \in DOMAIN jobs : jobs[id] \in Entry(Len(workers)) BY DEF JobInv, StoreTypes
<1>3. \A id \in DOMAIN jobs : jobs[id].gen \in 1..Len(workers) BY <1>2 DEF Entry
<1>4. IsFiniteSet(DOMAIN jobs)
  <2>1. Inner.entries = jobs BY DEF Inner
  <2>2. Inner.entries \in [DOMAIN Inner.entries -> Entry(Len(workers))]
    BY <2>1 DEF JobInv, StoreTypes
  <2> QED BY <1>1, <2>1, <2>2, QueueCounts DEF JobInv
<1> QED BY <1>1, <1>2, <1>3, <1>4

\* A start makes room, takes a fresh id and signals a running job it evicts.
LEMMA StartStep ==
    ASSUME JobInv, NEW kind \in {"process", "socket"}, NEW later \in BOOLEAN,
           NEW old \in SUBSET Finished(Inner), JobStart(kind, later, old)
    PROVE  JobInv'
<1> DEFINE n == Len(workers)
<1>0. PICK kept, round, gens, q : Started(kept, round, gens, q) BY StartEffect
<1>1. LET id == <<reading', round>> IN
      /\ kept \in SUBSET DOMAIN jobs /\ round \in 1..MaxTracked
      /\ reading' \in Nat /\ reading' >= reading /\ reading' # 0
      /\ \/ reading' = reading + 1 /\ sameStarts' = 1
         \/ /\ reading' = reading /\ sameStarts' = sameStarts + 1
            /\ sameStarts \in 1..(MaxSameReading - 1)
      /\ IsFiniteSet(kept) /\ Cardinality(kept) < MaxTracked /\ id \notin kept
      /\ DOMAIN jobs' = kept \cup {id}
      /\ jobs' = [i \in kept \cup {id} |-> jobs'[i]]
      /\ jobs'[id] = [state |-> "running", detail |-> "pending", gen |-> n + 1, by |-> n + 1]
      /\ \A i \in kept : jobs'[i] = jobs[i]
      /\ ListsInOrder(q, kept) /\ queue' = Append(q, id)
      /\ workers' \in Seq(WorkerRecord) /\ Len(workers') = n + 1
      /\ workers'[n + 1].id = id /\ ~workers'[n + 1].flag
      /\ workers'[n + 1].phase \in {"spawned", "running"}
      /\ \A g \in Generations :
            /\ workers'[g].id = workers[g].id /\ workers'[g].phase = workers[g].phase
            /\ workers'[g].flag <=> workers[g].flag \/ g \in gens
      /\ \A i \in DOMAIN jobs \ kept :
            jobs[i].state = "running" =>
               jobs[i].gen \in gens /\ ~(sameStarts # 0 /\ i[1] = reading)
      /\ \A g \in gens : \E i \in DOMAIN jobs \ kept : g = jobs[i].gen
      /\ \A g \in Generations : workers[g].id = id => workers[g].phase = "done"
  BY <1>0 DEF Started
<1> kept \in SUBSET DOMAIN jobs /\ round \in 1..MaxTracked BY <1>1
<1> DEFINE id == <<reading', round>>
           entry == [state |-> "running", detail |-> "pending", gen |-> n + 1, by |-> n + 1]
<1>2. /\ n \in Nat /\ Generations = 1..n
      /\ \A i \in DOMAIN jobs : jobs[i] \in Entry(n) /\ jobs[i].gen \in 1..n
      /\ reading \in Nat /\ sameStarts \in 0..MaxSameReading
      /\ MaxTracked \in Nat \ {0} /\ MaxSameReading \in 1..(MaxTracked - 1)
  BY StoreShape, JobStoreAssumption DEF JobInv, StoreTypes
<1>3. /\ Generations' = 1..(n + 1) /\ n + 1 \notin 1..n /\ 1..n \subseteq 1..(n + 1)
      /\ \A g \in 1..(n + 1) : g = n + 1 \/ g \in 1..n
  BY <1>1, <1>2 DEF Generations
<1>4. id[1] = reading' /\ id[2] = round /\ id \notin kept /\ jobs'[id] = entry
      /\ DOMAIN jobs' = kept \cup {id} /\ kept \subseteq DOMAIN jobs
  BY <1>1
<1>5. ListsInOrder(q, kept) /\ queue' = Append(q, id) BY <1>1
<1>5a. \A i \in DOMAIN jobs \ kept : jobs[i].state = "running" => jobs[i].gen \in gens
  BY <1>1
<1>5b. \/ reading' = reading + 1 /\ sameStarts' = 1
      \/ /\ reading' = reading /\ sameStarts' = sameStarts + 1
         /\ sameStarts \in 1..(MaxSameReading - 1)
  BY <1>1
<1>6. \A i, k \in DOMAIN jobs : jobs[i].gen = jobs[k].gen => i = k
  BY DEF JobInv, EntriesMatch, EntryMatches
<1>7. \A i \in kept : jobs[i].gen \notin gens
  <2>1. \A g \in gens : \E i \in DOMAIN jobs \ kept : g = jobs[i].gen BY <1>1
  <2> QED BY <1>4, <1>6, <2>1
<1>8. \A i \in kept : jobs'[i] = jobs[i] /\ jobs[i].gen \in 1..n BY <1>1, <1>2
<1>9. /\ workers'[n + 1].id = id /\ ~workers'[n + 1].flag
      /\ workers'[n + 1].phase \in {"spawned", "running"}
      /\ \A g \in 1..n : /\ workers'[g].id = workers[g].id /\ workers'[g].phase = workers[g].phase
                         /\ workers'[g].flag <=> workers[g].flag \/ g \in gens
      /\ \A g \in 1..n : workers[g].id = id => workers[g].phase = "done"
  BY <1>1, <1>2
<1>10. StoreTypes'
  <2>1. entry \in Entry(n + 1) BY <1>2 DEF Entry, JobStates, JobDetails
  <2>2. \A i \in kept : jobs'[i] \in Entry(n + 1) BY <1>2, <1>3, <1>8 DEF Entry
  <2>3. jobs' \in [DOMAIN jobs' -> Entry(n + 1)]
    <3>1. jobs' = [i \in DOMAIN jobs' |-> jobs'[i]] BY <1>1
    <3>2. \A i \in DOMAIN jobs' : jobs'[i] \in Entry(n + 1) BY <1>4, <2>1, <2>2
    <3> QED BY <3>1, <3>2
  <2>4. DOMAIN jobs' \subseteq (1..reading') \X (1..MaxTracked)
    <3>1. DOMAIN jobs \subseteq (1..reading) \X (1..MaxTracked) BY DEF JobInv, StoreTypes
    <3>2. 1..reading \subseteq 1..reading' BY <1>1, <1>2
    <3>3. id \in (1..reading') \X (1..MaxTracked) BY <1>1
    <3> QED BY <1>4, <3>1, <3>2, <3>3
  <2>5. Cardinality(DOMAIN jobs') <= MaxTracked
    <3>1. Cardinality(kept \cup {id}) = Cardinality(kept) + 1 /\ Cardinality(kept) \in Nat
      BY <1>1, FS_AddElement, FS_CardinalityType
    <3> QED BY <1>1, <1>2, <1>4, <3>1
  <2>6. sameStarts' \in 0..MaxSameReading BY <1>1, <1>2
  <2> QED BY <1>1, <2>3, <2>4, <2>5, <2>6 DEF StoreTypes
<1>11. QueueInOrder(Inner)'
  <2> DEFINE L == Len(q)
  <2> HIDE DEF id
  <2>2. /\ q \in Seq(kept) /\ \A i \in kept : \E k \in 1..L : q[k] = i
        /\ \A i, k \in 1..L : i < k => jobs[q[i]].gen < jobs[q[k]].gen
    BY <1>5 DEF ListsInOrder
  <2>3. queue' = Append(q, id) BY <1>5
  <2>4. /\ L \in Nat /\ Append(q, id) \in Seq(kept \cup {id}) /\ Len(Append(q, id)) = L + 1
        /\ Append(q, id)[L + 1] = id /\ \A i \in 1..L : Append(q, id)[i] = q[i] /\ q[i] \in kept
    BY <2>2
  <2>5. \A i \in 1..(L + 1) : i = L + 1 \/ i \in 1..L BY <2>4
  <2>6. \A i \in kept \cup {id} : \E k \in 1..(L + 1) : queue'[k] = i
    BY <2>2, <2>3, <2>4
  <2>7. \A i, k \in 1..(L + 1) : i < k => jobs'[queue'[i]].gen < jobs'[queue'[k]].gen
    <3> SUFFICES ASSUME NEW i \in 1..(L + 1), NEW k \in 1..(L + 1), i < k
                 PROVE  jobs'[queue'[i]].gen < jobs'[queue'[k]].gen
      OBVIOUS
    <3>1. i \in 1..L /\ queue'[i] = q[i] /\ q[i] \in kept BY <2>3, <2>4
    <3>2. CASE k = L + 1
      <4>1. queue'[k] = id /\ jobs'[id].gen = n + 1 BY <1>4, <2>3, <2>4, <3>2
      <4>2. jobs'[q[i]].gen \in 1..n BY <1>8, <3>1
      <4> QED BY <1>2, <3>1, <4>1, <4>2
    <3>3. CASE k \in 1..L
      <4>1. queue'[k] = q[k] /\ q[k] \in kept BY <2>3, <2>4, <3>3
      <4> QED BY <1>8, <2>2, <3>1, <3>3, <4>1
    <3> QED BY <2>5, <3>2, <3>3
  <2> QED BY <1>4, <2>3, <2>4, <2>6, <2>7 DEF QueueInOrder, Inner
<1> HIDE DEF n
<1>12. EntriesMatch'
  <2> SUFFICES ASSUME NEW i \in DOMAIN jobs' PROVE EntryMatches(i, jobs'[i], workers'[jobs'[i].gen])
    BY DEF EntriesMatch
  <2>1. CASE i = id BY <1>4, <1>9, <2>1 DEF EntryMatches
  <2>2. CASE i \in kept
    <3>1. EntryMatches(i, jobs[i], workers[jobs[i].gen]) BY <2>2 DEF JobInv, EntriesMatch
    <3> QED BY <1>7, <1>8, <1>9, <2>2, <3>1 DEF EntryMatches
  <2> QED BY <1>4, <2>1, <2>2
<1>13. WritersOwn'
  <2> SUFFICES ASSUME NEW i \in DOMAIN jobs', NEW g \in 1..(n + 1),
                      workers'[g].id = i, workers'[g].phase # "done"
               PROVE  jobs'[i].gen = g
    BY <1>3 DEF WritersOwn
  <2>1. CASE g = n + 1 BY <1>4, <1>9, <2>1
  <2>2. CASE g \in 1..n
    <3>1. workers[g].id = i /\ workers[g].phase # "done" BY <1>9, <2>2
    <3>2. i \in kept BY <1>4, <1>9, <2>2, <3>1
    <3> QED BY <1>2, <1>8, <2>2, <3>1, <3>2 DEF JobInv, WritersOwn
  <2> QED BY <1>3, <2>1, <2>2
<1>14. \A g \in 1..n : workers[g].id[1] \in 1..reading BY <1>2 DEF JobInv, ReadingsGrow
<1>15. ReadingsGrow'
  <2>1. ASSUME NEW g \in 1..(n + 1) PROVE workers'[g].id[1] \in 1..reading'
    <3>1. 1..reading \subseteq 1..reading' /\ reading' \in 1..reading' BY <1>1, <1>2
    <3>2. g = n + 1 => workers'[g].id[1] = reading' BY <1>4, <1>9
    <3>3. g \in 1..n => workers'[g].id[1] \in 1..reading BY <1>9, <1>14
    <3> QED BY <1>3, <3>1, <3>2, <3>3
  <2>2. ASSUME NEW g \in 1..(n + 1), NEW h \in 1..(n + 1), g < h
        PROVE  workers'[g].id[1] <= workers'[h].id[1]
    <3>1. CASE h = n + 1 BY <1>4, <1>9, <2>1, <3>1
    <3>2. CASE h \in 1..n
      <4>1. g \in 1..n BY <1>2, <2>2, <3>2
      <4> QED BY <1>2, <1>9, <2>2, <3>2, <4>1 DEF JobInv, ReadingsGrow
    <3> QED BY <1>3, <3>1, <3>2
  <2>3. ASSUME NEW g \in 1..(n + 1), workers'[g].phase = "dismissed"
        PROVE  workers'[g].flag
    BY <1>2, <1>3, <1>9, <2>3 DEF JobInv, ReadingsGrow
  <2> QED BY <1>3, <2>1, <2>2, <2>3 DEF ReadingsGrow
<1>16. ReadingTracked'
  <2> DEFINE S == {i \in DOMAIN jobs : i[1] = reading}
             T == {i \in DOMAIN jobs' : i[1] = reading'}
             K == {i \in kept : i[1] = reading'}
  <2>0. ASSUME Cardinality(T) <= sameStarts',
               \A g \in 1..n : workers'[g].id[1] = reading' /\ workers'[g].phase # "done" =>
                  /\ workers'[g].id \in DOMAIN jobs' /\ jobs'[workers'[g].id].gen = g
                  /\ jobs'[workers'[g].id].state = "running"
        PROVE  ReadingTracked'
    <3>1. ASSUME NEW g \in 1..(n + 1), workers'[g].id[1] = reading', workers'[g].phase # "done"
          PROVE  /\ workers'[g].id \in DOMAIN jobs' /\ jobs'[workers'[g].id].gen = g
                 /\ jobs'[workers'[g].id].state = "running"
      <4>1. CASE g = n + 1 BY <1>4, <1>9, <4>1
      <4>2. CASE g \in 1..n BY <2>0, <3>1, <4>2
      <4> QED BY <1>3, <4>1, <4>2
    <3>2. reading' # 0 BY <1>1
    <3> QED BY <1>3, <2>0, <3>1, <3>2 DEF ReadingTracked
  <2>1. T = K \cup {id} /\ id \notin K BY <1>4
  <2>2. IsFiniteSet(K) /\ Cardinality(K) \in Nat /\ Cardinality(T) = Cardinality(K) + 1
    <3>1. IsFiniteSet(K) BY <1>1, FS_Subset
    <3> HIDE DEF K, T, id
    <3> QED BY <2>1, <3>1, FS_AddElement, FS_CardinalityType
  <2>3. CASE reading' = reading + 1 /\ sameStarts' = 1
    <3>1. \A i \in kept : i[1] \in 1..reading BY <1>4 DEF JobInv, StoreTypes
    <3>2. K = {} BY <1>2, <2>3, <3>1
    <3>3. Cardinality(K) = 0 BY <3>2, FS_EmptySet
    <3>4. \A g \in 1..n : workers'[g].id[1] # reading' BY <1>2, <1>9, <1>14, <2>3
    <3>5. Cardinality(T) <= sameStarts' BY <2>2, <2>3, <3>3
    <3> QED BY <2>0, <3>4, <3>5
  <2>4. CASE /\ reading' = reading /\ sameStarts' = sameStarts + 1
             /\ sameStarts \in 1..(MaxSameReading - 1)
    <3>1. sameStarts # 0 BY <1>2, <2>4
    <3>2. Cardinality(S) <= sameStarts BY <3>1 DEF JobInv, ReadingTracked
    <3>3. IsFiniteSet(S) /\ Cardinality(S) \in Nat /\ Cardinality(K) <= Cardinality(S)
      <4>1. IsFiniteSet(DOMAIN jobs) /\ S \in SUBSET DOMAIN jobs BY StoreShape
      <4>2. IsFiniteSet(S) BY <4>1, FS_Subset
      <4>3. K \in SUBSET S BY <1>4, <2>4
      <4> HIDE DEF K, S
      <4> QED BY <4>2, <4>3, FS_Subset, FS_CardinalityType
    <3>4. Cardinality(T) <= sameStarts' BY <1>2, <2>2, <2>4, <3>2, <3>3
    <3>5. ASSUME NEW g \in 1..n, workers'[g].id[1] = reading', workers'[g].phase # "done"
          PROVE  /\ workers'[g].id \in kept /\ jobs'[workers'[g].id].gen = g
                 /\ jobs'[workers'[g].id].state = "running"
      <4>1. workers[g].id[1] = reading /\ workers[g].phase # "done" BY <1>9, <2>4, <3>5
      <4>2. /\ workers[g].id \in DOMAIN jobs /\ jobs[workers[g].id].gen = g
            /\ jobs[workers[g].id].state = "running"
        BY <1>2, <3>1, <4>1 DEF JobInv, ReadingTracked
      <4>3. workers[g].id \in kept BY <1>1, <3>1, <4>1, <4>2
      <4> QED BY <1>8, <1>9, <4>2, <4>3
    <3> QED BY <1>4, <2>0, <3>4, <3>5
  <2> QED BY <1>5b, <2>3, <2>4
<1>17. UntrackedAreSignalled'
  <2> SUFFICES ASSUME NEW g \in 1..(n + 1), workers'[g].phase \in {"spawned", "running"},
                      ~ \E i \in DOMAIN jobs' : jobs'[i].gen = g /\ jobs'[i].state = "running"
               PROVE  workers'[g].flag
    BY <1>3 DEF UntrackedAreSignalled
  <2>1. g \in 1..n BY <1>3, <1>4
  <2>2. workers[g].phase \in {"spawned", "running"} BY <1>9, <2>1
  <2>3. CASE \E i \in DOMAIN jobs : jobs[i].gen = g /\ jobs[i].state = "running"
    <3>1. PICK i \in DOMAIN jobs : jobs[i].gen = g /\ jobs[i].state = "running" BY <2>3
    <3>2. i \notin kept BY <1>4, <1>8, <3>1
    <3> QED BY <1>5a, <1>9, <2>1, <3>1, <3>2
  <2>4. CASE ~ \E i \in DOMAIN jobs : jobs[i].gen = g /\ jobs[i].state = "running"
    BY <1>2, <1>9, <2>1, <2>2, <2>4 DEF JobInv, UntrackedAreSignalled
  <2> QED BY <2>3, <2>4
<1> QED BY <1>10, <1>11, <1>12, <1>13, <1>15, <1>16, <1>17 DEF JobInv

\* Looking at a job drops entries that ended; their workers are through or
\* were told to stop.
LEMMA StatusStep ==
    ASSUME JobInv, NEW old \in SUBSET Finished(Inner), JobStatus(old)
    PROVE  JobInv'
<1> DEFINE w == Without(Inner, old)
<1>1. /\ jobs' = w.entries /\ queue' = w.order /\ workers' = workers /\ reading' = reading
      /\ sameStarts' = sameStarts
  BY DEF JobStatus, SetInner, prune
<1>2. Inner.entries = jobs /\ QueueInOrder(Inner) BY DEF JobInv, Inner
<1>3. /\ DOMAIN w.entries = DOMAIN jobs \ old
      /\ \A id \in DOMAIN w.entries : w.entries[id] = jobs[id]
      /\ QueueInOrder(w)
  BY <1>2, WithoutKeeps
<1>4. w.entries = [id \in DOMAIN jobs \ old |-> jobs[id]] /\ w = [entries |-> w.entries, order |-> w.order]
  BY <1>2 DEF Without
<1> HIDE DEF w
<1>5. /\ DOMAIN jobs' = DOMAIN jobs \ old /\ \A id \in DOMAIN jobs' : jobs'[id] = jobs[id]
      /\ jobs' = [id \in DOMAIN jobs \ old |-> jobs[id]]
  BY <1>1, <1>3, <1>4
<1>6. \A id \in old : id \in DOMAIN jobs /\ jobs[id].state # "running"
  BY <1>2 DEF Finished, IsTerminal
<1>7. /\ Generations' = Generations
      /\ \A id \in DOMAIN jobs : jobs[id] \in Entry(Len(workers)) /\ IsFiniteSet(DOMAIN jobs)
  BY <1>1, StoreShape DEF Generations
<1>8. StoreTypes'
  <2>1. jobs' \in [DOMAIN jobs' -> Entry(Len(workers))] BY <1>5, <1>7
  <2>2. Cardinality(DOMAIN jobs') <= MaxTracked
    <3>1. IsFiniteSet(DOMAIN jobs) /\ DOMAIN jobs' \in SUBSET DOMAIN jobs BY <1>5, StoreShape
    <3>2. IsFiniteSet(DOMAIN jobs') /\ Cardinality(DOMAIN jobs') <= Cardinality(DOMAIN jobs)
      BY <3>1, FS_Subset
    <3>3. Cardinality(DOMAIN jobs') \in Nat /\ Cardinality(DOMAIN jobs) \in Nat
      BY <3>1, <3>2, FS_CardinalityType
    <3>4. Cardinality(DOMAIN jobs) <= MaxTracked /\ MaxTracked \in Nat
      BY JobStoreAssumption DEF JobInv, StoreTypes
    <3> QED BY <3>2, <3>3, <3>4
  <2> QED BY <1>1, <1>5, <2>1, <2>2 DEF JobInv, StoreTypes
<1>9. QueueInOrder(Inner)'
  <2>1. Inner' = w BY <1>1, <1>4 DEF Inner
  <2>2. QueueInOrder(w) BY <1>3
  <2>3. QueueInOrder(Inner') BY <2>1, <2>2
  <2> QED BY <2>3 DEF QueueInOrder, Inner
<1>10. EntriesMatch' /\ WritersOwn' /\ ReadingsGrow'
  BY <1>1, <1>5, <1>7 DEF JobInv, EntriesMatch, WritersOwn, ReadingsGrow
<1>11. ReadingTracked'
  <2> SUFFICES ASSUME sameStarts # 0
               PROVE  /\ reading # 0
                      /\ Cardinality({id \in DOMAIN jobs' : id[1] = reading}) <= sameStarts
                      /\ \A g \in Generations :
                            workers[g].id[1] = reading /\ workers[g].phase # "done" =>
                              /\ workers[g].id \in DOMAIN jobs'
                              /\ jobs'[workers[g].id].gen = g
                              /\ jobs'[workers[g].id].state = "running"
    BY <1>1, <1>7 DEF ReadingTracked
  <2> DEFINE S == {id \in DOMAIN jobs : id[1] = reading}
             T == {id \in DOMAIN jobs' : id[1] = reading}
  <2>1. Cardinality(S) <= sameStarts /\ reading # 0 BY DEF JobInv, ReadingTracked
  <2>2. IsFiniteSet(S) /\ T \in SUBSET S
    <3>1. S \in SUBSET DOMAIN jobs /\ IsFiniteSet(DOMAIN jobs) BY StoreShape
    <3> QED BY <1>5, <3>1, FS_Subset
  <2>3. Cardinality(T) <= Cardinality(S) /\ Cardinality(S) \in Nat /\ Cardinality(T) \in Nat
    <3> HIDE DEF S, T
    <3> QED BY <2>2, FS_Subset, FS_CardinalityType
  <2>4. Cardinality(T) <= sameStarts
    <3> HIDE DEF S, T
    <3>1. sameStarts \in Nat BY JobStoreAssumption DEF JobInv, StoreTypes
    <3> QED BY <2>1, <2>3, <3>1
  <2> QED BY <1>5, <1>6, <2>1, <2>4 DEF JobInv, ReadingTracked
<1>12. UntrackedAreSignalled'
  BY <1>1, <1>5, <1>6, <1>7 DEF JobInv, UntrackedAreSignalled
<1> QED BY <1>8, <1>9, <1>10, <1>11, <1>12 DEF JobInv

\* A step that keeps the set of tracked ids, their generations, the queue and
\* the clock keeps the types, the queue's order and the count of the reading.
LEMMA TableKept ==
    ASSUME JobInv, UNCHANGED <<queue, reading>>, sameStarts' \in {0, sameStarts},
           jobs' \in [DOMAIN jobs -> Entry(Len(workers))],
           \A id \in DOMAIN jobs : jobs'[id].gen = jobs[id].gen,
           workers' \in Seq(WorkerRecord), Len(workers') = Len(workers),
           \A g \in Generations : workers'[g].id = workers[g].id,
           \A g \in Generations : workers'[g].phase = "dismissed" => workers'[g].flag
    PROVE  /\ StoreTypes' /\ QueueInOrder(Inner)' /\ ReadingsGrow'
           /\ DOMAIN jobs' = DOMAIN jobs /\ Generations' = Generations
           /\ (\A g \in Generations :
                  sameStarts' # 0 /\ workers[g].id[1] = reading /\ workers'[g].phase # "done" =>
                    workers[g].phase # "done" /\ jobs'[workers[g].id].state = "running")
              => ReadingTracked'
<1>1. DOMAIN jobs' = DOMAIN jobs /\ Generations' = Generations BY DEF Generations
<1>2. sameStarts' \in 0..MaxSameReading BY JobStoreAssumption DEF JobInv, StoreTypes
<1>3. StoreTypes' BY <1>1, <1>2 DEF JobInv, StoreTypes
<1>4. QueueInOrder(Inner)'
  <2> DEFINE L == Len(queue)
  <2>1. /\ queue \in Seq(DOMAIN jobs) /\ \A id \in DOMAIN jobs : \E i \in 1..L : queue[i] = id
        /\ \A i, k \in 1..L : i < k => jobs[queue[i]].gen < jobs[queue[k]].gen
    BY DEF JobInv, QueueInOrder, Inner
  <2>2. \A i \in 1..L : queue[i] \in DOMAIN jobs BY <2>1
  <2>3. queue' = queue /\ Inner.order = queue /\ Inner.entries = jobs BY DEF Inner
  <2>4. Inner'.order = queue /\ Inner'.entries = jobs' BY <2>3 DEF Inner
  <2>5. \A i, k \in 1..L : i < k => jobs'[queue[i]].gen < jobs'[queue[k]].gen BY <2>1, <2>2
  <2> QED BY <1>1, <2>1, <2>4, <2>5 DEF QueueInOrder
<1>5. ReadingsGrow' BY <1>1 DEF JobInv, ReadingsGrow
<1>6. ASSUME \A g \in Generations :
               sameStarts' # 0 /\ workers[g].id[1] = reading /\ workers'[g].phase # "done" =>
                 workers[g].phase # "done" /\ jobs'[workers[g].id].state = "running"
      PROVE  ReadingTracked'
  BY <1>1, <1>6 DEF JobInv, ReadingTracked
<1> QED BY <1>1, <1>3, <1>4, <1>5, <1>6

\* Cancelling marks the entry and tells its worker.
LEMMA CancelStep ==
    ASSUME JobInv, NEW id \in DOMAIN jobs, JobCancel(id)
    PROVE  JobInv'
<1> DEFINE c == [jobs[id] EXCEPT !.state = "cancelled", !.detail = "cancelled"]
           gen == jobs[id].gen
<1>1. /\ jobs[id].state = "running" /\ jobs' = [jobs EXCEPT ![id] = c] /\ queue' = queue
      /\ workers' = Raise({gen}) /\ sameStarts' = 0 /\ reading' = reading
  BY DEF JobCancel, SetInner, Inner, Cancelled
<1>2. /\ jobs \in [DOMAIN jobs -> Entry(Len(workers))] /\ jobs[id] \in Entry(Len(workers))
      /\ gen \in Generations /\ workers \in Seq(WorkerRecord)
  BY StoreShape DEF JobInv, StoreTypes
<1>3. /\ c \in Entry(Len(workers)) /\ c.gen = gen /\ c.by = jobs[id].by
      /\ c.state = "cancelled" /\ c.detail = "cancelled"
  BY <1>2 DEF Entry, JobStates, JobDetails
<1> HIDE DEF c
<1>4. /\ workers' \in Seq(WorkerRecord) /\ Len(workers') = Len(workers)
      /\ \A g \in Generations :
            /\ workers'[g].id = workers[g].id /\ workers'[g].phase = workers[g].phase
            /\ workers'[g].flag <=> workers[g].flag \/ g = gen
  BY <1>1, <1>2, RaiseFlags
<1>5. /\ jobs' \in [DOMAIN jobs -> Entry(Len(workers))] /\ jobs'[id] = c
      /\ \A i \in DOMAIN jobs : i # id => jobs'[i] = jobs[i]
  BY <1>1, <1>2, <1>3
<1>6. \A i \in DOMAIN jobs : jobs'[i].gen = jobs[i].gen BY <1>3, <1>5
<1>7. \A g \in Generations : workers'[g].phase = "dismissed" => workers'[g].flag
  BY <1>4 DEF JobInv, ReadingsGrow
<1>8. /\ StoreTypes' /\ QueueInOrder(Inner)' /\ ReadingsGrow' /\ ReadingTracked'
      /\ DOMAIN jobs' = DOMAIN jobs /\ Generations' = Generations
  BY <1>1, <1>4, <1>5, <1>6, <1>7, TableKept
<1>9. EntriesMatch'
  <2> SUFFICES ASSUME NEW i \in DOMAIN jobs PROVE EntryMatches(i, jobs'[i], workers'[jobs'[i].gen])
    BY <1>8 DEF EntriesMatch
  <2>1. EntryMatches(i, jobs[i], workers[jobs[i].gen]) /\ EntryMatches(id, jobs[id], workers[gen])
        /\ jobs[i].gen \in Generations
    BY StoreShape DEF JobInv, EntriesMatch
  <2>2. CASE i = id BY <1>2, <1>3, <1>4, <1>5, <2>1, <2>2 DEF EntryMatches
  <2>3. CASE i # id
    <3>1. jobs[i].gen # gen BY <2>1, <2>3 DEF EntryMatches
    <3> QED BY <1>4, <1>5, <2>1, <2>3, <3>1 DEF EntryMatches
  <2> QED BY <2>2, <2>3
<1>10. WritersOwn' BY <1>4, <1>6, <1>8 DEF JobInv, WritersOwn
<1>11. UntrackedAreSignalled'
  <2> SUFFICES ASSUME NEW g \in Generations, workers'[g].phase \in {"spawned", "running"},
                      ~ \E i \in DOMAIN jobs : jobs'[i].gen = g /\ jobs'[i].state = "running"
               PROVE  workers'[g].flag
    BY <1>8 DEF UntrackedAreSignalled
  <2>1. CASE g = gen BY <1>4, <2>1
  <2>2. CASE g # gen
    <3>1. ~ \E i \in DOMAIN jobs : jobs[i].gen = g /\ jobs[i].state = "running" BY <1>5, <2>2
    <3> QED BY <1>4, <3>1 DEF JobInv, UntrackedAreSignalled
  <2> QED BY <2>1, <2>2
<1> QED BY <1>8, <1>9, <1>10, <1>11 DEF JobInv

\* A worker's record is replaced.
LEMMA WorkerReplaced ==
    ASSUME workers \in Seq(WorkerRecord), NEW g \in Generations, NEW r \in WorkerRecord,
           workers' = [workers EXCEPT ![g] = r]
    PROVE  /\ workers' \in Seq(WorkerRecord) /\ Len(workers') = Len(workers)
           /\ workers'[g] = r /\ \A h \in Generations : h # g => workers'[h] = workers[h]
BY DEF Generations

\* A socket worker looks at its flag, once.
LEMMA BeginStep ==
    ASSUME JobInv, NEW g \in Generations, WorkerBegins(g)
    PROVE  JobInv'
<1> DEFINE r == [workers[g] EXCEPT !.phase = IF workers[g].flag THEN "dismissed" ELSE "running"]
<1>1. /\ workers[g].phase = "spawned" /\ workers' = [workers EXCEPT ![g] = r]
      /\ UNCHANGED <<jobs, queue, reading, sameStarts>>
  BY DEF WorkerBegins
<1>2. workers \in Seq(WorkerRecord) /\ workers[g] \in WorkerRecord BY StoreShape DEF JobInv, StoreTypes
<1>3. /\ r \in WorkerRecord /\ r.id = workers[g].id /\ r.flag = workers[g].flag
      /\ r.phase \in {"dismissed", "running"} /\ (r.phase = "dismissed" => r.flag)
  BY <1>2 DEF WorkerRecord
<1> HIDE DEF r
<1>4. /\ workers' \in Seq(WorkerRecord) /\ Len(workers') = Len(workers)
      /\ workers'[g] = r /\ \A h \in Generations : h # g => workers'[h] = workers[h]
  BY <1>1, <1>2, <1>3, WorkerReplaced
<1>5. \A h \in Generations : /\ workers'[h].id = workers[h].id
                             /\ workers'[h].flag = workers[h].flag
                             /\ workers'[h].phase = "done" <=> workers[h].phase = "done"
                             /\ workers'[h].phase = "dismissed" => workers'[h].flag
  BY <1>1, <1>3, <1>4 DEF JobInv, ReadingsGrow
<1>6. jobs' \in [DOMAIN jobs -> Entry(Len(workers))] BY <1>1 DEF JobInv, StoreTypes
<1>7. /\ StoreTypes' /\ QueueInOrder(Inner)' /\ ReadingsGrow' /\ ReadingTracked'
      /\ DOMAIN jobs' = DOMAIN jobs /\ Generations' = Generations
  <2>1. \A h \in Generations :
            sameStarts' # 0 /\ workers[h].id[1] = reading /\ workers'[h].phase # "done" =>
              workers[h].phase # "done" /\ jobs'[workers[h].id].state = "running"
    BY <1>1, <1>5 DEF JobInv, ReadingTracked
  <2> QED BY <1>1, <1>4, <1>5, <1>6, <2>1, TableKept
<1>8. EntriesMatch'
  BY <1>1, <1>5, <1>7, StoreShape DEF JobInv, EntriesMatch, EntryMatches
<1>9. WritersOwn' BY <1>1, <1>5, <1>7 DEF JobInv, WritersOwn
<1>10. UntrackedAreSignalled'
  <2>1. \A h \in Generations : workers'[h].phase \in {"spawned", "running"} =>
            workers[h].phase \in {"spawned", "running"}
    BY <1>1, <1>4
  <2> QED BY <1>1, <1>5, <1>7, <2>1 DEF JobInv, UntrackedAreSignalled
<1> QED BY <1>7, <1>8, <1>9, <1>10 DEF JobInv

\* Progress is written over a running entry only, which is the worker's own.
LEMMA ProgressStep ==
    ASSUME JobInv, NEW g \in Generations, WorkerProgresses(g)
    PROVE  JobInv'
<1> DEFINE id == workers[g].id
           e == [jobs[id] EXCEPT !.detail = "phase", !.by = g]
<1>1. /\ workers[g].phase = "running" /\ UNCHANGED <<queue, workers, reading, sameStarts>>
      /\ jobs' = update_detail(id, g) /\ update_detail(id, g) # jobs
  BY DEF WorkerProgresses
<1>2. /\ id \in DOMAIN jobs /\ jobs[id].state = "running"
      /\ jobs' = [jobs EXCEPT ![id] = e]
  BY <1>1 DEF update_detail
<1>3. jobs[id].gen = g BY <1>1, <1>2 DEF JobInv, WritersOwn
<1>4. jobs \in [DOMAIN jobs -> Entry(Len(workers))] /\ jobs[id] \in Entry(Len(workers))
      /\ g \in 1..Len(workers)
  BY <1>2, StoreShape DEF JobInv, StoreTypes
<1>5. /\ e \in Entry(Len(workers)) /\ e.gen = g /\ e.by = g /\ e.state = "running"
  BY <1>2, <1>3, <1>4 DEF Entry, JobStates, JobDetails
<1> HIDE DEF e
<1>6. /\ jobs' \in [DOMAIN jobs -> Entry(Len(workers))] /\ jobs'[id] = e
      /\ \A i \in DOMAIN jobs : i # id => jobs'[i] = jobs[i]
  BY <1>2, <1>4, <1>5
<1>7. \A i \in DOMAIN jobs : jobs'[i].gen = jobs[i].gen /\ jobs'[i].state = jobs[i].state
  BY <1>2, <1>3, <1>5, <1>6
<1>8. /\ StoreTypes' /\ QueueInOrder(Inner)' /\ ReadingsGrow' /\ ReadingTracked'
      /\ DOMAIN jobs' = DOMAIN jobs /\ Generations' = Generations
  <2>1. \A h \in Generations :
            sameStarts' # 0 /\ workers[h].id[1] = reading /\ workers'[h].phase # "done" =>
              workers[h].phase # "done" /\ jobs'[workers[h].id].state = "running"
    BY <1>1, <1>7 DEF JobInv, ReadingTracked
  <2>2. workers \in Seq(WorkerRecord)
        /\ \A h \in Generations : workers[h].phase = "dismissed" => workers[h].flag
    BY DEF JobInv, StoreTypes, ReadingsGrow
  <2> QED BY <1>1, <1>6, <1>7, <2>1, <2>2, TableKept
<1>9. EntriesMatch'
  <2> SUFFICES ASSUME NEW i \in DOMAIN jobs PROVE EntryMatches(i, jobs'[i], workers[jobs'[i].gen])
    BY <1>1, <1>8 DEF EntriesMatch
  <2>1. EntryMatches(i, jobs[i], workers[jobs[i].gen]) BY DEF JobInv, EntriesMatch
  <2>2. CASE i = id BY <1>2, <1>3, <1>5, <1>6, <2>1, <2>2 DEF EntryMatches
  <2>3. CASE i # id BY <1>6, <2>1, <2>3
  <2> QED BY <2>2, <2>3
<1>10. WritersOwn' BY <1>1, <1>7, <1>8 DEF JobInv, WritersOwn
<1>11. UntrackedAreSignalled' BY <1>1, <1>7, <1>8 DEF JobInv, UntrackedAreSignalled
<1> QED BY <1>8, <1>9, <1>10, <1>11 DEF JobInv

\* What a report changes: nothing, or its own entry, which was not cancelled
\* and becomes finished.
LEMMA ReportEffect ==
    ASSUME JobInv, NEW g \in Generations, NEW result \in JobStates, WorkerReports(g, result)
    PROVE  LET id == workers[g].id
               e == [jobs[id] EXCEPT !.state = "finished", !.detail = "result", !.by = g]
           IN  \/ UNCHANGED jobs /\ (id \in DOMAIN jobs => jobs[id].state = "cancelled")
               \/ /\ id \in DOMAIN jobs /\ jobs[id].gen = g /\ jobs[id].state # "cancelled"
                  /\ jobs' = [jobs EXCEPT ![id] = e]
<1> DEFINE id == workers[g].id
<1>1. /\ \/ workers[g].phase = "running" /\ result = "finished"
         \/ workers[g].phase = "dismissed" /\ result = "cancelled"
      /\ jobs' = finish(id, g, result)
  BY DEF WorkerReports
<1>2. CASE id \in DOMAIN jobs /\ jobs[id].state # "cancelled"
  <2>1. jobs[id].gen = g BY <1>1, <1>2 DEF JobInv, WritersOwn
  <2>2. EntryMatches(id, jobs[id], workers[g]) /\ jobs[id] \in Entry(Len(workers))
    BY <1>2, <2>1, StoreShape DEF JobInv, EntriesMatch
  <2>3. workers[g].phase = "dismissed" => workers[g].flag BY DEF JobInv, ReadingsGrow
  <2>4. jobs[id].state \in {"running", "finished"} BY <1>2, <2>2 DEF Entry, JobStates
  <2>5. result = "finished" BY <1>1, <2>2, <2>3, <2>4 DEF EntryMatches
  <2> QED BY <1>1, <1>2, <2>1, <2>5 DEF finish
<1>3. CASE ~(id \in DOMAIN jobs /\ jobs[id].state # "cancelled")
  BY <1>1, <1>3 DEF finish
<1> QED BY <1>2, <1>3

\* A worker that is through reports, under its own id or not at all.
LEMMA ReportStep ==
    ASSUME JobInv, NEW g \in Generations, NEW result \in JobStates, WorkerReports(g, result)
    PROVE  JobInv'
<1> DEFINE id == workers[g].id
           e == [jobs[id] EXCEPT !.state = "finished", !.detail = "result", !.by = g]
           r == [workers[g] EXCEPT !.phase = "done"]
           own == id \in DOMAIN jobs /\ jobs[id].gen = g
<1>1. /\ workers' = [workers EXCEPT ![g] = r] /\ UNCHANGED <<queue, reading, sameStarts>>
      /\ workers[g].phase # "done"
  BY DEF WorkerReports
<1>2. workers \in Seq(WorkerRecord) /\ workers[g] \in WorkerRecord BY StoreShape DEF JobInv, StoreTypes
<1>3. r \in WorkerRecord /\ r.id = id /\ r.flag = workers[g].flag /\ r.phase = "done"
  BY <1>2 DEF WorkerRecord
<1> HIDE DEF r
<1>4. /\ workers' \in Seq(WorkerRecord) /\ Len(workers') = Len(workers)
      /\ workers'[g] = r /\ \A h \in Generations : h # g => workers'[h] = workers[h]
  BY <1>1, <1>2, <1>3, WorkerReplaced
<1>5. /\ \A h \in Generations : /\ workers'[h].id = workers[h].id
                                /\ workers'[h].flag = workers[h].flag
                                /\ workers'[h].phase = "dismissed" => workers'[h].flag
      /\ \A h \in Generations : workers'[h].phase # "done" =>
            h # g /\ workers'[h].phase = workers[h].phase
      /\ \A h \in Generations : workers[h].phase = "done" => workers'[h].phase = "done"
  BY <1>1, <1>3, <1>4 DEF JobInv, ReadingsGrow
<1>6. /\ jobs \in [DOMAIN jobs -> Entry(Len(workers))] /\ g \in 1..Len(workers)
      /\ \A i \in DOMAIN jobs : jobs[i].gen \in Generations
  BY StoreShape DEF JobInv, StoreTypes
<1>7. /\ jobs' \in [DOMAIN jobs -> Entry(Len(workers))]
      /\ \A i \in DOMAIN jobs : jobs'[i].gen = jobs[i].gen
      /\ \A i \in DOMAIN jobs : jobs'[i] # jobs[i] =>
            /\ i = id /\ jobs[i].gen = g
            /\ jobs'[i].by = g /\ jobs'[i].state = "finished"
  <2>1. CASE UNCHANGED jobs BY <1>6, <2>1
  <2>2. CASE id \in DOMAIN jobs /\ jobs[id].gen = g /\ jobs' = [jobs EXCEPT ![id] = e]
    <3>1. e \in Entry(Len(workers)) /\ e.gen = g /\ e.by = g /\ e.state = "finished"
      <4>1. jobs[id] \in Entry(Len(workers)) BY <1>6, <2>2
      <4> QED BY <1>6, <2>2, <4>1 DEF Entry, JobStates, JobDetails
    <3> HIDE DEF e
    <3> QED BY <1>6, <2>2, <3>1
  <2> QED BY <2>1, <2>2, ReportEffect
<1>8. /\ StoreTypes' /\ QueueInOrder(Inner)' /\ ReadingsGrow' /\ ReadingTracked'
      /\ DOMAIN jobs' = DOMAIN jobs /\ Generations' = Generations
  <2>1. ASSUME NEW h \in Generations, sameStarts' # 0, workers[h].id[1] = reading,
               workers'[h].phase # "done"
        PROVE  workers[h].phase # "done" /\ jobs'[workers[h].id].state = "running"
    <3>1. workers[h].phase # "done" /\ h # g BY <1>5, <2>1
    <3>2. /\ workers[h].id \in DOMAIN jobs /\ jobs[workers[h].id].gen = h
          /\ jobs[workers[h].id].state = "running"
      BY <1>1, <2>1, <3>1 DEF JobInv, ReadingTracked
    <3> QED BY <1>7, <3>1, <3>2
  <2> QED BY <1>1, <1>4, <1>5, <1>7, <2>1, TableKept
<1>9. EntriesMatch'
  <2> SUFFICES ASSUME NEW i \in DOMAIN jobs PROVE EntryMatches(i, jobs'[i], workers'[jobs'[i].gen])
    BY <1>8 DEF EntriesMatch
  <2>1. EntryMatches(i, jobs[i], workers[jobs[i].gen]) BY DEF JobInv, EntriesMatch
  <2>2. CASE jobs'[i] = jobs[i] BY <1>5, <1>6, <2>1, <2>2 DEF EntryMatches
  <2>3. CASE jobs'[i] # jobs[i]
    BY <1>3, <1>4, <1>7, <2>1, <2>3 DEF EntryMatches
  <2> QED BY <2>2, <2>3
<1>10. WritersOwn' BY <1>5, <1>7, <1>8 DEF JobInv, WritersOwn
<1>11. UntrackedAreSignalled'
  <2> SUFFICES ASSUME NEW h \in Generations, workers'[h].phase \in {"spawned", "running"},
                      ~ \E i \in DOMAIN jobs : jobs'[i].gen = h /\ jobs'[i].state = "running"
               PROVE  workers'[h].flag
    BY <1>8 DEF UntrackedAreSignalled
  <2>1. h # g /\ workers[h].phase \in {"spawned", "running"} BY <1>5
  <2>2. ~ \E i \in DOMAIN jobs : jobs[i].gen = h /\ jobs[i].state = "running"
    BY <1>7, <2>1
  <2> QED BY <1>5, <2>1, <2>2 DEF JobInv, UntrackedAreSignalled
<1> QED BY <1>8, <1>9, <1>10, <1>11 DEF JobInv

\* JobInv is inductive.
LEMMA JobInvStep == JobInv /\ [JobNext]_jobVars => JobInv'
<1> SUFFICES ASSUME JobInv, [JobNext]_jobVars PROVE JobInv' OBVIOUS
<1>1. CASE UNCHANGED jobVars
  <2>1. UNCHANGED <<jobs, queue, workers, reading, sameStarts>> BY <1>1 DEF jobVars
  <2> QED BY <2>1 DEF JobInv, StoreTypes, QueueInOrder, Inner, EntriesMatch, EntryMatches,
                      WritersOwn, ReadingsGrow, ReadingTracked, UntrackedAreSignalled, Generations
<1> QED
  BY <1>1, StartStep, StatusStep, CancelStep, BeginStep, ProgressStep, ReportStep DEF JobNext

\* An empty store satisfies JobInv.
LEMMA JobInvInit == JobInit => JobInv
<1> SUFFICES ASSUME JobInit PROVE JobInv OBVIOUS
<1>1. /\ jobs = <<>> /\ DOMAIN jobs = {} /\ queue = <<>> /\ Len(queue) = 0
      /\ workers = <<>> /\ Generations = {} /\ reading = 0 /\ sameStarts = 0
  BY DEF JobInit, Generations
<1>2. StoreTypes
  <2>1. jobs \in [DOMAIN jobs -> Entry(Len(workers))] BY <1>1
  <2>2. Cardinality(DOMAIN jobs) <= MaxTracked BY <1>1, FS_EmptySet, JobStoreAssumption
  <2> QED BY <1>1, <2>1, <2>2, JobStoreAssumption DEF StoreTypes
<1>3. QueueInOrder(Inner) BY <1>1 DEF QueueInOrder, Inner
<1> QED BY <1>1, <1>2, <1>3 DEF JobInv, EntriesMatch, WritersOwn, ReadingsGrow, ReadingTracked,
                                UntrackedAreSignalled

LEMMA JobInvariant == JobSpec => []JobInv
BY JobInvInit, JobInvStep, PTL DEF JobSpec

-----------------------------------------------------------------------------
(* Theorems about the job store                                            *)

\* Every value of the store has its type, and the store never tracks more than
\* MAX_JOBS jobs (evict_locked).
THEOREM StoreTypeCorrect == JobSpec => []JobTypeOK
<1>1. JobInv => JobTypeOK
  <2> SUFFICES ASSUME JobInv PROVE JobTypeOK OBVIOUS
  <2>1. \A id \in DOMAIN jobs : jobs[id] \in Entry(Len(workers)) BY StoreShape
  <2>2. queue \in Seq(DOMAIN jobs) BY DEF JobInv, QueueInOrder, Inner
  <2> QED BY <2>1, <2>2 DEF JobInv, StoreTypes, JobTypeOK, Entry, WorkerRecord, Generations
<1> QED BY <1>1, JobInvariant, PTL

\* The eviction queue lists exactly the tracked jobs, each once, and every
\* report an entry shows is of its own job (prune_locked's and start's
\* comments), through evictions, prunings and starts at the same reading.
THEOREM StoreIsConsistent == JobSpec => []StoreConsistent
<1>1. JobInv => StoreConsistent
  <2> SUFFICES ASSUME JobInv PROVE StoreConsistent OBVIOUS
  <2>1. /\ Inner.entries = jobs /\ Inner.order = queue /\ QueueInOrder(Inner)
        /\ Len(workers) \in Nat
        /\ Inner.entries \in [DOMAIN Inner.entries -> Entry(Len(workers))]
    BY DEF JobInv, Inner, StoreTypes
  <2>2. QueueTracksJobs BY <2>1, QueueCounts DEF QueueTracksJobs
  <2>3. OwnReports BY DEF JobInv, EntriesMatch, EntryMatches, OwnReports
  <2> QED BY <2>2, <2>3 DEF StoreConsistent
<1> QED BY <1>1, JobInvariant, PTL

\* A child process whose job is no longer tracked as running, cancelled or
\* evicted, has its cancellation flag set (evict_locked's comment).
THEOREM UntrackedSignalled == JobSpec => []UntrackedAreSignalled
<1>1. JobInv => UntrackedAreSignalled BY DEF JobInv
<1> QED BY <1>1, JobInvariant, PTL

\* finish and update_detail never touch a cancelled entry, and no start takes
\* its id over as the same generation: a cancellation sticks.
THEOREM CancellationSticks == JobSpec => CancelSticks
<1> DEFINE Sticks == \A id \in DOMAIN jobs \cap DOMAIN jobs' :
                        jobs[id].state = "cancelled" /\ jobs'[id].gen = jobs[id].gen =>
                          jobs'[id].state = "cancelled" /\ jobs'[id].detail = "cancelled"
<1>1. JobInv /\ [JobNext]_jobVars => [Sticks]_jobVars
  <2> SUFFICES ASSUME JobInv, JobNext,
                      NEW id \in DOMAIN jobs \cap DOMAIN jobs',
                      jobs[id].state = "cancelled", jobs'[id].gen = jobs[id].gen
               PROVE  jobs'[id].state = "cancelled" /\ jobs'[id].detail = "cancelled"
    OBVIOUS
  <2>1. jobs[id].detail = "cancelled" BY DEF JobInv, EntriesMatch, EntryMatches
  <2> SUFFICES jobs'[id] = jobs[id] BY <2>1
  <2>2. ASSUME NEW kind \in {"process", "socket"}, NEW later \in BOOLEAN,
               NEW old \in SUBSET Finished(Inner), JobStart(kind, later, old)
        PROVE  jobs'[id] = jobs[id]
    <3> DEFINE room == evict(prune(Inner, old))
               new == UniqueId(room, reading')
    <3>1. /\ DOMAIN jobs' = DOMAIN room.entries \cup {new}
          /\ jobs'[new].gen = Len(workers) + 1
          /\ \A i \in DOMAIN room.entries : i # new => jobs'[i] = room.entries[i]
      BY <2>2 DEF JobStart, SetInner
    <3>2. jobs[id].gen \in 1..Len(workers) /\ Len(workers) \in Nat BY StoreShape
    <3>3. \A i \in DOMAIN room.entries : room.entries[i] = jobs[i] BY RoomIsMade
    <3> HIDE DEF room, new
    <3> QED BY <3>1, <3>2, <3>3
  <2>3. ASSUME NEW old \in SUBSET Finished(Inner), JobStatus(old)
        PROVE  jobs'[id] = jobs[id]
    BY <2>3 DEF JobStatus, SetInner, prune, Without, Inner
  <2>4. ASSUME NEW i \in DOMAIN jobs, JobCancel(i)
        PROVE  jobs'[id] = jobs[id]
    <3>1. jobs' = [jobs EXCEPT ![i] = Cancelled(jobs[i])] /\ jobs[i].state = "running"
      BY <2>4 DEF JobCancel, SetInner, Inner
    <3> QED BY <3>1
  <2>5. ASSUME NEW g \in Generations, WorkerBegins(g) \/ WorkerProgresses(g)
        PROVE  jobs'[id] = jobs[id]
    <3>1. CASE UNCHANGED jobs BY <3>1
    <3>2. CASE \E i \in DOMAIN jobs : \E e : jobs[i].state = "running" /\ jobs' = [jobs EXCEPT ![i] = e]
      BY <3>2
    <3> QED BY <2>5, <3>1, <3>2 DEF WorkerBegins, WorkerProgresses, update_detail
  <2>6. ASSUME NEW g \in Generations, NEW result \in JobStates, WorkerReports(g, result)
        PROVE  jobs'[id] = jobs[id]
    <3>1. jobs' = finish(workers[g].id, g, result) BY <2>6 DEF WorkerReports
    <3>2. CASE UNCHANGED jobs BY <3>2
    <3>3. CASE \E i \in DOMAIN jobs : \E e : jobs[i].state # "cancelled" /\ jobs' = [jobs EXCEPT ![i] = e]
      BY <3>3
    <3> QED BY <3>1, <3>2, <3>3 DEF finish
  <2> QED BY <2>2, <2>3, <2>4, <2>5, <2>6 DEF JobNext
<1> QED BY <1>1, JobInvariant, PTL DEF JobSpec, CancelSticks
=============================================================================

------------------------ MODULE UpdateSafetyProofs ------------------------
(***************************************************************************)
(* The machine of UpdateSafety, for any images, thresholds, recorders,     *)
(* rollout settings and bounds: the staging programs exclude each other,   *)
(* a digest that was found clean stays clean until it is used, and         *)
(* boot-health.json is only changed as UpdateCoordinator allows, so what   *)
(* is proved of the coordinator holds of the machine.                      *)
(***************************************************************************)
EXTENDS UpdateSafety, TLAPS

-----------------------------------------------------------------------------
(* The inductive invariant of the programs' local state.                   *)

\* Where each program can be, and the digests it carries.
SuType == [pc : {"idle", "gate", "lock", "bootc", "verify", "check", "record", "finalize"},
           seen : MaybeDigest]
WtType == [pc : {"idle", "probe", "gate", "lock", "bootc", "reread", "record"},
           seen : MaybeDigest, remote : MaybeDigest]
AdmType == [pc : {"idle", "release", "rollback", "note_ok", "note_failed"},
            digest : MaybeDigest]

ProgramTypes ==
    /\ booted \in Digests /\ next \in Digests /\ remote \in Digests
    /\ prev \in MaybeDigest /\ staged \in MaybeDigest
    /\ lock \in Staging \cup {"free"}
    /\ su \in SuType /\ wt \in WtType /\ adm \in AdmType
    /\ sw \in {"idle", "bootc", "finalize"}

\* What the watcher hands to bootc is not booted, and a red boot judges the
\* booted digest only, so it cannot judge what the watcher carries.
CarriedDigests ==
    /\ su.pc \in {"check", "record", "finalize"} => su.seen \in Digests
    /\ wt.pc \notin {"idle", "probe"} => wt.remote \in Digests
    /\ wt.pc \in {"lock", "bootc"} => wt.remote # booted
    /\ wt.pc = "record" => wt.seen \in Digests
    /\ adm.pc # "idle" => adm.digest \in Digests

ProgramInv == ProgramTypes /\ CarriedDigests /\ StagingExclusive

\* The programs at rest.
LEMMA ProgramInvInit == Init => ProgramInv
<1> SUFFICES ASSUME Init PROVE ProgramInv OBVIOUS
<1>1. booted \in Digests BY DEF Init, Coordinator!Init
<1>2. /\ su = [pc |-> "idle", seen |-> NoDigest] /\ sw = "idle" /\ lock = "free"
      /\ wt = [pc |-> "idle", seen |-> NoDigest, remote |-> NoDigest]
      /\ adm = [pc |-> "idle", digest |-> NoDigest]
  BY DEF Init, SuIdle, WtIdle, AdmIdle
<1>3. ProgramTypes BY <1>1, <1>2 DEF Init, ProgramTypes, SuType, WtType, AdmType, MaybeDigest, Staging
<1>4. CarriedDigests BY <1>1, <1>2, DigestAssumption DEF Init, CarriedDigests
<1>5. StagingExclusive BY <1>2 DEF StagingExclusive, InBootc, Staging
<1> QED BY <1>3, <1>4, <1>5 DEF ProgramInv

\* What bootc may leave staged.
LEMMA BootcStages ==
    ASSUME ProgramInv, NEW d \in Digests, BootcStage(d) \/ UNCHANGED staged
    PROVE  staged' \in MaybeDigest
BY DEF ProgramInv, ProgramTypes, CarriedDigests, BootcStage, MaybeDigest

\* Program p takes the lock on entering its bootc call, frees it on leaving it
\* and does not touch it otherwise.
LockFollows(p, before, after) ==
    \/ lock' = lock /\ (before <=> after)
    \/ lock = "free" /\ lock' = p /\ after
    \/ lock = p /\ lock' = "free" /\ ~after

\* The lock stays exclusive when one program steps in that way.
LEMMA LockStaysExclusive ==
    ASSUME StagingExclusive, NEW p \in Staging, LockFollows(p, InBootc(p), InBootc(p)'),
           \A q \in Staging \ {p} : InBootc(q)' <=> InBootc(q)
    PROVE  StagingExclusive' /\ (lock \in Staging \cup {"free"} => lock' \in Staging \cup {"free"})
<1>1. "free" \notin Staging BY DEF Staging
<1>2. StagingExclusive' BY <1>1 DEF StagingExclusive, LockFollows
<1>3. lock' \in {lock, p, "free"} BY DEF LockFollows
<1> QED BY <1>2, <1>3

\* What a step of safe-upgrade has to keep for the invariant to survive.
LEMMA SuKeepsInv ==
    ASSUME ProgramInv,
           UNCHANGED <<booted, wt, sw, adm, prev, remote>>,
           next' \in Digests, staged' \in MaybeDigest,
           su' \in SuType,
           su'.pc \in {"check", "record", "finalize"} => su'.seen \in Digests,
           LockFollows("safe-upgrade", su.pc = "bootc", su'.pc = "bootc")
    PROVE  ProgramInv'
<1> USE DEF ProgramInv
<1>1. CarriedDigests' BY DEF CarriedDigests
<1>2. LockFollows("safe-upgrade", InBootc("safe-upgrade"), InBootc("safe-upgrade")')
  BY DEF LockFollows, InBootc
<1>3. \A q \in Staging \ {"safe-upgrade"} : InBootc(q)' <=> InBootc(q)
  BY DEF InBootc, Staging
<1>4. /\ StagingExclusive'
      /\ lock \in Staging \cup {"free"} => lock' \in Staging \cup {"free"}
  <2>1. "safe-upgrade" \in Staging BY DEF Staging
  <2> QED BY <2>1, <1>2, <1>3, LockStaysExclusive
<1>5. ProgramTypes'
  BY <1>4 DEF ProgramTypes
<1> QED BY <1>1, <1>4, <1>5

\* A step of safe-upgrade: it takes and frees the lock around its bootc call,
\* and what it carries past its check was staged.
LEMMA SafeUpgradeStep ==
    ASSUME ProgramInv, SafeUpgrade
    PROVE  ProgramInv'
<1>0. UNCHANGED <<booted, wt, sw, adm, prev, remote>>
  BY DEF SafeUpgrade, SuBegin, SuGate, SuLock, SuBootc, SuVerify, SuCheck, SuRecord, SuFinalize,
         Coordinator!RecordStaged, bootcVars, SuFrame, coordVars, envVars
<1>a. /\ su \in SuType /\ booted \in Digests /\ next \in Digests /\ remote \in Digests
      /\ staged \in MaybeDigest
      /\ su.pc \in {"check", "record", "finalize"} => su.seen \in Digests
  BY DEF ProgramInv, ProgramTypes, CarriedDigests
<1>b. /\ NoDigest \in MaybeDigest /\ NoDigest # booted
      /\ SuIdle \in SuType /\ SuIdle.pc = "idle"
  BY <1>a, DigestAssumption DEF MaybeDigest, SuIdle, SuType
<1>g. ASSUME NEW pc \in {"gate", "lock", "bootc", "verify", "check", "record", "finalize"}, SuGoto(pc)
      PROVE  su' \in SuType /\ su'.pc = pc /\ su'.seen = su.seen
  BY <1>a, <1>g DEF SuGoto, SuType
<1>s. ASSUME NEW pc \in {"gate", "check"}, su' = [su EXCEPT !.pc = pc, !.seen = staged]
      PROVE  su' \in SuType /\ su'.pc = pc /\ su'.seen = staged
  BY <1>a, <1>s DEF SuType
<1>1. CASE SuBegin
  <2>1. su' \in SuType /\ su'.pc = "gate" BY <1>1, <1>s DEF SuBegin
  <2>2. su.pc = "idle" /\ UNCHANGED <<next, staged, lock>> BY <1>1 DEF SuBegin
  <2>3. LockFollows("safe-upgrade", su.pc = "bootc", su'.pc = "bootc") BY <2>1, <2>2 DEF LockFollows
  <2> QED BY <1>0, <1>a, <2>1, <2>2, <2>3, SuKeepsInv
<1>2. CASE SuGate
  <2>1. su' \in SuType /\ su'.pc \in {"idle", "lock"} BY <1>2, <1>g, <1>b DEF SuGate, SuDone
  <2>2. su.pc = "gate" /\ UNCHANGED <<next, staged, lock>> BY <1>2 DEF SuGate
  <2>3. LockFollows("safe-upgrade", su.pc = "bootc", su'.pc = "bootc") BY <2>1, <2>2 DEF LockFollows
  <2> QED BY <1>0, <1>a, <2>1, <2>2, <2>3, SuKeepsInv
<1>3. CASE SuLock
  <2>1. su.pc = "lock" /\ UNCHANGED <<next, staged>> BY <1>3 DEF SuLock
  <2>2. \/ Acquire("safe-upgrade") /\ SuGoto("bootc")
        \/ UNCHANGED lock /\ SuDone
    BY <1>3 DEF SuLock
  <2>3. /\ su' \in SuType /\ su'.pc \in {"idle", "bootc"}
        /\ LockFollows("safe-upgrade", su.pc = "bootc", su'.pc = "bootc")
    BY <2>1, <2>2, <1>g, <1>b DEF LockFollows, Acquire, SuDone
  <2> QED BY <1>0, <1>a, <2>1, <2>3, SuKeepsInv
<1>4. CASE SuBootc
  <2>1. su.pc = "bootc" /\ UNCHANGED next /\ lock = "safe-upgrade" /\ lock' = "free"
    BY <1>4 DEF SuBootc, Release
  <2>2. staged' \in MaybeDigest
    BY <1>4, <1>a, BootcStages DEF SuBootc
  <2>3. su' \in SuType /\ su'.pc \in {"idle", "verify"} BY <1>4, <1>g, <1>b DEF SuBootc, SuDone
  <2>4. LockFollows("safe-upgrade", su.pc = "bootc", su'.pc = "bootc") BY <2>1, <2>3 DEF LockFollows
  <2> QED BY <1>0, <1>a, <2>1, <2>2, <2>3, <2>4, SuKeepsInv
<1>5. CASE SuVerify
  <2>1. su.pc = "verify" /\ UNCHANGED <<next, staged, lock>> BY <1>5 DEF SuVerify
  <2>2. \/ SuDone
        \/ staged # NoDigest /\ su' = [su EXCEPT !.pc = "check", !.seen = staged]
    BY <1>5 DEF SuVerify
  <2>3. /\ su' \in SuType /\ su'.pc \in {"idle", "check"}
        /\ su'.pc = "check" => su'.seen = staged /\ staged # NoDigest
    BY <2>2, <1>s, <1>b DEF SuDone
  <2>4. su'.pc \in {"check", "record", "finalize"} => su'.seen \in Digests
    BY <2>3, <1>a DEF MaybeDigest
  <2>5. LockFollows("safe-upgrade", su.pc = "bootc", su'.pc = "bootc") BY <2>1, <2>3 DEF LockFollows
  <2> QED BY <1>0, <1>a, <2>1, <2>3, <2>4, <2>5, SuKeepsInv
<1>6. CASE SuCheck
  <2>1. su.pc = "check" /\ UNCHANGED <<next, staged, lock>> BY <1>6 DEF SuCheck
  <2>2. /\ su' \in SuType /\ su'.pc \in {"idle", "record"}
        /\ su'.pc = "record" => su'.seen = su.seen
    BY <1>6, <1>g, <1>b DEF SuCheck, SuDone
  <2>3. LockFollows("safe-upgrade", su.pc = "bootc", su'.pc = "bootc") BY <2>1, <2>2 DEF LockFollows
  <2> QED BY <1>0, <1>a, <2>1, <2>2, <2>3, SuKeepsInv
<1>7. CASE SuRecord
  <2>1. su.pc = "record" /\ UNCHANGED <<next, staged, lock>> BY <1>7 DEF SuRecord, bootcVars
  <2>2. su' \in SuType /\ su'.pc = "finalize" /\ su'.seen = su.seen BY <1>7, <1>g DEF SuRecord
  <2>3. LockFollows("safe-upgrade", su.pc = "bootc", su'.pc = "bootc") BY <2>1, <2>2 DEF LockFollows
  <2> QED BY <1>0, <1>a, <2>1, <2>2, <2>3, SuKeepsInv
<1>8. CASE SuFinalize
  <2>1. su.pc = "finalize" /\ UNCHANGED lock /\ su' = SuIdle BY <1>8 DEF SuFinalize, SuDone
  <2>2. next' \in Digests /\ staged' \in MaybeDigest
    BY <1>8, <1>a, <1>b DEF SuFinalize, FinalizeStaged, MaybeDigest
  <2>3. LockFollows("safe-upgrade", su.pc = "bootc", su'.pc = "bootc")
    BY <2>1, <1>b DEF LockFollows
  <2> QED BY <1>0, <1>a, <1>b, <2>1, <2>2, <2>3, SuKeepsInv
<1> QED BY <1>1, <1>2, <1>3, <1>4, <1>5, <1>6, <1>7, <1>8 DEF SafeUpgrade

\* What a step of the watcher has to keep.
LEMMA WtKeepsInv ==
    ASSUME ProgramInv,
           UNCHANGED <<booted, su, sw, adm, prev, remote, next>>,
           staged' \in MaybeDigest,
           wt' \in WtType,
           wt'.pc \notin {"idle", "probe"} => wt'.remote \in Digests,
           wt'.pc \in {"lock", "bootc"} => wt'.remote # booted,
           wt'.pc = "record" => wt'.seen \in Digests,
           LockFollows("watcher", wt.pc = "bootc", wt'.pc = "bootc")
    PROVE  ProgramInv'
<1> USE DEF ProgramInv
<1>1. CarriedDigests' BY DEF CarriedDigests
<1>2. LockFollows("watcher", InBootc("watcher"), InBootc("watcher")')
  BY DEF LockFollows, InBootc
<1>3. \A q \in Staging \ {"watcher"} : InBootc(q)' <=> InBootc(q)
  BY DEF InBootc, Staging
<1>4. /\ StagingExclusive'
      /\ lock \in Staging \cup {"free"} => lock' \in Staging \cup {"free"}
  <2>1. "watcher" \in Staging BY DEF Staging
  <2> QED BY <2>1, <1>2, <1>3, LockStaysExclusive
<1>5. ProgramTypes'
  BY <1>4 DEF ProgramTypes
<1> QED BY <1>1, <1>4, <1>5

\* A step of the watcher: what it probed is not booted once its gate let it
\* through, and it records a digest that bootc staged or the registry named.
LEMMA WatcherStep ==
    ASSUME ProgramInv, Watcher
    PROVE  ProgramInv'
<1>0. UNCHANGED <<booted, su, sw, adm, prev, remote, next>>
  BY DEF Watcher, WtBegin, WtProbe, WtGate, WtLock, WtBootc, WtReread, WtRecord,
         Coordinator!RecordStaged, bootcVars, WtFrame, coordVars, envVars
<1>a. /\ wt \in WtType /\ booted \in Digests /\ remote \in Digests
      /\ staged \in MaybeDigest
      /\ wt.pc \notin {"idle", "probe"} => wt.remote \in Digests
      /\ wt.pc \in {"lock", "bootc"} => wt.remote # booted
  BY DEF ProgramInv, ProgramTypes, CarriedDigests
<1>b. /\ NoDigest \in MaybeDigest /\ WtIdle \in WtType /\ WtIdle.pc = "idle"
  BY DEF MaybeDigest, WtIdle, WtType
<1>g. ASSUME NEW pc \in {"lock", "bootc", "reread"}, WtGoto(pc)
      PROVE  wt' \in WtType /\ wt'.pc = pc /\ wt'.remote = wt.remote
  BY <1>a, <1>g DEF WtGoto, WtType
<1>1. CASE WtBegin
  <2>1. wt' \in WtType /\ wt'.pc = "probe" BY <1>1, <1>a, <1>b DEF WtBegin, WtType
  <2>2. wt.pc = "idle" /\ UNCHANGED <<staged, lock>> BY <1>1 DEF WtBegin
  <2>3. LockFollows("watcher", wt.pc = "bootc", wt'.pc = "bootc") BY <2>1, <2>2 DEF LockFollows
  <2> QED BY <1>0, <1>a, <2>1, <2>2, <2>3, WtKeepsInv
<1>2. CASE WtProbe
  <2>1. \/ wt' \in WtType /\ wt'.pc = "gate" /\ wt'.remote = remote
        \/ wt' \in WtType /\ wt'.pc = "idle"
    <3>1. CASE wt' = WtIdle BY <3>1, <1>b
    <3>2. CASE wt' = [wt EXCEPT !.pc = "gate", !.remote = remote]
      BY <3>2, <1>a DEF WtType, MaybeDigest
    <3> QED BY <1>2, <3>1, <3>2 DEF WtProbe
  <2>2. wt.pc = "probe" /\ UNCHANGED <<staged, lock>> BY <1>2 DEF WtProbe
  <2>3. LockFollows("watcher", wt.pc = "bootc", wt'.pc = "bootc") BY <2>1, <2>2 DEF LockFollows
  <2> QED BY <1>0, <1>a, <2>1, <2>2, <2>3, WtKeepsInv
<1>3. CASE WtGate
  <2>1. wt.pc = "gate" /\ UNCHANGED <<staged, lock>> BY <1>3 DEF WtGate
  <2>2. wt' = WtIdle \/ (wt.remote # booted /\ WtGoto("lock")) BY <1>3 DEF WtGate, WtSkips
  <2>3. /\ wt' \in WtType /\ wt'.pc \in {"idle", "lock"}
        /\ wt'.pc = "lock" => wt'.remote = wt.remote /\ wt.remote # booted
    BY <2>2, <1>g, <1>b
  <2>4. LockFollows("watcher", wt.pc = "bootc", wt'.pc = "bootc") BY <2>1, <2>3 DEF LockFollows
  <2> QED BY <1>0, <1>a, <2>1, <2>3, <2>4, WtKeepsInv
<1>4. CASE WtLock
  <2>1. wt.pc = "lock" /\ UNCHANGED staged BY <1>4 DEF WtLock
  <2>2. \/ Acquire("watcher") /\ WtGoto("bootc")
        \/ UNCHANGED lock /\ wt' = WtIdle
    BY <1>4 DEF WtLock
  <2>3. /\ wt' \in WtType /\ wt'.pc \in {"idle", "bootc"}
        /\ wt'.pc = "bootc" => wt'.remote = wt.remote
        /\ LockFollows("watcher", wt.pc = "bootc", wt'.pc = "bootc")
    BY <2>1, <2>2, <1>g, <1>b DEF LockFollows, Acquire
  <2> QED BY <1>0, <1>a, <2>1, <2>3, WtKeepsInv
<1>5. CASE WtBootc
  <2>1. wt.pc = "bootc" /\ lock = "watcher" /\ lock' = "free"
    BY <1>5 DEF WtBootc, Release
  <2>2. staged' \in MaybeDigest
    BY <1>5, <1>a, BootcStages DEF WtBootc
  <2>3. /\ wt' \in WtType /\ wt'.pc \in {"idle", "reread"}
        /\ wt'.pc = "reread" => wt'.remote = wt.remote
    BY <1>5, <1>g, <1>b DEF WtBootc
  <2>4. LockFollows("watcher", wt.pc = "bootc", wt'.pc = "bootc") BY <2>1, <2>3 DEF LockFollows
  <2> QED BY <1>0, <1>a, <2>1, <2>2, <2>3, <2>4, WtKeepsInv
<1>6. CASE WtReread
  <2>1. wt.pc = "reread" /\ UNCHANGED <<staged, lock>> BY <1>6 DEF WtReread
  <2> DEFINE d == IF BootcActive \/ staged = NoDigest THEN wt.remote ELSE staged
  <2>2. d \in Digests BY <2>1, <1>a DEF MaybeDigest
  <2>3. wt' = [wt EXCEPT !.pc = "record", !.seen = d] BY <1>6 DEF WtReread
  <2> HIDE DEF d
  <2>4. wt' \in WtType /\ wt'.pc = "record" /\ wt'.seen = d /\ wt'.remote = wt.remote
    BY <2>2, <2>3, <1>a DEF WtType, MaybeDigest
  <2>5. LockFollows("watcher", wt.pc = "bootc", wt'.pc = "bootc") BY <2>1, <2>4 DEF LockFollows
  <2> QED BY <1>0, <1>a, <2>1, <2>2, <2>4, <2>5, WtKeepsInv
<1>7. CASE WtRecord
  <2>1. wt.pc = "record" /\ UNCHANGED <<staged, lock>> /\ wt' = WtIdle
    BY <1>7 DEF WtRecord, bootcVars
  <2>2. LockFollows("watcher", wt.pc = "bootc", wt'.pc = "bootc") BY <2>1, <1>b DEF LockFollows
  <2> QED BY <1>0, <1>a, <1>b, <2>1, <2>2, WtKeepsInv
<1> QED BY <1>1, <1>2, <1>3, <1>4, <1>5, <1>6, <1>7 DEF Watcher

\* A step of the channel switch, which finalizes under the lock.
LEMMA SwitchStep ==
    ASSUME ProgramInv, Switch
    PROVE  ProgramInv'
<1> USE DEF ProgramInv
<1>0. UNCHANGED <<booted, su, wt, adm, prev, remote>>
  BY DEF Switch, SwLock, SwBootc, SwFinalize, SwFrame, coordVars, envVars
<1>a. /\ booted \in Digests /\ next \in Digests /\ staged \in MaybeDigest
      /\ NoDigest # booted /\ NoDigest \in MaybeDigest
  BY DigestAssumption DEF ProgramTypes, CarriedDigests, MaybeDigest
<1>1. /\ next' \in Digests /\ staged' \in MaybeDigest
      /\ sw' \in {"idle", "bootc", "finalize"}
  <2>1. CASE SwLock BY <2>1, <1>a DEF SwLock
  <2>2. CASE SwBootc
    <3>1. staged' \in MaybeDigest BY <2>2, <1>a DEF SwBootc, MaybeDigest
    <3> QED BY <3>1, <2>2, <1>a DEF SwBootc
  <2>3. CASE SwFinalize BY <2>3, <1>a DEF SwFinalize, FinalizeStaged, MaybeDigest
  <2> QED BY <2>1, <2>2, <2>3 DEF Switch
<1>2. LockFollows("switch", InBootc("switch"), InBootc("switch")')
  BY DEF Switch, SwLock, SwBootc, SwFinalize, Acquire, Release, LockFollows, InBootc
<1>3. \A q \in Staging \ {"switch"} : InBootc(q)' <=> InBootc(q)
  BY <1>0 DEF InBootc, Staging
<1>4. /\ StagingExclusive'
      /\ lock \in Staging \cup {"free"} => lock' \in Staging \cup {"free"}
  <2>1. "switch" \in Staging BY DEF Staging
  <2> QED BY <2>1, <1>2, <1>3, LockStaysExclusive
<1>5. CarriedDigests' BY <1>0, <1>1 DEF CarriedDigests
<1>6. ProgramTypes' BY <1>0, <1>1, <1>4 DEF ProgramTypes
<1> QED BY <1>4, <1>5, <1>6

\* A step that leaves the staging programs and the lock alone.
LEMMA OtherKeepsInv ==
    ASSUME ProgramInv,
           UNCHANGED <<booted, su, wt, sw, lock, prev>>,
           next' \in Digests, remote' \in Digests,
           staged' \in MaybeDigest,
           adm' \in AdmType,
           adm'.pc # "idle" => adm'.digest \in Digests
    PROVE  ProgramInv'
<1> USE DEF ProgramInv
<1>1. CarriedDigests' BY DEF CarriedDigests
<1>2. ProgramTypes' BY DEF ProgramTypes
<1>3. StagingExclusive' BY DEF StagingExclusive, InBootc
<1> QED BY <1>1, <1>2, <1>3

\* What bootc rollback leaves.
LEMMA RollbackLeaves ==
    ASSUME ProgramInv, BootcRollback \/ BootcRollbackFails
    PROVE  next' \in Digests /\ staged' \in MaybeDigest
<1>1. /\ booted \in Digests /\ next \in Digests /\ staged \in MaybeDigest
      /\ prev \in MaybeDigest
  BY DEF ProgramInv, ProgramTypes, CarriedDigests, MaybeDigest
<1>2. CASE BootcRollback BY <1>1, <1>2, DigestAssumption DEF BootcRollback, MaybeDigest
<1>3. CASE BootcRollbackFails BY <1>1, <1>3 DEF BootcRollbackFails
<1> QED BY <1>2, <1>3

\* The recorders, a healthy boot, the administrator, greenboot and the
\* registry.
LEMMA OtherStep ==
    ASSUME ProgramInv,
           \/ \E p \in Recorders : Recorder(p)
           \/ MarkHealthy \/ Admin \/ Greenboot \/ Publish
    PROVE  ProgramInv'
<1>a. /\ booted \in Digests /\ next \in Digests /\ remote \in Digests
      /\ staged \in MaybeDigest /\ adm \in AdmType
      /\ adm.pc # "idle" => adm.digest \in Digests
  BY DEF ProgramInv, ProgramTypes, CarriedDigests, MaybeDigest
<1>b. AdmIdle \in AdmType /\ AdmIdle.pc = "idle" BY DEF AdmIdle, AdmType, MaybeDigest
<1> USE DEF coordVars, bootcVars, progVars, envVars
<1>1. ASSUME NEW p \in Recorders, Recorder(p) PROVE ProgramInv'
  <2>1. UNCHANGED <<booted, su, wt, sw, lock, prev, remote, adm>>
    BY <1>1 DEF Recorder, RecBegin, RecTransaction, RecRollback, RecNote, RecFrame,
                Coordinator!RecordFailure, Coordinator!NoteRollbackAttempted
  <2>2. next' \in Digests /\ staged' \in MaybeDigest
    <3>1. UNCHANGED <<next, staged>> \/ BootcRollback \/ BootcRollbackFails
      BY <1>1 DEF Recorder, RecBegin, RecTransaction, RecRollback, RecNote
    <3> QED BY <3>1, <1>a, RollbackLeaves
  <2> QED BY <2>1, <2>2, <1>a, OtherKeepsInv
<1>2. CASE MarkHealthy
  <2>1. UNCHANGED <<booted, su, wt, sw, lock, prev, remote, adm, next, staged>>
    BY <1>2 DEF MarkHealthy, Coordinator!MarkHealthy
  <2> QED BY <2>1, <1>a, OtherKeepsInv
<1>3. CASE Admin
  <2>1. UNCHANGED <<booted, su, wt, sw, lock, prev, remote>>
    BY <1>3 DEF Admin, ClearQuarantine, AdmBegin, AdmRelease, AdmRollback, AdmNote, AdmFrame,
                Coordinator!ClearQuarantine, Coordinator!ReleaseRollbackSlot,
                Coordinator!NoteRollbackAttempted
  <2>2. next' \in Digests /\ staged' \in MaybeDigest
    <3>1. UNCHANGED <<next, staged>> \/ BootcRollback \/ BootcRollbackFails
      BY <1>3 DEF Admin, ClearQuarantine, AdmBegin, AdmRelease, AdmRollback, AdmNote
    <3> QED BY <3>1, <1>a, RollbackLeaves
  <2>3. adm' \in AdmType /\ (adm'.pc # "idle" => adm'.digest \in Digests)
    <3>1. ASSUME NEW d \in Digests, AdmBegin(d)
          PROVE  adm' \in AdmType /\ adm'.digest \in Digests
      BY <3>1 DEF AdmBegin, AdmType, MaybeDigest
    <3>2. CASE UNCHANGED adm BY <3>2, <1>a
    <3>3. ASSUME adm.pc # "idle",
                 NEW pc \in {"rollback", "note_ok", "note_failed"}, adm' = [adm EXCEPT !.pc = pc]
          PROVE  adm' \in AdmType /\ adm'.digest \in Digests
      BY <3>3, <1>a DEF AdmType
    <3>4. CASE adm' = AdmIdle BY <3>4, <1>b
    <3>5. ASSUME NEW d \in Digests, ClearQuarantine(d) PROVE UNCHANGED adm
      BY <3>5 DEF ClearQuarantine
    <3>6. CASE AdmRelease BY <3>6, <3>3 DEF AdmRelease
    <3>7. CASE AdmRollback BY <3>7, <3>3, <3>4 DEF AdmRollback
    <3>8. CASE AdmNote BY <3>8, <3>4 DEF AdmNote
    <3> QED BY <1>3, <3>1, <3>2, <3>5, <3>6, <3>7, <3>8 DEF Admin
  <2> QED BY <2>1, <2>2, <2>3, <1>a, OtherKeepsInv
<1>4. CASE Greenboot
  <2>1. UNCHANGED <<booted, su, wt, sw, lock, prev, remote, adm, next, staged>>
    BY <1>4 DEF Greenboot
  <2> QED BY <2>1, <1>a, OtherKeepsInv
<1>5. CASE Publish
  <2>1. UNCHANGED <<booted, su, wt, sw, lock, prev, adm, next, staged>> /\ remote' \in Digests
    BY <1>5 DEF Publish
  <2> QED BY <2>1, <1>a, OtherKeepsInv
<1> QED BY <1>1, <1>2, <1>3, <1>4, <1>5

\* A boot ends every program.
LEMMA BootStep ==
    ASSUME ProgramInv, NEW d \in Digests, StartBoot(d)
    PROVE  ProgramInv'
<1>1. /\ booted' = d /\ next' = d /\ staged' = NoDigest /\ remote' = remote /\ lock' = "free"
      /\ su' = [pc |-> "idle", seen |-> NoDigest] /\ sw' = "idle"
      /\ wt' = [pc |-> "idle", seen |-> NoDigest, remote |-> NoDigest]
      /\ adm' = [pc |-> "idle", digest |-> NoDigest]
  BY DEF StartBoot, Coordinator!Boot, SuIdle, WtIdle, AdmIdle
<1>2. prev' \in MaybeDigest /\ remote \in Digests
  BY DEF StartBoot, ProgramInv, ProgramTypes, MaybeDigest
<1>3. ProgramTypes' BY <1>1, <1>2 DEF ProgramTypes, SuType, WtType, AdmType, MaybeDigest, Staging
<1>4. CarriedDigests' BY <1>1, DigestAssumption DEF CarriedDigests
<1>5. StagingExclusive' BY <1>1 DEF StagingExclusive, InBootc, Staging
<1> QED BY <1>3, <1>4, <1>5 DEF ProgramInv

\* A boot of what was finalized or staged.
LEMMA RestartsBoot ==
    ASSUME ProgramInv, Reboot \/ PowerLoss
    PROVE  \E d \in Digests : StartBoot(d)
BY DEF ProgramInv, ProgramTypes, MaybeDigest, Reboot, PowerLoss

\* The invariant is inductive.
LEMMA ProgramInvStep ==
    ASSUME ProgramInv, [Next]_vars
    PROVE  ProgramInv'
<1>1. CASE Next
  BY <1>1, SafeUpgradeStep, WatcherStep, SwitchStep, OtherStep, BootStep, RestartsBoot DEF Next
<1>2. CASE UNCHANGED vars
  <2>1. UNCHANGED <<booted, su, wt, sw, lock, prev, next, remote, staged, adm>>
    BY <1>2 DEF vars, coordVars, bootcVars, progVars
  <2>2. ProgramTypes' BY <2>1 DEF ProgramInv, ProgramTypes
  <2>3. CarriedDigests' BY <2>1 DEF ProgramInv, CarriedDigests
  <2>4. StagingExclusive' BY <2>1 DEF ProgramInv, StagingExclusive, InBootc
  <2> QED BY <2>2, <2>3, <2>4 DEF ProgramInv
<1> QED BY <1>1, <1>2

LEMMA ProgramInvHolds == Spec => []ProgramInv
BY ProgramInvInit, ProgramInvStep, PTL DEF Spec

\* No two of the staging programs are inside bootc at once, and the lock is
\* held exactly by the one that is, through failures, restarts and power
\* losses (with_bootc_lock of bootc_guard.rs).
THEOREM BootcLockExcludes == Spec => []StagingExclusive
<1>1. ProgramInv => StagingExclusive BY DEF ProgramInv
<1> QED BY <1>1, ProgramInvHolds, PTL

-----------------------------------------------------------------------------
(* The machine implements UpdateCoordinator.                               *)

\* A step of a staging program is a transaction that records what it staged,
\* or leaves the file alone.
LEMMA StagingTransacts ==
    ASSUME ProgramInv, SafeUpgrade \/ Watcher \/ Switch
    PROVE  (\E d \in Digests : Coordinator!RecordStaged(d)) \/ UNCHANGED coordVars
<1>1. /\ su.pc = "record" => su.seen \in Digests
      /\ wt.pc = "record" => wt.seen \in Digests
  BY DEF ProgramInv, CarriedDigests
<1>2. CASE SafeUpgrade
  BY <1>1, <1>2 DEF SafeUpgrade, SuBegin, SuGate, SuLock, SuBootc, SuVerify, SuCheck, SuRecord,
                    SuFinalize, SuFrame
<1>3. CASE Watcher
  BY <1>1, <1>3 DEF Watcher, WtBegin, WtProbe, WtGate, WtLock, WtBootc, WtReread, WtRecord, WtFrame
<1>4. CASE Switch
  BY <1>4 DEF Switch, SwLock, SwBootc, SwFinalize, SwFrame
<1> QED BY <1>2, <1>3, <1>4

\* A step of a recorder is its report, its note or leaves the file alone.
LEMMA RecorderTransacts ==
    ASSUME ProgramInv, NEW p \in Recorders, Recorder(p)
    PROVE  \/ \E t \in Thresholds : Coordinator!RecordFailure(t)
           \/ \E d \in Digests, failed \in BOOLEAN : Coordinator!NoteRollbackAttempted(d, failed)
           \/ UNCHANGED coordVars
<1>1. booted \in Digests BY DEF ProgramInv, ProgramTypes
<1>2. CASE RecBegin(p) BY <1>2 DEF RecBegin
<1>3. CASE RecTransaction(p) BY <1>3 DEF RecTransaction
<1>4. CASE RecRollback(p) BY <1>4 DEF RecRollback
<1>5. CASE RecNote(p)
  <2>1. (rec[p].pc = "note_failed") \in BOOLEAN OBVIOUS
  <2> QED BY <1>1, <1>5, <2>1 DEF RecNote
<1> QED BY <1>2, <1>3, <1>4, <1>5 DEF Recorder

\* So is each step of the administrator.
LEMMA AdminTransacts ==
    ASSUME ProgramInv, Admin
    PROVE  \/ \E d \in Digests : Coordinator!ClearQuarantine(d)
           \/ \E d \in Digests : Coordinator!ReleaseRollbackSlot(d)
           \/ \E d \in Digests, failed \in BOOLEAN : Coordinator!NoteRollbackAttempted(d, failed)
           \/ UNCHANGED coordVars
<1>1. adm.pc # "idle" => adm.digest \in Digests BY DEF ProgramInv, CarriedDigests
<1>2. ASSUME NEW d \in Digests, ClearQuarantine(d) PROVE Coordinator!ClearQuarantine(d)
  BY <1>2 DEF ClearQuarantine
<1>3. ASSUME NEW d \in Digests, AdmBegin(d) PROVE UNCHANGED coordVars
  BY <1>3 DEF AdmBegin
<1>4. CASE AdmRelease BY <1>1, <1>4 DEF AdmRelease
<1>5. CASE AdmRollback BY <1>5 DEF AdmRollback
<1>6. CASE AdmNote
  <2>1. (adm.pc = "note_failed") \in BOOLEAN OBVIOUS
  <2> QED BY <1>1, <1>6, <2>1 DEF AdmNote
<1> QED BY <1>2, <1>3, <1>4, <1>5, <1>6 DEF Admin

\* Every step of the machine is a transaction of the coordinator, a boot, or
\* leaves boot-health.json, the boot and the history alone.
LEMMA MachineTransacts ==
    ASSUME ProgramInv, [Next]_vars
    PROVE  [Coordinator!Next]_(Coordinator!vars)
<1>1. UNCHANGED coordVars => UNCHANGED Coordinator!vars
  BY DEF coordVars, Coordinator!vars
<1>2. CASE SafeUpgrade \/ Watcher \/ Switch
  BY <1>1, <1>2, StagingTransacts DEF Coordinator!Next
<1>3. ASSUME NEW p \in Recorders, Recorder(p) PROVE [Coordinator!Next]_(Coordinator!vars)
  BY <1>1, <1>3, RecorderTransacts DEF Coordinator!Next
<1>4. CASE MarkHealthy BY <1>4 DEF MarkHealthy, Coordinator!Next
<1>5. CASE Admin BY <1>1, <1>5, AdminTransacts DEF Coordinator!Next
<1>6. CASE Greenboot \/ Publish BY <1>1, <1>6 DEF Greenboot, Publish
<1>7. CASE Reboot \/ PowerLoss
  <2>1. PICK d \in Digests : StartBoot(d) BY <1>7, RestartsBoot
  <2> QED BY <2>1 DEF StartBoot, Coordinator!Next
<1>8. CASE UNCHANGED vars BY <1>1, <1>8 DEF vars
<1> QED BY <1>2, <1>3, <1>4, <1>5, <1>6, <1>7, <1>8 DEF Next

\* Whatever the programs, the hooks, the administrator and the power do,
\* boot-health.json changes only by the coordinator's transactions
\* (update_coordinator.rs): the machine implements UpdateCoordinator.
THEOREM MachineImplementsCoordinator == Spec => ImplementsCoordinator
<1>1. Init => Coordinator!Init BY DEF Init
<1>2. ProgramInv /\ [Next]_vars => [Coordinator!Next]_(Coordinator!vars) BY MachineTransacts
<1> QED BY <1>1, <1>2, ProgramInvHolds, PTL DEF Spec, ImplementsCoordinator, Coordinator!Spec

-----------------------------------------------------------------------------
(* What is proved of the coordinator holds of the machine.                 *)

\* The laws used here do not speak of the histories of QuarantineDue, which the
\* machine does not keep: they are given constants.
Laws == INSTANCE UpdateCoordinatorProofs
            WITH forgivenNow <- {}, dueBoots <- [d \in Digests |-> {}]

\* The constants of the machine are constants of the coordinator.
LEMMA LawsApply ==
    /\ Laws!DigestAssumption /\ Laws!ThresholdAssumption
    /\ Laws!ThresholdsAssumption /\ Laws!ChannelAssumption /\ Laws!MaxBootsAssumption
<1>1. Channel \in Laws!Rings BY CoordinatorAssumption DEF Laws!Rings, Rings
<1> QED BY <1>1, CoordinatorAssumption, DigestAssumption, ThresholdAssumption
        DEF Laws!ThresholdsAssumption, Laws!MaxBootsAssumption, Laws!DigestAssumption,
            Laws!ThresholdAssumption, Laws!ChannelAssumption

\* The two instances of the coordinator are the same specification.
LEMMA MachineFollowsLaws == Spec => Laws!Spec
<1>1. Coordinator!Init => Laws!Init
  BY DEF Coordinator!Init, Coordinator!DefaultState, Coordinator!NoBoot, Laws!Init,
         Laws!DefaultState, Laws!NoBoot
<1>2. Coordinator!Next => Laws!Next
  BY DEF Coordinator!DefaultState, Coordinator!NoBoot, Coordinator!Valid,
         Coordinator!record_staged, Coordinator!CountsThisBoot, Coordinator!DigestFailures,
         Coordinator!ClearPending, Coordinator!FailureState, Coordinator!Judge,
         Coordinator!record_failure, Coordinator!mark_healthy, Coordinator!Quarantined,
         Coordinator!note_rollback_attempted, Coordinator!ReleaseSlot,
         Coordinator!clear_quarantine, Coordinator!Persisted, Coordinator!Transaction,
         Coordinator!RecordStaged, Coordinator!CountFailure, Coordinator!RecordFailure,
         Coordinator!MarkHealthy, Coordinator!ClearQuarantine, Coordinator!NoteRollbackAttempted,
         Coordinator!ReleaseRollbackSlot, Coordinator!Boot, Coordinator!Next, Laws!DefaultState,
         Laws!NoBoot, Laws!Valid, Laws!record_staged, Laws!CountsThisBoot, Laws!DigestFailures,
         Laws!ClearPending, Laws!FailureState, Laws!Judge, Laws!record_failure,
         Laws!mark_healthy, Laws!Quarantined, Laws!note_rollback_attempted, Laws!ReleaseSlot,
         Laws!clear_quarantine, Laws!Persisted, Laws!Transaction, Laws!RecordStaged,
         Laws!CountFailure, Laws!RecordFailure, Laws!MarkHealthy, Laws!ClearQuarantine,
         Laws!NoteRollbackAttempted, Laws!ReleaseRollbackSlot, Laws!Boot, Laws!Next
<1>3. UNCHANGED Coordinator!vars => UNCHANGED Laws!vars BY DEF Coordinator!vars, Laws!vars
<1> QED BY <1>1, <1>2, <1>3, MachineImplementsCoordinator, PTL
        DEF ImplementsCoordinator, Coordinator!Spec, Laws!Spec

LEMMA HealthTyped == Spec => [](health \in HealthState)
<1>1. Laws!Spec => []Laws!TypeOK BY Laws!TypeCorrect, LawsApply
<1>2. Laws!TypeOK => health \in HealthState
  BY DEF Laws!TypeOK, Laws!HealthState, HealthState, Laws!Statuses, Statuses, Laws!Rings, Rings
<1> QED BY <1>1, <1>2, MachineFollowsLaws, PTL

\* On the machine too, with its concurrent recorders, late notes, power
\* losses and an administrator, a digest is quarantined only on the evidence
\* of Threshold different failed boots since it was last forgiven.
THEOREM MachineQuarantineEarned == Spec => []Laws!QuarantineEarned
<1>1. Laws!Spec => []Laws!QuarantineEarned BY Laws!QuarantineIsEarned, LawsApply
<1> QED BY <1>1, MachineFollowsLaws, PTL

\* And nothing any program of the machine does, but a healthy boot or
\* clear-quarantine, lowers a tally or releases a quarantine.
THEOREM MachineEvidenceKept == Spec => Laws!EvidenceKept
<1>1. Laws!Spec => Laws!EvidenceKept BY Laws!EvidenceIsKept, LawsApply
<1> QED BY <1>1, MachineFollowsLaws, PTL

-----------------------------------------------------------------------------
(* A check of the quarantine stays valid until its digest is used.         *)

\* A refused transaction leaves the file; otherwise it holds the new state.
LEMMA TransactionLeaves ==
    ASSUME NEW t, Coordinator!Transaction(t)
    PROVE  health' = health \/ health' = t
BY DEF Coordinator!Transaction, Coordinator!Persisted

\* The transactions other than the report of a failed boot never quarantine.
LEMMA QuietTransactions ==
    ASSUME health \in HealthState, NEW d \in Digests,
           \/ \E e \in Digests : Coordinator!RecordStaged(e)
           \/ Coordinator!MarkHealthy /\ booted \in Digests
           \/ \E e \in Digests : Coordinator!ClearQuarantine(e)
           \/ \E e \in Digests, failed \in BOOLEAN : Coordinator!NoteRollbackAttempted(e, failed)
           \/ \E e \in Digests : Coordinator!ReleaseRollbackSlot(e)
    PROVE  Quarantined(health', d) => Quarantined(health, d)
<1>0. health.quarantined \in [Digests -> Nat] BY DEF HealthState
<1>1. ASSUME NEW e \in Digests, Coordinator!RecordStaged(e)
      PROVE  health'.quarantined = health.quarantined
  <2>1. health' = health \/ health' = Coordinator!record_staged(health, e, Channel)
    BY <1>1, TransactionLeaves DEF Coordinator!RecordStaged
  <2> QED BY <2>1 DEF Coordinator!record_staged, HealthState
<1>2. ASSUME Coordinator!MarkHealthy, booted \in Digests
      PROVE  \/ health'.quarantined = health.quarantined
             \/ health'.quarantined = [health.quarantined EXCEPT ![booted] = 0]
  <2>1. health' = health \/ health' = Coordinator!mark_healthy(health, booted)
    BY <1>2, TransactionLeaves DEF Coordinator!MarkHealthy
  <2> QED BY <2>1 DEF Coordinator!mark_healthy, HealthState
<1>3. ASSUME NEW e \in Digests
      PROVE  Coordinator!ReleaseSlot(health, e) \in HealthState
             /\ Coordinator!ReleaseSlot(health, e).quarantined = health.quarantined
  BY DEF Coordinator!ReleaseSlot, HealthState
<1>4. ASSUME NEW e \in Digests, Coordinator!ClearQuarantine(e)
      PROVE  \/ health'.quarantined = health.quarantined
             \/ health'.quarantined = [health.quarantined EXCEPT ![e] = 0]
  <2> DEFINE r == Coordinator!ReleaseSlot(health, e)
  <2>1. health' = health \/ health' = Coordinator!clear_quarantine(health, e)
    BY <1>4, TransactionLeaves DEF Coordinator!ClearQuarantine
  <2>2. r \in HealthState /\ r.quarantined = health.quarantined BY <1>3
  <2>3. Coordinator!clear_quarantine(health, e) =
          [r EXCEPT !.quarantined = [@ EXCEPT ![e] = 0],
                    !.failures_by_digest = [@ EXCEPT ![e] = 0],
                    !.status = IF health.current_digest = e /\ health.status = "quarantined"
                               THEN "unhealthy" ELSE health.status]
    BY DEF Coordinator!clear_quarantine
  <2> HIDE DEF r
  <2>4. Coordinator!clear_quarantine(health, e).quarantined = [r.quarantined EXCEPT ![e] = 0]
    BY <2>2, <2>3 DEF HealthState
  <2> QED BY <2>1, <2>2, <2>4
<1>5. ASSUME NEW e \in Digests, NEW failed \in BOOLEAN,
             Coordinator!NoteRollbackAttempted(e, failed)
      PROVE  health'.quarantined = health.quarantined
  <2>1. health' = health \/ health' = Coordinator!note_rollback_attempted(health, e, failed)
    BY <1>5, TransactionLeaves DEF Coordinator!NoteRollbackAttempted
  <2> QED BY <2>1 DEF Coordinator!note_rollback_attempted, HealthState
<1>6. ASSUME NEW e \in Digests, Coordinator!ReleaseRollbackSlot(e)
      PROVE  health'.quarantined = health.quarantined
  <2>1. health' = health \/ health' = Coordinator!ReleaseSlot(health, e)
    BY <1>6, TransactionLeaves DEF Coordinator!ReleaseRollbackSlot
  <2> QED BY <2>1, <1>3
<1>7. \/ health'.quarantined = health.quarantined
      \/ \E e \in Digests : health'.quarantined = [health.quarantined EXCEPT ![e] = 0]
  BY <1>1, <1>2, <1>4, <1>5, <1>6
<1> QED BY <1>0, <1>7 DEF Quarantined

\* The report of a failed boot judges the booted digest only.
LEMMA ReportJudgesBooted ==
    ASSUME health \in HealthState, booted \in Digests, NEW t, Coordinator!RecordFailure(t),
           NEW d \in Digests \ {booted}
    PROVE  Quarantined(health', d) => Quarantined(health, d)
<1> DEFINE total == Coordinator!DigestFailures(health, booted, boot)
           quar == Coordinator!Judge(health, booted, total, t)
           tallies == [health.failures_by_digest EXCEPT ![booted] = total]
           r == Coordinator!FailureState(health, booted, boot, quar, tallies)
<1>1. health' = health \/ health' = r
  BY TransactionLeaves DEF Coordinator!RecordFailure, Coordinator!record_failure
<1>2. health.quarantined \in [Digests -> Nat] BY DEF HealthState
<1>3. quar[d] = health.quarantined[d] BY <1>2 DEF Coordinator!Judge
<1> HIDE DEF quar, tallies
<1>4. r.quarantined = quar BY DEF Coordinator!FailureState, HealthState
<1> QED BY <1>1, <1>3, <1>4 DEF Quarantined

\* No step of the machine quarantines a digest that is not booted.
LEMMA OnlyBootedJudged ==
    ASSUME ProgramInv, health \in HealthState, [Next]_vars, NEW d \in Digests \ {booted}
    PROVE  Quarantined(health', d) => Quarantined(health, d)
<1>1. booted \in Digests BY DEF ProgramInv, ProgramTypes
<1>2. [Coordinator!Next]_(Coordinator!vars) BY MachineTransacts
<1>3. CASE \E t \in Thresholds : Coordinator!RecordFailure(t) BY <1>1, <1>3, ReportJudgesBooted
<1>4. CASE health' = health BY <1>4 DEF Quarantined
<1>5. (\E e \in Digests : Coordinator!Boot(e)) \/ UNCHANGED Coordinator!vars => health' = health
  BY DEF Coordinator!Boot, Coordinator!vars
<1> QED BY <1>1, <1>2, <1>3, <1>4, <1>5, QuietTransactions DEF Coordinator!Next

\* safe-upgrade comes to its record step only from a check it passed, and
\* keeps the digest it checked.
LEMMA SuChecked ==
    ASSUME ProgramInv, [Next]_vars, su'.pc \in {"record", "finalize"}
    PROVE  \/ /\ su.pc \in {"record", "finalize"} /\ su'.seen = su.seen
           \/ /\ su.pc = "check" /\ su'.seen = su.seen
              /\ ~Quarantined(health, su.seen) /\ UNCHANGED health
<1>a. su \in SuType BY DEF ProgramInv, ProgramTypes
<1>1. CASE SafeUpgrade
  <2>1. su'.pc \notin {"record", "finalize"} \/ SuCheck \/ SuRecord
    <3>1. ASSUME NEW pc \in {"gate", "lock", "bootc", "verify", "check"},
                 su' = [su EXCEPT !.pc = pc] \/ su' = [su EXCEPT !.pc = pc, !.seen = staged]
          PROVE  su'.pc = pc
      BY <3>1, <1>a DEF SuType
    <3>2. CASE su' = SuIdle BY <3>2 DEF SuIdle
    <3> QED BY <1>1, <3>1, <3>2 DEF SafeUpgrade, SuBegin, SuGate, SuLock, SuBootc, SuVerify,
                                     SuFinalize, SuGoto, SuDone
  <2>2. CASE SuCheck
    <3>1. \/ su' = SuIdle
          \/ ~Quarantined(health, su.seen) /\ su' = [su EXCEPT !.pc = "record"]
      BY <2>2 DEF SuCheck, SuDone, SuGoto, SuRefuses
    <3>2. su' # SuIdle BY DEF SuIdle
    <3>3. UNCHANGED health /\ su.pc = "check" BY <2>2 DEF SuCheck, SuFrame, coordVars
    <3> QED BY <1>a, <3>1, <3>2, <3>3 DEF SuType
  <2>3. CASE SuRecord
    BY <2>3, <1>a DEF SuRecord, SuGoto, SuType
  <2> QED BY <2>1, <2>2, <2>3
<1>2. CASE Reboot \/ PowerLoss
  <2>1. PICK d \in Digests : StartBoot(d) BY <1>2, RestartsBoot
  <2> QED BY <2>1 DEF StartBoot, SuIdle
<1>3. CASE UNCHANGED su BY <1>3
<1>4. SafeUpgrade \/ Reboot \/ PowerLoss \/ UNCHANGED su
  BY DEF Next, vars, progVars, Watcher, WtBegin, WtProbe, WtGate, WtLock, WtBootc, WtReread,
         WtRecord, WtFrame, Switch, SwLock, SwBootc, SwFinalize, SwFrame, Recorder, RecBegin,
         RecTransaction, RecRollback, RecNote, RecFrame, MarkHealthy, Admin, ClearQuarantine,
         AdmBegin, AdmRelease, AdmRollback, AdmNote, AdmFrame, Greenboot, Publish
<1> QED BY <1>1, <1>2, <1>3, <1>4

\* So does the watcher come to its bootc call.
LEMMA WtChecked ==
    ASSUME ProgramInv, [Next]_vars, wt'.pc \in {"lock", "bootc"}
    PROVE  \/ /\ wt.pc \in {"lock", "bootc"} /\ wt'.remote = wt.remote
           \/ /\ wt.pc = "gate" /\ wt'.remote = wt.remote
              /\ ~Quarantined(health, wt.remote) /\ UNCHANGED health
<1>a. wt \in WtType BY DEF ProgramInv, ProgramTypes
<1>1. CASE Watcher
  <2>1. wt'.pc \notin {"lock", "bootc"} \/ WtGate \/ WtLock
    <3>1. CASE WtBegin BY <3>1 DEF WtBegin
    <3>2. CASE WtProbe
      <4>1. CASE wt' = WtIdle BY <4>1 DEF WtIdle
      <4>2. CASE wt' = [wt EXCEPT !.pc = "gate", !.remote = remote] BY <4>2, <1>a DEF WtType
      <4> QED BY <3>2, <4>1, <4>2 DEF WtProbe
    <3>3. CASE WtBootc
      <4>1. wt' = [wt EXCEPT !.pc = "reread"] \/ wt' = WtIdle BY <3>3 DEF WtBootc, WtGoto
      <4> QED BY <4>1, <1>a DEF WtIdle, WtType
    <3>4. CASE WtReread
      <4> DEFINE d == IF BootcActive \/ staged = NoDigest THEN wt.remote ELSE staged
      <4>1. wt' = [wt EXCEPT !.pc = "record", !.seen = d] BY <3>4 DEF WtReread
      <4> HIDE DEF d
      <4> QED BY <4>1, <1>a DEF WtType
    <3>5. CASE WtRecord BY <3>5 DEF WtRecord, WtIdle
    <3> QED BY <1>1, <3>1, <3>2, <3>3, <3>4, <3>5 DEF Watcher
  <2>2. CASE WtGate
    <3>1. \/ wt' = WtIdle
          \/ ~Quarantined(health, wt.remote) /\ wt' = [wt EXCEPT !.pc = "lock"]
      BY <2>2 DEF WtGate, WtGoto, WtSkips
    <3>2. wt' # WtIdle BY DEF WtIdle
    <3>3. UNCHANGED health /\ wt.pc = "gate" BY <2>2 DEF WtGate, WtFrame, coordVars
    <3> QED BY <1>a, <3>1, <3>2, <3>3 DEF WtType
  <2>3. CASE WtLock
    <3>1. wt' # WtIdle BY DEF WtIdle
    <3> QED BY <2>3, <3>1, <1>a DEF WtLock, WtGoto, WtType
  <2> QED BY <2>1, <2>2, <2>3
<1>2. CASE Reboot \/ PowerLoss
  <2>1. PICK d \in Digests : StartBoot(d) BY <1>2, RestartsBoot
  <2> QED BY <2>1 DEF StartBoot, WtIdle
<1>3. CASE UNCHANGED wt BY <1>3
<1>4. Watcher \/ Reboot \/ PowerLoss \/ UNCHANGED wt
  BY DEF Next, vars, progVars, SafeUpgrade, SuBegin, SuGate, SuLock, SuBootc, SuVerify, SuCheck,
         SuRecord, SuFinalize, SuFrame, Switch, SwLock, SwBootc, SwFinalize, SwFrame, Recorder,
         RecBegin, RecTransaction, RecRollback, RecNote, RecFrame, MarkHealthy, Admin,
         ClearQuarantine, AdmBegin, AdmRelease, AdmRollback, AdmNote, AdmFrame, Greenboot, Publish
<1> QED BY <1>1, <1>2, <1>3, <1>4

\* The machine is not restarted under a running safe-upgrade.
LEMMA BootedWhileUpgrading ==
    ASSUME ProgramInv, [Next]_vars, su'.pc \in {"record", "finalize"}
    PROVE  booted' = booted
<1>1. CASE Reboot \/ PowerLoss
  <2>1. PICK d \in Digests : StartBoot(d) BY <1>1, RestartsBoot
  <2> QED BY <2>1 DEF StartBoot, SuIdle
<1>2. CASE ~(Reboot \/ PowerLoss)
  BY <1>2 DEF Next, vars, coordVars, SafeUpgrade, SuBegin, SuGate, SuLock, SuBootc, SuVerify,
         SuCheck, SuRecord, SuFinalize, SuFrame, Watcher, WtBegin, WtProbe, WtGate, WtLock,
         WtBootc, WtReread, WtRecord, WtFrame, Switch, SwLock, SwBootc, SwFinalize, SwFrame,
         Recorder, RecBegin, RecTransaction, RecRollback, RecNote, RecFrame, MarkHealthy, Admin,
         ClearQuarantine, AdmBegin, AdmRelease, AdmRollback, AdmNote, AdmFrame, Greenboot, Publish,
         Coordinator!RecordStaged, Coordinator!RecordFailure, Coordinator!NoteRollbackAttempted,
         Coordinator!MarkHealthy, Coordinator!ClearQuarantine, Coordinator!ReleaseRollbackSlot
<1> QED BY <1>1, <1>2

\* No step can quarantine a digest found clean, but the booted one.
LEMMA ChecksStep ==
    ASSUME ProgramInv, health \in HealthState, ChecksStayValid, [Next]_vars
    PROVE  ChecksStayValid'
<1>1. SafeUpgradeRecordsClean'
  <2> SUFFICES ASSUME su'.pc \in {"record", "finalize"}, su'.seen # booted'
               PROVE  ~Quarantined(health', su'.seen)
    BY DEF SafeUpgradeRecordsClean
  <2>0. su'.seen # booted BY BootedWhileUpgrading
  <2>1. /\ su'.seen = su.seen /\ ~Quarantined(health, su.seen)
        /\ su.pc \in {"check", "record", "finalize"}
    BY <2>0, SuChecked DEF ChecksStayValid, SafeUpgradeRecordsClean
  <2>2. su.seen \in Digests \ {booted} BY <2>0, <2>1 DEF ProgramInv, CarriedDigests
  <2> QED BY <2>1, <2>2, OnlyBootedJudged
<1>2. WatcherStartsClean'
  <2> SUFFICES ASSUME wt'.pc \in {"lock", "bootc"}
               PROVE  ~Quarantined(health', wt'.remote)
    BY DEF WatcherStartsClean
  <2>1. CASE wt.pc \in {"lock", "bootc"} /\ wt'.remote = wt.remote
    <3>1. wt.remote \in Digests \ {booted} BY <2>1 DEF ProgramInv, CarriedDigests
    <3>2. ~Quarantined(health, wt.remote) BY <2>1 DEF ChecksStayValid, WatcherStartsClean
    <3> QED BY <2>1, <3>1, <3>2, OnlyBootedJudged
  <2>2. CASE wt'.remote = wt.remote /\ ~Quarantined(health, wt.remote) /\ UNCHANGED health
    BY <2>2 DEF Quarantined
  <2> QED BY <2>1, <2>2, WtChecked
<1> QED BY <1>1, <1>2 DEF ChecksStayValid

\* A digest that safe-upgrade or the watcher looked up and found clean is
\* still clean when it is recorded, finalized or handed to bootc, although
\* each looks it up outside the transaction that uses it.
THEOREM ChecksRemainValid == Spec => []ChecksStayValid
<1>1. Init => ChecksStayValid
  BY DEF Init, SuIdle, WtIdle, ChecksStayValid, SafeUpgradeRecordsClean, WatcherStartsClean
<1>2. ProgramInv /\ health \in HealthState /\ ChecksStayValid /\ [Next]_vars => ChecksStayValid'
  BY ChecksStep
<1> QED BY <1>1, <1>2, ProgramInvHolds, HealthTyped, PTL DEF Spec

-----------------------------------------------------------------------------
(* Types of the whole machine.                                             *)

RecType == [pc : {"idle", "read", "rollback", "note_ok", "note_failed", "done"},
            before : HealthState]
AttemptType == [outcome : {"none", "ok", "failed"}, boot : Nat, rollbacks : Nat]

HookTypes ==
    /\ verdict \in {"none", "red", "green"}
    /\ rec \in [Recorders -> RecType]
    /\ attempt \in [Digests -> AttemptType]
    /\ faults \in Nat /\ losses \in Nat

\* What the coordinator's proof says of the file and the boot.
FileFacts ==
    /\ health \in HealthState /\ Valid(health)
    /\ boot \in Nat /\ boot # NoBoot
    /\ health.last_failure_boot_id <= boot

LEMMA FileFactsHold == Spec => []FileFacts
<1>1. Laws!Spec => []Laws!IInv BY Laws!AlwaysIInv, LawsApply
<1>2. Laws!IInv => FileFacts
  <2> SUFFICES ASSUME Laws!IInv PROVE FileFacts OBVIOUS
  <2>1. health \in HealthState /\ boot \in Nat
    BY DEF Laws!IInv, Laws!TypeOK, Laws!HealthState, HealthState, Laws!Statuses, Statuses,
           Laws!Rings, Rings
  <2>2. Valid(health) BY DEF Laws!IInv, Laws!Valid, Valid
  <2>3. boot # NoBoot /\ health.last_failure_boot_id <= boot
    BY DEF Laws!IInv, Laws!BootIdKnown, Laws!NoBoot, NoBoot
  <2> QED BY <2>1, <2>2, <2>3 DEF FileFacts
<1> QED BY <1>1, <1>2, MachineFollowsLaws, PTL

\* The initial file is a file.
LEMMA DefaultTyped == DefaultState \in HealthState
BY DEF DefaultState, HealthState, Statuses, Rings, NoBoot

\* Everything but the hooks leaves what they keep alone.
LEMMA ProgramsLeaveHooks ==
    ASSUME SafeUpgrade \/ Watcher \/ Switch \/ Publish \/ Greenboot \/ UNCHANGED vars
    PROVE  /\ UNCHANGED <<rec, attempt, adm, faults, losses>>
           /\ UNCHANGED verdict \/ Greenboot
<1> USE DEF coordVars, bootcVars, progVars, envVars, vars
<1>1. CASE SafeUpgrade
  BY <1>1 DEF SafeUpgrade, SuBegin, SuGate, SuLock, SuBootc, SuVerify, SuCheck, SuRecord,
              SuFinalize, SuFrame
<1>2. CASE Watcher
  BY <1>2 DEF Watcher, WtBegin, WtProbe, WtGate, WtLock, WtBootc, WtReread, WtRecord, WtFrame
<1>3. CASE Switch BY <1>3 DEF Switch, SwLock, SwBootc, SwFinalize, SwFrame
<1>4. CASE Publish BY <1>4 DEF Publish
<1>5. CASE Greenboot BY <1>5 DEF Greenboot
<1>6. CASE UNCHANGED vars BY <1>6
<1> QED BY <1>1, <1>2, <1>3, <1>4, <1>5, <1>6

\* A recorder that moves on forgets what it read.
LEMMA RecGotoTyped ==
    ASSUME HookTypes, NEW p \in Recorders,
           NEW pc \in {"rollback", "note_ok", "note_failed", "done"}, RecGoto(p, pc)
    PROVE  rec' \in [Recorders -> RecType] /\ rec'[p].pc = pc
<1>1. rec \in [Recorders -> RecType] BY DEF HookTypes
<1>2. RecIdle = [pc |-> "idle", before |-> DefaultState] BY DEF RecIdle
<1> DEFINE e == [RecIdle EXCEPT !.pc = pc]
<1>3. e \in RecType /\ e.pc = pc BY <1>2, DefaultTyped DEF RecType
<1>4. rec' = [rec EXCEPT ![p] = e] BY DEF RecGoto
<1> HIDE DEF e
<1> QED BY <1>1, <1>3, <1>4

\* What `bootc rollback` leaves of the history.
LEMMA AttemptedTyped ==
    ASSUME HookTypes, FileFacts, ProgramInv, NEW outcome \in {"ok", "failed"}, Attempted(outcome)
    PROVE  /\ attempt' \in [Digests -> AttemptType]
           /\ \A d \in Digests \ {booted} : attempt'[d] = attempt[d]
           /\ attempt'[booted].outcome = outcome
           /\ attempt'[booted].boot = boot
           /\ attempt'[booted].rollbacks
                = attempt[booted].rollbacks + (IF outcome = "ok" THEN 1 ELSE 0)
<1>1. attempt \in [Digests -> AttemptType] /\ booted \in Digests /\ boot \in Nat
  BY DEF HookTypes, FileFacts, ProgramInv, ProgramTypes
<1>2. attempt[booted].rollbacks \in Nat BY <1>1 DEF AttemptType
<1> DEFINE n == IF outcome = "ok" THEN attempt[booted].rollbacks + 1 ELSE attempt[booted].rollbacks
           a == [outcome |-> outcome, boot |-> boot, rollbacks |-> n]
<1>3. n \in Nat /\ n = attempt[booted].rollbacks + (IF outcome = "ok" THEN 1 ELSE 0) BY <1>2
<1>4. attempt' = [attempt EXCEPT ![booted] = a] BY DEF Attempted
<1> HIDE DEF n
<1>5. a \in AttemptType /\ a.outcome = outcome /\ a.boot = boot /\ a.rollbacks = n
  BY <1>1, <1>3 DEF AttemptType
<1> HIDE DEF a
<1> QED BY <1>1, <1>3, <1>4, <1>5

LEMMA NoAttemptTyped ==
    /\ NoAttempt \in AttemptType
    /\ NoAttempt.outcome = "none" /\ NoAttempt.rollbacks = 0
BY DEF NoAttempt, AttemptType, NoBoot

\* The types of the hooks are kept by every step.
LEMMA HookTypesStep ==
    ASSUME ProgramInv, FileFacts, HookTypes, [Next]_vars
    PROVE  HookTypes'
<1>a. /\ verdict \in {"none", "red", "green"} /\ rec \in [Recorders -> RecType]
      /\ attempt \in [Digests -> AttemptType] /\ faults \in Nat /\ losses \in Nat
      /\ health \in HealthState /\ booted \in Digests
  BY DEF HookTypes, FileFacts, ProgramInv, ProgramTypes
<1> USE DEF coordVars, bootcVars, progVars, envVars
<1>1. CASE SafeUpgrade \/ Watcher \/ Switch \/ Publish \/ Greenboot \/ UNCHANGED vars
  <2>1. UNCHANGED verdict \/ verdict' \in {"red", "green"} BY <1>1, ProgramsLeaveHooks DEF Greenboot
  <2>2. UNCHANGED <<rec, attempt, faults, losses>> BY <1>1, ProgramsLeaveHooks
  <2> QED BY <2>1, <2>2, <1>a DEF HookTypes
<1>f. BootcRollbackFails => faults' \in Nat BY <1>a DEF BootcRollbackFails
<1>2. ASSUME NEW p \in Recorders, Recorder(p) PROVE HookTypes'
  <2>1. CASE RecBegin(p)
    <3>1. rec' \in [Recorders -> RecType]
      <4>1. CASE RecGoto(p, "done") BY <4>1, RecGotoTyped
      <4>2. CASE rec' = [rec EXCEPT ![p] = [pc |-> "read", before |-> health]]
        BY <4>2, <1>a DEF RecType
      <4> QED BY <2>1, <4>1, <4>2 DEF RecBegin
    <3>2. UNCHANGED <<verdict, attempt, faults, losses>> BY <2>1 DEF RecBegin, RecFrame
    <3> QED BY <3>1, <3>2, <1>a DEF HookTypes
  <2>2. CASE RecTransaction(p)
    <3>1. RecGoto(p, "rollback") \/ RecGoto(p, "done") BY <2>2 DEF RecTransaction
    <3>2. UNCHANGED <<verdict, attempt, faults, losses>> BY <2>2 DEF RecTransaction, RecFrame
    <3> QED BY <3>1, <3>2, <1>a, RecGotoTyped DEF HookTypes
  <2>3. CASE RecRollback(p)
    <3>1. \/ RecGoto(p, "note_ok") /\ Attempted("ok") /\ UNCHANGED faults
          \/ RecGoto(p, "note_failed") /\ Attempted("failed") /\ BootcRollbackFails
      BY <2>3 DEF RecRollback
    <3>2. UNCHANGED <<verdict, losses>> BY <2>3 DEF RecRollback, RecFrame
    <3> QED BY <3>1, <3>2, <1>a, <1>f, RecGotoTyped, AttemptedTyped DEF HookTypes
  <2>4. CASE RecNote(p)
    <3>1. RecGoto(p, "done") BY <2>4 DEF RecNote
    <3>2. UNCHANGED <<verdict, attempt, faults, losses>> BY <2>4 DEF RecNote, RecFrame
    <3> QED BY <3>1, <3>2, <1>a, RecGotoTyped DEF HookTypes
  <2> QED BY <1>2, <2>1, <2>2, <2>3, <2>4 DEF Recorder
<1>3. CASE MarkHealthy
  <2>1. Forgive(booted) /\ UNCHANGED <<rec, verdict, faults, losses>> BY <1>3 DEF MarkHealthy
  <2> QED BY <2>1, <1>a, NoAttemptTyped DEF HookTypes, Forgive
<1>4. CASE Admin
  <2>1. /\ UNCHANGED <<rec, verdict, losses>>
        /\ UNCHANGED attempt \/ \E d \in Digests : Forgive(d)
        /\ UNCHANGED faults \/ BootcRollbackFails
    BY <1>4 DEF Admin, ClearQuarantine, AdmBegin, AdmRelease, AdmRollback, AdmNote, AdmFrame
  <2> QED BY <2>1, <1>a, <1>f, NoAttemptTyped DEF HookTypes, Forgive
<1>5. CASE Reboot \/ PowerLoss
  <2>1. PICK d \in Digests : StartBoot(d) BY <1>5, RestartsBoot
  <2>2. /\ verdict' = "none" /\ rec' = [p \in Recorders |-> RecIdle]
        /\ UNCHANGED <<attempt, faults>>
    BY <2>1 DEF StartBoot
  <2>3. losses' \in Nat BY <1>5, <1>a DEF Reboot, PowerLoss
  <2>4. RecIdle \in RecType BY DefaultTyped DEF RecIdle, RecType
  <2> QED BY <2>2, <2>3, <2>4, <1>a DEF HookTypes
<1> QED BY <1>1, <1>2, <1>3, <1>4, <1>5 DEF Next

LEMMA HookTypesHold == Spec => []HookTypes
<1>1. Init => HookTypes
  <2>1. RecIdle \in RecType BY DefaultTyped DEF RecIdle, RecType
  <2> QED BY <2>1, NoAttemptTyped DEF Init, HookTypes
<1>2. ProgramInv /\ FileFacts /\ HookTypes /\ [Next]_vars => HookTypes' BY HookTypesStep
<1> QED BY <1>1, <1>2, ProgramInvHolds, FileFactsHold, PTL DEF Spec

\* Every program of the machine is at one of its steps and carries digests
\* where its code expects them: what safe-upgrade checks, records and
\* finalizes (safe_upgrade_bin.rs) is never the empty string.
THEOREM MachineTypeCorrect == Spec => []TypeOK
<1>1. Laws!Spec => []Laws!TypeOK BY Laws!TypeCorrect, LawsApply
<1>2. Laws!TypeOK => Coordinator!TypeOK
  BY DEF Laws!TypeOK, Laws!HealthState, Laws!Statuses, Laws!Rings,
         Coordinator!TypeOK, Coordinator!HealthState, Coordinator!Statuses, Coordinator!Rings
<1>3. Coordinator!TypeOK /\ ProgramInv /\ HookTypes => TypeOK
  BY DEF TypeOK, ProgramInv, ProgramTypes, CarriedDigests, HookTypes, SuType, WtType, AdmType,
         RecType, AttemptType
<1> QED BY <1>1, <1>2, <1>3, MachineFollowsLaws, ProgramInvHolds, HookTypesHold, PTL

-----------------------------------------------------------------------------
(* Automatic rollback, with one recorder per boot as greenboot runs it, no *)
(* administrator and no power loss.  With two recorders, a retry-rollback  *)
(* or a power loss between rollback and note, the properties are false.    *)

\* The last note in the file says that the rollback from d failed.
SlotFailed(d) == health.rollback_attempted_for = d /\ health.last_rollback_error

\* Where the recorder r of this boot stands; the file has not moved since r
\* read it.
RecorderInv(r) ==
    /\ adm.pc = "idle"
    /\ rec[r].pc # "idle" => verdict = "red"
    /\ rec[r].pc = "read" =>
         /\ rec[r].before.quarantined = health.quarantined
         /\ rec[r].before.failures_by_digest = health.failures_by_digest
    /\ rec[r].pc \in {"rollback", "note_ok", "note_failed"} => Quarantined(health, booted)

\* A digest that was rolled back from is quarantined, and no note of a failed
\* rollback invites another one, but for a note the recorder is replacing.
RolledBack(r, d) ==
    /\ attempt[d].rollbacks = 1
    /\ Quarantined(health, d)
    /\ d = booted => rec[r].pc \notin {"rollback", "note_failed"}
    /\ SlotFailed(d) => d = booted /\ rec[r].pc = "note_ok"

OnceInv(r) ==
    \A d \in Digests : attempt[d].rollbacks = 0 \/ RolledBack(r, d)

\* Greenboot's verdicts tell the bad images from the others.
VerdictsFit ==
    /\ verdict = "red" => booted \in Bad
    /\ HooksWired /\ verdict = "green" => booted \notin Bad

\* The quarantine of d, the attempts to leave it and the note in the file.
AttemptsFollow(r, d) ==
    /\ Quarantined(health, d) =>
         /\ d \in Bad
         /\ attempt[d].outcome # "none" \/ (d = booted /\ rec[r].pc = "rollback")
    /\ health.rollback_attempted_for = d => Quarantined(health, d)
    /\ attempt[d].outcome # "none" => d \in Bad
    /\ attempt[d].outcome = "failed" =>
         SlotFailed(d) \/ (d = booted /\ rec[r].pc = "note_failed")

\* Until the recorder reports it, this boot is not the last failure on file.
ThisReport(r) == rec[r].pc \in {"idle", "read"} => health.last_failure_boot_id # boot

\* What this boot has tried.
ThisBoot(r) ==
    /\ rec[r].pc = "note_ok" => attempt[booted].outcome = "ok"
    /\ rec[r].pc = "note_failed" =>
         attempt[booted].outcome = "failed" /\ attempt[booted].boot = boot
    /\ (/\ rec[r].pc = "done"
        /\ health.last_failure_boot_id = boot
        /\ attempt[booted].outcome = "failed"
        /\ Quarantined(health, booted)) => attempt[booted].boot = boot

\* Without updates the machine stays on a digest until its rollback succeeds.
StaysUntilRolledBack(r) ==
    /\ su.pc = "idle" /\ wt.pc = "idle" /\ sw = "idle" /\ staged = NoDigest
    /\ rec[r].pc \in {"idle", "read", "rollback"} => next = booted
    /\ \A d \in Digests : attempt[d].outcome = "failed" => d = booted /\ next = booted

FollowsInv(r) ==
    /\ VerdictsFit
    /\ \A d \in Digests : AttemptsFollow(r, d)
    /\ ThisBoot(r)
    /\ Updaters = {} => StaysUntilRolledBack(r)

MachineFacts == ProgramInv /\ FileFacts /\ HookTypes

\* The premises: greenboot alone, and the power stays on.
GreenbootAlone(r) == Recorders = {r} /\ ~AdminActs /\ MaxPowerLoss = 0

\* A digest is judged the same way at every boot, and a note is never
\* overwritten by the note of another digest that is still to be retried.
RetriesKept ==
    /\ Flaky \subseteq Bad
    /\ Updaters = {} \/ \A d, e \in Bad : d = e

\* The fields that decide on a rollback are as before.
SameRecord ==
    /\ health'.quarantined = health.quarantined
    /\ health'.failures_by_digest = health.failures_by_digest
    /\ health'.rollback_attempted_for = health.rollback_attempted_for
    /\ health'.last_rollback_error = health.last_rollback_error
    /\ health'.last_failure_boot_id = health.last_failure_boot_id

-----------------------------------------------------------------------------
(* What each step does to the rollback state.                              *)

\* Staging, the registry and greenboot's verdict leave the record alone.
LEMMA StepsBeside ==
    ASSUME MachineFacts,
           SafeUpgrade \/ Watcher \/ Switch \/ Publish \/ Greenboot \/ UNCHANGED vars
    PROVE  /\ SameRecord
           /\ UNCHANGED <<boot, booted, rec, attempt, adm>>
           /\ UNCHANGED verdict \/ Greenboot
<1>1. (\E d \in Digests : Coordinator!RecordStaged(d)) \/ UNCHANGED coordVars
  BY StagingTransacts DEF Publish, Greenboot, vars, MachineFacts
<1>2. CASE UNCHANGED coordVars
  BY <1>2, ProgramsLeaveHooks DEF coordVars, SameRecord
<1>3. ASSUME NEW d \in Digests, Coordinator!RecordStaged(d)
      PROVE  SameRecord /\ UNCHANGED <<boot, booted>>
  <2>1. health' = health \/ health' = Coordinator!record_staged(health, d, Channel)
    BY <1>3, TransactionLeaves DEF Coordinator!RecordStaged
  <2>2. health \in HealthState BY DEF MachineFacts, FileFacts
  <2>3. SameRecord BY <2>1, <2>2 DEF Coordinator!record_staged, HealthState, SameRecord
  <2> QED BY <2>3, <1>3 DEF Coordinator!RecordStaged
<1> QED BY <1>1, <1>2, <1>3, ProgramsLeaveHooks

\* The report of a failed boot and the decision on it.
LEMMA ReportStep ==
    ASSUME MachineFacts, NEW p \in Recorders, RecTransaction(p),
           health.last_failure_boot_id # boot
    PROVE  /\ UNCHANGED <<boot, booted, attempt, adm, verdict, next, staged, su, wt, sw>>
           /\ rec[p].pc = "read"
           /\ \/ health' = health /\ rec'[p].pc = "done"
              \/ /\ health'.last_failure_boot_id = boot
                 /\ health'.rollback_attempted_for = health.rollback_attempted_for
                 /\ health'.last_rollback_error = health.last_rollback_error
                 /\ health'.failures_by_digest[booted] = health.failures_by_digest[booted] + 1
                 /\ \A d \in Digests \ {booted} : Quarantined(health', d) <=> Quarantined(health, d)
                 /\ Quarantined(health, booted) => Quarantined(health', booted)
                 /\ rec'[p].pc = IF rollback_retry_due(rec[p].before, health', booted)
                                 THEN "rollback" ELSE "done"
<1>a. /\ health \in HealthState /\ booted \in Digests /\ boot \in Nat
      /\ health.quarantined \in [Digests -> Nat] /\ health.failures_by_digest \in [Digests -> Nat]
  BY DEF MachineFacts, FileFacts, ProgramInv, ProgramTypes, HealthState
<1>1. PICK t \in Thresholds :
        /\ Coordinator!RecordFailure(t)
        /\ RecGoto(p, IF /\ Valid(record_failure(health, booted, boot, t))
                         /\ rollback_retry_due(rec[p].before, record_failure(health, booted, boot, t), booted)
                      THEN "rollback" ELSE "done")
  BY DEF RecTransaction
<1> DEFINE u == record_failure(health, booted, boot, t)
           total == DigestFailures(health, booted, boot)
           q == Judge(health, booted, total, t)
           y == [health.failures_by_digest EXCEPT ![booted] = total]
<1>2. Coordinator!record_failure(health, booted, boot, t) = u
  BY DEF Coordinator!record_failure, Coordinator!DigestFailures, Coordinator!CountsThisBoot,
         Coordinator!Judge, Coordinator!FailureState, Coordinator!ClearPending,
         record_failure, DigestFailures, CountsThisBoot, Judge, FailureState, ClearPending
<1>3. Coordinator!Valid(u) <=> Valid(u) BY DEF Coordinator!Valid, Valid
<1>4. health' = IF Valid(u) THEN u ELSE health
  <2> HIDE DEF u
  <2> QED BY <1>1, <1>2, <1>3 DEF Coordinator!RecordFailure, Coordinator!Transaction,
                                  Coordinator!Persisted
<1>5. total = health.failures_by_digest[booted] + 1 /\ total \in Nat /\ total # 0
  <2>1. CountsThisBoot(health, booted, boot) BY DEF CountsThisBoot
  <2> QED BY <2>1, <1>a DEF DigestFailures
<1>6. q = health.quarantined \/ q = [health.quarantined EXCEPT ![booted] = total]
  BY DEF Judge
<1>7. u = FailureState(health, booted, boot, q, y) BY DEF record_failure
<1> HIDE DEF u, q, y, total
<1>8. /\ u.last_failure_boot_id = boot
      /\ u.rollback_attempted_for = health.rollback_attempted_for
      /\ u.last_rollback_error = health.last_rollback_error
      /\ u.failures_by_digest = y /\ u.quarantined = q
  BY <1>7, <1>a DEF FailureState, HealthState
<1>9. y[booted] = health.failures_by_digest[booted] + 1 BY <1>5, <1>a DEF y
<1>10. /\ \A d \in Digests \ {booted} : Quarantined(u, d) <=> Quarantined(health, d)
       /\ Quarantined(health, booted) => Quarantined(u, booted)
  BY <1>5, <1>6, <1>8, <1>a DEF Quarantined
<1>11. /\ UNCHANGED <<boot, booted, attempt, adm, verdict, next, staged, su, wt, sw>>
       /\ rec[p].pc = "read"
  BY <1>1 DEF RecTransaction, RecFrame, Coordinator!RecordFailure
<1>12. rec'[p].pc = IF Valid(u) /\ rollback_retry_due(rec[p].before, u, booted)
                    THEN "rollback" ELSE "done"
  <2>1. HookTypes BY DEF MachineFacts
  <2>2. RecGoto(p, IF Valid(u) /\ rollback_retry_due(rec[p].before, u, booted)
                   THEN "rollback" ELSE "done")
    BY <1>1 DEF u
  <2> QED BY <2>1, <2>2, RecGotoTyped
<1> QED BY <1>4, <1>8, <1>9, <1>10, <1>11, <1>12

\* The note of an attempt is never refused.
LEMMA NoteStep ==
    ASSUME MachineFacts, NEW p \in Recorders, RecNote(p)
    PROVE  /\ UNCHANGED <<boot, booted, attempt, adm, verdict, next, staged, su, wt, sw>>
           /\ rec[p].pc \in {"note_ok", "note_failed"} /\ rec'[p].pc = "done"
           /\ health'.quarantined = health.quarantined
           /\ health'.last_failure_boot_id = health.last_failure_boot_id
           /\ health'.rollback_attempted_for = booted
           /\ health'.last_rollback_error = (rec[p].pc = "note_failed")
<1>a. health \in HealthState /\ Valid(health) /\ HookTypes BY DEF MachineFacts, FileFacts
<1> DEFINE f == (rec[p].pc = "note_failed")
           u == note_rollback_attempted(health, booted, f)
<1>1. Coordinator!NoteRollbackAttempted(booted, f) /\ RecGoto(p, "done") BY DEF RecNote
<1> HIDE DEF f
<1>2. /\ u.quarantined = health.quarantined
      /\ u.last_failure_boot_id = health.last_failure_boot_id
      /\ u.rollback_attempted_for = booted
      /\ u.last_rollback_error = f
      /\ u.failures = health.failures /\ u.status = health.status
      /\ u.last_healthy_digest = health.last_healthy_digest
      /\ u.failures_by_digest = health.failures_by_digest
  BY <1>a DEF note_rollback_attempted, HealthState
<1>3. Coordinator!note_rollback_attempted(health, booted, f) = u
  BY DEF Coordinator!note_rollback_attempted, note_rollback_attempted
<1> HIDE DEF u
<1>4. Coordinator!Valid(u) BY <1>2, <1>a DEF Coordinator!Valid, Valid
<1>5. health' = u
  BY <1>1, <1>3, <1>4 DEF Coordinator!NoteRollbackAttempted, Coordinator!Transaction,
                          Coordinator!Persisted
<1>6. rec'[p].pc = "done" BY <1>1, <1>a, RecGotoTyped
<1>7. /\ UNCHANGED <<boot, booted, attempt, adm, verdict, next, staged, su, wt, sw>>
      /\ rec[p].pc \in {"note_ok", "note_failed"}
  BY <1>1 DEF RecNote, RecFrame, Coordinator!NoteRollbackAttempted
<1> QED BY <1>2, <1>5, <1>6, <1>7 DEF f

\* A healthy boot forgives the booted digest and leaves the slot alone.
LEMMA HealthyStep ==
    ASSUME MachineFacts, MarkHealthy
    PROVE  /\ UNCHANGED <<boot, booted, rec, adm, verdict, next, staged, su, wt, sw>>
           /\ verdict = "green" /\ HooksWired
           /\ attempt' = [attempt EXCEPT ![booted] = NoAttempt]
           /\ ~Quarantined(health', booted)
           /\ \A d \in Digests \ {booted} : Quarantined(health', d) <=> Quarantined(health, d)
           /\ health'.rollback_attempted_for = health.rollback_attempted_for
           /\ health'.last_rollback_error = health.last_rollback_error
           /\ health'.last_failure_boot_id # boot
<1>a. /\ health \in HealthState /\ Valid(health) /\ booted \in Digests /\ boot # NoBoot
      /\ health.quarantined \in [Digests -> Nat] /\ health.failures_by_digest \in [Digests -> Nat]
  BY DEF MachineFacts, FileFacts, ProgramInv, ProgramTypes, HealthState
<1> DEFINE u == mark_healthy(health, booted)
<1>2. /\ u.quarantined = [health.quarantined EXCEPT ![booted] = 0]
      /\ u.failures_by_digest = [health.failures_by_digest EXCEPT ![booted] = 0]
      /\ u.last_failure_boot_id = NoBoot
      /\ u.rollback_attempted_for = health.rollback_attempted_for
      /\ u.last_rollback_error = health.last_rollback_error
      /\ u.failures = 0 /\ u.last_healthy_digest = booted
  BY <1>a DEF mark_healthy, HealthState
<1>3. Coordinator!mark_healthy(health, booted) = u
  BY DEF Coordinator!mark_healthy, mark_healthy, Coordinator!Quarantined, Quarantined,
         Coordinator!ClearPending, ClearPending, Coordinator!NoBoot, NoBoot
<1> HIDE DEF u
<1>4. Coordinator!Valid(u)
  <2>1. /\ \A d \in Digests : u.quarantined[d] # 0 => u.quarantined[d] >= Threshold
        /\ \A d \in Digests : u.failures_by_digest[d] >= 0
    BY <1>2, <1>a DEF Valid
  <2>2. booted # NoDigest BY <1>a, DigestAssumption
  <2> QED BY <1>2, <2>1, <2>2 DEF Coordinator!Valid
<1>5. health' = u
  BY <1>3, <1>4 DEF MarkHealthy, Coordinator!MarkHealthy, Coordinator!Transaction,
                    Coordinator!Persisted
<1>6. /\ UNCHANGED <<boot, booted, rec, adm, verdict, next, staged, su, wt, sw>>
      /\ verdict = "green" /\ HooksWired
      /\ attempt' = [attempt EXCEPT ![booted] = NoAttempt]
  BY DEF MarkHealthy, Coordinator!MarkHealthy, Forgive, progVars, envVars, bootcVars
<1>7. /\ ~Quarantined(u, booted)
      /\ \A d \in Digests \ {booted} : Quarantined(u, d) <=> Quarantined(health, d)
  BY <1>2, <1>a DEF Quarantined
<1> QED BY <1>2, <1>5, <1>6, <1>7, <1>a

\* record-failure starts: it reads the file, or gives up.
LEMMA BeginStep ==
    ASSUME MachineFacts, NEW p \in Recorders, RecBegin(p)
    PROVE  /\ UNCHANGED <<health, boot, booted, attempt, adm, verdict, next, staged, su, wt, sw>>
           /\ verdict = "red" /\ rec[p].pc = "idle"
           /\ \/ rec'[p].pc = "done"
              \/ rec'[p].pc = "read" /\ rec'[p].before = health
<1>1. /\ UNCHANGED <<health, boot, booted, attempt, adm, verdict, next, staged, su, wt, sw>>
      /\ verdict = "red" /\ rec[p].pc = "idle"
  BY DEF RecBegin, RecFrame, coordVars
<1>2. CASE RecGoto(p, "done") BY <1>1, <1>2, RecGotoTyped DEF MachineFacts
<1>3. CASE rec' = [rec EXCEPT ![p] = [pc |-> "read", before |-> health]]
  BY <1>1, <1>3 DEF MachineFacts, HookTypes
<1> QED BY <1>2, <1>3 DEF RecBegin

\* `bootc rollback` runs, from the booted digest.
LEMMA RollbackStep ==
    ASSUME MachineFacts, NEW p \in Recorders, RecRollback(p)
    PROVE  /\ UNCHANGED <<health, boot, booted, adm, verdict, su, wt, sw>>
           /\ rec[p].pc = "rollback"
           /\ \A d \in Digests \ {booted} : attempt'[d] = attempt[d]
           /\ attempt'[booted].boot = boot
           /\ \/ /\ rec'[p].pc = "note_ok" /\ attempt'[booted].outcome = "ok"
                 /\ attempt'[booted].rollbacks = attempt[booted].rollbacks + 1
                 /\ staged' \in {staged, NoDigest}
              \/ /\ rec'[p].pc = "note_failed" /\ attempt'[booted].outcome = "failed"
                 /\ attempt'[booted].rollbacks = attempt[booted].rollbacks
                 /\ UNCHANGED <<next, staged>>
<1>1. /\ UNCHANGED <<health, boot, booted, adm, verdict, su, wt, sw>>
      /\ rec[p].pc = "rollback"
  BY DEF RecRollback, RecFrame, coordVars
<1>a. /\ HookTypes /\ FileFacts /\ ProgramInv
      /\ attempt[booted].rollbacks \in Nat
  BY DEF MachineFacts, HookTypes, AttemptType, ProgramInv, ProgramTypes
<1>2. CASE BootcRollback /\ RecGoto(p, "note_ok") /\ Attempted("ok")
  BY <1>1, <1>2, <1>a, RecGotoTyped, AttemptedTyped DEF BootcRollback
<1>3. CASE BootcRollbackFails /\ RecGoto(p, "note_failed") /\ Attempted("failed")
  BY <1>1, <1>3, <1>a, RecGotoTyped, AttemptedTyped DEF BootcRollbackFails
<1> QED BY <1>2, <1>3 DEF RecRollback

\* Without power loss a boot ends after a healthy verdict, or when the
\* recorder is done.
LEMMA RestartStep ==
    ASSUME NEW r, GreenbootAlone(r), MachineFacts, RecorderInv(r), Reboot \/ PowerLoss
    PROVE  /\ UNCHANGED <<health, attempt>>
           /\ booted' \in Digests /\ (booted' = next \/ booted' = staged)
           /\ boot' = boot + 1 /\ next' = booted' /\ staged' = NoDigest /\ verdict' = "none"
           /\ rec'[r].pc = "idle" /\ adm'.pc = "idle"
           /\ su'.pc = "idle" /\ wt'.pc = "idle" /\ sw' = "idle"
           /\ rec[r].pc \in {"idle", "done"}
<1>1. ~PowerLoss BY DEF PowerLoss, GreenbootAlone, MachineFacts, HookTypes
<1>2. PICK d \in Digests : StartBoot(d) /\ (d = next \/ d = staged)
  BY <1>1 DEF Reboot, MachineFacts, ProgramInv, ProgramTypes, MaybeDigest
<1>3. verdict = "green" \/ rec[r].pc = "done" BY <1>1 DEF Reboot, GreenbootAlone
<1>4. rec'[r] = RecIdle BY <1>2 DEF StartBoot, GreenbootAlone
<1>5. RecIdle.pc = "idle" /\ AdmIdle.pc = "idle" /\ SuIdle.pc = "idle" /\ WtIdle.pc = "idle"
  BY DEF RecIdle, AdmIdle, SuIdle, WtIdle
<1> QED BY <1>2, <1>3, <1>4, <1>5 DEF StartBoot, Coordinator!Boot, RecorderInv

\* With the administrator away, the steps of the machine are these.
LEMMA StepsAlone ==
    ASSUME NEW r, GreenbootAlone(r), RecorderInv(r), [Next]_vars
    PROVE  \/ SafeUpgrade \/ Watcher \/ Switch \/ Publish \/ Greenboot \/ UNCHANGED vars
           \/ RecBegin(r) \/ RecTransaction(r) \/ RecRollback(r) \/ RecNote(r)
           \/ MarkHealthy \/ Reboot \/ PowerLoss
<1>1. ~Admin
  BY DEF Admin, ClearQuarantine, AdmBegin, AdmRelease, AdmRollback, AdmNote, GreenbootAlone,
         RecorderInv
<1> QED BY <1>1 DEF Next, Recorder, GreenbootAlone

\* What the recorder may assume when it decides: a report that is due a
\* rollback quarantined the digest, or repeats a failed attempt.
LEMMA DueMeans ==
    ASSUME NEW r, RecorderInv(r), rec[r].pc = "read", booted \in Digests
    PROVE  rollback_retry_due(rec[r].before, health', booted)
           <=> /\ Quarantined(health', booted)
               /\ ~(health'.rollback_attempted_for = booted /\ ~health'.last_rollback_error)
               /\ \/ ~Quarantined(health, booted)
                  \/ /\ health'.rollback_attempted_for = booted /\ health'.last_rollback_error
                     /\ health'.failures_by_digest[booted] > health.failures_by_digest[booted]
BY DEF RecorderInv, rollback_retry_due, Quarantined

\* The recorder's invariant is inductive.
LEMMA RecorderStep ==
    ASSUME NEW r, GreenbootAlone(r), MachineFacts, RecorderInv(r), ThisReport(r), [Next]_vars
    PROVE  RecorderInv(r)' /\ ThisReport(r)'
<1>a. r \in Recorders /\ booted \in Digests BY DEF GreenbootAlone, MachineFacts, ProgramInv, ProgramTypes
<1>b. /\ boot \in Nat /\ boot # NoBoot /\ health.last_failure_boot_id \in Nat
      /\ health.last_failure_boot_id <= boot
  BY DEF MachineFacts, FileFacts, HealthState
<1> USE DEF ThisReport
<1>1. CASE SafeUpgrade \/ Watcher \/ Switch \/ Publish \/ Greenboot \/ UNCHANGED vars
  <2>1. verdict = "red" => verdict' = "red" BY <1>1, StepsBeside DEF Greenboot
  <2> QED BY <1>1, <2>1, StepsBeside DEF RecorderInv, SameRecord, Quarantined
<1>2. CASE RecBegin(r) BY <1>2, <1>a, BeginStep DEF RecorderInv
<1>3. CASE RecTransaction(r)
  <2>1. rec[r].pc = "read" BY <1>3 DEF RecTransaction
  <2>2. health.last_failure_boot_id # boot BY <2>1
  <2>3. rec'[r].pc \in {"rollback", "done"} BY <1>3, <1>a, <2>2, ReportStep
  <2>4. rec'[r].pc = "rollback" => Quarantined(health', booted)
    BY <1>3, <1>a, <2>1, <2>2, ReportStep, DueMeans
  <2>5. UNCHANGED <<boot, booted, adm, verdict>> BY <1>3, <1>a, <2>2, ReportStep
  <2> QED BY <2>1, <2>3, <2>4, <2>5 DEF RecorderInv
<1>4. CASE RecRollback(r) BY <1>4, <1>a, RollbackStep DEF RecorderInv, Quarantined
<1>5. CASE RecNote(r) BY <1>5, <1>a, NoteStep DEF RecorderInv
<1>6. CASE MarkHealthy
  <2>1. verdict = "green" /\ UNCHANGED <<rec, adm, verdict, boot>> /\ health'.last_failure_boot_id # boot
    BY <1>6, HealthyStep
  <2>2. rec[r].pc = "idle" BY <2>1 DEF RecorderInv
  <2> QED BY <2>1, <2>2 DEF RecorderInv
<1>7. CASE Reboot \/ PowerLoss BY <1>7, <1>b, RestartStep DEF RecorderInv
<1> QED BY <1>1, <1>2, <1>3, <1>4, <1>5, <1>6, <1>7, StepsAlone

\* A rolled-back digest stays rolled back: the only steps that can disturb it
\* are the report that would call for another rollback, and the note.
LEMMA OnceStep ==
    ASSUME NEW r, GreenbootAlone(r), MachineFacts, RecorderInv(r), ThisReport(r), OnceInv(r),
           [Next]_vars
    PROVE  OnceInv(r)'
<1>a. r \in Recorders /\ booted \in Digests BY DEF GreenbootAlone, MachineFacts, ProgramInv, ProgramTypes
<1>b. attempt \in [Digests -> AttemptType] BY DEF MachineFacts, HookTypes
<1> SUFFICES ASSUME NEW d \in Digests, attempt'[d].rollbacks # 0 PROVE RolledBack(r, d)'
  BY DEF OnceInv
<1>c. attempt[d].rollbacks = 0 \/ RolledBack(r, d) BY DEF OnceInv
<1>1. CASE SafeUpgrade \/ Watcher \/ Switch \/ Publish \/ Greenboot \/ UNCHANGED vars
  BY <1>1, <1>c, StepsBeside DEF RolledBack, SameRecord, Quarantined, SlotFailed
<1>2. CASE RecBegin(r) BY <1>2, <1>a, <1>c, BeginStep DEF RolledBack, SlotFailed, Quarantined
<1>3. CASE RecTransaction(r)
  <2>1. rec[r].pc = "read" BY <1>3 DEF RecTransaction
  <2>2. health.last_failure_boot_id # boot BY <2>1 DEF ThisReport
  <2>3. UNCHANGED <<booted, attempt>> BY <1>3, <1>a, <2>2, ReportStep
  <2>4. RolledBack(r, d) BY <1>c, <2>3
  <2>5. ~SlotFailed(d) BY <2>1, <2>4 DEF RolledBack
  <2>6. /\ health'.rollback_attempted_for = health.rollback_attempted_for
        /\ health'.last_rollback_error = health.last_rollback_error
        /\ Quarantined(health, d) => Quarantined(health', d)
    BY <1>3, <1>a, <2>2, ReportStep
  <2>7. d = booted => rec'[r].pc = "done"
    <3>1. SUFFICES ASSUME d = booted PROVE rec'[r].pc = "done" OBVIOUS
    <3>2. ~rollback_retry_due(rec[r].before, health', booted)
      BY <3>1, <2>1, <2>4, <2>5, <2>6, <1>a, DueMeans DEF RolledBack, SlotFailed
    <3> QED BY <1>3, <1>a, <2>2, <3>2, ReportStep
  <2>8. ~SlotFailed(d)' BY <2>5, <2>6 DEF SlotFailed
  <2> QED BY <2>3, <2>4, <2>6, <2>7, <2>8 DEF RolledBack
<1>4. CASE RecRollback(r)
  <2>1. CASE d = booted
    <3>1. attempt[d].rollbacks = 0 BY <1>4, <2>1, <1>a, <1>c, RollbackStep DEF RolledBack
    <3>2. /\ rec'[r].pc = "note_ok" /\ attempt'[d].rollbacks = 1
          /\ UNCHANGED <<booted, health>>
      BY <1>4, <2>1, <3>1, <1>a, RollbackStep
    <3>3. Quarantined(health, d) BY <1>4, <2>1, <1>a, RollbackStep DEF RecorderInv
    <3> QED BY <2>1, <3>2, <3>3 DEF RolledBack
  <2>2. CASE d # booted
    BY <1>4, <2>2, <1>a, <1>c, RollbackStep DEF RolledBack, SlotFailed
  <2> QED BY <2>1, <2>2
<1>5. CASE RecNote(r)
  <2>1. RolledBack(r, d) BY <1>5, <1>a, <1>c, NoteStep
  <2>2. ~SlotFailed(d)'
    BY <1>5, <1>a, <2>1, NoteStep DEF RolledBack, SlotFailed
  <2>3. /\ Quarantined(health', d) /\ UNCHANGED <<booted, attempt>> /\ rec'[r].pc = "done"
    BY <1>5, <1>a, <2>1, NoteStep DEF RolledBack, Quarantined
  <2> QED BY <2>1, <2>2, <2>3 DEF RolledBack
<1>6. CASE MarkHealthy
  <2>1. d # booted BY <1>6, <1>a, <1>b, HealthyStep, NoAttemptTyped
  <2>2. attempt'[d] = attempt[d] BY <1>6, <2>1, <1>b, HealthyStep
  <2> QED BY <1>6, <1>c, <2>1, <2>2, HealthyStep DEF RolledBack, SlotFailed
<1>7. CASE Reboot \/ PowerLoss
  BY <1>7, <1>c, RestartStep DEF RolledBack, SlotFailed, Quarantined
<1> QED BY <1>1, <1>2, <1>3, <1>4, <1>5, <1>6, <1>7, StepsAlone

\* The machine at its first boot.
LEMMA RollbackInit ==
    ASSUME NEW r, GreenbootAlone(r), Init
    PROVE  RecorderInv(r) /\ ThisReport(r) /\ OnceInv(r)
<1>1. rec[r].pc = "idle" /\ adm.pc = "idle" BY DEF Init, GreenbootAlone, RecIdle, AdmIdle
<1>2. health.last_failure_boot_id = NoBoot /\ boot # NoBoot
  BY DEF Init, Coordinator!Init, Coordinator!DefaultState, Coordinator!NoBoot, NoBoot
<1>3. OnceInv(r) BY NoAttemptTyped DEF Init, OnceInv
<1> QED BY <1>1, <1>2, <1>3 DEF RecorderInv, ThisReport

LEMMA MachineFactsHold == Spec => []MachineFacts
BY ProgramInvHolds, FileFactsHold, HookTypesHold, PTL DEF MachineFacts

LEMMA OnceHolds ==
    ASSUME NEW r, GreenbootAlone(r)
    PROVE  Spec => [](RecorderInv(r) /\ ThisReport(r) /\ OnceInv(r))
<1>1. Init => RecorderInv(r) /\ ThisReport(r) /\ OnceInv(r) BY RollbackInit
<1>2. /\ MachineFacts /\ [Next]_vars
      /\ RecorderInv(r) /\ ThisReport(r) /\ OnceInv(r)
      => (RecorderInv(r) /\ ThisReport(r) /\ OnceInv(r))'
  BY RecorderStep, OnceStep
<1> QED BY <1>1, <1>2, MachineFactsHold, PTL DEF Spec

\* With one recorder per boot, no administrator and no power loss, whatever
\* the images, the updaters, the thresholds and the failures of bootc: a
\* digest is left by an automatic rollback at most once until a healthy boot
\* forgives it (maybe_rollback and rollback_retry_due).
THEOREM RollsBackOnce ==
    ASSUME NEW r, GreenbootAlone(r)
    PROVE  Spec => []RollbackOnce
<1>1. OnceInv(r) => RollbackOnce
  <2> SUFFICES ASSUME OnceInv(r), NEW d \in Digests PROVE attempt[d].rollbacks <= 1
    BY DEF RollbackOnce
  <2>1. attempt[d].rollbacks = 0 \/ attempt[d].rollbacks = 1 BY DEF OnceInv, RolledBack
  <2> QED BY <2>1
<1> QED BY <1>1, OnceHolds, PTL

-----------------------------------------------------------------------------
(* Every quarantine is followed by its rollback.                           *)

\* Greenboot's verdicts fit the images.
LEMMA VerdictStep ==
    ASSUME NEW r, GreenbootAlone(r), RetriesKept, MachineFacts, RecorderInv(r), ThisReport(r),
           VerdictsFit, [Next]_vars
    PROVE  VerdictsFit'
<1>a. r \in Recorders BY DEF GreenbootAlone
<1>1. CASE SafeUpgrade \/ Watcher \/ Switch \/ Publish \/ Greenboot \/ UNCHANGED vars
  <2>1. UNCHANGED booted /\ (UNCHANGED verdict \/ Greenboot) BY <1>1, StepsBeside
  <2> QED BY <2>1 DEF Greenboot, VerdictsFit, RetriesKept
<1>2. CASE RecBegin(r) BY <1>2, <1>a, BeginStep DEF VerdictsFit
<1>3. CASE RecTransaction(r)
  <2>1. health.last_failure_boot_id # boot BY <1>3 DEF RecTransaction, ThisReport
  <2> QED BY <1>3, <1>a, <2>1, ReportStep DEF VerdictsFit
<1>4. CASE RecRollback(r) BY <1>4, <1>a, RollbackStep DEF VerdictsFit
<1>5. CASE RecNote(r) BY <1>5, <1>a, NoteStep DEF VerdictsFit
<1>6. CASE MarkHealthy BY <1>6, HealthyStep DEF VerdictsFit
<1>7. CASE Reboot \/ PowerLoss BY <1>7, RestartStep DEF VerdictsFit
<1> QED BY <1>1, <1>2, <1>3, <1>4, <1>5, <1>6, <1>7, StepsAlone

\* Without updaters nothing is staged.
LEMMA NothingStaged ==
    ASSUME NEW r, Updaters = {}, StaysUntilRolledBack(r),
           SafeUpgrade \/ Watcher \/ Switch \/ Publish \/ Greenboot \/ UNCHANGED vars
    PROVE  UNCHANGED <<next, staged, su, wt, sw>>
<1>1. su.pc = "idle" /\ wt.pc = "idle" /\ sw = "idle" BY DEF StaysUntilRolledBack
<1>2. ~SafeUpgrade
  BY <1>1 DEF SafeUpgrade, SuBegin, SuGate, SuLock, SuBootc, SuVerify, SuCheck, SuRecord, SuFinalize
<1>3. ~Watcher
  BY <1>1 DEF Watcher, WtBegin, WtProbe, WtGate, WtLock, WtBootc, WtReread, WtRecord
<1>4. ~Switch BY <1>1 DEF Switch, SwLock, SwBootc, SwFinalize
<1> QED BY <1>2, <1>3, <1>4 DEF Publish, Greenboot, vars, progVars, bootcVars

\* Without updaters a machine leaves a digest only by a rollback from it.
LEMMA StaysStep ==
    ASSUME NEW r, GreenbootAlone(r), MachineFacts, RecorderInv(r), ThisReport(r),
           Updaters = {}, StaysUntilRolledBack(r), [Next]_vars
    PROVE  StaysUntilRolledBack(r)'
<1>a. r \in Recorders /\ booted \in Digests BY DEF GreenbootAlone, MachineFacts, ProgramInv, ProgramTypes
<1>b. attempt \in [Digests -> AttemptType] BY DEF MachineFacts, HookTypes
<1>1. CASE SafeUpgrade \/ Watcher \/ Switch \/ Publish \/ Greenboot \/ UNCHANGED vars
  BY <1>1, NothingStaged, StepsBeside DEF StaysUntilRolledBack
<1>2. CASE RecBegin(r) BY <1>2, <1>a, BeginStep DEF StaysUntilRolledBack
<1>3. CASE RecTransaction(r)
  <2>1. health.last_failure_boot_id # boot BY <1>3 DEF RecTransaction, ThisReport
  <2>2. rec[r].pc = "read" /\ UNCHANGED <<booted, attempt, next, staged, su, wt, sw>>
    BY <1>3, <1>a, <2>1, ReportStep
  <2> QED BY <2>2 DEF StaysUntilRolledBack
<1>4. CASE RecRollback(r)
  <2>1. /\ UNCHANGED <<booted, su, wt, sw>> /\ rec[r].pc = "rollback"
        /\ \A d \in Digests \ {booted} : attempt'[d] = attempt[d]
    BY <1>4, <1>a, RollbackStep
  <2>2. next = booted BY <2>1 DEF StaysUntilRolledBack
  <2>3. CASE rec'[r].pc = "note_ok" /\ attempt'[booted].outcome = "ok" /\ staged' \in {staged, NoDigest}
    BY <2>1, <2>3 DEF StaysUntilRolledBack
  <2>4. CASE rec'[r].pc = "note_failed" /\ UNCHANGED <<next, staged>>
    BY <2>1, <2>2, <2>4 DEF StaysUntilRolledBack
  <2> QED BY <1>4, <1>a, <2>3, <2>4, RollbackStep
<1>5. CASE RecNote(r) BY <1>5, <1>a, NoteStep DEF StaysUntilRolledBack
<1>6. CASE MarkHealthy
  <2>1. \A d \in Digests : attempt'[d].outcome = "failed" => attempt[d].outcome = "failed"
    BY <1>6, <1>a, <1>b, HealthyStep, NoAttemptTyped
  <2> QED BY <1>6, <2>1, HealthyStep DEF StaysUntilRolledBack
<1>7. CASE Reboot \/ PowerLoss
  <2>1. staged = NoDigest /\ NoDigest \notin Digests
    BY DigestAssumption DEF StaysUntilRolledBack
  <2> QED BY <1>7, <2>1, RestartStep DEF StaysUntilRolledBack
<1> QED BY <1>1, <1>2, <1>3, <1>4, <1>5, <1>6, <1>7, StepsAlone

\* The quarantine of a digest and the attempts to leave it keep in step.
LEMMA AttemptsStep ==
    ASSUME NEW r, GreenbootAlone(r), RetriesKept, MachineFacts, RecorderInv(r), ThisReport(r),
           FollowsInv(r), [Next]_vars, NEW d \in Digests
    PROVE  AttemptsFollow(r, d)'
<1>a. r \in Recorders /\ booted \in Digests BY DEF GreenbootAlone, MachineFacts, ProgramInv, ProgramTypes
<1>b. attempt \in [Digests -> AttemptType] BY DEF MachineFacts, HookTypes
<1>c. AttemptsFollow(r, d) /\ VerdictsFit /\ ThisBoot(r) BY DEF FollowsInv
<1>d. rec[r].pc # "idle" => booted \in Bad BY <1>c DEF VerdictsFit, RecorderInv
<1>1. CASE SafeUpgrade \/ Watcher \/ Switch \/ Publish \/ Greenboot \/ UNCHANGED vars
  BY <1>1, <1>c, StepsBeside DEF AttemptsFollow, SameRecord, Quarantined, SlotFailed
<1>2. CASE RecBegin(r) BY <1>2, <1>a, <1>c, BeginStep DEF AttemptsFollow, Quarantined, SlotFailed
<1>3. CASE RecTransaction(r)
  <2>1. rec[r].pc = "read" BY <1>3 DEF RecTransaction
  <2>2. health.last_failure_boot_id # boot BY <2>1 DEF ThisReport
  <2>3. UNCHANGED <<booted, attempt>> BY <1>3, <1>a, <2>2, ReportStep
  <2>4. /\ health'.rollback_attempted_for = health.rollback_attempted_for
        /\ health'.last_rollback_error = health.last_rollback_error
        /\ Quarantined(health, d) => Quarantined(health', d)
        /\ d # booted /\ Quarantined(health', d) => Quarantined(health, d)
    BY <1>3, <1>a, <2>2, ReportStep
  <2>5. attempt[d].outcome = "failed" => SlotFailed(d)' BY <1>c, <2>1, <2>4 DEF AttemptsFollow, SlotFailed
  <2>6. Quarantined(health', d) => d \in Bad
    BY <1>c, <1>d, <2>1, <2>4 DEF AttemptsFollow
  <2>7. ASSUME Quarantined(health', d), attempt[d].outcome = "none"
        PROVE  d = booted /\ rec'[r].pc = "rollback"
    <3>1. ~Quarantined(health, d) BY <2>7, <1>c, <2>1 DEF AttemptsFollow
    <3>2. d = booted BY <2>7, <2>4, <3>1
    <3>3. health'.rollback_attempted_for # booted BY <3>1, <3>2, <2>4, <1>c DEF AttemptsFollow
    <3>4. rollback_retry_due(rec[r].before, health', booted)
      BY <2>1, <2>7, <3>1, <3>2, <3>3, <1>a, DueMeans
    <3>5. health' # health BY <2>7, <3>1
    <3> QED BY <1>3, <1>a, <2>2, <3>2, <3>4, <3>5, ReportStep
  <2> QED BY <1>c, <2>3, <2>4, <2>5, <2>6, <2>7 DEF AttemptsFollow
<1>4. CASE RecRollback(r)
  <2>1. CASE d = booted
    BY <1>4, <2>1, <1>a, <1>c, <1>d, RollbackStep DEF AttemptsFollow, RecorderInv, Quarantined
  <2>2. CASE d # booted
    BY <1>4, <2>2, <1>a, <1>c, RollbackStep DEF AttemptsFollow, SlotFailed, Quarantined
  <2> QED BY <2>1, <2>2
<1>5. CASE RecNote(r)
  <2>0. /\ UNCHANGED <<booted, attempt>> /\ rec[r].pc \in {"note_ok", "note_failed"}
        /\ rec'[r].pc = "done"
        /\ Quarantined(health', d) <=> Quarantined(health, d)
        /\ health'.rollback_attempted_for = booted
        /\ health'.last_rollback_error = (rec[r].pc = "note_failed")
    BY <1>5, <1>a, NoteStep DEF Quarantined
  <2>1. Quarantined(health, booted) BY <2>0 DEF RecorderInv
  <2>2. attempt[d].outcome = "failed" => d = booted
    <3>1. SUFFICES ASSUME attempt[d].outcome = "failed" PROVE d = booted OBVIOUS
    <3>2. d \in Bad /\ booted \in Bad BY <3>1, <2>0, <1>c, <1>d DEF AttemptsFollow
    <3>3. CASE Updaters = {} BY <3>1, <3>3 DEF FollowsInv, StaysUntilRolledBack
    <3> QED BY <3>2, <3>3 DEF RetriesKept
  <2>3. attempt[d].outcome = "failed" => SlotFailed(d)'
    BY <2>0, <2>2, <1>c DEF ThisBoot, SlotFailed
  <2> QED BY <1>c, <2>0, <2>1, <2>3 DEF AttemptsFollow
<1>6. CASE MarkHealthy
  <2>1. booted \notin Bad BY <1>6, <1>c, HealthyStep DEF VerdictsFit
  <2>2. ~Quarantined(health, booted) BY <2>1, <1>a DEF FollowsInv, AttemptsFollow
  <2>3. CASE d = booted
    BY <1>6, <2>1, <2>2, <2>3, <1>a, <1>b, <1>c, HealthyStep, NoAttemptTyped DEF AttemptsFollow
  <2>4. CASE d # booted
    <3>1. attempt'[d] = attempt[d] BY <1>6, <2>4, <1>b, HealthyStep
    <3> QED BY <1>6, <2>4, <3>1, <1>c, HealthyStep DEF AttemptsFollow, SlotFailed
  <2> QED BY <2>3, <2>4
<1>7. CASE Reboot \/ PowerLoss
  BY <1>7, <1>c, RestartStep DEF AttemptsFollow, SlotFailed, Quarantined
<1> QED BY <1>1, <1>2, <1>3, <1>4, <1>5, <1>6, <1>7, StepsAlone

\* A new failure of a digest whose rollback failed brings another attempt.
LEMMA ThisBootStep ==
    ASSUME NEW r, GreenbootAlone(r), RetriesKept, MachineFacts, RecorderInv(r), ThisReport(r),
           FollowsInv(r), [Next]_vars
    PROVE  ThisBoot(r)'
<1>a. r \in Recorders /\ booted \in Digests BY DEF GreenbootAlone, MachineFacts, ProgramInv, ProgramTypes
<1>c. AttemptsFollow(r, booted) /\ ThisBoot(r) BY <1>a DEF FollowsInv
<1>1. CASE SafeUpgrade \/ Watcher \/ Switch \/ Publish \/ Greenboot \/ UNCHANGED vars
  BY <1>1, <1>c, StepsBeside DEF ThisBoot, SameRecord, Quarantined
<1>2. CASE RecBegin(r)
  BY <1>2, <1>a, <1>c, BeginStep DEF ThisBoot, ThisReport
<1>3. CASE RecTransaction(r)
  <2>1. rec[r].pc = "read" BY <1>3 DEF RecTransaction
  <2>2. health.last_failure_boot_id # boot BY <2>1 DEF ThisReport
  <2>3. UNCHANGED <<boot, booted, attempt>> /\ rec'[r].pc \in {"rollback", "done"}
    BY <1>3, <1>a, <2>2, ReportStep
  <2>4. ASSUME rec'[r].pc = "done", health'.last_failure_boot_id = boot,
               attempt[booted].outcome = "failed", Quarantined(health', booted)
        PROVE  FALSE
    <3>1. SlotFailed(booted) BY <2>1, <2>4, <1>c DEF AttemptsFollow
    <3>2. health' # health BY <2>2, <2>4
    <3>3. /\ health'.rollback_attempted_for = booted /\ health'.last_rollback_error
          /\ health'.failures_by_digest[booted] = health.failures_by_digest[booted] + 1
          /\ ~rollback_retry_due(rec[r].before, health', booted)
      BY <1>3, <1>a, <2>2, <2>4, <3>1, <3>2, ReportStep DEF SlotFailed
    <3>4. health.failures_by_digest[booted] \in Nat
      BY <1>a DEF MachineFacts, FileFacts, HealthState
    <3>5. health'.failures_by_digest[booted] > health.failures_by_digest[booted] BY <3>3, <3>4
    <3> QED BY <2>1, <2>4, <3>3, <3>5, <1>a, DueMeans
  <2> QED BY <2>3, <2>4 DEF ThisBoot
<1>4. CASE RecRollback(r) BY <1>4, <1>a, RollbackStep DEF ThisBoot
<1>5. CASE RecNote(r)
  BY <1>5, <1>a, <1>c, NoteStep DEF ThisBoot
<1>6. CASE MarkHealthy
  <2>1. verdict = "green" /\ UNCHANGED rec BY <1>6, HealthyStep
  <2> QED BY <2>1 DEF RecorderInv, ThisBoot
<1>7. CASE Reboot \/ PowerLoss BY <1>7, RestartStep DEF ThisBoot
<1> QED BY <1>1, <1>2, <1>3, <1>4, <1>5, <1>6, <1>7, StepsAlone

LEMMA FollowsInit ==
    ASSUME NEW r, GreenbootAlone(r), Init
    PROVE  FollowsInv(r)
<1>1. /\ rec[r].pc = "idle" /\ su.pc = "idle" /\ wt.pc = "idle" /\ sw = "idle"
      /\ verdict = "none" /\ next = booted /\ staged = NoDigest
  BY DEF Init, GreenbootAlone, RecIdle, SuIdle, WtIdle
<1>2. /\ \A d \in Digests : ~Quarantined(health, d)
      /\ health.rollback_attempted_for \notin Digests
  BY DigestAssumption DEF Init, Coordinator!Init, Coordinator!DefaultState, Quarantined
<1>3. \A d \in Digests : attempt[d].outcome = "none" BY NoAttemptTyped DEF Init
<1> QED BY <1>1, <1>2, <1>3 DEF FollowsInv, VerdictsFit, AttemptsFollow, ThisBoot,
                                StaysUntilRolledBack

LEMMA FollowsHolds ==
    ASSUME NEW r, GreenbootAlone(r), RetriesKept
    PROVE  Spec => []FollowsInv(r)
<1>1. Init => FollowsInv(r) BY FollowsInit
<1>2. /\ MachineFacts /\ [Next]_vars
      /\ RecorderInv(r) /\ ThisReport(r) /\ OnceInv(r) /\ FollowsInv(r)
      => FollowsInv(r)'
  <2> SUFFICES ASSUME MachineFacts, [Next]_vars, RecorderInv(r), ThisReport(r), FollowsInv(r)
               PROVE  FollowsInv(r)'
    OBVIOUS
  <2>1. VerdictsFit' BY VerdictStep DEF FollowsInv
  <2>2. \A d \in Digests : AttemptsFollow(r, d)' BY AttemptsStep
  <2>3. ThisBoot(r)' BY ThisBootStep
  <2>4. Updaters = {} => StaysUntilRolledBack(r)' BY StaysStep DEF FollowsInv
  <2> QED BY <2>1, <2>2, <2>3, <2>4 DEF FollowsInv
<1> QED BY <1>1, <1>2, MachineFactsHold, OnceHolds, PTL DEF Spec

\* With one recorder per boot, no administrator and no power loss, and images
\* that every boot judges alike: when the hooks of a red boot are done, a
\* quarantined digest has had its rollback, and one whose last rollback failed
\* has had another for this failure.  The file has one slot for the note of an
\* attempt, so this needs that only one image is bad or that no updater moves
\* the machine between bad ones.
THEOREM RollbackFollowsQuarantine ==
    ASSUME NEW r, GreenbootAlone(r), RetriesKept
    PROVE  Spec => []RollbackFollows
<1>1. MachineFacts /\ FollowsInv(r) => RollbackFollows
  <2> SUFFICES ASSUME MachineFacts, FollowsInv(r), RedBootJudged, Quarantined(health, booted)
               PROVE  /\ attempt[booted].outcome # "none"
                      /\ /\ health.last_failure_boot_id = boot
                         /\ attempt[booted].outcome = "failed"
                         => attempt[booted].boot = boot
    BY DEF RollbackFollows, QuarantineTriggersRollback, FailedRollbackRetried
  <2>1. rec[r].pc = "done" BY DEF RedBootJudged, GreenbootAlone
  <2>2. booted \in Digests BY DEF MachineFacts, ProgramInv, ProgramTypes
  <2> QED BY <2>1, <2>2 DEF FollowsInv, AttemptsFollow, ThisBoot
<1> QED BY <1>1, FollowsHolds, MachineFactsHold, PTL

=============================================================================

---------------------------- MODULE EditorProofs ----------------------------
(***************************************************************************)
(* The partition editor for any disk, any requests and any number of       *)
(* commits and tool failures.  A journal that passed validation runs as    *)
(* validated; the root and the mounts a commit records fit the disk it     *)
(* leaves; and a commit that fails without the irreversible flag puts the  *)
(* table back and costs no data but what a create was staged over.         *)
(*                                                                         *)
(* EditorInv ties the map validate kept before each operation to the disk  *)
(* the commit works on, MountInv the mount points of the map to the ones   *)
(* the journal assigns, and LossInv the numbers that creates record to the *)
(* ones another commit of the same journal gives out.                      *)
(***************************************************************************)
EXTENDS PartitionEditor, Induction, FiniteSetTheorems, SequenceTheorems, TLAPS

\* The file systems, labels and mount points there are.
Text == {"", "gpt", "msdos", "bios_grub", "lost"}
            \cup {x.fs : x \in EditorDisk \cup StagedCreates \cup StagedEdits}
            \cup {x.mp : x \in StagedCreates \cup StagedEdits}

Partition == [part : Nat \ {0}, from : Nat, to : Nat, fs : Text]
TableTypes == {"gpt", "msdos"}
Operation == [kind : {"new_table", "create"} \cup EditKinds, index : Nat, part : Nat, from : Nat,
              size : Nat, fs : Text, mp : Text, created : BOOLEAN]

\* A partition table without overlaps, each number once.
DiskSound(disk) ==
    /\ IsFiniteSet(disk) /\ disk \in SUBSET Partition
    /\ \A p \in disk : p.from < p.to /\ p.to <= EditorEnd
    /\ \A p, q \in disk : p = q \/ (p.part # q.part /\ (p.to <= q.from \/ q.to <= p.from))

\* A journal in the order of its identities; a new table comes first, and an
\* edit names a partition.
JournalSound(ops) ==
    /\ ops \in Seq(Operation)
    /\ \A i, j \in 1..Len(ops) : i < j => ops[i].index < ops[j].index
    /\ \A i \in 1..Len(ops) :
          /\ ops[i].kind = "new_table" => i = 1 /\ ops[i].fs \in TableTypes
          /\ ops[i].kind \in EditKinds => ops[i].part # 0

-----------------------------------------------------------------------------
(* Staging.                                                                *)

\* An operation at the end of a journal.
LEMMA OpAppended ==
    ASSUME NEW q \in Seq(Operation), NEW e \in Operation
    PROVE  /\ Append(q, e) \in Seq(Operation) /\ Len(Append(q, e)) = Len(q) + 1
           /\ Append(q, e)[Len(q) + 1] = e
           /\ \A i \in 1..Len(q) : Append(q, e)[i] = q[i]
<1>1. \A S : \A s \in Seq(S), x \in S : Append(s, x) \in Seq(S) OBVIOUS
<1>2. Append(q, e) \in Seq(Operation) BY <1>1, Zenon
<1> QED BY <1>2

\* The identity add_op gives is greater than all others.
LEMMA AddOpKeeps ==
    ASSUME NEW ops, JournalSound(ops), NEW op \in Operation,
           op.kind = "new_table" => ops = <<>> /\ op.fs \in TableTypes,
           op.kind \in EditKinds => op.part # 0
    PROVE  /\ JournalSound(add_op(ops, op)) /\ Len(add_op(ops, op)) = Len(ops) + 1
           /\ \A i \in 1..Len(ops) : add_op(ops, op)[i] = ops[i]
           /\ add_op(ops, op)[Len(ops) + 1].created = op.created
<1> DEFINE N == Len(ops)
           S == Indices(ops)
           new == [op EXCEPT !.index = IF ops = <<>> THEN 0 ELSE Max(S) + 1]
<1>1. /\ ops \in Seq(Operation) /\ N \in Nat /\ DOMAIN ops = 1..N
      /\ \A i \in 1..N : ops[i] \in Operation /\ ops[i].index \in Nat
      /\ ops # <<>> => N # 0
  <2>1. ops \in Seq(Operation) BY DEF JournalSound
  <2>2. \A i \in 1..N : ops[i] \in Operation BY <2>1
  <2>3. ops # <<>> => N \in Nat \ {0} BY <2>1, EmptySeq
  <2> QED BY <2>1, <2>2, <2>3 DEF Operation
<1>2. /\ (IF ops = <<>> THEN 0 ELSE Max(S) + 1) \in Nat
      /\ \A i \in 1..N : ops[i].index < (IF ops = <<>> THEN 0 ELSE Max(S) + 1)
  <2>1. CASE ops = <<>> BY <1>1, <2>1
  <2>2. CASE ops # <<>>
    <3>1. N \in 1..N /\ ops[N].index \in S BY <1>1, <2>2 DEF Indices
    <3>2. \A y \in S : y <= ops[N].index
      <4>1. ASSUME NEW i \in 1..N PROVE ops[i].index <= ops[N].index
        <5>1. i < N => ops[i].index < ops[N].index BY <3>1 DEF JournalSound
        <5> QED BY <1>1, <3>1, <5>1
      <4> QED BY <1>1, <4>1 DEF Indices
    <3>3. Max(S) \in S /\ \A y \in S : Max(S) >= y
      <4> HIDE DEF S
      <4>1. ops[N].index \in S /\ \A y \in S : ops[N].index >= y
        <5>1. \A y \in S : y \in Nat BY <1>1 DEF S, Indices
        <5> QED BY <1>1, <3>1, <3>2, <5>1
      <4> QED BY <4>1 DEF Max
    <3>4. Max(S) \in Nat BY <1>1, <3>3 DEF Indices
    <3>5. \A i \in 1..N : ops[i].index \in S BY <1>1 DEF Indices
    <3> HIDE DEF S
    <3> QED BY <1>1, <2>2, <3>3, <3>4, <3>5
  <2> QED BY <2>1, <2>2
<1> DEFINE m == IF ops = <<>> THEN 0 ELSE Max(S) + 1
<1> HIDE DEF m
<1>3. /\ new \in Operation /\ new.index = m /\ new.kind = op.kind
      /\ new.fs = op.fs /\ new.part = op.part /\ new.created = op.created
  BY <1>2 DEF Operation, m
<1>4. add_op(ops, op) = Append(ops, new) BY DEF add_op
<1> HIDE DEF new
<1> DEFINE after == Append(ops, new)
<1>5. /\ after \in Seq(Operation) /\ Len(after) = N + 1 /\ after[N + 1] = new
      /\ \A i \in 1..N : after[i] = ops[i]
  BY <1>1, <1>3, OpAppended
<1> HIDE DEF after
<1>6. ASSUME NEW i \in 1..Len(after), NEW j \in 1..Len(after), i < j
      PROVE  after[i].index < after[j].index
  <2>1. i \in 1..N /\ (j \in 1..N \/ j = N + 1) BY <1>1, <1>5, <1>6
  <2>2. CASE j \in 1..N BY <1>5, <1>6, <2>1, <2>2 DEF JournalSound
  <2>3. CASE j = N + 1 BY <1>2, <1>3, <1>5, <2>1, <2>3 DEF m
  <2> QED BY <2>1, <2>2, <2>3
<1>7. ASSUME NEW i \in 1..Len(after)
      PROVE  /\ after[i].kind = "new_table" => i = 1 /\ after[i].fs \in TableTypes
             /\ after[i].kind \in EditKinds => after[i].part # 0
  <2>1. i \in 1..N \/ i = N + 1 BY <1>1, <1>5
  <2>2. CASE i \in 1..N BY <1>5, <2>2 DEF JournalSound
  <2>3. CASE i = N + 1
    <3>1. ops = <<>> => N = 0 OBVIOUS
    <3> QED BY <1>3, <1>5, <2>3, <3>1
  <2> QED BY <2>1, <2>2, <2>3
<1>8. JournalSound(after) BY <1>5, <1>6, <1>7 DEF JournalSound
<1> QED BY <1>3, <1>4, <1>5, <1>8 DEF after

\* Removing the operation of one identity.
LEMMA RemoveOpKeeps ==
    ASSUME NEW ops, JournalSound(ops), NEW index \in Indices(ops)
    PROVE  /\ JournalSound(remove_op(ops, index))
           /\ \A i \in 1..Len(remove_op(ops, index)) :
                 \E j \in 1..Len(ops) : remove_op(ops, index)[i] = ops[j]
<1> DEFINE N == Len(ops)
           I == {i \in 1..Len(ops) : ops[i].index = index}
           k == Min(I)
<1>1. ops \in Seq(Operation) /\ N \in Nat /\ DOMAIN ops = 1..N BY DEF JournalSound
<1>2. I \in SUBSET Nat /\ I # {} BY <1>1 DEF Indices
<1>3. k \in I
  <2> HIDE DEF I
  <2>1. PICK x \in I : \A y \in I : x <= y BY <1>2, LeastElement
  <2> QED BY <2>1 DEF Min
<1>4. k \in 1..N BY <1>3
<1>5. remove_op(ops, index) = RemoveAt(ops, k)
  BY <1>2 DEF remove_op, SelectInSeq
<1>0. N = Len(ops) OBVIOUS
<1> HIDE DEF k, N
<1> DEFINE a == SubSeq(ops, 1, k - 1)
           b == SubSeq(ops, k + 1, N)
           r == a \o b
           old(i) == IF i < k THEN i ELSE i + 1
<1>6. /\ a \in Seq(Operation) /\ Len(a) = k - 1 /\ \A i \in 1..(k - 1) : a[i] = ops[i]
      /\ b \in Seq(Operation) /\ Len(b) = N - k /\ \A i \in 1..(N - k) : b[i] = ops[k + i]
  <2>0. N \in Int /\ k \in Int /\ k - 1 \in Int /\ k + 1 \in Int /\ 1 \in Int BY <1>1, <1>4
  <2>1. \A i \in 1..N : ops[i] \in Operation BY <1>1
  <2>2. \A i \in 1..(k - 1) : ops[i] \in Operation BY <1>1, <1>4, <2>1
  <2>3. \A i \in (k + 1)..N : ops[i] \in Operation BY <1>1, <1>4, <2>1
  <2>4. /\ a \in Seq(Operation) /\ Len(a) = IF 1 <= k - 1 THEN (k - 1) - 1 + 1 ELSE 0
        /\ \A i \in 1..((k - 1) - 1 + 1) : a[i] = ops[1 + i - 1]
    BY <2>0, <2>2, SubSeqProperties
  <2>5. /\ b \in Seq(Operation) /\ Len(b) = IF k + 1 <= N THEN N - (k + 1) + 1 ELSE 0
        /\ \A i \in 1..(N - (k + 1) + 1) : b[i] = ops[(k + 1) + i - 1]
    BY <2>0, <2>3, SubSeqProperties
  <2> HIDE DEF a, b
  <2>6. Len(a) = k - 1 /\ \A i \in 1..(k - 1) : a[i] = ops[i] BY <1>4, <2>4
  <2>7. Len(b) = N - k /\ \A i \in 1..(N - k) : b[i] = ops[k + i]
    <3>1. Len(b) = N - k
      <4>1. CASE k + 1 <= N
        <5>1. N - (k + 1) + 1 = N - k BY <1>1, <1>4
        <5> QED BY <2>5, <4>1, <5>1
      <4>2. CASE ~(k + 1 <= N)
        <5>1. N - k = 0 BY <1>1, <1>4, <4>2
        <5> QED BY <2>5, <4>2, <5>1
      <4> QED BY <4>1, <4>2
    <3>2. \A i \in 1..(N - k) : i \in 1..(N - (k + 1) + 1) /\ (k + 1) + i - 1 = k + i BY <1>1, <1>4
    <3> QED BY <2>5, <3>1, <3>2
  <2> QED BY <2>4, <2>5, <2>6, <2>7
<1> HIDE DEF a, b
<1>7. /\ r \in Seq(Operation) /\ Len(r) = N - 1
      /\ \A i \in 1..(N - 1) : r[i] = ops[old(i)] /\ old(i) \in 1..N
  <2>1. /\ r \in Seq(Operation) /\ Len(r) = Len(a) + Len(b)
        /\ \A i \in 1..(Len(a) + Len(b)) :
              r[i] = IF i <= Len(a) THEN a[i] ELSE b[i - Len(a)]
    BY <1>6, ConcatProperties
  <2>2. Len(a) + Len(b) = N - 1 BY <1>1, <1>4, <1>6
  <2> HIDE DEF r
  <2>3. ASSUME NEW i \in 1..(N - 1) PROVE r[i] = ops[old(i)] /\ old(i) \in 1..N
    <3>1. CASE i < k BY <1>1, <1>4, <1>6, <2>1, <2>2, <3>1
    <3>2. CASE i >= k
      <4>1. i - (k - 1) \in 1..(N - k) /\ k + (i - (k - 1)) = i + 1 BY <1>1, <1>4, <3>2
      <4>2. r[i] = b[i - (k - 1)] BY <1>1, <1>4, <1>6, <2>1, <2>2, <3>2
      <4> QED BY <1>1, <1>4, <1>6, <3>2, <4>1, <4>2
    <3> QED BY <1>1, <1>4, <3>1, <3>2
  <2> QED BY <2>1, <2>2, <2>3
<1>8. \A i, j \in 1..(N - 1) : i < j => old(i) < old(j) BY <1>1, <1>4
<1>9. \A i \in 1..(N - 1) : old(i) = 1 => i = 1 BY <1>1, <1>4
<1>10. remove_op(ops, index) = r BY <1>0, <1>5 DEF RemoveAt, a, b
<1> HIDE DEF r, old
<1>11. \A i \in 1..(N - 1) :
          /\ r[i].kind = "new_table" => i = 1 /\ r[i].fs \in TableTypes
          /\ r[i].kind \in EditKinds => r[i].part # 0
  BY <1>0, <1>7, <1>9 DEF JournalSound
<1>12. \A i, j \in 1..(N - 1) : i < j => r[i].index < r[j].index
  BY <1>0, <1>7, <1>8 DEF JournalSound
<1>13. JournalSound(r)
  <2>1. 1..Len(r) = 1..(N - 1) BY <1>7
  <2>2. \A i, j \in 1..Len(r) : i < j => r[i].index < r[j].index BY <1>12, <2>1
  <2>3. \A i \in 1..Len(r) : /\ r[i].kind = "new_table" => i = 1 /\ r[i].fs \in TableTypes
                             /\ r[i].kind \in EditKinds => r[i].part # 0
    BY <1>11, <2>1
  <2> QED BY <1>7, <2>2, <2>3 DEF JournalSound
<1>14. \A i \in 1..Len(r) : \E j \in 1..Len(ops) : r[i] = ops[j] BY <1>0, <1>7
<1> QED BY <1>10, <1>13, <1>14

-----------------------------------------------------------------------------
(* Validation.                                                             *)

Region == [part : Int, from : Nat, to : Nat, fs : Text]
Account == [valid : BOOLEAN, alloc : SUBSET Region, mounts : SUBSET (Int \X Text),
            table : Text, primaries : Nat]

Key(acc, n) == \E p \in acc.alloc : p.part = n

\* validate looks at this operation.
Counts(ops, op) == op.kind = "set_mountpoint" => LastMountpoint(ops, op)

Without(mounts, n) == {m \in mounts : m[1] # n}

\* An accepted edit of region p.
EditAccepted(acc, op, p, next) ==
    /\ p \in acc.alloc /\ p.part = op.part
    /\ next.table = acc.table
    /\ op.kind = "delete" =>
          /\ next.alloc = acc.alloc \ {p} /\ next.mounts = Without(acc.mounts, op.part)
          /\ acc.table = "msdos" =>
                next.primaries = IF acc.primaries > 0 THEN acc.primaries - 1 ELSE 0
    /\ op.kind # "delete" => next.primaries = acc.primaries
    /\ op.kind = "format" =>
          next.alloc = (acc.alloc \ {p}) \cup {[p EXCEPT !.fs = op.fs]}
    /\ op.kind = "resize" =>
          /\ op.size > 0 /\ op.size <= p.to - p.from
          /\ next.alloc = (acc.alloc \ {p}) \cup {[p EXCEPT !.to = p.from + op.size]}
    /\ op.kind \in {"format", "resize"} => next.mounts = acc.mounts
    /\ op.kind = "set_mountpoint" =>
          /\ next.alloc = acc.alloc
          /\ op.mp = "" => next.mounts = Without(acc.mounts, op.part)
          /\ op.mp # "" => /\ next.mounts = Without(acc.mounts, op.part) \cup {<<op.part, op.mp>>}
                           /\ \A m \in Without(acc.mounts, op.part) : m[2] # op.mp

\* One edit of a partition that is in the map.
LEMMA EditValidated ==
    ASSUME NEW acc \in Account, NEW op \in Operation, op.kind \in EditKinds, op.part # 0,
           Key(acc, op.part)
    PROVE  /\ ValidateEdit(acc, op) \in Account
           /\ ValidateEdit(acc, op).valid =>
                 acc.valid /\ \E p \in acc.alloc : EditAccepted(acc, op, p, ValidateEdit(acc, op))
<1> DEFINE p == CHOOSE q \in acc.alloc : q.part = op.part
           others == acc.alloc \ {p}
           unmounted == Without(acc.mounts, op.part)
           next == ValidateEdit(acc, op)
<1>1. p \in acc.alloc /\ p.part = op.part BY DEF Key
<1>2. /\ acc.valid \in BOOLEAN /\ acc.alloc \in SUBSET Region /\ acc.table \in Text
      /\ acc.mounts \in SUBSET (Int \X Text) /\ acc.primaries \in Nat
  BY DEF Account
<1>3. p \in Region /\ others \in SUBSET Region BY <1>1, <1>2
<1>4. /\ op.fs \in Text /\ op.mp \in Text /\ op.size \in Nat /\ op.part \in Nat
  BY DEF Operation
<1>5. /\ [p EXCEPT !.fs = op.fs] \in Region
      /\ [p EXCEPT !.to = p.from + op.size] \in Region
  BY <1>3, <1>4 DEF Region
<1>6. unmounted \in SUBSET (Int \X Text) /\ <<op.part, op.mp>> \in Int \X Text
  BY <1>2, <1>4 DEF Without
<1>0. SUFFICES /\ next \in Account
               /\ next.valid => acc.valid /\ EditAccepted(acc, op, p, next)
  BY <1>1
<1> HIDE DEF p
<1>7. CASE op.kind = "delete"
  <2> DEFINE r == IF acc.table = "msdos" /\ acc.primaries > 0 THEN acc.primaries - 1 ELSE acc.primaries
  <2>1. next = [acc EXCEPT !.alloc = others, !.mounts = unmounted, !.primaries = r]
    BY <1>7 DEF ValidateEdit, p, Without
  <2>2. r \in Nat BY <1>2
  <2> HIDE DEF r, others, unmounted, next
  <2>3. next \in Account BY <1>2, <1>3, <1>6, <2>1, <2>2 DEF Account
  <2>4. /\ next.alloc = others /\ next.table = acc.table /\ next.valid = acc.valid
        /\ next.primaries = r /\ next.mounts = unmounted
    BY <1>2, <2>1 DEF Account
  <2>5. acc.table = "msdos" => r = IF acc.primaries > 0 THEN acc.primaries - 1 ELSE 0
    BY <1>2 DEF r
  <2> QED BY <1>1, <1>7, <2>3, <2>4, <2>5 DEF EditAccepted, others, unmounted
<1>8. CASE op.kind = "format"
  <2>1. next = [acc EXCEPT !.alloc = others \cup {[p EXCEPT !.fs = op.fs]}]
    BY <1>8 DEF ValidateEdit, p
  <2>2. others \cup {[p EXCEPT !.fs = op.fs]} \in SUBSET Region BY <1>3, <1>5
  <2> HIDE DEF others, next
  <2>3. next \in Account BY <1>2, <2>1, <2>2 DEF Account
  <2>4. /\ next.alloc = others \cup {[p EXCEPT !.fs = op.fs]} /\ next.table = acc.table
        /\ next.valid = acc.valid /\ next.primaries = acc.primaries /\ next.mounts = acc.mounts
    BY <2>1 DEF Account
  <2> QED BY <1>1, <1>8, <2>3, <2>4 DEF EditAccepted, others
<1>9. CASE op.kind = "resize"
  <2> DEFINE a == others \cup {[p EXCEPT !.to = p.from + op.size]}
  <2>1. next = IF ShrinkOnly(p, op.size) THEN [acc EXCEPT !.alloc = a] ELSE [acc EXCEPT !.valid = FALSE]
    BY <1>9 DEF ValidateEdit, p
  <2>2. a \in SUBSET Region BY <1>3, <1>5
  <2> HIDE DEF a, others, next
  <2>3. CASE ShrinkOnly(p, op.size)
    <3>1. next = [acc EXCEPT !.alloc = a] BY <2>1, <2>3
    <3>2. next \in Account BY <1>2, <2>2, <3>1 DEF Account
    <3>3. /\ next.alloc = a /\ next.table = acc.table /\ next.mounts = acc.mounts
          /\ next.valid = acc.valid /\ next.primaries = acc.primaries
      BY <3>1 DEF Account
    <3>4. op.size > 0 /\ op.size <= p.to - p.from BY <2>3 DEF ShrinkOnly
    <3> QED BY <1>1, <1>9, <3>2, <3>3, <3>4 DEF EditAccepted, a, others
  <2>4. CASE ~ShrinkOnly(p, op.size)
    <3>1. next = [acc EXCEPT !.valid = FALSE] BY <2>1, <2>4
    <3>2. next \in Account /\ next.valid = FALSE BY <1>2, <3>1 DEF Account
    <3> QED BY <3>2
  <2> QED BY <2>3, <2>4
<1>10. CASE op.kind = "set_mountpoint"
  <2> DEFINE m == IF op.mp = "" THEN unmounted ELSE unmounted \cup {<<op.part, op.mp>>}
             free == op.mp # "" => \A x \in unmounted : x[2] # op.mp
  <2>1. next = IF MountAllowed(op.mp, p.fs) /\ free THEN [acc EXCEPT !.mounts = m]
               ELSE [acc EXCEPT !.valid = FALSE]
    BY <1>10 DEF ValidateEdit, p, Without
  <2>2. m \in SUBSET (Int \X Text) BY <1>6
  <2> HIDE DEF next
  <2>3. CASE MountAllowed(op.mp, p.fs) /\ free
    <3> HIDE DEF m, free, unmounted
    <3>1. next = [acc EXCEPT !.mounts = m] BY <2>1, <2>3
    <3>2. next \in Account BY <1>2, <2>2, <3>1 DEF Account
    <3>3. /\ next.alloc = acc.alloc /\ next.table = acc.table /\ next.mounts = m
          /\ next.valid = acc.valid /\ next.primaries = acc.primaries
      BY <3>1 DEF Account
    <3> QED BY <1>1, <1>10, <2>3, <3>2, <3>3 DEF EditAccepted, m, free, unmounted
  <2>4. CASE ~(MountAllowed(op.mp, p.fs) /\ free)
    <3> HIDE DEF m, free
    <3>1. next = [acc EXCEPT !.valid = FALSE] BY <2>1, <2>4
    <3>2. next \in Account /\ next.valid = FALSE BY <1>2, <3>1 DEF Account
    <3> QED BY <3>2
  <2> QED BY <2>3, <2>4
<1> QED BY <1>7, <1>8, <1>9, <1>10 DEF EditKinds

\* What an accepted operation does to the map.
BiosRegion == [part |-> BiosKey, from |-> BiosStart, to |-> BiosStart + BiosReserved, fs |-> "bios_grub"]
NewRegion(op) == [part |-> NewKey(op.index), from |-> op.from, to |-> op.from + op.size, fs |-> op.fs]

TableAccepted(acc, op, next) ==
    /\ next.table = op.fs /\ next.primaries = 0 /\ next.mounts = {}
    /\ next.alloc = IF op.fs = "gpt" THEN {BiosRegion} ELSE {}

CreateAccepted(acc, op, next) ==
    /\ next.table = acc.table
    /\ next.alloc = acc.alloc \cup {NewRegion(op)}
    /\ acc.table = "msdos" => acc.primaries < PrimaryLimit /\ next.primaries = acc.primaries + 1
    /\ op.size > 0 /\ op.from + op.size <= EditorEnd
    /\ \A p \in acc.alloc : ~Overlaps(op.from, op.from + op.size, p)
    /\ op.mp = "" => next.mounts = acc.mounts
    /\ op.mp # "" => /\ next.mounts = acc.mounts \cup {<<NewKey(op.index), op.mp>>}
                     /\ \A m \in acc.mounts : m[2] # op.mp

Accepted(ops, op, acc, next) ==
    /\ op.kind = "new_table" => TableAccepted(acc, op, next)
    /\ op.kind = "create" => CreateAccepted(acc, op, next)
    /\ op.kind \in EditKinds /\ Counts(ops, op) => \E p \in acc.alloc : EditAccepted(acc, op, p, next)
    /\ ~Counts(ops, op) => next = acc

\* A new table is accepted, and frees everything but the reserved BIOS region.
LEMMA TableValidated ==
    ASSUME NEW acc \in Account, NEW op \in Operation
    PROVE  LET next == ValidateNewTable(acc, op)
           IN  next \in Account /\ next.valid = acc.valid /\ TableAccepted(acc, op, next)
<1> DEFINE a == IF op.fs = "gpt" THEN {BiosRegion} ELSE {}
           next == ValidateNewTable(acc, op)
<1>1. next = [acc EXCEPT !.alloc = a, !.mounts = {}, !.table = op.fs, !.primaries = 0]
  BY DEF ValidateNewTable, BiosRegion
<1>2. a \in SUBSET Region
  <2>1. /\ BiosKey \in Int /\ BiosStart \in Nat /\ BiosStart + BiosReserved \in Nat
    BY DEF BiosKey, BiosStart, BiosReserved
  <2>2. "bios_grub" \in Text BY DEF Text
  <2>3. BiosRegion \in Region BY <2>1, <2>2 DEF Region, BiosRegion
  <2> QED BY <2>3
<1>3. op.fs \in Text BY DEF Operation
<1>4. /\ acc.valid \in BOOLEAN /\ acc.alloc \in SUBSET Region /\ acc.table \in Text
      /\ acc.mounts \in SUBSET (Int \X Text) /\ acc.primaries \in Nat
  BY DEF Account
<1> HIDE DEF a, next
<1>5. next \in Account BY <1>1, <1>2, <1>3, <1>4 DEF Account
<1>6. /\ next.alloc = a /\ next.table = op.fs /\ next.valid = acc.valid /\ next.primaries = 0
      /\ next.mounts = {}
  BY <1>1 DEF Account
<1>7. TableAccepted(acc, op, next) BY <1>6 DEF TableAccepted, a
<1> QED BY <1>5, <1>6, <1>7 DEF next

\* A create that leaves the account valid was accepted as CreateAccepted says.
LEMMA CreateValidated ==
    ASSUME NEW acc \in Account, NEW op \in Operation
    PROVE  LET next == ValidateCreate(acc, op)
           IN  next \in Account /\ (next.valid => acc.valid /\ CreateAccepted(acc, op, next))
<1> DEFINE to == op.from + op.size
           key == NewKey(op.index)
           new == NewRegion(op)
           m == IF op.mp # "" /\ MountAllowed(op.mp, op.fs)
                THEN acc.mounts \cup {<<key, op.mp>>} ELSE acc.mounts
           r == IF acc.table = "msdos" THEN acc.primaries + 1 ELSE acc.primaries
           fine == /\ op.from > 0 /\ op.size > 0
                   /\ CreateFits(acc, op.from, to)
                   /\ acc.table = "msdos" => acc.primaries < PrimaryLimit
                   /\ MountAllowed(op.mp, op.fs)
                   /\ op.mp # "" => \A x \in acc.mounts : x[2] # op.mp
           v == acc.valid /\ fine
           next == ValidateCreate(acc, op)
<1>1. next = [acc EXCEPT !.valid = v, !.alloc = acc.alloc \cup {new}, !.primaries = r, !.mounts = m]
  BY DEF ValidateCreate, NewRegion
<1>2. /\ acc.valid \in BOOLEAN /\ acc.alloc \in SUBSET Region /\ acc.table \in Text
      /\ acc.mounts \in SUBSET (Int \X Text) /\ acc.primaries \in Nat
  BY DEF Account
<1>3. /\ op.fs \in Text /\ op.mp \in Text /\ op.size \in Nat /\ op.index \in Nat /\ op.from \in Nat
  BY DEF Operation
<1>4. key \in Int /\ to \in Nat BY <1>3 DEF NewKey
<1>5. acc.alloc \cup {new} \in SUBSET Region BY <1>2, <1>3, <1>4 DEF Region, NewRegion
<1>6. m \in SUBSET (Int \X Text) /\ r \in Nat
  <2>1. r \in Nat BY <1>2
  <2>2. <<key, op.mp>> \in Int \X Text BY <1>3, <1>4
  <2> QED BY <1>2, <2>1, <2>2
<1>7. v \in BOOLEAN OBVIOUS
<1> HIDE DEF m, r, new, next, v
<1>8. next \in Account BY <1>1, <1>2, <1>5, <1>6, <1>7 DEF Account
<1>9. /\ next.alloc = acc.alloc \cup {new} /\ next.table = acc.table /\ next.valid = v
      /\ next.primaries = r /\ next.mounts = m
  BY <1>1 DEF Account
<1>10. ASSUME v PROVE acc.valid /\ CreateAccepted(acc, op, next)
  <2>1. acc.valid /\ fine BY <1>10 DEF v
  <2>2. CreateFits(acc, op.from, to) /\ op.size > 0 /\ MountAllowed(op.mp, op.fs) BY <2>1
  <2>3. op.mp = "" => next.mounts = acc.mounts BY <1>9 DEF m
  <2>4. op.mp # "" => next.mounts = acc.mounts \cup {<<key, op.mp>>} BY <1>9, <2>2 DEF m
  <2>5. acc.table = "msdos" => acc.primaries < PrimaryLimit /\ next.primaries = acc.primaries + 1
    BY <1>9, <2>1 DEF r
  <2>6. op.mp # "" => \A x \in acc.mounts : x[2] # op.mp BY <2>1
  <2> HIDE DEF fine
  <2> QED BY <1>9, <2>1, <2>2, <2>3, <2>4, <2>5, <2>6 DEF CreateAccepted, CreateFits, new
<1> QED BY <1>8, <1>9, <1>10 DEF next

\* One operation.
LEMMA OpValidated ==
    ASSUME NEW ops, JournalSound(ops), NEW i \in 1..Len(ops), NEW acc \in Account
    PROVE  LET next == ValidateOp(ops, acc, ops[i])
           IN  /\ next \in Account
               /\ next.valid => acc.valid /\ Accepted(ops, ops[i], acc, next)
<1> DEFINE op == ops[i]
           next == ValidateOp(ops, acc, op)
<1>1. op \in Operation /\ (op.kind \in EditKinds => op.part # 0) BY DEF JournalSound
<1>2. op.kind \in {"new_table", "create"} \cup EditKinds BY <1>1 DEF Operation
<1>3. EditKinds \cap {"new_table", "create"} = {} BY DEF EditKinds
<1> HIDE DEF op
<1>4. CASE ~Counts(ops, op)
  <2>1. next = acc /\ op.kind = "set_mountpoint" BY <1>4 DEF ValidateOp, Counts
  <2> QED BY <1>4, <2>1 DEF op, Accepted
<1>5. CASE op.kind = "new_table"
  <2>1. next = ValidateNewTable(acc, op) BY <1>5 DEF ValidateOp
  <2>2. Counts(ops, op) /\ op.kind # "create" /\ op.kind \notin EditKinds
    BY <1>3, <1>5 DEF Counts
  <2> QED BY <1>1, <2>1, <2>2, TableValidated DEF op, Accepted
<1>6. CASE op.kind = "create"
  <2>1. next = ValidateCreate(acc, op) BY <1>6 DEF ValidateOp
  <2>2. Counts(ops, op) /\ op.kind # "new_table" /\ op.kind \notin EditKinds
    BY <1>3, <1>6 DEF Counts
  <2> QED BY <1>1, <2>1, <2>2, CreateValidated DEF op, Accepted
<1>7. CASE op.kind \in EditKinds /\ Counts(ops, op)
  <2>0. op.kind # "new_table" /\ op.kind # "create" BY <1>3, <1>7
  <2>1. next = IF Key(acc, op.part) THEN ValidateEdit(acc, op) ELSE [acc EXCEPT !.valid = FALSE]
    BY <1>7, <2>0 DEF ValidateOp, Counts, Key
  <2>2. CASE Key(acc, op.part)
    <3>1. next = ValidateEdit(acc, op) BY <2>1, <2>2
    <3>2. /\ next \in Account
          /\ next.valid => acc.valid /\ \E p \in acc.alloc : EditAccepted(acc, op, p, next)
      BY <1>1, <1>7, <2>2, <3>1, EditValidated
    <3> QED BY <1>7, <2>0, <3>2 DEF op, Accepted
  <2>3. CASE ~Key(acc, op.part)
    <3>1. next = [acc EXCEPT !.valid = FALSE] BY <2>1, <2>3
    <3>2. next \in Account /\ next.valid = FALSE BY <3>1 DEF Account
    <3> QED BY <3>2 DEF op
  <2> QED BY <2>2, <2>3
<1> QED BY <1>2, <1>4, <1>5, <1>6, <1>7

\* Nothing gives a partition number back to the map.
LEMMA KeysGo ==
    ASSUME NEW ops, NEW acc \in Account, NEW next \in Account, NEW op \in Operation,
           Accepted(ops, op, acc, next), NEW n \in Nat \ {0}, Key(next, n)
    PROVE  Key(acc, n)
<1>1. op.kind \in {"new_table", "create"} \cup EditKinds /\ op.index \in Nat BY DEF Operation
<1>2. CASE op.kind = "new_table"
  <2>1. \A p \in next.alloc : p.part = 0
    BY <1>2 DEF Accepted, TableAccepted, BiosRegion, BiosKey
  <2> QED BY <2>1 DEF Key
<1>3. CASE op.kind = "create"
  <2>1. NewRegion(op).part < 0 BY <1>1 DEF NewRegion, NewKey
  <2>2. next.alloc = acc.alloc \cup {NewRegion(op)} BY <1>3 DEF Accepted, CreateAccepted
  <2>3. NewRegion(op).part # n BY <2>1
  <2> QED BY <2>2, <2>3 DEF Key
<1>4. CASE op.kind \in EditKinds
  <2>1. CASE ~Counts(ops, op) BY <2>1 DEF Accepted
  <2>2. CASE Counts(ops, op)
    <3>1. PICK p \in acc.alloc : EditAccepted(acc, op, p, next) BY <1>4, <2>2 DEF Accepted
    <3>2. p \in Region BY DEF Account
    <3>3. [p EXCEPT !.fs = op.fs].part = p.part /\ [p EXCEPT !.to = p.from + op.size].part = p.part
      BY <3>2 DEF Region
    <3>4. PICK q \in next.alloc : q.part = n BY DEF Key
    <3>5. q \in acc.alloc \/ q.part = p.part BY <1>4, <3>1, <3>3, <3>4 DEF EditAccepted, EditKinds
    <3> QED BY <3>4, <3>5 DEF Key
  <2> QED BY <2>1, <2>2
<1> QED BY <1>1, <1>2, <1>3, <1>4

\* The accounts of a journal that passed validation.
ValidRun(V, disk, table, ops) ==
    /\ V[0] = Unallocated(disk, table)
    /\ \A n \in 0..Len(ops) : V[n] \in Account
    /\ \A n \in 1..Len(ops) : Accepted(ops, ops[n], V[n - 1], V[n])
    /\ \A n \in 1..Len(ops) : ops[n].kind \in EditKinds => Key(V[n - 1], ops[n].part)

\* The account before the first operation has the disk's partitions.
LEMMA UnallocatedTyped ==
    ASSUME NEW disk, DiskSound(disk), NEW table \in TableTypes
    PROVE  /\ Unallocated(disk, table) \in Account
           /\ Unallocated(disk, table).alloc = disk /\ Unallocated(disk, table).mounts = {}
           /\ Unallocated(disk, table).table = table
           /\ table = "msdos" => Unallocated(disk, table).primaries = Cardinality(disk)
<1> DEFINE r == IF table = "msdos" THEN Cardinality(disk) ELSE 0
<1>1. r \in Nat BY FS_CardinalityType DEF DiskSound
<1>2. disk \in SUBSET Region
  <2>1. Partition \subseteq Region BY DEF Partition, Region
  <2> QED BY <2>1 DEF DiskSound
<1>3. table \in Text BY DEF TableTypes, Text
<1>4. Unallocated(disk, table) =
          [valid |-> TRUE, alloc |-> disk, mounts |-> {}, table |-> table, primaries |-> r]
  BY DEF Unallocated
<1>5. table = "msdos" => r = Cardinality(disk) OBVIOUS
<1> HIDE DEF r
<1> QED BY <1>1, <1>2, <1>3, <1>4, <1>5 DEF Account

\* The accounts satisfy their recursive definition, and are accounts.
LEMMA ValidatedEquations ==
    ASSUME NEW disk, DiskSound(disk), NEW table \in TableTypes, NEW ops, JournalSound(ops)
    PROVE  LET V == Validated(disk, table, ops)
           IN  /\ V[0] = Unallocated(disk, table)
               /\ \A n \in 0..Len(ops) : V[n] \in Account
               /\ \A n \in 1..Len(ops) : V[n] = ValidateOp(ops, V[n - 1], ops[n])
<1> DEFINE N == Len(ops)
           v0 == Unallocated(disk, table)
           step == [n \in 1 .. N |-> [m \in Account |-> ValidateOp(ops, m, ops[n])]]
<1>0. N \in Nat BY DEF JournalSound
<1>1. \A n \in 1 .. N, m \in Account : ValidateOp(ops, m, ops[n]) \in Account BY OpValidated
<1> HIDE DEF N
<1>2. PICK g : Recursion(g, N, Account, v0, step)
  <2>1. step \in [1 .. N -> [Account -> Account]] BY <1>1
  <2>2. v0 \in Account BY UnallocatedTyped
  <2> HIDE DEF step, v0
  <2> QED BY <1>0, <2>1, <2>2, RecursionRuns
<1> HIDE DEF v0
<1> DEFINE Def(m) == m = [n \in 0 .. N |-> IF n = 0 THEN v0 ELSE ValidateOp(ops, m[n - 1], ops[n])]
           V == CHOOSE m : Def(m)
<1>3. Def(V)
  <2>1. ASSUME NEW n \in 1 .. N PROVE g[n] = ValidateOp(ops, g[n - 1], ops[n])
    <3>1. g[n - 1] \in Account BY <1>0, <1>2 DEF Recursion
    <3>2. step[n][g[n - 1]] = ValidateOp(ops, g[n - 1], ops[n]) BY <3>1
    <3> HIDE DEF step
    <3> QED BY <1>2, <3>2 DEF Recursion
  <2>2. g \in [0 .. N -> Account] /\ g[0] = v0 BY <1>2 DEF Recursion
  <2>3. ASSUME NEW n \in 0 .. N
        PROVE  g[n] = IF n = 0 THEN v0 ELSE ValidateOp(ops, g[n - 1], ops[n])
    <3>1. CASE n = 0 BY <2>2, <3>1
    <3>2. CASE n # 0
      <4>1. n \in 1 .. N BY <1>0, <3>2
      <4> QED BY <2>1, <3>2, <4>1
    <3> QED BY <3>1, <3>2
  <2>4. g = [n \in 0 .. N |-> g[n]] BY <2>2
  <2>5. Def(g) BY <2>3, <2>4
  <2> QED BY <2>5
<1>4. Validated(disk, table, ops) = V BY DEF Validated, N, v0
<1>5. V[0] = v0 /\ \A n \in 1 .. N : V[n] = ValidateOp(ops, V[n - 1], ops[n])
  <2> HIDE DEF V
  <2>1. \A n \in 0 .. N : V[n] = IF n = 0 THEN v0 ELSE ValidateOp(ops, V[n - 1], ops[n])
    BY <1>3
  <2> HIDE DEF Def
  <2>2. 0 \in 0 .. N BY <1>0
  <2>3. V[0] = v0 BY <2>1, <2>2
  <2>4. ASSUME NEW n \in 1 .. N PROVE V[n] = ValidateOp(ops, V[n - 1], ops[n])
    <3>1. n \in 0 .. N /\ n # 0 BY <1>0
    <3> QED BY <2>1, <3>1
  <2> QED BY <2>3, <2>4
<1> HIDE DEF V, Def, step
<1> DEFINE T == {n \in 0 .. N : V[n] \in Account}
<1>6. 0 \in T
  <2>1. v0 \in Account BY UnallocatedTyped DEF v0
  <2> QED BY <1>0, <1>5, <2>1
<1>7. ASSUME NEW n \in 0 .. N, n \in T, n < N PROVE n + 1 \in T
  <2>1. n + 1 \in 1..N /\ (n + 1) - 1 = n BY <1>0, <1>7
  <2>2. V[n + 1] = ValidateOp(ops, V[n], ops[n + 1]) BY <1>5, <2>1
  <2>3. V[n] \in Account BY <1>7
  <2> QED BY <1>1, <2>1, <2>2, <2>3
<1>8. \A n \in 0..N : n \in T
  <2> HIDE DEF T
  <2> QED BY <1>0, <1>6, <1>7, BoundedInduction
<1> QED BY <1>4, <1>5, <1>8 DEF N, v0

\* An assignment that a later one overrides names a partition the later one
\* finds, so it is there already.
LEMMA ValidatedIsValidRun ==
    ASSUME NEW disk, DiskSound(disk), NEW table \in TableTypes, NEW ops, JournalSound(ops),
           Validated(disk, table, ops)[Len(ops)].valid
    PROVE  ValidRun(Validated(disk, table, ops), disk, table, ops)
<1> DEFINE V == Validated(disk, table, ops)
           N == Len(ops)
<1>1. /\ V[0] = Unallocated(disk, table)
      /\ \A n \in 0..N : V[n] \in Account
      /\ \A n \in 1..N : V[n] = ValidateOp(ops, V[n - 1], ops[n])
  BY ValidatedEquations
<1>2. V[N].valid OBVIOUS
<1>3. /\ ops \in Seq(Operation) /\ N \in Nat /\ \A n \in 1..N : ops[n] \in Operation
      /\ DOMAIN ops = 1..N
  BY DEF JournalSound
<1>0. N = Len(ops) OBVIOUS
<1> HIDE DEF V, N
<1>4. ASSUME NEW n \in 1..N, V[n].valid
      PROVE  V[n - 1].valid /\ Accepted(ops, ops[n], V[n - 1], V[n])
  <2>1. n - 1 \in 0..N BY <1>3
  <2>2. V[n - 1] \in Account BY <1>1, <2>1
  <2>3. n \in 1..Len(ops) BY <1>0
  <2>4. LET next == ValidateOp(ops, V[n - 1], ops[n])
        IN  next.valid => V[n - 1].valid /\ Accepted(ops, ops[n], V[n - 1], next)
    BY <2>2, <2>3, OpValidated
  <2> QED BY <1>1, <1>4, <2>4
<1>5. \A n \in 0..N : V[n].valid
  <2> DEFINE T == {n \in 0..N : V[N - n].valid}
  <2>1. 0 \in T BY <1>2, <1>3
  <2>2. ASSUME NEW n \in 0..N, n \in T, n < N PROVE n + 1 \in T
    <3>1. N - n \in 1..N /\ (N - n) - 1 = N - (n + 1) /\ n + 1 \in 0..N BY <1>3, <2>2
    <3>2. V[N - n].valid BY <2>2
    <3> QED BY <1>4, <3>1, <3>2
  <2>3. \A n \in 0..N : n \in T
    <3> HIDE DEF T
    <3> QED BY <1>3, <2>1, <2>2, BoundedInduction
  <2>4. ASSUME NEW n \in 0..N PROVE V[n].valid
    <3>1. N - n \in 0..N /\ N - (N - n) = n BY <1>3
    <3>2. N - n \in T BY <2>3, <3>1
    <3> QED BY <3>1, <3>2
  <2> QED BY <2>4
<1>6. \A n \in 1..N : Accepted(ops, ops[n], V[n - 1], V[n])
  <2>1. \A n \in 1..N : n \in 0..N BY <1>3
  <2> QED BY <1>4, <1>5, <2>1
<1>7. ASSUME NEW part \in Nat \ {0}, NEW j \in 0..N, Key(V[j], part)
      PROVE  \A n \in 0..j : Key(V[n], part)
  <2> DEFINE T == {n \in 0..j : Key(V[j - n], part)}
  <2>0. j \in Nat BY <1>3
  <2>1. 0 \in T BY <1>7, <2>0
  <2>2. ASSUME NEW n \in 0..j, n \in T, n < j PROVE n + 1 \in T
    <3>1. j - n \in 1..N /\ (j - n) - 1 = j - (n + 1) /\ n + 1 \in 0..j BY <1>3, <2>2
    <3>2. Key(V[j - n], part) BY <2>2
    <3>3. j - n \in 0..N /\ (j - n) - 1 \in 0..N BY <1>3, <3>1
    <3>4. Accepted(ops, ops[j - n], V[(j - n) - 1], V[j - n]) /\ ops[j - n] \in Operation
      BY <1>3, <1>6, <3>1
    <3>5. Key(V[(j - n) - 1], part) BY <1>1, <3>2, <3>3, <3>4, KeysGo
    <3> QED BY <3>1, <3>5
  <2>3. \A n \in 0..j : n \in T
    <3> HIDE DEF T
    <3> QED BY <2>0, <2>1, <2>2, BoundedInduction
  <2>4. ASSUME NEW n \in 0..j PROVE Key(V[n], part)
    <3>1. j - n \in 0..j /\ j - (j - n) = n BY <2>0
    <3>2. j - n \in T BY <2>3, <3>1
    <3> QED BY <3>1, <3>2
  <2> QED BY <2>4
<1>8. ASSUME NEW n \in 1..N, ops[n].kind \in EditKinds PROVE Key(V[n - 1], ops[n].part)
  <2>1. CASE Counts(ops, ops[n])
    <3>1. \E p \in V[n - 1].alloc : EditAccepted(V[n - 1], ops[n], p, V[n])
      BY <1>6, <1>8, <2>1 DEF Accepted
    <3> QED BY <3>1 DEF Key, EditAccepted
  <2>2. CASE ~Counts(ops, ops[n])
    <3> DEFINE part == ops[n].part
               S == {i \in 1..N : ops[i].kind = "set_mountpoint" /\ ops[i].part = part}
    <3>1. n \in S BY <2>2 DEF Counts
    <3>2. S \in SUBSET (0..N) /\ S # {} BY <1>3, <3>1
    <3>3. PICK k \in S : \A y \in S : k >= y
      <4> HIDE DEF S
      <4> QED BY <1>3, <3>2, GreatestElement
    <3>4. k \in 1..N /\ ops[k].kind = "set_mountpoint" /\ ops[k].part = part /\ n <= k
      BY <1>3, <3>1, <3>3
    <3>5. ASSUME NEW i \in 1..N, ops[i].kind = "set_mountpoint", ops[i].part = ops[k].part
          PROVE  ops[i].index <= ops[k].index
      <4>1. i <= k BY <1>3, <3>3, <3>4, <3>5
      <4>2. i < k => ops[i].index < ops[k].index BY <1>0, <3>4 DEF JournalSound
      <4>3. ops[i].index \in Nat /\ ops[k].index \in Nat BY <1>3, <3>4 DEF Operation
      <4> QED BY <1>3, <3>4, <4>1, <4>2, <4>3
    <3>6. Counts(ops, ops[k]) BY <1>3, <3>5 DEF Counts, LastMountpoint
    <3>7. ops[k].kind \in EditKinds BY <3>4 DEF EditKinds
    <3>8. \E p \in V[k - 1].alloc : EditAccepted(V[k - 1], ops[k], p, V[k])
      BY <1>6, <3>4, <3>6, <3>7 DEF Accepted
    <3>9. Key(V[k - 1], part) BY <3>4, <3>8 DEF Key, EditAccepted
    <3>10. part \in Nat \ {0} BY <1>0, <1>3, <1>8 DEF JournalSound, Operation
    <3>11. k - 1 \in 0..N /\ n - 1 \in 0..(k - 1) BY <1>3, <3>4
    <3> HIDE DEF part
    <3>12. Key(V[n - 1], part) BY <1>7, <3>9, <3>10, <3>11
    <3> QED BY <3>12 DEF part
  <2> QED BY <2>1, <2>2
<1> QED BY <1>0, <1>1, <1>6, <1>8 DEF ValidRun, V

-----------------------------------------------------------------------------
(* Partition tables.                                                       *)

\* parted gives a new partition the lowest number that is free.
LEMMA LowestIsFree ==
    ASSUME DiskSound(edDisk)
    PROVE  /\ LowestFree \in Nat \ {0} /\ ~OnDisk(LowestFree)
           /\ \A m \in 1..(LowestFree - 1) : OnDisk(m)
<1> DEFINE c == Cardinality(edDisk)
           free == {n \in 1..(c + 1) : ~OnDisk(n)}
<1>1. c \in Nat /\ IsFiniteSet(edDisk) BY FS_CardinalityType DEF DiskSound
<1>2. free # {}
  <2> SUFFICES ASSUME \A n \in 1..(c + 1) : OnDisk(n) PROVE FALSE OBVIOUS
  <2> DEFINE f == [n \in 1..(c + 1) |-> CHOOSE p \in edDisk : p.part = n]
  <2>1. \A n \in 1..(c + 1) : f[n] \in edDisk /\ f[n].part = n BY DEF OnDisk
  <2> HIDE DEF f
  <2>2. f \in Injection(1..(c + 1), edDisk)
    <3>1. f \in [1..(c + 1) -> edDisk] BY <2>1 DEF f
    <3>2. \A a, b \in 1..(c + 1) : f[a] = f[b] => a = b BY <2>1
    <3> QED BY <3>1, <3>2 DEF Injection, IsInjective
  <2>3. Cardinality(1..(c + 1)) = c + 1
    <3>1. c + 1 \in Int /\ 1 \in Int /\ ~(1 > c + 1) /\ (c + 1) - 1 + 1 = c + 1 BY <1>1
    <3> HIDE DEF c
    <3>2. Cardinality(1..(c + 1)) = IF 1 > c + 1 THEN 0 ELSE (c + 1) - 1 + 1 BY <3>1, FS_Interval
    <3> QED BY <3>1, <3>2
  <2>4. Cardinality(1..(c + 1)) <= c BY <1>1, <2>2, FS_Injection
  <2> QED BY <1>1, <2>3, <2>4
<1>3. free \in SUBSET Nat BY <1>1
<1>4. LowestFree = Min(free) BY DEF LowestFree
<1>5. Min(free) \in free /\ \A y \in free : Min(free) <= y
  <2> HIDE DEF free
  <2> QED BY <1>2, <1>3, LeastElement DEF Min
<1> DEFINE k == Min(free)
<1>6. k \in 1..(c + 1) /\ ~OnDisk(k) /\ \A y \in 1..(c + 1) : ~OnDisk(y) => k <= y BY <1>5
<1> HIDE DEF k, free, c
<1>7. ASSUME NEW m \in 1..(k - 1) PROVE OnDisk(m)
  <2>1. m \in 1..(c + 1) /\ ~(k <= m) BY <1>1, <1>6
  <2> QED BY <1>6, <2>1
<1>8. k \in Nat \ {0} BY <1>1, <1>6
<1> QED BY <1>4, <1>6, <1>7, <1>8 DEF k

\* A partition that fits between the others (parted mkpart).
LEMMA PartitionAdded ==
    ASSUME NEW disk, DiskSound(disk), NEW new \in Partition,
           new.from < new.to, new.to <= EditorEnd,
           \A p \in disk : p.part # new.part /\ ~Overlaps(new.from, new.to, p)
    PROVE  DiskSound(disk \cup {new}) /\ Cardinality(disk \cup {new}) = Cardinality(disk) + 1
<1>1. IsFiniteSet(disk) /\ new \notin disk BY DEF DiskSound
<1>2. ASSUME NEW p \in disk
      PROVE  p.part # new.part /\ (p.to <= new.from \/ new.to <= p.from)
  <2>1. p \in Partition /\ p.from < p.to BY DEF DiskSound
  <2>2. p.from \in Nat /\ p.to \in Nat /\ new.from \in Nat /\ new.to \in Nat BY <2>1 DEF Partition
  <2>3. ~Overlaps(new.from, new.to, p) OBVIOUS
  <2> QED BY <2>1, <2>2, <2>3 DEF Overlaps
<1>3. /\ IsFiniteSet(disk \cup {new})
      /\ Cardinality(disk \cup {new}) = Cardinality(disk) + 1
  BY <1>1, FS_AddElement
<1>4. DiskSound(disk \cup {new}) BY <1>2, <1>3 DEF DiskSound
<1> QED BY <1>3, <1>4

\* One partition less (parted rm).
LEMMA PartitionRemoved ==
    ASSUME NEW disk, DiskSound(disk), NEW p \in disk
    PROVE  DiskSound(disk \ {p}) /\ Cardinality(disk \ {p}) = Cardinality(disk) - 1
<1>1. IsFiniteSet(disk) BY DEF DiskSound
<1>2. IsFiniteSet(disk \ {p}) /\ Cardinality(disk \ {p}) = Cardinality(disk) - 1
  BY <1>1, FS_RemoveElement
<1> QED BY <1>2 DEF DiskSound

\* A partition that keeps its number and start and does not grow.
LEMMA PartitionChanged ==
    ASSUME NEW disk, DiskSound(disk), NEW p \in disk, NEW q \in Partition,
           q.part = p.part, q.from = p.from, q.from < q.to, q.to <= p.to
    PROVE  /\ DiskSound((disk \ {p}) \cup {q})
           /\ Cardinality((disk \ {p}) \cup {q}) = Cardinality(disk)
<1> DEFINE rest == disk \ {p}
<1>1. DiskSound(rest) /\ Cardinality(rest) = Cardinality(disk) - 1 BY PartitionRemoved
<1>2. /\ p \in Partition /\ p.from \in Nat /\ p.to \in Nat /\ p.from < p.to /\ p.to <= EditorEnd
      /\ q.from \in Nat /\ q.to \in Nat
  BY DEF DiskSound, Partition
<1>3. q.to <= EditorEnd BY <1>2, PartitionEditorAssumption
<1>4. ASSUME NEW r \in rest PROVE r.part # q.part /\ ~Overlaps(q.from, q.to, r)
  <2>1. r \in disk /\ r # p OBVIOUS
  <2>2. r.part # p.part /\ (p.to <= r.from \/ r.to <= p.from) BY <2>1 DEF DiskSound
  <2>3. r \in Partition BY <2>1 DEF DiskSound
  <2>4. r.from \in Nat /\ r.to \in Nat BY <2>3 DEF Partition
  <2> QED BY <1>2, <2>2, <2>4 DEF Overlaps
<1>5. Cardinality(disk) \in Nat BY FS_CardinalityType DEF DiskSound
<1> HIDE DEF rest
<1>6. DiskSound(rest \cup {q}) /\ Cardinality(rest \cup {q}) = Cardinality(rest) + 1
  BY <1>1, <1>3, <1>4, PartitionAdded
<1> QED BY <1>1, <1>5, <1>6 DEF rest

\* A number finds the one partition that has it.
LEMMA FoundIs ==
    ASSUME DiskSound(edDisk), NEW p \in edDisk
    PROVE  Found(p.part) = p /\ OnDisk(p.part)
<1>1. \A q \in edDisk : q.part = p.part => q = p BY DEF DiskSound
<1> QED BY <1>1 DEF Found, OnDisk

\* The table of the backup, written back.
LEMMA RestoredSound ==
    ASSUME DiskSound(edBackup.parts), NEW intact
    PROVE  DiskSound(Restored(intact)) /\ Parts(Restored(intact)) = Parts(edBackup.parts)
<1> DEFINE B == edBackup.parts
           f == [p \in B |-> IF p \in intact THEN p ELSE [p EXCEPT !.fs = "lost"]]
           R == Restored(intact)
<1>1. B \in SUBSET Partition /\ IsFiniteSet(B) BY DEF DiskSound
<1>2. "lost" \in Text BY DEF Text
<1>3. ASSUME NEW p \in B
      PROVE  f[p] \in Partition /\ f[p].part = p.part /\ f[p].from = p.from /\ f[p].to = p.to
  <2>1. p \in Partition BY <1>1
  <2>2. [p EXCEPT !.fs = "lost"] \in Partition BY <1>2, <2>1 DEF Partition
  <2> QED BY <2>1, <2>2 DEF Partition
<1>4. R = {f[p] : p \in B} BY DEF Restored
<1>5. f \in [B -> R] BY <1>4
<1> HIDE DEF f, R, B
<1>6. IsFiniteSet(R)
  <2>1. f \in Surjection(B, R) BY <1>4, <1>5 DEF Surjection
  <2> QED BY <1>1, <2>1, FS_Surjection
<1>7. \A x \in R : \E p \in B : x = f[p] BY <1>4
<1>8. DiskSound(R)
  <2>0. DiskSound(B) BY DEF B
  <2>1. R \in SUBSET Partition BY <1>3, <1>7
  <2>2. \A x \in R : x.from < x.to /\ x.to <= EditorEnd
    <3>1. \A p \in B : p.from < p.to /\ p.to <= EditorEnd BY <2>0 DEF DiskSound
    <3> QED BY <1>3, <1>7, <3>1
  <2>3. ASSUME NEW x \in R, NEW y \in R
        PROVE  x = y \/ (x.part # y.part /\ (x.to <= y.from \/ y.to <= x.from))
    <3>1. PICK p \in B : x = f[p] BY <1>7
    <3>2. PICK q \in B : y = f[q] BY <1>7
    <3>3. p = q \/ (p.part # q.part /\ (p.to <= q.from \/ q.to <= p.from)) BY <2>0 DEF DiskSound
    <3> QED BY <1>3, <3>1, <3>2, <3>3
  <2> QED BY <1>6, <2>1, <2>2, <2>3 DEF DiskSound
<1>9. Parts(R) = Parts(B)
  <2>1. \A p \in B : <<f[p].part, f[p].from, f[p].to>> = <<p.part, p.from, p.to>> BY <1>3
  <2> QED BY <1>4, <2>1 DEF Parts
<1> QED BY <1>8, <1>9 DEF R, B

-----------------------------------------------------------------------------
(* The map validate keeps and the disk a commit works on.                  *)

\* The map has the partitions that were found as they are now, and every
\* region in use, except where validate reserves too little.
Match(acc, disk, table, gpt) ==
    /\ acc.table = table
    /\ table = "msdos" => acc.primaries = Cardinality(disk)
    /\ \A p \in acc.alloc : p.part > 0 => p \in disk
    /\ \A p \in disk : \/ \E q \in acc.alloc : q.from = p.from /\ q.to = p.to
                       \/ gpt /\ p.to <= BiosStart + BiosCreated

\* A delete takes the partition from the map and from the disk.
LEMMA MatchDelete ==
    ASSUME NEW disk, DiskSound(disk), NEW acc, NEW next, NEW table, NEW gpt,
           Match(acc, disk, table, gpt), NEW op, NEW p \in disk, EditAccepted(acc, op, p, next),
           op.kind = "delete"
    PROVE  Match(next, disk \ {p}, table, gpt)
<1>1. next.table = acc.table /\ next.alloc = acc.alloc \ {p} BY DEF EditAccepted
<1>2. table = "msdos" => next.primaries = Cardinality(disk \ {p})
  <2>1. Cardinality(disk \ {p}) = Cardinality(disk) - 1 BY PartitionRemoved
  <2>2. Cardinality(disk) \in Nat /\ Cardinality(disk) # 0
    BY FS_CardinalityType, FS_EmptySet DEF DiskSound
  <2> QED BY <2>1, <2>2 DEF EditAccepted, Match
<1>3. ASSUME NEW r \in disk \ {p}, NEW q \in acc.alloc, q.from = r.from, q.to = r.to
      PROVE  q # p
  <2>1. r \in Partition /\ r.from < r.to /\ (r.to <= p.from \/ p.to <= r.from) BY DEF DiskSound
  <2>2. r.from \in Nat /\ r.to \in Nat BY <2>1 DEF Partition
  <2> QED BY <1>3, <2>1, <2>2
<1> QED BY <1>1, <1>2, <1>3 DEF Match

\* A format or a shrink changes the partition in the map and on the disk.
LEMMA MatchChange ==
    ASSUME NEW disk, DiskSound(disk), NEW acc, NEW next, NEW table, NEW gpt,
           Match(acc, disk, table, gpt), NEW p \in disk, NEW q \in Partition,
           q.part = p.part, q.from = p.from, q.from < q.to, q.to <= p.to,
           next.table = acc.table, next.primaries = acc.primaries,
           next.alloc = (acc.alloc \ {p}) \cup {q}
    PROVE  Match(next, (disk \ {p}) \cup {q}, table, gpt)
<1>1. Cardinality((disk \ {p}) \cup {q}) = Cardinality(disk) BY PartitionChanged
<1>2. ASSUME NEW r \in disk \ {p}, NEW s \in acc.alloc, s.from = r.from, s.to = r.to
      PROVE  s # p
  <2>1. r \in Partition /\ r.from < r.to /\ (r.to <= p.from \/ p.to <= r.from) BY DEF DiskSound
  <2>2. r.from \in Nat /\ r.to \in Nat BY <2>1 DEF Partition
  <2> QED BY <1>2, <2>1, <2>2
<1> QED BY <1>1, <1>2 DEF Match

\* A create adds a region to the map and a partition to the disk.
LEMMA MatchCreate ==
    ASSUME NEW disk, DiskSound(disk), NEW acc \in Account, NEW next, NEW table, NEW gpt,
           Match(acc, disk, table, gpt), NEW op \in Operation, CreateAccepted(acc, op, next),
           NEW new, new.from = op.from, new.to = op.from + op.size,
           Cardinality(disk \cup {new}) = Cardinality(disk) + 1
    PROVE  Match(next, disk \cup {new}, table, gpt)
<1>1. NewRegion(op).part < 0
  <2>1. op.index \in Nat BY DEF Operation
  <2> QED BY <2>1 DEF NewRegion, NewKey
<1>2. NewRegion(op).from = new.from /\ NewRegion(op).to = new.to BY DEF NewRegion
<1>3. next.table = acc.table /\ next.alloc = acc.alloc \cup {NewRegion(op)}
      /\ (acc.table = "msdos" => next.primaries = acc.primaries + 1)
  BY DEF CreateAccepted
<1>4. ~(NewRegion(op).part > 0)
  <2>1. NewRegion(op).part \in Int
    <3>1. op.index \in Nat BY DEF Operation
    <3> QED BY <3>1 DEF NewRegion, NewKey
  <2> QED BY <1>1, <2>1
<1> QED BY <1>2, <1>3, <1>4 DEF Match

\* A new table leaves the map and the disk without partitions to edit.
LEMMA MatchTable ==
    ASSUME NEW acc, NEW next, NEW op, TableAccepted(acc, op, next), op.fs \in TableTypes,
           NEW disk,
           disk = IF op.fs # "gpt" THEN {}
                  ELSE {[part |-> 1, from |-> BiosStart, to |-> BiosStart + BiosCreated,
                         fs |-> "bios_grub"]}
    PROVE  DiskSound(disk) /\ Match(next, disk, op.fs, op.fs = "gpt")
<1> DEFINE bios == [part |-> 1, from |-> BiosStart, to |-> BiosStart + BiosCreated,
                    fs |-> "bios_grub"]
<1>1. /\ BiosStart \in Nat /\ BiosStart + BiosCreated \in Nat /\ BiosStart < BiosStart + BiosCreated
      /\ BiosStart + BiosCreated <= EditorEnd
  BY PartitionEditorAssumption DEF BiosStart, BiosCreated
<1>2. bios \in Partition
  <2>1. "bios_grub" \in Text BY DEF Text
  <2> QED BY <1>1, <2>1 DEF Partition
<1>3. bios.from < bios.to /\ bios.to <= EditorEnd BY <1>1
<1>4. IsFiniteSet({}) /\ IsFiniteSet({bios}) /\ Cardinality({}) = 0 BY FS_EmptySet, FS_Singleton
<1>5. DiskSound(disk)
  <2>1. disk = {} \/ disk = {bios} OBVIOUS
  <2> HIDE DEF bios
  <2> QED BY <1>2, <1>3, <1>4, <2>1 DEF DiskSound
<1>6. \A p \in next.alloc : ~(p.part > 0) BY DEF TableAccepted, BiosRegion, BiosKey
<1>7. op.fs = "msdos" => disk = {} OBVIOUS
<1>8. \A p \in disk : op.fs = "gpt" /\ p.to <= BiosStart + BiosCreated
  BY <1>1
<1>9. next.table = op.fs /\ next.primaries = 0 BY DEF TableAccepted
<1> QED BY <1>4, <1>5, <1>6, <1>7, <1>8, <1>9 DEF Match

-----------------------------------------------------------------------------
(* The invariant of staging and of a commit.                               *)

NewGpt(ops) == ops[1].kind = "new_table" /\ ops[1].fs = "gpt"

\* The same operation, except for what its execution records in a create.
SameOp(a, b) ==
    /\ a.kind = b.kind /\ a.index = b.index /\ a.from = b.from /\ a.size = b.size
    /\ a.fs = b.fs /\ a.mp = b.mp
    /\ a.kind # "create" => a = b

EditorTypes ==
    /\ DiskSound(edDisk) /\ edTableType \in TableTypes
    /\ DiskSound(edBackup.parts) /\ edBackup.table \in TableTypes
    /\ JournalSound(edOps) /\ JournalSound(edRun)
    /\ edActive \in BOOLEAN /\ edCommitted \in BOOLEAN /\ edIrreversible \in BOOLEAN
    /\ edPos \in 0 .. Len(edRun) + 1
    /\ edReply.status \in {"none", "errors", "ok", "failed", "irreversible", "recovery",
                           "aborted"}
    /\ edFaults \in 0 .. MaxToolFaults

\* The accounts of the journal being committed.
Accounts == Validated(edBackup.parts, edBackup.table, edOps)

CommitInv ==
    /\ edReply = Reply("none", "")
    /\ Len(edRun) = Len(edOps)
    /\ \A i \in 1..Len(edOps) : SameOp(edOps[i], edRun[i])
    /\ \A i \in edPos..Len(edOps) : edRun[i] = edOps[i]
    /\ ValidRun(Accounts, edBackup.parts, edBackup.table, edOps)
    /\ Match(Accounts[edPos - 1], edDisk, edTableType, NewGpt(edOps))

EditorInv ==
    /\ EditorTypes
    /\ edPos # 0 => CommitInv
    /\ ValidatedRuns

\* The invariant holds at the start.
LEMMA EditorStarts ==
    ASSUME EditorInit PROVE EditorInv
<1>1. DiskSound(EditorDisk)
  <2>1. IsFiniteSet(EditorDisk) BY PartitionEditorAssumption
  <2>2. ASSUME NEW p \in EditorDisk PROVE p \in Partition
    <3>1. p \in [part : Nat \ {0}, from : Nat, to : Nat, fs : STRING] BY PartitionEditorAssumption
    <3>2. p.fs \in Text BY DEF Text
    <3> QED BY <3>1, <3>2 DEF Partition
  <2> QED BY <2>1, <2>2, PartitionEditorAssumption DEF DiskSound
<1>2. JournalSound(<<>>) BY DEF JournalSound
<1>3. /\ edOps = <<>> /\ edRun = <<>> /\ edDisk = EditorDisk /\ edTableType \in TableTypes
      /\ edBackup.table = edTableType /\ edBackup.parts = edDisk
      /\ edActive = FALSE /\ edCommitted = FALSE /\ edIrreversible = FALSE /\ edPos = 0
      /\ edReply.status = "none" /\ edReply.cause = "" /\ edFaults = 0
  BY DEF EditorInit, TableTypes, Reply
<1>4. MaxToolFaults \in Nat BY PartitionEditorAssumption
<1>5. EditorTypes
  <2>0. edPos = 0 /\ Len(edRun) = 0 /\ edFaults = 0 BY DEF EditorInit
  <2>1. edPos \in 0 .. Len(edRun) + 1 BY <2>0
  <2>2. edFaults \in 0..MaxToolFaults BY <1>4, <2>0
  <2> QED BY <1>1, <1>2, <1>3, <2>1, <2>2 DEF EditorTypes
<1>6. ValidatedRuns BY <1>3 DEF ValidatedRuns
<1> QED BY <1>3, <1>5, <1>6 DEF EditorInv

\* Staging leaves the disk and the commits alone.
LEMMA StagingKeeps ==
    ASSUME EditorInv, edPos = 0, UNCHANGED commit, JournalSound(edOps'),
           edActive' \in BOOLEAN, edCommitted' \in BOOLEAN
    PROVE  EditorInv'
<1>1. /\ edDisk' = edDisk /\ edTableType' = edTableType /\ edBackup' = edBackup /\ edRun' = edRun
      /\ edPos' = edPos /\ edIrreversible' = edIrreversible /\ edReply' = edReply
      /\ edFaults' = edFaults
  BY DEF commit
<1>2. EditorTypes' BY <1>1 DEF EditorInv, EditorTypes
<1>3. ValidatedRuns' BY <1>1 DEF EditorInv, ValidatedRuns
<1> QED BY <1>1, <1>2, <1>3 DEF EditorInv

\* The requests the routes accept are made of known values.
LEMMA StagedTyped ==
    /\ NoOp \in [kind : {""}, index : Nat, part : Nat, from : Nat, size : Nat, fs : Text, mp : Text,
                 created : BOOLEAN]
    /\ \A c \in StagedCreates : c.from \in Nat /\ c.size \in Nat /\ c.fs \in Text /\ c.mp \in Text
    /\ \A e \in StagedEdits : /\ e.kind \in EditKinds /\ e.part \in Nat /\ e.size \in Nat
                              /\ e.fs \in Text /\ e.mp \in Text
<1>1. "" \in Text BY DEF Text
<1>2. NoOp \in [kind : {""}, index : Nat, part : Nat, from : Nat, size : Nat, fs : Text, mp : Text,
                created : BOOLEAN]
  BY <1>1 DEF NoOp
<1>3. ASSUME NEW c \in StagedCreates
      PROVE  c.from \in Nat /\ c.size \in Nat /\ c.fs \in Text /\ c.mp \in Text
  <2>1. c \in [from : Nat, size : Nat, fs : STRING, mp : STRING] BY PartitionEditorAssumption
  <2>2. c.fs \in Text /\ c.mp \in Text BY DEF Text
  <2> QED BY <2>1, <2>2
<1>4. ASSUME NEW e \in StagedEdits
      PROVE  /\ e.kind \in EditKinds /\ e.part \in Nat /\ e.size \in Nat
             /\ e.fs \in Text /\ e.mp \in Text
  <2>1. e \in [kind : EditKinds, part : Nat, size : Nat, fs : STRING, mp : STRING]
    BY PartitionEditorAssumption
  <2>2. e.fs \in Text /\ e.mp \in Text BY DEF Text
  <2> QED BY <2>1, <2>2
<1> QED BY <1>2, <1>3, <1>4

\* The requests that only change the journal.
Staging ==
    \/ \E type \in {"gpt", "msdos"} : NewTable(type)
    \/ \E c \in StagedCreates : StageCreate(c)
    \/ \E e \in StagedEdits : StageEdit(e)
    \/ \E index \in Indices(edOps) : RemovePending(index)
    \/ RollbackMetadata

\* The journal stays in order through additions and removals.
LEMMA StagingSteps ==
    ASSUME EditorInv, Staging
    PROVE  EditorInv'
<1>1. JournalSound(<<>>) BY DEF JournalSound
<1>2. JournalSound(edOps) /\ edActive \in BOOLEAN /\ edCommitted \in BOOLEAN
  BY DEF EditorInv, EditorTypes
<1>3. NoOp \in [kind : {""}, index : Nat, part : Nat, from : Nat, size : Nat, fs : Text, mp : Text,
                created : BOOLEAN]
  BY StagedTyped
<1>4. ASSUME NEW type \in {"gpt", "msdos"}, NewTable(type) PROVE EditorInv'
  <2> DEFINE op == [NoOp EXCEPT !.kind = "new_table", !.fs = type]
  <2>1. type \in Text /\ type \in TableTypes BY DEF Text, TableTypes
  <2>2. op \in Operation /\ op.kind = "new_table" /\ op.fs = type BY <1>3, <2>1 DEF Operation
  <2>3. op.kind \notin EditKinds BY <2>2 DEF EditKinds
  <2> HIDE DEF op
  <2>4. JournalSound(add_op(<<>>, op)) BY <1>1, <2>1, <2>2, <2>3, AddOpKeeps
  <2>5. /\ edPos = 0 /\ UNCHANGED commit /\ edOps' = add_op(<<>>, op)
        /\ edActive' = TRUE /\ edCommitted' = FALSE
    BY <1>4 DEF NewTable, Request, Idle, op
  <2> QED BY <2>4, <2>5, StagingKeeps
<1>5. ASSUME NEW op \in Operation, Stage(op), op.kind # "new_table", op.kind \in EditKinds => op.part # 0
      PROVE  EditorInv'
  <2>1. JournalSound(add_op(edOps, op)) BY <1>2, <1>5, AddOpKeeps
  <2>2. /\ edPos = 0 /\ UNCHANGED commit /\ edOps' = add_op(edOps, op)
        /\ edActive' = edActive /\ edCommitted' = edCommitted
    BY <1>5 DEF Stage, Request, Idle
  <2> QED BY <1>2, <2>1, <2>2, StagingKeeps
<1>6. ASSUME NEW c \in StagedCreates, StageCreate(c) PROVE EditorInv'
  <2> DEFINE op == [NoOp EXCEPT !.kind = "create", !.from = c.from, !.size = c.size, !.fs = c.fs,
                                !.mp = c.mp]
  <2>1. c.from \in Nat /\ c.size \in Nat /\ c.fs \in Text /\ c.mp \in Text BY StagedTyped
  <2>2. op \in Operation /\ op.kind = "create" BY <1>3, <2>1 DEF Operation
  <2>3. op.kind # "new_table" /\ op.kind \notin EditKinds BY <2>2 DEF EditKinds
  <2>4. Stage(op) BY <1>6 DEF StageCreate
  <2> HIDE DEF op
  <2> QED BY <1>5, <2>2, <2>3, <2>4
<1>7. ASSUME NEW e \in StagedEdits, StageEdit(e) PROVE EditorInv'
  <2> DEFINE op == [NoOp EXCEPT !.kind = e.kind, !.part = e.part, !.size = e.size, !.fs = e.fs,
                                !.mp = e.mp]
  <2>1. e.kind \in EditKinds /\ e.part \in Nat /\ e.size \in Nat /\ e.fs \in Text /\ e.mp \in Text
    BY StagedTyped
  <2>2. op \in Operation /\ op.kind = e.kind /\ op.part = e.part BY <1>3, <2>1 DEF Operation
  <2>3. op.kind # "new_table" BY <2>1, <2>2 DEF EditKinds
  <2>4. Stage(op) /\ \E p \in edDisk : p.part = e.part BY <1>7 DEF StageEdit
  <2>5. e.part # 0 BY <2>4 DEF EditorInv, EditorTypes, DiskSound, Partition
  <2> HIDE DEF op
  <2> QED BY <1>5, <2>2, <2>3, <2>4, <2>5
<1>8. ASSUME NEW index \in Indices(edOps), RemovePending(index) PROVE EditorInv'
  <2>1. JournalSound(remove_op(edOps, index)) BY <1>2, RemoveOpKeeps
  <2>2. /\ edPos = 0 /\ UNCHANGED commit /\ edOps' = remove_op(edOps, index)
        /\ edActive' = edActive /\ edCommitted' = edCommitted
    BY <1>8 DEF RemovePending, Request, Idle
  <2> QED BY <1>2, <2>1, <2>2, StagingKeeps
<1>9. ASSUME RollbackMetadata PROVE EditorInv'
  <2>1. /\ edPos = 0 /\ UNCHANGED commit /\ edOps' = <<>>
        /\ edActive' = edActive /\ edCommitted' = edCommitted
    BY <1>9 DEF RollbackMetadata, Request, Idle
  <2> QED BY <1>1, <1>2, <2>1, StagingKeeps
<1> QED BY <1>4, <1>6, <1>7, <1>8, <1>9 DEF Staging

\* A commit starts with the map of the disk, or reports errors.
LEMMA CommitKeeps ==
    ASSUME EditorInv, Commit
    PROVE  EditorInv'
<1>1. /\ edPos = 0 /\ edDisk' = edDisk /\ edTableType' = edTableType /\ edFaults' = edFaults
      /\ edOps' = edOps /\ edActive' = edActive /\ edCommitted' = edCommitted
  BY DEF Commit, Idle, staged
<1>2. CASE validate(edOps)
  <2>1. /\ edBackup' = [table |-> edTableType, parts |-> edDisk]
        /\ edRun' = edOps /\ edPos' = 1 /\ edIrreversible' = FALSE /\ edReply' = Reply("none", "")
    BY <1>2 DEF Commit
  <2>2. edBackup'.table = edTableType /\ edBackup'.parts = edDisk BY <2>1
  <2>3. /\ DiskSound(edDisk) /\ edTableType \in TableTypes /\ JournalSound(edOps)
        /\ edFaults \in 0..MaxToolFaults /\ edActive \in BOOLEAN /\ edCommitted \in BOOLEAN
    BY DEF EditorInv, EditorTypes
  <2>4. Len(edOps) \in Nat /\ \A i \in 1..Len(edOps) : edOps[i] \in Operation
    BY <2>3 DEF JournalSound
  <2>5. edReply'.status = "none" /\ edReply'.cause = "" BY <2>1 DEF Reply
  <2>6. EditorTypes'
    <3>0. edPos' = 1 /\ edRun' = edOps BY <2>1
    <3>1. edPos' \in 0..(Len(edRun') + 1) BY <2>4, <3>0
    <3> QED BY <1>1, <2>1, <2>2, <2>3, <2>5, <3>1 DEF EditorTypes
  <2> DEFINE V == Validated(edDisk, edTableType, edOps)
  <2>7. V[Len(edOps)].valid BY <1>2 DEF validate
  <2>8. ValidRun(V, edDisk, edTableType, edOps) BY <2>3, <2>7, ValidatedIsValidRun
  <2>9. Accounts' = V BY <1>1, <2>2 DEF Accounts
  <2> HIDE DEF V
  <2>10. Match(V[0], edDisk, edTableType, NewGpt(edOps))
    <3>1. V[0] = Unallocated(edDisk, edTableType) BY <2>8 DEF ValidRun
    <3> QED BY <2>3, <3>1, UnallocatedTyped DEF Match
  <2>11. CommitInv'
    <3>1. \A i \in 1..Len(edOps) : SameOp(edOps[i], edOps[i]) BY DEF SameOp
    <3>2. 1 - 1 = 0 OBVIOUS
    <3> QED BY <1>1, <2>1, <2>2, <2>8, <2>9, <2>10, <3>1, <3>2 DEF CommitInv
  <2>12. ValidatedRuns' BY <2>5 DEF ValidatedRuns
  <2> QED BY <2>6, <2>11, <2>12 DEF EditorInv
<1>3. CASE ~validate(edOps)
  <2>1. /\ edReply' = Reply("errors", "") /\ edBackup' = edBackup /\ edRun' = edRun
        /\ edPos' = edPos /\ edIrreversible' = edIrreversible
    BY <1>3 DEF Commit
  <2>2. edReply'.status = "errors" /\ edReply'.cause = "" BY <2>1 DEF Reply
  <2>3. EditorTypes' BY <1>1, <2>1, <2>2 DEF EditorInv, EditorTypes
  <2>4. ValidatedRuns' BY <2>2 DEF ValidatedRuns
  <2> QED BY <1>1, <2>1, <2>3, <2>4 DEF EditorInv
<1> QED BY <1>2, <1>3

\* A cause an operation of a validated journal may fail for.
CauseExpected(cause) ==
    \/ cause \in {"tool", "shrink", "filesystem"}
    \/ /\ cause = "overlap"
       /\ \E i, j \in DOMAIN edRun :
              /\ edRun[i].kind = "new_table" /\ edRun[i].fs = "gpt"
              /\ edRun[j].kind = "create" /\ i < j
              /\ edRun[j].from < BiosStart + BiosCreated

\* The error path leaves a sound disk, restored or not, and an expected cause.
LEMMA FailKeeps ==
    ASSUME EditorInv, NEW cause, NEW disk, NEW table, NEW intact, NEW irreversible,
           Fail(cause, disk, table, intact, irreversible),
           DiskSound(disk), table \in TableTypes, irreversible \in BOOLEAN,
           FaultOf(cause) = 1 => edFaults < MaxToolFaults, CauseExpected(cause)
    PROVE  EditorInv'
<1>1. /\ edPos' = 0 /\ edIrreversible' = irreversible /\ edBackup' = edBackup /\ edRun' = edRun
      /\ edOps' = edOps /\ edActive' = edActive /\ edCommitted' = edCommitted
  BY DEF Fail, staged
<1>2. \/ edDisk' = disk /\ edTableType' = table
      \/ edDisk' = Restored(intact) /\ edTableType' = edBackup.table
  BY DEF Fail
<1>3. edReply'.status \in {"failed", "irreversible", "recovery"} /\ edReply'.cause = cause
  BY DEF Fail, Reply
<1>4. \/ edFaults' = edFaults + FaultOf(cause)
      \/ edFaults + FaultOf(cause) < MaxToolFaults /\ edFaults' = edFaults + FaultOf(cause) + 1
  BY DEF Fail
<1>5. edFaults' \in 0..MaxToolFaults
  <2>1. MaxToolFaults \in Nat BY PartitionEditorAssumption
  <2>2. edFaults \in 0..MaxToolFaults BY DEF EditorInv, EditorTypes
  <2>3. FaultOf(cause) \in {0, 1} BY DEF FaultOf
  <2> QED BY <1>4, <2>1, <2>2, <2>3
<1>6. DiskSound(edDisk') /\ edTableType' \in TableTypes
  <2>1. DiskSound(edBackup.parts) /\ edBackup.table \in TableTypes BY DEF EditorInv, EditorTypes
  <2>2. DiskSound(Restored(intact)) BY <2>1, RestoredSound
  <2> QED BY <1>2, <2>1, <2>2
<1>7. edPos' \in 0..(Len(edRun') + 1)
  <2>1. edPos' = 0 /\ edRun' = edRun BY <1>1
  <2>2. Len(edRun) \in Nat BY DEF EditorInv, EditorTypes, JournalSound
  <2> QED BY <2>1, <2>2
<1>8. EditorTypes' BY <1>1, <1>3, <1>5, <1>6, <1>7 DEF EditorInv, EditorTypes
<1>9. ValidatedRuns'
  <2>1. edRun' = edRun /\ edReply'.cause = cause BY <1>1, <1>3
  <2>2. cause \notin {"missing", "limit"} BY DEF CauseExpected
  <2>3. cause = "overlap" => \E i, j \in DOMAIN edRun :
              /\ edRun[i].kind = "new_table" /\ edRun[i].fs = "gpt"
              /\ edRun[j].kind = "create" /\ i < j
              /\ edRun[j].from < BiosStart + BiosCreated
    BY DEF CauseExpected
  <2> QED BY <2>1, <2>2, <2>3 DEF ValidatedRuns
<1> QED BY <1>1, <1>8, <1>9 DEF EditorInv

\* What is known of the operation a commit is at.
LEMMA AtOperation ==
    ASSUME EditorInv, edPos \in DOMAIN edRun
    PROVE  /\ edPos \in 1..Len(edOps) /\ edPos \in 1..Len(edRun) /\ edPos - 1 \in 0..Len(edOps)
           /\ CommitInv
           /\ CurrentOp = edOps[edPos] /\ CurrentOp \in Operation
           /\ Accounts[edPos - 1] \in Account /\ Accounts[edPos] \in Account
           /\ Accepted(edOps, CurrentOp, Accounts[edPos - 1], Accounts[edPos])
           /\ CurrentOp.kind = "new_table" => edPos = 1 /\ CurrentOp.fs \in TableTypes
           /\ CurrentOp.kind \in EditKinds => CurrentOp.part # 0
<1>1. JournalSound(edRun) /\ JournalSound(edOps) BY DEF EditorInv, EditorTypes
<1>2. /\ edRun \in Seq(Operation) /\ DOMAIN edRun = 1..Len(edRun) /\ Len(edRun) \in Nat
  BY <1>1 DEF JournalSound
<1>3. edPos \in 1..Len(edRun) /\ edPos # 0 BY <1>2
<1>4. CommitInv BY <1>3 DEF EditorInv
<1>5. Len(edRun) = Len(edOps) BY <1>4 DEF CommitInv
<1>6. edPos \in 1..Len(edOps) /\ edPos \in edPos..Len(edOps) /\ edPos - 1 \in 0..Len(edOps)
      /\ edPos \in 0..Len(edOps)
  BY <1>2, <1>3, <1>5
<1>7. CurrentOp = edOps[edPos] BY <1>4, <1>6 DEF CommitInv, CurrentOp
<1>8. CurrentOp \in Operation BY <1>2, <1>3 DEF CurrentOp
<1>9. ValidRun(Accounts, edBackup.parts, edBackup.table, edOps) BY <1>4 DEF CommitInv
<1>10. /\ Accounts[edPos - 1] \in Account /\ Accounts[edPos] \in Account
       /\ Accepted(edOps, CurrentOp, Accounts[edPos - 1], Accounts[edPos])
  BY <1>6, <1>7, <1>9 DEF ValidRun
<1>11. /\ CurrentOp.kind = "new_table" => edPos = 1 /\ CurrentOp.fs \in TableTypes
       /\ CurrentOp.kind \in EditKinds => CurrentOp.part # 0
  BY <1>1, <1>3 DEF JournalSound, CurrentOp
<1> QED BY <1>3, <1>4, <1>6, <1>7, <1>8, <1>10, <1>11

\* An edit finds its partition on the disk, and it is the one validate saw.
LEMMA EditTarget ==
    ASSUME EditorInv, edPos \in DOMAIN edRun, CurrentOp.kind \in EditKinds
    PROVE  /\ OnDisk(CurrentOp.part) /\ Found(CurrentOp.part) \in edDisk
           /\ Found(CurrentOp.part).part = CurrentOp.part
           /\ Found(CurrentOp.part) \in Accounts[edPos - 1].alloc
           /\ Counts(edOps, CurrentOp) =>
                 EditAccepted(Accounts[edPos - 1], CurrentOp, Found(CurrentOp.part), Accounts[edPos])
<1> DEFINE acc == Accounts[edPos - 1]
           op == CurrentOp
<1>1. /\ CommitInv /\ op = edOps[edPos] /\ op \in Operation /\ edPos \in 1..Len(edOps)
      /\ Accepted(edOps, op, acc, Accounts[edPos]) /\ op.part # 0
  BY AtOperation
<1>2. op.part > 0
  <2>1. op.part \in Nat BY <1>1 DEF Operation
  <2> QED BY <1>1, <2>1
<1>3. Key(acc, op.part) BY <1>1 DEF CommitInv, ValidRun
<1>4. \A p \in acc.alloc : p.part > 0 => p \in edDisk BY <1>1 DEF CommitInv, Match
<1>5. DiskSound(edDisk) BY DEF EditorInv, EditorTypes
<1> HIDE DEF acc
<1>6. \A p \in acc.alloc : p.part = op.part => p \in edDisk /\ Found(op.part) = p /\ OnDisk(op.part)
  <2> SUFFICES ASSUME NEW p \in acc.alloc, p.part = op.part
               PROVE  p \in edDisk /\ Found(op.part) = p /\ OnDisk(op.part)
    OBVIOUS
  <2>1. p \in edDisk BY <1>2, <1>4
  <2>2. Found(p.part) = p /\ OnDisk(p.part) BY <1>5, <2>1, FoundIs
  <2> QED BY <2>1, <2>2
<1>7. PICK p \in acc.alloc : p.part = op.part BY <1>3 DEF Key
<1>8. ASSUME Counts(edOps, op) PROVE EditAccepted(acc, op, Found(op.part), Accounts[edPos])
  <2>1. PICK q \in acc.alloc : EditAccepted(acc, op, q, Accounts[edPos])
    BY <1>1, <1>8 DEF Accepted
  <2>2. q.part = op.part BY <2>1 DEF EditAccepted
  <2> QED BY <1>6, <2>1, <2>2
<1> QED BY <1>6, <1>7, <1>8 DEF acc

\* An executed operation, when the map and the disk match after it.
LEMMA OpDoneKeeps ==
    ASSUME EditorInv, edPos \in DOMAIN edRun, NEW op \in Operation, OpDone(op),
           SameOp(CurrentOp, op), DiskSound(edDisk'), edTableType' \in TableTypes,
           edIrreversible' \in BOOLEAN,
           Match(Accounts[edPos], edDisk', edTableType', NewGpt(edOps))
    PROVE  EditorInv'
<1>1. /\ edPos \in 1..Len(edOps) /\ edPos \in 1..Len(edRun) /\ CommitInv
      /\ CurrentOp = edOps[edPos]
  BY AtOperation
<1>2. /\ edRun' = [edRun EXCEPT ![edPos] = op] /\ edPos' = edPos + 1
      /\ edOps' = edOps /\ edActive' = edActive /\ edCommitted' = edCommitted
      /\ edBackup' = edBackup /\ edReply' = edReply /\ edFaults' = edFaults
  BY DEF OpDone, staged
<1>3. JournalSound(edRun) BY DEF EditorInv, EditorTypes
<1>4. edRun \in Seq(Operation) /\ Len(edRun) \in Nat /\ Len(edRun) = Len(edOps)
  <2>1. Len(edRun) = Len(edOps) BY <1>1 DEF CommitInv
  <2>2. edRun \in Seq(Operation) BY <1>3 DEF JournalSound
  <2> QED BY <2>1, <2>2
<1> DEFINE run == [edRun EXCEPT ![edPos] = op]
<1>5. /\ run \in Seq(Operation) /\ Len(run) = Len(edRun) /\ run[edPos] = op
      /\ \A i \in 1..Len(edRun) : i # edPos => run[i] = edRun[i]
  BY <1>1, <1>4
<1>0. edRun' = run BY <1>2
<1> HIDE DEF run
<1>6. SameOp(edRun[edPos], op) BY DEF CurrentOp
<1>7. \A i \in 1..Len(edRun) : SameOp(edRun[i], run[i])
  <2>1. \A i \in 1..Len(edRun) : SameOp(edRun[i], edRun[i]) BY DEF SameOp
  <2> QED BY <1>5, <1>6, <2>1
<1>8. \A i \in 1..Len(edRun) :
         /\ run[i].kind = edRun[i].kind /\ run[i].index = edRun[i].index
         /\ run[i].fs = edRun[i].fs
         /\ run[i].kind # "create" => run[i] = edRun[i]
  BY <1>7 DEF SameOp
<1>9. JournalSound(run)
  <2>1. "create" \notin EditKinds BY DEF EditKinds
  <2>0. Len(run) = Len(edRun) BY <1>5
  <2>2. \A i \in 1..Len(edRun) : /\ run[i].kind = "new_table" => i = 1 /\ run[i].fs \in TableTypes
                                 /\ run[i].kind \in EditKinds => run[i].part # 0
    <3>1. \A i \in 1..Len(edRun) :
             /\ edRun[i].kind = "new_table" => i = 1 /\ edRun[i].fs \in TableTypes
             /\ edRun[i].kind \in EditKinds => edRun[i].part # 0
      BY <1>3 DEF JournalSound
    <3> QED BY <1>8, <2>1, <3>1
  <2>3. \A i, j \in 1..Len(edRun) : i < j => run[i].index < run[j].index
    <3>1. \A i, j \in 1..Len(edRun) : i < j => edRun[i].index < edRun[j].index
      BY <1>3 DEF JournalSound
    <3> QED BY <1>8, <3>1
  <2> QED BY <1>5, <2>0, <2>2, <2>3 DEF JournalSound
<1>10. edPos' \in 0..(Len(run) + 1) /\ edPos' # 0 /\ edPos' - 1 = edPos
  <2>1. edPos' = edPos + 1 BY <1>2
  <2> QED BY <1>1, <1>4, <1>5, <2>1
<1>11. EditorTypes' BY <1>0, <1>2, <1>9, <1>10 DEF EditorInv, EditorTypes
<1>12. CommitInv'
  <2>1. Accounts' = Accounts BY <1>2 DEF Accounts
  <2>2. \A i \in 1..Len(edOps) : SameOp(edOps[i], run[i])
    <3>1. \A i \in 1..Len(edOps) : SameOp(edOps[i], edRun[i]) BY <1>1 DEF CommitInv
    <3> QED BY <1>4, <1>7, <3>1 DEF SameOp
  <2>3. \A i \in edPos'..Len(edOps) : run[i] = edOps[i]
    <3>1. edPos' = edPos + 1 BY <1>2
    <3>2. \A i \in (edPos + 1)..Len(edOps) : i \in edPos..Len(edOps) /\ i # edPos /\ i \in 1..Len(edRun)
      BY <1>1, <1>4
    <3>3. \A i \in edPos..Len(edOps) : edRun[i] = edOps[i] BY <1>1 DEF CommitInv
    <3> QED BY <1>5, <3>1, <3>2, <3>3
  <2> QED BY <1>0, <1>1, <1>2, <1>4, <1>5, <1>10, <2>1, <2>2, <2>3 DEF CommitInv
<1>13. ValidatedRuns'
  <2>1. edReply'.cause = "" BY <1>1, <1>2 DEF CommitInv, Reply
  <2> QED BY <2>1 DEF ValidatedRuns
<1> QED BY <1>11, <1>12, <1>13 DEF EditorInv

NewPartition(op) == [part |-> LowestFree, from |-> op.from, to |-> op.from + op.size, fs |-> op.fs]

\* A create finds its region free, unless it reaches into the BIOS boot
\* partition of a new table.
LEMMA CreateFacts ==
    ASSUME EditorInv, Running("create")
    PROVE  /\ Blocked(CurrentOp.from, CurrentOp.from + CurrentOp.size) => CauseExpected("overlap")
           /\ edTableType = "msdos" => Cardinality(edDisk) < PrimaryLimit
           /\ NewPartition(CurrentOp) \in Partition /\ CurrentOp.size > 0
           /\ ~Blocked(CurrentOp.from, CurrentOp.from + CurrentOp.size) =>
                 /\ DiskSound(edDisk \cup {NewPartition(CurrentOp)})
                 /\ Match(Accounts[edPos], edDisk \cup {NewPartition(CurrentOp)}, edTableType,
                          NewGpt(edOps))
<1> DEFINE op == CurrentOp
           to == op.from + op.size
           acc == Accounts[edPos - 1]
           next == Accounts[edPos]
           new == NewPartition(op)
<1>1. edPos \in DOMAIN edRun /\ op.kind = "create" BY DEF Running
<1>2. /\ edPos \in 1..Len(edOps) /\ edPos \in 1..Len(edRun) /\ CommitInv /\ op \in Operation
      /\ acc \in Account /\ next \in Account /\ Accepted(edOps, op, acc, next)
  BY <1>1, AtOperation
<1>3. CreateAccepted(acc, op, next) BY <1>1, <1>2 DEF Accepted
<1>4. Match(acc, edDisk, edTableType, NewGpt(edOps)) BY <1>2 DEF CommitInv
<1>5. op.from \in Nat /\ op.size \in Nat /\ op.fs \in Text /\ to \in Nat BY <1>2 DEF Operation
<1>6. op.size > 0 /\ to <= EditorEnd /\ \A p \in acc.alloc : ~Overlaps(op.from, to, p)
  BY <1>3 DEF CreateAccepted
<1>7. DiskSound(edDisk) /\ EditorEnd \in Nat BY PartitionEditorAssumption DEF EditorInv, EditorTypes
<1>8. ASSUME Blocked(op.from, to) PROVE CauseExpected("overlap")
  <2>1. ~(to > EditorEnd) BY <1>5, <1>6, <1>7
  <2>2. PICK p \in edDisk : Overlaps(op.from, to, p) BY <1>8, <2>1 DEF Blocked
  <2>3. CASE \E q \in acc.alloc : q.from = p.from /\ q.to = p.to
    BY <1>6, <2>2, <2>3 DEF Overlaps
  <2>4. CASE NewGpt(edOps) /\ p.to <= BiosStart + BiosCreated
    <3>1. p \in Partition BY <1>7 DEF DiskSound
    <3>2. p.to \in Nat /\ BiosStart + BiosCreated \in Nat BY <3>1 DEF Partition, BiosStart, BiosCreated
    <3>3. op.from < p.to BY <2>2 DEF Overlaps
    <3>4. op.from < BiosStart + BiosCreated BY <1>5, <2>4, <3>2, <3>3
    <3>5. 1 \in 1..Len(edOps) /\ 1 \in 1..Len(edRun)
      <4>1. Len(edOps) \in Nat /\ Len(edRun) \in Nat BY DEF EditorInv, EditorTypes, JournalSound
      <4> QED BY <1>2, <4>1
    <3>6. edRun[1].kind = "new_table" /\ edRun[1].fs = "gpt"
      BY <1>2, <2>4, <3>5 DEF CommitInv, SameOp, NewGpt
    <3>7. edPos # 1 BY <1>1, <3>6 DEF CurrentOp
    <3>8. 1 < edPos /\ 1 \in DOMAIN edRun BY <1>2, <3>5, <3>7 DEF EditorInv, EditorTypes, JournalSound
    <3> QED BY <1>1, <3>4, <3>6, <3>8 DEF CauseExpected, CurrentOp
  <2> QED BY <1>4, <2>3, <2>4 DEF Match
<1>9. edTableType = "msdos" => Cardinality(edDisk) < PrimaryLimit
  BY <1>3, <1>4 DEF Match, CreateAccepted
<1>10. /\ LowestFree \in Nat \ {0} /\ ~OnDisk(LowestFree) BY <1>7, LowestIsFree
<1>11. /\ new \in Partition /\ new.from = op.from /\ new.to = to /\ new.part = LowestFree
       /\ new.from < new.to
  <2>1. new \in Partition BY <1>5, <1>10 DEF Partition, NewPartition
  <2>2. new.from = op.from /\ new.to = to /\ new.part = LowestFree BY DEF NewPartition
  <2>3. op.from < to BY <1>5, <1>6
  <2> QED BY <2>1, <2>2, <2>3
<1> HIDE DEF new
<1>12. ASSUME ~Blocked(op.from, to)
       PROVE  /\ DiskSound(edDisk \cup {new})
              /\ Match(next, edDisk \cup {new}, edTableType, NewGpt(edOps))
  <2>1. \A p \in edDisk : p.part # new.part /\ ~Overlaps(new.from, new.to, p)
    BY <1>10, <1>11, <1>12 DEF Blocked, OnDisk
  <2>2. DiskSound(edDisk \cup {new}) /\ Cardinality(edDisk \cup {new}) = Cardinality(edDisk) + 1
    BY <1>6, <1>7, <1>11, <2>1, PartitionAdded
  <2> HIDE DEF acc, next, op
  <2> QED BY <1>2, <1>3, <1>4, <1>7, <1>11, <2>2, MatchCreate DEF to
<1> QED BY <1>6, <1>8, <1>9, <1>11, <1>12 DEF new

\* ExecuteCreate keeps the invariant, whichever way it ends.
LEMMA CreateKeeps ==
    ASSUME EditorInv, ExecuteCreate
    PROVE  EditorInv'
<1> DEFINE op == CurrentOp
           to == op.from + op.size
           new == NewPartition(op)
           spared == IF op.fs = "linux-swap" THEN edIntact ELSE Spared(op.from, to)
           done == [op EXCEPT !.part = new.part, !.created = TRUE]
<1>1. Running("create") /\ edPos \in DOMAIN edRun BY DEF ExecuteCreate, Running
<1>2. /\ Blocked(op.from, to) => CauseExpected("overlap")
      /\ edTableType = "msdos" => Cardinality(edDisk) < PrimaryLimit
      /\ new \in Partition
      /\ ~Blocked(op.from, to) =>
            /\ DiskSound(edDisk \cup {new})
            /\ Match(Accounts[edPos], edDisk \cup {new}, edTableType, NewGpt(edOps))
  BY <1>1, CreateFacts
<1>3. DiskSound(edDisk) /\ edTableType \in TableTypes /\ edIrreversible \in BOOLEAN
  BY DEF EditorInv, EditorTypes
<1>4. \/ Blocked(op.from, to) /\ FailHere("overlap")
      \/ edTableType = "msdos" /\ Cardinality(edDisk) >= PrimaryLimit
      \/ /\ ~Blocked(op.from, to)
         /\ \/ /\ edDisk' = edDisk \cup {new} /\ OpDone(done)
               /\ UNCHANGED <<edTableType, edIrreversible>>
            \/ /\ edFaults < MaxToolFaults
               /\ Fail("tool", edDisk \cup {new}, edTableType, spared, edIrreversible)
  BY DEF ExecuteCreate, NewPartition
<1>5. CASE Blocked(op.from, to) /\ FailHere("overlap")
  <2>1. FaultOf("overlap") # 1 BY DEF FaultOf
  <2> QED BY <1>2, <1>3, <1>5, <2>1, FailKeeps DEF FailHere
<1>6. CASE edTableType = "msdos" /\ Cardinality(edDisk) >= PrimaryLimit
  <2>1. Cardinality(edDisk) \in Nat /\ PrimaryLimit \in Nat
    BY <1>3, FS_CardinalityType, PartitionEditorAssumption DEF DiskSound
  <2> QED BY <1>2, <1>6, <2>1
<1>7. CASE /\ ~Blocked(op.from, to) /\ edDisk' = edDisk \cup {new} /\ OpDone(done)
           /\ UNCHANGED <<edTableType, edIrreversible>>
  <2>1. op \in Operation /\ op.kind = "create" BY <1>1, AtOperation DEF Running
  <2>2. new.part \in Nat BY <1>2 DEF Partition
  <2> HIDE DEF op, new
  <2>3. done \in Operation /\ SameOp(op, done) BY <2>1, <2>2 DEF Operation, SameOp
  <2> HIDE DEF done
  <2>4. SameOp(CurrentOp, done) BY <2>3 DEF op
  <2> QED BY <1>1, <1>2, <1>3, <1>7, <2>3, <2>4, OpDoneKeeps
<1>8. CASE /\ ~Blocked(op.from, to) /\ edFaults < MaxToolFaults
           /\ Fail("tool", edDisk \cup {new}, edTableType, spared, edIrreversible)
  <2>1. CauseExpected("tool") BY DEF CauseExpected
  <2> HIDE DEF new, spared, op
  <2> QED BY <1>2, <1>3, <1>8, <2>1, FailKeeps
<1> QED BY <1>4, <1>5, <1>6, <1>7, <1>8

\* So do ExecuteNewTable and NewTableHalfDone.
LEMMA TableKeeps ==
    ASSUME EditorInv, ExecuteNewTable \/ NewTableHalfDone
    PROVE  EditorInv'
<1> DEFINE op == CurrentOp
<1>1. Running("new_table") /\ edPos \in DOMAIN edRun /\ op.kind = "new_table"
  BY DEF ExecuteNewTable, NewTableHalfDone, Running
<1>2. /\ edPos = 1 /\ op.fs \in TableTypes /\ op \in Operation /\ op = edOps[edPos]
      /\ Accepted(edOps, op, Accounts[edPos - 1], Accounts[edPos])
  BY <1>1, AtOperation
<1>3. DiskSound({}) BY FS_EmptySet DEF DiskSound
<1>4. edIrreversible \in BOOLEAN BY DEF EditorInv, EditorTypes
<1>5. CASE ExecuteNewTable
  <2>1. /\ edTableType' = op.fs /\ OpDone(op) /\ UNCHANGED <<edIntact, edIrreversible>>
        /\ edDisk' = IF op.fs # "gpt" THEN {}
                     ELSE {[part |-> 1, from |-> BiosStart, to |-> BiosStart + BiosCreated,
                            fs |-> "bios_grub"]}
    BY <1>5 DEF ExecuteNewTable
  <2>2. TableAccepted(Accounts[edPos - 1], op, Accounts[edPos]) BY <1>1, <1>2 DEF Accepted
  <2>3. DiskSound(edDisk') /\ Match(Accounts[edPos], edDisk', op.fs, op.fs = "gpt")
    BY <1>2, <2>1, <2>2, MatchTable
  <2>4. NewGpt(edOps) <=> op.fs = "gpt" BY <1>1, <1>2 DEF NewGpt
  <2>5. Match(Accounts[edPos], edDisk', edTableType', NewGpt(edOps))
    BY <2>1, <2>3, <2>4 DEF Match
  <2>6. SameOp(CurrentOp, op) BY DEF SameOp
  <2> QED BY <1>1, <1>2, <1>4, <2>1, <2>3, <2>5, <2>6, OpDoneKeeps
<1>6. CASE NewTableHalfDone
  <2>1. edFaults < MaxToolFaults /\ Fail("tool", {}, "gpt", edIntact, edIrreversible)
    BY <1>6 DEF NewTableHalfDone
  <2>2. CauseExpected("tool") /\ "gpt" \in TableTypes BY DEF CauseExpected, TableTypes
  <2> QED BY <1>3, <1>4, <2>1, <2>2, FailKeeps
<1> QED BY <1>5, <1>6

\* A failure that changed nothing.
LEMMA FailHereKeeps ==
    ASSUME EditorInv, NEW cause, FailHere(cause), CauseExpected(cause),
           FaultOf(cause) = 1 => edFaults < MaxToolFaults
    PROVE  EditorInv'
<1>1. DiskSound(edDisk) /\ edTableType \in TableTypes /\ edIrreversible \in BOOLEAN
  BY DEF EditorInv, EditorTypes
<1> QED BY <1>1, FailKeeps DEF FailHere

\* The partition an edit finds, once changed.
LEMMA ChangedFacts ==
    ASSUME EditorInv, edPos \in DOMAIN edRun, CurrentOp.kind \in EditKinds
    PROVE  LET p == Found(CurrentOp.part) IN
           /\ p \in Partition /\ p.from \in Nat /\ p.to \in Nat /\ p.from < p.to
           /\ DiskSound(edDisk) /\ DiskSound(edDisk \ {p})
           /\ \A fs \in Text : /\ [p EXCEPT !.fs = fs] \in Partition
                               /\ [p EXCEPT !.fs = fs].part = p.part
                               /\ [p EXCEPT !.fs = fs].from = p.from
                               /\ [p EXCEPT !.fs = fs].to = p.to
                               /\ DiskSound((edDisk \ {p}) \cup {[p EXCEPT !.fs = fs]})
           /\ \A to \in Nat : /\ [p EXCEPT !.to = to] \in Partition
                              /\ [p EXCEPT !.to = to].part = p.part
                              /\ [p EXCEPT !.to = to].from = p.from
                              /\ [p EXCEPT !.to = to].to = to
                              /\ p.from < to /\ to <= p.to =>
                                    DiskSound((edDisk \ {p}) \cup {[p EXCEPT !.to = to]})
<1> DEFINE p == Found(CurrentOp.part)
<1>1. p \in edDisk BY EditTarget
<1>2. DiskSound(edDisk) BY DEF EditorInv, EditorTypes
<1> HIDE DEF p
<1>3. p \in Partition /\ p.from < p.to BY <1>1, <1>2 DEF DiskSound
<1>4. p.from \in Nat /\ p.to \in Nat BY <1>3 DEF Partition
<1>5. DiskSound(edDisk \ {p}) BY <1>1, <1>2, PartitionRemoved
<1>6. ASSUME NEW fs \in Text
      PROVE  /\ [p EXCEPT !.fs = fs] \in Partition
             /\ [p EXCEPT !.fs = fs].part = p.part
             /\ [p EXCEPT !.fs = fs].from = p.from
             /\ [p EXCEPT !.fs = fs].to = p.to
             /\ DiskSound((edDisk \ {p}) \cup {[p EXCEPT !.fs = fs]})
  <2> DEFINE q == [p EXCEPT !.fs = fs]
  <2>1. q \in Partition /\ q.part = p.part /\ q.from = p.from /\ q.to = p.to BY <1>3 DEF Partition
  <2>2. q.from < q.to /\ q.to <= p.to BY <1>3, <1>4, <2>1
  <2> HIDE DEF q
  <2>3. DiskSound((edDisk \ {p}) \cup {q}) BY <1>1, <1>2, <2>1, <2>2, PartitionChanged
  <2> QED BY <2>1, <2>3 DEF q
<1>7. ASSUME NEW to \in Nat
      PROVE  /\ [p EXCEPT !.to = to] \in Partition
             /\ [p EXCEPT !.to = to].part = p.part
             /\ [p EXCEPT !.to = to].from = p.from
             /\ [p EXCEPT !.to = to].to = to
             /\ p.from < to /\ to <= p.to => DiskSound((edDisk \ {p}) \cup {[p EXCEPT !.to = to]})
  <2> DEFINE q == [p EXCEPT !.to = to]
  <2>1. q \in Partition /\ q.part = p.part /\ q.from = p.from /\ q.to = to BY <1>3 DEF Partition
  <2> HIDE DEF q
  <2>2. p.from < to /\ to <= p.to => DiskSound((edDisk \ {p}) \cup {q})
    BY <1>1, <1>2, <2>1, PartitionChanged
  <2> QED BY <2>1, <2>2 DEF q
<1> QED BY <1>2, <1>3, <1>4, <1>5, <1>6, <1>7 DEF p

\* ExecuteDelete finds its partition.
LEMMA DeleteKeeps ==
    ASSUME EditorInv, ExecuteDelete
    PROVE  EditorInv'
<1> DEFINE op == CurrentOp
           p == Found(op.part)
<1>1. edPos \in DOMAIN edRun /\ op.kind = "delete" BY DEF ExecuteDelete, Running
<1>2. op.kind \in EditKinds /\ Counts(edOps, op) BY <1>1 DEF EditKinds, Counts
<1>3. /\ OnDisk(op.part) /\ p \in edDisk
      /\ EditAccepted(Accounts[edPos - 1], op, p, Accounts[edPos])
  BY <1>1, <1>2, EditTarget
<1>4. edDisk' = edDisk \ {p} /\ OpDone(op) /\ UNCHANGED <<edTableType, edIntact, edIrreversible>>
  BY <1>3 DEF ExecuteDelete
<1>5. DiskSound(edDisk) /\ edTableType \in TableTypes /\ edIrreversible \in BOOLEAN
  BY DEF EditorInv, EditorTypes
<1>6. CommitInv /\ op \in Operation BY <1>1, AtOperation
<1>7. Match(Accounts[edPos - 1], edDisk, edTableType, NewGpt(edOps)) BY <1>6 DEF CommitInv
<1> HIDE DEF p
<1>8. DiskSound(edDisk \ {p}) BY <1>3, <1>5, PartitionRemoved
<1>9. Match(Accounts[edPos], edDisk \ {p}, edTableType, NewGpt(edOps))
  BY <1>1, <1>3, <1>5, <1>7, MatchDelete
<1>10. SameOp(CurrentOp, op) BY DEF SameOp
<1> QED BY <1>1, <1>4, <1>5, <1>6, <1>8, <1>9, <1>10, OpDoneKeeps

\* ExecuteResize finds its partition, and leaves no overlap.
LEMMA ResizeKeeps ==
    ASSUME EditorInv, ExecuteResize
    PROVE  EditorInv'
<1> DEFINE op == CurrentOp
           p == Found(op.part)
           q == [p EXCEPT !.to = p.from + op.size]
           lost == [p EXCEPT !.fs = "lost"]
           spared == Spared(p.from, p.to)
<1>1. edPos \in DOMAIN edRun /\ op.kind = "resize" BY DEF ExecuteResize, Running
<1>2. op.kind \in EditKinds /\ Counts(edOps, op) BY <1>1 DEF EditKinds, Counts
<1>3. /\ OnDisk(op.part) /\ p \in edDisk
      /\ EditAccepted(Accounts[edPos - 1], op, p, Accounts[edPos])
  BY <1>1, <1>2, EditTarget
<1>4. \/ FailHere("filesystem")
      \/ /\ edDisk' = (edDisk \ {p}) \cup {q} /\ edIrreversible' = TRUE /\ OpDone(op)
         /\ UNCHANGED <<edTableType, edIntact>>
      \/ /\ edFaults < MaxToolFaults
         /\ Fail("tool", edDisk, edTableType, edIntact, TRUE)
      \/ /\ edFaults < MaxToolFaults
         /\ Fail("shrink", (edDisk \ {p}) \cup {lost}, edTableType, spared, edIrreversible)
  BY <1>3 DEF ExecuteResize
<1>5. DiskSound(edDisk) /\ edTableType \in TableTypes /\ edIrreversible \in BOOLEAN
  BY DEF EditorInv, EditorTypes
<1>6. CommitInv /\ op \in Operation /\ op.size \in Nat BY <1>1, AtOperation DEF Operation
<1>7. CauseExpected("tool") /\ CauseExpected("filesystem") /\ CauseExpected("shrink")
  BY DEF CauseExpected
<1>8. CASE FailHere("filesystem")
  <2>1. FaultOf("filesystem") # 1 BY DEF FaultOf
  <2> QED BY <1>7, <1>8, <2>1, FailHereKeeps
<1>9. CASE edFaults < MaxToolFaults /\ Fail("tool", edDisk, edTableType, edIntact, TRUE)
  BY <1>5, <1>7, <1>9, FailKeeps
<1>11. CASE /\ edFaults < MaxToolFaults
            /\ Fail("shrink", (edDisk \ {p}) \cup {lost}, edTableType, spared, edIrreversible)
  <2>1. "lost" \in Text BY DEF Text
  <2>2. DiskSound((edDisk \ {p}) \cup {lost}) BY <1>1, <1>2, <2>1, ChangedFacts
  <2> HIDE DEF p, lost, spared
  <2> QED BY <1>5, <1>7, <1>11, <2>2, FailKeeps
<1>10. CASE /\ edDisk' = (edDisk \ {p}) \cup {q} /\ edIrreversible' = TRUE /\ OpDone(op)
            /\ UNCHANGED <<edTableType, edIntact>>
  <2>1. Match(Accounts[edPos - 1], edDisk, edTableType, NewGpt(edOps)) BY <1>6 DEF CommitInv
  <2>2. p.from \in Nat /\ p.to \in Nat BY <1>1, <1>2, ChangedFacts
  <2> DEFINE to == p.from + op.size
  <2>3. to \in Nat BY <1>6, <2>2
  <2>4. /\ [p EXCEPT !.to = to] \in Partition /\ [p EXCEPT !.to = to].part = p.part
        /\ [p EXCEPT !.to = to].from = p.from /\ [p EXCEPT !.to = to].to = to
        /\ p.from < to /\ to <= p.to => DiskSound((edDisk \ {p}) \cup {[p EXCEPT !.to = to]})
    <3> HIDE DEF to
    <3> QED BY <1>1, <1>2, <2>3, ChangedFacts
  <2>5. q \in Partition /\ q.part = p.part /\ q.from = p.from /\ q.to = to BY <2>4
  <2>6. op.size > 0 /\ op.size <= p.to - p.from BY <1>1, <1>3 DEF EditAccepted
  <2>7. p.from < to /\ to <= p.to BY <1>6, <2>2, <2>6
  <2>8. DiskSound((edDisk \ {p}) \cup {q}) BY <2>4, <2>7
  <2>9. /\ Accounts[edPos].table = Accounts[edPos - 1].table
        /\ Accounts[edPos].primaries = Accounts[edPos - 1].primaries
        /\ Accounts[edPos].alloc = (Accounts[edPos - 1].alloc \ {p}) \cup {q}
    BY <1>1, <1>3 DEF EditAccepted
  <2>10. q.from < q.to /\ q.to <= p.to BY <2>5, <2>7
  <2> HIDE DEF p, q, to
  <2>11. Match(Accounts[edPos], (edDisk \ {p}) \cup {q}, edTableType, NewGpt(edOps))
    BY <1>3, <1>5, <2>1, <2>5, <2>9, <2>10, MatchChange
  <2>12. SameOp(CurrentOp, op) BY DEF SameOp
  <2> QED BY <1>1, <1>5, <1>6, <1>10, <2>8, <2>11, <2>12, OpDoneKeeps
<1> QED BY <1>4, <1>8, <1>9, <1>10, <1>11

\* ExecuteFormat finds its partition.
LEMMA FormatKeeps ==
    ASSUME EditorInv, ExecuteFormat
    PROVE  EditorInv'
<1> DEFINE op == CurrentOp
           p == Found(op.part)
           q == [p EXCEPT !.fs = op.fs]
           lost == [p EXCEPT !.fs = "lost"]
           spared == Spared(p.from, p.to)
           irreversible == edIrreversible \/ ~CreatedHere(op.part)
<1>1. edPos \in DOMAIN edRun /\ op.kind = "format" BY DEF ExecuteFormat, Running
<1>2. op.kind \in EditKinds /\ Counts(edOps, op) BY <1>1 DEF EditKinds, Counts
<1>3. /\ OnDisk(op.part) /\ p \in edDisk
      /\ EditAccepted(Accounts[edPos - 1], op, p, Accounts[edPos])
  BY <1>1, <1>2, EditTarget
<1>4. \/ /\ edDisk' = (edDisk \ {p}) \cup {q} /\ edIrreversible' = irreversible /\ OpDone(op)
         /\ UNCHANGED edTableType
      \/ /\ edFaults < MaxToolFaults
         /\ Fail("tool", (edDisk \ {p}) \cup {lost}, edTableType, spared, irreversible)
  BY <1>3 DEF ExecuteFormat, FormatFails
<1>5. DiskSound(edDisk) /\ edTableType \in TableTypes /\ irreversible \in BOOLEAN
  BY DEF EditorInv, EditorTypes
<1>6. CommitInv /\ op \in Operation /\ op.fs \in Text /\ "lost" \in Text
  BY <1>1, AtOperation DEF Operation, Text
<1>7. /\ q \in Partition /\ q.part = p.part /\ q.from = p.from /\ q.to = p.to
      /\ DiskSound((edDisk \ {p}) \cup {q}) /\ DiskSound((edDisk \ {p}) \cup {lost})
      /\ p.from \in Nat /\ p.to \in Nat /\ p.from < p.to
  BY <1>1, <1>2, <1>6, ChangedFacts
<1>8. CASE /\ edDisk' = (edDisk \ {p}) \cup {q} /\ edIrreversible' = irreversible /\ OpDone(op)
           /\ UNCHANGED edTableType
  <2>1. Match(Accounts[edPos - 1], edDisk, edTableType, NewGpt(edOps)) BY <1>6 DEF CommitInv
  <2>2. /\ Accounts[edPos].table = Accounts[edPos - 1].table
        /\ Accounts[edPos].primaries = Accounts[edPos - 1].primaries
        /\ Accounts[edPos].alloc = (Accounts[edPos - 1].alloc \ {p}) \cup {q}
    BY <1>1, <1>3 DEF EditAccepted
  <2>3. q.from < q.to /\ q.to <= p.to BY <1>7
  <2> HIDE DEF p, q, irreversible
  <2>4. Match(Accounts[edPos], (edDisk \ {p}) \cup {q}, edTableType, NewGpt(edOps))
    BY <1>3, <1>5, <1>7, <2>1, <2>2, <2>3, MatchChange
  <2>5. SameOp(CurrentOp, op) BY DEF SameOp
  <2> QED BY <1>1, <1>5, <1>6, <1>7, <1>8, <2>4, <2>5, OpDoneKeeps
<1>9. CASE /\ edFaults < MaxToolFaults
           /\ Fail("tool", (edDisk \ {p}) \cup {lost}, edTableType, spared, irreversible)
  <2>1. CauseExpected("tool") BY DEF CauseExpected
  <2> HIDE DEF p, lost, irreversible, spared
  <2> QED BY <1>5, <1>7, <1>9, <2>1, FailKeeps
<1> QED BY <1>4, <1>8, <1>9

\* ExecuteSetMountpoint finds its partition.
LEMMA SetMountpointKeeps ==
    ASSUME EditorInv, ExecuteSetMountpoint
    PROVE  EditorInv'
<1> DEFINE op == CurrentOp
<1>1. edPos \in DOMAIN edRun /\ op.kind = "set_mountpoint" BY DEF ExecuteSetMountpoint, Running
<1>2. op.kind \in EditKinds BY <1>1 DEF EditKinds
<1>3. /\ OnDisk(op.part)
      /\ Counts(edOps, op) =>
            EditAccepted(Accounts[edPos - 1], op, Found(op.part), Accounts[edPos])
  BY <1>1, <1>2, EditTarget
<1>4. OpDone(op) /\ UNCHANGED <<edDisk, edTableType, edIntact, edIrreversible>>
  BY <1>3 DEF ExecuteSetMountpoint
<1>5. DiskSound(edDisk) /\ edTableType \in TableTypes /\ edIrreversible \in BOOLEAN
  BY DEF EditorInv, EditorTypes
<1>6. /\ CommitInv /\ op \in Operation
      /\ Accepted(edOps, op, Accounts[edPos - 1], Accounts[edPos])
  BY <1>1, AtOperation
<1>7. Match(Accounts[edPos - 1], edDisk, edTableType, NewGpt(edOps)) BY <1>6 DEF CommitInv
<1>8. /\ Accounts[edPos].table = Accounts[edPos - 1].table
      /\ Accounts[edPos].primaries = Accounts[edPos - 1].primaries
      /\ Accounts[edPos].alloc = Accounts[edPos - 1].alloc
  <2>1. CASE Counts(edOps, op) BY <1>1, <1>3, <2>1 DEF EditAccepted
  <2>2. CASE ~Counts(edOps, op) BY <1>6, <2>2 DEF Accepted
  <2> QED BY <2>1, <2>2
<1>9. Match(Accounts[edPos], edDisk, edTableType, NewGpt(edOps)) BY <1>7, <1>8 DEF Match
<1>10. SameOp(CurrentOp, op) BY DEF SameOp
<1> QED BY <1>1, <1>4, <1>5, <1>6, <1>9, <1>10, OpDoneKeeps

\* The end of a commit, an event that cannot be written, and a crash.
LEMMA CommitEnds ==
    ASSUME EditorInv, CommitDone \/ EmitFails \/ EditorCrash
    PROVE  EditorInv'
<1>1. /\ edDisk' = edDisk /\ edTableType' = edTableType /\ edBackup' = edBackup /\ edRun' = edRun
      /\ edIrreversible' = edIrreversible /\ edPos' = 0
  BY DEF CommitDone, EmitFails, EditorCrash
<1>2. /\ edReply'.status \in {"ok", "aborted", "none"}
      /\ edReply'.cause = "" \/ edReply'.cause = "emit"
  <2>1. \/ edReply' = Reply("ok", "") \/ edReply' = Reply("aborted", "emit")
        \/ edReply' = Reply("none", "")
    BY DEF CommitDone, EmitFails, EditorCrash
  <2>2. \A s, c : Reply(s, c).status = s /\ Reply(s, c).cause = c BY DEF Reply
  <2>3. CASE edReply' = Reply("ok", "")
    <3>1. edReply'.status = "ok" /\ edReply'.cause = "" BY <2>2, <2>3, Zenon
    <3> QED BY <3>1, Zenon
  <2>4. CASE edReply' = Reply("aborted", "emit")
    <3>1. edReply'.status = "aborted" /\ edReply'.cause = "emit" BY <2>2, <2>4, Zenon
    <3> QED BY <3>1, Zenon
  <2>5. CASE edReply' = Reply("none", "")
    <3>1. edReply'.status = "none" /\ edReply'.cause = "" BY <2>2, <2>5, Zenon
    <3> QED BY <3>1, Zenon
  <2> QED BY <2>1, <2>3, <2>4, <2>5, Zenon
<1>3. JournalSound(<<>>) BY DEF JournalSound
<1>4. JournalSound(edOps')
  BY <1>3 DEF CommitDone, EmitFails, EditorCrash, EditorInv, EditorTypes, staged
<1>5. edActive' \in BOOLEAN /\ edCommitted' \in BOOLEAN
  BY DEF CommitDone, EmitFails, EditorCrash, EditorInv, EditorTypes, staged
<1>6. edFaults' \in 0..MaxToolFaults
  <2>1. MaxToolFaults \in Nat /\ edFaults \in 0..MaxToolFaults
    BY PartitionEditorAssumption DEF EditorInv, EditorTypes
  <2>2. edFaults' = edFaults \/ (edFaults < MaxToolFaults /\ edFaults' = edFaults + 1)
    BY DEF CommitDone, EmitFails, EditorCrash
  <2> QED BY <2>1, <2>2
<1>7. edPos' \in 0..(Len(edRun') + 1)
  <2>1. Len(edRun) \in Nat BY DEF EditorInv, EditorTypes, JournalSound
  <2> QED BY <1>1, <2>1
<1>8. EditorTypes' BY <1>1, <1>2, <1>4, <1>5, <1>6, <1>7 DEF EditorInv, EditorTypes
<1>9. ValidatedRuns'
  <2>1. CASE edReply'.cause = "" BY <2>1 DEF ValidatedRuns
  <2>2. CASE edReply'.cause = "emit" BY <2>2 DEF ValidatedRuns
  <2> QED BY <1>2, <2>1, <2>2
<1> QED BY <1>1, <1>8, <1>9 DEF EditorInv

\* Every step keeps the invariant.
LEMMA EditorStep ==
    ASSUME EditorInv, [EditorNext]_editorVars
    PROVE  EditorInv'
<1>1. CASE UNCHANGED editorVars
  BY <1>1 DEF editorVars, EditorInv, EditorTypes, CommitInv, Accounts, ValidatedRuns
<1>2. CASE ToolFails
  <2>1. edFaults < MaxToolFaults /\ FailHere("tool") /\ CauseExpected("tool")
    BY <1>2 DEF ToolFails, CauseExpected
  <2> QED BY <2>1, FailHereKeeps
<1>3. CASE EditorNext
  BY <1>2, <1>3, StagingSteps, CommitKeeps, TableKeeps, CreateKeeps, DeleteKeeps, ResizeKeeps,
     FormatKeeps, SetMountpointKeeps, CommitEnds
  DEF EditorNext, Staging
<1> QED BY <1>1, <1>3

\* The type invariant of the editor, for every disk and every set of requests:
\* no commit, failure, restore or crash leaves partitions that overlap or share
\* a number, and the identities of the operations stay distinct.
THEOREM EditorTypeCorrect == EditorSpec => []EditorTypeOK
<1>1. ASSUME EditorInv PROVE EditorTypeOK
  <2>1. EditorTypes BY <1>1 DEF EditorInv
  <2>2. \A p \in edDisk : p.part \in Nat \ {0} /\ p.from < p.to /\ p.to <= EditorEnd
    BY <2>1 DEF EditorTypes, DiskSound, Partition
  <2>3. ASSUME NEW p \in edDisk, NEW q \in edDisk
        PROVE  p = q \/ (p.part # q.part /\ ~Overlaps(p.from, p.to, q))
    <3>1. DiskSound(edDisk) BY <2>1 DEF EditorTypes
    <3>2. p = q \/ (p.part # q.part /\ (p.to <= q.from \/ q.to <= p.from)) BY <3>1 DEF DiskSound
    <3>3. p \in Partition /\ q \in Partition BY <3>1 DEF DiskSound
    <3>4. p.from \in Nat /\ p.to \in Nat /\ q.from \in Nat /\ q.to \in Nat BY <3>3 DEF Partition
    <3> QED BY <3>2, <3>4 DEF Overlaps
  <2>4. ASSUME NEW i \in DOMAIN edOps, NEW j \in DOMAIN edOps, edOps[i].index = edOps[j].index
        PROVE  i = j
    <3>1. JournalSound(edOps) BY <2>1 DEF EditorTypes
    <3>2. edOps \in Seq(Operation) BY <3>1 DEF JournalSound
    <3>3. i \in 1..Len(edOps) /\ j \in 1..Len(edOps) /\ Len(edOps) \in Nat BY <3>2
    <3>4. edOps[i] \in Operation BY <3>2, <3>3
    <3>5. edOps[i].index \in Nat BY <3>4 DEF Operation
    <3>6. ~(i < j) /\ ~(j < i) BY <2>4, <3>1, <3>3, <3>5 DEF JournalSound
    <3> QED BY <3>3, <3>6
  <2>5. edTableType \in {"gpt", "msdos"} BY <2>1 DEF EditorTypes, TableTypes
  <2> QED BY <2>1, <2>2, <2>3, <2>4, <2>5 DEF EditorTypes, EditorTypeOK
<1> QED BY <1>1, EditorStarts, EditorStep, PTL DEF EditorSpec

\* validate and execute_operation agree, whatever is staged, fails or is
\* committed again: a commit that passed validation never meets a missing
\* partition or a full msdos table, and never a region in use except the end of
\* the BIOS boot partition that validate does not reserve.
THEOREM ValidationHolds == EditorSpec => []ValidatedRuns
<1>1. EditorInv => ValidatedRuns BY DEF EditorInv
<1> QED BY <1>1, EditorStarts, EditorStep, PTL DEF EditorSpec

-----------------------------------------------------------------------------
(* The steps of a commit.                                                  *)

SparedByCreate(op) == IF op.fs = "linux-swap" THEN edIntact ELSE Spared(op.from, op.from + op.size)

\* Operation op is executed, as recorded.
Executed(op) ==
    /\ edPos \in DOMAIN edRun /\ op \in Operation /\ OpDone(op) /\ SameOp(CurrentOp, op)
    /\ op.kind = "new_table" =>
          /\ edDisk' = IF op.fs # "gpt" THEN {}
                       ELSE {[part |-> 1, from |-> BiosStart, to |-> BiosStart + BiosCreated,
                              fs |-> "bios_grub"]}
          /\ UNCHANGED <<edIntact, edIrreversible>>
    /\ op.kind = "create" =>
          /\ op.created /\ op.part = LowestFree /\ ~Blocked(op.from, op.from + op.size)
          /\ edDisk' = edDisk \cup {NewPartition(op)} /\ edIntact' = SparedByCreate(op)
          /\ UNCHANGED edIrreversible
    /\ op.kind = "delete" =>
          edDisk' = edDisk \ {Found(op.part)} /\ UNCHANGED <<edIntact, edIrreversible>>
    /\ op.kind = "resize" =>
          /\ edDisk' = (edDisk \ {Found(op.part)})
                           \cup {[Found(op.part) EXCEPT !.to = Found(op.part).from + op.size]}
          /\ edIrreversible' = TRUE
    /\ op.kind = "format" =>
          /\ edDisk' = (edDisk \ {Found(op.part)}) \cup {[Found(op.part) EXCEPT !.fs = op.fs]}
          /\ edIntact' = Spared(Found(op.part).from, Found(op.part).to)
          /\ edIrreversible' = (edIrreversible \/ ~CreatedHere(op.part))
    /\ op.kind = "set_mountpoint" => UNCHANGED <<edDisk, edIntact, edIrreversible>>

\* An operation fails with the disk, the data and the flag as it left them.
FailsWith(disk, intact, irreversible) ==
    /\ edPos \in DOMAIN edRun
    /\ \E cause, table : Fail(cause, disk, table, intact, irreversible)
    /\ \/ /\ disk = edDisk /\ intact = edIntact
          /\ irreversible = edIrreversible \/ irreversible = TRUE
       \/ /\ CurrentOp.kind = "new_table" /\ disk = {} /\ intact = edIntact
          /\ irreversible = edIrreversible
       \/ /\ CurrentOp.kind = "create"
          /\ ~Blocked(CurrentOp.from, CurrentOp.from + CurrentOp.size)
          /\ disk = edDisk \cup {NewPartition(CurrentOp)} /\ intact = SparedByCreate(CurrentOp)
          /\ irreversible = edIrreversible
       \/ /\ CurrentOp.kind = "format"
          /\ disk = (edDisk \ {Found(CurrentOp.part)}) \cup {[Found(CurrentOp.part) EXCEPT !.fs = "lost"]}
          /\ intact = Spared(Found(CurrentOp.part).from, Found(CurrentOp.part).to)
          /\ irreversible = (edIrreversible \/ ~CreatedHere(CurrentOp.part))
       \/ /\ CurrentOp.kind = "resize"
          /\ disk = (edDisk \ {Found(CurrentOp.part)}) \cup {[Found(CurrentOp.part) EXCEPT !.fs = "lost"]}
          /\ intact = Spared(Found(CurrentOp.part).from, Found(CurrentOp.part).to)
          /\ irreversible = edIrreversible /\ edReply'.cause = "shrink"

\* Every step stages, begins or ends a commit, executes an operation or fails.
LEMMA EditorSteps ==
    ASSUME EditorInv, EditorNext
    PROVE  \/ Staging \/ Commit \/ CommitDone \/ EmitFails \/ EditorCrash
           \/ \E op : Executed(op)
           \/ \E disk, intact, irreversible : FailsWith(disk, intact, irreversible)
<1> DEFINE op == CurrentOp
           Fails == \E disk, intact, irreversible : FailsWith(disk, intact, irreversible)
<1>1. ASSUME NEW cause, edPos \in DOMAIN edRun, FailHere(cause) PROVE Fails
  <2>1. FailsWith(edDisk, edIntact, edIrreversible) BY <1>1 DEF FailHere, FailsWith
  <2> QED BY <2>1
<1>2. ASSUME edPos \in DOMAIN edRun PROVE op \in Operation /\ SameOp(CurrentOp, op)
  BY <1>2, AtOperation DEF SameOp
<1>3. CASE ToolFails BY <1>1, <1>3 DEF ToolFails
<1>4. CASE ExecuteNewTable
  <2>1. edPos \in DOMAIN edRun /\ op.kind = "new_table" BY <1>4 DEF ExecuteNewTable, Running
  <2>2. Executed(op) BY <1>2, <1>4, <2>1 DEF ExecuteNewTable, Executed
  <2> QED BY <2>2
<1>5. CASE NewTableHalfDone
  <2>1. edPos \in DOMAIN edRun /\ op.kind = "new_table" BY <1>5 DEF NewTableHalfDone, Running
  <2>2. FailsWith({}, edIntact, edIrreversible) BY <1>5, <2>1 DEF NewTableHalfDone, FailsWith
  <2> QED BY <2>2
<1>6. CASE ExecuteCreate
  <2> DEFINE to == op.from + op.size
             new == NewPartition(op)
             spared == SparedByCreate(op)
             done == [op EXCEPT !.part = new.part, !.created = TRUE]
  <2>1. Running("create") /\ edPos \in DOMAIN edRun /\ op.kind = "create"
    BY <1>6 DEF ExecuteCreate, Running
  <2>2. \/ FailHere("overlap") \/ FailHere("limit")
        \/ /\ ~Blocked(op.from, to) /\ edDisk' = edDisk \cup {new} /\ edIntact' = spared
           /\ OpDone(done) /\ UNCHANGED edIrreversible
        \/ /\ ~Blocked(op.from, to)
           /\ Fail("tool", edDisk \cup {new}, edTableType, spared, edIrreversible)
    BY <1>6 DEF ExecuteCreate, NewPartition, SparedByCreate
  <2>3. CASE FailHere("overlap") \/ FailHere("limit") BY <1>1, <2>1, <2>3
  <2>4. CASE /\ ~Blocked(op.from, to) /\ edDisk' = edDisk \cup {new} /\ edIntact' = spared
             /\ OpDone(done) /\ UNCHANGED edIrreversible
    <3>1. op \in Operation BY <1>2, <2>1
    <3>2. new \in Partition /\ new.part = LowestFree BY <2>1, CreateFacts DEF NewPartition
    <3>3. new.part \in Nat BY <3>2 DEF Partition
    <3> HIDE DEF op
    <3>4. done \in Operation BY <3>1, <3>3 DEF Operation
    <3>5. /\ done.kind = "create" /\ done.part = new.part /\ done.created = TRUE
          /\ done.from = op.from /\ done.size = op.size /\ done.fs = op.fs
          /\ done.index = op.index /\ done.mp = op.mp
      BY <2>1, <3>1 DEF Operation
    <3> HIDE DEF done
    <3>6. SameOp(op, done) BY <2>1, <3>5 DEF SameOp
    <3>7. NewPartition(done) = new /\ SparedByCreate(done) = spared
      BY <3>5 DEF NewPartition, SparedByCreate
    <3>8. ~Blocked(done.from, done.from + done.size) BY <2>4, <3>5
    <3>9. Executed(done)
      BY <2>1, <2>4, <3>2, <3>4, <3>5, <3>6, <3>7, <3>8 DEF Executed, op
    <3> QED BY <3>9
  <2>5. CASE /\ ~Blocked(op.from, to)
             /\ Fail("tool", edDisk \cup {new}, edTableType, spared, edIrreversible)
    <3>1. FailsWith(edDisk \cup {new}, spared, edIrreversible) BY <2>1, <2>5 DEF FailsWith
    <3> QED BY <3>1
  <2> QED BY <2>2, <2>3, <2>4, <2>5
<1>7. CASE ExecuteDelete
  <2>1. edPos \in DOMAIN edRun /\ op.kind = "delete" BY <1>7 DEF ExecuteDelete, Running
  <2>2. \/ FailHere("missing")
        \/ /\ edDisk' = edDisk \ {Found(op.part)} /\ OpDone(op)
           /\ UNCHANGED <<edTableType, edIntact, edIrreversible>>
    BY <1>7 DEF ExecuteDelete
  <2>3. CASE FailHere("missing") BY <1>1, <2>1, <2>3
  <2>4. CASE /\ edDisk' = edDisk \ {Found(op.part)} /\ OpDone(op)
             /\ UNCHANGED <<edTableType, edIntact, edIrreversible>>
    <3>1. Executed(op) BY <1>2, <2>1, <2>4 DEF Executed
    <3> QED BY <3>1
  <2> QED BY <2>2, <2>3, <2>4
<1>8. CASE ExecuteResize
  <2> DEFINE p == Found(op.part)
             spared == Spared(p.from, p.to)
             lost == [p EXCEPT !.fs = "lost"]
  <2>1. edPos \in DOMAIN edRun /\ op.kind = "resize" BY <1>8 DEF ExecuteResize, Running
  <2>2. \/ FailHere("missing") \/ FailHere("filesystem")
        \/ /\ edDisk' = (edDisk \ {p}) \cup {[p EXCEPT !.to = p.from + op.size]}
           /\ edIrreversible' = TRUE /\ OpDone(op)
        \/ Fail("tool", edDisk, edTableType, edIntact, TRUE)
        \/ Fail("shrink", (edDisk \ {p}) \cup {lost}, edTableType, spared, edIrreversible)
    BY <1>8 DEF ExecuteResize
  <2>3. CASE FailHere("missing") \/ FailHere("filesystem") BY <1>1, <2>1, <2>3
  <2>4. CASE /\ edDisk' = (edDisk \ {p}) \cup {[p EXCEPT !.to = p.from + op.size]}
             /\ edIrreversible' = TRUE /\ OpDone(op)
    <3>1. Executed(op) BY <1>2, <2>1, <2>4 DEF Executed
    <3> QED BY <3>1
  <2>5. CASE Fail("tool", edDisk, edTableType, edIntact, TRUE)
    <3>1. FailsWith(edDisk, edIntact, TRUE) BY <2>1, <2>5 DEF FailsWith
    <3> QED BY <3>1
  <2>6. CASE Fail("shrink", (edDisk \ {p}) \cup {lost}, edTableType, spared, edIrreversible)
    <3>1. edReply'.cause = "shrink" BY <2>6 DEF Fail, Reply
    <3>2. FailsWith((edDisk \ {p}) \cup {lost}, spared, edIrreversible)
      BY <2>1, <2>6, <3>1 DEF FailsWith
    <3> QED BY <3>2
  <2> QED BY <2>2, <2>3, <2>4, <2>5, <2>6
<1>9. CASE ExecuteFormat
  <2> DEFINE p == Found(op.part)
             spared == Spared(p.from, p.to)
             irreversible == edIrreversible \/ ~CreatedHere(op.part)
             lost == [p EXCEPT !.fs = "lost"]
  <2>1. edPos \in DOMAIN edRun /\ op.kind = "format" BY <1>9 DEF ExecuteFormat, Running
  <2>0. OnDisk(op.part)
    <3>1. op.kind \in EditKinds BY <2>1 DEF EditKinds
    <3> QED BY <2>1, <3>1, EditTarget
  <2>2. \/ /\ edDisk' = (edDisk \ {p}) \cup {[p EXCEPT !.fs = op.fs]} /\ edIntact' = spared
           /\ edIrreversible' = irreversible /\ OpDone(op)
        \/ Fail("tool", (edDisk \ {p}) \cup {lost}, edTableType, spared, irreversible)
    BY <1>9, <2>0 DEF ExecuteFormat, FormatFails
  <2>3. CASE /\ edDisk' = (edDisk \ {p}) \cup {[p EXCEPT !.fs = op.fs]} /\ edIntact' = spared
             /\ edIrreversible' = irreversible /\ OpDone(op)
    <3>1. Executed(op) BY <1>2, <2>1, <2>3 DEF Executed
    <3> QED BY <3>1
  <2>4. CASE Fail("tool", (edDisk \ {p}) \cup {lost}, edTableType, spared, irreversible)
    <3>1. FailsWith((edDisk \ {p}) \cup {lost}, spared, irreversible) BY <2>1, <2>4 DEF FailsWith
    <3> QED BY <3>1
  <2> QED BY <2>2, <2>3, <2>4
<1>10. CASE ExecuteSetMountpoint
  <2>1. edPos \in DOMAIN edRun /\ op.kind = "set_mountpoint" BY <1>10 DEF ExecuteSetMountpoint, Running
  <2>2. \/ FailHere("missing")
        \/ OpDone(op) /\ UNCHANGED <<edDisk, edTableType, edIntact, edIrreversible>>
    BY <1>10 DEF ExecuteSetMountpoint
  <2>3. CASE FailHere("missing") BY <1>1, <2>1, <2>3
  <2>4. CASE OpDone(op) /\ UNCHANGED <<edDisk, edTableType, edIntact, edIrreversible>>
    <3>1. Executed(op) BY <1>2, <2>1, <2>4 DEF Executed
    <3> QED BY <3>1
  <2> QED BY <2>2, <2>3, <2>4
<1> QED BY <1>3, <1>4, <1>5, <1>6, <1>7, <1>8, <1>9, <1>10 DEF EditorNext, Staging

Has(disk, n) == \E p \in disk : p.part = n

\* What is known before and after an operation.
LEMMA ExecutedFacts ==
    ASSUME EditorInv, EditorInv', NEW op, Executed(op)
    PROVE  /\ edPos \in 1..Len(edOps) /\ Len(edRun) = Len(edOps) /\ Len(edRun) \in Nat
           /\ edPos' = edPos + 1 /\ edPos' - 1 = edPos /\ edPos' # 0 /\ edPos # 0
           /\ edRun'[edPos] = op /\ Len(edRun') = Len(edRun)
           /\ \A i \in 1..Len(edRun) : i # edPos => edRun'[i] = edRun[i]
           /\ JournalSound(edRun') /\ JournalSound(edOps) /\ JournalSound(edRun)
           /\ edOps' = edOps /\ edBackup' = edBackup /\ Accounts' = Accounts
           /\ edReply' = edReply /\ edReply.status = "none"
           /\ edCommitted' = edCommitted
           /\ Accounts[edPos - 1] \in Account /\ Accounts[edPos] \in Account
           /\ Accepted(edOps, edOps[edPos], Accounts[edPos - 1], Accounts[edPos])
           /\ op \in Operation /\ edOps[edPos] \in Operation /\ SameOp(edOps[edPos], op)
           /\ \A n \in Nat \ {0} : Key(Accounts[edPos - 1], n) => Has(edDisk, n)
           /\ op.kind = "new_table" => edPos = 1
<1>1. edPos \in DOMAIN edRun /\ op \in Operation /\ OpDone(op) /\ SameOp(CurrentOp, op)
  BY DEF Executed
<1>2. /\ edPos \in 1..Len(edOps) /\ edPos \in 1..Len(edRun) /\ CommitInv
      /\ CurrentOp = edOps[edPos] /\ CurrentOp \in Operation
      /\ Accounts[edPos - 1] \in Account /\ Accounts[edPos] \in Account
      /\ Accepted(edOps, CurrentOp, Accounts[edPos - 1], Accounts[edPos])
      /\ CurrentOp.kind = "new_table" => edPos = 1
  BY <1>1, AtOperation
<1>3. /\ edRun' = [edRun EXCEPT ![edPos] = op] /\ edPos' = edPos + 1
      /\ edOps' = edOps /\ edBackup' = edBackup /\ edReply' = edReply /\ edCommitted' = edCommitted
  BY <1>1 DEF OpDone, staged
<1>4. JournalSound(edRun') /\ JournalSound(edOps) /\ JournalSound(edRun)
  BY DEF EditorInv, EditorTypes
<1>5. edRun \in Seq(Operation) /\ Len(edRun) \in Nat BY <1>4 DEF JournalSound
<1>6. /\ edRun'[edPos] = op /\ Len(edRun') = Len(edRun)
      /\ \A i \in 1..Len(edRun) : i # edPos => edRun'[i] = edRun[i]
  <2>1. edRun' = [edRun EXCEPT ![edPos] = op] BY <1>3
  <2> QED BY <1>2, <1>5, <2>1
<1>7. edPos' - 1 = edPos /\ edPos' # 0 /\ edPos # 0
  <2>1. edPos' = edPos + 1 /\ edPos \in Nat \ {0} BY <1>2, <1>3, <1>5
  <2> QED BY <2>1
<1>8. Accounts' = Accounts BY <1>3 DEF Accounts
<1>9. edReply.status = "none" BY <1>2 DEF CommitInv, Reply
<1>10. Len(edRun) = Len(edOps) BY <1>2 DEF CommitInv
<1>11. ASSUME NEW n \in Nat \ {0}, Key(Accounts[edPos - 1], n) PROVE Has(edDisk, n)
  <2>1. PICK p \in Accounts[edPos - 1].alloc : p.part = n BY <1>11 DEF Key
  <2>2. p.part > 0 BY <2>1
  <2>3. p \in edDisk BY <1>2, <2>2 DEF CommitInv, Match
  <2> QED BY <2>1, <2>3 DEF Has
<1>12. op.kind = CurrentOp.kind BY <1>1 DEF SameOp
<1> QED BY <1>1, <1>2, <1>3, <1>4, <1>5, <1>6, <1>7, <1>8, <1>9, <1>10, <1>11, <1>12

\* Which partitions are there after an operation.
LEMMA ExecutedNumbers ==
    ASSUME EditorInv, EditorInv', NEW op, Executed(op)
    PROVE  /\ op.kind = "create" =>
                 /\ op.part \in Nat \ {0} /\ ~Has(edDisk, op.part)
                 /\ \A n : Has(edDisk', n) <=> Has(edDisk, n) \/ n = op.part
           /\ op.kind = "delete" => \A n : Has(edDisk', n) <=> Has(edDisk, n) /\ n # op.part
           /\ op.kind \in {"format", "resize", "set_mountpoint"} =>
                 \A n : Has(edDisk', n) <=> Has(edDisk, n)
           /\ op.kind \in EditKinds =>
                 /\ op.part \in Nat \ {0} /\ Has(edDisk, op.part) /\ Key(Accounts[edPos - 1], op.part)
                 /\ Found(op.part) \in edDisk /\ Found(op.part).part = op.part
                 /\ Found(op.part) \in Accounts[edPos - 1].alloc
                 /\ Counts(edOps, edOps[edPos]) =>
                       EditAccepted(Accounts[edPos - 1], op, Found(op.part), Accounts[edPos])
                 /\ op = edOps[edPos]
<1>1. edPos \in DOMAIN edRun /\ op \in Operation /\ SameOp(CurrentOp, op)
  BY DEF Executed
<1>2. CurrentOp = edOps[edPos] BY <1>1, AtOperation
<1>3. DiskSound(edDisk) BY DEF EditorInv, EditorTypes
<1>4. ASSUME op.kind \in EditKinds
      PROVE  /\ op.part \in Nat \ {0} /\ Has(edDisk, op.part) /\ Key(Accounts[edPos - 1], op.part)
             /\ Found(op.part) \in edDisk /\ Found(op.part).part = op.part
             /\ Found(op.part) \in Accounts[edPos - 1].alloc
             /\ Counts(edOps, edOps[edPos]) =>
                   EditAccepted(Accounts[edPos - 1], op, Found(op.part), Accounts[edPos])
             /\ op = edOps[edPos]
  <2>1. op.kind # "create" BY <1>4 DEF EditKinds
  <2>2. op = CurrentOp BY <1>1, <2>1 DEF SameOp
  <2>3. /\ Found(op.part) \in edDisk /\ Found(op.part).part = op.part
        /\ Found(op.part) \in Accounts[edPos - 1].alloc
        /\ Counts(edOps, op) => EditAccepted(Accounts[edPos - 1], op, Found(op.part), Accounts[edPos])
    BY <1>1, <1>4, <2>2, EditTarget
  <2>4. op.part \in Nat \ {0} BY <1>3, <2>3 DEF DiskSound, Partition
  <2> QED BY <1>2, <2>2, <2>3, <2>4 DEF Has, Key
<1>5. ASSUME op.kind = "create"
      PROVE  /\ op.part \in Nat \ {0} /\ ~Has(edDisk, op.part)
             /\ \A n : Has(edDisk', n) <=> Has(edDisk, n) \/ n = op.part
  <2>1. op.part = LowestFree /\ edDisk' = edDisk \cup {NewPartition(op)} BY <1>5 DEF Executed
  <2>2. LowestFree \in Nat \ {0} /\ ~OnDisk(LowestFree) BY <1>3, LowestIsFree
  <2>3. NewPartition(op).part = LowestFree BY DEF NewPartition
  <2> QED BY <2>1, <2>2, <2>3 DEF Has, OnDisk
<1>6. ASSUME op.kind = "delete"
      PROVE  \A n : Has(edDisk', n) <=> Has(edDisk, n) /\ n # op.part
  <2>1. edDisk' = edDisk \ {Found(op.part)} BY <1>6 DEF Executed
  <2>2. op.kind \in EditKinds BY <1>6 DEF EditKinds
  <2>3. Found(op.part) \in edDisk /\ Found(op.part).part = op.part BY <1>4, <2>2
  <2>4. \A q \in edDisk : q.part = op.part => q = Found(op.part) BY <1>3, <2>3 DEF DiskSound
  <2> QED BY <2>1, <2>3, <2>4 DEF Has
<1>7. ASSUME op.kind \in {"format", "resize", "set_mountpoint"}
      PROVE  \A n : Has(edDisk', n) <=> Has(edDisk, n)
  <2> DEFINE p == Found(op.part)
  <2>1. op.kind \in EditKinds BY <1>7 DEF EditKinds
  <2>2. p \in edDisk /\ p.part = op.part BY <1>4, <2>1
  <2>3. p \in Partition BY <1>3, <2>2 DEF DiskSound
  <2>4. [p EXCEPT !.fs = op.fs].part = p.part /\ [p EXCEPT !.to = p.from + op.size].part = p.part
    BY <2>3 DEF Partition
  <2>5. \/ edDisk' = edDisk
        \/ edDisk' = (edDisk \ {p}) \cup {[p EXCEPT !.fs = op.fs]}
        \/ edDisk' = (edDisk \ {p}) \cup {[p EXCEPT !.to = p.from + op.size]}
    BY <1>7 DEF Executed
  <2> HIDE DEF p
  <2>6. ASSUME NEW q, q.part = p.part, edDisk' = (edDisk \ {p}) \cup {q}
        PROVE  \A n : Has(edDisk', n) <=> Has(edDisk, n)
    BY <2>2, <2>6 DEF Has
  <2> QED BY <2>4, <2>5, <2>6
<1> QED BY <1>4, <1>5, <1>6, <1>7

-----------------------------------------------------------------------------
(* What a successful commit leaves to the installer.                       *)

Mounts == SUBSET (Nat \X Text)

\* One operation of the loop that collects the mount points.
LEMMA AssignTyped ==
    ASSUME NEW A \in Mounts, NEW op \in Operation
    PROVE  /\ Assign(A, op) \in Mounts
           /\ op.kind = "new_table" => Assign(A, op) = {}
           /\ op.kind \in {"create", "set_mountpoint"} =>
                 /\ op.mp = "" => Assign(A, op) = Without(A, op.part)
                 /\ op.mp # "" => Assign(A, op) = Without(A, op.part) \cup {<<op.part, op.mp>>}
           /\ op.kind = "delete" => Assign(A, op) = Without(A, op.part)
           /\ op.kind \in {"format", "resize"} => Assign(A, op) = A
<1>1. op.part \in Nat /\ op.mp \in Text /\ op.kind \in {"new_table", "create"} \cup EditKinds
  BY DEF Operation
<1>2. <<op.part, op.mp>> \in Nat \X Text BY <1>1
<1>3. Without(A, op.part) \subseteq A BY DEF Without
<1>4. CASE op.kind = "new_table" BY <1>4 DEF Assign, Mounts
<1>5. CASE op.kind \in {"create", "set_mountpoint"}
  <2>1. Assign(A, op) = Without(A, op.part) \cup (IF op.mp = "" THEN {} ELSE {<<op.part, op.mp>>})
    BY <1>5 DEF Assign, Without
  <2>2. CASE op.mp = "" BY <1>3, <1>5, <2>1, <2>2 DEF Mounts
  <2>3. CASE op.mp # "" BY <1>2, <1>3, <1>5, <2>1, <2>3 DEF Mounts
  <2> QED BY <2>2, <2>3
<1>6. CASE op.kind = "delete"
  <2>1. Assign(A, op) = Without(A, op.part) BY <1>6 DEF Assign, Without
  <2> QED BY <1>3, <1>6, <2>1 DEF Mounts
<1>7. CASE op.kind \in {"format", "resize"}
  <2>1. Assign(A, op) = A BY <1>7 DEF Assign
  <2> QED BY <1>7, <2>1
<1> QED BY <1>1, <1>4, <1>5, <1>6, <1>7 DEF EditKinds

\* The assignments satisfy their recursive definition, and are mounts.
LEMMA AssignedEquations ==
    ASSUME NEW ops, JournalSound(ops)
    PROVE  LET A == Assigned(ops)
           IN  /\ A[0] = {}
               /\ \A n \in 0..Len(ops) : A[n] \in Mounts
               /\ \A n \in 1..Len(ops) : A[n] = Assign(A[n - 1], ops[n])
<1> DEFINE N == Len(ops)
           step == [n \in 1 .. N |-> [m \in Mounts |-> Assign(m, ops[n])]]
<1>0. N \in Nat /\ \A n \in 1..N : ops[n] \in Operation BY DEF JournalSound
<1>1. \A n \in 1 .. N, m \in Mounts : Assign(m, ops[n]) \in Mounts BY <1>0, AssignTyped
<1> HIDE DEF N
<1>2. PICK g : Recursion(g, N, Mounts, {}, step)
  <2>1. step \in [1 .. N -> [Mounts -> Mounts]] BY <1>1
  <2>2. {} \in Mounts BY DEF Mounts
  <2> HIDE DEF step
  <2> QED BY <1>0, <2>1, <2>2, RecursionRuns
<1> DEFINE Def(m) == m = [n \in 0 .. N |-> IF n = 0 THEN {} ELSE Assign(m[n - 1], ops[n])]
           A == CHOOSE m : Def(m)
<1>3. Def(A)
  <2>1. ASSUME NEW n \in 1 .. N PROVE g[n] = Assign(g[n - 1], ops[n])
    <3>1. g[n - 1] \in Mounts BY <1>0, <1>2 DEF Recursion
    <3>2. step[n][g[n - 1]] = Assign(g[n - 1], ops[n]) BY <3>1
    <3> HIDE DEF step
    <3> QED BY <1>2, <3>2 DEF Recursion
  <2>2. g \in [0 .. N -> Mounts] /\ g[0] = {} BY <1>2 DEF Recursion
  <2>3. ASSUME NEW n \in 0 .. N
        PROVE  g[n] = IF n = 0 THEN {} ELSE Assign(g[n - 1], ops[n])
    <3>1. CASE n = 0 BY <2>2, <3>1
    <3>2. CASE n # 0
      <4>1. n \in 1 .. N BY <1>0, <3>2
      <4> QED BY <2>1, <3>2, <4>1
    <3> QED BY <3>1, <3>2
  <2>4. g = [n \in 0 .. N |-> g[n]] BY <2>2
  <2>5. Def(g) BY <2>3, <2>4
  <2> QED BY <2>5
<1>4. Assigned(ops) = A BY DEF Assigned, N
<1>5. A[0] = {} /\ \A n \in 1 .. N : A[n] = Assign(A[n - 1], ops[n])
  <2> HIDE DEF A
  <2>1. \A n \in 0 .. N : A[n] = IF n = 0 THEN {} ELSE Assign(A[n - 1], ops[n]) BY <1>3
  <2> HIDE DEF Def
  <2>2. 0 \in 0 .. N BY <1>0
  <2>3. A[0] = {} BY <2>1, <2>2
  <2>4. ASSUME NEW n \in 1 .. N PROVE A[n] = Assign(A[n - 1], ops[n])
    <3>1. n \in 0 .. N /\ n # 0 BY <1>0
    <3> QED BY <2>1, <3>1
  <2> QED BY <2>3, <2>4
<1> HIDE DEF A, Def, step
<1> DEFINE T == {n \in 0 .. N : A[n] \in Mounts}
<1>6. 0 \in T
  <2>1. {} \in Mounts BY DEF Mounts
  <2> QED BY <1>0, <1>5, <2>1
<1>7. ASSUME NEW n \in 0 .. N, n \in T, n < N PROVE n + 1 \in T
  <2>1. n + 1 \in 1..N /\ (n + 1) - 1 = n BY <1>0, <1>7
  <2>2. A[n + 1] = Assign(A[n], ops[n + 1]) BY <1>5, <2>1
  <2>3. A[n] \in Mounts BY <1>7
  <2> QED BY <1>1, <2>1, <2>2, <2>3
<1>8. \A n \in 0..N : n \in T
  <2> HIDE DEF T
  <2> QED BY <1>0, <1>6, <1>7, BoundedInduction
<1> QED BY <1>4, <1>5, <1>8 DEF N

\* The assignments of the operations executed so far do not depend on the rest.
LEMMA AssignedPrefix ==
    ASSUME NEW a, JournalSound(a), NEW b, JournalSound(b), NEW k \in Nat,
           k <= Len(a), k <= Len(b), \A i \in 1..k : a[i] = b[i]
    PROVE  Assigned(a)[k] = Assigned(b)[k]
<1> DEFINE T == {n \in 0..k : Assigned(a)[n] = Assigned(b)[n]}
<1>0. Len(a) \in Nat /\ Len(b) \in Nat BY DEF JournalSound
<1>1. /\ Assigned(a)[0] = {} /\ \A n \in 1..Len(a) : Assigned(a)[n] = Assign(Assigned(a)[n - 1], a[n])
      /\ Assigned(b)[0] = {} /\ \A n \in 1..Len(b) : Assigned(b)[n] = Assign(Assigned(b)[n - 1], b[n])
  BY AssignedEquations
<1>2. 0 \in T
  <2>1. 0 \in 0..k OBVIOUS
  <2>2. Assigned(a)[0] = Assigned(b)[0] BY <1>1
  <2> QED BY <2>1, <2>2
<1>3. ASSUME NEW n \in 0..k, n \in T, n < k PROVE n + 1 \in T
  <2>1. n + 1 \in 1..Len(a) /\ n + 1 \in 1..Len(b) /\ n + 1 \in 1..k /\ (n + 1) - 1 = n
        /\ n + 1 \in 0..k
    BY <1>0, <1>3
  <2>2. Assigned(a)[n] = Assigned(b)[n] BY <1>3
  <2>3. /\ Assigned(a)[n + 1] = Assign(Assigned(a)[n], a[n + 1])
        /\ Assigned(b)[n + 1] = Assign(Assigned(b)[n], b[n + 1])
    BY <1>1, <2>1
  <2>4. a[n + 1] = b[n + 1] BY <2>1
  <2> QED BY <2>1, <2>2, <2>3, <2>4
<1>4. \A n \in 0..k : n \in T
  <2> HIDE DEF T
  <2> QED BY <1>2, <1>3, BoundedInduction
<1>5. k \in T BY <1>4
<1> QED BY <1>5

\* A later assignment replaces the one of partition n.
Overridden(ops, n, k) ==
    \E j \in (k + 1)..Len(ops) : ops[j].kind = "set_mountpoint" /\ ops[j].part = n

\* The partition a key of the map stands for once k operations are executed.
Stands(run, n, key, k) ==
    \/ key > 0 /\ n = key
    \/ \E i \in 1..k : run[i].kind = "create" /\ key = NewKey(run[i].index) /\ n = run[i].part

\* A partition this commit created is on the disk, under a number that is not
\* one of the map's.
CreatesStay(run, disk, acc, k) ==
    \A i \in 1..k : run[i].kind = "create" => /\ run[i].part # 0 /\ Has(disk, run[i].part)
                                              /\ ~Key(acc, run[i].part)

\* The mount points validate keeps, M, and the ones the journal assigns, A.
MountsMatch(ops, run, disk, A, M, k) ==
    /\ \A m \in A : Has(disk, m[1])
    /\ \A m, n \in A : m[1] = n[1] => m = n
    /\ \A m \in A : \/ Overridden(ops, m[1], k)
                    \/ \E n \in M : n[2] = m[2] /\ Stands(run, m[1], n[1], k)
    /\ \A n \in M : \E m \in A : m[2] = n[2] /\ Stands(run, m[1], n[1], k)
    /\ \A n \in M : n[1] > 0 => ~Overridden(ops, n[1], k)
    /\ \A m, n \in M : m[2] = n[2] => m = n

\* What CommitProjects promises, of the journal as it was executed.
Projects(run, disk, root) ==
    /\ Has(disk, root)
    /\ \A m \in Assignments(run) : Has(disk, m[1])
    /\ \A m, n \in Assignments(run) : m[2] = n[2] => m = n

MountInv ==
    /\ edPos # 0 =>
          /\ CreatesStay(edRun, edDisk, Accounts[edPos - 1], edPos - 1)
          /\ MountsMatch(edOps, edRun, edDisk, Assigned(edRun)[edPos - 1], Accounts[edPos - 1].mounts,
                         edPos - 1)
          /\ \E n \in Accounts[Len(edOps)].mounts : n[2] = "/"
    /\ edReply.status = "ok" /\ edPos = 0 /\ edCommitted => Projects(edRun, edDisk, edRoot)

\* Edits only touch partitions of the map, so what was created stays.
LEMMA CreatesStayStep ==
    ASSUME EditorInv, EditorInv', MountInv, NEW op, Executed(op)
    PROVE  CreatesStay(edRun', edDisk', Accounts[edPos], edPos)
<1> DEFINE acc == Accounts[edPos - 1]
           next == Accounts[edPos]
<1>1. /\ edPos \in 1..Len(edOps) /\ Len(edRun) = Len(edOps) /\ edPos # 0
      /\ Len(edRun) \in Nat /\ edRun'[edPos] = op
      /\ \A i \in 1..Len(edRun) : i # edPos => edRun'[i] = edRun[i]
      /\ acc \in Account /\ next \in Account /\ Accepted(edOps, edOps[edPos], acc, next)
      /\ op \in Operation /\ edOps[edPos] \in Operation /\ SameOp(edOps[edPos], op)
      /\ op.kind = "new_table" => edPos = 1
  BY ExecutedFacts
<1>2. CreatesStay(edRun, edDisk, acc, edPos - 1) BY <1>1 DEF MountInv
<1>3. \A n \in Nat \ {0} : Key(next, n) => Key(acc, n) BY <1>1, KeysGo
<1>4. \A n \in Nat \ {0} : Key(acc, n) => Has(edDisk, n) BY ExecutedFacts
<1> HIDE DEF acc, next
<1> SUFFICES ASSUME NEW i \in 1..edPos, edRun'[i].kind = "create"
             PROVE  /\ edRun'[i].part # 0 /\ Has(edDisk', edRun'[i].part)
                    /\ ~Key(next, edRun'[i].part)
  BY DEF CreatesStay, next
<1>5. CASE i = edPos
  <2>1. /\ op.part \in Nat \ {0} /\ ~Has(edDisk, op.part) /\ Has(edDisk', op.part)
    BY <1>1, <1>5, ExecutedNumbers
  <2> QED BY <1>1, <1>3, <1>4, <1>5, <2>1
<1>6. CASE i # edPos
  <2>1. i \in 1..(edPos - 1) /\ i \in 1..Len(edRun) BY <1>1, <1>6
  <2>2. edRun'[i] = edRun[i] BY <1>1, <1>6, <2>1
  <2> DEFINE n == edRun[i].part
  <2>3. n # 0 /\ Has(edDisk, n) /\ ~Key(acc, n) BY <1>2, <2>1, <2>2 DEF CreatesStay
  <2>4. n \in Nat \ {0}
    <3>1. edRun[i] \in Operation BY <2>1 DEF EditorInv, EditorTypes, JournalSound
    <3> QED BY <2>3, <3>1 DEF Operation
  <2>5. op.kind \in {"new_table", "create"} \cup EditKinds BY <1>1 DEF Operation
  <2>6. op.kind # "new_table" BY <1>1, <2>1
  <2>7. op.kind = "delete" => op.part # n
    <3>1. op.kind = "delete" => op.kind \in EditKinds BY DEF EditKinds
    <3> QED BY <2>3, <3>1, ExecutedNumbers DEF acc
  <2>8. Has(edDisk', n)
    BY <2>3, <2>5, <2>6, <2>7, ExecutedNumbers DEF EditKinds
  <2> QED BY <1>3, <2>2, <2>3, <2>4, <2>8
<1> QED BY <1>5, <1>6

\* The assignment validate looks at is the one no later one replaces.
LEMMA CountsIsLast ==
    ASSUME NEW ops, JournalSound(ops), NEW k \in 1..Len(ops), ops[k].kind = "set_mountpoint"
    PROVE  Counts(ops, ops[k]) <=> ~Overridden(ops, ops[k].part, k)
<1>1. /\ ops \in Seq(Operation) /\ Len(ops) \in Nat /\ DOMAIN ops = 1..Len(ops)
      /\ \A i \in 1..Len(ops) : ops[i] \in Operation
  BY DEF JournalSound
<1>2. \A i \in 1..Len(ops) : ops[i].index \in Nat BY <1>1 DEF Operation
<1>3. \A i, j \in 1..Len(ops) : i < j => ops[i].index < ops[j].index BY DEF JournalSound
<1>4. ASSUME Counts(ops, ops[k]), Overridden(ops, ops[k].part, k) PROVE FALSE
  <2>1. PICK j \in (k + 1)..Len(ops) : ops[j].kind = "set_mountpoint" /\ ops[j].part = ops[k].part
    BY <1>4 DEF Overridden
  <2>2. j \in 1..Len(ops) /\ k < j BY <1>1
  <2>3. ops[j].index <= ops[k].index BY <1>1, <1>4, <2>1, <2>2 DEF Counts, LastMountpoint
  <2> QED BY <1>2, <1>3, <2>2, <2>3
<1>5. ASSUME ~Counts(ops, ops[k]) PROVE Overridden(ops, ops[k].part, k)
  <2>1. PICK i \in 1..Len(ops) : /\ ops[i].kind = "set_mountpoint" /\ ops[i].part = ops[k].part
                                 /\ ~(ops[i].index <= ops[k].index)
    BY <1>1, <1>5 DEF Counts, LastMountpoint
  <2>2. k < i
    <3>1. ~(i < k) BY <1>2, <1>3, <2>1
    <3>2. i # k BY <1>2, <2>1
    <3> QED BY <1>1, <3>1, <3>2
  <2>3. i \in (k + 1)..Len(ops) BY <1>1, <2>2
  <2> QED BY <2>1, <2>3 DEF Overridden
<1> QED BY <1>4, <1>5

\* Both loops treat one more operation alike.
LEMMA MountsMatchStep ==
    ASSUME EditorInv, EditorInv', MountInv, NEW op, Executed(op)
    PROVE  MountsMatch(edOps, edRun', edDisk', Assigned(edRun')[edPos], Accounts[edPos].mounts, edPos)
<1> DEFINE acc == Accounts[edPos - 1]
           next == Accounts[edPos]
           k == edPos - 1
           A == Assigned(edRun)[k]
           B == Assigned(edRun')[edPos]
           M == acc.mounts
           N == next.mounts
<1>1. /\ edPos \in 1..Len(edOps) /\ Len(edRun) = Len(edOps) /\ edPos # 0
      /\ Len(edRun) \in Nat /\ Len(edRun') = Len(edRun) /\ edRun'[edPos] = op
      /\ \A i \in 1..Len(edRun) : i # edPos => edRun'[i] = edRun[i]
      /\ JournalSound(edRun') /\ JournalSound(edRun) /\ JournalSound(edOps)
      /\ acc \in Account /\ next \in Account /\ Accepted(edOps, edOps[edPos], acc, next)
      /\ op \in Operation /\ edOps[edPos] \in Operation /\ SameOp(edOps[edPos], op)
      /\ op.kind = "new_table" => edPos = 1
  BY ExecutedFacts
<1>2. k \in Nat /\ k + 1 = edPos /\ k <= Len(edRun) /\ edPos \in 1..Len(edRun) BY <1>1
<1>3. B = Assign(A, op) /\ A \in Mounts
  <2>1. \A i \in 1..k : edRun'[i] = edRun[i] BY <1>1, <1>2
  <2>2. Assigned(edRun')[k] = A BY <1>1, <1>2, <2>1, AssignedPrefix
  <2>3. /\ \A n \in 0..Len(edRun) : Assigned(edRun)[n] \in Mounts
        /\ \A n \in 1..Len(edRun') : Assigned(edRun')[n] = Assign(Assigned(edRun')[n - 1], edRun'[n])
    BY <1>1, AssignedEquations
  <2>4. k \in 0..Len(edRun) /\ edPos \in 1..Len(edRun') /\ edPos - 1 = k BY <1>1, <1>2
  <2> QED BY <1>1, <2>2, <2>3, <2>4
<1>4. MountsMatch(edOps, edRun, edDisk, A, M, k) BY <1>1 DEF MountInv
<1>5. CreatesStay(edRun, edDisk, acc, k) BY <1>1 DEF MountInv
<1>6. /\ op.kind = edOps[edPos].kind /\ op.mp = edOps[edPos].mp /\ op.index = edOps[edPos].index
      /\ op.kind # "create" => op = edOps[edPos]
  BY <1>1 DEF SameOp
<1>7. /\ op.kind \in {"new_table", "create"} \cup EditKinds /\ op.index \in Nat /\ op.part \in Nat
  BY <1>1 DEF Operation
<1> HIDE DEF acc, next, k, A, B
<1>8. ASSUME NEW n, NEW key, Stands(edRun, n, key, k) PROVE Stands(edRun', n, key, edPos)
  <2>1. CASE key > 0 /\ n = key BY <2>1 DEF Stands
  <2>2. CASE \E i \in 1..k : edRun[i].kind = "create" /\ key = NewKey(edRun[i].index) /\ n = edRun[i].part
    <3>1. PICK i \in 1..k : edRun[i].kind = "create" /\ key = NewKey(edRun[i].index) /\ n = edRun[i].part
      BY <2>2
    <3>2. i \in 1..Len(edRun) /\ i # edPos /\ i \in 1..edPos BY <1>1, <1>2
    <3>3. edRun'[i] = edRun[i] BY <1>1, <3>2
    <3> QED BY <3>1, <3>2, <3>3 DEF Stands
  <2> QED BY <1>8, <2>1, <2>2 DEF Stands
<1>9. ASSUME NEW n, NEW key, Stands(edRun, n, key, k), NEW x \in Nat \ {0}, Key(acc, x)
      PROVE  n = x <=> key = x
  <2>1. CASE key > 0 /\ n = key BY <2>1
  <2>2. CASE \E i \in 1..k : edRun[i].kind = "create" /\ key = NewKey(edRun[i].index) /\ n = edRun[i].part
    <3>1. PICK i \in 1..k : edRun[i].kind = "create" /\ key = NewKey(edRun[i].index) /\ n = edRun[i].part
      BY <2>2
    <3>2. ~Key(acc, n) BY <1>5, <3>1 DEF CreatesStay
    <3>3. i \in 1..Len(edRun) BY <1>1, <1>2
    <3>4. edRun[i] \in Operation BY <1>1, <3>3 DEF JournalSound
    <3>5. edRun[i].index \in Nat BY <3>4 DEF Operation
    <3>6. key < 0 /\ key \in Int BY <3>1, <3>5 DEF NewKey
    <3>7. key # x BY <3>6
    <3> QED BY <1>9, <3>2, <3>7
  <2> QED BY <1>9, <2>1, <2>2 DEF Stands
<1>10. ASSUME NEW n
       PROVE  /\ Overridden(edOps, n, edPos) => Overridden(edOps, n, k)
              /\ Overridden(edOps, n, k) =>
                    Overridden(edOps, n, edPos) \/ (op.kind = "set_mountpoint" /\ op.part = n)
  <2>1. (k + 1)..Len(edOps) = {edPos} \cup ((edPos + 1)..Len(edOps)) BY <1>1, <1>2
  <2>2. edOps[edPos].kind = "set_mountpoint" => op = edOps[edPos] BY <1>6
  <2> QED BY <2>1, <2>2 DEF Overridden
<1>11. /\ \A m \in A : Has(edDisk, m[1])
       /\ \A m, n \in A : m[1] = n[1] => m = n
       /\ \A m \in A : \/ Overridden(edOps, m[1], k)
                       \/ \E n \in M : n[2] = m[2] /\ Stands(edRun, m[1], n[1], k)
       /\ \A n \in M : \E m \in A : m[2] = n[2] /\ Stands(edRun, m[1], n[1], k)
       /\ \A n \in M : n[1] > 0 => ~Overridden(edOps, n[1], k)
       /\ \A m, n \in M : m[2] = n[2] => m = n
  BY <1>4 DEF MountsMatch
<1> HIDE DEF M, N
<1> SUFFICES MountsMatch(edOps, edRun', edDisk', B, N, edPos) BY DEF B, N, next
<1>12. CASE op.kind = "new_table"
  <2>1. B = {} BY <1>1, <1>3, <1>12, AssignTyped
  <2>2. N = {} BY <1>1, <1>6, <1>12 DEF N, Accepted, TableAccepted
  <2> QED BY <2>1, <2>2 DEF MountsMatch
<1>13. CASE op.kind = "create"
  <2>1. /\ op.part \in Nat \ {0} /\ ~Has(edDisk, op.part)
        /\ \A n : Has(edDisk', n) <=> Has(edDisk, n) \/ n = op.part
    BY <1>13, ExecutedNumbers
  <2>2. Without(A, op.part) = A BY <1>11, <2>1 DEF Without
  <2>3. CreateAccepted(acc, edOps[edPos], next) BY <1>1, <1>6, <1>13 DEF Accepted
  <2> DEFINE key == NewKey(op.index)
  <2>4. key \in Int /\ ~(key > 0) BY <1>7 DEF NewKey
  <2>5. Stands(edRun', op.part, key, edPos)
    <3>1. edPos \in 1..edPos BY <1>1
    <3> QED BY <1>1, <1>13, <3>1 DEF Stands
  <2> HIDE DEF key
  <2>6. CASE op.mp = ""
    <3>1. B = A BY <1>1, <1>3, <1>13, <2>2, <2>6, AssignTyped
    <3>2. N = M BY <1>6, <2>3, <2>6 DEF N, M, CreateAccepted
    <3> QED BY <1>8, <1>10, <1>11, <1>13, <2>1, <3>1, <3>2 DEF MountsMatch
  <2>7. CASE op.mp # ""
    <3> DEFINE a == <<op.part, op.mp>>
               b == <<key, op.mp>>
    <3>1. B = A \cup {a} BY <1>1, <1>3, <1>13, <2>2, <2>7, AssignTyped
    <3>2. N = M \cup {b} /\ \A m \in M : m[2] # op.mp
      BY <1>6, <2>3, <2>7 DEF N, M, CreateAccepted, key
    <3>3. a[1] = op.part /\ a[2] = op.mp /\ b[1] = key /\ b[2] = op.mp OBVIOUS
    <3> HIDE DEF a, b
    <3>4. \A m \in B : Has(edDisk', m[1]) BY <1>11, <2>1, <3>1, <3>3
    <3>5. \A m, n \in B : m[1] = n[1] => m = n BY <1>11, <2>1, <3>1, <3>3
    <3>6. \A m \in B : \/ Overridden(edOps, m[1], edPos)
                       \/ \E n \in N : n[2] = m[2] /\ Stands(edRun', m[1], n[1], edPos)
      BY <1>8, <1>10, <1>11, <1>13, <2>5, <3>1, <3>2, <3>3
    <3>7. \A n \in N : \E m \in B : m[2] = n[2] /\ Stands(edRun', m[1], n[1], edPos)
      BY <1>8, <1>11, <2>5, <3>1, <3>2, <3>3
    <3>8. \A n \in N : n[1] > 0 => ~Overridden(edOps, n[1], edPos)
      BY <1>10, <1>11, <2>4, <3>2, <3>3
    <3>9. \A m, n \in N : m[2] = n[2] => m = n BY <1>11, <3>2, <3>3
    <3> QED BY <3>4, <3>5, <3>6, <3>7, <3>8, <3>9 DEF MountsMatch
  <2> QED BY <2>6, <2>7
<1>14. CASE op.kind \in {"format", "resize"}
  <2>1. op.kind \in EditKinds /\ Counts(edOps, edOps[edPos])
    BY <1>6, <1>14 DEF EditKinds, Counts
  <2>2. \A n : Has(edDisk', n) <=> Has(edDisk, n) BY <1>14, ExecutedNumbers
  <2>3. EditAccepted(acc, op, Found(op.part), next) BY <2>1, ExecutedNumbers DEF acc, next
  <2>4. B = A /\ N = M BY <1>1, <1>3, <1>14, <2>3, AssignTyped DEF EditAccepted, N, M
  <2>5. op.kind # "set_mountpoint" BY <1>14
  <2> QED BY <1>8, <1>10, <1>11, <2>2, <2>4, <2>5 DEF MountsMatch
<1>15. CASE op.kind \in {"delete", "set_mountpoint"}
  <2>1. op.kind \in EditKinds BY <1>15 DEF EditKinds
  <2>2. op.part \in Nat \ {0} /\ Has(edDisk, op.part) /\ Key(acc, op.part)
        /\ (Counts(edOps, edOps[edPos]) => EditAccepted(acc, op, Found(op.part), next))
        /\ op = edOps[edPos]
    BY <2>1, ExecutedNumbers DEF acc, next
  <2> DEFINE A1 == Without(A, op.part)
             M1 == Without(M, op.part)
  <2>3. /\ \A m : m \in A1 <=> m \in A /\ m[1] # op.part
        /\ \A m : m \in M1 <=> m \in M /\ m[1] # op.part
    BY DEF Without
  <2> HIDE DEF A1, M1
  <2>4. \A m \in A1 : \/ Overridden(edOps, m[1], edPos)
                      \/ \E n \in M1 : n[2] = m[2] /\ Stands(edRun', m[1], n[1], edPos)
    BY <1>8, <1>9, <1>10, <1>11, <2>2, <2>3
  <2>5. \A n \in M1 : \E m \in A1 : m[2] = n[2] /\ Stands(edRun', m[1], n[1], edPos)
    BY <1>8, <1>9, <1>11, <2>2, <2>3
  <2>6. CASE op.kind = "delete"
    <3>1. Counts(edOps, edOps[edPos]) BY <1>6, <2>6 DEF Counts
    <3>2. B = A1 /\ N = M1
      BY <1>1, <1>3, <2>2, <2>6, <3>1, AssignTyped DEF EditAccepted, N, M, A1, M1
    <3>3. \A n : Has(edDisk', n) <=> Has(edDisk, n) /\ n # op.part BY <2>6, ExecutedNumbers
    <3> QED BY <1>10, <1>11, <2>3, <2>4, <2>5, <3>2, <3>3 DEF MountsMatch
  <2>7. CASE op.kind = "set_mountpoint"
    <3>1. \A n : Has(edDisk', n) <=> Has(edDisk, n) BY <2>7, ExecutedNumbers
    <3>2. /\ op.mp = "" => B = A1
          /\ op.mp # "" => B = A1 \cup {<<op.part, op.mp>>}
      BY <1>1, <1>3, <2>7, AssignTyped DEF A1
    <3>3. Counts(edOps, op) <=> ~Overridden(edOps, op.part, edPos)
      BY <1>1, <2>2, <2>7, CountsIsLast
    <3> DEFINE a == <<op.part, op.mp>>
    <3>4. a[1] = op.part /\ a[2] = op.mp OBVIOUS
    <3>5. Stands(edRun', op.part, op.part, edPos) /\ op.part > 0 BY <2>2 DEF Stands
    <3> HIDE DEF a
    <3>6. B = A1 \/ B = A1 \cup {a} BY <3>2 DEF a
    <3>7. \A m \in B : Has(edDisk', m[1]) BY <1>11, <2>2, <2>3, <3>1, <3>4, <3>6
    <3>8. \A m, n \in B : m[1] = n[1] => m = n BY <1>11, <2>3, <3>4, <3>6
    <3>9. CASE ~Counts(edOps, op)
      <4>1. N = M BY <1>1, <2>2, <3>9 DEF Accepted, N, M
      <4>2. Overridden(edOps, op.part, edPos) /\ Overridden(edOps, op.part, k) BY <1>10, <3>3, <3>9
      <4>3. \A n \in M : n[1] # op.part BY <1>11, <3>5, <4>2
      <4>4. N = M1 BY <2>3, <4>1, <4>3
      <4>5. \A m \in B : \/ Overridden(edOps, m[1], edPos)
                         \/ \E n \in N : n[2] = m[2] /\ Stands(edRun', m[1], n[1], edPos)
        BY <2>4, <3>4, <3>6, <4>2, <4>4
      <4>6. \A n \in N : \E m \in B : m[2] = n[2] /\ Stands(edRun', m[1], n[1], edPos)
        BY <2>5, <3>6, <4>4
      <4>7. \A n \in N : n[1] > 0 => ~Overridden(edOps, n[1], edPos) BY <1>10, <1>11, <4>1
      <4>8. \A m, n \in N : m[2] = n[2] => m = n BY <1>11, <4>1
      <4> QED BY <3>7, <3>8, <4>5, <4>6, <4>7, <4>8 DEF MountsMatch
    <3>10. CASE Counts(edOps, op)
      <4>1. EditAccepted(acc, op, Found(op.part), next) BY <2>2, <3>10
      <4>2. /\ op.mp = "" => N = M1
            /\ op.mp # "" => N = M1 \cup {a} /\ \A m \in M1 : m[2] # op.mp
        BY <2>7, <4>1 DEF EditAccepted, N, M, M1, a
      <4>3. ~Overridden(edOps, op.part, edPos) BY <3>3, <3>10
      <4>4. \/ B = A1 /\ N = M1
            \/ B = A1 \cup {a} /\ N = M1 \cup {a} /\ \A m \in M1 : m[2] # op.mp
        BY <3>2, <4>2 DEF a
      <4>5. \A m \in B : \/ Overridden(edOps, m[1], edPos)
                         \/ \E n \in N : n[2] = m[2] /\ Stands(edRun', m[1], n[1], edPos)
        BY <2>4, <3>4, <3>5, <4>4
      <4>6. \A n \in N : \E m \in B : m[2] = n[2] /\ Stands(edRun', m[1], n[1], edPos)
        BY <2>5, <3>4, <3>5, <4>4
      <4>7. \A n \in N : n[1] > 0 => ~Overridden(edOps, n[1], edPos)
        BY <1>10, <1>11, <2>3, <3>4, <4>3, <4>4
      <4>8. \A m, n \in N : m[2] = n[2] => m = n BY <1>11, <2>3, <3>4, <4>4
      <4> QED BY <3>7, <3>8, <4>5, <4>6, <4>7, <4>8 DEF MountsMatch
    <3> QED BY <3>9, <3>10
  <2> QED BY <1>15, <2>6, <2>7
<1> QED BY <1>7, <1>12, <1>13, <1>14, <1>15 DEF EditKinds

\* A key stands for one partition.
LEMMA StandsOnce ==
    ASSUME NEW run, JournalSound(run), NEW k \in 0..Len(run), NEW key \in Int, NEW a, NEW b,
           Stands(run, a, key, k), Stands(run, b, key, k)
    PROVE  a = b
<1>1. Len(run) \in Nat /\ \A i \in 1..Len(run) : run[i] \in Operation BY DEF JournalSound
<1>2. \A i \in 1..k : i \in 1..Len(run) BY <1>1
<1>3. \A i \in 1..k : run[i].index \in Nat BY <1>1, <1>2 DEF Operation
<1>4. \A i \in 1..k : NewKey(run[i].index) < 0 BY <1>3 DEF NewKey
<1>5. CASE key > 0
  <2>1. \A i \in 1..k : key # NewKey(run[i].index) BY <1>3, <1>4, <1>5 DEF NewKey
  <2> QED BY <2>1 DEF Stands
<1>6. CASE ~(key > 0)
  <2>1. PICK i \in 1..k : key = NewKey(run[i].index) /\ a = run[i].part BY <1>6 DEF Stands
  <2>2. PICK j \in 1..k : key = NewKey(run[j].index) /\ b = run[j].part BY <1>6 DEF Stands
  <2>3. run[i].index = run[j].index BY <1>3, <2>1, <2>2 DEF NewKey
  <2>4. ~(i < j) /\ ~(j < i) BY <1>2, <1>3, <2>3 DEF JournalSound
  <2>5. i = j BY <2>4
  <2> QED BY <2>1, <2>2, <2>5
<1> QED BY <1>5, <1>6

\* Both loops end with the same mount points, so there is one root and it is
\* on the disk.
LEMMA DoneProjects ==
    ASSUME EditorInv, EditorInv', MountInv, CommitDone
    PROVE  Projects(edRun, edDisk, root_partition(edRun))
<1> DEFINE k == edPos - 1
           A == Assigned(edRun)[k]
           M == Accounts[k].mounts
<1>1. JournalSound(edRun) /\ edPos \in 0 .. Len(edRun) + 1 BY DEF EditorInv, EditorTypes
<1>2. Len(edRun) \in Nat BY <1>1 DEF JournalSound
<1>3. edPos > Len(edRun) BY DEF CommitDone
<1>4. edPos # 0 /\ k = Len(edRun) /\ k \in 0..Len(edRun) BY <1>1, <1>2, <1>3
<1>5. CommitInv BY <1>4 DEF EditorInv
<1>6. Len(edRun) = Len(edOps) BY <1>5 DEF CommitInv
<1>7. MountsMatch(edOps, edRun, edDisk, A, M, k) /\ \E n \in M : n[2] = "/"
  <2>1. k = Len(edOps) BY <1>4, <1>6
  <2> HIDE DEF k
  <2>2. edPos - 1 = k BY DEF k
  <2> QED BY <1>4, <2>1, <2>2 DEF MountInv
<1>8. \A n : ~Overridden(edOps, n, k)
  <2>1. (k + 1)..Len(edOps) = {} BY <1>2, <1>4, <1>6
  <2> QED BY <2>1 DEF Overridden
<1>9. Assignments(edRun) = A BY <1>4 DEF Assignments
<1>10. \A n \in M : n[1] \in Int
  <2>1. Accounts[k] \in Account BY <1>4, <1>5, <1>6 DEF CommitInv, ValidRun
  <2> QED BY <2>1 DEF Account
<1> HIDE DEF k, A, M
<1>11. ASSUME NEW m \in A, NEW n \in A, m[2] = n[2] PROVE m = n
  <2>1. PICK a \in M : a[2] = m[2] /\ Stands(edRun, m[1], a[1], k) BY <1>7, <1>8 DEF MountsMatch
  <2>2. PICK b \in M : b[2] = n[2] /\ Stands(edRun, n[1], b[1], k) BY <1>7, <1>8 DEF MountsMatch
  <2>3. a = b BY <1>7, <1>11, <2>1, <2>2 DEF MountsMatch
  <2>4. m[1] = n[1]
    <3>1. Stands(edRun, n[1], a[1], k) /\ a[1] \in Int BY <1>10, <2>2, <2>3
    <3> QED BY <1>1, <1>4, <2>1, <3>1, StandsOnce
  <2> QED BY <1>7, <2>4 DEF MountsMatch
<1>12. PICK r \in A : r[2] = "/" BY <1>7 DEF MountsMatch
<1> DEFINE roots == {m[1] : m \in {n \in A : n[2] = "/"}}
<1>13. roots = {r[1]}
  <2>1. \A n \in A : n[2] = "/" => n = r BY <1>11, <1>12
  <2> QED BY <1>12, <2>1
<1>14. root_partition(edRun) = IF Cardinality(roots) = 1 THEN CHOOSE n \in roots : TRUE ELSE 0
  BY <1>9 DEF root_partition
<1> HIDE DEF roots
<1>15. Cardinality(roots) = 1 BY <1>13, FS_Singleton
<1>16. root_partition(edRun) = r[1]
  <2>1. root_partition(edRun) = CHOOSE n \in roots : TRUE BY <1>14, <1>15
  <2> QED BY <1>13, <2>1
<1>17. \A m \in A : Has(edDisk, m[1]) BY <1>7 DEF MountsMatch
<1> QED BY <1>9, <1>11, <1>12, <1>16, <1>17 DEF Projects

\* MountInv holds at the start.
LEMMA MountStarts ==
    ASSUME EditorInit PROVE MountInv
BY DEF EditorInit, MountInv, Reply

\* Nothing is executed before the first operation, and the mount points of the
\* whole journal have a root.
LEMMA MountCommits ==
    ASSUME EditorInv, EditorInv', Commit
    PROVE  MountInv'
<1>1. edPos = 0 /\ edOps' = edOps BY DEF Commit, Idle, staged
<1>2. CASE validate(edOps)
  <2>1. /\ edBackup' = [table |-> edTableType, parts |-> edDisk] /\ edRun' = edOps
        /\ edPos' = 1 /\ edReply' = Reply("none", "")
    BY <1>2 DEF Commit
  <2>2. edBackup'.table = edTableType /\ edBackup'.parts = edDisk BY <2>1
  <2>3. /\ DiskSound(edDisk) /\ edTableType \in TableTypes /\ JournalSound(edOps)
    BY DEF EditorInv, EditorTypes
  <2> DEFINE V == Validated(edDisk, edTableType, edOps)
             roots == {m \in V[Len(edOps)].mounts : m[2] = "/"}
  <2>4. Accounts' = V BY <1>1, <2>2 DEF Accounts
  <2>5. V[0].mounts = {}
    <3>1. V[0] = Unallocated(edDisk, edTableType) BY <2>3, ValidatedEquations
    <3> QED BY <2>3, <3>1, UnallocatedTyped
  <2>6. Cardinality(roots) = 1 BY <1>2 DEF validate
  <2> HIDE DEF V
  <2>7. \E n \in V[Len(edOps)].mounts : n[2] = "/"
    <3>1. roots # {}
      <4> HIDE DEF roots
      <4> QED BY <2>6, FS_EmptySet
    <3> QED BY <3>1
  <2>8. Assigned(edOps)[0] = {} BY <2>3, AssignedEquations
  <2>9. edPos' - 1 = 0 /\ edPos' # 0
    <3>1. edPos' = 1 BY <2>1
    <3> QED BY <3>1
  <2>10. CreatesStay(edOps, edDisk', V[0], 0)
    <3>1. 1..0 = {} OBVIOUS
    <3> QED BY <3>1 DEF CreatesStay
  <2>11. MountsMatch(edOps, edOps, edDisk', {}, {}, 0) BY DEF MountsMatch
  <2> QED BY <1>1, <2>1, <2>4, <2>5, <2>7, <2>8, <2>9, <2>10, <2>11 DEF MountInv
<1>3. CASE ~validate(edOps)
  <2>1. edReply' = Reply("errors", "") /\ edPos' = edPos BY <1>3 DEF Commit
  <2>2. edReply'.status = "errors" BY <2>1 DEF Reply
  <2> QED BY <1>1, <2>1, <2>2 DEF MountInv
<1> QED BY <1>2, <1>3

\* Every step keeps MountInv.
LEMMA MountStep ==
    ASSUME EditorInv, EditorInv', MountInv, [EditorNext]_editorVars
    PROVE  MountInv'
<1>1. CASE UNCHANGED editorVars
  BY <1>1 DEF editorVars, MountInv, Accounts
<1>2. CASE Staging
  <2>1. edPos = 0 /\ edPos' = edPos /\ edRun' = edRun /\ edDisk' = edDisk /\ edReply' = edReply
    BY <1>2 DEF Staging, NewTable, StageCreate, StageEdit, Stage, RemovePending, RollbackMetadata,
                Request, Idle, commit
  <2>2. edCommitted' => edCommitted /\ edRoot' = edRoot
    BY <1>2 DEF Staging, NewTable, StageCreate, StageEdit, Stage, RemovePending, RollbackMetadata
  <2> QED BY <2>1, <2>2 DEF MountInv
<1>3. CASE Commit BY <1>3, MountCommits
<1>4. CASE CommitDone
  <2>1. edPos' = 0 /\ edRun' = edRun /\ edDisk' = edDisk /\ edRoot' = root_partition(edRun)
    BY <1>4 DEF CommitDone
  <2> QED BY <1>4, <2>1, DoneProjects DEF MountInv
<1>5. CASE EditorCrash
  <2>1. edPos' = 0 /\ edCommitted' = FALSE BY <1>5 DEF EditorCrash
  <2> QED BY <2>1 DEF MountInv
<1>8. CASE EmitFails
  <2>1. edPos' = 0 /\ edReply' = Reply("aborted", "emit") BY <1>8 DEF EmitFails
  <2>2. edReply'.status # "ok" BY <2>1 DEF Reply
  <2> QED BY <2>1, <2>2 DEF MountInv
<1>6. ASSUME NEW op, Executed(op) PROVE MountInv'
  <2>1. /\ edPos' # 0 /\ edPos' - 1 = edPos /\ edPos # 0 /\ Accounts' = Accounts /\ edOps' = edOps
    BY <1>6, ExecutedFacts
  <2>2. CreatesStay(edRun', edDisk', Accounts[edPos], edPos) BY <1>6, CreatesStayStep
  <2>3. MountsMatch(edOps, edRun', edDisk', Assigned(edRun')[edPos], Accounts[edPos].mounts, edPos)
    BY <1>6, MountsMatchStep
  <2>4. \E n \in Accounts[Len(edOps)].mounts : n[2] = "/" BY <2>1 DEF MountInv
  <2> QED BY <2>1, <2>2, <2>3, <2>4 DEF MountInv
<1>7. ASSUME NEW disk, NEW intact, NEW irreversible, FailsWith(disk, intact, irreversible)
      PROVE  MountInv'
  <2>1. PICK cause, table : Fail(cause, disk, table, intact, irreversible) BY <1>7 DEF FailsWith
  <2>2. edPos' = 0 BY <2>1 DEF Fail
  <2>3. \E s \in {"irreversible", "failed", "recovery"} : edReply' = Reply(s, cause)
    BY <2>1 DEF Fail
  <2>4. edReply'.status # "ok" BY <2>3 DEF Reply
  <2> QED BY <2>2, <2>4 DEF MountInv
<1> QED BY <1>1, <1>2, <1>3, <1>4, <1>5, <1>6, <1>7, <1>8, EditorSteps

\* What a successful commit records fits the disk it leaves, whatever was
\* staged, numbered again or assigned twice: the root it names is there, every
\* mount is of a partition that is there, and no mount point is used twice.
THEOREM CommitsProject == EditorSpec => []CommitProjects
<1>1. ASSUME EditorInv, MountInv PROVE CommitProjects
  <2> SUFFICES ASSUME edReply.status = "ok", edPos = 0, edCommitted, edOps = edRun
               PROVE  /\ edRoot # 0 /\ OnDisk(edRoot)
                      /\ ~ManualMountsRefused(edOps, edDisk)
                      /\ \A m \in manual_mounts(edOps) : OnDisk(m[1])
    BY DEF CommitProjects, RootAgrees, ManualMountsProject
  <2>1. Projects(edRun, edDisk, edRoot) BY <1>1 DEF MountInv
  <2>2. \A p \in edDisk : p.part # 0 BY <1>1 DEF EditorInv, EditorTypes, DiskSound, Partition
  <2>3. edRoot # 0 /\ OnDisk(edRoot) BY <2>1, <2>2 DEF Projects, Has, OnDisk
  <2>4. manual_mounts(edOps) \subseteq Assignments(edRun) BY DEF manual_mounts
  <2>5. \A m \in manual_mounts(edOps) : OnDisk(m[1]) BY <2>1, <2>4 DEF Projects, Has, OnDisk
  <2>6. \A m, n \in manual_mounts(edOps) : m[2] = n[2] => m = n BY <2>1, <2>4 DEF Projects
  <2>7. ~ManualMountsRefused(edOps, edDisk) BY <2>5, <2>6 DEF ManualMountsRefused, OnDisk
  <2> QED BY <2>3, <2>5, <2>7
<1>2. EditorInit => EditorInv /\ MountInv BY EditorStarts, MountStarts
<1>3. EditorInv /\ MountInv /\ [EditorNext]_editorVars => EditorInv' /\ MountInv'
  BY EditorStep, MountStep
<1> QED BY <1>1, <1>2, <1>3, PTL DEF EditorSpec

-----------------------------------------------------------------------------
(* What a failed commit costs.                                             *)

\* The creates an earlier commit of the journal executed, and this one.
StaleSet(ops) == {i \in 1..Len(ops) : ops[i].kind = "create" /\ ops[i].created}
FreshSet == {i \in 1..(edPos - 1) : edRun[i].kind = "create"}

Deletes(ops, d, m) == ops[d].kind = "delete" /\ ops[d].part = m

\* Number m is not free when the journal creates the partition of operation k.
Taken(ops, I, disk, m, k) ==
    \/ \E j \in I : j < k /\ ops[j].part = m
    \/ \E d \in 1..Len(ops) : k < d /\ Deletes(ops, d, m)
    \/ /\ Has(disk, m)
       /\ \A d \in 1..Len(ops) : ~Deletes(ops, d, m)
       /\ ops[1].kind # "new_table"
    \/ m = 1 /\ NewGpt(ops)

\* The numbers the creates I of the journal record are theirs: another run of
\* the journal gives them out again.
Numbered(ops, I, disk) ==
    /\ \A i, j \in I : ops[i].part = ops[j].part => i = j
    /\ \A k \in I : ops[k].part # 0 /\ (NewGpt(ops) => ops[k].part # 1)
    /\ \A k \in I : \A m \in 1..(ops[k].part - 1) : Taken(ops, I, disk, m, k)
    /\ \A k \in I : \A p \in disk : p.part = ops[k].part => p.from = ops[k].from

\* No create before one that was executed was not.
ClosedBelow(ops) ==
    \A k \in StaleSet(ops) : \A j \in 1..k : ops[j].kind = "create" => j \in StaleSet(ops)

StaleInv ==
    /\ ClosedBelow(edOps)
    /\ Numbered(edOps, StaleSet(edOps), edDisk)
    /\ ~edCommitted => StaleSet(edOps) = {}

\* Where the partitions on the disk come from, and the ones in the map.
DiskOrigin(disk, acc, run, ops, I) ==
    \A p \in disk : \/ p \in acc.alloc
                    \/ \E i \in I : p.part = run[i].part
                    \/ NewGpt(ops) /\ p.part = 1

MapOrigin(acc, parts) ==
    \A p \in acc.alloc : p.part > 0 =>
        \E b \in parts : b.part = p.part /\ b.from = p.from /\ p.to <= b.to

\* What the executed operations took out of the map.
Gone(ops, acc, k) ==
    /\ \A d \in 1..k : ops[d].kind = "delete" => ~Key(acc, ops[d].part)
    /\ k # 0 /\ ops[1].kind = "new_table" => \A m \in Nat \ {0} : ~Key(acc, m)

FreshInv ==
    LET acc == Accounts[edPos - 1] IN
    /\ Numbered(edOps, StaleSet(edOps), edBackup.parts)
    /\ Numbered(edRun, FreshSet, edDisk)
    /\ \A i \in FreshSet : edRun[i].created /\ (i \in StaleSet(edOps) => edRun[i].part = edOps[i].part)
    /\ DiskOrigin(edDisk, acc, edRun, edOps, FreshSet)
    /\ MapOrigin(acc, edBackup.parts)
    /\ Gone(edOps, acc, edPos - 1)
    /\ edPos # 1 /\ NewGpt(edOps) => Has(edDisk, 1)

\* The data lost without the flag was in the way of a create.
LossExplained(run, parts, intact) ==
    \A b \in parts \ intact :
        \E i \in 1..Len(run) :
            run[i].kind = "create" /\ Overlaps(run[i].from, run[i].from + run[i].size, b)

\* A failure reported without the flag also costs the partition whose shrink it is.
LossReported(run, parts, intact, cause) ==
    \A b \in parts \ intact :
        \/ \E i \in 1..Len(run) :
               run[i].kind = "create" /\ Overlaps(run[i].from, run[i].from + run[i].size, b)
        \/ \E i \in 1..Len(run) :
               run[i].kind = "resize" /\ run[i].part = b.part /\ cause = "shrink"

LossInv ==
    /\ StaleInv
    /\ edPos # 0 => FreshInv
    /\ edPos # 0 /\ ~edIrreversible => LossExplained(edRun, edBackup.parts, edIntact)
    /\ edReply.status = "failed" /\ edPos = 0 =>
          /\ Parts(edDisk) = Parts(edBackup.parts) /\ edTableType = edBackup.table
          /\ LossReported(edRun, edBackup.parts, edIntact, edReply.cause)

\* A number that is in the map late in a journal was there all along.
LEMMA KeysBefore ==
    ASSUME NEW ops, JournalSound(ops), NEW V, NEW disk, NEW table, ValidRun(V, disk, table, ops),
           NEW b \in 0..Len(ops), NEW a \in 0..b, NEW n \in Nat \ {0}, Key(V[b], n)
    PROVE  Key(V[a], n)
<1>1. /\ Len(ops) \in Nat /\ \A i \in 1..Len(ops) : ops[i] \in Operation BY DEF JournalSound
<1>2. /\ \A i \in 0..Len(ops) : V[i] \in Account
      /\ \A i \in 1..Len(ops) : Accepted(ops, ops[i], V[i - 1], V[i])
  BY DEF ValidRun
<1> DEFINE T == {i \in 0..b : Key(V[b - i], n)}
<1>3. 0 \in T
  <2>1. b - 0 = b /\ 0 \in 0..b BY <1>1
  <2> QED BY <2>1
<1>4. ASSUME NEW i \in 0..b, i \in T, i < b PROVE i + 1 \in T
  <2> DEFINE c == b - i
  <2>1. /\ c \in 1..Len(ops) /\ c \in 0..Len(ops) /\ c - 1 \in 0..Len(ops)
        /\ b - (i + 1) = c - 1 /\ i + 1 \in 0..b
    BY <1>1, <1>4
  <2>2. Key(V[c], n) BY <1>4
  <2> HIDE DEF c
  <2>3. Key(V[c - 1], n) BY <1>1, <1>2, <2>1, <2>2, KeysGo
  <2> QED BY <2>1, <2>3
<1>5. b \in Nat BY <1>1
<1>6. \A i \in 0..b : i \in T
  <2> HIDE DEF T
  <2> QED BY <1>3, <1>4, <1>5, BoundedInduction
<1>7. b - a \in 0..b /\ b - (b - a) = a BY <1>5
<1>8. b - a \in T BY <1>6, <1>7
<1> QED BY <1>7, <1>8

\* Partitions keep their numbers and starts in the backup.
LEMMA NumberedMoves ==
    ASSUME NEW ops, NEW I, NEW disk, Numbered(ops, I, disk), NEW next,
           \A n : Has(disk, n) => Has(next, n),
           \A p \in next : \E q \in disk : q.part = p.part /\ q.from = p.from
    PROVE  Numbered(ops, I, next)
<1>1. ASSUME NEW k \in I, NEW m \in 1..(ops[k].part - 1) PROVE Taken(ops, I, next, m, k)
  <2>1. Taken(ops, I, disk, m, k) BY DEF Numbered
  <2> QED BY <2>1 DEF Taken
<1>2. ASSUME NEW k \in I, NEW p \in next, p.part = ops[k].part PROVE p.from = ops[k].from
  BY <1>2 DEF Numbered
<1> QED BY <1>1, <1>2 DEF Numbered

\* The creates executed so far are on the disk.
LEMMA FreshFacts ==
    ASSUME EditorInv, MountInv, LossInv, edPos \in DOMAIN edRun
    PROVE  /\ edPos \in 1..Len(edOps) /\ Len(edOps) = Len(edRun) /\ Len(edRun) \in Nat /\ edPos # 0
           /\ FreshInv /\ CommitInv
           /\ \A i \in 1..Len(edOps) : edOps[i] \in Operation /\ edRun[i] \in Operation
           /\ \A i \in 1..Len(edOps) : SameOp(edOps[i], edRun[i])
           /\ \A i \in FreshSet : /\ i \in 1..Len(edOps) /\ i < edPos
                                  /\ edRun[i].part \in Nat \ {0} /\ Has(edDisk, edRun[i].part)
                                  /\ ~Key(Accounts[edPos - 1], edRun[i].part)
           /\ \A i \in StaleSet(edOps) : i < edPos => i \in FreshSet /\ edRun[i].part = edOps[i].part
           /\ \A n \in Nat \ {0} : Key(Accounts[edPos - 1], n) => Has(edDisk, n)
<1>1. edPos \in 1..Len(edOps) /\ edPos \in 1..Len(edRun) /\ CommitInv BY AtOperation
<1>2. JournalSound(edOps) /\ JournalSound(edRun) BY DEF EditorInv, EditorTypes
<1>3. Len(edOps) = Len(edRun) /\ \A i \in 1..Len(edOps) : SameOp(edOps[i], edRun[i])
  BY <1>1 DEF CommitInv
<1>4. /\ Len(edRun) \in Nat
      /\ \A i \in 1..Len(edOps) : edOps[i] \in Operation /\ edRun[i] \in Operation
  BY <1>2, <1>3 DEF JournalSound
<1>5. edPos # 0 BY <1>1
<1>6. FreshInv BY <1>5 DEF LossInv
<1>7. CreatesStay(edRun, edDisk, Accounts[edPos - 1], edPos - 1) BY <1>5 DEF MountInv
<1>8. ASSUME NEW i \in FreshSet
      PROVE  /\ i \in 1..Len(edOps) /\ i < edPos
             /\ edRun[i].part \in Nat \ {0} /\ Has(edDisk, edRun[i].part)
             /\ ~Key(Accounts[edPos - 1], edRun[i].part)
  <2>1. i \in 1..(edPos - 1) /\ edRun[i].kind = "create" BY DEF FreshSet
  <2>2. i \in 1..Len(edOps) /\ i < edPos BY <1>1, <1>3, <1>4, <2>1
  <2>3. edRun[i].part \in Nat BY <1>4, <2>2 DEF Operation
  <2> QED BY <1>7, <2>1, <2>2, <2>3 DEF CreatesStay
<1>9. ASSUME NEW i \in StaleSet(edOps), i < edPos
      PROVE  i \in FreshSet /\ edRun[i].part = edOps[i].part
  <2>1. i \in 1..Len(edOps) /\ edOps[i].kind = "create" BY DEF StaleSet
  <2>2. i \in 1..(edPos - 1) BY <1>1, <1>3, <1>4, <1>9, <2>1
  <2>3. edRun[i].kind = "create" BY <1>3, <2>1 DEF SameOp
  <2>4. i \in FreshSet BY <2>2, <2>3 DEF FreshSet
  <2> QED BY <1>6, <2>4 DEF FreshInv
<1>10. ASSUME NEW n \in Nat \ {0}, Key(Accounts[edPos - 1], n) PROVE Has(edDisk, n)
  <2>1. PICK p \in Accounts[edPos - 1].alloc : p.part = n BY <1>10 DEF Key
  <2>2. p.part > 0 BY <2>1
  <2>3. p \in edDisk BY <1>1, <2>2 DEF CommitInv, Match
  <2> QED BY <2>1, <2>3 DEF Has
<1> QED BY <1>1, <1>3, <1>4, <1>5, <1>6, <1>8, <1>9, <1>10

\* A create that is executed again gets the number it has recorded; one that is
\* executed for the first time gets none of those.
LEMMA CreateNumber ==
    ASSUME EditorInv, MountInv, LossInv, edPos \in DOMAIN edRun, CurrentOp.kind = "create",
           ~Blocked(CurrentOp.from, CurrentOp.from + CurrentOp.size)
    PROVE  /\ edPos \in StaleSet(edOps) => LowestFree = edOps[edPos].part
           /\ edPos \notin StaleSet(edOps) => \A k \in StaleSet(edOps) : edOps[k].part # LowestFree
<1>1. /\ edPos \in 1..Len(edOps) /\ Len(edOps) = Len(edRun) /\ Len(edRun) \in Nat /\ edPos # 0
      /\ FreshInv /\ CommitInv
      /\ \A i \in 1..Len(edOps) : edOps[i] \in Operation
      /\ \A i \in FreshSet : Has(edDisk, edRun[i].part)
      /\ \A i \in StaleSet(edOps) : i < edPos => i \in FreshSet /\ edRun[i].part = edOps[i].part
      /\ \A n \in Nat \ {0} : Key(Accounts[edPos - 1], n) => Has(edDisk, n)
  BY FreshFacts
<1>2. CurrentOp = edOps[edPos] /\ edPos - 1 \in 0..Len(edOps) BY AtOperation
<1>3. DiskSound(edDisk) /\ JournalSound(edOps) BY DEF EditorInv, EditorTypes
<1>4. LowestFree \in Nat \ {0} /\ ~Has(edDisk, LowestFree) /\ \A m \in 1..(LowestFree - 1) : Has(edDisk, m)
  BY <1>3, LowestIsFree DEF Has, OnDisk
<1>5. StaleInv BY DEF LossInv
<1>6. \A k \in StaleSet(edOps) : k \in 1..Len(edOps) /\ edOps[k].part \in Nat
  BY <1>1 DEF StaleSet, Operation
<1>7. ASSUME edPos \in StaleSet(edOps) PROVE LowestFree = edOps[edPos].part
  <2> DEFINE n == edOps[edPos].part
  <2>1. Numbered(edOps, StaleSet(edOps), edDisk) BY <1>5 DEF StaleInv
  <2>2. n \in Nat \ {0} BY <1>6, <1>7, <2>1 DEF Numbered
  <2>3. ~Has(edDisk, n)
    <3> SUFFICES ASSUME NEW p \in edDisk, p.part = n PROVE FALSE BY DEF Has
    <3>1. p.from = CurrentOp.from BY <1>2, <1>7, <2>1 DEF Numbered
    <3>2. p \in Partition /\ p.from < p.to BY <1>3 DEF DiskSound
    <3>3. CurrentOp.size > 0 BY CreateFacts DEF Running
    <3>4. CurrentOp.size \in Nat BY <1>1, <1>2 DEF Operation
    <3>5. p.from \in Nat /\ p.to \in Nat BY <3>2 DEF Partition
    <3>6. p.from < p.from + CurrentOp.size BY <3>3, <3>4, <3>5
    <3>7. Overlaps(CurrentOp.from, CurrentOp.from + CurrentOp.size, p)
      BY <3>1, <3>2, <3>6 DEF Overlaps
    <3> QED BY <3>7 DEF Blocked
  <2>4. ASSUME NEW m \in 1..(n - 1) PROVE Has(edDisk, m)
    <3>1. Taken(edOps, StaleSet(edOps), edDisk, m, edPos) BY <1>7, <2>1 DEF Numbered
    <3>2. CASE \E j \in StaleSet(edOps) : j < edPos /\ edOps[j].part = m BY <1>1, <3>2
    <3>3. CASE \E d \in 1..Len(edOps) : edPos < d /\ Deletes(edOps, d, m)
      <4>1. PICK d \in 1..Len(edOps) : edPos < d /\ Deletes(edOps, d, m) BY <3>3
      <4>2. edOps[d].kind \in EditKinds /\ edOps[d].part = m BY <4>1 DEF Deletes, EditKinds
      <4>3. ValidRun(Accounts, edBackup.parts, edBackup.table, edOps) BY <1>1 DEF CommitInv
      <4>4. Key(Accounts[d - 1], m) BY <4>2, <4>3 DEF ValidRun
      <4>5. d - 1 \in 0..Len(edOps) /\ edPos - 1 \in 0..(d - 1) /\ m \in Nat \ {0}
        BY <1>1, <2>2, <4>1
      <4>6. Key(Accounts[edPos - 1], m) BY <1>3, <4>3, <4>4, <4>5, KeysBefore
      <4> QED BY <1>1, <4>5, <4>6
    <3>4. CASE m = 1 /\ NewGpt(edOps)
      <4>1. edPos # 1 BY <1>2, <3>4 DEF NewGpt
      <4> QED BY <1>1, <3>4, <4>1 DEF FreshInv
    <3> QED BY <3>1, <3>2, <3>3, <3>4 DEF Taken
  <2> HIDE DEF n
  <2>5. ~(n < LowestFree)
    <3>1. n < LowestFree => n \in 1..(LowestFree - 1) BY <1>4, <2>2
    <3> QED BY <1>4, <2>3, <3>1
  <2>6. ~(LowestFree < n)
    <3>1. LowestFree < n => LowestFree \in 1..(n - 1) BY <1>4, <2>2
    <3> QED BY <1>4, <2>4, <3>1
  <2>7. LowestFree = n BY <1>4, <2>2, <2>5, <2>6
  <2> QED BY <2>7 DEF n
<1>8. ASSUME edPos \notin StaleSet(edOps), NEW k \in StaleSet(edOps) PROVE edOps[k].part # LowestFree
  <2>1. k < edPos
    <3>1. edPos \in 1..k => edPos \in StaleSet(edOps)
      BY <1>2, <1>5 DEF StaleInv, ClosedBelow
    <3>2. k \in 1..Len(edOps) BY <1>6
    <3> QED BY <1>1, <1>8, <3>1, <3>2
  <2>2. Has(edDisk, edOps[k].part) BY <1>1, <2>1
  <2> QED BY <1>4, <2>2
<1> QED BY <1>7, <1>8

\* The disk an operation leaves: numbers and starts stay, except for what a new
\* table, a create or a delete does.
Moves(disk) ==
    /\ \A p \in disk : \/ \E q \in edDisk : q.part = p.part /\ q.from = p.from
                       \/ /\ CurrentOp.kind = "create"
                          /\ ~Blocked(CurrentOp.from, CurrentOp.from + CurrentOp.size)
                          /\ p.part = LowestFree /\ p.from = CurrentOp.from
                       \/ CurrentOp.kind = "new_table" /\ p.part = 1 /\ NewGpt(edOps)
    /\ \A n : Has(edDisk, n) => \/ Has(disk, n)
                                \/ CurrentOp.kind = "new_table"
                                \/ CurrentOp.kind = "delete" /\ CurrentOp.part = n

\* The numbers earlier commits recorded survive an operation.
LEMMA StaleKept ==
    ASSUME EditorInv, MountInv, LossInv, edPos \in DOMAIN edRun, NEW disk, Moves(disk)
    PROVE  Numbered(edOps, StaleSet(edOps), disk)
<1> DEFINE I == StaleSet(edOps)
<1>1. Numbered(edOps, I, edDisk) BY DEF LossInv, StaleInv
<1>2. CurrentOp = edOps[edPos] /\ edPos \in 1..Len(edOps) /\ (CurrentOp.kind = "new_table" => edPos = 1)
  BY AtOperation
<1>3. ASSUME NEW k \in I, NEW m \in 1..(edOps[k].part - 1) PROVE Taken(edOps, I, disk, m, k)
  <2>1. Taken(edOps, I, edDisk, m, k) BY <1>1 DEF Numbered
  <2>2. ASSUME Has(edDisk, m), \A d \in 1..Len(edOps) : ~Deletes(edOps, d, m),
               edOps[1].kind # "new_table"
        PROVE  Has(disk, m)
    BY <1>2, <2>2 DEF Moves, Deletes
  <2> QED BY <2>1, <2>2 DEF Taken
<1>4. ASSUME NEW k \in I, NEW p \in disk, p.part = edOps[k].part PROVE p.from = edOps[k].from
  <2>1. CASE \E q \in edDisk : q.part = p.part /\ q.from = p.from
    BY <1>1, <1>4, <2>1 DEF Numbered
  <2>2. CASE /\ CurrentOp.kind = "create"
             /\ ~Blocked(CurrentOp.from, CurrentOp.from + CurrentOp.size)
             /\ p.part = LowestFree /\ p.from = CurrentOp.from
    <3>1. edPos \in I BY <1>4, <2>2, CreateNumber
    <3>2. LowestFree = edOps[edPos].part BY <2>2, <3>1, CreateNumber
    <3>3. k = edPos BY <1>1, <1>4, <2>2, <3>1, <3>2 DEF Numbered
    <3> QED BY <1>2, <2>2, <3>3
  <2>3. CASE CurrentOp.kind = "new_table" /\ p.part = 1 /\ NewGpt(edOps)
    BY <1>1, <1>4, <2>3 DEF Numbered
  <2> QED BY <2>1, <2>2, <2>3 DEF Moves
<1> QED BY <1>1, <1>3, <1>4 DEF Numbered

\* Changing a partition moves nothing.
LEMMA ChangeMoves ==
    ASSUME NEW p \in edDisk, NEW q, q.part = p.part, q.from = p.from
    PROVE  Moves((edDisk \ {p}) \cup {q})
<1>1. ASSUME NEW n, Has(edDisk, n) PROVE Has((edDisk \ {p}) \cup {q}, n) BY <1>1 DEF Has
<1> QED BY <1>1 DEF Moves

\* What an executed operation moves.
LEMMA ExecutedMoves ==
    ASSUME EditorInv, EditorInv', NEW op, Executed(op)
    PROVE  Moves(edDisk')
<1>1. edPos \in DOMAIN edRun /\ SameOp(CurrentOp, op) /\ op \in Operation BY DEF Executed
<1>2. /\ op.kind = CurrentOp.kind /\ op.from = CurrentOp.from /\ op.size = CurrentOp.size
      /\ op.fs = CurrentOp.fs /\ (op.kind # "create" => op = CurrentOp)
  BY <1>1 DEF SameOp
<1>3. /\ CurrentOp = edOps[edPos] /\ (CurrentOp.kind = "new_table" => edPos = 1)
  BY <1>1, AtOperation
<1>4. DiskSound(edDisk) BY DEF EditorInv, EditorTypes
<1>5. op.kind \in {"new_table", "create"} \cup EditKinds BY <1>1 DEF Operation
<1>6. CASE op.kind = "new_table"
  <2>1. edDisk' = IF op.fs # "gpt" THEN {}
                  ELSE {[part |-> 1, from |-> BiosStart, to |-> BiosStart + BiosCreated,
                         fs |-> "bios_grub"]}
    BY <1>6 DEF Executed
  <2>2. \A p \in edDisk' : p.part = 1 /\ op.fs = "gpt" BY <2>1
  <2> QED BY <1>2, <1>3, <1>6, <2>2 DEF Moves, NewGpt
<1>7. CASE op.kind = "create"
  <2>1. /\ edDisk' = edDisk \cup {NewPartition(op)} /\ ~Blocked(op.from, op.from + op.size)
    BY <1>7 DEF Executed
  <2>2. NewPartition(op).part = LowestFree /\ NewPartition(op).from = op.from BY DEF NewPartition
  <2> QED BY <1>2, <1>7, <2>1, <2>2 DEF Moves, Has
<1>8. CASE op.kind = "delete"
  <2>1. edDisk' = edDisk \ {Found(op.part)} BY <1>8 DEF Executed
  <2>2. \A n : Has(edDisk', n) <=> Has(edDisk, n) /\ n # op.part BY <1>8, ExecutedNumbers
  <2> QED BY <1>2, <1>8, <2>1, <2>2 DEF Moves
<1>9. CASE op.kind = "set_mountpoint"
  <2>1. edDisk' = edDisk BY <1>9 DEF Executed
  <2> QED BY <2>1 DEF Moves
<1>10. CASE op.kind \in {"format", "resize"}
  <2> DEFINE p == Found(op.part)
  <2>1. op.kind \in EditKinds BY <1>10 DEF EditKinds
  <2>2. p \in edDisk BY <2>1, ExecutedNumbers
  <2>3. p \in Partition BY <1>4, <2>2 DEF DiskSound
  <2>4. \E q \in {[p EXCEPT !.fs = op.fs], [p EXCEPT !.to = p.from + op.size]} :
           edDisk' = (edDisk \ {p}) \cup {q}
    BY <1>10 DEF Executed
  <2>5. \A q \in {[p EXCEPT !.fs = op.fs], [p EXCEPT !.to = p.from + op.size]} :
           q.part = p.part /\ q.from = p.from
    BY <2>3 DEF Partition
  <2> HIDE DEF p
  <2> QED BY <2>2, <2>4, <2>5, ChangeMoves
<1> QED BY <1>5, <1>6, <1>7, <1>8, <1>9, <1>10 DEF EditKinds

\* What an operation that fails has moved.
LEMMA FailureMoves ==
    ASSUME EditorInv, NEW disk, NEW intact, NEW irreversible, FailsWith(disk, intact, irreversible)
    PROVE  Moves(disk)
<1>1. edPos \in DOMAIN edRun BY DEF FailsWith
<1>2. CASE disk = edDisk BY <1>2 DEF Moves
<1>3. CASE CurrentOp.kind = "new_table" /\ disk = {} BY <1>3 DEF Moves
<1>4. CASE /\ CurrentOp.kind = "create"
           /\ ~Blocked(CurrentOp.from, CurrentOp.from + CurrentOp.size)
           /\ disk = edDisk \cup {NewPartition(CurrentOp)}
  <2>1. NewPartition(CurrentOp).part = LowestFree /\ NewPartition(CurrentOp).from = CurrentOp.from
    BY DEF NewPartition
  <2> QED BY <1>4, <2>1 DEF Moves, Has
<1>5. CASE /\ CurrentOp.kind \in {"format", "resize"}
           /\ disk = (edDisk \ {Found(CurrentOp.part)})
                         \cup {[Found(CurrentOp.part) EXCEPT !.fs = "lost"]}
  <2> DEFINE p == Found(CurrentOp.part)
  <2>1. CurrentOp.kind \in EditKinds BY <1>5 DEF EditKinds
  <2>2. p \in edDisk BY <1>1, <2>1, EditTarget
  <2>3. p \in Partition BY <2>2 DEF EditorInv, EditorTypes, DiskSound
  <2>4. [p EXCEPT !.fs = "lost"].part = p.part /\ [p EXCEPT !.fs = "lost"].from = p.from
    BY <2>3 DEF Partition
  <2> QED BY <1>5, <2>2, <2>4, ChangeMoves
<1> QED BY <1>2, <1>3, <1>4, <1>5 DEF FailsWith

\* The data an operation ends without raising the flag.
CostsOnly(intact) ==
    \/ intact = edIntact
    \/ CurrentOp.kind = "create" /\ intact = SparedByCreate(CurrentOp)
    \/ /\ CurrentOp.kind = "format" /\ CreatedHere(CurrentOp.part)
       /\ intact = Spared(Found(CurrentOp.part).from, Found(CurrentOp.part).to)

\* A format is not flagged only when its number is one a later create has
\* recorded: the partition is where that create wants to be.
LEMMA LossKept ==
    ASSUME EditorInv, MountInv, LossInv, edPos \in DOMAIN edRun, NEW intact, CostsOnly(intact),
           edIrreversible = FALSE
    PROVE  LossExplained(edRun, edBackup.parts, intact)
<1> DEFINE acc == Accounts[edPos - 1]
           B == edBackup.parts
<1>1. /\ edPos \in 1..Len(edOps) /\ Len(edOps) = Len(edRun) /\ Len(edRun) \in Nat /\ edPos # 0
      /\ FreshInv /\ CommitInv
      /\ \A i \in 1..Len(edOps) : edOps[i] \in Operation /\ edRun[i] \in Operation
      /\ \A i \in FreshSet : ~Key(acc, edRun[i].part)
  BY FreshFacts
<1>2. LossExplained(edRun, B, edIntact) BY <1>1 DEF LossInv
<1>3. CurrentOp = edOps[edPos] /\ CurrentOp = edRun[edPos] BY AtOperation DEF CurrentOp
<1>4. CASE intact = edIntact BY <1>2, <1>4
<1>5. CASE CurrentOp.kind = "create" /\ intact = SparedByCreate(CurrentOp)
  <2> SUFFICES ASSUME NEW b \in B \ intact
               PROVE  \E i \in 1..Len(edRun) : /\ edRun[i].kind = "create"
                                               /\ Overlaps(edRun[i].from, edRun[i].from + edRun[i].size, b)
    BY DEF LossExplained
  <2>1. CASE b \notin edIntact BY <1>2, <2>1 DEF LossExplained
  <2>2. CASE b \in edIntact
    <3>1. Overlaps(CurrentOp.from, CurrentOp.from + CurrentOp.size, b)
      BY <1>5, <2>2 DEF SparedByCreate, Spared
    <3>2. edPos \in 1..Len(edRun) BY <1>1
    <3> QED BY <1>3, <1>5, <3>1, <3>2
  <2> QED BY <2>1, <2>2
<1>6. CASE /\ CurrentOp.kind = "format" /\ CreatedHere(CurrentOp.part)
           /\ intact = Spared(Found(CurrentOp.part).from, Found(CurrentOp.part).to)
  <2> DEFINE n == CurrentOp.part
             p == Found(n)
  <2>1. CurrentOp.kind \in EditKinds BY <1>6 DEF EditKinds
  <2>2. p \in edDisk /\ p.part = n /\ p \in acc.alloc BY <2>1, EditTarget
  <2>3. DiskSound(edDisk) /\ DiskSound(B) BY DEF EditorInv, EditorTypes
  <2>4. p \in Partition /\ p.from < p.to BY <2>2, <2>3 DEF DiskSound
  <2>5. p.part \in Nat /\ p.part > 0 /\ p.from \in Nat /\ p.to \in Nat BY <2>4 DEF Partition
  <2>6. PICK i \in DOMAIN edRun : edRun[i].kind = "create" /\ edRun[i].created /\ edRun[i].part = n
    BY <1>6 DEF CreatedHere
  <2>7. i \in 1..Len(edRun)
    <3>1. edRun \in Seq(Operation) BY DEF EditorInv, EditorTypes, JournalSound
    <3> QED BY <2>6, <3>1
  <2>8. Key(acc, n) BY <2>2 DEF Key
  <2>9. i > edPos
    <3>1. i # edPos BY <1>3, <1>6, <2>6
    <3>2. ~(i < edPos)
      <4>1. i < edPos => i \in 1..(edPos - 1) BY <1>1, <2>7
      <4>2. i < edPos => i \in FreshSet BY <2>6, <4>1 DEF FreshSet
      <4> QED BY <1>1, <2>6, <2>8, <4>2
    <3> QED BY <1>1, <2>7, <3>1, <3>2
  <2>10. edRun[i] = edOps[i]
    <3>1. i \in edPos..Len(edOps) BY <1>1, <2>7, <2>9
    <3> QED BY <1>1, <3>1 DEF CommitInv
  <2>11. i \in StaleSet(edOps) BY <1>1, <2>6, <2>7, <2>10 DEF StaleSet
  <2>12. p.from = edOps[i].from
    BY <2>2, <2>6, <2>10, <2>11 DEF LossInv, StaleInv, Numbered
  <2>13. PICK b0 \in B : b0.part = p.part /\ b0.from = p.from /\ p.to <= b0.to
    BY <1>1, <2>2, <2>5 DEF FreshInv, MapOrigin
  <2>14. edOps[i].size > 0 /\ edOps[i].size \in Nat
    <3>1. Accepted(edOps, edOps[i], Accounts[i - 1], Accounts[i])
      BY <1>1, <2>7 DEF CommitInv, ValidRun
    <3>2. edOps[i].kind = "create" /\ edOps[i] \in Operation BY <1>1, <2>6, <2>7, <2>10
    <3> QED BY <3>1, <3>2 DEF Accepted, CreateAccepted, Operation
  <2> SUFFICES ASSUME NEW b \in B \ intact
               PROVE  \E j \in 1..Len(edRun) : /\ edRun[j].kind = "create"
                                               /\ Overlaps(edRun[j].from, edRun[j].from + edRun[j].size, b)
    BY DEF LossExplained
  <2>15. CASE b \notin edIntact BY <1>2, <2>15 DEF LossExplained
  <2>16. CASE b \in edIntact
    <3>1. Overlaps(p.from, p.to, b) BY <1>6, <2>16 DEF Spared
    <3>2. b.from < b.to /\ p.from < b.to /\ b.from < p.to BY <3>1 DEF Overlaps
    <3>3. b \in Partition /\ b0 \in Partition BY <2>3, <2>13 DEF DiskSound
    <3>4. b.from \in Nat /\ b.to \in Nat /\ b0.from \in Nat /\ b0.to \in Nat BY <3>3 DEF Partition
    <3>5. b = b0 \/ b.to <= b0.from \/ b0.to <= b.from BY <2>3, <2>13 DEF DiskSound
    <3>6. b = b0
      <4>1. ~(b.to <= b0.from) BY <2>5, <2>13, <3>2, <3>4
      <4>2. ~(b0.to <= b.from) BY <2>5, <2>13, <3>2, <3>4
      <4> QED BY <3>5, <4>1, <4>2
    <3>7. edRun[i].from = b.from /\ edRun[i].size = edOps[i].size BY <2>10, <2>12, <2>13, <3>6
    <3>8. b.from < b.from + edOps[i].size BY <2>14, <3>4
    <3>9. Overlaps(edRun[i].from, edRun[i].from + edRun[i].size, b)
      BY <3>2, <3>7, <3>8 DEF Overlaps
    <3> QED BY <2>6, <2>7, <3>9
  <2> QED BY <2>15, <2>16
<1> QED BY <1>4, <1>5, <1>6 DEF CostsOnly

\* A shrink that stops midway costs the partition it shrinks: the one that had
\* its number when the commit began.
LEMMA ShrinkLoses ==
    ASSUME EditorInv, MountInv, LossInv, edPos \in DOMAIN edRun, CurrentOp.kind = "resize",
           edIrreversible = FALSE
    PROVE  LossReported(edRun, edBackup.parts,
                        Spared(Found(CurrentOp.part).from, Found(CurrentOp.part).to), "shrink")
<1> DEFINE acc == Accounts[edPos - 1]
           B == edBackup.parts
           p == Found(CurrentOp.part)
<1>1. edPos \in 1..Len(edRun) /\ edPos # 0 /\ FreshInv BY FreshFacts
<1>2. LossExplained(edRun, B, edIntact) BY <1>1 DEF LossInv
<1>3. CurrentOp = edRun[edPos] BY DEF CurrentOp
<1>4. p \in edDisk /\ p.part = CurrentOp.part /\ p \in acc.alloc
  <2>1. CurrentOp.kind \in EditKinds BY DEF EditKinds
  <2> QED BY <2>1, EditTarget
<1>5. DiskSound(edDisk) /\ DiskSound(B) BY DEF EditorInv, EditorTypes
<1>6. p \in Partition BY <1>4, <1>5 DEF DiskSound
<1>7. p.part \in Nat /\ p.part > 0 /\ p.from \in Nat /\ p.to \in Nat BY <1>6 DEF Partition
<1>8. PICK b0 \in B : b0.part = p.part /\ b0.from = p.from /\ p.to <= b0.to
  BY <1>1, <1>4, <1>7 DEF FreshInv, MapOrigin
<1> HIDE DEF p, B
<1> SUFFICES ASSUME NEW b \in B \ Spared(p.from, p.to)
             PROVE  \/ \E i \in 1..Len(edRun) :
                          /\ edRun[i].kind = "create"
                          /\ Overlaps(edRun[i].from, edRun[i].from + edRun[i].size, b)
                    \/ \E i \in 1..Len(edRun) :
                          edRun[i].kind = "resize" /\ edRun[i].part = b.part
  BY DEF LossReported, p, B
<1>9. CASE b \notin edIntact BY <1>2, <1>9 DEF LossExplained
<1>10. CASE b \in edIntact
  <2>1. Overlaps(p.from, p.to, b) BY <1>10 DEF Spared
  <2>2. b.from < b.to /\ p.from < b.to /\ b.from < p.to BY <2>1 DEF Overlaps
  <2>3. b \in Partition /\ b0 \in Partition BY <1>5, <1>8 DEF DiskSound
  <2>4. b.from \in Nat /\ b.to \in Nat /\ b0.from \in Nat /\ b0.to \in Nat
    BY <2>3 DEF Partition
  <2>5. b = b0 \/ b.to <= b0.from \/ b0.to <= b.from BY <1>5, <1>8 DEF DiskSound
  <2>6. ~(b.to <= b0.from) BY <1>7, <1>8, <2>2, <2>4
  <2>7. ~(b0.to <= b.from) BY <1>7, <1>8, <2>2, <2>4
  <2>8. b.part = CurrentOp.part BY <1>4, <1>8, <2>5, <2>6, <2>7
  <2> QED BY <1>1, <1>3, <2>8
<1> QED BY <1>9, <1>10

\* A staged operation leaves the recorded numbers as they were: one more delete
\* comes after every create.
LEMMA StaleAppended ==
    ASSUME NEW ops, JournalSound(ops), NEW next, Len(next) = Len(ops) + 1,
           \A i \in 1..Len(ops) : next[i] = ops[i], next[Len(ops) + 1].created = FALSE,
           NEW disk, ClosedBelow(ops), Numbered(ops, StaleSet(ops), disk)
    PROVE  /\ StaleSet(next) = StaleSet(ops) /\ ClosedBelow(next)
           /\ Numbered(next, StaleSet(next), disk)
<1> DEFINE I == StaleSet(ops)
           N == Len(ops)
<1>1. N \in Nat /\ Len(next) = N + 1 BY DEF JournalSound
<1>2. \A i \in 1..(N + 1) : i \in 1..N \/ i = N + 1 BY <1>1
<1>3. \A i \in 1..N : i \in 1..(N + 1) BY <1>1
<1>4. StaleSet(next) = I
  <2>1. \A i \in 1..Len(next) : next[i].created => i \in 1..N /\ next[i] = ops[i] BY <1>1, <1>2
  <2> QED BY <1>1, <1>3, <2>1 DEF StaleSet
<1>5. \A k \in I : k \in 1..N /\ next[k] = ops[k] BY DEF StaleSet
<1>6. ASSUME NEW k \in I, NEW j \in 1..k PROVE next[j] = ops[j] BY <1>1, <1>5
<1>7. ClosedBelow(next) BY <1>4, <1>6 DEF ClosedBelow
<1> HIDE DEF I
<1>8. ASSUME I # {} PROVE next[1] = ops[1] BY <1>1, <1>5, <1>8
<1>9. ASSUME NEW k \in I PROVE NewGpt(next) <=> NewGpt(ops) BY <1>8 DEF NewGpt
<1>10. ASSUME NEW k \in I, NEW m \in 1..(next[k].part - 1) PROVE Taken(next, I, disk, m, k)
  <2>1. Taken(ops, I, disk, m, k) BY <1>5 DEF Numbered, I
  <2>2. CASE \E j \in I : j < k /\ ops[j].part = m BY <1>5, <2>2 DEF Taken
  <2>3. CASE \E d \in 1..N : k < d /\ Deletes(ops, d, m)
    BY <1>1, <1>3, <2>3 DEF Taken, Deletes
  <2>4. CASE /\ Has(disk, m) /\ (\A d \in 1..N : ~Deletes(ops, d, m)) /\ ops[1].kind # "new_table"
    <3>1. CASE Deletes(next, N + 1, m)
      <4>1. N + 1 \in 1..Len(next) /\ k < N + 1 BY <1>1, <1>5
      <4> QED BY <3>1, <4>1 DEF Taken
    <3>2. CASE ~Deletes(next, N + 1, m)
      <4>1. \A d \in 1..Len(next) : ~Deletes(next, d, m) BY <1>1, <1>2, <2>4, <3>2 DEF Deletes
      <4> QED BY <1>8, <2>4, <4>1 DEF Taken
    <3> QED BY <3>1, <3>2
  <2>5. CASE m = 1 /\ NewGpt(ops) BY <1>9, <2>5 DEF Taken
  <2> QED BY <2>1, <2>2, <2>3, <2>4, <2>5 DEF Taken
<1>11. Numbered(ops, I, disk) BY DEF I
<1>12. /\ \A i, j \in I : next[i].part = next[j].part => i = j
       /\ \A k \in I : next[k].part # 0 /\ (NewGpt(next) => next[k].part # 1)
       /\ \A k \in I : \A p \in disk : p.part = next[k].part => p.from = next[k].from
  BY <1>5, <1>9, <1>11 DEF Numbered
<1>13. Numbered(next, I, disk) BY <1>10, <1>12 DEF Numbered
<1> QED BY <1>4, <1>7, <1>13 DEF I

\* A journal without executed creates records no numbers.
LEMMA NothingStale ==
    ASSUME NEW ops, NEW disk, StaleSet(ops) = {}
    PROVE  ClosedBelow(ops) /\ Numbered(ops, StaleSet(ops), disk)
BY DEF ClosedBelow, Numbered

\* Staging keeps LossInv: only a journal that was not committed loses operations.
LEMMA StagingLoses ==
    ASSUME EditorInv, LossInv, Staging
    PROVE  LossInv'
<1>1. /\ edPos = 0 /\ edPos' = edPos /\ edRun' = edRun /\ edDisk' = edDisk /\ edReply' = edReply
      /\ edBackup' = edBackup /\ edIntact' = edIntact /\ edTableType' = edTableType
  BY DEF Staging, NewTable, StageCreate, StageEdit, Stage, RemovePending, RollbackMetadata,
         Request, Idle, commit
<1> SUFFICES StaleInv' BY <1>1 DEF LossInv
<1>2. StaleInv BY DEF LossInv
<1>3. JournalSound(edOps) BY DEF EditorInv, EditorTypes
<1>4. NoOp \in [kind : {""}, index : Nat, part : Nat, from : Nat, size : Nat, fs : Text, mp : Text,
                created : BOOLEAN] /\ NoOp.created = FALSE
  BY StagedTyped DEF NoOp
<1>5. ASSUME StaleSet(edOps') = {} PROVE StaleInv'
  BY <1>1, <1>5, NothingStale DEF StaleInv
<1>6. StaleSet(<<>>) = {} BY DEF StaleSet
<1>7. JournalSound(<<>>) BY DEF JournalSound
<1>8. ASSUME NEW type \in {"gpt", "msdos"}, NewTable(type) PROVE StaleInv'
  <2> DEFINE op == [NoOp EXCEPT !.kind = "new_table", !.fs = type]
  <2>1. type \in Text /\ type \in TableTypes BY DEF Text, TableTypes
  <2>2. op \in Operation /\ op.kind = "new_table" /\ op.fs = type /\ op.created = FALSE
    BY <1>4, <2>1 DEF Operation
  <2>3. op.kind \notin EditKinds BY <2>2 DEF EditKinds
  <2>4. edOps' = add_op(<<>>, op) BY <1>8 DEF NewTable
  <2> HIDE DEF op
  <2>5. Len(edOps') = Len(<<>>) + 1 /\ edOps'[Len(<<>>) + 1].created = FALSE
    BY <1>7, <2>1, <2>2, <2>3, <2>4, AddOpKeeps
  <2>6. Len(edOps') = 1 /\ edOps'[1].created = FALSE BY <2>5
  <2>7. StaleSet(edOps') = {} BY <2>6 DEF StaleSet
  <2> QED BY <1>5, <2>7
<1>9. ASSUME NEW op \in Operation, Stage(op), op.kind # "new_table", op.created = FALSE,
             op.kind \in EditKinds => op.part # 0
      PROVE  StaleInv'
  <2>1. edOps' = add_op(edOps, op) /\ edCommitted' = edCommitted BY <1>9 DEF Stage
  <2>2. /\ Len(edOps') = Len(edOps) + 1 /\ edOps'[Len(edOps) + 1].created = FALSE
        /\ \A i \in 1..Len(edOps) : edOps'[i] = edOps[i]
    BY <1>3, <1>9, <2>1, AddOpKeeps
  <2>3. ClosedBelow(edOps) /\ Numbered(edOps, StaleSet(edOps), edDisk) BY <1>2 DEF StaleInv
  <2>4. /\ StaleSet(edOps') = StaleSet(edOps) /\ ClosedBelow(edOps')
        /\ Numbered(edOps', StaleSet(edOps'), edDisk)
    BY <1>3, <2>2, <2>3, StaleAppended
  <2> QED BY <1>1, <1>2, <2>1, <2>4 DEF StaleInv
<1>10. ASSUME NEW c \in StagedCreates, StageCreate(c) PROVE StaleInv'
  <2> DEFINE op == [NoOp EXCEPT !.kind = "create", !.from = c.from, !.size = c.size, !.fs = c.fs,
                                !.mp = c.mp]
  <2>1. c.from \in Nat /\ c.size \in Nat /\ c.fs \in Text /\ c.mp \in Text BY StagedTyped
  <2>2. op \in Operation /\ op.kind = "create" /\ op.created = FALSE BY <1>4, <2>1 DEF Operation
  <2>3. op.kind # "new_table" /\ op.kind \notin EditKinds BY <2>2 DEF EditKinds
  <2>4. Stage(op) BY <1>10 DEF StageCreate
  <2> HIDE DEF op
  <2> QED BY <1>9, <2>2, <2>3, <2>4
<1>11. ASSUME NEW e \in StagedEdits, StageEdit(e) PROVE StaleInv'
  <2> DEFINE op == [NoOp EXCEPT !.kind = e.kind, !.part = e.part, !.size = e.size, !.fs = e.fs,
                                !.mp = e.mp]
  <2>1. e.kind \in EditKinds /\ e.part \in Nat /\ e.size \in Nat /\ e.fs \in Text /\ e.mp \in Text
    BY StagedTyped
  <2>2. op \in Operation /\ op.kind = e.kind /\ op.part = e.part /\ op.created = FALSE
    BY <1>4, <2>1 DEF Operation
  <2>3. op.kind # "new_table" BY <2>1, <2>2 DEF EditKinds
  <2>4. Stage(op) /\ \E p \in edDisk : p.part = e.part BY <1>11 DEF StageEdit
  <2>5. e.part # 0 BY <2>4 DEF EditorInv, EditorTypes, DiskSound, Partition
  <2> HIDE DEF op
  <2> QED BY <1>9, <2>2, <2>3, <2>4, <2>5
<1>12. ASSUME NEW index \in Indices(edOps), RemovePending(index) PROVE StaleInv'
  <2>1. edOps' = remove_op(edOps, index) /\ ~edCommitted BY <1>12 DEF RemovePending
  <2>2. \A i \in 1..Len(edOps') : \E j \in 1..Len(edOps) : edOps'[i] = edOps[j]
    BY <1>3, <2>1, RemoveOpKeeps
  <2>3. StaleSet(edOps) = {} BY <1>2, <2>1 DEF StaleInv
  <2>4. StaleSet(edOps') = {} BY <2>2, <2>3 DEF StaleSet
  <2> QED BY <1>5, <2>4
<1>13. ASSUME RollbackMetadata PROVE StaleInv'
  <2>1. edOps' = <<>> BY <1>13 DEF RollbackMetadata
  <2> QED BY <1>5, <1>6, <2>1
<1> QED BY <1>8, <1>10, <1>11, <1>12, <1>13 DEF Staging

\* One more create has been executed, or the same ones.
LEMMA FreshGrows ==
    ASSUME EditorInv, EditorInv', MountInv, LossInv, NEW op, Executed(op)
    PROVE  /\ FreshSet' = IF op.kind = "create" THEN FreshSet \cup {edPos} ELSE FreshSet
           /\ edPos \notin FreshSet
           /\ \A i \in FreshSet : edRun'[i] = edRun[i]
           /\ NewGpt(edRun') <=> NewGpt(edOps)
           /\ NewGpt(edRun) <=> NewGpt(edOps)
           /\ edRun'[1].kind = edOps[1].kind /\ edRun[1].kind = edOps[1].kind
           /\ \A d \in 1..Len(edOps) : \A m : /\ Deletes(edRun', d, m) <=> Deletes(edOps, d, m)
                                              /\ Deletes(edRun, d, m) <=> Deletes(edOps, d, m)
<1>1. /\ edPos \in 1..Len(edOps) /\ Len(edRun) = Len(edOps) /\ Len(edRun) \in Nat
      /\ edPos' - 1 = edPos /\ edRun'[edPos] = op
      /\ \A i \in 1..Len(edRun) : i # edPos => edRun'[i] = edRun[i]
      /\ SameOp(edOps[edPos], op)
  BY ExecutedFacts
<1>2. /\ \A i \in 1..Len(edOps) : SameOp(edOps[i], edRun[i])
      /\ \A i \in FreshSet : i \in 1..Len(edOps) /\ i < edPos
  <2>1. edPos \in DOMAIN edRun BY DEF Executed
  <2> QED BY <2>1, FreshFacts
<1>3. \A i \in 1..Len(edOps) : SameOp(edOps[i], edRun'[i]) BY <1>1, <1>2
<1>4. edPos \notin FreshSet BY <1>1, <1>2
<1>5. \A i \in FreshSet : edRun'[i] = edRun[i] BY <1>1, <1>2, <1>4
<1>6. FreshSet' = IF op.kind = "create" THEN FreshSet \cup {edPos} ELSE FreshSet
  <2>1. 1..(edPos' - 1) = (1..(edPos - 1)) \cup {edPos}
    <3>1. 1..edPos = (1..(edPos - 1)) \cup {edPos} BY <1>1
    <3> QED BY <1>1, <3>1
  <2>2. \A i \in 1..(edPos - 1) : i \in 1..Len(edRun) /\ i # edPos BY <1>1
  <2>3. \A i \in 1..(edPos - 1) : edRun'[i] = edRun[i] BY <1>1, <2>2
  <2>4. FreshSet' = {i \in 1..(edPos' - 1) : edRun'[i].kind = "create"} BY DEF FreshSet
  <2> QED BY <1>1, <2>1, <2>3, <2>4 DEF FreshSet
<1>7. \A i \in 1..Len(edOps) :
         /\ edRun[i].kind = edOps[i].kind /\ edRun[i].fs = edOps[i].fs
         /\ edRun'[i].kind = edOps[i].kind /\ edRun'[i].fs = edOps[i].fs
         /\ edOps[i].kind = "delete" => edRun[i] = edOps[i] /\ edRun'[i] = edOps[i]
  BY <1>2, <1>3 DEF SameOp
<1>8. 1 \in 1..Len(edOps) BY <1>1
<1>9. /\ NewGpt(edRun') <=> NewGpt(edOps)
      /\ NewGpt(edRun) <=> NewGpt(edOps)
      /\ edRun'[1].kind = edOps[1].kind /\ edRun[1].kind = edOps[1].kind
  BY <1>7, <1>8 DEF NewGpt
<1>10. \A d \in 1..Len(edOps) : \A m : /\ Deletes(edRun', d, m) <=> Deletes(edOps, d, m)
                                       /\ Deletes(edRun, d, m) <=> Deletes(edOps, d, m)
  BY <1>7 DEF Deletes
<1> QED BY <1>4, <1>5, <1>6, <1>9, <1>10

\* The numbers this commit records are the ones it would give out again.
LEMMA FreshNumbered ==
    ASSUME EditorInv, EditorInv', MountInv, LossInv, NEW op, Executed(op)
    PROVE  Numbered(edRun', FreshSet', edDisk')
<1> DEFINE acc == Accounts[edPos - 1]
           I == FreshSet
           J == FreshSet'
           r == edRun'
<1>0. edPos \in DOMAIN edRun BY DEF Executed
<1>1. /\ edPos \in 1..Len(edOps) /\ Len(edRun) = Len(edOps) /\ Len(edRun) \in Nat
      /\ r[edPos] = op /\ Len(r) = Len(edRun) /\ op \in Operation /\ SameOp(edOps[edPos], op)
      /\ op.kind = "new_table" => edPos = 1
  BY ExecutedFacts
<1>2. /\ \A i \in I : i \in 1..Len(edOps) /\ i < edPos /\ Has(edDisk, edRun[i].part)
      /\ FreshInv /\ CurrentOp = edOps[edPos]
      /\ \A i \in I : edRun[i].part \in Nat \ {0}
  BY <1>0, FreshFacts, AtOperation
<1>3. /\ J = IF op.kind = "create" THEN I \cup {edPos} ELSE I
      /\ edPos \notin I /\ \A i \in I : r[i] = edRun[i]
      /\ NewGpt(r) <=> NewGpt(edOps)
      /\ NewGpt(edRun) <=> NewGpt(edOps)
      /\ r[1].kind = edOps[1].kind /\ edRun[1].kind = edOps[1].kind
      /\ \A d \in 1..Len(edOps) : \A m : /\ Deletes(r, d, m) <=> Deletes(edOps, d, m)
                                         /\ Deletes(edRun, d, m) <=> Deletes(edOps, d, m)
  BY FreshGrows
<1>4. Numbered(edRun, I, edDisk) BY <1>2 DEF FreshInv
<1>5. Moves(edDisk') BY ExecutedMoves
<1>6. op.kind = CurrentOp.kind /\ op.from = CurrentOp.from /\ (op.kind # "create" => op = CurrentOp)
  BY <1>1, <1>2 DEF SameOp
<1>7. ASSUME op.kind = "create"
      PROVE  /\ op.part = LowestFree /\ op.part \in Nat \ {0} /\ ~Has(edDisk, op.part)
             /\ \A n : Has(edDisk, n) => Has(edDisk', n)
             /\ edDisk' = edDisk \cup {NewPartition(op)}
  BY <1>7, ExecutedNumbers DEF Executed
<1>8. DiskSound(edDisk) BY DEF EditorInv, EditorTypes
<1> HIDE DEF r, J, acc
<1>9. ASSUME NEW i \in J, NEW j \in J, r[i].part = r[j].part PROVE i = j
  <2>1. ASSUME NEW k \in I, op.kind = "create" PROVE r[k].part # op.part BY <1>2, <1>3, <1>7, <2>1
  <2> QED BY <1>1, <1>3, <1>4, <1>9, <2>1 DEF Numbered
<1>10. ASSUME NEW k \in J PROVE r[k].part # 0 /\ (NewGpt(r) => r[k].part # 1)
  <2>1. CASE k \in I BY <1>3, <1>4, <2>1 DEF Numbered
  <2>2. CASE k = edPos /\ op.kind = "create"
    <3>1. NewGpt(edOps) => edPos # 1 BY <1>2, <1>6, <2>2 DEF NewGpt
    <3>2. NewGpt(edOps) => Has(edDisk, 1) BY <1>2, <3>1 DEF FreshInv
    <3> QED BY <1>1, <1>3, <1>7, <2>2, <3>2
  <2> QED BY <1>3, <2>1, <2>2
<1>11. ASSUME NEW k \in I, NEW m \in 1..(r[k].part - 1) PROVE Taken(r, J, edDisk', m, k)
  <2>0. Taken(edRun, I, edDisk, m, k) BY <1>3, <1>4 DEF Numbered
  <2>1. CASE \E j \in I : j < k /\ edRun[j].part = m BY <1>3, <2>1 DEF Taken
  <2>2. CASE \E d \in 1..Len(edRun) : k < d /\ Deletes(edRun, d, m) BY <1>1, <1>3, <2>2 DEF Taken
  <2>3. CASE /\ Has(edDisk, m) /\ (\A d \in 1..Len(edRun) : ~Deletes(edRun, d, m))
             /\ edRun[1].kind # "new_table"
    <3>1. ~Deletes(edOps, edPos, m) BY <1>1, <1>3, <2>3
    <3>2. CurrentOp.kind # "new_table" BY <1>1, <1>2, <1>3, <1>6, <2>3
    <3>3. Has(edDisk', m) BY <1>2, <1>5, <2>3, <3>1, <3>2 DEF Moves, Deletes
    <3> QED BY <1>1, <1>3, <2>3, <3>3 DEF Taken
  <2>4. CASE m = 1 /\ NewGpt(edRun) BY <1>3, <2>4 DEF Taken
  <2> QED BY <2>0, <2>1, <2>2, <2>3, <2>4 DEF Taken
<1>12. ASSUME op.kind = "create", NEW m \in 1..(op.part - 1) PROVE Taken(r, J, edDisk', m, edPos)
  <2>1. /\ \A n \in 1..(LowestFree - 1) : OnDisk(n)
    BY <1>8, LowestIsFree
  <2>2. m \in Nat \ {0} /\ OnDisk(m) BY <1>7, <1>12, <2>1
  <2>3. PICK p \in edDisk : p.part = m BY <2>2 DEF OnDisk
  <2>4. CASE \E i \in I : p.part = edRun[i].part
    BY <1>2, <1>3, <1>12, <2>3, <2>4 DEF Taken
  <2>5. CASE NewGpt(edOps) /\ p.part = 1 BY <1>3, <2>3, <2>5 DEF Taken
  <2>6. CASE p \in acc.alloc
    <3>1. Key(acc, m) BY <2>3, <2>6 DEF Key
    <3>2. Gone(edOps, acc, edPos - 1) BY <1>2 DEF FreshInv, acc
    <3>3. CASE \E d \in 1..Len(edOps) : Deletes(edOps, d, m)
      <4>1. PICK d \in 1..Len(edOps) : Deletes(edOps, d, m) BY <3>3
      <4>2. d \notin 1..(edPos - 1) BY <3>1, <3>2, <4>1 DEF Gone, Deletes
      <4>3. d # edPos BY <1>2, <1>6, <1>12, <4>1 DEF Deletes
      <4>4. edPos < d BY <1>1, <4>2, <4>3
      <4> QED BY <1>1, <1>3, <4>1, <4>4 DEF Taken
    <3>4. CASE \A d \in 1..Len(edOps) : ~Deletes(edOps, d, m)
      <4>1. edOps[1].kind # "new_table"
        <5>1. edPos = 1 => edOps[1].kind = "create" BY <1>2, <1>6, <1>12
        <5>2. edPos # 1 => edPos - 1 # 0 BY <1>1
        <5> QED BY <2>2, <3>1, <3>2, <5>1, <5>2 DEF Gone
      <4>2. Has(edDisk', m) BY <1>7, <1>12, <2>3 DEF Has
      <4> QED BY <1>1, <1>3, <3>4, <4>1, <4>2 DEF Taken
    <3> QED BY <3>3, <3>4
  <2> QED BY <1>2, <2>4, <2>5, <2>6 DEF FreshInv, DiskOrigin, acc
<1>13. ASSUME NEW k \in J, NEW p \in edDisk', p.part = r[k].part PROVE p.from = r[k].from
  <2>1. CASE k \in I
    <3>1. r[k] = edRun[k] /\ Has(edDisk, edRun[k].part) BY <1>2, <1>3, <2>1
    <3>2. CASE \E q \in edDisk : q.part = p.part /\ q.from = p.from
      BY <1>4, <1>13, <2>1, <3>1, <3>2 DEF Numbered
    <3>3. CASE CurrentOp.kind = "create" /\ p.part = LowestFree
      BY <1>6, <1>7, <1>13, <3>1, <3>3
    <3>4. CASE CurrentOp.kind = "new_table"
      <4>1. edPos = 1 BY <1>1, <1>6, <3>4
      <4> QED BY <1>2, <2>1, <4>1
    <3> QED BY <1>5, <3>2, <3>3, <3>4 DEF Moves
  <2>2. CASE k = edPos /\ op.kind = "create"
    <3>1. p \notin edDisk BY <1>1, <1>7, <1>13, <2>2 DEF Has
    <3>2. p = NewPartition(op) BY <1>7, <2>2, <3>1
    <3> QED BY <1>1, <2>2, <3>2 DEF NewPartition
  <2> QED BY <1>3, <2>1, <2>2
<1>14. \A k \in J : \A m \in 1..(r[k].part - 1) : Taken(r, J, edDisk', m, k)
  BY <1>1, <1>3, <1>11, <1>12
<1> QED BY <1>9, <1>10, <1>13, <1>14 DEF Numbered, r, J

\* The map and the disk after one more operation.
LEMMA FreshStep ==
    ASSUME EditorInv, EditorInv', MountInv, LossInv, NEW op, Executed(op)
    PROVE  FreshInv'
<1> DEFINE acc == Accounts[edPos - 1]
           next == Accounts[edPos]
           e == edOps[edPos]
           p == Found(op.part)
<1>0. edPos \in DOMAIN edRun BY DEF Executed
<1>1. /\ edPos \in 1..Len(edOps) /\ Len(edRun) = Len(edOps) /\ Len(edRun) \in Nat
      /\ edPos' = edPos + 1 /\ edPos' - 1 = edPos
      /\ edRun'[edPos] = op /\ edOps' = edOps /\ edBackup' = edBackup /\ Accounts' = Accounts
      /\ acc \in Account /\ next \in Account /\ Accepted(edOps, e, acc, next)
      /\ op \in Operation /\ e \in Operation /\ SameOp(e, op)
      /\ op.kind = "new_table" => edPos = 1
  BY ExecutedFacts
<1>2. /\ FreshInv /\ CommitInv /\ CurrentOp = e
      /\ \A i \in 1..Len(edOps) : edOps[i] \in Operation
  BY <1>0, FreshFacts, AtOperation
<1>3. /\ FreshSet' = IF op.kind = "create" THEN FreshSet \cup {edPos} ELSE FreshSet
      /\ edPos \notin FreshSet /\ \A i \in FreshSet : edRun'[i] = edRun[i]
  BY FreshGrows
<1>4. /\ op.kind = e.kind /\ op.fs = e.fs /\ op.from = e.from /\ op.size = e.size
      /\ (op.kind # "create" => op = e)
  BY <1>1 DEF SameOp
<1>5. op.kind \in {"new_table", "create"} \cup EditKinds /\ op.index \in Nat /\ e.index \in Nat
  BY <1>1 DEF Operation
<1>6. op.kind \in EditKinds =>
         /\ op.part \in Nat \ {0} /\ Key(acc, op.part) /\ p \in edDisk /\ p.part = op.part
         /\ p \in acc.alloc /\ (Counts(edOps, e) => EditAccepted(acc, op, p, next))
  BY ExecutedNumbers
<1>7. DiskSound(edDisk) BY DEF EditorInv, EditorTypes
<1>8. \A n \in Nat \ {0} : Key(next, n) => Key(acc, n) BY <1>1, KeysGo
<1>9. Moves(edDisk') BY ExecutedMoves
<1>10. op.kind \in EditKinds /\ op.kind # "set_mountpoint" => Counts(edOps, e)
  BY <1>4 DEF Counts
<1>11. p \in edDisk => p \in Partition BY <1>7 DEF DiskSound
<1> HIDE DEF acc, next, e, p
<1>12. ASSUME NEW i \in FreshSet'
       PROVE  edRun'[i].created /\ (i \in StaleSet(edOps) => edRun'[i].part = edOps[i].part)
  <2>1. CASE i \in FreshSet BY <1>2, <1>3, <2>1 DEF FreshInv
  <2>2. CASE i = edPos /\ op.kind = "create"
    <3>1. op.created /\ op.part = LowestFree /\ ~Blocked(op.from, op.from + op.size)
      BY <2>2 DEF Executed
    <3>2. ~Blocked(CurrentOp.from, CurrentOp.from + CurrentOp.size) /\ CurrentOp.kind = "create"
      BY <1>2, <1>4, <2>2, <3>1
    <3>3. edPos \in StaleSet(edOps) => LowestFree = edOps[edPos].part BY <1>0, <3>2, CreateNumber
    <3> QED BY <1>1, <2>2, <3>1, <3>3
  <2> QED BY <1>3, <2>1, <2>2
<1>13. DiskOrigin(edDisk', next, edRun', edOps, FreshSet')
  <2> SUFFICES ASSUME NEW x \in edDisk'
               PROVE  \/ x \in next.alloc
                      \/ \E i \in FreshSet' : x.part = edRun'[i].part
                      \/ NewGpt(edOps) /\ x.part = 1
    BY DEF DiskOrigin
  <2>1. ASSUME x \in edDisk, x \in acc.alloc => x \in next.alloc
        PROVE  \/ x \in next.alloc
               \/ \E i \in FreshSet' : x.part = edRun'[i].part
               \/ NewGpt(edOps) /\ x.part = 1
    BY <1>2, <1>3, <2>1 DEF FreshInv, DiskOrigin, acc
  <2>2. CASE op.kind = "new_table"
    <3>1. edDisk' = IF op.fs # "gpt" THEN {}
                    ELSE {[part |-> 1, from |-> BiosStart, to |-> BiosStart + BiosCreated,
                           fs |-> "bios_grub"]}
      BY <2>2 DEF Executed
    <3>2. x.part = 1 /\ op.fs = "gpt" BY <3>1
    <3>3. NewGpt(edOps) BY <1>1, <1>4, <2>2, <3>2 DEF NewGpt, e
    <3> QED BY <3>2, <3>3
  <2>3. CASE op.kind = "create"
    <3>1. edDisk' = edDisk \cup {NewPartition(op)} /\ op.part = LowestFree BY <2>3 DEF Executed
    <3>2. next.alloc = acc.alloc \cup {NewRegion(e)} BY <1>1, <1>4, <2>3 DEF Accepted, CreateAccepted
    <3>3. x = NewPartition(op) => x.part = edRun'[edPos].part /\ edPos \in FreshSet'
      BY <1>1, <1>3, <2>3, <3>1 DEF NewPartition
    <3> QED BY <2>1, <3>1, <3>2, <3>3
  <2>4. CASE op.kind = "delete"
    <3>1. edDisk' = edDisk \ {p} BY <2>4 DEF Executed, p
    <3>2. EditAccepted(acc, op, p, next) BY <1>6, <1>10, <2>4 DEF EditKinds
    <3>3. next.alloc = acc.alloc \ {p} BY <2>4, <3>2 DEF EditAccepted
    <3> QED BY <2>1, <3>1, <3>3
  <2>5. CASE op.kind = "format"
    <3>1. edDisk' = (edDisk \ {p}) \cup {[p EXCEPT !.fs = op.fs]} BY <2>5 DEF Executed, p
    <3>2. EditAccepted(acc, op, p, next) BY <1>6, <1>10, <2>5 DEF EditKinds
    <3>3. next.alloc = (acc.alloc \ {p}) \cup {[p EXCEPT !.fs = op.fs]} BY <2>5, <3>2 DEF EditAccepted
    <3> QED BY <2>1, <3>1, <3>3
  <2>6. CASE op.kind = "resize"
    <3>1. edDisk' = (edDisk \ {p}) \cup {[p EXCEPT !.to = p.from + op.size]} BY <2>6 DEF Executed, p
    <3>2. EditAccepted(acc, op, p, next) BY <1>6, <1>10, <2>6 DEF EditKinds
    <3>3. next.alloc = (acc.alloc \ {p}) \cup {[p EXCEPT !.to = p.from + op.size]}
      BY <2>6, <3>2 DEF EditAccepted
    <3> QED BY <2>1, <3>1, <3>3
  <2>7. CASE op.kind = "set_mountpoint"
    <3>1. edDisk' = edDisk BY <2>7 DEF Executed
    <3>2. CASE Counts(edOps, e)
      <4>1. EditAccepted(acc, op, p, next) BY <1>6, <2>7, <3>2 DEF EditKinds
      <4>2. next.alloc = acc.alloc BY <2>7, <4>1 DEF EditAccepted
      <4> QED BY <2>1, <3>1, <4>2
    <3>3. CASE ~Counts(edOps, e)
      <4>1. next = acc BY <1>1, <3>3 DEF Accepted
      <4> QED BY <2>1, <3>1, <4>1
    <3> QED BY <3>2, <3>3
  <2> QED BY <1>5, <2>2, <2>3, <2>4, <2>5, <2>6, <2>7 DEF EditKinds
<1>14. MapOrigin(next, edBackup.parts)
  <2> DEFINE Origin(x) == \E b \in edBackup.parts : b.part = x.part /\ b.from = x.from /\ x.to <= b.to
  <2> SUFFICES ASSUME NEW x \in next.alloc, x.part > 0 PROVE Origin(x)
    BY DEF MapOrigin
  <2>1. ASSUME x \in acc.alloc PROVE Origin(x) BY <1>2, <2>1 DEF FreshInv, MapOrigin, acc
  <2>2. CASE op.kind = "new_table"
    <3>1. next.alloc = IF e.fs = "gpt" THEN {BiosRegion} ELSE {}
      BY <1>1, <1>4, <2>2 DEF Accepted, TableAccepted
    <3>2. x.part = 0 BY <3>1 DEF BiosRegion, BiosKey
    <3> QED BY <3>2
  <2>3. CASE op.kind = "create"
    <3>1. next.alloc = acc.alloc \cup {NewRegion(e)} BY <1>1, <1>4, <2>3 DEF Accepted, CreateAccepted
    <3>2. NewRegion(e).part < 0 /\ NewRegion(e).part \in Int BY <1>5 DEF NewRegion, NewKey
    <3>3. x # NewRegion(e) BY <3>2
    <3> QED BY <2>1, <3>1, <3>3
  <2>4. CASE op.kind = "set_mountpoint" /\ ~Counts(edOps, e)
    <3>1. next = acc BY <1>1, <2>4 DEF Accepted
    <3> QED BY <2>1, <3>1
  <2>5. CASE op.kind \in EditKinds /\ Counts(edOps, e)
    <3>1. EditAccepted(acc, op, p, next) /\ p \in acc.alloc /\ p \in Partition
      BY <1>6, <1>11, <2>5
    <3>2. p.from \in Nat /\ p.to \in Nat /\ p.part \in Nat \ {0} /\ op.size \in Nat /\ p.part > 0
      BY <1>1, <3>1 DEF Partition, Operation
    <3>3. PICK b \in edBackup.parts : b.part = p.part /\ b.from = p.from /\ p.to <= b.to
      BY <1>2, <3>1, <3>2 DEF FreshInv, MapOrigin, acc
    <3>4. b.to \in Nat BY DEF EditorInv, EditorTypes, DiskSound, Partition
    <3>5. CASE op.kind = "resize"
      <4> DEFINE q == [p EXCEPT !.to = p.from + op.size]
      <4>1. next.alloc = (acc.alloc \ {p}) \cup {q} /\ op.size <= p.to - p.from
        BY <3>1, <3>5 DEF EditAccepted
      <4>2. q.part = p.part /\ q.from = p.from /\ q.to = p.from + op.size BY <3>1 DEF Partition
      <4> HIDE DEF q
      <4>3. q.to <= b.to BY <3>2, <3>3, <3>4, <4>1, <4>2
      <4> QED BY <2>1, <3>3, <4>1, <4>2, <4>3
    <3>6. CASE op.kind = "format"
      <4> DEFINE q == [p EXCEPT !.fs = op.fs]
      <4>1. next.alloc = (acc.alloc \ {p}) \cup {q} BY <3>1, <3>6 DEF EditAccepted
      <4>2. q.part = p.part /\ q.from = p.from /\ q.to = p.to BY <3>1 DEF Partition
      <4> HIDE DEF q
      <4> QED BY <2>1, <3>3, <4>1, <4>2
    <3>7. CASE op.kind \in {"delete", "set_mountpoint"}
      <4>1. next.alloc \subseteq acc.alloc BY <3>1, <3>7 DEF EditAccepted
      <4> QED BY <2>1, <4>1
    <3> QED BY <2>5, <3>5, <3>6, <3>7 DEF EditKinds
  <2> QED BY <1>5, <1>10, <2>2, <2>3, <2>4, <2>5
<1>15. Gone(edOps, next, edPos)
  <2>1. Gone(edOps, acc, edPos - 1) BY <1>2 DEF FreshInv, acc
  <2>2. ASSUME NEW d \in 1..edPos, edOps[d].kind = "delete" PROVE ~Key(next, edOps[d].part)
    <3>1. CASE d # edPos
      <4>1. d \in 1..(edPos - 1) /\ d \in 1..Len(edOps) BY <1>1, <3>1
      <4>2. edOps[d].part \in Nat \ {0}
        <5>1. edOps[d].part \in Nat BY <1>2, <4>1 DEF Operation
        <5>2. edOps[d].kind \in EditKinds BY <2>2 DEF EditKinds
        <5> QED BY <4>1, <5>1, <5>2 DEF EditorInv, EditorTypes, JournalSound
      <4> QED BY <1>8, <2>1, <2>2, <4>1, <4>2 DEF Gone
    <3>2. CASE d = edPos
      <4>1. op.kind = "delete" /\ op = e BY <1>4, <2>2, <3>2 DEF e
      <4>2. op.kind \in EditKinds BY <4>1 DEF EditKinds
      <4>3. EditAccepted(acc, op, p, next) /\ op.part \in Nat \ {0} BY <1>6, <1>10, <4>1, <4>2
      <4>4. next.alloc = acc.alloc \ {p} BY <4>1, <4>3 DEF EditAccepted
      <4>5. ASSUME NEW q \in acc.alloc, q.part = op.part PROVE q = p
        <5>1. q.part > 0 BY <4>3, <4>5
        <5>2. q \in edDisk BY <1>2, <5>1 DEF CommitInv, Match, acc
        <5> QED BY <1>6, <1>7, <4>2, <4>5, <5>2 DEF DiskSound
      <4> QED BY <3>2, <4>1, <4>4, <4>5 DEF Key, e
    <3> QED BY <3>1, <3>2
  <2>3. ASSUME edOps[1].kind = "new_table", NEW m \in Nat \ {0} PROVE ~Key(next, m)
    <3>1. CASE edPos = 1
      <4>1. next.alloc = IF e.fs = "gpt" THEN {BiosRegion} ELSE {}
        BY <1>1, <2>3, <3>1 DEF Accepted, TableAccepted, e
      <4> QED BY <4>1 DEF Key, BiosRegion, BiosKey
    <3>2. CASE edPos # 1
      <4>1. edPos - 1 # 0 BY <1>1, <3>2
      <4> QED BY <1>8, <2>1, <2>3, <4>1 DEF Gone
    <3> QED BY <3>1, <3>2
  <2> QED BY <2>2, <2>3 DEF Gone
<1>16. ASSUME NewGpt(edOps) PROVE Has(edDisk', 1)
  <2>1. CASE edPos = 1
    <3>1. op.kind = "new_table" /\ op.fs = "gpt" BY <1>4, <1>16, <2>1 DEF NewGpt, e
    <3>2. edDisk' = {[part |-> 1, from |-> BiosStart, to |-> BiosStart + BiosCreated,
                      fs |-> "bios_grub"]}
      BY <3>1 DEF Executed
    <3> QED BY <3>2 DEF Has
  <2>2. CASE edPos # 1
    <3>1. Has(edDisk, 1) BY <1>2, <1>16, <2>2 DEF FreshInv
    <3>2. op.kind # "new_table" BY <1>1, <2>2
    <3>3. ~Key(acc, 1)
      <4>1. edPos - 1 # 0 BY <1>1, <2>2
      <4> QED BY <1>2, <1>16, <4>1 DEF FreshInv, Gone, NewGpt, acc
    <3>4. op.kind = "delete" => op.part # 1 BY <1>6, <3>3 DEF EditKinds
    <3> QED BY <1>2, <1>4, <1>9, <3>1, <3>2, <3>4 DEF Moves
  <2> QED BY <2>1, <2>2
<1>17. Numbered(edRun', FreshSet', edDisk') BY FreshNumbered
<1>18. Numbered(edOps, StaleSet(edOps), edBackup.parts) BY <1>2 DEF FreshInv
<1> QED BY <1>1, <1>12, <1>13, <1>14, <1>15, <1>16, <1>17, <1>18 DEF FreshInv, next

\* LossInv holds at the start.
LEMMA LossStarts ==
    ASSUME EditorInit PROVE LossInv
<1>1. edOps = <<>> /\ edPos = 0 /\ edReply.status = "none" BY DEF EditorInit, Reply
<1>2. StaleSet(edOps) = {} BY <1>1 DEF StaleSet
<1>3. StaleInv BY <1>2, NothingStale DEF StaleInv
<1> QED BY <1>1, <1>3 DEF LossInv

\* A commit starts with all data intact.
LEMMA CommitLoses ==
    ASSUME EditorInv, LossInv, Commit
    PROVE  LossInv'
<1>1. edPos = 0 /\ edOps' = edOps /\ edDisk' = edDisk /\ edCommitted' = edCommitted
  BY DEF Commit, Idle, staged
<1>2. StaleInv' BY <1>1 DEF LossInv, StaleInv
<1>3. CASE validate(edOps)
  <2>1. /\ edBackup' = [table |-> edTableType, parts |-> edDisk] /\ edRun' = edOps
        /\ edPos' = 1 /\ edReply' = Reply("none", "") /\ edIntact' = edDisk
    BY <1>3 DEF Commit
  <2>2. edBackup'.table = edTableType /\ edBackup'.parts = edDisk BY <2>1
  <2>3. DiskSound(edDisk) /\ edTableType \in TableTypes /\ JournalSound(edOps)
    BY DEF EditorInv, EditorTypes
  <2> DEFINE V == Validated(edDisk, edTableType, edOps)
  <2>4. Accounts' = V BY <1>1, <2>2 DEF Accounts
  <2>5. V[0].alloc = edDisk
    <3>1. V[0] = Unallocated(edDisk, edTableType) BY <2>3, ValidatedEquations
    <3> QED BY <2>3, <3>1, UnallocatedTyped
  <2> HIDE DEF V
  <2>6. edPos' - 1 = 0 /\ edPos' # 0 /\ FreshSet' = {}
    <3>1. edPos' = 1 BY <2>1
    <3>2. edPos' - 1 = 0 /\ edPos' # 0 /\ 1..(edPos' - 1) = {} BY <3>1
    <3> QED BY <3>2 DEF FreshSet
  <2>7. Numbered(edOps, StaleSet(edOps), edDisk) BY DEF LossInv, StaleInv
  <2>8. Numbered(edOps, {}, edDisk) BY DEF Numbered
  <2>9. DiskOrigin(edDisk, V[0], edOps, edOps, {}) BY <2>5 DEF DiskOrigin
  <2>10. MapOrigin(V[0], edDisk)
    <3>1. \A p \in edDisk : p.to <= p.to BY <2>3 DEF DiskSound, Partition
    <3> QED BY <2>5, <3>1 DEF MapOrigin
  <2>11. Gone(edOps, V[0], 0)
    <3>1. 1..0 = {} OBVIOUS
    <3> QED BY <3>1 DEF Gone
  <2>12. FreshInv'
    BY <1>1, <2>1, <2>2, <2>4, <2>6, <2>7, <2>8, <2>9, <2>10, <2>11 DEF FreshInv
  <2>13. LossExplained(edRun', edBackup'.parts, edIntact') BY <2>1, <2>2 DEF LossExplained
  <2> QED BY <1>2, <2>6, <2>12, <2>13 DEF LossInv
<1>4. CASE ~validate(edOps)
  <2>1. edReply' = Reply("errors", "") /\ edPos' = edPos BY <1>4 DEF Commit
  <2>2. edReply'.status = "errors" BY <2>1 DEF Reply
  <2> QED BY <1>1, <1>2, <2>1, <2>2 DEF LossInv
<1> QED BY <1>3, <1>4

\* The creates of this commit become the ones an earlier commit executed.
LEMMA CommitDoneLoses ==
    ASSUME EditorInv, LossInv, CommitDone
    PROVE  LossInv'
<1>1. JournalSound(edRun) /\ edPos \in 0 .. Len(edRun) + 1 BY DEF EditorInv, EditorTypes
<1>2. Len(edRun) \in Nat BY <1>1 DEF JournalSound
<1>3. edPos > Len(edRun) BY DEF CommitDone
<1>4. edPos # 0 /\ edPos - 1 = Len(edRun) BY <1>1, <1>2, <1>3
<1>5. /\ edOps' = edRun /\ edDisk' = edDisk /\ edCommitted' = TRUE /\ edPos' = 0
      /\ edReply' = Reply("ok", "")
  BY DEF CommitDone
<1>6. FreshInv BY <1>4 DEF LossInv
<1>7. StaleSet(edRun) = FreshSet
  <2>1. FreshSet = {i \in 1..Len(edRun) : edRun[i].kind = "create"} BY <1>4 DEF FreshSet
  <2>2. \A i \in FreshSet : edRun[i].created BY <1>6 DEF FreshInv
  <2> QED BY <2>1, <2>2 DEF StaleSet
<1>8. ClosedBelow(edRun)
  <2> SUFFICES ASSUME NEW k \in StaleSet(edRun), NEW j \in 1..k, edRun[j].kind = "create"
               PROVE  j \in StaleSet(edRun)
    BY DEF ClosedBelow
  <2>1. k \in 1..Len(edRun) BY DEF StaleSet
  <2>2. j \in 1..(edPos - 1) BY <1>2, <1>4, <2>1
  <2> QED BY <1>7, <2>2 DEF FreshSet
<1>9. Numbered(edRun, FreshSet, edDisk) BY <1>6 DEF FreshInv
<1>10. StaleInv' BY <1>5, <1>7, <1>8, <1>9 DEF StaleInv
<1>11. edReply'.status = "ok" BY <1>5 DEF Reply
<1> QED BY <1>5, <1>10, <1>11 DEF LossInv

\* An executed operation keeps LossInv.
LEMMA ExecutedLoses ==
    ASSUME EditorInv, EditorInv', MountInv, LossInv, NEW op, Executed(op)
    PROVE  LossInv'
<1>0. edPos \in DOMAIN edRun /\ SameOp(CurrentOp, op) BY DEF Executed
<1>1. /\ edPos' # 0 /\ edOps' = edOps /\ edBackup' = edBackup /\ edCommitted' = edCommitted
      /\ Len(edRun) = Len(edOps) /\ Len(edRun') = Len(edRun) /\ edPos \in 1..Len(edOps)
      /\ edRun'[edPos] = op /\ \A i \in 1..Len(edRun) : i # edPos => edRun'[i] = edRun[i]
      /\ op \in Operation
  BY ExecutedFacts
<1>2. StaleInv'
  <2>1. Moves(edDisk') BY ExecutedMoves
  <2>2. Numbered(edOps, StaleSet(edOps), edDisk') BY <1>0, <2>1, StaleKept
  <2> QED BY <1>1, <2>2 DEF LossInv, StaleInv
<1>3. FreshInv' BY FreshStep
<1>4. ASSUME ~edIrreversible' PROVE LossExplained(edRun', edBackup.parts, edIntact')
  <2>1. /\ op.kind = CurrentOp.kind /\ op.from = CurrentOp.from /\ op.size = CurrentOp.size
        /\ op.fs = CurrentOp.fs /\ (op.kind # "create" => op = CurrentOp)
    BY <1>0 DEF SameOp
  <2>2. op.kind \in {"new_table", "create"} \cup EditKinds /\ edIrreversible \in BOOLEAN
    BY <1>1 DEF Operation, EditorInv, EditorTypes
  <2>3. edIrreversible = FALSE
    BY <1>4, <2>2 DEF Executed, EditKinds
  <2>4. CostsOnly(edIntact')
    <3>1. CASE op.kind = "create"
      <4>1. edIntact' = SparedByCreate(op) BY <3>1 DEF Executed
      <4>2. SparedByCreate(op) = SparedByCreate(CurrentOp) BY <2>1 DEF SparedByCreate
      <4> QED BY <2>1, <3>1, <4>1, <4>2 DEF CostsOnly
    <3>2. CASE op.kind = "format"
      <4>1. /\ edIntact' = Spared(Found(op.part).from, Found(op.part).to)
            /\ edIrreversible' = (edIrreversible \/ ~CreatedHere(op.part))
        BY <3>2 DEF Executed
      <4>2. CreatedHere(op.part) BY <1>4, <4>1
      <4> QED BY <2>1, <3>2, <4>1, <4>2 DEF CostsOnly
    <3>3. CASE op.kind \in {"new_table", "delete", "set_mountpoint"}
      BY <3>3 DEF Executed, CostsOnly
    <3>4. op.kind # "resize" BY <1>4 DEF Executed
    <3> QED BY <2>2, <3>1, <3>2, <3>3, <3>4 DEF EditKinds
  <2>5. LossExplained(edRun, edBackup.parts, edIntact') BY <1>0, <2>3, <2>4, LossKept
  <2>6. \A i \in 1..Len(edRun) :
           edRun'[i].kind = edRun[i].kind /\ edRun'[i].from = edRun[i].from /\ edRun'[i].size = edRun[i].size
    BY <1>1, <2>1 DEF CurrentOp
  <2> QED BY <1>1, <2>5, <2>6 DEF LossExplained
<1> QED BY <1>1, <1>2, <1>3, <1>4 DEF LossInv

\* A failure leaves the disk as the operation left it, or the backup.
LEMMA FailureLoses ==
    ASSUME EditorInv, MountInv, LossInv, NEW disk, NEW intact, NEW irreversible,
           FailsWith(disk, intact, irreversible)
    PROVE  LossInv'
<1>0. edPos \in DOMAIN edRun BY DEF FailsWith
<1>1. PICK cause, table : Fail(cause, disk, table, intact, irreversible) BY DEF FailsWith
<1>2. /\ edPos' = 0 /\ edIntact' = intact /\ edOps' = edOps /\ edCommitted' = edCommitted
      /\ edBackup' = edBackup /\ edRun' = edRun
      /\ \/ edDisk' = disk /\ edReply' \in {Reply("irreversible", cause), Reply("recovery", cause)}
         \/ /\ ~irreversible /\ edDisk' = Restored(intact) /\ edTableType' = edBackup.table
            /\ edReply' = Reply("failed", cause)
  BY <1>1 DEF Fail, staged
<1>3. Numbered(edOps, StaleSet(edOps), disk) BY <1>0, FailureMoves, StaleKept
<1>4. /\ Numbered(edOps, StaleSet(edOps), Restored(intact))
      /\ Parts(Restored(intact)) = Parts(edBackup.parts)
  <2> DEFINE B == edBackup.parts
  <2>1. Numbered(edOps, StaleSet(edOps), B) BY <1>0, FreshFacts DEF FreshInv
  <2>2. DiskSound(B) BY DEF EditorInv, EditorTypes
  <2>3. Parts(Restored(intact)) = Parts(B) BY <2>2, RestoredSound
  <2> DEFINE f(q) == IF q \in intact THEN q ELSE [q EXCEPT !.fs = "lost"]
  <2>4. \A q \in B : f(q).part = q.part /\ f(q).from = q.from
    <3>1. \A q \in B : q \in Partition BY <2>2 DEF DiskSound
    <3> QED BY <3>1 DEF Partition
  <2>5. Restored(intact) = {f(q) : q \in B} BY DEF Restored
  <2> HIDE DEF f, B
  <2>6. \A p \in Restored(intact) : \E q \in B : q.part = p.part /\ q.from = p.from BY <2>4, <2>5
  <2>7. \A n : Has(B, n) => Has(Restored(intact), n) BY <2>4, <2>5 DEF Has
  <2>8. Numbered(edOps, StaleSet(edOps), Restored(intact)) BY <2>1, <2>6, <2>7, NumberedMoves
  <2> QED BY <2>3, <2>8 DEF B
<1>5. StaleInv' BY <1>2, <1>3, <1>4 DEF LossInv, StaleInv
<1>6. ASSUME ~irreversible PROVE LossReported(edRun, edBackup.parts, intact, edReply'.cause)
  <2>1. edIrreversible \in BOOLEAN BY DEF EditorInv, EditorTypes
  <2> DEFINE flag == edIrreversible \/ ~CreatedHere(CurrentOp.part)
             spared == Spared(Found(CurrentOp.part).from, Found(CurrentOp.part).to)
  <2>2. \/ intact = edIntact /\ (irreversible = edIrreversible \/ irreversible = TRUE)
        \/ /\ CurrentOp.kind = "create" /\ intact = SparedByCreate(CurrentOp)
           /\ irreversible = edIrreversible
        \/ CurrentOp.kind = "format" /\ intact = spared /\ irreversible = flag
        \/ /\ CurrentOp.kind = "resize" /\ intact = spared /\ irreversible = edIrreversible
           /\ edReply'.cause = "shrink"
    BY Zenon DEF FailsWith
  <2>3. ~edIrreversible BY <1>6, <2>2, Zenon
  <2>4. CurrentOp.kind = "format" /\ irreversible = flag => CreatedHere(CurrentOp.part)
    BY <1>6, Zenon
  <2>6. edIrreversible = FALSE BY <2>1, <2>3
  <2>5. CASE CurrentOp.kind = "resize" /\ intact = spared /\ edReply'.cause = "shrink"
    BY <1>0, <2>5, <2>6, ShrinkLoses
  <2>7. CASE ~(CurrentOp.kind = "resize" /\ intact = spared /\ edReply'.cause = "shrink")
    <3>1. CostsOnly(intact) BY <2>2, <2>4, <2>7 DEF CostsOnly
    <3>2. LossExplained(edRun, edBackup.parts, intact) BY <1>0, <2>6, <3>1, LossKept
    <3> QED BY <3>2 DEF LossExplained, LossReported
  <2> QED BY <2>5, <2>7
<1>7. \A s, c : Reply(s, c).status = s BY DEF Reply
<1>8. edReply'.status = "failed" =>
         ~irreversible /\ edDisk' = Restored(intact) /\ edTableType' = edBackup.table
  BY <1>2, <1>7
<1> QED BY <1>2, <1>4, <1>5, <1>6, <1>8 DEF LossInv

\* Every step keeps LossInv.
LEMMA LossStep ==
    ASSUME EditorInv, EditorInv', MountInv, LossInv, [EditorNext]_editorVars
    PROVE  LossInv'
<1>1. CASE UNCHANGED editorVars
  BY <1>1 DEF editorVars, LossInv, StaleInv, FreshInv, FreshSet, Accounts
<1>2. CASE EditorCrash
  <2>1. edOps' = <<>> /\ edPos' = 0 /\ edReply' = Reply("none", "") BY <1>2 DEF EditorCrash
  <2>0. StaleSet(<<>>) = {} BY DEF StaleSet
  <2>2. StaleSet(edOps') = {} /\ edReply'.status = "none"
    <3>1. \A s, c : Reply(s, c).status = s BY DEF Reply
    <3> QED BY <2>0, <2>1, <3>1
  <2>3. StaleInv' BY <2>2, NothingStale DEF StaleInv
  <2> QED BY <2>1, <2>2, <2>3 DEF LossInv
<1>3. CASE EmitFails
  <2>1. /\ edOps' = edOps /\ edCommitted' = edCommitted /\ edDisk' = edDisk /\ edPos' = 0
        /\ edReply' = Reply("aborted", "emit")
    BY <1>3 DEF EmitFails, staged
  <2>2. edReply'.status = "aborted" BY <2>1 DEF Reply
  <2> QED BY <2>1, <2>2 DEF LossInv, StaleInv
<1> QED BY <1>1, <1>2, <1>3, EditorSteps, StagingLoses, CommitLoses, CommitDoneLoses, ExecutedLoses,
           FailureLoses

\* A commit that fails without the flag has put the table back, and only a
\* create of the journal, or the shrink that failed midway, can have cost data,
\* however often the journal was committed before: a format that a recorded
\* number keeps from being flagged is of a partition which that create would
\* have overwritten.
THEOREM FailureRestores == EditorSpec => []RestoredOrFlagged
<1>1. ASSUME EditorInv, LossInv PROVE RestoredOrFlagged
  <2>1. edRun \in Seq(Operation) BY <1>1 DEF EditorInv, EditorTypes, JournalSound
  <2>2. DOMAIN edRun = 1..Len(edRun) BY <2>1
  <2> QED BY <1>1, <2>2 DEF LossInv, LossReported, RestoredOrFlagged
<1>2. EditorInit => EditorInv /\ MountInv /\ LossInv BY EditorStarts, MountStarts, LossStarts
<1>3. EditorInv /\ MountInv /\ LossInv /\ [EditorNext]_editorVars => EditorInv' /\ MountInv' /\ LossInv'
  BY EditorStep, MountStep, LossStep
<1> QED BY <1>1, <1>2, <1>3, PTL DEF EditorSpec
=============================================================================

------------------------ MODULE NvmeRefinementProofs ------------------------
(***************************************************************************)
(* A thread's I/O path implements BlockIO: queue, split, pool and polling  *)
(* loop are not to be seen.                                                *)
(***************************************************************************)
EXTENDS NvmeQueueProofs

----------------------------------------------------------------------------
(* What the refinement needs beyond the two invariants.                      *)

(* Pieces of a caller's buffer that two tasks of one call use: never the      *)
(* same.                                                                     *)
Apart(a, b) == a.slot + a.len <= b.slot \/ b.slot + b.len <= a.slot

Ordered(q) == \A i, j \in DOMAIN q : i < j => q[i].slot + q[i].len <= q[j].slot

SlotsApart ==
  /\ Ordered(ioc[Async].tasks) /\ Ordered(t)
  /\ \A x, y \in Cmds : x # y => Apart(x.task, y.task)
  /\ \A x \in Cmds, i \in DOMAIN t : Apart(x.task, t[i])

(* A write the controller has still to execute carries what its piece of the  *)
(* caller's buffer holds.                                                    *)
Loaded ==
  \A x \in flight : x.task.cmd = "write" =>
    \A k \in 1 .. x.task.len : mem[x.segs[k]] = buf[x.task.ioc][x.task.slot + k - 1]

(* The callback of a batch comes with the last command, and only then.       *)
Counting ==
  IF current = Async /\ ioc[Async].priv /\ ioc[Async].num_running = 0 THEN 1 ELSE 0

CallCount ==
  /\ ~ ioc[Sync].priv
  /\ \A x \in Cmds : x.task.return_code # 0 => x.task.ioc = Sync
  /\ \A i \in DOMAIN t : t[i].return_code # 0 => t[i].ioc = Sync
  /\ ~ Dead => called = Counting

RInv == SlotsApart /\ Loaded /\ CallCount

----------------------------------------------------------------------------
(* Pieces k of n from a on, all below m.                                     *)
LEMMA PieceArith ==
  ASSUME NEW a \in Nat, NEW n \in Nat, NEW m \in Nat, a + n <= m, NEW k \in 1 .. n
  PROVE  /\ a + k - 1 \in Nat /\ a + k - 1 \in 0 .. m - 1
         /\ a <= a + k - 1 /\ a + k - 1 < a + n /\ (a + k - 1) - a + 1 = k
         /\ a + k - 1 \in a .. a + n - 1
OBVIOUS

LEMMA PieceNumber ==
  ASSUME NEW a \in Nat, NEW n \in Nat, NEW s \in Nat, a <= s, s < a + n
  PROVE  /\ s - a + 1 \in 1 .. n /\ a + (s - a + 1) - 1 = s
         /\ s - a \in 0 .. n - 1 /\ a + (s - a) = s
OBVIOUS

LEMMA OffsetArith ==
  ASSUME NEW a \in Nat, NEW n \in Nat, NEW m \in Nat, a + n <= m, NEW k \in 0 .. n - 1
  PROVE  a + k \in Nat /\ a + k \in 0 .. m - 1 /\ a <= a + k /\ a + k < a + n
OBVIOUS

LEMMA SumArith == \A a, b \in Nat : a + b \in Nat
OBVIOUS

LEMMA ShiftArith ==
  ASSUME NEW a \in Nat, NEW b \in Nat, NEW k \in Int
  PROVE  b + ((a + k) - a + 1) - 1 = b + k
OBVIOUS

LEMMA AddedArith ==
  ASSUME NEW a \in Nat, NEW b \in Nat, NEW d \in Nat, a <= b
  PROVE  a <= b + d
OBVIOUS

LEMMA ApartArith ==
  ASSUME NEW a \in Nat, NEW n \in Nat, NEW b \in Nat, NEW m \in Nat, NEW s \in Nat,
         a + n <= b \/ b + m <= a, a <= s, s < a + n
  PROVE  ~ (b <= s /\ s < b + m)
OBVIOUS

----------------------------------------------------------------------------
(* How a request is cut: its tasks follow each other and leave nothing out.   *)

LEMMA LaterMultiple ==
  ASSUME NEW i \in Nat, NEW j \in Nat, i < j, NEW s \in Nat
  PROVE  i * s <= (j - 1) * s /\ i * s = (i - 1) * s + s
OBVIOUS

LEMMA SplitPieces ==
  ASSUME QueueAssumption, NEW c \in Ioc, NEW cmd \in {"write", "read"}, NEW off \in Lba,
         NEW len \in Nat \ {0}, NEW slot \in Nat, NEW rc \in {0, 1}
  PROVE  LET s == Split(c, cmd, off, len, slot, rc)
         IN  /\ Ordered(s)
             /\ \A k \in slot .. slot + len - 1 :
                  \E i \in DOMAIN s : s[i].slot <= k /\ k < s[i].slot + s[i].len
<1> DEFINE n == (len + SplitSegs - 1) \div SplitSegs
           s == Split(c, cmd, off, len, slot, rc)
           begin(i) == (i - 1) * SplitSegs
           size(i) == IF len - begin(i) < SplitSegs THEN len - begin(i) ELSE SplitSegs
<1>1. SplitSegs \in Nat \ {0}
  BY DEF QueueAssumption
<1>2. n \in Nat /\ len + SplitSegs - 1 < n * SplitSegs + SplitSegs
  <2>1. len + SplitSegs - 1 \in Nat
    BY <1>1
  <2> QED
    BY <1>1, <2>1, DivFacts
<1>3. DOMAIN s = 1 .. n /\ \A i \in 1 .. n : s[i].slot = slot + begin(i) /\ s[i].len = size(i)
  BY DEF Split
<1> HIDE DEF s
<1>4. ASSUME NEW i \in 1 .. n, NEW j \in 1 .. n, i < j
      PROVE  s[i].slot + s[i].len <= s[j].slot
  <2>1. i * SplitSegs <= begin(j) /\ i * SplitSegs = begin(i) + SplitSegs
    BY <1>1, <1>4, LaterMultiple
  <2>2. i * SplitSegs \in Nat /\ begin(i) \in Nat /\ begin(j) \in Nat
    BY <1>1
  <2> HIDE DEF begin, n
  <2>3. size(i) <= SplitSegs /\ size(i) \in Int
    BY <1>1, <2>2
  <2> HIDE DEF size
  <2>4. ASSUME NEW a \in Int, NEW b \in Int, NEW d \in Int, NEW e \in Int, e <= d, a + d <= b
        PROVE  slot + a + e <= slot + b
    BY <2>4
  <2>5. begin(i) + SplitSegs <= begin(j)
    BY <2>1
  <2>6. slot + begin(i) + size(i) <= slot + begin(j)
    BY <1>1, <2>2, <2>3, <2>4, <2>5
  <2> QED
    BY <1>3, <2>6
<1>5. ASSUME NEW k \in slot .. slot + len - 1
      PROVE  \E i \in 1 .. n : s[i].slot <= k /\ k < s[i].slot + s[i].len
  <2> DEFINE q == (k - slot) \div SplitSegs
  <2>1. k - slot \in Nat /\ k - slot < len
    BY <1>5
  <2>2. q \in Nat /\ q * SplitSegs <= k - slot /\ k - slot < q * SplitSegs + SplitSegs
    BY <1>1, <2>1, DivFacts
  <2>3. begin(q + 1) = q * SplitSegs /\ q * SplitSegs \in Nat
    BY <1>1, <2>2
  <2>4. q + 1 \in 1 .. n
    <3>1. CASE q + 1 > n
      <4>1. n * SplitSegs <= q * SplitSegs /\ n * SplitSegs \in Nat
        <5>1. CASE n = q
          BY <1>1, <1>2, <5>1
        <5>2. CASE n < q
          <6>1. /\ n * SplitSegs <= (q - 1) * SplitSegs
                /\ q * SplitSegs = (q - 1) * SplitSegs + SplitSegs
            BY <1>1, <1>2, <2>2, <5>2, LaterMultiple
          <6>2. (q - 1) * SplitSegs \in Int /\ n * SplitSegs \in Nat
            BY <1>1, <1>2, <2>2
          <6> HIDE DEF q, n
          <6> QED
            BY <1>1, <2>3, <6>1, <6>2
        <5> QED
          BY <1>2, <2>2, <3>1, <5>1, <5>2
      <4> HIDE DEF q, n
      <4> QED
        BY <1>1, <1>2, <2>1, <2>2, <2>3, <4>1
    <3> HIDE DEF q, n
    <3> QED
      BY <1>2, <2>2, <3>1
  <2> HIDE DEF q, n, begin
  <2>5. slot + begin(q + 1) <= k /\ k < slot + begin(q + 1) + size(q + 1)
    BY <1>1, <2>1, <2>2, <2>3
  <2> HIDE DEF size
  <2> QED
    BY <1>3, <2>4, <2>5
<1> QED
  BY <1>3, <1>4, <1>5 DEF s, Ordered

(* A request appended to the pending ones starts where they end.             *)
LEMMA PendingEnd ==
  ASSUME QueueAssumption, IInv, RInv, NEW i \in DOMAIN ioc[Async].tasks
  PROVE  ioc[Async].tasks[i].slot + ioc[Async].tasks[i].len <= NextSlot
<1> DEFINE q == ioc[Async].tasks
<1>1. q \in Seq(Task) /\ Ordered(q) /\ q # << >>
  BY DEF IInv, Shape, IocRecord, Ioc, RInv, SlotsApart
<1>2. NextSlot = q[Len(q)].slot + q[Len(q)].len
  BY <1>1 DEF NextSlot
<1> HIDE DEF q
<1>3. i \in 1 .. Len(q) /\ Len(q) \in DOMAIN q /\ Len(q) \in Nat
  BY <1>1 DEF q
<1>4. q[i] \in Task /\ q[Len(q)] \in Task
  BY <1>1, <1>3
<1>5. /\ q[i].slot \in Nat /\ q[i].len \in Nat
      /\ q[Len(q)].slot \in Nat /\ q[Len(q)].len \in Nat
  BY <1>4 DEF Task, Slot, QueueAssumption
<1>6. CASE i = Len(q)
  BY <1>2, <1>6 DEF q
<1>7. CASE i < Len(q)
  <2>1. q[i].slot + q[i].len <= q[Len(q)].slot
    BY <1>1, <1>3, <1>7 DEF Ordered
  <2>2. q[i].slot + q[i].len \in Nat
    BY <1>5, SumArith
  <2>3. q[i].slot + q[i].len <= q[Len(q)].slot + q[Len(q)].len
    BY <1>5, <2>1, <2>2, AddedArith
  <2>4. q[i].slot + q[i].len <= NextSlot
    BY <1>2, <2>3 DEF q
  <2> QED
    BY <2>4 DEF q
<1> QED
  BY <1>3, <1>6, <1>7

LEMMA ConcatOrdered ==
  ASSUME NEW q \in Seq(Task), NEW r \in Seq(Task), Ordered(q), Ordered(r), NEW n \in Nat,
         QueueAssumption,
         \A i \in DOMAIN q : q[i].slot + q[i].len <= n,
         \A i \in DOMAIN r : n <= r[i].slot
  PROVE  Ordered(q \o r)
<1> DEFINE z == q \o r
<1>1. /\ Len(q) \in Nat /\ Len(r) \in Nat /\ DOMAIN z = 1 .. Len(q) + Len(r)
      /\ DOMAIN q = 1 .. Len(q) /\ DOMAIN r = 1 .. Len(r)
      /\ \A i \in 1 .. Len(q) : z[i] = q[i]
      /\ \A i \in Len(q) + 1 .. Len(q) + Len(r) : z[i] = r[i - Len(q)]
  OBVIOUS
<1> HIDE DEF z
<1>2. /\ \A i \in DOMAIN q : q[i].slot \in Nat /\ q[i].len \in Nat
      /\ \A i \in DOMAIN r : r[i].slot \in Nat /\ r[i].len \in Nat
  <2>1. \A task \in Task : task.slot \in Nat /\ task.len \in Nat
    BY DEF Task, Slot, QueueAssumption
  <2>2. (\A i \in DOMAIN q : q[i] \in Task) /\ (\A i \in DOMAIN r : r[i] \in Task)
    OBVIOUS
  <2> QED
    BY <2>1, <2>2
<1> SUFFICES ASSUME NEW i \in DOMAIN z, NEW j \in DOMAIN z, i < j
             PROVE  z[i].slot + z[i].len <= z[j].slot
  BY DEF z, Ordered
<1>3. CASE j <= Len(q)
  <2>1. i \in DOMAIN q /\ j \in DOMAIN q /\ z[i] = q[i] /\ z[j] = q[j]
    BY <1>1, <1>3
  <2> QED
    BY <2>1 DEF Ordered
<1>4. CASE i > Len(q)
  <2>1. i \in Len(q) + 1 .. Len(q) + Len(r) /\ j \in Len(q) + 1 .. Len(q) + Len(r)
    BY <1>1, <1>4
  <2>2. i - Len(q) \in 1 .. Len(r) /\ j - Len(q) \in 1 .. Len(r) /\ i - Len(q) < j - Len(q)
    BY <1>1, <2>1
  <2>3. z[i] = r[i - Len(q)] /\ z[j] = r[j - Len(q)]
    BY <1>1, <2>1
  <2> QED
    BY <1>1, <2>2, <2>3 DEF Ordered
<1>5. CASE i <= Len(q) /\ j > Len(q)
  <2>1. i \in DOMAIN q /\ j - Len(q) \in DOMAIN r /\ z[i] = q[i] /\ z[j] = r[j - Len(q)]
    BY <1>1, <1>5
  <2> QED
    BY <1>2, <2>1
<1> QED
  BY <1>1, <1>3, <1>4, <1>5

----------------------------------------------------------------------------
(* The calls keep it: nothing is in the queue when one begins.               *)

LEMMA TaskNats == 
  ASSUME QueueAssumption
  PROVE  \A task \in Task : task.slot \in Nat /\ task.len \in Nat \ {0} /\ task.off \in Nat
BY DEF Task, Slot, Lba, QueueAssumption

LEMMA IocsDiffer ==
  /\ Ioc = {Sync, Async} /\ Async # Sync /\ Nobody \notin Ioc
BY DEF Ioc, Sync, Async, Nobody

LEMMA EmptyOrdered == Ordered(<< >>)
BY DEF Ordered

LEMMA SubmitR ==
  ASSUME QueueAssumption, IInv, RInv, pc = "idle", NEW c \in Ioc, NEW tasks \in Seq(Task),
         aio_submit(c, tasks), Ordered(tasks), tasks # << >>,
         \A i \in DOMAIN tasks : tasks[i].return_code # 0 => tasks[i].ioc = Sync
  PROVE  RInv'
<1>1. /\ t' = tasks /\ current' = c /\ called' = 0 /\ pc' = "while"
      /\ ioc' = [ioc EXCEPT ![c].tasks = << >>, ![c].num_pending = 0,
                            ![c].num_running = @ + Len(tasks)]
      /\ UNCHANGED <<flight, cq>>
  BY DEF aio_submit
<1>2. flight' = {} /\ Cmds' = {} /\ \A d \in Ioc : ioc[d].num_running = 0
  BY <1>1, IdleFacts DEF Cmds
<1>3. /\ ioc \in [Ioc -> IocRecord] /\ Len(tasks) \in Nat \ {0}
  BY DEF IInv, Shape
<1>4. /\ ioc'[c].tasks = << >> /\ ioc'[c].priv = ioc[c].priv
      /\ ioc'[c].num_running = Len(tasks)
      /\ \A d \in Ioc : d # c => ioc'[d] = ioc[d]
  BY <1>1, <1>2, <1>3 DEF IocRecord
<1>5. SlotsApart'
  <2>1. Ordered(ioc'[Async].tasks)
    BY <1>4, EmptyOrdered, IocsDiffer DEF RInv, SlotsApart
  <2> QED
    BY <1>1, <1>2, <2>1 DEF SlotsApart, Ordered
<1>6. Loaded'
  BY <1>2 DEF Loaded
<1>7. CallCount'
  <2>1. ~ ioc'[Sync].priv
    BY <1>4, IocsDiffer DEF RInv, CallCount
  <2>2. Counting' = 0
    BY <1>1, <1>3, <1>4 DEF Counting
  <2> QED
    BY <1>1, <1>2, <2>1, <2>2 DEF CallCount
<1> QED
  BY <1>5, <1>6, <1>7 DEF RInv

LEMMA WriteR ==
  ASSUME QueueAssumption, IInv, RInv, NEW off \in Lba, NEW f \in Contents, write(off, f)
  PROVE  RInv'
<1> DEFINE tasks == Split(Sync, "write", off, Len(f), 0, 0)
<1>1. Len(f) \in Nat \ {0} /\ Len(f) <= Slots /\ Slots \in Nat
  BY DEF QueueAssumption
<1>2. off + Len(f) <= Size /\ pc = "idle" /\ aio_submit(Sync, tasks)
  BY DEF write, valid_io
<1>3. IsCut(tasks, Sync, "write", Len(f), 0, 0) /\ Ordered(tasks)
  <2>1. Sync \in Ioc /\ "write" \in {"write", "read"} /\ 0 \in Nat /\ 0 \in {0, 1}
        /\ 0 + Len(f) <= Slots
    BY <1>1, IocsDiffer
  <2>2. IsCut(tasks, Sync, "write", Len(f), 0, 0)
    BY <1>1, <1>2, <2>1, SplitFacts
  <2>3. Ordered(tasks)
    BY <1>1, <2>1, SplitPieces
  <2> QED
    BY <2>2, <2>3
<1> HIDE DEF tasks
<1>4. tasks \in Seq(Task) /\ tasks # << >> /\ \A i \in DOMAIN tasks : tasks[i].ioc = Sync
  BY <1>3 DEF IsCut
<1> QED
  BY <1>2, <1>3, <1>4, SubmitR, IocsDiffer

LEMMA ReadR ==
  ASSUME QueueAssumption, IInv, RInv, NEW off \in Lba, NEW len \in 1 .. Slots, read(off, len)
  PROVE  RInv'
<1> DEFINE tasks == Split(Sync, "read", off, len, 0, 1)
<1>1. len \in Nat \ {0} /\ len <= Slots /\ Slots \in Nat
  BY DEF QueueAssumption
<1>2. off + len <= Size /\ pc = "idle" /\ aio_submit(Sync, tasks)
  BY DEF read, valid_io
<1>3. IsCut(tasks, Sync, "read", len, 0, 1) /\ Ordered(tasks)
  <2>1. Sync \in Ioc /\ "read" \in {"write", "read"} /\ 0 \in Nat /\ 1 \in {0, 1}
        /\ 0 + len <= Slots
    BY <1>1, IocsDiffer
  <2>2. IsCut(tasks, Sync, "read", len, 0, 1)
    BY <1>1, <1>2, <2>1, SplitFacts
  <2>3. Ordered(tasks)
    BY <1>1, <2>1, SplitPieces
  <2> QED
    BY <2>2, <2>3
<1> HIDE DEF tasks
<1>4. tasks \in Seq(Task) /\ tasks # << >> /\ \A i \in DOMAIN tasks : tasks[i].ioc = Sync
  BY <1>3 DEF IsCut
<1> QED
  BY <1>2, <1>3, <1>4, SubmitR, IocsDiffer

LEMMA SubmitPendingR ==
  ASSUME QueueAssumption, IInv, RInv, Submit
  PROVE  RInv'
<1> DEFINE tasks == ioc[Async].tasks
<1>1. pc = "idle" /\ aio_submit(Async, tasks) /\ ioc[Async].num_pending > 0 /\ Async \in Ioc
  BY DEF Submit, Ioc
<1>2. tasks \in Seq(Task) /\ Ordered(tasks) /\ ioc[Async].num_pending = Len(tasks)
  BY <1>1 DEF IInv, Shape, IocRecord, Counted, RInv, SlotsApart
<1>3. \A i \in DOMAIN tasks : tasks[i].return_code = 0
  BY DEF IInv, Staged
<1> HIDE DEF tasks
<1>4. tasks # << >>
  BY <1>1, <1>2
<1> QED
  BY <1>1, <1>2, <1>3, <1>4, SubmitR

LEMMA AppendR ==
  ASSUME QueueAssumption, IInv, RInv, pc = "idle", NEW tasks \in Seq(Task),
         Append_tasks(tasks), Ordered(tasks), \A i \in DOMAIN tasks : NextSlot <= tasks[i].slot
  PROVE  RInv'
<1>1. /\ ioc' = [ioc EXCEPT ![Async].tasks = @ \o tasks,
                            ![Async].num_pending = @ + Len(tasks)]
      /\ UNCHANGED <<pc, current, t, flight, cq, called>>
  BY DEF Append_tasks
<1>2. flight' = {} /\ Cmds' = {} /\ t' = << >> /\ current' = Nobody /\ current = Nobody
  BY <1>1, IdleFacts DEF Cmds
<1>3. ioc \in [Ioc -> IocRecord] /\ ioc[Async].tasks \in Seq(Task)
  BY DEF IInv, Shape, Ioc, IocRecord
<1>4. ioc'[Async].tasks = ioc[Async].tasks \o tasks /\ ioc'[Sync] = ioc[Sync]
  BY <1>1, <1>3, IocsDiffer DEF IocRecord
<1>5. Ordered(ioc[Async].tasks \o tasks)
  BY <1>3, PendingEnd, NextSlotFacts, ConcatOrdered DEF RInv, SlotsApart
<1>6. SlotsApart'
  BY <1>2, <1>4, <1>5, EmptyOrdered DEF SlotsApart
<1>7. Loaded'
  BY <1>2 DEF Loaded
<1>8. CallCount'
  BY <1>1, <1>2, <1>4, IocsDiffer DEF RInv, CallCount, Counting, Dead
<1> QED
  BY <1>6, <1>7, <1>8 DEF RInv

LEMMA AioWriteR ==
  ASSUME QueueAssumption, IInv, RInv, NEW off \in Lba, NEW f \in Contents, aio_write(off, f)
  PROVE  RInv'
<1> DEFINE tasks == Split(Async, "write", off, Len(f), NextSlot, 0)
<1>1. Len(f) \in Nat \ {0} /\ NextSlot \in Nat
  BY NextSlotFacts DEF QueueAssumption
<1>2. off + Len(f) <= Size /\ NextSlot + Len(f) <= Slots /\ pc = "idle" /\ Append_tasks(tasks)
  BY DEF aio_write, valid_io
<1>3. IsCut(tasks, Async, "write", Len(f), NextSlot, 0) /\ Ordered(tasks)
  <2>1. Async \in Ioc /\ "write" \in {"write", "read"} /\ 0 \in {0, 1}
    BY IocsDiffer
  <2>2. IsCut(tasks, Async, "write", Len(f), NextSlot, 0)
    BY <1>1, <1>2, <2>1, SplitFacts
  <2>3. Ordered(tasks)
    BY <1>1, <2>1, SplitPieces
  <2> QED
    BY <2>2, <2>3
<1> HIDE DEF tasks
<1>4. tasks \in Seq(Task) /\ \A i \in DOMAIN tasks : NextSlot <= tasks[i].slot
  BY <1>3 DEF IsCut
<1> QED
  BY <1>2, <1>3, <1>4, AppendR

LEMMA AioReadR ==
  ASSUME QueueAssumption, IInv, RInv, NEW off \in Lba, NEW len \in 1 .. Slots,
         aio_read(off, len)
  PROVE  RInv'
<1> DEFINE tasks == Split(Async, "read", off, len, NextSlot, 0)
<1>1. len \in Nat \ {0} /\ NextSlot \in Nat
  BY NextSlotFacts DEF QueueAssumption
<1>2. off + len <= Size /\ NextSlot + len <= Slots /\ pc = "idle" /\ Append_tasks(tasks)
  BY DEF aio_read, valid_io
<1>3. IsCut(tasks, Async, "read", len, NextSlot, 0) /\ Ordered(tasks)
  <2>1. Async \in Ioc /\ "read" \in {"write", "read"} /\ 0 \in {0, 1}
    BY IocsDiffer
  <2>2. IsCut(tasks, Async, "read", len, NextSlot, 0)
    BY <1>1, <1>2, <2>1, SplitFacts
  <2>3. Ordered(tasks)
    BY <1>1, <2>1, SplitPieces
  <2> QED
    BY <2>2, <2>3
<1> HIDE DEF tasks
<1>4. tasks \in Seq(Task) /\ \A i \in DOMAIN tasks : NextSlot <= tasks[i].slot
  BY <1>3 DEF IsCut
<1> QED
  BY <1>2, <1>3, <1>4, AppendR

LEMMA NewIOContextR ==
  ASSUME QueueAssumption, IInv, RInv, NewIOContext
  PROVE  RInv'
<1>1. PICK p \in BOOLEAN : ioc' = [ioc EXCEPT ![Async] = NewIoc(p)]
  BY DEF NewIOContext
<1>2. pc = "idle" /\ UNCHANGED <<pc, current, t, flight, cq, called>>
  BY DEF NewIOContext
<1>3. ioc'[Async].tasks = << >> /\ ioc'[Sync] = ioc[Sync]
  <2>1. ioc'[Async] = NewIoc(p) /\ ioc'[Sync] = ioc[Sync]
    BY <1>1, IocsDiffer DEF IInv, Shape
  <2> QED
    BY <2>1, NewIocFacts
<1>4. flight' = {} /\ Cmds' = {} /\ t' = << >> /\ current' = Nobody /\ current = Nobody
  BY <1>2, IdleFacts DEF Cmds
<1>5. SlotsApart'
  BY <1>3, <1>4, EmptyOrdered DEF SlotsApart
<1>6. Loaded' /\ CallCount'
  BY <1>2, <1>3, <1>4, IocsDiffer DEF Loaded, RInv, CallCount, Counting, Dead
<1> QED
  BY <1>5, <1>6 DEF RInv

(* A process that has just started.                                          *)
Started == Fresh /\ called = 0

LEMMA RFresh == Started => RInv
<1> SUFFICES ASSUME Fresh, called = 0 PROVE RInv
  BY DEF Started
<1>1. Cmds = {} /\ flight = {} /\ t = << >> /\ current = Nobody
  BY EmptyElems DEF Fresh, Cmds
<1>2. ioc[Async].tasks = << >> /\ ~ ioc[Sync].priv
  <2>1. PICK p \in BOOLEAN : ioc = [c \in Ioc |-> NewIoc(c = Async /\ p)]
    BY DEF Fresh
  <2> QED
    BY <2>1, IocsDiffer DEF NewIoc
<1> QED
  BY <1>1, <1>2, EmptyOrdered, IocsDiffer DEF RInv, SlotsApart, Loaded, CallCount, Counting

LEMMA RestartR == Restart => RInv'
<1>1. Started' => RInv'
  BY RFresh, PTL
<1>2. Restart => Started'
  BY DEF Restart, Started, Fresh
<1> QED
  BY <1>1, <1>2

LEMMA LoopR ==
  ASSUME RInv, UNCHANGED loop_vars, Dead => Dead'
  PROVE  RInv'
<1>1. Cmds' = Cmds
  BY DEF Cmds, loop_vars
<1> QED
  BY <1>1 DEF RInv, SlotsApart, Loaded, CallCount, Counting, loop_vars

LEMMA ReturnR ==
  ASSUME QueueAssumption, IInv, RInv, Return
  PROVE  RInv'
<1>1. /\ pc = "while" /\ ioc[current].num_running = 0 /\ current' = Nobody /\ called' = 0
      /\ UNCHANGED <<t, ioc, flight, cq>>
  BY DEF Return
<1>2. flight' = {} /\ Cmds' = {} /\ t' = << >>
  BY <1>1, NothingLeft DEF Cmds
<1> QED
  BY <1>1, <1>2, EmptyOrdered, IocsDiffer DEF RInv, SlotsApart, Loaded, CallCount, Counting

----------------------------------------------------------------------------
(* The loop and the controller keep it.                                      *)

(* No step of the loop gives a context tasks or another priv.                *)
LEMMA FinishedPriv ==
  ASSUME IInv, NEW c \in Ioc, NEW n
  PROVE  Finished(c, n).priv = ioc[c].priv
<1> DEFINE r == ioc[c]
<1>1. r \in IocRecord
  BY DEF IInv, Shape
<1> HIDE DEF r
<1>2. [r EXCEPT !.num_running = @ - 1, !.total_nseg = @ - n,
                !.alive = ~ (CallbackDestroys /\ LastOne(c))].priv = r.priv
  BY <1>1 DEF IocRecord
<1> QED
  BY <1>2 DEF Finished, r

ContextsStay == \A c \in Ioc : ioc'[c].tasks = ioc[c].tasks /\ ioc'[c].priv = ioc[c].priv

LEMMA FinishedStays ==
  ASSUME IInv, NEW x, NEW n, x.task.ioc \in Ioc,
         ioc' = [ioc EXCEPT ![x.task.ioc] = Finished(x.task.ioc, n)]
  PROVE  ContextsStay
<1>1. ioc \in [Ioc -> IocRecord]
  BY DEF IInv, Shape
<1>2. /\ ioc'[x.task.ioc] = Finished(x.task.ioc, n)
      /\ \A c \in Ioc : c # x.task.ioc => ioc'[c] = ioc[c]
  BY <1>1
<1> QED
  BY <1>2, FinishedTasks, FinishedPriv DEF ContextsStay

(* The number of commands a call waits for, as num_running has it.           *)
LEMMA CountingIs ==
  IInv => Counting = IF current = Async /\ ioc[Async].priv /\ left = 0 THEN 1 ELSE 0
BY IocsDiffer DEF IInv, Counted, Counting

LEMMA CountingIsNext ==
  ASSUME IInv'
  PROVE  Counting' = IF current' = Async /\ ioc'[Async].priv /\ left' = 0 THEN 1 ELSE 0
BY IocsDiffer DEF IInv, Counted, Counting

(* Where a command has its data, in the caller's buffer and in the pool.     *)
Covers(x, s) == x.task.slot <= s /\ s < x.task.slot + x.task.len

LEMMA ApartCovers ==
  ASSUME QueueAssumption, IInv, RInv, NEW x \in Cmds, NEW y \in Cmds, x # y, NEW s \in Nat,
         Covers(x, s)
  PROVE  ~ Covers(y, s)
<1>1. x.task \in Task /\ y.task \in Task
  BY OwnerFacts DEF Owners
<1>2. /\ x.task.slot \in Nat /\ x.task.len \in Nat /\ y.task.slot \in Nat /\ y.task.len \in Nat
  BY <1>1, TaskNats
<1>3. Apart(x.task, y.task)
  BY DEF RInv, SlotsApart
<1>4. /\ x.task.slot <= s /\ s < x.task.slot + x.task.len
      /\ x.task.slot + x.task.len <= y.task.slot \/ y.task.slot + y.task.len <= x.task.slot
  BY <1>3 DEF Apart, Covers
<1>5. ~ (y.task.slot <= s /\ s < y.task.slot + y.task.len)
  BY <1>2, <1>4, ApartArith
<1> QED
  BY <1>5 DEF Covers

(* The pieces of a command, by their number.                                 *)
LEMMA PieceFacts ==
  ASSUME QueueAssumption, IInv, DataInv, NEW x \in Owners, NEW k \in 1 .. x.task.len
  PROVE  /\ x.task.slot + k - 1 \in Slot /\ Covers(x, x.task.slot + k - 1)
         /\ x.segs[k] \in Used(x) /\ x.segs[k] \in Buf
<1>1. /\ x.task.slot \in Nat /\ x.task.len \in Nat /\ x.segs[k] \in Used(x)
      /\ Used(x) \subseteq Buf
  BY OwnerFacts
<1>2. x.task.slot + x.task.len <= Slots /\ Slots \in Nat
  BY DEF DataInv, InBuffers, Fits, QueueAssumption
<1>3. /\ x.task.slot + k - 1 \in 0 .. Slots - 1
      /\ x.task.slot <= x.task.slot + k - 1
      /\ x.task.slot + k - 1 < x.task.slot + x.task.len
  BY <1>1, <1>2, PieceArith
<1> QED
  BY <1>1, <1>3 DEF Slot, Covers

LEMMA CoveredPiece ==
  ASSUME QueueAssumption, IInv, NEW x \in Owners, NEW s \in Slot, Covers(x, s)
  PROVE  /\ s - x.task.slot + 1 \in 1 .. x.task.len
         /\ x.segs[s - x.task.slot + 1] \in Used(x)
<1>1. /\ x.task.slot \in Nat /\ x.task.len \in Nat
      /\ \A k \in 1 .. x.task.len : x.segs[k] \in Used(x)
  BY OwnerFacts
<1>2. s - x.task.slot + 1 \in 1 .. x.task.len
  <2>1. s \in Nat
    BY DEF Slot, QueueAssumption
  <2>2. x.task.slot <= s /\ s < x.task.slot + x.task.len
    BY DEF Covers
  <2> QED
    BY <1>1, <2>1, <2>2, PieceNumber
<1> QED
  BY <1>1, <1>2

LEMMA LoadedKeeps ==
  ASSUME QueueAssumption, IInv, DataInv, RInv, flight' \subseteq flight,
         \A x \in flight' : \A b \in Used(x) : mem'[b] = mem[b],
         \A x \in flight' : \A s \in Slot :
            Covers(x, s) => buf'[x.task.ioc][s] = buf[x.task.ioc][s]
  PROVE  Loaded'
<1> SUFFICES ASSUME NEW x \in flight', x.task.cmd = "write", NEW k \in 1 .. x.task.len
             PROVE  mem'[x.segs[k]] = buf'[x.task.ioc][x.task.slot + k - 1]
  BY DEF Loaded
<1>1. x \in flight /\ x \in Owners
  BY DEF Owners, Cmds
<1>2. mem[x.segs[k]] = buf[x.task.ioc][x.task.slot + k - 1]
  BY <1>1 DEF RInv, Loaded
<1>3. x.task.slot + k - 1 \in Slot /\ Covers(x, x.task.slot + k - 1) /\ x.segs[k] \in Used(x)
  BY <1>1, PieceFacts
<1> QED
  BY <1>2, <1>3

(* Buffers of another command.                                               *)
LEMMA OthersBuffers ==
  ASSUME QueueAssumption, IInv, NEW x \in Owners, NEW y \in Owners, x # y, NEW b \in Used(y)
  PROVE  b \in Buf \ Used(x)
BY OwnerFacts DEF IInv, Owned, Partition

LEMMA CompletionR ==
  ASSUME QueueAssumption, IInv, IInv', DataInv, RInv, NEW x, NEW cmd, Completing(x, cmd),
         pc' # "aborted", ContextsStay,
         called' = IF x.task.return_code # 0 THEN called ELSE called_after(current),
         \A b \in Buf \ Used(x) : mem'[b] = mem[b],
         \A c \in Ioc, s \in Slot : ~ Covers(x, s) => buf'[c][s] = buf[c][s]
  PROVE  RInv'
<1>1. /\ pc = "process" /\ current \in Ioc /\ x \in Cmds /\ x \in Owners /\ Owners = Cmds
      /\ x.task.ioc = current /\ Cmds' = Cmds \ {x}
      /\ left' = left - 1 /\ left' \in Nat /\ left \in Nat
      /\ UNCHANGED <<current, t, flight>>
  BY CompletingFacts
<1>2. x \notin flight
  <2>1. cq \in Seq(Issued) /\ Distinct(cq) /\ Elems(cq) \cap flight = {}
    BY DEF IInv, Shape, Owned
  <2>2. cq # << >> /\ x = Head(cq)
    BY DEF Completing
  <2> QED
    BY <2>1, <2>2, TailElems
<1>3. SlotsApart'
  BY <1>1, IocsDiffer DEF RInv, SlotsApart, ContextsStay
<1>4. Loaded'
  <2>1. flight \subseteq Owners /\ flight \subseteq Cmds
    BY DEF Owners, Cmds
  <2>2. \A y \in flight : \A b \in Used(y) : mem'[b] = mem[b]
    BY <1>1, <1>2, <2>1, OthersBuffers
  <2>3. ASSUME NEW y \in flight, NEW s \in Slot, Covers(y, s)
        PROVE  buf'[y.task.ioc][s] = buf[y.task.ioc][s]
    <3>1. s \in Nat /\ y.task.ioc \in Ioc
      BY <2>1, OwnerFacts DEF Slot, Task, QueueAssumption
    <3>2. ~ Covers(x, s)
      BY <1>1, <1>2, <2>1, <2>3, <3>1, ApartCovers
    <3> QED
      BY <3>1, <3>2
  <2> QED
    BY <1>1, <2>2, <2>3, LoadedKeeps
<1>5. CallCount'
  <2>1. /\ ~ ioc'[Sync].priv
        /\ \A y \in Cmds' : y.task.return_code # 0 => y.task.ioc = Sync
        /\ \A i \in DOMAIN t' : t'[i].return_code # 0 => t'[i].ioc = Sync
    BY <1>1, IocsDiffer DEF RInv, CallCount, ContextsStay
  <2>2. called = Counting /\ ioc'[Async].priv = ioc[Async].priv /\ ~ ioc[Sync].priv
    BY <1>1, IocsDiffer DEF RInv, CallCount, ContextsStay, Dead
  <2>3. left >= 1 /\ called = 0
    BY <1>1, <2>2, CountingIs
  <2>4. LastOne(current) <=> ioc[current].priv /\ left = 1
    BY <1>1, <2>3, IocsDiffer DEF LastOne, IInv, Counted
  <2>5. called' = Counting'
    <3>1. CASE x.task.return_code # 0
      <4>1. current = Sync
        BY <1>1, <3>1 DEF RInv, CallCount
      <4>2. Counting' = 0
        BY <1>1, <4>1, CountingIsNext, IocsDiffer
      <4> QED
        BY <2>3, <3>1, <4>2
    <3>2. CASE x.task.return_code = 0 /\ LastOne(current)
      <4>1. current = Async /\ left' = 0 /\ ioc'[Async].priv
        BY <1>1, <2>2, <2>4, <3>2, IocsDiffer
      <4>2. Counting' = 1
        BY <1>1, <4>1, CountingIsNext
      <4> QED
        BY <2>3, <3>2, <4>2 DEF called_after
    <3>3. CASE x.task.return_code = 0 /\ ~ LastOne(current)
      <4>1. current = Async /\ ioc'[Async].priv => left' # 0
        BY <1>1, <2>2, <2>4, <3>3
      <4>2. Counting' = 0
        BY <1>1, <4>1, CountingIsNext
      <4> QED
        BY <2>3, <3>3, <4>2 DEF called_after
    <3> QED
      BY <3>1, <3>2, <3>3
  <2> QED
    BY <2>1, <2>5 DEF CallCount
<1> QED
  BY <1>3, <1>4, <1>5 DEF RInv

(* What fill_cb leaves alone, and what it brings.                            *)
LEMMA CopiedOutPieces ==
  ASSUME QueueAssumption, IInv, DataInv, NEW x \in Owners, NEW s \in Slot
  PROVE  /\ \A c \in Ioc : ~ (Covers(x, s) /\ c = x.task.ioc) => CopiedOut(x)[c][s] = buf[c][s]
         /\ Covers(x, s) => CopiedOut(x)[x.task.ioc][s] = mem[x.segs[s - x.task.slot + 1]]
<1>1. x.task.ioc \in Ioc /\ x.task.slot \in Nat /\ x.task.len \in Nat
  BY OwnerFacts DEF Task
<1>2. s \in Nat
  BY DEF Slot, QueueAssumption
<1>3. Covers(x, s) <=> s \in x.task.slot .. x.task.slot + x.task.len - 1
  BY <1>1, <1>2 DEF Covers
<1>4. buf \in [Ioc -> [Slot -> Data \cup {NoData}]]
  BY DEF DataInv, Typed, Bufs
<1>5. CopiedOut(x) = [buf EXCEPT ![x.task.ioc] =
        [u \in Slot |-> IF u \in x.task.slot .. x.task.slot + x.task.len - 1
                          THEN mem[x.segs[u - x.task.slot + 1]] ELSE buf[x.task.ioc][u]]]
  BY <1>1, <1>4 DEF CopiedOut
<1> QED
  BY <1>1, <1>3, <1>4, <1>5

LEMMA WriteCompletesR ==
  ASSUME QueueAssumption, IInv, IInv', DataInv, RInv, io_complete_write
  PROVE  RInv'
<1>1. PICK x : /\ Completing(x, "write")
               /\ ioc' = [ioc EXCEPT ![x.task.ioc] = Finished(x.task.ioc, 0)]
               /\ called' = called_after(x.task.ioc) /\ pc' = "release"
               /\ UNCHANGED <<mem, buf>>
  BY DEF io_complete_write
<1>2. x \in Owners /\ x.task.cmd = "write" /\ x.task.ioc = current /\ current \in Ioc
  BY <1>1, CompletingFacts
<1>3. x.task.return_code = 0
  BY <1>2 DEF IInv, OneKind, Kind, OfKind
<1>4. ContextsStay
  BY <1>1, <1>2, FinishedStays
<1> QED
  BY <1>1, <1>2, <1>3, <1>4, CompletionR

LEMMA AioReadCompletesR ==
  ASSUME QueueAssumption, IInv, IInv', DataInv, RInv, io_complete_aio_read
  PROVE  RInv'
<1>1. PICK x : /\ Completing(x, "read") /\ x.task.return_code = 0
               /\ buf' = CopiedOut(x) /\ release_segs(x)
               /\ ioc' = [ioc EXCEPT ![x.task.ioc] = Finished(x.task.ioc, Len(x.segs))]
               /\ called' = called_after(x.task.ioc) /\ pc' = pc
  BY DEF io_complete_aio_read
<1>2. x \in Owners /\ x.task.ioc = current /\ current \in Ioc /\ pc = "process"
  BY <1>1, CompletingFacts
<1>3. ContextsStay
  BY <1>1, <1>2, FinishedStays
<1>4. \A b \in Buf \ Used(x) : mem'[b] = mem[b]
  BY <1>1 DEF release_segs
<1>5. \A c \in Ioc, s \in Slot : ~ Covers(x, s) => buf'[c][s] = buf[c][s]
  BY <1>1, <1>2, CopiedOutPieces
<1> QED
  BY <1>1, <1>2, <1>3, <1>4, <1>5, CompletionR

LEMMA SyncReadCompletesR ==
  ASSUME QueueAssumption, IInv, IInv', DataInv, RInv, io_complete_read
  PROVE  RInv'
<1>1. PICK x : /\ Completing(x, "read") /\ x.task.return_code # 0
               /\ buf' = CopiedOut(x) /\ release_segs(x)
               /\ ioc' = [ioc EXCEPT ![x.task.ioc].num_running = @ - 1,
                                     ![x.task.ioc].total_nseg = @ - Len(x.segs)]
               /\ called' = called /\ pc' = pc
  BY DEF io_complete_read
<1>2. x \in Owners /\ x.task.ioc = current /\ current \in Ioc /\ pc = "process"
  BY <1>1, CompletingFacts
<1>3. ContextsStay
  <2>1. ioc \in [Ioc -> IocRecord]
    BY DEF IInv, Shape
  <2> QED
    BY <1>1, <1>2, <2>1 DEF IocRecord, ContextsStay
<1>4. \A b \in Buf \ Used(x) : mem'[b] = mem[b]
  BY <1>1 DEF release_segs
<1>5. \A c \in Ioc, s \in Slot : ~ Covers(x, s) => buf'[c][s] = buf[c][s]
  BY <1>1, <1>2, CopiedOutPieces
<1> QED
  BY <1>1, <1>2, <1>3, <1>4, <1>5, CompletionR

LEMMA ReleaseR ==
  ASSUME QueueAssumption, IInv, IInv', DataInv, RInv, ReleaseWrite
  PROVE  RInv'
<1>1. PICK x \in releasing :
        /\ release_segs(x) /\ pc = "release" /\ pc' = "process"
        /\ ioc' = [ioc EXCEPT ![x.task.ioc].total_nseg = @ - Len(x.segs)]
        /\ UNCHANGED <<current, t, flight, cq, current_queue_depth, buf, called>>
  BY DEF ReleaseWrite
<1>2. x \in Owners /\ x \notin Cmds /\ x.task.ioc \in Ioc
  <2>1. x \in Owners /\ x \notin Cmds
    BY <1>1 DEF IInv, Owned, Owners
  <2> QED
    BY <2>1, OwnerFacts DEF Task
<1>3. ContextsStay
  <2>1. ioc \in [Ioc -> IocRecord]
    BY DEF IInv, Shape
  <2> QED
    BY <1>1, <1>2, <2>1 DEF IocRecord, ContextsStay
<1>4. Cmds' = Cmds /\ left' = left
  BY <1>1 DEF Cmds, left
<1>5. SlotsApart'
  BY <1>1, <1>3, <1>4, IocsDiffer DEF RInv, SlotsApart, ContextsStay
<1>6. Loaded'
  <2>1. \A b \in Buf \ Used(x) : mem'[b] = mem[b]
    BY <1>1 DEF release_segs
  <2>2. flight \subseteq Owners /\ x \notin flight
    BY <1>2 DEF Owners, Cmds
  <2>3. \A y \in flight : \A b \in Used(y) : mem'[b] = mem[b]
    BY <1>2, <2>1, <2>2, OthersBuffers
  <2> QED
    BY <1>1, <2>3, LoadedKeeps
<1>7. CallCount'
  <2>1. Counting' = Counting
    BY <1>1, <1>3, <1>4, CountingIs, CountingIsNext, IocsDiffer DEF ContextsStay
  <2> QED
    BY <1>1, <1>3, <1>4, <2>1, IocsDiffer DEF RInv, CallCount, ContextsStay, Dead
<1> QED
  BY <1>5, <1>6, <1>7 DEF RInv

(* A command takes free buffers and, when it is a write, fills them.         *)
LEMMA IssueFacts ==
  ASSUME QueueAssumption, IInv, DataInv, Issue
  PROVE  \E y \in Issued :
           /\ y.task = Head(t) /\ flight' = flight \cup {y} /\ Cmds' = Cmds \cup {y}
           /\ \A x \in Owners : \A b \in Used(x) : mem'[b] = mem[b]
           /\ y.task.cmd = "write" =>
                \A k \in 1 .. y.task.len :
                  mem'[y.segs[k]] = buf[y.task.ioc][y.task.slot + k - 1]
<1> DEFINE n == Head(t).len
<1>1. PICK segs \in Allocations(n) :
        /\ mem' = CopiedIn(Head(t), segs)
        /\ flight' = flight \cup {[task |-> Head(t), segs |-> segs]}
  BY DEF Issue
<1> DEFINE y == [task |-> Head(t), segs |-> segs]
<1>2. Head(t) \in Task /\ n \in Nat /\ UNCHANGED cq
  <2>1. Head(t) \in Task /\ UNCHANGED cq
    BY DEF Issue, IInv, Shape
  <2> QED
    BY <2>1, TaskNats
<1> HIDE DEF n
<1>3. /\ segs \in Seq(Buf) /\ DOMAIN segs = 1 .. n /\ Distinct(segs)
      /\ Elems(segs) \subseteq data_buf_list /\ data_buf_list \subseteq Buf
  BY <1>1, <1>2, AllocationFacts DEF IInv, Shape
<1> DEFINE place(b) == CHOOSE i \in DOMAIN segs : segs[i] = b
<1>4. \A b \in Buf : mem'[b] = IF Head(t).cmd = "write" /\ b \in Elems(segs)
                                 THEN buf[Head(t).ioc][Head(t).slot + place(b) - 1] ELSE mem[b]
  BY <1>1 DEF CopiedIn, Elems
<1>5. \A k \in 1 .. n : segs[k] \in Elems(segs) /\ segs[k] \in Buf /\ place(segs[k]) = k
  BY <1>3 DEF Elems, Distinct
<1> HIDE DEF place
<1>6. \A x \in Owners : \A b \in Used(x) : mem'[b] = mem[b]
  <2> SUFFICES ASSUME NEW x \in Owners, NEW b \in Used(x) PROVE mem'[b] = mem[b]
    OBVIOUS
  <2>1. b \in Buf /\ b \notin Elems(segs)
    BY <1>3, OwnerFacts DEF IInv, Owned, Partition
  <2> QED
    BY <1>4, <2>1
<1>7. /\ y \in Issued /\ y.task = Head(t) /\ y.segs = segs
      /\ flight' = flight \cup {y} /\ Cmds' = Cmds \cup {y}
  BY <1>1, <1>2, <1>3 DEF Issued, Cmds
<1> HIDE DEF y
<1>8. Head(t).cmd = "write" =>
        \A k \in 1 .. n : mem'[segs[k]] = buf[Head(t).ioc][Head(t).slot + k - 1]
  BY <1>4, <1>5
<1> QED
  BY <1>6, <1>7, <1>8 DEF n

LEMMA IssueR ==
  ASSUME QueueAssumption, IInv, IInv', DataInv, RInv, Issue
  PROVE  RInv'
<1>1. /\ pc = "issue" /\ pc' = pc /\ t # << >> /\ t' = Tail(t)
      /\ ioc' = [ioc EXCEPT ![current].total_nseg = @ + Head(t).len]
      /\ current_queue_depth' = current_queue_depth + 1
      /\ UNCHANGED <<current, cq, buf, called>>
  BY DEF Issue
<1>2. PICK y \in Issued :
        /\ y.task = Head(t) /\ flight' = flight \cup {y} /\ Cmds' = Cmds \cup {y}
        /\ \A x \in Owners : \A b \in Used(x) : mem'[b] = mem[b]
        /\ y.task.cmd = "write" =>
             \A k \in 1 .. y.task.len : mem'[y.segs[k]] = buf[y.task.ioc][y.task.slot + k - 1]
  BY IssueFacts
<1>3. /\ Head(t) = t[1] /\ 1 \in DOMAIN t /\ t \in Seq(Task) /\ current \in Ioc
      /\ DOMAIN Tail(t) = 1 .. Len(t) - 1 /\ DOMAIN t = 1 .. Len(t) /\ Len(t) \in Nat
      /\ \A i \in DOMAIN Tail(t) : i + 1 \in DOMAIN t /\ Tail(t)[i] = t[i + 1]
  BY <1>1 DEF IInv, Shape, Phase
<1>4. ContextsStay
  BY <1>1, <1>3 DEF IInv, Shape, IocRecord, ContextsStay
<1>5. left' = left
  <2>1. current_queue_depth \in Nat /\ Len(t) \in Nat /\ Len(Tail(t)) = Len(t) - 1
    BY <1>1, <1>3 DEF IInv, Shape, QueueAssumption
  <2> QED
    BY <1>1, <2>1 DEF left
<1>6. SlotsApart'
  <2>1. Ordered(ioc'[Async].tasks)
    BY <1>4, IocsDiffer DEF RInv, SlotsApart, ContextsStay
  <2>2. Ordered(t')
    BY <1>1, <1>3 DEF RInv, SlotsApart, Ordered
  <2>3. \A x \in Cmds : Apart(x.task, y.task) /\ Apart(y.task, x.task)
    BY <1>2, <1>3 DEF RInv, SlotsApart, Apart
  <2>4. \A i \in DOMAIN t' : Apart(y.task, t'[i])
    <3> SUFFICES ASSUME NEW i \in DOMAIN Tail(t) PROVE Apart(y.task, t[i + 1])
      BY <1>1, <1>3
    <3>1. i + 1 \in DOMAIN t /\ 1 < i + 1
      BY <1>3
    <3> QED
      BY <1>2, <1>3, <3>1 DEF RInv, SlotsApart, Ordered, Apart
  <2>5. \A x \in Cmds, i \in DOMAIN t' : Apart(x.task, t'[i])
    BY <1>1, <1>3 DEF RInv, SlotsApart
  <2> QED
    BY <1>2, <2>1, <2>2, <2>3, <2>4, <2>5 DEF RInv, SlotsApart
<1>7. Loaded'
  <2> SUFFICES ASSUME NEW x \in flight', x.task.cmd = "write", NEW k \in 1 .. x.task.len
               PROVE  mem'[x.segs[k]] = buf[x.task.ioc][x.task.slot + k - 1]
    BY <1>1 DEF Loaded
  <2>1. CASE x \in flight
    <3>1. x \in Owners /\ x.segs[k] \in Used(x)
      BY <2>1, OwnerFacts DEF Owners, Cmds
    <3> QED
      BY <1>2, <2>1, <3>1 DEF RInv, Loaded
  <2> QED
    BY <1>2, <2>1
<1>8. CallCount'
  <2>1. Counting' = Counting
    BY <1>1, <1>4, <1>5, CountingIs, CountingIsNext, IocsDiffer DEF ContextsStay
  <2>2. y.task.return_code # 0 => y.task.ioc = Sync
    BY <1>2, <1>3 DEF RInv, CallCount
  <2>3. \A i \in DOMAIN t' : t'[i].return_code # 0 => t'[i].ioc = Sync
    BY <1>1, <1>3 DEF RInv, CallCount
  <2> QED
    BY <1>1, <1>2, <1>4, <2>1, <2>2, <2>3, IocsDiffer DEF RInv, CallCount, ContextsStay, Dead
<1> QED
  BY <1>6, <1>7, <1>8 DEF RInv

(* The controller touches the device or the buffers of one command.          *)
LEMMA ExecuteFacts ==
  ASSUME QueueAssumption, IInv, DataInv, NEW x \in flight, Execute(x)
  PROVE  /\ x \in Cmds /\ x \in Owners /\ x \notin Elems(cq)
         /\ Elems(cq') = Elems(cq) \cup {x} /\ Cmds' = Cmds
         /\ \A b \in Buf \ Used(x) : mem'[b] = mem[b]
         /\ x.task.cmd = "write" =>
              /\ UNCHANGED mem
              /\ \A k \in 1 .. x.task.len : disk'[x.task.off + k - 1] = mem[x.segs[k]]
              /\ \A l \in Lba : (\A k \in 1 .. x.task.len : l # x.task.off + k - 1)
                                  => disk'[l] = disk[l]
              /\ DOMAIN disk' = Lba /\ disk' = [l \in Lba |-> disk'[l]]
         /\ x.task.cmd = "read" =>
              /\ UNCHANGED disk
              /\ \A k \in 1 .. x.task.len : mem'[x.segs[k]] = disk[x.task.off + k - 1]
<1> DEFINE blocks == x.task.off .. x.task.off + x.task.len - 1
           seg(l) == x.segs[l - x.task.off + 1]
<1>1. flight' = flight \ {x} /\ cq' = Append(cq, x)
  BY DEF Execute
<1>2. x \in Cmds /\ x \in Owners /\ x \notin Elems(cq)
      /\ Elems(cq') = Elems(cq) \cup {x} /\ Cmds' = Cmds
  <2>1. /\ x \in Issued /\ cq \in Seq(Issued) /\ Distinct(cq) /\ x \notin Elems(cq)
    BY DEF IInv, Shape, Owned
  <2>2. Elems(cq') = Elems(cq) \cup {x}
    BY <1>1, <2>1, AppendElems
  <2> QED
    BY <1>1, <2>1, <2>2 DEF Cmds, Owners
<1>3. /\ x.task.off \in Nat /\ x.task.len \in Nat /\ Used(x) \subseteq Buf
      /\ DOMAIN x.segs = 1 .. x.task.len
      /\ \A k \in 1 .. x.task.len : x.segs[k] \in Used(x)
      /\ Distinct(x.segs)
  BY <1>2, OwnerFacts DEF IInv, Owned, Partition
<1>4. x.task.off + x.task.len <= Size /\ Size \in Nat
  BY <1>2 DEF DataInv, InBuffers, Fits, QueueAssumption
<1>5. \A k \in 1 .. x.task.len :
        /\ x.task.off + k - 1 \in blocks /\ x.task.off + k - 1 \in Lba
        /\ seg(x.task.off + k - 1) = x.segs[k]
  <2> SUFFICES ASSUME NEW k \in 1 .. x.task.len
               PROVE  /\ x.task.off + k - 1 \in blocks /\ x.task.off + k - 1 \in Lba
                      /\ seg(x.task.off + k - 1) = x.segs[k]
    OBVIOUS
  <2>1. /\ (x.task.off + k - 1) - x.task.off + 1 = k
        /\ x.task.off + k - 1 \in 0 .. Size - 1 /\ x.task.off + k - 1 \in blocks
    BY <1>3, <1>4, PieceArith
  <2> QED
    BY <2>1 DEF Lba
<1>6. \A l \in blocks : /\ l - x.task.off + 1 \in 1 .. x.task.len
                        /\ x.task.off + (l - x.task.off + 1) - 1 = l
  BY <1>3
<1>7. CASE x.task.cmd = "write"
  <2>1. /\ disk' = [l \in Lba |-> IF l \in blocks THEN mem[seg(l)] ELSE disk[l]]
        /\ UNCHANGED mem
    BY <1>7 DEF Execute
  <2> HIDE DEF seg, blocks
  <2>2. \A k \in 1 .. x.task.len : disk'[x.task.off + k - 1] = mem[x.segs[k]]
    BY <1>5, <2>1
  <2>3. \A l \in Lba : (\A k \in 1 .. x.task.len : l # x.task.off + k - 1) => disk'[l] = disk[l]
    BY <1>6, <2>1
  <2> QED
    BY <1>2, <1>7, <2>1, <2>2, <2>3
<1>8. CASE x.task.cmd = "read"
  <2> DEFINE from(b) == CHOOSE l \in blocks : seg(l) = b
             hit(b) == \E l \in blocks : seg(l) = b
  <2>1. /\ mem' = [b \in Buf |-> IF hit(b) THEN disk[from(b)] ELSE mem[b]]
        /\ UNCHANGED disk
    BY <1>8 DEF Execute
  <2>2. \A b : hit(b) => b \in Used(x)
    BY <1>3, <1>6
  <2>3. \A k \in 1 .. x.task.len : hit(x.segs[k]) /\ from(x.segs[k]) = x.task.off + k - 1
    <3> SUFFICES ASSUME NEW k \in 1 .. x.task.len
                 PROVE  hit(x.segs[k]) /\ from(x.segs[k]) = x.task.off + k - 1
      OBVIOUS
    <3>1. hit(x.segs[k])
      BY <1>5
    <3>2. from(x.segs[k]) \in blocks /\ seg(from(x.segs[k])) = x.segs[k]
      BY <3>1
    <3> HIDE DEF from
    <3>3. from(x.segs[k]) - x.task.off + 1 = k
      BY <1>3, <1>6, <3>2 DEF Distinct
    <3>4. from(x.segs[k]) \in Int
      BY <1>3, <3>2
    <3>5. from(x.segs[k]) = x.task.off + k - 1
      BY <1>3, <3>3, <3>4
    <3> QED
      BY <3>1, <3>5
  <2> HIDE DEF from, hit, blocks, seg
  <2>4. \A k \in 1 .. x.task.len : mem'[x.segs[k]] = disk[x.task.off + k - 1]
    BY <1>3, <2>1, <2>3
  <2>5. \A b \in Buf \ Used(x) : mem'[b] = mem[b]
    BY <2>1, <2>2
  <2> QED
    BY <1>2, <1>8, <2>1, <2>4, <2>5
<1>9. x.task.cmd \in {"write", "read"}
  BY <1>2, OwnerFacts DEF Task
<1> QED
  BY <1>7, <1>8, <1>9

LEMMA ExecuteR ==
  ASSUME QueueAssumption, IInv, IInv', DataInv, RInv, NEW x \in flight, Execute(x)
  PROVE  RInv'
<1>1. /\ flight' = flight \ {x}
      /\ UNCHANGED <<pc, current, t, ioc, current_queue_depth, buf, called>>
  BY DEF Execute
<1>2. /\ x \in Owners /\ Cmds' = Cmds
      /\ \A b \in Buf \ Used(x) : mem'[b] = mem[b]
  BY ExecuteFacts
<1>3. SlotsApart'
  BY <1>1, <1>2 DEF RInv, SlotsApart
<1>4. Loaded'
  <2>1. flight' \subseteq Owners /\ flight' \subseteq flight /\ x \notin flight'
    BY <1>1 DEF Owners, Cmds
  <2>2. \A y \in flight' : \A b \in Used(y) : mem'[b] = mem[b]
    BY <1>2, <2>1, OthersBuffers
  <2> QED
    BY <1>1, <2>1, <2>2, LoadedKeeps
<1>5. CallCount'
  BY <1>1, <1>2 DEF RInv, CallCount, Counting, Dead
<1> QED
  BY <1>3, <1>4, <1>5 DEF RInv

LEMMA RNext ==
  ASSUME IInv, IInv', DataInv, RInv, [Next]_vars
  PROVE  RInv'
<1> USE QueueAssumption
<1>1. CASE UNCHANGED vars
  BY <1>1, LoopR DEF vars, loop_vars, Dead
<1>2. ASSUME NEW off \in Lba, NEW f \in Contents, write(off, f) \/ aio_write(off, f)
      PROVE  RInv'
  BY <1>2, WriteR, AioWriteR
<1>3. ASSUME NEW off \in Lba, NEW len \in 1 .. Slots, read(off, len) \/ aio_read(off, len)
      PROVE  RInv'
  BY <1>3, ReadR, AioReadR
<1>4. CASE Submit \/ NewIOContext
  BY <1>4, SubmitPendingR, NewIOContextR
<1>5. CASE While \/ Again \/ Processed \/ GotoAgain \/ AllIssued \/ Abort
  <2>1. UNCHANGED loop_vars /\ ~ Dead
    BY <1>5 DEF While, Again, Processed, GotoAgain, AllIssued, Abort, Dead
  <2> QED
    BY <2>1, LoopR
<1>6. CASE Return \/ Issue
  BY <1>6, ReturnR, IssueR
<1>7. CASE io_complete_write \/ ReleaseWrite
  BY <1>7, WriteCompletesR, ReleaseR
<1>8. CASE io_complete_aio_read \/ io_complete_read
  BY <1>8, AioReadCompletesR, SyncReadCompletesR
<1>9. CASE Controller
  BY <1>9, ExecuteR DEF Controller
<1>10. CASE Restart
  BY <1>10, RestartR
<1> QED
  BY <1>1, <1>2, <1>3, <1>4, <1>5, <1>6, <1>7, <1>8, <1>9, <1>10 DEF Next, Caller, Thread

----------------------------------------------------------------------------
(* What BlockIO sees of a state.                                             *)

Seen ==
  [c \in Ioc |-> [s \in Slot |->
     IF Dead THEN NoData
     ELSE IF Delivered(c, s) # {} THEN mem[CHOOSE b \in Delivered(c, s) : TRUE]
     ELSE buf[c][s]]]
Pending == IF Dead THEN {} ELSE BlocksOf(ioc[Async].tasks)
Running == IF Dead THEN {} ELSE BlocksOf(t) \cup UNION {Blocks(x.task) : x \in flight}
Handled == IF Dead THEN Nobody ELSE current
Calls == IF Dead THEN 0 ELSE called

(* The actions of BlockIO, of what it sees.                                  *)
LEMMA AsConstruct ==
  ASSUME Pending = {}, Handled # Async, ioc'[Async].priv \in BOOLEAN,
         UNCHANGED <<disk, Seen, Pending, Running, Handled, Calls>>
  PROVE  B!BNext
<1>1. B!Construct
  BY DEF B!Construct, Seen, Pending, Running, Handled, Calls
<1> QED
  BY <1>1 DEF B!BNext

LEMMA AsStutter ==
  ASSUME UNCHANGED <<disk, ioc[Async].priv, Seen, Pending, Running, Handled, Calls>>
  PROVE  UNCHANGED B!bvars
BY DEF B!bvars, Seen, Pending, Running, Handled, Calls

LEMMA AsInit ==
  ASSUME disk \in [Lba -> Data], Seen = [c \in Ioc |-> NoBuf], ioc[Async].priv \in BOOLEAN,
         Pending = {}, Running = {}, Handled = Nobody, Calls = 0
  PROVE  B!BInit
BY DEF B!BInit, Seen, Pending, Running, Handled, Calls, B!Ioc, B!NoBuf, Ioc, NoBuf, B!Nobody, Nobody

(* The caller has filled its buffer for the requests reqs of c.              *)
Prepared(c, reqs) ==
  /\ reqs # {} /\ reqs \subseteq {r \in B!Request : r.ioc = c}
  /\ \A r \in reqs, s \in Pending : s.ioc = c => r.slot # s.slot
  /\ Seen' \in Bufs
  /\ \A d \in Ioc, s \in Slot :
       (~ \E r \in reqs : r.ioc = d /\ r.slot = s) => Seen'[d][s] = Seen[d][s]

LEMMA AsStage ==
  ASSUME Handled = Nobody, Pending \subseteq Pending', Prepared(Async, Pending' \ Pending),
         UNCHANGED <<disk, ioc[Async].priv, Running, Handled, Calls>>
  PROVE  B!BNext
<1>1. B!Prepare(Async, Pending' \ Pending)
  BY DEF B!Prepare, Prepared, Seen, Pending, Bufs, B!Ioc, Ioc
<1>2. B!Stage
  BY <1>1 DEF B!Stage, Pending, Running, Handled, Calls, B!Nobody, Nobody
<1> QED
  BY <1>2 DEF B!BNext

LEMMA AsSyncStart ==
  ASSUME Handled = Nobody, Prepared(Sync, Running'), Handled' = Sync,
         UNCHANGED <<disk, ioc[Async].priv, Pending, Calls>>
  PROVE  B!BNext
<1>1. B!Prepare(Sync, Running')
  BY DEF B!Prepare, Prepared, Seen, Pending, Running, Bufs, B!Ioc, Ioc
<1>2. B!SyncStart
  BY <1>1 DEF B!SyncStart, Pending, Running, Handled, Calls, B!Nobody, Nobody
<1> QED
  BY <1>2 DEF B!BNext

LEMMA AsSubmit ==
  ASSUME Handled = Nobody, Pending # {}, Running' = Pending, Pending' = {}, Handled' = Async,
         UNCHANGED <<disk, ioc[Async].priv, Seen, Calls>>
  PROVE  B!BNext
<1>1. B!Submit
  BY DEF B!Submit, Seen, Pending, Running, Handled, Calls, B!Nobody, Nobody
<1> QED
  BY <1>1 DEF B!BNext

LEMMA AsCallback ==
  ASSUME Handled = Async, ioc[Async].priv, Running = {}, Calls = 0, Calls' = 1,
         UNCHANGED <<disk, ioc[Async].priv, Seen, Pending, Running, Handled>>
  PROVE  B!BNext
<1>1. B!Callback
  BY DEF B!Callback, Seen, Pending, Running, Handled, Calls
<1> QED
  BY <1>1 DEF B!BNext

LEMMA AsReturn ==
  ASSUME Handled # Nobody, Running = {},
         Calls = IF Handled = Async /\ ioc[Async].priv THEN 1 ELSE 0,
         Seen' = [Seen EXCEPT ![Handled] = NoBuf], Handled' = Nobody, Calls' = 0,
         UNCHANGED <<disk, ioc[Async].priv, Pending, Running>>
  PROVE  B!BNext
<1>1. B!Return
  BY DEF B!Return, Seen, Pending, Running, Handled, Calls, B!Nobody, Nobody, B!NoBuf, NoBuf
<1> QED
  BY <1>1 DEF B!BNext

LEMMA AsDie ==
  ASSUME Handled # Nobody, Seen' = [c \in Ioc |-> NoBuf], Pending' = {}, Running' = {},
         Handled' = Nobody, Calls' = 0, UNCHANGED <<disk, ioc[Async].priv>>
  PROVE  B!BNext
<1>1. B!Die
  BY DEF B!Die, Seen, Pending, Running, Handled, Calls, B!Nobody, Nobody, B!NoBuf, NoBuf,
     B!Ioc, Ioc
<1> QED
  BY <1>1 DEF B!BNext

LEMMA AsExecute ==
  ASSUME NEW S, S # {}, S \subseteq Running, \A r, s \in S : r.cmd = s.cmd,
         Running' = Running \ S,
         disk' = [l \in Lba |->
           IF \E r \in S : r.cmd = "write" /\ r.lba = l
             THEN LET r == CHOOSE r \in S : r.cmd = "write" /\ r.lba = l
                  IN  Seen[r.ioc][r.slot]
             ELSE disk[l]],
         Seen' = [c \in Ioc |-> [s \in Slot |->
           IF \E r \in S : r.cmd = "read" /\ r.ioc = c /\ r.slot = s
             THEN disk[(CHOOSE r \in S : r.cmd = "read" /\ r.ioc = c /\ r.slot = s).lba]
             ELSE Seen[c][s]]],
         UNCHANGED <<ioc[Async].priv, Pending, Handled, Calls>>
  PROVE  B!BNext
<1>1. B!Execute(S)
  BY DEF B!Execute, Seen, Pending, Running, Handled, Calls, B!Ioc, Ioc
<1>2. S \in SUBSET Running
  OBVIOUS
<1> QED
  BY <1>1, <1>2 DEF B!BNext, Running

----------------------------------------------------------------------------
(* Tasks, block by block.                                                    *)

LEMMA BlockFacts ==
  ASSUME QueueAssumption, NEW task \in Task, Fits(task), NEW r \in Blocks(task)
  PROVE  /\ r \in B!Request /\ r.ioc = task.ioc /\ r.cmd = task.cmd
         /\ r.slot \in Nat /\ task.slot <= r.slot /\ r.slot < task.slot + task.len
         /\ r.lba = task.off + (r.slot - task.slot + 1) - 1
<1>1. PICK k \in 0 .. task.len - 1 :
        r = [ioc |-> task.ioc, cmd |-> task.cmd, lba |-> task.off + k, slot |-> task.slot + k]
  BY DEF Blocks
<1>2. task.slot \in Nat /\ task.len \in Nat /\ task.off \in Nat
  BY TaskNats
<1>3. task.off + task.len <= Size /\ task.slot + task.len <= Slots /\ Size \in Nat /\ Slots \in Nat
  BY DEF Fits, QueueAssumption
<1>4. task.off + k \in 0 .. Size - 1
  BY <1>2, <1>3, OffsetArith
<1>5. /\ task.slot + k \in 0 .. Slots - 1 /\ task.slot + k \in Nat
      /\ task.slot <= task.slot + k /\ task.slot + k < task.slot + task.len
  BY <1>2, <1>3, OffsetArith
<1>6. task.off + ((task.slot + k) - task.slot + 1) - 1 = task.off + k
  <2>1. k \in Int
    BY <1>2
  <2> QED
    BY <1>2, <2>1, ShiftArith
<1>7. task.off + k \in Lba /\ task.slot + k \in Slot
  BY <1>4, <1>5 DEF Lba, Slot
<1>8. task.ioc \in B!Ioc /\ task.cmd \in {"write", "read"}
  BY DEF Task, B!Ioc, Ioc
<1>9. r \in B!Request
  BY <1>1, <1>7, <1>8 DEF B!Request
<1> QED
  BY <1>1, <1>5, <1>9, <1>6

LEMMA BlockAt ==
  ASSUME QueueAssumption, NEW task \in Task, NEW s \in Nat,
         task.slot <= s, s < task.slot + task.len
  PROVE  \E r \in Blocks(task) : r.slot = s
<1>1. task.slot \in Nat /\ task.len \in Nat
  BY TaskNats
<1>2. s - task.slot \in 0 .. task.len - 1 /\ task.slot + (s - task.slot) = s
  BY <1>1, PieceNumber
<1> DEFINE r == [ioc |-> task.ioc, cmd |-> task.cmd, lba |-> task.off + (s - task.slot),
                 slot |-> task.slot + (s - task.slot)]
<1>3. r \in Blocks(task)
  BY <1>2 DEF Blocks
<1> QED
  BY <1>2, <1>3

LEMMA BlocksExist ==
  ASSUME QueueAssumption, NEW task \in Task
  PROVE  Blocks(task) # {}
<1>1. task.slot \in Nat /\ task.len \in Nat \ {0}
  BY TaskNats
<1> QED
  BY <1>1, BlockAt

LEMMA BlocksApart ==
  ASSUME QueueAssumption, NEW a \in Task, NEW b \in Task, Fits(a), Fits(b), Apart(a, b)
  PROVE  Blocks(a) \cap Blocks(b) = {}
<1> SUFFICES ASSUME NEW r \in Blocks(a), r \in Blocks(b) PROVE FALSE
  OBVIOUS
<1>1. r.slot \in Nat /\ a.slot <= r.slot /\ r.slot < a.slot + a.len
  BY BlockFacts
<1>2. b.slot <= r.slot /\ r.slot < b.slot + b.len
  BY BlockFacts
<1>3. a.slot \in Nat /\ a.len \in Nat /\ b.slot \in Nat /\ b.len \in Nat
  BY TaskNats
<1> QED
  BY <1>1, <1>2, <1>3 DEF Apart

LEMMA NoBlocks == BlocksOf(<< >>) = {}
BY DEF BlocksOf

LEMMA ConcatBlocks ==
  ASSUME NEW p \in Seq(Task), NEW q \in Seq(Task)
  PROVE  BlocksOf(p \o q) = BlocksOf(p) \cup BlocksOf(q)
<1> DEFINE r == p \o q
<1>1. /\ Len(p) \in Nat /\ Len(q) \in Nat /\ DOMAIN p = 1 .. Len(p) /\ DOMAIN q = 1 .. Len(q)
      /\ DOMAIN r = 1 .. Len(p) + Len(q)
      /\ \A i \in 1 .. Len(p) : r[i] = p[i]
      /\ \A i \in 1 .. Len(p) + Len(q) : i > Len(p) => r[i] = q[i - Len(p)]
  OBVIOUS
<1> HIDE DEF r
<1>2. ASSUME NEW i \in DOMAIN r PROVE Blocks(r[i]) \subseteq BlocksOf(p) \cup BlocksOf(q)
  <2>1. CASE i \in DOMAIN p
    BY <1>1, <2>1 DEF BlocksOf
  <2>2. CASE i \notin DOMAIN p
    <3>1. i - Len(p) \in DOMAIN q /\ r[i] = q[i - Len(p)]
      BY <1>1, <2>2
    <3> QED
      BY <3>1 DEF BlocksOf
  <2> QED
    BY <2>1, <2>2
<1>3. ASSUME NEW i \in DOMAIN p PROVE Blocks(p[i]) \subseteq BlocksOf(r)
  <2>1. i \in DOMAIN r /\ r[i] = p[i]
    BY <1>1
  <2> QED
    BY <2>1 DEF BlocksOf
<1>4. ASSUME NEW i \in DOMAIN q PROVE Blocks(q[i]) \subseteq BlocksOf(r)
  <2>1. i + Len(p) \in DOMAIN r /\ i + Len(p) > Len(p) /\ (i + Len(p)) - Len(p) = i
    BY <1>1
  <2>2. r[i + Len(p)] = q[i]
    BY <1>1, <2>1
  <2> QED
    BY <2>1, <2>2 DEF BlocksOf
<1> QED
  BY <1>2, <1>3, <1>4 DEF BlocksOf, r

LEMMA HeadBlocks ==
  ASSUME NEW q \in Seq(Task), q # << >>
  PROVE  BlocksOf(q) = Blocks(Head(q)) \cup BlocksOf(Tail(q))
<1>1. /\ Len(q) \in Nat \ {0} /\ DOMAIN q = 1 .. Len(q) /\ DOMAIN Tail(q) = 1 .. Len(q) - 1
      /\ Head(q) = q[1] /\ \A i \in 1 .. Len(q) - 1 : Tail(q)[i] = q[i + 1]
  OBVIOUS
<1>2. ASSUME NEW i \in DOMAIN q PROVE Blocks(q[i]) \subseteq Blocks(Head(q)) \cup BlocksOf(Tail(q))
  <2>1. CASE i = 1
    BY <1>1, <2>1
  <2>2. CASE i # 1
    <3>1. i - 1 \in DOMAIN Tail(q) /\ Tail(q)[i - 1] = q[i]
      BY <1>1, <2>2
    <3> QED
      BY <3>1 DEF BlocksOf
  <2> QED
    BY <2>1, <2>2
<1>3. ASSUME NEW i \in DOMAIN Tail(q) PROVE Blocks(Tail(q)[i]) \subseteq BlocksOf(q)
  <2>1. i + 1 \in DOMAIN q /\ Tail(q)[i] = q[i + 1]
    BY <1>1
  <2> QED
    BY <2>1 DEF BlocksOf
<1>4. Blocks(Head(q)) \subseteq BlocksOf(q)
  BY <1>1 DEF BlocksOf
<1> QED
  BY <1>2, <1>3, <1>4 DEF BlocksOf

(* The requests of a call, cut into tasks, are those the caller made.        *)
LEMMA CutBlocks ==
  ASSUME QueueAssumption, NEW c \in Ioc, NEW cmd \in {"write", "read"}, NEW off \in Lba,
         NEW len \in Nat \ {0}, off + len <= Size, NEW slot \in Nat, slot + len <= Slots,
         NEW rc \in {0, 1}
  PROVE  LET reqs == BlocksOf(Split(c, cmd, off, len, slot, rc))
         IN  /\ reqs # {} /\ reqs \subseteq {r \in B!Request : r.ioc = c}
             /\ \A r \in reqs : r.slot \in slot .. slot + len - 1
             /\ \A s \in slot .. slot + len - 1 : \E r \in reqs : r.slot = s
<1> DEFINE q == Split(c, cmd, off, len, slot, rc)
<1>1. IsCut(q, c, cmd, len, slot, rc)
  BY SplitFacts
<1>2. \A k \in slot .. slot + len - 1 :
        \E i \in DOMAIN q : q[i].slot <= k /\ k < q[i].slot + q[i].len
  BY SplitPieces
<1> HIDE DEF q
<1>3. \A i \in DOMAIN q :
        /\ q[i] \in Task /\ q[i].ioc = c /\ Fits(q[i]) /\ slot <= q[i].slot
        /\ q[i].slot + q[i].len <= slot + len /\ q[i].slot \in Nat /\ q[i].len \in Nat
  <2> SUFFICES ASSUME NEW i \in DOMAIN q
               PROVE  /\ q[i] \in Task /\ q[i].ioc = c /\ Fits(q[i]) /\ slot <= q[i].slot
                      /\ q[i].slot + q[i].len <= slot + len
                      /\ q[i].slot \in Nat /\ q[i].len \in Nat
    OBVIOUS
  <2>1. q[i] \in Task
    BY <1>1 DEF IsCut
  <2>2. q[i].slot \in Nat /\ q[i].len \in Nat /\ Slots \in Nat
    BY <2>1, TaskNats DEF QueueAssumption
  <2>3. /\ q[i].ioc = c /\ slot <= q[i].slot /\ q[i].slot + q[i].len <= slot + len
        /\ q[i].off + q[i].len <= Size
    BY <1>1 DEF IsCut
  <2> QED
    BY <2>1, <2>2, <2>3 DEF Fits
<1>4. ASSUME NEW r \in BlocksOf(q)
      PROVE  r \in B!Request /\ r.ioc = c /\ r.slot \in slot .. slot + len - 1
  <2>1. PICK i \in DOMAIN q : r \in Blocks(q[i])
    BY DEF BlocksOf
  <2>2. /\ r \in B!Request /\ r.ioc = c /\ r.slot \in Nat /\ q[i].slot <= r.slot
        /\ r.slot < q[i].slot + q[i].len
    BY <1>3, <2>1, BlockFacts
  <2> QED
    BY <1>3, <2>2
<1>5. ASSUME NEW s \in slot .. slot + len - 1 PROVE \E r \in BlocksOf(q) : r.slot = s
  <2>1. PICK i \in DOMAIN q : q[i].slot <= s /\ s < q[i].slot + q[i].len
    BY <1>2
  <2>2. \E r \in Blocks(q[i]) : r.slot = s
    BY <1>3, <2>1, BlockAt
  <2> QED
    BY <2>2 DEF BlocksOf
<1>6. BlocksOf(q) # {}
  <2>1. slot \in slot .. slot + len - 1
    OBVIOUS
  <2> QED
    BY <1>5, <2>1
<1> QED
  BY <1>4, <1>5, <1>6 DEF q

----------------------------------------------------------------------------
(* The caller's buffer as BlockIO sees it: where a read is executed and not  *)
(* processed, what the DMA buffer holds.                                     *)
Has(x, c, s) == x.task.cmd = "read" /\ x.task.ioc = c /\ Covers(x, s)

Piece(x, s) == x.segs[s - x.task.slot + 1]

SeenIs ==
  ~ Dead =>
    \A c \in Ioc, s \in Slot :
      /\ \A x \in Elems(cq) : Has(x, c, s) => Seen[c][s] = mem[Piece(x, s)]
      /\ (\A x \in Elems(cq) : ~ Has(x, c, s)) => Seen[c][s] = buf[c][s]

Inv == IInv /\ DataInv /\ RInv

LEMMA SeenValue == Inv => SeenIs
<1> SUFFICES ASSUME IInv, DataInv, RInv, ~ Dead, NEW c \in Ioc, NEW s \in Slot
             PROVE  /\ \A x \in Elems(cq) : Has(x, c, s) => Seen[c][s] = mem[Piece(x, s)]
                    /\ (\A x \in Elems(cq) : ~ Has(x, c, s)) => Seen[c][s] = buf[c][s]
  BY DEF Inv, SeenIs
<1> USE QueueAssumption
<1>1. s \in Nat
  BY DEF Slot
<1>2. \A x \in Elems(cq) : /\ x \in Cmds /\ x \in Owners
                           /\ x.task.slot \in Nat /\ x.task.len \in Nat
  <2>1. \A x \in Elems(cq) : x \in Cmds /\ x \in Owners
    BY DEF Owners, Cmds
  <2> QED
    BY <2>1, OwnerFacts
<1>3. \A x \in Elems(cq) : Covers(x, s) <=> s \in x.task.slot .. x.task.slot + x.task.len - 1
  BY <1>1, <1>2 DEF Covers
<1>4. Delivered(c, s) = {Piece(x, s) : x \in {y \in Elems(cq) : Has(y, c, s)}}
  BY <1>3 DEF Delivered, Elems, Has, Piece
<1>5. Seen[c][s] = IF Delivered(c, s) # {} THEN mem[CHOOSE b \in Delivered(c, s) : TRUE]
                   ELSE buf[c][s]
  BY DEF Seen
<1>6. ASSUME NEW x \in Elems(cq), Has(x, c, s) PROVE Seen[c][s] = mem[Piece(x, s)]
  <2>1. \A y \in Elems(cq) : Has(y, c, s) => y = x
    BY <1>1, <1>2, <1>6, ApartCovers DEF Has
  <2>2. Delivered(c, s) = {Piece(x, s)}
    BY <1>4, <1>6, <2>1
  <2> QED
    BY <1>5, <2>2
<1>7. ASSUME \A x \in Elems(cq) : ~ Has(x, c, s) PROVE Seen[c][s] = buf[c][s]
  BY <1>4, <1>5, <1>7
<1> QED
  BY <1>6, <1>7

LEMMA SeenNext == Inv' => SeenIs'
BY SeenValue, PTL

LEMMA SeenDomain ==
  /\ Seen = [c \in Ioc |-> [s \in Slot |-> Seen[c][s]]]
  /\ Seen' = [c \in Ioc |-> [s \in Slot |-> Seen'[c][s]]]
  /\ Dead => Seen = [c \in Ioc |-> NoBuf]
  /\ Dead' => Seen' = [c \in Ioc |-> NoBuf]
BY DEF Seen, NoBuf

LEMMA SeenSame ==
  ASSUME \A c \in Ioc, s \in Slot : Seen'[c][s] = Seen[c][s]
  PROVE  UNCHANGED Seen
<1> DEFINE f(c, s) == Seen[c][s]
<1>1. Seen = [c \in Ioc |-> [s \in Slot |-> f(c, s)]]
  BY SeenDomain
<1>2. Seen' = [c \in Ioc |-> [s \in Slot |-> f(c, s)]]
  BY SeenDomain
<1> QED
  BY <1>1, <1>2, Zenon

(* With nothing executed it is the caller's buffer.                          *)
LEMMA SeenBuf ==
  ASSUME Inv, ~ Dead, Elems(cq) = {}
  PROVE  Seen = buf
<1>1. \A c \in Ioc, s \in Slot : Seen[c][s] = buf[c][s]
  BY SeenValue DEF SeenIs
<1>2. buf \in [Ioc -> [Slot -> Data \cup {NoData}]]
  BY DEF Inv, DataInv, Typed, Bufs
<1> DEFINE f(c, s) == buf[c][s]
<1>3. Seen = [c \in Ioc |-> [s \in Slot |-> f(c, s)]]
  BY <1>1, SeenDomain
<1>4. buf = [c \in Ioc |-> [s \in Slot |-> f(c, s)]]
  BY <1>2
<1> QED
  BY <1>3, <1>4, Zenon

SeenEmpty == ~ Dead /\ Elems(cq) = {} => Seen = buf

LEMMA SeenBufNext == Inv' => SeenEmpty'
<1>1. Inv => SeenEmpty
  BY SeenBuf DEF SeenEmpty
<1> QED
  BY <1>1, PTL

(* A piece of the caller's buffer is seen as before when the commands that    *)
(* are executed or processed, X, do not read into it.                        *)
LEMMA SeenKeeps ==
  ASSUME Inv, Inv', ~ Dead, ~ Dead', NEW X, Elems(cq') \ X = Elems(cq) \ X,
         \A y \in Elems(cq) \ X : \A b \in Used(y) : mem'[b] = mem[b],
         NEW c \in Ioc, NEW s \in Slot, \A x \in X : ~ Has(x, c, s), buf'[c][s] = buf[c][s]
  PROVE  Seen'[c][s] = Seen[c][s]
<1>1. /\ \A x \in Elems(cq) : Has(x, c, s) => Seen[c][s] = mem[Piece(x, s)]
      /\ (\A x \in Elems(cq) : ~ Has(x, c, s)) => Seen[c][s] = buf[c][s]
  BY SeenValue DEF SeenIs
<1>2. /\ \A x \in Elems(cq') : Has(x, c, s) => Seen'[c][s] = mem'[Piece(x, s)]
      /\ (\A x \in Elems(cq') : ~ Has(x, c, s)) => Seen'[c][s] = buf'[c][s]
  BY SeenNext DEF SeenIs
<1>3. CASE \E y \in Elems(cq) \ X : Has(y, c, s)
  <2>1. PICK y \in Elems(cq) \ X : Has(y, c, s)
    BY <1>3
  <2>2. y \in Owners /\ y \in Elems(cq')
    BY DEF Owners, Cmds
  <2>3. Piece(y, s) \in Used(y)
    BY <2>1, <2>2, QueueAssumption, CoveredPiece DEF Inv, Has, Piece
  <2> QED
    BY <1>1, <1>2, <2>1, <2>2, <2>3
<1>4. CASE \A y \in Elems(cq) \ X : ~ Has(y, c, s)
  <2>1. (\A y \in Elems(cq) : ~ Has(y, c, s)) /\ (\A y \in Elems(cq') : ~ Has(y, c, s))
    BY <1>4
  <2> QED
    BY <1>1, <1>2, <2>1
<1> QED
  BY <1>3, <1>4

LEMMA SeenOthers ==
  ASSUME Inv, Inv', ~ Dead, ~ Dead', NEW x, Elems(cq') \ {x} = Elems(cq) \ {x},
         \A y \in Elems(cq) \ {x} : \A b \in Used(y) : mem'[b] = mem[b],
         NEW c \in Ioc, NEW s \in Slot, ~ Has(x, c, s), buf'[c][s] = buf[c][s]
  PROVE  Seen'[c][s] = Seen[c][s]
<1> DEFINE X == {x}
<1>1. Elems(cq') \ X = Elems(cq) \ X /\ \A y \in X : ~ Has(y, c, s)
  OBVIOUS
<1>2. \A y \in Elems(cq) \ X : \A b \in Used(y) : mem'[b] = mem[b]
  OBVIOUS
<1> HIDE DEF X
<1> QED
  BY <1>1, <1>2, SeenKeeps

----------------------------------------------------------------------------
(* Every step, as BlockIO sees it.                                           *)

LEMMA InitMaps == Init => B!BInit
<1> SUFFICES ASSUME Init PROVE B!BInit
  OBVIOUS
<1>1. /\ pc = "idle" /\ cq = << >> /\ t = << >> /\ flight = {} /\ current = Nobody
      /\ called = 0 /\ buf = [c \in Ioc |-> NoBuf] /\ disk \in [Lba -> Data]
  BY DEF Init
<1>2. PICK p \in BOOLEAN : ioc = [c \in Ioc |-> NewIoc(c = Async /\ p)]
  BY DEF Init
<1>3. ioc[Async].tasks = << >> /\ ioc[Async].priv \in BOOLEAN
  BY <1>2, IocsDiffer DEF NewIoc
<1>4. ~ Dead
  BY <1>1 DEF Dead
<1>5. \A c \in Ioc, s \in Slot : Delivered(c, s) = {}
  BY <1>1 DEF Delivered
<1>6. \A c \in Ioc, s \in Slot : Seen[c][s] = NoData
  BY <1>1, <1>4, <1>5 DEF Seen, NoBuf
<1>7. Seen = [c \in Ioc |-> NoBuf]
  BY <1>6, SeenDomain DEF NoBuf
<1>8. Pending = {} /\ Running = {} /\ Handled = Nobody /\ Calls = 0
  BY <1>1, <1>3, <1>4, NoBlocks DEF Pending, Running, Handled, Calls
<1> QED
  BY <1>1, <1>3, <1>7, <1>8, AsInit

LEMMA LoopMaps ==
  ASSUME UNCHANGED loop_vars, Dead' = Dead
  PROVE  UNCHANGED B!bvars
<1>1. UNCHANGED <<disk, ioc[Async].priv, Seen, Pending, Running, Handled, Calls>>
  BY DEF loop_vars, Seen, Delivered, Pending, Running, Handled, Calls
<1> QED
  BY <1>1, AsStutter

(* Between two calls.                                                        *)
LEMMA IdleSees ==
  ASSUME Inv, pc = "idle"
  PROVE  /\ ~ Dead /\ Seen = buf /\ Pending = BlocksOf(ioc[Async].tasks) /\ Running = {}
         /\ Handled = Nobody /\ Calls = 0 /\ flight = {} /\ cq = << >>
<1>1. /\ current = Nobody /\ t = << >> /\ flight = {} /\ cq = << >>
  BY QueueAssumption, IdleFacts DEF Inv
<1>2. ~ Dead /\ Elems(cq) = {}
  BY <1>1, EmptyElems DEF Dead
<1>3. Seen = buf
  BY <1>2, SeenBuf
<1>4. Calls = 0
  BY <1>1, <1>2, IocsDiffer DEF Inv, RInv, CallCount, Counting, Calls
<1> QED
  BY <1>1, <1>2, <1>3, <1>4, NoBlocks DEF Pending, Running, Handled

LEMMA SubmitSees ==
  ASSUME Inv, Inv', pc = "idle", NEW c \in Ioc, NEW tasks \in Seq(Task), aio_submit(c, tasks)
  PROVE  /\ ~ Dead' /\ Seen' = buf' /\ Running' = BlocksOf(tasks) /\ Handled' = c /\ Calls' = 0
         /\ Pending' = IF c = Async THEN {} ELSE Pending
         /\ UNCHANGED <<disk, ioc[Async].priv>>
<1>1. /\ t' = tasks /\ current' = c /\ called' = 0 /\ pc' = "while"
      /\ ioc' = [ioc EXCEPT ![c].tasks = << >>, ![c].num_pending = 0,
                            ![c].num_running = @ + Len(tasks)]
      /\ UNCHANGED <<flight, cq, disk>>
  BY DEF aio_submit
<1>2. ~ Dead' /\ flight' = {} /\ cq' = << >> /\ Elems(cq') = {} /\ ~ Dead
      /\ Pending = BlocksOf(ioc[Async].tasks)
  BY <1>1, IdleSees, EmptyElems DEF Dead
<1>3. Seen' = buf'
  BY <1>2, SeenBufNext DEF SeenEmpty
<1>4. ioc \in [Ioc -> IocRecord]
  BY DEF Inv, IInv, Shape
<1>5. /\ ioc'[c].tasks = << >> /\ ioc'[c].priv = ioc[c].priv
      /\ \A d \in Ioc : d # c => ioc'[d] = ioc[d]
  BY <1>1, <1>4 DEF IocRecord
<1>6. Pending' = IF c = Async THEN {} ELSE Pending
  BY <1>2, <1>5, IocsDiffer, NoBlocks DEF Pending
<1> QED
  BY <1>1, <1>2, <1>3, <1>5, <1>6, IocsDiffer DEF Running, Handled, Calls

(* What filling a buffer leaves alone.                                       *)
LEMMA BufWithOthers ==
  ASSUME QueueAssumption, Typed, NEW c \in Ioc, NEW slot \in Nat, NEW f \in Contents,
         NEW d \in Ioc, NEW s \in Slot, ~ (d = c /\ s \in slot .. slot + Len(f) - 1)
  PROVE  BufWith(c, slot, f)[d][s] = buf[d][s]
<1>1. buf \in [Ioc -> [Slot -> Data \cup {NoData}]]
  BY DEF Typed, Bufs
<1>2. BufWith(c, slot, f) =
        [buf EXCEPT ![c] = [u \in Slot |->
           IF u \in slot .. slot + Len(f) - 1 THEN f[u - slot + 1] ELSE buf[c][u]]]
  BY <1>1 DEF BufWith
<1> QED
  BY <1>1, <1>2

LEMMA WriteMaps ==
  ASSUME Inv, Inv', NEW off \in Lba, NEW f \in Contents, write(off, f)
  PROVE  B!BNext
<1> USE QueueAssumption
<1> DEFINE tasks == Split(Sync, "write", off, Len(f), 0, 0)
<1>1. Len(f) \in Nat \ {0} /\ Len(f) <= Slots /\ Slots \in Nat /\ 0 + Len(f) <= Slots
  BY DEF QueueAssumption
<1>2. /\ off + Len(f) <= Size /\ pc = "idle" /\ aio_submit(Sync, tasks)
      /\ buf' = BufWith(Sync, 0, f)
  BY DEF write, valid_io
<1>3. /\ BlocksOf(tasks) # {} /\ BlocksOf(tasks) \subseteq {r \in B!Request : r.ioc = Sync}
      /\ \A s \in 0 .. 0 + Len(f) - 1 : \E r \in BlocksOf(tasks) : r.slot = s
  <2>1. Sync \in Ioc /\ "write" \in {"write", "read"} /\ 0 \in Nat /\ 0 \in {0, 1}
    BY IocsDiffer
  <2> QED
    BY <1>1, <1>2, <2>1, CutBlocks
<1>4. tasks \in Seq(Task)
  BY <1>1, <1>2, IocsDiffer, SplitFacts DEF IsCut
<1> HIDE DEF tasks
<1>5. Handled = Nobody /\ Seen = buf /\ Calls = 0 /\ Pending = BlocksOf(ioc[Async].tasks)
  BY <1>2, IdleSees
<1>6. /\ Seen' = buf' /\ Running' = BlocksOf(tasks) /\ Handled' = Sync /\ Calls' = 0
      /\ UNCHANGED <<disk, ioc[Async].priv, Pending>>
  BY <1>2, <1>4, IocsDiffer, SubmitSees
<1>7. Prepared(Sync, Running')
  <2>1. Seen' \in Bufs
    BY <1>6 DEF Inv, DataInv, Typed
  <2>2. ASSUME NEW d \in Ioc, NEW s \in Slot, ~ \E r \in Running' : r.ioc = d /\ r.slot = s
        PROVE  Seen'[d][s] = Seen[d][s]
    <3>1. ~ (d = Sync /\ s \in 0 .. 0 + Len(f) - 1)
      BY <1>3, <1>6, <2>2
    <3> QED
      BY <1>2, <1>5, <1>6, <3>1, BufWithOthers, IocsDiffer DEF Inv, DataInv
  <2>3. \A s \in Pending : s.ioc # Sync
    <3> SUFFICES ASSUME NEW i \in DOMAIN ioc[Async].tasks, NEW s \in Blocks(ioc[Async].tasks[i])
                 PROVE  s.ioc # Sync
      BY <1>5 DEF BlocksOf
    <3> QED
      BY IocsDiffer DEF Inv, IInv, Staged, Blocks
  <2> QED
    BY <1>3, <1>6, <2>1, <2>2, <2>3 DEF Prepared
<1> QED
  BY <1>5, <1>6, <1>7, AsSyncStart

LEMMA ReadMaps ==
  ASSUME Inv, Inv', NEW off \in Lba, NEW len \in 1 .. Slots, read(off, len)
  PROVE  B!BNext
<1> USE QueueAssumption
<1> DEFINE tasks == Split(Sync, "read", off, len, 0, 1)
<1>1. len \in Nat \ {0} /\ len <= Slots /\ Slots \in Nat /\ 0 + len <= Slots
  BY DEF QueueAssumption
<1>2. /\ off + len <= Size /\ pc = "idle" /\ aio_submit(Sync, tasks) /\ buf' = buf
  BY DEF read, valid_io
<1>3. BlocksOf(tasks) # {} /\ BlocksOf(tasks) \subseteq {r \in B!Request : r.ioc = Sync}
  <2>1. Sync \in Ioc /\ "read" \in {"write", "read"} /\ 0 \in Nat /\ 1 \in {0, 1}
    BY IocsDiffer
  <2> QED
    BY <1>1, <1>2, <2>1, CutBlocks
<1>4. tasks \in Seq(Task)
  BY <1>1, <1>2, IocsDiffer, SplitFacts DEF IsCut
<1> HIDE DEF tasks
<1>5. Handled = Nobody /\ Seen = buf /\ Calls = 0 /\ Pending = BlocksOf(ioc[Async].tasks)
  BY <1>2, IdleSees
<1>6. /\ Seen' = buf' /\ Running' = BlocksOf(tasks) /\ Handled' = Sync /\ Calls' = 0
      /\ UNCHANGED <<disk, ioc[Async].priv, Pending>>
  BY <1>2, <1>4, IocsDiffer, SubmitSees
<1>7. Prepared(Sync, Running')
  <2>1. Seen' \in Bufs
    BY <1>6 DEF Inv, DataInv, Typed
  <2>2. \A s \in Pending : s.ioc # Sync
    <3> SUFFICES ASSUME NEW i \in DOMAIN ioc[Async].tasks, NEW s \in Blocks(ioc[Async].tasks[i])
                 PROVE  s.ioc # Sync
      BY <1>5 DEF BlocksOf
    <3> QED
      BY IocsDiffer DEF Inv, IInv, Staged, Blocks
  <2> QED
    BY <1>2, <1>3, <1>5, <1>6, <2>1, <2>2 DEF Prepared
<1> QED
  BY <1>5, <1>6, <1>7, AsSyncStart

LEMMA SubmitMaps ==
  ASSUME Inv, Inv', Submit
  PROVE  B!BNext
<1> USE QueueAssumption
<1> DEFINE tasks == ioc[Async].tasks
<1>1. /\ pc = "idle" /\ aio_submit(Async, tasks) /\ ioc[Async].num_pending > 0
      /\ Async \in Ioc /\ buf' = buf
  BY DEF Submit, Ioc
<1>2. tasks \in Seq(Task) /\ ioc[Async].num_pending = Len(tasks)
  BY <1>1 DEF Inv, IInv, Shape, IocRecord, Counted
<1> HIDE DEF tasks
<1>3. /\ Handled = Nobody /\ Seen = buf /\ Calls = 0 /\ Pending = BlocksOf(tasks)
  BY <1>1, IdleSees DEF tasks
<1>4. /\ Seen' = buf' /\ Running' = BlocksOf(tasks) /\ Handled' = Async /\ Calls' = 0
      /\ Pending' = {} /\ UNCHANGED <<disk, ioc[Async].priv>>
  BY <1>1, <1>2, SubmitSees
<1>5. Pending # {}
  <2>1. 1 \in DOMAIN tasks /\ tasks[1] \in Task
    BY <1>1, <1>2
  <2>2. Blocks(tasks[1]) # {} /\ Blocks(tasks[1]) \subseteq BlocksOf(tasks)
    BY <2>1, BlocksExist DEF BlocksOf
  <2> QED
    BY <1>3, <2>2
<1> QED
  BY <1>1, <1>3, <1>4, <1>5, AsSubmit

(* New requests are appended behind those that are pending.                  *)
PendingBlock(b) ==
  /\ b.ioc = Async /\ b.slot \in Nat /\ b.slot < NextSlot

LEMMA PendingBlocks ==
  ASSUME Inv, NEW b \in BlocksOf(ioc[Async].tasks)
  PROVE  PendingBlock(b)
<1> USE QueueAssumption
<1> DEFINE q == ioc[Async].tasks
<1>1. PICK i \in DOMAIN q : b \in Blocks(q[i])
  BY DEF BlocksOf
<1>2. q \in Seq(Task)
  BY IocsDiffer DEF Inv, IInv, Shape, IocRecord
<1>3. Ordered(q)
  BY DEF Inv, RInv, SlotsApart
<1>4. q[i] \in Task /\ Fits(q[i]) /\ q[i].ioc = Async
  BY <1>1, <1>2 DEF Inv, DataInv, Requests, IInv, Staged
<1>5. b.ioc = Async /\ b.slot \in Nat /\ b.slot < q[i].slot + q[i].len
  BY <1>1, <1>4, BlockFacts
<1>6. q[i].slot + q[i].len <= NextSlot
  BY <1>1, PendingEnd DEF Inv
<1>7. q[i].slot \in Nat /\ q[i].len \in Nat /\ NextSlot \in Nat
  BY <1>4, TaskNats, NextSlotFacts DEF Inv
<1> QED
  BY <1>5, <1>6, <1>7 DEF PendingBlock

LEMMA StageMaps ==
  ASSUME Inv, Inv', pc = "idle", NEW tasks \in Seq(Task), Append_tasks(tasks),
         BlocksOf(tasks) # {}, BlocksOf(tasks) \subseteq {r \in B!Request : r.ioc = Async},
         \A r \in BlocksOf(tasks) : r.slot \in Nat /\ NextSlot <= r.slot,
         \A d \in Ioc, s \in Slot :
           (~ \E r \in BlocksOf(tasks) : r.ioc = d /\ r.slot = s) => buf'[d][s] = buf[d][s]
  PROVE  B!BNext
<1> USE QueueAssumption
<1> DEFINE q == ioc[Async].tasks
<1>1. /\ ioc' = [ioc EXCEPT ![Async].tasks = @ \o tasks,
                            ![Async].num_pending = @ + Len(tasks)]
      /\ UNCHANGED <<pc, current, t, flight, cq, called, disk>>
  BY DEF Append_tasks
<1>2. ioc \in [Ioc -> IocRecord] /\ q \in Seq(Task)
  BY DEF Inv, IInv, Shape, Ioc, IocRecord
<1>3. ioc'[Async].tasks = q \o tasks /\ ioc'[Async].priv = ioc[Async].priv
  BY <1>1, <1>2, IocsDiffer DEF IocRecord
<1>4. /\ ~ Dead /\ Seen = buf /\ Pending = BlocksOf(q) /\ Running = {}
      /\ Handled = Nobody /\ Calls = 0
  BY IdleSees
<1>5. /\ ~ Dead' /\ UNCHANGED <<Running, Handled, Calls>>
  BY <1>1, <1>4 DEF Dead, Running, Handled, Calls
<1>6. Seen' = buf' /\ buf' \in Bufs
  <2>1. Elems(cq') = {}
    BY <1>1, IdleSees, EmptyElems
  <2> QED
    BY <1>5, <2>1, SeenBufNext DEF SeenEmpty, Inv, DataInv, Typed
<1>7. Pending' = Pending \cup BlocksOf(tasks)
  <2>1. Pending' = BlocksOf(q \o tasks)
    BY <1>3, <1>5 DEF Pending
  <2> HIDE DEF q
  <2> QED
    BY <1>2, <1>4, <2>1, ConcatBlocks
<1>8. \A r \in BlocksOf(tasks), s \in Pending : r.slot # s.slot
  <2> SUFFICES ASSUME NEW r \in BlocksOf(tasks), NEW s \in Pending PROVE r.slot # s.slot
    OBVIOUS
  <2>1. s.slot \in Nat /\ s.slot < NextSlot /\ NextSlot \in Nat
    BY <1>4, PendingBlocks, NextSlotFacts DEF PendingBlock, Inv
  <2>2. r.slot \in Nat /\ NextSlot <= r.slot
    OBVIOUS
  <2> QED
    BY <2>1, <2>2
<1>9. Pending' \ Pending = BlocksOf(tasks)
  BY <1>7, <1>8
<1>10. Prepared(Async, Pending' \ Pending)
  BY <1>4, <1>6, <1>8, <1>9 DEF Prepared
<1> QED
  BY <1>1, <1>3, <1>4, <1>5, <1>7, <1>10, AsStage

LEMMA AioWriteMaps ==
  ASSUME Inv, Inv', NEW off \in Lba, NEW f \in Contents, aio_write(off, f)
  PROVE  B!BNext
<1> USE QueueAssumption
<1> DEFINE tasks == Split(Async, "write", off, Len(f), NextSlot, 0)
<1>1. Len(f) \in Nat \ {0} /\ NextSlot \in Nat
  BY NextSlotFacts DEF QueueAssumption, Inv
<1>2. /\ off + Len(f) <= Size /\ NextSlot + Len(f) <= Slots /\ pc = "idle"
      /\ Append_tasks(tasks) /\ buf' = BufWith(Async, NextSlot, f)
  BY DEF aio_write, valid_io
<1>3. /\ BlocksOf(tasks) # {} /\ BlocksOf(tasks) \subseteq {r \in B!Request : r.ioc = Async}
      /\ \A r \in BlocksOf(tasks) : r.slot \in NextSlot .. NextSlot + Len(f) - 1
      /\ \A s \in NextSlot .. NextSlot + Len(f) - 1 : \E r \in BlocksOf(tasks) : r.slot = s
  <2>1. Async \in Ioc /\ "read" \in {"write", "read"} /\ 0 \in {0, 1}
    BY IocsDiffer
  <2> QED
    BY <1>1, <1>2, <2>1, CutBlocks
<1>4. tasks \in Seq(Task)
  BY <1>1, <1>2, IocsDiffer, SplitFacts DEF IsCut
<1> HIDE DEF tasks
<1>5. ASSUME NEW d \in Ioc, NEW s \in Slot,
             ~ \E r \in BlocksOf(tasks) : r.ioc = d /\ r.slot = s
      PROVE  buf'[d][s] = buf[d][s]
  <2>1. ~ (d = Async /\ s \in NextSlot .. NextSlot + Len(f) - 1)
    BY <1>3, <1>5
  <2> QED
    BY <1>1, <1>2, <2>1, BufWithOthers, IocsDiffer DEF Inv, DataInv
<1>6. \A r \in BlocksOf(tasks) : r.slot \in Nat /\ NextSlot <= r.slot
  BY <1>1, <1>3
<1> QED
  BY <1>2, <1>3, <1>4, <1>5, <1>6, StageMaps

LEMMA AioReadMaps ==
  ASSUME Inv, Inv', NEW off \in Lba, NEW len \in 1 .. Slots, aio_read(off, len)
  PROVE  B!BNext
<1> USE QueueAssumption
<1> DEFINE tasks == Split(Async, "read", off, len, NextSlot, 0)
<1>1. len \in Nat \ {0} /\ NextSlot \in Nat
  BY NextSlotFacts DEF QueueAssumption, Inv
<1>2. /\ off + len <= Size /\ NextSlot + len <= Slots /\ pc = "idle"
      /\ Append_tasks(tasks) /\ buf' = buf
  BY DEF aio_read, valid_io
<1>3. /\ BlocksOf(tasks) # {} /\ BlocksOf(tasks) \subseteq {r \in B!Request : r.ioc = Async}
      /\ \A r \in BlocksOf(tasks) : r.slot \in NextSlot .. NextSlot + len - 1
  <2>1. Async \in Ioc /\ "read" \in {"write", "read"} /\ 0 \in Nat /\ 0 \in {0, 1}
    BY IocsDiffer
  <2> QED
    BY <1>1, <1>2, <2>1, CutBlocks
<1>4. tasks \in Seq(Task)
  BY <1>1, <1>2, IocsDiffer, SplitFacts DEF IsCut
<1> HIDE DEF tasks
<1>5. \A r \in BlocksOf(tasks) : r.slot \in Nat /\ NextSlot <= r.slot
  BY <1>1, <1>3
<1> QED
  BY <1>2, <1>3, <1>4, <1>5, StageMaps

LEMMA NewIOContextMaps ==
  ASSUME Inv, Inv', NewIOContext
  PROVE  B!BNext
<1> USE QueueAssumption
<1>1. PICK p \in BOOLEAN : ioc' = [ioc EXCEPT ![Async] = NewIoc(p)]
  BY DEF NewIOContext
<1>2. /\ pc = "idle" /\ ioc[Async].num_pending = 0
      /\ UNCHANGED <<pc, current, t, flight, cq, mem, buf, called, disk>>
  BY DEF NewIOContext
<1>3. ioc'[Async].tasks = << >> /\ ioc'[Async].priv \in BOOLEAN
  <2>1. ioc'[Async] = NewIoc(p)
    BY <1>1, IocsDiffer DEF Inv, IInv, Shape
  <2> QED
    BY <2>1 DEF NewIoc
<1>4. ioc[Async].tasks = << >>
  BY <1>2, IocsDiffer DEF Inv, IInv, Shape, IocRecord, Counted
<1>5. Pending = {} /\ Pending' = {} /\ Handled # Async
  BY <1>2, <1>3, <1>4, IdleSees, NoBlocks, IocsDiffer DEF Pending
<1>6. UNCHANGED <<disk, Seen, Running, Handled, Calls>>
  BY <1>2 DEF Seen, Delivered, Running, Handled, Calls, Dead
<1> QED
  BY <1>3, <1>5, <1>6, AsConstruct

LEMMA RestartMaps ==
  ASSUME Inv, Inv', Restart
  PROVE  B!BNext
<1>1. /\ pc = "aborted" /\ pc' = "idle" /\ current' = Nobody /\ t' = << >> /\ flight' = {}
      /\ cq' = << >> /\ called' = 0 /\ disk' = disk /\ buf' = [c \in Ioc |-> NoBuf]
  BY DEF Restart
<1>2. PICK p \in BOOLEAN : ioc' = [c \in Ioc |-> NewIoc(c = Async /\ p)]
  BY DEF Restart
<1>3. ioc'[Async].tasks = << >> /\ ioc'[Async].priv \in BOOLEAN
  BY <1>2, IocsDiffer DEF NewIoc
<1>4. Dead /\ ~ Dead'
  BY <1>1 DEF Dead
<1>5. Seen = [c \in Ioc |-> NoBuf] /\ Seen' = [c \in Ioc |-> NoBuf]
  <2>1. Elems(cq') = {}
    BY <1>1, EmptyElems
  <2> QED
    BY <1>1, <1>4, <2>1, SeenDomain, SeenBufNext DEF SeenEmpty
<1>6. /\ Pending = {} /\ Running = {} /\ Handled = Nobody /\ Calls = 0
      /\ UNCHANGED <<Pending, Running, Handled, Calls>>
  BY <1>1, <1>3, <1>4, NoBlocks DEF Pending, Running, Handled, Calls
<1> QED
  BY <1>1, <1>3, <1>5, <1>6, AsConstruct, IocsDiffer

LEMMA AbortMaps ==
  ASSUME Inv, Abort
  PROVE  B!BNext
<1>1. UNCHANGED loop_vars /\ pc' = "aborted" /\ pc \in {"process", "issue"}
  BY DEF Abort
<1>2. ~ Dead /\ Dead' /\ current \in Ioc
  BY <1>1 DEF Dead, Inv, IInv, Phase
<1>3. /\ Handled # Nobody /\ Pending' = {} /\ Running' = {} /\ Handled' = Nobody /\ Calls' = 0
      /\ Seen' = [c \in Ioc |-> NoBuf]
  BY <1>2, IocsDiffer, SeenDomain DEF Pending, Running, Handled, Calls
<1>4. UNCHANGED <<disk, ioc[Async].priv>>
  BY <1>1 DEF loop_vars
<1> QED
  BY <1>3, <1>4, AsDie

LEMMA ReturnMaps ==
  ASSUME Inv, Inv', Return
  PROVE  B!BNext
<1> USE QueueAssumption
<1>1. /\ pc = "while" /\ ioc[current].num_running = 0 /\ pc' = "idle"
      /\ current' = Nobody /\ called' = 0
      /\ buf' = [buf EXCEPT ![current] = NoBuf]
      /\ UNCHANGED <<t, ioc, flight, cq, disk>>
  BY DEF Return
<1>2. t = << >> /\ flight = {} /\ cq = << >> /\ current \in Ioc /\ Elems(cq) = {}
  BY <1>1, NothingLeft, EmptyElems DEF Inv
<1>3. ~ Dead /\ ~ Dead'
  BY <1>1 DEF Dead
<1>4. Seen = buf /\ Seen' = buf'
  BY <1>1, <1>2, <1>3, SeenBuf, SeenBufNext DEF SeenEmpty
<1>5. Calls = IF Handled = Async /\ ioc[Async].priv THEN 1 ELSE 0
  BY <1>1, <1>3 DEF Inv, RInv, CallCount, Counting, Calls, Handled
<1>6. /\ Handled = current /\ Handled' = Nobody /\ Calls' = 0 /\ Running = {}
      /\ UNCHANGED <<Pending, Running>>
  BY <1>1, <1>2, <1>3, NoBlocks DEF Handled, Calls, Running, Pending
<1> QED
  BY <1>1, <1>2, <1>4, <1>5, <1>6, IocsDiffer, AsReturn

(* The loop: what it has issued is still running, what the controller has     *)
(* executed is done.                                                         *)
LEMMA ContextsSeen ==
  ASSUME ContextsStay, ~ Dead, ~ Dead', UNCHANGED current
  PROVE  UNCHANGED <<ioc[Async].priv, Pending, Handled>>
BY IocsDiffer DEF ContextsStay, Pending, Handled

BlocksIn(S) == UNION {Blocks(x.task) : x \in S}

LEMMA BlocksInMore ==
  ASSUME NEW S, NEW y
  PROVE  BlocksIn(S \cup {y}) = BlocksIn(S) \cup Blocks(y.task)
<1>1. \A r : r \in BlocksIn(S) <=> \E x \in S : r \in Blocks(x.task)
  BY DEF BlocksIn
<1>2. \A r : r \in BlocksIn(S \cup {y}) <=> \E x \in S \cup {y} : r \in Blocks(x.task)
  BY DEF BlocksIn
<1> QED
  BY <1>1, <1>2

LEMMA IssueMaps ==
  ASSUME Inv, Inv', Issue
  PROVE  UNCHANGED B!bvars
<1> USE QueueAssumption
<1>1. /\ pc = "issue" /\ pc' = pc /\ t # << >> /\ t' = Tail(t)
      /\ ioc' = [ioc EXCEPT ![current].total_nseg = @ + Head(t).len]
      /\ UNCHANGED <<current, cq, buf, called, disk>>
  BY DEF Issue
<1>2. PICK y \in Issued :
        /\ y.task = Head(t) /\ flight' = flight \cup {y}
        /\ \A x \in Owners : \A b \in Used(x) : mem'[b] = mem[b]
  BY IssueFacts DEF Inv
<1>3. current \in Ioc /\ t \in Seq(Task) /\ ~ Dead /\ ~ Dead'
  BY <1>1 DEF Inv, IInv, Shape, Phase, Dead
<1>4. ContextsStay
  BY <1>1, <1>3 DEF Inv, IInv, Shape, IocRecord, ContextsStay
<1>5. UNCHANGED <<ioc[Async].priv, Pending, Handled>>
  BY <1>1, <1>3, <1>4, ContextsSeen
<1>6. UNCHANGED Running
  <2>1. BlocksOf(t) = Blocks(y.task) \cup BlocksOf(t')
    BY <1>1, <1>2, <1>3, HeadBlocks
  <2>2. BlocksIn(flight') = BlocksIn(flight) \cup Blocks(y.task)
    BY <1>2, BlocksInMore
  <2>3. Running = BlocksOf(t) \cup BlocksIn(flight)
        /\ Running' = BlocksOf(t') \cup BlocksIn(flight')
    BY <1>3 DEF Running, BlocksIn
  <2> QED
    BY <2>1, <2>2, <2>3
<1>7. UNCHANGED Seen
  <2>1. \A x \in Elems(cq) : \A b \in Used(x) : mem'[b] = mem[b]
    BY <1>2 DEF Owners, Cmds
  <2>2. \A c \in Ioc, s \in Slot : Seen'[c][s] = Seen[c][s]
    <3> SUFFICES ASSUME NEW c \in Ioc, NEW s \in Slot PROVE Seen'[c][s] = Seen[c][s]
      OBVIOUS
    <3> DEFINE X == {}
    <3>1. Elems(cq') \ X = Elems(cq) \ X /\ buf'[c][s] = buf[c][s]
          /\ \A x \in X : ~ Has(x, c, s)
      BY <1>1
    <3>2. \A x \in Elems(cq) \ X : \A b \in Used(x) : mem'[b] = mem[b]
      BY <2>1
    <3> HIDE DEF X
    <3> QED
      BY <1>3, <3>1, <3>2, SeenKeeps
  <2> QED
    BY <2>2, SeenSame
<1>8. UNCHANGED Calls
  BY <1>1, <1>3 DEF Calls
<1> QED
  BY <1>1, <1>5, <1>6, <1>7, <1>8, AsStutter

LEMMA ReleaseMaps ==
  ASSUME Inv, Inv', ReleaseWrite
  PROVE  UNCHANGED B!bvars
<1> USE QueueAssumption
<1>1. PICK x \in releasing :
        /\ release_segs(x) /\ pc = "release" /\ pc' = "process"
        /\ ioc' = [ioc EXCEPT ![x.task.ioc].total_nseg = @ - Len(x.segs)]
        /\ UNCHANGED <<current, t, flight, cq, buf, called, disk>>
  BY DEF ReleaseWrite
<1>2. x \in Owners /\ x \notin Cmds /\ x.task.ioc \in Ioc
  <2>1. x \in Owners /\ x \notin Cmds
    BY <1>1 DEF Inv, IInv, Owned, Owners
  <2> QED
    BY <2>1, OwnerFacts DEF Task, Inv
<1>3. ~ Dead /\ ~ Dead'
  BY <1>1 DEF Dead
<1>4. ContextsStay
  BY <1>1, <1>2 DEF Inv, IInv, Shape, IocRecord, ContextsStay
<1>5. UNCHANGED <<ioc[Async].priv, Pending, Handled>>
  BY <1>1, <1>3, <1>4, ContextsSeen
<1>6. UNCHANGED <<Running, Calls>>
  BY <1>1, <1>3 DEF Running, Calls
<1>7. UNCHANGED Seen
  <2>1. \A y \in Elems(cq) : \A b \in Used(y) : mem'[b] = mem[b]
    <3> SUFFICES ASSUME NEW y \in Elems(cq), NEW b \in Used(y) PROVE mem'[b] = mem[b]
      OBVIOUS
    <3>1. y \in Owners /\ y # x
      BY <1>2 DEF Owners, Cmds
    <3>2. b \in Buf \ Used(x)
      BY <1>2, <3>1, OthersBuffers DEF Inv
    <3> QED
      BY <1>1, <3>2 DEF release_segs
  <2>2. \A c \in Ioc, s \in Slot : Seen'[c][s] = Seen[c][s]
    <3> SUFFICES ASSUME NEW c \in Ioc, NEW s \in Slot PROVE Seen'[c][s] = Seen[c][s]
      OBVIOUS
    <3> DEFINE X == {}
    <3>1. Elems(cq') \ X = Elems(cq) \ X /\ buf'[c][s] = buf[c][s]
          /\ \A y \in X : ~ Has(y, c, s)
      BY <1>1
    <3>2. \A y \in Elems(cq) \ X : \A b \in Used(y) : mem'[b] = mem[b]
      BY <2>1
    <3> HIDE DEF X
    <3> QED
      BY <1>3, <3>1, <3>2, SeenKeeps
  <2> QED
    BY <2>2, SeenSame
<1> QED
  BY <1>1, <1>5, <1>6, <1>7, AsStutter

(* A processed completion: the data of a read is where it was seen.          *)
LEMMA CompletedSees ==
  ASSUME Inv, Inv', NEW x, NEW cmd, Completing(x, cmd), pc' # "aborted", ContextsStay,
         \A b \in Buf \ Used(x) : mem'[b] = mem[b],
         \A c \in Ioc, s \in Slot : ~ Has(x, c, s) => buf'[c][s] = buf[c][s],
         \A c \in Ioc, s \in Slot : Has(x, c, s) => buf'[c][s] = mem[Piece(x, s)]
  PROVE  /\ x \in Cmds /\ x.task.ioc = current /\ current \in Ioc /\ ~ Dead /\ ~ Dead'
         /\ UNCHANGED <<disk, ioc[Async].priv, Seen, Pending, Running, Handled>>
<1> USE QueueAssumption
<1>1. /\ pc = "process" /\ current \in Ioc /\ x \in Cmds /\ x \in Owners
      /\ x.task.ioc = current /\ UNCHANGED <<current, t, flight>>
  BY CompletingFacts DEF Inv
<1>2. ~ Dead /\ ~ Dead'
  BY <1>1 DEF Dead
<1>3. x \in Elems(cq) /\ Elems(cq') = Elems(cq) \ {x} /\ disk' = disk
  <2>1. cq \in Seq(Issued) /\ Distinct(cq)
    BY DEF Inv, IInv, Shape, Owned
  <2>2. cq # << >> /\ x = Head(cq) /\ cq' = Tail(cq) /\ disk' = disk
    BY DEF Completing
  <2> QED
    BY <2>1, <2>2, TailElems
<1>4. UNCHANGED <<ioc[Async].priv, Pending, Handled>>
  BY <1>1, <1>2, ContextsSeen
<1>5. UNCHANGED Running
  BY <1>1, <1>2 DEF Running
<1>6. \A y \in Elems(cq) \ {x} : \A b \in Used(y) : mem'[b] = mem[b]
  <2> SUFFICES ASSUME NEW y \in Elems(cq) \ {x}, NEW b \in Used(y) PROVE mem'[b] = mem[b]
    OBVIOUS
  <2>1. y \in Owners /\ y # x
    BY DEF Owners, Cmds
  <2>2. b \in Buf \ Used(x)
    BY <1>1, <2>1, OthersBuffers DEF Inv
  <2> QED
    BY <2>2
<1>7. ASSUME NEW c \in Ioc, NEW s \in Slot PROVE Seen'[c][s] = Seen[c][s]
  <2>1. CASE ~ Has(x, c, s)
    <3>1. Elems(cq') \ {x} = Elems(cq) \ {x} /\ buf'[c][s] = buf[c][s]
      BY <1>3, <2>1
    <3> QED
      BY <1>2, <1>6, <2>1, <3>1, SeenOthers
  <2>2. CASE Has(x, c, s)
    <3>1. Seen[c][s] = mem[Piece(x, s)]
      BY <1>2, <1>3, <2>2, SeenValue DEF SeenIs
    <3>2. \A y \in Elems(cq') : ~ Has(y, c, s)
      <4> SUFFICES ASSUME NEW y \in Elems(cq') PROVE ~ Has(y, c, s)
        OBVIOUS
      <4>1. y \in Cmds /\ x # y /\ s \in Nat
        BY <1>3 DEF Cmds, Slot
      <4> QED
        BY <1>1, <2>2, <4>1, ApartCovers DEF Inv, Has
    <3>3. Seen'[c][s] = buf'[c][s]
      BY <1>2, <3>2, SeenNext DEF SeenIs
    <3> QED
      BY <2>2, <3>1, <3>3
  <2> QED
    BY <2>1, <2>2
<1>8. UNCHANGED Seen
  BY <1>7, SeenSame
<1> QED
  BY <1>1, <1>2, <1>3, <1>4, <1>5, <1>8

(* The callback comes when the last command is processed.                    *)
LEMMA CalledMaps ==
  ASSUME Inv, NEW x, NEW cmd, Completing(x, cmd), ~ Dead, ~ Dead',
         called' = called_after(current),
         UNCHANGED <<disk, ioc[Async].priv, Seen, Pending, Running, Handled>>
  PROVE  B!BNext \/ UNCHANGED B!bvars
<1> USE QueueAssumption
<1>1. pc = "process" /\ current \in Ioc /\ left \in Nat
  BY CompletingFacts DEF Inv
<1>2. CASE ~ LastOne(current)
  <2>1. UNCHANGED Calls
    BY <1>2 DEF Calls, called_after
  <2> QED
    BY <2>1, AsStutter
<1>3. CASE LastOne(current)
  <2>1. ioc[current].priv /\ left = 1 /\ current = Async
    BY <1>1, <1>3, IocsDiffer DEF LastOne, Inv, IInv, Counted, RInv, CallCount
  <2>2. called = 0
    BY <2>1, CountingIs DEF Inv, RInv, CallCount
  <2>3. Calls = 0 /\ Calls' = 1 /\ Handled = Async
    BY <1>3, <2>1, <2>2 DEF Calls, Handled, called_after
  <2>4. t = << >> /\ flight = {}
    <3>1. /\ Len(t) \in Nat /\ Len(cq) \in Nat \ {0} /\ Cardinality(flight) \in Nat
          /\ current_queue_depth = Cardinality(flight) + Len(cq)
          /\ t \in Seq(Task) /\ IsFiniteSet(flight)
      BY FS_CardinalityType DEF Completing, Inv, IInv, Shape, Counted
    <3>2. Len(t) = 0 /\ Cardinality(flight) = 0
      BY <2>1, <3>1 DEF left
    <3> QED
      BY <3>1, <3>2, FS_EmptySet
  <2>5. Running = {}
    BY <2>4, NoBlocks DEF Running
  <2> QED
    BY <2>1, <2>3, <2>5, AsCallback
<1> QED
  BY <1>2, <1>3

LEMMA WriteCompletesMaps ==
  ASSUME Inv, Inv', io_complete_write
  PROVE  B!BNext \/ UNCHANGED B!bvars
<1> USE QueueAssumption
<1>1. PICK x : /\ Completing(x, "write")
               /\ ioc' = [ioc EXCEPT ![x.task.ioc] = Finished(x.task.ioc, 0)]
               /\ called' = called_after(x.task.ioc) /\ pc' = "release"
               /\ UNCHANGED <<mem, buf>>
  BY DEF io_complete_write
<1>2. x.task.cmd = "write" /\ x.task.ioc = current /\ current \in Ioc
  BY <1>1, CompletingFacts DEF Inv
<1>3. ContextsStay
  BY <1>1, <1>2, FinishedStays DEF Inv
<1>4. \A c \in Ioc, s \in Slot : ~ Has(x, c, s)
  BY <1>2 DEF Has
<1>5. /\ x \in Cmds /\ x.task.ioc = current /\ current \in Ioc /\ ~ Dead /\ ~ Dead'
      /\ UNCHANGED <<disk, ioc[Async].priv, Seen, Pending, Running, Handled>>
  BY <1>1, <1>3, <1>4, CompletedSees
<1> QED
  BY <1>1, <1>5, CalledMaps

(* Where the data of a read goes.                                            *)
LEMMA ReadSees ==
  ASSUME Inv, NEW x \in Owners, x.task.cmd = "read", buf' = CopiedOut(x)
  PROVE  /\ \A c \in Ioc, s \in Slot : ~ Has(x, c, s) => buf'[c][s] = buf[c][s]
         /\ \A c \in Ioc, s \in Slot : Has(x, c, s) => buf'[c][s] = mem[Piece(x, s)]
BY QueueAssumption, CopiedOutPieces DEF Inv, Has, Piece

LEMMA AioReadCompletesMaps ==
  ASSUME Inv, Inv', io_complete_aio_read
  PROVE  B!BNext \/ UNCHANGED B!bvars
<1> USE QueueAssumption
<1>1. PICK x : /\ Completing(x, "read")
               /\ buf' = CopiedOut(x) /\ release_segs(x)
               /\ ioc' = [ioc EXCEPT ![x.task.ioc] = Finished(x.task.ioc, Len(x.segs))]
               /\ called' = called_after(x.task.ioc) /\ pc' = pc
  BY DEF io_complete_aio_read
<1>2. /\ x \in Owners /\ x.task.cmd = "read" /\ x.task.ioc = current /\ current \in Ioc
      /\ pc = "process"
  BY <1>1, CompletingFacts DEF Inv
<1>3. ContextsStay
  BY <1>1, <1>2, FinishedStays DEF Inv
<1>4. \A b \in Buf \ Used(x) : mem'[b] = mem[b]
  BY <1>1 DEF release_segs
<1>5. /\ x \in Cmds /\ x.task.ioc = current /\ current \in Ioc /\ ~ Dead /\ ~ Dead'
      /\ UNCHANGED <<disk, ioc[Async].priv, Seen, Pending, Running, Handled>>
  BY <1>1, <1>2, <1>3, <1>4, ReadSees, CompletedSees
<1> QED
  BY <1>1, <1>5, CalledMaps

LEMMA SyncReadCompletesMaps ==
  ASSUME Inv, Inv', io_complete_read
  PROVE  UNCHANGED B!bvars
<1> USE QueueAssumption
<1>1. PICK x : /\ Completing(x, "read")
               /\ buf' = CopiedOut(x) /\ release_segs(x)
               /\ ioc' = [ioc EXCEPT ![x.task.ioc].num_running = @ - 1,
                                     ![x.task.ioc].total_nseg = @ - Len(x.segs)]
               /\ called' = called /\ pc' = pc
  BY DEF io_complete_read
<1>2. /\ x \in Owners /\ x.task.cmd = "read" /\ x.task.ioc = current /\ current \in Ioc
      /\ pc = "process"
  BY <1>1, CompletingFacts DEF Inv
<1>3. ContextsStay
  <2>1. ioc \in [Ioc -> IocRecord]
    BY DEF Inv, IInv, Shape
  <2> QED
    BY <1>1, <1>2, <2>1 DEF IocRecord, ContextsStay
<1>4. \A b \in Buf \ Used(x) : mem'[b] = mem[b]
  BY <1>1 DEF release_segs
<1>5. /\ ~ Dead /\ ~ Dead'
      /\ UNCHANGED <<disk, ioc[Async].priv, Seen, Pending, Running, Handled>>
  BY <1>1, <1>2, <1>3, <1>4, ReadSees, CompletedSees
<1>6. UNCHANGED Calls
  BY <1>1, <1>5 DEF Calls
<1> QED
  BY <1>5, <1>6, AsStutter

(* The controller executes one command: its blocks, and no other, are done.   *)
LEMMA ExecuteBlocks ==
  ASSUME Inv, NEW x \in flight, Execute(x)
  PROVE  /\ x.task \in Task /\ Fits(x.task) /\ x \in Owners
         /\ Blocks(x.task) # {} /\ Blocks(x.task) \subseteq Running
         /\ Running' = Running \ Blocks(x.task)
<1> USE QueueAssumption
<1>1. flight' = flight \ {x} /\ UNCHANGED <<pc, t>> /\ ~ Dead /\ ~ Dead'
  BY DEF Execute, Dead
<1>2. flight \subseteq Owners /\ flight \subseteq Cmds
  BY DEF Owners, Cmds
<1>3. \A y \in flight : y.task \in Task /\ Fits(y.task)
  BY <1>2, OwnerFacts DEF Inv, DataInv, InBuffers
<1>4. \A i \in DOMAIN t : t[i] \in Task /\ Fits(t[i])
  BY DEF Inv, DataInv, Requests, IInv, Shape
<1>5. Running = BlocksOf(t) \cup BlocksIn(flight)
      /\ Running' = BlocksOf(t) \cup BlocksIn(flight')
  BY <1>1 DEF Running, BlocksIn
<1>6. BlocksIn(flight) = BlocksIn(flight') \cup Blocks(x.task)
  <2>1. flight = flight' \cup {x}
    BY <1>1
  <2> QED
    BY <2>1, BlocksInMore
<1>7. BlocksOf(t) \cap Blocks(x.task) = {}
  <2>1. \A i \in DOMAIN t : Apart(x.task, t[i])
    BY <1>2 DEF Inv, RInv, SlotsApart
  <2>2. \A i \in DOMAIN t : Blocks(x.task) \cap Blocks(t[i]) = {}
    BY <1>3, <1>4, <2>1, BlocksApart
  <2> QED
    BY <2>2 DEF BlocksOf
<1>8. BlocksIn(flight') \cap Blocks(x.task) = {}
  <2>1. \A y \in flight' : Apart(x.task, y.task)
    BY <1>1, <1>2 DEF Inv, RInv, SlotsApart
  <2>2. \A y \in flight' : Blocks(x.task) \cap Blocks(y.task) = {}
    BY <1>1, <1>3, <2>1, BlocksApart
  <2> QED
    BY <2>2 DEF BlocksIn
<1>9. Blocks(x.task) # {}
  BY <1>3, BlocksExist
<1> QED
  BY <1>2, <1>3, <1>5, <1>6, <1>7, <1>8, <1>9

(* The number of a block of a command.                                       *)
LEMMA BlockNumber ==
  ASSUME NEW task \in Task, Fits(task), NEW r \in Blocks(task)
  PROVE  \E k \in 1 .. task.len :
           /\ k = r.slot - task.slot + 1
           /\ r.lba = task.off + k - 1 /\ r.slot = task.slot + k - 1
<1>1. /\ r.slot \in Nat /\ task.slot <= r.slot /\ r.slot < task.slot + task.len
      /\ r.lba = task.off + (r.slot - task.slot + 1) - 1
  BY QueueAssumption, BlockFacts
<1>2. task.slot \in Nat /\ task.len \in Nat
  BY QueueAssumption, TaskNats
<1>3. r.slot - task.slot + 1 \in 1 .. task.len
      /\ r.slot = task.slot + (r.slot - task.slot + 1) - 1
  BY <1>1, <1>2, PieceNumber
<1> QED
  BY <1>1, <1>3

LEMMA NumberedBlock ==
  ASSUME NEW task \in Task, Fits(task), NEW k \in 1 .. task.len
  PROVE  \E r \in Blocks(task) : r.slot = task.slot + k - 1 /\ r.lba = task.off + k - 1
<1>1. task.slot \in Nat /\ task.len \in Nat
  BY QueueAssumption, TaskNats
<1>2. /\ task.slot + k - 1 \in Nat /\ task.slot <= task.slot + k - 1
      /\ task.slot + k - 1 < task.slot + task.len
      /\ (task.slot + k - 1) - task.slot + 1 = k
  BY <1>1
<1>3. PICK r \in Blocks(task) : r.slot = task.slot + k - 1
  BY <1>2, QueueAssumption, BlockAt
<1>4. r.lba = task.off + (r.slot - task.slot + 1) - 1
  BY QueueAssumption, BlockFacts
<1> QED
  BY <1>2, <1>3, <1>4

(* A write stores what the caller's buffer holds.                            *)
LEMMA ExecuteDisk ==
  ASSUME Inv, NEW x \in flight, Execute(x), NEW l \in Lba
  PROVE  disk'[l] = IF \E r \in Blocks(x.task) : r.cmd = "write" /\ r.lba = l
                      THEN LET r == CHOOSE r \in Blocks(x.task) : r.cmd = "write" /\ r.lba = l
                           IN  Seen[r.ioc][r.slot]
                      ELSE disk[l]
<1> USE QueueAssumption
<1>1. x.task \in Task /\ Fits(x.task) /\ x \in Owners /\ x \in Cmds
  BY ExecuteBlocks DEF Cmds
<1>2. /\ x.task.cmd = "write" =>
           /\ \A k \in 1 .. x.task.len : disk'[x.task.off + k - 1] = mem[x.segs[k]]
           /\ (\A k \in 1 .. x.task.len : l # x.task.off + k - 1) => disk'[l] = disk[l]
      /\ x.task.cmd = "read" => UNCHANGED disk
  BY ExecuteFacts DEF Inv
<1>3. x.task.cmd = "read" \/ x.task.cmd = "write"
  BY <1>1 DEF Task
<1>4. \A r \in Blocks(x.task) : r.cmd = x.task.cmd
  BY <1>1, BlockFacts
<1>5. CASE \E r \in Blocks(x.task) : r.cmd = "write" /\ r.lba = l
  <2> DEFINE r == CHOOSE r \in Blocks(x.task) : r.cmd = "write" /\ r.lba = l
  <2>1. r \in Blocks(x.task) /\ r.cmd = "write" /\ r.lba = l
    BY <1>5
  <2> HIDE DEF r
  <2>2. x.task.cmd = "write"
    BY <1>4, <2>1
  <2>3. PICK k \in 1 .. x.task.len :
          r.lba = x.task.off + k - 1 /\ r.slot = x.task.slot + k - 1
    BY <1>1, <2>1, BlockNumber
  <2>4. disk'[l] = mem[x.segs[k]]
    BY <1>2, <2>1, <2>2, <2>3
  <2>5. mem[x.segs[k]] = buf[x.task.ioc][r.slot]
    BY <2>2, <2>3 DEF Inv, RInv, Loaded
  <2>6. Seen[x.task.ioc][r.slot] = buf[x.task.ioc][r.slot]
    <3>1. r.slot \in Slot /\ Covers(x, r.slot) /\ r.slot \in Nat /\ x.task.ioc \in Ioc
      BY <1>1, <2>3, PieceFacts DEF Inv, Task, Slot
    <3>2. x \notin Elems(cq)
      BY ExecuteFacts DEF Inv
    <3>3. \A y \in Elems(cq) : ~ Covers(y, r.slot)
      BY <1>1, <3>1, <3>2, ApartCovers DEF Inv, Cmds
    <3>4. \A y \in Elems(cq) : ~ Has(y, x.task.ioc, r.slot)
      BY <3>3 DEF Has
    <3>5. ~ Dead
      BY DEF Execute, Dead
    <3> QED
      BY <3>1, <3>4, <3>5, SeenValue DEF SeenIs
  <2>7. r.ioc = x.task.ioc
    BY <1>1, <2>1, BlockFacts
  <2> QED
    BY <1>5, <2>4, <2>5, <2>6, <2>7 DEF r
<1>6. CASE ~ \E r \in Blocks(x.task) : r.cmd = "write" /\ r.lba = l
  <2>1. ASSUME x.task.cmd = "write", NEW k \in 1 .. x.task.len
        PROVE  l # x.task.off + k - 1
    <3>1. \E r \in Blocks(x.task) : r.lba = x.task.off + k - 1
      BY <1>1, NumberedBlock
    <3> QED
      BY <1>4, <1>6, <2>1, <3>1
  <2>2. disk'[l] = disk[l]
    BY <1>2, <1>3, <2>1
  <2> QED
    BY <1>6, <2>2
<1> QED
  BY <1>5, <1>6

(* A read brings what the device holds.                                      *)
LEMMA ExecuteSeen ==
  ASSUME Inv, Inv', NEW x \in flight, Execute(x), NEW c \in Ioc, NEW s \in Slot
  PROVE  Seen'[c][s] =
           IF \E r \in Blocks(x.task) : r.cmd = "read" /\ r.ioc = c /\ r.slot = s
             THEN disk[(CHOOSE r \in Blocks(x.task) :
                          r.cmd = "read" /\ r.ioc = c /\ r.slot = s).lba]
             ELSE Seen[c][s]
<1> USE QueueAssumption
<1>1. x.task \in Task /\ Fits(x.task) /\ x \in Owners /\ s \in Nat
  BY ExecuteBlocks DEF Slot
<1>2. /\ Elems(cq') = Elems(cq) \cup {x}
      /\ \A b \in Buf \ Used(x) : mem'[b] = mem[b]
      /\ x.task.cmd = "read" =>
           \A k \in 1 .. x.task.len : mem'[x.segs[k]] = disk[x.task.off + k - 1]
  BY ExecuteFacts DEF Inv
<1>3. ~ Dead /\ ~ Dead' /\ buf' = buf
  BY DEF Execute, Dead
<1>4. \A r \in Blocks(x.task) : r.cmd = x.task.cmd /\ r.ioc = x.task.ioc
  BY <1>1, BlockFacts
<1> DEFINE Wanted(r) == r.cmd = "read" /\ r.ioc = c /\ r.slot = s
<1>5. CASE \E r \in Blocks(x.task) : Wanted(r)
  <2> DEFINE r == CHOOSE r \in Blocks(x.task) : Wanted(r)
  <2>1. r \in Blocks(x.task) /\ Wanted(r)
    BY <1>5
  <2> HIDE DEF r
  <2>2. PICK k \in 1 .. x.task.len :
          k = r.slot - x.task.slot + 1 /\ r.lba = x.task.off + k - 1
    BY <1>1, <2>1, BlockNumber
  <2>3. Has(x, c, s)
    BY <1>1, <1>4, <2>1, BlockFacts DEF Has, Covers
  <2>4. Seen'[c][s] = mem'[Piece(x, s)]
    BY <1>2, <1>3, <2>3, SeenNext DEF SeenIs
  <2>5. Piece(x, s) = x.segs[k]
    BY <2>1, <2>2 DEF Piece
  <2>6. Seen'[c][s] = disk[r.lba]
    BY <1>2, <2>2, <2>3, <2>4, <2>5 DEF Has
  <2> QED
    BY <1>5, <2>6 DEF r
<1>6. CASE ~ \E r \in Blocks(x.task) : Wanted(r)
  <2>1. ~ Has(x, c, s)
    <3> SUFFICES ASSUME Has(x, c, s) PROVE FALSE
      OBVIOUS
    <3>1. \E r \in Blocks(x.task) : r.slot = s
      BY <1>1, BlockAt DEF Has, Covers
    <3> QED
      BY <1>4, <1>6, <3>1 DEF Has
  <2>2. Elems(cq') \ {x} = Elems(cq) \ {x} /\ buf'[c][s] = buf[c][s]
    BY <1>2, <1>3
  <2>3. \A y \in Elems(cq) \ {x} : \A b \in Used(y) : mem'[b] = mem[b]
    <3> SUFFICES ASSUME NEW y \in Elems(cq), y # x, NEW b \in Used(y) PROVE mem'[b] = mem[b]
      OBVIOUS
    <3>1. y \in Owners
      BY DEF Owners, Cmds
    <3>2. b \in Buf \ Used(x)
      BY <1>1, <3>1, OthersBuffers DEF Inv
    <3> QED
      BY <1>2, <3>2
  <2>4. Seen'[c][s] = Seen[c][s]
    BY <1>3, <2>1, <2>2, <2>3, SeenOthers
  <2> QED
    BY <1>6, <2>4
<1> QED
  BY <1>5, <1>6

LEMMA ExecuteMaps ==
  ASSUME Inv, Inv', NEW x \in flight, Execute(x)
  PROVE  B!BNext
<1> USE QueueAssumption
<1> DEFINE S == Blocks(x.task)
           newDisk(l) == IF \E r \in S : r.cmd = "write" /\ r.lba = l
                           THEN LET r == CHOOSE r \in S : r.cmd = "write" /\ r.lba = l
                                IN  Seen[r.ioc][r.slot]
                           ELSE disk[l]
           newSeen(c, s) == IF \E r \in S : r.cmd = "read" /\ r.ioc = c /\ r.slot = s
                              THEN disk[(CHOOSE r \in S :
                                           r.cmd = "read" /\ r.ioc = c /\ r.slot = s).lba]
                              ELSE Seen[c][s]
<1>1. x.task \in Task /\ Fits(x.task) /\ S # {} /\ S \subseteq Running /\ Running' = Running \ S
  BY ExecuteBlocks
<1>2. \A r, s \in S : r.cmd = s.cmd
  BY <1>1, BlockFacts
<1>3. \A l \in Lba : disk'[l] = newDisk(l)
  BY ExecuteDisk
<1>4. \A c \in Ioc, s \in Slot : Seen'[c][s] = newSeen(c, s)
  BY ExecuteSeen
<1>5. disk' \in [Lba -> Data] /\ Seen' = [c \in Ioc |-> [s \in Slot |-> Seen'[c][s]]]
  BY SeenDomain DEF Inv, DataInv, Typed
<1>6. UNCHANGED <<ioc[Async].priv, Pending, Handled, Calls>>
  BY DEF Execute, Pending, Handled, Calls, Dead
<1> HIDE DEF newDisk, newSeen
<1>7. disk' = [l \in Lba |-> newDisk(l)]
  BY <1>3, <1>5
<1>8. Seen' = [c \in Ioc |-> [s \in Slot |-> newSeen(c, s)]]
  BY <1>4, <1>5
<1> HIDE DEF S
<1> QED
  BY <1>1, <1>2, <1>6, <1>7, <1>8, AsExecute DEF newDisk, newSeen

LEMMA NextMaps ==
  ASSUME Inv, Inv', [Next]_vars
  PROVE  B!BNext \/ UNCHANGED B!bvars
<1>1. CASE UNCHANGED vars
  <2>1. UNCHANGED loop_vars /\ Dead' = Dead
    BY <1>1 DEF vars, loop_vars, Dead
  <2> QED
    BY <2>1, LoopMaps
<1>2. ASSUME NEW off \in Lba, NEW f \in Contents, write(off, f) \/ aio_write(off, f)
      PROVE  B!BNext
  BY <1>2, WriteMaps, AioWriteMaps
<1>3. ASSUME NEW off \in Lba, NEW len \in 1 .. Slots, read(off, len) \/ aio_read(off, len)
      PROVE  B!BNext
  BY <1>3, ReadMaps, AioReadMaps
<1>4. CASE Submit \/ NewIOContext
  BY <1>4, SubmitMaps, NewIOContextMaps
<1>5. CASE While \/ Again \/ Processed \/ GotoAgain \/ AllIssued
  <2>1. UNCHANGED loop_vars /\ Dead' = Dead
    BY <1>5 DEF While, Again, Processed, GotoAgain, AllIssued, Dead
  <2> QED
    BY <2>1, LoopMaps
<1>6. CASE Return \/ Issue
  BY <1>6, ReturnMaps, IssueMaps
<1>7. CASE io_complete_write \/ ReleaseWrite
  BY <1>7, WriteCompletesMaps, ReleaseMaps
<1>8. CASE io_complete_aio_read \/ io_complete_read
  BY <1>8, AioReadCompletesMaps, SyncReadCompletesMaps
<1>9. CASE Controller
  BY <1>9, ExecuteMaps DEF Controller
<1>10. CASE Abort \/ Restart
  BY <1>10, AbortMaps, RestartMaps
<1> QED
  BY <1>1, <1>2, <1>3, <1>4, <1>5, <1>6, <1>7, <1>8, <1>9, <1>10 DEF Next, Caller, Thread

(* A thread that drives an NVMEDevice may forget the queue, the splitting,    *)
(* the pool of DMA buffers and the polling loop: whatever the number of      *)
(* slots and buffers and in whatever order commands are executed and         *)
(* processed, a write stores what the caller's buffer held, a read brings    *)
(* back what the device held, and aio_submit comes back after the last block *)
(* and after exactly one callback (nvme_device.cpp, driver_queue.cpp).       *)
THEOREM Implements == Spec => ImplementsBlockIO
<1>1. Init => Inv /\ B!BInit
  <2>1. Init => IInv
    BY QueueAssumption, InvFresh DEF Init, Fresh
  <2>2. Init => DataInv
    BY FreshData DEF Init, Fresh
  <2>3. Init => RInv
    BY RFresh DEF Init, Started, Fresh
  <2> QED
    BY <2>1, <2>2, <2>3, InitMaps DEF Inv
<1>2. Inv /\ [Next]_vars => Inv'
  BY InvNext, DataNext, RNext DEF Inv
<1>3. Inv /\ Inv' /\ [Next]_vars => [B!BNext]_(B!bvars)
  BY NextMaps
<1> QED
  BY <1>1, <1>2, <1>3, PTL DEF Spec, B!BSpec, ImplementsBlockIO
=============================================================================

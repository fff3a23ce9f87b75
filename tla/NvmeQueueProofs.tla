-------------------------- MODULE NvmeQueueProofs --------------------------
(***************************************************************************)
(* Proofs about a thread's I/O path, for any size of device, pool, queue   *)
(* and split.                                                              *)
(***************************************************************************)
EXTENDS NvmeQueue, SequenceTheorems, FiniteSetTheorems, TLAPS

----------------------------------------------------------------------------
(* Sequences without repetition, as sets.                                    *)

Elems(q) == {q[i] : i \in DOMAIN q}
Distinct(q) == \A i, j \in DOMAIN q : q[i] = q[j] => i = j

LEMMA EmptyElems == Elems(<< >>) = {} /\ Distinct(<< >>) /\ Len(<< >>) = 0
BY DEF Elems, Distinct

LEMMA AppendElems ==
  ASSUME NEW S, NEW q \in Seq(S), Distinct(q), NEW x \in S, x \notin Elems(q)
  PROVE  /\ Append(q, x) \in Seq(S) /\ Distinct(Append(q, x))
         /\ Elems(Append(q, x)) = Elems(q) \cup {x}
         /\ Len(Append(q, x)) = Len(q) + 1
<1> DEFINE r == Append(q, x)
<1>1. /\ r \in Seq(S) /\ Len(r) = Len(q) + 1 /\ Len(q) \in Nat
      /\ r[Len(q) + 1] = x
      /\ \A i \in 1 .. Len(q) : r[i] = q[i] /\ q[i] \in S
      /\ DOMAIN r = 1 .. Len(q) + 1 /\ DOMAIN q = 1 .. Len(q)
  OBVIOUS
<1> HIDE DEF r
<1>2. Distinct(r)
  <2> SUFFICES ASSUME NEW i \in 1 .. Len(q) + 1, NEW j \in 1 .. Len(q) + 1, r[i] = r[j]
               PROVE  i = j
    BY <1>1 DEF Distinct
  <2>1. CASE i \in 1 .. Len(q) /\ j \in 1 .. Len(q)
    BY <1>1, <2>1 DEF Distinct
  <2>2. CASE i = Len(q) + 1 /\ j \in 1 .. Len(q)
    BY <1>1, <2>2 DEF Elems
  <2>3. CASE i \in 1 .. Len(q) /\ j = Len(q) + 1
    BY <1>1, <2>3 DEF Elems
  <2>4. CASE i = Len(q) + 1 /\ j = Len(q) + 1
    BY <2>4
  <2> QED
    BY <1>1, <2>1, <2>2, <2>3, <2>4
<1>3. Elems(r) = Elems(q) \cup {x}
  <2>1. ASSUME NEW y \in Elems(r) PROVE y \in Elems(q) \cup {x}
    <3>1. PICK i \in 1 .. Len(q) + 1 : y = r[i]
      BY <1>1, <2>1 DEF Elems
    <3>2. i \in 1 .. Len(q) \/ i = Len(q) + 1
      BY <1>1
    <3> QED
      BY <1>1, <3>1, <3>2 DEF Elems
  <2>2. ASSUME NEW y \in Elems(q) PROVE y \in Elems(r)
    <3>1. PICK i \in 1 .. Len(q) : y = q[i]
      BY <1>1, <2>2 DEF Elems
    <3>2. i \in 1 .. Len(q) + 1 /\ y = r[i]
      BY <1>1, <3>1
    <3> QED
      BY <1>1, <3>2 DEF Elems
  <2>3. x \in Elems(r)
    BY <1>1 DEF Elems
  <2> QED
    BY <2>1, <2>2, <2>3
<1> QED
  BY <1>1, <1>2, <1>3 DEF r

LEMMA TailElems ==
  ASSUME NEW S, NEW q \in Seq(S), q # << >>, Distinct(q)
  PROVE  /\ Tail(q) \in Seq(S) /\ Head(q) \in S /\ Head(q) \in Elems(q)
         /\ Distinct(Tail(q)) /\ Elems(Tail(q)) = Elems(q) \ {Head(q)}
         /\ Len(Tail(q)) = Len(q) - 1 /\ Len(q) \in Nat \ {0}
<1> DEFINE r == Tail(q)
<1>1. /\ r \in Seq(S) /\ Len(r) = Len(q) - 1 /\ Len(q) \in Nat \ {0}
      /\ DOMAIN r = 1 .. Len(q) - 1 /\ DOMAIN q = 1 .. Len(q)
      /\ Head(q) = q[1] /\ q[1] \in S /\ 1 \in 1 .. Len(q)
  OBVIOUS
<1>2. \A i \in 1 .. Len(q) - 1 : r[i] = q[i + 1] /\ i + 1 \in 1 .. Len(q)
  BY <1>1
<1> HIDE DEF r
<1>3. Distinct(r)
  <2> SUFFICES ASSUME NEW i \in 1 .. Len(q) - 1, NEW j \in 1 .. Len(q) - 1, r[i] = r[j]
               PROVE  i = j
    BY <1>1 DEF Distinct
  <2>1. i + 1 = j + 1
    BY <1>1, <1>2 DEF Distinct
  <2> QED
    BY <2>1
<1>4. Elems(r) = Elems(q) \ {q[1]}
  <2>1. ASSUME NEW y \in Elems(r) PROVE y \in Elems(q) \ {q[1]}
    <3>1. PICK i \in 1 .. Len(q) - 1 : y = r[i]
      BY <1>1, <2>1 DEF Elems
    <3>2. y = q[i + 1] /\ i + 1 \in 1 .. Len(q) /\ i + 1 # 1
      BY <1>2, <3>1
    <3> QED
      BY <1>1, <3>2 DEF Elems, Distinct
  <2>2. ASSUME NEW y \in Elems(q), y # q[1] PROVE y \in Elems(r)
    <3>1. PICK i \in 1 .. Len(q) : y = q[i]
      BY <1>1, <2>2 DEF Elems
    <3>2. i - 1 \in 1 .. Len(q) - 1 /\ (i - 1) + 1 = i
      BY <1>1, <2>2, <3>1
    <3>3. y = r[i - 1]
      BY <1>2, <3>1, <3>2
    <3> QED
      BY <1>1, <3>2, <3>3 DEF Elems
  <2> QED
    BY <2>1, <2>2
<1> QED
  BY <1>1, <1>3, <1>4 DEF r, Elems

(* As many elements as places.                                               *)
LEMMA CountElems ==
  ASSUME NEW S, NEW q \in Seq(S), Distinct(q)
  PROVE  IsFiniteSet(Elems(q)) /\ Cardinality(Elems(q)) = Len(q)
<1>1. Len(q) \in Nat /\ DOMAIN q = 1 .. Len(q) /\ q \in [1 .. Len(q) -> Elems(q)]
  BY DEF Elems
<1>2. q \in Bijection(1 .. Len(q), Elems(q))
  BY <1>1 DEF Bijection, Injection, Surjection, IsInjective, Distinct, Elems
<1>3. ExistsBijection(1 .. Len(q), Elems(q))
  BY <1>2 DEF ExistsBijection
<1> QED
  BY <1>1, <1>3, FS_CountingElements, FS_NatBijection

(* What alloc_buf_from_pool hands out.                                       *)
LEMMA AllocationFacts ==
  ASSUME data_buf_list \subseteq Buf, NEW n \in Nat, NEW segs \in Allocations(n)
  PROVE  /\ segs \in Seq(Buf) /\ Len(segs) = n /\ Distinct(segs)
         /\ Elems(segs) \subseteq data_buf_list
<1>1. segs \in [1 .. n -> data_buf_list]
      /\ \A i, j \in 1 .. n : segs[i] = segs[j] => i = j
  BY DEF Allocations
<1>2. segs \in Seq(Buf) /\ Len(segs) = n /\ DOMAIN segs = 1 .. n
  BY <1>1
<1> QED
  BY <1>1, <1>2 DEF Distinct, Elems

----------------------------------------------------------------------------
(* The inductive invariant.                                                  *)

Cmds == flight \cup Elems(cq)
Owners == Cmds \cup releasing

(* What a call still waits for: the commands in the queue pair, the tasks    *)
(* not issued.                                                               *)
left == current_queue_depth + Len(t)

IocRecord == [alive : BOOLEAN, priv : BOOLEAN, tasks : Seq(Task),
              num_pending : Nat, num_running : Nat, total_nseg : Nat]

Shape ==
  /\ pc \in {"idle", "while", "again", "process", "issue", "release", "aborted"}
  /\ current \in Ioc \cup {Nobody}
  /\ t \in Seq(Task)
  /\ ioc \in [Ioc -> IocRecord]
  /\ primary \in [return_code : {0, 1}, ref : Nat]
  /\ flight \subseteq Issued /\ IsFiniteSet(flight)
  /\ cq \in Seq(Issued) /\ releasing \subseteq Issued
  /\ data_buf_list \subseteq Buf
  /\ current_queue_depth \in 0 .. MaxQueueDepth

(* Where the thread is and what it works on.                                 *)
Phase ==
  /\ pc = "idle" => /\ current = Nobody /\ t = << >>
                    /\ flight = {} /\ cq = << >>
                    /\ primary = [return_code |-> 0, ref |-> 0]
  /\ pc # "idle" => current \in Ioc
  /\ pc # "release" => releasing = {}
  /\ pc = "release" => releasing # {}
  /\ \A x, y \in releasing : x = y

(* Every buffer is free or belongs to one command.                           *)
Partition ==
  /\ data_buf_list \cup UNION {Used(x) : x \in Owners} = Buf
  /\ \A x \in Owners : /\ Distinct(x.segs) /\ Len(x.segs) = x.task.len
                       /\ Used(x) \cap data_buf_list = {}
  /\ \A x, y \in Owners : x # y => Used(x) \cap Used(y) = {}

Owned ==
  /\ Distinct(cq) /\ Elems(cq) \cap flight = {} /\ Cmds \cap releasing = {}
  /\ Partition

(* The tasks of a context that are not submitted.                            *)
Staged ==
  /\ ioc[Sync].tasks = << >>
  /\ \A i \in DOMAIN ioc[Async].tasks :
       LET task == ioc[Async].tasks[i]
       IN  task.ioc = Async /\ task.return_code = 0 /\ ~ task.sub

(* All the work of one call is of one kind: tasks that leave primary alone,   *)
(* the single task of a read, or its subtasks.                               *)
OfKind(task, rc, sub) ==
  /\ task.ioc = current /\ task.return_code = rc /\ task.sub = sub
  /\ task.cmd = "write" => rc = 0

Kind(rc, sub) ==
  /\ sub => rc = 1
  /\ \A x \in Owners : OfKind(x.task, rc, sub)
  /\ \A i \in DOMAIN t : OfKind(t[i], rc, sub)
  /\ primary.ref = IF sub THEN left ELSE 0
  /\ primary.return_code = IF left = 0 THEN 0 ELSE rc
  /\ rc = 1 /\ ~ sub => left <= 1

OneKind == \E rc \in {0, 1}, sub \in BOOLEAN : Kind(rc, sub)

Counted ==
  /\ current_queue_depth = Cardinality(flight) + Len(cq)
  /\ \A c \in Ioc :
       /\ ioc[c].num_pending = Len(ioc[c].tasks)
       /\ ioc[c].num_running = IF c = current THEN left ELSE 0
       /\ ioc[c].total_nseg =
            IF c = current THEN Cardinality(Buf \ data_buf_list) ELSE 0

IInv == Shape /\ Phase /\ Owned /\ Staged /\ OneKind /\ Counted

(* A process that has made its queue and no call yet.                        *)
Fresh ==
  /\ pc = "idle" /\ current = Nobody /\ t = << >>
  /\ \E p \in BOOLEAN : ioc = [c \in Ioc |-> NewIoc(c = Async /\ p)]
  /\ primary = [return_code |-> 0, ref |-> 0]
  /\ flight = {} /\ cq = << >> /\ releasing = {}
  /\ data_buf_list = Buf /\ current_queue_depth = 0

LEMMA InvFresh ==
  ASSUME QueueAssumption, Fresh
  PROVE  IInv
<1>1. Elems(cq) = {} /\ Distinct(cq) /\ Len(cq) = 0 /\ Len(t) = 0
  BY EmptyElems DEF Fresh
<1>2. Shape
  <2>1. t \in Seq(Task) /\ cq \in Seq(Issued)
    BY DEF Fresh
  <2>2. ioc \in [Ioc -> IocRecord]
    <3>1. PICK p \in BOOLEAN : ioc = [c \in Ioc |-> NewIoc(c = Async /\ p)]
      BY DEF Fresh
    <3>2. << >> \in Seq(Task)
      OBVIOUS
    <3> QED
      BY <3>1, <3>2 DEF NewIoc, IocRecord
  <2> QED
    BY <2>1, <2>2, FS_EmptySet DEF Fresh, Shape, QueueAssumption
<1>3. Phase
  BY DEF Fresh, Phase
<1>4. Owners = {}
  BY <1>1 DEF Fresh, Owners, Cmds
<1>5. Owned
  <2>1. UNION {Used(x) : x \in Owners} = {}
    BY <1>4
  <2> QED
    BY <1>1, <1>4, <2>1 DEF Fresh, Owned, Partition, Cmds
<1>6. \A c \in Ioc : ioc[c].tasks = << >> /\ ioc[c].num_pending = 0 /\ ioc[c].num_running = 0
                     /\ ioc[c].total_nseg = 0
  <2>1. PICK p \in BOOLEAN : ioc = [c \in Ioc |-> NewIoc(c = Async /\ p)]
    BY DEF Fresh
  <2> QED
    BY <2>1 DEF NewIoc
<1>7. Staged
  BY <1>6 DEF Staged, Ioc
<1>8. Kind(0, FALSE)
  BY <1>1, <1>4 DEF Fresh, Kind, left
<1>9. Counted
  <2>1. \A c \in Ioc : c # Nobody
    BY DEF Ioc, Nobody, Sync, Async
  <2>2. current = Nobody /\ current_queue_depth = Cardinality(flight) + Len(cq)
    BY <1>1, FS_EmptySet DEF Fresh
  <2>3. \A c \in Ioc : Len(ioc[c].tasks) = 0
    BY <1>6, EmptyElems
  <2> QED
    BY <1>6, <2>1, <2>2, <2>3 DEF Counted
<1> QED
  BY <1>2, <1>3, <1>5, <1>7, <1>8, <1>9 DEF IInv, OneKind

----------------------------------------------------------------------------
(* write_split and make_read_tasks: how a request is cut.                    *)

LEMMA DivFacts ==
  ASSUME NEW a \in Nat, NEW s \in Nat \ {0}
  PROVE  a \div s \in Nat /\ (a \div s) * s <= a /\ a < (a \div s) * s + s
<1>1. a \div s \in Nat
  OBVIOUS
<1>2. (a \div s) * s <= a
  OBVIOUS
<1>3. a < (a \div s) * s + s
  OBVIOUS
<1> QED
  BY <1>1, <1>2, <1>3

LEMMA MultipleFacts ==
  ASSUME NEW n \in Nat, NEW s \in Nat, NEW i \in 1 .. n
  PROVE  (i - 1) * s \in Nat /\ (i - 1) * s + s <= n * s
OBVIOUS

IsCut(s, c, cmd, len, slot, rc) ==
  /\ s \in Seq(Task) /\ Len(s) \in Nat \ {0}
  /\ \A i \in DOMAIN s :
       /\ s[i].ioc = c /\ s[i].cmd = cmd /\ s[i].return_code = rc
       /\ s[i].sub = (rc # 0 /\ len > SplitSegs)
       /\ s[i].slot + s[i].len <= slot + len /\ slot <= s[i].slot
       /\ s[i].off + s[i].len <= Size
  /\ len <= SplitSegs => Len(s) = 1

LEMMA SplitFacts ==
  ASSUME QueueAssumption, NEW c \in Ioc, NEW cmd \in {"write", "read"}, NEW off \in Lba,
         NEW len \in Nat \ {0}, off + len <= Size, NEW slot \in Nat, slot + len <= Slots,
         NEW rc \in {0, 1}
  PROVE  IsCut(Split(c, cmd, off, len, slot, rc), c, cmd, len, slot, rc)
<1> DEFINE n == (len + SplitSegs - 1) \div SplitSegs
           s == Split(c, cmd, off, len, slot, rc)
<1>1. SplitSegs \in Nat \ {0} /\ Size \in Nat \ {0} /\ Slots \in Nat \ {0}
  BY DEF QueueAssumption
<1>2. len + SplitSegs - 1 \in Nat
  BY <1>1
<1>3. n \in Nat /\ n * SplitSegs <= len + SplitSegs - 1
      /\ len + SplitSegs - 1 < n * SplitSegs + SplitSegs
  BY <1>1, <1>2, DivFacts
<1> DEFINE begin(i) == (i - 1) * SplitSegs
           size(i) == IF len - begin(i) < SplitSegs THEN len - begin(i) ELSE SplitSegs
<1>4. s = [i \in 1 .. n |->
             [ioc |-> c, cmd |-> cmd, off |-> off + begin(i), len |-> size(i),
              slot |-> slot + begin(i), return_code |-> rc,
              sub |-> rc # 0 /\ len > SplitSegs]]
  BY DEF Split
<1>5. \A i \in 1 .. n : begin(i) \in Nat /\ begin(i) < len
  <2> SUFFICES ASSUME NEW i \in 1 .. n PROVE begin(i) \in Nat /\ begin(i) < len
    OBVIOUS
  <2>1. begin(i) \in Nat /\ begin(i) + SplitSegs <= n * SplitSegs
    BY <1>1, <1>3, MultipleFacts
  <2>2. n * SplitSegs \in Nat
    BY <1>1, <1>3
  <2> HIDE DEF n, begin
  <2> QED
    BY <1>1, <1>3, <2>1, <2>2
<1>6. n # 0
  BY <1>1, <1>3
<1>7. len <= SplitSegs => n = 1
  <2> SUFFICES ASSUME len <= SplitSegs PROVE n = 1
    OBVIOUS
  <2>1. n * SplitSegs < 2 * SplitSegs
    <3>1. n * SplitSegs \in Nat
      BY <1>1, <1>3
    <3> HIDE DEF n
    <3> QED
      BY <1>1, <1>3, <3>1
  <2> HIDE DEF n
  <2>2. CASE n >= 2
    <3>1. n * SplitSegs >= 2 * SplitSegs
      BY <1>1, <1>3, <2>2
    <3>2. n * SplitSegs \in Nat
      BY <1>1, <1>3
    <3> QED
      BY <1>1, <2>1, <3>1, <3>2
  <2> QED
    BY <1>3, <1>6, <2>2
<1> HIDE DEF n, begin, s
<1>8. \A i \in 1 .. n :
        /\ size(i) \in 1 .. SplitSegs /\ size(i) <= len - begin(i)
        /\ off + begin(i) \in Lba /\ slot + begin(i) \in Slot
        /\ slot + begin(i) + size(i) <= slot + len /\ slot <= slot + begin(i)
  <2> SUFFICES ASSUME NEW i \in 1 .. n
               PROVE  /\ size(i) \in 1 .. SplitSegs /\ size(i) <= len - begin(i)
                      /\ off + begin(i) \in Lba /\ slot + begin(i) \in Slot
                      /\ slot + begin(i) + size(i) <= slot + len /\ slot <= slot + begin(i)
    OBVIOUS
  <2>1. begin(i) \in Nat /\ begin(i) < len
    BY <1>5
  <2>2. size(i) \in 1 .. SplitSegs /\ size(i) <= len - begin(i)
    BY <1>1, <2>1
  <2> HIDE DEF size
  <2>3. off + begin(i) \in Lba
    BY <1>1, <2>1 DEF Lba
  <2>4. slot + begin(i) \in Slot
    BY <1>1, <2>1 DEF Slot
  <2>5. slot + begin(i) + size(i) <= slot + len /\ slot <= slot + begin(i)
    BY <1>1, <2>1, <2>2 DEF Slot
  <2> QED
    BY <2>2, <2>3, <2>4, <2>5
<1>9. Len(s) = n /\ DOMAIN s = 1 .. n
  BY <1>3, <1>4
<1> HIDE DEF size
<1>12. \A i \in 1 .. n : off + begin(i) + size(i) <= Size
  <2> SUFFICES ASSUME NEW i \in 1 .. n PROVE off + begin(i) + size(i) <= Size
    OBVIOUS
  <2>1. size(i) \in Nat /\ size(i) <= len - begin(i) /\ begin(i) \in Nat /\ off \in Nat
    BY <1>1, <1>5, <1>8 DEF Lba
  <2> QED
    BY <1>1, <2>1
<1>10. \A i \in 1 .. n :
         /\ s[i] \in Task
         /\ s[i].ioc = c /\ s[i].cmd = cmd /\ s[i].return_code = rc
         /\ s[i].sub = (rc # 0 /\ len > SplitSegs)
         /\ s[i].slot + s[i].len <= slot + len /\ slot <= s[i].slot
         /\ s[i].off + s[i].len <= Size
  BY <1>4, <1>8, <1>12 DEF Task
<1>11. s \in Seq(Task)
  BY <1>3, <1>4, <1>9, <1>10
<1> QED
  BY <1>3, <1>6, <1>7, <1>9, <1>10, <1>11 DEF s, IsCut

----------------------------------------------------------------------------
(* The steps of the loop that only decide where to go on.                    *)

LEMMA PcStep ==
  ASSUME IInv, UNCHANGED loop_vars, pc \notin {"idle", "release"},
         pc' \in {"while", "again", "process", "issue", "aborted"}
  PROVE  IInv'
<1>1. Shape'
  BY DEF IInv, Shape, loop_vars
<1>2. Phase'
  BY DEF IInv, Phase, loop_vars
<1>3. Owners' = Owners /\ Cmds' = Cmds /\ left' = left
  BY DEF Owners, Cmds, left, loop_vars
<1>4. Owned'
  BY <1>3 DEF IInv, Owned, Partition, loop_vars
<1>5. Staged'
  BY DEF IInv, Staged, loop_vars
<1>6. OneKind'
  BY <1>3 DEF IInv, OneKind, Kind, OfKind, loop_vars
<1>7. Counted'
  BY <1>3 DEF IInv, Counted, loop_vars
<1> QED
  BY <1>1, <1>2, <1>4, <1>5, <1>6, <1>7 DEF IInv

----------------------------------------------------------------------------
(* The calls.                                                                *)

(* Between two calls nothing is in the queue and every buffer is free.       *)
LEMMA IdleFacts ==
  ASSUME QueueAssumption, IInv, pc = "idle"
  PROVE  /\ current = Nobody /\ t = << >> /\ flight = {} /\ cq = << >> /\ releasing = {}
         /\ Owners = {} /\ Cmds = {} /\ current_queue_depth = 0 /\ data_buf_list = Buf
         /\ primary = [return_code |-> 0, ref |-> 0]
         /\ \A c \in Ioc : c # Nobody /\ ioc[c].num_running = 0 /\ ioc[c].total_nseg = 0
<1>1. /\ current = Nobody /\ t = << >> /\ flight = {} /\ cq = << >> /\ releasing = {}
      /\ primary = [return_code |-> 0, ref |-> 0]
  BY DEF IInv, Phase
<1>2. Cmds = {} /\ Owners = {} /\ Len(cq) = 0
  BY <1>1, EmptyElems DEF Owners, Cmds
<1>3. data_buf_list = Buf
  <2>1. UNION {Used(x) : x \in Owners} = {}
    BY <1>2
  <2> QED
    BY <2>1 DEF IInv, Owned, Partition
<1>4. current_queue_depth = 0
  BY <1>1, <1>2, FS_EmptySet DEF IInv, Counted
<1>5. \A c \in Ioc : c # Nobody
  BY DEF Ioc, Nobody, Sync, Async
<1>6. \A c \in Ioc : ioc[c].num_running = 0 /\ ioc[c].total_nseg = 0
  BY <1>1, <1>5 DEF IInv, Counted
<1> QED
  BY <1>1, <1>2, <1>3, <1>4, <1>5, <1>6

Fields(r) ==
  [alive |-> r.alive, priv |-> r.priv, tasks |-> r.tasks, num_pending |-> r.num_pending,
   num_running |-> r.num_running, total_nseg |-> r.total_nseg]

LEMMA FieldTypes ==
  ASSUME NEW r, r = Fields(r), r.alive \in BOOLEAN, r.priv \in BOOLEAN,
         r.tasks \in Seq(Task), r.num_pending \in Nat, r.num_running \in Nat,
         r.total_nseg \in Nat
  PROVE  r \in IocRecord
BY DEF Fields, IocRecord

LEMMA SubmittedRecord ==
  ASSUME NEW r \in IocRecord, NEW n \in Nat, NEW s,
         s = [r EXCEPT !.tasks = << >>, !.num_pending = 0, !.num_running = @ + n]
  PROVE  /\ s \in IocRecord
         /\ s.tasks = << >> /\ s.num_pending = 0 /\ s.num_running = r.num_running + n
         /\ s.total_nseg = r.total_nseg
<1>1. r = Fields(r)
  BY DEF IocRecord, Fields
<1>2. /\ s.tasks = << >> /\ s.num_pending = 0 /\ s.num_running = r.num_running + n
      /\ s.alive = r.alive /\ s.priv = r.priv /\ s.total_nseg = r.total_nseg
  BY DEF IocRecord
<1>3. s = Fields(s)
  BY <1>1 DEF Fields
<1>4. << >> \in Seq(Task)
  OBVIOUS
<1>5. s.alive \in BOOLEAN /\ s.priv \in BOOLEAN
  BY <1>2 DEF IocRecord
<1>6. s.num_pending \in Nat /\ s.num_running \in Nat /\ s.total_nseg \in Nat
  BY <1>2 DEF IocRecord
<1> QED
  BY <1>2, <1>3, <1>4, <1>5, <1>6, FieldTypes, Zenon

(* The tasks of a call of kind rc, sub and the primary task it begins with.   *)
SameKind(tasks, c, rc, sub) ==
  /\ sub => rc = 1
  /\ rc = 1 /\ ~ sub => Len(tasks) <= 1
  /\ \A i \in DOMAIN tasks :
       /\ tasks[i].ioc = c /\ tasks[i].return_code = rc /\ tasks[i].sub = sub
       /\ tasks[i].cmd = "write" => rc = 0

PrimaryOf(tasks, rc, sub) ==
  [return_code |-> IF Len(tasks) = 0 THEN 0 ELSE rc, ref |-> IF sub THEN Len(tasks) ELSE 0]

LEMMA SubmitKeeps ==
  ASSUME QueueAssumption, IInv, pc = "idle", NEW c \in Ioc, NEW tasks \in Seq(Task),
         aio_submit(c, tasks), NEW rc \in {0, 1}, NEW sub \in BOOLEAN,
         SameKind(tasks, c, rc, sub), primary' = PrimaryOf(tasks, rc, sub)
  PROVE  IInv'
<1>1. /\ t' = tasks /\ current' = c /\ pc' = "while"
      /\ ioc' = [ioc EXCEPT ![c].tasks = << >>, ![c].num_pending = 0,
                            ![c].num_running = @ + Len(tasks)]
      /\ UNCHANGED <<flight, cq, releasing, data_buf_list, current_queue_depth>>
  BY DEF aio_submit
<1>2. /\ flight = {} /\ cq = << >> /\ releasing = {} /\ Owners = {}
      /\ current_queue_depth = 0 /\ data_buf_list = Buf
      /\ \A d \in Ioc : d # Nobody /\ ioc[d].num_running = 0 /\ ioc[d].total_nseg = 0
  BY IdleFacts
<1>3. /\ Len(tasks) \in Nat /\ ioc \in [Ioc -> IocRecord] /\ << >> \in Seq(Task)
      /\ Len(<< >>) = 0
  BY DEF IInv, Shape
<1>4. ioc' \in [Ioc -> IocRecord]
  <2>1. ioc[c] \in IocRecord
    BY <1>3
  <2>2. ioc'[c] = [ioc[c] EXCEPT !.tasks = << >>, !.num_pending = 0,
                                 !.num_running = @ + Len(tasks)]
    BY <1>1, <1>3
  <2> DEFINE r == ioc'[c]
  <2>3. r = [ioc[c] EXCEPT !.tasks = << >>, !.num_pending = 0, !.num_running = @ + Len(tasks)]
    BY <2>2
  <2>5. Len(tasks) \in Nat
    BY <1>3
  <2> HIDE DEF r
  <2>6. r \in IocRecord
    BY <2>1, <2>3, <2>5, SubmittedRecord
  <2>4. DOMAIN ioc' = Ioc /\ \A d \in Ioc : d # c => ioc'[d] = ioc[d]
    BY <1>1, <1>3
  <2>7. ioc'[c] \in IocRecord
    BY <2>6 DEF r
  <2> QED
    BY <1>1, <1>3, <2>4, <2>7
<1>5. /\ ioc'[c].tasks = << >> /\ ioc'[c].num_pending = 0
      /\ ioc'[c].num_running = Len(tasks) /\ ioc'[c].total_nseg = 0
  BY <1>1, <1>2, <1>3 DEF IocRecord
<1>6. \A d \in Ioc : d # c => ioc'[d] = ioc[d]
  BY <1>1, <1>3
<1>7. Shape'
  BY <1>1, <1>2, <1>4, <1>3 DEF IInv, Shape, PrimaryOf
<1>8. Phase'
  BY <1>1, <1>2 DEF Phase
<1>9. Owners' = Owners /\ Cmds' = Cmds /\ left' = Len(tasks)
  BY <1>1, <1>2, <1>3 DEF Owners, Cmds, left
<1>10. Owned'
  BY <1>1, <1>9 DEF IInv, Owned, Partition
<1>11. Staged'
  <2>1. ioc'[Sync].tasks = << >>
    BY <1>5, <1>6 DEF IInv, Staged, Ioc
  <2>2. ioc'[Async].tasks = << >> \/ ioc'[Async].tasks = ioc[Async].tasks
    BY <1>5, <1>6 DEF Ioc
  <2> QED
    BY <2>1, <2>2 DEF IInv, Staged
<1>12. Kind(rc, sub)'
  <2>1. primary'.ref = IF sub THEN Len(tasks) ELSE 0
    BY DEF PrimaryOf
  <2>2. primary'.return_code = IF Len(tasks) = 0 THEN 0 ELSE rc
    BY DEF PrimaryOf
  <2> QED
    BY <1>1, <1>2, <1>9, <2>1, <2>2 DEF Kind, OfKind, SameKind
<1>13. Counted'
  <2>1. current_queue_depth' = Cardinality(flight') + Len(cq')
    BY <1>1 DEF IInv, Counted
  <2>2. Cardinality(Buf \ data_buf_list') = 0
    BY <1>1, <1>2, FS_EmptySet
  <2>3. \A d \in Ioc : d # c => ioc'[d].num_pending = Len(ioc'[d].tasks)
    BY <1>6 DEF IInv, Counted
  <2> QED
    BY <1>1, <1>2, <1>3, <1>5, <1>6, <1>9, <2>1, <2>2, <2>3 DEF Counted
<1> QED
  BY <1>7, <1>8, <1>10, <1>11, <1>12, <1>13 DEF IInv, OneKind

LEMMA WriteStep ==
  ASSUME QueueAssumption, IInv, NEW off \in Lba, NEW f \in Contents, write(off, f)
  PROVE  IInv'
<1> DEFINE tasks == Split(Sync, "write", off, Len(f), 0, 0)
<1>1. Len(f) \in Nat \ {0} /\ Len(f) <= Slots /\ Slots \in Nat
  BY DEF QueueAssumption
<1>2. off + Len(f) <= Size /\ pc = "idle" /\ aio_submit(Sync, tasks)
      /\ primary' = [return_code |-> 0, ref |-> 0]
  BY DEF write, valid_io
<1>3. IsCut(tasks, Sync, "write", Len(f), 0, 0)
  BY <1>1, <1>2, SplitFacts DEF Ioc
<1>4. /\ tasks \in Seq(Task) /\ Len(tasks) \in Nat \ {0}
      /\ \A i \in DOMAIN tasks : tasks[i].ioc = Sync /\ tasks[i].return_code = 0
                                 /\ tasks[i].sub = FALSE
  BY <1>3 DEF IsCut
<1> HIDE DEF tasks
<1>5. SameKind(tasks, Sync, 0, FALSE) /\ primary' = PrimaryOf(tasks, 0, FALSE)
  BY <1>2, <1>4 DEF SameKind, PrimaryOf
<1>6. Sync \in Ioc /\ 0 \in {0, 1} /\ FALSE \in BOOLEAN
  BY DEF Ioc
<1> QED
  BY <1>2, <1>4, <1>5, <1>6, SubmitKeeps, Zenon

LEMMA ReadStep ==
  ASSUME QueueAssumption, IInv, NEW off \in Lba, NEW len \in 1 .. Slots, read(off, len)
  PROVE  IInv'
<1> DEFINE tasks == Split(Sync, "read", off, len, 0, 1)
           sub == len > SplitSegs
<1>1. len \in Nat \ {0} /\ len <= Slots /\ Slots \in Nat /\ SplitSegs \in Nat
  BY DEF QueueAssumption
<1>2. off + len <= Size /\ pc = "idle" /\ aio_submit(Sync, tasks)
      /\ primary' = [return_code |-> 1, ref |-> IF len > SplitSegs THEN Len(tasks) ELSE 0]
  BY DEF read, valid_io
<1>3. IsCut(tasks, Sync, "read", len, 0, 1)
  BY <1>1, <1>2, SplitFacts DEF Ioc
<1> HIDE DEF tasks
<1>4. /\ tasks \in Seq(Task) /\ Len(tasks) \in Nat \ {0}
      /\ len <= SplitSegs => Len(tasks) = 1
      /\ \A i \in DOMAIN tasks : tasks[i].ioc = Sync /\ tasks[i].return_code = 1
                                 /\ tasks[i].sub = sub /\ tasks[i].cmd = "read"
  BY <1>3 DEF IsCut
<1>5. ~ sub => Len(tasks) <= 1
  <2>1. ~ sub => len <= SplitSegs
    BY <1>1
  <2>2. len <= SplitSegs => Len(tasks) = 1
    BY <1>4
  <2>3. len <= SplitSegs => Len(tasks) <= 1
    BY <2>2
  <2> HIDE DEF sub
  <2> QED
    BY <2>1, <2>3, Zenon
<1>6. primary' = PrimaryOf(tasks, 1, sub)
  BY <1>2, <1>4 DEF PrimaryOf
<1>7. Sync \in Ioc /\ 1 \in {0, 1} /\ sub \in BOOLEAN
  BY DEF Ioc
<1> HIDE DEF sub
<1>8. SameKind(tasks, Sync, 1, sub)
  BY <1>4, <1>5 DEF SameKind
<1> QED
  BY <1>2, <1>4, <1>6, <1>7, <1>8, SubmitKeeps, Zenon

LEMMA SubmitStep ==
  ASSUME QueueAssumption, IInv, Submit
  PROVE  IInv'
<1> DEFINE tasks == ioc[Async].tasks
<1>1. pc = "idle" /\ aio_submit(Async, tasks) /\ UNCHANGED primary
  BY DEF Submit
<1>2. Async \in Ioc /\ 0 \in {0, 1} /\ FALSE \in BOOLEAN
  BY DEF Ioc
<1>3. tasks \in Seq(Task)
  BY <1>2 DEF IInv, Shape, IocRecord
<1>4. \A i \in DOMAIN tasks : /\ tasks[i].ioc = Async /\ tasks[i].return_code = 0
                              /\ tasks[i].sub = FALSE
  <2>1. ASSUME NEW i \in DOMAIN tasks PROVE tasks[i].sub \in BOOLEAN
    <3>1. tasks[i] \in Task
      BY <1>3, <2>1
    <3> QED
      BY <3>1, Zenon DEF Task
  <2> QED
    BY <2>1 DEF IInv, Staged
<1> HIDE DEF tasks
<1>5. SameKind(tasks, Async, 0, FALSE)
  BY <1>4 DEF SameKind
<1>6. primary' = PrimaryOf(tasks, 0, FALSE)
  BY <1>1, IdleFacts DEF PrimaryOf
<1> QED
  BY <1>1, <1>2, <1>3, <1>5, <1>6, SubmitKeeps, Zenon

(* ioc_append_task.                                                          *)
Appended(r, q, n) == [r EXCEPT !.tasks = @ \o q, !.num_pending = @ + n]

LEMMA AppendedRecord ==
  ASSUME NEW r \in IocRecord, NEW n \in Nat, NEW q \in Seq(Task)
  PROVE  LET s == Appended(r, q, n)
         IN  /\ s \in IocRecord
             /\ s.tasks = r.tasks \o q /\ s.num_pending = r.num_pending + n
             /\ s.num_running = r.num_running /\ s.total_nseg = r.total_nseg
<1> DEFINE s == Appended(r, q, n)
<1>1. r = Fields(r)
  BY DEF IocRecord, Fields
<1>2. /\ s.tasks = r.tasks \o q /\ s.num_pending = r.num_pending + n
      /\ s.num_running = r.num_running /\ s.total_nseg = r.total_nseg
      /\ s.alive = r.alive /\ s.priv = r.priv
  BY DEF IocRecord, Appended
<1>3. s = Fields(s)
  <2>1. ASSUME NEW z, z = [r EXCEPT !.tasks = @ \o q, !.num_pending = @ + n]
        PROVE  z = Fields(z)
    BY <1>1, <2>1 DEF Fields
  <2> QED
    BY <2>1 DEF Appended
<1>4. r.tasks \in Seq(Task)
  BY DEF IocRecord
<1>5. s.alive \in BOOLEAN /\ s.priv \in BOOLEAN
  BY <1>2 DEF IocRecord
<1>6. s.num_pending \in Nat /\ s.num_running \in Nat /\ s.total_nseg \in Nat
  BY <1>2 DEF IocRecord
<1>7. s.tasks \in Seq(Task)
  BY <1>2, <1>4
<1> QED
  BY <1>2, <1>3, <1>5, <1>6, <1>7, FieldTypes

LEMMA AppendKeeps ==
  ASSUME QueueAssumption, IInv, pc = "idle", NEW tasks \in Seq(Task), Append_tasks(tasks),
         \A i \in DOMAIN tasks :
           tasks[i].ioc = Async /\ tasks[i].return_code = 0 /\ ~ tasks[i].sub
  PROVE  IInv'
<1>1. /\ ioc' = [ioc EXCEPT ![Async].tasks = @ \o tasks,
                            ![Async].num_pending = @ + Len(tasks)]
      /\ UNCHANGED <<pc, current, t, primary, flight, cq, releasing, data_buf_list,
                     current_queue_depth>>
  BY DEF Append_tasks
<1>2. Async \in Ioc /\ Sync \in Ioc /\ Async # Sync /\ \A c \in Ioc : c \in {Sync, Async}
  BY DEF Ioc, Async, Sync
<1>14. /\ ioc \in [Ioc -> IocRecord] /\ ioc[Async] \in IocRecord /\ Len(tasks) \in Nat
  BY <1>2 DEF IInv, Shape
<1>15. ioc[Async].tasks \in Seq(Task)
  BY <1>14 DEF IocRecord
<1>3. /\ ioc \in [Ioc -> IocRecord] /\ ioc[Async] \in IocRecord /\ Len(tasks) \in Nat
      /\ ioc[Async].tasks \in Seq(Task)
  BY <1>14, <1>15
<1>4. ioc'[Async] = [ioc[Async] EXCEPT !.tasks = @ \o tasks, !.num_pending = @ + Len(tasks)]
      /\ ioc'[Sync] = ioc[Sync] /\ DOMAIN ioc' = Ioc
  BY <1>1, <1>2, <1>3
<1>5. /\ ioc'[Async] \in IocRecord
      /\ ioc'[Async].tasks = ioc[Async].tasks \o tasks
      /\ ioc'[Async].num_pending = ioc[Async].num_pending + Len(tasks)
      /\ ioc'[Async].num_running = ioc[Async].num_running
      /\ ioc'[Async].total_nseg = ioc[Async].total_nseg
  <2>1. ioc'[Async] = Appended(ioc[Async], tasks, Len(tasks))
    BY <1>4 DEF Appended
  <2>2. ioc[Async] \in IocRecord /\ Len(tasks) \in Nat /\ tasks \in Seq(Task)
    BY <1>3
  <2>3. /\ Appended(ioc[Async], tasks, Len(tasks)) \in IocRecord
        /\ Appended(ioc[Async], tasks, Len(tasks)).tasks = ioc[Async].tasks \o tasks
        /\ Appended(ioc[Async], tasks, Len(tasks)).num_pending
             = ioc[Async].num_pending + Len(tasks)
        /\ Appended(ioc[Async], tasks, Len(tasks)).num_running = ioc[Async].num_running
        /\ Appended(ioc[Async], tasks, Len(tasks)).total_nseg = ioc[Async].total_nseg
    BY <2>2, AppendedRecord
  <2> QED
    BY <2>1, <2>3
<1>6. ioc' \in [Ioc -> IocRecord]
  <2>1. \A c \in Ioc : ioc'[c] \in IocRecord
    BY <1>2, <1>3, <1>4, <1>5
  <2>2. ioc' = [c \in Ioc |-> ioc'[c]]
    BY <1>1, <1>3
  <2> QED
    BY <2>1, <2>2
<1>7. Shape'
  BY <1>1, <1>6 DEF IInv, Shape
<1>8. Phase'
  BY <1>1 DEF IInv, Phase
<1>9. Owners' = Owners /\ Cmds' = Cmds /\ left' = left
  BY <1>1 DEF Owners, Cmds, left
<1>10. Owned'
  BY <1>1, <1>9 DEF IInv, Owned, Partition
<1>11. Staged'
  <2> DEFINE q == ioc[Async].tasks
  <2>1. \A i \in DOMAIN (q \o tasks) :
          \/ i \in DOMAIN q /\ (q \o tasks)[i] = q[i]
          \/ i - Len(q) \in DOMAIN tasks /\ (q \o tasks)[i] = tasks[i - Len(q)]
    BY <1>3
  <2>2. \A i \in DOMAIN q : q[i].ioc = Async /\ q[i].return_code = 0 /\ ~ q[i].sub
    BY DEF IInv, Staged
  <2> HIDE DEF q
  <2>3. \A i \in DOMAIN (q \o tasks) :
          /\ (q \o tasks)[i].ioc = Async /\ (q \o tasks)[i].return_code = 0
          /\ ~ (q \o tasks)[i].sub
    BY <2>1, <2>2
  <2>4. ioc'[Async].tasks = q \o tasks
    BY <1>5 DEF q
  <2> QED
    BY <1>4, <2>3, <2>4 DEF IInv, Staged
<1>12. OneKind'
  BY <1>1, <1>9 DEF IInv, OneKind, Kind, OfKind
<1>13. Counted'
  <2>1. Len(ioc'[Async].tasks) = ioc'[Async].num_pending
    BY <1>2, <1>3, <1>5 DEF IInv, Counted
  <2>2. \A c \in Ioc : /\ ioc'[c].num_running = ioc[c].num_running
                       /\ ioc'[c].total_nseg = ioc[c].total_nseg
                       /\ ioc'[c].num_pending = Len(ioc'[c].tasks)
    <3>1. ASSUME NEW c \in Ioc, c # Async
          PROVE  /\ ioc'[c].num_running = ioc[c].num_running
                 /\ ioc'[c].total_nseg = ioc[c].total_nseg
                 /\ ioc'[c].num_pending = Len(ioc'[c].tasks)
      <4>1. ioc'[c] = ioc[c]
        BY <1>2, <1>4, <3>1
      <4>2. ioc[c].num_pending = Len(ioc[c].tasks)
        BY DEF IInv, Counted
      <4> QED
        BY <4>1, <4>2
    <3> QED
      BY <1>5, <2>1, <3>1
  <2> QED
    BY <1>1, <1>9, <2>2 DEF IInv, Counted
<1> QED
  BY <1>7, <1>8, <1>10, <1>11, <1>12, <1>13 DEF IInv

LEMMA NextSlotFacts ==
  ASSUME IInv
  PROVE  NextSlot \in Nat
<1> DEFINE q == ioc[Async].tasks
<1>1. q \in Seq(Task)
  BY DEF IInv, Shape, IocRecord, Ioc
<1>2. CASE q = << >>
  BY <1>2 DEF NextSlot
<1>3. CASE q # << >>
  <2> HIDE DEF q
  <2>1. q[Len(q)] \in Task
    BY <1>1, <1>3
  <2>2. q[Len(q)].slot \in Nat /\ q[Len(q)].len \in Nat
    BY <2>1 DEF Task, Slot
  <2> QED
    BY <1>3, <2>2 DEF q, NextSlot
<1> QED
  BY <1>2, <1>3

LEMMA AioWriteStep ==
  ASSUME QueueAssumption, IInv, NEW off \in Lba, NEW f \in Contents, aio_write(off, f)
  PROVE  IInv'
<1> DEFINE tasks == Split(Async, "write", off, Len(f), NextSlot, 0)
<1>1. Len(f) \in Nat \ {0} /\ NextSlot \in Nat
  BY NextSlotFacts DEF QueueAssumption
<1>2. off + Len(f) <= Size /\ NextSlot + Len(f) <= Slots /\ pc = "idle" /\ Append_tasks(tasks)
  BY DEF aio_write, valid_io
<1>3. IsCut(tasks, Async, "write", Len(f), NextSlot, 0)
  BY <1>1, <1>2, SplitFacts DEF Ioc
<1> HIDE DEF tasks
<1> QED
  BY <1>2, <1>3, AppendKeeps DEF IsCut

LEMMA AioReadStep ==
  ASSUME QueueAssumption, IInv, NEW off \in Lba, NEW len \in 1 .. Slots, aio_read(off, len)
  PROVE  IInv'
<1> DEFINE tasks == Split(Async, "read", off, len, NextSlot, 0)
<1>1. len \in Nat \ {0} /\ NextSlot \in Nat
  BY NextSlotFacts DEF QueueAssumption
<1>2. off + len <= Size /\ NextSlot + len <= Slots /\ pc = "idle" /\ Append_tasks(tasks)
  BY DEF aio_read, valid_io
<1>3. IsCut(tasks, Async, "read", len, NextSlot, 0)
  BY <1>1, <1>2, SplitFacts DEF Ioc
<1> HIDE DEF tasks
<1> QED
  BY <1>2, <1>3, AppendKeeps DEF IsCut

(* A context as its constructor leaves it.                                   *)
LEMMA NewIocFacts ==
  ASSUME NEW p \in BOOLEAN
  PROVE  /\ NewIoc(p) \in IocRecord
         /\ NewIoc(p).tasks = << >> /\ NewIoc(p).num_pending = 0
         /\ NewIoc(p).num_running = 0 /\ NewIoc(p).total_nseg = 0
<1>1. << >> \in Seq(Task)
  OBVIOUS
<1> QED
  BY <1>1 DEF NewIoc, IocRecord

LEMMA NewIOContextStep ==
  ASSUME QueueAssumption, IInv, NewIOContext
  PROVE  IInv'
<1>1. PICK p \in BOOLEAN : ioc' = [ioc EXCEPT ![Async] = NewIoc(p)]
  BY DEF NewIOContext
<1>2. /\ pc = "idle"
      /\ UNCHANGED <<pc, current, t, primary, flight, cq, releasing, data_buf_list,
                     current_queue_depth>>
  BY DEF NewIOContext
<1>3. Async \in Ioc /\ Sync \in Ioc /\ Async # Sync /\ \A c \in Ioc : c \in {Sync, Async}
  BY DEF Ioc, Async, Sync
<1>4. ioc \in [Ioc -> IocRecord]
  BY DEF IInv, Shape
<1>5. ioc'[Async] = NewIoc(p) /\ ioc'[Sync] = ioc[Sync] /\ ioc' \in [Ioc -> IocRecord]
  BY <1>1, <1>3, <1>4, NewIocFacts
<1>6. /\ ioc'[Async].tasks = << >> /\ ioc'[Async].num_pending = 0
      /\ ioc'[Async].num_running = 0 /\ ioc'[Async].total_nseg = 0
  BY <1>5, NewIocFacts
<1>7. Shape'
  BY <1>2, <1>5 DEF IInv, Shape
<1>8. Phase'
  BY <1>2 DEF IInv, Phase
<1>9. Owners' = Owners /\ Cmds' = Cmds /\ left' = left
  BY <1>2 DEF Owners, Cmds, left
<1>10. Owned'
  BY <1>2, <1>9 DEF IInv, Owned, Partition
<1>11. Staged'
  BY <1>5, <1>6 DEF IInv, Staged
<1>12. OneKind'
  BY <1>2, <1>9 DEF IInv, OneKind, Kind, OfKind
<1>13. Counted'
  <2>1. \A c \in Ioc : /\ ioc'[c].num_running = ioc[c].num_running
                       /\ ioc'[c].total_nseg = ioc[c].total_nseg
    BY <1>2, <1>3, <1>5, <1>6, IdleFacts
  <2>2. \A c \in Ioc : ioc'[c].num_pending = Len(ioc'[c].tasks)
    BY <1>3, <1>5, <1>6, EmptyElems DEF IInv, Counted
  <2> QED
    BY <1>2, <1>9, <2>1, <2>2 DEF IInv, Counted
<1> QED
  BY <1>7, <1>8, <1>10, <1>11, <1>12, <1>13 DEF IInv

----------------------------------------------------------------------------
(* The end of the loop.                                                      *)

(* When num_running is 0, nothing of the call is left anywhere.              *)
LEMMA NothingLeft ==
  ASSUME QueueAssumption, IInv, pc = "while", ioc[current].num_running = 0
  PROVE  /\ left = 0 /\ current_queue_depth = 0 /\ t = << >> /\ flight = {} /\ cq = << >>
         /\ releasing = {} /\ Owners = {} /\ Cmds = {} /\ data_buf_list = Buf
         /\ primary = [return_code |-> 0, ref |-> 0] /\ current \in Ioc
<1>1. current \in Ioc /\ releasing = {}
  BY DEF IInv, Phase
<1>2. left = 0
  BY <1>1 DEF IInv, Counted
<1>3. Len(t) \in Nat /\ Len(cq) \in Nat /\ Cardinality(flight) \in Nat
      /\ current_queue_depth \in Nat
  BY FS_CardinalityType DEF IInv, Shape, QueueAssumption
<1>4. Len(t) = 0 /\ current_queue_depth = 0
  BY <1>2, <1>3 DEF left
<1>5. Len(cq) = 0 /\ Cardinality(flight) = 0
  BY <1>3, <1>4 DEF IInv, Counted
<1>6. t = << >> /\ cq = << >>
  BY <1>4, <1>5 DEF IInv, Shape
<1>7. flight = {}
  BY <1>5, FS_EmptySet DEF IInv, Shape
<1>8. Cmds = {} /\ Owners = {}
  BY <1>1, <1>6, <1>7, EmptyElems DEF Cmds, Owners
<1>9. data_buf_list = Buf
  <2>1. UNION {Used(x) : x \in Owners} = {}
    BY <1>8
  <2> QED
    BY <2>1 DEF IInv, Owned, Partition
<1>10. primary = [return_code |-> 0, ref |-> 0]
  <2>1. primary.ref = 0 /\ primary.return_code = 0
    BY <1>2 DEF IInv, OneKind, Kind
  <2> QED
    BY <2>1 DEF IInv, Shape
<1> QED
  BY <1>1, <1>2, <1>4, <1>6, <1>7, <1>8, <1>9, <1>10

LEMMA ReturnStep ==
  ASSUME QueueAssumption, IInv, Return
  PROVE  IInv'
<1>1. /\ pc = "while" /\ ioc[current].num_running = 0 /\ pc' = "idle" /\ current' = Nobody
      /\ primary' = [return_code |-> 0, ref |-> 0]
      /\ UNCHANGED <<t, ioc, flight, cq, releasing, data_buf_list, current_queue_depth>>
  BY DEF Return
<1>2. /\ left = 0 /\ t = << >> /\ flight = {} /\ cq = << >> /\ releasing = {}
      /\ Owners = {} /\ data_buf_list = Buf /\ current \in Ioc
  BY <1>1, NothingLeft
<1>3. Shape'
  BY <1>1 DEF IInv, Shape
<1>4. Phase'
  BY <1>1, <1>2 DEF Phase
<1>5. Owners' = Owners /\ Cmds' = Cmds /\ left' = left
  BY <1>1 DEF Owners, Cmds, left
<1>6. Owned'
  BY <1>1, <1>5 DEF IInv, Owned, Partition
<1>7. Staged'
  BY <1>1 DEF IInv, Staged
<1>8. Kind(0, FALSE)'
  <2>1. t' = << >> /\ Owners' = {} /\ left' = 0
    BY <1>1, <1>2, <1>5
  <2> QED
    BY <1>1, <2>1 DEF Kind
<1>9. Counted'
  <2>1. Cardinality(Buf \ data_buf_list) = 0
    BY <1>2, FS_EmptySet
  <2>2. \A c \in Ioc : c # Nobody
    BY DEF Ioc, Nobody, Sync, Async
  <2>3. \A c \in Ioc : ioc[c].num_running = 0 /\ ioc[c].total_nseg = 0
    BY <1>2, <2>1 DEF IInv, Counted
  <2> QED
    BY <1>1, <1>5, <2>2, <2>3 DEF IInv, Counted
<1> QED
  BY <1>3, <1>4, <1>6, <1>7, <1>8, <1>9 DEF IInv, OneKind

----------------------------------------------------------------------------
(* Buffers move between the free list and the commands.                      *)

LEMMA PoolFacts ==
  ASSUME QueueAssumption, IInv
  PROVE  /\ IsFiniteSet(data_buf_list) /\ IsFiniteSet(Buf \ data_buf_list)
         /\ Cardinality(data_buf_list) \in Nat /\ Cardinality(Buf \ data_buf_list) \in Nat
BY FS_Subset, FS_CardinalityType DEF QueueAssumption, IInv, Shape

LEMMA DisjointUnion ==
  ASSUME NEW A, NEW C, IsFiniteSet(A), IsFiniteSet(C), A \cap C = {}
  PROVE  /\ IsFiniteSet(A \cup C) /\ Cardinality(A \cup C) = Cardinality(A) + Cardinality(C)
         /\ Cardinality(A) \in Nat /\ Cardinality(C) \in Nat
<1>1. Cardinality(A) \in Nat /\ Cardinality(C) \in Nat
  BY FS_CardinalityType
<1>2. /\ IsFiniteSet(A \cup C)
      /\ Cardinality(A \cup C) = Cardinality(A) + Cardinality(C) - Cardinality(A \cap C)
  BY FS_Union
<1>3. Cardinality(A \cap C) = 0
  BY FS_EmptySet
<1> QED
  BY <1>1, <1>2, <1>3

(* alloc_buf_from_pool.                                                      *)
LEMMA TakeBuffers ==
  ASSUME QueueAssumption, IInv, NEW segs \in Seq(Buf), Distinct(segs),
         Elems(segs) \subseteq data_buf_list
  PROVE  Cardinality(Buf \ (data_buf_list \ Elems(segs)))
           = Cardinality(Buf \ data_buf_list) + Len(segs)
<1>1. data_buf_list \subseteq Buf
  BY DEF IInv, Shape
<1>2. Buf \ (data_buf_list \ Elems(segs)) = (Buf \ data_buf_list) \cup Elems(segs)
      /\ (Buf \ data_buf_list) \cap Elems(segs) = {}
  BY <1>1
<1>3. IsFiniteSet(Elems(segs)) /\ Cardinality(Elems(segs)) = Len(segs)
  BY CountElems
<1>4. Cardinality((Buf \ data_buf_list) \cup Elems(segs))
        = Cardinality(Buf \ data_buf_list) + Cardinality(Elems(segs))
  BY <1>2, <1>3, PoolFacts, DisjointUnion
<1> QED
  BY <1>2, <1>3, <1>4

(* Task::release_segs.                                                       *)
LEMMA GiveBuffers ==
  ASSUME QueueAssumption, IInv, NEW x \in Owners
  PROVE  /\ Len(x.segs) \in Nat
         /\ Cardinality(Buf \ (data_buf_list \cup Used(x))) \in Nat
         /\ Cardinality(Buf \ data_buf_list)
              = Cardinality(Buf \ (data_buf_list \cup Used(x))) + Len(x.segs)
<1>1. data_buf_list \subseteq Buf /\ Used(x) \cap data_buf_list = {} /\ Distinct(x.segs)
  BY DEF IInv, Shape, Owned, Partition
<1>2. Elems(cq) \subseteq Issued
  BY DEF IInv, Shape, Elems
<1>3. x \in Issued
  BY <1>2 DEF IInv, Shape, Owners, Cmds
<1>4. x.segs \in Seq(Buf) /\ Used(x) = Elems(x.segs)
  BY <1>3 DEF Issued, Used, Elems
<1>5. Used(x) \subseteq Buf /\ Len(x.segs) \in Nat
  BY <1>4 DEF Elems
<1>6. Buf \ data_buf_list = (Buf \ (data_buf_list \cup Used(x))) \cup Used(x)
      /\ (Buf \ (data_buf_list \cup Used(x))) \cap Used(x) = {}
  BY <1>1, <1>5
<1>7. IsFiniteSet(Used(x)) /\ Cardinality(Used(x)) = Len(x.segs)
  BY <1>1, <1>4, CountElems
<1>8. IsFiniteSet(Buf \ (data_buf_list \cup Used(x)))
  BY FS_Subset DEF QueueAssumption
<1> QED
  BY <1>5, <1>6, <1>7, <1>8, DisjointUnion

LEMMA PartitionTake ==
  ASSUME Partition, NEW y, Owners' = Owners \cup {y}, data_buf_list \subseteq Buf,
         Used(y) \subseteq data_buf_list, data_buf_list' = data_buf_list \ Used(y),
         Distinct(y.segs), Len(y.segs) = y.task.len
  PROVE  Partition'
<1>1. data_buf_list' \cup UNION {Used(x) : x \in Owners'} = Buf
  BY DEF Partition
<1>2. \A x \in Owners' : /\ Distinct(x.segs) /\ Len(x.segs) = x.task.len
                         /\ Used(x) \cap data_buf_list' = {}
  BY DEF Partition
<1>3. \A x, z \in Owners' : x # z => Used(x) \cap Used(z) = {}
  BY DEF Partition
<1> QED
  BY <1>1, <1>2, <1>3 DEF Partition

LEMMA PartitionGive ==
  ASSUME Partition, NEW x \in Owners, Owners' = Owners \ {x},
         data_buf_list' = data_buf_list \cup Used(x)
  PROVE  Partition'
<1>1. data_buf_list' \cup UNION {Used(y) : y \in Owners'} = Buf
  BY DEF Partition
<1>2. \A y \in Owners' : /\ Distinct(y.segs) /\ Len(y.segs) = y.task.len
                         /\ Used(y) \cap data_buf_list' = {}
  BY DEF Partition
<1>3. \A y, z \in Owners' : y # z => Used(y) \cap Used(z) = {}
  BY DEF Partition
<1> QED
  BY <1>1, <1>2, <1>3 DEF Partition

LEMMA PartitionKeep ==
  ASSUME Partition, Owners' = Owners, UNCHANGED data_buf_list
  PROVE  Partition'
BY DEF Partition

----------------------------------------------------------------------------
(* Steps that change the counters of the current context.                    *)

Counts(r, a, running, nseg) ==
  [alive |-> a, priv |-> r.priv, tasks |-> r.tasks, num_pending |-> r.num_pending,
   num_running |-> running, total_nseg |-> nseg]

HasCounts(s, r, running, nseg) ==
  /\ s \in IocRecord
  /\ s.tasks = r.tasks /\ s.num_pending = r.num_pending
  /\ s.num_running = running /\ s.total_nseg = nseg

LEMMA CountsFacts ==
  \A r \in IocRecord, a \in BOOLEAN, n, m \in Nat : HasCounts(Counts(r, a, n, m), r, n, m)
BY DEF Counts, IocRecord, HasCounts

(* The three ways the code updates them.                                     *)
Hold(r, m) == [r EXCEPT !.total_nseg = m]
Finish(r, n, m) == [r EXCEPT !.num_running = n, !.total_nseg = m]
FinishAndCall(r, a, n, m) == [r EXCEPT !.num_running = n, !.total_nseg = m, !.alive = a]

LEMMA FieldsFacts == \A r \in IocRecord : r = Fields(r)
BY DEF IocRecord, Fields

LEMMA HoldFacts ==
  \A r \in IocRecord : \A m : Hold(r, m) = Counts(r, r.alive, r.num_running, m)
<1> SUFFICES ASSUME NEW r \in IocRecord, NEW m
             PROVE  Hold(r, m) = Counts(r, r.alive, r.num_running, m)
  OBVIOUS
<1>1. r = Fields(r)
  BY FieldsFacts
<1> QED
  BY <1>1 DEF Hold, Counts, Fields

LEMMA FinishFacts ==
  \A r \in IocRecord : \A n, m : Finish(r, n, m) = Counts(r, r.alive, n, m)
<1> SUFFICES ASSUME NEW r \in IocRecord, NEW n, NEW m
             PROVE  Finish(r, n, m) = Counts(r, r.alive, n, m)
  OBVIOUS
<1> DEFINE q == [r EXCEPT !.num_running = n]
<1>1. r = Fields(r)
  BY FieldsFacts
<1>2. q = Counts(r, r.alive, n, r.total_nseg)
  BY <1>1 DEF Counts, Fields
<1> HIDE DEF q
<1>3. [q EXCEPT !.total_nseg = m] = Counts(r, r.alive, n, m)
  BY <1>2 DEF Counts
<1> QED
  BY <1>3 DEF q, Finish

LEMMA FinishAndCallFacts ==
  \A r \in IocRecord : \A a, n, m : FinishAndCall(r, a, n, m) = Counts(r, a, n, m)
<1> SUFFICES ASSUME NEW r \in IocRecord, NEW a, NEW n, NEW m
             PROVE  FinishAndCall(r, a, n, m) = Counts(r, a, n, m)
  OBVIOUS
<1> DEFINE q == Finish(r, n, m)
<1>1. q = Counts(r, r.alive, n, m)
  BY FinishFacts
<1> HIDE DEF q
<1>2. [q EXCEPT !.alive = a] = Counts(r, a, n, m)
  BY <1>1 DEF Counts
<1> QED
  BY <1>2 DEF q, Finish, FinishAndCall

LEMMA CountersStep ==
  ASSUME QueueAssumption, IInv, pc # "idle", UNCHANGED current, NEW a \in BOOLEAN,
         left' \in Nat, Cardinality(Buf \ data_buf_list') \in Nat,
         current_queue_depth' = Cardinality(flight') + Len(cq'),
         ioc' = [ioc EXCEPT ![current] =
                   Counts(ioc[current], a, left', Cardinality(Buf \ data_buf_list'))]
  PROVE  ioc' \in [Ioc -> IocRecord] /\ Staged' /\ Counted'
<1> DEFINE r == Counts(ioc[current], a, left', Cardinality(Buf \ data_buf_list'))
<1>1. current \in Ioc /\ ioc \in [Ioc -> IocRecord] /\ ioc[current] \in IocRecord
  BY DEF IInv, Phase, Shape
<1>2. HasCounts(r, ioc[current], left', Cardinality(Buf \ data_buf_list'))
  BY <1>1, CountsFacts, Zenon
<1> HIDE DEF r
<1>3. ioc' = [ioc EXCEPT ![current] = r]
  BY DEF r
<1>4. ioc' \in [Ioc -> IocRecord] /\ ioc'[current] = r
      /\ \A c \in Ioc : c # current => ioc'[c] = ioc[c]
  BY <1>1, <1>2, <1>3 DEF HasCounts
<1>5. \A c \in Ioc : ioc'[c].tasks = ioc[c].tasks /\ ioc'[c].num_pending = ioc[c].num_pending
  BY <1>1, <1>2, <1>4 DEF HasCounts
<1>6. Staged'
  <2>1. ioc'[Sync].tasks = ioc[Sync].tasks /\ ioc'[Async].tasks = ioc[Async].tasks
    BY <1>5 DEF Ioc
  <2> QED
    BY <2>1 DEF IInv, Staged
<1>7. Counted'
  <2>1. \A c \in Ioc : ioc'[c].num_pending = Len(ioc'[c].tasks)
    BY <1>5 DEF IInv, Counted
  <2>2. \A c \in Ioc : c # current => ioc'[c].num_running = 0 /\ ioc'[c].total_nseg = 0
    BY <1>4 DEF IInv, Counted
  <2> QED
    BY <1>1, <1>2, <1>4, <2>1, <2>2 DEF Counted, HasCounts
<1> QED
  BY <1>4, <1>6, <1>7

LEMMA OwnersAreIssued ==
  ASSUME IInv
  PROVE  Owners \subseteq Issued
BY DEF IInv, Shape, Owners, Cmds, Elems

(* What the counters of the current context are.                             *)
LEMMA CurrentCounts ==
  ASSUME QueueAssumption, IInv, pc # "idle"
  PROVE  /\ current \in Ioc /\ ioc[current] \in IocRecord /\ ioc \in [Ioc -> IocRecord]
         /\ ioc[current].alive \in BOOLEAN
         /\ ioc[current].num_running = left
         /\ ioc[current].total_nseg = Cardinality(Buf \ data_buf_list)
         /\ current_queue_depth \in Nat /\ Len(t) \in Nat /\ left \in Nat
<1>1. current \in Ioc /\ ioc \in [Ioc -> IocRecord] /\ ioc[current] \in IocRecord
  BY DEF IInv, Phase, Shape
<1>2. ioc[current].alive \in BOOLEAN
  BY <1>1, Zenon DEF IocRecord
<1>3. ioc[current].num_running = left /\ ioc[current].total_nseg = Cardinality(Buf \ data_buf_list)
  BY <1>1 DEF IInv, Counted
<1>4. current_queue_depth \in Nat /\ Len(t) \in Nat
  BY DEF IInv, Shape, QueueAssumption
<1> QED
  BY <1>1, <1>2, <1>3, <1>4 DEF left

LEMMA IssueStep ==
  ASSUME QueueAssumption, IInv, Issue
  PROVE  IInv'
<1>1. /\ pc = "issue" /\ t # << >> /\ ~ NoSlot
      /\ ioc' = [ioc EXCEPT ![current].total_nseg = @ + Head(t).len]
      /\ current_queue_depth' = current_queue_depth + 1
      /\ t' = Tail(t)
      /\ UNCHANGED <<pc, current, primary, cq, releasing>>
  BY DEF Issue
<1> DEFINE n == Head(t).len
<1>2. PICK segs \in Allocations(n) :
        /\ data_buf_list' = data_buf_list \ {segs[i] : i \in DOMAIN segs}
        /\ flight' = flight \cup {[task |-> Head(t), segs |-> segs]}
  BY DEF Issue
<1> DEFINE y == [task |-> Head(t), segs |-> segs]
<1>3. /\ t \in Seq(Task) /\ Head(t) \in Task /\ Tail(t) \in Seq(Task)
      /\ Len(t) \in Nat \ {0} /\ Len(Tail(t)) = Len(t) - 1
      /\ Head(t) = t[1] /\ 1 \in DOMAIN t
      /\ \A i \in DOMAIN Tail(t) : i + 1 \in DOMAIN t /\ Tail(t)[i] = t[i + 1]
  BY <1>1 DEF IInv, Shape
<1>4. n \in Nat \ {0}
  <2>1. Head(t).len \in 1 .. SplitSegs
    BY <1>3 DEF Task
  <2> QED
    BY <2>1 DEF QueueAssumption
<1> HIDE DEF n
<1>5. /\ segs \in Seq(Buf) /\ Len(segs) = n /\ Distinct(segs)
      /\ Elems(segs) \subseteq data_buf_list /\ data_buf_list \subseteq Buf
  BY <1>2, <1>4, AllocationFacts DEF IInv, Shape
<1>6. /\ y \in Issued /\ y.task = Head(t) /\ y.segs = segs /\ Used(y) = Elems(segs)
  BY <1>3, <1>5 DEF Issued, Used, Elems
<1>7. /\ data_buf_list' = data_buf_list \ Elems(segs)
      /\ flight' = flight \cup {y}
  BY <1>2 DEF Elems
<1>8. segs[1] \in Elems(segs)
  BY <1>4, <1>5 DEF Elems
<1> HIDE DEF y
<1>9. y \notin Owners
  BY <1>5, <1>6, <1>8 DEF IInv, Owned, Partition
<1>10. Cmds' = Cmds \cup {y} /\ Owners' = Owners \cup {y}
  BY <1>1, <1>7 DEF Cmds, Owners
<1>11. left' = left /\ left \in Nat
  BY <1>1, <1>3, CurrentCounts DEF left
<1>12. Cardinality(Buf \ data_buf_list') = Cardinality(Buf \ data_buf_list) + n
       /\ Cardinality(Buf \ data_buf_list) \in Nat
  BY <1>5, <1>7, TakeBuffers, PoolFacts
<1>13. /\ IsFiniteSet(flight') /\ Cardinality(flight') = Cardinality(flight) + 1
       /\ Cardinality(flight) \in Nat /\ Len(cq) \in Nat
  <2>1. y \notin flight /\ IsFiniteSet(flight)
    BY <1>9 DEF Owners, Cmds, IInv, Shape
  <2> QED
    BY <1>7, <2>1, FS_AddElement, FS_CardinalityType DEF IInv, Shape
<1>14. current_queue_depth' = Cardinality(flight') + Len(cq')
  BY <1>1, <1>13, CurrentCounts DEF IInv, Counted
<1>15. ioc' = [ioc EXCEPT ![current] =
                 Counts(ioc[current], ioc[current].alive, left', Cardinality(Buf \ data_buf_list'))]
  <2>1. ioc[current].num_running = left'
        /\ ioc[current].total_nseg + n = Cardinality(Buf \ data_buf_list')
        /\ ioc[current] \in IocRecord
    BY <1>1, <1>11, <1>12, CurrentCounts
  <2>2. [ioc[current] EXCEPT !.total_nseg = ioc[current].total_nseg + n]
          = Counts(ioc[current], ioc[current].alive, ioc[current].num_running,
                   ioc[current].total_nseg + n)
    <3>1. Hold(ioc[current], ioc[current].total_nseg + n)
            = Counts(ioc[current], ioc[current].alive, ioc[current].num_running,
                     ioc[current].total_nseg + n)
      BY <2>1, HoldFacts, Zenon
    <3> QED
      BY <3>1 DEF Hold
  <2>3. ioc' = [ioc EXCEPT ![current] =
                  [ioc[current] EXCEPT !.total_nseg = ioc[current].total_nseg + n]]
    BY <1>1 DEF n
  <2> QED
    BY <2>1, <2>2, <2>3
<1>16. ioc' \in [Ioc -> IocRecord] /\ Staged' /\ Counted'
  <2>1. pc # "idle" /\ UNCHANGED current /\ left' \in Nat
    BY <1>1, <1>11
  <2>2. ioc[current].alive \in BOOLEAN
    BY <2>1, CurrentCounts
  <2>3. Cardinality(Buf \ data_buf_list') \in Nat
    BY <1>4, <1>12
  <2> QED
    BY <1>14, <1>15, <2>1, <2>2, <2>3, CountersStep, Zenon
<1>17. Shape'
  <2>1. current_queue_depth' \in 0 .. MaxQueueDepth
    BY <1>1 DEF IInv, Shape, NoSlot, QueueAssumption
  <2>2. flight' \subseteq Issued
    BY <1>6, <1>7 DEF IInv, Shape
  <2> QED
    BY <1>1, <1>3, <1>5, <1>7, <1>13, <1>16, <2>1, <2>2 DEF IInv, Shape
<1>18. Phase'
  BY <1>1 DEF IInv, Phase
<1>19. Partition'
  BY <1>5, <1>6, <1>7, <1>10, PartitionTake DEF IInv, Owned, n
<1>20. Owned'
  <2>1. Elems(cq') \cap flight' = {} /\ Cmds' \cap releasing' = {}
    BY <1>1, <1>7, <1>9, <1>10 DEF IInv, Owned, Owners, Cmds
  <2> QED
    BY <1>1, <1>19, <2>1 DEF IInv, Owned
<1>21. OneKind'
  <2>1. PICK rc \in {0, 1}, sub \in BOOLEAN : Kind(rc, sub)
    BY DEF IInv, OneKind
  <2>2. OfKind(y.task, rc, sub)
    BY <1>3, <1>6, <2>1 DEF Kind
  <2>3. \A x \in Owners' : OfKind(x.task, rc, sub)
    BY <1>10, <2>1, <2>2 DEF Kind
  <2>4. \A i \in DOMAIN t' : OfKind(t'[i], rc, sub)
    BY <1>1, <1>3, <2>1 DEF Kind
  <2>5. \A task : OfKind(task, rc, sub)' = OfKind(task, rc, sub)
    BY <1>1 DEF OfKind
  <2> QED
    BY <1>1, <1>11, <2>1, <2>3, <2>4, <2>5 DEF Kind, OneKind, OfKind
<1> QED
  BY <1>16, <1>17, <1>18, <1>20, <1>21 DEF IInv

----------------------------------------------------------------------------
(* Completions.                                                              *)

LEMMA CompletingFacts ==
  ASSUME QueueAssumption, IInv, NEW x, NEW cmd, Completing(x, cmd)
  PROVE  /\ pc = "process" /\ releasing = {} /\ current \in Ioc
         /\ x \in Cmds /\ x \in Owners /\ Owners = Cmds /\ x \in Issued
         /\ x.task.cmd = cmd /\ x.task.ioc = current
         /\ cq' \in Seq(Issued) /\ Distinct(cq') /\ Elems(cq') \cap flight' = {}
         /\ Cmds' = Cmds \ {x}
         /\ current_queue_depth' = current_queue_depth - 1
         /\ current_queue_depth' \in 0 .. MaxQueueDepth
         /\ current_queue_depth' = Cardinality(flight') + Len(cq')
         /\ left' = left - 1 /\ left' \in Nat /\ left \in Nat
         /\ UNCHANGED <<current, t, flight>>
<1>1. /\ pc = "process" /\ cq # << >> /\ x = Head(cq) /\ x.task.cmd = cmd
      /\ cq' = Tail(cq) /\ current_queue_depth' = current_queue_depth - 1
      /\ UNCHANGED <<current, t, flight>>
  BY DEF Completing
<1>2. releasing = {} /\ current \in Ioc /\ cq \in Seq(Issued) /\ Distinct(cq)
      /\ Elems(cq) \cap flight = {}
  BY <1>1 DEF IInv, Phase, Shape, Owned
<1>3. /\ Tail(cq) \in Seq(Issued) /\ x \in Issued /\ x \in Elems(cq)
      /\ Distinct(Tail(cq)) /\ Elems(Tail(cq)) = Elems(cq) \ {x}
      /\ Len(Tail(cq)) = Len(cq) - 1 /\ Len(cq) \in Nat \ {0}
  BY <1>1, <1>2, TailElems
<1>4. Cmds' = Cmds \ {x} /\ x \in Cmds /\ Owners = Cmds /\ x \in Owners
  BY <1>1, <1>2, <1>3 DEF Cmds, Owners
<1>5. x.task.ioc = current
  BY <1>4 DEF IInv, OneKind, Kind, OfKind
<1>6. Cardinality(flight) \in Nat /\ current_queue_depth = Cardinality(flight) + Len(cq)
  BY FS_CardinalityType DEF IInv, Shape, Counted
<1>7. /\ current_queue_depth' \in 0 .. MaxQueueDepth
      /\ current_queue_depth' = Cardinality(flight') + Len(cq')
  BY <1>1, <1>3, <1>6 DEF IInv, Shape, QueueAssumption
<1>8. left' = left - 1 /\ left' \in Nat /\ left \in Nat
  <2>1. current_queue_depth \in Nat /\ Len(t) \in Nat
    BY <1>1, CurrentCounts
  <2>2. current_queue_depth >= 1
    BY <1>3, <1>6
  <2> QED
    BY <1>1, <2>1, <2>2 DEF left
<1> QED
  BY <1>1, <1>2, <1>3, <1>4, <1>5, <1>7, <1>8

(* The kind of the call stays, when primary is told what the code tells it.   *)
LEMMA KindCompletes ==
  ASSUME QueueAssumption, IInv, NEW x, NEW cmd, Completing(x, cmd), Owners' \subseteq Owners,
         x.task.return_code = 0 => UNCHANGED primary,
         x.task.return_code # 0 =>
           primary' = IF x.task.sub
                        THEN [return_code |-> IF primary.ref = 1 THEN 0 ELSE primary.return_code,
                              ref |-> primary.ref - 1]
                        ELSE [primary EXCEPT !.return_code = 0]
  PROVE  OneKind' /\ primary' \in [return_code : {0, 1}, ref : Nat]
<1>1. PICK rc \in {0, 1}, sub \in BOOLEAN : Kind(rc, sub)
  BY DEF IInv, OneKind
<1>2. /\ x \in Owners /\ left' = left - 1 /\ left' \in Nat /\ left \in Nat
      /\ UNCHANGED <<current, t>>
  BY CompletingFacts
<1>3. x.task.return_code = rc /\ x.task.sub = sub
  BY <1>1, <1>2 DEF Kind, OfKind
<1>4. primary \in [return_code : {0, 1}, ref : Nat]
  BY DEF IInv, Shape
<1>5. /\ sub => rc = 1
      /\ primary.ref = IF sub THEN left ELSE 0
      /\ primary.return_code = IF left = 0 THEN 0 ELSE rc
      /\ rc = 1 /\ ~ sub => left <= 1
  BY <1>1 DEF Kind
<1>6. /\ primary'.ref = IF sub THEN left' ELSE 0
      /\ primary'.return_code = IF left' = 0 THEN 0 ELSE rc
      /\ primary' \in [return_code : {0, 1}, ref : Nat]
  <2>1. CASE rc = 0
    BY <1>2, <1>3, <1>4, <1>5, <2>1
  <2>2. CASE rc = 1 /\ sub
    <3>1. primary' = [return_code |-> IF primary.ref = 1 THEN 0 ELSE primary.return_code,
                      ref |-> primary.ref - 1]
      BY <1>3, <2>2
    <3>2. primary.ref = left /\ primary.return_code = 1 /\ left >= 1
      BY <1>2, <1>5, <2>2
    <3> QED
      BY <1>2, <2>2, <3>1, <3>2
  <2>3. CASE rc = 1 /\ ~ sub
    <3>1. primary' = [primary EXCEPT !.return_code = 0]
      BY <1>3, <2>3
    <3>2. primary.ref = 0 /\ left' = 0
      BY <1>2, <1>5, <2>3
    <3>3. primary'.ref = primary.ref /\ primary'.return_code = 0
      BY <1>4, <3>1
    <3>4. primary' \in [return_code : {0, 1}, ref : Nat]
      BY <1>4, <3>1
    <3> QED
      BY <2>3, <3>2, <3>3, <3>4
  <2> QED
    BY <2>1, <2>2, <2>3
<1>7. /\ \A y \in Owners' : OfKind(y.task, rc, sub)'
      /\ \A i \in DOMAIN t' : OfKind(t[i], rc, sub)'
  <2>1. \A task : OfKind(task, rc, sub)' = OfKind(task, rc, sub)
    BY <1>2 DEF OfKind
  <2> QED
    BY <1>1, <1>2, <2>1 DEF Kind, OfKind
<1>8. rc = 1 /\ ~ sub => left' <= 1
  BY <1>2, <1>5
<1> QED
  BY <1>5, <1>6, <1>7, <1>8 DEF OneKind, Kind

(* A read: the command and its buffers go in one step.                       *)
LEMMA ReadCompletes ==
  ASSUME QueueAssumption, IInv, NEW x, Completing(x, "read"), NEW a \in BOOLEAN,
         data_buf_list' = data_buf_list \cup Used(x),
         ioc' = [ioc EXCEPT ![current] = Counts(ioc[current], a, ioc[current].num_running - 1,
                                         ioc[current].total_nseg - Len(x.segs))],
         UNCHANGED <<pc, releasing>>, OneKind', primary' \in [return_code : {0, 1}, ref : Nat]
  PROVE  IInv'
<1>1. /\ pc = "process" /\ releasing = {} /\ current \in Ioc
      /\ x \in Cmds /\ x \in Owners /\ Owners = Cmds /\ x \in Issued
      /\ cq' \in Seq(Issued) /\ Distinct(cq') /\ Elems(cq') \cap flight' = {}
      /\ Cmds' = Cmds \ {x}
      /\ current_queue_depth' \in 0 .. MaxQueueDepth
      /\ current_queue_depth' = Cardinality(flight') + Len(cq')
      /\ left' = left - 1 /\ left' \in Nat /\ left \in Nat
      /\ UNCHANGED <<current, t, flight>>
  BY CompletingFacts
<1>2. /\ Len(x.segs) \in Nat
      /\ Cardinality(Buf \ data_buf_list') \in Nat
      /\ Cardinality(Buf \ data_buf_list) = Cardinality(Buf \ data_buf_list') + Len(x.segs)
  BY <1>1, GiveBuffers
<1>3. /\ ioc[current].num_running = left
      /\ ioc[current].total_nseg = Cardinality(Buf \ data_buf_list)
  BY <1>1, CurrentCounts
<1>4. /\ ioc[current].num_running - 1 = left'
      /\ ioc[current].total_nseg - Len(x.segs) = Cardinality(Buf \ data_buf_list')
  BY <1>1, <1>2, <1>3
<1>5. ioc' = [ioc EXCEPT ![current] =
                Counts(ioc[current], a, left', Cardinality(Buf \ data_buf_list'))]
  BY <1>4
<1>6. ioc' \in [Ioc -> IocRecord] /\ Staged' /\ Counted'
  <2>1. pc # "idle" /\ UNCHANGED current
    BY <1>1
  <2> QED
    BY <1>1, <1>2, <1>5, <2>1, CountersStep, Zenon
<1>7. Shape'
  <2>1. data_buf_list' \subseteq Buf
    <3>1. Used(x) \subseteq Buf
      BY <1>1 DEF IInv, Owned, Partition
    <3> QED
      BY <3>1 DEF IInv, Shape
  <2> QED
    BY <1>1, <1>6, <2>1 DEF IInv, Shape
<1>8. Phase'
  BY <1>1 DEF IInv, Phase
<1>9. Owners' = Owners \ {x}
  BY <1>1 DEF Owners
<1>10. Partition'
  BY <1>1, <1>9, PartitionGive DEF IInv, Owned
<1>11. Owned'
  BY <1>1, <1>10 DEF Owned
<1> QED
  BY <1>6, <1>7, <1>8, <1>11 DEF IInv

LEMMA AioReadCompletes ==
  ASSUME QueueAssumption, IInv, io_complete_aio_read
  PROVE  IInv'
<1>1. PICK x : /\ Completing(x, "read") /\ x.task.return_code = 0
               /\ data_buf_list' = data_buf_list \cup Used(x)
               /\ ioc' = [ioc EXCEPT ![x.task.ioc] = Finished(x.task.ioc, Len(x.segs))]
               /\ UNCHANGED <<pc, primary, releasing>>
  BY DEF io_complete_aio_read, release_segs
<1>2. /\ x.task.ioc = current /\ pc # "idle" /\ Cmds' = Cmds \ {x} /\ Owners = Cmds
      /\ releasing = {}
  BY <1>1, CompletingFacts
<1>3. Owners' \subseteq Owners
  BY <1>1, <1>2 DEF Owners
<1>4. OneKind' /\ primary' \in [return_code : {0, 1}, ref : Nat]
  BY <1>1, <1>3, KindCompletes
<1> DEFINE a == ~ (CallbackDestroys /\ LastOne(current))
<1>5. a \in BOOLEAN
  OBVIOUS
<1>6. Finished(current, Len(x.segs))
        = Counts(ioc[current], a, ioc[current].num_running - 1,
                 ioc[current].total_nseg - Len(x.segs))
  <2> DEFINE n == ioc[current].num_running - 1
             m == ioc[current].total_nseg - Len(x.segs)
  <2>1. ioc[current] \in IocRecord
    BY <1>2, CurrentCounts
  <2>2. Finished(current, Len(x.segs))
          = [ioc[current] EXCEPT !.num_running = n, !.total_nseg = m, !.alive = a]
    BY <2>1 DEF Finished, IocRecord
  <2> HIDE DEF n, m, a
  <2>3. FinishAndCall(ioc[current], a, n, m) = Counts(ioc[current], a, n, m)
    BY <2>1, FinishAndCallFacts, Zenon
  <2> QED
    BY <2>2, <2>3 DEF n, m, FinishAndCall
<1> HIDE DEF a
<1> QED
  BY <1>1, <1>2, <1>4, <1>5, <1>6, ReadCompletes

LEMMA SyncReadCompletes ==
  ASSUME QueueAssumption, IInv, io_complete_read
  PROVE  IInv'
<1>1. PICK x : /\ Completing(x, "read") /\ x.task.return_code # 0
               /\ data_buf_list' = data_buf_list \cup Used(x)
               /\ primary' = IF x.task.sub
                    THEN [return_code |-> IF primary.ref = 1 THEN 0 ELSE primary.return_code,
                          ref |-> primary.ref - 1]
                    ELSE [primary EXCEPT !.return_code = 0]
               /\ ioc' = [ioc EXCEPT ![x.task.ioc].num_running = @ - 1,
                                     ![x.task.ioc].total_nseg = @ - Len(x.segs)]
               /\ UNCHANGED <<pc, releasing>>
  BY DEF io_complete_read, release_segs
<1>2. /\ x.task.ioc = current /\ pc # "idle" /\ Cmds' = Cmds \ {x} /\ Owners = Cmds
      /\ releasing = {}
  BY <1>1, CompletingFacts
<1>3. Owners' \subseteq Owners
  BY <1>1, <1>2 DEF Owners
<1>4. OneKind' /\ primary' \in [return_code : {0, 1}, ref : Nat]
  BY <1>1, <1>3, KindCompletes
<1>5. /\ current \in Ioc /\ ioc[current] \in IocRecord /\ ioc \in [Ioc -> IocRecord]
      /\ ioc[current].alive \in BOOLEAN
  BY <1>2, CurrentCounts
<1> DEFINE n == ioc[current].num_running - 1
           m == ioc[current].total_nseg - Len(x.segs)
<1>6. [ioc[current] EXCEPT !.num_running = n, !.total_nseg = m]
        = Counts(ioc[current], ioc[current].alive, n, m)
  <2>1. Finish(ioc[current], n, m) = Counts(ioc[current], ioc[current].alive, n, m)
    BY <1>5, FinishFacts, Zenon
  <2> QED
    BY <2>1 DEF Finish
<1>7. ioc' = [ioc EXCEPT ![current] =
                [ioc[current] EXCEPT !.num_running = n, !.total_nseg = m]]
  BY <1>1, <1>2, <1>5 DEF IocRecord
<1>8. ioc' = [ioc EXCEPT ![current] = Counts(ioc[current], ioc[current].alive, n, m)]
  BY <1>6, <1>7
<1> QED
  BY <1>1, <1>4, <1>5, <1>8, ReadCompletes

LEMMA WriteCompletes ==
  ASSUME QueueAssumption, IInv, io_complete_write
  PROVE  IInv'
<1>1. PICK x : /\ Completing(x, "write")
               /\ ioc' = [ioc EXCEPT ![x.task.ioc] = Finished(x.task.ioc, 0)]
               /\ releasing' = {x} /\ pc' = "release"
               /\ UNCHANGED <<primary, data_buf_list>>
  BY DEF io_complete_write
<1>2. /\ pc = "process" /\ releasing = {} /\ current \in Ioc
      /\ x \in Cmds /\ x \in Owners /\ Owners = Cmds /\ x \in Issued
      /\ x.task.cmd = "write" /\ x.task.ioc = current
      /\ cq' \in Seq(Issued) /\ Distinct(cq') /\ Elems(cq') \cap flight' = {}
      /\ Cmds' = Cmds \ {x}
      /\ current_queue_depth' \in 0 .. MaxQueueDepth
      /\ current_queue_depth' = Cardinality(flight') + Len(cq')
      /\ left' = left - 1 /\ left' \in Nat /\ left \in Nat
      /\ UNCHANGED <<current, t, flight>>
  BY <1>1, CompletingFacts
<1>3. Owners' = Owners
  BY <1>1, <1>2 DEF Owners
<1>4. x.task.return_code = 0
  BY <1>2 DEF IInv, OneKind, Kind, OfKind
<1>5. OneKind' /\ primary' \in [return_code : {0, 1}, ref : Nat]
  BY <1>1, <1>3, <1>4, KindCompletes
<1> DEFINE a == ~ (CallbackDestroys /\ LastOne(current))
           n == ioc[current].num_running - 1
           m == ioc[current].total_nseg - 0
<1>6. a \in BOOLEAN
  OBVIOUS
<1>7. /\ ioc[current] \in IocRecord /\ ioc[current].num_running = left
      /\ ioc[current].total_nseg = Cardinality(Buf \ data_buf_list)
      /\ Cardinality(Buf \ data_buf_list) \in Nat
  BY <1>2, CurrentCounts, PoolFacts
<1>8. n = left' /\ m = Cardinality(Buf \ data_buf_list')
  BY <1>1, <1>2, <1>7
<1>9. Finished(current, 0) = Counts(ioc[current], a, n, m)
  <2>1. Finished(current, 0)
          = [ioc[current] EXCEPT !.num_running = n, !.total_nseg = m, !.alive = a]
    BY <1>7 DEF Finished, IocRecord
  <2> HIDE DEF n, m, a
  <2>2. FinishAndCall(ioc[current], a, n, m) = Counts(ioc[current], a, n, m)
    BY <1>7, FinishAndCallFacts, Zenon
  <2> QED
    BY <2>1, <2>2 DEF FinishAndCall
<1> HIDE DEF a, n, m
<1>10. ioc' = [ioc EXCEPT ![current] =
                 Counts(ioc[current], a, left', Cardinality(Buf \ data_buf_list'))]
  BY <1>1, <1>2, <1>8, <1>9
<1>11. ioc' \in [Ioc -> IocRecord] /\ Staged' /\ Counted'
  <2>1. pc # "idle" /\ UNCHANGED current /\ Cardinality(Buf \ data_buf_list') \in Nat
    BY <1>1, <1>2, <1>7
  <2> QED
    BY <1>2, <1>6, <1>10, <2>1, CountersStep, Zenon
<1>12. Shape'
  BY <1>1, <1>2, <1>5, <1>11 DEF IInv, Shape
<1>13. Phase'
  BY <1>1, <1>2 DEF IInv, Phase
<1>14. Partition'
  BY <1>1, <1>3, PartitionKeep DEF IInv, Owned
<1>15. Owned'
  BY <1>1, <1>2, <1>14 DEF Owned
<1> QED
  BY <1>5, <1>11, <1>12, <1>13, <1>15 DEF IInv

LEMMA ReleaseStep ==
  ASSUME QueueAssumption, IInv, ReleaseWrite
  PROVE  IInv'
<1>1. PICK x \in releasing :
        /\ pc = "release" /\ pc' = "process" /\ releasing' = {}
        /\ data_buf_list' = data_buf_list \cup Used(x)
        /\ ioc' = [ioc EXCEPT ![x.task.ioc].total_nseg = @ - Len(x.segs)]
        /\ UNCHANGED <<current, t, primary, flight, cq, current_queue_depth>>
  BY DEF ReleaseWrite, release_segs
<1>2. releasing = {x} /\ current \in Ioc /\ x \in Owners
  BY <1>1 DEF IInv, Phase, Owners
<1>3. x.task.ioc = current
  BY <1>2 DEF IInv, OneKind, Kind, OfKind
<1>4. Cmds' = Cmds /\ Owners' = Owners \ {x} /\ left' = left
  BY <1>1, <1>2 DEF Cmds, Owners, left, IInv, Owned
<1>5. /\ Len(x.segs) \in Nat
      /\ Cardinality(Buf \ data_buf_list') \in Nat
      /\ Cardinality(Buf \ data_buf_list) = Cardinality(Buf \ data_buf_list') + Len(x.segs)
  BY <1>1, <1>2, GiveBuffers
<1>6. /\ ioc[current] \in IocRecord /\ ioc[current].alive \in BOOLEAN
      /\ ioc[current].num_running = left'
      /\ ioc[current].total_nseg = Cardinality(Buf \ data_buf_list)
      /\ left' \in Nat
  BY <1>1, <1>4, CurrentCounts
<1> DEFINE m == ioc[current].total_nseg - Len(x.segs)
<1>7. m = Cardinality(Buf \ data_buf_list')
  BY <1>5, <1>6
<1>8. ioc' = [ioc EXCEPT ![current] = Hold(ioc[current], m)]
  BY <1>1, <1>3 DEF Hold
<1> HIDE DEF m
<1>9. Hold(ioc[current], m) = Counts(ioc[current], ioc[current].alive, ioc[current].num_running, m)
  BY <1>6, HoldFacts, Zenon
<1>10. ioc' = [ioc EXCEPT ![current] = Counts(ioc[current], ioc[current].alive, left',
                                              Cardinality(Buf \ data_buf_list'))]
  BY <1>6, <1>7, <1>8, <1>9
<1>11. ioc' \in [Ioc -> IocRecord] /\ Staged' /\ Counted'
  <2>1. pc # "idle" /\ UNCHANGED current
    BY <1>1
  <2>2. current_queue_depth' = Cardinality(flight') + Len(cq')
    BY <1>1 DEF IInv, Counted
  <2> QED
    BY <1>5, <1>6, <1>10, <2>1, <2>2, CountersStep, Zenon
<1>12. Shape'
  <2>1. Used(x) \subseteq Buf
    BY <1>2 DEF IInv, Owned, Partition
  <2> QED
    BY <1>1, <1>11, <2>1 DEF IInv, Shape
<1>13. Phase'
  BY <1>1, <1>2 DEF Phase
<1>14. Partition'
  BY <1>1, <1>2, <1>4, PartitionGive DEF IInv, Owned
<1>15. Owned'
  BY <1>1, <1>14 DEF IInv, Owned
<1>16. OneKind'
  <2>1. Owners' \subseteq Owners
    BY <1>4
  <2> QED
    BY <1>1, <1>4, <2>1 DEF IInv, OneKind, Kind, OfKind
<1> QED
  BY <1>11, <1>12, <1>13, <1>15, <1>16 DEF IInv

----------------------------------------------------------------------------
(* The controller.                                                           *)

LEMMA ExecuteStep ==
  ASSUME QueueAssumption, IInv, NEW x \in flight, Execute(x)
  PROVE  IInv'
<1>1. /\ flight' = flight \ {x} /\ cq' = Append(cq, x)
      /\ UNCHANGED <<pc, current, t, ioc, primary, releasing, data_buf_list,
                     current_queue_depth>>
  BY DEF Execute
<1>2. /\ x \in Issued /\ cq \in Seq(Issued) /\ Distinct(cq) /\ x \notin Elems(cq)
      /\ IsFiniteSet(flight) /\ Len(cq) \in Nat
  BY DEF IInv, Shape, Owned
<1>3. /\ cq' \in Seq(Issued) /\ Distinct(cq') /\ Elems(cq') = Elems(cq) \cup {x}
      /\ Len(cq') = Len(cq) + 1
  BY <1>1, <1>2, AppendElems
<1>4. Cmds' = Cmds /\ Owners' = Owners /\ left' = left
  BY <1>1, <1>3 DEF Cmds, Owners, left
<1>5. /\ IsFiniteSet(flight') /\ Cardinality(flight') = Cardinality(flight) - 1
      /\ Cardinality(flight) \in Nat
  BY <1>1, <1>2, FS_RemoveElement, FS_CardinalityType
<1>6. Shape'
  BY <1>1, <1>3, <1>5 DEF IInv, Shape
<1>7. Phase'
  BY <1>1 DEF IInv, Phase
<1>8. Partition'
  BY <1>1, <1>4, PartitionKeep DEF IInv, Owned
<1>9. Owned'
  <2>1. Elems(cq') \cap flight' = {}
    BY <1>1, <1>3 DEF IInv, Owned
  <2> QED
    BY <1>1, <1>3, <1>4, <1>8, <2>1 DEF IInv, Owned
<1>10. Staged'
  BY <1>1 DEF IInv, Staged
<1>11. OneKind'
  BY <1>1, <1>4 DEF IInv, OneKind, Kind, OfKind
<1>12. Counted'
  <2>1. current_queue_depth' = Cardinality(flight') + Len(cq')
    BY <1>1, <1>2, <1>3, <1>5 DEF IInv, Counted
  <2> QED
    BY <1>1, <1>4, <2>1 DEF IInv, Counted
<1> QED
  BY <1>6, <1>7, <1>9, <1>10, <1>11, <1>12 DEF IInv

----------------------------------------------------------------------------
(* Every step.                                                               *)

LEMMA RestartStep == Restart => IInv'
<1>1. Fresh => IInv
  BY QueueAssumption, InvFresh
<1>2. Fresh' => IInv'
  BY <1>1, PTL
<1>3. Restart => Fresh'
  BY DEF Restart, Fresh
<1> QED
  BY <1>2, <1>3

LEMMA InvNext ==
  ASSUME IInv, [Next]_vars
  PROVE  IInv'
<1> USE QueueAssumption
<1>1. CASE UNCHANGED vars
  <2>1. UNCHANGED loop_vars /\ UNCHANGED pc
    BY <1>1 DEF vars, loop_vars
  <2>2. Owners' = Owners /\ Cmds' = Cmds /\ left' = left
    BY <2>1 DEF Owners, Cmds, left, loop_vars
  <2>3. Shape' /\ Phase' /\ Staged'
    BY <2>1 DEF IInv, Shape, Phase, Staged, loop_vars
  <2>4. Owned'
    BY <2>1, <2>2 DEF IInv, Owned, Partition, loop_vars
  <2>5. OneKind' /\ Counted'
    BY <2>1, <2>2 DEF IInv, OneKind, Kind, OfKind, Counted, loop_vars
  <2> QED
    BY <2>3, <2>4, <2>5 DEF IInv
<1>2. ASSUME NEW off \in Lba, NEW f \in Contents, write(off, f) \/ aio_write(off, f)
      PROVE  IInv'
  BY <1>2, WriteStep, AioWriteStep
<1>3. ASSUME NEW off \in Lba, NEW len \in 1 .. Slots, read(off, len) \/ aio_read(off, len)
      PROVE  IInv'
  BY <1>3, ReadStep, AioReadStep
<1>4. CASE Submit \/ NewIOContext
  BY <1>4, SubmitStep, NewIOContextStep
<1>5. CASE While \/ Again \/ Processed \/ GotoAgain \/ AllIssued \/ Abort
  <2>1. UNCHANGED loop_vars /\ pc \notin {"idle", "release"}
        /\ pc' \in {"while", "again", "process", "issue", "aborted"}
    BY <1>5 DEF While, Again, Processed, GotoAgain, AllIssued, Abort
  <2> QED
    BY <2>1, PcStep
<1>6. CASE Return
  BY <1>6, ReturnStep
<1>7. CASE Issue
  BY <1>7, IssueStep
<1>8. CASE io_complete_write \/ ReleaseWrite
  BY <1>8, WriteCompletes, ReleaseStep
<1>9. CASE io_complete_aio_read \/ io_complete_read
  BY <1>9, AioReadCompletes, SyncReadCompletes
<1>10. CASE Controller
  BY <1>10, ExecuteStep DEF Controller
<1>11. CASE Restart
  BY <1>11, RestartStep
<1> QED
  BY <1>1, <1>2, <1>3, <1>4, <1>5, <1>6, <1>7, <1>8, <1>9, <1>10, <1>11
  DEF Next, Caller, Thread

(* Every reachable state satisfies the invariant.                            *)
THEOREM Transfers == Spec => []IInv
<1>1. Init => IInv
  BY QueueAssumption, InvFresh DEF Init, Fresh
<1>2. IInv /\ [Next]_vars => IInv'
  BY InvNext
<1> QED
  BY <1>1, <1>2, PTL DEF Spec

----------------------------------------------------------------------------
(* What follows from it.                                                     *)

LEMMA CommandsAreCmds == Commands = Cmds
BY DEF Commands, Cmds, Elems

(* A DMA buffer is free or belongs to exactly one command, and none is lost,  *)
(* in any order of completions: alloc_buf_from_pool and release_segs.         *)
THEOREM NoBufferLost == Spec => []BuffersOwnedOnce
<1>1. IInv => BuffersOwnedOnce
  <2> SUFFICES ASSUME IInv PROVE BuffersOwnedOnce
    OBVIOUS
  <2>1. Commands \cup releasing = Owners
    BY CommandsAreCmds DEF Owners
  <2>2. ASSUME NEW x \in Owners
        PROVE  Cardinality(Used(x)) = Len(x.segs)
    <3>1. x.segs \in Seq(Buf) /\ Distinct(x.segs)
      BY <2>2, OwnersAreIssued DEF Issued, IInv, Owned, Partition
    <3>2. Used(x) = Elems(x.segs)
      BY DEF Used, Elems
    <3> QED
      BY <3>1, <3>2, CountElems
  <2> QED
    BY <2>1, <2>2 DEF BuffersOwnedOnce, IInv, Owned, Partition
<1> QED
  BY <1>1, Transfers, PTL

(* num_running and t.ref reach 0, and the loop ends, only when nothing of the *)
(* call is in the queue pair and all of it succeeded.                        *)
THEOREM EndMeansDone == Spec => []ReturnMeansDone
<1>1. IInv => ReturnMeansDone
  BY QueueAssumption, NothingLeft, CommandsAreCmds DEF ReturnMeansDone
<1> QED
  BY <1>1, Transfers, PTL

(* When a task cannot be issued for want of a slot or of buffers, a command   *)
(* is outstanding whose completion will bring them: one task never needs more *)
(* than the whole pool.                                                      *)
THEOREM WaitingHelps == Spec => []ExhaustionIsTemporary
<1>1. IInv => ExhaustionIsTemporary
  <2> SUFFICES ASSUME IInv, pc = "issue", t # << >>, NoSlot \/ NoBufs, Cmds = {}
               PROVE  FALSE
    BY CommandsAreCmds DEF ExhaustionIsTemporary
  <2>1. flight = {} /\ Elems(cq) = {} /\ releasing = {}
    BY DEF Cmds, IInv, Phase
  <2>2. Len(cq) = 0 /\ Cardinality(flight) = 0
    BY <2>1, CountElems, FS_EmptySet DEF IInv, Shape, Owned
  <2>3. current_queue_depth = 0
    BY <2>2 DEF IInv, Counted
  <2>4. ~ NoSlot
    BY <2>3, QueueAssumption DEF NoSlot, QueueAssumption
  <2>5. data_buf_list = Buf
    <3>1. Owners = {}
      BY <2>1 DEF Owners
    <3>2. UNION {Used(x) : x \in Owners} = {}
      BY <3>1
    <3> QED
      BY <3>2 DEF IInv, Owned, Partition
  <2>6. Head(t) \in Task
    BY DEF IInv, Shape
  <2>7. Head(t).len \in 1 .. SplitSegs
    BY <2>6 DEF Task
  <2>8. ~ NoBufs
    BY <2>5, <2>7, QueueAssumption, FS_CardinalityType DEF NoBufs, QueueAssumption
  <2> QED
    BY <2>4, <2>8
<1> QED
  BY <1>1, Transfers, PTL

LEMMA HeldBuffers ==
  ASSUME IInv
  PROVE  UNION {Used(x) : x \in Owners} = Buf \ data_buf_list
<1>1. data_buf_list \cup UNION {Used(x) : x \in Owners} = Buf
  BY DEF IInv, Owned, Partition
<1>2. \A x \in Owners : Used(x) \cap data_buf_list = {}
  BY DEF IInv, Owned, Partition
<1> QED
  BY <1>1, <1>2

(* The subtasks still to be done, by their number.                           *)
LEMMA SubtasksLeft ==
  ASSUME QueueAssumption, IInv
  PROVE  primary.ref = Cardinality({x \in Cmds : x.task.sub})
                       + Cardinality({i \in DOMAIN t : t[i].sub})
<1>1. PICK rc \in {0, 1}, sub \in BOOLEAN : Kind(rc, sub)
  BY DEF IInv, OneKind
<1>2. \A x \in Cmds : x.task.sub = sub
  BY <1>1 DEF Kind, OfKind, Owners
<1>3. \A i \in DOMAIN t : t[i].sub = sub
  BY <1>1 DEF Kind, OfKind
<1>4. CASE sub
  <2>1. {x \in Cmds : x.task.sub} = Cmds /\ {i \in DOMAIN t : t[i].sub} = 1 .. Len(t)
    <3>1. DOMAIN t = 1 .. Len(t)
      BY DEF IInv, Shape
    <3>2. {x \in Cmds : x.task.sub} = Cmds
      BY <1>2, <1>4
    <3>3. {i \in DOMAIN t : t[i].sub} = DOMAIN t
      BY <1>3, <1>4
    <3> QED
      BY <3>1, <3>2, <3>3
  <2>2. Cardinality(Cmds) = current_queue_depth
    <3>1. IsFiniteSet(Elems(cq)) /\ Cardinality(Elems(cq)) = Len(cq)
      BY CountElems DEF IInv, Shape, Owned
    <3>2. Cardinality(Cmds) = Cardinality(flight) + Cardinality(Elems(cq))
      BY <3>1, DisjointUnion DEF Cmds, IInv, Shape, Owned
    <3> QED
      BY <3>1, <3>2 DEF IInv, Counted
  <2>3. Cardinality(1 .. Len(t)) = Len(t) /\ Len(t) \in Nat
    <3>1. Len(t) \in Nat
      BY DEF IInv, Shape
    <3>2. 1 \in Int /\ Len(t) \in Int
      BY <3>1
    <3>3. Cardinality(1 .. Len(t)) = IF 1 > Len(t) THEN 0 ELSE Len(t) - 1 + 1
      BY <3>2, FS_Interval, Zenon
    <3> QED
      BY <3>1, <3>3
  <2>4. primary.ref = left
    BY <1>1, <1>4 DEF Kind
  <2> QED
    BY <2>1, <2>2, <2>3, <2>4 DEF left
<1>5. CASE ~ sub
  <2>1. {x \in Cmds : x.task.sub} = {} /\ {i \in DOMAIN t : t[i].sub} = {}
    BY <1>2, <1>3, <1>5
  <2>2. primary.ref = 0
    BY <1>1, <1>5 DEF Kind
  <2>3. Cardinality({x \in Cmds : x.task.sub}) = 0
        /\ Cardinality({i \in DOMAIN t : t[i].sub}) = 0
    BY <2>1, FS_EmptySet
  <2> QED
    BY <2>2, <2>3
<1> QED
  BY <1>4, <1>5

(* The counters that the loop, the callback and read() rely on agree with the *)
(* work they count, at every step: neither does the loop end early, nor wait  *)
(* for what is already done.                                                 *)
THEOREM CountsAreRight == Spec => []CountersAgree
<1>1. IInv => CountersAgree
  <2> SUFFICES ASSUME IInv PROVE CountersAgree
    OBVIOUS
  <2>1. UNION {Used(x) : x \in Commands \cup releasing} = Buf \ data_buf_list
    BY HeldBuffers, CommandsAreCmds DEF Owners
  <2>2. primary.ref = Cardinality({x \in Commands : x.task.sub})
                      + Cardinality({i \in DOMAIN t : t[i].sub})
    BY QueueAssumption, SubtasksLeft, CommandsAreCmds
  <2>3. \A c \in Ioc :
          /\ ioc[c].num_pending = Len(ioc[c].tasks)
          /\ ioc[c].num_running = IF c = current THEN current_queue_depth + Len(t) ELSE 0
          /\ ioc[c].total_nseg = IF c = current
               THEN Cardinality(UNION {Used(x) : x \in Commands \cup releasing}) ELSE 0
    BY <2>1 DEF IInv, Counted, left
  <2>4. current_queue_depth = Cardinality(flight) + Len(cq)
    BY DEF IInv, Counted
  <2> QED
    BY <2>2, <2>3, <2>4 DEF CountersAgree
<1> QED
  BY <1>1, Transfers, PTL

----------------------------------------------------------------------------
(* What the buffers hold.                                                    *)

(* A request lies inside the device and the caller's buffer, and what is to  *)
(* be written is still in the caller's buffer when its task is issued.       *)
Fits(task) == task.off + task.len <= Size /\ task.slot + task.len <= Slots

Filled(task, bufs) ==
  task.cmd = "write" =>
    \A s \in Slot : task.slot <= s /\ s < task.slot + task.len => bufs[task.ioc][s] \in Data

Bufs == [Ioc -> [Slot -> Data \cup {NoData}]]

Typed ==
  /\ mem \in [Buf -> Data \cup {NoData, Hook}]
  /\ buf \in Bufs
  /\ called \in Nat
  /\ disk \in [Lba -> Data]

Requests ==
  /\ current = Async => ioc[Async].tasks = << >>
  /\ \A i \in DOMAIN ioc[Async].tasks :
       Fits(ioc[Async].tasks[i]) /\ Filled(ioc[Async].tasks[i], buf)
  /\ \A i \in DOMAIN t : Fits(t[i]) /\ Filled(t[i], buf)

(* A write that is not executed and a read that is have data in their        *)
(* buffers, not the hook of the free list.                                   *)
InBuffers ==
  /\ \A x \in Owners : Fits(x.task)
  /\ \A x \in flight : x.task.cmd = "write" => \A b \in Used(x) : mem[b] \in Data
  /\ \A x \in Elems(cq) : x.task.cmd = "read" => \A b \in Used(x) : mem[b] \in Data

DataInv == Typed /\ Requests /\ InBuffers

(* The caller fills a part of its buffer.                                    *)
LEMMA BufWithFacts ==
  ASSUME QueueAssumption, Typed, NEW c \in Ioc, NEW slot \in Nat, NEW f \in Contents
  PROVE  /\ BufWith(c, slot, f) \in Bufs
         /\ \A task \in Task : Filled(task, buf) => Filled(task, BufWith(c, slot, f))
         /\ \A task \in Task :
              task.ioc = c /\ slot <= task.slot /\ task.slot + task.len <= slot + Len(f)
                => Filled(task, BufWith(c, slot, f))
<1> DEFINE g == BufWith(c, slot, f)
           new(s) == s \in slot .. slot + Len(f) - 1
<1>1. Len(f) \in Nat /\ \A j \in 1 .. Len(f) : f[j] \in Data
  BY DEF QueueAssumption
<1>2. \A s \in Slot : new(s) => f[s - slot + 1] \in Data
  BY <1>1 DEF Slot
<1>3. buf \in [Ioc -> [Slot -> Data \cup {NoData}]]
  BY DEF Typed, Bufs
<1>4. g = [buf EXCEPT ![c] = [s \in Slot |-> IF new(s) THEN f[s - slot + 1] ELSE buf[c][s]]]
  BY <1>3 DEF BufWith
<1>5. /\ \A s \in Slot : g[c][s] = IF new(s) THEN f[s - slot + 1] ELSE buf[c][s]
      /\ \A d \in Ioc : d # c => g[d] = buf[d]
  BY <1>3, <1>4
<1>6. g \in Bufs
  BY <1>2, <1>3, <1>4 DEF Bufs
<1> HIDE DEF g
<1>7. \A d \in Ioc, s \in Slot : buf[d][s] \in Data => g[d][s] \in Data
  BY <1>2, <1>5
<1>8. \A task \in Task : task.ioc \in Ioc /\ task.slot \in Nat /\ task.len \in Nat
  BY DEF Task, Slot, QueueAssumption
<1>9. \A task \in Task : Filled(task, buf) => Filled(task, g)
  BY <1>7, <1>8 DEF Filled
<1>10. ASSUME NEW task \in Task, task.ioc = c, slot <= task.slot,
              task.slot + task.len <= slot + Len(f),
              NEW s \in Slot, task.slot <= s, s < task.slot + task.len
       PROVE  g[task.ioc][s] \in Data
  <2>1. new(s)
    BY <1>1, <1>8, <1>10 DEF Slot
  <2> QED
    BY <1>2, <1>5, <1>10, <2>1
<1> QED
  BY <1>6, <1>9, <1>10 DEF g, Filled

LEMMA SubmitData ==
  ASSUME QueueAssumption, IInv, DataInv, pc = "idle", NEW c \in Ioc, NEW tasks,
         aio_submit(c, tasks), buf' \in Bufs,
         \A i \in DOMAIN tasks : Fits(tasks[i]) /\ Filled(tasks[i], buf'),
         \A i \in DOMAIN ioc[Async].tasks : Filled(ioc[Async].tasks[i], buf')
  PROVE  DataInv'
<1>1. /\ t' = tasks /\ current' = c /\ called' = 0
      /\ ioc' = [ioc EXCEPT ![c].tasks = << >>, ![c].num_pending = 0,
                            ![c].num_running = @ + Len(tasks)]
      /\ UNCHANGED <<flight, cq, releasing, mem, disk>>
  BY DEF aio_submit
<1>2. Typed'
  BY <1>1 DEF DataInv, Typed
<1>3. InBuffers'
  <2>1. Owners' = Owners
    BY <1>1 DEF Owners, Cmds
  <2> QED
    BY <1>1, <2>1 DEF DataInv, InBuffers
<1>4. /\ c = Async => ioc'[Async].tasks = << >>
      /\ c # Async => ioc'[Async].tasks = ioc[Async].tasks
  <2>1. ioc \in [Ioc -> IocRecord] /\ Async \in Ioc
    BY DEF IInv, Shape, Ioc
  <2>2. c = Async => ioc'[Async].tasks = << >>
    BY <1>1, <2>1 DEF IocRecord
  <2>3. c # Async => ioc'[Async] = ioc[Async]
    BY <1>1, <2>1
  <2> QED
    BY <2>2, <2>3
<1>5. Requests'
  <2>1. \A i \in DOMAIN ioc'[Async].tasks :
          Fits(ioc'[Async].tasks[i]) /\ Filled(ioc'[Async].tasks[i], buf')
    BY <1>4 DEF DataInv, Requests
  <2> QED
    BY <1>1, <1>4, <2>1 DEF Requests
<1> QED
  BY <1>2, <1>3, <1>5 DEF DataInv

LEMMA WriteData ==
  ASSUME QueueAssumption, IInv, DataInv, NEW off \in Lba, NEW f \in Contents, write(off, f)
  PROVE  DataInv'
<1> DEFINE tasks == Split(Sync, "write", off, Len(f), 0, 0)
<1>1. Len(f) \in Nat \ {0} /\ Len(f) <= Slots /\ Slots \in Nat
  BY DEF QueueAssumption
<1>2. /\ off + Len(f) <= Size /\ pc = "idle" /\ aio_submit(Sync, tasks)
      /\ buf' = BufWith(Sync, 0, f) /\ Sync \in Ioc
  BY DEF write, valid_io, Ioc
<1>3. IsCut(tasks, Sync, "write", Len(f), 0, 0)
  BY <1>1, <1>2, SplitFacts
<1> HIDE DEF tasks
<1>4. \A i \in DOMAIN tasks :
        /\ tasks[i] \in Task /\ tasks[i].ioc = Sync /\ 0 <= tasks[i].slot
        /\ tasks[i].slot + tasks[i].len <= 0 + Len(f) /\ tasks[i].off + tasks[i].len <= Size
  BY <1>3 DEF IsCut
<1>5. \A i \in DOMAIN tasks : tasks[i].slot \in Nat /\ tasks[i].len \in Nat
  BY <1>4 DEF Task, Slot, QueueAssumption
<1>6. /\ buf' \in Bufs
      /\ \A task \in Task : Filled(task, buf) => Filled(task, buf')
      /\ \A task \in Task :
           task.ioc = Sync /\ 0 <= task.slot /\ task.slot + task.len <= 0 + Len(f)
             => Filled(task, buf')
  BY <1>2, BufWithFacts DEF DataInv
<1>7. \A i \in DOMAIN tasks : Fits(tasks[i]) /\ Filled(tasks[i], buf')
  BY <1>1, <1>4, <1>5, <1>6 DEF Fits
<1>8. \A i \in DOMAIN ioc[Async].tasks : Filled(ioc[Async].tasks[i], buf')
  <2>1. ioc[Async].tasks \in Seq(Task)
    BY DEF IInv, Shape, IocRecord, Ioc
  <2> QED
    BY <1>6, <2>1 DEF DataInv, Requests
<1> QED
  BY <1>2, <1>6, <1>7, <1>8, SubmitData

LEMMA ReadData ==
  ASSUME QueueAssumption, IInv, DataInv, NEW off \in Lba, NEW len \in 1 .. Slots, read(off, len)
  PROVE  DataInv'
<1> DEFINE tasks == Split(Sync, "read", off, len, 0, 1)
<1>1. len \in Nat \ {0} /\ len <= Slots /\ Slots \in Nat
  BY DEF QueueAssumption
<1>2. /\ off + len <= Size /\ pc = "idle" /\ aio_submit(Sync, tasks) /\ buf' = buf /\ Sync \in Ioc
  BY DEF read, valid_io, Ioc
<1>3. IsCut(tasks, Sync, "read", len, 0, 1)
  BY <1>1, <1>2, SplitFacts
<1> HIDE DEF tasks
<1>4. \A i \in DOMAIN tasks :
        /\ tasks[i] \in Task /\ tasks[i].cmd = "read"
        /\ tasks[i].slot + tasks[i].len <= 0 + len /\ tasks[i].off + tasks[i].len <= Size
  BY <1>3 DEF IsCut
<1>5. \A i \in DOMAIN tasks : tasks[i].slot \in Nat /\ tasks[i].len \in Nat
  BY <1>4 DEF Task, Slot, QueueAssumption
<1>6. \A i \in DOMAIN tasks : Fits(tasks[i]) /\ Filled(tasks[i], buf')
  BY <1>1, <1>4, <1>5 DEF Fits, Filled
<1> QED
  BY <1>2, <1>6, SubmitData DEF DataInv, Typed, Requests

LEMMA SubmitPendingData ==
  ASSUME QueueAssumption, IInv, DataInv, Submit
  PROVE  DataInv'
<1>1. pc = "idle" /\ aio_submit(Async, ioc[Async].tasks) /\ buf' = buf /\ Async \in Ioc
  BY DEF Submit, Ioc
<1> QED
  BY <1>1, SubmitData DEF DataInv, Typed, Requests

LEMMA AppendData ==
  ASSUME QueueAssumption, IInv, DataInv, pc = "idle", NEW tasks \in Seq(Task),
         Append_tasks(tasks), buf' \in Bufs,
         \A i \in DOMAIN tasks : Fits(tasks[i]) /\ Filled(tasks[i], buf'),
         \A i \in DOMAIN ioc[Async].tasks : Filled(ioc[Async].tasks[i], buf')
  PROVE  DataInv'
<1>1. /\ ioc' = [ioc EXCEPT ![Async].tasks = @ \o tasks,
                            ![Async].num_pending = @ + Len(tasks)]
      /\ UNCHANGED <<pc, current, t, flight, cq, releasing, mem, called, disk>>
  BY DEF Append_tasks
<1>2. current = Nobody /\ Nobody # Async /\ t = << >>
  BY IdleFacts DEF Nobody, Async
<1> DEFINE q == ioc[Async].tasks
<1>3. ioc \in [Ioc -> IocRecord] /\ Async \in Ioc /\ q \in Seq(Task)
  BY DEF IInv, Shape, Ioc, IocRecord
<1>4. ioc'[Async].tasks = q \o tasks
  BY <1>1, <1>3 DEF IocRecord
<1>5. \A i \in DOMAIN (q \o tasks) :
        \/ i \in DOMAIN q /\ (q \o tasks)[i] = q[i]
        \/ i - Len(q) \in DOMAIN tasks /\ (q \o tasks)[i] = tasks[i - Len(q)]
  BY <1>3
<1>6. \A i \in DOMAIN q : Fits(q[i]) /\ Filled(q[i], buf')
  BY DEF DataInv, Requests
<1> HIDE DEF q
<1>7. \A i \in DOMAIN (q \o tasks) : Fits((q \o tasks)[i]) /\ Filled((q \o tasks)[i], buf')
  BY <1>5, <1>6
<1>8. Requests'
  <2>1. DOMAIN t' = {} /\ current' # Async
    BY <1>1, <1>2
  <2>2. \A i \in DOMAIN ioc'[Async].tasks :
          Fits(ioc'[Async].tasks[i]) /\ Filled(ioc'[Async].tasks[i], buf')
    BY <1>4, <1>7
  <2> QED
    BY <2>1, <2>2 DEF Requests
<1>9. Typed'
  BY <1>1 DEF DataInv, Typed
<1>10. InBuffers'
  <2>1. Owners' = Owners
    BY <1>1 DEF Owners, Cmds
  <2> QED
    BY <1>1, <2>1 DEF DataInv, InBuffers
<1> QED
  BY <1>8, <1>9, <1>10 DEF DataInv

LEMMA AioWriteData ==
  ASSUME QueueAssumption, IInv, DataInv, NEW off \in Lba, NEW f \in Contents, aio_write(off, f)
  PROVE  DataInv'
<1> DEFINE tasks == Split(Async, "write", off, Len(f), NextSlot, 0)
<1>1. Len(f) \in Nat \ {0} /\ NextSlot \in Nat /\ Slots \in Nat
  BY NextSlotFacts DEF QueueAssumption
<1>2. /\ off + Len(f) <= Size /\ NextSlot + Len(f) <= Slots /\ pc = "idle"
      /\ Append_tasks(tasks) /\ buf' = BufWith(Async, NextSlot, f) /\ Async \in Ioc
  BY DEF aio_write, valid_io, Ioc
<1>3. IsCut(tasks, Async, "write", Len(f), NextSlot, 0)
  BY <1>1, <1>2, SplitFacts
<1> HIDE DEF tasks
<1>4. \A i \in DOMAIN tasks :
        /\ tasks[i] \in Task /\ tasks[i].ioc = Async /\ NextSlot <= tasks[i].slot
        /\ tasks[i].slot + tasks[i].len <= NextSlot + Len(f)
        /\ tasks[i].off + tasks[i].len <= Size
  BY <1>3 DEF IsCut
<1>5. \A i \in DOMAIN tasks : tasks[i].slot \in Nat /\ tasks[i].len \in Nat
  BY <1>4 DEF Task, Slot, QueueAssumption
<1>6. /\ buf' \in Bufs
      /\ \A task \in Task : Filled(task, buf) => Filled(task, buf')
      /\ \A task \in Task :
           task.ioc = Async /\ NextSlot <= task.slot /\ task.slot + task.len <= NextSlot + Len(f)
             => Filled(task, buf')
  BY <1>1, <1>2, BufWithFacts DEF DataInv
<1>7. \A i \in DOMAIN tasks : Fits(tasks[i]) /\ Filled(tasks[i], buf')
  BY <1>1, <1>2, <1>4, <1>5, <1>6 DEF Fits
<1>8. \A i \in DOMAIN ioc[Async].tasks : Filled(ioc[Async].tasks[i], buf')
  <2>1. ioc[Async].tasks \in Seq(Task)
    BY DEF IInv, Shape, IocRecord, Ioc
  <2> QED
    BY <1>6, <2>1 DEF DataInv, Requests
<1>9. tasks \in Seq(Task)
  BY <1>3 DEF IsCut
<1> QED
  BY <1>2, <1>6, <1>7, <1>8, <1>9, AppendData

LEMMA AioReadData ==
  ASSUME QueueAssumption, IInv, DataInv, NEW off \in Lba, NEW len \in 1 .. Slots,
         aio_read(off, len)
  PROVE  DataInv'
<1> DEFINE tasks == Split(Async, "read", off, len, NextSlot, 0)
<1>1. len \in Nat \ {0} /\ NextSlot \in Nat /\ Slots \in Nat
  BY NextSlotFacts DEF QueueAssumption
<1>2. /\ off + len <= Size /\ NextSlot + len <= Slots /\ pc = "idle"
      /\ Append_tasks(tasks) /\ buf' = buf /\ Async \in Ioc
  BY DEF aio_read, valid_io, Ioc
<1>3. IsCut(tasks, Async, "read", len, NextSlot, 0)
  BY <1>1, <1>2, SplitFacts
<1> HIDE DEF tasks
<1>4. /\ tasks \in Seq(Task)
      /\ \A i \in DOMAIN tasks :
           /\ tasks[i] \in Task /\ tasks[i].cmd = "read"
           /\ tasks[i].slot + tasks[i].len <= NextSlot + len
           /\ tasks[i].off + tasks[i].len <= Size
  BY <1>3 DEF IsCut
<1>5. \A i \in DOMAIN tasks : tasks[i].slot \in Nat /\ tasks[i].len \in Nat
  BY <1>4 DEF Task, Slot, QueueAssumption
<1>6. \A i \in DOMAIN tasks : Fits(tasks[i]) /\ Filled(tasks[i], buf')
  BY <1>1, <1>2, <1>4, <1>5 DEF Fits, Filled
<1> QED
  BY <1>2, <1>4, <1>6, AppendData DEF DataInv, Typed, Requests

LEMMA NewIOContextData ==
  ASSUME QueueAssumption, IInv, DataInv, NewIOContext
  PROVE  DataInv'
<1>1. PICK p \in BOOLEAN : ioc' = [ioc EXCEPT ![Async] = NewIoc(p)]
  BY DEF NewIOContext
<1>2. UNCHANGED <<pc, current, t, flight, cq, releasing, mem, buf, called, disk>>
  BY DEF NewIOContext
<1>3. ioc'[Async].tasks = << >>
  <2>1. ioc'[Async] = NewIoc(p)
    BY <1>1 DEF IInv, Shape, Ioc
  <2> QED
    BY <2>1, NewIocFacts
<1>4. Owners' = Owners
  BY <1>2 DEF Owners, Cmds
<1> QED
  BY <1>2, <1>3, <1>4 DEF DataInv, Typed, Requests, InBuffers

----------------------------------------------------------------------------

LEMMA LoopData ==
  ASSUME DataInv, UNCHANGED loop_vars
  PROVE  DataInv'
<1>1. Owners' = Owners
  BY DEF Owners, Cmds, loop_vars
<1> QED
  BY <1>1 DEF DataInv, Typed, Requests, InBuffers, loop_vars

LEMMA ReturnData ==
  ASSUME QueueAssumption, IInv, DataInv, Return
  PROVE  DataInv'
<1>1. /\ pc = "while" /\ ioc[current].num_running = 0 /\ current' = Nobody /\ called' = 0
      /\ buf' = [buf EXCEPT ![current] = NoBuf]
      /\ UNCHANGED <<t, ioc, flight, cq, releasing, mem, disk>>
  BY DEF Return
<1>2. t = << >> /\ current \in Ioc /\ Nobody # Async
  BY <1>1, NothingLeft DEF Nobody, Async
<1>3. buf' \in Bufs
  BY <1>1, <1>2 DEF DataInv, Typed, Bufs, NoBuf
<1>4. current # Async => buf'[Async] = buf[Async]
  BY <1>1, <1>2 DEF DataInv, Typed, Bufs, Ioc
<1>5. \A i \in DOMAIN ioc[Async].tasks :
        Fits(ioc[Async].tasks[i]) /\ Filled(ioc[Async].tasks[i], buf')
  <2> SUFFICES ASSUME NEW i \in DOMAIN ioc[Async].tasks
               PROVE  Fits(ioc[Async].tasks[i]) /\ Filled(ioc[Async].tasks[i], buf')
    OBVIOUS
  <2>1. current # Async
    BY DEF DataInv, Requests
  <2>2. ioc[Async].tasks[i].ioc = Async
    BY DEF IInv, Staged
  <2> QED
    BY <1>4, <2>1, <2>2 DEF DataInv, Requests, Filled
<1>6. Owners' = Owners
  BY <1>1 DEF Owners, Cmds
<1>7. DOMAIN t' = {} /\ current' # Async
  BY <1>1, <1>2
<1>8. Requests'
  BY <1>1, <1>5, <1>7 DEF Requests
<1>9. InBuffers'
  BY <1>1, <1>6 DEF DataInv, InBuffers
<1>10. Typed'
  BY <1>1, <1>3 DEF DataInv, Typed
<1> QED
  BY <1>8, <1>9, <1>10 DEF DataInv

(* What a command's buffers are, piece by piece.                             *)
LEMMA OwnerFacts ==
  ASSUME QueueAssumption, IInv, NEW x \in Owners
  PROVE  /\ x.task \in Task /\ x.task.slot \in Nat /\ x.task.len \in Nat /\ x.task.off \in Nat
         /\ DOMAIN x.segs = 1 .. x.task.len
         /\ \A i \in 1 .. x.task.len : x.segs[i] \in Used(x)
         /\ \A b \in Used(x) : \E i \in 1 .. x.task.len : x.segs[i] = b
         /\ Used(x) \subseteq Buf
<1>1. x \in Issued
  BY OwnersAreIssued
<1>2. x.task \in Task /\ x.segs \in Seq(Buf)
  BY <1>1 DEF Issued
<1>3. x.task.slot \in Nat /\ x.task.len \in Nat /\ x.task.off \in Nat
  BY <1>2 DEF Task, Slot, Lba, QueueAssumption
<1>4. Len(x.segs) = x.task.len
  BY DEF IInv, Owned, Partition
<1>5. DOMAIN x.segs = 1 .. x.task.len
  BY <1>2, <1>4
<1> QED
  BY <1>2, <1>3, <1>5 DEF Used

LEMMA IssueData ==
  ASSUME QueueAssumption, IInv, IInv', DataInv, Issue
  PROVE  DataInv'
<1>1. /\ pc = "issue" /\ t # << >> /\ t' = Tail(t)
      /\ ioc' = [ioc EXCEPT ![current].total_nseg = @ + Head(t).len]
      /\ UNCHANGED <<pc, current, cq, releasing, buf, called, disk>>
  BY DEF Issue
<1> DEFINE n == Head(t).len
<1>2. PICK segs \in Allocations(n) :
        /\ data_buf_list' = data_buf_list \ {segs[i] : i \in DOMAIN segs}
        /\ mem' = CopiedIn(Head(t), segs)
        /\ flight' = flight \cup {[task |-> Head(t), segs |-> segs]}
  BY DEF Issue
<1> DEFINE y == [task |-> Head(t), segs |-> segs]
<1>3. /\ Head(t) = t[1] /\ 1 \in DOMAIN t /\ Head(t) \in Task
      /\ \A i \in DOMAIN Tail(t) : i + 1 \in DOMAIN t /\ Tail(t)[i] = t[i + 1]
  BY <1>1 DEF IInv, Shape
<1>4. n \in Nat /\ Head(t).slot \in Nat /\ Head(t).ioc \in Ioc
  BY <1>3 DEF Task, Slot, QueueAssumption
<1>5. Fits(Head(t)) /\ Filled(Head(t), buf)
  BY <1>3 DEF DataInv, Requests
<1> HIDE DEF n
<1>6. /\ DOMAIN segs = 1 .. n /\ Elems(segs) \subseteq data_buf_list
      /\ segs \in Seq(Buf) /\ Len(segs) = n
  BY <1>2, <1>4, AllocationFacts DEF IInv, Shape
<1>7. y.task = Head(t) /\ Used(y) = Elems(segs) /\ flight' = flight \cup {y}
  BY <1>2 DEF Used, Elems
<1> DEFINE place(b) == CHOOSE i \in DOMAIN segs : segs[i] = b
<1>8. \A b \in Elems(segs) : place(b) \in 1 .. n
  BY <1>6 DEF Elems
<1>9. \A i \in 1 .. n : Head(t).slot + i - 1 \in Slot
  BY <1>4, <1>5 DEF Fits, Slot, n, QueueAssumption
<1>10. \A b \in Buf : mem'[b] = IF Head(t).cmd = "write" /\ b \in Elems(segs)
                                 THEN buf[Head(t).ioc][Head(t).slot + place(b) - 1] ELSE mem[b]
  BY <1>2 DEF CopiedIn, Elems
<1> HIDE DEF place, y
<1>11. mem' \in [Buf -> Data \cup {NoData, Hook}]
  <2>1. \A b \in Buf : mem'[b] \in Data \cup {NoData, Hook}
    BY <1>4, <1>8, <1>9, <1>10 DEF DataInv, Typed, Bufs
  <2>2. mem' = [b \in Buf |-> mem'[b]]
    BY <1>2 DEF CopiedIn
  <2> QED
    BY <2>1, <2>2
<1>12. Head(t).cmd = "write" => \A b \in Elems(segs) : mem'[b] \in Data
  <2> SUFFICES ASSUME Head(t).cmd = "write", NEW b \in Elems(segs) PROVE mem'[b] \in Data
    OBVIOUS
  <2>1. b \in Buf /\ place(b) \in 1 .. n
    BY <1>6, <1>8 DEF IInv, Shape
  <2>2. Head(t).slot + place(b) - 1 \in Slot
    BY <1>9, <2>1
  <2>3. Head(t).slot <= Head(t).slot + place(b) - 1
        /\ Head(t).slot + place(b) - 1 < Head(t).slot + Head(t).len
    BY <1>4, <2>1 DEF n
  <2>4. buf[Head(t).ioc][Head(t).slot + place(b) - 1] \in Data
    BY <1>5, <2>2, <2>3 DEF Filled
  <2> QED
    BY <1>10, <2>1, <2>4
<1>13. \A x \in Owners : \A b \in Used(x) : mem'[b] = mem[b]
  <2> SUFFICES ASSUME NEW x \in Owners, NEW b \in Used(x) PROVE mem'[b] = mem[b]
    OBVIOUS
  <2>1. b \in Buf /\ b \notin Elems(segs)
    BY <1>6, OwnerFacts DEF IInv, Owned, Partition
  <2> QED
    BY <1>10, <2>1
<1>14. InBuffers'
  <2>1. Owners' = Owners \cup {y} /\ flight \subseteq Owners /\ Elems(cq) \subseteq Owners
    BY <1>1, <1>7 DEF Owners, Cmds
  <2>2. \A x \in Owners' : Fits(x.task)
    BY <1>5, <1>7, <2>1 DEF DataInv, InBuffers
  <2>3. \A x \in flight' : x.task.cmd = "write" => \A b \in Used(x) : mem'[b] \in Data
    <3>1. \A x \in flight : x.task.cmd = "write" => \A b \in Used(x) : mem'[b] \in Data
      BY <1>13, <2>1 DEF DataInv, InBuffers
    <3> QED
      BY <1>7, <1>12, <3>1
  <2>4. \A x \in Elems(cq) : x.task.cmd = "read" => \A b \in Used(x) : mem'[b] \in Data
    BY <1>13, <2>1 DEF DataInv, InBuffers
  <2> QED
    BY <1>1, <2>2, <2>3, <2>4 DEF InBuffers
<1>15. ioc'[Async].tasks = ioc[Async].tasks
  BY <1>1 DEF IInv, Shape, IocRecord, Ioc
<1>16. Requests'
  <2>1. \A i \in DOMAIN t' : Fits(t'[i]) /\ Filled(t'[i], buf')
    BY <1>1, <1>3 DEF DataInv, Requests
  <2> QED
    BY <1>1, <1>15, <2>1 DEF DataInv, Requests
<1>17. Typed'
  BY <1>1, <1>11 DEF DataInv, Typed
<1> QED
  BY <1>14, <1>16, <1>17 DEF DataInv

(* fill_cb delivers data to the caller, never the hook of the free list.     *)
LEMMA CopiedOutFacts ==
  ASSUME QueueAssumption, IInv, DataInv, NEW x \in Elems(cq), x.task.cmd = "read"
  PROVE  /\ CopiedOut(x) \in Bufs
         /\ \A task \in Task : Filled(task, buf) => Filled(task, CopiedOut(x))
<1> DEFINE g == CopiedOut(x)
           c == x.task.ioc
           new(s) == s \in x.task.slot .. x.task.slot + x.task.len - 1
           got(s) == mem[x.segs[s - x.task.slot + 1]]
<1>1. x \in Owners
  BY DEF Owners, Cmds
<1>2. /\ x.task \in Task /\ x.task.slot \in Nat /\ x.task.len \in Nat
      /\ \A i \in 1 .. x.task.len : x.segs[i] \in Used(x)
  BY <1>1, OwnerFacts
<1>3. c \in Ioc
  BY <1>2 DEF Task
<1>4. \A s \in Slot : new(s) => got(s) \in Data
  <2> SUFFICES ASSUME NEW s \in Slot, new(s) PROVE got(s) \in Data
    OBVIOUS
  <2>1. s - x.task.slot + 1 \in 1 .. x.task.len
    <3>1. s \in Nat /\ s \in x.task.slot .. x.task.slot + x.task.len - 1
      BY DEF Slot, QueueAssumption
    <3> HIDE DEF new, got, c
    <3> QED
      BY <1>2, <3>1
  <2>2. x.segs[s - x.task.slot + 1] \in Used(x)
    BY <1>2, <2>1
  <2> QED
    BY <2>2 DEF DataInv, InBuffers
<1>5. buf \in [Ioc -> [Slot -> Data \cup {NoData}]]
  BY DEF DataInv, Typed, Bufs
<1>6. g = [buf EXCEPT ![c] = [s \in Slot |-> IF new(s) THEN got(s) ELSE buf[c][s]]]
  BY <1>3, <1>5 DEF CopiedOut
<1> HIDE DEF got, new, c
<1>7. /\ \A s \in Slot : g[c][s] = IF new(s) THEN got(s) ELSE buf[c][s]
      /\ \A d \in Ioc : d # c => g[d] = buf[d]
  BY <1>3, <1>5, <1>6
<1>8. g \in Bufs
  BY <1>3, <1>4, <1>5, <1>6 DEF Bufs
<1> HIDE DEF g
<1>9. \A d \in Ioc, s \in Slot : buf[d][s] \in Data => g[d][s] \in Data
  BY <1>4, <1>7
<1>10. \A task \in Task : task.ioc \in Ioc
  BY DEF Task
<1>11. \A task \in Task : Filled(task, buf) => Filled(task, g)
  BY <1>9, <1>10 DEF Filled
<1> QED
  BY <1>8, <1>11 DEF g

(* A command gives its buffers back: the hook lies over them, and over no    *)
(* buffer of another command.                                                *)
LEMMA GiveBackData ==
  ASSUME QueueAssumption, IInv, DataInv, NEW x \in Owners, Owners' \subseteq Owners \ {x},
         mem' = [b \in Buf |-> IF b \in Used(x) THEN Hook ELSE mem[b]],
         ioc'[Async].tasks = ioc[Async].tasks,
         flight' = flight, Elems(cq') \subseteq Elems(cq), x \notin flight, x \notin Elems(cq'),
         UNCHANGED <<current, t, disk>>, called' \in Nat, buf' \in Bufs,
         \A task \in Task : Filled(task, buf) => Filled(task, buf')
  PROVE  DataInv'
<1>1. mem' \in [Buf -> Data \cup {NoData, Hook}]
  BY DEF DataInv, Typed
<1>2. Typed'
  BY <1>1 DEF DataInv, Typed
<1>3. Requests'
  <2>1. t \in Seq(Task) /\ ioc[Async].tasks \in Seq(Task)
    BY DEF IInv, Shape, IocRecord, Ioc
  <2>2. \A i \in DOMAIN t : Fits(t[i]) /\ Filled(t[i], buf')
    BY <2>1 DEF DataInv, Requests
  <2>3. \A i \in DOMAIN ioc[Async].tasks :
          Fits(ioc[Async].tasks[i]) /\ Filled(ioc[Async].tasks[i], buf')
    BY <2>1 DEF DataInv, Requests
  <2> QED
    BY <2>2, <2>3 DEF DataInv, Requests
<1>4. \A y \in Owners \ {x} : \A b \in Used(y) : mem'[b] = mem[b]
  <2> SUFFICES ASSUME NEW y \in Owners, y # x, NEW b \in Used(y) PROVE mem'[b] = mem[b]
    OBVIOUS
  <2>1. Used(y) \cap Used(x) = {}
    BY DEF IInv, Owned, Partition
  <2>2. b \in Buf
    BY OwnerFacts
  <2> QED
    BY <2>1, <2>2
<1>5. InBuffers'
  <2>1. flight \subseteq Owners /\ Elems(cq') \subseteq Owners
    BY DEF Owners, Cmds
  <2>2. \A y \in Owners' : Fits(y.task)
    BY DEF DataInv, InBuffers
  <2>3. \A y \in flight : y.task.cmd = "write" => \A b \in Used(y) : mem'[b] \in Data
    BY <1>4, <2>1 DEF DataInv, InBuffers
  <2>4. \A y \in Elems(cq') : y.task.cmd = "read" => \A b \in Used(y) : mem'[b] \in Data
    BY <1>4, <2>1 DEF DataInv, InBuffers
  <2> QED
    BY <2>2, <2>3, <2>4 DEF InBuffers
<1> QED
  BY <1>2, <1>3, <1>5 DEF DataInv

LEMMA FinishedTasks ==
  ASSUME IInv, NEW c \in Ioc, NEW n
  PROVE  Finished(c, n).tasks = ioc[c].tasks
<1> DEFINE r == ioc[c]
<1>1. r \in IocRecord
  BY DEF IInv, Shape
<1> HIDE DEF r
<1>2. [r EXCEPT !.num_running = @ - 1, !.total_nseg = @ - n,
                !.alive = ~ (CallbackDestroys /\ LastOne(c))].tasks = r.tasks
  BY <1>1 DEF IocRecord
<1> QED
  BY <1>2 DEF Finished, r

LEMMA AioReadCompletesData ==
  ASSUME QueueAssumption, IInv, IInv', DataInv, io_complete_aio_read
  PROVE  DataInv'
<1>1. PICK x : /\ Completing(x, "read")
               /\ buf' = CopiedOut(x) /\ release_segs(x)
               /\ ioc' = [ioc EXCEPT ![x.task.ioc] = Finished(x.task.ioc, Len(x.segs))]
               /\ called' = called_after(x.task.ioc)
               /\ UNCHANGED <<pc, primary, releasing>>
  BY DEF io_complete_aio_read
<1>2. /\ x.task.ioc = current /\ current \in Ioc /\ Cmds' = Cmds \ {x} /\ Owners = Cmds
      /\ x \in Owners /\ releasing = {} /\ x.task.cmd = "read"
      /\ UNCHANGED <<current, t, flight>>
  BY <1>1, CompletingFacts
<1>3. /\ x \in Elems(cq) /\ x \notin flight /\ Elems(cq') = Elems(cq) \ {x} /\ UNCHANGED disk
  <2>1. cq \in Seq(Issued) /\ Distinct(cq) /\ Elems(cq) \cap flight = {}
    BY DEF IInv, Shape, Owned
  <2>2. cq # << >> /\ x = Head(cq) /\ cq' = Tail(cq) /\ UNCHANGED disk
    BY <1>1 DEF Completing
  <2>3. x \in Elems(cq) /\ Elems(cq') = Elems(cq) \ {x}
    BY <2>1, <2>2, TailElems
  <2> QED
    BY <2>1, <2>2, <2>3
<1>4. Owners' \subseteq Owners \ {x}
  BY <1>1, <1>2 DEF Owners
<1>5. ioc'[Async].tasks = ioc[Async].tasks
  <2>1. Finished(current, Len(x.segs)).tasks = ioc[current].tasks
    BY <1>2, FinishedTasks
  <2> QED
    BY <1>1, <1>2, <2>1 DEF IInv, Shape, Ioc
<1>6. called' \in Nat
  BY <1>1 DEF called_after, DataInv, Typed
<1>7. buf' \in Bufs /\ \A task \in Task : Filled(task, buf) => Filled(task, buf')
  BY <1>1, <1>2, <1>3, CopiedOutFacts
<1>8. mem' = [b \in Buf |-> IF b \in Used(x) THEN Hook ELSE mem[b]]
  BY <1>1 DEF release_segs
<1> QED
  BY <1>2, <1>3, <1>4, <1>5, <1>6, <1>7, <1>8, GiveBackData

LEMMA SyncReadCompletesData ==
  ASSUME QueueAssumption, IInv, IInv', DataInv, io_complete_read
  PROVE  DataInv'
<1>1. PICK x : /\ Completing(x, "read")
               /\ buf' = CopiedOut(x) /\ release_segs(x)
               /\ ioc' = [ioc EXCEPT ![x.task.ioc].num_running = @ - 1,
                                     ![x.task.ioc].total_nseg = @ - Len(x.segs)]
               /\ UNCHANGED <<pc, releasing, called>>
  BY DEF io_complete_read
<1>2. /\ x.task.ioc = current /\ current \in Ioc /\ Cmds' = Cmds \ {x} /\ Owners = Cmds
      /\ x \in Owners /\ releasing = {} /\ x.task.cmd = "read"
      /\ UNCHANGED <<current, t, flight>>
  BY <1>1, CompletingFacts
<1>3. /\ x \in Elems(cq) /\ x \notin flight /\ Elems(cq') = Elems(cq) \ {x} /\ UNCHANGED disk
  <2>1. cq \in Seq(Issued) /\ Distinct(cq) /\ Elems(cq) \cap flight = {}
    BY DEF IInv, Shape, Owned
  <2>2. cq # << >> /\ x = Head(cq) /\ cq' = Tail(cq) /\ UNCHANGED disk
    BY <1>1 DEF Completing
  <2>3. x \in Elems(cq) /\ Elems(cq') = Elems(cq) \ {x}
    BY <2>1, <2>2, TailElems
  <2> QED
    BY <2>1, <2>2, <2>3
<1>4. Owners' \subseteq Owners \ {x}
  BY <1>1, <1>2 DEF Owners
<1>5. ioc'[Async].tasks = ioc[Async].tasks
  BY <1>1, <1>2 DEF IInv, Shape, IocRecord, Ioc
<1>6. called' \in Nat
  BY <1>1 DEF DataInv, Typed
<1>7. buf' \in Bufs /\ \A task \in Task : Filled(task, buf) => Filled(task, buf')
  BY <1>1, <1>2, <1>3, CopiedOutFacts
<1>8. mem' = [b \in Buf |-> IF b \in Used(x) THEN Hook ELSE mem[b]]
  BY <1>1 DEF release_segs
<1> QED
  BY <1>2, <1>3, <1>4, <1>5, <1>6, <1>7, <1>8, GiveBackData

LEMMA WriteCompletesData ==
  ASSUME QueueAssumption, IInv, DataInv, io_complete_write
  PROVE  DataInv'
<1>1. PICK x : /\ Completing(x, "write")
               /\ ioc' = [ioc EXCEPT ![x.task.ioc] = Finished(x.task.ioc, 0)]
               /\ called' = called_after(x.task.ioc)
               /\ releasing' = {x}
               /\ UNCHANGED <<mem, buf>>
  BY DEF io_complete_write
<1>2. /\ x.task.ioc = current /\ current \in Ioc /\ Cmds' = Cmds \ {x} /\ Owners = Cmds
      /\ x \in Owners
      /\ UNCHANGED <<current, t, flight>>
  BY <1>1, CompletingFacts
<1>3. Elems(cq') \subseteq Elems(cq) /\ UNCHANGED disk
  <2>1. cq \in Seq(Issued) /\ Distinct(cq)
    BY DEF IInv, Shape, Owned
  <2>2. cq # << >> /\ x = Head(cq) /\ cq' = Tail(cq) /\ UNCHANGED disk
    BY <1>1 DEF Completing
  <2> QED
    BY <2>1, <2>2, TailElems
<1>4. Owners' = Owners
  BY <1>1, <1>2 DEF Owners
<1>5. ioc'[Async].tasks = ioc[Async].tasks
  <2>1. Finished(current, 0).tasks = ioc[current].tasks
    BY <1>2, FinishedTasks
  <2> QED
    BY <1>1, <1>2, <2>1 DEF IInv, Shape, Ioc
<1>6. called' \in Nat
  BY <1>1 DEF called_after, DataInv, Typed
<1>7. Requests'
  BY <1>1, <1>2, <1>5 DEF DataInv, Requests
<1>8. InBuffers'
  BY <1>1, <1>2, <1>3, <1>4 DEF DataInv, InBuffers
<1>9. Typed'
  BY <1>1, <1>3, <1>6 DEF DataInv, Typed
<1> QED
  BY <1>7, <1>8, <1>9 DEF DataInv

LEMMA ReleaseData ==
  ASSUME QueueAssumption, IInv, DataInv, ReleaseWrite
  PROVE  DataInv'
<1>1. PICK x \in releasing :
        /\ release_segs(x) /\ releasing' = {}
        /\ ioc' = [ioc EXCEPT ![x.task.ioc].total_nseg = @ - Len(x.segs)]
        /\ UNCHANGED <<current, t, flight, cq, buf, called, disk>>
  BY DEF ReleaseWrite
<1>2. releasing = {x} /\ x \in Owners /\ x \notin Cmds
  BY <1>1 DEF IInv, Phase, Owned, Owners
<1>3. Owners' \subseteq Owners \ {x} /\ x \notin flight /\ x \notin Elems(cq')
  BY <1>1, <1>2 DEF Owners, Cmds
<1>4. ioc'[Async].tasks = ioc[Async].tasks
  BY <1>1 DEF IInv, Shape, IocRecord, Ioc
<1>5. mem' = [b \in Buf |-> IF b \in Used(x) THEN Hook ELSE mem[b]]
  BY <1>1 DEF release_segs
<1>6. /\ Elems(cq') \subseteq Elems(cq) /\ called' \in Nat /\ buf' \in Bufs
      /\ \A task \in Task : Filled(task, buf) => Filled(task, buf')
  BY <1>1 DEF DataInv, Typed
<1> QED
  BY <1>1, <1>2, <1>3, <1>4, <1>5, <1>6, GiveBackData

----------------------------------------------------------------------------
(* The controller writes what the buffers hold, and reads into them.         *)
LEMMA ExecuteData ==
  ASSUME QueueAssumption, IInv, DataInv, NEW x \in flight, Execute(x)
  PROVE  DataInv'
<1> DEFINE blocks == x.task.off .. x.task.off + x.task.len - 1
           seg(l) == x.segs[l - x.task.off + 1]
<1>1. /\ flight' = flight \ {x} /\ cq' = Append(cq, x)
      /\ UNCHANGED <<pc, current, t, ioc, releasing, data_buf_list, buf, called>>
  BY DEF Execute
<1>2. x \in Owners /\ flight \subseteq Owners /\ Elems(cq) \subseteq Owners
  BY DEF Owners, Cmds
<1>3. /\ x.task \in Task /\ x.task.off \in Nat /\ x.task.len \in Nat
      /\ \A i \in 1 .. x.task.len : x.segs[i] \in Used(x)
      /\ \A b \in Used(x) : \E i \in 1 .. x.task.len : x.segs[i] = b
      /\ Used(x) \subseteq Buf
  BY <1>2, OwnerFacts
<1>4. /\ Elems(cq') = Elems(cq) \cup {x} /\ Owners' = Owners
  <2>1. /\ x \in Issued /\ cq \in Seq(Issued) /\ Distinct(cq) /\ x \notin Elems(cq)
    BY DEF IInv, Shape, Owned
  <2>2. Elems(cq') = Elems(cq) \cup {x}
    BY <1>1, <2>1, AppendElems
  <2> QED
    BY <1>1, <2>2 DEF Cmds, Owners
<1>5. x.task.off + x.task.len <= Size
  BY <1>2 DEF DataInv, InBuffers, Fits
<1>6. \A l \in blocks : l \in Lba /\ l - x.task.off + 1 \in 1 .. x.task.len
  <2> SUFFICES ASSUME NEW l \in blocks
               PROVE  l \in Lba /\ l - x.task.off + 1 \in 1 .. x.task.len
    OBVIOUS
  <2>1. l \in Nat /\ x.task.off <= l /\ l < x.task.off + x.task.len
    BY <1>3
  <2>2. l < Size /\ Size \in Nat
    BY <1>3, <1>5, <2>1 DEF QueueAssumption
  <2>3. l \in Lba
    BY <2>1, <2>2 DEF Lba
  <2>4. x.task.len \in Nat /\ x.task.off \in Nat
    BY <1>3
  <2> QED
    BY <2>1, <2>3, <2>4
<1>7. \A l \in blocks : seg(l) \in Used(x)
  BY <1>3, <1>6
<1>8. \A b \in Used(x) : \E l \in blocks : seg(l) = b
  <2> SUFFICES ASSUME NEW b \in Used(x) PROVE \E l \in blocks : seg(l) = b
    OBVIOUS
  <2>1. PICK i \in 1 .. x.task.len : x.segs[i] = b
    BY <1>3
  <2>2. x.task.off + i - 1 \in blocks /\ (x.task.off + i - 1) - x.task.off + 1 = i
    BY <1>3
  <2> QED
    BY <2>1, <2>2
<1>9. mem \in [Buf -> Data \cup {NoData, Hook}] /\ disk \in [Lba -> Data]
  BY DEF DataInv, Typed
<1>10. CASE x.task.cmd = "write"
  <2>1. /\ disk' = [l \in Lba |-> IF l \in blocks THEN mem[seg(l)] ELSE disk[l]]
        /\ UNCHANGED mem
    BY <1>10 DEF Execute
  <2>2. \A b \in Used(x) : mem[b] \in Data
    BY <1>10 DEF DataInv, InBuffers
  <2> HIDE DEF blocks, seg
  <2>3. disk' \in [Lba -> Data]
    BY <1>7, <1>9, <2>1, <2>2
  <2>4. Typed'
    BY <1>1, <2>1, <2>3 DEF DataInv, Typed
  <2>5. InBuffers'
    <3>1. x.task.cmd # "read"
      BY <1>10
    <3> QED
      BY <1>1, <1>4, <2>1, <3>1 DEF DataInv, InBuffers
  <2>6. Requests'
    BY <1>1 DEF DataInv, Requests
  <2> QED
    BY <2>4, <2>5, <2>6 DEF DataInv
<1>11. CASE x.task.cmd = "read"
  <2>1. /\ mem' = [b \in Buf |-> IF \E l \in blocks : seg(l) = b
                                   THEN disk[CHOOSE l \in blocks : seg(l) = b] ELSE mem[b]]
        /\ UNCHANGED disk
    BY <1>11 DEF Execute
  <2> DEFINE from(b) == CHOOSE l \in blocks : seg(l) = b
             hit(b) == \E l \in blocks : seg(l) = b
  <2>2. \A b \in Buf : hit(b) => from(b) \in Lba
    BY <1>6
  <2>3. /\ mem' = [b \in Buf |-> IF hit(b) THEN disk[from(b)] ELSE mem[b]]
        /\ \A b \in Used(x) : hit(b)
        /\ \A b \in Buf : hit(b) => b \in Used(x)
    BY <1>7, <1>8, <2>1
  <2> HIDE DEF blocks, seg, from, hit
  <2>4. mem' \in [Buf -> Data \cup {NoData, Hook}]
    BY <1>9, <2>2, <2>3
  <2>5. \A b \in Used(x) : mem'[b] \in Data
    BY <1>3, <1>9, <2>2, <2>3
  <2>6. \A y \in Owners \ {x} : \A b \in Used(y) : mem'[b] = mem[b]
    <3> SUFFICES ASSUME NEW y \in Owners, y # x, NEW b \in Used(y) PROVE mem'[b] = mem[b]
      OBVIOUS
    <3>1. Used(y) \cap Used(x) = {}
      BY <1>2 DEF IInv, Owned, Partition
    <3>2. b \in Buf /\ ~ hit(b)
      BY <2>3, <3>1, OwnerFacts
    <3> QED
      BY <2>3, <3>2
  <2>7. Typed'
    BY <1>1, <2>1, <2>4 DEF DataInv, Typed
  <2>8. InBuffers'
    <3>1. \A y \in Owners' : Fits(y.task)
      BY <1>4 DEF DataInv, InBuffers
    <3>2. \A y \in flight' : y.task.cmd = "write" => \A b \in Used(y) : mem'[b] \in Data
      BY <1>1, <1>2, <2>6 DEF DataInv, InBuffers
    <3>3. \A y \in Elems(cq') : y.task.cmd = "read" => \A b \in Used(y) : mem'[b] \in Data
      BY <1>2, <1>4, <2>5, <2>6 DEF DataInv, InBuffers
    <3> QED
      BY <3>1, <3>2, <3>3 DEF InBuffers
  <2>9. Requests'
    BY <1>1 DEF DataInv, Requests
  <2> QED
    BY <2>7, <2>8, <2>9 DEF DataInv
<1> QED
  BY <1>3, <1>10, <1>11 DEF Task

LEMMA FreshData ==
  ASSUME Fresh, mem = [b \in Buf |-> Hook], buf = [c \in Ioc |-> NoBuf], called = 0,
         disk \in [Lba -> Data]
  PROVE  DataInv
<1>1. Typed
  BY DEF Typed, Bufs, NoBuf
<1>2. Owners = {} /\ flight = {} /\ Elems(cq) = {}
  BY EmptyElems DEF Fresh, Owners, Cmds
<1>3. InBuffers
  BY <1>2 DEF InBuffers
<1>4. ioc[Async].tasks = << >> /\ t = << >>
  <2>1. PICK p \in BOOLEAN : ioc = [c \in Ioc |-> NewIoc(c = Async /\ p)]
    BY DEF Fresh
  <2> QED
    BY <2>1 DEF Fresh, NewIoc, Ioc
<1>5. Requests
  BY <1>4 DEF Requests
<1> QED
  BY <1>1, <1>3, <1>5 DEF DataInv

LEMMA RestartData ==
  ASSUME DataInv, Restart
  PROVE  DataInv'
<1>1. Fresh' /\ mem' = [b \in Buf |-> Hook] /\ buf' = [c \in Ioc |-> NoBuf] /\ called' = 0
      /\ disk' \in [Lba -> Data]
  BY DEF Restart, Fresh, DataInv, Typed
<1>2. Typed'
  BY <1>1 DEF Typed, Bufs, NoBuf
<1>3. Owners' = {} /\ flight' = {} /\ Elems(cq') = {}
  BY <1>1, EmptyElems DEF Fresh, Owners, Cmds
<1>4. InBuffers'
  BY <1>3 DEF InBuffers
<1>5. ioc'[Async].tasks = << >> /\ t' = << >>
  <2>1. PICK p \in BOOLEAN : ioc' = [c \in Ioc |-> NewIoc(c = Async /\ p)]
    BY DEF Restart
  <2> QED
    BY <1>1, <2>1 DEF Fresh, NewIoc, Ioc
<1>6. Requests'
  BY <1>5 DEF Requests
<1> QED
  BY <1>2, <1>4, <1>6 DEF DataInv

LEMMA DataNext ==
  ASSUME IInv, IInv', DataInv, [Next]_vars
  PROVE  DataInv'
<1> USE QueueAssumption
<1>1. CASE UNCHANGED vars
  BY <1>1, LoopData DEF vars, loop_vars
<1>2. ASSUME NEW off \in Lba, NEW f \in Contents, write(off, f) \/ aio_write(off, f)
      PROVE  DataInv'
  BY <1>2, WriteData, AioWriteData
<1>3. ASSUME NEW off \in Lba, NEW len \in 1 .. Slots, read(off, len) \/ aio_read(off, len)
      PROVE  DataInv'
  BY <1>3, ReadData, AioReadData
<1>4. CASE Submit \/ NewIOContext
  BY <1>4, SubmitPendingData, NewIOContextData
<1>5. CASE While \/ Again \/ Processed \/ GotoAgain \/ AllIssued \/ Abort
  <2>1. UNCHANGED loop_vars
    BY <1>5 DEF While, Again, Processed, GotoAgain, AllIssued, Abort
  <2> QED
    BY <2>1, LoopData
<1>6. CASE Return \/ Issue
  BY <1>6, ReturnData, IssueData
<1>7. CASE io_complete_write \/ ReleaseWrite
  BY <1>7, WriteCompletesData, ReleaseData
<1>8. CASE io_complete_aio_read \/ io_complete_read
  BY <1>8, AioReadCompletesData, SyncReadCompletesData
<1>9. CASE Controller
  BY <1>9, ExecuteData DEF Controller
<1>10. CASE Restart
  BY <1>10, RestartData
<1> QED
  BY <1>1, <1>2, <1>3, <1>4, <1>5, <1>6, <1>7, <1>8, <1>9, <1>10 DEF Next, Caller, Thread

(* Every variable keeps its type.  In particular the hook of the free list,  *)
(* which lies in the DMA buffer itself, never reaches the device or a        *)
(* caller's buffer: release_segs comes after fill_cb, and no buffer of an     *)
(* outstanding command is ever on the list.                                  *)
THEOREM TypeCorrect == Spec => []TypeOK
<1>1. Init => DataInv
  BY FreshData DEF Init, Fresh
<1>2. IInv /\ IInv' /\ DataInv /\ [Next]_vars => DataInv'
  BY DataNext
<1>3. IInv /\ DataInv => TypeOK
  BY DEF IInv, Shape, IocRecord, DataInv, Typed, Bufs, TypeOK
<1> QED
  BY <1>1, <1>2, <1>3, Transfers, PTL DEF Spec
=============================================================================

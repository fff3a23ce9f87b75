----------------------------- MODULE NvmeQueue -----------------------------
(***************************************************************************)
(* The SPDK I/O path of one thread: NVMEDevice::read, write, aio_read,     *)
(* aio_write and aio_submit (src/src/blk/spdk/nvme_device.cpp), the        *)
(* thread's SharedDriverQueueData with its pool of DMA buffers and its     *)
(* polling loop _aio_handle (driver_queue.cpp), and the Task (task.hpp).   *)
(* The NVMe controller is the process around it: it executes the commands  *)
(* of the queue pair in any order and completes them.                      *)
(*                                                                         *)
(* The unit of length is one DMA buffer (data_buffer_size, 8 KiB), a block *)
(* of the device and a piece of a caller's buffer at once; SplitSegs is    *)
(* split_size in that unit.  Offsets inside a buffer are not modelled.     *)
(***************************************************************************)
EXTENDS Naturals, Sequences, FiniteSets

CONSTANTS
  Buf,              \* the DMA buffers of data_buf_list (data_buffer_default_num)
  Size,             \* blocks of the namespace
  Slots,            \* pieces of a caller's buffer, per IOContext
  Data,             \* what a block may hold
  Contents,         \* what callers write: sequences of blocks
  SplitSegs,        \* split_size, in DMA buffers
  MaxQueueDepth,    \* max_queue_depth
  CallbackDestroys  \* may the callback destroy the IOContext, as io_complete says

ASSUME QueueAssumption ==
  /\ {Size, Slots, SplitSegs, MaxQueueDepth} \subseteq Nat \ {0}
  /\ IsFiniteSet(Buf)
  /\ Contents \subseteq Seq(Data) \ {<< >>} /\ \A f \in Contents : Len(f) <= Slots
  /\ SplitSegs <= Cardinality(Buf)
  /\ CallbackDestroys \in BOOLEAN

Sync == "sync"      \* the IOContext on the stack of read() and write()
Async == "async"    \* the IOContext of the caller of aio_read / aio_write
Ioc == {Sync, Async}
Nobody == "nobody"
NoData == "nodata"  \* a piece of a caller's buffer never written
Hook == "hook"      \* a free DMA buffer: the list hook lies over its content

Lba == 0 .. Size - 1
Slot == 0 .. Slots - 1

Task == [ioc : Ioc, cmd : {"write", "read"}, off : Lba, len : 1 .. SplitSegs,
         slot : Slot, return_code : {0, 1}, sub : BOOLEAN]
Issued == [task : Task, segs : Seq(Buf)]

VARIABLES
  pc,                   \* where the thread is
  current,              \* the IOContext _aio_handle works for
  t,                    \* the tasks it has not issued yet (the list from t on)
  ioc,                  \* the IOContexts
  primary,              \* return_code and ref of the Task of a read()
  flight,               \* commands the controller has not executed
  cq,                   \* executed, completion not processed
  releasing,            \* the task whose callback is over and whose segs are not
  data_buf_list,        \* the free DMA buffers
  mem,                  \* the content of every DMA buffer
  current_queue_depth,
  buf,                  \* the callers' buffers
  called,               \* calls of the completion callback for this batch
  disk                  \* the namespace

vars == <<pc, current, t, ioc, primary, flight, cq, releasing, data_buf_list, mem,
          current_queue_depth, buf, called, disk>>

----------------------------------------------------------------------------
(* Pure parts of the code.                                                  *)

(* write_split and make_read_tasks cut a request into tasks of at most       *)
(* split_size; only a read of more than split_size has subtasks.            *)
Split(c, cmd, off, len, slot, rc) ==
  [i \in 1 .. (len + SplitSegs - 1) \div SplitSegs |->
     LET begin == (i - 1) * SplitSegs
     IN  [ioc |-> c, cmd |-> cmd, off |-> off + begin,
          len |-> IF len - begin < SplitSegs THEN len - begin ELSE SplitSegs,
          slot |-> slot + begin, return_code |-> rc,
          sub |-> rc # 0 /\ len > SplitSegs]]

(* alloc_buf_from_pool: len buffers off the free list.                      *)
Allocations(n) ==
  {s \in [1 .. n -> data_buf_list] : \A i, j \in 1 .. n : s[i] = s[j] => i = j}

Used(x) == {x.segs[i] : i \in DOMAIN x.segs}

(* alloc_buf_from_pool(t, true) copies the caller's data into the buffers.  *)
CopiedIn(task, segs) ==
  [b \in Buf |-> IF task.cmd = "write" /\ \E i \in DOMAIN segs : segs[i] = b
                   THEN buf[task.ioc][task.slot + (CHOOSE i \in DOMAIN segs : segs[i] = b) - 1]
                   ELSE mem[b]]

(* Variant: release_segs before fill_cb.                                    *)
CopiedAfterRelease(x) ==
  [buf EXCEPT ![x.task.ioc] = [s \in Slot |->
     IF s \in x.task.slot .. x.task.slot + x.task.len - 1 THEN Hook ELSE @[s]]]

(* Task::copy_to_buf, through fill_cb.                                      *)
CopiedOut(x) ==
  [buf EXCEPT ![x.task.ioc] = [s \in Slot |->
     IF s \in x.task.slot .. x.task.slot + x.task.len - 1
       THEN mem[x.segs[s - x.task.slot + 1]] ELSE @[s]]]

(* Variant: only the first buffer goes back.                                *)
ReleaseFirst(x) ==
  /\ data_buf_list' = data_buf_list \cup {x.segs[1]}
  /\ mem' = [mem EXCEPT ![x.segs[1]] = Hook]

(* Task::release_segs.                                                      *)
release_segs(x) ==
  /\ data_buf_list' = data_buf_list \cup Used(x)
  /\ mem' = [b \in Buf |-> IF b \in Used(x) THEN Hook ELSE mem[b]]

LastOne(c) == ioc[c].priv /\ ioc[c].num_running = 1

(* Variant: the segments of the command stay counted.                        *)
FinishedStillCounted(c, segs) ==
  [ioc[c] EXCEPT !.num_running = @ - 1,
                 !.alive = ~ (CallbackDestroys /\ LastOne(c))]

(* One command of c less (--num_running, or try_aio_wake when c has no priv); *)
(* with priv, the last one calls aio_callback, whose owner may destroy c.    *)
Finished(c, segs) ==
  [ioc[c] EXCEPT !.num_running = @ - 1,
                 !.total_nseg = @ - segs,
                 !.alive = ~ (CallbackDestroys /\ LastOne(c))]

called_after(c) == IF LastOne(c) THEN called + 1 ELSE called

NewIoc(p) == [alive |-> TRUE, priv |-> p, tasks |-> << >>,
              num_pending |-> 0, num_running |-> 0, total_nseg |-> 0]

NoBuf == [s \in Slot |-> NoData]

----------------------------------------------------------------------------
(* The constructor of SharedDriverQueueData: every buffer free.              *)
Init ==
  /\ pc = "idle" /\ current = Nobody /\ t = << >>
  /\ \E p \in BOOLEAN : ioc = [c \in Ioc |-> NewIoc(c = Async /\ p)]
  /\ primary = [return_code |-> 0, ref |-> 0]
  /\ flight = {} /\ cq = << >> /\ releasing = {}
  /\ data_buf_list = Buf
  /\ mem = [b \in Buf |-> Hook]
  /\ current_queue_depth = 0
  /\ buf = [c \in Ioc |-> NoBuf]
  /\ called = 0
  /\ disk \in [Lba -> Data]

----------------------------------------------------------------------------
(* The caller.  A request is valid when it lies inside the namespace         *)
(* (is_valid_io); a write brings the content of its buffer.                  *)
valid_io(off, len) == off + len <= Size

BufWith(c, slot, f) ==
  [buf EXCEPT ![c] = [s \in Slot |->
     IF s \in slot .. slot + Len(f) - 1 THEN f[s - slot + 1] ELSE @[s]]]

(* aio_submit moves the pending tasks of c to the queue and polls until they *)
(* are done.                                                                 *)
aio_submit(c, tasks) ==
  /\ ioc' = [ioc EXCEPT ![c].tasks = << >>, ![c].num_pending = 0,
                        ![c].num_running = @ + Len(tasks)]
  /\ t' = tasks
  /\ current' = c
  /\ called' = 0
  /\ pc' = "while"
  /\ UNCHANGED <<flight, cq, releasing, data_buf_list, mem, current_queue_depth, disk>>

write(off, f) ==
  /\ pc = "idle" /\ valid_io(off, Len(f))
  /\ buf' = BufWith(Sync, 0, f)
  /\ primary' = [return_code |-> 0, ref |-> 0]
  /\ aio_submit(Sync, Split(Sync, "write", off, Len(f), 0, 0))

(* A read of at most split_size is one task, the Task t of read() itself;    *)
(* a longer one counts its subtasks in t.ref.                                *)
read(off, len) ==
  /\ pc = "idle" /\ valid_io(off, len)
  /\ LET tasks == Split(Sync, "read", off, len, 0, 1)
     IN  /\ primary' = [return_code |-> 1,
                        ref |-> IF len > SplitSegs THEN Len(tasks) ELSE 0]
         /\ aio_submit(Sync, tasks)
  /\ UNCHANGED buf

(* ioc_append_task for each task of the request.                             *)
Append_tasks(tasks) ==
  /\ ioc' = [ioc EXCEPT ![Async].tasks = @ \o tasks,
                        ![Async].num_pending = @ + Len(tasks)]
  /\ UNCHANGED <<pc, current, t, primary, flight, cq, releasing, data_buf_list, mem,
                 current_queue_depth, called, disk>>

(* The first piece of the caller's buffer no pending task uses.              *)
NextSlot ==
  LET q == ioc[Async].tasks
  IN  IF q = << >> THEN 0 ELSE q[Len(q)].slot + q[Len(q)].len

aio_write(off, f) ==
  /\ pc = "idle" /\ valid_io(off, Len(f)) /\ NextSlot + Len(f) <= Slots
  /\ buf' = BufWith(Async, NextSlot, f)
  /\ Append_tasks(Split(Async, "write", off, Len(f), NextSlot, 0))

aio_read(off, len) ==
  /\ pc = "idle" /\ valid_io(off, len) /\ NextSlot + len <= Slots
  /\ Append_tasks(Split(Async, "read", off, len, NextSlot, 0))
  /\ UNCHANGED buf

Submit ==
  /\ pc = "idle" /\ ioc[Async].num_pending > 0
  /\ aio_submit(Async, ioc[Async].tasks)
  /\ UNCHANGED <<primary, buf>>

(* The caller makes a new IOContext, with or without a priv for the callback. *)
NewIOContext ==
  /\ pc = "idle" /\ ioc[Async].num_pending = 0
  /\ \E p \in BOOLEAN : ioc' = [ioc EXCEPT ![Async] = NewIoc(p)]
  /\ UNCHANGED <<pc, current, t, primary, flight, cq, releasing, data_buf_list, mem,
                 current_queue_depth, buf, called, disk>>

----------------------------------------------------------------------------
(* _aio_handle.                                                              *)
loop_vars == <<current, t, ioc, primary, flight, cq, releasing, data_buf_list, mem,
               current_queue_depth, buf, called, disk>>

(* while (ioc->num_running) *)
While ==
  /\ pc = "while" /\ ioc[current].num_running > 0
  /\ pc' = "again"
  /\ UNCHANGED loop_vars

(* The loop is over: aio_submit, and the call that made it, come back; the   *)
(* caller takes its buffer.                                                  *)
Return ==
  /\ pc = "while" /\ ioc[current].num_running = 0
  /\ pc' = "idle"
  /\ current' = Nobody
  /\ buf' = [buf EXCEPT ![current] = NoBuf]
  /\ called' = 0
  /\ primary' = [return_code |-> 0, ref |-> 0]
  /\ UNCHANGED <<t, ioc, flight, cq, releasing, data_buf_list, mem,
                 current_queue_depth, disk>>

(* again: poll when something is in the queue.                               *)
Again ==
  /\ pc = "again"
  /\ pc' = IF current_queue_depth > 0 THEN "process" ELSE "issue"
  /\ UNCHANGED loop_vars

(* spdk_nvme_qpair_process_completions has called io_complete for all that   *)
(* was completed; with none it sleeps 5 us.                                  *)
Processed ==
  /\ pc = "process" /\ cq = << >>
  /\ pc' = "issue"
  /\ UNCHANGED loop_vars

(* Variant: one command too many.                                            *)
NoSlotTooLate == current_queue_depth > MaxQueueDepth

NoSlot == current_queue_depth = MaxQueueDepth
NoBufs == Head(t).len > Cardinality(data_buf_list)

(* Variant: try again without polling.                                       *)
RetryWithoutPoll ==
  /\ pc = "issue" /\ t # << >>
  /\ NoSlot \/ NoBufs
  /\ pc' = "issue"
  /\ UNCHANGED loop_vars

(* No slot left in the queue, or no buffer for the task: goto again.         *)
GotoAgain ==
  /\ pc = "issue" /\ t # << >>
  /\ NoSlot \/ NoBufs
  /\ pc' = "again"
  /\ UNCHANGED loop_vars

Issue ==
  /\ pc = "issue" /\ t # << >> /\ ~ NoSlot /\ ~ NoBufs
  /\ \E segs \in Allocations(Head(t).len) :
       /\ data_buf_list' = data_buf_list \ {segs[i] : i \in DOMAIN segs}
       /\ mem' = CopiedIn(Head(t), segs)
       /\ flight' = flight \cup {[task |-> Head(t), segs |-> segs]}
  /\ ioc' = [ioc EXCEPT ![current].total_nseg = @ + Head(t).len]
  /\ current_queue_depth' = current_queue_depth + 1
  /\ t' = Tail(t)
  /\ UNCHANGED <<pc, current, primary, cq, releasing, buf, called, disk>>

(* The end of the for loop.                                                  *)
AllIssued ==
  /\ pc = "issue" /\ t = << >>
  /\ pc' = "while"
  /\ UNCHANGED loop_vars

----------------------------------------------------------------------------
(* io_complete, called from the poll for each completed command in turn.     *)
Completing(x, cmd) ==
  /\ pc = "process" /\ cq # << >>
  /\ x = Head(cq) /\ x.task.cmd = cmd
  /\ cq' = Tail(cq)
  /\ current_queue_depth' = current_queue_depth - 1
  /\ UNCHANGED <<current, t, flight, disk>>

(* A write counts down and calls back first, ...                             *)
io_complete_write ==
  \E x \in {cq[i] : i \in DOMAIN cq} :
    /\ Completing(x, "write")
    /\ ioc' = [ioc EXCEPT ![x.task.ioc] = Finished(x.task.ioc, 0)]
    /\ called' = called_after(x.task.ioc)
    /\ releasing' = {x}
    /\ pc' = "release"
    /\ UNCHANGED <<primary, data_buf_list, mem, buf>>

(* ... and gives its buffers back after that.                                *)
ReleaseWrite ==
  \E x \in releasing :
    /\ pc = "release"
    /\ release_segs(x)
    /\ ioc' = [ioc EXCEPT ![x.task.ioc].total_nseg = @ - Len(x.segs)]
    /\ releasing' = {}
    /\ pc' = "process"
    /\ UNCHANGED <<current, t, primary, flight, cq, current_queue_depth, buf, called, disk>>

(* Variant: the buffers of a read are never given back.                      *)
AioReadKeepsBufs ==
  \E x \in {cq[i] : i \in DOMAIN cq} :
    /\ Completing(x, "read") /\ x.task.return_code = 0
    /\ buf' = CopiedOut(x)
    /\ ioc' = [ioc EXCEPT ![x.task.ioc] = Finished(x.task.ioc, Len(x.segs))]
    /\ called' = called_after(x.task.ioc)
    /\ UNCHANGED <<pc, primary, releasing, data_buf_list, mem>>

(* A read of an asynchronous batch: copy out, give back, count down, call.   *)
io_complete_aio_read ==
  \E x \in {cq[i] : i \in DOMAIN cq} :
    /\ Completing(x, "read") /\ x.task.return_code = 0
    /\ buf' = CopiedOut(x)
    /\ release_segs(x)
    /\ ioc' = [ioc EXCEPT ![x.task.ioc] = Finished(x.task.ioc, Len(x.segs))]
    /\ called' = called_after(x.task.ioc)
    /\ UNCHANGED <<pc, primary, releasing>>

(* Variant: ref is looked at before the subtask gives up its own.            *)
ReadChecksRefFirst ==
  \E x \in {cq[i] : i \in DOMAIN cq} :
    /\ Completing(x, "read") /\ x.task.return_code # 0
    /\ buf' = CopiedOut(x)
    /\ release_segs(x)
    /\ primary' = IF x.task.sub
                    THEN [return_code |-> IF primary.ref = 0 THEN 0 ELSE primary.return_code,
                          ref |-> primary.ref - 1]
                    ELSE [primary EXCEPT !.return_code = 0]
    /\ ioc' = [ioc EXCEPT ![x.task.ioc].num_running = @ - 1,
                          ![x.task.ioc].total_nseg = @ - Len(x.segs)]
    /\ UNCHANGED <<pc, releasing, called>>

(* A task of read(): its last subtask, or the single task, sets the code     *)
(* read() returns.                                                           *)
io_complete_read ==
  \E x \in {cq[i] : i \in DOMAIN cq} :
    /\ Completing(x, "read") /\ x.task.return_code # 0
    /\ buf' = CopiedOut(x)
    /\ release_segs(x)
    /\ primary' = IF x.task.sub
                    THEN [return_code |-> IF primary.ref = 1 THEN 0 ELSE primary.return_code,
                          ref |-> primary.ref - 1]
                    ELSE [primary EXCEPT !.return_code = 0]
    /\ ioc' = [ioc EXCEPT ![x.task.ioc].num_running = @ - 1,
                          ![x.task.ioc].total_nseg = @ - Len(x.segs)]
    /\ UNCHANGED <<pc, releasing, called>>

----------------------------------------------------------------------------
(* A failed poll, a command SPDK refuses, or a completion that carries an    *)
(* error: abort() or a failed assert ends the process.                       *)
Abort ==
  /\ pc = "process" \/ (pc = "issue" /\ t # << >> /\ ~ NoSlot /\ ~ NoBufs)
  /\ pc' = "aborted"
  /\ UNCHANGED loop_vars

(* The process is started again on the same namespace.                       *)
Restart ==
  /\ pc = "aborted"
  /\ pc' = "idle" /\ current' = Nobody /\ t' = << >>
  /\ \E p \in BOOLEAN : ioc' = [c \in Ioc |-> NewIoc(c = Async /\ p)]
  /\ primary' = [return_code |-> 0, ref |-> 0]
  /\ flight' = {} /\ cq' = << >> /\ releasing' = {}
  /\ data_buf_list' = Buf
  /\ mem' = [b \in Buf |-> Hook]
  /\ current_queue_depth' = 0
  /\ buf' = [c \in Ioc |-> NoBuf]
  /\ called' = 0
  /\ UNCHANGED disk

----------------------------------------------------------------------------
(* The controller executes one outstanding command, in any order.            *)
Execute(x) ==
  /\ x \in flight /\ pc # "aborted"
  /\ flight' = flight \ {x}
  /\ cq' = Append(cq, x)
  /\ LET blocks == x.task.off .. x.task.off + x.task.len - 1
         seg(l) == x.segs[l - x.task.off + 1]
     IN  IF x.task.cmd = "write"
           THEN /\ disk' = [l \in Lba |-> IF l \in blocks THEN mem[seg(l)] ELSE disk[l]]
                /\ UNCHANGED mem
           ELSE /\ mem' = [b \in Buf |-> IF \E l \in blocks : seg(l) = b
                                          THEN disk[CHOOSE l \in blocks : seg(l) = b]
                                          ELSE mem[b]]
                /\ UNCHANGED disk
  /\ UNCHANGED <<pc, current, t, ioc, primary, releasing, data_buf_list,
                 current_queue_depth, buf, called>>

Controller == \E x \in flight : Execute(x)

Caller ==
  \/ \E off \in Lba, f \in Contents : write(off, f) \/ aio_write(off, f)
  \/ \E off \in Lba, len \in 1 .. Slots : read(off, len) \/ aio_read(off, len)
  \/ Submit \/ NewIOContext

Thread ==
  \/ While \/ Return \/ Again \/ Processed \/ GotoAgain \/ Issue \/ AllIssued
  \/ io_complete_write \/ ReleaseWrite \/ io_complete_aio_read \/ io_complete_read

Next == Caller \/ Thread \/ Controller \/ Abort \/ Restart

Spec == Init /\ [][Next]_vars

(* The thread runs, and the controller executes every command it was given.  *)
FairSpec == Spec /\ WF_vars(Thread) /\ WF_vars(Controller)

----------------------------------------------------------------------------
(* Properties.                                                               *)

Commands == flight \cup {cq[i] : i \in DOMAIN cq}

(* Type correctness.                                                         *)
TypeOK ==
  /\ pc \in {"idle", "while", "again", "process", "issue", "release", "aborted"}
  /\ current \in Ioc \cup {Nobody}
  /\ t \in Seq(Task)
  /\ ioc \in [Ioc -> [alive : BOOLEAN, priv : BOOLEAN, tasks : Seq(Task),
                     num_pending : Nat, num_running : Nat, total_nseg : Nat]]
  /\ primary \in [return_code : {0, 1}, ref : Nat]
  /\ flight \subseteq Issued /\ cq \in Seq(Issued) /\ releasing \subseteq Issued
  /\ data_buf_list \subseteq Buf
  /\ mem \in [Buf -> Data \cup {NoData, Hook}]
  /\ current_queue_depth \in 0 .. MaxQueueDepth
  /\ buf \in [Ioc -> [Slot -> Data \cup {NoData}]]
  /\ called \in Nat
  /\ disk \in [Lba -> Data]

(* A DMA buffer is on the free list or belongs to exactly one command, never *)
(* both, and none is lost: alloc_buf_from_pool and release_segs move buffers *)
(* between the list and the tasks over any order of completions.             *)
BuffersOwnedOnce ==
  LET owners == Commands \cup releasing
  IN  /\ data_buf_list \cup UNION {Used(x) : x \in owners} = Buf
      /\ \A x \in owners :
           /\ Used(x) \cap data_buf_list = {}
           /\ Cardinality(Used(x)) = Len(x.segs)
           /\ \A y \in owners \ {x} : Used(x) \cap Used(y) = {}

(* The counters agree with the tasks they count: the queue depth with the    *)
(* commands in the queue pair, num_running with what the loop still waits    *)
(* for, total_nseg with the buffers held, ref with the subtasks left.  A     *)
(* wrong one ends the loop early, or never.                                  *)
CountersAgree ==
  pc # "aborted" =>
    /\ current_queue_depth = Cardinality(flight) + Len(cq)
    /\ \A c \in Ioc :
         /\ ioc[c].num_pending = Len(ioc[c].tasks)
         /\ ioc[c].num_running = IF c = current THEN current_queue_depth + Len(t) ELSE 0
         /\ ioc[c].total_nseg =
              IF c = current
                THEN Cardinality(UNION {Used(x) : x \in Commands \cup releasing}) ELSE 0
    /\ primary.ref = Cardinality({x \in Commands : x.task.sub})
                     + Cardinality({i \in DOMAIN t : t[i].sub})

(* Going back to poll because the queue or the pool is exhausted makes sense *)
(* only when a command is outstanding: otherwise the poll is skipped and the *)
(* thread spins forever.                                                     *)
ExhaustionIsTemporary ==
  pc = "issue" /\ t # << >> /\ (NoSlot \/ NoBufs) => Commands # {}

(* A call returns success and only when nothing of it is left in the queue.  *)
ReturnMeansDone ==
  pc = "while" /\ ioc[current].num_running = 0 =>
    primary.return_code = 0 /\ Commands = {} /\ t = << >> /\ releasing = {}

(* "check waiting count before doing callback (which may destroy this ioc)"  *)
(* (driver_queue.cpp): what runs after the callback uses no destroyed ioc.   *)
(* ReleaseWrite updates total_nseg and While reads num_running.              *)
NoUseAfterCallback ==
  pc \in {"release", "while"} => ioc[current].alive

(* Every call comes back, unless the process dies: with fewer slots and      *)
(* buffers than tasks, the loop goes round until all is done.                *)
CallsReturn == (pc = "while") ~> (pc \in {"idle", "aborted"})

(* What the loop does is what BlockIO promises.  A read the controller has   *)
(* executed counts as read: until fill_cb runs, the data is in the DMA       *)
(* buffers, and must still be right there when it does.                      *)
Blocks(task) ==
  {[ioc |-> task.ioc, cmd |-> task.cmd, lba |-> task.off + k, slot |-> task.slot + k]
     : k \in 0 .. task.len - 1}

BlocksOf(q) == UNION {Blocks(q[i]) : i \in DOMAIN q}

Delivered(c, s) ==
  {x.segs[s - x.task.slot + 1] :
     x \in {y \in {cq[i] : i \in DOMAIN cq} :
              y.task.cmd = "read" /\ y.task.ioc = c
              /\ s \in y.task.slot .. y.task.slot + y.task.len - 1}}

Dead == pc = "aborted"

B == INSTANCE BlockIO WITH
  buf <- [c \in Ioc |-> [s \in Slot |->
            IF Dead THEN NoData
            ELSE IF Delivered(c, s) # {} THEN mem[CHOOSE b \in Delivered(c, s) : TRUE]
            ELSE buf[c][s]]],
  priv <- ioc[Async].priv,
  staged <- IF Dead THEN {} ELSE BlocksOf(ioc[Async].tasks),
  running <- IF Dead THEN {} ELSE BlocksOf(t) \cup UNION {Blocks(x.task) : x \in flight},
  current <- IF Dead THEN Nobody ELSE current,
  called <- IF Dead THEN 0 ELSE called

ImplementsBlockIO == B!BSpec
=============================================================================
